--------------------------- MODULE SkillRegistry ---------------------------
(* The registry of skills (src/tool/skill.c) and the plugin loader under it  *)
(* (src/common/plugin.c).  Skills are files: documents (.md) and libraries   *)
(* (.so) in three directories, one per source; skill_system_init scans the   *)
(* directories in ascending priority, a watcher thread scans a directory     *)
(* again some time after the kernel reports a change of it, and /skill       *)
(* commands change the registry in between.  Nothing locks the registry.     *)
(*                                                                           *)
(* Steps are as coarse as one file of a scan and one command: reading a file *)
(* and adding its skill is one step, which loses nothing, since a change of  *)
(* the file in between is reported after both.  Bounds: one scan at a time   *)
(* (/skill reload waits for the watcher's scan and conversely), MaxChanges   *)
(* changes of files, MaxCommands commands.                                   *)
EXTENDS Naturals, FiniteSets, SequencesExt

CONSTANTS SkillFiles,   \* records [dir, nested, kind, base, name]
          MaxChanges,
          MaxCommands

(* Directories and sources are the same numbers, in the order of SkillSource; *)
(* a file of directory 0 is elsewhere and can only be loaded by a command.    *)
Sources == {1, 2, 3}
Unwatched == 0

ASSUME SkillAssumption ==
    /\ \A f \in SkillFiles : f.dir \in Sources \cup {Unwatched} /\ f.kind \in {"md", "so"}
    /\ MaxChanges \in Nat /\ MaxCommands \in Nat

VARIABLES skFiles,      \* file -> version of its content, 0 when it does not exist
          skRegistry,   \* g_skill_registry.skills
          skPlugins,    \* the plugin registry: records [base, file, version], bases differ
          skEvents,     \* directories of which inotify has unread events
          skBatch,      \* directories of the events read last, not handled yet
          skScan,       \* the scan under way: its thread, directories and files to come
          skStage,      \* "init", "running", "unplugged" (plugin_system_cleanup) or "over"
          skUnseen,     \* files whose last change no event reports (for the property)
          skChanges, skCommands
skVars == << skFiles, skRegistry, skPlugins, skEvents, skBatch, skScan, skStage,
             skUnseen, skChanges, skCommands >>

Watching == skStage \in {"running", "unplugged"}
NoScan == [who |-> "nobody", dirs |-> << >>, todo |-> {}]

SkillTypeOK ==
    /\ skFiles \in [SkillFiles -> 0..(MaxChanges + 1)]
    /\ \A i \in DOMAIN skRegistry :
          /\ skRegistry[i].file \in SkillFiles
          /\ skRegistry[i].source \in Sources
          /\ skRegistry[i].enabled \in BOOLEAN
    /\ \A p \in skPlugins : p.file \in SkillFiles /\ p.base = p.file.base
    /\ skEvents \subseteq Sources /\ skBatch \subseteq Sources
    /\ skScan.who \in {"nobody", "main", "watcher", "command"}
    /\ skScan.todo \subseteq SkillFiles
    /\ skUnseen \subseteq SkillFiles
    /\ skStage \in {"init", "running", "unplugged", "over"}
    /\ skChanges \in 0..MaxChanges /\ skCommands \in 0..MaxCommands

(***************************************************************************)
(* The registry                                                             *)
(***************************************************************************)
skill_find(reg, name) == {i \in DOMAIN reg : reg[i].name = name}
First(S) == CHOOSE i \in S : \A j \in S : i <= j
WithoutFirst(reg, S) == IF S = {} THEN reg ELSE RemoveAt(reg, First(S))

Skill(f, source) ==
    [name |-> f.name, source |-> source, file |-> f, version |-> skFiles[f], enabled |-> TRUE]

(* A skill of the same name is replaced in its place unless its source is    *)
(* higher; otherwise the new one is appended.                                *)
skill_add_to_registry(reg, new) ==
    LET same == skill_find(reg, new.name)
    IN  IF same = {} THEN Append(reg, new)
        ELSE IF new.source >= reg[First(same)].source THEN [reg EXCEPT ![First(same)] = new]
        ELSE reg

skill_remove_by_source(source) ==
    FlattenSeq([i \in DOMAIN skRegistry |->
        IF skRegistry[i].source # source THEN << skRegistry[i] >> ELSE << >>])

plugin_find(base) == {p \in skPlugins : p.base = base}
plugin_unload(base) == skPlugins \ plugin_find(base)

(* What the loaded libraries may be after plugin_load; nothing can be loaded *)
(* before plugin_system_init (which precedes the skills) or after            *)
(* plugin_system_cleanup.                                                    *)
plugin_load(others, f) ==
    {others} \cup IF skStage \in {"init", "running"}
                  THEN {others \cup {[base |-> f.base, file |-> f, version |-> skFiles[f]]}}
                  ELSE {}

(* A library whose base name is loaded: the first skill of a lower source,   *)
(* whichever library it comes from, leaves, and so does the loaded library.  *)
(* The new library may fail to load, or load and turn out not to be a skill.  *)
skill_load_from_source(f, source) ==
    LET reg == IF plugin_find(f.base) = {} THEN skRegistry
               ELSE WithoutFirst(skRegistry, {i \in DOMAIN skRegistry : skRegistry[i].source < source})
        others == plugin_unload(f.base)
    IN  \/ /\ skRegistry' = skill_add_to_registry(reg, Skill(f, source))
           /\ skPlugins' \in plugin_load(others, f) \ {others}
        \/ /\ skRegistry' = reg
           /\ skPlugins' \in plugin_load(others, f)

(* A document without a front matter is refused.                            *)
skill_load_markdown(f, source) ==
    /\ \/ skRegistry' = skill_add_to_registry(skRegistry, Skill(f, source))
       \/ UNCHANGED skRegistry
    /\ UNCHANGED skPlugins

LoadFile(f, source) ==
    IF f.kind = "so" THEN skill_load_from_source(f, source) ELSE skill_load_markdown(f, source)

(***************************************************************************)
(* Scans                                                                    *)
(***************************************************************************)
FilesOf(d) == {f \in SkillFiles : f.dir = d}
Present(d) == {f \in FilesOf(d) : skFiles[f] > 0}
Scan(who, dirs) == [who |-> who, dirs |-> dirs, todo |-> Present(Head(dirs))]

SkInit ==
    /\ skFiles \in [SkillFiles -> {0, 1}]
    /\ skRegistry = << >> /\ skPlugins = {}
    /\ skEvents = {} /\ skBatch = {}
    /\ skScan = [who |-> "main", dirs |-> << 1, 2, 3 >>, todo |-> Present(1)]
    /\ skStage = "init"
    /\ skUnseen = {}
    /\ skChanges = 0 /\ skCommands = 0

(* One entry of readdir, in any order; stat fails for a file that has gone.  *)
skill_load_from_dir(f) ==
    /\ f \in skScan.todo
    /\ IF skFiles[f] > 0 THEN LoadFile(f, Head(skScan.dirs))
       ELSE UNCHANGED << skRegistry, skPlugins >>
    /\ skScan' = [skScan EXCEPT !.todo = @ \ {f}]
    /\ UNCHANGED << skFiles, skEvents, skBatch, skStage, skUnseen, skChanges, skCommands >>

(* The next directory, whose skills a reload removes first; after the last   *)
(* one the thread of skill_system_init starts the watcher.                   *)
NextDirectory ==
    /\ skScan # NoScan /\ skScan.todo = {}
    /\ IF Len(skScan.dirs) > 1
       THEN LET dirs == Tail(skScan.dirs) IN
            /\ skScan' = Scan(skScan.who, dirs)
            /\ skRegistry' = IF skScan.who = "main" THEN skRegistry
                             ELSE skill_remove_by_source(Head(dirs))
            /\ UNCHANGED skStage
       ELSE /\ skScan' = NoScan
            /\ skStage' = IF skStage = "init" THEN "running" ELSE skStage
            /\ UNCHANGED skRegistry
    /\ UNCHANGED << skFiles, skPlugins, skEvents, skBatch, skUnseen, skChanges, skCommands >>

skill_system_init ==
    \/ \E f \in SkillFiles : skill_load_from_dir(f)
    \/ NextDirectory

(***************************************************************************)
(* The watcher thread                                                       *)
(***************************************************************************)
ReadEvents ==
    /\ Watching /\ skBatch = {} /\ skEvents # {} /\ skScan.who # "watcher"
    /\ skBatch' = skEvents
    /\ skEvents' = {}
    /\ UNCHANGED << skFiles, skRegistry, skPlugins, skScan, skStage, skUnseen,
                    skChanges, skCommands >>

skill_reload_without_removal(d) ==
    /\ UNCHANGED skRegistry
    /\ skScan' = Scan("watcher", << d >>)
skill_reload_from_dir(d) ==
    /\ skRegistry' = skill_remove_by_source(d)
    /\ skScan' = Scan("watcher", << d >>)

(* The directories of the batch one after the other, each two seconds later. *)
watcher_handle_change ==
    /\ skBatch # {} /\ skScan = NoScan
    /\ skBatch' = skBatch \ {First(skBatch)}
    /\ skill_reload_from_dir(First(skBatch))
    /\ UNCHANGED << skFiles, skPlugins, skEvents, skStage, skUnseen, skChanges, skCommands >>

watcher_thread_inotify == ReadEvents \/ watcher_handle_change

(***************************************************************************)
(* /skill commands, on whichever thread received them                       *)
(***************************************************************************)
skill_load(f) ==
    /\ f.kind = "so" /\ skFiles[f] > 0
    /\ skill_load_from_source(f, 1)
    /\ UNCHANGED skScan

skill_unload(name) ==
    LET named == skill_find(skRegistry, name) IN
    /\ named # {}
    /\ LET s == skRegistry[First(named)] IN
          /\ skRegistry' = RemoveAt(skRegistry, First(named))
          /\ skPlugins' = IF s.file.kind = "so" THEN plugin_unload(s.file.base)
                          ELSE skPlugins
    /\ UNCHANGED skScan

skill_set_enabled(name, on) ==
    LET named == skill_find(skRegistry, name) IN
    /\ named # {}
    /\ skRegistry' = [skRegistry EXCEPT ![First(named)].enabled = on]
    /\ UNCHANGED << skPlugins, skScan >>

skill_reload_all ==
    /\ skScan = NoScan
    /\ skRegistry' = skill_remove_by_source(1)
    /\ skScan' = Scan("command", << 1, 2, 3 >>)
    /\ UNCHANGED skPlugins

cmd_skill ==
    /\ skCommands < MaxCommands /\ skStage = "running"
    /\ skCommands' = skCommands + 1
    /\ \/ \E f \in SkillFiles : skill_load(f)
       \/ \E f \in SkillFiles : skill_unload(f.name)
       \/ \E f \in SkillFiles, on \in BOOLEAN : skill_set_enabled(f.name, on)
       \/ skill_reload_all
    /\ UNCHANGED << skFiles, skEvents, skBatch, skStage, skUnseen, skChanges >>

(***************************************************************************)
(* The files: somebody writes or removes one.  inotify reports it when the  *)
(* watch exists and the file is in the watched directory itself: watches    *)
(* are not recursive, scans are.  readdir may or may not return a file that *)
(* is created while it reads the directory.                                 *)
(***************************************************************************)
BeingRead(d) == skScan # NoScan /\ Head(skScan.dirs) = d
Reported(f) == Watching /\ f.dir # Unwatched /\ ~f.nested
FileChanges(f) ==
    /\ skChanges < MaxChanges /\ skStage # "over"
    /\ skChanges' = skChanges + 1
    /\ \/ skFiles' = [skFiles EXCEPT ![f] = skChanges + 2]
       \/ skFiles[f] > 0 /\ skFiles' = [skFiles EXCEPT ![f] = 0]
    /\ skEvents' = IF Reported(f) THEN skEvents \cup {f.dir} ELSE skEvents
    /\ skUnseen' = IF Reported(f) THEN skUnseen \ {f} ELSE skUnseen \cup {f}
    /\ \/ UNCHANGED skScan
       \/ BeingRead(f.dir) /\ skFiles[f] = 0 /\ skScan' = [skScan EXCEPT !.todo = @ \cup {f}]
    /\ UNCHANGED << skRegistry, skPlugins, skBatch, skStage, skCommands >>

(***************************************************************************)
(* Shutdown, on the main thread                                             *)
(***************************************************************************)
plugin_system_cleanup ==
    /\ skStage = "running"
    /\ skStage' = "unplugged"
    /\ skPlugins' = {}
    /\ UNCHANGED << skFiles, skRegistry, skEvents, skBatch, skScan, skUnseen, skChanges,
                    skCommands >>

(* skill_watcher_stop waits for the scan under way and drops the batch.      *)
skill_system_cleanup ==
    /\ skStage = "unplugged" /\ skScan = NoScan
    /\ skStage' = "over"
    /\ skRegistry' = << >>
    /\ skEvents' = {} /\ skBatch' = {}
    /\ UNCHANGED << skFiles, skPlugins, skScan, skUnseen, skChanges, skCommands >>

SkNext ==
    \/ plugin_system_cleanup \/ skill_system_cleanup
    \/ skill_system_init
    \/ watcher_thread_inotify
    \/ cmd_skill
    \/ \E f \in SkillFiles : FileChanges(f)

SkSpec == SkInit /\ [][SkNext]_skVars

(***************************************************************************)
(* Properties                                                               *)
(***************************************************************************)

(* When every reported change has been handled, no skill is registered that  *)
(* an older content of its file defines, or a file that is gone, whatever    *)
(* commands, scans and changes came in between; a name is registered once.   *)
(* A library that /skill load registered as a plugin skill from another      *)
(* source's directory is excepted: no reload of its directory removes it.    *)
Settled == skStage = "running" /\ skEvents = {} /\ skBatch = {} /\ skScan = NoScan
NoStaleSkill ==
  /\ SkillTypeOK
  /\ Settled => \A i \in DOMAIN skRegistry :
        LET s == skRegistry[i] IN
        /\ s.source = s.file.dir /\ s.file \notin skUnseen => s.version = skFiles[s.file]
        /\ \A j \in DOMAIN skRegistry : skRegistry[j].name = s.name => i = j

=============================================================================
