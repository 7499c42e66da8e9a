----------------------------- MODULE AgentTools -----------------------------
(* What the agent does with a reply of the model that asks for tools: the    *)
(* parsers of tool calls (src/agent/context.c), the registry and the tools   *)
(* (src/tool/tool.c), and the memory that some of them change, which is      *)
(* written to a file after every change and read at the start                *)
(* (src/memory/memory.c).                                                    *)
(*                                                                           *)
(* A text is a sequence of tokens: bare words, parentheses and quoted        *)
(* strings, which are sequences of words themselves.  The calls a reply is   *)
(* meant to make are written in the format of the system prompt              *)
(* (context.c 24-62), (name keyword value ...), or as the tool_calls array   *)
(* of the API.  Replies are complete and nothing follows the list: bounds.   *)
EXTENDS Naturals, FiniteSets, SequencesExt

CONSTANTS Replies,      \* sequences of calls a reply may be meant to make
          ToolRequests,     \* [name, arg] of POST /tools/execute
          MaxReplies, MaxFaults

VARIABLES agWritten,    \* the calls the reply is meant to make
          agCalls,      \* tool_call_list, what the parser made of the reply
          agNext,       \* the next of them, 0 between replies
          agResult,     \* the last tool message: [name, result]
          agEntries,    \* MemoryManager.entries
          agFile,       \* memory.json: a sequence of entries, or Truncated
          agSaving,     \* memory_save has opened the file and not written it
          agMeant,      \* what the replies so far should have made of the memory
          agFaulty,     \* a save failed or was cut short since the last good one
          agReplies, agFaults
agVars == << agWritten, agCalls, agNext, agResult, agEntries, agFile, agSaving,
             agMeant, agFaulty, agReplies, agFaults >>

Word(s) == [quoted |-> FALSE, words |-> << s >>]
Quoted(ws) == [quoted |-> TRUE, words |-> ws]
Open == Word("(")
Close == Word(")")

(* A parsed call; Unnamed is an entry that calloc cleared and no call filled. *)
Call(name, args) == [name |-> name, args |-> args]
NoResult == [name |-> "NULL", result |-> "none"]
Unnamed == Call("NULL", << >>)

(* The first value under a keyword; tool_args_get of src/tool/tool.c.       *)
tool_args_get(args, key) ==
    LET at == {i \in DOMAIN args : args[i].key = key}
    IN  IF at = {} THEN << >> ELSE args[CHOOSE i \in at : \A j \in at : i <= j].value
Value(c, key) == tool_args_get(c.args, key)

(* Names and keywords are words, and no value is the empty string, which the *)
(* empty sequence, for a missing argument, would not tell from none.         *)
Arguments == [key : STRING, value : Seq(STRING)]
WellFormed(c) ==
    /\ c.name \notin {"(", ")", "NULL"}
    /\ \A i \in DOMAIN c.args : c.args[i].key \notin {"(", ")", "NULL"} /\ c.args[i].value # << >>
ASSUME RepliesAssumption ==
    /\ Replies \subseteq Seq([name : STRING, args : Seq(Arguments)])
    /\ \A calls \in Replies : \A i \in DOMAIN calls : WellFormed(calls[i])
    /\ ToolRequests \subseteq [name : STRING, arg : Seq(STRING)]
    /\ MaxReplies \in Nat /\ MaxFaults \in Nat

(***************************************************************************)
(* The text of a reply                                                      *)
(***************************************************************************)
TextOfArg(a) == << Word(a.key), Quoted(a.value) >>
TextOfCall(c) == << Open, Word(c.name) >> \o FlattenSeq([i \in DOMAIN c.args |-> TextOfArg(c.args[i])])
                 \o << Close >>
(* What follows "(tool-calls".                                              *)
TextOf(calls) == FlattenSeq([i \in DOMAIN calls |-> TextOfCall(calls[i])]) \o << Close >>

(***************************************************************************)
(* parse_tool_calls_from_sexp                                               *)
(***************************************************************************)
Characters(text) ==
    FlattenSeq([i \in DOMAIN text |->
        IF text[i].quoted THEN text[i].words \o << "quote" >> ELSE text[i].words])

(* How many calls are allocated: the opening parentheses that no closing one *)
(* follows, those inside strings too; the character after one is passed over. *)
CountAt(chars, acc, i) ==
    IF acc.skip THEN [acc EXCEPT !.skip = FALSE]
    ELSE IF chars[i] # "(" \/ i = Len(chars) THEN acc
    ELSE [n |-> IF chars[i + 1] = ")" THEN acc.n ELSE acc.n + 1, skip |-> TRUE]
CountCalls(text) ==
    LET chars == Characters(text)
        count(acc, i) == CountAt(chars, acc, i)
    IN  FoldLeftDomain(count, [n |-> 0, skip |-> FALSE], chars).n

(* The second scan.  A bare word is a keyword when a value follows it, and   *)
(* the value of an argument "arg" otherwise; so is a string by itself.       *)
Outside == [calls |-> << >>, at |-> "outside", name |-> "", args |-> << >>, word |-> "NULL"]
Arg(key, value) == [key |-> key, value |-> value]
Settle(s) ==
    IF s.word = "NULL" THEN s
    ELSE [s EXCEPT !.args = Append(@, Arg("arg", << s.word >>)), !.word = "NULL"]
EndCall(s) ==
    LET t == Settle(s)
    IN  [Outside EXCEPT !.calls = Append(s.calls, Call(s.name, t.args))]
ScanArgument(s, t) ==
    IF t = Close THEN EndCall(s)
    ELSE IF s.word # "NULL" /\ t # Open
         THEN [s EXCEPT !.args = Append(@, Arg(s.word, t.words)), !.word = "NULL"]
    ELSE IF t.quoted THEN [s EXCEPT !.args = Append(@, Arg("arg", t.words))]
    ELSE [Settle(s) EXCEPT !.word = t.words[1]]
ScanToken(s, t) ==
    CASE s.at = "outside" -> IF t = Open THEN [s EXCEPT !.at = "name"] ELSE s
      [] s.at = "name" -> IF t = Close THEN [s EXCEPT !.at = "outside"]
                          ELSE [s EXCEPT !.at = "args", !.name = t.words[1]]
      [] s.at = "args" -> ScanArgument(s, t)

parse_tool_calls_from_sexp(text) ==
    LET n == CountCalls(text)
        parsed == FoldLeft(ScanToken, Outside, text).calls
    IN  IF text = << >> \/ text[1] # Open THEN << >>
        ELSE [i \in 1..n |-> IF i <= Len(parsed) THEN parsed[i] ELSE Unnamed]

(* The native format: the API has taken the calls apart already.            *)
parse_tool_calls_from_json(calls) == calls

parse_response_tool_calls(native, calls) ==
    IF native /\ calls # << >> THEN parse_tool_calls_from_json(calls)
    ELSE parse_tool_calls_from_sexp(TextOf(calls))

(***************************************************************************)
(* The memory                                                               *)
(***************************************************************************)
Truncated == << Arg(<< "truncated" >>, << >>) >>
IndexOf(key) == {i \in DOMAIN agEntries : agEntries[i].key = key}

WithEntry(key, value) ==
    IF IndexOf(key) = {} THEN Append(agEntries, Arg(key, value))
    ELSE [i \in DOMAIN agEntries |-> IF i \in IndexOf(key) THEN Arg(key, value) ELSE agEntries[i]]
WithoutEntry(key) ==
    FlattenSeq([i \in DOMAIN agEntries |->
        IF agEntries[i].key = key THEN << >> ELSE << agEntries[i] >>])

(* memory_save cannot create the directory or open the file: the caller      *)
(* ignores it.  Otherwise the file is truncated first and written then.      *)
SaveFails ==
    /\ agFaults < MaxFaults /\ agFaults' = agFaults + 1
    /\ agFaulty' = TRUE
    /\ UNCHANGED << agFile, agSaving >>
OpenFile ==
    /\ agFile' = Truncated
    /\ agSaving' = TRUE
    /\ UNCHANGED << agFaulty, agFaults >>
memory_save == SaveFails \/ OpenFile

memory_set(key, value) == agEntries' = WithEntry(key, value) /\ memory_save
memory_delete_unsaved(key) ==
    /\ agEntries' = WithoutEntry(key)
    /\ UNCHANGED << agFile, agSaving, agFaulty, agFaults >>
memory_delete(key) ==
    IF IndexOf(key) = {} THEN UNCHANGED << agEntries, agFile, agSaving, agFaulty, agFaults >>
    ELSE agEntries' = WithoutEntry(key) /\ memory_save
memory_load == agEntries' = IF agFile = Truncated THEN << >> ELSE agFile

(***************************************************************************)
(* The tools: what execute does and returns                                 *)
(***************************************************************************)
Got(args, keys) == \E k \in keys : tool_args_get(args, k) # << >>
FirstOf(args, k1, k2) ==
    IF tool_args_get(args, k1) # << >> THEN tool_args_get(args, k1) ELSE tool_args_get(args, k2)

NoMemoryChange == UNCHANGED << agEntries, agFile, agSaving, agFaulty, agFaults >>

(* Without a key and a value, "arg" is taken as the key, a blank, the value. *)
tool_save_memory(args, result) ==
    LET key == tool_args_get(args, "key")
        value == tool_args_get(args, "value")
        arg == tool_args_get(args, "arg")
    IN  IF key # << >> /\ value # << >> THEN memory_set(key, value) /\ result = "ok"
        ELSE IF Len(arg) > 1 THEN memory_set(<< Head(arg) >>, Tail(arg)) /\ result = "ok"
        ELSE NoMemoryChange /\ result = "error"

tool_delete_memory(args, result) ==
    IF Got(args, {"key", "arg"}) THEN memory_delete(FirstOf(args, "key", "arg")) /\ result = "ok"
    ELSE NoMemoryChange /\ result = "error"

tool_read_memory(args, result) ==
    /\ NoMemoryChange
    /\ LET key == FirstOf(args, "key", "arg")
       IN  result = IF \E i \in IndexOf(key) : TRUE THEN "found" ELSE "ok"

(* The others leave the memory alone: they fail without one of their        *)
(* arguments, and may fail with it unless they only compute.                *)
Needs(args, keys, result) ==
    NoMemoryChange /\ IF Got(args, keys) THEN result \in {"ok", "error"} ELSE result = "error"
tool_calculate(args, result) == Needs(args, {"expression", "arg"}, result)
tool_get_time(args, result) == NoMemoryChange /\ result = "ok"
tool_reverse_string(args, result) ==
    NoMemoryChange /\ result = IF Got(args, {"text", "arg"}) THEN "ok" ELSE "error"
tool_read_file(args, result) == Needs(args, {"path", "arg"}, result)
tool_write_file(args, result) ==
    IF Got(args, {"path"}) THEN Needs(args, {"content"}, result) ELSE Needs(args, {}, result)
tool_search_web(args, result) == Needs(args, {"query", "arg"}, result)
tool_get_weather(args, result) == Needs(args, {"location", "arg"}, result)
tool_list_directory(args, result) == NoMemoryChange /\ result \in {"ok", "error"}
tool_web_fetch(args, result) == Needs(args, {"url", "arg"}, result)
tool_shell_execute(args, result) == Needs(args, {"command", "cmd", "arg"}, result)
tool_grep_execute(args, result) ==
    IF Got(args, {"path", "file"}) THEN Needs(args, {"pattern", "arg"}, result)
    ELSE Needs(args, {}, result)
tool_sed_execute(args, result) ==
    IF Got(args, {"path", "file"}) THEN Needs(args, {"expression", "expr", "arg"}, result)
    ELSE Needs(args, {}, result)
(* Without a query, or with "all", every skill is listed.                   *)
tool_skill_search(args, result) == NoMemoryChange /\ result = "ok"
tool_skill_match(args, result) ==
    NoMemoryChange /\ result = IF Got(args, {"query", "keyword", "arg"}) THEN "ok" ELSE "error"
(* An unknown skill gives a text too.                                       *)
tool_skill_preview(args, result) ==
    NoMemoryChange /\ result = IF Got(args, {"name", "skill", "arg"}) THEN "ok" ELSE "error"
(* No history and no match give a text too.                                 *)
tool_recall_history(args, result) == NoMemoryChange /\ result = "ok"

(* agent_init's table.  The system prompt's example web_fetch is not in it.  *)
execute(name, args, result) ==
    CASE name = "calculator"     -> tool_calculate(args, result)
      [] name = "time"           -> tool_get_time(args, result)
      [] name = "reverse-string" -> tool_reverse_string(args, result)
      [] name = "read-file"      -> tool_read_file(args, result)
      [] name = "write-file"     -> tool_write_file(args, result)
      [] name = "web-search"     -> tool_search_web(args, result)
      [] name = "memory-save"    -> tool_save_memory(args, result)
      [] name = "memory-load"    -> tool_read_memory(args, result)
      [] name = "memory-delete"  -> tool_delete_memory(args, result)
      [] name = "get-weather"    -> tool_get_weather(args, result)
      [] name = "list-directory" -> tool_list_directory(args, result)
      [] name = "web-fetch"      -> tool_web_fetch(args, result)
      [] name = "shell"          -> tool_shell_execute(args, result)
      [] name = "grep"           -> tool_grep_execute(args, result)
      [] name = "sed"            -> tool_sed_execute(args, result)
      [] name = "skill-search"   -> tool_skill_search(args, result)
      [] name = "skill-match"    -> tool_skill_match(args, result)
      [] name = "skill-preview"  -> tool_skill_preview(args, result)
      [] name = "recall-history" -> tool_recall_history(args, result)
      [] OTHER -> NoMemoryChange /\ result = "not found"

(***************************************************************************)
(* The agent's loop over the calls                                          *)
(***************************************************************************)
AgInit ==
    /\ agWritten = << >> /\ agCalls = << >> /\ agNext = 0 /\ agResult = NoResult
    /\ agEntries = << >> /\ agFile = << >> /\ agSaving = FALSE
    /\ agMeant = {} /\ agFaulty = FALSE
    /\ agReplies = 0 /\ agFaults = 0

(* What a call, as it is written, means for the memory.                     *)
Remembered(meant, key, value) == {e \in meant : e.key # key} \cup {Arg(key, value)}
Forgotten(meant, key) == {e \in meant : e.key # key}
Meaning(meant, c) ==
    LET key == Value(c, "key")
        value == Value(c, "value")
        arg == Value(c, "arg")
        named == key # << >> /\ value # << >>
    IN  CASE c.name = "memory-save" /\ named -> Remembered(meant, key, value)
          [] c.name = "memory-save" /\ ~named /\ Len(arg) > 1 ->
                Remembered(meant, << Head(arg) >>, Tail(arg))
          [] c.name = "memory-delete" -> Forgotten(meant, IF key # << >> THEN key ELSE arg)
          [] OTHER -> meant

ModelReplies ==
    /\ agNext = 0 /\ ~agSaving /\ agReplies < MaxReplies
    /\ agReplies' = agReplies + 1
    /\ \E calls \in Replies, native \in BOOLEAN :
          /\ agWritten' = calls
          /\ agCalls' = parse_response_tool_calls(native, calls)
    /\ agNext' = 1
    /\ agResult' = NoResult
    /\ UNCHANGED << agEntries, agFile, agSaving, agMeant, agFaulty, agFaults >>

ExecuteCall ==
    /\ agNext \in DOMAIN agCalls /\ ~agSaving
    /\ LET c == agCalls[agNext] IN
       \E result \in {"ok", "found", "error", "not found"} :
          /\ execute(c.name, c.args, result)
          /\ agResult' = [name |-> c.name, result |-> result]
    /\ agNext' = agNext + 1
    /\ agMeant' = IF agNext \in DOMAIN agWritten THEN Meaning(agMeant, agWritten[agNext]) ELSE agMeant
    /\ UNCHANGED << agWritten, agCalls, agReplies >>

(* memory_save again: fprintf and fclose.                                   *)
WriteFile ==
    /\ agSaving
    /\ agSaving' = FALSE
    /\ agFile' = agEntries
    /\ agFaulty' = FALSE
    /\ UNCHANGED << agWritten, agCalls, agNext, agResult, agEntries, agMeant, agReplies, agFaults >>

CallsDone ==
    /\ agNext > Len(agCalls) /\ ~agSaving
    /\ agNext' = 0
    /\ agMeant' = FoldLeft(Meaning, agMeant, SubSeq(agWritten, agNext, Len(agWritten)))
    /\ agWritten' = << >> /\ agCalls' = << >>
    /\ UNCHANGED << agResult, agEntries, agFile, agSaving, agFaulty, agReplies, agFaults >>

(* The HTTP API runs a tool on the thread of its server, at any time; its    *)
(* argument is one string.  The mutex of the memory keeps it out while the   *)
(* agent's thread changes the entries and saves them.                        *)
OverHttp(r) == Call(r.name, << Arg("arg", r.arg) >>)
ExecuteOverHttp ==
    /\ ~agSaving /\ agReplies < MaxReplies
    /\ agReplies' = agReplies + 1
    /\ \E r \in ToolRequests :
          /\ \E result \in {"ok", "found", "error", "not found"} :
                execute(r.name, OverHttp(r).args, result)
          /\ agMeant' = Meaning(agMeant, OverHttp(r))
    /\ UNCHANGED << agWritten, agCalls, agNext, agResult >>

(* The process ends at any point and is started again (memory_manager_init). *)
(* What a failed or interrupted save had not written is forgotten.           *)
Restart ==
    /\ agFaults < MaxFaults /\ agFaults' = agFaults + 1
    /\ memory_load
    /\ agFaulty' = (agFile = Truncated)
    /\ agMeant' = IF agFaulty \/ agSaving THEN ToSet(agEntries') ELSE agMeant
    /\ agSaving' = FALSE
    /\ agWritten' = << >> /\ agCalls' = << >> /\ agNext' = 0 /\ agResult' = NoResult
    /\ UNCHANGED << agFile, agReplies >>

AgNext == ModelReplies \/ ExecuteOverHttp \/ ExecuteCall \/ WriteFile \/ CallsDone \/ Restart
AgSpec == AgInit /\ [][AgNext]_agVars

AgentToolsTypeOK ==
    /\ agWritten \in Replies \cup {<< >>}
    /\ \A i \in DOMAIN agCalls : agCalls[i].args \in Seq(Arguments)
    /\ agNext \in 0..(Len(agCalls) + 1)
    /\ agSaving \in BOOLEAN /\ agFaulty \in BOOLEAN
    /\ agReplies \in 0..MaxReplies /\ agFaults \in 0..MaxFaults

(***************************************************************************)
(* Properties                                                               *)
(***************************************************************************)

(* Between replies, the memory is what the calls written in the replies so   *)
(* far make of it, each value under its own key, whatever the format of the  *)
(* reply and through restarts, as long as no save failed or was cut short.   *)
RemembersWhatItWasTold ==
  /\ AgentToolsTypeOK
  /\ agNext = 0 /\ ~agSaving /\ ~agFaulty =>
        /\ ToSet(agEntries) = agMeant
        /\ agFile = agEntries

=============================================================================
