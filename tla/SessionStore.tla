---------------------------- MODULE SessionStore ----------------------------
(***************************************************************************)
(* The session of the agent's conversation, in memory and on disk          *)
(* (session/session.c, and steps 2 to 7 of the worker's loop in            *)
(* agent/context.c): a message opens the session, which may load it from   *)
(* disk, is added and the history trimmed; the model is called with the    *)
(* last messages, for several rounds when it asks for tools; then the      *)
(* session is saved.  Another thread may clear the session, and the        *)
(* process may stop at any point and start again.                          *)
(*                                                                         *)
(* There is one session key, "default": agent_send_message uses no other.  *)
(* The two files of the session are the lines of default.jsonl and the     *)
(* entry that session_load finds in sessions.json.                         *)
(***************************************************************************)
EXTENDS Naturals, Sequences, SequencesExt

CONSTANTS MaxHistory,    \* session.max_history_per_session (100)
          ContextLimit,  \* session.context_history_limit (5)
          MaxSessions,   \* session.max_sessions
          MaxIterations, \* max_iterations of the agent loop (10)
          MaxTools,      \* bound: tool calls in one answer
          MaxMessages,   \* bound: messages added to the session
          MaxCrashes,    \* bound: restarts of the process
          Torn,          \* a line of the file that is no message
          Freed          \* what a pointer to a destroyed message reads

Messages == 1..MaxMessages

ASSUME SessionStoreAssumption ==
    /\ ContextLimit \in Nat \ {0}
    /\ MaxHistory \in Nat \ {0}
    /\ MaxSessions \in Nat \ {0}
    /\ MaxIterations \in Nat \ {0}
    /\ MaxTools \in Nat /\ MaxMessages \in Nat /\ MaxCrashes \in Nat
    /\ Torn \notin Messages /\ Freed \notin Messages

VARIABLES manager,   \* SessionManager.sessions: each has its history, and "mine"
                     \* says whether its session_key is "default"
          cur,       \* the index of the session the worker has in hand
          context,   \* the messages handed to the model
          round,     \* iterations of the agent loop
          pc,        \* where the worker is
          file,      \* the lines of default.jsonl
          onDisk,    \* default.jsonl exists
          openLine,  \* its last line has no newline
          meta,      \* sessions.json: the sessionKey of the entry found first
          added,     \* the number of messages made so far
          crashes,   \* the number of restarts
          conv,      \* history: the conversation since it was last cleared
          saved,     \* history: what the last session_save that wrote was given
          savedConv, \* history: the conversation at that time
          torn,      \* history: the process stopped while the lines were written
          split      \* history: the process stopped inside session_save

sessionVars == <<manager, cur, context, round, pc>>
diskVars == <<file, onDisk, openLine, meta>>
historyVars == <<conv, saved, savedConv, torn, split>>
vars == <<manager, cur, context, round, pc, file, onDisk, openLine, meta, added,
          crashes, conv, saved, savedConv, torn, split>>

Init ==
    /\ manager = <<>>
    /\ cur = 0
    /\ context = <<>>
    /\ round = 0
    /\ pc = "boot"
    /\ file = <<>>
    /\ onDisk = FALSE
    /\ openLine = FALSE
    /\ meta = "none"
    /\ added = 0
    /\ crashes = 0
    /\ conv = <<>> /\ saved = <<>> /\ savedConv = <<>>
    /\ torn = FALSE /\ split = FALSE

\* The last n elements of s, all of them if there are fewer.
LastOf(s, n) == IF Len(s) <= n THEN s ELSE SubSeq(s, Len(s) - n + 1, Len(s))

\* message_list_from_jsonl adds the lines one by one, and skips those that are no
\* message.
Readable(lines) ==
    LET upTo[n \in 0..Len(lines)] ==
            IF n = 0 THEN <<>>
            ELSE IF lines[n] \in Messages THEN Append(upTo[n - 1], lines[n])
            ELSE upTo[n - 1]
    IN  upTo[Len(lines)]

\* The lines of the file after more of them are appended: the first one goes on
\* a line that was left open, and spoils it.
Written(lines) ==
    IF openLine /\ lines # <<>> THEN Front(file) \o <<Torn>> \o Tail(lines)
    ELSE file \o lines

-----------------------------------------------------------------------------
(* Plausible slips in the code below. *)

FirstOf(s, n) ==                 \* the oldest messages are kept
    IF Len(s) <= n THEN s ELSE SubSeq(s, 1, n)

TrimFirst(h) == FirstOf(h, MaxHistory)

SaveForgetsMetadata ==           \* session_save returns after the history
    /\ pc = "meta"
    /\ pc' = "idle"
    /\ UNCHANGED <<manager, cur, context, round, diskVars, added, crashes, historyVars>>

-----------------------------------------------------------------------------
(* session_manager_get_or_create *)

\* The sessions with s added, and its index; sessions[0] makes room.
Add(s) ==
    LET kept == IF Len(manager) >= MaxSessions THEN Tail(manager) ELSE manager
    IN  <<Append(kept, s), Len(kept) + 1>>

\* Whether a loaded session has the key "default": the entry of sessions.json
\* says.  Without one, session_load tests session_key before it was ever set
\* (session.c:417): NULL gives the key of the ID, anything else stays.
KeyRead ==
    CASE meta = "mine" -> {TRUE}
      [] meta = "other" -> {FALSE}
      [] meta = "none" -> BOOLEAN

\* The possible results of opening the session: the sessions and an index.
Opened ==
    LET found == {i \in DOMAIN manager : manager[i].mine}
    IN  IF found # {} THEN {<<manager, CHOOSE i \in found : \A j \in found : i <= j>>}
        ELSE IF onDisk THEN {Add([mine |-> k, history |-> Readable(file)]) : k \in KeyRead}
        ELSE {Add([mine |-> TRUE, history |-> <<>>])}

\* agent_init opens the session before any message arrives.
Boot ==
    /\ pc = "boot"
    /\ \E o \in Opened : manager' = o[1]
    /\ pc' = "idle"
    /\ UNCHANGED <<cur, context, round, diskVars, added, crashes, historyVars>>

-----------------------------------------------------------------------------
(* The worker's loop *)

\* Step 3: the oldest messages are destroyed.
Trim(h) == LastOf(h, MaxHistory)

\* Steps 2 to 5, with a new message of the user.
Receive ==
    /\ pc = "idle"
    /\ added < MaxMessages
    /\ added' = added + 1
    /\ \E o \in Opened :
        LET h == Trim(Append(o[1][o[2]].history, added'))
        IN  /\ manager' = [o[1] EXCEPT ![o[2]].history = h]
            /\ cur' = o[2]
            /\ context' = LastOf(h, ContextLimit)
    /\ round' = 1
    /\ pc' = "model"
    /\ conv' = Append(conv, added')
    /\ UNCHANGED <<diskVars, crashes, saved, savedConv, torn, split>>

\* n more messages, from the model and its tools, for the session and the context.
Extend(n) ==
    LET new == [i \in 1..n |-> added + i]
    IN  /\ added + n <= MaxMessages
        /\ added' = added + n
        /\ manager' = [manager EXCEPT ![cur].history = @ \o new]
        /\ context' = context \o new
        /\ conv' = conv \o new

\* The model answers without tool calls.
Reply ==
    /\ pc = "model"
    /\ Extend(1)
    /\ pc' = "save"
    /\ UNCHANGED <<cur, round, diskVars, crashes, saved, savedConv, torn, split>>

\* The model asks for tools: their results go back to it, ten times at most.
ToolRound ==
    /\ pc = "model"
    /\ \E n \in 1..MaxTools : Extend(1 + n)
    /\ IF round < MaxIterations THEN round' = round + 1 /\ UNCHANGED pc
       ELSE pc' = "save" /\ UNCHANGED round
    /\ UNCHANGED <<cur, diskVars, crashes, saved, savedConv, torn, split>>

\* No response, or an error.
ModelFails ==
    /\ pc = "model"
    /\ pc' = "save"
    /\ UNCHANGED <<manager, cur, context, round, diskVars, added, crashes, historyVars>>

-----------------------------------------------------------------------------
(* session_save *)

\* The whole history is appended to the file.  An empty one is an error.
SaveHistory ==
    LET h == manager[cur].history
    IN  /\ pc = "save"
        /\ IF h = <<>>
           THEN pc' = "idle" /\ UNCHANGED <<file, onDisk, openLine, saved, savedConv>>
           ELSE /\ file' = Written(h)
                /\ onDisk' = TRUE
                /\ openLine' = FALSE
                /\ saved' = h
                /\ savedConv' = conv
                /\ pc' = "meta"
        /\ UNCHANGED <<manager, cur, context, round, meta, added, crashes, conv, torn, split>>

\* sessions.json is read, gets one more entry and is written again: the entry
\* that was there stays the first.
SaveMetadata ==
    /\ pc = "meta"
    /\ meta' = IF meta # "none" THEN meta
               ELSE IF manager[cur].mine THEN "mine" ELSE "other"
    /\ pc' = "idle"
    /\ UNCHANGED <<manager, cur, context, round, file, onDisk, openLine, added,
                   crashes, historyVars>>

-----------------------------------------------------------------------------
\* agent_clear_session, on the thread of a command: the messages are destroyed,
\* those that the worker has in its context included; the files stay.
Clear ==
    /\ pc # "boot"
    /\ \E i \in DOMAIN manager :
        /\ manager[i].mine
        /\ \A j \in 1..i-1 : ~manager[j].mine
        /\ manager[i].history # <<>>
        /\ manager' = [manager EXCEPT ![i].history = <<>>]
    /\ conv' = <<>>
    /\ context' = [i \in DOMAIN context |-> Freed]
    /\ UNCHANGED <<cur, round, pc, diskVars, added, crashes, saved, savedConv, torn, split>>

\* The process stops, orderly or not: nothing is saved at shutdown.  Inside
\* session_save a part of the lines may be written, the last one half, and
\* sessions.json may have been truncated.
Crash ==
    /\ pc # "boot"
    /\ crashes < MaxCrashes
    /\ crashes' = crashes + 1
    /\ manager' = <<>> /\ cur' = 0 /\ context' = <<>> /\ round' = 0
    /\ pc' = "boot"
    /\ conv' = savedConv
    /\ split' = (split \/ pc \in {"save", "meta"})
    /\ \/ UNCHANGED <<diskVars, torn>>
       \/ /\ pc = "save"
          /\ \E k \in 0..Len(manager[cur].history), half \in BOOLEAN :
                /\ half => k < Len(manager[cur].history)
                /\ LET lines == SubSeq(manager[cur].history, 1, k)
                       rest == IF half THEN <<Torn>> ELSE <<>>
                   IN  file' = Written(lines \o rest)
                /\ openLine' = (half \/ (openLine /\ k = 0))
                /\ torn' = (torn \/ half \/ k > 0)
          /\ onDisk' = TRUE
          /\ UNCHANGED meta
       \/ /\ pc = "meta"
          /\ meta' = "none"
          /\ UNCHANGED <<file, onDisk, openLine, torn>>
    /\ UNCHANGED <<added, saved, savedConv>>

-----------------------------------------------------------------------------
Worker == Receive \/ Reply \/ ToolRound \/ ModelFails \/ SaveHistory \/ SaveMetadata

Next == Boot \/ Worker \/ Clear \/ Crash

Spec == Init /\ [][Next]_vars

-----------------------------------------------------------------------------
TypeOK ==
    /\ manager \in Seq([mine : BOOLEAN, history : Seq(Messages)])
    /\ Len(manager) <= MaxSessions
    /\ cur \in 0..Len(manager)
    /\ context \in Seq(Messages \cup {Freed})
    /\ round \in 0..MaxIterations
    /\ pc \in {"boot", "idle", "model", "save", "meta"}
    /\ file \in Seq(Messages \cup {Torn})
    /\ onDisk \in BOOLEAN /\ openLine \in BOOLEAN
    /\ openLine => file # <<>>
    /\ meta \in {"none", "mine", "other"}
    /\ added \in 0..MaxMessages
    /\ crashes \in 0..MaxCrashes
    /\ {conv, saved, savedConv} \subseteq Seq(Messages)
    /\ torn \in BOOLEAN /\ split \in BOOLEAN

\* What the model is told: although the file repeats the history with every
\* save, although histories are trimmed, sessions loaded under a wrong key and
\* cleared, the messages handed to the model end with the conversation as it
\* was held, as much of it as the two limits allow; unless the process was
\* stopped in the middle of writing the history.
ContextEndsWithConversation ==
    LET limit == IF MaxHistory < ContextLimit THEN MaxHistory ELSE ContextLimit
    IN  pc = "model" /\ ~torn => IsSuffix(LastOf(conv, limit), context)

\* The worker finds its session in memory again, and does not load it once more
\* for every message, as long as the process never stopped inside session_save,
\* which writes two files one after the other; and in any case the sessions fit
\* their table, and the current one is in it.
OneSession ==
  /\ TypeOK
  /\ ~split => Len(manager) <= 1 /\ \A i \in DOMAIN manager : manager[i].mine

\* docs/detail.md 4.3.2: what session_save writes to the file of the session is
\* its history, one message a line; a restart finds the history that was saved.
RestartRestoresHistory == ~torn => Readable(file) = saved
============================================================================
