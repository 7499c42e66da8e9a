--------------------------- MODULE SerialChannel ---------------------------
(***************************************************************************)
(* What channels.h promises of the streaming tasks of a channel ("each     *)
(* channel is processed serially"): the tasks submitted to a channel are   *)
(* handed to its callbacks one at a time and in the order of submission.   *)
(* Nothing is said of threads, of the thread pool or of the flag that says *)
(* whether a channel is being processed: StreamQueue implements this.      *)
(***************************************************************************)
EXTENDS Sequences

CONSTANTS Channels, Tasks

VARIABLES pending,   \* channel -> the tasks that wait, oldest first
          current,   \* channel -> <<>>, or <<t>> while t is being processed
          done       \* channel -> the tasks processed, oldest first

vars == <<pending, current, done>>

Init ==
    /\ pending = [c \in Channels |-> <<>>]
    /\ current = [c \in Channels |-> <<>>]
    /\ done = [c \in Channels |-> <<>>]

Submit(c, t) ==
    /\ pending' = [pending EXCEPT ![c] = Append(@, t)]
    /\ UNCHANGED <<current, done>>

Begin(c) ==
    /\ current[c] = <<>>
    /\ pending[c] # <<>>
    /\ current' = [current EXCEPT ![c] = <<Head(pending[c])>>]
    /\ pending' = [pending EXCEPT ![c] = Tail(@)]
    /\ UNCHANGED done

Finish(c) ==
    /\ current[c] # <<>>
    /\ done' = [done EXCEPT ![c] = @ \o current[c]]
    /\ current' = [current EXCEPT ![c] = <<>>]
    /\ UNCHANGED pending

Next ==
    \E c \in Channels :
        \/ \E t \in Tasks : Submit(c, t)
        \/ Begin(c)
        \/ Finish(c)

Spec == Init /\ [][Next]_vars
============================================================================
