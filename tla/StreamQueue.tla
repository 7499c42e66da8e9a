---------------------------- MODULE StreamQueue ----------------------------
(***************************************************************************)
(* The serial task queue of a channel (gateway/channels.c, "streaming      *)
(* message tasks"): submitters append tasks to the channel's list under    *)
(* its mutex; the submitter that finds the channel idle marks it as being  *)
(* processed and hands one job for it to the thread pool; the pool thread  *)
(* that takes the job pops and processes the channel's tasks one by one.   *)
(* The pool is a bounded FIFO of jobs and a set of threads: ThreadPool     *)
(* models how it does that.  Each critical section is one action.          *)
(***************************************************************************)
EXTENDS Naturals, Sequences

CONSTANTS Channels,     \* the channels of the manager's list
          Submitters,   \* the threads that call channel_stream_submit_task
          Workers,      \* the threads of g_channel_manager.pool
          PoolSize,     \* the capacity of the pool's queue (128 in channels_init)
          Contents,     \* what a task may carry
          MaxTasks,     \* bound: how many tasks are submitted in a behaviour
          NoChannel,    \* no channel: a thread that has none in hand
          NoTask        \* the NULL task node

ASSUME StreamQueueAssumption ==
    /\ PoolSize \in Nat \ {0}
    /\ MaxTasks \in Nat
    /\ NoChannel \notin Channels

Kinds == {"START", "UPDATE", "END"}

\* A StreamTaskNode.
Tasks == [kind : Kinds, content : Contents]

ASSUME NoTaskAssumption == NoTask \notin Tasks

VARIABLES queue,        \* channel -> its list, stream_queue_head first
          processing,   \* channel -> stream_processing
          toAdd,        \* submitter -> the channel whose job it is about to add
          jobs,         \* the pool's queue: jobs are stream_process_queue(channel)
          at,           \* worker -> where it is in stream_process_queue
          chan,         \* worker -> the channel of its job
          node,         \* worker -> the task it popped
          issued,       \* the number of tasks submitted so far
          submitted,    \* history: channel -> the tasks submitted to it
          delivered     \* history: channel -> the tasks its callbacks were given

threadVars == <<at, chan, node>>
vars == <<queue, processing, toAdd, jobs, at, chan, node, issued, submitted, delivered>>

Init ==
    /\ queue = [c \in Channels |-> <<>>]
    /\ processing = [c \in Channels |-> FALSE]
    /\ toAdd = [s \in Submitters |-> NoChannel]
    /\ jobs = <<>>
    /\ at = [w \in Workers |-> "idle"]
    /\ chan = [w \in Workers |-> NoChannel]
    /\ node = [w \in Workers |-> NoTask]
    /\ issued = 0
    /\ submitted = [c \in Channels |-> <<>>]
    /\ delivered = [c \in Channels |-> <<>>]

-----------------------------------------------------------------------------
(* Plausible slips in the code below: each is what a property must notice. *)

SubmitAlwaysStarts(s, c, t) ==      \* should_submit ignores stream_processing
    /\ toAdd[s] = NoChannel
    /\ queue' = [queue EXCEPT ![c] = Append(@, t)]
    /\ submitted' = [submitted EXCEPT ![c] = Append(@, t)]
    /\ processing' = [processing EXCEPT ![c] = TRUE]
    /\ toAdd' = [toAdd EXCEPT ![s] = c]
    /\ UNCHANGED <<jobs, threadVars, delivered>>

SubmitForgetsFlag(s, c, t) ==       \* stream_processing is read but never set
    /\ toAdd[s] = NoChannel
    /\ queue' = [queue EXCEPT ![c] = Append(@, t)]
    /\ submitted' = [submitted EXCEPT ![c] = Append(@, t)]
    /\ toAdd' = IF processing[c] THEN toAdd ELSE [toAdd EXCEPT ![s] = c]
    /\ UNCHANGED <<processing, jobs, threadVars, delivered>>

SubmitPrepends(s, c, t) ==          \* the node is linked in at the head
    /\ toAdd[s] = NoChannel
    /\ queue' = [queue EXCEPT ![c] = <<t>> \o @]
    /\ submitted' = [submitted EXCEPT ![c] = Append(@, t)]
    /\ processing' = [processing EXCEPT ![c] = TRUE]
    /\ toAdd' = IF processing[c] THEN toAdd ELSE [toAdd EXCEPT ![s] = c]
    /\ UNCHANGED <<jobs, threadVars, delivered>>

AddJobUnbounded(s) ==               \* no wait for room in the pool's queue
    /\ toAdd[s] # NoChannel
    /\ jobs' = Append(jobs, toAdd[s])
    /\ toAdd' = [toAdd EXCEPT ![s] = NoChannel]
    /\ UNCHANGED <<queue, processing, threadVars, issued, submitted, delivered>>

DrainedKeepsFlag(w) ==              \* the thread leaves without clearing the flag
    /\ at[w] = "loop"
    /\ queue[chan[w]] = <<>>
    /\ at' = [at EXCEPT ![w] = "idle"]
    /\ chan' = [chan EXCEPT ![w] = NoChannel]
    /\ UNCHANGED <<queue, processing, toAdd, jobs, node, issued, submitted, delivered>>

DrainedStays(w) ==                  \* the flag is cleared, the break is missing
    /\ at[w] = "loop"
    /\ queue[chan[w]] = <<>>
    /\ processing' = [processing EXCEPT ![chan[w]] = FALSE]
    /\ UNCHANGED <<queue, toAdd, jobs, threadVars, issued, submitted, delivered>>

LeaveAfterAny(w) ==                 \* the thread leaves after every task
    /\ at[w] = "run"
    /\ delivered' = [delivered EXCEPT ![chan[w]] = Append(@, node[w])]
    /\ at' = [at EXCEPT ![w] = "ending"]
    /\ node' = [node EXCEPT ![w] = NoTask]
    /\ UNCHANGED <<queue, processing, toAdd, jobs, chan, issued, submitted>>

-----------------------------------------------------------------------------
(* channel_stream_submit_task.  Its critical section appends the task and  *)
(* claims the channel; the job is added to the pool after the unlock.      *)

Submit(s, c, t) ==
    /\ toAdd[s] = NoChannel
    /\ queue' = [queue EXCEPT ![c] = Append(@, t)]
    /\ submitted' = [submitted EXCEPT ![c] = Append(@, t)]
    /\ processing' = [processing EXCEPT ![c] = TRUE]
    /\ toAdd' = IF processing[c] THEN toAdd ELSE [toAdd EXCEPT ![s] = c]
    /\ UNCHANGED <<jobs, threadVars, delivered>>

\* Any thread may submit any task while the bound allows it.
SubmitSome(s) ==
    /\ issued < MaxTasks
    /\ issued' = issued + 1
    /\ \E c \in Channels, t \in Tasks : Submit(s, c, t)

\* thread_pool_add_task, which waits while the pool's queue is full.
AddJob(s) ==
    /\ toAdd[s] # NoChannel
    /\ Len(jobs) < PoolSize
    /\ jobs' = Append(jobs, toAdd[s])
    /\ toAdd' = [toAdd EXCEPT ![s] = NoChannel]
    /\ UNCHANGED <<queue, processing, threadVars, issued, submitted, delivered>>

-----------------------------------------------------------------------------
(* A pool thread, and stream_process_queue on it.                          *)

TakeJob(w) ==
    /\ at[w] = "idle"
    /\ jobs # <<>>
    /\ jobs' = Tail(jobs)
    /\ chan' = [chan EXCEPT ![w] = Head(jobs)]
    /\ at' = [at EXCEPT ![w] = "loop"]
    /\ UNCHANGED <<queue, processing, toAdd, node, issued, submitted, delivered>>

\* The critical section at the top of the loop, when there is a task.
Pop(w) ==
    /\ at[w] = "loop"
    /\ queue[chan[w]] # <<>>
    /\ node' = [node EXCEPT ![w] = Head(queue[chan[w]])]
    /\ queue' = [queue EXCEPT ![chan[w]] = Tail(@)]
    /\ at' = [at EXCEPT ![w] = "run"]
    /\ UNCHANGED <<processing, toAdd, jobs, chan, issued, submitted, delivered>>

\* The same critical section, when there is none.
Drained(w) ==
    /\ at[w] = "loop"
    /\ queue[chan[w]] = <<>>
    /\ processing' = [processing EXCEPT ![chan[w]] = FALSE]
    /\ at' = [at EXCEPT ![w] = "idle"]
    /\ chan' = [chan EXCEPT ![w] = NoChannel]
    /\ UNCHANGED <<queue, toAdd, jobs, node, issued, submitted, delivered>>

\* process_stream_task, outside the mutex, returns; the node is freed.
Process(w) ==
    /\ at[w] = "run"
    /\ delivered' = [delivered EXCEPT ![chan[w]] = Append(@, node[w])]
    /\ at' = [at EXCEPT ![w] = IF node[w].kind = "END" THEN "ending" ELSE "loop"]
    /\ node' = [node EXCEPT ![w] = NoTask]
    /\ UNCHANGED <<queue, processing, toAdd, jobs, chan, issued, submitted>>

\* After an END the thread releases the channel without a look at its list.
Leave(w) ==
    /\ at[w] = "ending"
    /\ processing' = [processing EXCEPT ![chan[w]] = FALSE]
    /\ at' = [at EXCEPT ![w] = "idle"]
    /\ chan' = [chan EXCEPT ![w] = NoChannel]
    /\ UNCHANGED <<queue, toAdd, jobs, node, issued, submitted, delivered>>

Thread(w) == TakeJob(w) \/ Pop(w) \/ Drained(w) \/ Process(w) \/ Leave(w)

Next ==
    \/ \E s \in Submitters : SubmitSome(s) \/ AddJob(s)
    \/ \E w \in Workers : Thread(w)

Spec == Init /\ [][Next]_vars

\* A thread that can run is scheduled: a submitter inside
\* channel_stream_submit_task returns from it, a pool thread goes on.  Nobody
\* has to submit anything.  A thread that waits for room in the pool competes
\* with the others for each free slot (condition variables promise no order):
\* strong fairness for it, weak fairness for the rest.
Fairness ==
    /\ \A s \in Submitters : SF_vars(AddJob(s))
    /\ \A w \in Workers : WF_vars(Thread(w))

FairSpec == Spec /\ Fairness

-----------------------------------------------------------------------------
TypeOK ==
    /\ queue \in [Channels -> Seq(Tasks)]
    /\ processing \in [Channels -> BOOLEAN]
    /\ toAdd \in [Submitters -> Channels \cup {NoChannel}]
    /\ jobs \in Seq(Channels)
    /\ Len(jobs) <= PoolSize
    /\ at \in [Workers -> {"idle", "loop", "run", "ending"}]
    /\ chan \in [Workers -> Channels \cup {NoChannel}]
    /\ node \in [Workers -> Tasks \cup {NoTask}]
    /\ issued \in 0..MaxTasks
    /\ submitted \in [Channels -> Seq(Tasks)]
    /\ delivered \in [Channels -> Seq(Tasks)]

\* Everybody who is on the way to, or inside, the processing of channel c:
\* submitters about to add its job, its jobs in the pool, pool threads on it.
Claims(c) ==
    {<<"add", s>> : s \in {s \in Submitters : toAdd[s] = c}}
        \cup {<<"job", i>> : i \in {i \in 1..Len(jobs) : jobs[i] = c}}
        \cup {<<"run", w>> : w \in {w \in Workers : chan[w] = c}}

\* Serial processing: however submitters and pool threads interleave, a
\* channel never has two claims, so no two threads ever process its tasks at
\* the same time (stream_processing does its work, channels.c:797-801).
OneProcessor ==
    \A c \in Channels : \A x, y \in Claims(c) : x = y

\* stream_processing is exact: it is set while some thread is responsible for
\* the channel and at no other time, so a submitter that skips
\* thread_pool_add_task always leaves its task to somebody who is still there,
\* or is just leaving after an END.
FlagMeansClaimed ==
    \A c \in Channels : processing[c] <=> Claims(c) # {}

\* How far the early exit after an END (channels.c:758-768) goes: the only way
\* a channel is left unattended with tasks in its list is that the last task
\* given to its callbacks was an END.
UnattendedOnlyAfterEnd ==
    \A c \in Channels :
        ~processing[c] /\ queue[c] # <<>> =>
            /\ delivered[c] # <<>>
            /\ delivered[c][Len(delivered[c])].kind = "END"

\* The task that channel c's callbacks are working on, as a sequence.
InHand(c) ==
    LET busy == {w \in Workers : at[w] = "run" /\ chan[w] = c}
    IN  IF busy = {} THEN <<>> ELSE <<node[CHOOSE w \in busy : TRUE]>>

Serial == INSTANCE SerialChannel WITH
    pending <- queue,
    current <- [c \in Channels |-> InHand(c)],
    done <- delivered

\* The queue keeps the promise of channels.h:180: seen from outside, the tasks
\* of a channel are processed one at a time, in order, none lost and none twice.
ImplementsSerialChannel == Serial!Spec

\* A channel that is marked as being processed is released again: the job
\* reaches a pool thread although the pool is small, and the thread leaves.
ReleasedInTheEnd ==
    \A c \in Channels : processing[c] ~> ~processing[c]
============================================================================
