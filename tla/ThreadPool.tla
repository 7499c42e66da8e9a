----------------------------- MODULE ThreadPool -----------------------------
(***************************************************************************)
(* The thread pool (common/thread_pool.c): a ring of tasks guarded by one  *)
(* mutex and two condition variables, worker threads that take tasks,      *)
(* threads that add tasks, and the creation and destruction of the pool.   *)
(*                                                                         *)
(* What a thread does from pthread_mutex_lock to the matching unlock (or   *)
(* to the wait that releases the mutex) is one action.  The one exception  *)
(* is a worker that has found nothing to do: it holds the mutex between    *)
(* its look at the flag and the wait (pc "toWait"), because the failure    *)
(* path of thread_pool_create sets the flag without taking the mutex.      *)
(***************************************************************************)
EXTENDS Integers, Sequences, FiniteSets

CONSTANTS Workers,     \* the threads of the pool
          Producers,   \* the threads that call thread_pool_add_task
          PoolSize,    \* queue_size
          MaxTasks,    \* bound: the number of calls of thread_pool_add_task
          NoTask

Tasks == 1..MaxTasks

ASSUME ThreadPoolAssumption ==
    /\ PoolSize \in Nat \ {0}
    /\ MaxTasks \in Nat
    /\ Workers # {}
    /\ NoTask \notin Tasks

VARIABLES head, tail, count,   \* queue_head, queue_tail, queue_count
          slots,      \* task_functions and task_queue together
          shutdown,   \* the flag
          wpc,        \* worker -> where it is in thread_function
          task,       \* worker -> the task it runs
          ppc,        \* producer -> where it is in thread_pool_add_task
          arg,        \* producer -> the task it wants to add
          phase,      \* where the owner of the pool is: see Phases
          issued,     \* the number of calls of thread_pool_add_task
          accepted,   \* history: the tasks added, in order
          finished    \* history: the tasks that have run

ringVars == <<head, tail, count, slots>>
workerVars == <<wpc, task>>
producerVars == <<ppc, arg, issued>>
historyVars == <<accepted, finished>>
vars == <<head, tail, count, slots, shutdown, wpc, task, ppc, arg, phase,
          issued, accepted, finished>>

\* "creating": thread_pool_create starts threads; "failed": a pthread_create
\* failed and the flag is set; "failJoin": ... and the broadcast is done;
\* "up": the pool is in use; "closing": thread_pool_destroy has set the flag;
\* "join": ... and the broadcast is done; "freed": all joined, memory freed.
Phases == {"creating", "failed", "failJoin", "up", "closing", "join", "freed"}
WorkerPCs == {"none", "lock", "toWait", "waiting", "run", "exited"}
ProducerPCs == {"idle", "lock", "waiting"}

Init ==
    /\ head = 0 /\ tail = 0 /\ count = 0
    /\ slots = [i \in 0..PoolSize-1 |-> NoTask]
    /\ shutdown = FALSE
    /\ wpc = [w \in Workers |-> "none"]
    /\ task = [w \in Workers |-> NoTask]
    /\ ppc = [p \in Producers |-> "idle"]
    /\ arg = [p \in Producers |-> NoTask]
    /\ phase = "creating"
    /\ issued = 0
    /\ accepted = <<>>
    /\ finished = {}

\* The mutex is held between two actions only by a worker on its way to wait.
MutexFree == \A w \in Workers : wpc[w] # "toWait"

Succ(i) == (i + 1) % PoolSize

\* pthread_cond_signal and pthread_cond_broadcast on the threads of pc: a
\* woken thread takes the mutex again and looks at its condition once more.
Signalled(pc) ==
    LET waiters == {t \in DOMAIN pc : pc[t] = "waiting"}
    IN  IF waiters = {} THEN {pc} ELSE {[pc EXCEPT ![t] = "lock"] : t \in waiters}

AllSignalled(pc) == [t \in DOMAIN pc |-> IF pc[t] = "waiting" THEN "lock" ELSE pc[t]]

-----------------------------------------------------------------------------
(* Plausible slips in the code below. *)

ExitOnShutdown(w) ==            \* leaves although tasks are queued
    /\ wpc[w] = "lock" /\ MutexFree
    /\ shutdown
    /\ wpc' = [wpc EXCEPT ![w] = "exited"]
    /\ UNCHANGED <<ringVars, shutdown, task, producerVars, phase, historyVars>>

TakeUnsignalled(w) ==           \* queue_not_full is never signalled
    /\ wpc[w] = "lock" /\ MutexFree
    /\ count > 0
    /\ task' = [task EXCEPT ![w] = slots[head]]
    /\ wpc' = [wpc EXCEPT ![w] = "run"]
    /\ head' = Succ(head)
    /\ count' = count - 1
    /\ UNCHANGED <<tail, slots, shutdown, producerVars, phase, historyVars>>

AddUnsignalled(p) ==            \* queue_not_empty is never signalled
    /\ ppc[p] = "lock" /\ MutexFree /\ phase # "freed"
    /\ count < PoolSize /\ ~shutdown
    /\ slots' = [slots EXCEPT ![tail] = arg[p]]
    /\ tail' = Succ(tail)
    /\ count' = count + 1
    /\ accepted' = Append(accepted, arg[p])
    /\ ppc' = [ppc EXCEPT ![p] = "idle"]
    /\ UNCHANGED <<head, shutdown, workerVars, arg, issued, phase, finished>>

AddWhenWoken(p) ==              \* if instead of while around the wait
    /\ ppc[p] = "lock" /\ MutexFree /\ phase # "freed"
    /\ ~shutdown
    /\ slots' = [slots EXCEPT ![tail] = arg[p]]
    /\ tail' = Succ(tail)
    /\ count' = count + 1
    /\ accepted' = Append(accepted, arg[p])
    /\ ppc' = [ppc EXCEPT ![p] = "idle"]
    /\ wpc' \in Signalled(wpc)
    /\ UNCHANGED <<head, shutdown, task, arg, issued, phase, finished>>

AddDespiteShutdown(p) ==        \* the flag is not looked at after the wait
    /\ ppc[p] = "lock" /\ MutexFree /\ phase # "freed"
    /\ count # PoolSize
    /\ slots' = [slots EXCEPT ![tail] = arg[p]]
    /\ tail' = Succ(tail)
    /\ count' = count + 1
    /\ accepted' = Append(accepted, arg[p])
    /\ ppc' = [ppc EXCEPT ![p] = "idle"]
    /\ wpc' \in Signalled(wpc)
    /\ UNCHANGED <<head, shutdown, task, arg, issued, phase, finished>>

BroadcastOne ==                 \* pthread_cond_signal instead of broadcast
    /\ phase \in {"closing", "failed"}
    /\ wpc' \in Signalled(wpc)
    /\ phase' = IF phase = "closing" THEN "join" ELSE "failJoin"
    /\ UNCHANGED <<ringVars, shutdown, task, producerVars, historyVars>>

-----------------------------------------------------------------------------
(* thread_function *)

\* Nothing queued and no shutdown: the loop condition is true.
FindNothing(w) ==
    /\ wpc[w] = "lock" /\ MutexFree
    /\ count = 0 /\ ~shutdown
    /\ wpc' = [wpc EXCEPT ![w] = "toWait"]
    /\ UNCHANGED <<ringVars, shutdown, task, producerVars, phase, historyVars>>

\* pthread_cond_wait releases the mutex and waits for queue_not_empty.
Wait(w) ==
    /\ wpc[w] = "toWait"
    /\ wpc' = [wpc EXCEPT ![w] = "waiting"]
    /\ UNCHANGED <<ringVars, shutdown, task, producerVars, phase, historyVars>>

Exit(w) ==
    /\ wpc[w] = "lock" /\ MutexFree
    /\ shutdown /\ count = 0
    /\ wpc' = [wpc EXCEPT ![w] = "exited"]
    /\ UNCHANGED <<ringVars, shutdown, task, producerVars, phase, historyVars>>

Take(w) ==
    /\ wpc[w] = "lock" /\ MutexFree
    /\ count > 0
    /\ task' = [task EXCEPT ![w] = slots[head]]
    /\ wpc' = [wpc EXCEPT ![w] = "run"]
    /\ head' = Succ(head)
    /\ count' = count - 1
    /\ ppc' \in Signalled(ppc)
    /\ UNCHANGED <<tail, slots, shutdown, arg, issued, phase, historyVars>>

\* task(task_arg) returns.
Run(w) ==
    /\ wpc[w] = "run"
    /\ finished' = finished \cup {task[w]}
    /\ wpc' = [wpc EXCEPT ![w] = "lock"]
    /\ task' = [task EXCEPT ![w] = NoTask]
    /\ UNCHANGED <<ringVars, shutdown, producerVars, phase, accepted>>

\* pthread_cond_wait may return without a signal.
WakeWorker(w) ==
    /\ wpc[w] = "waiting" /\ MutexFree
    /\ wpc' = [wpc EXCEPT ![w] = "lock"]
    /\ UNCHANGED <<ringVars, shutdown, task, producerVars, phase, historyVars>>

-----------------------------------------------------------------------------
(* thread_pool_add_task *)

Call(p) ==
    /\ phase \in {"up", "closing", "join"}
    /\ ppc[p] = "idle"
    /\ issued < MaxTasks
    /\ issued' = issued + 1
    /\ arg' = [arg EXCEPT ![p] = issued']
    /\ ppc' = [ppc EXCEPT ![p] = "lock"]
    /\ UNCHANGED <<ringVars, shutdown, workerVars, phase, historyVars>>

WaitForRoom(p) ==
    /\ ppc[p] = "lock" /\ MutexFree /\ phase # "freed"
    /\ count = PoolSize /\ ~shutdown
    /\ ppc' = [ppc EXCEPT ![p] = "waiting"]
    /\ UNCHANGED <<ringVars, shutdown, workerVars, arg, issued, phase, historyVars>>

\* The pool is shutting down: the call returns false, the task is dropped.
Reject(p) ==
    /\ ppc[p] = "lock" /\ MutexFree /\ phase # "freed"
    /\ shutdown
    /\ ppc' = [ppc EXCEPT ![p] = "idle"]
    /\ UNCHANGED <<ringVars, shutdown, workerVars, arg, issued, phase, historyVars>>

Add(p) ==
    /\ ppc[p] = "lock" /\ MutexFree /\ phase # "freed"
    /\ count # PoolSize /\ ~shutdown
    /\ slots' = [slots EXCEPT ![tail] = arg[p]]
    /\ tail' = Succ(tail)
    /\ count' = count + 1
    /\ accepted' = Append(accepted, arg[p])
    /\ ppc' = [ppc EXCEPT ![p] = "idle"]
    /\ wpc' \in Signalled(wpc)
    /\ UNCHANGED <<head, shutdown, task, arg, issued, phase, finished>>

WakeProducer(p) ==
    /\ ppc[p] = "waiting" /\ MutexFree /\ phase # "freed"
    /\ ppc' = [ppc EXCEPT ![p] = "lock"]
    /\ UNCHANGED <<ringVars, shutdown, workerVars, arg, issued, phase, historyVars>>

-----------------------------------------------------------------------------
(* thread_pool_create and thread_pool_destroy *)

StartThread(w) ==
    /\ phase = "creating"
    /\ wpc[w] = "none"
    /\ wpc' = [wpc EXCEPT ![w] = "lock"]
    /\ phase' = IF \A v \in Workers \ {w} : wpc[v] # "none" THEN "up" ELSE phase
    /\ UNCHANGED <<ringVars, shutdown, task, producerVars, historyVars>>

\* pthread_create fails: the flag is set without the mutex.
FailToStart ==
    /\ phase = "creating"
    /\ shutdown' = TRUE
    /\ phase' = "failed"
    /\ UNCHANGED <<ringVars, workerVars, producerVars, historyVars>>

SetShutdown ==
    /\ phase = "up" /\ MutexFree
    /\ shutdown' = TRUE
    /\ phase' = "closing"
    /\ UNCHANGED <<ringVars, workerVars, producerVars, historyVars>>

\* pthread_cond_broadcast(&pool->queue_not_empty), outside the mutex.
Broadcast ==
    /\ phase \in {"closing", "failed"}
    /\ wpc' = AllSignalled(wpc)
    /\ phase' = IF phase = "closing" THEN "join" ELSE "failJoin"
    /\ UNCHANGED <<ringVars, shutdown, task, producerVars, historyVars>>

\* The threads that were started are joined, and the pool is freed.
Free ==
    /\ phase \in {"join", "failJoin"}
    /\ \A w \in Workers : wpc[w] \in {"none", "exited"}
    /\ phase' = "freed"
    /\ UNCHANGED <<ringVars, shutdown, workerVars, producerVars, historyVars>>

-----------------------------------------------------------------------------
Worker(w) == FindNothing(w) \/ Wait(w) \/ Exit(w) \/ Take(w) \/ Run(w)
Producer(p) == WaitForRoom(p) \/ Reject(p) \/ Add(p)
Owner == (\E w \in Workers : StartThread(w)) \/ Broadcast \/ Free

Next ==
    \/ \E w \in Workers : Worker(w) \/ WakeWorker(w)
    \/ \E p \in Producers : Call(p) \/ Producer(p) \/ WakeProducer(p)
    \/ Owner \/ FailToStart \/ SetShutdown

Spec == Init /\ [][Next]_vars

\* Every thread that is not blocked is scheduled, and the mutex, held for a
\* moment at a time, is not kept from one thread for ever (strong fairness).
\* Tasks return.  No call, no spurious wakeup and no destruction has to come.
FairSpec ==
    /\ Spec
    /\ \A w \in Workers : SF_vars(Worker(w))
    /\ \A p \in Producers : SF_vars(Producer(p))
    /\ WF_vars(Owner)

-----------------------------------------------------------------------------
TypeOK ==
    /\ head \in 0..PoolSize-1 /\ tail \in 0..PoolSize-1
    /\ count \in 0..PoolSize
    /\ slots \in [0..PoolSize-1 -> Tasks \cup {NoTask}]
    /\ shutdown \in BOOLEAN
    /\ wpc \in [Workers -> WorkerPCs]
    /\ task \in [Workers -> Tasks \cup {NoTask}]
    /\ ppc \in [Producers -> ProducerPCs]
    /\ arg \in [Producers -> Tasks \cup {NoTask}]
    /\ phase \in Phases
    /\ issued \in 0..MaxTasks
    /\ accepted \in Seq(Tasks)
    /\ finished \in SUBSET Tasks

\* The queue as a sequence: count slots from head on, wrapping around.
Queued == [i \in 1..count |-> slots[(head + i - 1) % PoolSize]]

Fifo == INSTANCE BoundedFifo WITH
    Items <- Tasks, Capacity <- PoolSize, items <- Queued, closed <- shutdown

\* The ring with its two indices and its counter is a bounded FIFO queue that
\* shutdown closes: no task is overwritten, lost, taken twice or out of order,
\* and none is accepted once the flag is set.
ImplementsBoundedFifo == Fifo!Spec

\* thread_pool_destroy drains the pool: when it frees the memory, every task
\* that thread_pool_add_task accepted has run.
DrainedWhenFreed ==
    phase = "freed" => \A i \in 1..Len(accepted) : accepted[i] \in finished

\* No wakeup is lost: an accepted task runs in the end, also when the pool is
\* destroyed meanwhile.
AcceptedTasksRun ==
    \A t \in Tasks : (\E i \in 1..Len(accepted) : accepted[i] = t) ~> (t \in finished)

\* thread_pool_destroy returns: every worker gets to see the flag.
DestroyReturns == (phase = "closing") ~> (phase = "freed")

\* thread_pool_add_task returns: a thread that waits for room finds some or is
\* told of the shutdown.  Shutdown sends the waiting threads no signal of its
\* own (only queue_not_empty is broadcast); that they all return rests on there
\* being no more of them than slots, each of which is drained with a signal.
BlockedProducersReturn ==
    \A p \in Producers : (ppc[p] = "waiting") ~> (ppc[p] # "waiting")
============================================================================
