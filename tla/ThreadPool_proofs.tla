------------------------- MODULE ThreadPool_proofs -------------------------
(***************************************************************************)
(* Proofs about ThreadPool, for any workers, producers and capacity.  Two  *)
(* inductive invariants: RingInv says that head, tail, count and the slots *)
(* form a queue of tasks, and gives the refinement of BoundedFifo; DrainInv *)
(* follows every accepted task from the ring to the worker that runs it,   *)
(* and the workers through the destruction of the pool.                    *)
(***************************************************************************)
EXTENDS ThreadPool, DataLemmas

\* A producer inside thread_pool_add_task has a task, a running worker too.
ArgState == \A p \in Producers : ppc[p] # "idle" => arg[p] \in Tasks
TaskState == \A w \in Workers : wpc[w] = "run" => task[w] \in Tasks

\* tail is where head arrives after count steps; the slots between hold tasks.
RingState ==
    /\ tail = Slot(head + count, PoolSize)
    /\ Queued \in Seq(Tasks)

RingInv == TypeOK /\ ArgState /\ TaskState /\ RingState

-----------------------------------------------------------------------------
(* The ring of the pool. *)

\* Queued is a ring in the sense of DataLemmas: its type and its length.
LEMMA QueuedIs ==
    ASSUME TypeOK
    PROVE  /\ Queued = RingOf(slots, head, count, PoolSize)
           /\ Queued \in Seq(Tasks \cup {NoTask})
           /\ Len(Queued) = count
<1>1. /\ PoolSize \in Nat \ {0}
      /\ head \in 0..PoolSize-1 /\ count \in 0..PoolSize
      /\ slots \in [0..PoolSize-1 -> Tasks \cup {NoTask}]
  BY ThreadPoolAssumption DEF TypeOK
<1>2. Queued = RingOf(slots, head, count, PoolSize)
  BY DEF Queued, RingOf, Slot
<1> QED
  BY <1>1, <1>2, RingSeq

\* RingAppend, from the present queue to any next slots.
LEMMA PoolAppend ==
    ASSUME TypeOK, count # PoolSize, NEW x
    PROVE  \A g : (\A i \in 0..PoolSize-1 :
                     g[i] = IF i = Slot(head + count, PoolSize) THEN x ELSE slots[i])
              => RingOf(g, head, count + 1, PoolSize) = Append(RingOf(slots, head, count, PoolSize), x)
<1>1. PoolSize \in Nat \ {0} /\ head \in 0..PoolSize-1 /\ count \in 0..PoolSize-1
  BY ThreadPoolAssumption DEF TypeOK
<1>2. PICK N \in Nat \ {0} : N = PoolSize
  BY <1>1
<1>3. PICK h \in 0..N-1, n \in 0..N-1, m \in 0..N : h = head /\ n = count /\ m = count + 1
  BY <1>1, <1>2
<1>4. \A g : (\A i \in 0..N-1 : g[i] = IF i = Slot(h + n, N) THEN x ELSE slots[i])
        => RingOf(g, h, m, N) = Append(RingOf(slots, h, n, N), x)
  <2>1. m = n + 1
    BY <1>3
  <2>2. \A f, g, y :
          /\ m = n + 1
          /\ \A i \in 0..N-1 : g[i] = IF i = Slot(h + n, N) THEN y ELSE f[i]
          => RingOf(g, h, m, N) = Append(RingOf(f, h, n, N), y)
    BY RingAppend
  <2> QED
    BY <2>1, <2>2
<1> QED
  BY <1>2, <1>3, <1>4

\* Writing slot tail, and moving tail on, appends to the queue.
LEMMA RingPut ==
    ASSUME TypeOK, RingState, count # PoolSize, NEW x \in Tasks,
           slots' = [slots EXCEPT ![tail] = x],
           tail' = Succ(tail), count' = count + 1, head' = head
    PROVE  RingState' /\ Queued' = Append(Queued, x)
<1> DEFINE T == Tasks \cup {NoTask}
<1> HIDE DEF T
<1>1. /\ PoolSize \in Nat \ {0}
      /\ count \in 0..PoolSize-1 /\ head \in 0..PoolSize-1 /\ tail \in 0..PoolSize-1
      /\ slots \in [0..PoolSize-1 -> T] /\ x \in T
  BY ThreadPoolAssumption DEF TypeOK, T
<1>2. Queued' = Append(Queued, x)
  <2>1. tail = Slot(head + count, PoolSize)
    BY DEF RingState
  <2>2. RingOf(slots', head, count', PoolSize)
            = Append(RingOf(slots, head, count, PoolSize), x)
    <3>1. \A i \in 0..PoolSize-1 : slots'[i] = IF i = Slot(head + count, PoolSize) THEN x ELSE slots[i]
      BY <1>1, <2>1
    <3> QED
      BY <3>1, PoolAppend
  <2>3. Queued' = RingOf(slots', head', count', PoolSize)
    BY DEF Queued, RingOf, Slot
  <2> QED
    BY <2>2, <2>3, QueuedIs
<1>3. tail' = Slot(head' + count', PoolSize)
  <2>1. PICK i \in Nat : i = head + count
    BY <1>1
  <2>2. Slot(Slot(i, PoolSize) + 1, PoolSize) = Slot(i + 1, PoolSize)
    BY <1>1, <2>1, SlotAdd
  <2>3. i + 1 = head + (count + 1) /\ tail = Slot(i, PoolSize)
    BY <1>1, <2>1 DEF RingState
  <2> QED
    BY <2>2, <2>3 DEF Succ, Slot
<1>4. Append(Queued, x) \in Seq(Tasks)
  BY AppendProperties DEF RingState
<1> QED
  BY <1>2, <1>3, <1>4 DEF RingState

\* Moving head on removes the first of the queue.
LEMMA RingTake ==
    ASSUME TypeOK, RingState, count > 0,
           head' = Succ(head), count' = count - 1, UNCHANGED <<slots, tail>>
    PROVE  /\ RingState'
           /\ Queued # <<>>
           /\ slots[head] = Head(Queued)
           /\ Queued' = Tail(Queued)
<1> DEFINE T == Tasks \cup {NoTask}
<1> HIDE DEF T
<1>1. /\ PoolSize \in Nat \ {0}
      /\ count \in 0..PoolSize /\ count # 0 /\ head \in 0..PoolSize-1
      /\ slots \in [0..PoolSize-1 -> T]
  BY ThreadPoolAssumption DEF TypeOK, T
<1>2. Queued = RingOf(slots, head, count, PoolSize) /\ Queued \in Seq(T)
  BY QueuedIs DEF T
<1>3. /\ Queued # <<>>
      /\ slots[head] = Head(Queued)
      /\ RingOf(slots, Slot(head + 1, PoolSize), count - 1, PoolSize) = Tail(Queued)
  BY <1>1, <1>2, RingRest
<1>4. Queued' = Tail(Queued)
  <2>1. Queued' = RingOf(slots', head', count', PoolSize)
    BY DEF Queued, RingOf, Slot
  <2>2. head' = Slot(head + 1, PoolSize)
    BY DEF Succ, Slot
  <2> QED
    BY <1>3, <2>1, <2>2
<1>5. tail' = Slot(head' + count', PoolSize)
  <2>1. PICK x \in Nat, y \in Nat : x = head + 1 /\ y = count - 1
    BY <1>1
  <2>2. Slot(Slot(x, PoolSize) + y, PoolSize) = Slot(x + y, PoolSize)
    BY <1>1, <2>1, SlotAdd
  <2>3. x + y = head + count /\ head' = Slot(x, PoolSize) /\ count' = y
    BY <1>1, <2>1 DEF Succ, Slot
  <2> QED
    BY <2>2, <2>3 DEF RingState
<1>6. Tail(Queued) \in Seq(Tasks)
  BY <1>3, HeadTailProperties DEF RingState
<1> QED
  BY <1>3, <1>4, <1>5, <1>6 DEF RingState

\* An index stays within the ring.
LEMMA SuccIs ==
    ASSUME NEW i \in 0..PoolSize-1
    PROVE  Succ(i) \in 0..PoolSize-1
<1>1. PICK m \in Nat : m = i + 1
  OBVIOUS
<1>2. Slot(m, PoolSize) \in 0..PoolSize-1
  BY <1>1, ThreadPoolAssumption, SlotIs
<1> QED
  BY <1>1, <1>2 DEF Succ, Slot

-----------------------------------------------------------------------------
(* Wakeups: they move threads from the wait back to the lock, nothing else. *)

\* pthread_cond_signal wakes one thread, if any waits.
LEMMA SignalledIs ==
    ASSUME NEW S, NEW PC, "lock" \in PC, NEW pc \in [S -> PC], NEW new \in Signalled(pc)
    PROVE  /\ new \in [S -> PC]
           /\ \A t \in S : new[t] = pc[t] \/ (pc[t] = "waiting" /\ new[t] = "lock")
  BY DEF Signalled

\* pthread_cond_broadcast wakes all of them.
LEMMA AllSignalledIs ==
    ASSUME NEW S, NEW PC, "lock" \in PC, NEW pc \in [S -> PC]
    PROVE  /\ AllSignalled(pc) \in [S -> PC]
           /\ \A t \in S : \/ AllSignalled(pc)[t] = pc[t]
                           \/ pc[t] = "waiting" /\ AllSignalled(pc)[t] = "lock"
  BY DEF AllSignalled

-----------------------------------------------------------------------------
(* The ring keeps its form. *)

\* Steps that leave the ring alone leave the queue alone.
LEMMA RingUnchanged ==
    ASSUME RingState, UNCHANGED ringVars
    PROVE  RingState' /\ Queued' = Queued
<1>1. Queued' = Queued
  BY DEF ringVars, Queued
<1> QED
  BY <1>1 DEF RingState, ringVars

\* A new pool has an empty queue.
LEMMA RingInvInit == Init => RingInv
<1> SUFFICES ASSUME Init PROVE RingInv
  OBVIOUS
<1> USE ThreadPoolAssumption
<1>1. TypeOK
  <2>1. head \in 0..PoolSize-1 /\ tail \in 0..PoolSize-1 /\ count \in 0..PoolSize
        /\ issued \in 0..MaxTasks
    BY DEF Init
  <2>2. slots \in [0..PoolSize-1 -> Tasks \cup {NoTask}]
    BY DEF Init
  <2>3. accepted \in Seq(Tasks) /\ finished \in SUBSET Tasks
    BY EmptySeq DEF Init
  <2> QED
    BY <2>1, <2>2, <2>3 DEF Init, TypeOK, Phases, WorkerPCs, ProducerPCs
<1>2. ArgState /\ TaskState
  BY DEF Init, ArgState, TaskState
<1>3. RingState
  <2>1. Slot(0, PoolSize) = 0
    BY SlotIs
  <2>2. Queued \in Seq(Tasks)
    <3>1. Queued \in Seq(Tasks \cup {NoTask}) /\ Len(Queued) = 0
      BY <1>1, QueuedIs DEF Init
    <3>2. Queued = <<>>
      BY <3>1, EmptySeq
    <3> QED
      BY <3>2, EmptySeq
  <2> QED
    BY <2>1, <2>2 DEF Init, RingState
<1> QED
  BY <1>1, <1>2, <1>3 DEF RingInv

\* Every action keeps the types, the tasks in hand, and the ring.
LEMMA RingInvStep == RingInv /\ [Next]_vars => RingInv'
<1> SUFFICES ASSUME RingInv, [Next]_vars PROVE RingInv'
  OBVIOUS
<1> USE ThreadPoolAssumption DEF RingInv
<1>1. ASSUME NEW w \in Workers, FindNothing(w) \/ Wait(w) \/ Exit(w) \/ WakeWorker(w)
      PROVE  RingInv'
  <2>1. UNCHANGED ringVars /\ RingState'
    BY <1>1, RingUnchanged DEF FindNothing, Wait, Exit, WakeWorker
  <2>2. TypeOK'
    BY <1>1 DEF TypeOK, FindNothing, Wait, Exit, WakeWorker, WorkerPCs, ringVars,
                producerVars, historyVars
  <2>3. ArgState' /\ TaskState'
    BY <1>1 DEF TypeOK, ArgState, TaskState, FindNothing, Wait, Exit, WakeWorker, producerVars
  <2> QED
    BY <2>1, <2>2, <2>3
<1>2. ASSUME NEW w \in Workers, Take(w) PROVE RingInv'
  <2>1. RingState' /\ Queued # <<>> /\ slots[head] = Head(Queued)
    BY <1>2, RingTake DEF Take, TypeOK
  <2>2. slots[head] \in Tasks
    BY <2>1, HeadTailProperties DEF RingState
  <2>3. ppc' \in [Producers -> ProducerPCs]
        /\ \A p \in Producers : ppc'[p] = ppc[p] \/ (ppc[p] = "waiting" /\ ppc'[p] = "lock")
    <3>1. ppc \in [Producers -> ProducerPCs] /\ "lock" \in ProducerPCs
      BY DEF TypeOK, ProducerPCs
    <3>2. ppc' \in Signalled(ppc)
      BY <1>2 DEF Take
    <3> QED
      BY <3>1, <3>2, SignalledIs
  <2>4. TypeOK'
    <3>1. head' \in 0..PoolSize-1 /\ count' \in 0..PoolSize
      BY <1>2, SuccIs DEF Take, TypeOK
    <3> QED
      BY <1>2, <2>2, <2>3, <3>1 DEF Take, TypeOK, WorkerPCs, historyVars
  <2>5. ArgState' /\ TaskState'
    BY <1>2, <2>2, <2>3 DEF Take, TypeOK, ArgState, TaskState
  <2> QED
    BY <2>1, <2>4, <2>5
<1>3. ASSUME NEW w \in Workers, Run(w) PROVE RingInv'
  <2>1. UNCHANGED ringVars /\ RingState'
    BY <1>3, RingUnchanged DEF Run
  <2>2. TypeOK'
    BY <1>3 DEF Run, TypeOK, TaskState, WorkerPCs, ringVars, producerVars
  <2>3. ArgState' /\ TaskState'
    BY <1>3 DEF Run, TypeOK, ArgState, TaskState, producerVars
  <2> QED
    BY <2>1, <2>2, <2>3
<1>4. ASSUME NEW p \in Producers, Call(p) PROVE RingInv'
  <2>1. UNCHANGED ringVars /\ RingState'
    BY <1>4, RingUnchanged DEF Call
  <2>2. issued' \in Tasks /\ issued' \in 0..MaxTasks
    BY <1>4 DEF Call, TypeOK, Tasks
  <2>3. TypeOK'
    BY <1>4, <2>2 DEF Call, TypeOK, ProducerPCs, ringVars, workerVars, historyVars
  <2>4. ArgState' /\ TaskState'
    BY <1>4, <2>2 DEF Call, TypeOK, ArgState, TaskState, workerVars
  <2> QED
    BY <2>1, <2>3, <2>4
<1>5. ASSUME NEW p \in Producers, WaitForRoom(p) \/ Reject(p) \/ WakeProducer(p)
      PROVE  RingInv'
  <2>1. UNCHANGED ringVars /\ RingState'
    BY <1>5, RingUnchanged DEF WaitForRoom, Reject, WakeProducer
  <2>2. TypeOK'
    BY <1>5 DEF WaitForRoom, Reject, WakeProducer, TypeOK, ProducerPCs, ringVars, workerVars,
                historyVars
  <2>3. ArgState' /\ TaskState'
    BY <1>5 DEF WaitForRoom, Reject, WakeProducer, TypeOK, ArgState, TaskState, workerVars
  <2> QED
    BY <2>1, <2>2, <2>3
<1>6. ASSUME NEW p \in Producers, Add(p) PROVE RingInv'
  <2>1. arg[p] \in Tasks
    BY <1>6 DEF Add, ArgState
  <2>2. RingState'
    BY <1>6, <2>1, RingPut DEF Add
  <2>3. wpc' \in [Workers -> WorkerPCs]
        /\ \A w \in Workers : wpc'[w] = wpc[w] \/ (wpc[w] = "waiting" /\ wpc'[w] = "lock")
    <3>1. wpc \in [Workers -> WorkerPCs] /\ "lock" \in WorkerPCs
      BY DEF TypeOK, WorkerPCs
    <3>2. wpc' \in Signalled(wpc)
      BY <1>6 DEF Add
    <3> QED
      BY <3>1, <3>2, SignalledIs
  <2>4. TypeOK'
    <3>1. tail' \in 0..PoolSize-1 /\ count' \in 0..PoolSize
      BY <1>6, SuccIs DEF Add, TypeOK
    <3>2. accepted' \in Seq(Tasks)
      BY <1>6, <2>1, AppendProperties DEF Add, TypeOK
    <3>3. slots' \in [0..PoolSize-1 -> Tasks \cup {NoTask}]
      BY <1>6, <2>1 DEF Add, TypeOK
    <3>4. ppc' \in [Producers -> ProducerPCs]
      BY <1>6 DEF Add, TypeOK, ProducerPCs
    <3> QED
      BY <1>6, <2>3, <3>1, <3>2, <3>3, <3>4 DEF Add, TypeOK
  <2>5. ArgState' /\ TaskState'
    BY <1>6, <2>3 DEF Add, TypeOK, ArgState, TaskState
  <2> QED
    BY <2>2, <2>4, <2>5
<1>7. ASSUME NEW w \in Workers, StartThread(w) PROVE RingInv'
  <2>1. UNCHANGED ringVars /\ RingState'
    BY <1>7, RingUnchanged DEF StartThread
  <2>2. TypeOK'
    BY <1>7 DEF StartThread, TypeOK, WorkerPCs, Phases, ringVars, producerVars, historyVars
  <2>3. ArgState' /\ TaskState'
    BY <1>7 DEF StartThread, TypeOK, ArgState, TaskState, producerVars
  <2> QED
    BY <2>1, <2>2, <2>3
<1>8. ASSUME FailToStart \/ SetShutdown \/ Free PROVE RingInv'
  <2>1. UNCHANGED ringVars /\ RingState'
    BY <1>8, RingUnchanged DEF FailToStart, SetShutdown, Free
  <2>2. TypeOK'
    BY <1>8 DEF FailToStart, SetShutdown, Free, TypeOK, Phases, ringVars, workerVars,
                producerVars, historyVars
  <2>3. ArgState' /\ TaskState'
    BY <1>8 DEF FailToStart, SetShutdown, Free, ArgState, TaskState, workerVars, producerVars
  <2> QED
    BY <2>1, <2>2, <2>3
<1>9. ASSUME Broadcast PROVE RingInv'
  <2>1. UNCHANGED ringVars /\ RingState'
    BY <1>9, RingUnchanged DEF Broadcast
  <2>2. wpc' \in [Workers -> WorkerPCs]
        /\ \A w \in Workers : wpc'[w] = wpc[w] \/ (wpc[w] = "waiting" /\ wpc'[w] = "lock")
    <3>1. wpc \in [Workers -> WorkerPCs] /\ "lock" \in WorkerPCs
      BY DEF TypeOK, WorkerPCs
    <3> QED
      BY <1>9, <3>1, AllSignalledIs DEF Broadcast
  <2>3. TypeOK'
    BY <1>9, <2>2 DEF Broadcast, TypeOK, Phases, ringVars, producerVars, historyVars
  <2>4. ArgState' /\ TaskState'
    BY <1>9, <2>2 DEF Broadcast, ArgState, TaskState, producerVars
  <2> QED
    BY <2>1, <2>3, <2>4
<1>10. CASE UNCHANGED vars
  <2>1. UNCHANGED ringVars /\ RingState'
    BY <1>10, RingUnchanged DEF vars, ringVars
  <2> QED
    BY <1>10, <2>1 DEF vars, TypeOK, ArgState, TaskState
<1> QED
  BY <1>1, <1>2, <1>3, <1>4, <1>5, <1>6, <1>7, <1>8, <1>9, <1>10
     DEF Next, Worker, Producer, Owner

\* RingInv holds in every state of every behaviour.
LEMMA RingInvariance == Spec => []RingInv
  BY RingInvInit, RingInvStep, PTL DEF Spec

\* Every variable has its type, for any number of workers and producers and any
\* capacity: in particular the counter stays within the ring.
THEOREM PoolTypeCorrect == Spec => []TypeOK
<1>1. RingInv => TypeOK
  BY DEF RingInv
<1> QED
  BY <1>1, RingInvariance, PTL

-----------------------------------------------------------------------------
(* The ring implements a bounded FIFO queue. *)

\* Every step of the pool is a step of the queue, or none.
LEMMA FifoStep == RingInv /\ [Next]_vars => [Fifo!Next]_(Fifo!vars)
<1> SUFFICES ASSUME RingInv, [Next]_vars PROVE [Fifo!Next]_(Fifo!vars)
  OBVIOUS
<1> USE DEF RingInv
<1>1. ASSUME UNCHANGED ringVars, UNCHANGED shutdown PROVE [Fifo!Next]_(Fifo!vars)
  BY <1>1, RingUnchanged DEF Fifo!vars
<1>2. ASSUME NEW w \in Workers, Take(w) PROVE [Fifo!Next]_(Fifo!vars)
  <2>1. Queued # <<>> /\ Queued' = Tail(Queued)
    BY <1>2, RingTake DEF Take, TypeOK
  <2> QED
    BY <1>2, <2>1 DEF Take, Fifo!Next, Fifo!Take
<1>3. ASSUME NEW p \in Producers, Add(p) PROVE [Fifo!Next]_(Fifo!vars)
  <2>1. arg[p] \in Tasks
    BY <1>3 DEF Add, ArgState
  <2>2. Queued' = Append(Queued, arg[p])
    BY <1>3, <2>1, RingPut DEF Add
  <2>3. Len(Queued) < PoolSize
    <3>1. count \in 0..PoolSize /\ count # PoolSize
      BY <1>3 DEF Add, TypeOK
    <3>2. Len(Queued) = count
      BY QueuedIs
    <3> QED
      BY <3>1, <3>2, ThreadPoolAssumption
  <2> QED
    BY <1>3, <2>1, <2>2, <2>3 DEF Add, Fifo!Next, Fifo!Put
<1>4. ASSUME FailToStart \/ SetShutdown PROVE [Fifo!Next]_(Fifo!vars)
  <2>1. Queued' = Queued /\ shutdown' = TRUE
    BY <1>4, RingUnchanged DEF FailToStart, SetShutdown
  <2>2. CASE shutdown
    BY <2>1, <2>2 DEF TypeOK, Fifo!vars
  <2>3. CASE ~shutdown
    BY <2>1, <2>3 DEF Fifo!Next, Fifo!Close
  <2> QED
    BY <2>2, <2>3
<1>5. ASSUME NEW w \in Workers, FindNothing(w) \/ Wait(w) \/ Exit(w) \/ Run(w) \/ WakeWorker(w)
      PROVE  UNCHANGED ringVars /\ UNCHANGED shutdown
  BY <1>5 DEF FindNothing, Wait, Exit, Run, WakeWorker
<1>6. ASSUME NEW p \in Producers, Call(p) \/ WaitForRoom(p) \/ Reject(p) \/ WakeProducer(p)
      PROVE  UNCHANGED ringVars /\ UNCHANGED shutdown
  BY <1>6 DEF Call, WaitForRoom, Reject, WakeProducer
<1>7. ASSUME (\E w \in Workers : StartThread(w)) \/ Broadcast \/ Free
      PROVE  UNCHANGED ringVars /\ UNCHANGED shutdown
  BY <1>7 DEF StartThread, Broadcast, Free
<1>8. CASE UNCHANGED vars
  <2>1. UNCHANGED ringVars /\ UNCHANGED shutdown
    BY <1>8 DEF vars, ringVars
  <2> QED
    BY <1>1, <2>1
<1> QED
  BY <1>1, <1>2, <1>3, <1>4, <1>5, <1>6, <1>7, <1>8 DEF Next, Worker, Producer, Owner

\* For any capacity the ring of slots, with its two indices and its counter, is
\* a bounded FIFO queue that shutdown closes: no task is overwritten, lost,
\* taken twice or out of order, and none is accepted once the flag is set.
THEOREM FifoRefinement == Spec => ImplementsBoundedFifo
<1>1. Init => Fifo!Init
  <2> SUFFICES ASSUME Init PROVE Fifo!Init
    OBVIOUS
  <2>1. Queued \in Seq(Tasks \cup {NoTask}) /\ Len(Queued) = 0
    BY RingInvInit, QueuedIs DEF RingInv, Init
  <2>2. Queued = <<>>
    BY <2>1, EmptySeq
  <2> QED
    BY <2>2 DEF Init, Fifo!Init
<1> QED
  BY <1>1, FifoStep, RingInvariance, PTL DEF Spec, ImplementsBoundedFifo, Fifo!Spec

-----------------------------------------------------------------------------
(* Destruction drains the pool. *)

\* Task t is queued, or a worker runs it.
Underway(t) ==
    \/ \E k \in 1..Len(Queued) : Queued[k] = t
    \/ \E w \in Workers : wpc[w] = "run" /\ task[w] = t

\* An accepted task is underway until it is finished.
Accounted ==
    \A i \in 1..Len(accepted) : accepted[i] \in finished \/ Underway(accepted[i])

\* A worker leaves only when the pool is shut down and empty: for good.
ExitState == \A w \in Workers : wpc[w] = "exited" => shutdown /\ count = 0

\* How far creation and destruction are: no task comes before all threads are
\* started, and the memory is freed when none of them is left.
PhaseState ==
    /\ phase \in {"creating", "failed", "failJoin"} =>
            count = 0 /\ \A p \in Producers : ppc[p] = "idle"
    /\ phase \in {"up", "closing", "join"} => \A w \in Workers : wpc[w] # "none"
    /\ phase = "freed" => count = 0 /\ \A w \in Workers : wpc[w] \in {"none", "exited"}

DrainInv == RingInv /\ Accounted /\ ExitState /\ PhaseState

\* A new pool has nothing to account for.
LEMMA DrainInvInit == Init => DrainInv
<1> SUFFICES ASSUME Init PROVE DrainInv
  OBVIOUS
<1>1. RingInv
  BY RingInvInit
<1>2. Accounted /\ ExitState /\ PhaseState
  BY DEF Init, Accounted, ExitState, PhaseState
<1> QED
  BY <1>1, <1>2 DEF DrainInv

\* Every action keeps track of the accepted tasks and of the workers.
LEMMA DrainInvStep == DrainInv /\ [Next]_vars => DrainInv'
<1> SUFFICES ASSUME DrainInv, [Next]_vars PROVE DrainInv'
  OBVIOUS
<1> USE ThreadPoolAssumption DEF DrainInv, RingInv
<1>0. RingInv'
  BY RingInvStep
<1>1. ASSUME UNCHANGED ringVars, UNCHANGED historyVars,
             \A w \in Workers : wpc[w] = "run" => wpc'[w] = "run" /\ task'[w] = task[w]
      PROVE  Accounted'
  <2>1. Queued' = Queued
    BY <1>1, RingUnchanged
  <2> QED
    BY <1>1, <2>1 DEF Accounted, Underway, historyVars
<1>2. ASSUME NEW w \in Workers, FindNothing(w) \/ Wait(w) \/ Exit(w) \/ WakeWorker(w)
      PROVE  DrainInv'
  <2>1. Accounted'
    BY <1>1, <1>2 DEF FindNothing, Wait, Exit, WakeWorker, TypeOK
  <2>2. ExitState' /\ PhaseState'
    BY <1>2 DEF FindNothing, Wait, Exit, WakeWorker, TypeOK, ExitState, PhaseState, ringVars,
                producerVars
  <2> QED
    BY <1>0, <2>1, <2>2
<1>3. ASSUME NEW w \in Workers, Take(w) PROVE DrainInv'
  <2>1. Queued # <<>> /\ slots[head] = Head(Queued) /\ Queued' = Tail(Queued)
    BY <1>3, RingTake DEF Take, TypeOK
  <2>2. /\ Queued \in Seq(Tasks) /\ Len(Queued) \in Nat
        /\ Len(Queued') = Len(Queued) - 1
        /\ \A k \in 1..Len(Queued') : Queued'[k] = Queued[k + 1]
        /\ Queued[1] = slots[head]
    BY <2>1, HeadTailProperties, LenProperties DEF RingState
  <2>3. \A t : Underway(t) => Underway(t)'
    <3> SUFFICES ASSUME NEW t, Underway(t) PROVE Underway(t)'
      OBVIOUS
    <3>1. wpc'[w] = "run" /\ task'[w] = slots[head] /\ wpc[w] = "lock"
      BY <1>3 DEF Take, TypeOK
    <3>2. ASSUME NEW k \in 1..Len(Queued), Queued[k] = t PROVE Underway(t)'
      <4>1. CASE k = 1
        BY <2>2, <3>1, <3>2, <4>1 DEF Underway
      <4>2. CASE k # 1
        <5>1. k - 1 \in 1..Len(Queued') /\ (k - 1) + 1 = k
          BY <2>2, <4>2
        <5>2. Queued'[k - 1] = t
          BY <2>2, <3>2, <5>1
        <5> QED
          BY <5>1, <5>2 DEF Underway
      <4> QED
        BY <4>1, <4>2
    <3>3. ASSUME NEW v \in Workers, wpc[v] = "run", task[v] = t PROVE Underway(t)'
      <4>1. wpc'[v] = "run" /\ task'[v] = t
        BY <1>3, <3>1, <3>3 DEF Take, TypeOK
      <4> QED
        BY <4>1 DEF Underway
    <3> QED
      BY <3>2, <3>3 DEF Underway
  <2>4. Accounted'
    BY <1>3, <2>3 DEF Take, Accounted, historyVars
  <2>5. ExitState'
    BY <1>3 DEF Take, TypeOK, ExitState
  <2>6. PhaseState'
    BY <1>3 DEF Take, TypeOK, PhaseState
  <2> QED
    BY <1>0, <2>4, <2>5, <2>6
<1>4. ASSUME NEW w \in Workers, Run(w) PROVE DrainInv'
  <2>1. Queued' = Queued
    BY <1>4, RingUnchanged DEF Run
  <2>2. \A t : Underway(t) => Underway(t)' \/ t = task[w]
    BY <1>4, <2>1 DEF Run, TypeOK, Underway
  <2>3. Accounted'
    BY <1>4, <2>2 DEF Run, Accounted
  <2>4. ExitState' /\ PhaseState'
    BY <1>4 DEF Run, TypeOK, ExitState, PhaseState, ringVars, producerVars
  <2> QED
    BY <1>0, <2>3, <2>4
<1>5. ASSUME NEW p \in Producers, Call(p) \/ WaitForRoom(p) \/ Reject(p) \/ WakeProducer(p)
      PROVE  DrainInv'
  <2>1. Accounted'
    BY <1>1, <1>5 DEF Call, WaitForRoom, Reject, WakeProducer, workerVars
  <2>2. ExitState'
    BY <1>5 DEF Call, WaitForRoom, Reject, WakeProducer, ExitState, ringVars, workerVars
  <2>3. PhaseState'
    BY <1>5 DEF Call, WaitForRoom, Reject, WakeProducer, PhaseState, ringVars, workerVars, TypeOK
  <2> QED
    BY <1>0, <2>1, <2>2, <2>3
<1>6. ASSUME NEW p \in Producers, Add(p) PROVE DrainInv'
  <2>1. arg[p] \in Tasks
    BY <1>6 DEF Add, ArgState
  <2>2. Queued' = Append(Queued, arg[p])
    BY <1>6, <2>1, RingPut DEF Add
  <2>3. /\ Len(Queued) \in Nat /\ Len(Queued') = Len(Queued) + 1
        /\ \A k \in 1..Len(Queued) : Queued'[k] = Queued[k]
        /\ Queued'[Len(Queued) + 1] = arg[p]
    BY <2>1, <2>2, AppendProperties, LenProperties DEF RingState
  <2>4. \A w \in Workers : wpc'[w] = wpc[w] \/ (wpc[w] = "waiting" /\ wpc'[w] = "lock")
    <3>1. wpc \in [Workers -> WorkerPCs] /\ "lock" \in WorkerPCs
      BY DEF TypeOK, WorkerPCs
    <3>2. wpc' \in Signalled(wpc)
      BY <1>6 DEF Add
    <3> QED
      BY <3>1, <3>2, SignalledIs
  <2>5. \A t : Underway(t) => Underway(t)'
    <3> SUFFICES ASSUME NEW t, Underway(t) PROVE Underway(t)'
      OBVIOUS
    <3>1. ASSUME NEW k \in 1..Len(Queued), Queued[k] = t PROVE Underway(t)'
      <4>1. k \in 1..Len(Queued') /\ Queued'[k] = t
        BY <2>3, <3>1
      <4> QED
        BY <4>1 DEF Underway
    <3>2. ASSUME NEW v \in Workers, wpc[v] = "run", task[v] = t PROVE Underway(t)'
      BY <1>6, <2>4, <3>2 DEF Underway, Add
    <3> QED
      BY <3>1, <3>2 DEF Underway
  <2>6. Underway(arg[p])'
    <3>1. Len(Queued) + 1 \in 1..Len(Queued')
      BY <2>3
    <3>2. \E k \in 1..Len(Queued') : Queued'[k] = arg[p]
      BY <2>3, <3>1
    <3>3. arg'[p] = arg[p]
      BY <1>6 DEF Add
    <3> QED
      BY <3>2, <3>3 DEF Underway
  <2>7. Accounted'
    <3>1. /\ Len(accepted) \in Nat /\ Len(accepted') = Len(accepted) + 1
          /\ \A i \in 1..Len(accepted) : accepted'[i] = accepted[i]
          /\ accepted'[Len(accepted) + 1] = arg[p]
      BY <1>6, <2>1, AppendProperties, LenProperties DEF Add, TypeOK
    <3>2. ASSUME NEW i \in 1..Len(accepted') PROVE accepted'[i] \in finished' \/ Underway(accepted[i])'
      <4>1. CASE i \in 1..Len(accepted)
        <5>1. PICK t : t = accepted[i]
          OBVIOUS
        <5>2. accepted'[i] = t /\ finished' = finished
          BY <1>6, <3>1, <4>1, <5>1 DEF Add
        <5>3. t \in finished \/ Underway(t)'
          BY <2>5, <4>1, <5>1 DEF Accounted
        <5> QED
          BY <5>2, <5>3 DEF Underway
      <4>2. CASE i = Len(accepted) + 1
        BY <2>6, <3>1, <4>2, <1>6 DEF Underway, Add
      <4> QED
        BY <3>1, <4>1, <4>2
    <3> QED
      BY <3>2 DEF Accounted
  <2>8. ExitState'
    <3>1. \A w \in Workers : wpc[w] # "exited"
      BY <1>6 DEF Add, ExitState
    <3> QED
      BY <2>4, <3>1 DEF ExitState
  <2>9. PhaseState'
    <3>1. phase \in {"up", "closing", "join"} /\ phase' = phase
      BY <1>6 DEF Add, PhaseState, TypeOK, Phases
    <3> QED
      BY <2>4, <3>1 DEF PhaseState
  <2> QED
    BY <1>0, <2>7, <2>8, <2>9
<1>7. ASSUME NEW w \in Workers, StartThread(w) PROVE DrainInv'
  <2>1. Accounted'
    BY <1>1, <1>7 DEF StartThread, TypeOK
  <2>2. ExitState'
    BY <1>7 DEF StartThread, TypeOK, ExitState, ringVars
  <2>3. PhaseState'
    BY <1>7 DEF StartThread, TypeOK, PhaseState, ringVars, producerVars
  <2> QED
    BY <1>0, <2>1, <2>2, <2>3
<1>8. ASSUME FailToStart \/ SetShutdown PROVE DrainInv'
  <2>1. Accounted'
    BY <1>1, <1>8 DEF FailToStart, SetShutdown, workerVars
  <2>2. ExitState' /\ PhaseState'
    BY <1>8 DEF FailToStart, SetShutdown, ExitState, PhaseState, ringVars, workerVars,
                producerVars
  <2> QED
    BY <1>0, <2>1, <2>2
<1>9. ASSUME Broadcast PROVE DrainInv'
  <2>1. \A w \in Workers : wpc'[w] = wpc[w] \/ (wpc[w] = "waiting" /\ wpc'[w] = "lock")
    <3>1. wpc \in [Workers -> WorkerPCs] /\ "lock" \in WorkerPCs
      BY DEF TypeOK, WorkerPCs
    <3> QED
      BY <1>9, <3>1, AllSignalledIs DEF Broadcast
  <2>2. Accounted'
    BY <1>1, <1>9, <2>1 DEF Broadcast
  <2>3. ExitState' /\ PhaseState'
    BY <1>9, <2>1 DEF Broadcast, ExitState, PhaseState, ringVars, producerVars
  <2> QED
    BY <1>0, <2>2, <2>3
<1>10. ASSUME Free PROVE DrainInv'
  <2>1. Accounted'
    BY <1>1, <1>10 DEF Free, workerVars
  <2>2. count = 0
    <3>1. CASE phase = "failJoin"
      BY <3>1 DEF PhaseState
    <3>2. CASE phase = "join"
      BY <1>10, <3>2 DEF Free, PhaseState, ExitState
    <3> QED
      BY <1>10, <3>1, <3>2 DEF Free
  <2>3. ExitState' /\ PhaseState'
    BY <1>10, <2>2 DEF Free, ExitState, PhaseState, ringVars, workerVars
  <2> QED
    BY <1>0, <2>1, <2>3
<1>11. CASE UNCHANGED vars
  <2>1. Accounted'
    BY <1>1, <1>11 DEF vars, ringVars, historyVars
  <2>2. ExitState' /\ PhaseState'
    BY <1>11 DEF vars, ExitState, PhaseState
  <2> QED
    BY <1>0, <2>1, <2>2
<1> QED
  BY <1>2, <1>3, <1>4, <1>5, <1>6, <1>7, <1>8, <1>9, <1>10, <1>11
     DEF Next, Worker, Producer, Owner

\* When thread_pool_destroy frees the pool, every task that was accepted has
\* run: with any number of workers, and also after a failed creation.
THEOREM DestroyDrains == Spec => []DrainedWhenFreed
<1>1. DrainInv => DrainedWhenFreed
  <2> SUFFICES ASSUME DrainInv, phase = "freed", NEW i \in 1..Len(accepted)
               PROVE  accepted[i] \in finished
    BY DEF DrainedWhenFreed
  <2>1. count = 0 /\ \A w \in Workers : wpc[w] \in {"none", "exited"}
    BY DEF DrainInv, PhaseState
  <2>2. Len(Queued) = 0
    BY <2>1, QueuedIs DEF DrainInv, RingInv
  <2>3. ~Underway(accepted[i])
    BY <2>1, <2>2 DEF Underway
  <2> QED
    BY <2>3 DEF DrainInv, Accounted
<1>2. Spec => []DrainInv
  BY DrainInvInit, DrainInvStep, PTL DEF Spec
<1> QED
  BY <1>1, <1>2, PTL
============================================================================
