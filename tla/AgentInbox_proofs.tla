------------------------- MODULE AgentInbox_proofs -------------------------
(***************************************************************************)
(* Proofs about AgentInbox, for any senders and any capacity, without      *)
(* spurious wakeups: InboxInv accounts for every message that a sender was *)
(* told is enqueued, StopInv follows the senders through the shutdown.     *)
(***************************************************************************)
EXTENDS AgentInbox, DataLemmas

\* A sender inside agent_send_message has a message, a busy worker an item.
MsgState == \A s \in Senders : spc[s] \in {"call", "lock", "full"} => msg[s] \in Messages
ItemState == at = "busy" => item \in Messages

\* rear is where front arrives after count steps; between them are messages.
RingState ==
    /\ rear = Slot(front + count, Capacity)
    /\ Queued \in Seq(Messages)

\* The worker that was signalled removes an item without a look at count, and
\* there is one: only the worker takes items out.
WokenState == at = "woken" => count > 0

\* The queue lives from agent_init to agent_cleanup, and the worker does not
\* outlive agent_stop_worker_thread.
LifeState ==
    /\ exists = "none" <=> phase = "boot"
    /\ exists = "destroyed" <=> phase \in {"flag", "down"}
    /\ phase \in {"boot", "ready"} => at = "none"
    /\ phase \in {"cleanup", "flag", "down"} => at \in {"none", "exited"}

Conserved == exists # "destroyed" => accepted = processed \o InHand \o Queued

InboxInv == TypeOK /\ MsgState /\ ItemState /\ RingState /\ WokenState /\ LifeState /\ Conserved

-----------------------------------------------------------------------------
(* Sequences: where a message goes when it is enqueued, dequeued, handled. *)

\* The first of the queue becomes the item in hand.
LEMMA HeadInHand ==
    ASSUME NEW T, NEW p \in Seq(T), NEW q \in Seq(T), q # <<>>
    PROVE  (p \o <<>>) \o q = (p \o <<Head(q)>>) \o Tail(q)
<1>1. Head(q) \in T /\ Tail(q) \in Seq(T) /\ <<Head(q)>> \in Seq(T)
  BY HeadTailProperties
<1>2. q = <<Head(q)>> \o Tail(q)
  <2> DEFINE h == <<Head(q)>>
             r == h \o Tail(q)
  <2>1. /\ Len(q) \in Nat \ {0} /\ Len(Tail(q)) = Len(q) - 1 /\ q[1] = Head(q)
        /\ \A i \in 1..Len(Tail(q)) : Tail(q)[i] = q[i + 1]
    BY EmptySeq, HeadTailProperties
  <2>2. Len(h) = 1 /\ h[1] = Head(q)
    OBVIOUS
  <2>3. /\ r \in Seq(T) /\ Len(r) = Len(h) + Len(Tail(q))
        /\ \A i \in 1..Len(h) + Len(Tail(q)) :
             r[i] = IF i <= Len(h) THEN h[i] ELSE Tail(q)[i - Len(h)]
    BY <1>1, ConcatProperties
  <2> HIDE DEF r, h
  <2>4. Len(r) = Len(q)
    BY <2>1, <2>2, <2>3
  <2>5. \A i \in 1..Len(q) : q[i] = r[i]
    BY <2>1, <2>2, <2>3
  <2>6. q = r
    BY <2>3, <2>4, <2>5, SeqEqual
  <2> QED
    BY <2>6 DEF r, h
<1>3. p \o <<>> = p
  BY ConcatEmptySeq
<1> QED
  BY <1>1, <1>2, <1>3, ConcatAssociative

\* The item in hand becomes the last one processed.
LEMMA InHandProcessed ==
    ASSUME NEW T, NEW p \in Seq(T), NEW x \in T
    PROVE  p \o <<x>> = Append(p, x) \o <<>>
<1>1. Append(p, x) \in Seq(T) /\ Append(p, x) = p \o <<x>>
  BY AppendProperties, AppendIsConcat
<1> QED
  BY <1>1, ConcatEmptySeq

-----------------------------------------------------------------------------
(* The ring of the queue. *)

\* Queued is a ring in the sense of DataLemmas: its type and its length.
LEMMA QueuedIs ==
    ASSUME TypeOK
    PROVE  /\ Queued = RingOf(items, front, count, Capacity)
           /\ Queued \in Seq(Messages \cup {NoItem})
           /\ Len(Queued) = count
<1>1. /\ Capacity \in Nat \ {0}
      /\ front \in 0..Capacity-1 /\ count \in 0..Capacity
      /\ items \in [0..Capacity-1 -> Messages \cup {NoItem}]
  BY AgentInboxAssumption DEF TypeOK
<1>2. Queued = RingOf(items, front, count, Capacity)
  BY DEF Queued, RingOf, Slot
<1> QED
  BY <1>1, <1>2, RingSeq

\* RingAppend, from the present queue to any next items.
LEMMA QueueAppend ==
    ASSUME TypeOK, count < Capacity, NEW x
    PROVE  \A g : (\A i \in 0..Capacity-1 :
                     g[i] = IF i = Slot(front + count, Capacity) THEN x ELSE items[i])
              => RingOf(g, front, count + 1, Capacity)
                   = Append(RingOf(items, front, count, Capacity), x)
<1>1. Capacity \in Nat \ {0} /\ front \in 0..Capacity-1 /\ count \in 0..Capacity-1
  BY AgentInboxAssumption DEF TypeOK
<1>2. PICK N \in Nat \ {0} : N = Capacity
  BY <1>1
<1>3. PICK h \in 0..N-1, n \in 0..N-1, m \in 0..N : h = front /\ n = count /\ m = count + 1
  BY <1>1, <1>2
<1>4. \A g : (\A i \in 0..N-1 : g[i] = IF i = Slot(h + n, N) THEN x ELSE items[i])
        => RingOf(g, h, m, N) = Append(RingOf(items, h, n, N), x)
  <2>1. m = n + 1
    BY <1>3
  <2>2. \A f, g, y :
          /\ m = n + 1
          /\ \A i \in 0..N-1 : g[i] = IF i = Slot(h + n, N) THEN y ELSE f[i]
          => RingOf(g, h, m, N) = Append(RingOf(f, h, n, N), y)
    BY RingAppend
  <2> QED
    BY <2>1, <2>2
<1> QED
  BY <1>2, <1>3, <1>4

\* Writing slot rear, and moving rear on, appends to the queue.
LEMMA RingPut ==
    ASSUME TypeOK, RingState, count < Capacity, NEW x \in Messages,
           items' = [items EXCEPT ![rear] = x],
           rear' = Succ(rear), count' = count + 1, front' = front
    PROVE  RingState' /\ Queued' = Append(Queued, x)
<1>1. /\ Capacity \in Nat \ {0}
      /\ count \in 0..Capacity-1 /\ front \in 0..Capacity-1 /\ rear \in 0..Capacity-1
      /\ items \in [0..Capacity-1 -> Messages \cup {NoItem}]
  BY AgentInboxAssumption DEF TypeOK
<1>2. Queued' = Append(Queued, x)
  <2>1. rear = Slot(front + count, Capacity)
    BY DEF RingState
  <2>2. RingOf(items', front, count', Capacity) = Append(RingOf(items, front, count, Capacity), x)
    <3>1. \A i \in 0..Capacity-1 :
            items'[i] = IF i = Slot(front + count, Capacity) THEN x ELSE items[i]
      BY <1>1, <2>1
    <3> QED
      BY <3>1, QueueAppend
  <2>3. Queued' = RingOf(items', front', count', Capacity)
    BY DEF Queued, RingOf, Slot
  <2> QED
    BY <2>2, <2>3, QueuedIs
<1>3. rear' = Slot(front' + count', Capacity)
  <2>1. PICK i \in Nat : i = front + count
    BY <1>1
  <2>2. Slot(Slot(i, Capacity) + 1, Capacity) = Slot(i + 1, Capacity)
    BY <1>1, <2>1, SlotAdd
  <2>3. i + 1 = front + (count + 1) /\ rear = Slot(i, Capacity)
    BY <1>1, <2>1 DEF RingState
  <2> QED
    BY <2>2, <2>3 DEF Succ, Slot
<1>4. Append(Queued, x) \in Seq(Messages)
  BY AppendProperties DEF RingState
<1> QED
  BY <1>2, <1>3, <1>4 DEF RingState

\* Moving front on removes the first of the queue.
LEMMA RingTake ==
    ASSUME TypeOK, RingState, count > 0,
           front' = Succ(front), count' = count - 1, UNCHANGED <<items, rear>>
    PROVE  /\ RingState'
           /\ Queued # <<>>
           /\ items[front] = Head(Queued)
           /\ Queued' = Tail(Queued)
<1> DEFINE T == Messages \cup {NoItem}
<1> HIDE DEF T
<1>1. /\ Capacity \in Nat \ {0}
      /\ count \in 0..Capacity /\ count # 0 /\ front \in 0..Capacity-1
      /\ items \in [0..Capacity-1 -> T]
  BY AgentInboxAssumption DEF TypeOK, T
<1>2. Queued = RingOf(items, front, count, Capacity) /\ Queued \in Seq(T)
  BY QueuedIs DEF T
<1>3. /\ Queued # <<>>
      /\ items[front] = Head(Queued)
      /\ RingOf(items, Slot(front + 1, Capacity), count - 1, Capacity) = Tail(Queued)
  BY <1>1, <1>2, RingRest
<1>4. Queued' = Tail(Queued)
  <2>1. Queued' = RingOf(items', front', count', Capacity)
    BY DEF Queued, RingOf, Slot
  <2>2. front' = Slot(front + 1, Capacity)
    BY DEF Succ, Slot
  <2> QED
    BY <1>3, <2>1, <2>2
<1>5. rear' = Slot(front' + count', Capacity)
  <2>1. PICK x \in Nat, y \in Nat : x = front + 1 /\ y = count - 1
    BY <1>1
  <2>2. Slot(Slot(x, Capacity) + y, Capacity) = Slot(x + y, Capacity)
    BY <1>1, <2>1, SlotAdd
  <2>3. x + y = front + count /\ front' = Slot(x, Capacity) /\ count' = y
    BY <1>1, <2>1 DEF Succ, Slot
  <2> QED
    BY <2>2, <2>3 DEF RingState
<1>6. Tail(Queued) \in Seq(Messages)
  BY <1>3, HeadTailProperties DEF RingState
<1> QED
  BY <1>3, <1>4, <1>5, <1>6 DEF RingState
\* An index stays within the ring.
LEMMA IndexInRing ==
    ASSUME NEW i \in Nat, i < Capacity + Capacity
    PROVE  i % Capacity \in 0..Capacity-1
<1>1. Slot(i, Capacity) \in 0..Capacity-1
  BY AgentInboxAssumption, SlotIs
<1> QED
  BY <1>1 DEF Slot

\* Steps that leave the ring alone leave the queue alone.
LEMMA RingUnchanged ==
    ASSUME RingState, UNCHANGED ringVars
    PROVE  RingState' /\ Queued' = Queued
<1>1. Queued' = Queued
  BY DEF ringVars, Queued
<1> QED
  BY <1>1 DEF RingState, ringVars

\* The signal of not_full moves one sender from the wait to the lock, if any.
LEMMA OneSenderWokenIs ==
    ASSUME spc \in [Senders -> SenderPCs], NEW new \in OneSenderWoken
    PROVE  /\ new \in [Senders -> SenderPCs]
           /\ \A s \in Senders : new[s] = spc[s] \/ (spc[s] = "full" /\ new[s] = "lock")
  BY DEF OneSenderWoken, SenderPCs

-----------------------------------------------------------------------------
(* InboxInv holds initially and in every step. *)

\* Before agent_init everything is empty.
LEMMA InboxInvInit == Init => InboxInv
<1> SUFFICES ASSUME Init PROVE InboxInv
  OBVIOUS
<1> USE AgentInboxAssumption
<1>1. TypeOK
  <2>1. front \in 0..Capacity-1 /\ rear \in 0..Capacity-1 /\ count \in 0..Capacity
        /\ issued \in 0..MaxMessages
    BY DEF Init
  <2>2. items \in [0..Capacity-1 -> Messages \cup {NoItem}]
    BY DEF Init
  <2>3. accepted \in Seq(Messages) /\ processed \in Seq(Messages)
    BY EmptySeq DEF Init
  <2> QED
    BY <2>1, <2>2, <2>3 DEF Init, TypeOK, Phases, WorkerPCs, SenderPCs
<1>2. MsgState /\ ItemState /\ WokenState /\ LifeState
  BY DEF Init, MsgState, ItemState, WokenState, LifeState
<1>3. Queued = <<>>
  <2>1. Queued \in Seq(Messages \cup {NoItem}) /\ Len(Queued) = 0
    BY <1>1, QueuedIs DEF Init
  <2> QED
    BY <2>1, EmptySeq
<1>4. RingState
  <2>1. Slot(0, Capacity) = 0
    BY SlotIs
  <2> QED
    BY <1>3, <2>1, EmptySeq DEF Init, RingState
<1>5. Conserved
  <2>1. <<>> \in Seq(Messages)
    BY EmptySeq
  <2>2. (<<>> \o <<>>) \o <<>> = <<>>
    BY <2>1, ConcatEmptySeq
  <2> QED
    BY <1>3, <2>2 DEF Init, Conserved, InHand
<1> QED
  BY <1>1, <1>2, <1>4, <1>5 DEF InboxInv

\* The parts of agent_send_message outside the ring: the flag, the pointer, the wait.
LEMMA SenderStep ==
    ASSUME InboxInv, NEW s \in Senders,
           Send(s) \/ EnterQueue(s) \/ WaitWhileFull(s) \/ WakeSender(s)
    PROVE  InboxInv'
<1> USE AgentInboxAssumption DEF InboxInv
<1>1. UNCHANGED ringVars /\ RingState' /\ Queued' = Queued
  BY RingUnchanged DEF Send, EnterQueue, WaitWhileFull, WakeSender
<1>2. /\ UNCHANGED <<workerVars, mainVars, accepted, processed>>
      /\ spc' \in [Senders -> SenderPCs] /\ issued' \in 0..MaxMessages
      /\ msg' \in [Senders -> Messages \cup {NoItem}]
      /\ \A t \in Senders : spc'[t] \in {"call", "lock", "full"} => msg'[t] \in Messages
  <2>1. CASE Send(s)
    <3>1. issued' \in Messages /\ issued' \in 0..MaxMessages
      BY <2>1 DEF Send, TypeOK, Messages
    <3> QED
      BY <2>1, <3>1 DEF Send, TypeOK, MsgState, SenderPCs
  <2>2. CASE EnterQueue(s) \/ WaitWhileFull(s) \/ WakeSender(s)
    BY <2>2 DEF EnterQueue, WaitWhileFull, WakeSender, TypeOK, MsgState, SenderPCs
  <2> QED
    BY <2>1, <2>2
<1>3. TypeOK'
  BY <1>1, <1>2 DEF TypeOK, ringVars, workerVars, mainVars
<1>4. MsgState' /\ ItemState' /\ WokenState' /\ LifeState'
  BY <1>1, <1>2 DEF MsgState, ItemState, WokenState, LifeState, ringVars, workerVars, mainVars
<1>5. Conserved'
  BY <1>1, <1>2 DEF Conserved, InHand, workerVars, mainVars
<1> QED
  BY <1>1, <1>3, <1>4, <1>5
\* queue_enqueue with room: the message goes behind the last, and a worker that
\* waits is signalled when there is an item.
LEMMA EnqueueStep ==
    ASSUME InboxInv, NEW s \in Senders, Enqueue(s)
    PROVE  InboxInv'
<1> USE AgentInboxAssumption DEF InboxInv
<1>1. msg[s] \in Messages
  BY DEF Enqueue, MsgState
<1>2. RingState' /\ Queued' = Append(Queued, msg[s])
  BY <1>1, RingPut DEF Enqueue
<1>3. TypeOK'
  <2>1. rear' \in 0..Capacity-1
    <3>1. PICK i \in Nat : i = rear + 1 /\ i < Capacity + Capacity
      BY DEF TypeOK
    <3> QED
      BY <3>1, IndexInRing DEF Enqueue, Succ
  <2>2. count' \in 0..Capacity
    BY DEF Enqueue, TypeOK
  <2>3. items' \in [0..Capacity-1 -> Messages \cup {NoItem}]
    BY <1>1 DEF Enqueue, TypeOK
  <2>4. accepted' \in Seq(Messages)
    BY <1>1, AppendProperties DEF Enqueue, TypeOK
  <2>5. spc' \in [Senders -> SenderPCs] /\ at' \in WorkerPCs
    BY DEF Enqueue, TypeOK, SenderPCs, WorkerPCs
  <2> QED
    BY <2>1, <2>2, <2>3, <2>4, <2>5 DEF Enqueue, TypeOK, mainVars
<1>4. MsgState' /\ ItemState' /\ LifeState'
  BY DEF Enqueue, TypeOK, MsgState, ItemState, LifeState, mainVars
<1>5. WokenState'
  BY DEF Enqueue, TypeOK, WokenState
<1>6. Conserved'
  <2>1. accepted = (processed \o InHand) \o Queued
    BY DEF Enqueue, Conserved
  <2>2. processed \o InHand \in Seq(Messages)
    <3>1. InHand \in Seq(Messages)
      BY DEF InHand, ItemState
    <3> QED
      BY <3>1, ConcatProperties DEF TypeOK
  <2>3. accepted' = (processed \o InHand) \o Append(Queued, msg[s])
    <3> DEFINE p == processed \o InHand
               one == <<msg[s]>>
    <3>1. /\ p \in Seq(Messages) /\ Queued \in Seq(Messages) /\ accepted \in Seq(Messages)
          /\ one \in Seq(Messages)
      BY <1>1, <2>2 DEF RingState, TypeOK
    <3>2. Append(accepted, msg[s]) = accepted \o one /\ Append(Queued, msg[s]) = Queued \o one
      BY <1>1, <3>1, AppendIsConcat
    <3> HIDE DEF p, one
    <3>3. (p \o Queued) \o one = p \o (Queued \o one)
      BY <3>1, ConcatAssociative
    <3>4. Append(accepted, msg[s]) = p \o Append(Queued, msg[s])
      BY <2>1, <3>2, <3>3 DEF p
    <3> QED
      BY <3>4 DEF Enqueue, p
  <2>4. InHand' = InHand /\ processed' = processed
    BY DEF Enqueue, InHand
  <2> QED
    BY <1>2, <2>3, <2>4 DEF Conserved
<1> QED
  BY <1>2, <1>3, <1>4, <1>5, <1>6

\* The end of queue_dequeue: the first of the queue is in hand.
LEMMA DequeueStep ==
    ASSUME InboxInv, Dequeue
    PROVE  InboxInv'
<1> USE AgentInboxAssumption DEF InboxInv
<1>1. count > 0 /\ at # "busy"
  BY DEF Dequeue, WokenState, TypeOK
<1>2. /\ RingState' /\ Queued # <<>> /\ Queued' = Tail(Queued)
      /\ item' = Head(Queued)
  BY <1>1, RingTake DEF Dequeue, RemoveOldest
<1>3. item' \in Messages
  BY <1>2, HeadTailProperties DEF RingState
<1>4. /\ spc' \in [Senders -> SenderPCs]
      /\ \A s \in Senders : spc'[s] = spc[s] \/ (spc[s] = "full" /\ spc'[s] = "lock")
  BY OneSenderWokenIs DEF Dequeue, RemoveOldest, TypeOK
<1>5. TypeOK'
  <2>1. front' \in 0..Capacity-1
    <3>1. PICK i \in Nat : i = front + 1 /\ i < Capacity + Capacity
      BY DEF TypeOK
    <3> QED
      BY <3>1, IndexInRing DEF Dequeue, RemoveOldest, Succ
  <2>2. count' \in 0..Capacity
    BY <1>1 DEF Dequeue, RemoveOldest, TypeOK
  <2>3. at' \in WorkerPCs
    BY DEF Dequeue, RemoveOldest, WorkerPCs
  <2> QED
    BY <1>3, <1>4, <2>1, <2>2, <2>3 DEF Dequeue, RemoveOldest, TypeOK, mainVars
<1>6. MsgState' /\ ItemState' /\ WokenState' /\ LifeState'
  BY <1>3, <1>4 DEF Dequeue, RemoveOldest, MsgState, ItemState, WokenState, LifeState, mainVars
<1>7. Conserved'
  <2>1. CASE exists = "destroyed"
    BY <2>1 DEF Dequeue, mainVars, Conserved
  <2>2. CASE exists # "destroyed"
    <3>1. accepted = (processed \o <<>>) \o Queued
      BY <1>1, <2>2 DEF Conserved, InHand
    <3>2. accepted = (processed \o <<Head(Queued)>>) \o Tail(Queued)
      BY <1>2, <3>1, HeadInHand DEF RingState, TypeOK
    <3>3. InHand' = <<Head(Queued)>>
      BY <1>2 DEF InHand, Dequeue, RemoveOldest
    <3> QED
      BY <1>2, <3>2, <3>3 DEF Conserved, Dequeue
  <2> QED
    BY <2>1, <2>2
<1> QED
  BY <1>2, <1>5, <1>6, <1>7

\* The other steps of the worker's loop.
LEMMA WorkerStep ==
    ASSUME InboxInv, TestRunning \/ WaitWhileEmpty \/ TimeOut \/ Handle
    PROVE  InboxInv'
<1> USE AgentInboxAssumption DEF InboxInv
<1>1. UNCHANGED ringVars /\ RingState' /\ Queued' = Queued
  BY RingUnchanged DEF TestRunning, WaitWhileEmpty, TimeOut, Handle
<1>2. processed' \in Seq(Messages)
  <2>1. CASE Handle
    BY <2>1, AppendProperties DEF Handle, ItemState, TypeOK
  <2>2. CASE TestRunning \/ WaitWhileEmpty \/ TimeOut
    BY <2>2 DEF TestRunning, WaitWhileEmpty, TimeOut, TypeOK
  <2> QED
    BY <2>1, <2>2
<1>3. TypeOK'
  BY <1>1, <1>2 DEF TestRunning, WaitWhileEmpty, TimeOut, Handle, TypeOK, ringVars, senderVars,
                    mainVars, WorkerPCs
<1>4. MsgState' /\ ItemState' /\ WokenState' /\ LifeState'
  BY DEF TestRunning, WaitWhileEmpty, TimeOut, Handle, MsgState, ItemState, WokenState,
         LifeState, ringVars, senderVars, mainVars
<1>5. Conserved'
  <2>1. CASE Handle
    <3>1. InHand = <<item>> /\ InHand' = <<>>
      BY <2>1 DEF Handle, InHand
    <3>2. processed \o <<item>> = Append(processed, item) \o <<>>
      BY <2>1, InHandProcessed DEF Handle, ItemState, TypeOK
    <3> QED
      BY <1>1, <2>1, <3>1, <3>2 DEF Handle, Conserved, mainVars
  <2>2. CASE TestRunning \/ WaitWhileEmpty \/ TimeOut
    <3>1. InHand' = InHand
      BY <2>2 DEF TestRunning, WaitWhileEmpty, TimeOut, InHand
    <3> QED
      BY <1>1, <2>2, <3>1 DEF TestRunning, WaitWhileEmpty, TimeOut, Conserved, mainVars
  <2> QED
    BY <2>1, <2>2
<1> QED
  BY <1>1, <1>3, <1>4, <1>5

\* What main does, except that it destroys the queue.
LEMMA MainStep ==
    ASSUME InboxInv,
           \/ StartAgent \/ StartWorker \/ Leave \/ \E s \in Joined : JoinSender(s)
           \/ StopWorkerThread \/ JoinWorker \/ ClearRunning
    PROVE  InboxInv'
<1> USE AgentInboxAssumption DEF InboxInv
<1>1. /\ UNCHANGED <<ringVars, senderVars, item, accepted, processed>>
      /\ at' = at \/ (at' = "test" /\ phase = "ready" /\ phase' = "serve")
  BY DEF StartAgent, StartWorker, Leave, JoinSender, StopWorkerThread, StopWorker, JoinWorker,
         ClearRunning, workerVars
<1>2. /\ phase' \in Phases /\ exists' \in {"none", "live", "destroyed"} /\ stopped' \subseteq Joined
      /\ running' \in BOOLEAN /\ wanted' \in BOOLEAN
  BY DEF StartAgent, StartWorker, Leave, JoinSender, StopWorkerThread, StopWorker, JoinWorker,
         ClearRunning, TypeOK, Phases
<1>3. LifeState'
  BY <1>1 DEF StartAgent, StartWorker, Leave, JoinSender, StopWorkerThread, StopWorker,
              JoinWorker, ClearRunning, LifeState, workerVars
<1>4. RingState' /\ Queued' = Queued
  BY <1>1, RingUnchanged
<1>5. TypeOK'
  BY <1>1, <1>2 DEF TypeOK, ringVars, senderVars, WorkerPCs
<1>6. MsgState'
  BY <1>1 DEF MsgState, senderVars
<1>7. ItemState' /\ WokenState'
  BY <1>1 DEF ItemState, WokenState, ringVars
<1>8. InHand' = InHand
  BY <1>1 DEF InHand, LifeState
<1>9. exists' = "destroyed" \/ exists # "destroyed"
  BY DEF StartAgent, StartWorker, Leave, JoinSender, StopWorkerThread, StopWorker, JoinWorker,
         ClearRunning, LifeState
<1>10. Conserved'
  BY <1>1, <1>4, <1>8, <1>9 DEF Conserved
<1> QED
  BY <1>3, <1>4, <1>5, <1>6, <1>7, <1>10
\* queue_destroy empties the ring; who was inside queue_enqueue has no message.
LEMMA DestroyStep ==
    ASSUME InboxInv, DestroyQueue
    PROVE  InboxInv'
<1> USE AgentInboxAssumption DEF InboxInv
<1>1. PICK i \in Nat : i = front + count /\ i < Capacity + Capacity
  BY DEF TypeOK
<1>2. front' = Slot(i, Capacity) /\ front' \in 0..Capacity-1 /\ rear' = front'
  BY <1>1, IndexInRing DEF DestroyQueue, RingState, Slot
<1>3. TypeOK'
  <2>1. spc' \in [Senders -> SenderPCs] /\ phase' \in Phases /\ count' \in 0..Capacity
    BY DEF DestroyQueue, TypeOK, SenderPCs, Phases
  <2> QED
    BY <1>2, <2>1 DEF DestroyQueue, TypeOK, workerVars
<1>4. RingState'
  <2>1. Slot(front' + count', Capacity) = rear'
    BY <1>2, SlotIs DEF DestroyQueue
  <2>2. (Queued \in Seq(Messages \cup {NoItem}) /\ Len(Queued) = count)'
    <3>1. (TypeOK => Queued \in Seq(Messages \cup {NoItem}) /\ Len(Queued) = count)'
      BY QueuedIs, PTL
    <3> QED
      BY <1>3, <3>1
  <2>3. Queued' = <<>>
    BY <2>2, EmptySeq DEF DestroyQueue
  <2> QED
    BY <2>1, <2>3, EmptySeq DEF RingState
<1>5. MsgState' /\ ItemState' /\ WokenState' /\ LifeState' /\ Conserved'
  BY DEF DestroyQueue, TypeOK, MsgState, ItemState, WokenState, LifeState, Conserved, workerVars
<1> QED
  BY <1>3, <1>4, <1>5

\* Every step keeps InboxInv.
LEMMA InboxInvStep == InboxInv /\ [Next]_vars => InboxInv'
<1> SUFFICES ASSUME InboxInv, [Next]_vars PROVE InboxInv'
  OBVIOUS
<1>1. ASSUME NEW s \in Senders, Send(s) \/ EnterQueue(s) \/ WaitWhileFull(s) \/ WakeSender(s)
      PROVE  InboxInv'
  BY <1>1, SenderStep
<1>2. ASSUME NEW s \in Senders, Enqueue(s) PROVE InboxInv'
  BY <1>2, EnqueueStep
<1>3. CASE Dequeue
  BY <1>3, DequeueStep
<1>4. CASE TestRunning \/ WaitWhileEmpty \/ TimeOut \/ Handle
  BY <1>4, WorkerStep
<1>5. CASE \/ StartAgent \/ StartWorker \/ Leave \/ \E s \in Joined : JoinSender(s)
           \/ StopWorkerThread \/ JoinWorker \/ ClearRunning
  BY <1>5, MainStep
<1>6. CASE DestroyQueue
  BY <1>6, DestroyStep
<1>7. CASE UNCHANGED vars
  <2>1. RingState' /\ Queued' = Queued
    BY <1>7, RingUnchanged DEF InboxInv, vars
  <2>2. InHand' = InHand
    BY <1>7 DEF InHand, vars, workerVars
  <2> QED
    BY <1>7, <2>1, <2>2 DEF InboxInv, TypeOK, MsgState, ItemState, WokenState, LifeState,
         Conserved, vars, ringVars, workerVars, senderVars, mainVars
<1> QED
  BY <1>1, <1>2, <1>3, <1>4, <1>5, <1>6, <1>7
     DEF Next, Sender, Worker, Startup, Shutdown

\* Every reachable state satisfies InboxInv.
LEMMA InboxInvAlways == Spec => []InboxInv
BY InboxInvInit, InboxInvStep, PTL DEF Spec

-----------------------------------------------------------------------------
(* The senders and the shutdown. *)

\* A sender that is joined is out of agent_send_message, and stays out of it.
\* Main sends only from its command loop.  After gateway_stop every sender that
\* it knows is joined.
StopState ==
    /\ \A s \in stopped : spc[s] = "idle"
    /\ spc[Main] # "idle" => phase = "serve"
    /\ phase \in {"join", "cleanup", "flag", "down"} => Joined \subseteq stopped

StopInv == StopState /\ OnlyDetachedLost

\* Nothing is sent before agent_init.
LEMMA StopInvInit == Init => StopInv
BY DEF Init, StopInv, StopState, OnlyDetachedLost, Senders

\* Every step keeps StopInv.
LEMMA StopInvStep == InboxInv /\ InboxInv' /\ StopInv /\ [Next]_vars => StopInv'
<1> SUFFICES ASSUME InboxInv, InboxInv', StopInv, [Next]_vars PROVE StopInv'
  OBVIOUS
<1> USE AgentInboxAssumption DEF StopInv
<1>1. /\ spc \in [Senders -> SenderPCs] /\ stopped \subseteq Joined /\ stopped \subseteq Senders
      /\ Main \in Senders /\ Main \notin stopped
      /\ \A s \in Senders : s \in Detached \/ s \in Joined \/ s = Main
  BY DEF InboxInv, TypeOK, Senders
<1>2. ASSUME NEW s \in Senders, Send(s) \/ Sender(s) \/ WakeSender(s) PROVE StopInv'
  <2>1. /\ UNCHANGED <<stopped, phase>> /\ s \notin stopped
        /\ s = Main => phase = "serve"
        /\ spc' = [spc EXCEPT ![s] = spc'[s]] /\ spc'[s] # "lost"
    BY <1>1, <1>2 DEF Send, MaySend, Sender, EnterQueue, WaitWhileFull, Enqueue, WakeSender,
                      StopState, mainVars
  <2> QED
    BY <1>1, <2>1 DEF StopState, OnlyDetachedLost
<1>3. CASE Worker
  <2>1. /\ UNCHANGED <<stopped, phase>>
        /\ \A s \in Senders : spc'[s] = spc[s] \/ (spc[s] = "full" /\ spc'[s] = "lock")
    <3>1. CASE Dequeue
      BY <1>1, <3>1, OneSenderWokenIs DEF Dequeue, RemoveOldest, mainVars
    <3>2. CASE TestRunning \/ WaitWhileEmpty \/ TimeOut \/ Handle
      BY <3>2 DEF TestRunning, WaitWhileEmpty, TimeOut, Handle, senderVars, mainVars
    <3> QED
      BY <1>3, <3>1, <3>2 DEF Worker
  <2>2. StopState'
    BY <1>1, <2>1 DEF StopState
  <2>3. OnlyDetachedLost'
    BY <1>1, <2>1 DEF OnlyDetachedLost
  <2> QED
    BY <2>2, <2>3
<1>4. CASE Startup \/ Leave \/ StopWorkerThread \/ JoinWorker \/ ClearRunning
  BY <1>1, <1>4 DEF Startup, StartAgent, StartWorker, Leave, StopWorkerThread, StopWorker,
       JoinWorker, ClearRunning, StopState, OnlyDetachedLost, senderVars, mainVars
<1>5. ASSUME NEW s \in Joined, JoinSender(s) PROVE StopInv'
  BY <1>1, <1>5 DEF JoinSender, StopState, OnlyDetachedLost, senderVars
<1>6. CASE DestroyQueue
  <2>1. \A s \in Senders : spc[s] \in {"lock", "full"} => s \in Detached
    BY <1>1, <1>6 DEF DestroyQueue, StopState
  <2>2. /\ UNCHANGED stopped /\ phase = "cleanup" /\ phase' = "flag"
        /\ \A s \in Senders :
             spc'[s] = IF spc[s] \in {"lock", "full"} THEN "lost" ELSE spc[s]
    BY <1>6 DEF DestroyQueue
  <2>3. StopState'
    BY <1>1, <2>2 DEF StopState
  <2>4. OnlyDetachedLost'
    BY <1>1, <2>1, <2>2 DEF OnlyDetachedLost
  <2> QED
    BY <2>3, <2>4
<1>7. CASE UNCHANGED vars
  BY <1>7 DEF StopState, OnlyDetachedLost, vars, senderVars, mainVars
<1> QED
  BY <1>2, <1>3, <1>4, <1>5, <1>6, <1>7 DEF Next, Shutdown

-----------------------------------------------------------------------------
(* The theorems. *)

\* Every variable keeps its type: the queue its bound, its indices the ring,
\* and the worker never takes an item out of an empty queue (queue.c).
THEOREM InboxTypeCorrect == Spec => []TypeOK
BY InboxInvAlways, PTL DEF InboxInv

\* As long as the queue exists, the messages that agent_send_message reported
\* as enqueued are those processed, in hand and queued, each once, in order.
THEOREM MessagesConserved == Spec => []NothingLostOrReordered
<1>1. InboxInv => NothingLostOrReordered
  BY DEF InboxInv, Conserved, NothingLostOrReordered
<1> QED
  BY <1>1, InboxInvAlways, PTL

\* The order of the shutdown in main.c keeps every thread that the program
\* joins out of the queue when agent_cleanup destroys it.
THEOREM ShutdownOrder == Spec => []OnlyDetachedLost
<1>1. Spec => []StopInv
  BY InboxInvAlways, StopInvInit, StopInvStep, PTL DEF Spec
<1> QED
  BY <1>1, PTL DEF StopInv
=============================================================================
