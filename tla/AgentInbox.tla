----------------------------- MODULE AgentInbox -----------------------------
(***************************************************************************)
(* The agent's message queue (common/queue.c), the threads that send to it *)
(* (agent_send_message), the worker thread that empties it (the loop of    *)
(* agent_node_worker_thread), and the start and shutdown of all of them    *)
(* (main.c): gateway_stop joins the senders it knows, then the worker is   *)
(* joined, then the queue is destroyed.                                    *)
(*                                                                         *)
(* What a thread does from pthread_mutex_lock to the unlock or the wait is *)
(* one action.  pthread_cond_timedwait is a wait that may also time out.   *)
(***************************************************************************)
EXTENDS Integers, Sequences

CONSTANTS Joined,      \* senders that gateway_stop joins: HTTP, WebSocket, Feishu
          Detached,    \* senders that nobody joins: the Weixin polling thread
          Main,        \* the main thread, a sender too
          Capacity,    \* capacity of the queue (100 in agent_init)
          MaxMessages, \* bound: the number of calls of agent_send_message
          NoItem

Senders == Joined \cup Detached \cup {Main}
Messages == 1..MaxMessages

ASSUME AgentInboxAssumption ==
    /\ Capacity \in Nat \ {0}
    /\ MaxMessages \in Nat
    /\ Main \notin Joined \cup Detached
    /\ Joined \cap Detached = {}
    /\ NoItem \notin Messages

VARIABLES front, rear, count,  \* indices and size of the ring
          items,      \* the ring
          exists,     \* g_agent.message_queue: "none", "live" or "destroyed"
          running,    \* g_agent.running
          wanted,     \* node->worker_running
          at,         \* where the worker is: see WorkerPCs
          item,       \* the item the worker has dequeued
          spc,        \* sender -> where it is in agent_send_message
          msg,        \* sender -> the message it sends
          stopped,    \* the senders that gateway_stop has joined
          phase,      \* where main is: see Phases
          issued,     \* the number of calls so far
          accepted,   \* history: the messages enqueued, in order
          processed   \* history: the messages processed, in order

ringVars == <<front, rear, count, items>>
workerVars == <<at, item>>
senderVars == <<spc, msg, issued>>
mainVars == <<exists, running, wanted, stopped, phase>>
vars == <<ringVars, workerVars, senderVars, mainVars, accepted, processed>>

\* "test": reads worker_running; "dequeue": calls queue_dequeue; "waiting": in
\* the timed wait; "woken": signalled, about to remove an item without another
\* look at count; "busy": steps 2 to 7 of the loop; "none", "exited".
WorkerPCs == {"none", "test", "dequeue", "waiting", "woken", "busy", "exited"}

\* "call": has seen running, about to read g_agent.message_queue; "lock": inside
\* queue_enqueue; "full": waits for not_full; "lost": inside queue_enqueue when
\* the queue is destroyed under it, where the language promises nothing.
SenderPCs == {"idle", "call", "lock", "full", "lost"}

\* main: before agent_init, between it and the worker's start, the command loop,
\* gateway_stop, agent_stop_worker_thread, agent_cleanup up to the queue, then
\* up to the flag, and the end.
Phases == {"boot", "ready", "serve", "gateway", "join", "cleanup", "flag", "down"}

Init ==
    /\ front = 0 /\ rear = 0 /\ count = 0
    /\ items = [i \in 0..Capacity-1 |-> NoItem]
    /\ exists = "none"
    /\ running = FALSE
    /\ wanted = FALSE
    /\ at = "none"
    /\ item = NoItem
    /\ spc = [s \in Senders |-> "idle"]
    /\ msg = [s \in Senders |-> NoItem]
    /\ stopped = {}
    /\ phase = "boot"
    /\ issued = 0
    /\ accepted = <<>>
    /\ processed = <<>>

SuccUnwrapped(i) == i + 1       \* a slip: the indices do not wrap around

Succ(i) == (i + 1) % Capacity

\* pthread_cond_signal(&queue->not_full).
OneSenderWoken ==
    LET waiters == {s \in Senders : spc[s] = "full"}
    IN  IF waiters = {} THEN {spc} ELSE {[spc EXCEPT ![s] = "lock"] : s \in waiters}

-----------------------------------------------------------------------------
(* Plausible slips in the code below. *)

EnqueueWhenWoken(s) ==          \* if instead of while around the wait
    /\ spc[s] = "lock" /\ exists = "live"
    /\ items' = [items EXCEPT ![rear] = msg[s]]
    /\ rear' = Succ(rear)
    /\ count' = count + 1
    /\ accepted' = Append(accepted, msg[s])
    /\ at' = IF at = "waiting" THEN "woken" ELSE at
    /\ spc' = [spc EXCEPT ![s] = "idle"]
    /\ UNCHANGED <<front, item, msg, issued, mainVars, processed>>

RemoveLatest ==                 \* the newest item is removed, not the oldest
    LET last == (rear + Capacity - 1) % Capacity
    IN  /\ item' = items[last]
        /\ rear' = last
        /\ count' = count - 1
        /\ at' = "busy"
        /\ spc' \in OneSenderWoken
        /\ UNCHANGED <<front, items>>

RemoveUnsignalled ==            \* not_full is never signalled
    /\ item' = items[front]
    /\ front' = Succ(front)
    /\ count' = count - 1
    /\ at' = "busy"
    /\ UNCHANGED <<rear, items, spc>>

WaitIndefinitely == FALSE       \* queue_dequeue is called with timeout 0

StopBeforeGateway ==            \* the senders are not joined first
    /\ phase = "gateway"
    /\ wanted' = FALSE
    /\ phase' = "join"
    /\ UNCHANGED <<exists, running, stopped>>

-----------------------------------------------------------------------------
(* agent_send_message and queue_enqueue *)

\* A thread that may still run code of the program: main sends from its
\* command loop, a joined sender until it is joined, a detached one always.
MaySend(s) == IF s = Main THEN phase = "serve" ELSE s \notin stopped

\* The flag is set: a message and an item are made.  Otherwise nothing happens.
Send(s) ==
    /\ MaySend(s)
    /\ spc[s] = "idle"
    /\ issued < MaxMessages
    /\ running
    /\ issued' = issued + 1
    /\ msg' = [msg EXCEPT ![s] = issued']
    /\ spc' = [spc EXCEPT ![s] = "call"]
    /\ UNCHANGED <<ringVars, workerVars, mainVars, accepted, processed>>

\* The pointer is read: NULL makes queue_enqueue return false at once.
EnterQueue(s) ==
    /\ spc[s] = "call"
    /\ spc' = [spc EXCEPT ![s] = IF exists = "live" THEN "lock" ELSE "idle"]
    /\ UNCHANGED <<ringVars, workerVars, msg, issued, mainVars, accepted, processed>>

WaitWhileFull(s) ==
    /\ spc[s] = "lock" /\ exists = "live"
    /\ count >= Capacity
    /\ spc' = [spc EXCEPT ![s] = "full"]
    /\ UNCHANGED <<ringVars, workerVars, msg, issued, mainVars, accepted, processed>>

Enqueue(s) ==
    /\ spc[s] = "lock" /\ exists = "live"
    /\ count < Capacity
    /\ items' = [items EXCEPT ![rear] = msg[s]]
    /\ rear' = Succ(rear)
    /\ count' = count + 1
    /\ accepted' = Append(accepted, msg[s])
    /\ at' = IF at = "waiting" THEN "woken" ELSE at
    /\ spc' = [spc EXCEPT ![s] = "idle"]
    /\ UNCHANGED <<front, item, msg, issued, mainVars, processed>>

\* pthread_cond_wait may return without a signal; the while loop looks again.
WakeSender(s) ==
    /\ spc[s] = "full" /\ exists = "live"
    /\ spc' = [spc EXCEPT ![s] = "lock"]
    /\ UNCHANGED <<ringVars, workerVars, msg, issued, mainVars, accepted, processed>>

-----------------------------------------------------------------------------
(* agent_node_worker_thread and queue_dequeue *)

TestRunning ==
    /\ at = "test"
    /\ at' = IF wanted THEN "dequeue" ELSE "exited"
    /\ UNCHANGED <<ringVars, item, senderVars, mainVars, accepted, processed>>

WaitWhileEmpty ==
    /\ at = "dequeue"
    /\ count = 0
    /\ at' = "waiting"
    /\ UNCHANGED <<ringVars, item, senderVars, mainVars, accepted, processed>>

\* The end of queue_dequeue: the item at the front, whatever count is.
RemoveOldest ==
    /\ item' = items[front]
    /\ front' = Succ(front)
    /\ count' = count - 1
    /\ at' = "busy"
    /\ spc' \in OneSenderWoken
    /\ UNCHANGED <<rear, items>>

Dequeue ==
    /\ \/ at = "dequeue" /\ count # 0
       \/ at = "woken"
    /\ RemoveOldest
    /\ UNCHANGED <<msg, issued, mainVars, accepted, processed>>

\* ETIMEDOUT: queue_dequeue returns NULL and the loop continues.
TimeOut ==
    /\ at = "waiting"
    /\ at' = "test"
    /\ UNCHANGED <<ringVars, item, senderVars, mainVars, accepted, processed>>

\* Steps 2 to 7 of the loop: SessionStore and AgentStream model them.
Handle ==
    /\ at = "busy"
    /\ processed' = Append(processed, item)
    /\ item' = NoItem
    /\ at' = "test"
    /\ UNCHANGED <<ringVars, senderVars, mainVars, accepted>>

\* pthread_cond_timedwait may also return 0 without a signal; queue_dequeue,
\* which tests count with an if, then removes an item all the same.
SpuriousWakeup ==
    /\ at = "waiting"
    /\ at' = "woken"
    /\ UNCHANGED <<ringVars, item, senderVars, mainVars, accepted, processed>>

-----------------------------------------------------------------------------
(* main *)

\* agent_init creates the queue and then sets the flag.  A sender that looks
\* at the flag in between is turned away, as before.
StartAgent ==
    /\ phase = "boot"
    /\ exists' = "live"
    /\ running' = TRUE
    /\ phase' = "ready"
    /\ UNCHANGED <<ringVars, workerVars, senderVars, wanted, stopped, accepted, processed>>

\* agent_start_worker_thread succeeds or fails; main continues in both cases.
StartWorker ==
    /\ phase = "ready"
    /\ phase' = "serve"
    /\ \/ wanted' = TRUE /\ at' = "test"
       \/ UNCHANGED <<wanted, at>>
    /\ UNCHANGED <<ringVars, item, senderVars, exists, running, stopped, accepted, processed>>

\* The command loop ends: exit, shutdown, end of input or a signal.
Leave ==
    /\ phase = "serve"
    /\ spc[Main] = "idle"
    /\ phase' = "gateway"
    /\ UNCHANGED <<ringVars, workerVars, senderVars, exists, running, wanted, stopped,
                   accepted, processed>>

\* gateway_stop joins a sender, which ends once it is out of its handler.
JoinSender(s) ==
    /\ phase = "gateway"
    /\ s \in Joined \ stopped
    /\ spc[s] = "idle"
    /\ stopped' = stopped \cup {s}
    /\ UNCHANGED <<ringVars, workerVars, senderVars, exists, running, wanted, phase,
                   accepted, processed>>

\* agent_node_stop_worker clears worker_running before it joins the thread.
StopWorker ==
    /\ phase = "gateway"
    /\ Joined \subseteq stopped
    /\ wanted' = FALSE
    /\ phase' = "join"
    /\ UNCHANGED <<exists, running, stopped>>

StopWorkerThread ==
    /\ StopWorker
    /\ UNCHANGED <<ringVars, workerVars, senderVars, accepted, processed>>

JoinWorker ==
    /\ phase = "join"
    /\ at \in {"none", "exited"}
    /\ phase' = "cleanup"
    /\ UNCHANGED <<ringVars, workerVars, senderVars, exists, running, wanted, stopped,
                   accepted, processed>>

\* queue_destroy discards what is queued.  It takes no lock, and senders that
\* are inside queue_enqueue go on with freed memory.
DestroyQueue ==
    /\ phase = "cleanup"
    /\ exists' = "destroyed"
    /\ front' = (front + count) % Capacity
    /\ count' = 0
    /\ spc' = [s \in Senders |-> IF spc[s] \in {"lock", "full"} THEN "lost" ELSE spc[s]]
    /\ phase' = "flag"
    /\ UNCHANGED <<rear, items, workerVars, msg, issued, running, wanted, stopped,
                   accepted, processed>>

\* The last lines of agent_cleanup.
ClearRunning ==
    /\ phase = "flag"
    /\ running' = FALSE
    /\ phase' = "down"
    /\ UNCHANGED <<ringVars, workerVars, senderVars, exists, wanted, stopped,
                   accepted, processed>>

-----------------------------------------------------------------------------
Sender(s) == EnterQueue(s) \/ WaitWhileFull(s) \/ Enqueue(s)
Worker == TestRunning \/ WaitWhileEmpty \/ Dequeue \/ TimeOut \/ Handle
Shutdown ==
    \/ \E s \in Joined : JoinSender(s)
    \/ StopWorkerThread \/ JoinWorker \/ DestroyQueue \/ ClearRunning
Startup == StartAgent \/ StartWorker

Next ==
    \/ \E s \in Senders : Send(s) \/ Sender(s) \/ WakeSender(s)
    \/ Worker
    \/ Startup \/ Leave \/ Shutdown

Spec == Init /\ [][Next]_vars

\* The operating system schedules every thread that can run; a sender that
\* waits for room competes with other senders for it (strong fairness).  The
\* work on a message ends.  Nobody has to send, nobody has to leave.
Fairness ==
    /\ \A s \in Senders : SF_vars(Sender(s))
    /\ WF_vars(Worker)
    /\ WF_vars(Startup)
    /\ WF_vars(Shutdown)

FairSpec == Spec /\ Fairness

\* The same program on a system whose condition variables wake up spuriously,
\* as POSIX allows.
SpuriousFairSpec == Init /\ [][Next \/ SpuriousWakeup]_vars /\ Fairness

-----------------------------------------------------------------------------
TypeOK ==
    /\ front \in 0..Capacity-1 /\ rear \in 0..Capacity-1
    /\ count \in 0..Capacity
    /\ items \in [0..Capacity-1 -> Messages \cup {NoItem}]
    /\ exists \in {"none", "live", "destroyed"}
    /\ running \in BOOLEAN /\ wanted \in BOOLEAN
    /\ at \in WorkerPCs
    /\ item \in Messages \cup {NoItem}
    /\ spc \in [Senders -> SenderPCs]
    /\ msg \in [Senders -> Messages \cup {NoItem}]
    /\ stopped \subseteq Joined
    /\ phase \in Phases
    /\ issued \in 0..MaxMessages
    /\ accepted \in Seq(Messages) /\ processed \in Seq(Messages)

\* The ring as a sequence, the oldest message first.
Queued == [i \in 1..count |-> items[(front + i - 1) % Capacity]]

InHand == IF at = "busy" THEN <<item>> ELSE <<>>

\* One conversation, one order: the messages that the senders were told are
\* enqueued are those processed, the one in hand and those queued, in this
\* order, each once, as long as the queue exists.
NothingLostOrReordered ==
    exists = "live" => accepted = processed \o InHand \o Queued

\* The order of the shutdown protects every thread that the program joins:
\* whoever is inside queue_enqueue when agent_cleanup destroys the queue is a
\* thread that nobody joins.
OnlyDetachedLost == \A s \in Senders : spc[s] = "lost" => s \in Detached

\* queue.c:126: queue_dequeue waits if the queue is empty, so an item that it
\* hands out was in the queue.
NeverPopsEmpty == count >= 0

\* A sender that waits for room gets on while there is a worker that will stay.
BlockedSendersReturn ==
    \A s \in Senders : (spc[s] = "full" /\ wanted) ~> (spc[s] # "full" \/ ~wanted)

\* A message that is enqueued is processed, unless the program is stopped.
EnqueuedIsProcessed ==
    \A m \in Messages :
        (wanted /\ \E i \in 1..count : Queued[i] = m)
            ~> (~wanted \/ \E i \in 1..Len(processed) : processed[i] = m)

\* The program comes down: gateway_stop and agent_stop_worker_thread return,
\* although a sender may be blocked on a full queue and the worker may wait on
\* an empty one, if the worker could be started.
ShutdownCompletes == (phase = "gateway" /\ wanted) ~> (phase = "down")
============================================================================
