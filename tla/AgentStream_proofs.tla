------------------------- MODULE AgentStream_proofs -------------------------
(***************************************************************************)
(* Proofs about StreamQueue, for any channels, submitters, pool threads,   *)
(* pool size and tasks, and about AgentStream, which extends it, for any   *)
(* list of channels, any of them with stream callbacks, and any length and *)
(* number of answers.                                                      *)
(***************************************************************************)
EXTENDS AgentStream, SequenceTheorems, TLAPS

-----------------------------------------------------------------------------
(***************************************************************************)
(* StreamQueue.  A channel is held by a submitter that is about to add its *)
(* job, by its job in the pool, or by the pool thread on it; the inductive *)
(* invariant says pair by pair that there is one holder at most, that a    *)
(* held channel is marked, and that a marked channel is held.              *)
(***************************************************************************)

\* No two holders of one kind hold the same channel.
DistinctHolders ==
    /\ \A s, t \in Submitters : toAdd[s] = toAdd[t] /\ toAdd[s] # NoChannel => s = t
    /\ \A i, j \in 1..Len(jobs) : jobs[i] = jobs[j] => i = j
    /\ \A v, w \in Workers : chan[v] = chan[w] /\ chan[v] # NoChannel => v = w

\* No two holders of different kinds do.
DisjointHolders ==
    /\ \A s \in Submitters, i \in 1..Len(jobs) : toAdd[s] # jobs[i]
    /\ \A s \in Submitters, w \in Workers : toAdd[s] = chan[w] => toAdd[s] = NoChannel
    /\ \A i \in 1..Len(jobs), w \in Workers : jobs[i] # chan[w]

\* A held channel is marked.
HeldIsMarked ==
    /\ \A s \in Submitters : toAdd[s] # NoChannel => processing[toAdd[s]]
    /\ \A i \in 1..Len(jobs) : processing[jobs[i]]
    /\ \A w \in Workers : chan[w] # NoChannel => processing[chan[w]]

Held(c) ==
    \/ \E s \in Submitters : toAdd[s] = c
    \/ \E i \in 1..Len(jobs) : jobs[i] = c
    \/ \E w \in Workers : chan[w] = c

MarkedIsHeld == \A c \in Channels : processing[c] => Held(c)

\* A thread has a channel, and a task, exactly where its code has one.
ThreadState ==
    \A w \in Workers :
        /\ at[w] = "idle" <=> chan[w] = NoChannel
        /\ at[w] = "run" <=> node[w] # NoTask

LastIsEnd(c) == delivered[c] # <<>> /\ delivered[c][Len(delivered[c])].kind = "END"

\* Where the early exit after an END is about to happen, or has happened.
EndSeen ==
    /\ \A w \in Workers : at[w] = "ending" => LastIsEnd(chan[w])
    /\ \A c \in Channels : ~processing[c] /\ queue[c] # <<>> => LastIsEnd(c)

IInv ==
    /\ TypeOK
    /\ ThreadState
    /\ DistinctHolders
    /\ DisjointHolders
    /\ HeldIsMarked
    /\ MarkedIsHeld

\* The variables but the bound's counter, and a step of the queue whoever submits.
queueVars == <<queue, processing, toAdd, jobs, threadVars, submitted, delivered>>

QueueStep ==
    \/ \E s \in Submitters, c \in Channels, t \in Tasks : Submit(s, c, t)
    \/ \E s \in Submitters : AddJob(s)
    \/ \E w \in Workers : Thread(w)
    \/ UNCHANGED queueVars

LEMMA NextIsQueueStep ==
    ASSUME TypeOK, [Next]_vars
    PROVE  QueueStep /\ issued' \in 0..MaxTasks
<1> USE StreamQueueAssumption DEF TypeOK
<1>1. ASSUME NEW s \in Submitters, SubmitSome(s) PROVE QueueStep /\ issued' \in 0..MaxTasks
  BY <1>1 DEF SubmitSome, QueueStep
<1>2. ASSUME NEW s \in Submitters, AddJob(s) PROVE QueueStep /\ issued' \in 0..MaxTasks
  BY <1>2 DEF AddJob, QueueStep
<1>3. ASSUME NEW w \in Workers, Thread(w) PROVE QueueStep /\ issued' \in 0..MaxTasks
  BY <1>3 DEF Thread, TakeJob, Pop, Drained, Process, Leave, QueueStep
<1>4. CASE UNCHANGED vars
  BY <1>4 DEF vars, queueVars, threadVars, QueueStep
<1> QED
  BY <1>1, <1>2, <1>3, <1>4 DEF Next

-----------------------------------------------------------------------------
\* What an action finds of its thread: the channel and the task in its hands.
LEMMA InHandTypes ==
    ASSUME TypeOK, ThreadState, NEW w \in Workers
    PROVE  /\ at[w] # "idle" => chan[w] \in Channels
           /\ at[w] = "run" => node[w] \in Tasks
BY DEF TypeOK, ThreadState

\* The variables keep their types, the pool's queue keeps its bound, and the
\* threads keep a channel and a task where their code has one.
LEMMA TypeStep ==
    ASSUME TypeOK, ThreadState, QueueStep, issued' \in 0..MaxTasks
    PROVE  TypeOK' /\ ThreadState'
<1> USE StreamQueueAssumption, NoTaskAssumption
<1>1. ASSUME NEW s \in Submitters, NEW c \in Channels, NEW t \in Tasks, Submit(s, c, t)
      PROVE  TypeOK' /\ ThreadState'
  <2>1. TypeOK'
    BY <1>1 DEF Submit, TypeOK, threadVars
  <2>2. ThreadState'
    BY <1>1 DEF Submit, ThreadState, threadVars
  <2> QED
    BY <2>1, <2>2
<1>2. ASSUME NEW s \in Submitters, AddJob(s) PROVE TypeOK' /\ ThreadState'
  <2>1. toAdd[s] \in Channels
    BY <1>2 DEF AddJob, TypeOK
  <2>2. jobs' \in Seq(Channels) /\ Len(jobs') <= PoolSize
    BY <1>2, <2>1 DEF AddJob, TypeOK
  <2> QED
    BY <1>2, <2>2 DEF AddJob, TypeOK, ThreadState, threadVars
<1>3. ASSUME NEW w \in Workers, TakeJob(w) PROVE TypeOK' /\ ThreadState'
  <2>1. Head(jobs) \in Channels /\ jobs' \in Seq(Channels) /\ Len(jobs') <= PoolSize
    BY <1>3 DEF TakeJob, TypeOK
  <2>2. TypeOK'
    BY <1>3, <2>1 DEF TakeJob, TypeOK
  <2>3. ThreadState'
    BY <1>3, <2>1 DEF TakeJob, TypeOK, ThreadState
  <2> QED
    BY <2>2, <2>3
<1>4. ASSUME NEW w \in Workers, Pop(w) PROVE TypeOK' /\ ThreadState'
  <2>1. chan[w] \in Channels
    BY <1>4, InHandTypes DEF Pop
  <2>2. Head(queue[chan[w]]) \in Tasks /\ Tail(queue[chan[w]]) \in Seq(Tasks)
    BY <1>4, <2>1 DEF Pop, TypeOK
  <2>3. TypeOK'
    BY <1>4, <2>1, <2>2 DEF Pop, TypeOK
  <2>4. ThreadState'
    BY <1>4, <2>2 DEF Pop, TypeOK, ThreadState
  <2> QED
    BY <2>3, <2>4
<1>5. ASSUME NEW w \in Workers, Drained(w) PROVE TypeOK' /\ ThreadState'
  <2>1. chan[w] \in Channels
    BY <1>5, InHandTypes DEF Drained
  <2>2. TypeOK'
    BY <1>5, <2>1 DEF Drained, TypeOK
  <2>3. ThreadState'
    BY <1>5 DEF Drained, TypeOK, ThreadState
  <2> QED
    BY <2>2, <2>3
<1>6. ASSUME NEW w \in Workers, Process(w) PROVE TypeOK' /\ ThreadState'
  <2>1. chan[w] \in Channels /\ node[w] \in Tasks
    BY <1>6, InHandTypes DEF Process
  <2>2. TypeOK'
    BY <1>6, <2>1 DEF Process, TypeOK
  <2>3. ThreadState'
    BY <1>6, <2>1 DEF Process, TypeOK, ThreadState
  <2> QED
    BY <2>2, <2>3
<1>7. ASSUME NEW w \in Workers, Leave(w) PROVE TypeOK' /\ ThreadState'
  <2>1. chan[w] \in Channels
    BY <1>7, InHandTypes DEF Leave
  <2>2. TypeOK'
    BY <1>7, <2>1 DEF Leave, TypeOK
  <2>3. ThreadState'
    BY <1>7 DEF Leave, TypeOK, ThreadState
  <2> QED
    BY <2>2, <2>3
<1>8. CASE UNCHANGED queueVars
  BY <1>8 DEF queueVars, threadVars, TypeOK, ThreadState
<1> QED
  BY <1>1, <1>2, <1>3, <1>4, <1>5, <1>6, <1>7, <1>8 DEF QueueStep, Thread

\* A channel keeps one holder at most, and a held channel stays marked.
LEMMA HolderStep ==
    ASSUME IInv, QueueStep
    PROVE  DistinctHolders' /\ DisjointHolders' /\ HeldIsMarked'
<1> USE StreamQueueAssumption DEF IInv
<1> DEFINE Holders == DistinctHolders /\ DisjointHolders /\ HeldIsMarked
<1>1. ASSUME NEW s \in Submitters, NEW c \in Channels, NEW t \in Tasks, Submit(s, c, t)
      PROVE  Holders'
  <2>1. UNCHANGED <<jobs, chan>>
    BY <1>1 DEF Submit, threadVars
  <2>2. processing' = [processing EXCEPT ![c] = TRUE]
    BY <1>1 DEF Submit
  <2>3. CASE processing[c]
    <3>1. toAdd' = toAdd
      BY <1>1, <2>3 DEF Submit
    <3> QED
      BY <2>1, <2>2, <3>1 DEF TypeOK, DistinctHolders, DisjointHolders, HeldIsMarked
  <2>4. CASE ~processing[c]
    <3>1. toAdd' = [toAdd EXCEPT ![s] = c] /\ toAdd[s] = NoChannel
      BY <1>1, <2>4 DEF Submit
    <3>2. /\ \A r \in Submitters : toAdd[r] # c
          /\ \A i \in 1..Len(jobs) : jobs[i] # c
          /\ \A w \in Workers : chan[w] # c
      BY <2>4 DEF HeldIsMarked
    <3>3. DistinctHolders'
      BY <2>1, <3>1, <3>2 DEF TypeOK, DistinctHolders
    <3>4. DisjointHolders'
      BY <2>1, <3>1, <3>2 DEF TypeOK, DisjointHolders
    <3>5. HeldIsMarked'
      BY <2>1, <2>2, <3>1 DEF TypeOK, HeldIsMarked
    <3> QED
      BY <3>3, <3>4, <3>5
  <2> QED
    BY <2>3, <2>4
<1>2. ASSUME NEW s \in Submitters, AddJob(s) PROVE Holders'
  <2>1. /\ toAdd[s] \in Channels
        /\ jobs' = Append(jobs, toAdd[s])
        /\ toAdd' = [toAdd EXCEPT ![s] = NoChannel]
        /\ UNCHANGED <<chan, processing>>
    BY <1>2 DEF AddJob, TypeOK, threadVars
  <2>2. /\ Len(jobs') = Len(jobs) + 1 /\ Len(jobs) \in Nat
        /\ \A i \in 1..Len(jobs) : jobs'[i] = jobs[i]
        /\ jobs'[Len(jobs) + 1] = toAdd[s]
    BY <2>1 DEF TypeOK
  <2>3. DistinctHolders'
    <3>1. \A r, q \in Submitters : toAdd'[r] = toAdd'[q] /\ toAdd'[r] # NoChannel => r = q
      BY <2>1 DEF TypeOK, DistinctHolders
    <3>2. \A i, j \in 1..Len(jobs') : jobs'[i] = jobs'[j] => i = j
      BY <2>1, <2>2 DEF DistinctHolders, DisjointHolders
    <3>3. \A u, v \in Workers : chan'[u] = chan'[v] /\ chan'[u] # NoChannel => u = v
      BY <2>1, <2>2 DEF TypeOK, DistinctHolders, DisjointHolders
    <3> QED
      BY <3>1, <3>2, <3>3 DEF DistinctHolders
  <2>4. DisjointHolders'
    BY <2>1, <2>2 DEF TypeOK, DistinctHolders, DisjointHolders
  <2>5. HeldIsMarked'
    BY <2>1, <2>2 DEF TypeOK, HeldIsMarked
  <2> QED
    BY <2>3, <2>4, <2>5
<1>3. ASSUME NEW w \in Workers, TakeJob(w) PROVE Holders'
  <2>1. /\ jobs # <<>> /\ jobs' = Tail(jobs)
        /\ chan[w] = NoChannel /\ chan' = [chan EXCEPT ![w] = jobs[1]]
        /\ UNCHANGED <<toAdd, processing>>
    BY <1>3 DEF TakeJob, ThreadState, TypeOK
  <2>2. /\ 1 \in 1..Len(jobs) /\ Len(jobs') = Len(jobs) - 1 /\ Len(jobs) \in Nat
        /\ \A i \in 1..Len(jobs') : i + 1 \in 1..Len(jobs) /\ jobs'[i] = jobs[i + 1]
    BY <2>1 DEF TypeOK
  <2>3. DistinctHolders'
    <3>1. \A r, q \in Submitters : toAdd'[r] = toAdd'[q] /\ toAdd'[r] # NoChannel => r = q
      BY <2>1 DEF TypeOK, DistinctHolders
    <3>2. \A i, j \in 1..Len(jobs') : jobs'[i] = jobs'[j] => i = j
      BY <2>1, <2>2 DEF DistinctHolders, DisjointHolders
    <3>3. \A u, v \in Workers : chan'[u] = chan'[v] /\ chan'[u] # NoChannel => u = v
      BY <2>1, <2>2 DEF TypeOK, DistinctHolders, DisjointHolders
    <3> QED
      BY <3>1, <3>2, <3>3 DEF DistinctHolders
  <2>4. DisjointHolders'
    BY <2>1, <2>2 DEF TypeOK, DistinctHolders, DisjointHolders
  <2>5. HeldIsMarked'
    BY <2>1, <2>2 DEF TypeOK, HeldIsMarked
  <2> QED
    BY <2>3, <2>4, <2>5
<1>4. ASSUME NEW w \in Workers, Pop(w) PROVE Holders'
  BY <1>4 DEF Pop, DistinctHolders, DisjointHolders, HeldIsMarked
<1>5. ASSUME NEW w \in Workers, at[w] # "idle",
             chan' = [chan EXCEPT ![w] = NoChannel],
             processing' = [processing EXCEPT ![chan[w]] = FALSE],
             UNCHANGED <<jobs, toAdd>>
      PROVE  Holders'
  <2>1. chan[w] \in Channels
    BY <1>5, InHandTypes
  <2>2. /\ \A s \in Submitters : toAdd[s] # chan[w]
        /\ \A i \in 1..Len(jobs) : jobs[i] # chan[w]
        /\ \A v \in Workers \ {w} : chan[v] # chan[w]
    BY <2>1 DEF DistinctHolders, DisjointHolders
  <2>3. DistinctHolders'
    BY <1>5 DEF TypeOK, DistinctHolders
  <2>4. DisjointHolders'
    <3>1. /\ chan'[w] = NoChannel
          /\ \A v \in Workers : chan'[v] = chan[v] \/ chan'[v] = NoChannel
      BY <1>5 DEF TypeOK
    <3>2. \A i \in 1..Len(jobs) : jobs[i] # NoChannel
      BY DEF TypeOK
    <3> QED
      BY <1>5, <3>1, <3>2 DEF DisjointHolders
  <2>5. HeldIsMarked'
    BY <1>5, <2>2 DEF TypeOK, HeldIsMarked
  <2> QED
    BY <2>3, <2>4, <2>5
<1>6. ASSUME NEW w \in Workers, Drained(w) PROVE Holders'
  BY <1>5, <1>6 DEF Drained
<1>7. ASSUME NEW w \in Workers, Leave(w) PROVE Holders'
  BY <1>5, <1>7 DEF Leave
<1>8. ASSUME NEW w \in Workers, Process(w) PROVE Holders'
  BY <1>8 DEF Process, DistinctHolders, DisjointHolders, HeldIsMarked
<1>9. CASE UNCHANGED queueVars
  BY <1>9 DEF queueVars, threadVars, DistinctHolders, DisjointHolders, HeldIsMarked
<1> QED
  BY <1>1, <1>2, <1>3, <1>4, <1>6, <1>7, <1>8, <1>9 DEF QueueStep, Thread

\* A marked channel stays held until it is released.
LEMMA MarkedStep ==
    ASSUME IInv, QueueStep
    PROVE  MarkedIsHeld'
<1> USE StreamQueueAssumption DEF IInv
<1> SUFFICES ASSUME NEW c \in Channels, processing'[c] PROVE Held(c)'
  BY DEF MarkedIsHeld
<1>1. ASSUME NEW s \in Submitters, NEW d \in Channels, NEW t \in Tasks, Submit(s, d, t)
      PROVE  Held(c)'
  <2>1. CASE processing[c]
    <3>1. Held(c)
      BY <2>1 DEF MarkedIsHeld
    <3> QED
      BY <1>1, <3>1 DEF Submit, TypeOK, Held, threadVars
  <2>2. CASE ~processing[c]
    <3>1. c = d /\ toAdd'[s] = c
      BY <1>1, <2>2 DEF Submit, TypeOK
    <3> QED
      BY <3>1 DEF Held
  <2> QED
    BY <2>1, <2>2
<1>2. ASSUME processing' = processing, Held(c) => Held(c)' PROVE Held(c)'
  BY <1>2 DEF MarkedIsHeld
<1>3. ASSUME NEW s \in Submitters, AddJob(s) PROVE Held(c)'
  <2>1. /\ Len(jobs') = Len(jobs) + 1 /\ Len(jobs) \in Nat
        /\ \A i \in 1..Len(jobs) : jobs'[i] = jobs[i]
        /\ jobs'[Len(jobs) + 1] = toAdd[s]
    BY <1>3 DEF AddJob, TypeOK
  <2>2. CASE toAdd[s] = c
    BY <2>1, <2>2 DEF Held
  <2>3. CASE toAdd[s] # c
    <3>1. Held(c) => Held(c)'
      BY <1>3, <2>1, <2>3 DEF AddJob, TypeOK, Held, threadVars
    <3> QED
      BY <1>2, <1>3, <3>1 DEF AddJob
  <2> QED
    BY <2>2, <2>3
<1>4. ASSUME NEW w \in Workers, TakeJob(w) PROVE Held(c)'
  <2>1. /\ jobs # <<>> /\ jobs' = Tail(jobs)
        /\ chan[w] = NoChannel /\ chan' = [chan EXCEPT ![w] = jobs[1]]
        /\ UNCHANGED <<toAdd, processing>>
    BY <1>4 DEF TakeJob, ThreadState, TypeOK
  <2>2. CASE jobs[1] = c
    BY <2>1, <2>2 DEF Held, TypeOK
  <2>3. CASE jobs[1] # c
    <3>1. ASSUME NEW i \in 1..Len(jobs), jobs[i] = c
          PROVE  i - 1 \in 1..Len(jobs') /\ jobs'[i - 1] = c
      BY <2>1, <2>3, <3>1 DEF TypeOK
    <3>2. Held(c) => Held(c)'
      BY <2>1, <3>1 DEF TypeOK, Held
    <3> QED
      BY <1>2, <2>1, <3>2
  <2> QED
    BY <2>2, <2>3
<1>5. ASSUME NEW w \in Workers, at[w] # "idle",
             chan' = [chan EXCEPT ![w] = NoChannel],
             processing' = [processing EXCEPT ![chan[w]] = FALSE],
             UNCHANGED <<jobs, toAdd>>
      PROVE  Held(c)'
  <2>1. c # chan[w] /\ processing[c]
    BY <1>5 DEF TypeOK
  <2>2. Held(c)
    BY <2>1 DEF MarkedIsHeld
  <2> QED
    BY <1>5, <2>1, <2>2 DEF TypeOK, Held
<1>6. ASSUME NEW w \in Workers, Drained(w) PROVE Held(c)'
  BY <1>5, <1>6 DEF Drained
<1>7. ASSUME NEW w \in Workers, Leave(w) PROVE Held(c)'
  BY <1>5, <1>7 DEF Leave
<1>8. ASSUME NEW w \in Workers, Pop(w) \/ Process(w) PROVE Held(c)'
  BY <1>2, <1>8 DEF Pop, Process, Held
<1>9. CASE UNCHANGED queueVars
  BY <1>2, <1>9 DEF queueVars, threadVars, Held
<1> QED
  BY <1>1, <1>3, <1>4, <1>6, <1>7, <1>8, <1>9 DEF QueueStep, Thread


\* A channel that is left unattended, or about to be, has seen an END.
LEMMA EndStep ==
    ASSUME IInv, EndSeen, QueueStep
    PROVE  EndSeen'
<1> USE StreamQueueAssumption DEF IInv
<1>1. ASSUME NEW s \in Submitters, NEW c \in Channels, NEW t \in Tasks, Submit(s, c, t)
      PROVE  EndSeen'
  BY <1>1 DEF Submit, TypeOK, EndSeen, LastIsEnd, threadVars
<1>2. ASSUME NEW s \in Submitters, AddJob(s) PROVE EndSeen'
  BY <1>2 DEF AddJob, EndSeen, LastIsEnd, threadVars
<1>3. ASSUME NEW w \in Workers, TakeJob(w) PROVE EndSeen'
  BY <1>3 DEF TakeJob, TypeOK, EndSeen, LastIsEnd
<1>4. ASSUME NEW w \in Workers, Pop(w) PROVE EndSeen'
  <2>1. chan[w] \in Channels /\ processing[chan[w]]
    BY <1>4, InHandTypes, StreamQueueAssumption DEF Pop, HeldIsMarked
  <2> QED
    BY <1>4, <2>1 DEF Pop, TypeOK, EndSeen, LastIsEnd
<1>5. ASSUME NEW w \in Workers, Drained(w) PROVE EndSeen'
  <2>1. \A v \in Workers : at'[v] = "ending" => at[v] = "ending" /\ chan'[v] = chan[v]
    BY <1>5 DEF Drained, TypeOK
  <2>2. \A c \in Channels : ~processing'[c] /\ queue'[c] # <<>> => ~processing[c]
    BY <1>5 DEF Drained, TypeOK
  <2> QED
    BY <1>5, <2>1, <2>2 DEF Drained, EndSeen, LastIsEnd
<1>6. ASSUME NEW w \in Workers, Process(w) PROVE EndSeen'
  <2>1. /\ chan[w] \in Channels /\ processing[chan[w]] /\ node[w] \in Tasks
        /\ \A v \in Workers \ {w} : chan[v] # chan[w]
    BY <1>6, InHandTypes DEF Process, HeldIsMarked, DistinctHolders
  <2>2. \A c \in Channels : c # chan[w] => delivered'[c] = delivered[c]
    BY <1>6 DEF Process, TypeOK
  <2>3. node[w].kind = "END" => LastIsEnd(chan[w])'
    <3>1. delivered'[chan[w]] = Append(delivered[chan[w]], node[w])
      BY <1>6, <2>1 DEF Process, TypeOK
    <3>2. delivered[chan[w]] \in Seq(Tasks) /\ chan' = chan
      BY <1>6, <2>1 DEF Process, TypeOK
    <3> QED
      BY <2>1, <3>1, <3>2 DEF LastIsEnd
  <2>4. ASSUME NEW v \in Workers, at'[v] = "ending" PROVE LastIsEnd(chan[v])'
    <3>1. CASE v = w
      BY <1>6, <2>3, <2>4, <3>1 DEF Process, TypeOK
    <3>2. CASE v # w
      BY <1>6, <2>1, <2>2, <2>4, <3>2, InHandTypes
         DEF Process, TypeOK, EndSeen, LastIsEnd
    <3> QED
      BY <3>1, <3>2
  <2>5. ASSUME NEW c \in Channels, ~processing'[c], queue'[c] # <<>> PROVE LastIsEnd(c)'
    BY <1>6, <2>1, <2>2, <2>5 DEF Process, EndSeen, LastIsEnd
  <2> QED
    BY <2>4, <2>5 DEF EndSeen
<1>7. ASSUME NEW w \in Workers, Leave(w) PROVE EndSeen'
  <2>1. chan[w] \in Channels /\ LastIsEnd(chan[w])
    BY <1>7, InHandTypes DEF Leave, EndSeen
  <2>2. \A v \in Workers : at'[v] = "ending" => at[v] = "ending" /\ chan'[v] = chan[v]
    BY <1>7 DEF Leave, TypeOK
  <2>3. \A c \in Channels : ~processing'[c] => c = chan[w] \/ ~processing[c]
    BY <1>7 DEF Leave, TypeOK
  <2> QED
    BY <1>7, <2>1, <2>2, <2>3 DEF Leave, EndSeen, LastIsEnd
<1>8. CASE UNCHANGED queueVars
  BY <1>8 DEF queueVars, threadVars, EndSeen, LastIsEnd
<1> QED
  BY <1>1, <1>2, <1>3, <1>4, <1>5, <1>6, <1>7, <1>8 DEF QueueStep, Thread

\* Initially no channel is held, marked or finished.
LEMMA InitIInv == Init => IInv /\ EndSeen
BY StreamQueueAssumption, NoTaskAssumption
   DEF Init, IInv, TypeOK, ThreadState, DistinctHolders, DisjointHolders,
       HeldIsMarked, MarkedIsHeld, EndSeen

\* The inductive invariant, and where the early exits happen, hold always.
LEMMA Invariance == Spec => [](IInv /\ EndSeen)
<1>1. IInv /\ EndSeen /\ [Next]_vars => (IInv /\ EndSeen)'
  BY NextIsQueueStep, TypeStep, HolderStep, MarkedStep, EndStep DEF IInv
<1> QED
  BY InitIInv, <1>1, PTL DEF Spec

-----------------------------------------------------------------------------
\* The variables have their types, and the pool's queue never exceeds its
\* capacity, however many submitters wait for room in it.
THEOREM TypeCorrect == Spec => []TypeOK
BY Invariance, PTL DEF IInv

\* Serial processing (channels.c:797-801 with 714-725): for any number of
\* submitters and pool threads, a channel has one claim at most.
THEOREM SerialProcessing == Spec => []OneProcessor
<1>1. IInv => OneProcessor
  <2> SUFFICES ASSUME IInv, NEW c \in Channels,
                      NEW x \in Claims(c), NEW y \in Claims(c)
               PROVE  x = y
    BY DEF OneProcessor
  <2> USE StreamQueueAssumption DEF IInv
  <2>1. ASSUME NEW s \in Submitters, toAdd[s] = c, x = <<"add", s>> PROVE x = y
    BY <2>1 DEF Claims, DistinctHolders, DisjointHolders
  <2>2. ASSUME NEW i \in 1..Len(jobs), jobs[i] = c, x = <<"job", i>> PROVE x = y
    BY <2>2 DEF Claims, DistinctHolders, DisjointHolders
  <2>3. ASSUME NEW w \in Workers, chan[w] = c, x = <<"run", w>> PROVE x = y
    BY <2>3 DEF Claims, DistinctHolders, DisjointHolders
  <2> QED
    BY <2>1, <2>2, <2>3 DEF Claims
<1> QED
  BY Invariance, <1>1, PTL

\* stream_processing is set exactly while somebody is responsible for the
\* channel, so a submitter that skips thread_pool_add_task never leaves its
\* task to nobody, but for the exit after an END.
THEOREM FlagIsExact == Spec => []FlagMeansClaimed
<1>1. IInv => FlagMeansClaimed
  <2> SUFFICES ASSUME IInv, NEW c \in Channels
               PROVE  processing[c] <=> Claims(c) # {}
    BY DEF FlagMeansClaimed
  <2> USE StreamQueueAssumption DEF IInv
  <2>1. Held(c) <=> Claims(c) # {}
    BY DEF Held, Claims
  <2>2. processing[c] => Held(c)
    BY DEF MarkedIsHeld
  <2>3. Held(c) => processing[c]
    BY DEF Held, HeldIsMarked
  <2> QED
    BY <2>1, <2>2, <2>3
<1> QED
  BY Invariance, <1>1, PTL

\* A channel is left with tasks in its list and nobody to process them only
\* after an END (channels.c:758-768).
THEOREM UnattendedOnlyAfterEndAlways == Spec => []UnattendedOnlyAfterEnd
<1>1. EndSeen => UnattendedOnlyAfterEnd
  BY DEF EndSeen, UnattendedOnlyAfterEnd, LastIsEnd
<1> QED
  BY Invariance, <1>1, PTL

-----------------------------------------------------------------------------
(* StreamQueue implements SerialChannel.  What a channel has in hand is a  *)
(* function of the threads' positions, channels and tasks.                 *)

HandOf(pos, ch, nd, c) ==
    LET busy == {w \in Workers : pos[w] = "run" /\ ch[w] = c}
    IN  IF busy = {} THEN <<>> ELSE <<nd[CHOOSE w \in busy : TRUE]>>

\* No thread at work on c: nothing in hand.
LEMMA HandEmpty ==
    ASSUME NEW pos, NEW ch, NEW nd, NEW c,
           \A w \in Workers : ~(pos[w] = "run" /\ ch[w] = c)
    PROVE  HandOf(pos, ch, nd, c) = <<>>
BY DEF HandOf

\* The one thread at work on c has its node in hand.
LEMMA HandFull ==
    ASSUME NEW pos, NEW ch, NEW nd, NEW c, NEW w \in Workers,
           pos[w] = "run", ch[w] = c,
           \A v \in Workers : ch[v] = c => v = w
    PROVE  HandOf(pos, ch, nd, c) = <<nd[w]>>
<1>1. {v \in Workers : pos[v] = "run" /\ ch[v] = c} = {w}
  OBVIOUS
<1>2. (CHOOSE v \in {w} : TRUE) = w
  OBVIOUS
<1> QED
  BY <1>1, <1>2 DEF HandOf

\* What c has in hand depends only on the threads at work on it.
LEMMA HandSame ==
    ASSUME NEW pos, NEW ch, NEW nd, NEW pos2, NEW ch2, NEW nd2, NEW c,
           \A w \in Workers : (pos[w] = "run" /\ ch[w] = c) <=> (pos2[w] = "run" /\ ch2[w] = c),
           \A w \in Workers : pos[w] = "run" /\ ch[w] = c => nd[w] = nd2[w]
    PROVE  HandOf(pos2, ch2, nd2, c) = HandOf(pos, ch, nd, c)
<1> DEFINE busy == {w \in Workers : pos[w] = "run" /\ ch[w] = c}
<1>1. {w \in Workers : pos2[w] = "run" /\ ch2[w] = c} = busy
  OBVIOUS
<1>2. CASE busy = {}
  BY <1>1, <1>2 DEF HandOf
<1>3. CASE busy # {}
  <2> DEFINE w == CHOOSE v \in busy : TRUE
  <2>1. w \in busy
    BY <1>3
  <2>2. nd[w] = nd2[w]
    BY <2>1
  <2>3. HandOf(pos, ch, nd, c) = <<nd[w]>>
    BY <1>3 DEF HandOf
  <2>4. HandOf(pos2, ch2, nd2, c) = <<nd2[w]>>
    BY <1>1, <1>3 DEF HandOf
  <2> QED
    BY <2>2, <2>3, <2>4
<1> QED
  BY <1>2, <1>3

\* What SerialChannel calls current.
Current == [c \in Channels |-> InHand(c)]

\* Both values of current, as functions of the threads' positions.
LEMMA CurrentIs ==
    /\ Current = [c \in Channels |-> HandOf(at, chan, node, c)]
    /\ Current' = [c \in Channels |-> HandOf(at', chan', node', c)]
BY DEF Current, InHand, HandOf

\* A step of the threads and submitters is a step of the promise, or none.
LEMMA SerialStep ==
    ASSUME IInv, [Next]_vars
    PROVE  [Serial!Next]_(Serial!vars)
<1> USE StreamQueueAssumption DEF IInv
<1> DEFINE Stutter == UNCHANGED <<queue, Current, delivered>>
<1>0. Stutter => UNCHANGED Serial!vars
  BY DEF Serial!vars, Current
<1>1. ASSUME NEW s \in Submitters, SubmitSome(s) PROVE Serial!Next
  <2>1. PICK c \in Channels, t \in Tasks : Submit(s, c, t)
    BY <1>1 DEF SubmitSome
  <2>2. Current' = Current
    BY <2>1, CurrentIs DEF Submit, threadVars
  <2>3. Serial!Submit(c, t)
    BY <2>1, <2>2 DEF Submit, Serial!Submit, Current
  <2> QED
    BY <2>3 DEF Serial!Next
<1>2. ASSUME NEW s \in Submitters, AddJob(s) PROVE Stutter
  BY <1>2, CurrentIs DEF AddJob, threadVars
<1>3. ASSUME NEW w \in Workers, UNCHANGED <<queue, delivered, node>>,
             at[w] # "run", at'[w] # "run",
             \A v \in Workers \ {w} : at'[v] = at[v] /\ chan'[v] = chan[v]
      PROVE  Stutter
  <2>1. ASSUME NEW c \in Channels
        PROVE  HandOf(at', chan', node', c) = HandOf(at, chan, node, c)
    BY <1>3, HandSame
  <2> QED
    BY <1>3, <2>1, CurrentIs
<1>4. ASSUME NEW w \in Workers, TakeJob(w) \/ Drained(w) \/ Leave(w) PROVE Stutter
  <2>1. at[w] # "run" /\ at'[w] # "run" /\ UNCHANGED <<queue, delivered, node>>
    BY <1>4 DEF TakeJob, Drained, Leave, TypeOK
  <2>2. \A v \in Workers \ {w} : at'[v] = at[v] /\ chan'[v] = chan[v]
    BY <1>4 DEF TakeJob, Drained, Leave, TypeOK
  <2> QED
    BY <1>3, <2>1, <2>2
<1>5. ASSUME NEW w \in Workers, Pop(w) PROVE Serial!Next
  <2> DEFINE c == chan[w]
  <2>1. c \in Channels /\ \A v \in Workers : chan[v] = c => v = w
    BY <1>5, InHandTypes DEF Pop, DistinctHolders
  <2>2. HandOf(at, chan, node, c) = <<>>
    BY <1>5, <2>1, HandEmpty DEF Pop
  <2>3. at'[w] = "run" /\ chan' = chan /\ node'[w] = Head(queue[c])
    BY <1>5 DEF Pop, TypeOK
  <2>4. HandOf(at', chan', node', c) = <<Head(queue[c])>>
    BY <2>1, <2>3, HandFull
  <2>5. ASSUME NEW d \in Channels, d # c
        PROVE  HandOf(at', chan', node', d) = HandOf(at, chan, node, d)
    <3>1. \A v \in Workers : chan[v] = d => at'[v] = at[v] /\ node'[v] = node[v]
      BY <1>5, <2>5 DEF Pop, TypeOK
    <3> QED
      BY <2>3, <3>1, HandSame
  <2>6. Current' = [Current EXCEPT ![c] = <<Head(queue[c])>>] /\ Current[c] = <<>>
    BY <2>1, <2>2, <2>4, <2>5, CurrentIs
  <2>7. Serial!Begin(c)
    BY <1>5, <2>6 DEF Pop, Serial!Begin, Current
  <2> QED
    BY <2>1, <2>7 DEF Serial!Next
<1>6. ASSUME NEW w \in Workers, Process(w) PROVE Serial!Next
  <2> DEFINE c == chan[w]
  <2>1. c \in Channels /\ \A v \in Workers : chan[v] = c => v = w
    BY <1>6, InHandTypes DEF Process, DistinctHolders
  <2>2. HandOf(at, chan, node, c) = <<node[w]>>
    <3>1. {v \in Workers : at[v] = "run" /\ chan[v] = chan[w]} = {w}
      BY <1>6, <2>1 DEF Process
    <3>2. (CHOOSE v \in {w} : TRUE) = w
      OBVIOUS
    <3> QED
      BY <3>1, <3>2 DEF HandOf
  <2>3. at'[w] # "run" /\ chan' = chan
    BY <1>6 DEF Process, TypeOK
  <2>4. HandOf(at', chan', node', c) = <<>>
    BY <2>1, <2>3, HandEmpty
  <2>5. ASSUME NEW d \in Channels, d # c
        PROVE  HandOf(at', chan', node', d) = HandOf(at, chan, node, d)
    <3>1. \A v \in Workers : chan[v] = d => at'[v] = at[v] /\ node'[v] = node[v]
      BY <1>6, <2>5 DEF Process, TypeOK
    <3> QED
      BY <2>3, <3>1, HandSame
  <2>6. Current' = [Current EXCEPT ![c] = <<>>] /\ Current[c] = <<node[w]>>
    BY <2>1, <2>2, <2>4, <2>5, CurrentIs
  <2>7. delivered' = [delivered EXCEPT ![c] = @ \o Current[c]]
    <3>1. node[w] \in Tasks /\ delivered[c] \in Seq(Tasks)
      BY <1>6, <2>1, InHandTypes DEF Process, TypeOK
    <3>2. Append(delivered[c], node[w]) = delivered[c] \o <<node[w]>>
      BY <3>1, AppendIsConcat
    <3> QED
      BY <1>6, <2>6, <3>2 DEF Process
  <2>8. Serial!Finish(c)
    <3>1. Current[c] # <<>> /\ UNCHANGED queue
      BY <1>6, <2>6 DEF Process
    <3> QED
      BY <2>6, <2>7, <3>1 DEF Serial!Finish, Current
  <2> QED
    BY <2>1, <2>8 DEF Serial!Next
<1>7. ASSUME UNCHANGED vars PROVE Stutter
  BY <1>7, CurrentIs DEF vars
<1> QED
  BY <1>0, <1>1, <1>2, <1>4, <1>5, <1>6, <1>7 DEF Next, Thread

\* channels.h:180 for any number of threads: the queue, the flag, the pool and
\* its threads together process the tasks of a channel one at a time, in the
\* order of submission, none lost and none twice.
THEOREM SerialRefinement == Spec => ImplementsSerialChannel
<1>1. Init => Serial!Init
  <2> SUFFICES ASSUME Init PROVE Serial!Init
    OBVIOUS
  <2>1. Current = [c \in Channels |-> <<>>]
    <3>1. \A c \in Channels : HandOf(at, chan, node, c) = <<>>
      BY HandEmpty DEF Init
    <3> QED
      BY <3>1, CurrentIs
  <2> QED
    BY <2>1 DEF Init, Serial!Init, Current
<1>2. IInv /\ [Next]_vars => [Serial!Next]_(Serial!vars)
  BY SerialStep
<1> QED
  BY <1>1, <1>2, Invariance, PTL DEF Spec, ImplementsSerialChannel, Serial!Spec

-----------------------------------------------------------------------------
(***************************************************************************)
(* AgentStream.  The tasks a channel is submitted form a dialogue: the     *)
(* invariant says how far channels_foreach has come with it.  The tasks    *)
(* its callbacks are given are the first of those.                         *)
(***************************************************************************)

N == Len(ChannelList)

\* The number of the call in progress.
Reply == Len(replies) + 1

\* The types, and that a call is only made below the bound.
AgentTypes ==
    /\ AgentTypeOK
    /\ Len(replies) <= MaxReplies
    /\ asking => Len(replies) < MaxReplies

-----------------------------------------------------------------------------
(* The way of the tasks through the queue. *)

\* The number of tasks the channel's threads have popped.
Popped(c) == Len(submitted[c]) - Len(queue[c])

\* The list holds what was submitted last, the callbacks had what was
\* submitted first, and the one task between them is in a thread's hands.
Flow ==
    /\ \A c \in Channels :
          /\ Len(queue[c]) <= Len(submitted[c])
          /\ \A j \in 1..Len(queue[c]) : queue[c][j] = submitted[c][Popped(c) + j]
          /\ Len(delivered[c]) <= Popped(c)
          /\ \A i \in 1..Len(delivered[c]) : delivered[c][i] = submitted[c][i]
          /\ (\A w \in Workers : ~(at[w] = "run" /\ chan[w] = c)) => Len(delivered[c]) = Popped(c)
    /\ \A w \in Workers : at[w] = "run" =>
          /\ Popped(chan[w]) = Len(delivered[chan[w]]) + 1
          /\ node[w] = submitted[chan[w]][Popped(chan[w])]

LEMMA Lengths ==
    ASSUME TypeOK, Flow, NEW c \in Channels
    PROVE  /\ Popped(c) \in Nat /\ Popped(c) + Len(queue[c]) = Len(submitted[c])
           /\ Len(queue[c]) \in Nat /\ Len(submitted[c]) \in Nat
           /\ Len(delivered[c]) \in Nat /\ Len(delivered[c]) <= Popped(c)
<1>1. Len(queue[c]) \in Nat /\ Len(submitted[c]) \in Nat /\ Len(delivered[c]) \in Nat
  BY DEF TypeOK
<1>2. Len(queue[c]) <= Len(submitted[c]) /\ Len(delivered[c]) <= Popped(c)
  BY DEF Flow
<1>3. Popped(c) \in Nat
  BY <1>1, <1>2 DEF Popped
<1>4. Popped(c) + Len(queue[c]) = Len(submitted[c])
  BY <1>1 DEF Popped
<1> QED BY <1>1, <1>2, <1>3, <1>4

LEMMA FlowStep ==
    ASSUME IInv, Flow, QueueStep
    PROVE  Flow'
<1> USE DEF IInv
<1>0. \A c \in Channels : /\ queue[c] \in Seq(Tasks) /\ submitted[c] \in Seq(Tasks)
                          /\ delivered[c] \in Seq(Tasks)
                          /\ Len(queue[c]) \in Nat /\ Len(submitted[c]) \in Nat
                          /\ Len(delivered[c]) \in Nat
  BY DEF TypeOK
<1>p. \A c \in Channels : /\ Popped(c) \in Nat /\ Popped(c) + Len(queue[c]) = Len(submitted[c])
                          /\ Len(queue[c]) \in Nat /\ Len(submitted[c]) \in Nat
                          /\ Len(delivered[c]) \in Nat /\ Len(delivered[c]) <= Popped(c)
  BY Lengths
<1>1. ASSUME NEW s \in Submitters, NEW c \in Channels, NEW t \in Tasks, Submit(s, c, t)
      PROVE  Flow'
  <2>1. /\ queue' = [queue EXCEPT ![c] = Append(@, t)]
        /\ submitted' = [submitted EXCEPT ![c] = Append(@, t)]
        /\ UNCHANGED <<at, chan, node, delivered>>
    BY <1>1 DEF Submit, threadVars
  <2>2. /\ queue'[c] = Append(queue[c], t) /\ submitted'[c] = Append(submitted[c], t)
        /\ Len(queue'[c]) = Len(queue[c]) + 1 /\ Len(submitted'[c]) = Len(submitted[c]) + 1
        /\ \A d \in Channels : d # c => queue'[d] = queue[d] /\ submitted'[d] = submitted[d]
    BY <1>0, <2>1 DEF TypeOK
  <2>3. /\ \A i \in 1..Len(queue[c]) : queue'[c][i] = queue[c][i]
        /\ queue'[c][Len(queue[c]) + 1] = t
        /\ \A i \in 1..Len(submitted[c]) : submitted'[c][i] = submitted[c][i]
        /\ submitted'[c][Len(submitted[c]) + 1] = t
    BY <1>0, <2>2
  <2>4. \A d \in Channels : Len(submitted'[d]) - Len(queue'[d]) = Popped(d)
    <3>1. ASSUME NEW d \in Channels PROVE Len(submitted'[d]) - Len(queue'[d]) = Popped(d)
      <4>1. CASE d = c
        <5>1. Popped(c) + Len(queue[c]) = Len(submitted[c]) /\ Popped(c) \in Nat
              /\ Len(queue[c]) \in Nat
          BY <1>p
        <5>2. Len(submitted'[c]) = Len(submitted[c]) + 1 /\ Len(queue'[c]) = Len(queue[c]) + 1
          BY <2>2
        <5> QED BY <4>1, <5>1, <5>2 DEF Popped
      <4>2. CASE d # c
        BY <2>2, <4>2 DEF Popped
      <4> QED BY <4>1, <4>2
    <3> QED BY <3>1
  <2>5. ASSUME NEW d \in Channels
        PROVE  /\ Len(queue'[d]) <= Len(submitted'[d])
               /\ \A j \in 1..Len(queue'[d]) : queue'[d][j] = submitted'[d][Popped(d) + j]
               /\ Len(delivered[d]) <= Popped(d)
               /\ \A i \in 1..Len(delivered[d]) : delivered[d][i] = submitted'[d][i]
    <3>1. CASE d = c
      <4>0. /\ Popped(c) \in Nat /\ Popped(c) + Len(queue[c]) = Len(submitted[c])
            /\ Len(queue[c]) \in Nat /\ Len(submitted[c]) \in Nat
            /\ Len(delivered[c]) \in Nat /\ Len(delivered[c]) <= Popped(c)
        BY <1>p
      <4>1. ASSUME NEW j \in 1..Len(queue'[c])
            PROVE  queue'[c][j] = submitted'[c][Popped(c) + j]
        <5>1. CASE j \in 1..Len(queue[c])
          <6>1. Popped(c) + j \in 1..Len(submitted[c])
            BY <4>0, <5>1
          <6>2. queue[c][j] = submitted[c][Popped(c) + j]
            BY <5>1 DEF Flow
          <6> QED BY <2>3, <5>1, <6>1, <6>2
        <5>2. CASE j = Len(queue[c]) + 1
          <6>1. Popped(c) + j = Len(submitted[c]) + 1
            BY <4>0, <5>2
          <6> QED BY <2>3, <5>2, <6>1
        <5> QED BY <2>2, <4>0, <5>1, <5>2
      <4>2. \A i \in 1..Len(delivered[c]) : delivered[c][i] = submitted'[c][i]
        <5>1. \A i \in 1..Len(delivered[c]) : i \in 1..Len(submitted[c])
          BY <4>0
        <5>2. \A i \in 1..Len(delivered[c]) : delivered[c][i] = submitted[c][i]
          BY DEF Flow
        <5> QED BY <2>3, <5>1, <5>2
      <4>3. Len(queue'[c]) <= Len(submitted'[c]) /\ Len(delivered[c]) <= Popped(c)
        BY <2>2, <4>0
      <4> QED BY <3>1, <4>1, <4>2, <4>3
    <3>2. CASE d # c
      BY <2>2, <3>2 DEF Flow
    <3> QED BY <3>1, <3>2
  <2>6. ASSUME NEW w \in Workers, at[w] = "run"
        PROVE  /\ Len(submitted'[chan[w]]) - Len(queue'[chan[w]]) = Len(delivered[chan[w]]) + 1
               /\ node[w] = submitted'[chan[w]][Len(submitted'[chan[w]]) - Len(queue'[chan[w]])]
    <3>1. PICK d \in Channels : d = chan[w]
      BY <2>6, InHandTypes
    <3>2. Popped(d) = Len(delivered[d]) + 1 /\ node[w] = submitted[d][Popped(d)]
      BY <2>6, <3>1 DEF Flow
    <3>3. Popped(d) \in 1..Len(submitted[d])
      <4>1. /\ Popped(d) + Len(queue[d]) = Len(submitted[d])
            /\ Popped(d) \in Nat /\ Len(queue[d]) \in Nat /\ Len(delivered[d]) \in Nat
        BY <1>p
      <4>2. Popped(d) = Len(delivered[d]) + 1
        BY <3>2
      <4>3. Len(submitted[d]) \in Nat
        BY <1>p
      <4>4. 1 <= Popped(d)
        BY <4>1, <4>2
      <4>5. Popped(d) <= Len(submitted[d])
        BY <4>1, <4>3
      <4>6. Popped(d) \in Nat
        BY <4>1
      <4> QED BY <4>3, <4>4, <4>5, <4>6
    <3>4. submitted'[d][Popped(d)] = submitted[d][Popped(d)]
      BY <2>2, <2>3, <3>3
    <3>5. Len(submitted'[d]) - Len(queue'[d]) = Popped(d)
      BY <2>4
    <3> QED BY <3>1, <3>2, <3>4, <3>5
  <2>7. \A d \in Channels : (\A w \in Workers : ~(at[w] = "run" /\ chan[w] = d))
                            => Len(delivered[d]) = Popped(d)
    BY DEF Flow
  <2>8. ASSUME NEW d \in Channels
        PROVE  /\ Len(queue'[d]) <= Len(submitted'[d])
               /\ \A j \in 1..Len(queue'[d]) :
                     queue'[d][j] = submitted'[d][(Len(submitted'[d]) - Len(queue'[d])) + j]
               /\ Len(delivered[d]) <= Len(submitted'[d]) - Len(queue'[d])
               /\ \A i \in 1..Len(delivered[d]) : delivered[d][i] = submitted'[d][i]
               /\ (\A w \in Workers : ~(at[w] = "run" /\ chan[w] = d))
                     => Len(delivered[d]) = Len(submitted'[d]) - Len(queue'[d])
    <3>1. Len(submitted'[d]) - Len(queue'[d]) = Popped(d)
      BY <2>4
    <3> QED BY <2>5, <2>7, <3>1
  <2>9. at' = at /\ chan' = chan /\ node' = node /\ delivered' = delivered
    BY <2>1
  <2>10. \A d \in Channels :
           /\ Len(queue'[d]) <= Len(submitted'[d])
           /\ \A j \in 1..Len(queue'[d]) : queue'[d][j] = submitted'[d][Popped(d)' + j]
           /\ Len(delivered'[d]) <= Popped(d)'
           /\ \A i \in 1..Len(delivered'[d]) : delivered'[d][i] = submitted'[d][i]
           /\ (\A w \in Workers : ~(at'[w] = "run" /\ chan'[w] = d)) => Len(delivered'[d]) = Popped(d)'
    BY <2>8, <2>9 DEF Popped
  <2>11. \A w \in Workers : at'[w] = "run" =>
           /\ Popped(chan[w])' = Len(delivered'[chan'[w]]) + 1
           /\ node'[w] = submitted'[chan'[w]][Popped(chan[w])']
    BY <2>6, <2>9 DEF Popped
  <2> QED BY <2>10, <2>11 DEF Flow
<1>2. ASSUME UNCHANGED <<queue, submitted, delivered, node>>,
             \A w \in Workers : at'[w] = "run" <=> at[w] = "run",
             \A w \in Workers : at[w] = "run" => chan'[w] = chan[w]
      PROVE  Flow'
  <2>1. \A c \in Channels : Popped(c)' = Popped(c)
    BY <1>2 DEF Popped
  <2>2. \A c \in Channels : (\A w \in Workers : ~(at'[w] = "run" /\ chan'[w] = c))
                            => \A w \in Workers : ~(at[w] = "run" /\ chan[w] = c)
    BY <1>2
  <2>3. \A c \in Channels :
           /\ Len(queue[c]) <= Len(submitted[c])
           /\ \A j \in 1..Len(queue[c]) : queue[c][j] = submitted[c][Popped(c) + j]
           /\ Len(delivered[c]) <= Popped(c)
           /\ \A i \in 1..Len(delivered[c]) : delivered[c][i] = submitted[c][i]
           /\ (\A w \in Workers : ~(at'[w] = "run" /\ chan'[w] = c)) => Len(delivered[c]) = Popped(c)
    BY <2>2 DEF Flow
  <2>4. ASSUME NEW w \in Workers, at'[w] = "run"
        PROVE  /\ Popped(chan[w])' = Len(delivered[chan[w]]) + 1
               /\ node[w] = submitted[chan[w]][Popped(chan[w])']
    <3>1. at[w] = "run" /\ chan'[w] = chan[w]
      BY <1>2, <2>4
    <3>2. Popped(chan[w])' = Popped(chan[w])
      BY <1>2, <3>1 DEF Popped
    <3> QED BY <3>1, <3>2 DEF Flow
  <2> QED BY <1>2, <2>1, <2>3, <2>4 DEF Flow
<1>3. ASSUME NEW s \in Submitters, AddJob(s) PROVE Flow'
  BY <1>2, <1>3 DEF AddJob, threadVars
<1>4. ASSUME NEW w \in Workers, TakeJob(w) \/ Drained(w) \/ Leave(w) PROVE Flow'
  <2>1. /\ UNCHANGED <<queue, submitted, delivered, node>>
        /\ at[w] # "run" /\ at'[w] # "run"
        /\ \A v \in Workers \ {w} : at'[v] = at[v] /\ chan'[v] = chan[v]
    BY <1>4 DEF TakeJob, Drained, Leave, TypeOK
  <2> QED BY <1>2, <2>1
<1>5. ASSUME NEW w \in Workers, Pop(w) PROVE Flow'
  <2> DEFINE c == chan[w]
  <2>1. /\ c \in Channels /\ at[w] = "loop" /\ queue[c] # <<>>
        /\ \A v \in Workers : chan[v] = c => v = w
    BY <1>5, InHandTypes, StreamQueueAssumption DEF Pop, DistinctHolders
  <2>2. /\ node' = [node EXCEPT ![w] = Head(queue[c])]
        /\ queue' = [queue EXCEPT ![c] = Tail(@)]
        /\ at' = [at EXCEPT ![w] = "run"]
        /\ UNCHANGED <<chan, submitted, delivered>>
    BY <1>5 DEF Pop
  <2>3. /\ queue'[c] = Tail(queue[c]) /\ \A d \in Channels : d # c => queue'[d] = queue[d]
        /\ node'[w] = Head(queue[c]) /\ at'[w] = "run"
        /\ \A v \in Workers : v # w => node'[v] = node[v] /\ at'[v] = at[v]
    BY <2>1, <2>2 DEF TypeOK
  <2>4. /\ Len(queue'[c]) = Len(queue[c]) - 1 /\ node'[w] = queue[c][1]
        /\ 1 \in 1..Len(queue[c])
        /\ \A j \in 1..Len(queue'[c]) : j + 1 \in 1..Len(queue[c]) /\ queue'[c][j] = queue[c][j + 1]
    BY <1>0, <2>1, <2>3
  <2>5. Len(delivered[c]) = Popped(c)
    BY <2>1 DEF Flow
  <2>6. Len(submitted[c]) - Len(queue'[c]) = Popped(c) + 1
    <3>1. Popped(c) + Len(queue[c]) = Len(submitted[c]) /\ Popped(c) \in Nat
          /\ Len(queue[c]) \in Nat
      BY <1>p, <2>1
    <3>2. Len(queue'[c]) = Len(queue[c]) - 1
      BY <2>4
    <3> QED BY <3>1, <3>2 DEF Popped
  <2>7. \A d \in Channels : Popped(d)' = IF d = c THEN Popped(c) + 1 ELSE Popped(d)
    <3>1. \A d \in Channels : Popped(d)' = Len(submitted[d]) - Len(queue'[d])
      BY <2>2 DEF Popped
    <3>2. \A d \in Channels : d # c => Popped(d)' = Popped(d)
      BY <2>3, <3>1 DEF Popped
    <3> QED BY <2>1, <2>6, <3>1, <3>2
  <2> HIDE DEF c
  <2>8. ASSUME NEW d \in Channels
        PROVE  /\ Len(queue'[d]) <= Len(submitted[d])
               /\ \A j \in 1..Len(queue'[d]) : queue'[d][j] = submitted[d][Popped(d)' + j]
               /\ Len(delivered[d]) <= Popped(d)'
               /\ (\A v \in Workers : ~(at'[v] = "run" /\ chan[v] = d))
                     => Len(delivered[d]) = Popped(d)'
    <3>1. CASE d = c
      <4>0. /\ Popped(c) \in Nat /\ Popped(c) + Len(queue[c]) = Len(submitted[c])
            /\ Len(queue[c]) \in Nat /\ Len(submitted[c]) \in Nat
            /\ Len(delivered[c]) \in Nat /\ Len(delivered[c]) <= Popped(c)
        BY <1>p, <2>1
      <4>1. \A j \in 1..Len(queue'[c]) : queue'[c][j] = submitted[c][Popped(c) + (j + 1)]
        BY <2>1, <2>4 DEF Flow
      <4>2. \A j \in 1..Len(queue'[c]) : Popped(c) + (j + 1) = (Popped(c) + 1) + j
        BY <4>0
      <4>3. Len(queue'[c]) <= Len(submitted[c]) /\ Len(delivered[c]) <= Popped(c) + 1
        <5>1. Len(queue'[c]) = Len(queue[c]) - 1
          BY <2>4
        <5> QED BY <4>0, <5>1
      <4>5. at'[w] = "run" /\ chan[w] = c
        BY <2>3 DEF c
      <4>6. Popped(d)' = Popped(c) + 1
        BY <2>7, <3>1
      <4> QED BY <3>1, <4>1, <4>2, <4>3, <4>5, <4>6
    <3>2. CASE d # c
      <4>1. (\A v \in Workers : ~(at'[v] = "run" /\ chan[v] = d))
               => \A v \in Workers : ~(at[v] = "run" /\ chan[v] = d)
        BY <2>3, <3>2 DEF c
      <4> QED BY <2>3, <2>7, <3>2, <4>1 DEF Flow
    <3> QED BY <3>1, <3>2
  <2>9. ASSUME NEW v \in Workers, at'[v] = "run"
        PROVE  /\ Popped(chan[v])' = Len(delivered[chan[v]]) + 1
               /\ node'[v] = submitted[chan[v]][Popped(chan[v])']
    <3>1. CASE v = w
      <4>1. queue[c][1] = submitted[c][Popped(c) + 1]
        BY <2>1, <2>4 DEF Flow
      <4>2. chan'[w] = c /\ chan[w] = c
        BY <2>2 DEF c
      <4>3. Popped(chan[w])' = Popped(c) + 1
        BY <2>1, <2>7, <4>2 DEF Popped
      <4> QED BY <2>4, <2>5, <3>1, <4>1, <4>2, <4>3
    <3>2. CASE v # w
      <4>1. at[v] = "run" /\ chan[v] \in Channels /\ chan[v] # c /\ node'[v] = node[v]
        BY <2>1, <2>3, <2>9, <3>2, InHandTypes
      <4>2. Popped(chan[v])' = Popped(chan[v])
        BY <2>2, <2>7, <4>1 DEF Popped
      <4> QED BY <4>1, <4>2 DEF Flow
    <3> QED BY <3>1, <3>2
  <2> QED BY <2>2, <2>8, <2>9 DEF Flow
<1>6. ASSUME NEW w \in Workers, Process(w) PROVE Flow'
  <2> DEFINE c == chan[w]
  <2>1. /\ c \in Channels /\ at[w] = "run" /\ node[w] \in Tasks
        /\ \A v \in Workers : chan[v] = c => v = w
    BY <1>6, InHandTypes, StreamQueueAssumption DEF Process, DistinctHolders
  <2>2. /\ delivered' = [delivered EXCEPT ![c] = Append(@, node[w])]
        /\ at' = [at EXCEPT ![w] = IF node[w].kind = "END" THEN "ending" ELSE "loop"]
        /\ node' = [node EXCEPT ![w] = NoTask]
        /\ UNCHANGED <<queue, chan, submitted>>
    BY <1>6 DEF Process
  <2>3. /\ delivered'[c] = Append(delivered[c], node[w])
        /\ \A d \in Channels : d # c => delivered'[d] = delivered[d]
        /\ at'[w] # "run"
        /\ \A v \in Workers : v # w => node'[v] = node[v] /\ at'[v] = at[v]
    BY <2>1, <2>2 DEF TypeOK
  <2>4. /\ Len(delivered'[c]) = Len(delivered[c]) + 1
        /\ \A i \in 1..Len(delivered[c]) : delivered'[c][i] = delivered[c][i]
        /\ delivered'[c][Len(delivered[c]) + 1] = node[w]
    BY <1>0, <2>1, <2>3
  <2>5. Popped(c) = Len(delivered[c]) + 1 /\ node[w] = submitted[c][Popped(c)]
    BY <2>1 DEF Flow
  <2>6. \A d \in Channels : Popped(d)' = Popped(d)
    BY <2>2 DEF Popped
  <2> HIDE DEF c
  <2>7. ASSUME NEW d \in Channels
        PROVE  /\ Len(delivered'[d]) <= Popped(d)
               /\ \A i \in 1..Len(delivered'[d]) : delivered'[d][i] = submitted[d][i]
               /\ (\A v \in Workers : ~(at'[v] = "run" /\ chan[v] = d))
                     => Len(delivered'[d]) = Popped(d)
    <3>1. CASE d = c
      <4>1. ASSUME NEW i \in 1..Len(delivered'[c])
            PROVE  delivered'[c][i] = submitted[c][i]
        <5>1. CASE i \in 1..Len(delivered[c])
          BY <2>1, <2>4, <5>1 DEF Flow
        <5>2. CASE i = Len(delivered[c]) + 1
          BY <2>4, <2>5, <5>2
        <5> QED BY <1>0, <2>1, <2>4, <5>1, <5>2
      <4>2. Len(delivered'[c]) = Popped(c) /\ Len(delivered'[c]) <= Popped(c)
        BY <1>0, <2>1, <2>4, <2>5
      <4> QED BY <3>1, <4>1, <4>2
    <3>2. CASE d # c
      <4>1. (\A v \in Workers : ~(at'[v] = "run" /\ chan[v] = d))
               => \A v \in Workers : ~(at[v] = "run" /\ chan[v] = d)
        BY <2>3, <3>2 DEF c
      <4> QED BY <2>3, <3>2, <4>1 DEF Flow
    <3> QED BY <3>1, <3>2
  <2>8. ASSUME NEW v \in Workers, at'[v] = "run"
        PROVE  /\ Popped(chan[v]) = Len(delivered'[chan[v]]) + 1
               /\ node'[v] = submitted[chan[v]][Popped(chan[v])]
    <3>1. v # w /\ at[v] = "run" /\ chan[v] \in Channels /\ chan[v] # c
      BY <2>1, <2>3, <2>8, InHandTypes
    <3> QED BY <2>3, <3>1 DEF Flow
  <2>9. \A v \in Workers : Popped(chan[v])' = Popped(chan[v])
    BY <2>2 DEF Popped
  <2>10. \A d \in Channels :
           /\ Len(queue[d]) <= Len(submitted[d])
           /\ \A j \in 1..Len(queue[d]) : queue[d][j] = submitted[d][Popped(d) + j]
    BY DEF Flow
  <2> QED BY <2>2, <2>6, <2>7, <2>8, <2>9, <2>10 DEF Flow
<1>7. CASE UNCHANGED queueVars
  BY <1>2, <1>7 DEF queueVars, threadVars
<1> QED BY <1>1, <1>3, <1>4, <1>5, <1>6, <1>7 DEF QueueStep, Thread
-----------------------------------------------------------------------------
(* The dialogues.  What a channel was submitted is a sequence of tasks.    *)

TaskOf(kind, r, n) == [kind |-> kind, content |-> <<r, n>>]

\* Nothing is open: there was no stream yet, or the last one was ended.
Over == {s \in Seq(Tasks) : s = <<>> \/ s[Len(s)].kind = "END"}

\* The stream of call r is open, and said its text up to length n.
Said(r, n) == {s \in Seq(Tasks) : /\ s # <<>> /\ s[Len(s)].kind # "END"
                                  /\ s[Len(s)].content = <<r, n>>}
SaidLess(r, n) == {s \in Seq(Tasks) : \E m \in Nat : m < n /\ s \in Said(r, m)}

\* channels_foreach is under way with one task; it takes the dialogues of the
\* channels it has still to visit from B to A.
OnePass(task, B, A) ==
    /\ Len(todo) <= N
    /\ \A i \in 1..Len(todo) :
          todo[i] = [chan |-> ChannelList[(N - Len(todo)) + i], task |-> task]
    /\ \A p \in 1..N : ChannelList[p] \in Streaming =>
          submitted[ChannelList[p]] \in IF p > N - Len(todo) THEN B ELSE A

\* The same with one task, and the whole of another pass behind it.
TwoPasses(task, last, B, A) ==
    /\ N <= Len(todo) /\ Len(todo) <= N + N
    /\ \A i \in 1..Len(todo) :
          todo[i] = IF i <= Len(todo) - N
                    THEN [chan |-> ChannelList[((N + N) - Len(todo)) + i], task |-> task]
                    ELSE [chan |-> ChannelList[(N - Len(todo)) + i], task |-> last]
    /\ \A p \in 1..N : ChannelList[p] \in Streaming =>
          submitted[ChannelList[p]] \in IF p > (N + N) - Len(todo) THEN B ELSE A

Quiet ==
    /\ todo = <<>> /\ (active => asking)
    /\ \A p \in 1..N : ChannelList[p] \in Streaming =>
          submitted[ChannelList[p]] \in IF active THEN Said(Reply, sent) ELSE Over

Starting ==
    /\ asking /\ active
    /\ OnePass(TaskOf("START", Reply, sent), Over, Said(Reply, sent))

Updating ==
    /\ asking /\ active
    /\ OnePass(TaskOf("UPDATE", Reply, sent), SaidLess(Reply, sent), Said(Reply, sent))

\* What the last call accepted of its text.
Shown == replies[Len(replies)].shown

Finishing ==
    /\ ~asking /\ ~active /\ replies # <<>>
    /\ TwoPasses(TaskOf("UPDATE", Len(replies), Shown), TaskOf("END", Len(replies), 0),
                 SaidLess(Len(replies), Shown), Said(Len(replies), Shown))

Ending ==
    /\ ~asking /\ ~active /\ replies # <<>>
    /\ OnePass(TaskOf("END", Len(replies), 0), Said(Len(replies), Shown), Over)

Dialogue == Quiet \/ Starting \/ Updating \/ Finishing \/ Ending

\* The i-th task of a dialogue may follow the one before it.
Follows(s, i, rs) ==
    LET t == s[i]
        before == s[i - 1]
        first == i = 1 \/ before.kind = "END"
    IN  /\ t.kind = "START" => first
        /\ t.kind = "UPDATE" => /\ ~first
                                /\ t.content[1] = before.content[1]
                                /\ t.content[2] > before.content[2]
        /\ t.kind = "END" => /\ ~first
                             /\ t.content[1] = before.content[1]
                             /\ before.content[1] \in 1..Len(rs)
                             /\ before.content[2] = rs[before.content[1]].shown

Told == \A c \in Channels : \A i \in 1..Len(submitted[c]) : Follows(submitted[c], i, replies)

AgentInv == IInv /\ Flow /\ AgentTypes /\ Dialogue /\ Told

-----------------------------------------------------------------------------
(* What one more task does to a dialogue. *)

LEMMA Appended ==
    ASSUME NEW s \in Seq(Tasks), NEW t \in Tasks
    PROVE  /\ Append(s, t) \in Seq(Tasks) /\ Append(s, t) # <<>>
           /\ Len(Append(s, t)) = Len(s) + 1 /\ Len(s) \in Nat
           /\ Append(s, t)[Len(Append(s, t))] = t
           /\ \A i \in 1..Len(s) : Append(s, t)[i] = s[i]
OBVIOUS

LEMMA StartOpens ==
    ASSUME NEW r \in Nat, NEW n \in Nat, NEW s \in Over, TaskOf("START", r, n) \in Tasks,
           NEW rs
    PROVE  /\ Append(s, TaskOf("START", r, n)) \in Said(r, n)
           /\ Follows(Append(s, TaskOf("START", r, n)), Len(s) + 1, rs)
<1> DEFINE t == TaskOf("START", r, n)
<1>1. t.kind = "START" /\ t.content = <<r, n>>
  BY DEF TaskOf
<1>2. s \in Seq(Tasks) /\ (s = <<>> \/ s[Len(s)].kind = "END")
  BY DEF Over
<1> HIDE DEF t
<1>3. /\ Append(s, t) \in Seq(Tasks) /\ Append(s, t) # <<>>
      /\ Len(Append(s, t)) = Len(s) + 1 /\ Len(s) \in Nat
      /\ Append(s, t)[Len(Append(s, t))] = t
      /\ \A i \in 1..Len(s) : Append(s, t)[i] = s[i]
  BY <1>2, Appended DEF t
<1>4. Append(s, t) \in Said(r, n)
  BY <1>1, <1>3 DEF Said
<1>5. Append(s, t)[Len(s) + 1] = t
  BY <1>3
<1>6. Len(s) + 1 = 1 \/ Append(s, t)[(Len(s) + 1) - 1].kind = "END"
  <2>1. CASE s = <<>>
    BY <2>1
  <2>2. CASE s # <<>>
    <3>1. Len(s) \in 1..Len(s) /\ (Len(s) + 1) - 1 = Len(s)
      BY <1>2, <1>3, <2>2
    <3> QED BY <1>2, <1>3, <2>2, <3>1
  <2> QED BY <2>1, <2>2
<1>7. Follows(Append(s, t), Len(s) + 1, rs)
  BY <1>1, <1>5, <1>6 DEF Follows
<1> QED BY <1>4, <1>7 DEF t

LEMMA UpdateGoesOn ==
    ASSUME NEW r \in Nat, NEW n \in Nat, NEW s \in SaidLess(r, n),
           TaskOf("UPDATE", r, n) \in Tasks, NEW rs
    PROVE  /\ Append(s, TaskOf("UPDATE", r, n)) \in Said(r, n)
           /\ Follows(Append(s, TaskOf("UPDATE", r, n)), Len(s) + 1, rs)
<1> DEFINE t == TaskOf("UPDATE", r, n)
<1>1. t.kind = "UPDATE" /\ t.content = <<r, n>>
  BY DEF TaskOf
<1>2. PICK m \in Nat : m < n /\ s \in Said(r, m)
  BY DEF SaidLess
<1>3. s \in Seq(Tasks) /\ s # <<>> /\ s[Len(s)].kind # "END" /\ s[Len(s)].content = <<r, m>>
  BY <1>2 DEF Said
<1> HIDE DEF t
<1>4. /\ Append(s, t) \in Seq(Tasks) /\ Append(s, t) # <<>>
      /\ Len(Append(s, t)) = Len(s) + 1 /\ Len(s) \in Nat
      /\ Append(s, t)[Len(Append(s, t))] = t
      /\ \A i \in 1..Len(s) : Append(s, t)[i] = s[i]
  BY <1>3, Appended DEF t
<1>5. Append(s, t) \in Said(r, n)
  BY <1>1, <1>4 DEF Said
<1>6. Append(s, t)[Len(s) + 1] = t /\ Len(s) + 1 # 1 /\ Append(s, t)[(Len(s) + 1) - 1] = s[Len(s)]
  <2>1. Len(s) \in 1..Len(s) /\ (Len(s) + 1) - 1 = Len(s)
    BY <1>3, <1>4
  <2> QED BY <1>4, <2>1
<1>7. t.content[1] = r /\ t.content[2] = n /\ s[Len(s)].content[1] = r /\ s[Len(s)].content[2] = m
  BY <1>1, <1>3
<1>8. Follows(Append(s, t), Len(s) + 1, rs)
  BY <1>1, <1>2, <1>3, <1>6, <1>7 DEF Follows
<1> QED BY <1>5, <1>8 DEF t

LEMMA EndCloses ==
    ASSUME NEW r \in Nat, NEW n \in Nat, NEW s \in Said(r, n), TaskOf("END", r, 0) \in Tasks,
           NEW rs, r \in 1..Len(rs), rs[r].shown = n
    PROVE  /\ Append(s, TaskOf("END", r, 0)) \in Over
           /\ Follows(Append(s, TaskOf("END", r, 0)), Len(s) + 1, rs)
<1> DEFINE t == TaskOf("END", r, 0)
<1>1. t.kind = "END" /\ t.content = <<r, 0>>
  BY DEF TaskOf
<1>2. s \in Seq(Tasks) /\ s # <<>> /\ s[Len(s)].kind # "END" /\ s[Len(s)].content = <<r, n>>
  BY DEF Said
<1> HIDE DEF t
<1>3. /\ Append(s, t) \in Seq(Tasks) /\ Append(s, t) # <<>>
      /\ Len(Append(s, t)) = Len(s) + 1 /\ Len(s) \in Nat
      /\ Append(s, t)[Len(Append(s, t))] = t
      /\ \A i \in 1..Len(s) : Append(s, t)[i] = s[i]
  BY <1>2, Appended DEF t
<1>4. Append(s, t) \in Over
  BY <1>1, <1>3 DEF Over
<1>5. Append(s, t)[Len(s) + 1] = t /\ Len(s) + 1 # 1 /\ Append(s, t)[(Len(s) + 1) - 1] = s[Len(s)]
  <2>1. Len(s) \in 1..Len(s) /\ (Len(s) + 1) - 1 = Len(s)
    BY <1>2, <1>3
  <2> QED BY <1>3, <2>1
<1>6. t.content[1] = r /\ s[Len(s)].content[1] = r /\ s[Len(s)].content[2] = n
  BY <1>1, <1>2
<1>7. Follows(Append(s, t), Len(s) + 1, rs)
  BY <1>1, <1>2, <1>5, <1>6 DEF Follows
<1> QED BY <1>4, <1>7 DEF t

\* The dialogues told so far stay as they are when one of them goes on.
LEMMA ToldStep ==
    ASSUME TypeOK, Told, NEW c \in Channels, NEW t \in Tasks,
           submitted' = [submitted EXCEPT ![c] = Append(@, t)], replies' = replies,
           Follows(Append(submitted[c], t), Len(submitted[c]) + 1, replies)
    PROVE  Told'
<1>1. submitted[c] \in Seq(Tasks) /\ \A d \in Channels : d # c => submitted'[d] = submitted[d]
  BY DEF TypeOK
<1>2. submitted'[c] = Append(submitted[c], t)
  BY DEF TypeOK
<1>3. /\ Len(submitted'[c]) = Len(submitted[c]) + 1 /\ Len(submitted[c]) \in Nat
      /\ \A i \in 1..Len(submitted[c]) : submitted'[c][i] = submitted[c][i]
  BY <1>1, <1>2, Appended
<1>4. ASSUME NEW i \in 1..Len(submitted'[c])
      PROVE  Follows(submitted'[c], i, replies)
  <2>1. CASE i = Len(submitted[c]) + 1
    BY <1>2, <2>1
  <2>2. CASE i \in 1..Len(submitted[c])
    <3>1. Follows(submitted[c], i, replies)
      BY <2>2 DEF Told
    <3>2. submitted'[c][i] = submitted[c][i]
      BY <1>3, <2>2
    <3>3. i = 1 \/ submitted'[c][i - 1] = submitted[c][i - 1]
      <4>1. CASE i # 1
        <5>1. i - 1 \in 1..Len(submitted[c])
          BY <1>3, <2>2, <4>1
        <5> QED BY <1>3, <5>1
      <4> QED BY <4>1
    <3>4. CASE i = 1
      BY <3>1, <3>2, <3>4 DEF Follows
    <3>5. CASE submitted'[c][i - 1] = submitted[c][i - 1]
      BY <3>1, <3>2, <3>5 DEF Follows
    <3> QED BY <3>3, <3>4, <3>5
  <2> QED BY <1>3, <2>1, <2>2
<1>5. ASSUME NEW d \in Channels, NEW i \in 1..Len(submitted'[d])
      PROVE  Follows(submitted'[d], i, replies)
  <2>1. CASE d = c
    BY <1>4, <2>1
  <2>2. CASE d # c
    BY <1>1, <2>2 DEF Told
  <2> QED BY <2>1, <2>2
<1> QED BY <1>5 DEF Told

-----------------------------------------------------------------------------
(* The iterations of channels_foreach. *)

\* One of them, the K-th from the end of its pass.
LEMMA VisitStep ==
    ASSUME AgentTypes, Told, SubmitNext, NEW task \in Tasks, NEW B, NEW A, NEW K \in 1..N,
           todo[1] = [chan |-> ChannelList[(N - K) + 1], task |-> task],
           \A p \in 1..N : ChannelList[p] \in Streaming =>
               submitted[ChannelList[p]] \in IF p > N - K THEN B ELSE A,
           \A s \in B : /\ Append(s, task) \in A
                       /\ Follows(Append(s, task), Len(s) + 1, replies)
    PROVE  /\ Told'
           /\ \A p \in 1..N : ChannelList[p] \in Streaming =>
                 submitted'[ChannelList[p]] \in IF p > N - (K - 1) THEN B ELSE A
<1>0. N \in Nat /\ K \in Nat /\ 1 <= K /\ K <= N
  BY AgentStreamAssumption DEF N
<1>1. (N - K) + 1 \in 1..N
  BY <1>0
<1>2. PICK c \in Channels : c = ChannelList[(N - K) + 1]
  BY <1>1, AgentStreamAssumption DEF N
<1>3. \A p \in 1..N : p # (N - K) + 1 => ChannelList[p] # c
  BY <1>1, <1>2, AgentStreamAssumption DEF N
<1>4. \A p \in 1..N : p # (N - K) + 1 => ((p > N - (K - 1)) <=> (p > N - K))
  BY <1>0
<1>5. Head(todo) = todo[1] /\ Head(todo).chan = c /\ Head(todo).task = task
  BY <1>2 DEF SubmitNext
<1>6. CASE c \in Streaming
  <2>1. submitted' = [submitted EXCEPT ![c] = Append(@, task)] /\ replies' = replies
    BY <1>5, <1>6 DEF SubmitNext, Submit
  <2>2. submitted[c] \in B
    <3>1. (N - K) + 1 > N - K
      BY <1>0
    <3> QED BY <1>1, <1>2, <1>6, <3>1
  <2>3. Append(submitted[c], task) \in A
        /\ Follows(Append(submitted[c], task), Len(submitted[c]) + 1, replies)
    BY <2>2
  <2>4. TypeOK
    BY DEF AgentTypes, AgentTypeOK
  <2>5. Told'
    BY <2>1, <2>3, <2>4, ToldStep
  <2>6. submitted'[c] \in A /\ \A d \in Channels : d # c => submitted'[d] = submitted[d]
    BY <2>1, <2>3, <2>4 DEF TypeOK
  <2>7. ~((N - K) + 1 > N - (K - 1))
    BY <1>0
  <2>8. \A p \in 1..N : ChannelList[p] \in Channels
    BY AgentStreamAssumption DEF N
  <2>9. ASSUME NEW p \in 1..N, ChannelList[p] \in Streaming
        PROVE  submitted'[ChannelList[p]] \in IF p > N - (K - 1) THEN B ELSE A
    <3>1. CASE p = (N - K) + 1
      BY <1>2, <2>6, <2>7, <3>1
    <3>2. CASE p # (N - K) + 1
      <4>1. submitted'[ChannelList[p]] = submitted[ChannelList[p]]
        BY <1>3, <2>6, <2>8, <3>2
      <4>2. (p > N - (K - 1)) <=> (p > N - K)
        BY <1>4, <3>2
      <4> QED BY <2>9, <4>1, <4>2
    <3> QED BY <3>1, <3>2
  <2> QED BY <2>5, <2>9
<1>7. CASE c \notin Streaming
  <2>1. submitted' = submitted /\ replies' = replies
    BY <1>5, <1>7 DEF SubmitNext
  <2>2. Told'
    BY <2>1 DEF Told
  <2>3. ASSUME NEW p \in 1..N, ChannelList[p] \in Streaming
        PROVE  submitted[ChannelList[p]] \in IF p > N - (K - 1) THEN B ELSE A
    <3>1. p # (N - K) + 1
      BY <1>2, <1>7, <2>3
    <3> QED BY <1>4, <2>3, <3>1
  <2> QED BY <2>1, <2>2, <2>3
<1> QED BY <1>6, <1>7

\* What is left of the iterations.
LEMMA Rest ==
    ASSUME AgentTypes, SubmitNext
    PROVE  /\ Len(todo) \in Nat /\ 1 <= Len(todo) /\ Len(todo') = Len(todo) - 1
           /\ \A i \in 1..Len(todo') : i + 1 \in 1..Len(todo) /\ todo'[i] = todo[i + 1]
BY DEF SubmitNext, AgentTypes, AgentTypeOK

LEMMA OnePassStep ==
    ASSUME AgentTypes, Told, SubmitNext, NEW task \in Tasks, NEW B, NEW A,
           OnePass(task, B, A),
           \A s \in B : /\ Append(s, task) \in A
                       /\ Follows(Append(s, task), Len(s) + 1, replies)
    PROVE  OnePass(task, B, A)' /\ Told'
<1>0. N \in Nat
  BY AgentStreamAssumption DEF N
<1>1. PICK K \in Nat : K = Len(todo)
  BY Rest
<1>2. K \in 1..N /\ Len(todo') = K - 1
  BY <1>0, <1>1, Rest DEF OnePass
<1>3. /\ todo[1] = [chan |-> ChannelList[(N - K) + 1], task |-> task]
      /\ \A i \in 1..K : todo[i] = [chan |-> ChannelList[(N - K) + i], task |-> task]
      /\ \A p \in 1..N : ChannelList[p] \in Streaming =>
            submitted[ChannelList[p]] \in IF p > N - K THEN B ELSE A
  BY <1>1, <1>2 DEF OnePass
<1>4. /\ Told'
      /\ \A p \in 1..N : ChannelList[p] \in Streaming =>
            submitted'[ChannelList[p]] \in IF p > N - (K - 1) THEN B ELSE A
  BY <1>2, <1>3, VisitStep
<1>5. \A i \in 1..K - 1 : todo'[i] = [chan |-> ChannelList[(N - (K - 1)) + i], task |-> task]
  <2> SUFFICES ASSUME NEW i \in 1..K - 1
               PROVE  todo'[i] = [chan |-> ChannelList[(N - (K - 1)) + i], task |-> task]
    OBVIOUS
  <2>1. i + 1 \in 1..K /\ todo'[i] = todo[i + 1]
    BY <1>1, <1>2, Rest
  <2>2. (N - K) + (i + 1) = (N - (K - 1)) + i
    BY <1>0, <1>2
  <2> QED BY <1>3, <2>1, <2>2
<1>6. K - 1 <= N
  BY <1>0, <1>2
<1> QED BY <1>2, <1>4, <1>5, <1>6 DEF OnePass

LEMMA TwoPassesStep ==
    ASSUME AgentTypes, Told, SubmitNext, NEW task \in Tasks, NEW last \in Tasks, NEW B, NEW A,
           TwoPasses(task, last, B, A), Len(todo) # N,
           \A s \in B : /\ Append(s, task) \in A
                       /\ Follows(Append(s, task), Len(s) + 1, replies)
    PROVE  TwoPasses(task, last, B, A)' /\ Told'
<1>0. N \in Nat
  BY AgentStreamAssumption DEF N
<1>1. PICK L \in Nat : L = Len(todo)
  BY Rest
<1>2. /\ N <= L /\ L <= N + N /\ L # N
      /\ \A i \in 1..L : todo[i] = IF i <= L - N
            THEN [chan |-> ChannelList[((N + N) - L) + i], task |-> task]
            ELSE [chan |-> ChannelList[(N - L) + i], task |-> last]
      /\ \A p \in 1..N : ChannelList[p] \in Streaming =>
            submitted[ChannelList[p]] \in IF p > (N + N) - L THEN B ELSE A
  BY <1>1 DEF TwoPasses
<1>3. PICK K \in 1..N : L = N + K
  <2>1. L - N \in 1..N /\ L = N + (L - N)
    BY <1>0, <1>2
  <2> QED BY <2>1
<1>4. (N + N) - L = N - K /\ L - N = K /\ 1 \in 1..L /\ 1 <= K
  BY <1>0, <1>3
<1>5. todo[1] = [chan |-> ChannelList[(N - K) + 1], task |-> task]
  BY <1>2, <1>4
<1>6. \A p \in 1..N : ChannelList[p] \in Streaming =>
          submitted[ChannelList[p]] \in IF p > N - K THEN B ELSE A
  BY <1>2, <1>4
<1>7. /\ Told'
      /\ \A p \in 1..N : ChannelList[p] \in Streaming =>
            submitted'[ChannelList[p]] \in IF p > N - (K - 1) THEN B ELSE A
  BY <1>5, <1>6, VisitStep
<1>8. Len(todo') = L - 1 /\ (N + N) - (L - 1) = N - (K - 1)
      /\ N <= L - 1 /\ L - 1 <= N + N
  BY <1>0, <1>1, <1>3, Rest
<1>9. ASSUME NEW i \in 1..L - 1
      PROVE  todo'[i] = IF i <= (L - 1) - N
                THEN [chan |-> ChannelList[((N + N) - (L - 1)) + i], task |-> task]
                ELSE [chan |-> ChannelList[(N - (L - 1)) + i], task |-> last]
  <2>1. i + 1 \in 1..L /\ todo'[i] = todo[i + 1]
    BY <1>1, <1>8, Rest
  <2>2. /\ i <= (L - 1) - N <=> i + 1 <= L - N
        /\ ((N + N) - L) + (i + 1) = ((N + N) - (L - 1)) + i
        /\ (N - L) + (i + 1) = (N - (L - 1)) + i
    BY <1>0
  <2> QED BY <1>2, <2>1, <2>2
<1> QED BY <1>7, <1>8, <1>9 DEF TwoPasses

\* The first of two passes is over: the second one begins.
LEMMA SecondPass ==
    ASSUME NEW task, NEW last, NEW B, NEW A, TwoPasses(task, last, B, A), Len(todo) = N
    PROVE  \A C : OnePass(last, A, C)
<1>0. N \in Nat
  BY AgentStreamAssumption DEF N
<1>1. \A i \in 1..N : todo[i] = [chan |-> ChannelList[(N - N) + i], task |-> last]
  BY <1>0 DEF TwoPasses
<1>2. \A p \in 1..N : ChannelList[p] \in Streaming => submitted[ChannelList[p]] \in A
  BY <1>0 DEF TwoPasses
<1>3. \A p \in 1..N : p > N - N
  BY <1>0
<1> QED BY <1>0, <1>1, <1>2, <1>3 DEF OnePass
\* The contents the tasks of a reply carry.
LEMMA TasksOfReply ==
    ASSUME NEW kind \in Kinds, NEW r \in 1..MaxReplies, NEW n \in 0..MaxText
    PROVE  TaskOf(kind, r, n) \in Tasks
<1>1. <<r, n>> \in Contents
  BY AgentStreamAssumption
<1> QED BY <1>1 DEF TaskOf, Tasks

\* A step of the iterators leaves the dialogues where the invariant has them.
LEMMA SubmitStep ==
    ASSUME AgentTypes, Told, Dialogue, SubmitNext
    PROVE  Dialogue' /\ Told'
<1>0. /\ N \in Nat /\ MaxReplies \in Nat /\ MaxText \in Nat
      /\ Len(replies) \in Nat /\ Len(replies) <= MaxReplies
  BY AgentStreamAssumption DEF N, AgentTypes, AgentTypeOK
<1>1. UNCHANGED <<asking, text, active, acc, sent, replies, whole>> /\ todo # <<>>
  BY DEF SubmitNext
<1>2. ASSUME asking, active
      PROVE  Reply \in 1..MaxReplies /\ Reply \in Nat /\ sent \in 0..MaxText /\ sent \in Nat
  <2>1. Len(replies) < MaxReplies
    BY <1>2 DEF AgentTypes
  <2>2. Reply \in 1..MaxReplies /\ Reply \in Nat
    BY <1>0, <2>1 DEF Reply
  <2>3. sent \in 0..MaxText /\ sent \in Nat
    BY <1>0 DEF AgentTypes, AgentTypeOK
  <2> QED BY <2>2, <2>3
<1>3. CASE Starting
  <2>1. asking /\ active
    BY <1>3 DEF Starting
  <2>2. PICK r \in 1..MaxReplies, n \in 0..MaxText : r = Reply /\ n = sent /\ r \in Nat /\ n \in Nat
    BY <1>2, <2>1
  <2>3. OnePass(TaskOf("START", r, n), Over, Said(r, n))
    BY <1>3, <2>2 DEF Starting, OnePass
  <2>4. TaskOf("START", r, n) \in Tasks
    BY TasksOfReply DEF Kinds
  <2>5. \A s \in Over : /\ Append(s, TaskOf("START", r, n)) \in Said(r, n)
                        /\ Follows(Append(s, TaskOf("START", r, n)), Len(s) + 1, replies)
    BY <2>2, <2>4, StartOpens
  <2>6. OnePass(TaskOf("START", r, n), Over, Said(r, n))' /\ Told'
    BY <2>3, <2>4, <2>5, OnePassStep
  <2>7. Reply' = r /\ sent' = n
    BY <1>1, <2>2 DEF Reply
  <2>8. Starting'
    BY <1>1, <2>1, <2>6, <2>7 DEF Starting, OnePass
  <2> QED BY <2>6, <2>8 DEF Dialogue
<1>4. CASE Updating
  <2>1. asking /\ active
    BY <1>4 DEF Updating
  <2>2. PICK r \in 1..MaxReplies, n \in 0..MaxText : r = Reply /\ n = sent /\ r \in Nat /\ n \in Nat
    BY <1>2, <2>1
  <2>3. OnePass(TaskOf("UPDATE", r, n), SaidLess(r, n), Said(r, n))
    BY <1>4, <2>2 DEF Updating, OnePass
  <2>4. TaskOf("UPDATE", r, n) \in Tasks
    BY TasksOfReply DEF Kinds
  <2>5. \A s \in SaidLess(r, n) :
            /\ Append(s, TaskOf("UPDATE", r, n)) \in Said(r, n)
            /\ Follows(Append(s, TaskOf("UPDATE", r, n)), Len(s) + 1, replies)
    BY <2>2, <2>4, UpdateGoesOn
  <2>6. OnePass(TaskOf("UPDATE", r, n), SaidLess(r, n), Said(r, n))' /\ Told'
    BY <2>3, <2>4, <2>5, OnePassStep
  <2>7. Reply' = r /\ sent' = n
    BY <1>1, <2>2 DEF Reply
  <2>8. Updating'
    BY <1>1, <2>1, <2>6, <2>7 DEF Updating, OnePass
  <2> QED BY <2>6, <2>8 DEF Dialogue
<1>5. ASSUME ~asking, ~active, replies # <<>>
      PROVE  \E r \in 1..MaxReplies, n \in 0..MaxText :
                /\ r = Len(replies) /\ n = Shown /\ r \in Nat /\ n \in Nat /\ 0 \in 0..MaxText
                /\ r \in 1..Len(replies) /\ replies[r].shown = n
                /\ Len(replies)' = r /\ Shown' = n
  <2>1. Len(replies) \in 1..MaxReplies /\ Len(replies) \in 1..Len(replies)
    <3>1. Len(replies) # 0
      BY <1>5 DEF AgentTypes, AgentTypeOK
    <3> QED BY <1>0, <3>1
  <2>2. replies[Len(replies)].shown \in 0..MaxText
    <3>1. replies \in Seq([outcome : Outcomes, streamed : BOOLEAN,
                           full : 0..MaxText, shown : 0..MaxText])
      BY DEF AgentTypes, AgentTypeOK
    <3>2. replies[Len(replies)] \in [outcome : Outcomes, streamed : BOOLEAN,
                                     full : 0..MaxText, shown : 0..MaxText]
      BY <2>1, <3>1, ElementOfSeq
    <3> QED BY <3>2
  <2>3. Len(replies)' = Len(replies) /\ Shown' = Shown
    BY <1>1 DEF Shown
  <2>4. Len(replies) \in Nat /\ 0 \in 0..MaxText /\ \A n \in 0..MaxText : n \in Nat
    BY <1>0
  <2> QED BY <2>1, <2>2, <2>3, <2>4 DEF Shown
<1>6. ASSUME ~asking, ~active, replies # <<>>,
             OnePass(TaskOf("END", Len(replies), 0), Said(Len(replies), Shown), Over)
      PROVE  Ending' /\ Told'
  <2>1. PICK r \in 1..MaxReplies, n \in 0..MaxText :
                /\ r = Len(replies) /\ n = Shown /\ r \in Nat /\ n \in Nat /\ 0 \in 0..MaxText
                /\ r \in 1..Len(replies) /\ replies[r].shown = n
                /\ Len(replies)' = r /\ Shown' = n
    BY <1>5, <1>6
  <2>2. OnePass(TaskOf("END", r, 0), Said(r, n), Over)
    BY <1>6, <2>1 DEF OnePass
  <2>3. TaskOf("END", r, 0) \in Tasks
    BY <2>1, TasksOfReply DEF Kinds
  <2>4. \A s \in Said(r, n) :
            /\ Append(s, TaskOf("END", r, 0)) \in Over
            /\ Follows(Append(s, TaskOf("END", r, 0)), Len(s) + 1, replies)
    BY <2>1, <2>3, EndCloses
  <2>5. OnePass(TaskOf("END", r, 0), Said(r, n), Over)' /\ Told'
    BY <2>2, <2>3, <2>4, OnePassStep
  <2>6. Ending'
    BY <1>1, <1>6, <2>1, <2>5 DEF Ending, OnePass
  <2> QED BY <2>5, <2>6
<1>7. CASE Finishing
  <2>0. ~asking /\ ~active /\ replies # <<>>
    BY <1>7 DEF Finishing
  <2>1. PICK r \in 1..MaxReplies, n \in 0..MaxText :
                /\ r = Len(replies) /\ n = Shown /\ r \in Nat /\ n \in Nat /\ 0 \in 0..MaxText
                /\ r \in 1..Len(replies) /\ replies[r].shown = n
                /\ Len(replies)' = r /\ Shown' = n
    BY <1>5, <2>0
  <2>2. TwoPasses(TaskOf("UPDATE", r, n), TaskOf("END", r, 0), SaidLess(r, n), Said(r, n))
    BY <1>7, <2>1 DEF Finishing, TwoPasses
  <2>3. TaskOf("UPDATE", r, n) \in Tasks /\ TaskOf("END", r, 0) \in Tasks
    BY <2>1, TasksOfReply DEF Kinds
  <2>4. CASE Len(todo) # N
    <3>1. \A s \in SaidLess(r, n) :
              /\ Append(s, TaskOf("UPDATE", r, n)) \in Said(r, n)
              /\ Follows(Append(s, TaskOf("UPDATE", r, n)), Len(s) + 1, replies)
      BY <2>1, <2>3, UpdateGoesOn
    <3>2. TwoPasses(TaskOf("UPDATE", r, n), TaskOf("END", r, 0), SaidLess(r, n), Said(r, n))' /\ Told'
      BY <2>2, <2>3, <2>4, <3>1, TwoPassesStep
    <3>3. Finishing'
      BY <1>1, <2>0, <2>1, <3>2 DEF Finishing, TwoPasses
    <3> QED BY <3>2, <3>3 DEF Dialogue
  <2>5. CASE Len(todo) = N
    <3>1. OnePass(TaskOf("END", r, 0), Said(r, n), Over)
      BY <2>2, <2>5, SecondPass
    <3>2. OnePass(TaskOf("END", Len(replies), 0), Said(Len(replies), Shown), Over)
      BY <2>1, <3>1 DEF OnePass
    <3> QED BY <1>6, <2>0, <3>2 DEF Dialogue
  <2> QED BY <2>4, <2>5
<1>8. CASE Ending
  BY <1>6, <1>8 DEF Ending, Dialogue
<1> QED BY <1>1, <1>3, <1>4, <1>7, <1>8 DEF Dialogue, Quiet

\* With nothing left to submit, every channel has been visited.
LEMMA Settled ==
    ASSUME AgentTypes, Dialogue, todo = <<>>
    PROVE  Quiet
<1>0. N \in Nat /\ Len(todo) = 0 /\ \A p \in 1..N : ~(p > N - 0)
  BY AgentStreamAssumption DEF N
<1>1. CASE Starting
  BY <1>0, <1>1 DEF Starting, OnePass, Quiet
<1>2. CASE Updating
  BY <1>0, <1>2 DEF Updating, OnePass, Quiet
<1>3. CASE Finishing
  <2>1. N = 0
    BY <1>0, <1>3 DEF Finishing, TwoPasses
  <2> QED BY <1>3, <2>1 DEF Finishing, Quiet
<1>4. CASE Ending
  BY <1>0, <1>4 DEF Ending, OnePass, Quiet
<1> QED BY <1>1, <1>2, <1>3, <1>4 DEF Dialogue
-----------------------------------------------------------------------------
(* The steps of the producer. *)

\* What channels_foreach visits with one task.
Visits(task) ==
    [i \in DOMAIN ChannelList |-> [chan |-> ChannelList[i], task |-> task]]

LEMMA VisitsIs ==
    ASSUME NEW task \in Tasks
    PROVE  /\ N \in Nat /\ Visits(task) \in Seq([chan : Channels, task : Tasks])
           /\ Len(Visits(task)) = N
           /\ \A i \in 1..N : Visits(task)[i] = [chan |-> ChannelList[i], task |-> task]
<1>1. N \in Nat /\ DOMAIN ChannelList = 1..N /\ \A i \in 1..N : ChannelList[i] \in Channels
  BY AgentStreamAssumption DEF N
<1>2. Visits(task) \in [1..N -> [chan : Channels, task : Tasks]]
  BY <1>1 DEF Visits
<1>3. Visits(task) \in Seq([chan : Channels, task : Tasks])
  BY <1>1, <1>2, SeqDef
<1>4. Len(Visits(task)) = N
  BY <1>1, <1>2, <1>3
<1> QED BY <1>1, <1>3, <1>4 DEF Visits

LEMMA ForeachIs ==
    ASSUME NEW kind, NEW r, NEW n, r = Reply
    PROVE  Foreach(kind, n) = Visits(TaskOf(kind, r, n))
BY DEF Foreach, Visits, TaskOf, Content, Reply

\* A pass begins.
LEMMA Begins ==
    ASSUME NEW task \in Tasks, NEW B, NEW A, todo' = Visits(task), submitted' = submitted,
           \A p \in 1..N : ChannelList[p] \in Streaming => submitted[ChannelList[p]] \in B
    PROVE  OnePass(task, B, A)'
<1>1. /\ N \in Nat /\ Len(todo') = N
      /\ \A i \in 1..N : todo'[i] = [chan |-> ChannelList[i], task |-> task]
  BY VisitsIs
<1>2. N <= N /\ (\A i \in 1..N : (N - N) + i = i) /\ \A p \in 1..N : p > N - N
  BY <1>1
<1> QED BY <1>1, <1>2 DEF OnePass

\* Two passes begin.
LEMMA BeginsTwo ==
    ASSUME NEW task \in Tasks, NEW last \in Tasks, NEW B, NEW A,
           todo' = Visits(task) \o Visits(last), submitted' = submitted,
           \A p \in 1..N : ChannelList[p] \in Streaming => submitted[ChannelList[p]] \in B
    PROVE  TwoPasses(task, last, B, A)'
<1> DEFINE S == [chan : Channels, task : Tasks]
<1>1. /\ N \in Nat /\ Len(Visits(task)) = N /\ Len(Visits(last)) = N
      /\ Visits(task) \in Seq(S) /\ Visits(last) \in Seq(S)
      /\ \A i \in 1..N : Visits(task)[i] = [chan |-> ChannelList[i], task |-> task]
      /\ \A i \in 1..N : Visits(last)[i] = [chan |-> ChannelList[i], task |-> last]
  BY VisitsIs
<1>2. /\ Len(todo') = N + N
      /\ \A i \in 1..(N + N) : todo'[i] = IF i <= N THEN Visits(task)[i] ELSE Visits(last)[i - N]
  <2> HIDE DEF S
  <2>1. PICK a \in Seq(S), b \in Seq(S) : a = Visits(task) /\ b = Visits(last)
    BY <1>1
  <2>2. /\ Len(a \o b) = Len(a) + Len(b)
        /\ \A i \in 1..Len(a) + Len(b) :
              (a \o b)[i] = IF i <= Len(a) THEN a[i] ELSE b[i - Len(a)]
    BY ConcatProperties
  <2>3. Len(a) = N /\ Len(b) = N /\ todo' = a \o b
    BY <1>1, <2>1
  <2>4. /\ Len(todo') = N + N
        /\ \A i \in 1..(N + N) : todo'[i] = IF i <= N THEN a[i] ELSE b[i - N]
    BY <2>2, <2>3
  <2> QED BY <2>1, <2>4
<1>3. /\ N <= N + N /\ N + N <= N + N /\ (N + N) - N = N
      /\ \A i \in 1..(N + N) : /\ i <= N => i \in 1..N
                               /\ ~(i <= N) => i - N \in 1..N
                               /\ ((N + N) - (N + N)) + i = i
                               /\ (N - (N + N)) + i = i - N
      /\ \A p \in 1..N : p > (N + N) - (N + N)
  BY <1>1
<1>4. ASSUME NEW i \in 1..(N + N)
      PROVE  todo'[i] = IF i <= (N + N) - N
                THEN [chan |-> ChannelList[((N + N) - (N + N)) + i], task |-> task]
                ELSE [chan |-> ChannelList[(N - (N + N)) + i], task |-> last]
  <2>1. CASE i <= N
    <3>1. i \in 1..N /\ i <= (N + N) - N /\ ((N + N) - (N + N)) + i = i
      BY <1>3, <2>1
    <3> QED BY <1>1, <1>2, <2>1, <3>1
  <2>2. CASE ~(i <= N)
    <3>1. i - N \in 1..N /\ ~(i <= (N + N) - N) /\ (N - (N + N)) + i = i - N
      BY <1>3, <2>2
    <3> QED BY <1>1, <1>2, <2>2, <3>1
  <2> QED BY <2>1, <2>2
<1> QED BY <1>2, <1>3, <1>4 DEF TwoPasses
\* What the types say of the counters, in the terms of Nat.
LEMMA Counters ==
    ASSUME AgentTypes
    PROVE  /\ text \in Nat /\ acc \in Nat /\ sent \in Nat /\ Len(replies) \in Nat
           /\ sent <= acc /\ acc <= text /\ text <= MaxText
           /\ MaxText \in Nat /\ MaxReplies \in Nat /\ Len(replies) <= MaxReplies
<1>1. MaxText \in Nat /\ MaxReplies \in Nat
  BY AgentStreamAssumption
<1>2. text \in 0..MaxText /\ acc \in 0..text /\ sent \in 0..acc /\ Len(replies) \in Nat
      /\ Len(replies) <= MaxReplies
  BY DEF AgentTypes, AgentTypeOK
<1>3. text \in Nat /\ text <= MaxText
  BY <1>1, <1>2
<1>4. acc \in Nat /\ acc <= text
  BY <1>2, <1>3
<1>5. sent \in Nat /\ sent <= acc
  BY <1>2, <1>4
<1> QED BY <1>1, <1>2, <1>3, <1>4, <1>5

LEMMA AskStep ==
    ASSUME AgentTypes, Dialogue, Told, Ask, TypeOK'
    PROVE  AgentTypes' /\ Dialogue' /\ Told'
<1>1. /\ todo = <<>> /\ ~asking /\ asking' = TRUE /\ Len(replies) < MaxReplies
      /\ text' = 0 /\ active' = FALSE /\ acc' = 0 /\ sent' = 0
      /\ submitted' = submitted /\ todo' = todo /\ replies' = replies /\ whole' = whole
  BY DEF Ask, Free, vars
<1>2. Quiet
  BY <1>1, Settled
<1>3. ~active
  BY <1>1, <1>2 DEF Quiet
<1>4. Quiet'
  BY <1>1, <1>2, <1>3 DEF Quiet
<1>5. Told'
  BY <1>1 DEF Told
<1>6. 0 \in 0..MaxText /\ 0 \in 0..0
  BY Counters
<1>7. AgentTypeOK'
  BY <1>1, <1>6 DEF AgentTypes, AgentTypeOK
<1>8. AgentTypes'
  BY <1>1, <1>7 DEF AgentTypes
<1> QED BY <1>4, <1>5, <1>8 DEF Dialogue

LEMMA ChunkStep ==
    ASSUME AgentTypes, Dialogue, Told, Chunk, TypeOK'
    PROVE  AgentTypes' /\ Dialogue' /\ Told'
<1>1. PICK n \in text+1..MaxText :
        text' = n /\ (HoldBack \/ StartStream(n) \/ Update(n) \/ Throttle(n))
  BY DEF Chunk
<1>2. /\ todo = <<>> /\ asking /\ asking' = asking /\ submitted' = submitted
      /\ replies' = replies /\ whole' = whole
  BY DEF Chunk, Free, vars
<1>3. /\ n \in 0..MaxText /\ n \in Nat /\ n \in 0..n /\ acc \in 0..n /\ sent \in 0..n
      /\ text < n /\ acc < n /\ sent < n
  <2>1. n \in Nat /\ text + 1 <= n /\ n <= MaxText
    BY <1>1, Counters
  <2>2. text < n
    BY <2>1, Counters
  <2>3. acc < n
    BY <2>1, <2>2, Counters
  <2>4. sent < n
    BY <2>1, <2>3, Counters
  <2>5. n \in 0..MaxText /\ n \in 0..n
    BY <2>1, Counters
  <2>6. acc \in 0..n /\ sent \in 0..n
    BY <2>1, <2>3, <2>4, Counters
  <2> QED BY <2>1, <2>2, <2>3, <2>4, <2>5, <2>6
<1>4. Len(replies) < MaxReplies /\ Reply \in 1..MaxReplies /\ Reply \in Nat
  <2>1. Len(replies) < MaxReplies
    BY <1>2 DEF AgentTypes
  <2> QED BY <2>1, Counters DEF Reply
<1>5. PICK r \in 1..MaxReplies : r = Reply /\ r \in Nat
  BY <1>4
<1>6. Reply' = r
  BY <1>2, <1>5 DEF Reply
<1>7. Quiet
  BY <1>2, Settled
<1>8. Told'
  BY <1>2 DEF Told
<1>9. ASSUME AgentTypeOK' PROVE AgentTypes'
  BY <1>2, <1>4, <1>9 DEF AgentTypes
<1>10. CASE HoldBack
  <2>1. active' = active /\ acc' = acc /\ sent' = sent /\ todo' = todo
    BY <1>10 DEF HoldBack
  <2>2. Quiet'
    BY <1>2, <1>5, <1>6, <1>7, <2>1 DEF Quiet
  <2>3. AgentTypeOK'
    BY <1>1, <1>2, <1>3, <2>1 DEF AgentTypes, AgentTypeOK
  <2> QED BY <1>8, <1>9, <2>2, <2>3 DEF Dialogue
<1>11. CASE Throttle(n)
  <2>1. active' = active /\ acc' = n /\ sent' = sent /\ todo' = todo
    BY <1>11 DEF Throttle
  <2>2. Quiet'
    BY <1>2, <1>5, <1>6, <1>7, <2>1 DEF Quiet
  <2>3. AgentTypeOK'
    BY <1>1, <1>2, <1>3, <2>1 DEF AgentTypes, AgentTypeOK
  <2> QED BY <1>8, <1>9, <2>2, <2>3 DEF Dialogue
<1>12. CASE StartStream(n)
  <2>1. ~active /\ active' = TRUE /\ acc' = n /\ sent' = n /\ todo' = Foreach("START", n)
    BY <1>12 DEF StartStream
  <2>2. TaskOf("START", r, n) \in Tasks
    BY <1>3, TasksOfReply DEF Kinds
  <2>3. todo' = Visits(TaskOf("START", r, n))
    BY <1>5, <2>1, ForeachIs
  <2>4. \A p \in 1..N : ChannelList[p] \in Streaming => submitted[ChannelList[p]] \in Over
    BY <1>7, <2>1 DEF Quiet
  <2>5. OnePass(TaskOf("START", r, n), Over, Said(r, n))'
    BY <1>2, <2>2, <2>3, <2>4, Begins
  <2>6. Starting'
    BY <1>2, <1>6, <2>1, <2>5 DEF Starting, OnePass
  <2>7. todo' \in Seq([chan : Channels, task : Tasks])
    BY <2>2, <2>3, VisitsIs
  <2>8. AgentTypeOK'
    BY <1>1, <1>2, <1>3, <2>1, <2>7 DEF AgentTypes, AgentTypeOK
  <2> QED BY <1>8, <1>9, <2>6, <2>8 DEF Dialogue
<1>13. CASE Update(n)
  <2>1. active /\ active' = active /\ acc' = n /\ sent' = n /\ todo' = Foreach("UPDATE", n)
    BY <1>13 DEF Update
  <2>2. TaskOf("UPDATE", r, n) \in Tasks
    BY <1>3, TasksOfReply DEF Kinds
  <2>3. todo' = Visits(TaskOf("UPDATE", r, n))
    BY <1>5, <2>1, ForeachIs
  <2>4. \A p \in 1..N : ChannelList[p] \in Streaming => submitted[ChannelList[p]] \in SaidLess(r, n)
    <3>1. PICK m \in Nat : m = sent /\ m < n
      BY <1>3, Counters
    <3>2. \A p \in 1..N : ChannelList[p] \in Streaming => submitted[ChannelList[p]] \in Said(r, m)
      BY <1>5, <1>7, <2>1, <3>1 DEF Quiet
    <3> QED BY <3>1, <3>2 DEF SaidLess, Said
  <2>5. OnePass(TaskOf("UPDATE", r, n), SaidLess(r, n), Said(r, n))'
    BY <1>2, <2>2, <2>3, <2>4, Begins
  <2>6. Updating'
    BY <1>2, <1>6, <2>1, <2>5 DEF Updating, OnePass
  <2>7. todo' \in Seq([chan : Channels, task : Tasks])
    BY <2>2, <2>3, VisitsIs
  <2>8. AgentTypeOK'
    BY <1>1, <1>2, <1>3, <2>1, <2>7 DEF AgentTypes, AgentTypeOK
  <2> QED BY <1>8, <1>9, <2>6, <2>8 DEF Dialogue
<1> QED BY <1>1, <1>10, <1>11, <1>12, <1>13
\* The replies of before are still there after one more.
LEMMA Replied ==
    ASSUME NEW S, NEW s \in Seq(S), NEW x \in S
    PROVE  /\ Append(s, x) \in Seq(S) /\ Append(s, x) # <<>>
           /\ Len(Append(s, x)) = Len(s) + 1 /\ Len(s) \in Nat
           /\ Append(s, x)[Len(s) + 1] = x
           /\ \A i \in 1..Len(s) : i \in 1..Len(Append(s, x)) /\ Append(s, x)[i] = s[i]
OBVIOUS

LEMMA ReturnStep ==
    ASSUME AgentTypes, Dialogue, Told, NEW o \in Outcomes, Return(o), TypeOK'
    PROVE  AgentTypes' /\ Dialogue' /\ Told'
<1> DEFINE S == [outcome : Outcomes, streamed : BOOLEAN, full : 0..MaxText, shown : 0..MaxText]
           x == [outcome |-> o, streamed |-> active, full |-> text, shown |-> acc]
<1>1. /\ todo = <<>> /\ asking /\ asking' = FALSE /\ submitted' = submitted
      /\ active' = FALSE /\ acc' = 0 /\ sent' = 0 /\ text' = text
      /\ replies' = Append(replies, x) /\ todo' = EndStream
      /\ whole' = IF o = "answer" /\ ~active
                  THEN [c \in Channels |-> whole[c] \cup {Len(replies) + 1}]
                  ELSE whole
  BY DEF Return, Free, vars
<1>2. acc \in 0..MaxText /\ acc \in Nat /\ 0 \in 0..MaxText /\ 0 \in 0..text /\ 0 \in 0..0
      /\ Len(replies) < MaxReplies /\ Len(replies) + 1 <= MaxReplies
      /\ Len(replies) + 1 \in 1..MaxReplies /\ Len(replies) + 1 \in Nat
  <2>1. Len(replies) < MaxReplies
    BY <1>1 DEF AgentTypes
  <2>2. acc <= MaxText
    BY Counters
  <2> QED BY <2>1, <2>2, Counters
<1>3. x \in S /\ x.shown = acc /\ replies \in Seq(S)
  BY <1>2 DEF AgentTypes, AgentTypeOK
<1> HIDE DEF x, S
<1>4. /\ replies' \in Seq(S) /\ replies' # <<>> /\ Len(replies') = Len(replies) + 1
      /\ replies'[Len(replies) + 1] = x
      /\ \A i \in 1..Len(replies) : i \in 1..Len(replies') /\ replies'[i] = replies[i]
  BY <1>1, <1>3, Replied
<1>5. PICK r \in 1..MaxReplies, n \in 0..MaxText :
        r = Len(replies) + 1 /\ n = acc /\ r \in Nat /\ n \in Nat
  BY <1>2
<1>6. Len(replies') = r /\ Shown' = n /\ Reply = r
  BY <1>3, <1>4, <1>5 DEF Shown, Reply
<1>7. Quiet
  BY <1>1, Settled
<1>8. Told'
  <2> SUFFICES ASSUME NEW c \in Channels, NEW i \in 1..Len(submitted[c])
               PROVE  Follows(submitted[c], i, replies')
    BY <1>1 DEF Told
  <2>1. Follows(submitted[c], i, replies)
    BY DEF Told
  <2> QED BY <1>4, <2>1 DEF Follows
<1>9. ASSUME todo' \in Seq([chan : Channels, task : Tasks])
      PROVE  AgentTypes'
  <2>1. whole' \in [Channels -> SUBSET (1..MaxReplies)]
    BY <1>1, <1>2 DEF AgentTypes, AgentTypeOK
  <2>2. text' \in 0..MaxText /\ acc' \in 0..text' /\ sent' \in 0..acc'
        /\ asking' \in BOOLEAN /\ active' \in BOOLEAN
    BY <1>1, <1>2 DEF AgentTypes, AgentTypeOK
  <2>3. AgentTypeOK'
    BY <1>4, <1>9, <2>1, <2>2 DEF AgentTypeOK, S
  <2>4. Len(replies') <= MaxReplies
    BY <1>2, <1>4
  <2> QED BY <1>1, <2>3, <2>4 DEF AgentTypes
<1>10. CASE ~active
  <2>1. todo' = <<>>
    BY <1>1, <1>10 DEF EndStream
  <2>2. Quiet'
    BY <1>1, <1>7, <1>10, <2>1 DEF Quiet
  <2>3. todo' \in Seq([chan : Channels, task : Tasks])
    BY <2>1
  <2> QED BY <1>8, <1>9, <2>2, <2>3 DEF Dialogue
<1>11. ASSUME active
       PROVE  /\ TaskOf("UPDATE", r, n) \in Tasks /\ TaskOf("END", r, 0) \in Tasks
              /\ Foreach("UPDATE", acc) = Visits(TaskOf("UPDATE", r, n))
              /\ Foreach("END", 0) = Visits(TaskOf("END", r, 0))
  <2>1. TaskOf("UPDATE", r, n) \in Tasks /\ TaskOf("END", r, 0) \in Tasks
    BY <1>2, TasksOfReply DEF Kinds
  <2>2. Foreach("UPDATE", n) = Visits(TaskOf("UPDATE", r, n))
        /\ Foreach("END", 0) = Visits(TaskOf("END", r, 0))
    BY <1>6, ForeachIs
  <2> QED BY <1>5, <2>1, <2>2
<1>12. CASE active /\ acc > sent
  <2>1. todo' = Visits(TaskOf("UPDATE", r, n)) \o Visits(TaskOf("END", r, 0))
    BY <1>1, <1>11, <1>12 DEF EndStream
  <2>2. \A p \in 1..N : ChannelList[p] \in Streaming => submitted[ChannelList[p]] \in SaidLess(r, n)
    <3>1. PICK m \in Nat : m = sent /\ m < n
      BY <1>5, <1>12, Counters
    <3>2. \A p \in 1..N : ChannelList[p] \in Streaming => submitted[ChannelList[p]] \in Said(r, m)
      BY <1>6, <1>7, <1>12, <3>1 DEF Quiet
    <3> QED BY <3>1, <3>2 DEF SaidLess, Said
  <2>3. TwoPasses(TaskOf("UPDATE", r, n), TaskOf("END", r, 0), SaidLess(r, n), Said(r, n))'
    BY <1>1, <1>11, <1>12, <2>1, <2>2, BeginsTwo
  <2>4. Finishing'
    BY <1>1, <1>4, <1>6, <2>3 DEF Finishing, TwoPasses
  <2>5. todo' \in Seq([chan : Channels, task : Tasks])
    <3>1. PICK a \in Seq([chan : Channels, task : Tasks]), b \in Seq([chan : Channels, task : Tasks]) :
             a = Visits(TaskOf("UPDATE", r, n)) /\ b = Visits(TaskOf("END", r, 0))
      BY <1>11, <1>12, VisitsIs
    <3>2. a \o b \in Seq([chan : Channels, task : Tasks])
      BY ConcatProperties
    <3> QED BY <2>1, <3>1, <3>2
  <2> QED BY <1>8, <1>9, <2>4, <2>5 DEF Dialogue
<1>13. CASE active /\ ~(acc > sent)
  <2>1. todo' = Visits(TaskOf("END", r, 0))
    <3>1. PICK b \in Seq([chan : Channels, task : Tasks]) : b = Visits(TaskOf("END", r, 0))
      BY <1>11, <1>13, VisitsIs
    <3>2. <<>> \o b = b
      BY ConcatEmptySeq
    <3>3. todo' = <<>> \o Foreach("END", 0)
      BY <1>1, <1>13 DEF EndStream
    <3> QED BY <1>11, <1>13, <3>1, <3>2, <3>3
  <2>2. \A p \in 1..N : ChannelList[p] \in Streaming => submitted[ChannelList[p]] \in Said(r, n)
    <3>1. n = sent
      BY <1>5, <1>13, Counters
    <3> QED BY <1>6, <1>7, <1>13, <3>1 DEF Quiet
  <2>3. OnePass(TaskOf("END", r, 0), Said(r, n), Over)'
    BY <1>1, <1>11, <1>13, <2>1, <2>2, Begins
  <2>4. Ending'
    BY <1>1, <1>4, <1>6, <2>3 DEF Ending, OnePass
  <2>5. todo' \in Seq([chan : Channels, task : Tasks])
    BY <1>11, <1>13, <2>1, VisitsIs
  <2> QED BY <1>8, <1>9, <2>4, <2>5 DEF Dialogue
<1> QED BY <1>10, <1>12, <1>13
-----------------------------------------------------------------------------
(* The invariant. *)

LEMMA AgentInitInv == AgentInit => AgentInv
<1> SUFFICES ASSUME AgentInit PROVE AgentInv
  OBVIOUS
<1>1. IInv
  BY InitIInv DEF AgentInit
<1>2. /\ asking = FALSE /\ active = FALSE /\ text = 0 /\ acc = 0 /\ sent = 0
      /\ todo = <<>> /\ replies = <<>> /\ whole = [c \in Channels |-> {}]
      /\ queue = [c \in Channels |-> <<>>] /\ at = [w \in Workers |-> "idle"]
      /\ submitted = [c \in Channels |-> <<>>] /\ delivered = [c \in Channels |-> <<>>]
  BY DEF AgentInit, Init
<1>3. \A c \in Channels : submitted[c] = <<>> /\ delivered[c] = <<>> /\ queue[c] = <<>>
  BY <1>2
<1>4. Flow
  BY <1>2, <1>3 DEF Flow, Popped
<1>5. Told
  BY <1>3 DEF Told
<1>6. MaxText \in Nat /\ MaxReplies \in Nat /\ 0 \in 0..MaxText /\ 0 \in 0..0
  BY AgentStreamAssumption
<1>7. AgentTypes
  <2>1. /\ \A S : <<>> \in Seq(S)
        /\ Len(replies) = 0 /\ 0 <= MaxReplies
    BY <1>2, <1>6
  <2>2. whole \in [Channels -> SUBSET (1..MaxReplies)]
    BY <1>2
  <2>3. AgentTypeOK
    BY <1>1, <1>2, <1>6, <2>1, <2>2 DEF AgentTypeOK, IInv
  <2> QED BY <1>2, <2>1, <2>3 DEF AgentTypes
<1>8. \A p \in 1..N : ChannelList[p] \in Channels
  BY AgentStreamAssumption DEF N
<1>9. Quiet
  BY <1>2, <1>3, <1>8 DEF Quiet, Over
<1> QED BY <1>1, <1>4, <1>5, <1>7, <1>9 DEF AgentInv, Dialogue

\* Whatever the producer does, the queue sees one of its own steps, or none.
LEMMA AgentNextIsQueueStep ==
    ASSUME AgentTypes, [AgentNext]_agentVars
    PROVE  QueueStep /\ issued' \in 0..MaxTasks
<1>0. issued \in 0..MaxTasks
  BY DEF AgentTypes, AgentTypeOK, TypeOK
<1>1. CASE SubmitNext
  <2>1. Head(todo) \in [chan : Channels, task : Tasks]
    <3> DEFINE S == [chan : Channels, task : Tasks]
    <3>1. todo \in Seq(S) /\ todo # <<>>
      BY <1>1 DEF SubmitNext, AgentTypes, AgentTypeOK
    <3> HIDE DEF S
    <3>2. Head(todo) \in S
      BY <3>1
    <3> QED BY <3>2 DEF S
  <2>2. Agent \in Submitters /\ Head(todo).chan \in Channels /\ Head(todo).task \in Tasks
    BY <2>1, AgentStreamAssumption
  <2>3. issued' = issued
    BY <1>1 DEF SubmitNext
  <2>4. Submit(Agent, Head(todo).chan, Head(todo).task) \/ UNCHANGED queueVars
    BY <1>1 DEF SubmitNext, queueVars
  <2> QED BY <1>0, <2>2, <2>3, <2>4 DEF QueueStep
<1>2. CASE AddJob(Agent)
  BY <1>0, <1>2, AgentStreamAssumption DEF AddJob, QueueStep
<1>3. CASE Ask \/ Chunk \/ (\E o \in Outcomes : Return(o))
  BY <1>0, <1>3 DEF Ask, Chunk, Return, vars, queueVars, threadVars, QueueStep
<1>4. ASSUME NEW w \in Workers, Thread(w)
      PROVE  QueueStep /\ issued' \in 0..MaxTasks
  BY <1>0, <1>4 DEF Thread, TakeJob, Pop, Drained, Process, Leave, QueueStep
<1>5. CASE UNCHANGED agentVars
  BY <1>0, <1>5 DEF agentVars, vars, queueVars, threadVars, QueueStep
<1> QED BY <1>1, <1>2, <1>3, <1>4, <1>5 DEF AgentNext, AgentThread

LEMMA AgentStep ==
    ASSUME AgentInv, [AgentNext]_agentVars
    PROVE  AgentInv'
<1>1. IInv /\ Flow /\ AgentTypes /\ Dialogue /\ Told
  BY DEF AgentInv
<1>2. QueueStep /\ issued' \in 0..MaxTasks
  BY <1>1, AgentNextIsQueueStep
<1>3. TypeOK' /\ IInv'
  BY <1>1, <1>2, TypeStep, HolderStep, MarkedStep DEF IInv
<1>4. Flow'
  BY <1>1, <1>2, FlowStep
<1>5. ASSUME UNCHANGED <<producerVars, submitted>>
      PROVE  AgentTypes' /\ Dialogue' /\ Told'
  <2>1. /\ asking' = asking /\ text' = text /\ active' = active /\ acc' = acc /\ sent' = sent
        /\ todo' = todo /\ replies' = replies /\ whole' = whole /\ submitted' = submitted
    BY <1>5 DEF producerVars
  <2>2. AgentTypes'
    BY <1>1, <1>3, <2>1 DEF AgentTypes, AgentTypeOK
  <2>3. Dialogue'
    BY <1>1, <2>1 DEF Dialogue, Quiet, Starting, Updating, Finishing, Ending, OnePass,
                      TwoPasses, Reply, Shown
  <2>4. Told'
    BY <1>1, <2>1 DEF Told
  <2> QED BY <2>2, <2>3, <2>4
<1>6. CASE SubmitNext
  <2>1. Dialogue' /\ Told'
    BY <1>1, <1>6, SubmitStep
  <2>2. UNCHANGED <<asking, text, active, acc, sent, replies, whole>> /\ todo' = Tail(todo)
        /\ todo # <<>>
    BY <1>6 DEF SubmitNext
  <2>3. AgentTypes'
    <3>1. todo' \in Seq([chan : Channels, task : Tasks])
      BY <1>1, <2>2 DEF AgentTypes, AgentTypeOK
    <3> QED BY <1>1, <1>3, <2>2, <3>1 DEF AgentTypes, AgentTypeOK
  <2> QED BY <1>3, <1>4, <2>1, <2>3 DEF AgentInv
<1>7. CASE AddJob(Agent) /\ UNCHANGED producerVars
  <2>1. UNCHANGED <<producerVars, submitted>>
    BY <1>7 DEF AddJob
  <2> QED BY <1>3, <1>4, <1>5, <2>1 DEF AgentInv
<1>8. CASE Ask
  BY <1>1, <1>3, <1>4, <1>8, AskStep DEF AgentInv
<1>9. CASE Chunk
  BY <1>1, <1>3, <1>4, <1>9, ChunkStep DEF AgentInv
<1>10. ASSUME NEW o \in Outcomes, Return(o) PROVE AgentInv'
  BY <1>1, <1>3, <1>4, <1>10, ReturnStep DEF AgentInv
<1>11. ASSUME NEW w \in Workers, Thread(w), UNCHANGED producerVars PROVE AgentInv'
  <2>1. UNCHANGED <<producerVars, submitted>>
    BY <1>11 DEF Thread, TakeJob, Pop, Drained, Process, Leave
  <2> QED BY <1>3, <1>4, <1>5, <2>1 DEF AgentInv
<1>12. CASE UNCHANGED agentVars
  <2>1. UNCHANGED <<producerVars, submitted>>
    BY <1>12 DEF agentVars, vars
  <2> QED BY <1>3, <1>4, <1>5, <2>1 DEF AgentInv
<1> QED BY <1>6, <1>7, <1>8, <1>9, <1>10, <1>11, <1>12 DEF AgentNext, AgentThread

LEMMA AgentInvariance == AgentSpec => []AgentInv
BY AgentInitInv, AgentStep, PTL DEF AgentSpec

\* What a channel was given is the beginning of what it was submitted.
LEMMA Given ==
    ASSUME AgentInv, NEW c \in Channels, NEW i \in 1..Len(delivered[c])
    PROVE  /\ delivered[c][i] \in Tasks /\ Follows(delivered[c], i, replies)
           /\ i # 1 => i - 1 \in 1..Len(delivered[c])
<1>1. TypeOK /\ Flow /\ Told
  BY DEF AgentInv, IInv
<1>2. /\ Popped(c) + Len(queue[c]) = Len(submitted[c]) /\ Popped(c) \in Nat
      /\ Len(queue[c]) \in Nat /\ Len(submitted[c]) \in Nat
      /\ Len(delivered[c]) \in Nat /\ Len(delivered[c]) <= Popped(c)
  BY <1>1, Lengths
<1>3. i \in 1..Len(submitted[c]) /\ (i # 1 => i - 1 \in 1..Len(delivered[c]))
  BY <1>2
<1>4. Follows(submitted[c], i, replies)
  BY <1>1, <1>3 DEF Told
<1>5. delivered[c][i] = submitted[c][i] /\ (i # 1 => delivered[c][i - 1] = submitted[c][i - 1])
  BY <1>1, <1>3 DEF Flow
<1>6. Follows(delivered[c], i, replies)
  <2>1. CASE i = 1
    BY <1>4, <1>5, <2>1 DEF Follows
  <2>2. CASE i # 1
    <3>1. delivered[c][i] = submitted[c][i] /\ delivered[c][i - 1] = submitted[c][i - 1]
      BY <1>5, <2>2
    <3> QED BY <1>4, <3>1 DEF Follows
  <2> QED BY <2>1, <2>2
<1>7. delivered[c][i] \in Tasks
  BY <1>1 DEF TypeOK
<1> QED BY <1>3, <1>6, <1>7

\* The callbacks of every channel see a dialogue they can follow (context.c's
\* stream_callback and end_stream_message through channels.c's queue): START,
\* UPDATEs with ever longer text, END, whatever the pool threads do.
THEOREM DialoguesAreWellFormed == AgentSpec => []WellFormedStream
<1>1. AgentInv => WellFormedStream
  <2> SUFFICES ASSUME AgentInv PROVE WellFormedStream
    OBVIOUS
  <2>1. AgentTypeOK
    BY DEF AgentInv, AgentTypes
  <2>2. ASSUME NEW c \in Channels, NEW i \in 1..Len(delivered[c])
        PROVE  LET t == delivered[c][i]
                   before == delivered[c][i - 1]
                   first == i = 1 \/ before.kind = "END"
               IN  CASE t.kind = "START" -> first
                     [] t.kind = "UPDATE" ->
                           /\ ~first
                           /\ t.content[1] = before.content[1]
                           /\ t.content[2] > before.content[2]
                     [] t.kind = "END" -> ~first /\ t.content[1] = before.content[1]
    <3>1. delivered[c][i].kind \in {"START", "UPDATE", "END"}
      BY Given DEF Tasks, Kinds
    <3>2. Follows(delivered[c], i, replies)
      BY Given
    <3> QED BY <3>1, <3>2 DEF Follows
  <2> QED BY <2>1, <2>2 DEF WellFormedStream
<1> QED BY AgentInvariance, <1>1, PTL

\* However the throttle cuts a reply up (context.c:127-255), its END follows
\* the longest text the callback accepted, at every channel.
THEOREM RestIsSentBeforeEnd == AgentSpec => []RestBeforeEnd
<1>1. AgentInv => RestBeforeEnd
  <2> SUFFICES ASSUME AgentInv, NEW c \in Channels, NEW i \in 2..Len(delivered[c]),
                      delivered[c][i].kind = "END"
               PROVE  LET before == delivered[c][i - 1].content
                      IN  before[2] = replies[before[1]].shown
    BY DEF RestBeforeEnd
  <2>1. Len(delivered[c]) \in Nat
    BY DEF AgentInv, IInv, TypeOK
  <2>2. i \in 1..Len(delivered[c])
    BY <2>1
  <2>3. Follows(delivered[c], i, replies)
    BY <2>2, Given
  <2> QED BY <2>3 DEF Follows
<1> QED BY AgentInvariance, <1>1, PTL
=============================================================================
