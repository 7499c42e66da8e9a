------------------------ MODULE FeishuChannel_proofs ------------------------
(***************************************************************************)
(* Proofs about FeishuChannel, for any events, chats, ring and bounds.     *)
(***************************************************************************)
EXTENDS FeishuChannel, FiniteSetTheorems, SequenceTheorems, TLAPS

Records == [card : Nat \ {0}, saved : Texts]
Jobs == [kind : Kinds, text : Texts]
Cards == [chat : Chats, answer : Nat, content : Texts, latest : Texts, open : BOOLEAN]

\* TypeOK by the part of the code that changes it.
ReceiverTypes ==
    /\ ring \in [0..CacheSize-1 -> Events \cup {None}]
    /\ ringIndex \in 0..CacheSize-1
    /\ receiveId \in Chats
    /\ at \in {"idle", "dispatch", "reply"}
    /\ event \in Events \cup {None}
    /\ original \in Chats \cup {None}
    /\ arrivals \in Seq([event : Events, accepted : BOOLEAN])
AgentTypes ==
    /\ inbox \in Seq([event : Events, arrival : Nat])
    /\ reply \in 0..Len(answers)
    /\ sent \in 0..MaxLength
    /\ answers \in Seq([event : Events \cup {None}, arrival : Nat])
TaskTypes ==
    /\ tasks \in Seq(Jobs)
    /\ job \in Jobs \cup {NoJob}
    /\ held \in Threads \cup {"none"}
    /\ bound \in Bounds /\ aborted \in BOOLEAN /\ overlap \in BOOLEAN
ContextTypes ==
    /\ ctx \in Threads \cup {"none"}
    /\ ctx # "none" => context[ctx] # None
    /\ context \in [Threads -> Contexts]
CallTypes ==
    /\ call \in [Threads -> Calls]
    /\ cards \in Seq(Cards)

\* The receiving thread knows the event it handles, and what it has to restore.
EventInHand ==
    /\ at # "idle" => event \in Events
    /\ at = "reply" => original \in Chats

\* A thread that creates a card knows for which chat.
TargetInHand == \A a \in Threads : call[a].at = "create" => call[a].to \in Chats

TypeInv == TypeOK /\ EventInHand /\ TargetInHand

LEMMA TypeParts ==
    /\ TypeOK <=> ReceiverTypes /\ AgentTypes /\ TaskTypes /\ ContextTypes /\ CallTypes
    /\ TypeOK' <=> ReceiverTypes' /\ AgentTypes' /\ TaskTypes' /\ ContextTypes' /\ CallTypes'
BY DEF TypeOK, ReceiverTypes, AgentTypes, TaskTypes, ContextTypes, CallTypes, Jobs, Cards

LEMMA RecordsAreThere == \A r \in Records : r # None
BY FeishuAssumption DEF Records, Texts

\* The context that is installed is written.
LEMMA ContextSaved ==
    ASSUME ContextTypes, ctx # "none", NEW text \in Texts,
           context' = [context EXCEPT ![ctx].saved = text], ctx' = ctx
    PROVE  ContextTypes'
<1>1. ctx \in Threads /\ context[ctx] \in Records /\ context \in [Threads -> Contexts]
  BY DEF ContextTypes, Contexts, Records
<1>2. [context[ctx] EXCEPT !.saved = text] \in Records
  BY <1>1 DEF Records
<1>3. context' = [context EXCEPT ![ctx] = [context[ctx] EXCEPT !.saved = text]]
  OBVIOUS
<1> QED BY <1>1, <1>2, <1>3, RecordsAreThere DEF Contexts, Records, ContextTypes

LEMMA TextTyped ==
    /\ Blank \in Texts /\ NoCall \in Calls
    /\ \A k \in Nat, n \in 0 .. MaxLength : Text(k, n) \in Texts
    /\ 1 \in 0 .. MaxLength
BY FeishuAssumption DEF Blank, Text, Texts, NoCall, Call, Calls

LEMMA TypeInit == Init => TypeInv
<1> SUFFICES ASSUME Init PROVE TypeInv
  OBVIOUS
<1> USE FeishuAssumption DEF Init
<1>1. ReceiverTypes
  BY DEF ReceiverTypes
<1>2. AgentTypes
  BY DEF AgentTypes
<1>3. TaskTypes
  <2>1. tasks \in Seq(Jobs) /\ bound \in Bounds
    OBVIOUS
  <2>2. job \in Jobs \cup {NoJob} /\ held \in Threads \cup {"none"}
    OBVIOUS
  <2>3. aborted \in BOOLEAN /\ overlap \in BOOLEAN
    OBVIOUS
  <2> QED BY <2>1, <2>2, <2>3 DEF TaskTypes
<1>4. ContextTypes
  BY DEF ContextTypes, Contexts
<1>5. CallTypes
  BY TextTyped DEF CallTypes
<1>6. EventInHand /\ TargetInHand
  BY DEF EventInHand, TargetInHand, NoCall, Call
<1> QED BY <1>1, <1>2, <1>3, <1>4, <1>5, <1>6, TypeParts DEF TypeInv

\* One step of each thread, part by part.
LEMMA ReceiverTypeStep ==
    ASSUME TypeInv, Receiver
    PROVE  TypeInv'
<1> USE FeishuAssumption
<1>1. EventInHand /\ ReceiverTypes /\ AgentTypes /\ TaskTypes /\ ContextTypes /\ CallTypes
  BY TypeParts DEF TypeInv
<1>2. UNCHANGED <<calls, cards, tasks, bound, aborted, overlap>>
  BY DEF Receiver, Arrive, Enqueue, SwapTarget, RestoreTarget
<1>3. TaskTypes' /\ ContextTypes' /\ CallTypes' /\ TargetInHand'
  BY <1>1, <1>2 DEF TaskTypes, ContextTypes, CallTypes, TargetInHand, TypeInv, calls
<1>4. ASSUME NEW e \in Events, Arrive(e)
      PROVE  ReceiverTypes' /\ AgentTypes' /\ EventInHand'
  <2>1. AgentTypes'
    BY <1>1, <1>4 DEF Arrive, AgentTypes, senders, agent
  <2>2. ReceiverTypes'
    <3>1. arrivals' \in Seq([event : Events, accepted : BOOLEAN])
      BY <1>1, <1>4 DEF Arrive, ReceiverTypes, Seen
    <3>2. ring' \in [0..CacheSize-1 -> Events \cup {None}]
      BY <1>1, <1>4 DEF Arrive, ReceiverTypes
    <3> (ringIndex + 1) % CacheSize \in 0..CacheSize-1
      BY <1>1 DEF ReceiverTypes
    <3>4. ringIndex' \in 0..CacheSize-1
      BY <1>1, <1>4 DEF Arrive, ReceiverTypes
    <3>3. /\ receiveId' \in Chats /\ at' \in {"idle", "dispatch", "reply"}
          /\ event' \in Events \cup {None} /\ original' \in Chats \cup {None}
      BY <1>1, <1>4 DEF Arrive, ReceiverTypes
    <3> QED BY <3>1, <3>2, <3>3, <3>4 DEF ReceiverTypes
  <2>3. EventInHand'
    BY <1>1, <1>4 DEF Arrive, EventInHand
  <2> QED BY <2>1, <2>2, <2>3
<1>5. ASSUME Enqueue
      PROVE  ReceiverTypes' /\ AgentTypes' /\ EventInHand'
  <2>1. event \in Events /\ Len(arrivals) \in Nat
    BY <1>1, <1>5 DEF Enqueue, ReceiverTypes, EventInHand
  <2> QED BY <2>1, <1>1, <1>5 DEF Enqueue, ReceiverTypes, AgentTypes, EventInHand
<1>6. ASSUME SwapTarget
      PROVE  ReceiverTypes' /\ AgentTypes' /\ EventInHand'
  BY <1>1, <1>6 DEF SwapTarget, ReceiverTypes, AgentTypes, EventInHand, senders, agent
<1>7. ASSUME RestoreTarget
      PROVE  ReceiverTypes' /\ AgentTypes' /\ EventInHand'
  BY <1>1, <1>7 DEF RestoreTarget, ReceiverTypes, AgentTypes, EventInHand, senders, agent
<1>8. ReceiverTypes' /\ AgentTypes' /\ EventInHand'
  BY <1>4, <1>5, <1>6, <1>7 DEF Receiver
<1> QED BY <1>3, <1>8, TypeParts DEF TypeInv

LEMMA AgentTypeStep ==
    ASSUME TypeInv, TakeMessage \/ Stream \/ EndAnswer \/ SendAnswer \/ SendNotice
    PROVE  TypeInv'
<1> USE FeishuAssumption
<1>1. EventInHand /\ TargetInHand /\ ReceiverTypes /\ AgentTypes /\ TaskTypes /\ ContextTypes /\ CallTypes
  BY TypeParts DEF TypeInv
<1>2. UNCHANGED <<receiver, ctx, context, job, held, cards, bound, aborted, overlap>>
  BY DEF TakeMessage, Stream, EndAnswer, SendAnswer, SendNotice, BeginSend, calls
<1>3. ReceiverTypes' /\ ContextTypes' /\ EventInHand'
  BY <1>1, <1>2 DEF ReceiverTypes, ContextTypes, EventInHand, receiver
<1>4. ASSUME NEW s \in Senders, NEW k \in Nat, BeginSend(s, k)
      PROVE  call' \in [Threads -> Calls] /\ tasks' = tasks /\ inbox' = inbox
             /\ reply' = reply /\ sent' = sent /\ TargetInHand'
  <2>1. Call("create", receiveId, 0, Text(k, 1)) \in Calls
    BY <1>1, TextTyped DEF Call, Calls, ReceiverTypes
  <2> QED BY <1>1, <1>4, <2>1 DEF BeginSend, CallTypes, ReceiverTypes, TargetInHand, Senders, Threads, Call
<1>5. CASE TakeMessage
  <2> DEFINE M == [event : Events, arrival : Nat]
             A == [event : Events \cup {None}, arrival : Nat]
  <2>1. inbox \in Seq(M) /\ inbox # <<>> /\ answers \in Seq(A)
    BY <1>1, <1>5 DEF TakeMessage, AgentTypes
  <2>2. Head(inbox) \in M /\ Tail(inbox) \in Seq(M)
    <3> HIDE DEF M
    <3> QED BY <2>1
  <2>3. Head(inbox) \in A
    BY <2>2
  <2>4. /\ Append(answers, Head(inbox)) \in Seq(A) /\ Len(answers) \in Nat
        /\ Len(Append(answers, Head(inbox))) = Len(answers) + 1
    <3> HIDE DEF A
    <3> QED BY <2>1, <2>3
  <2>5. AgentTypes'
    BY <1>1, <1>5, <2>2, <2>4 DEF TakeMessage, AgentTypes
  <2>6. TaskTypes' /\ CallTypes' /\ TargetInHand'
    BY <1>1, <1>2, <1>5 DEF TakeMessage, TaskTypes, CallTypes, TargetInHand, calls
  <2> QED BY <2>5, <2>6, <1>3, TypeParts DEF TypeInv
<1>6. Stream => reply \in Nat /\ Text(reply, sent + 1) \in Texts
  BY <1>1, TextTyped DEF Stream, AgentTypes
<1>7. CASE Stream
  <2>1. Task(IF sent = 0 THEN "START" ELSE "UPDATE", Text(reply, sent + 1)) \in Jobs
    BY <1>6, <1>7 DEF Task, Jobs, Kinds
  <2>2. TaskTypes' /\ AgentTypes' /\ CallTypes' /\ TargetInHand'
    BY <1>1, <1>2, <1>7, <2>1 DEF Stream, AgentTypes, TaskTypes, CallTypes, TargetInHand, calls
  <2> QED BY <2>2, <1>3, TypeParts DEF TypeInv
<1>8. CASE EndAnswer
  <2>1. Task("END", Blank) \in Jobs
    BY TextTyped DEF Task, Jobs, Kinds
  <2>2. TaskTypes' /\ AgentTypes' /\ CallTypes' /\ TargetInHand'
    BY <1>1, <1>2, <1>8, <2>1 DEF EndAnswer, AgentTypes, TaskTypes, CallTypes, TargetInHand, calls
  <2> QED BY <2>2, <1>3, TypeParts DEF TypeInv
<1>9. CASE SendAnswer
  <2>1. "agent" \in Senders /\ reply \in Nat /\ BeginSend("agent", reply)
    BY <1>1, <1>9 DEF SendAnswer, Senders, AgentTypes
  <2>2. TaskTypes' /\ AgentTypes' /\ CallTypes' /\ TargetInHand'
    BY <1>1, <1>2, <1>9, <2>1, <1>4 DEF SendAnswer, AgentTypes, TaskTypes, CallTypes
  <2> QED BY <2>2, <1>3, TypeParts DEF TypeInv
<1>10. CASE SendNotice
  <2>1. "notifier" \in Senders /\ Len(answers) + 1 \in Nat /\ BeginSend("notifier", Len(answers) + 1)
    BY <1>1, <1>10 DEF SendNotice, Senders, AgentTypes
  <2>2. TaskTypes' /\ CallTypes' /\ TargetInHand'
    BY <1>1, <1>2, <2>1, <1>4 DEF TaskTypes, CallTypes
  <2>3. AgentTypes'
    BY <1>1, <1>10, <2>1, <1>4 DEF SendNotice, AgentTypes
  <2> QED BY <2>2, <2>3, <1>3, TypeParts DEF TypeInv
<1> QED BY <1>5, <1>7, <1>8, <1>9, <1>10

LEMMA TaskTypeStep ==
    ASSUME TypeInv, TakeTask
    PROVE  TypeInv'
<1>1. EventInHand /\ TargetInHand /\ ReceiverTypes /\ AgentTypes /\ TaskTypes /\ ContextTypes /\ CallTypes
  BY TypeParts DEF TypeInv
<1>2. UNCHANGED <<receiver, senders, ctx, context, cards, aborted, bound>>
  BY DEF TakeTask
<1>3. ReceiverTypes' /\ AgentTypes' /\ ContextTypes' /\ EventInHand'
  BY <1>1, <1>2 DEF ReceiverTypes, AgentTypes, ContextTypes, EventInHand, receiver, senders, agent
<1>4. job' \in Jobs /\ tasks' \in Seq(Jobs)
  BY <1>1 DEF TakeTask, TaskTypes
<1>5. overlap' \in BOOLEAN
  BY <1>1 DEF TakeTask, TaskTypes
<1>6. TaskTypes'
  BY <1>1, <1>2, <1>4, <1>5 DEF TakeTask, TaskTypes, ContextTypes
<1>7. ctx # "none" => context[ctx].card \in Nat
  BY <1>1 DEF ContextTypes, Contexts
<1>8. receiveId \in Chats /\ job'.text \in Texts /\ job'.kind \in Kinds
  BY <1>1, <1>4 DEF ReceiverTypes, Jobs
<1>9. StartCallback \in Calls /\ UpdateCallback \in Calls /\ EndCallback \in Calls
  BY <1>7, <1>8, TextTyped DEF StartCallback, UpdateCallback, EndCallback, Call, Calls
<1>10. CallTypes'
  BY <1>1, <1>2, <1>8, <1>9 DEF TakeTask, CallTypes, Kinds
<1>11. TargetInHand'
  BY <1>1, <1>8 DEF TakeTask, CallTypes, TargetInHand, Kinds, StartCallback, UpdateCallback,
                    EndCallback, NoCall, Call
<1> QED BY <1>3, <1>6, <1>10, <1>11, TypeParts DEF TypeInv

\* Changing a field of one card.
LEMMA CardWritten ==
    ASSUME NEW i \in Nat, NEW r, NEW list \in Seq(Cards), list[i] \in Cards => r \in Cards
    PROVE  [list EXCEPT ![i] = r] \in Seq(Cards)
<1>1. CASE i \in DOMAIN list
  BY <1>1
<1>2. CASE i \notin DOMAIN list
  <2>1. [list EXCEPT ![i] = r] = list
    BY <1>2
  <2> QED BY <2>1
<1> QED BY <1>1, <1>2

\* What a thread does next is typed when its call is.
LEMMA AfterUpdateTyped ==
    ASSUME TypeOK, NEW a \in Threads, call[a].at # "idle"
    PROVE  AfterUpdate(a) \in Calls
<1>1. call[a] \in Calls /\ MaxLength \in Nat /\ call[a].text.length \in 0 .. MaxLength
  BY FeishuAssumption DEF TypeOK, Calls, Texts
<1>2. CASE a = "pool"
  BY <1>2, TextTyped DEF AfterUpdate
<1>3. CASE a # "pool" /\ call[a].text.length < MaxLength
  <2>1. [call[a].text EXCEPT !.length = @ + 1] \in Texts
    BY <1>1, <1>3 DEF Calls, Texts
  <2>2. AfterUpdate(a) = [call[a] EXCEPT !.at = "update",
                                         !.text = [call[a].text EXCEPT !.length = @ + 1]]
    BY <1>1, <1>3 DEF AfterUpdate, Calls
  <2> QED BY <2>1, <2>2, <1>1 DEF Calls
<1>4. CASE a # "pool" /\ ~(call[a].text.length < MaxLength)
  BY <1>1, <1>4 DEF AfterUpdate, Calls
<1> QED BY <1>2, <1>3, <1>4

LEMMA RequestTypeStep ==
    ASSUME TypeInv, NEW a \in Threads, Requests(a)
    PROVE  TypeInv'
<1>1. EventInHand /\ TargetInHand /\ ReceiverTypes /\ AgentTypes /\ TaskTypes /\ ContextTypes /\ CallTypes
  BY TypeParts DEF TypeInv
<1>2. UNCHANGED <<receiver, inbox, sent, answers, tasks, job, held, aborted, bound>>
  BY DEF Requests, CreateCard, FailToCreate, Save, Patch, FailToUpdate, ReadFinal, Seal,
         FailToFinish, senders, agent
<1>3. /\ ReceiverTypes' /\ EventInHand'
      /\ reply' \in {reply, 0} /\ overlap' \in BOOLEAN
  BY <1>1, <1>2
  DEF Requests, CreateCard, FailToCreate, Save, Patch, FailToUpdate, ReadFinal, Seal,
      FailToFinish, senders, agent, ReceiverTypes, EventInHand, receiver, TaskTypes
<1>4. AgentTypes' /\ TaskTypes'
  BY <1>1, <1>2, <1>3 DEF AgentTypes, TaskTypes
<1> SUFFICES CallTypes' /\ ContextTypes' /\ TargetInHand'
  BY <1>3, <1>4, TypeParts DEF TypeInv
<1>5. /\ call[a] \in Calls /\ receiveId \in Chats
      /\ call[a].at = "create" => call[a].to \in Chats
      /\ call \in [Threads -> Calls] /\ cards \in Seq(Cards)
      /\ ctx # "none" => context[ctx] \in Records
      /\ AfterUpdate(a) \in Calls \/ call[a].at = "idle"
  BY <1>1, TypeParts, AfterUpdateTyped
  DEF CallTypes, ContextTypes, Contexts, Records, ReceiverTypes, TypeInv, TargetInHand
<1>6. CASE CreateCard(a)
  <2>1. PICK chat \in {call[a].to, receiveId} : cards' = Append(cards, NewCard(chat, call[a].text.answer))
    BY <1>6 DEF CreateCard
  <2>2. Len(cards') \in Nat \ {0}
    BY <2>1, <1>5
  <2>3. NewCard(chat, call[a].text.answer) \in Cards
    BY <1>5, <1>6, TextTyped DEF CreateCard, NewCard, Cards, Calls, Texts
  <2>4. cards' \in Seq(Cards)
    BY <2>1, <2>3, <1>5
  <2>5. [card |-> Len(cards'), saved |-> Blank] \in Records
    BY <2>2, TextTyped DEF Records
  <2>6. ContextTypes'
    BY <1>1, <1>6, <2>5, RecordsAreThere DEF CreateCard, ContextTypes, Contexts, Records
  <2>7. CallTypes' /\ TargetInHand'
    BY <1>1, <1>5, <1>6, <2>2, <2>4 DEF CreateCard, CallTypes, Calls, TargetInHand
  <2> QED BY <2>6, <2>7
<1>7. CASE FailToCreate(a)
  BY <1>1, <1>7, TextTyped
  DEF FailToCreate, CallTypes, ContextTypes, TargetInHand, NoCall, Call
<1>8. CASE Save(a)
  <2>1. call[a].text \in Texts
    BY <1>5 DEF Calls
  <2>2. ContextTypes'
    <3>1. CASE ctx = "none"
      BY <1>1, <1>8, <3>1 DEF Save, ContextTypes
    <3>2. CASE ctx # "none"
      BY <1>1, <1>8, <3>2, <2>1, ContextSaved DEF Save
    <3> QED BY <3>1, <3>2
  <2>3. cards' \in Seq(Cards)
    <3> DEFINE i == call[a].card
    <3>1. i \in Nat /\ call[a].text \in Texts
      BY <1>5 DEF Calls
    <3>2. cards[i] \in Cards => [cards[i] EXCEPT !.latest = call[a].text] \in Cards
      BY <3>1 DEF Cards
    <3>3. cards' = [cards EXCEPT ![i] = [cards[i] EXCEPT !.latest = call[a].text]]
      BY <1>8 DEF Save
    <3> QED BY <1>5, <3>1, <3>2, <3>3, CardWritten
  <2>4. CallTypes' /\ TargetInHand'
    BY <1>1, <1>5, <1>8, <2>3 DEF Save, CallTypes, Calls, TargetInHand
  <2> QED BY <2>2, <2>4
<1>9. CASE Patch(a)
  <2>1. cards' \in Seq(Cards)
    <3> DEFINE i == call[a].card
    <3>1. i \in Nat /\ call[a].text \in Texts
      BY <1>5 DEF Calls
    <3>2. cards[i] \in Cards => [cards[i] EXCEPT !.content = call[a].text, !.open = TRUE] \in Cards
      BY <3>1 DEF Cards
    <3>3. cards' = [cards EXCEPT ![i] = [cards[i] EXCEPT !.content = call[a].text, !.open = TRUE]]
      BY <1>9 DEF Patch
    <3> QED BY <1>5, <3>1, <3>2, <3>3, CardWritten
  <2>2. CallTypes'
    BY <1>1, <1>5, <1>9, <2>1 DEF Patch, CallTypes
  <2>3. TargetInHand'
    BY <1>1, <1>5, <1>9 DEF Patch, CallTypes, TargetInHand, AfterUpdate, NoCall, Call, Calls
  <2> QED BY <1>1, <1>9, <2>2, <2>3 DEF Patch, ContextTypes
<1>10. CASE FailToUpdate(a)
  <2>2. CallTypes'
    BY <1>1, <1>5, <1>10 DEF FailToUpdate, CallTypes
  <2>3. TargetInHand'
    BY <1>1, <1>5, <1>10 DEF FailToUpdate, CallTypes, TargetInHand, AfterUpdate, NoCall, Call, Calls
  <2> QED BY <1>1, <1>10, <2>2, <2>3 DEF FailToUpdate, ContextTypes
<1>11. CASE ReadFinal(a)
  BY <1>1, <1>5, <1>11, TextTyped
  DEF ReadFinal, CallTypes, Calls, ContextTypes, TargetInHand, Records
<1>12. CASE Seal(a)
  <2>1. cards' \in Seq(Cards)
    <3> DEFINE i == call[a].card
    <3>1. i \in Nat /\ call[a].text \in Texts
      BY <1>5 DEF Calls
    <3>2. cards[i] \in Cards => [cards[i] EXCEPT !.content = call[a].text, !.open = FALSE] \in Cards
      BY <3>1 DEF Cards
    <3>3. cards' = [cards EXCEPT ![i] = [cards[i] EXCEPT !.content = call[a].text, !.open = FALSE]]
      BY <1>12 DEF Seal
    <3> QED BY <1>5, <3>1, <3>2, <3>3, CardWritten
  <2>2. CallTypes'
    BY <1>1, <1>5, <1>12, <2>1 DEF Seal, CallTypes, Calls
  <2> QED BY <1>1, <1>5, <1>12, <2>2 DEF Seal, ContextTypes, CallTypes, TargetInHand
<1>13. CASE FailToFinish(a)
  BY <1>1, <1>5, <1>13 DEF FailToFinish, CallTypes, Calls, ContextTypes, TargetInHand
<1> QED BY <1>6, <1>7, <1>8, <1>9, <1>10, <1>11, <1>12, <1>13 DEF Requests

LEMMA ReturnTypeStep ==
    ASSUME TypeInv, (\E s \in Senders : ReturnFromSend(s)) \/ FreeContext
    PROVE  TypeInv'
<1>1. EventInHand /\ TargetInHand /\ ReceiverTypes /\ AgentTypes /\ TaskTypes /\ ContextTypes /\ CallTypes
  BY TypeParts DEF TypeInv
<1>2. ASSUME NEW s \in Senders, ReturnFromSend(s)
      PROVE  TypeInv'
  <2>1. ReceiverTypes' /\ EventInHand' /\ TaskTypes'
    BY <1>1, <1>2 DEF ReturnFromSend, ReceiverTypes, EventInHand, TaskTypes, receiver
  <2>2. AgentTypes'
    BY <1>1, <1>2 DEF ReturnFromSend, AgentTypes
  <2>3. ContextTypes' /\ CallTypes' /\ TargetInHand'
    BY <1>1, <1>2, TextTyped
    DEF ReturnFromSend, ContextTypes, Contexts, CallTypes, TargetInHand, NoCall, Call
  <2> QED BY <2>1, <2>2, <2>3, TypeParts DEF TypeInv
<1>3. ASSUME FreeContext
      PROVE  TypeInv'
  <2>1. ReceiverTypes' /\ EventInHand' /\ AgentTypes'
    BY <1>1, <1>3 DEF FreeContext, ReceiverTypes, EventInHand, AgentTypes, receiver, senders, agent
  <2>2. TaskTypes' /\ ContextTypes'
    <3>1. aborted' \in BOOLEAN
      BY <1>3 DEF FreeContext
    <3>2. TaskTypes'
      BY <1>1, <1>3, <3>1 DEF FreeContext, TaskTypes
    <3>3. ContextTypes'
      BY <1>1, <1>3 DEF FreeContext, ContextTypes, Contexts
    <3> QED BY <3>2, <3>3
  <2>3. job.kind = "START" => Call("create", receiveId, 0, job.text) \in Calls
    BY <1>1, TextTyped DEF TaskTypes, ReceiverTypes, Jobs, Call, Calls, NoJob, Task
  <2>4. CallTypes' /\ TargetInHand'
    BY <1>1, <1>3, <2>3, TextTyped
    DEF FreeContext, CallTypes, TargetInHand, ReceiverTypes, NoCall, Call
  <2> QED BY <2>1, <2>2, <2>4, TypeParts DEF TypeInv
<1> QED BY <1>2, <1>3

LEMMA TypeStep == TypeInv /\ [Next]_vars => TypeInv'
<1>1. ASSUME TypeInv, UNCHANGED vars
      PROVE  TypeInv'
  BY <1>1 DEF vars, receiver, senders, agent, calls, TypeInv, TypeOK, EventInHand, TargetInHand
<1> QED BY <1>1, ReceiverTypeStep, AgentTypeStep, TaskTypeStep, RequestTypeStep, ReturnTypeStep
        DEF Next

-----------------------------------------------------------------------------
(* free() of a context on a sender's stack.                                 *)

\* The installed context is a sender's only while that sender is sending; a
\* callback that saw one ran beside it.
OverlapInv ==
    /\ TypeInv
    /\ ctx \in Senders => overlap \/ call[ctx].at \notin {"idle", "create"}
    /\ held \in Senders => overlap
    /\ aborted => overlap

LEMMA OverlapStep == OverlapInv /\ [Next]_vars => OverlapInv'
<1> SUFFICES ASSUME OverlapInv, [Next]_vars, TypeInv'
             PROVE  OverlapInv'
  BY TypeStep DEF OverlapInv
<1>1. /\ call \in [Threads -> Calls] /\ overlap \in BOOLEAN /\ overlap' \in BOOLEAN
      /\ Threads = Senders \cup {"pool"} /\ "pool" \notin Senders
  BY DEF OverlapInv, TypeInv, TypeOK, Threads, Senders
<1>2. NoCall.at = "idle"
  BY DEF NoCall, Call
<1>3. CASE UNCHANGED vars
  BY <1>3 DEF vars, calls, OverlapInv
<1>4. CASE Receiver \/ TakeMessage \/ Stream \/ EndAnswer
  <2>1. UNCHANGED <<calls, aborted, overlap>>
    BY <1>4 DEF Receiver, Arrive, Enqueue, SwapTarget, RestoreTarget, TakeMessage, Stream,
                EndAnswer
  <2> QED BY <2>1 DEF calls, OverlapInv
<1>5. CASE SendAnswer \/ SendNotice
  <2>1. PICK s \in Senders, k \in Nat : BeginSend(s, k)
    <3>1. SendAnswer => "agent" \in Senders /\ reply \in Nat /\ BeginSend("agent", reply)
      BY DEF SendAnswer, Senders, OverlapInv, TypeInv, TypeOK
    <3>2. SendNotice => /\ "notifier" \in Senders /\ Len(answers) + 1 \in Nat
                        /\ BeginSend("notifier", Len(answers) + 1)
      BY DEF SendNotice, Senders, OverlapInv, TypeInv, TypeOK
    <3> QED BY <1>5, <3>1, <3>2
  <2>2. \A b \in Senders : b # s => call'[b] = call[b]
    BY <1>1, <2>1 DEF BeginSend
  <2> QED BY <1>1, <1>2, <2>1, <2>2 DEF BeginSend, OverlapInv
<1>6. CASE TakeTask
  <2>1. ctx \in Senders => overlap'
    BY <1>1, <1>6 DEF TakeTask, OverlapInv
  <2>2. overlap => overlap'
    BY <1>6 DEF TakeTask
  <2>3. held' = ctx /\ ctx' = ctx /\ aborted' = aborted
    BY <1>6 DEF TakeTask
  <2> QED BY <2>1, <2>2, <2>3 DEF OverlapInv
<1>7. ASSUME NEW a \in Threads, Requests(a)
      PROVE  OverlapInv'
  <2>1. (overlap => overlap') /\ held' = held /\ aborted' = aborted
    <3>1. UNCHANGED <<held, aborted>>
      BY <1>7 DEF Requests, CreateCard, FailToCreate, Save, Patch, FailToUpdate, ReadFinal,
                  Seal, FailToFinish
    <3>2. overlap' = overlap \/ overlap' = (overlap \/ Occupied(a))
      BY <1>7 DEF Requests, CreateCard, FailToCreate, Save, Patch, FailToUpdate, ReadFinal,
                  Seal, FailToFinish
    <3>3. overlap => overlap'
      BY <3>2
    <3> QED BY <3>1, <3>3
  <2>2. \A b \in Threads : b # a => call'[b] = call[b]
    BY <1>1, <1>7 DEF Requests, CreateCard, FailToCreate, Save, Patch, FailToUpdate,
                      ReadFinal, Seal, FailToFinish
  <2>3. ctx' = ctx \/ (ctx' = a /\ call'[a].at = "update")
    BY <1>1, <1>7 DEF Requests, CreateCard, FailToCreate, Save, Patch, FailToUpdate,
                      ReadFinal, Seal, FailToFinish, Calls
  <2>4. a \in Senders /\ call[a].at # "create" => call'[a].at \notin {"idle", "create"}
    <3> SUFFICES ASSUME a \in Senders, call[a].at # "create"
                 PROVE  call'[a].at \notin {"idle", "create"}
      OBVIOUS
    <3>1. call[a] \in Calls /\ a # "pool"
      BY <1>1
    <3>2. AfterUpdate(a).at \in {"update", "finish"}
      BY <3>1 DEF AfterUpdate, Calls
    <3>3. CASE Patch(a) \/ FailToUpdate(a)
      BY <1>1, <3>2, <3>3 DEF Patch, FailToUpdate
    <3>4. CASE Save(a) \/ ReadFinal(a) \/ Seal(a) \/ FailToFinish(a)
      BY <1>1, <3>1, <3>4 DEF Save, ReadFinal, Seal, FailToFinish, Calls
    <3> QED BY <1>7, <3>3, <3>4 DEF Requests, CreateCard, FailToCreate
  <2> QED BY <2>1, <2>2, <2>3, <2>4, <1>1 DEF OverlapInv
<1>8. ASSUME NEW s \in Senders, ReturnFromSend(s)
      PROVE  OverlapInv'
  BY <1>8 DEF ReturnFromSend, OverlapInv, Senders
<1>9. CASE FreeContext
  BY <1>9 DEF FreeContext, OverlapInv, Senders
<1> QED BY <1>3, <1>4, <1>5, <1>6, <1>7, <1>8, <1>9 DEF Next

\* A callback frees a context on a sender's stack, and with it ends the program,
\* only if it ran while that sender was inside feishu_stream_send; stream_ctx
\* never names a context that is gone (feishu.c:435, :501, :1557).
THEOREM AbortNeedsOverlap == Spec => []AbortsOnlyByOverlap
<1>1. Init => OverlapInv
  BY TypeInit DEF Init, OverlapInv, Senders
<1>2. OverlapInv => AbortsOnlyByOverlap
  BY DEF OverlapInv, TypeInv, AbortsOnlyByOverlap
<1> QED BY <1>1, <1>2, OverlapStep, PTL DEF Spec

-----------------------------------------------------------------------------
(* The target of replies.                                                   *)

\* An event for the chat was accepted after the n-th delivery.
AcceptedAfter(n, chat, list) ==
    \E j \in (n + 1) .. Len(list) : list[j].accepted /\ ChatOf[list[j].event] = chat

\* A card for the message may be sent to the chat.
Fits(message, chat, list) ==
    message.event # None /\ chat # ChatOf[message.event]
        => AcceptedAfter(message.arrival, chat, list)

Delivered(message, list) ==
    /\ message.arrival \in 1 .. Len(list)
    /\ list[message.arrival] = [event |-> message.event, accepted |-> TRUE]

\* receive_id is the chat of the event accepted last, which the receiving
\* thread has in hand until it returns.
TargetState ==
    /\ \A j \in 1 .. Len(arrivals) : arrivals[j].accepted =>
          receiveId = ChatOf[arrivals[j].event] \/ AcceptedAfter(j, receiveId, arrivals)
    /\ at # "idle" => /\ Delivered([event |-> event, arrival |-> Len(arrivals)], arrivals)
                      /\ receiveId = ChatOf[event]
    /\ at = "reply" => original = receiveId

\* What the agent takes was delivered.
MessageState ==
    /\ \A i \in DOMAIN inbox : Delivered(inbox[i], arrivals)
    /\ \A k \in DOMAIN answers : answers[k].event # None => Delivered(answers[k], arrivals)

Answers == 1 .. Len(answers)

\* Tasks and calls are about answers there are, and go where these may go.
AnswerState ==
    /\ \A i \in DOMAIN tasks : tasks[i].kind = "START" => tasks[i].text.answer \in Answers
    /\ job.kind = "START" => job.text.answer \in Answers
    /\ \A a \in Threads : call[a].at = "create" =>
          /\ call[a].text.answer \in Answers
          /\ Fits(answers[call[a].text.answer], call[a].to, arrivals)
    /\ \A i \in DOMAIN cards :
          cards[i].answer \in Answers /\ Fits(answers[cards[i].answer], cards[i].chat, arrivals)

TargetInv == TypeInv /\ TargetState /\ MessageState /\ AnswerState

LEMMA ArrivalTyped ==
    ASSUME TypeInv
    PROVE  \A k \in Answers : answers[k].arrival \in Nat
<1> DEFINE A == [event : Events \cup {None}, arrival : Nat]
<1>1. answers \in Seq(A)
  BY DEF TypeInv, TypeOK
<1>2. \A k \in Answers : answers[k] \in A
  <2> HIDE DEF A
  <2> QED BY <1>1 DEF Answers
<1> QED BY <1>2

\* The target fits every answer.
LEMMA TargetFits ==
    ASSUME TargetInv
    PROVE  \A k \in Answers : Fits(answers[k], receiveId, arrivals)
<1> SUFFICES ASSUME NEW k \in Answers, answers[k].event # None,
                    receiveId # ChatOf[answers[k].event]
             PROVE  AcceptedAfter(answers[k].arrival, receiveId, arrivals)
  BY DEF Fits
<1> DEFINE n == answers[k].arrival
<1>1. Delivered(answers[k], arrivals)
  BY DEF TargetInv, MessageState, Answers, TypeInv, TypeOK
<1>2. n \in 1 .. Len(arrivals) /\ arrivals[n].accepted /\ arrivals[n].event = answers[k].event
  BY <1>1 DEF Delivered
<1> QED BY <1>2 DEF TargetInv, TargetState

\* What fits still fits after one more delivery, and what was delivered is.
LEMMA OneMoreDelivery ==
    ASSUME NEW R, NEW list \in Seq(R), NEW r \in R
    PROVE  LET longer == Append(list, r)
           IN  /\ \A n \in Nat : \A chat : AcceptedAfter(n, chat, list) => AcceptedAfter(n, chat, longer)
               /\ \A m, chat : m.arrival \in Nat /\ Fits(m, chat, list) => Fits(m, chat, longer)
               /\ \A m : Delivered(m, list) => Delivered(m, longer)
<1> DEFINE longer == Append(list, r)
<1>1. /\ Len(list) \in Nat /\ Len(longer) = Len(list) + 1
      /\ \A i \in 1 .. Len(list) : longer[i] = list[i]
  OBVIOUS
<1> HIDE DEF longer
<1>2. \A n \in Nat : \A chat : AcceptedAfter(n, chat, list) => AcceptedAfter(n, chat, longer)
  BY <1>1 DEF AcceptedAfter
<1>3. \A m, chat : m.arrival \in Nat /\ Fits(m, chat, list) => Fits(m, chat, longer)
  BY <1>2 DEF Fits
<1>4. \A m : Delivered(m, list) => Delivered(m, longer)
  BY <1>1 DEF Delivered
<1> QED BY <1>2, <1>3, <1>4 DEF longer

LEMMA TargetReceiverStep ==
    ASSUME TargetInv, TypeInv', Receiver
    PROVE  TargetInv'
<1> USE FeishuAssumption
<1>1. /\ arrivals \in Seq([event : Events, accepted : BOOLEAN]) /\ Len(arrivals) \in Nat
      /\ inbox \in Seq([event : Events, arrival : Nat])
      /\ answers \in Seq([event : Events \cup {None}, arrival : Nat])
      /\ receiveId \in Chats /\ event \in Events \cup {None}
  BY DEF TargetInv, TypeInv, TypeOK
<1>2. /\ call' = call /\ job' = job /\ cards' = cards /\ tasks' = tasks /\ answers' = answers
  BY DEF Receiver, Arrive, Enqueue, SwapTarget, RestoreTarget, calls, senders
<1>3. ASSUME NEW e \in Events, Arrive(e)
      PROVE  TargetInv'
  <2> DEFINE r == [event |-> e, accepted |-> ~Seen(e)]
  <2>1. /\ arrivals' = Append(arrivals, r) /\ r \in [event : Events, accepted : BOOLEAN]
        /\ inbox' = inbox /\ original' = original /\ at = "idle"
    BY <1>3 DEF Arrive, senders, agent
  <2>2. /\ \A n \in Nat : \A chat : AcceptedAfter(n, chat, arrivals) => AcceptedAfter(n, chat, arrivals')
        /\ \A m, chat : m.arrival \in Nat /\ Fits(m, chat, arrivals) => Fits(m, chat, arrivals')
        /\ \A m : Delivered(m, arrivals) => Delivered(m, arrivals')
    BY <1>1, <2>1, OneMoreDelivery
  <2>3. /\ Len(arrivals') = Len(arrivals) + 1 /\ arrivals'[Len(arrivals')] = r
        /\ \A j \in 1 .. Len(arrivals) : arrivals'[j] = arrivals[j]
    BY <1>1, <2>1
  <2>4. MessageState' /\ AnswerState'
    <3>1. MessageState'
      BY <1>2, <2>1, <2>2 DEF TargetInv, MessageState
    <3>2. \A k \in Answers : \A chat :
             Fits(answers[k], chat, arrivals) => Fits(answers[k], chat, arrivals')
      <4>1. \A k \in Answers : answers[k].arrival \in Nat
        BY ArrivalTyped DEF TargetInv
      <4> QED BY <4>1, <2>2
    <3>3. AnswerState'
      BY <1>2, <3>2 DEF TargetInv, AnswerState, Answers
    <3> QED BY <3>1, <3>3
  <2>5. CASE Seen(e)
    <3>1. UNCHANGED <<receiveId, at, event>>
      BY <1>3, <2>5 DEF Arrive
    <3>2. r = [event |-> e, accepted |-> FALSE]
      BY <2>5
    <3>3. \A j \in 1 .. Len(arrivals') : arrivals'[j].accepted => j \in 1 .. Len(arrivals)
      <4> HIDE DEF r
      <4>1. r.accepted = FALSE
        BY <3>2
      <4>2. arrivals'[Len(arrivals) + 1].accepted = FALSE
        BY <4>1, <2>3
      <4>3. \A j \in 1 .. Len(arrivals') : j \in 1 .. Len(arrivals) \/ j = Len(arrivals) + 1
        BY <1>1, <2>3
      <4> QED BY <4>2, <4>3
    <3>4. ASSUME NEW j \in 1 .. Len(arrivals'), arrivals'[j].accepted
          PROVE  receiveId' = ChatOf[arrivals'[j].event] \/ AcceptedAfter(j, receiveId', arrivals')
      <4>1. j \in 1 .. Len(arrivals) /\ arrivals'[j] = arrivals[j] /\ j \in Nat
        BY <1>1, <2>3, <3>3, <3>4
      <4>2. receiveId = ChatOf[arrivals[j].event] \/ AcceptedAfter(j, receiveId, arrivals)
        BY <3>4, <4>1 DEF TargetInv, TargetState
      <4> QED BY <2>2, <3>1, <4>1, <4>2
    <3>5. TargetState'
      BY <2>1, <3>1, <3>4 DEF TargetState
    <3> QED BY <2>4, <3>5 DEF TargetInv
  <2>6. CASE ~Seen(e)
    <3>1. /\ receiveId' = ChatOf[e] /\ at' = "dispatch" /\ event' = e
          /\ r = [event |-> e, accepted |-> TRUE]
      BY <1>3, <2>6 DEF Arrive
    <3>2. \A j \in 1 .. Len(arrivals) : AcceptedAfter(j, receiveId', arrivals')
      BY <1>1, <2>3, <3>1 DEF AcceptedAfter
    <3>3. Delivered([event |-> event', arrival |-> Len(arrivals')], arrivals')
      BY <1>1, <2>3, <2>6, <3>1 DEF Delivered
    <3>4. TargetState'
      BY <1>1, <2>3, <3>1, <3>2, <3>3 DEF TargetState
    <3> QED BY <2>4, <3>4 DEF TargetInv
  <2> QED BY <2>5, <2>6
<1>4. CASE Enqueue
  <2>1. Delivered([event |-> event, arrival |-> Len(arrivals)], arrivals)
    BY <1>4 DEF Enqueue, TargetInv, TargetState
  <2>2. \A i \in DOMAIN inbox' :
          inbox'[i] = [event |-> event, arrival |-> Len(arrivals)] \/ (i \in DOMAIN inbox /\ inbox'[i] = inbox[i])
    BY <1>1, <1>4 DEF Enqueue
  <2>3. UNCHANGED <<arrivals, receiveId, original>> /\ at' = "idle"
    BY <1>4 DEF Enqueue
  <2> QED BY <1>2, <2>1, <2>2, <2>3 DEF TargetInv, TargetState, MessageState, AnswerState, Answers
<1>5. CASE SwapTarget
  <2>1. UNCHANGED <<arrivals, inbox, event, receiveId>> /\ at' = "reply" /\ original' = receiveId
    BY <1>5 DEF SwapTarget, senders, agent, TargetInv, TargetState
  <2>2. at # "idle"
    BY <1>5 DEF SwapTarget
  <2> QED BY <1>2, <2>1, <2>2 DEF TargetInv, TargetState, MessageState, AnswerState, Answers
<1>6. CASE RestoreTarget
  <2>1. UNCHANGED <<arrivals, inbox, receiveId>> /\ at' = "idle"
    BY <1>6 DEF RestoreTarget, senders, agent, TargetInv, TargetState
  <2> QED BY <1>2, <2>1 DEF TargetInv, TargetState, MessageState, AnswerState, Answers
<1> QED BY <1>3, <1>4, <1>5, <1>6 DEF Receiver

LEMMA TargetAgentStep ==
    ASSUME TargetInv, TypeInv', TakeMessage \/ Stream \/ EndAnswer \/ SendAnswer \/ SendNotice
    PROVE  TargetInv'
<1>1. /\ inbox \in Seq([event : Events, arrival : Nat])
      /\ answers \in Seq([event : Events \cup {None}, arrival : Nat])
      /\ tasks \in Seq(Jobs) /\ call \in [Threads -> Calls] /\ reply \in 0 .. Len(answers)
      /\ Len(answers) \in Nat
  BY DEF TargetInv, TypeInv, TypeOK, Jobs
<1>2. UNCHANGED <<receiver, job, cards>>
  BY DEF TakeMessage, Stream, EndAnswer, SendAnswer, SendNotice, BeginSend, calls
<1>3. TargetState'
  BY <1>2 DEF receiver, TargetInv, TargetState
<1>4. ASSUME NEW a, answers' = Append(answers, a), a.event # None => Delivered(a, arrivals)
      PROVE  /\ Len(answers') = Len(answers) + 1 /\ answers'[Len(answers) + 1] = a
             /\ Answers \subseteq Answers' /\ Len(answers) + 1 \in Answers'
             /\ \A k \in Answers : answers'[k] = answers[k]
             /\ \A k \in DOMAIN answers' : answers'[k].event # None => Delivered(answers'[k], arrivals)
  BY <1>1, <1>4 DEF Answers, TargetInv, MessageState
<1>5. CASE TakeMessage
  <2>1. Delivered(Head(inbox), arrivals) /\ \A i \in DOMAIN Tail(inbox) : Delivered(Tail(inbox)[i], arrivals)
    BY <1>1, <1>5 DEF TakeMessage, TargetInv, MessageState
  <2>2. answers' = Append(answers, Head(inbox)) /\ inbox' = Tail(inbox)
        /\ UNCHANGED <<tasks, call>>
    BY <1>5 DEF TakeMessage, calls
  <2>3. MessageState'
    BY <1>2, <1>4, <2>1, <2>2 DEF MessageState, receiver
  <2>4. AnswerState'
    BY <1>2, <1>4, <2>1, <2>2 DEF TargetInv, AnswerState, receiver
  <2> QED BY <1>3, <2>3, <2>4 DEF TargetInv
<1>6. CASE Stream \/ EndAnswer
  <2>1. UNCHANGED <<answers, inbox, call>>
    BY <1>6 DEF Stream, EndAnswer, calls
  <2>2. \A i \in DOMAIN tasks' : tasks'[i].kind = "START" =>
            (tasks'[i].text.answer = reply /\ reply # 0) \/ (i \in DOMAIN tasks /\ tasks'[i] = tasks[i])
    <3>1. ASSUME NEW task, tasks' = Append(tasks, task),
                 task.kind = "START" => task.text.answer = reply /\ reply # 0
          PROVE  \A i \in DOMAIN tasks' : tasks'[i].kind = "START" =>
                    (tasks'[i].text.answer = reply /\ reply # 0) \/ (i \in DOMAIN tasks /\ tasks'[i] = tasks[i])
      BY <1>1, <3>1
    <3>2. CASE Stream
      BY <3>1, <3>2 DEF Stream, Task, Text
    <3>3. CASE EndAnswer
      BY <3>1, <3>3 DEF EndAnswer, Task
    <3> QED BY <1>6, <3>2, <3>3
  <2> QED BY <1>1, <1>2, <1>3, <2>1, <2>2
          DEF TargetInv, MessageState, AnswerState, Answers, receiver
<1>7. ASSUME NEW s \in Senders, NEW k \in Answers', BeginSend(s, k),
             \A n \in Answers : n \in Answers' /\ answers'[n] = answers[n],
             Fits(answers'[k], receiveId, arrivals)
      PROVE  AnswerState'
  <2>1. /\ call' = [call EXCEPT ![s] = Call("create", receiveId, 0, Text(k, 1))]
        /\ UNCHANGED tasks /\ s \in Threads
    BY <1>7 DEF BeginSend, Senders, Threads
  <2>2. /\ call'[s].text.answer = k /\ call'[s].to = receiveId
        /\ \A b \in Threads : b # s => call'[b] = call[b]
    BY <1>1, <2>1 DEF Call, Text
  <2> QED BY <1>2, <1>7, <2>1, <2>2 DEF TargetInv, AnswerState, receiver
<1>8. CASE SendAnswer
  <2>1. "agent" \in Senders /\ reply \in Answers /\ answers' = answers /\ BeginSend("agent", reply)
    BY <1>1, <1>8 DEF SendAnswer, Senders, Answers
  <2>2. Answers' = Answers /\ Fits(answers'[reply], receiveId, arrivals)
    BY <2>1, TargetFits DEF Answers
  <2>3. AnswerState'
    BY <1>7, <2>1, <2>2
  <2>4. MessageState'
    BY <1>2, <2>1 DEF BeginSend, TargetInv, MessageState, receiver
  <2> QED BY <1>3, <2>3, <2>4 DEF TargetInv
<1>9. CASE SendNotice
  <2> DEFINE a == [event |-> None, arrival |-> 0]
             k == Len(answers) + 1
  <2>1. "notifier" \in Senders /\ answers' = Append(answers, a) /\ BeginSend("notifier", k)
    BY <1>9 DEF SendNotice, Senders
  <2>2. a.event = None
    OBVIOUS
  <2> HIDE DEF a
  <2>3. /\ k \in Answers' /\ answers'[k] = a /\ Answers \subseteq Answers'
        /\ \A n \in Answers : answers'[n] = answers[n]
        /\ \A n \in DOMAIN answers' : answers'[n].event # None => Delivered(answers'[n], arrivals)
    BY <1>4, <2>1, <2>2
  <2>4. Fits(answers'[k], receiveId, arrivals)
    BY <2>2, <2>3 DEF Fits
  <2>5. AnswerState'
    BY <1>7, <2>1, <2>3, <2>4
  <2>6. MessageState'
    BY <1>2, <2>1, <2>3 DEF BeginSend, TargetInv, MessageState, receiver
  <2> QED BY <1>3, <2>5, <2>6 DEF TargetInv
<1> QED BY <1>5, <1>6, <1>8, <1>9

\* The other steps leave deliveries, messages and answers alone.
LEMMA TargetPoolStep ==
    ASSUME TargetInv, TypeInv', UNCHANGED <<receiver, inbox, answers>>,
           \A i \in DOMAIN tasks' : tasks'[i].kind = "START" => tasks'[i].text.answer \in Answers,
           job'.kind = "START" => job'.text.answer \in Answers,
           \A a \in Threads : call'[a].at = "create" =>
              \/ call'[a] = call[a]
              \/ call'[a].text.answer \in Answers /\ call'[a].to = receiveId,
           \A i \in DOMAIN cards' :
              \/ i \in DOMAIN cards /\ cards'[i].answer = cards[i].answer
                                    /\ cards'[i].chat = cards[i].chat
              \/ cards'[i].answer \in Answers /\ Fits(answers[cards'[i].answer], cards'[i].chat, arrivals)
    PROVE  TargetInv'
<1>1. TargetState' /\ MessageState' /\ Answers' = Answers
  BY DEF receiver, TargetInv, TargetState, MessageState, Answers
<1>2. \A k \in Answers : Fits(answers[k], receiveId, arrivals)
  BY TargetFits
<1>3. AnswerState'
  BY <1>1, <1>2 DEF receiver, TargetInv, AnswerState
<1> QED BY <1>1, <1>3 DEF TargetInv

LEMMA TargetTaskStep ==
    ASSUME TargetInv, TypeInv', TakeTask
    PROVE  TargetInv'
<1>1. /\ tasks \in Seq(Jobs) /\ tasks # <<>> /\ job' = Head(tasks) /\ tasks' = Tail(tasks)
      /\ call \in [Threads -> Calls]
  BY DEF TakeTask, TargetInv, TypeInv, TypeOK, Jobs
<1>2. UNCHANGED <<receiver, inbox, answers, cards>>
  BY DEF TakeTask, senders, agent
<1>3. /\ \A i \in DOMAIN tasks' : tasks'[i].kind = "START" => tasks'[i].text.answer \in Answers
      /\ job'.kind = "START" => job'.text.answer \in Answers
      /\ job'.kind \in Kinds
  <2> DEFINE t == Tail(tasks)
  <2>1. /\ Head(tasks) = tasks[1] /\ 1 \in DOMAIN tasks /\ tasks[1] \in Jobs
        /\ \A i \in DOMAIN t : i + 1 \in DOMAIN tasks /\ t[i] = tasks[i + 1]
    BY <1>1
  <2> HIDE DEF t
  <2>2. tasks' = t
    BY <1>1 DEF t
  <2>3. \A i \in DOMAIN t : t[i].kind = "START" => t[i].text.answer \in Answers
    BY <2>1 DEF TargetInv, AnswerState
  <2>4. job'.kind = "START" => job'.text.answer \in Answers
    BY <1>1, <2>1 DEF TargetInv, AnswerState
  <2>5. job'.kind \in Kinds
    BY <1>1, <2>1 DEF Jobs
  <2> QED BY <2>2, <2>3, <2>4, <2>5
<1>4. /\ StartCallback.at = "create" =>
            StartCallback.to = receiveId /\ StartCallback.text = job'.text
      /\ UpdateCallback.at # "create" /\ EndCallback.at # "create"
  BY DEF StartCallback, UpdateCallback, EndCallback, NoCall, Call
<1>5. \A a \in Threads : call'[a].at = "create" =>
              \/ call'[a] = call[a]
              \/ call'[a].text.answer \in Answers /\ call'[a].to = receiveId
  BY <1>1, <1>3, <1>4 DEF TakeTask, Kinds
<1> QED BY <1>2, <1>3, <1>5, TargetPoolStep

LEMMA TargetRequestStep ==
    ASSUME TargetInv, TypeInv', NEW a \in Threads, Requests(a)
    PROVE  TargetInv'
<1>1. UNCHANGED <<receiver, inbox, answers, tasks, job>>
  BY DEF Requests, CreateCard, FailToCreate, Save, Patch, FailToUpdate, ReadFinal, Seal,
         FailToFinish, senders, agent
<1>2. /\ call \in [Threads -> Calls] /\ cards \in Seq(Cards)
      /\ \A b \in Threads : b # a => call'[b] = call[b]
  BY DEF Requests, CreateCard, FailToCreate, Save, Patch, FailToUpdate, ReadFinal, Seal,
         FailToFinish, TargetInv, TypeInv, TypeOK, Cards
<1>3. call'[a].at # "create"
  <2>1. AfterUpdate(a).at # "create" \/ call[a].at \notin {"update", "patch"}
    BY <1>2 DEF AfterUpdate, NoCall, Call, Calls
  <2> QED BY <1>2, <2>1
      DEF Requests, CreateCard, FailToCreate, Save, Patch, FailToUpdate, ReadFinal, Seal,
          FailToFinish, NoCall, Call, Calls
<1>4. \A i \in DOMAIN cards' :
              \/ i \in DOMAIN cards /\ cards'[i].answer = cards[i].answer
                                    /\ cards'[i].chat = cards[i].chat
              \/ cards'[i].answer \in Answers /\ Fits(answers[cards'[i].answer], cards'[i].chat, arrivals)
  <2>1. CASE CreateCard(a)
    <3>1. PICK chat \in {call[a].to, receiveId} :
             cards' = Append(cards, NewCard(chat, call[a].text.answer))
      BY <2>1 DEF CreateCard
    <3>2. call[a].text.answer \in Answers /\ Fits(answers[call[a].text.answer], chat, arrivals)
      BY <2>1, TargetFits DEF CreateCard, TargetInv, AnswerState
    <3> DEFINE card == NewCard(chat, call[a].text.answer)
    <3>3. card.chat = chat /\ card.answer = call[a].text.answer
      BY DEF NewCard
    <3> HIDE DEF card
    <3>4. \A i \in DOMAIN cards' : (i \in DOMAIN cards /\ cards'[i] = cards[i]) \/ cards'[i] = card
      BY <1>2, <3>1 DEF card
    <3> QED BY <3>2, <3>3, <3>4
  <2>2. CASE Save(a) \/ Patch(a) \/ Seal(a)
    <3> DEFINE k == call[a].card
    <3>1. PICK card : /\ cards' = [cards EXCEPT ![k] = card]
                      /\ cards[k] \in Cards => card.answer = cards[k].answer /\ card.chat = cards[k].chat
      <4>1. CASE Save(a)
        <5> DEFINE card == [cards[k] EXCEPT !.latest = call[a].text]
        <5>1. cards' = [cards EXCEPT ![k] = card]
          BY <4>1 DEF Save
        <5>2. cards[k] \in Cards => card.answer = cards[k].answer /\ card.chat = cards[k].chat
          BY DEF Cards
        <5> HIDE DEF card
        <5> QED BY <5>1, <5>2
      <4>2. CASE Patch(a)
        <5> DEFINE card == [cards[k] EXCEPT !.content = call[a].text, !.open = TRUE]
        <5>1. cards' = [cards EXCEPT ![k] = card]
          BY <4>2 DEF Patch
        <5>2. cards[k] \in Cards => card.answer = cards[k].answer /\ card.chat = cards[k].chat
          BY DEF Cards
        <5> HIDE DEF card
        <5> QED BY <5>1, <5>2
      <4>3. CASE Seal(a)
        <5> DEFINE card == [cards[k] EXCEPT !.content = call[a].text, !.open = FALSE]
        <5>1. cards' = [cards EXCEPT ![k] = card]
          BY <4>3 DEF Seal
        <5>2. cards[k] \in Cards => card.answer = cards[k].answer /\ card.chat = cards[k].chat
          BY DEF Cards
        <5> HIDE DEF card
        <5> QED BY <5>1, <5>2
      <4> QED BY <2>2, <4>1, <4>2, <4>3
    <3> HIDE DEF k
    <3>2. DOMAIN cards' = DOMAIN cards /\ \A i \in DOMAIN cards : cards[i] \in Cards
      BY <1>2, <3>1
    <3>3. \A i \in DOMAIN cards : cards'[i] = cards[i] \/ (i = k /\ cards'[i] = card)
      BY <1>2, <3>1
    <3> QED BY <3>1, <3>2, <3>3
  <2>3. CASE FailToCreate(a) \/ FailToUpdate(a) \/ ReadFinal(a) \/ FailToFinish(a)
    BY <2>3 DEF FailToCreate, FailToUpdate, ReadFinal, FailToFinish
  <2> QED BY <2>1, <2>2, <2>3 DEF Requests
<1> QED BY <1>1, <1>2, <1>3, <1>4, TargetPoolStep DEF TargetInv, AnswerState

LEMMA TargetReturnStep ==
    ASSUME TargetInv, TypeInv', (\E s \in Senders : ReturnFromSend(s)) \/ FreeContext
    PROVE  TargetInv'
<1>1. UNCHANGED <<receiver, inbox, answers, tasks, job, cards>>
  BY DEF ReturnFromSend, FreeContext, senders, agent
<1>2. call \in [Threads -> Calls]
  BY DEF TargetInv, TypeInv, TypeOK
<1>3. \A b \in Threads : call'[b].at = "create" =>
              \/ call'[b] = call[b]
              \/ call'[b].text.answer \in Answers /\ call'[b].to = receiveId
  BY <1>2 DEF ReturnFromSend, FreeContext, NoCall, Call, TargetInv, AnswerState
<1> QED BY <1>1, <1>3, TargetPoolStep DEF TargetInv, AnswerState

LEMMA TargetStep == TargetInv /\ [Next]_vars => TargetInv'
<1> SUFFICES ASSUME TargetInv, [Next]_vars, TypeInv'
             PROVE  TargetInv'
  BY TypeStep DEF TargetInv
<1>1. CASE UNCHANGED vars
  BY <1>1 DEF vars, receiver, senders, agent, calls, TargetInv, TargetState, MessageState,
              AnswerState, Answers
<1> QED BY <1>1, TargetReceiverStep, TargetAgentStep, TargetTaskStep, TargetRequestStep,
           TargetReturnStep DEF Next

\* An answer goes to the chat of its message, or to that of an event which was
\* accepted after the message; never to an older one, whatever is delivered
\* again, fails or overlaps (feishu_ws.c:531, feishu.c:440).
THEOREM ReplyTarget == Spec => []NeverToAnOlderChat
<1>1. Init => TargetInv
  BY TypeInit
  DEF Init, TargetInv, TargetState, MessageState, AnswerState, NoJob, Task, NoCall, Call
<1>2. TargetInv => NeverToAnOlderChat
  <2> SUFFICES ASSUME TargetInv, NEW i \in 1 .. Len(cards)
               PROVE  LET a == answers[cards[i].answer]
                      IN  a.event # None /\ cards[i].chat # ChatOf[a.event] =>
                            \E j \in (a.arrival + 1) .. Len(arrivals) :
                               arrivals[j].accepted /\ ChatOf[arrivals[j].event] = cards[i].chat
    BY DEF NeverToAnOlderChat
  <2>1. Fits(answers[cards[i].answer], cards[i].chat, arrivals)
    BY DEF TargetInv, TypeInv, TypeOK, AnswerState
  <2> QED BY <2>1 DEF Fits, AcceptedAfter
<1> QED BY <1>1, <1>2, TargetStep, PTL DEF Spec

-----------------------------------------------------------------------------
(* Deduplication.                                                           *)

\* The deliveries between two that were accepted; how many after the j-th.
Between(j, i, list) == {k \in (j + 1) .. (i - 1) : list[k].accepted}
Age(j, list) == Cardinality(Between(j, Len(list) + 1, list))

\* The slot of the delivery after which n were accepted.
SlotOf(index, n) == IF n < index THEN index - 1 - n ELSE index - 1 - n + CacheSize

Remembered(j, list) == j \in 1 .. Len(list) /\ list[j].accepted /\ Age(j, list) < CacheSize

RingState ==
    /\ \A j \in 1 .. Len(arrivals) : Remembered(j, arrivals) =>
          ring[SlotOf(ringIndex, Age(j, arrivals))] = arrivals[j].event
    /\ \A i \in 0 .. CacheSize - 1 : ring[i] # None =>
          \E j \in 1 .. Len(arrivals) :
             Remembered(j, arrivals) /\ SlotOf(ringIndex, Age(j, arrivals)) = i

RingInv == TypeInv /\ RingState /\ DropsExactlyTheRecent

LEMMA BetweenFinite ==
    ASSUME NEW j \in Nat, NEW i \in Nat, NEW list
    PROVE  IsFiniteSet(Between(j, i, list)) /\ Cardinality(Between(j, i, list)) \in Nat
<1>1. IsFiniteSet((j + 1) .. (i - 1))
  BY FS_Interval
<1>2. Between(j, i, list) \subseteq (j + 1) .. (i - 1)
  BY DEF Between
<1> QED BY <1>1, <1>2, FS_Subset, FS_CardinalityType

\* One more delivery ages those before it if it is accepted.
Aged(list, r, longer) ==
    /\ Age(Len(list) + 1, longer) = 0
    /\ \A j \in 1 .. Len(list) :
          Age(j, longer) = IF r.accepted = TRUE THEN Age(j, list) + 1 ELSE Age(j, list)
    /\ \A i, j \in 1 .. Len(list) : Between(j, i, longer) = Between(j, i, list)
    /\ \A j \in 1 .. Len(list) :
          Between(j, Len(list) + 1, longer) = Between(j, Len(list) + 1, list)

LEMMA Aging ==
    ASSUME NEW R, NEW list \in Seq(R), NEW r \in R, NEW longer, longer = Append(list, r),
           r.accepted = TRUE \/ r.accepted = FALSE
    PROVE  Aged(list, r, longer)
<1>1. /\ Len(list) \in Nat /\ Len(longer) = Len(list) + 1 /\ longer[Len(list) + 1] = r
      /\ \A k \in 1 .. Len(list) : longer[k] = list[k]
  OBVIOUS
<1>2. Age(Len(list) + 1, longer) = 0
  <2>1. Between(Len(list) + 1, Len(longer) + 1, longer) = {}
    BY <1>1 DEF Between
  <2> QED BY <2>1, FS_EmptySet DEF Age
<1>3. \A i, j \in 1 .. Len(list) : Between(j, i, longer) = Between(j, i, list)
  BY <1>1 DEF Between
<1>4. \A j \in 1 .. Len(list) : Between(j, Len(list) + 1, longer) = Between(j, Len(list) + 1, list)
  BY <1>1 DEF Between
<1>5. ASSUME NEW j \in 1 .. Len(list)
      PROVE  Age(j, longer) = IF r.accepted = TRUE THEN Age(j, list) + 1 ELSE Age(j, list)
  <2> DEFINE B == Between(j, Len(list) + 1, list)
             n == Len(list) + 1
  <2>1. IsFiniteSet(B) /\ n \notin B
    <3>1. IsFiniteSet(B)
      BY <1>1, BetweenFinite
    <3>2. n \notin B
      BY <1>1 DEF Between
    <3> QED BY <3>1, <3>2
  <2>2. CASE r.accepted = TRUE
    <3>1. Between(j, Len(longer) + 1, longer) = B \cup {n}
      <4>1. \A k : k \in (j + 1) .. (Len(longer) + 1 - 1) <=> k \in (j + 1) .. (Len(list) + 1 - 1) \/ k = n
        BY <1>1
      <4>2. longer[n].accepted /\ \A k \in (j + 1) .. (Len(list) + 1 - 1) : longer[k] = list[k]
        <5>1. \A k \in (j + 1) .. (Len(list) + 1 - 1) : k \in 1 .. Len(list)
          BY <1>1
        <5> QED BY <1>1, <2>2, <5>1
      <4> QED BY <4>1, <4>2 DEF Between
    <3> HIDE DEF B, n
    <3>2. Cardinality(B \cup {n}) = Cardinality(B) + 1
      BY <2>1, FS_AddElement
    <3> QED BY <2>2, <3>1, <3>2 DEF Age, B
  <2>3. CASE r.accepted = FALSE
    <3>1. Between(j, Len(longer) + 1, longer) = B
      BY <1>1, <2>3 DEF Between
    <3> QED BY <2>3, <3>1 DEF Age
  <2> QED BY <2>2, <2>3
<1> QED BY <1>2, <1>3, <1>4, <1>5 DEF Aged

\* An event is in the ring exactly when it is remembered.
LEMMA SeenIsRemembered ==
    ASSUME RingInv, NEW e \in Events
    PROVE  Seen(e) <=> \E j \in 1 .. Len(arrivals) :
                          Remembered(j, arrivals) /\ arrivals[j].event = e
<1> USE FeishuAssumption
<1>1. Len(arrivals) \in Nat /\ ringIndex \in 0 .. CacheSize - 1 /\ CacheSize \in Nat \ {0}
  BY DEF RingInv, TypeInv, TypeOK
<1>2. ASSUME Seen(e)
      PROVE  \E j \in 1 .. Len(arrivals) : Remembered(j, arrivals) /\ arrivals[j].event = e
  <2>1. PICK i \in 0 .. CacheSize - 1 : ring[i] = e
    BY <1>2 DEF Seen
  <2>2. PICK j \in 1 .. Len(arrivals) :
           Remembered(j, arrivals) /\ SlotOf(ringIndex, Age(j, arrivals)) = i
    BY <2>1 DEF RingInv, RingState
  <2> QED BY <2>1, <2>2 DEF RingInv, RingState
<1>3. ASSUME NEW j \in 1 .. Len(arrivals), Remembered(j, arrivals), arrivals[j].event = e
      PROVE  Seen(e)
  <2>1. Age(j, arrivals) \in 0 .. CacheSize - 1
    <3>1. Age(j, arrivals) \in Nat
      BY <1>1, BetweenFinite DEF Age
    <3> QED BY <1>1, <1>3, <3>1 DEF Remembered
  <2>2. SlotOf(ringIndex, Age(j, arrivals)) \in 0 .. CacheSize - 1
    BY <1>1, <2>1 DEF SlotOf
  <2> QED BY <1>3, <2>2 DEF RingInv, RingState, Seen
<1> QED BY <1>2, <1>3

LEMMA RingArrive ==
    ASSUME RingInv, TypeInv', NEW e \in Events, Arrive(e)
    PROVE  RingInv'
<1> USE FeishuAssumption
<1> DEFINE R == [event : Events, accepted : BOOLEAN]
           n == Len(arrivals)
<1>1. /\ n \in Nat /\ ringIndex \in 0 .. CacheSize - 1 /\ CacheSize \in Nat \ {0}
      /\ ring \in [0 .. CacheSize - 1 -> Events \cup {None}]
  <2>1. ReceiverTypes
    BY TypeParts DEF RingInv, TypeInv
  <2>2. n \in Nat
    BY <2>1 DEF ReceiverTypes
  <2> QED BY <2>1, <2>2 DEF ReceiverTypes
<1>2. arrivals \in Seq(R)
  BY DEF RingInv, TypeInv, TypeOK
<1>3. PICK r \in R : /\ arrivals' = Append(arrivals, r) /\ r.event = e
                     /\ \/ r.accepted = TRUE /\ ~Seen(e)
                        \/ r.accepted = FALSE /\ Seen(e)
  <2>1. CASE Seen(e)
    <3> DEFINE r == [event |-> e, accepted |-> FALSE]
    <3>1. arrivals' = Append(arrivals, r)
      BY <2>1 DEF Arrive
    <3>2. r \in R /\ r.event = e /\ r.accepted = FALSE
      OBVIOUS
    <3> HIDE DEF r, R
    <3> QED BY <2>1, <3>1, <3>2
  <2>2. CASE ~Seen(e)
    <3> DEFINE r == [event |-> e, accepted |-> TRUE]
    <3>1. arrivals' = Append(arrivals, r)
      BY <2>2 DEF Arrive
    <3>2. r \in R /\ r.event = e /\ r.accepted = TRUE
      OBVIOUS
    <3> HIDE DEF r, R
    <3> QED BY <2>2, <3>1, <3>2
  <2> QED BY <2>1, <2>2
<1> HIDE DEF R
<1>4. /\ Len(arrivals') = n + 1 /\ arrivals'[n + 1] = r
      /\ \A j \in 1 .. n : arrivals'[j] = arrivals[j]
  BY <1>1, <1>2, <1>3
<1>5. /\ Age(n + 1, arrivals') = 0
      /\ \A j \in 1 .. n : Age(j, arrivals') = IF r.accepted = TRUE THEN Age(j, arrivals) + 1 ELSE Age(j, arrivals)
      /\ \A i, j \in 1 .. n : Between(j, i, arrivals') = Between(j, i, arrivals)
      /\ \A j \in 1 .. n : Between(j, n + 1, arrivals') = Between(j, n + 1, arrivals)
  <2>1. r.accepted = TRUE \/ r.accepted = FALSE
    BY <1>3
  <2>2. arrivals' = Append(arrivals, r) /\ r \in R
    BY <1>3
  <2>3. Aged(arrivals, r, arrivals')
    BY <1>2, <2>1, <2>2, Aging
  <2> QED BY <2>3 DEF Aged
<1>6. \A j \in 1 .. n : Age(j, arrivals) \in Nat
  BY <1>1, BetweenFinite DEF Age
<1>7. r.accepted = FALSE <=> \E j \in 1 .. n : Remembered(j, arrivals) /\ arrivals[j].event = e
  BY <1>3, SeenIsRemembered
<1>8. DropsExactlyTheRecent'
  <2> DEFINE Rule(i, list) ==
         ~list[i].accepted <=>
            \E j \in 1 .. (i - 1) : /\ list[j].accepted /\ list[j].event = list[i].event
                                  /\ Cardinality(Between(j, i, list)) < CacheSize
  <2>1. \A i \in 1 .. n : Rule(i, arrivals)
    BY DEF RingInv, DropsExactlyTheRecent, Between
  <2>2. ASSUME NEW i \in 1 .. n
        PROVE  Rule(i, arrivals')
    <3>1. \A j \in 1 .. (i - 1) : j \in 1 .. n
      BY <1>1
    <3>2. \A j \in 1 .. (i - 1) : /\ arrivals'[j] = arrivals[j]
                                  /\ Between(j, i, arrivals') = Between(j, i, arrivals)
      BY <1>4, <1>5, <3>1
    <3>3. arrivals'[i] = arrivals[i]
      BY <1>4
    <3> QED BY <2>1, <3>2, <3>3
  <2>3. Rule(n + 1, arrivals')
    <3>1. \A j : j \in 1 .. (n + 1 - 1) <=> j \in 1 .. n
      BY <1>1
    <3>2. \A j \in 1 .. n : Remembered(j, arrivals) <=>
             arrivals'[j].accepted /\ Cardinality(Between(j, n + 1, arrivals')) < CacheSize
      BY <1>4, <1>5 DEF Remembered, Age
    <3>3. ~arrivals'[n + 1].accepted <=> r.accepted = FALSE
      BY <1>3, <1>4
    <3>4. arrivals'[n + 1].event = e
      BY <1>3, <1>4
    <3> QED BY <1>4, <1>7, <3>1, <3>2, <3>3, <3>4
  <2>4. \A i \in 1 .. Len(arrivals') : Rule(i, arrivals')
    BY <1>1, <1>4, <2>2, <2>3
  <2> QED BY <2>4 DEF DropsExactlyTheRecent, Between
<1>9. CASE r.accepted = FALSE
  <2>1. UNCHANGED <<ring, ringIndex>>
    BY <1>3, <1>9 DEF Arrive
  <2>2. \A j \in 1 .. n + 1 : Remembered(j, arrivals') <=> j \in 1 .. n /\ Remembered(j, arrivals)
    BY <1>1, <1>3, <1>4, <1>5, <1>9 DEF Remembered
  <2>3. \A j \in 1 .. n : /\ Age(j, arrivals') = Age(j, arrivals)
                          /\ arrivals'[j] = arrivals[j] /\ j \in 1 .. n + 1
    BY <1>1, <1>4, <1>5, <1>9
  <2>4. \A j \in 1 .. n + 1 : Remembered(j, arrivals') =>
          ring[SlotOf(ringIndex, Age(j, arrivals'))] = arrivals'[j].event
    BY <2>2, <2>3 DEF RingInv, RingState
  <2>5. \A i \in 0 .. CacheSize - 1 : ring[i] # None =>
          \E j \in 1 .. n + 1 :
             Remembered(j, arrivals') /\ SlotOf(ringIndex, Age(j, arrivals')) = i
    <3> SUFFICES ASSUME NEW i \in 0 .. CacheSize - 1, ring[i] # None
                 PROVE  \E j \in 1 .. n + 1 :
                          Remembered(j, arrivals') /\ SlotOf(ringIndex, Age(j, arrivals')) = i
      OBVIOUS
    <3>1. PICK j \in 1 .. n : Remembered(j, arrivals) /\ SlotOf(ringIndex, Age(j, arrivals)) = i
      BY DEF RingInv, RingState
    <3> QED BY <2>2, <2>3, <3>1
  <2>6. RingState'
    BY <1>4, <2>1, <2>4, <2>5 DEF RingState
  <2> QED BY <1>8, <2>6 DEF RingInv
<1>10. CASE r.accepted = TRUE
  <2>1. ring' = [ring EXCEPT ![ringIndex] = e] /\ ringIndex' = (ringIndex + 1) % CacheSize
    BY <1>3, <1>10 DEF Arrive
  <2>2. ringIndex' = IF ringIndex = CacheSize - 1 THEN 0 ELSE ringIndex + 1
    <3>1. CASE ringIndex + 1 < CacheSize
      BY <1>1, <2>1, <3>1
    <3>2. CASE ringIndex + 1 = CacheSize
      BY <1>1, <2>1, <3>2
    <3> QED BY <1>1, <3>1, <3>2
  <2>3. /\ SlotOf(ringIndex', 0) = ringIndex
        /\ \A k \in 0 .. CacheSize - 2 : /\ SlotOf(ringIndex', k + 1) = SlotOf(ringIndex, k)
                                         /\ SlotOf(ringIndex, k) # ringIndex
                                         /\ SlotOf(ringIndex, k) \in 0 .. CacheSize - 1
        /\ SlotOf(ringIndex, CacheSize - 1) = ringIndex
    BY <1>1, <2>2 DEF SlotOf
  <2>4. /\ Remembered(n + 1, arrivals')
        /\ \A j \in 1 .. n : Remembered(j, arrivals') <=>
              Remembered(j, arrivals) /\ Age(j, arrivals) \in 0 .. CacheSize - 2
    <3>1. arrivals'[n + 1].accepted /\ n + 1 \in 1 .. Len(arrivals')
      BY <1>1, <1>4, <1>10
    <3>2. Remembered(n + 1, arrivals')
      BY <1>1, <1>5, <3>1 DEF Remembered
    <3>3. \A j \in 1 .. n : /\ Age(j, arrivals') = Age(j, arrivals) + 1
                            /\ arrivals'[j] = arrivals[j] /\ j \in 1 .. Len(arrivals')
      BY <1>1, <1>4, <1>5, <1>10
    <3>4. \A j \in 1 .. n : Age(j, arrivals') < CacheSize <=> Age(j, arrivals) \in 0 .. CacheSize - 2
      BY <1>1, <1>6, <3>3
    <3>5. \A k \in 0 .. CacheSize - 2 : k < CacheSize
      BY <1>1
    <3> QED BY <3>2, <3>3, <3>4, <3>5 DEF Remembered
  <2>5. ASSUME NEW j \in 1 .. n + 1, Remembered(j, arrivals')
        PROVE  ring'[SlotOf(ringIndex', Age(j, arrivals'))] = arrivals'[j].event
    <3>1. CASE j = n + 1
      BY <1>1, <1>3, <1>4, <1>5, <2>1, <2>3, <3>1
    <3>2. CASE j \in 1 .. n
      <4>1. Age(j, arrivals) \in 0 .. CacheSize - 2 /\ Age(j, arrivals') = Age(j, arrivals) + 1
        BY <1>5, <1>10, <2>4, <2>5, <3>2
      <4>2. ring[SlotOf(ringIndex, Age(j, arrivals))] = arrivals[j].event
        BY <2>4, <2>5, <3>2 DEF RingInv, RingState
      <4>3. SlotOf(ringIndex', Age(j, arrivals')) = SlotOf(ringIndex, Age(j, arrivals))
            /\ SlotOf(ringIndex, Age(j, arrivals)) \in 0 .. CacheSize - 1
            /\ SlotOf(ringIndex, Age(j, arrivals)) # ringIndex
        BY <2>3, <4>1
      <4> QED BY <1>1, <1>4, <2>1, <3>2, <4>2, <4>3
    <3> QED BY <1>1, <3>1, <3>2
  <2>6. ASSUME NEW i \in 0 .. CacheSize - 1, ring'[i] # None
        PROVE  \E j \in 1 .. n + 1 :
                  Remembered(j, arrivals') /\ SlotOf(ringIndex', Age(j, arrivals')) = i
    <3>1. CASE i = ringIndex
      <4>1. n + 1 \in 1 .. n + 1
        BY <1>1
      <4> QED BY <1>5, <2>3, <2>4, <3>1, <4>1
    <3>2. CASE i # ringIndex
      <4>1. PICK j \in 1 .. n : Remembered(j, arrivals) /\ SlotOf(ringIndex, Age(j, arrivals)) = i
        BY <1>1, <2>1, <2>6, <3>2 DEF RingInv, RingState
      <4>2. Age(j, arrivals) \in 0 .. CacheSize - 2
        <5>1. Age(j, arrivals) # CacheSize - 1
          BY <2>3, <3>2, <4>1
        <5>2. Age(j, arrivals) \in Nat /\ Age(j, arrivals) < CacheSize
          BY <1>6, <4>1 DEF Remembered
        <5> QED BY <1>1, <5>1, <5>2
      <4>3. Age(j, arrivals') = Age(j, arrivals) + 1 /\ j \in 1 .. n + 1
        BY <1>1, <1>5, <1>10
      <4> QED BY <2>3, <2>4, <4>1, <4>2, <4>3
    <3> QED BY <3>1, <3>2
  <2>7. RingState'
    BY <1>4, <2>5, <2>6 DEF RingState
  <2> QED BY <1>8, <2>7 DEF RingInv
<1> QED BY <1>3, <1>9, <1>10

LEMMA RingStep == RingInv /\ [Next]_vars => RingInv'
<1> SUFFICES ASSUME RingInv, [Next]_vars, TypeInv'
             PROVE  RingInv'
  BY TypeStep DEF RingInv
<1>1. ASSUME NEW e \in Events, Arrive(e)
      PROVE  RingInv'
  BY <1>1, RingArrive
<1>2. CASE UNCHANGED <<ring, ringIndex, arrivals>>
  <2>1. RingState'
    BY <1>2 DEF RingInv, RingState
  <2>2. DropsExactlyTheRecent'
    BY <1>2 DEF RingInv, DropsExactlyTheRecent
  <2> QED BY <2>1, <2>2 DEF RingInv
<1>3. ASSUME NEW a \in Threads, Requests(a)
      PROVE  UNCHANGED <<ring, ringIndex, arrivals>>
  BY <1>3 DEF Requests, CreateCard, FailToCreate, Save, Patch, FailToUpdate, ReadFinal, Seal,
              FailToFinish, receiver
<1>4. CASE Enqueue \/ SwapTarget \/ RestoreTarget \/ TakeMessage \/ Stream \/ EndAnswer
           \/ SendAnswer \/ SendNotice \/ TakeTask \/ FreeContext \/ UNCHANGED vars
           \/ \E s \in Senders : ReturnFromSend(s)
  BY <1>2, <1>4
  DEF Enqueue, SwapTarget, RestoreTarget, TakeMessage, Stream, EndAnswer, SendAnswer, SendNotice,
      BeginSend, TakeTask, FreeContext, ReturnFromSend, receiver, vars
<1> QED BY <1>1, <1>2, <1>3, <1>4 DEF Next, Receiver

\* A delivery is dropped exactly when its event is among the CacheSize accepted
\* last before it: the ring never forgets too early, nor remembers too long
\* (feishu_ws.c:39-61).
THEOREM DuplicatesDropped == Spec => []DropsExactlyTheRecent
<1>1. Init => RingInv
  <2> SUFFICES ASSUME Init PROVE RingInv
    OBVIOUS
  <2>1. Len(arrivals) = 0 /\ \A i \in 0 .. CacheSize - 1 : ring[i] = None
    BY DEF Init
  <2>2. \A j : j \notin 1 .. 0
    OBVIOUS
  <2> QED BY <2>1, <2>2, TypeInit DEF RingInv, RingState, DropsExactlyTheRecent
<1>2. RingInv => DropsExactlyTheRecent
  BY DEF RingInv
<1> QED BY <1>1, <1>2, RingStep, PTL DEF Spec
-----------------------------------------------------------------------------
(* What the cards show.                                                     *)

Going == {"START", "UPDATE"}

\* The task before the i-th of the list; there was one before the first.
Before(first, list, i) == IF i = 1 THEN first ELSE list[i - 1]

\* An update follows the task of its answer with less of the text; the agent
\* goes on from the last task.
TasksFollow ==
    /\ \A i \in 1 .. Len(tasks) : tasks[i].kind = "UPDATE" =>
          /\ Before(job, tasks, i).kind \in Going
          /\ Before(job, tasks, i).text.answer = tasks[i].text.answer
          /\ Before(job, tasks, i).text.length < tasks[i].text.length
    /\ sent > 0 => Before(job, tasks, Len(tasks) + 1).kind \in Going
                   /\ Before(job, tasks, Len(tasks) + 1).text = Text(reply, sent)
    /\ call["agent"].at # "idle" => sent = 0

Working == {"update", "patch", "finish", "seal", "cleanup"}

\* Whoever works on a card owns the only context there is.
OneContext ==
    /\ \A b \in Threads : context[b] # None => ctx = b
    /\ \A a \in Threads : call[a].at \in Working => ctx = a /\ call[a].card = context[a].card
    /\ \A a \in Threads : call[a].at = "idle" => call[a] = NoCall
    /\ ctx \in Senders => call[ctx].at \in Working /\ call["pool"].at = "idle"
    /\ call["pool"].at = "create" => ctx = "none"
    /\ call["pool"].at \in {"create", "update", "patch"} =>
          call["pool"].text = job.text /\ job.kind \in Going
    /\ call["pool"].at \in {"finish", "seal", "cleanup"} => held = "pool"

\* What is in a card, and what there was for it.
CardIs(c) ==
    /\ c.content = Blank \/ c.content.answer = c.answer
    /\ c.latest = Blank \/ c.latest.answer = c.answer
    /\ c.content.length <= c.latest.length
    /\ ~c.open => c.content = c.latest

\* What a thread is about to do with its card.
CallIs(k, c) ==
    /\ k.at = "update" => k.text.answer = c.answer /\ c.latest.length <= k.text.length
    /\ k.at = "patch" => k.text = c.latest /\ k.text.answer = c.answer
    /\ k.at = "seal" => k.text = c.latest
    /\ ~c.open => k.at = "cleanup"

CardsAgree ==
    /\ \A i \in 1 .. Len(cards) : CardIs(cards[i])
    /\ ctx # "none" =>
          /\ context[ctx].card \in 1 .. Len(cards)
          /\ context[ctx].saved = cards[context[ctx].card].latest
          /\ CallIs(call[ctx], cards[context[ctx].card])
    /\ ctx = "pool" /\ call["pool"].at \in {"idle", "update", "patch"} =>
          /\ job.kind \in Going
          /\ job.text.answer = cards[context["pool"].card].answer
          /\ cards[context["pool"].card].latest.length <= job.text.length

OwnInv == OverlapInv /\ TasksFollow /\ (~overlap => OneContext /\ CardsAgree)

\* The order of the tasks does not depend on what becomes of them.
LEMMA FollowStep ==
    ASSUME TypeInv, TypeInv', TasksFollow, [Next]_vars
    PROVE  TasksFollow'
<1>0. NoCall.at = "idle" /\ "agent" \in Threads /\ "agent" # "pool"
  BY DEF NoCall, Call, Threads, Senders
<1>1. /\ tasks \in Seq(Jobs) /\ Len(tasks) \in Nat /\ call \in [Threads -> Calls]
      /\ sent \in Nat
  BY LenProperties DEF TypeInv, TypeOK, Jobs
<1>2. CASE UNCHANGED <<tasks, job, sent, reply, call>>
  BY <1>2 DEF TasksFollow, Before
<1>3. CASE Receiver \/ UNCHANGED vars
  BY <1>2, <1>3 DEF Receiver, Arrive, Enqueue, SwapTarget, RestoreTarget, vars, senders, agent, calls
<1>4. CASE TakeMessage
  <2>1. sent' = 0 /\ UNCHANGED <<tasks, job, call>>
    BY <1>4 DEF TakeMessage, calls
  <2> QED BY <2>1 DEF TasksFollow, Before
<1>5. ASSUME NEW t \in Jobs, tasks' = Append(tasks, t), UNCHANGED <<job, call>>,
             call["agent"].at = "idle",
             t.kind = "UPDATE" => /\ Before(job, tasks, Len(tasks) + 1).kind \in Going
                                  /\ Before(job, tasks, Len(tasks) + 1).text.answer = t.text.answer
                                  /\ Before(job, tasks, Len(tasks) + 1).text.length < t.text.length,
             sent' > 0 => t.kind \in Going /\ t.text = Text(reply', sent')
      PROVE  TasksFollow'
  <2>1. PICK n \in Nat : n = Len(tasks)
    BY <1>1
  <2>2. PICK s : s = tasks'
    OBVIOUS
  <2>3. Len(s) = n + 1 /\ s[n + 1] = t /\ \A i \in 1 .. n : s[i] = tasks[i]
    BY <1>1, <1>5, <2>1, <2>2, AppendProperties
  <2>4. \A i \in 1 .. n + 1 : Before(job', tasks', i) = Before(job, tasks, i)
    <3> SUFFICES ASSUME NEW i \in 1 .. n + 1 PROVE Before(job', tasks', i) = Before(job, tasks, i)
      OBVIOUS
    <3>1. i = 1 \/ i - 1 \in 1 .. n
      OBVIOUS
    <3> QED BY <1>5, <2>2, <2>3, <3>1 DEF Before
  <2>5. Before(job', tasks', n + 2) = t
    <3>1. n + 2 # 1 /\ (n + 2) - 1 = n + 1
      OBVIOUS
    <3> QED BY <2>2, <2>3, <3>1 DEF Before
  <2>6. ASSUME NEW i \in 1 .. n + 1, s[i].kind = "UPDATE"
        PROVE  /\ Before(job', tasks', i).kind \in Going /\ Before(job', tasks', i).text.answer = s[i].text.answer
               /\ Before(job', tasks', i).text.length < s[i].text.length
    <3>1. CASE i \in 1 .. n
      BY <2>1, <2>3, <2>4, <2>6, <3>1 DEF TasksFollow
    <3>2. CASE i = n + 1
      BY <1>5, <2>1, <2>3, <2>4, <2>6, <3>2
    <3> QED BY <3>1, <3>2
  <2>7. Len(tasks') + 1 = n + 2
    BY <2>2, <2>3
  <2>8. sent' > 0 => Before(job', tasks', Len(tasks') + 1).kind \in Going
                     /\ Before(job', tasks', Len(tasks') + 1).text = Text(reply', sent')
    BY <1>5, <2>5, <2>7
  <2> QED BY <1>5, <2>2, <2>3, <2>6, <2>8 DEF TasksFollow
<1>6. CASE Stream
  <2>1. /\ reply # 0 /\ call["agent"].at = "idle" /\ sent' = sent + 1 /\ reply' = reply
        /\ tasks' = Append(tasks, Task(IF sent = 0 THEN "START" ELSE "UPDATE", Text(reply, sent + 1)))
        /\ UNCHANGED <<job, call>>
    BY <1>0, <1>6 DEF Stream, calls
  <2>2. Text(reply, sent + 1) \in Texts
    <3>1. reply \in Nat /\ sent < MaxLength /\ MaxLength \in Nat
      BY <1>6, FeishuAssumption DEF Stream, TypeInv, TypeOK
    <3> QED BY <1>1, <3>1, TextTyped
  <2>3. PICK t : t = Task(IF sent = 0 THEN "START" ELSE "UPDATE", Text(reply, sent + 1))
    OBVIOUS
  <2>4. t \in Jobs /\ t.text = Text(reply, sent + 1)
        /\ t.kind = (IF sent = 0 THEN "START" ELSE "UPDATE")
    BY <2>2, <2>3 DEF Task, Jobs, Kinds
  <2>5. Text(reply, sent).answer = Text(reply, sent + 1).answer
        /\ Text(reply, sent).length < Text(reply, sent + 1).length
    BY <1>1 DEF Text
  <2>6. t.kind = "UPDATE" => sent > 0
    BY <1>1, <2>4
  <2>7. t.kind = "UPDATE" => /\ Before(job, tasks, Len(tasks) + 1).kind \in Going
                             /\ Before(job, tasks, Len(tasks) + 1).text = Text(reply, sent)
    BY <2>6 DEF TasksFollow
  <2>8. t.kind \in Going /\ t.text = Text(reply', sent')
    BY <2>1, <2>4 DEF Going
  <2> QED BY <1>5, <2>1, <2>3, <2>4, <2>5, <2>7, <2>8
<1>7. CASE EndAnswer
  <2>1. call["agent"].at = "idle" /\ sent' = 0 /\ UNCHANGED <<job, call>>
    BY <1>0, <1>7 DEF EndAnswer, calls
  <2>2. CASE sent > 0
    <3>1. PICK t : t = Task("END", Blank)
      OBVIOUS
    <3>2. t \in Jobs /\ t.kind # "UPDATE" /\ tasks' = Append(tasks, t)
      BY <1>7, <2>2, <3>1, TextTyped DEF EndAnswer, Task, Jobs, Kinds
    <3> QED BY <1>5, <2>1, <3>2
  <2>3. CASE ~(sent > 0)
    <3>1. tasks' = tasks
      BY <1>7, <2>3 DEF EndAnswer
    <3> QED BY <2>1, <3>1 DEF TasksFollow
  <2> QED BY <2>2, <2>3
\* Where nothing happens to the tasks, and the agent ends or begins a send.
<1>8. ASSUME UNCHANGED <<tasks, job, sent>>,
             reply' = reply \/ sent = 0,
             call'["agent"].at # "idle" => sent = 0
      PROVE  TasksFollow'
  BY <1>1, <1>8 DEF TasksFollow
<1>9. CASE SendAnswer \/ SendNotice
  <2>1. UNCHANGED <<tasks, job, sent, reply>>
    BY <1>9 DEF SendAnswer, SendNotice, BeginSend
  <2>2. call'["agent"].at # "idle" => sent = 0
    <3>1. SendNotice => call'["agent"] = call["agent"]
      BY <1>0, <1>1 DEF SendNotice, BeginSend
    <3> QED BY <1>9, <3>1 DEF SendAnswer, TasksFollow
  <2> QED BY <1>8, <2>1, <2>2
<1>10. CASE TakeTask
  <2>1. tasks # <<>> /\ tasks' = Tail(tasks) /\ job' = Head(tasks)
        /\ UNCHANGED <<sent, reply>> /\ call'["agent"] = call["agent"]
    BY <1>0, <1>1, <1>10 DEF TakeTask, senders, agent
  <2>2. PICK s : s = tasks'
    OBVIOUS
  <2>3. PICK n \in Nat : n + 1 = Len(tasks)
    <3>1. Len(tasks) # 0
      BY <1>1, <2>1, EmptySeq
    <3>2. Len(tasks) - 1 \in Nat /\ (Len(tasks) - 1) + 1 = Len(tasks)
      BY <1>1, <3>1
    <3> QED BY <3>2
  <2>4. Len(s) = n /\ \A i \in 1 .. n : s[i] = tasks[i + 1]
    BY <1>1, <2>1, <2>2, <2>3, HeadTailProperties
  <2>5. job' = tasks[1]
    BY <1>1, <2>1
  <2>6. \A i \in 1 .. n + 1 : Before(job', tasks', i) = Before(job, tasks, i + 1)
    <3> SUFFICES ASSUME NEW i \in 1 .. n + 1
                 PROVE  Before(job', tasks', i) = Before(job, tasks, i + 1)
      OBVIOUS
    <3>1. i + 1 # 1 /\ (i + 1) - 1 = i /\ (i = 1 \/ (i - 1 \in 1 .. n /\ (i - 1) + 1 = i))
      OBVIOUS
    <3>2. Before(job, tasks, i + 1) = tasks[i]
      BY <3>1 DEF Before
    <3>3. CASE i = 1
      BY <2>5, <3>2, <3>3 DEF Before
    <3>4. CASE i # 1
      <4>1. s[i - 1] = tasks[i]
        BY <2>4, <3>1, <3>4
      <4> QED BY <2>2, <3>2, <3>4, <4>1 DEF Before
    <3> QED BY <3>3, <3>4
  <2>7. ASSUME NEW i \in 1 .. Len(s), s[i].kind = "UPDATE"
        PROVE  /\ Before(job', tasks', i).kind \in Going
               /\ Before(job', tasks', i).text.answer = s[i].text.answer
               /\ Before(job', tasks', i).text.length < s[i].text.length
    <3>1. i + 1 \in 1 .. Len(tasks) /\ i \in 1 .. n + 1
      BY <2>3, <2>4
    <3>2. s[i] = tasks[i + 1]
      BY <2>4
    <3> QED BY <2>6, <2>7, <3>1, <3>2 DEF TasksFollow
  <2>8. Before(job', tasks', Len(tasks') + 1) = Before(job, tasks, Len(tasks) + 1)
    <3>1. Len(tasks') + 1 = n + 1 /\ n + 1 \in 1 .. n + 1 /\ Len(tasks) + 1 = (n + 1) + 1
      BY <2>2, <2>3, <2>4
    <3> QED BY <2>6, <3>1
  <2> QED BY <2>1, <2>2, <2>7, <2>8 DEF TasksFollow
<1>11. ASSUME NEW a \in Threads, Requests(a)
       PROVE  TasksFollow'
  <2>1. UNCHANGED <<tasks, job, sent>>
    BY <1>11 DEF Requests, CreateCard, FailToCreate, Save, Patch, FailToUpdate, ReadFinal, Seal,
                 FailToFinish, senders, agent
  <2>2. call[a].at # "idle" /\ \A b \in Threads : b # a => call'[b] = call[b]
    BY <1>1, <1>11 DEF Requests, CreateCard, FailToCreate, Save, Patch, FailToUpdate, ReadFinal,
                       Seal, FailToFinish
  <2>3. reply' = reply \/ (a = "agent" /\ reply' = 0)
    BY <1>11 DEF Requests, CreateCard, FailToCreate, Save, Patch, FailToUpdate, ReadFinal, Seal,
                 FailToFinish, senders, agent
  <2> QED BY <1>0, <1>8, <2>1, <2>2, <2>3 DEF TasksFollow
<1>12. ASSUME NEW s \in Senders, ReturnFromSend(s)
       PROVE  TasksFollow'
  <2>1. UNCHANGED <<tasks, job, sent>> /\ call[s].at # "idle"
        /\ \A b \in Threads : b # s => call'[b] = call[b]
        /\ (reply' = reply \/ s = "agent")
    BY <1>1, <1>12 DEF ReturnFromSend
  <2> QED BY <1>0, <1>8, <2>1 DEF TasksFollow
<1>13. CASE FreeContext
  <2>1. UNCHANGED <<tasks, job, sent, reply>> /\ call'["agent"] = call["agent"]
    BY <1>0, <1>1, <1>13 DEF FreeContext, senders, agent
  <2> QED BY <1>8, <2>1 DEF TasksFollow
<1> QED BY <1>3, <1>4, <1>6, <1>7, <1>9, <1>10, <1>11, <1>12, <1>13 DEF Next
LEMMA ThreadFacts ==
    /\ "pool" \in Threads /\ "pool" \notin Senders /\ Senders \subseteq Threads
    /\ \A a \in Threads : a = "pool" \/ a \in Senders
    /\ "none" \notin Threads
    /\ NoCall.at = "idle" /\ "idle" \notin Working /\ "create" \notin Working
    /\ Blank = Text(0, 0) /\ Blank.length = 0
BY DEF Threads, Senders, NoCall, Call, Working, Blank, Text

\* One step of a thread that has a card, whatever becomes of its call (k), of its
\* context (r) and of the card (c).
LEMMA WorkStep ==
    ASSUME TypeInv, TypeInv', OneContext, CardsAgree,
           NEW a \in Threads, call[a].at \in Working,
           UNCHANGED <<ctx, job, held>>,
           NEW k, call' = [call EXCEPT ![a] = k],
           \/ k.at \in Working /\ k.card = call[a].card
           \/ a = "pool" /\ k = NoCall,
           a = "pool" => IF call[a].at \in {"update", "patch"}
                         THEN k.at \in {"idle", "update", "patch"} /\ (k # NoCall => k.text = call[a].text)
                         ELSE k.at \in {"finish", "seal", "cleanup"},
           NEW r, context' = [context EXCEPT ![a] = r], r # None, r.card = call[a].card,
           NEW c, cards' = [cards EXCEPT ![call[a].card] = c],
           CardIs(c), c.answer = cards[call[a].card].answer,
           r.saved = c.latest, CallIs(k, c),
           a = "pool" /\ k.at \in {"idle", "update", "patch"} => c.latest.length <= job.text.length
    PROVE  OneContext' /\ CardsAgree'
<1>1. /\ ctx = a /\ call[a].card = context[a].card /\ a # "none"
      /\ \A b \in Threads : b # a => context[b] = None /\ call[b].at \notin Working
  BY ThreadFacts DEF OneContext
<1>2. /\ call' \in [Threads -> Calls] /\ call'[a] = k /\ context'[a] = r
      /\ \A b \in Threads : b # a => call'[b] = call[b] /\ context'[b] = context[b]
  BY DEF TypeInv, TypeOK
<1>3. /\ cards \in Seq(Cards) /\ context[a].card \in 1 .. Len(cards)
      /\ CallIs(call[a], cards[call[a].card])
  BY <1>1 DEF CardsAgree, TypeInv, TypeOK, Cards
<1>4. /\ Len(cards') = Len(cards) /\ cards'[call[a].card] = c
      /\ \A i \in 1 .. Len(cards) : i # call[a].card => cards'[i] = cards[i]
  <2>1. cards \in [1 .. Len(cards) -> Cards] /\ Len(cards) \in Nat
    BY <1>3, LenProperties
  <2>2. cards' \in Seq(Cards)
    BY DEF TypeInv, TypeOK, Cards
  <2>3. DOMAIN cards' = 1 .. Len(cards)
    BY <2>1
  <2>4. Len(cards') = Len(cards)
    BY <2>1, <2>2, <2>3, LenProperties
  <2> QED BY <1>1, <1>3, <2>1, <2>4
<1>5. OneContext'
  <2>1. \A b \in Threads : context'[b] # None => ctx' = b
    BY <1>1, <1>2
  <2>2. \A b \in Threads : call'[b].at \in Working => ctx' = b /\ call'[b].card = context'[b].card
    BY <1>1, <1>2, ThreadFacts
  <2>3. \A b \in Threads : call'[b].at = "idle" => call'[b] = NoCall
    BY <1>2, ThreadFacts DEF OneContext
  <2>4. ctx' \in Senders => call'[ctx'].at \in Working /\ call'["pool"].at = "idle"
    BY <1>1, <1>2, ThreadFacts DEF OneContext
  <2>5. call'["pool"].at = "create" => ctx' = "none"
    BY <1>1, <1>2, ThreadFacts DEF OneContext
  <2>6. call'["pool"].at \in {"create", "update", "patch"} =>
           call'["pool"].text = job'.text /\ job'.kind \in Going
    BY <1>1, <1>2, ThreadFacts DEF OneContext
  <2>7. call'["pool"].at \in {"finish", "seal", "cleanup"} => held' = "pool"
    <3>1. CASE a = "pool"
      <4>1. call[a].at \notin {"update", "patch"} => call[a].at \in {"finish", "seal", "cleanup"}
        BY DEF Working
      <4> QED BY <1>1, <1>2, <3>1, <4>1 DEF OneContext
    <3>2. CASE a # "pool"
      BY <1>1, <1>2, <3>2, ThreadFacts DEF OneContext
    <3> QED BY <3>1, <3>2
  <2> QED BY <2>1, <2>2, <2>3, <2>4, <2>5, <2>6, <2>7 DEF OneContext
<1>6. CardsAgree'
  <2>1. \A i \in 1 .. Len(cards') : CardIs(cards'[i])
    BY <1>4 DEF CardsAgree
  <2>2. /\ context'[ctx'].card \in 1 .. Len(cards')
        /\ context'[ctx'].saved = cards'[context'[ctx'].card].latest
        /\ CallIs(call'[ctx'], cards'[context'[ctx'].card])
    BY <1>1, <1>2, <1>3, <1>4
  <2>3. ctx' = "pool" /\ call'["pool"].at \in {"idle", "update", "patch"} =>
          /\ job'.kind \in Going
          /\ job'.text.answer = cards'[context'["pool"].card].answer
          /\ cards'[context'["pool"].card].latest.length <= job'.text.length
    <3> SUFFICES ASSUME a = "pool", k.at \in {"idle", "update", "patch"}
                 PROVE  /\ job.kind \in Going /\ job.text.answer = c.answer
                        /\ c.latest.length <= job.text.length
      BY <1>1, <1>2, <1>4
    <3>1. call[a].at \in {"update", "patch"}
      BY DEF Working
    <3> QED BY <1>1, <3>1 DEF CardsAgree
  <2> QED BY <2>1, <2>2, <2>3 DEF CardsAgree
<1> QED BY <1>5, <1>6
\* No text disappears from a card in this step.
Grows == \A i \in 1 .. Len(cards) : cards'[i].content.length >= cards[i].content.length

\* The card that is written: where it is, and that the others stay.
LEMMA OneCardGrows ==
    ASSUME TypeInv, NEW i \in 1 .. Len(cards), NEW c, cards' = [cards EXCEPT ![i] = c],
           c.content.length >= cards[i].content.length
    PROVE  Grows
<1>1. cards \in [1 .. Len(cards) -> Cards]
  BY LenProperties DEF TypeInv, TypeOK, Cards
<1>2. \A j \in 1 .. Len(cards) : cards[j].content.length \in Nat
  BY <1>1 DEF Cards, Texts
<1>3. cards'[i] = c /\ \A j \in 1 .. Len(cards) : j # i => cards'[j] = cards[j]
  BY <1>1
<1>4. \A j \in 1 .. Len(cards) : j # i => cards'[j].content.length >= cards[j].content.length
  BY <1>2, <1>3
<1> QED BY <1>3, <1>4 DEF Grows

\* No card is written.
LEMMA SameCardsGrow ==
    ASSUME TypeInv, cards' = cards
    PROVE  Grows
<1>1. cards \in [1 .. Len(cards) -> Cards]
  BY LenProperties DEF TypeInv, TypeOK, Cards
<1>2. \A j \in 1 .. Len(cards) : cards[j].content.length \in Nat
  BY <1>1 DEF Cards, Texts
<1> QED BY <1>2 DEF Grows

\* The call goes on, and context and card stay as they are.
LEMMA OnlyCallStep ==
    ASSUME TypeInv, TypeInv', OneContext, CardsAgree,
           NEW a \in Threads, call[a].at \in Working,
           UNCHANGED <<ctx, context, job, held, cards>>,
           NEW k, call' = [call EXCEPT ![a] = k],
           \/ k.at \in Working /\ k.card = call[a].card
           \/ a = "pool" /\ k = NoCall,
           a = "pool" => IF call[a].at \in {"update", "patch"}
                         THEN k.at \in {"idle", "update", "patch"} /\ (k # NoCall => k.text = call[a].text)
                         ELSE k.at \in {"finish", "seal", "cleanup"},
           CallIs(k, cards[call[a].card])
    PROVE  OneContext' /\ CardsAgree' /\ Grows
<1>1. PICK r : r = context[a]
  OBVIOUS
<1>2. PICK c : c = cards[call[a].card]
  OBVIOUS
<1>3. /\ ctx = a /\ call[a].card = context[a].card /\ a # "none" /\ r # None
      /\ r.card = call[a].card
  BY <1>1, ThreadFacts DEF OneContext, TypeInv, TypeOK
<1>4. /\ call[a].card \in 1 .. Len(cards) /\ CardIs(c) /\ r.saved = c.latest
  BY <1>1, <1>2, <1>3 DEF CardsAgree
<1>5. context' = [context EXCEPT ![a] = r] /\ cards' = [cards EXCEPT ![call[a].card] = c]
  <2>1. context \in [Threads -> Contexts] /\ cards \in [1 .. Len(cards) -> Cards]
    BY LenProperties DEF TypeInv, TypeOK, Cards
  <2>2. [context EXCEPT ![a] = context[a]] = context
    BY <2>1
  <2>3. [cards EXCEPT ![call[a].card] = cards[call[a].card]] = cards
    BY <1>4, <2>1
  <2> QED BY <1>1, <1>2, <2>2, <2>3
<1>6. a = "pool" /\ k.at \in {"idle", "update", "patch"} => c.latest.length <= job.text.length
  <2>1. a = "pool" /\ k.at \in {"idle", "update", "patch"} => call[a].at \in {"update", "patch"}
    OBVIOUS
  <2> QED BY <1>2, <1>3, <2>1 DEF CardsAgree
<1>7. CallIs(k, c)
  BY <1>2
<1>8. c.answer = cards[call[a].card].answer
  BY <1>2
<1>9. Grows
  BY SameCardsGrow
<1>10. OneContext' /\ CardsAgree'
  <2>1. /\ TypeInv /\ TypeInv' /\ OneContext /\ CardsAgree
        /\ a \in Threads /\ call[a].at \in Working
        /\ UNCHANGED <<ctx, job, held>> /\ call' = [call EXCEPT ![a] = k]
        /\ (k.at \in Working /\ k.card = call[a].card) \/ (a = "pool" /\ k = NoCall)
    OBVIOUS
  <2>2. a = "pool" => IF call[a].at \in {"update", "patch"}
                      THEN k.at \in {"idle", "update", "patch"} /\ (k # NoCall => k.text = call[a].text)
                      ELSE k.at \in {"finish", "seal", "cleanup"}
    OBVIOUS
  <2> QED BY ONLY <1>3, <1>4, <1>5, <1>6, <1>7, <1>8, <2>1, <2>2, WorkStep
<1> QED BY <1>9, <1>10

\* Who works on a card, and which.
LEMMA CardInHand ==
    ASSUME TypeInv, OneContext, CardsAgree, NEW a \in Threads, call[a].at \in Working
    PROVE  /\ ctx = a /\ context[a] \in Records /\ context[a].card = call[a].card
           /\ call[a].card \in 1 .. Len(cards) /\ cards[call[a].card] \in Cards
           /\ CardIs(cards[call[a].card]) /\ CallIs(call[a], cards[call[a].card])
           /\ context[a].saved = cards[call[a].card].latest
           /\ call[a] \in Calls
<1>1. /\ ctx = a /\ call[a].card = context[a].card /\ a # "none"
      /\ call[a] \in Calls
  BY ThreadFacts DEF OneContext, TypeInv, TypeOK
<1>2. context[a] \in Contexts /\ context[a] # None
  BY <1>1 DEF TypeInv, TypeOK
<1>3. cards \in Seq(Cards)
  BY DEF TypeInv, TypeOK, Cards
<1>4. call[a].card \in 1 .. Len(cards)
  BY <1>1 DEF CardsAgree
<1>5. cards[call[a].card] \in Cards
  BY <1>3, <1>4, ElementOfSeq
<1> QED BY <1>1, <1>2, <1>4, <1>5 DEF CardsAgree, Contexts, Records

\* What AfterUpdate makes of a call.
LEMMA AfterUpdateIs ==
    ASSUME NEW a \in Threads, call[a] \in Calls, call[a].at \in {"update", "patch"}
    PROVE  /\ a = "pool" => AfterUpdate(a) = NoCall
           /\ a # "pool" => /\ AfterUpdate(a).at \in {"update", "finish"}
                            /\ AfterUpdate(a).card = call[a].card
                            /\ AfterUpdate(a).text.answer = call[a].text.answer
                            /\ AfterUpdate(a).text.length >= call[a].text.length
<1>1. CASE a = "pool"
  BY <1>1 DEF AfterUpdate
<1>2. CASE a # "pool" /\ call[a].text.length < MaxLength
  <2>1. call[a].text.length \in Nat
    BY FeishuAssumption DEF Calls, Texts
  <2>2. AfterUpdate(a) = [call[a] EXCEPT !.at = "update", !.text.length = @ + 1]
    BY <1>2 DEF AfterUpdate
  <2> QED BY <1>2, <2>1, <2>2 DEF Calls, Texts
<1>3. CASE a # "pool" /\ ~(call[a].text.length < MaxLength)
  <2>1. call[a].text.length \in Nat
    BY FeishuAssumption DEF Calls, Texts
  <2>2. AfterUpdate(a) = [call[a] EXCEPT !.at = "finish"]
    BY <1>3 DEF AfterUpdate
  <2> QED BY <1>3, <2>1, <2>2 DEF Calls, Texts
<1> QED BY <1>1, <1>2, <1>3

LEMMA SaveOwn ==
    ASSUME TypeInv, TypeInv', OneContext, CardsAgree, NEW a \in Threads, Save(a)
    PROVE  OneContext' /\ CardsAgree' /\ Grows
<1>1. call[a].at = "update" /\ call[a].at \in Working /\ UNCHANGED <<ctx, job, held>>
  BY DEF Save, Working
<1>2. /\ ctx = a /\ context[a] \in Records /\ context[a].card = call[a].card
      /\ call[a].card \in 1 .. Len(cards) /\ cards[call[a].card] \in Cards
      /\ CardIs(cards[call[a].card]) /\ CallIs(call[a], cards[call[a].card])
      /\ call[a] \in Calls /\ a # "none"
  BY <1>1, CardInHand, ThreadFacts
<1>3. PICK i : i = call[a].card
  OBVIOUS
<1>4. PICK old \in Cards : old = cards[i]
  BY <1>2, <1>3
<1>5. PICK t \in Texts : t = call[a].text
  BY <1>2 DEF Calls
<1>6. PICK r : r = [context[a] EXCEPT !.saved = t]
  OBVIOUS
<1>7. PICK c : c = [old EXCEPT !.latest = t]
  OBVIOUS
<1>8. PICK k : k = [call[a] EXCEPT !.at = "patch"]
  OBVIOUS
<1>9. context' = [context EXCEPT ![a] = r] /\ call' = [call EXCEPT ![a] = k]
      /\ cards' = [cards EXCEPT ![call[a].card] = c]
  BY <1>2, <1>3, <1>4, <1>5, <1>6, <1>7, <1>8 DEF Save
<1>10. r \in Records /\ r.saved = t /\ r.card = call[a].card /\ r # None
  BY <1>2, <1>6, RecordsAreThere DEF Records
<1>11. c.latest = t /\ c.content = old.content /\ c.answer = old.answer /\ c.open = old.open
  BY <1>7 DEF Cards
<1>12. k.at = "patch" /\ k.card = call[a].card /\ k.text = t
  BY <1>2, <1>5, <1>8 DEF Calls
<1>13. old.open /\ t.answer = old.answer /\ old.latest.length <= t.length
  BY <1>1, <1>2, <1>3, <1>4, <1>5 DEF CallIs
<1>14. /\ old.content.length \in Nat /\ old.latest.length \in Nat /\ t.length \in Nat
       /\ old.content.length <= old.latest.length /\ (old.content = Blank \/ old.content.answer = old.answer)
  BY <1>2, <1>3, <1>4, FeishuAssumption DEF CardIs, Cards, Texts
<1>15. CardIs(c) /\ CallIs(k, c)
  <2>1. c.content.length <= c.latest.length
    BY <1>11, <1>13, <1>14
  <2> QED BY <1>11, <1>12, <1>13, <1>14, <2>1 DEF CardIs, CallIs
<1>16. a = "pool" => t.length <= job.text.length
  <2>1. a = "pool" => t = job.text
    BY <1>1, <1>5 DEF OneContext
  <2> QED BY <1>14, <2>1
<1>17. Grows
  <2>1. i \in 1 .. Len(cards) /\ cards' = [cards EXCEPT ![i] = c]
    BY <1>2, <1>3, <1>9
  <2>2. c.content.length >= cards[i].content.length
    BY <1>4, <1>11, <1>14
  <2> QED BY <2>1, <2>2, OneCardGrows
<1>18. k.at \in Working /\ k.text = call[a].text /\ c.answer = cards[call[a].card].answer
       /\ r.saved = c.latest
  BY <1>3, <1>4, <1>5, <1>10, <1>11, <1>12 DEF Working
<1>19. a = "pool" /\ k.at \in {"idle", "update", "patch"} => c.latest.length <= job.text.length
  BY <1>11, <1>16
<1>20. a = "pool" => IF call[a].at \in {"update", "patch"}
                     THEN k.at \in {"idle", "update", "patch"} /\ (k # NoCall => k.text = call[a].text)
                     ELSE k.at \in {"finish", "seal", "cleanup"}
  BY <1>1, <1>12, <1>18
<1> HIDE DEF Save
<1> QED BY <1>1, <1>9, <1>10, <1>12, <1>15, <1>17, <1>18, <1>19, <1>20, WorkStep
\* The PATCH shows what was saved, which is no less than what was there.
LEMMA PatchOwn ==
    ASSUME TypeInv, TypeInv', OneContext, CardsAgree, NEW a \in Threads, Patch(a)
    PROVE  OneContext' /\ CardsAgree' /\ Grows
<1>1. call[a].at = "patch" /\ call[a].at \in Working /\ UNCHANGED <<ctx, job, held>>
  BY DEF Patch, Working
<1>2. /\ ctx = a /\ context[a] \in Records /\ context[a].card = call[a].card
      /\ call[a].card \in 1 .. Len(cards) /\ cards[call[a].card] \in Cards
      /\ CardIs(cards[call[a].card]) /\ CallIs(call[a], cards[call[a].card])
      /\ context[a].saved = cards[call[a].card].latest
      /\ call[a] \in Calls /\ a # "none"
  BY <1>1, CardInHand, ThreadFacts
<1>3. PICK i : i = call[a].card
  OBVIOUS
<1>4. PICK old \in Cards : old = cards[i]
  BY <1>2, <1>3
<1>5. PICK t \in Texts : t = call[a].text
  BY <1>2 DEF Calls
<1>6. PICK r : r = context[a]
  OBVIOUS
<1>7. PICK c : c = [old EXCEPT !.content = t, !.open = TRUE]
  OBVIOUS
<1>8. PICK k : k = AfterUpdate(a)
  OBVIOUS
<1>9. call' = [call EXCEPT ![a] = k] /\ cards' = [cards EXCEPT ![call[a].card] = c]
  BY <1>2, <1>3, <1>4, <1>5, <1>7, <1>8 DEF Patch
<1>10. context' = [context EXCEPT ![a] = r]
  <2>1. context' = context /\ context \in [Threads -> Contexts]
    BY DEF Patch, TypeInv, TypeOK
  <2> QED BY <1>6, <2>1
<1>11. c.latest = old.latest /\ c.content = t /\ c.answer = old.answer /\ c.open = TRUE
  BY <1>7 DEF Cards
<1>12. t = old.latest /\ t.answer = old.answer
  BY <1>1, <1>2, <1>3, <1>4, <1>5 DEF CallIs
<1>13. /\ old.content.length \in Nat /\ t.length \in Nat /\ old.content.length <= t.length
  BY <1>2, <1>3, <1>4, <1>12, FeishuAssumption DEF CardIs, Cards, Texts
<1>14. CardIs(c)
  BY <1>11, <1>12, <1>13 DEF CardIs
<1>15. /\ a = "pool" => k = NoCall /\ k.at = "idle"
       /\ a # "pool" => k.at \in {"update", "finish"} /\ k.card = call[a].card
                        /\ k.text.answer = t.answer /\ k.text.length >= t.length
  BY <1>1, <1>2, <1>5, <1>8, AfterUpdateIs, ThreadFacts
<1>16. CallIs(k, c)
  BY <1>11, <1>12, <1>15 DEF CallIs
<1>17. a = "pool" => c.latest.length <= job.text.length
  BY <1>1, <1>2, <1>3, <1>4, <1>11 DEF CardsAgree
<1>18. Grows
  <2>1. i \in 1 .. Len(cards) /\ cards' = [cards EXCEPT ![i] = c]
    BY <1>2, <1>3, <1>9
  <2>2. c.content.length >= cards[i].content.length
    BY <1>4, <1>11, <1>13
  <2> QED BY <2>1, <2>2, OneCardGrows
<1>19. /\ (k.at \in Working /\ k.card = call[a].card) \/ (a = "pool" /\ k = NoCall)
       /\ a = "pool" => IF call[a].at \in {"update", "patch"}
                        THEN k.at \in {"idle", "update", "patch"} /\ (k # NoCall => k.text = call[a].text)
                        ELSE k.at \in {"finish", "seal", "cleanup"}
  BY <1>1, <1>15 DEF Working
<1>20. r # None /\ r.card = call[a].card /\ r.saved = c.latest
       /\ c.answer = cards[call[a].card].answer
  BY <1>2, <1>3, <1>4, <1>6, <1>11, RecordsAreThere
<1>21. OneContext' /\ CardsAgree'
  BY <1>1, <1>9, <1>10, <1>14, <1>16, <1>17, <1>19, <1>20, WorkStep
<1> QED BY <1>18, <1>21

\* The last request shows what was saved last.
LEMMA SealOwn ==
    ASSUME TypeInv, TypeInv', OneContext, CardsAgree, NEW a \in Threads, Seal(a)
    PROVE  OneContext' /\ CardsAgree' /\ Grows
<1>1. call[a].at = "seal" /\ call[a].at \in Working /\ UNCHANGED <<ctx, job, held>>
  BY DEF Seal, Working
<1>2. /\ ctx = a /\ context[a] \in Records /\ context[a].card = call[a].card
      /\ call[a].card \in 1 .. Len(cards) /\ cards[call[a].card] \in Cards
      /\ CardIs(cards[call[a].card]) /\ CallIs(call[a], cards[call[a].card])
      /\ context[a].saved = cards[call[a].card].latest
      /\ call[a] \in Calls /\ a # "none"
  BY <1>1, CardInHand, ThreadFacts
<1>3. PICK i : i = call[a].card
  OBVIOUS
<1>4. PICK old \in Cards : old = cards[i]
  BY <1>2, <1>3
<1>5. PICK t \in Texts : t = call[a].text
  BY <1>2 DEF Calls
<1>6. PICK r : r = context[a]
  OBVIOUS
<1>7. PICK c : c = [old EXCEPT !.content = t, !.open = FALSE]
  OBVIOUS
<1>8. PICK k : k = [call[a] EXCEPT !.at = "cleanup"]
  OBVIOUS
<1>9. call' = [call EXCEPT ![a] = k] /\ cards' = [cards EXCEPT ![call[a].card] = c]
  BY <1>2, <1>3, <1>4, <1>5, <1>7, <1>8 DEF Seal
<1>10. context' = [context EXCEPT ![a] = r]
  <2>1. context' = context /\ context \in [Threads -> Contexts]
    BY DEF Seal, TypeInv, TypeOK
  <2> QED BY <1>6, <2>1
<1>11. c.latest = old.latest /\ c.content = t /\ c.answer = old.answer /\ c.open = FALSE
  BY <1>7 DEF Cards
<1>12. t = old.latest
  BY <1>1, <1>2, <1>3, <1>4, <1>5 DEF CallIs
<1>13. /\ old.content.length \in Nat /\ t.length \in Nat /\ old.content.length <= t.length
       /\ t = Blank \/ t.answer = old.answer
  BY <1>2, <1>3, <1>4, <1>12, FeishuAssumption DEF CardIs, Cards, Texts
<1>14. CardIs(c)
  BY <1>11, <1>12, <1>13 DEF CardIs
<1>15. k.at = "cleanup" /\ k.card = call[a].card
  BY <1>2, <1>8 DEF Calls
<1>16. CallIs(k, c)
  BY <1>15 DEF CallIs
<1>17. Grows
  <2>1. i \in 1 .. Len(cards) /\ cards' = [cards EXCEPT ![i] = c]
    BY <1>2, <1>3, <1>9
  <2>2. c.content.length >= cards[i].content.length
    BY <1>4, <1>11, <1>13
  <2> QED BY <2>1, <2>2, OneCardGrows
<1>18. /\ k.at \in Working /\ ~(k.at \in {"idle", "update", "patch"})
       /\ a = "pool" => IF call[a].at \in {"update", "patch"}
                        THEN k.at \in {"idle", "update", "patch"} /\ (k # NoCall => k.text = call[a].text)
                        ELSE k.at \in {"finish", "seal", "cleanup"}
  BY <1>1, <1>15 DEF Working
<1>19. r # None /\ r.card = call[a].card /\ r.saved = c.latest
       /\ c.answer = cards[call[a].card].answer
  BY <1>2, <1>3, <1>4, <1>6, <1>11, RecordsAreThere
<1>20. OneContext' /\ CardsAgree'
  BY <1>1, <1>9, <1>10, <1>14, <1>15, <1>16, <1>18, <1>19, WorkStep
<1> QED BY <1>17, <1>20

\* The steps in which no card is written.
LEMMA FailOwn ==
    ASSUME TypeInv, TypeInv', OneContext, CardsAgree, NEW a \in Threads,
           FailToUpdate(a) \/ ReadFinal(a) \/ FailToFinish(a)
    PROVE  OneContext' /\ CardsAgree' /\ Grows
<1>1. call[a].at \in {"update", "patch", "finish", "seal"} /\ call[a].at \in Working
      /\ UNCHANGED <<ctx, context, job, held, cards>>
  BY DEF FailToUpdate, ReadFinal, FailToFinish, Working
<1>2. /\ ctx = a /\ context[a] \in Records /\ context[a].card = call[a].card
      /\ call[a].card \in 1 .. Len(cards) /\ cards[call[a].card] \in Cards
      /\ CardIs(cards[call[a].card]) /\ CallIs(call[a], cards[call[a].card])
      /\ context[a].saved = cards[call[a].card].latest
      /\ call[a] \in Calls /\ a # "none"
  BY <1>1, CardInHand, ThreadFacts
<1>3. PICK c \in Cards : c = cards[call[a].card]
  BY <1>2
<1>4. CardIs(c) /\ CallIs(call[a], c) /\ c.open
  BY <1>1, <1>2, <1>3 DEF CallIs
<1>5. PICK k : call' = [call EXCEPT ![a] = k] /\
         \/ FailToUpdate(a) /\ k = AfterUpdate(a)
         \/ ReadFinal(a) /\ k = [call[a] EXCEPT !.at = "seal", !.text = context[a].saved]
         \/ FailToFinish(a) /\ k = [call[a] EXCEPT !.at = "cleanup"]
  <2>1. CASE FailToUpdate(a)
    BY <2>1 DEF FailToUpdate
  <2>2. CASE ReadFinal(a)
    BY <1>2, <2>2 DEF ReadFinal
  <2>3. CASE FailToFinish(a)
    BY <2>3 DEF FailToFinish
  <2> QED BY <2>1, <2>2, <2>3
<1>6. /\ (k.at \in Working /\ k.card = call[a].card) \/ (a = "pool" /\ k = NoCall)
      /\ a = "pool" => IF call[a].at \in {"update", "patch"}
                       THEN k.at \in {"idle", "update", "patch"} /\ (k # NoCall => k.text = call[a].text)
                       ELSE k.at \in {"finish", "seal", "cleanup"}
      /\ CallIs(k, c)
  <2>1. CASE FailToUpdate(a) /\ k = AfterUpdate(a)
    <3>1. call[a].at \in {"update", "patch"}
      BY <2>1 DEF FailToUpdate
    <3>2. /\ a = "pool" => k = NoCall /\ k.at = "idle"
          /\ a # "pool" => k.at \in {"update", "finish"} /\ k.card = call[a].card
                           /\ k.text.answer = call[a].text.answer
                           /\ k.text.length >= call[a].text.length
      BY <1>2, <2>1, <3>1, AfterUpdateIs, ThreadFacts
    <3>3. call[a].text.answer = c.answer /\ c.latest.length <= call[a].text.length
      <4>1. c.latest.length \in Nat
        BY FeishuAssumption DEF Cards, Texts
      <4> QED BY <1>4, <3>1, <4>1 DEF CallIs
    <3>4. /\ c.latest.length \in Nat /\ call[a].text.length \in Nat
          /\ a # "pool" => k.text.length \in Nat
      <4>1. AfterUpdate(a) \in Calls
        BY <3>1, AfterUpdateTyped DEF TypeInv
      <4>2. k \in Calls
        BY <2>1, <4>1
      <4>3. \A x \in Calls : x.text.length \in Nat
        BY FeishuAssumption DEF Calls, Texts
      <4>4. \A x \in Cards : x.latest.length \in Nat
        BY FeishuAssumption DEF Cards, Texts
      <4> QED BY <1>2, <4>2, <4>3, <4>4
    <3>5. a # "pool" => k.text.answer = c.answer /\ c.latest.length <= k.text.length
      BY <3>2, <3>3, <3>4
    <3>6. CallIs(k, c)
      BY <1>4, <3>2, <3>5 DEF CallIs
    <3> QED BY <3>1, <3>2, <3>6 DEF Working
  <2>2. CASE ReadFinal(a) /\ k = [call[a] EXCEPT !.at = "seal", !.text = context[a].saved]
    <3>1. call[a].at = "finish"
      BY <2>2 DEF ReadFinal
    <3>2. k.at = "seal" /\ k.card = call[a].card /\ k.text = c.latest
      BY <1>2, <1>3, <2>2 DEF Calls
    <3> QED BY <1>4, <3>1, <3>2 DEF CallIs, Working
  <2>3. CASE FailToFinish(a) /\ k = [call[a] EXCEPT !.at = "cleanup"]
    <3>1. call[a].at \in {"finish", "seal"}
      BY <2>3 DEF FailToFinish
    <3>2. k.at = "cleanup" /\ k.card = call[a].card
      BY <1>2, <2>3 DEF Calls
    <3> QED BY <3>1, <3>2 DEF CallIs, Working
  <2> QED BY <1>5, <2>1, <2>2, <2>3
<1>7. CallIs(k, cards[call[a].card])
  BY <1>3, <1>6
<1> QED BY <1>1, <1>5, <1>6, <1>7, OnlyCallStep
\* A new card is blank and the only one in work: no other context is in use.
LEMMA CreateOwn ==
    ASSUME TypeInv, TypeInv', OneContext, CardsAgree, ~overlap', NEW a \in Threads, CreateCard(a)
    PROVE  OneContext' /\ CardsAgree' /\ Grows
<1>1. /\ call[a].at = "create" /\ ctx' = a /\ UNCHANGED <<job, held>>
      /\ ~Occupied(a)
  BY DEF CreateCard
<1>2. /\ ctx = "none" /\ \A b \in Threads : b # a => context[b] = None
      /\ a # "pool" => call["pool"] = NoCall
  BY <1>1 DEF Occupied
<1>3. PICK t \in Texts : t = call[a].text
  BY DEF TypeInv, TypeOK, Calls
<1>4. PICK chat : cards' = Append(cards, NewCard(chat, t.answer))
  BY <1>3 DEF CreateCard
<1>5. PICK c : c = NewCard(chat, t.answer)
  OBVIOUS
<1>6. c.answer = t.answer /\ c.content = Blank /\ c.latest = Blank /\ c.open = TRUE
  BY <1>5 DEF NewCard
<1>7. PICK n \in Nat : n = Len(cards) + 1
  BY LenProperties DEF TypeInv, TypeOK
<1>8. /\ cards \in Seq(Cards) /\ Len(cards') = n /\ cards'[n] = c
      /\ \A i \in 1 .. Len(cards) : cards'[i] = cards[i]
      /\ \A i \in 1 .. n : i = n \/ i \in 1 .. Len(cards)
      /\ n \in 1 .. n
  <2>1. cards \in Seq(Cards)
    BY DEF TypeInv, TypeOK, Cards
  <2>2. cards' = Append(cards, c)
    BY <1>4, <1>5
  <2> QED BY <1>7, <2>1, <2>2, AppendProperties
<1>9. PICK k : k = [call[a] EXCEPT !.at = "update", !.to = None, !.card = n]
  OBVIOUS
<1>10. call' = [call EXCEPT ![a] = k]
       /\ context' = [context EXCEPT ![a] = [card |-> n, saved |-> Blank]]
  BY <1>8, <1>9 DEF CreateCard
<1>11. k.at = "update" /\ k.card = n /\ k.text = t
  BY <1>3, <1>9 DEF TypeInv, TypeOK, Calls
<1>12. /\ call'[a] = k /\ context'[a] = [card |-> n, saved |-> Blank]
       /\ \A b \in Threads : b # a => call'[b] = call[b] /\ context'[b] = context[b]
  BY <1>10 DEF TypeInv, TypeOK
<1>13. context'[a].card = n /\ context'[a].saved = Blank
  BY <1>12
<1>14. \A b \in Threads : call[b].at \notin Working
  BY <1>2, ThreadFacts DEF OneContext
<1>15. OneContext'
  <2>1. \A b \in Threads : context'[b] # None => ctx' = b
    BY <1>1, <1>2, <1>12
  <2>2. \A b \in Threads : call'[b].at \in Working => ctx' = b /\ call'[b].card = context'[b].card
    BY <1>1, <1>11, <1>12, <1>13, <1>14
  <2>3. \A b \in Threads : call'[b].at = "idle" => call'[b] = NoCall
    BY <1>11, <1>12 DEF OneContext
  <2>4. ctx' \in Senders => call'[ctx'].at \in Working /\ call'["pool"].at = "idle"
    BY <1>1, <1>2, <1>11, <1>12, ThreadFacts DEF Working
  <2>5. call'["pool"].at = "create" => ctx' = "none"
    <3>1. CASE a = "pool"
      BY <1>11, <1>12, <3>1
    <3>2. CASE a # "pool"
      BY <1>2, <1>12, <3>2, ThreadFacts
    <3> QED BY <3>1, <3>2
  <2>6. call'["pool"].at \in {"create", "update", "patch"} =>
           call'["pool"].text = job'.text /\ job'.kind \in Going
    <3>1. CASE a = "pool"
      BY <1>1, <1>3, <1>11, <1>12, <3>1 DEF OneContext
    <3>2. CASE a # "pool"
      BY <1>2, <1>12, <3>2, ThreadFacts
    <3> QED BY <3>1, <3>2
  <2>7. call'["pool"].at \in {"finish", "seal", "cleanup"} => held' = "pool"
    <3>1. CASE a = "pool"
      BY <1>11, <1>12, <3>1
    <3>2. CASE a # "pool"
      BY <1>2, <1>12, <3>2, ThreadFacts
    <3> QED BY <3>1, <3>2
  <2> QED BY <2>1, <2>2, <2>3, <2>4, <2>5, <2>6, <2>7 DEF OneContext
<1>16. t.length \in Nat /\ Blank.length <= t.length
  BY FeishuAssumption, ThreadFacts DEF Texts
<1>17. CardsAgree'
  <2>1. CardIs(c)
    <3>1. Blank.length <= Blank.length
      BY ThreadFacts
    <3> QED BY <1>6, <3>1 DEF CardIs
  <2>2. \A i \in 1 .. Len(cards') : CardIs(cards'[i])
    BY <1>8, <2>1 DEF CardsAgree
  <2>3. CallIs(k, c)
    BY <1>6, <1>11, <1>16 DEF CallIs
  <2>4. /\ context'[ctx'].card \in 1 .. Len(cards')
        /\ context'[ctx'].saved = cards'[context'[ctx'].card].latest
        /\ CallIs(call'[ctx'], cards'[context'[ctx'].card])
    BY <1>1, <1>6, <1>8, <1>12, <1>13, <2>3
  <2>5. a = "pool" => t = job.text /\ job.kind \in Going
    BY <1>1, <1>3 DEF OneContext
  <2>6. ctx' = "pool" /\ call'["pool"].at \in {"idle", "update", "patch"} =>
          /\ job'.kind \in Going
          /\ job'.text.answer = cards'[context'["pool"].card].answer
          /\ cards'[context'["pool"].card].latest.length <= job'.text.length
    BY <1>1, <1>6, <1>8, <1>13, <1>16, <2>5
  <2> QED BY <2>2, <2>4, <2>6 DEF CardsAgree
<1>18. Grows
  <2>1. \A i \in 1 .. Len(cards) : cards[i] \in Cards
    BY <1>8, ElementOfSeq
  <2>2. \A x \in Cards : x.content.length >= x.content.length
    BY FeishuAssumption DEF Cards, Texts
  <2>3. \A i \in 1 .. Len(cards) : cards[i].content.length >= cards[i].content.length
    BY <2>1, <2>2
  <2> QED BY <1>8, <2>3 DEF Grows
<1> QED BY <1>15, <1>17, <1>18

\* The steps that only begin or give up a call of a thread without a context.
LEMMA AsideOwn ==
    ASSUME TypeInv, TypeInv', OneContext, CardsAgree, NEW a \in Threads,
           UNCHANGED <<ctx, context, job, held, cards>>, ctx # a,
           NEW k, call' = [call EXCEPT ![a] = k],
           k.at = "create" \/ k = NoCall,
           a = "pool" => k = NoCall
    PROVE  OneContext' /\ CardsAgree' /\ Grows
<1>1. /\ call'[a] = k /\ \A b \in Threads : b # a => call'[b] = call[b]
  BY DEF TypeInv, TypeOK
<1>2. k.at \notin Working /\ k.at \in {"create", "idle"} /\ (k.at = "idle" => k = NoCall)
  BY ThreadFacts
<1>3. OneContext'
  <2>1. \A b \in Threads : context'[b] # None => ctx' = b
    BY DEF OneContext
  <2>2. \A b \in Threads : call'[b].at \in Working => ctx' = b /\ call'[b].card = context'[b].card
    BY <1>1, <1>2 DEF OneContext
  <2>3. \A b \in Threads : call'[b].at = "idle" => call'[b] = NoCall
    BY <1>1, <1>2 DEF OneContext
  <2>4. call'["pool"] = NoCall \/ call'["pool"] = call["pool"]
    BY <1>1, ThreadFacts
  <2>5. ctx' \in Senders => call'[ctx'].at \in Working /\ call'["pool"].at = "idle"
    BY <1>1, <2>4, ThreadFacts DEF OneContext
  <2>6. /\ call'["pool"].at = "create" => ctx' = "none"
        /\ call'["pool"].at \in {"create", "update", "patch"} =>
              call'["pool"].text = job'.text /\ job'.kind \in Going
        /\ call'["pool"].at \in {"finish", "seal", "cleanup"} => held' = "pool"
    BY <2>4, ThreadFacts DEF OneContext
  <2> QED BY <2>1, <2>2, <2>3, <2>5, <2>6 DEF OneContext
<1>4. CardsAgree'
  <2>1. ctx # "none" => ctx \in Threads /\ call'[ctx] = call[ctx]
    BY <1>1 DEF TypeInv, TypeOK
  <2> QED BY <2>1 DEF CardsAgree
<1> QED BY <1>3, <1>4, SameCardsGrow

\* A context is given up: there is none.
LEMMA ReleaseOwn ==
    ASSUME TypeInv, TypeInv', OneContext, CardsAgree,
           NEW a \in Threads, ctx = a, call[a].at = "cleanup",
           ctx' = "none", context' = [context EXCEPT ![a] = None],
           UNCHANGED <<job, held, cards>>,
           NEW k, call' = [call EXCEPT ![a] = k],
           \/ k = NoCall
           \/ a = "pool" /\ k.at = "create" /\ k.text = job.text /\ job.kind \in Going
    PROVE  OneContext' /\ CardsAgree' /\ Grows
<1>1. /\ call'[a] = k /\ context'[a] = None
      /\ \A b \in Threads : b # a => call'[b] = call[b] /\ context'[b] = context[b]
  BY DEF TypeInv, TypeOK
<1>2. \A b \in Threads : b # a => context[b] = None /\ call[b].at \notin Working
  BY DEF OneContext
<1>3. k.at \notin Working /\ (k.at = "idle" => k = NoCall)
  BY ThreadFacts
<1>4. a # "pool" => call["pool"].at = "idle"
  BY ThreadFacts DEF OneContext
<1>5. OneContext'
  <2>1. \A b \in Threads : context'[b] # None => ctx' = b
    BY <1>1, <1>2
  <2>2. \A b \in Threads : call'[b].at \in Working => ctx' = b /\ call'[b].card = context'[b].card
    BY <1>1, <1>2, <1>3
  <2>3. \A b \in Threads : call'[b].at = "idle" => call'[b] = NoCall
    BY <1>1, <1>3 DEF OneContext
  <2>4. ctx' \notin Senders
    BY ThreadFacts
  <2>5. /\ call'["pool"].at \in {"create", "update", "patch"} =>
              call'["pool"].text = job'.text /\ job'.kind \in Going
        /\ call'["pool"].at \notin {"finish", "seal", "cleanup"}
    BY <1>1, <1>4, ThreadFacts
  <2> QED BY <2>1, <2>2, <2>3, <2>4, <2>5 DEF OneContext
<1>6. CardsAgree'
  BY DEF CardsAgree
<1> QED BY <1>5, <1>6, SameCardsGrow
\* The callback of the next task meets its own stream or none.
LEMMA TakeOwn ==
    ASSUME TypeInv, TypeInv', TasksFollow, OneContext, CardsAgree, ~overlap', TakeTask
    PROVE  OneContext' /\ CardsAgree' /\ Grows
<1>1. /\ tasks # <<>> /\ call["pool"] = NoCall /\ job' = Head(tasks) /\ held' = ctx
      /\ \A s \in Senders : call[s].at \in {"idle", "create"}
      /\ UNCHANGED <<ctx, context, cards>>
  BY DEF TakeTask
<1>2. ctx \in {"none", "pool"} /\ \A b \in Threads : b # "pool" => call[b].at \notin Working
  BY <1>1, ThreadFacts DEF OneContext, Working, TypeInv, TypeOK
<1>3. PICK j \in Jobs : j = job'
  <2>1. tasks \in Seq(Jobs)
    BY DEF TypeInv, TypeOK, Jobs
  <2> QED BY <1>1, <2>1, HeadTailProperties
<1>4. j.kind \in Kinds
  BY DEF Jobs
<1>5. PICK k : /\ call' = [call EXCEPT !["pool"] = k]
               /\ j.kind = "START" => k = StartCallback
               /\ j.kind = "UPDATE" => k = UpdateCallback
               /\ j.kind = "END" => k = EndCallback
  BY <1>3, <1>4 DEF TakeTask, Kinds
<1>6. /\ call'["pool"] = k /\ \A b \in Threads : b # "pool" => call'[b] = call[b]
  BY <1>5, ThreadFacts DEF TypeInv, TypeOK
<1>7. CASE ctx = "none"
  <2>1. k = NoCall \/ (j.kind = "START" /\ k.at = "create" /\ k.text = j.text)
    BY <1>3, <1>4, <1>5, <1>7 DEF StartCallback, UpdateCallback, EndCallback, Kinds, Call
  <2>2. k.at \notin Working /\ (k.at = "idle" => k = NoCall)
    BY <2>1, ThreadFacts
  <2>3. OneContext'
    <3>1. \A b \in Threads : context'[b] # None => ctx' = b
      BY <1>1 DEF OneContext
    <3>2. \A b \in Threads : call'[b].at \notin Working
      BY <1>2, <1>6, <2>2
    <3>3. \A b \in Threads : call'[b].at = "idle" => call'[b] = NoCall
      BY <1>6, <2>2 DEF OneContext
    <3>4. ctx' \notin Senders
      BY <1>1, <1>7, ThreadFacts
    <3>5. /\ call'["pool"].at \in {"create", "update", "patch"} =>
                call'["pool"].text = job'.text /\ job'.kind \in Going
          /\ call'["pool"].at \notin {"finish", "seal", "cleanup"}
      BY <1>3, <1>6, <2>1, ThreadFacts DEF Going
    <3> QED BY <1>1, <1>7, <3>1, <3>2, <3>3, <3>4, <3>5 DEF OneContext
  <2>4. CardsAgree'
    BY <1>1, <1>7 DEF CardsAgree
  <2> QED BY <1>1, <2>3, <2>4, SameCardsGrow
<1>8. CASE ctx = "pool"
  <2>1. PICK c : c = cards[context["pool"].card]
    OBVIOUS
  <2>2. /\ c.open /\ job.kind \in Going /\ job.text.answer = c.answer
        /\ c.latest.length <= job.text.length
        /\ context["pool"].card \in 1 .. Len(cards)
        /\ context["pool"].saved = c.latest
    <3>1. call["pool"].at = "idle" /\ CallIs(call[ctx], c) /\ call[ctx].at # "cleanup"
      BY <1>1, <1>8, <2>1, ThreadFacts DEF CardsAgree
    <3> QED BY <1>8, <2>1, <3>1 DEF CardsAgree, CallIs
  <2>3. c.latest.length \in Nat /\ job.text.length \in Nat /\ j.text.length \in Nat
    <3>1. cards \in Seq(Cards)
      BY DEF TypeInv, TypeOK, Cards
    <3>2. c \in Cards
      BY <2>1, <2>2, <3>1, ElementOfSeq
    <3>3. job \in Jobs
      <4>1. NoJob.kind = "NONE" /\ "NONE" \notin Going
        BY DEF NoJob, Task, Going
      <4>2. job \in Jobs \cup {NoJob}
        BY DEF TypeInv, TypeOK, Jobs
      <4> QED BY <2>2, <4>1, <4>2
    <3>4. \A x \in Jobs : x.text.length \in Nat
      BY FeishuAssumption DEF Jobs, Texts
    <3>5. \A x \in Cards : x.latest.length \in Nat
      BY FeishuAssumption DEF Cards, Texts
    <3> QED BY <3>2, <3>3, <3>4, <3>5
  <2>4. j.kind = "UPDATE" => j.text.answer = c.answer /\ c.latest.length <= j.text.length
    <3>1. 1 \in 1 .. Len(tasks) /\ j = tasks[1]
      <4>1. Len(tasks) \in Nat /\ Len(tasks) # 0
        BY <1>1, LenProperties, EmptySeq DEF TypeInv, TypeOK
      <4> QED BY <1>1, <1>3, <4>1
    <3>2. Before(job, tasks, 1) = job
      BY DEF Before
    <3>3. j.kind = "UPDATE" => job.text.answer = j.text.answer /\ job.text.length < j.text.length
      BY <3>1, <3>2 DEF TasksFollow
    <3> QED BY <2>2, <2>3, <3>3
  <2>5. /\ k.card = context["pool"].card
        /\ j.kind = "UPDATE" => k.at = "update" /\ k.text = j.text
        /\ j.kind # "UPDATE" => k.at = "finish"
    BY <1>3, <1>4, <1>5, <1>8 DEF StartCallback, UpdateCallback, EndCallback, Kinds, Call
  <2>6. k.at \in Working /\ k.at # "idle"
    BY <2>5 DEF Working
  <2>7. OneContext'
    <3>1. \A b \in Threads : context'[b] # None => ctx' = b
      BY <1>1 DEF OneContext
    <3>2. \A b \in Threads : call'[b].at \in Working => ctx' = b /\ call'[b].card = context'[b].card
      BY <1>1, <1>2, <1>6, <1>8, <2>5
    <3>3. \A b \in Threads : call'[b].at = "idle" => call'[b] = NoCall
      BY <1>6, <2>6 DEF OneContext
    <3>4. ctx' \notin Senders
      BY <1>1, <1>8, ThreadFacts
    <3>5. /\ call'["pool"].at \in {"create", "update", "patch"} =>
                call'["pool"].text = job'.text /\ job'.kind \in Going
          /\ call'["pool"].at # "create"
      BY <1>3, <1>6, <2>5 DEF Going
    <3> QED BY <1>1, <1>8, <3>1, <3>2, <3>3, <3>4, <3>5 DEF OneContext
  <2>8. CallIs(k, c)
    BY <2>2, <2>4, <2>5 DEF CallIs
  <2>9. CardsAgree'
    <3>1. \A i \in 1 .. Len(cards') : CardIs(cards'[i])
      BY <1>1 DEF CardsAgree
    <3>2. call'["pool"].at \in {"idle", "update", "patch"} =>
            job'.kind \in Going /\ job'.text.answer = c.answer
            /\ c.latest.length <= job'.text.length
      BY <1>3, <1>6, <2>4, <2>5 DEF Going
    <3> QED BY <1>1, <1>6, <1>8, <2>1, <2>2, <2>8, <3>1, <3>2 DEF CardsAgree
  <2> QED BY <1>1, <2>7, <2>9, SameCardsGrow
<1> QED BY <1>2, <1>7, <1>8

\* Every step, until two contexts are in use at once.
LEMMA OwnStep ==
    ASSUME OwnInv, [Next]_vars
    PROVE  OwnInv' /\ (~overlap' => Grows)
<1>1. OverlapInv' /\ TasksFollow' /\ TypeInv /\ TypeInv' /\ OverlapInv /\ TasksFollow
  BY OverlapStep, FollowStep DEF OwnInv, OverlapInv
<1> SUFFICES ASSUME ~overlap' PROVE OneContext' /\ CardsAgree' /\ Grows
  BY <1>1 DEF OwnInv
<1>2. ~overlap
  <2>1. overlap => overlap'
    <3>1. CASE UNCHANGED overlap
      BY <3>1
    <3>2. CASE TakeTask
      BY <3>2 DEF TakeTask
    <3>3. ASSUME NEW a \in Threads, Requests(a) PROVE overlap => overlap'
      BY <3>3 DEF Requests, CreateCard, FailToCreate, Save, Patch, FailToUpdate, ReadFinal, Seal,
                  FailToFinish
    <3>4. CASE Receiver \/ TakeMessage \/ Stream \/ EndAnswer \/ SendAnswer \/ SendNotice
               \/ (\E s \in Senders : ReturnFromSend(s)) \/ FreeContext \/ UNCHANGED vars
      BY <3>1, <3>4 DEF Receiver, Arrive, Enqueue, SwapTarget, RestoreTarget, TakeMessage, Stream,
            EndAnswer, SendAnswer, SendNotice, BeginSend, ReturnFromSend, FreeContext, vars
    <3> QED BY <3>2, <3>3, <3>4 DEF Next
  <2> QED BY <2>1
<1>3. OneContext /\ CardsAgree
  BY <1>2 DEF OwnInv
<1>4. CASE Receiver \/ TakeMessage \/ Stream \/ EndAnswer \/ UNCHANGED vars
  <2>1. UNCHANGED <<ctx, context, call, job, held, cards>>
    BY <1>4 DEF Receiver, Arrive, Enqueue, SwapTarget, RestoreTarget, TakeMessage, Stream,
                EndAnswer, vars, calls
  <2> QED BY <1>1, <1>3, <2>1, SameCardsGrow DEF OneContext, CardsAgree
<1>5. ASSUME NEW s \in Senders, NEW n, BeginSend(s, n)
      PROVE  OneContext' /\ CardsAgree' /\ Grows
  <2>1. /\ call[s].at = "idle" /\ UNCHANGED <<ctx, context, job, held, cards>>
        /\ s \in Threads /\ s # "pool"
    BY <1>5, ThreadFacts DEF BeginSend
  <2>2. PICK k : k = Call("create", receiveId, 0, Text(n, 1))
    OBVIOUS
  <2>3. k.at = "create" /\ call' = [call EXCEPT ![s] = k]
    BY <1>5, <2>2 DEF BeginSend, Call
  <2>4. ctx # s
    BY <1>3, <2>1, ThreadFacts DEF OneContext
  <2> QED BY <1>1, <1>3, <2>1, <2>3, <2>4, AsideOwn
<1>6. CASE SendAnswer \/ SendNotice
  BY <1>5, <1>6 DEF SendAnswer, SendNotice, Senders
<1>7. CASE TakeTask
  BY <1>1, <1>3, <1>7, TakeOwn
<1>8. ASSUME NEW a \in Threads, FailToCreate(a)
      PROVE  OneContext' /\ CardsAgree' /\ Grows
  <2>1. /\ call[a].at = "create" /\ UNCHANGED <<ctx, context, job, held, cards>>
        /\ call' = [call EXCEPT ![a] = NoCall]
    BY <1>8 DEF FailToCreate
  <2>2. ctx # a
    BY <1>3, <2>1, ThreadFacts DEF OneContext
  <2> QED BY <1>1, <1>3, <2>1, <2>2, AsideOwn
<1>9. ASSUME NEW a \in Threads, Requests(a)
      PROVE  OneContext' /\ CardsAgree' /\ Grows
  BY <1>1, <1>3, <1>8, <1>9, CreateOwn, SaveOwn, PatchOwn, SealOwn, FailOwn DEF Requests
<1>10. ASSUME NEW s \in Senders, ReturnFromSend(s)
       PROVE  OneContext' /\ CardsAgree' /\ Grows
  <2>1. /\ s \in Threads /\ call[s].at = "cleanup" /\ ctx' = "none"
        /\ context' = [context EXCEPT ![s] = None] /\ call' = [call EXCEPT ![s] = NoCall]
        /\ UNCHANGED <<job, held, cards>>
    BY <1>10, ThreadFacts DEF ReturnFromSend
  <2>2. ctx = s
    BY <1>3, <2>1 DEF OneContext, Working
  <2> QED BY <1>1, <1>3, <2>1, <2>2, ReleaseOwn
<1>11. CASE FreeContext
  <2>1. /\ call["pool"].at = "cleanup" /\ ctx' = "none" /\ "pool" \in Threads
        /\ UNCHANGED <<job, held, cards>>
    BY <1>11, ThreadFacts DEF FreeContext
  <2>2. ctx = "pool" /\ held = "pool"
    BY <1>3, <2>1, ThreadFacts DEF OneContext, Working
  <2>3. context' = [context EXCEPT !["pool"] = None]
    BY <1>11, <2>2 DEF FreeContext
  <2>4. PICK k : k = IF job.kind = "START" THEN Call("create", receiveId, 0, job.text) ELSE NoCall
    OBVIOUS
  <2>5. /\ call' = [call EXCEPT !["pool"] = k]
        /\ k = NoCall \/ (k.at = "create" /\ k.text = job.text /\ job.kind \in Going)
    BY <1>11, <2>4 DEF FreeContext, Call, Going
  <2> QED BY <1>1, <1>3, <2>1, <2>2, <2>3, <2>5, ReleaseOwn
<1> QED BY <1>4, <1>6, <1>7, <1>9, <1>10, <1>11 DEF Next

LEMMA OwnInit == Init => OwnInv
<1> SUFFICES ASSUME Init PROVE OwnInv
  OBVIOUS
<1>1. OverlapInv
  BY TypeInit DEF Init, OverlapInv, Senders
<1>2. Len(tasks) = 0 /\ 1 .. 0 = {} /\ sent = 0 /\ Len(cards) = 0
  BY DEF Init
<1>3. TasksFollow
  BY <1>2, ThreadFacts DEF Init, TasksFollow
<1>4. ctx = "none" /\ held = "none" /\ \A b \in Threads : context[b] = None /\ call[b] = NoCall
  BY DEF Init
<1>5. OneContext
  BY <1>4, ThreadFacts DEF OneContext
<1>6. CardsAgree
  BY <1>2, <1>4 DEF CardsAgree
<1> QED BY <1>1, <1>3, <1>5, <1>6 DEF OwnInv

\* Whatever requests fail, a card shows nothing but text of the answer it was
\* created for, until two stream contexts are in use at once (feishu.c:418-501).
THEOREM CardsShowTheirAnswer == Spec => []ShowsItsOwnAnswer
<1>1. OwnInv => ShowsItsOwnAnswer
  BY DEF OwnInv, CardsAgree, CardIs, ShowsItsOwnAnswer
<1>2. OwnInv /\ [Next]_vars => OwnInv'
  BY OwnStep
<1> QED BY <1>1, <1>2, OwnInit, PTL DEF Spec

\* A card that was ended shows the longest text for which there was a token,
\* also when the server refused it before (feishu.c:1427).
THEOREM FinishRepairs == Spec => []EndRepairsUpdates
<1>1. OwnInv => EndRepairsUpdates
  BY DEF OwnInv, CardsAgree, CardIs, EndRepairsUpdates
<1>2. OwnInv /\ [Next]_vars => OwnInv'
  BY OwnStep
<1> QED BY <1>1, <1>2, OwnInit, PTL DEF Spec

\* No step takes text away from a card: neither a failed update nor the final
\* request shows less than was there, without an overlap.
THEOREM CardsOnlyGrow == Spec => TextNeverShrinks
<1>1. OwnInv /\ [Next]_vars => OwnInv'
  BY OwnStep
<1>2. OwnInv /\ [Next]_vars =>
        [~overlap' => \A i \in 1 .. Len(cards) :
            cards'[i].content.length >= cards[i].content.length]_vars
  BY OwnStep DEF Grows
<1> QED BY <1>1, <1>2, OwnInit, PTL DEF Spec, TextNeverShrinks
=============================================================================
