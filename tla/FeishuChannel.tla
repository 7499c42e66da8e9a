--------------------------- MODULE FeishuChannel ---------------------------
(***************************************************************************)
(* The Feishu channel in API mode (gateway/feishu.c, feishu_ws.c).  One    *)
(* thread receives the server's events, drops those it has just seen, and  *)
(* makes the chat of each new one the target of replies.  The agent        *)
(* answers the messages in order, as a stream of tasks or in one piece;    *)
(* the tasks reach the stream callbacks one at a time and in order, on a   *)
(* pool thread (the promise of SerialChannel).  A whole text, of the agent *)
(* or of another thread (the Weixin login notices), is sent by the sender  *)
(* itself in feishu_stream_send, on a card of its own, with a context on   *)
(* its stack that it installs in the same field as the pool's.  Every      *)
(* request may fail: no token, or no answer from the server.               *)
(***************************************************************************)
EXTENDS Naturals, Sequences, FiniteSets

CONSTANTS Events,        \* the events of the server, each with its trace_id
          Commands,      \* those that are a slash command
          Chats,
          ChatOf,        \* event -> its chat_id
          Configured,    \* the receive_id of the configuration
          CacheSize,     \* TRACE_ID_CACHE_SIZE: 64 in the program
          Bounds,        \* bounds, one of which limits a behaviour: arrivals (events
                         \* delivered, repetitions included), replies, notices
          MaxLength,     \* bound: the length of an answer's text
          None           \* no event, no chat, no context

ASSUME FeishuAssumption ==
    /\ Commands \subseteq Events
    /\ ChatOf \in [Events -> Chats]
    /\ Configured \in Chats
    /\ CacheSize \in Nat \ {0}
    /\ MaxLength \in Nat \ {0}
    /\ Bounds \subseteq [arrivals : Nat, replies : Nat, notices : Nat]
    /\ None \notin Events \cup Chats
    /\ None \notin [card : Nat, saved : [answer : Nat, length : Nat]]

\* The threads that send whole texts, and all that touch the stream context.
Senders == {"agent", "notifier"}
Threads == Senders \cup {"pool"}

\* A text is as much as there is of an answer so far; a card starts blank.
Text(k, n) == [answer |-> k, length |-> n]
Blank == Text(0, 0)

\* A StreamTaskNode, and none.
Task(kind, text) == [kind |-> kind, text |-> text]
NoJob == Task("NONE", Blank)

\* A message on the server, as feishu_stream_create makes it; "latest" is the
\* last text there was a token for (history).
NewCard(chat, k) ==
    [chat |-> chat, answer |-> k, content |-> Blank, latest |-> Blank, open |-> TRUE]

\* Where a thread is in the stream functions, the receive_id it was called
\* with, the message_id it works on, the text it sends.
Call(at, to, card, text) == [at |-> at, to |-> to, card |-> card, text |-> text]
NoCall == Call("idle", None, 0, Blank)

VARIABLES ring, ringIndex,   \* trace_id_cache, trace_id_cache_index
          receiveId,         \* config->receive_id
          at, event,         \* receiver: where it is, and its event
          original,          \* receiver: orig_receive_id of feishu_reply_to_chat
          inbox,             \* the agent's messages: [event, arrival]
          reply, sent,       \* the agent: its answer, and the length streamed
          tasks,             \* the channel's list of tasks
          ctx,               \* channel->stream_ctx: the thread it belongs to
          context,           \* thread -> its context: [card, saved]
          call,              \* thread -> its call of a stream function
          job, held,         \* pool thread: its task; the context it saw
          cards,             \* the server's messages
          aborted,           \* the program ended in free()
          arrivals,          \* history: the deliveries, [event, accepted]
          answers,           \* history: answer -> the message it answers
          bound,             \* the member of Bounds that limits this behaviour
          overlap            \* history: two contexts have been in use at once

receiver == <<ring, ringIndex, receiveId, at, event, original, arrivals>>
agent == <<inbox, reply, sent>>
senders == <<agent, answers>>
calls == <<ctx, context, call, job, held>>
vars == <<receiver, senders, tasks, calls, cards, aborted, bound, overlap>>

Init ==
    /\ bound \in Bounds
    /\ ring = [i \in 0..CacheSize-1 |-> None]
    /\ ringIndex = 0
    /\ receiveId = Configured
    /\ at = "idle" /\ event = None /\ original = None
    /\ inbox = <<>> /\ reply = 0 /\ sent = 0
    /\ tasks = <<>>
    /\ ctx = "none"
    /\ context = [a \in Threads |-> None]
    /\ call = [a \in Threads |-> NoCall]
    /\ job = NoJob /\ held = "none"
    /\ cards = <<>>
    /\ aborted = FALSE
    /\ arrivals = <<>> /\ answers = <<>> /\ overlap = FALSE

-----------------------------------------------------------------------------
(* Plausible slips in the code below: each is what a property must notice. *)

ArriveWrapsEarly(e) ==              \* the last slot of the ring is never used
    /\ at = "idle"
    /\ Len(arrivals) < bound.arrivals
    /\ LET seen == \E i \in 0..CacheSize-1 : ring[i] = e
       IN  /\ arrivals' = Append(arrivals, [event |-> e, accepted |-> ~seen])
           /\ ring' = IF seen THEN ring ELSE [ring EXCEPT ![ringIndex] = e]
           /\ ringIndex' = IF seen THEN ringIndex ELSE (ringIndex + 1) % (CacheSize - 1)
           /\ at' = IF seen THEN at ELSE "dispatch"
           /\ event' = IF seen THEN event ELSE e
           /\ receiveId' = IF seen THEN receiveId ELSE ChatOf[e]
    /\ UNCHANGED <<original, senders, tasks, calls, cards, aborted, bound, overlap>>

ArriveTargetsFirst(e) ==            \* the target is set before the check
    /\ at = "idle"
    /\ Len(arrivals) < bound.arrivals
    /\ LET seen == \E i \in 0..CacheSize-1 : ring[i] = e
       IN  /\ arrivals' = Append(arrivals, [event |-> e, accepted |-> ~seen])
           /\ ring' = IF seen THEN ring ELSE [ring EXCEPT ![ringIndex] = e]
           /\ ringIndex' = IF seen THEN ringIndex ELSE (ringIndex + 1) % CacheSize
           /\ at' = IF seen THEN at ELSE "dispatch"
           /\ event' = IF seen THEN event ELSE e
    /\ receiveId' = ChatOf[e]
    /\ UNCHANGED <<original, senders, tasks, calls, cards, aborted, bound, overlap>>

CreateCardKeepsNull(a) ==           \* no context: every later step finds none
    /\ call[a].at = "create"
    /\ \E chat \in {call[a].to, receiveId} :
          cards' = Append(cards, NewCard(chat, call[a].text.answer))
    /\ call' = [call EXCEPT ![a].at = "update", ![a].to = None, ![a].card = Len(cards')]
    /\ UNCHANGED <<receiver, senders, tasks, ctx, context, job, held, aborted, bound, overlap>>

SaveFirstOnly(a) ==                 \* current_content is set only when it is NULL
    /\ call[a].at = "update"
    /\ context' = IF ctx = "none" \/ context[ctx].saved # Blank THEN context
                  ELSE [context EXCEPT ![ctx].saved = call[a].text]
    /\ cards' = [cards EXCEPT ![call[a].card].latest = call[a].text]
    /\ call' = [call EXCEPT ![a].at = "patch"]
    /\ UNCHANGED <<receiver, senders, tasks, ctx, job, held, aborted, bound, overlap>>

ReturnKeepsContext(s) ==            \* stream_ctx is left pointing to the stack
    /\ call[s].at = "cleanup"
    /\ call' = [call EXCEPT ![s] = NoCall]
    /\ reply' = IF s = "agent" THEN 0 ELSE reply
    /\ UNCHANGED <<receiver, inbox, sent, answers, tasks, ctx, context, job, held,
                   cards, aborted, bound, overlap>>

FreeKeepsContext ==                 \* the end of a stream leaves its context
    /\ call["pool"].at = "cleanup"
    /\ call' = [call EXCEPT !["pool"] =
                   IF job.kind = "START" THEN Call("create", receiveId, 0, job.text) ELSE NoCall]
    /\ UNCHANGED <<receiver, senders, tasks, ctx, context, job, held, cards, aborted, bound, overlap>>

-----------------------------------------------------------------------------
(* The receiving thread.                                                   *)

Seen(e) == \E i \in 0..CacheSize-1 : ring[i] = e

\* feishu_is_duplicate_message: a repeated event is answered and forgotten;
\* a new one makes its chat the target (feishu_set_receive_id).
Arrive(e) ==
    /\ at = "idle"
    /\ Len(arrivals) < bound.arrivals
    /\ arrivals' = Append(arrivals, [event |-> e, accepted |-> ~Seen(e)])
    /\ IF Seen(e)
       THEN UNCHANGED <<ring, ringIndex, receiveId, at, event>>
       ELSE /\ ring' = [ring EXCEPT ![ringIndex] = e]
            /\ ringIndex' = (ringIndex + 1) % CacheSize
            /\ receiveId' = ChatOf[e]
            /\ at' = "dispatch" /\ event' = e
    /\ UNCHANGED <<original, senders, tasks, calls, cards, aborted, bound, overlap>>

\* A message goes to the agent.
Enqueue ==
    /\ at = "dispatch" /\ event \notin Commands
    /\ inbox' = Append(inbox, [event |-> event, arrival |-> Len(arrivals)])
    /\ at' = "idle" /\ event' = None
    /\ UNCHANGED <<ring, ringIndex, receiveId, original, arrivals, reply, sent,
                   answers, tasks, calls, cards, aborted, bound, overlap>>

\* A command has its reply at once: feishu_reply_to_chat puts its chat in the
\* place of receive_id while it sends.
SwapTarget ==
    /\ at = "dispatch" /\ event \in Commands
    /\ original' = receiveId
    /\ receiveId' = ChatOf[event]
    /\ at' = "reply"
    /\ UNCHANGED <<ring, ringIndex, event, arrivals,
                   senders, tasks, calls, cards, aborted, bound, overlap>>

RestoreTarget ==
    /\ at = "reply"
    /\ receiveId' = original
    /\ at' = "idle" /\ event' = None /\ original' = None
    /\ UNCHANGED <<ring, ringIndex, arrivals, senders, tasks, calls, cards, aborted,
                   bound, overlap>>

Receiver == (\E e \in Events : Arrive(e)) \/ Enqueue \/ SwapTarget \/ RestoreTarget

-----------------------------------------------------------------------------
(* The agent, and the threads that send a notice.                          *)

\* How many texts of the kind there have been.
Answered(which) == Len(SelectSeq(answers, LAMBDA a : a.event \in which))

TakeMessage ==
    /\ inbox # <<>> /\ reply = 0
    /\ Answered(Events) < bound.replies
    /\ answers' = Append(answers, Head(inbox))
    /\ inbox' = Tail(inbox)
    /\ reply' = Len(answers) + 1 /\ sent' = 0
    /\ UNCHANGED <<receiver, tasks, calls, cards, aborted, bound, overlap>>

\* The next task of a streamed answer; each carries all the text so far.
Stream ==
    /\ reply # 0 /\ call["agent"] = NoCall
    /\ sent < MaxLength
    /\ tasks' = Append(tasks, Task(IF sent = 0 THEN "START" ELSE "UPDATE", Text(reply, sent + 1)))
    /\ sent' = sent + 1
    /\ UNCHANGED <<receiver, inbox, reply, answers, calls, cards, aborted, bound, overlap>>

\* A streamed answer ends with its END; one without text ends without a word.
EndAnswer ==
    /\ reply # 0 /\ call["agent"] = NoCall
    /\ tasks' = IF sent > 0 THEN Append(tasks, Task("END", Blank)) ELSE tasks
    /\ reply' = 0 /\ sent' = 0
    /\ UNCHANGED <<receiver, inbox, answers, calls, cards, aborted, bound, overlap>>

\* channel_send_message: stream_send is set, so feishu_stream_send is called.
BeginSend(s, k) ==
    /\ call[s] = NoCall
    /\ call' = [call EXCEPT ![s] = Call("create", receiveId, 0, Text(k, 1))]
    /\ UNCHANGED <<receiver, inbox, reply, sent, tasks, ctx, context, job, held,
                   cards, aborted, bound, overlap>>

SendAnswer ==
    /\ reply # 0 /\ sent = 0
    /\ BeginSend("agent", reply)
    /\ UNCHANGED answers

SendNotice ==
    /\ Answered({None}) < bound.notices
    /\ answers' = Append(answers, [event |-> None, arrival |-> 0])
    /\ BeginSend("notifier", Len(answers) + 1)

-----------------------------------------------------------------------------
(* The pool thread takes the channel's next task: the three callbacks.     *)

\* feishu_stream_start_callback first ends the stream that is open; without
\* one it creates a card at once.
StartCallback ==
    IF ctx = "none" THEN Call("create", receiveId, 0, job'.text)
    ELSE Call("finish", None, context[ctx].card, Blank)

\* The other two do nothing without a context, or work on its card.
UpdateCallback ==
    IF ctx = "none" THEN NoCall ELSE Call("update", None, context[ctx].card, job'.text)
EndCallback ==
    IF ctx = "none" THEN NoCall ELSE Call("finish", None, context[ctx].card, Blank)

TakeTask ==
    /\ tasks # <<>> /\ call["pool"] = NoCall
    /\ tasks' = Tail(tasks)
    /\ job' = Head(tasks)
    /\ held' = ctx
    /\ call' = [call EXCEPT !["pool"] = CASE job'.kind = "START" -> StartCallback
                                         [] job'.kind = "UPDATE" -> UpdateCallback
                                         [] job'.kind = "END" -> EndCallback]
    /\ overlap' = (overlap \/ \E s \in Senders : call[s].at \notin {"idle", "create"})
    /\ UNCHANGED <<receiver, senders, ctx, context, cards, aborted, bound>>

-----------------------------------------------------------------------------
(* feishu_stream_create, feishu_stream_update, feishu_stream_finish, on    *)
(* whatever thread.                                                        *)

\* Another context is in use, or a callback is: what may go wrong begins here.
Occupied(a) ==
    \/ ctx # "none"
    \/ a # "pool" /\ call["pool"] # NoCall
    \/ \E b \in Threads \ {a} : context[b] # None

\* The server makes a blank card, and the thread installs a context for it.
\* receive_id is a pointer: if it was replaced since the call, the thread may
\* read the new string or what is left of the old one.
CreateCard(a) ==
    /\ call[a].at = "create"
    /\ \E chat \in {call[a].to, receiveId} :
          cards' = Append(cards, NewCard(chat, call[a].text.answer))
    /\ context' = [context EXCEPT ![a] = [card |-> Len(cards'), saved |-> Blank]]
    /\ ctx' = a
    /\ call' = [call EXCEPT ![a].at = "update", ![a].to = None, ![a].card = Len(cards')]
    /\ overlap' = (overlap \/ Occupied(a))
    /\ UNCHANGED <<receiver, senders, tasks, job, held, aborted, bound>>

\* No card: the callback or feishu_stream_send returns false.
FailToCreate(a) ==
    /\ call[a].at = "create"
    /\ call' = [call EXCEPT ![a] = NoCall]
    /\ reply' = IF a = "agent" THEN 0 ELSE reply
    /\ UNCHANGED <<receiver, inbox, sent, answers, tasks, ctx, context, job, held,
                   cards, aborted, bound, overlap>>

\* With a token, the text becomes the current_content of the context that is
\* installed, whoever's it is.
Save(a) ==
    /\ call[a].at = "update"
    /\ context' = IF ctx = "none" THEN context ELSE [context EXCEPT ![ctx].saved = call[a].text]
    /\ cards' = [cards EXCEPT ![call[a].card].latest = call[a].text]
    /\ call' = [call EXCEPT ![a].at = "patch"]
    /\ UNCHANGED <<receiver, senders, tasks, ctx, job, held, aborted, bound, overlap>>

\* After an update the callback returns, and feishu_stream_send goes on with
\* the next batch or finishes; failures change nothing about it.
AfterUpdate(a) ==
    CASE a = "pool" -> NoCall
      [] a # "pool" /\ call[a].text.length < MaxLength ->
            [call[a] EXCEPT !.at = "update", !.text.length = @ + 1]
      [] OTHER -> [call[a] EXCEPT !.at = "finish"]

\* The PATCH is answered with 200.
Patch(a) ==
    /\ call[a].at = "patch"
    /\ cards' = [cards EXCEPT ![call[a].card].content = call[a].text, ![call[a].card].open = TRUE]
    /\ call' = [call EXCEPT ![a] = AfterUpdate(a)]
    /\ UNCHANGED <<receiver, senders, tasks, ctx, context, job, held, aborted, bound, overlap>>

\* No token, or no such answer.
FailToUpdate(a) ==
    /\ call[a].at \in {"update", "patch"}
    /\ call' = [call EXCEPT ![a] = AfterUpdate(a)]
    /\ UNCHANGED <<receiver, senders, tasks, ctx, context, job, held, cards, aborted, bound, overlap>>

\* With a token, the content saved last is what the card ends with.
ReadFinal(a) ==
    /\ call[a].at = "finish"
    /\ call' = [call EXCEPT ![a].at = "seal",
                   ![a].text = IF ctx = "none" THEN Blank ELSE context[ctx].saved]
    /\ UNCHANGED <<receiver, senders, tasks, ctx, context, job, held, cards, aborted, bound, overlap>>

Seal(a) ==
    /\ call[a].at = "seal"
    /\ cards' = [cards EXCEPT ![call[a].card].content = call[a].text, ![call[a].card].open = FALSE]
    /\ call' = [call EXCEPT ![a].at = "cleanup"]
    /\ UNCHANGED <<receiver, senders, tasks, ctx, context, job, held, aborted, bound, overlap>>

FailToFinish(a) ==
    /\ call[a].at \in {"finish", "seal"}
    /\ call' = [call EXCEPT ![a].at = "cleanup"]
    /\ UNCHANGED <<receiver, senders, tasks, ctx, context, job, held, cards, aborted, bound, overlap>>

\* feishu_stream_send takes its context away, or whichever is installed.
ReturnFromSend(s) ==
    /\ call[s].at = "cleanup"
    /\ ctx' = "none"
    /\ context' = [context EXCEPT ![s] = None]
    /\ call' = [call EXCEPT ![s] = NoCall]
    /\ reply' = IF s = "agent" THEN 0 ELSE reply
    /\ UNCHANGED <<receiver, inbox, sent, answers, tasks, job, held, cards, aborted,
                   bound, overlap>>

\* The callback frees the context it saw; a start goes on with its own card.
\* A sender's context is on its stack: free() ends the program.
FreeContext ==
    /\ call["pool"].at = "cleanup"
    /\ aborted' = (held \in Senders)
    /\ context' = [context EXCEPT ![held] = None]
    /\ ctx' = "none"
    /\ call' = [call EXCEPT !["pool"] =
                   IF job.kind = "START" THEN Call("create", receiveId, 0, job.text) ELSE NoCall]
    /\ UNCHANGED <<receiver, senders, tasks, job, held, cards, bound, overlap>>

Requests(a) ==
    \/ CreateCard(a) \/ FailToCreate(a)
    \/ Save(a) \/ Patch(a) \/ FailToUpdate(a)
    \/ ReadFinal(a) \/ Seal(a) \/ FailToFinish(a)

Next ==
    /\ ~aborted
    /\ \/ Receiver
       \/ TakeMessage \/ Stream \/ EndAnswer \/ SendAnswer \/ SendNotice
       \/ TakeTask
       \/ \E a \in Threads : Requests(a)
       \/ \E s \in Senders : ReturnFromSend(s)
       \/ FreeContext

Spec == Init /\ [][Next]_vars

-----------------------------------------------------------------------------
Texts == [answer : Nat, length : 0..MaxLength]
Contexts == [card : Nat \ {0}, saved : Texts] \cup {None}
Kinds == {"START", "UPDATE", "END"}
Calls == [at : {"idle", "create", "update", "patch", "finish", "seal", "cleanup"},
          to : Chats \cup {None}, card : Nat, text : Texts]

TypeOK ==
    /\ ring \in [0..CacheSize-1 -> Events \cup {None}]
    /\ ringIndex \in 0..CacheSize-1
    /\ receiveId \in Chats
    /\ at \in {"idle", "dispatch", "reply"}
    /\ event \in Events \cup {None}
    /\ original \in Chats \cup {None}
    /\ inbox \in Seq([event : Events, arrival : Nat])
    /\ reply \in 0..Len(answers)
    /\ sent \in 0..MaxLength
    /\ tasks \in Seq([kind : Kinds, text : Texts])
    /\ ctx \in Threads \cup {"none"}
    /\ ctx # "none" => context[ctx] # None
    /\ context \in [Threads -> Contexts]
    /\ call \in [Threads -> Calls]
    /\ job \in [kind : Kinds, text : Texts] \cup {NoJob}
    /\ held \in Threads \cup {"none"}
    /\ cards \in Seq([chat : Chats, answer : Nat, content : Texts, latest : Texts, open : BOOLEAN])
    /\ bound \in Bounds
    /\ aborted \in BOOLEAN /\ overlap \in BOOLEAN
    /\ arrivals \in Seq([event : Events, accepted : BOOLEAN])
    /\ answers \in Seq([event : Events \cup {None}, arrival : Nat])

\* Deduplication (feishu_ws.c:39-61), in both directions: a delivery is dropped
\* exactly when its event is among the last CacheSize that were accepted before
\* it.  A repetition within that window is never handled twice, and an event
\* that is new, or that was forgotten, is never lost.
DropsExactlyTheRecent ==
    \A i \in 1..Len(arrivals) :
        LET earlier(j) == {k \in (j+1)..(i-1) : arrivals[k].accepted}
        IN  ~arrivals[i].accepted <=>
                \E j \in 1..(i-1) :
                    /\ arrivals[j].accepted /\ arrivals[j].event = arrivals[i].event
                    /\ Cardinality(earlier(j)) < CacheSize

\* The reply target (feishu_ws.c:531, "dynamically updated, for the streamed
\* reply"): an answer goes to the chat of its message or, because the target is
\* one field of the channel, to that of an event accepted after the message;
\* never to an older chat.  Repeated deliveries do not move it back.
NeverToAnOlderChat ==
    \A i \in 1..Len(cards) :
        LET a == answers[cards[i].answer]
        IN  a.event # None /\ cards[i].chat # ChatOf[a.event] =>
                \E j \in (a.arrival + 1)..Len(arrivals) :
                    arrivals[j].accepted /\ ChatOf[arrivals[j].event] = cards[i].chat

\* Whatever requests fail, a card only ever shows text of the answer it was
\* created for, as long as no two stream contexts have been in use at once.
ShowsItsOwnAnswer ==
    ~overlap => \A i \in 1..Len(cards) :
                    cards[i].content = Blank \/ cards[i].content.answer = cards[i].answer

\* feishu_stream_finish repairs failed updates: a card that was ended shows the
\* longest text for which there was a token, also if the server refused it.
EndRepairsUpdates ==
    ~overlap => \A i \in 1..Len(cards) : ~cards[i].open => cards[i].content = cards[i].latest

\* A reader never sees text disappear from a card: neither a failed update nor
\* the final request replaces it by less, without an overlap.
TextNeverShrinks ==
    [][~overlap' => \A i \in 1..Len(cards) :
           cards'[i].content.length >= cards[i].content.length]_vars

\* The callbacks free a context of a sender's stack (feishu.c:435, :501) only
\* if a sender was inside feishu_stream_send while a callback ran; and stream_ctx
\* always points to a context that exists.
AbortsOnlyByOverlap == TypeOK /\ (aborted => overlap)
============================================================================
