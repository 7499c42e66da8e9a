---------------------------- MODULE AgentStream ----------------------------
(***************************************************************************)
(* The producer of the streaming tasks (agent/context.c, "streaming        *)
(* message system"): while the model answers, stream_callback turns the    *)
(* chunks into START and UPDATE tasks for the channels, throttled and held *)
(* back while the text may be a tool call; when the call returns, the      *)
(* agent's worker thread sends what is left and the END, or, when it did   *)
(* not stream, the whole answer.  The tasks go through StreamQueue.        *)
(***************************************************************************)
EXTENDS StreamQueue

CONSTANTS Agent,       \* the worker thread of the agent, the one submitter
          ChannelList, \* the channels in the order channels_foreach visits them
          Streaming,   \* the channels that have the three stream callbacks
          MinChars,    \* STREAM_MIN_CHARS
          MaxText,     \* bound: the length of an answer
          MaxReplies   \* bound: the number of calls of the model

ASSUME AgentStreamAssumption ==
    /\ Agent \in Submitters
    /\ ChannelList \in Seq(Channels)
    /\ \A i, j \in DOMAIN ChannelList : ChannelList[i] = ChannelList[j] => i = j
    /\ Streaming \subseteq Channels
    /\ MinChars \in Nat /\ MaxText \in Nat /\ MaxReplies \in Nat
    /\ (1..MaxReplies) \X (0..MaxText) \subseteq Contents

VARIABLES asking,   \* the thread is inside ai_model_send_messages
          text,     \* the length of what the provider has accumulated
          active,   \* StreamState.active
          acc,      \* the length of StreamState.accumulated_content
          sent,     \* StreamState.last_sent_len
          todo,     \* the calls of the iterator left in channels_foreach
          replies,  \* history: the calls that returned
          whole     \* history: channel -> the replies sent to it in one piece

producerVars == <<asking, text, active, acc, sent, todo, replies, whole>>
agentVars == <<vars, producerVars>>

Outcomes == {"answer", "tools", "failed"}

AgentInit ==
    /\ Init
    /\ asking = FALSE
    /\ text = 0
    /\ active = FALSE
    /\ acc = 0
    /\ sent = 0
    /\ todo = <<>>
    /\ replies = <<>>
    /\ whole = [c \in Channels |-> {}]

\* The text of the call in progress up to length n.
Content(n) == <<Len(replies) + 1, n>>

\* channels_foreach: the iterator is called for each channel of the list.
Foreach(kind, n) ==
    [i \in DOMAIN ChannelList |->
        [chan |-> ChannelList[i], task |-> [kind |-> kind, content |-> Content(n)]]]

\* The thread is between two submissions and has none left to make.
Free == todo = <<>> /\ toAdd[Agent] = NoChannel

\* One step of channels_foreach: the iterator looks for the callback, and if the
\* channel has it, runs channel_stream_submit_task up to its unlock.
SubmitNext ==
    /\ todo # <<>>
    /\ toAdd[Agent] = NoChannel
    /\ IF Head(todo).chan \in Streaming
       THEN Submit(Agent, Head(todo).chan, Head(todo).task)
       ELSE UNCHANGED <<queue, processing, toAdd, jobs, threadVars, submitted, delivered>>
    /\ todo' = Tail(todo)
    /\ UNCHANGED <<issued, asking, text, active, acc, sent, replies, whole>>

\* The worker's loop begins an iteration with a fresh StreamState.
Ask ==
    /\ Free
    /\ ~asking
    /\ Len(replies) < MaxReplies
    /\ asking' = TRUE
    /\ text' = 0 /\ active' = FALSE /\ acc' = 0 /\ sent' = 0
    /\ UNCHANGED <<vars, todo, replies, whole>>

-----------------------------------------------------------------------------
(* Plausible slips in the code below. *)

StartForgetsSent(n) ==         \* last_sent_len is only set by updates
    /\ ~active
    /\ active' = TRUE
    /\ acc' = n
    /\ todo' = Foreach("START", n)
    /\ UNCHANGED sent

EndDropsRest ==                \* end_stream_message forgets the throttled rest
    IF active THEN Foreach("END", 0) ELSE <<>>

-----------------------------------------------------------------------------
(* stream_callback, called for each chunk: n is the new accumulated length. *)

\* tool_calls_is_complete says no: nothing is recorded.
HoldBack == UNCHANGED <<active, acc, sent, todo>>

\* The first text that may be shown starts the stream.
StartStream(n) ==
    /\ ~active
    /\ active' = TRUE
    /\ acc' = n
    /\ sent' = n
    /\ todo' = Foreach("START", n)

\* Later text is shown when enough time has passed or enough has come.
Update(n) ==
    /\ active
    /\ acc' = n
    /\ sent' = n
    /\ todo' = Foreach("UPDATE", n)
    /\ UNCHANGED active

\* Neither enough time nor enough text: it is kept for later.
Throttle(n) ==
    /\ active
    /\ n - sent < MinChars
    /\ acc' = n
    /\ UNCHANGED <<active, sent, todo>>

Chunk ==
    /\ asking
    /\ Free
    /\ \E n \in text+1..MaxText :
        /\ text' = n
        /\ HoldBack \/ StartStream(n) \/ Update(n) \/ Throttle(n)
    /\ UNCHANGED <<vars, asking, replies, whole>>

-----------------------------------------------------------------------------
\* The tasks end_stream_message submits: what is left of the text, then END.
EndStream ==
    IF active
    THEN (IF acc > sent THEN Foreach("UPDATE", acc) ELSE <<>>) \o Foreach("END", 0)
    ELSE <<>>

\* ai_model_send_messages returned: every path of the worker's loop runs
\* end_stream_message; an answer that was not streamed goes out in one piece.
Return(outcome) ==
    /\ asking
    /\ Free
    /\ asking' = FALSE
    /\ todo' = EndStream
    /\ whole' = IF outcome = "answer" /\ ~active
                THEN [c \in Channels |-> whole[c] \cup {Len(replies) + 1}]
                ELSE whole
    /\ replies' = Append(replies, [outcome |-> outcome, streamed |-> active,
                                   full |-> text, shown |-> acc])
    /\ active' = FALSE /\ acc' = 0 /\ sent' = 0
    /\ UNCHANGED <<vars, text>>

AgentThread ==
    \/ SubmitNext
    \/ AddJob(Agent) /\ UNCHANGED producerVars

AgentNext ==
    \/ AgentThread
    \/ Ask
    \/ Chunk
    \/ \E o \in Outcomes : Return(o)
    \/ \E w \in Workers : Thread(w) /\ UNCHANGED producerVars

AgentSpec == AgentInit /\ [][AgentNext]_agentVars

\* The agent's thread gets through its submissions, the pool threads run.
\* The model need not answer.
AgentFairSpec ==
    /\ AgentSpec
    /\ WF_agentVars(AgentThread)
    /\ \A w \in Workers : WF_agentVars(Thread(w) /\ UNCHANGED producerVars)

-----------------------------------------------------------------------------
AgentTypeOK ==
    /\ TypeOK
    /\ asking \in BOOLEAN /\ active \in BOOLEAN
    /\ text \in 0..MaxText /\ acc \in 0..text /\ sent \in 0..acc
    /\ todo \in Seq([chan : Channels, task : Tasks])
    /\ replies \in Seq([outcome : Outcomes, streamed : BOOLEAN,
                        full : 0..MaxText, shown : 0..MaxText])
    /\ whole \in [Channels -> SUBSET (1..MaxReplies)]

\* The callbacks of a channel see a dialogue they can follow: START, then
\* UPDATEs of the same reply with ever longer text, then END, then the next
\* START; across replies, and whatever the pool threads do; and the stream's
\* counters keep their order: what was sent, accumulated, received.
WellFormedStream ==
  /\ AgentTypeOK
  /\ \A c \in Channels : \A i \in 1..Len(delivered[c]) :
        LET t == delivered[c][i]
            before == delivered[c][i - 1]
            first == i = 1 \/ before.kind = "END"
        IN  CASE t.kind = "START" -> first
              [] t.kind = "UPDATE" ->
                    /\ ~first
                    /\ t.content[1] = before.content[1]
                    /\ t.content[2] > before.content[2]
              [] t.kind = "END" -> ~first /\ t.content[1] = before.content[1]

\* However the throttle cuts a reply up, the END of its stream follows the
\* longest text that stream_callback accepted: nothing accepted is left out.
RestBeforeEnd ==
    \A c \in Channels : \A i \in 2..Len(delivered[c]) :
        delivered[c][i].kind = "END" =>
            LET before == delivered[c][i - 1].content
            IN  before[2] = replies[before[1]].shown

\* The agent's thread gets through its submissions: waiting for room in the
\* pool never blocks it for good.
SubmissionsFinish == (todo # <<>>) ~> Free

\* channels.h:180: the tasks of a channel are processed, one after the other.
EveryTaskProcessed ==
    \A c \in Channels : (queue[c] # <<>>) ~> (queue[c] = <<>>)

\* context.c:975-976: a reply that was streamed has been sent in the
\* callbacks, so the whole text need not be sent.  When nothing is left to
\* submit, every answer has reached every connected channel in full.
AnswerReachesChannels ==
    Free => \A r \in 1..Len(replies), c \in Channels :
        replies[r].outcome = "answer" =>
            \/ r \in whole[c]
            \/ \E i \in 1..Len(submitted[c]) :
                submitted[c][i].content = <<r, replies[r].full>>
============================================================================
