--------------------------- MODULE WeixinChannel ---------------------------
(***************************************************************************)
(* The Weixin channel (gateway/weixin.c) as channels.c and the commands of *)
(* an operator drive it.  weixin_connect starts a detached polling thread: *)
(* it logs in by QR code, asks for the messages after the cursor, and for  *)
(* each one installs a stream context that names the sender before it      *)
(* passes the message on.  The agent answers in order; the stream          *)
(* callbacks, on a pool thread, find the receiver in that context.         *)
(***************************************************************************)
EXTENDS Naturals, Sequences, FiniteSets

CONSTANTS Pollers,       \* polling threads alive at once (bound)
          MaxArrivals,   \* bound: messages that reach the server
          KindOf,        \* message -> "text", "command", or "other": not from a
                         \* user or without a text
          MaxFailures    \* max_failures of weixin_polling_thread: 3

ASSUME WeixinAssumption ==
    /\ MaxArrivals \in Nat
    /\ KindOf \in [1 .. MaxArrivals -> {"text", "command", "other"}]
    /\ MaxFailures \in Nat \ {0}

\* WeixinStreamContext: the message whose sender and context_token it keeps, and
\* the answer accumulated in it (0: the empty text); serial tells contexts apart.
Context(n, m, k) == [serial |-> n, message |-> m, text |-> k]

NoContext == Context(0, 0, 0)

\* A polling thread that has received nothing; where = its place in the code.
NewThread(where) == [where |-> where, failures |-> 0, cursor |-> 0, batch |-> <<>>]

VARIABLES wxChannel,    \* ChannelInstance: [enabled, connected, ctx]
          wxConfig,     \* WeixinConfig: [loggedIn, cursor]
          wxPoller,     \* thread -> its state
          wxArrived,    \* messages the server has
          wxInbox,      \* the agent's messages
          wxReply,      \* the message the agent is answering as a stream, or 0
          wxTasks,      \* the channel's stream tasks: [kind, answer]
          wxHeld,       \* the context the END callback is sending from
          wxBroken,     \* a context was freed twice
          wxHandled,    \* history: the messages passed on, in order
          wxSent,       \* history: streamed answers [answer, to]
          wxShared      \* history: two polling threads were alive at once

wxVars == <<wxChannel, wxConfig, wxPoller, wxArrived, wxInbox, wxReply,
            wxTasks, wxHeld, wxBroken, wxHandled, wxSent, wxShared>>

StillPolling(p) == {t \in Pollers : p[t].where \notin {"none", "ended"}}

\* weixin_connect: one more thread, whatever threads there are.
StartPoller(t) ==
    /\ wxPoller[t].where \in {"none", "ended"}
    /\ wxPoller' = [wxPoller EXCEPT ![t] = NewThread("outer")]
    /\ wxShared' = (wxShared \/ StillPolling(wxPoller) # {})

\* channel_create, weixin_channel_init and channels_load_from_config: a stored
\* token means logged in and connected, and then channel_connect refuses.
WxInit ==
    \E stored, enabled \in BOOLEAN, t \in Pollers :
      /\ wxChannel = [enabled |-> enabled, connected |-> stored, ctx |-> NoContext]
      /\ wxConfig = [loggedIn |-> stored, cursor |-> 0]
      /\ wxPoller = [u \in Pollers |->
            IF u = t /\ enabled /\ ~stored
            THEN NewThread("outer") ELSE NewThread("none")]
      /\ wxArrived = 0 /\ wxInbox = <<>> /\ wxReply = 0 /\ wxTasks = <<>>
      /\ wxHeld = NoContext /\ wxBroken = FALSE
      /\ wxHandled = <<>> /\ wxSent = {} /\ wxShared = FALSE

-----------------------------------------------------------------------------
(* The operator's commands: /channel enable, disable, connect, disconnect. *)

channel_enable ==
    /\ wxChannel' = [wxChannel EXCEPT !.enabled = TRUE]
    /\ UNCHANGED <<wxPoller, wxShared>>

channel_disable ==
    /\ wxChannel' = [wxChannel EXCEPT !.enabled = FALSE, !.connected = FALSE]
    /\ UNCHANGED <<wxPoller, wxShared>>

channel_connect ==
    /\ wxChannel.enabled /\ ~wxChannel.connected
    /\ \E t \in Pollers : StartPoller(t)
    /\ UNCHANGED wxChannel

channel_disconnect ==
    /\ wxChannel.connected
    /\ wxChannel' = [wxChannel EXCEPT !.connected = FALSE]
    /\ UNCHANGED <<wxPoller, wxShared>>

WxOperator ==
    /\ channel_enable \/ channel_disable \/ channel_connect \/ channel_disconnect
    /\ UNCHANGED <<wxConfig, wxArrived, wxInbox, wxReply, wxTasks, wxHeld,
                   wxBroken, wxHandled, wxSent>>

-----------------------------------------------------------------------------
(* The polling thread. *)

Go(t, where) == wxPoller' = [wxPoller EXCEPT ![t].where = where]
StartPolling(t) == wxPoller' = [wxPoller EXCEPT ![t].where = "inner", ![t].failures = 0]
WxMemory == <<wxChannel, wxConfig, wxInbox, wxHandled>>

\* The head of the outer loop.
OuterTest(t) ==
    /\ wxPoller[t].where = "outer"
    /\ IF ~wxChannel.enabled THEN Go(t, "ended")
       ELSE IF wxConfig.loggedIn THEN StartPolling(t) ELSE Go(t, "login")
    /\ UNCHANGED WxMemory

\* weixin_get_qrcode, the notice to the other channels, the picture.
GetQrcode(t) ==
    /\ wxPoller[t].where = "login"
    /\ Go(t, "scan") \/ Go(t, "outer")
    /\ UNCHANGED WxMemory

\* weixin_check_qrcode_status reports that the code was scanned: the new token.
ScanConfirmed(t) ==
    /\ wxPoller[t].where = "scan"
    /\ wxConfig' = [wxConfig EXCEPT !.loggedIn = TRUE]
    /\ wxChannel' = [wxChannel EXCEPT !.connected = TRUE]
    /\ StartPolling(t)
    /\ UNCHANGED <<wxInbox, wxHandled>>

\* 120 seconds without a scan, or the channel was disabled meanwhile.
ScanGivenUp(t) ==
    /\ wxPoller[t].where = "scan"
    /\ IF wxConfig.loggedIn THEN StartPolling(t) ELSE Go(t, "outer")
    /\ UNCHANGED WxMemory

\* The head of the inner loop: the request of weixin_get_updates, or the end of it.
AskUpdates(t) ==
    /\ wxPoller[t].where = "inner"
    /\ IF wxConfig.loggedIn /\ wxChannel.enabled
       THEN wxPoller' = [wxPoller EXCEPT ![t].where = "waiting",
                                         ![t].cursor = wxConfig.cursor]
       ELSE Go(t, "left")
    /\ UNCHANGED WxMemory

GetUpdatesForgetsCursor(t) ==    \* new_cursor is not stored
    /\ wxPoller[t].where = "waiting" /\ wxArrived > wxPoller[t].cursor
    /\ wxPoller' = [wxPoller EXCEPT ![t].where = "handle",
                                    ![t].batch = <<wxPoller[t].cursor + 1>>]
    /\ UNCHANGED WxMemory

\* The answer of getupdates: the messages after the cursor that was sent, as many
\* as the server had when it answered, and the cursor behind the last of them.
GetUpdates(t) ==
    LET cursor == wxPoller[t].cursor IN
    /\ wxPoller[t].where = "waiting"
    /\ \E upto \in cursor .. wxArrived :
         /\ wxConfig' = [wxConfig EXCEPT !.cursor = upto]
         /\ wxPoller' = [wxPoller EXCEPT
              ![t].where = "handle", ![t].failures = 0,
              ![t].batch = [i \in 1 .. upto - cursor |-> cursor + i]]
    /\ UNCHANGED <<wxChannel, wxInbox, wxHandled>>

\* No answer, or a negative errcode: after max_failures the login is given up.
GetUpdatesFails(t) ==
    LET failures == wxPoller[t].failures + 1
        last == failures >= MaxFailures IN
    /\ wxPoller[t].where = "waiting"
    /\ wxPoller' = [wxPoller EXCEPT ![t].failures = failures,
                                    ![t].where = IF last THEN "left" ELSE "inner"]
    /\ wxConfig' = [wxConfig EXCEPT !.loggedIn = @ /\ ~last]
    /\ UNCHANGED <<wxChannel, wxInbox, wxHandled>>

HandleMessageKeepsContext(t) ==  \* the old context is kept until its END
    LET m == Head(wxPoller[t].batch) IN
    /\ wxPoller[t].where = "handle" /\ wxPoller[t].batch # <<>>
    /\ wxPoller' = [wxPoller EXCEPT ![t].batch = Tail(@)]
    /\ wxChannel' = IF wxChannel.ctx # NoContext THEN wxChannel
                    ELSE [wxChannel EXCEPT !.ctx = Context(Len(wxHandled) + 1, m, 0)]
    /\ wxHandled' = Append(wxHandled, m)
    /\ wxInbox' = IF KindOf[m] = "text" THEN Append(wxInbox, m) ELSE wxInbox
    /\ UNCHANGED wxConfig

\* One message of the batch: the old context is freed and replaced, then
\* channel_handle_incoming_message answers a command or passes the message on.
HandleMessage(t) ==
    LET m == Head(wxPoller[t].batch) IN
    /\ wxPoller[t].where = "handle" /\ wxPoller[t].batch # <<>>
    /\ wxPoller' = [wxPoller EXCEPT ![t].batch = Tail(@)]
    /\ IF KindOf[m] = "other" THEN UNCHANGED <<wxChannel, wxInbox, wxHandled>> ELSE
         /\ wxChannel' = [wxChannel EXCEPT !.ctx = Context(Len(wxHandled) + 1, m, 0)]
         /\ wxHandled' = Append(wxHandled, m)
         /\ wxInbox' = IF KindOf[m] = "text" THEN Append(wxInbox, m) ELSE wxInbox
    /\ UNCHANGED wxConfig

BatchDone(t) ==
    /\ wxPoller[t].where = "handle" /\ wxPoller[t].batch = <<>>
    /\ wxPoller' = [wxPoller EXCEPT ![t].where = "inner", ![t].cursor = 0]
    /\ UNCHANGED WxMemory

\* Behind the inner loop: a channel that was disconnected ends the thread.
AfterPolling(t) ==
    /\ wxPoller[t].where = "left"
    /\ Go(t, IF wxChannel.connected THEN "outer" ELSE "ended")
    /\ UNCHANGED WxMemory

weixin_polling_thread(t) ==
    /\ \/ OuterTest(t) \/ GetQrcode(t) \/ ScanConfirmed(t) \/ ScanGivenUp(t)
       \/ AskUpdates(t) \/ GetUpdates(t) \/ GetUpdatesFails(t)
       \/ HandleMessage(t) \/ BatchDone(t) \/ AfterPolling(t)
    /\ UNCHANGED <<wxArrived, wxReply, wxTasks, wxHeld, wxBroken, wxSent, wxShared>>

-----------------------------------------------------------------------------
(* The server, the agent and the pool thread. *)

WxArrive ==
    /\ wxArrived < MaxArrivals
    /\ wxArrived' = wxArrived + 1
    /\ UNCHANGED <<wxChannel, wxInbox, wxReply, wxTasks, wxHeld, wxBroken, wxSent>>

\* The agent takes the next message and, unless the model answers nothing, its
\* answer begins.  No test of enabled or connected stands before the tasks.
WxBeginReply ==
    /\ wxReply = 0 /\ wxInbox # <<>>
    /\ wxInbox' = Tail(wxInbox)
    /\ \/ UNCHANGED <<wxReply, wxTasks>>
       \/ /\ wxReply' = Head(wxInbox)
          /\ wxTasks' = Append(wxTasks, [kind |-> "START", answer |-> wxReply'])
    /\ UNCHANGED <<wxChannel, wxArrived, wxHeld, wxBroken, wxSent>>

WxEndReply ==
    /\ wxReply # 0
    /\ wxReply' = 0
    /\ \/ wxTasks' = Append(wxTasks, [kind |-> "END", answer |-> wxReply])
       \/ wxTasks' = wxTasks \o <<[kind |-> "UPDATE", answer |-> wxReply],
                                  [kind |-> "END", answer |-> wxReply]>>
    /\ UNCHANGED <<wxChannel, wxInbox, wxArrived, wxHeld, wxBroken, wxSent>>

\* weixin_stream_start_callback and weixin_stream_update_callback: the text goes
\* into the context that is there now.
Accumulate ==
    /\ wxHeld = NoContext /\ wxTasks # <<>> /\ Head(wxTasks).kind # "END"
    /\ wxTasks' = Tail(wxTasks)
    /\ wxChannel' = IF wxChannel.ctx = NoContext THEN wxChannel
                    ELSE [wxChannel EXCEPT !.ctx.text = Head(wxTasks).answer]
    /\ UNCHANGED <<wxInbox, wxArrived, wxReply, wxHeld, wxBroken, wxSent>>

\* weixin_stream_end_callback without a context, or with an empty text.
EndQuietly ==
    /\ wxHeld = NoContext /\ wxTasks # <<>> /\ Head(wxTasks).kind = "END"
    /\ wxChannel.ctx.text = 0
    /\ wxTasks' = Tail(wxTasks)
    /\ wxChannel' = [wxChannel EXCEPT !.ctx = NoContext]
    /\ UNCHANGED <<wxInbox, wxArrived, wxReply, wxHeld, wxBroken, wxSent>>

\* The same with a text: weixin_send_message_ex takes what it needs and sends.
EndSends ==
    /\ wxHeld = NoContext /\ wxTasks # <<>> /\ Head(wxTasks).kind = "END"
    /\ wxChannel.ctx.text # 0
    /\ wxHeld' = wxChannel.ctx
    /\ UNCHANGED <<wxChannel, wxTasks, wxInbox, wxArrived, wxReply, wxBroken, wxSent>>

\* The request has ended, well or not, and the context it came from is freed: for
\* the second time if HandleMessage replaced it meanwhile.
EndFrees ==
    /\ wxHeld # NoContext
    /\ wxSent' \in {wxSent, wxSent \cup {[answer |-> wxHeld.text, to |-> wxHeld.message]}}
    /\ wxBroken' = (wxChannel.ctx.serial # wxHeld.serial)
    /\ wxChannel' = [wxChannel EXCEPT !.ctx = NoContext]
    /\ wxHeld' = NoContext
    /\ wxTasks' = Tail(wxTasks)
    /\ UNCHANGED <<wxInbox, wxArrived, wxReply>>

WxSurroundings ==
    /\ \/ WxArrive \/ WxBeginReply \/ WxEndReply
       \/ Accumulate \/ EndQuietly \/ EndSends \/ EndFrees
    /\ UNCHANGED <<wxConfig, wxPoller, wxHandled, wxShared>>

WxNext ==
    /\ ~wxBroken
    /\ WxOperator \/ (\E t \in Pollers : weixin_polling_thread(t)) \/ WxSurroundings

WxSpec == WxInit /\ [][WxNext]_wxVars

-----------------------------------------------------------------------------
(* Properties. *)

Contexts == [serial : Nat, message : 0 .. MaxArrivals, text : 0 .. MaxArrivals]

WxTypeOK ==
    /\ wxChannel \in [enabled : BOOLEAN, connected : BOOLEAN, ctx : Contexts]
    /\ wxConfig \in [loggedIn : BOOLEAN, cursor : 0 .. MaxArrivals]
    /\ wxPoller \in [Pollers -> [where : {"none", "outer", "login", "scan", "inner",
                                          "waiting", "handle", "left", "ended"},
                                 failures : 0 .. MaxFailures,
                                 cursor : 0 .. MaxArrivals, batch : Seq(1 .. MaxArrivals)]]
    /\ wxArrived \in 0 .. MaxArrivals /\ wxReply \in 0 .. MaxArrivals
    /\ wxInbox \in Seq(1 .. MaxArrivals) /\ wxHandled \in Seq(1 .. MaxArrivals)
    /\ wxHeld \in Contexts /\ wxBroken \in BOOLEAN /\ wxShared \in BOOLEAN
    /\ wxSent \subseteq [answer : 1 .. MaxArrivals, to : 1 .. MaxArrivals]

Wanted(m) == KindOf[m] # "other"

\* No failure, repeated login, disabling or reconnection makes the cursor pass a
\* message that was not handled; and a polling thread that was never joined by a
\* second one handles each message once, in the order of arrival.
EachMessageHandledOnce ==
    LET batch(t) == {wxPoller[t].batch[i] : i \in DOMAIN wxPoller[t].batch}
        handled == {wxHandled[i] : i \in DOMAIN wxHandled} IN
    /\ WxTypeOK
    /\ \A m \in 1 .. wxConfig.cursor :
         Wanted(m) => m \in handled \cup UNION {batch(t) : t \in Pollers}
    /\ ~wxShared => \A i, j \in DOMAIN wxHandled :
         i < j => wxHandled[i] < wxHandled[j]

\* The receiver of an answer is looked up when its END is processed: it may be the
\* sender of a later message, but never of an earlier one.
NeverToAnOlderSender ==
    ~wxShared => \A s \in wxSent : s.to >= s.answer

\* weixin.c:574 on the context made for each message: it keeps the right
\* context_token, "防止被新消息覆盖" (lest a new message overwrite it).
ReplyReachesItsSender == \A s \in wxSent : s.to = s.answer
=============================================================================
