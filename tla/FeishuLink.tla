----------------------------- MODULE FeishuLink -----------------------------
(***************************************************************************)
(* The link to the Feishu server: the WebSocket client of                  *)
(* common/ws_client.c with gateway/feishu_ws.c on top of it.  gateway_start*)
(* connects once and starts the event loop; the loop collects bytes in a   *)
(* buffer, takes a frame out of it, and for an event hands the message on  *)
(* and answers with a response frame that repeats the headers of the       *)
(* request.  gateway_stop joins the loop before it frees the client.       *)
(* A frame travels in parts, so that a read may end inside it.             *)
(***************************************************************************)
EXTENDS Naturals, SequencesExt

CONSTANTS MaxFrames,      \* bound: frames the server sends
          Events,         \* messages of the server, which may send one again
          BufferParts     \* recv_buffer_size, in parts of a frame

ASSUME LinkAssumption == MaxFrames \in Nat /\ BufferParts \in Nat \ {0}

VARIABLES lkClient,   \* WsClient, FeishuWsClient: [state, running, open, buffer]
          lkLoop,     \* ws_client_event_loop: "none", "ready", "handling", "ended"
          lkMain,     \* gateway_start, gateway_stop: where the main thread is
          lkWire,     \* parts on their way to the client
          lkLost,     \* the peer has gone
          lkSent,     \* history: the frames the server sent
          lkSkipped,  \* history: frames read together with the handshake response
          lkTaken,    \* history: how many frames the loop took after these
          lkPosted,   \* history: messages handed to the channel, in order
          lkAcked     \* response frames, as the event they repeat

lkVars == <<lkClient, lkLoop, lkMain, lkWire, lkLost, lkSent, lkSkipped, lkTaken,
            lkPosted, lkAcked>>

\* "silent": an event that feishu_parse_message finds no text in; "large": an event
\* that does not fit the buffer; "other": a frame of another type.
Frames == [kind : {"event"}, event : Events]
            \cup [kind : {"silent", "large", "ping", "close", "other"}, event : {"-"}]
Size(f) == CASE f.kind \in {"event", "silent"} -> 2
             [] f.kind = "large" -> BufferParts + 1
             [] OTHER -> 1
Parts(n, f) == [i \in 1 .. Size(f) |-> [frame |-> n, part |-> i]]
\* The parts of the n frames of sent behind the first done.
PartsBehind(sent, done, n) == FlattenSeq([i \in 1 .. n |-> Parts(done + i, sent[done + i])])

LinkInit ==
    /\ lkClient = [state |-> "disconnected", running |-> FALSE, open |-> FALSE,
                   buffer |-> <<>>]
    /\ lkLoop = "none" /\ lkMain = "starting" /\ lkWire = <<>> /\ lkLost = FALSE
    /\ lkSent = <<>> /\ lkSkipped = 0 /\ lkTaken = 0 /\ lkPosted = <<>> /\ lkAcked = <<>>

-----------------------------------------------------------------------------
(* The main thread: feishu_ws_start and, after a failure or at the end,     *)
(* feishu_ws_destroy.                                                       *)

LinkHistory == <<lkSent, lkTaken, lkPosted, lkAcked>>

\* No endpoint, no client, or a connection that fails: the client is destroyed.
StartFails ==
    /\ lkMain \in {"starting", "handshake"}
    /\ lkMain' = "freed"
    /\ lkClient' = [lkClient EXCEPT !.state = "disconnected", !.open = FALSE]
    /\ UNCHANGED <<lkLoop, lkWire, lkLost, lkSkipped, LinkHistory>>

\* ws_client_connect up to the request of the handshake.
Connect ==
    /\ lkMain = "starting"
    /\ lkMain' = "handshake"
    /\ lkClient' = [lkClient EXCEPT !.state = "connecting", !.open = TRUE]
    /\ UNCHANGED <<lkLoop, lkWire, lkLost, lkSkipped, LinkHistory>>

\* One recv takes the response, and with it the frames that have arrived by then
\* (whole ones: a bound); all behind the response is dropped.
ws_client_handshake ==
    /\ lkMain = "handshake"
    /\ \E n \in 0 .. Len(lkSent) :
         LET with == PartsBehind(lkSent, 0, n) IN
         /\ IsPrefix(with, lkWire)
         /\ lkSkipped' = n
         /\ lkWire' = SubSeq(lkWire, Len(with) + 1, Len(lkWire))
    /\ lkClient' = [lkClient EXCEPT !.state = "connected", !.buffer = <<>>]
    /\ lkMain' = "connected"
    /\ UNCHANGED <<lkLoop, lkLost, LinkHistory>>

\* ws_client_start: the thread, or a failure that ends in feishu_ws_destroy.
StartLoop ==
    /\ lkMain = "connected"
    /\ \/ /\ lkMain' = "up" /\ lkLoop' = "ready"
          /\ lkClient' = [lkClient EXCEPT !.running = TRUE]
       \/ /\ lkMain' = "freed" /\ lkLoop' = "none"
          /\ lkClient' = [lkClient EXCEPT !.state = "disconnected", !.open = FALSE]
    /\ UNCHANGED <<lkWire, lkLost, lkSkipped, LinkHistory>>

\* gateway_stop, feishu_ws_stop, ws_client_stop: the flag, then the join.
StopLoop ==
    /\ lkMain = "up"
    /\ lkMain' = "joining"
    /\ lkClient' = [lkClient EXCEPT !.running = FALSE]
    /\ UNCHANGED <<lkLoop, lkWire, lkLost, lkSkipped, LinkHistory>>

\* The join returns; then ws_client_disconnect and ws_client_destroy.
Destroy ==
    /\ lkMain = "joining" /\ lkLoop = "ended"
    /\ lkMain' = "freed"
    /\ lkClient' = [lkClient EXCEPT !.state = "disconnected", !.open = FALSE]
    /\ UNCHANGED <<lkLoop, lkWire, lkLost, lkSkipped, LinkHistory>>

-----------------------------------------------------------------------------
(* The event loop.                                                          *)

LoopEndsWhileConnected ==        \* the flag is tested behind the state only
    /\ lkLoop = "ready" /\ ~lkClient.running /\ lkClient.state = "connected"
    /\ lkLoop' = "ended"
    /\ UNCHANGED <<lkClient, lkMain, lkWire, lkLost, lkSkipped, LinkHistory>>

\* The head of the loop, and the test behind select.  A client that has lost its
\* connection sleeps here until it is stopped.
LoopEnds ==
    /\ lkLoop = "ready" /\ ~lkClient.running
    /\ lkLoop' = "ended"
    /\ UNCHANGED <<lkClient, lkMain, lkWire, lkLost, lkSkipped, LinkHistory>>

Polling == lkLoop = "ready" /\ lkClient.state = "connected"
Complete(buffer) == buffer # <<>> /\ Size(lkSent[buffer[1].frame]) <= Len(buffer)
FirstSize(buffer) == Size(lkSent[buffer[1].frame])

\* The buffer behind its first frame: memmove to the front.
RestForgets(buffer) == <<>>      \* recv_buffer_len is reset when a frame was taken
Rest(buffer) == SubSeq(buffer, FirstSize(buffer) + 1, Len(buffer))

\* ws_client_recv_frame when select reports data: what the buffer has room for, or
\* less, is read, and one frame is taken if it is complete.  A full buffer is not
\* read into; a second frame in the buffer waits for more data.
ws_client_recv_frame ==
    LET space == BufferParts - Len(lkClient.buffer) IN
    /\ Polling /\ lkWire # <<>>
    /\ \E n \in IF space = 0 THEN {0} ELSE 1 .. space :
         LET buffer == lkClient.buffer \o SubSeq(lkWire, 1, n) IN
         /\ n <= Len(lkWire)
         /\ lkWire' = SubSeq(lkWire, n + 1, Len(lkWire))
         /\ IF Complete(buffer)
            THEN /\ lkLoop' = "handling" /\ lkTaken' = lkTaken + 1
                 /\ lkClient' = [lkClient EXCEPT !.buffer = Rest(buffer)]
            ELSE /\ UNCHANGED <<lkLoop, lkTaken>>
                 /\ lkClient' = [lkClient EXCEPT !.buffer = buffer]
    /\ UNCHANGED <<lkMain, lkLost, lkSkipped, lkSent, lkPosted, lkAcked>>

\* recv returns 0 or an error: ERROR, which nothing but gateway_stop leaves.
ConnectionLost ==
    /\ Polling /\ lkLost /\ lkWire = <<>> /\ Len(lkClient.buffer) < BufferParts
    /\ lkClient' = [lkClient EXCEPT !.state = "error"]
    /\ UNCHANGED <<lkLoop, lkMain, lkWire, lkLost, lkSkipped, LinkHistory>>

Taken == lkSent[lkSkipped + lkTaken]

NeverDuplicate(e) == FALSE      \* the trace id is not looked up

\* feishu_is_duplicate_message, of the trace id (the ring of 64 is not exhausted
\* here; FeishuChannel has the ring).
feishu_is_duplicate_message(e) == e \in {lkPosted[i] : i \in DOMAIN lkPosted}

\* feishu_ws_on_message for an event: the message is handed on unless it is a
\* duplicate, and in each case the response is sent, when the socket still is open.
feishu_ws_on_message ==
    /\ lkPosted' = IF Taken.kind = "silent" \/ feishu_is_duplicate_message(Taken.event)
                   THEN lkPosted ELSE Append(lkPosted, Taken.event)
    /\ lkAcked' = Append(lkAcked, Taken.event)
    /\ UNCHANGED lkClient

\* The switch on the opcode, the PONG for a PING, and the end after CLOSE.
HandleFrame ==
    /\ lkLoop = "handling"
    /\ lkLoop' = "ready"
    /\ IF Taken.kind \in {"event", "silent"} THEN feishu_ws_on_message ELSE
         /\ UNCHANGED <<lkPosted, lkAcked>>
         /\ lkClient' = IF Taken.kind = "close"
                        THEN [lkClient EXCEPT !.state = "closing", !.running = FALSE]
                        ELSE lkClient
    /\ UNCHANGED <<lkMain, lkWire, lkLost, lkSent, lkSkipped, lkTaken>>

-----------------------------------------------------------------------------
(* The peer.                                                                *)

\* A frame; the server sends an event again while it has no response.
ServerSends(f) ==
    /\ lkClient.open /\ ~lkLost /\ Len(lkSent) < MaxFrames
    /\ lkSent' = Append(lkSent, f)
    /\ lkWire' = lkWire \o Parts(Len(lkSent) + 1, f)
    /\ UNCHANGED <<lkClient, lkLoop, lkMain, lkLost, lkSkipped, lkTaken, lkPosted, lkAcked>>

\* The connection ends; parts that have not arrived may be lost, the last ones first.
PeerGone ==
    /\ lkClient.open /\ ~lkLost
    /\ lkLost' = TRUE
    /\ \E n \in 0 .. Len(lkWire) : lkWire' = SubSeq(lkWire, 1, n)
    /\ UNCHANGED <<lkClient, lkLoop, lkMain, lkSkipped, LinkHistory>>

ws_client_event_loop ==
    LoopEnds \/ ws_client_recv_frame \/ ConnectionLost \/ HandleFrame

LinkNext ==
    \/ StartFails \/ Connect \/ ws_client_handshake \/ StartLoop \/ StopLoop \/ Destroy
    \/ ws_client_event_loop
    \/ (\E f \in Frames : ServerSends(f)) \/ PeerGone

\* Threads that can take a step take one.
LinkFairness == WF_lkVars(ws_client_event_loop) /\ WF_lkVars(Destroy)

LinkSpec == LinkInit /\ [][LinkNext]_lkVars

-----------------------------------------------------------------------------
(* Properties.                                                              *)

LinkTypeOK ==
    /\ lkClient.state \in {"disconnected", "connecting", "connected", "closing", "error"}
    /\ lkClient.running \in BOOLEAN /\ lkClient.open \in BOOLEAN
    /\ Len(lkClient.buffer) <= BufferParts
    /\ lkLoop \in {"none", "ready", "handling", "ended"}
    /\ lkMain \in {"starting", "handshake", "connected", "up", "joining", "freed"}
    /\ lkSent \in Seq(Frames) /\ lkLost \in BOOLEAN
    /\ lkSkipped + lkTaken <= Len(lkSent)
    /\ lkPosted \in Seq(Events) /\ lkAcked \in Seq(Events \cup {"-"})

\* However the reads cut the stream, buffer and wire together are what the server
\* sent behind the frames taken so far: recv_buffer never loses, repeats or
\* misaligns a part (after the peer has gone, only the end may be missing).
StreamStaysWhole ==
    LET done == lkSkipped + lkTaken
        rest == PartsBehind(lkSent, done, Len(lkSent) - done)
        held == lkClient.buffer \o lkWire IN
    LinkTypeOK /\ IsPrefix(held, rest) /\ (~lkLost => held = rest)

\* The event frames among the n frames of sent behind the first skipped.
EventsOf(sent, skipped, n) ==
    FlattenSeq([i \in 1 .. n |-> LET f == sent[skipped + i] IN
                                IF f.kind \in {"event", "silent"} THEN <<f>> ELSE <<>>])

\* Redelivery, reads that cut frames, and a stop at any point: no message is handed
\* on twice, the responses are exactly those of the event frames taken, in their
\* order and not before the message was handed on, and the client is not freed
\* while the loop can still use it.
PostedOnceThenAcked ==
    LET done == EventsOf(lkSent, lkSkipped, IF lkLoop = "handling" THEN lkTaken - 1 ELSE lkTaken) IN
    /\ \A i, j \in DOMAIN lkPosted : i # j => lkPosted[i] # lkPosted[j]
    /\ Len(lkAcked) = Len(done)
    /\ \A i \in DOMAIN lkAcked :
         /\ lkAcked[i] = done[i].event
         /\ done[i].kind = "event" => lkAcked[i] \in {lkPosted[j] : j \in DOMAIN lkPosted}
    /\ lkMain = "freed" => lkLoop \in {"none", "ended"}

\* gateway_stop, which waits for the loop without a limit, gets past the join, be the
\* connection alive, lost, closed by the peer or stuck with a full buffer.
LoopIsJoined == lkMain = "joining" ~> lkMain = "freed"
=============================================================================
