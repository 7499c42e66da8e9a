--------------------------- MODULE WebSocketServer ---------------------------
(***************************************************************************)
(* The WebSocket server of the gateway (gateway/websocket.c): one thread   *)
(* that selects over the listening socket and a fixed array of connections *)
(* with a buffer of fixed size each, answers the opening handshake, and    *)
(* takes the frames out of the buffers.  What a client sends travels in    *)
(* parts: a request is two of them, a frame two, or more than the buffer   *)
(* holds.                                                                  *)
(***************************************************************************)
EXTENDS Naturals, SequencesExt, FiniteSetsExt

CONSTANTS Clients,
          Slots,          \* 1 .. max_connections
          BufferSize,     \* the size of a connection's buffer, in parts
          MaxMessages     \* bound: frames of one client

Nobody == "nobody"

ASSUME SlotsAssumption == Slots \subseteq Nat /\ IsFiniteSet(Slots)
ASSUME BufferAssumption == BufferSize \in Nat /\ BufferSize >= 2
ASSUME ClientsAssumption == Nobody \notin Clients /\ MaxMessages \in Nat

VARIABLES svServer,   \* WebSocketServer: [running, count, where, ready, accept]
          svConn,     \* slot -> [client, done, buffer, used]
          svClient,   \* client -> [where, key, sent, missed]
          svWire,     \* client -> the parts on their way to the server
          svHeard,    \* client -> its messages passed to the channels, in order
          svMixed     \* a request was completed by what an earlier client left

svVars == <<svServer, svConn, svClient, svWire, svHeard, svMixed>>

Request == <<[message |-> 0, part |-> 1, of |-> 2], [message |-> 0, part |-> 2, of |-> 2]>>
Frame(m, size) == [i \in 1 .. size |-> [message |-> m, part |-> i, of |-> size]]
\* The parts of n frames, the first of them the one behind done of those sent.
FramesBehind(sent, done, n) == FlattenSeq([i \in 1 .. n |-> Frame(done + i, sent[done + i])])
Free == [client |-> Nobody, done |-> FALSE, buffer |-> <<>>, used |-> FALSE]
Occupied == {i \in Slots : svConn[i].client # Nobody}

\* websocket_server_init and websocket_server_start; key: whether the api_key that a
\* client presents is the configured one, or none is configured.
ServerInit ==
    /\ svServer = [running |-> TRUE, count |-> 0, where |-> "select", ready |-> {},
                   accept |-> FALSE]
    /\ svConn = [i \in Slots |-> Free]
    /\ \E key \in [Clients -> BOOLEAN] : svClient = [c \in Clients |->
         [where |-> "away", key |-> key[c], sent |-> <<>>, missed |-> 0]]
    /\ svWire = [c \in Clients |-> <<>>] /\ svHeard = [c \in Clients |-> <<>>]
    /\ svMixed = FALSE

-----------------------------------------------------------------------------
(* The clients. *)

ClientConnects(c) ==
    /\ svClient[c].where = "away" /\ svServer.where \notin {"ended", "stopped"}
    /\ svClient' = [svClient EXCEPT ![c].where = "queued"]
    /\ svWire' = [svWire EXCEPT ![c] = Request]
    /\ UNCHANGED <<svServer, svConn, svHeard, svMixed>>

ClientSends(c, size) ==
    /\ svClient[c].where \in {"queued", "connected"}
    /\ Len(svClient[c].sent) < MaxMessages
    /\ svClient' = [svClient EXCEPT ![c].sent = Append(@, size)]
    /\ svWire' = [svWire EXCEPT ![c] = @ \o Frame(Len(svClient[c].sent) + 1, size)]
    /\ UNCHANGED <<svServer, svConn, svHeard, svMixed>>

ClientLeaves(c) ==
    /\ svClient[c].where = "connected"
    /\ svClient' = [svClient EXCEPT ![c].where = "leaving"]
    /\ UNCHANGED <<svServer, svConn, svWire, svHeard, svMixed>>

Client(c) ==
    \/ ClientConnects(c) \/ ClientLeaves(c)
    \/ \E size \in {2, BufferSize + 1} : ClientSends(c, size)

-----------------------------------------------------------------------------
(* The thread: one round of select, accept, and the readable connections.   *)

Queued == {c \in Clients : svClient[c].where = "queued"}
Readable(i) == LET c == svConn[i].client IN
    c # Nobody /\ (svWire[c] # <<>> \/ svClient[c].where = "leaving")

Select ==
    /\ svServer.where = "select"
    /\ IF svServer.running
       THEN LET ready == {i \in Slots : Readable(i)} IN
            /\ ready # {} \/ Queued # {}
            /\ svServer' = [svServer EXCEPT !.where = "round", !.ready = ready,
                                            !.accept = (Queued # {})]
       ELSE svServer' = [svServer EXCEPT !.where = "ended"]
    /\ UNCHANGED <<svConn, svClient, svWire, svHeard, svMixed>>

\* accept: the first empty slot, or none: then the socket is closed and the rest of
\* the round is left out.
Accept(c) ==
    /\ svServer.where = "round" /\ svServer.accept /\ c \in Queued
    /\ IF Occupied = Slots
       THEN /\ svClient' = [svClient EXCEPT ![c].where = "closed"]
            /\ svServer' = [svServer EXCEPT !.where = "select", !.ready = {}, !.accept = FALSE]
            /\ UNCHANGED svConn
       ELSE LET i == Min(Slots \ Occupied) IN
            /\ svConn' = [svConn EXCEPT ![i] = [Free EXCEPT !.client = c, !.used = svConn[i].used]]
            /\ svClient' = [svClient EXCEPT ![c].where = "connected"]
            /\ svServer' = [svServer EXCEPT !.accept = FALSE, !.count = @ + 1]
    /\ UNCHANGED <<svWire, svHeard, svMixed>>

RoundEnds ==
    /\ svServer.where = "round" /\ ~svServer.accept /\ svServer.ready = {}
    /\ svServer' = [svServer EXCEPT !.where = "select"]
    /\ UNCHANGED <<svConn, svClient, svWire, svHeard, svMixed>>

\* recv has nothing, or was given no room: closesocket; the memory keeps its bytes.
CloseConnection(i, c) ==
    /\ svConn' = [svConn EXCEPT ![i] = [Free EXCEPT !.used = svConn[i].used]]
    /\ svClient' = [svClient EXCEPT ![c].where = "closed"]
    /\ svServer' = [svServer EXCEPT !.ready = @ \ {i}, !.count = @ - 1]
    /\ UNCHANGED <<svWire, svHeard, svMixed>>

\* websocket_handshake on a request that is there as a whole: 401 and nothing else
\* without the key; with it the answer, and the buffer is emptied, whatever came
\* with the request (whole frames: a bound).
Handshake(i, c, buffer) ==
    /\ IF svClient[c].key
       THEN /\ Last(buffer).part = Last(buffer).of
            /\ svConn' = [svConn EXCEPT ![i].done = TRUE, ![i].buffer = <<>>,
                                        ![i].used = TRUE]
            /\ svClient' = [svClient EXCEPT ![c].missed = Last(buffer).message]
       ELSE /\ svConn' = [svConn EXCEPT ![i].buffer = buffer, ![i].used = TRUE]
            /\ UNCHANGED svClient
    /\ UNCHANGED <<svHeard, svMixed>>

\* One part of the request: the end is looked for in all of the memory, and may be
\* found in what an earlier client of the slot wrote.
HalfHandshake(i, buffer) ==
    /\ svMixed' \in IF svConn[i].used THEN BOOLEAN ELSE {FALSE}
    /\ svConn' = [svConn EXCEPT ![i].buffer = buffer]
    /\ UNCHANGED <<svClient, svHeard>>

\* The complete frames at the front of a buffer: websocket_parse_frame until it fails.
FramesTakenOne(buffer) ==        \* one frame for each recv
    IF buffer # <<>> /\ buffer[1].of <= Len(buffer) THEN buffer[1].of ELSE 0

FramesTaken(buffer) ==
    Max({0} \cup {n \in 1 .. Len(buffer) :
                    \A k \in 1 .. n : buffer[k].part = 1 => k + buffer[k].of - 1 <= n})

ParseFrames(i, c, buffer) ==
    LET n == FramesTaken(buffer)
        messages == FlattenSeq([k \in 1 .. n |->
                        IF buffer[k].part = buffer[k].of THEN << buffer[k].message >> ELSE <<>>]) IN
    /\ svConn' = [svConn EXCEPT ![i].buffer = SubSeq(buffer, n + 1, Len(buffer))]
    /\ svHeard' = [svHeard EXCEPT ![c] = @ \o messages]
    /\ UNCHANGED <<svClient, svMixed>>

Receive(i) ==
    LET c == svConn[i].client
        room == BufferSize - Len(svConn[i].buffer) IN
    /\ svServer.where = "round" /\ ~svServer.accept /\ svServer.ready # {}
    /\ i = Min(svServer.ready)
    /\ IF room = 0 \/ svWire[c] = <<>> THEN CloseConnection(i, c) ELSE
       \E n \in 1 .. Min({room, Len(svWire[c])}) :
         LET buffer == svConn[i].buffer \o SubSeq(svWire[c], 1, n) IN
         /\ svWire' = [svWire EXCEPT ![c] = SubSeq(@, n + 1, Len(@))]
         /\ svServer' = [svServer EXCEPT !.ready = @ \ {i}]
         /\ IF svConn[i].done THEN ParseFrames(i, c, buffer)
            ELSE IF Len(buffer) >= 2 THEN Handshake(i, c, buffer)
            ELSE HalfHandshake(i, buffer)

websocket_server_thread ==
    \/ Select \/ RoundEnds
    \/ \E c \in Clients : Accept(c)
    \/ \E i \in Slots : Receive(i)

-----------------------------------------------------------------------------
(* websocket_server_stop: the flag; then, behind the join, the sockets.     *)

StopServer ==
    /\ svServer.running
    /\ svServer' = [svServer EXCEPT !.running = FALSE]
    /\ UNCHANGED <<svConn, svClient, svWire, svHeard, svMixed>>

CloseAll ==
    /\ svServer.where = "ended"
    /\ svServer' = [svServer EXCEPT !.where = "stopped"]
    /\ svConn' = [i \in Slots |-> [svConn[i] EXCEPT !.client = Nobody]]
    /\ svClient' = [c \in Clients |-> [svClient[c] EXCEPT !.where = "closed"]]
    /\ UNCHANGED <<svWire, svHeard, svMixed>>

ServerNext ==
    /\ ~svMixed
    /\ (\E c \in Clients : Client(c)) \/ websocket_server_thread \/ StopServer \/ CloseAll

\* Threads that can take a step take one.
ServerFairness == WF_svVars(websocket_server_thread) /\ WF_svVars(CloseAll)

ServerSpec == ServerInit /\ [][ServerNext]_svVars

-----------------------------------------------------------------------------
(* Properties. *)

ServerTypeOK ==
    /\ svServer.running \in BOOLEAN /\ svServer.accept \in BOOLEAN
    /\ svServer.where \in {"select", "round", "ended", "stopped"}
    /\ svServer.ready \subseteq Slots /\ svServer.count \in 0 .. Cardinality(Slots)
    /\ \A i \in Slots : /\ svConn[i].client \in Clients \cup {Nobody}
                        /\ Len(svConn[i].buffer) <= BufferSize
    /\ \A c \in Clients :
         /\ svClient[c].where \in {"away", "queued", "connected", "leaving", "closed"}
         /\ svHeard[c] \in Seq(1 .. MaxMessages)

\* Whatever other clients come and go, fill the slots or overflow their buffers:
\* each client that is connected sits in one slot and is counted once; what it was
\* heard of, its buffer and what is on its way are its own frames in their order,
\* without a gap; and no complete frame waits in a buffer between two rounds.
EachClientHeardInOrder ==
  /\ ServerTypeOK
  /\ \A c \in Clients :
      LET mine == {i \in Slots : svConn[i].client = c}
          sent == svClient[c].sent
          from == svClient[c].missed + Len(svHeard[c]) IN
      svClient[c].where \in {"connected", "leaving"} =>
        /\ Cardinality(mine) = 1 /\ svServer.count = Cardinality(Occupied)
        /\ \A i \in mine : svConn[i].done =>
             /\ svConn[i].buffer \o svWire[c] = FramesBehind(sent, from, Len(sent) - from)
             /\ \A k \in DOMAIN svHeard[c] : svHeard[c][k] = svClient[c].missed + k
             /\ svServer.where = "select" /\ svConn[i].buffer # <<>>
                  => Len(svConn[i].buffer) < svConn[i].buffer[1].of

\* websocket_server_stop, which waits for the thread without a limit, returns, whatever
\* the clients do in the meantime.
ThreadIsJoined == ~svServer.running ~> svServer.where = "stopped"
=============================================================================
