------------------------------- MODULE HttpApi -------------------------------
(***************************************************************************)
(* The HTTP server and its API (gateway/http_server.c, http_api.c).  One   *)
(* thread accepts a connection, reads once, and answers before it accepts  *)
(* the next one.  A request travels in three segments: the head of its     *)
(* headers, their end, and the body; the read sees those that are there.   *)
(***************************************************************************)
EXTENDS Naturals, Sequences, FiniteSets

CONSTANT Browsers        \* clients, one request each (bound)

ASSUME BrowsersAssumption == "-" \notin Browsers    \* "-" stands for no client

\* "read": GET /health, /models, /tools, /sessions; "options": the CORS preflight;
\* "other": a path or method that route_request does not know.
Routes == {"chat", "switch", "execute", "clear", "webhook", "read", "options", "other"}

\* stream: where the request asks for a stream; body: what its JSON is worth.
Requests == [route : Routes, key : BOOLEAN, stream : {"no", "header", "body"},
             body : {"none", "bad", "good"}]

VARIABLES hpServer,    \* HttpServer: [running, where, client, seen]
          hpBacklog,   \* connections waiting for accept, in order
          hpBrowser,   \* client -> "away", "asking", "gone" (or answered)
          hpAnswers,   \* client -> the answers it was sent, as [route, status]
          hpEffects,   \* history: what requests did, as [route, client, whole]
          hpCrashed    \* the process has ended

hpVars == <<hpServer, hpBacklog, hpBrowser, hpAnswers, hpEffects, hpCrashed>>

\* http_server_create and http_server_start.
HttpInit ==
    /\ hpServer = [running |-> TRUE, where |-> "select", client |-> "-", seen |-> 0]
    /\ hpBacklog = <<>> /\ hpBrowser = [c \in Browsers |-> "away"]
    /\ hpAnswers = [c \in Browsers |-> <<>>] /\ hpEffects = <<>> /\ hpCrashed = FALSE

-----------------------------------------------------------------------------
(* The clients. *)

BrowserAsks(c) ==
    /\ hpBrowser[c] = "away" /\ hpServer.where # "closed"
    /\ hpBrowser' = [hpBrowser EXCEPT ![c] = "asking"]
    /\ hpBacklog' = Append(hpBacklog, c)
    /\ UNCHANGED <<hpServer, hpAnswers, hpEffects, hpCrashed>>

\* A client that leaves before it has sent anything.
BrowserLeaves(c) ==
    /\ hpBrowser[c] = "asking" /\ hpAnswers[c] = <<>>
    /\ hpServer.client = c => hpServer.where = "read"
    /\ hpBrowser' = [hpBrowser EXCEPT ![c] = "gone"]
    /\ UNCHANGED <<hpServer, hpBacklog, hpAnswers, hpEffects, hpCrashed>>

-----------------------------------------------------------------------------
(* The thread. *)

\* select and accept.
AcceptNext ==
    /\ hpServer.where = "select" /\ hpServer.running /\ hpBacklog # <<>>
    /\ hpServer' = [hpServer EXCEPT !.where = "read", !.client = Head(hpBacklog)]
    /\ hpBacklog' = Tail(hpBacklog)
    /\ UNCHANGED <<hpBrowser, hpAnswers, hpEffects, hpCrashed>>

\* The only recv, of the segments that have arrived.  A client that has gone is closed.
Recv ==
    /\ hpServer.where = "read"
    /\ IF hpBrowser[hpServer.client] = "gone"
       THEN hpServer' = [hpServer EXCEPT !.where = "select", !.client = "-"]
       ELSE \E n \in 1 .. 3 : hpServer' = [hpServer EXCEPT !.where = "handle", !.seen = n]
    /\ UNCHANGED <<hpBacklog, hpBrowser, hpAnswers, hpEffects, hpCrashed>>

Body(r) == IF hpServer.seen = 3 THEN r.body ELSE "none"
Did(r) == hpEffects' = Append(hpEffects, [route |-> r.route, client |-> hpServer.client,
                                          whole |-> r.key /\ Body(r) = "good"])

\* The answer, and the end of the connection.
Answer(r, status) ==
    /\ hpAnswers' = [hpAnswers EXCEPT ![hpServer.client] =
                       Append(@, [route |-> r.route, status |-> status])]
    /\ hpServer' = [hpServer EXCEPT !.where = "select", !.client = "-", !.seen = 0]
    /\ UNCHANGED hpCrashed
Refuse(r, status) == Answer(r, status) /\ UNCHANGED hpEffects

handle_chat_optimistic(r) ==       \* the result of agent_send_message is ignored
    IF Body(r) # "good" THEN Refuse(r, 400)
    ELSE Answer(r, 200) /\ (Did(r) \/ UNCHANGED hpEffects)

\* handle_chat: queued, if the agent takes the message.
handle_chat(r) ==
    IF Body(r) # "good" THEN Refuse(r, 400)
    ELSE (Did(r) /\ Answer(r, 200)) \/ Refuse(r, 500)

\* handle_model_switch: an unknown model is refused; a provider that could not be
\* made is not (ModelLayer has the steps).
handle_model_switch(r) ==
    IF Body(r) # "good" THEN Refuse(r, 400)
    ELSE (Did(r) /\ Answer(r, 200)) \/ Refuse(r, 400)

\* handle_tools_execute: the tool runs here, on the server's thread.
handle_tools_execute(r) ==
    IF Body(r) # "good" THEN Refuse(r, 400)
    ELSE Did(r) /\ (Answer(r, 200) \/ Answer(r, 500))

\* handle_session_clear: "Session cleared", and nothing is cleared.
handle_session_clear(r) == Refuse(r, 200)

\* handle_feishu_webhook: feishu_handle_event has an answer for whatever it is given.
handle_feishu_webhook(r) ==
    CASE Body(r) = "none" -> Refuse(r, 400)
      [] Body(r) = "bad" -> Refuse(r, 200)
      [] OTHER -> Did(r) /\ Answer(r, 200)

\* handle_chat_stream: the callback is srv_send_sse_event under another type; its
\* parameters are read as a socket and two strings, and the length of the text is
\* taken for the address of the event: the process ends.
handle_chat_stream ==
    /\ hpCrashed' = TRUE
    /\ UNCHANGED <<hpServer, hpAnswers, hpEffects>>

route_request(r) ==
    CASE r.route = "chat" -> handle_chat(r)
      [] r.route = "switch" -> handle_model_switch(r)
      [] r.route = "execute" -> handle_tools_execute(r)
      [] r.route = "clear" -> handle_session_clear(r)
      [] r.route = "webhook" -> handle_feishu_webhook(r)
      [] r.route = "read" -> Refuse(r, 200)
      [] OTHER -> Refuse(r, 404)

WantsStream(r) == r.stream = "header" \/ (r.stream = "body" /\ hpServer.seen = 3)

\* handle_connection: preflight, parse_request (which wants the end of the headers),
\* the key, a stream (for any route), then the route.
handle_connection ==
    /\ hpServer.where = "handle"
    /\ \E r \in Requests :
         IF r.route = "options" THEN Refuse(r, 204)
         ELSE IF hpServer.seen = 1 THEN Refuse(r, 400)
         ELSE IF ~r.key THEN Refuse(r, 401)
         ELSE IF WantsStream(r) THEN handle_chat_stream
         ELSE route_request(r)
    /\ UNCHANGED <<hpBacklog, hpBrowser>>

ThreadEnds ==
    /\ hpServer.where = "select" /\ ~hpServer.running
    /\ hpServer' = [hpServer EXCEPT !.where = "ended"]
    /\ UNCHANGED <<hpBacklog, hpBrowser, hpAnswers, hpEffects, hpCrashed>>

\* http_server_stop: the flag; behind the join the listening socket is closed.
http_server_stop ==
    /\ hpServer.running
    /\ hpServer' = [hpServer EXCEPT !.running = FALSE]
    /\ UNCHANGED <<hpBacklog, hpBrowser, hpAnswers, hpEffects, hpCrashed>>

CloseListener ==
    /\ hpServer.where = "ended"
    /\ hpServer' = [hpServer EXCEPT !.where = "closed"]
    /\ hpBacklog' = <<>>
    /\ UNCHANGED <<hpBrowser, hpAnswers, hpEffects, hpCrashed>>

HttpNext ==
    /\ ~hpCrashed
    /\ \/ \E c \in Browsers : BrowserAsks(c) \/ BrowserLeaves(c)
       \/ AcceptNext \/ Recv \/ handle_connection
       \/ ThreadEnds \/ http_server_stop \/ CloseListener

HttpSpec == HttpInit /\ [][HttpNext]_hpVars

-----------------------------------------------------------------------------
(* Properties. *)

HttpTypeOK ==
    /\ hpServer.running \in BOOLEAN /\ hpServer.seen \in 0 .. 3
    /\ hpServer.where \in {"select", "read", "handle", "ended", "closed"}
    /\ hpServer.client \in Browsers \cup {"-"}
    /\ hpBacklog \in Seq(Browsers)
    /\ hpBrowser \in [Browsers -> {"away", "asking", "gone"}]
    /\ \A c \in Browsers : hpAnswers[c] \in
         Seq([route : Routes, status : {200, 204, 400, 401, 404, 500}])
    /\ hpCrashed \in BOOLEAN

\* One read for each request, wherever it cuts: a client gets at most one answer,
\* and only one that has asked and is served no more; a chat is answered "queued"
\* exactly when the agent has its message; nothing is done for a request whose key
\* or body is wrong or that was refused as such; and requests take effect one by
\* one, each answered before the next does anything.
AnsweredAsDone ==
    LET effects(c) == {i \in DOMAIN hpEffects : hpEffects[i].client = c} IN
    HttpTypeOK /\ \A c \in Browsers :
      /\ Len(hpAnswers[c]) <= 1 /\ Cardinality(effects(c)) <= 1
      /\ hpAnswers[c] # <<>> => /\ hpBrowser[c] = "asking" /\ hpServer.client # c
                                /\ \A i \in DOMAIN hpBacklog : hpBacklog[i] # c
      /\ \A i \in effects(c) : /\ hpEffects[i].whole
                               /\ hpAnswers[c] # <<>>
                               /\ hpAnswers[c][1].status \in {200, 500}
      /\ hpAnswers[c] # <<>> /\ hpAnswers[c][1] = [route |-> "chat", status |-> 200]
           => effects(c) # {}
=============================================================================
