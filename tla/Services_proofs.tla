--------------------------- MODULE Services_proofs ---------------------------
(***************************************************************************)
(* Proofs about the services around the agent: HttpApi, SkillRegistry,     *)
(* FeishuLink, WebSocketServer and WeixinChannel, which share no state,    *)
(* each for every value of its constants.                                  *)
(***************************************************************************)
EXTENDS HttpApi, SkillRegistry, FeishuLink, WebSocketServer, WeixinChannel, DataLemmas

-----------------------------------------------------------------------------
(***************************************************************************)
(* The server and the API (HttpApi), for any number of clients: where a    *)
(* client is between its request and its answer, and that effects and      *)
(* answers agree.                                                          *)
(***************************************************************************)

AnswerRecords == [route : Routes, status : {200, 204, 400, 401, 404, 500}]
Effects == [route : Routes, client : Browsers, whole : BOOLEAN]

Wheres == {"select", "read", "handle", "ended", "closed"}
Servers == [running : BOOLEAN, where : Wheres, client : Browsers \cup {"-"}, seen : 0 .. 3]

\* The types, with those of the history.
ApiTypes ==
    /\ hpServer \in Servers
    /\ hpBacklog \in Seq(Browsers)
    /\ hpBrowser \in [Browsers -> {"away", "asking", "gone"}]
    /\ hpAnswers \in [Browsers -> Seq(AnswerRecords)]
    /\ hpEffects \in Seq(Effects)
    /\ hpCrashed \in BOOLEAN

InBacklog(c) == \E i \in DOMAIN hpBacklog : hpBacklog[i] = c
Served(c) == hpServer.client = c
Answered(c) == hpAnswers[c] # <<>>

\* A client waits in one place of the backlog, or is served, or was answered.
Places ==
    /\ \A i, j \in DOMAIN hpBacklog : hpBacklog[i] = hpBacklog[j] => i = j
    /\ \A c \in Browsers :
          /\ InBacklog(c) => ~Served(c) /\ ~Answered(c)
          /\ Served(c) => ~Answered(c)
          /\ hpBrowser[c] = "away" => ~InBacklog(c) /\ ~Served(c) /\ ~Answered(c)
          /\ Answered(c) => hpBrowser[c] = "asking" /\ Len(hpAnswers[c]) = 1
    /\ hpServer.where \in {"read", "handle"} <=> hpServer.client # "-"
    /\ hpServer.where = "handle" => hpBrowser[hpServer.client] = "asking"

\* What was done was asked for as a whole and answered, once for a client.
EffectsAnswered ==
    /\ \A i \in DOMAIN hpEffects :
          /\ hpEffects[i].whole
          /\ Answered(hpEffects[i].client)
          /\ hpAnswers[hpEffects[i].client][1].status \in {200, 500}
    /\ \A i, j \in DOMAIN hpEffects : hpEffects[i].client = hpEffects[j].client => i = j
    /\ \A c \in Browsers :
          Answered(c) /\ hpAnswers[c][1] = [route |-> "chat", status |-> 200]
             => \E i \in DOMAIN hpEffects : hpEffects[i].client = c

HttpInv == ApiTypes /\ Places /\ EffectsAnswered

-----------------------------------------------------------------------------
(* How a request ends. *)

\* It is answered without an effect, ...
Without(r, status) ==
    /\ Refuse(r, status)
    /\ status \in {200, 204, 400, 401, 404, 500} /\ ~(r.route = "chat" /\ status = 200)
\* ... or with one, as its key and body allow, ...
With(r, status) ==
    /\ Did(r) /\ Answer(r, status)
    /\ r.key /\ Body(r) = "good" /\ status \in {200, 500}
\* ... or with the process.
Outcome(r) ==
    \/ \E status \in Nat : Without(r, status) \/ With(r, status)
    \/ handle_chat_stream

LEMMA RequestOutcome ==
    ASSUME handle_connection
    PROVE  \E r \in Requests : Outcome(r)
<1>1. PICK r \in Requests :
         IF r.route = "options" THEN Refuse(r, 204)
         ELSE IF hpServer.seen = 1 THEN Refuse(r, 400)
         ELSE IF ~r.key THEN Refuse(r, 401)
         ELSE IF WantsStream(r) THEN handle_chat_stream
         ELSE route_request(r)
  BY DEF handle_connection
<1>2. ASSUME NEW status \in {204, 400, 401, 404, 500}, Refuse(r, status)
      PROVE  Outcome(r)
  BY <1>2 DEF Without, Outcome
<1>3. ASSUME Refuse(r, 200), r.route # "chat"
      PROVE  Outcome(r)
  BY <1>3 DEF Without, Outcome
<1>4. ASSUME r.key, Body(r) = "good", NEW status \in {200, 500}, Did(r), Answer(r, status)
      PROVE  Outcome(r)
  BY <1>4 DEF With, Outcome
<1>5. ASSUME r.key, route_request(r)
      PROVE  Outcome(r)
  <2>1. CASE r.route = "chat"
    BY <1>2, <1>4, <1>5, <2>1 DEF route_request, handle_chat
  <2>2. CASE r.route = "switch"
    BY <1>2, <1>4, <1>5, <2>2 DEF route_request, handle_model_switch
  <2>3. CASE r.route = "execute"
    BY <1>2, <1>4, <1>5, <2>3 DEF route_request, handle_tools_execute
  <2>4. CASE r.route = "clear"
    BY <1>3, <1>5, <2>4 DEF route_request, handle_session_clear
  <2>5. CASE r.route = "webhook"
    <3>1. Body(r) \in {"none", "bad", "good"}
      BY DEF Body, Requests
    <3> QED BY <1>2, <1>3, <1>4, <1>5, <2>5, <3>1 DEF route_request, handle_feishu_webhook
  <2>6. CASE r.route = "read"
    BY <1>3, <1>5, <2>6 DEF route_request
  <2>7. CASE r.route \in {"options", "other"}
    BY <1>2, <1>5, <2>7 DEF route_request
  <2> QED BY <2>1, <2>2, <2>3, <2>4, <2>5, <2>6, <2>7 DEF Requests, Routes
<1> QED BY <1>1, <1>2, <1>5 DEF Outcome

-----------------------------------------------------------------------------
(* The steps. *)

LEMMA HttpInitial == HttpInit => HttpInv
<1> SUFFICES ASSUME HttpInit PROVE HttpInv
  OBVIOUS
<1>1. ApiTypes
  <2>1. hpServer \in Servers
    BY DEF HttpInit, Servers, Wheres
  <2>2. hpCrashed \in BOOLEAN
    BY DEF HttpInit
  <2>3. hpBacklog \in Seq(Browsers) /\ hpEffects \in Seq(Effects)
    BY DEF HttpInit
  <2>4. hpBrowser \in [Browsers -> {"away", "asking", "gone"}]
    BY DEF HttpInit
  <2>5. hpAnswers \in [Browsers -> Seq(AnswerRecords)]
    BY DEF HttpInit
  <2> QED BY <2>1, <2>2, <2>3, <2>4, <2>5 DEF ApiTypes
<1>2. Places
  BY BrowsersAssumption DEF HttpInit, Places, InBacklog, Served, Answered, Servers, Wheres
<1>3. EffectsAnswered
  BY DEF HttpInit, EffectsAnswered, Answered
<1> QED BY <1>1, <1>2, <1>3 DEF HttpInv

LEMMA ClientStep ==
    ASSUME HttpInv, NEW c \in Browsers, BrowserAsks(c) \/ BrowserLeaves(c)
    PROVE  HttpInv'
<1> USE BrowsersAssumption
<1>1. ApiTypes /\ Places /\ EffectsAnswered /\ UNCHANGED <<hpServer, hpAnswers, hpEffects, hpCrashed>>
  BY DEF HttpInv, BrowserAsks, BrowserLeaves
<1>2. EffectsAnswered'
  BY <1>1 DEF EffectsAnswered, Answered
<1>3. CASE BrowserAsks(c)
  <2>1. ApiTypes'
    BY <1>1, <1>3 DEF BrowserAsks, ApiTypes
  <2>2. /\ hpBacklog' = Append(hpBacklog, c) /\ hpBacklog \in Seq(Browsers)
        /\ hpBrowser' = [hpBrowser EXCEPT ![c] = "asking"] /\ hpBrowser \in [Browsers -> {"away", "asking", "gone"}]
        /\ ~InBacklog(c) /\ ~Served(c) /\ ~Answered(c)
    BY <1>1, <1>3 DEF BrowserAsks, ApiTypes, Places
  <2>3. /\ \A i \in DOMAIN hpBacklog' : (i \in DOMAIN hpBacklog /\ hpBacklog'[i] = hpBacklog[i])
                                        \/ (i = Len(hpBacklog) + 1 /\ hpBacklog'[i] = c)
    BY <2>2
  <2>4. \A i, j \in DOMAIN hpBacklog' : hpBacklog'[i] = hpBacklog'[j] => i = j
    BY <1>1, <2>2, <2>3 DEF Places, InBacklog
  <2>5. \A b \in Browsers : InBacklog(b)' => InBacklog(b) \/ b = c
    BY <2>3 DEF InBacklog
  <2>6. Places'
    BY <1>1, <2>2, <2>4, <2>5 DEF Places, Served, Answered
  <2> QED BY <1>2, <2>1, <2>6 DEF HttpInv
<1>4. CASE BrowserLeaves(c)
  <2>1. ApiTypes'
    BY <1>1, <1>4 DEF BrowserLeaves, ApiTypes
  <2>2. Places'
    BY <1>1, <1>4 DEF BrowserLeaves, ApiTypes, Places, InBacklog, Served, Answered, Servers, Wheres
  <2> QED BY <1>2, <2>1, <2>2 DEF HttpInv
<1> QED BY <1>3, <1>4

LEMMA ServerStep ==
    ASSUME HttpInv, AcceptNext \/ Recv \/ ThreadEnds \/ http_server_stop \/ CloseListener
    PROVE  HttpInv'
<1> USE BrowsersAssumption
<1>1. ApiTypes /\ Places /\ EffectsAnswered /\ UNCHANGED <<hpBrowser, hpAnswers, hpEffects, hpCrashed>>
  BY DEF HttpInv, AcceptNext, Recv, ThreadEnds, http_server_stop, CloseListener
<1>2. EffectsAnswered'
  BY <1>1 DEF EffectsAnswered, Answered
<1>3. CASE AcceptNext
  <2> DEFINE t == Tail(hpBacklog)
             c == Head(hpBacklog)
  <2>1. /\ c \in Browsers /\ c = hpBacklog[1] /\ 1 \in DOMAIN hpBacklog /\ t \in Seq(Browsers)
        /\ \A i \in DOMAIN t : i + 1 \in DOMAIN hpBacklog /\ t[i] = hpBacklog[i + 1] /\ i \in Nat \ {0}
    BY <1>1, <1>3 DEF AcceptNext, ApiTypes
  <2>2. hpBacklog' = t /\ hpServer' = [hpServer EXCEPT !.where = "read", !.client = c]
    BY <1>3 DEF AcceptNext
  <2> HIDE DEF t, c
  <2>3. ApiTypes'
    <3>1. hpServer' \in Servers
      <4>1. hpServer \in Servers
        BY <1>1 DEF ApiTypes
      <4> QED BY <2>1, <2>2, <4>1 DEF Servers, Wheres
    <3> QED BY <1>1, <2>1, <2>2, <3>1 DEF ApiTypes
  <2>4. InBacklog(c)
    BY <2>1 DEF InBacklog
  <2>5. \A i \in DOMAIN t : t[i] # c
    BY <1>1, <2>1 DEF Places
  <2>6. \A i, j \in DOMAIN t : t[i] = t[j] => i = j
    <3> SUFFICES ASSUME NEW i \in DOMAIN t, NEW j \in DOMAIN t, t[i] = t[j]
                 PROVE  i = j
      OBVIOUS
    <3>1. i + 1 = j + 1
      BY <1>1, <2>1 DEF Places
    <3> QED BY <2>1, <3>1
  <2>7. \A b \in Browsers : InBacklog(b)' => InBacklog(b) /\ b # c
    BY <2>1, <2>2, <2>5 DEF InBacklog
  <2>8. Places'
    BY <1>1, <2>1, <2>2, <2>3, <2>4, <2>6, <2>7 DEF ApiTypes, Places, Served, Answered
  <2> QED BY <1>2, <2>3, <2>8 DEF HttpInv
<1>4. CASE Recv
  <2>1. ApiTypes'
    <3>1. hpServer' \in Servers
      <4>1. hpServer \in Servers
        BY <1>1 DEF ApiTypes
      <4>2. \/ hpServer' = [hpServer EXCEPT !.where = "select", !.client = "-"]
            \/ \E n \in 1 .. 3 : hpServer' = [hpServer EXCEPT !.where = "handle", !.seen = n]
        BY <1>4 DEF Recv
      <4>3. CASE hpServer' = [hpServer EXCEPT !.where = "select", !.client = "-"]
        BY <4>1, <4>3 DEF Servers, Wheres
      <4>4. ASSUME NEW n \in 1 .. 3, hpServer' = [hpServer EXCEPT !.where = "handle", !.seen = n]
            PROVE  hpServer' \in Servers
        <5>1. n \in 0 .. 3
          OBVIOUS
        <5> QED BY <4>1, <4>4, <5>1 DEF Servers, Wheres
      <4> QED BY <4>2, <4>3, <4>4
    <3>2. hpBacklog' = hpBacklog
      BY <1>4 DEF Recv
    <3> QED BY <1>1, <3>1, <3>2 DEF ApiTypes
  <2>2. Places'
    BY <1>1, <1>4 DEF Recv, ApiTypes, Places, InBacklog, Served, Answered, Servers, Wheres
  <2> QED BY <1>2, <2>1, <2>2 DEF HttpInv
<1>5. CASE ThreadEnds \/ http_server_stop
  <2>1. ApiTypes'
    <3>1. hpServer' \in Servers
      <4>1. hpServer \in Servers
        BY <1>1 DEF ApiTypes
      <4>2. \/ hpServer' = [hpServer EXCEPT !.where = "ended"]
            \/ hpServer' = [hpServer EXCEPT !.running = FALSE]
        BY <1>5 DEF ThreadEnds, http_server_stop
      <4> QED BY <4>1, <4>2 DEF Servers, Wheres
    <3>2. hpBacklog' = hpBacklog
      BY <1>5 DEF ThreadEnds, http_server_stop
    <3> QED BY <1>1, <3>1, <3>2 DEF ApiTypes
  <2>2. Places'
    BY <1>1, <1>5 DEF ThreadEnds, http_server_stop, ApiTypes, Places, InBacklog, Served, Answered, Servers, Wheres
  <2> QED BY <1>2, <2>1, <2>2 DEF HttpInv
<1>6. CASE CloseListener
  <2>1. ApiTypes'
    <3>1. hpServer' \in Servers
      <4>1. hpServer \in Servers
        BY <1>1 DEF ApiTypes
      <4>2. hpServer' = [hpServer EXCEPT !.where = "closed"]
        BY <1>6 DEF CloseListener
      <4> QED BY <4>1, <4>2 DEF Servers, Wheres
    <3>2. hpBacklog' = <<>> /\ <<>> \in Seq(Browsers)
      BY <1>6 DEF CloseListener
    <3> QED BY <1>1, <3>1, <3>2 DEF ApiTypes
  <2>2. Places'
    BY <1>1, <1>6 DEF CloseListener, ApiTypes, Places, InBacklog, Served, Answered, Servers, Wheres
  <2> QED BY <1>2, <2>1, <2>2 DEF HttpInv
<1> QED BY <1>3, <1>4, <1>5, <1>6

LEMMA HandleStep ==
    ASSUME HttpInv, handle_connection
    PROVE  HttpInv'
<1> USE BrowsersAssumption
<1>1. /\ ApiTypes /\ Places /\ EffectsAnswered /\ UNCHANGED <<hpBacklog, hpBrowser>>
      /\ hpServer.where = "handle"
  BY DEF HttpInv, handle_connection
<1>a. hpServer.client \in Browsers
  <2>1. hpServer \in Servers /\ hpServer.client # "-"
    BY <1>1 DEF ApiTypes, Places
  <2> QED BY <2>1 DEF Servers
<1>b. PICK c \in Browsers : c = hpServer.client
  BY <1>a
<1>2. c \in Browsers /\ ~Answered(c) /\ hpBrowser[c] = "asking" /\ ~InBacklog(c)
  <2>1. Served(c)
    BY <1>b DEF Served
  <2>2. hpBrowser[hpServer.client] = "asking"
    BY <1>1 DEF Places
  <2> QED BY <1>1, <1>b, <2>1, <2>2 DEF Places
<1>3. PICK r \in Requests : Outcome(r)
  BY RequestOutcome
<1>4. CASE handle_chat_stream
  <2>1. ApiTypes'
    BY <1>1, <1>4 DEF handle_chat_stream, ApiTypes
  <2>2. Places' /\ EffectsAnswered'
    BY <1>1, <1>4 DEF handle_chat_stream, Places, EffectsAnswered, InBacklog, Served, Answered
  <2> QED BY <2>1, <2>2 DEF HttpInv
<1>5. ASSUME NEW status \in {200, 204, 400, 401, 404, 500}, Answer(r, status)
      PROVE  /\ hpServer' \in Servers
             /\ hpAnswers' \in [Browsers -> Seq(AnswerRecords)]
             /\ Len(hpAnswers'[c]) = 1 /\ Answered(c)'
             /\ hpAnswers'[c][1] = [route |-> r.route, status |-> status]
             /\ \A b \in Browsers : b # c => hpAnswers'[b] = hpAnswers[b]
             /\ hpCrashed' = hpCrashed
             /\ Places'
  <2> DEFINE a == [route |-> r.route, status |-> status]
  <2>1. a \in AnswerRecords
    BY DEF AnswerRecords, Requests
  <2>2. hpAnswers' = [hpAnswers EXCEPT ![c] = Append(@, a)] /\ hpAnswers[c] = <<>> /\ hpAnswers[c] \in Seq(AnswerRecords)
    BY <1>1, <1>2, <1>b, <1>5 DEF Answer, ApiTypes, Answered
  <2>3. hpServer' = [hpServer EXCEPT !.where = "select", !.client = "-", !.seen = 0] /\ hpCrashed' = hpCrashed
    BY <1>5 DEF Answer
  <2>s. hpServer' \in Servers /\ hpServer'.where = "select" /\ hpServer'.client = "-"
    <3>1. hpServer \in Servers
      BY <1>1 DEF ApiTypes
    <3>2. hpServer' = [running |-> hpServer.running, where |-> "select", client |-> "-", seen |-> 0]
      BY <2>3, <3>1 DEF Servers
    <3>3. hpServer.running \in BOOLEAN
      BY <3>1 DEF Servers
    <3>4. hpServer'.where = "select" /\ hpServer'.client = "-"
      BY <3>2
    <3> QED BY <3>2, <3>3, <3>4 DEF Servers, Wheres
  <2> HIDE DEF a
  <2>4. Append(<<>>, a) \in Seq(AnswerRecords) /\ Len(Append(<<>>, a)) = 1 /\ Append(<<>>, a)[1] = a
    BY <2>1
  <2>5. /\ hpAnswers' \in [Browsers -> Seq(AnswerRecords)] /\ hpAnswers'[c] = Append(<<>>, a)
        /\ \A b \in Browsers : b # c => hpAnswers'[b] = hpAnswers[b]
    BY <1>1, <1>2, <2>2, <2>4 DEF ApiTypes
  <2>6. Answered(c)'
    <3>1. Append(<<>>, a) # <<>>
      BY <2>4
    <3> QED BY <2>5, <3>1 DEF Answered
  <2>7. hpServer' \in Servers
    BY <2>s
  <2>8. \A b \in Browsers : /\ InBacklog(b)' <=> InBacklog(b)
                            /\ ~Served(b)'
                            /\ b # c => (Answered(b)' <=> Answered(b))
    <3> QED BY <1>1, <2>5, <2>s DEF InBacklog, Served, Answered
  <2>9. Places'
    <3>2. hpBacklog' = hpBacklog /\ hpBrowser' = hpBrowser
      BY <1>1
    <3>3. \A i, j \in DOMAIN hpBacklog' : hpBacklog'[i] = hpBacklog'[j] => i = j
      BY <1>1, <3>2 DEF Places
    <3>4. ASSUME NEW b \in Browsers, b # c
          PROVE  /\ InBacklog(b)' => ~Answered(b)'
                 /\ hpBrowser'[b] = "away" => ~InBacklog(b)' /\ ~Answered(b)'
                 /\ Answered(b)' => hpBrowser'[b] = "asking" /\ Len(hpAnswers'[b]) = 1
      <4>1. hpAnswers'[b] = hpAnswers[b] /\ hpBrowser'[b] = hpBrowser[b]
        BY <2>5, <3>2, <3>4
      <4> QED BY <1>1, <2>8, <3>4, <4>1 DEF Places
    <3>5. /\ ~InBacklog(c)' /\ hpBrowser'[c] = "asking"
          /\ Len(hpAnswers'[c]) = 1
      BY <1>2, <2>4, <2>5, <2>8, <3>2
    <3>6. ASSUME NEW b \in Browsers
          PROVE  /\ InBacklog(b)' => ~Served(b)' /\ ~Answered(b)'
                 /\ Served(b)' => ~Answered(b)'
                 /\ hpBrowser'[b] = "away" => ~InBacklog(b)' /\ ~Served(b)' /\ ~Answered(b)'
                 /\ Answered(b)' => hpBrowser'[b] = "asking" /\ Len(hpAnswers'[b]) = 1
      <4>1. CASE b = c
        BY <2>8, <3>5, <4>1
      <4>2. CASE b # c
        BY <2>8, <3>4, <4>2
      <4> QED BY <4>1, <4>2
    <3> QED BY <2>s, <3>3, <3>6 DEF Places
  <2> QED BY <2>3, <2>4, <2>5, <2>6, <2>7, <2>9 DEF a
<1>6. \A i \in DOMAIN hpEffects : hpEffects[i].client \in Browsers /\ hpEffects[i].client # c
  <2>1. ASSUME NEW i \in DOMAIN hpEffects
        PROVE  hpEffects[i] \in Effects /\ Answered(hpEffects[i].client)
    BY <1>1 DEF ApiTypes, EffectsAnswered
  <2> QED BY <1>2, <2>1 DEF Effects
<1>7. ASSUME NEW status \in Nat, Without(r, status)
      PROVE  HttpInv'
  <2>1. /\ Answer(r, status) /\ status \in {200, 204, 400, 401, 404, 500}
        /\ hpEffects' = hpEffects /\ ~(r.route = "chat" /\ status = 200)
    BY <1>7 DEF Without, Refuse
  <2>2. ApiTypes'
    BY <1>1, <1>5, <2>1 DEF ApiTypes
  <2>3. EffectsAnswered'
    <3>1. /\ \A b \in Browsers : b # c => hpAnswers'[b] = hpAnswers[b]
          /\ hpAnswers'[c][1] = [route |-> r.route, status |-> status]
      BY <1>5, <2>1
    <3>2. hpAnswers'[c][1] # [route |-> "chat", status |-> 200]
      BY <2>1, <3>1
    <3>3. ASSUME NEW i \in DOMAIN hpEffects'
          PROVE  /\ hpEffects'[i].whole
                 /\ hpAnswers'[hpEffects'[i].client] # <<>>
                 /\ hpAnswers'[hpEffects'[i].client][1].status \in {200, 500}
      <4>1. i \in DOMAIN hpEffects /\ hpEffects'[i] = hpEffects[i]
        BY <2>1
      <4>2. hpAnswers'[hpEffects[i].client] = hpAnswers[hpEffects[i].client]
        BY <1>6, <3>1, <4>1
      <4> QED BY <1>1, <4>1, <4>2 DEF EffectsAnswered, Answered
    <3>4. \A i, j \in DOMAIN hpEffects' : hpEffects'[i].client = hpEffects'[j].client => i = j
      BY <1>1, <2>1 DEF EffectsAnswered
    <3>5. ASSUME NEW b \in Browsers, Answered(b)',
                 hpAnswers'[b][1] = [route |-> "chat", status |-> 200]
          PROVE  \E i \in DOMAIN hpEffects' : hpEffects'[i].client = b
      <4>1. b # c
        BY <3>2, <3>5
      <4>2. hpAnswers'[b] = hpAnswers[b]
        BY <3>1, <4>1
      <4> QED BY <1>1, <2>1, <3>5, <4>2 DEF EffectsAnswered, Answered
    <3> QED BY <3>3, <3>4, <3>5 DEF EffectsAnswered, Answered
  <2> QED BY <1>5, <2>1, <2>2, <2>3 DEF HttpInv
<1>8. ASSUME NEW status \in Nat, With(r, status)
      PROVE  HttpInv'
  <2> DEFINE e == [route |-> r.route, client |-> c, whole |-> r.key /\ Body(r) = "good"]
  <2>1. /\ Answer(r, status) /\ status \in {200, 500} /\ r.key /\ Body(r) = "good"
        /\ hpEffects' = Append(hpEffects, e)
    BY <1>b, <1>8 DEF With, Did
  <2>2. e \in Effects /\ e.client = c /\ e.whole
    BY <1>2, <2>1 DEF Effects, Requests
  <2> HIDE DEF e
  <2>3. /\ hpEffects' \in Seq(Effects) /\ Len(hpEffects) + 1 \in DOMAIN hpEffects'
        /\ hpEffects'[Len(hpEffects) + 1] = e
        /\ \A i \in DOMAIN hpEffects : i \in DOMAIN hpEffects' /\ hpEffects'[i] = hpEffects[i]
        /\ \A i \in DOMAIN hpEffects' : i \in DOMAIN hpEffects \/ i = Len(hpEffects) + 1
    BY <1>1, <2>1, <2>2 DEF ApiTypes
  <2>4. ApiTypes'
    BY <1>1, <1>5, <2>1, <2>3 DEF ApiTypes
  <2>5. EffectsAnswered'
    <3>1. /\ \A b \in Browsers : b # c => hpAnswers'[b] = hpAnswers[b]
          /\ hpAnswers'[c][1].status = status /\ hpAnswers'[c] # <<>>
      BY <1>5, <2>1 DEF Answered
    <3>2. ASSUME NEW i \in DOMAIN hpEffects'
          PROVE  /\ hpEffects'[i].whole
                 /\ hpAnswers'[hpEffects'[i].client] # <<>>
                 /\ hpAnswers'[hpEffects'[i].client][1].status \in {200, 500}
      <4>1. CASE i \in DOMAIN hpEffects
        <5>1. hpEffects'[i] = hpEffects[i]
          BY <2>3, <4>1
        <5>2. hpAnswers'[hpEffects[i].client] = hpAnswers[hpEffects[i].client]
          BY <1>6, <3>1, <4>1
        <5> QED BY <1>1, <4>1, <5>1, <5>2 DEF EffectsAnswered, Answered
      <4>2. CASE i = Len(hpEffects) + 1
        <5>1. hpEffects'[i].client = c /\ hpEffects'[i].whole
          BY <2>2, <2>3, <4>2
        <5> QED BY <2>1, <3>1, <5>1
      <4> QED BY <2>3, <4>1, <4>2
    <3>3. ASSUME NEW i \in DOMAIN hpEffects', NEW j \in DOMAIN hpEffects',
                 hpEffects'[i].client = hpEffects'[j].client
          PROVE  i = j
      <4>1. CASE i \in DOMAIN hpEffects /\ j \in DOMAIN hpEffects
        BY <1>1, <2>3, <3>3, <4>1 DEF EffectsAnswered
      <4>2. CASE i \notin DOMAIN hpEffects \/ j \notin DOMAIN hpEffects
        BY <1>6, <2>2, <2>3, <3>3, <4>2
      <4> QED BY <4>1, <4>2
    <3>4. ASSUME NEW b \in Browsers, Answered(b)',
                 hpAnswers'[b][1] = [route |-> "chat", status |-> 200]
          PROVE  \E i \in DOMAIN hpEffects' : hpEffects'[i].client = b
      <4>1. CASE b = c
        BY <2>2, <2>3, <4>1
      <4>2. CASE b # c
        <5>1. hpAnswers'[b] = hpAnswers[b]
          BY <3>1, <4>2
        <5> QED BY <1>1, <2>3, <3>4, <5>1 DEF EffectsAnswered, Answered
      <4> QED BY <4>1, <4>2
    <3> QED BY <3>2, <3>3, <3>4 DEF EffectsAnswered, Answered
  <2> QED BY <1>5, <2>1, <2>4, <2>5 DEF HttpInv
<1> QED BY <1>3, <1>4, <1>7, <1>8 DEF Outcome

LEMMA HttpStep == HttpInv /\ [HttpNext]_hpVars => HttpInv'
<1>1. ASSUME HttpInv, UNCHANGED hpVars
      PROVE  HttpInv'
  BY <1>1 DEF hpVars, HttpInv, ApiTypes, Places, EffectsAnswered, InBacklog, Served, Answered
<1> QED BY <1>1, ClientStep, ServerStep, HandleStep DEF HttpNext

LEMMA AtMostOne ==
    ASSUME NEW S, \A i, j \in S : i = j
    PROVE  Cardinality(S) <= 1
<1>1. CASE S = {}
  BY <1>1, FS_EmptySet
<1>2. CASE S # {}
  <2>1. PICK i : S = {i}
    BY <1>2
  <2>2. Cardinality({i}) = 1
    BY FS_Singleton
  <2> QED BY <2>1, <2>2
<1> QED BY <1>1, <1>2

\* Whatever number of clients ask, wait, leave and are cut off: each gets at most
\* one answer, a chat is "queued" exactly when the agent has it, and only whole
\* requests are carried out, one by one (http_server.c:304, http_api.c).
THEOREM AnswersAgree == HttpSpec => []AnsweredAsDone
<1>1. HttpInv => AnsweredAsDone
  <2> SUFFICES ASSUME HttpInv PROVE AnsweredAsDone
    OBVIOUS
  <2> DEFINE effects(c) == {i \in DOMAIN hpEffects : hpEffects[i].client = c}
  <2>1. HttpTypeOK
    BY DEF HttpInv, ApiTypes, Servers, Wheres, HttpTypeOK, AnswerRecords
  <2>2. ASSUME NEW c \in Browsers
        PROVE  /\ Len(hpAnswers[c]) <= 1 /\ Cardinality(effects(c)) <= 1
               /\ hpAnswers[c] # <<>> => /\ hpBrowser[c] = "asking" /\ hpServer.client # c
                                         /\ \A i \in DOMAIN hpBacklog : hpBacklog[i] # c
    <3>1. Len(hpAnswers[c]) <= 1
      <4>1. CASE Answered(c)
        <5>1. Len(hpAnswers[c]) = 1
          BY <4>1 DEF HttpInv, Places
        <5> QED BY <5>1
      <4>2. CASE ~Answered(c)
        <5>1. hpAnswers[c] = <<>>
          BY <4>2 DEF Answered
        <5>2. Len(hpAnswers[c]) = 0
          BY <5>1
        <5> QED BY <5>2
      <4> QED BY <4>1, <4>2
    <3>2. Cardinality(effects(c)) <= 1
      BY AtMostOne DEF HttpInv, EffectsAnswered
    <3>3. hpAnswers[c] # <<>> => /\ hpBrowser[c] = "asking" /\ hpServer.client # c
                                 /\ \A i \in DOMAIN hpBacklog : hpBacklog[i] # c
      BY DEF HttpInv, Places, Answered, Served, InBacklog
    <3> QED BY <3>1, <3>2, <3>3
  <2>3. ASSUME NEW c \in Browsers
        PROVE  /\ \A i \in effects(c) : /\ hpEffects[i].whole
                                        /\ hpAnswers[c] # <<>>
                                        /\ hpAnswers[c][1].status \in {200, 500}
               /\ hpAnswers[c] # <<>> /\ hpAnswers[c][1] = [route |-> "chat", status |-> 200]
                    => effects(c) # {}
    BY DEF HttpInv, EffectsAnswered, Answered
  <2> QED BY <2>1, <2>2, <2>3 DEF AnsweredAsDone
<1> QED BY <1>1, HttpInitial, HttpStep, PTL DEF HttpSpec

-----------------------------------------------------------------------------
(***************************************************************************)
(* The skills (SkillRegistry), for any files, changes and commands.  A     *)
(* skill whose file has changed since is the one of a directory of which   *)
(* the watcher has an event to read or to handle; handling it removes all  *)
(* skills of the directory before the scan adds them again.                *)
(***************************************************************************)

Skills == [name : {f.name : f \in SkillFiles}, source : Sources, file : SkillFiles,
           version : Nat, enabled : BOOLEAN]
Scans == [who : {"nobody", "main", "watcher", "command"}, dirs : Seq(Sources),
          todo : SUBSET SkillFiles]

SkillTypes ==
    /\ skFiles \in [SkillFiles -> 0..(MaxChanges + 1)]
    /\ skRegistry \in Seq(Skills)
    /\ \A p \in skPlugins : p.file \in SkillFiles /\ p.base = p.file.base
    /\ skEvents \subseteq Sources /\ skBatch \subseteq Sources
    /\ skScan \in Scans
    /\ skScan.who = "nobody" => skScan = NoScan
    /\ skScan.who # "nobody" => skScan.dirs # <<>>
    /\ skUnseen \subseteq SkillFiles
    /\ skStage \in {"init", "running", "unplugged", "over"}
    /\ skChanges \in 0..MaxChanges /\ skCommands \in 0..MaxCommands

Distinct(reg) == \A i, j \in DOMAIN reg : reg[i].name = reg[j].name => i = j

\* s is what its file defines, or its directory will be scanned again.
Fresh(s, files, unseen, waiting) ==
    s.source = s.file.dir /\ s.file \notin unseen
        => s.version = files[s.file] \/ s.file.dir \in waiting

\* What a registry may be, with what the files and the directories waiting are.
GoodRegistry(reg, files, unseen, waiting) ==
    /\ reg \in Seq(Skills) /\ Distinct(reg)
    /\ \A i \in DOMAIN reg : Fresh(reg[i], files, unseen, waiting)

SkillInv == SkillTypes /\ GoodRegistry(skRegistry, skFiles, skUnseen, skEvents \cup skBatch)

-----------------------------------------------------------------------------
(* What the operations make of a registry. *)

\* r has nothing that reg does not have, and new.
Among(r, reg) == \A k \in DOMAIN r : \E i \in DOMAIN reg : r[k] = reg[i]
AmongOr(r, reg, new) == \A k \in DOMAIN r : r[k] = new \/ \E i \in DOMAIN reg : r[k] = reg[i]

LEMMA FirstIs ==
    ASSUME NEW S \in SUBSET Nat, S # {}
    PROVE  First(S) \in S
<1>1. \E n \in S : \A m \in S : n <= m
  BY Least
<1> QED BY <1>1 DEF First

LEMMA EmbedsKeeps ==
    ASSUME NEW reg \in Seq(Skills), NEW r \in Seq(Skills), NEW I, Embeds(r, reg, I),
           Distinct(reg)
    PROVE  /\ Distinct(r) /\ Among(r, reg)
           /\ \A k \in DOMAIN r : \E i \in DOMAIN reg : i \in I /\ r[k] = reg[i]
<1>1. PICK e \in [1..Len(r) -> DOMAIN reg] :
          /\ \A i, j \in 1..Len(r) : i < j => e[i] < e[j]
          /\ \A i \in 1..Len(r) : e[i] \in I /\ r[i] = reg[e[i]]
  BY DEF Embeds
<1>2. DOMAIN r = 1..Len(r) /\ DOMAIN reg = 1..Len(reg) /\ Len(reg) \in Nat /\ Len(r) \in Nat
  BY LenProperties
<1>3. ASSUME NEW i \in 1..Len(r), NEW j \in 1..Len(r), r[i].name = r[j].name PROVE i = j
  <2>1. e[i] = e[j]
    BY <1>1, <1>3 DEF Distinct
  <2>2. i \in Nat /\ j \in Nat /\ e[i] \in Nat
    BY <1>2
  <2>3. ~(i < j) /\ ~(j < i)
    BY <1>1, <2>1, <2>2
  <2> QED BY <2>2, <2>3
<1>4. Distinct(r)
  BY <1>2, <1>3 DEF Distinct
<1>5. \A k \in DOMAIN r : \E i \in DOMAIN reg : i \in I /\ r[k] = reg[i]
  BY <1>1, <1>2
<1>6. Among(r, reg)
  BY <1>5 DEF Among
<1> QED BY <1>4, <1>5, <1>6

LEMMA RemovedAt ==
    ASSUME NEW reg \in Seq(Skills), NEW i \in DOMAIN reg, Distinct(reg)
    PROVE  RemoveAt(reg, i) \in Seq(Skills) /\ Distinct(RemoveAt(reg, i)) /\ Among(RemoveAt(reg, i), reg)
<1>1. PICK n \in Nat : n = Len(reg) /\ DOMAIN reg = 1..n /\ i \in 1..n
      /\ \A k \in 1..n : reg[k] \in Skills
  BY LenProperties, ElementOfSeq
<1>0. n \in Int /\ i \in Int /\ 1 <= i /\ i <= n /\ i - 1 \in Nat /\ n - i \in Nat
  BY <1>1
<1>2. PICK a \in Seq(Skills) : /\ a = SubSeq(reg, 1, i - 1) /\ Len(a) = i - 1
                               /\ \A k \in 1..i - 1 : a[k] = reg[k]
  <2>1. PICK h \in Int : h = i - 1 /\ h - 1 + 1 = h /\ \A k \in 1..h : 1 + k - 1 = k
    BY <1>1
  <2>2. \A k \in 1..h : reg[k] \in Skills
    BY <1>1, <2>1
  <2>3. PICK a : a = SubSeq(reg, 1, h)
    OBVIOUS
  <2>4. /\ a \in Seq(Skills) /\ Len(a) = IF 1 <= h THEN h - 1 + 1 ELSE 0
        /\ \A k \in 1..h - 1 + 1 : a[k] = reg[1 + k - 1]
    BY <2>2, <2>3, SubSeqProperties
  <2>5. (IF 1 <= h THEN h - 1 + 1 ELSE 0) = h
    BY <1>1, <2>1
  <2> QED BY <2>1, <2>3, <2>4, <2>5
<1>3. PICK b \in Seq(Skills) : /\ b = SubSeq(reg, i + 1, n) /\ Len(b) = n - i
                               /\ \A k \in 1..n - i : b[k] = reg[i + k]
  <2>1. i + 1 \in Int /\ n - (i + 1) + 1 = n - i /\ \A k \in Int : (i + 1) + k - 1 = i + k
    BY ONLY <1>0
  <2>2. PICK l \in Int : l = i + 1
    BY <2>1
  <2>3. n \in Int /\ \A k \in l..n : reg[k] \in Skills
    BY <1>1, <2>2
  <2>4. PICK c : c = SubSeq(reg, l, n)
    OBVIOUS
  <2>5. /\ c \in Seq(Skills) /\ Len(c) = IF l <= n THEN n - l + 1 ELSE 0
        /\ \A k \in 1..n - l + 1 : c[k] = reg[l + k - 1]
    BY <2>3, <2>4, SubSeqProperties
  <2>6. (IF l <= n THEN n - l + 1 ELSE 0) = n - i
    BY ONLY <1>0, <2>2
  <2>7. \A k \in 1..n - i : c[k] = reg[i + k]
    <3> SUFFICES ASSUME NEW k \in 1..n - i PROVE c[k] = reg[i + k]
      OBVIOUS
    <3>1. n - l + 1 = n - i
      BY <2>1, <2>2
    <3>2. c[k] = reg[l + k - 1]
      BY <2>5, <3>1
    <3>3. l + k - 1 = i + k
      BY <2>1, <2>2
    <3> QED BY <3>2, <3>3
  <2>8. c = SubSeq(reg, i + 1, n) /\ Len(c) = n - i
    BY <2>2, <2>4, <2>5, <2>6
  <2> QED BY <2>5, <2>7, <2>8
<1>4. PICK r \in Seq(Skills) : r = a \o b
  BY ConcatProperties
<1>5. RemoveAt(reg, i) = r
  BY <1>1, <1>2, <1>3, <1>4 DEF RemoveAt
<1>6. /\ Len(r) = n - 1
      /\ \A k \in 1..n - 1 : r[k] = IF k <= i - 1 THEN a[k] ELSE b[k - (i - 1)]
  <2>1. Len(a) + Len(b) = n - 1
    <3>1. (i - 1) + (n - i) = n - 1
      BY ONLY <1>0
    <3> QED BY <1>2, <1>3, <3>1
  <2> QED BY <1>2, <1>4, <2>1, ConcatProperties
<1>7. ASSUME NEW k \in 1..n - 1
      PROVE  r[k] = reg[IF k <= i - 1 THEN k ELSE k + 1]
  <2>1. CASE k <= i - 1
    <3>1. k \in 1..i - 1
      BY <1>1, <2>1
    <3> QED BY <1>2, <1>6, <2>1, <3>1
  <2>2. CASE ~(k <= i - 1)
    <3>1. k - (i - 1) \in 1..n - i /\ i + (k - (i - 1)) = k + 1
      BY <1>1, <2>2
    <3> QED BY <1>3, <1>6, <2>2, <3>1
  <2> QED BY <2>1, <2>2
<1> DEFINE e == [k \in 1..Len(r) |-> IF k <= i - 1 THEN k ELSE k + 1]
<1>8. e \in [1..Len(r) -> DOMAIN reg]
  BY <1>1, <1>6
<1>9. \A k, l \in 1..Len(r) : k < l => e[k] < e[l]
  BY <1>1, <1>6
<1>10. \A k \in 1..Len(r) : e[k] \in DOMAIN reg /\ r[k] = reg[e[k]]
  BY <1>6, <1>7, <1>8
<1> HIDE DEF e
<1>11. Embeds(r, reg, DOMAIN reg)
  BY <1>8, <1>9, <1>10 DEF Embeds
<1> QED BY <1>5, <1>11, EmbedsKeeps

\* The skills of a source leave.
LEMMA RemovedSource ==
    ASSUME NEW source, skRegistry \in Seq(Skills), Distinct(skRegistry)
    PROVE  /\ skill_remove_by_source(source) \in Seq(Skills)
           /\ Distinct(skill_remove_by_source(source))
           /\ Among(skill_remove_by_source(source), skRegistry)
           /\ \A k \in DOMAIN skill_remove_by_source(source) :
                 skill_remove_by_source(source)[k].source # source
<1>1. PICK reg \in Seq(Skills) : reg = skRegistry
  OBVIOUS
<1> DEFINE I == {i \in DOMAIN reg : reg[i].source # source}
<1>2. skill_remove_by_source(source) = Kept(reg, I)
  BY <1>1 DEF skill_remove_by_source, Kept
<1>3. I \subseteq DOMAIN reg /\ \A i \in I : reg[i].source # source
  OBVIOUS
<1> HIDE DEF I
<1>4. PICK r \in Seq(Skills) : r = Kept(reg, I) /\ Embeds(r, reg, I)
  BY KeptEmbeds
<1>5. /\ Distinct(r) /\ Among(r, reg)
      /\ \A k \in DOMAIN r : \E i \in DOMAIN reg : i \in I /\ r[k] = reg[i]
  BY <1>1, <1>4, EmbedsKeeps
<1>6. \A k \in DOMAIN r : r[k].source # source
  BY <1>3, <1>5
<1> QED BY <1>1, <1>2, <1>4, <1>5, <1>6

LEMMA Added ==
    ASSUME NEW reg \in Seq(Skills), NEW new \in Skills, Distinct(reg)
    PROVE  LET r == skill_add_to_registry(reg, new) IN
           r \in Seq(Skills) /\ Distinct(r) /\ AmongOr(r, reg, new)
<1> DEFINE same == skill_find(reg, new.name)
           r == skill_add_to_registry(reg, new)
<1>1. DOMAIN reg = 1..Len(reg) /\ Len(reg) \in Nat /\ \A k \in 1..Len(reg) : reg[k] \in Skills
  BY LenProperties, ElementOfSeq
<1>2. same \subseteq DOMAIN reg /\ same \in SUBSET Nat
      /\ \A i \in DOMAIN reg : reg[i].name = new.name <=> i \in same
  BY <1>1 DEF skill_find
<1>3. CASE same = {}
  <2>1. r = Append(reg, new)
    BY <1>3 DEF skill_add_to_registry
  <2>2. PICK q \in Seq(Skills) : q = Append(reg, new)
    BY AppendProperties
  <2>3. /\ DOMAIN q = 1..Len(reg) + 1 /\ q[Len(reg) + 1] = new
        /\ \A k \in 1..Len(reg) : q[k] = reg[k]
    BY <1>1, <2>2, AppendProperties, LenProperties
  <2>4. \A k \in 1..Len(reg) + 1 : k = Len(reg) + 1 \/ k \in 1..Len(reg)
    BY <1>1
  <2>5. \A k \in 1..Len(reg) : reg[k].name # new.name
    BY <1>1, <1>2, <1>3
  <2>6. Distinct(q)
    BY <1>1, <2>3, <2>4, <2>5 DEF Distinct
  <2>7. AmongOr(q, reg, new)
    BY <1>1, <2>3, <2>4 DEF AmongOr
  <2> QED BY <2>1, <2>2, <2>6, <2>7
<1>4. CASE same # {}
  <2>1. PICK f \in DOMAIN reg : f = First(same) /\ f \in same
    BY <1>2, <1>4, FirstIs
  <2>2. r = IF new.source >= reg[f].source THEN [reg EXCEPT ![f] = new] ELSE reg
    BY <1>4, <2>1 DEF skill_add_to_registry
  <2>3. CASE new.source >= reg[f].source
    <3>1. PICK q : q = [reg EXCEPT ![f] = new]
      OBVIOUS
    <3>2. /\ DOMAIN q = 1..Len(reg) /\ q[f] = new
          /\ \A k \in 1..Len(reg) : k # f => q[k] = reg[k]
          /\ q = [k \in 1..Len(reg) |-> q[k]]
      BY <1>1, <2>1, <3>1
    <3>3. \A k \in 1..Len(reg) : q[k] \in Skills
      BY <1>1, <3>2
    <3>4. q \in Seq(Skills)
      BY <1>1, <3>2, <3>3, SeqDef
    <3>5. reg[f].name = new.name
      BY <1>2, <2>1
    <3>6. \A k \in 1..Len(reg) : q[k].name = reg[k].name
      BY <3>2, <3>5
    <3>7. Distinct(q)
      BY <1>1, <3>2, <3>6 DEF Distinct
    <3>8. AmongOr(q, reg, new)
      BY <1>1, <3>2 DEF AmongOr
    <3> QED BY <2>2, <2>3, <3>1, <3>4, <3>7, <3>8
  <2>4. CASE ~(new.source >= reg[f].source)
    <3>1. AmongOr(reg, reg, new)
      BY DEF AmongOr
    <3> QED BY <2>2, <2>4, <3>1
  <2> QED BY <2>3, <2>4
<1> QED BY <1>3, <1>4
-----------------------------------------------------------------------------
(* Loading a file. *)

GoodPlugins(plugins) == \A p \in plugins : p.file \in SkillFiles /\ p.base = p.file.base

LEMMA AmongGood ==
    ASSUME NEW reg, NEW r, NEW files, NEW unseen, NEW waiting,
           GoodRegistry(reg, files, unseen, waiting),
           r \in Seq(Skills), Distinct(r), Among(r, reg)
    PROVE  GoodRegistry(r, files, unseen, waiting)
BY DEF GoodRegistry, Among

LEMMA AddedGood ==
    ASSUME NEW reg, NEW new \in Skills, NEW files, NEW unseen, NEW waiting,
           GoodRegistry(reg, files, unseen, waiting), Fresh(new, files, unseen, waiting)
    PROVE  GoodRegistry(skill_add_to_registry(reg, new), files, unseen, waiting)
<1>1. reg \in Seq(Skills) /\ Distinct(reg)
  BY DEF GoodRegistry
<1>2. PICK r : r = skill_add_to_registry(reg, new)
  OBVIOUS
<1>3. r \in Seq(Skills) /\ Distinct(r) /\ AmongOr(r, reg, new)
  BY <1>1, <1>2, Added
<1>4. GoodRegistry(r, files, unseen, waiting)
  BY <1>3 DEF GoodRegistry, AmongOr
<1> QED BY <1>2, <1>4

LEMMA NewSkill ==
    ASSUME SkillTypes, NEW f \in SkillFiles, NEW source \in Sources, NEW unseen, NEW waiting
    PROVE  Skill(f, source) \in Skills /\ Fresh(Skill(f, source), skFiles, unseen, waiting)
<1>1. skFiles[f] \in Nat
  BY SkillAssumption DEF SkillTypes
<1> QED BY <1>1 DEF Skill, Skills, Fresh

LEMMA WithoutFirstGood ==
    ASSUME NEW reg, NEW S, NEW files, NEW unseen, NEW waiting, S \subseteq DOMAIN reg,
           GoodRegistry(reg, files, unseen, waiting)
    PROVE  GoodRegistry(WithoutFirst(reg, S), files, unseen, waiting)
<1>1. reg \in Seq(Skills) /\ Distinct(reg)
  BY DEF GoodRegistry
<1>2. CASE S = {}
  BY <1>2 DEF WithoutFirst
<1>3. CASE S # {}
  <2>1. S \in SUBSET Nat
    BY <1>1, LenProperties
  <2>2. PICK i \in DOMAIN reg : i = First(S)
    BY <1>3, <2>1, FirstIs
  <2>3. PICK r : r = RemoveAt(reg, i)
    OBVIOUS
  <2>4. r \in Seq(Skills) /\ Distinct(r) /\ Among(r, reg)
    BY <1>1, <2>3, RemovedAt
  <2>5. GoodRegistry(r, files, unseen, waiting)
    BY <2>4, AmongGood
  <2> QED BY <1>3, <2>2, <2>3, <2>5 DEF WithoutFirst
<1> QED BY <1>2, <1>3

LEMMA UnloadGood ==
    ASSUME NEW base, GoodPlugins(skPlugins)
    PROVE  GoodPlugins(plugin_unload(base))
BY DEF GoodPlugins, plugin_unload

LEMMA LoadGood ==
    ASSUME NEW f \in SkillFiles, NEW others, GoodPlugins(others), NEW plugins \in plugin_load(others, f)
    PROVE  GoodPlugins(plugins)
<1>1. PICK p : p = [base |-> f.base, file |-> f, version |-> skFiles[f]]
  OBVIOUS
<1>2. p.file = f /\ p.base = f.base
  BY <1>1
<1>3. plugins = others \/ plugins = others \cup {p}
  BY <1>1 DEF plugin_load
<1> QED BY <1>2, <1>3 DEF GoodPlugins

LEMMA LoadStep ==
    ASSUME SkillTypes, NEW f \in SkillFiles, NEW source \in Sources, NEW unseen, NEW waiting,
           GoodRegistry(skRegistry, skFiles, unseen, waiting), LoadFile(f, source)
    PROVE  GoodRegistry(skRegistry', skFiles, unseen, waiting) /\ GoodPlugins(skPlugins')
<1> DEFINE Good(r) == GoodRegistry(r, skFiles, unseen, waiting)
<1>1. PICK new \in Skills : new = Skill(f, source) /\ Fresh(new, skFiles, unseen, waiting)
  BY NewSkill
<1>2. PICK reg0 : reg0 = skRegistry /\ Good(reg0)
  OBVIOUS
<1>3. GoodPlugins(skPlugins)
  BY DEF SkillTypes, GoodPlugins
<1>4. CASE f.kind = "so"
  <2> DEFINE reg == IF plugin_find(f.base) = {} THEN skRegistry
                    ELSE WithoutFirst(skRegistry, {i \in DOMAIN skRegistry : skRegistry[i].source < source})
             others == plugin_unload(f.base)
  <2>1. \/ /\ skRegistry' = skill_add_to_registry(reg, Skill(f, source))
           /\ skPlugins' \in plugin_load(others, f) \ {others}
        \/ /\ skRegistry' = reg
           /\ skPlugins' \in plugin_load(others, f)
    BY <1>4 DEF LoadFile, skill_load_from_source
  <2>2. Good(WithoutFirst(reg0, {i \in DOMAIN reg0 : reg0[i].source < source}))
    <3>1. PICK S : S = {i \in DOMAIN reg0 : reg0[i].source < source}
      OBVIOUS
    <3>2. S \subseteq DOMAIN reg0
      BY <3>1
    <3> QED BY <1>2, <3>1, <3>2, WithoutFirstGood
  <2>3. PICK r : r = reg /\ Good(r)
    BY <1>2, <2>2
  <2>4. PICK o : o = others /\ GoodPlugins(o)
    BY <1>3, UnloadGood
  <2> HIDE DEF reg, others
  <2>5. GoodPlugins(skPlugins')
    <3>1. PICK p : p = skPlugins'
      OBVIOUS
    <3>2. p \in plugin_load(o, f)
      BY <2>1, <2>4, <3>1
    <3> QED BY <2>4, <3>1, <3>2, LoadGood
  <2>6. Good(skill_add_to_registry(r, new))
    BY <1>1, <2>3, AddedGood
  <2>7. skRegistry' = skill_add_to_registry(r, new) \/ skRegistry' = r
    BY <1>1, <2>1, <2>3
  <2> QED BY <2>3, <2>5, <2>6, <2>7
<1>5. CASE f.kind # "so"
  <2>1. /\ skRegistry' = skill_add_to_registry(reg0, new) \/ skRegistry' = reg0
        /\ skPlugins' = skPlugins
    BY <1>1, <1>2, <1>5 DEF LoadFile, skill_load_markdown
  <2>2. Good(skill_add_to_registry(reg0, new))
    BY <1>1, <1>2, AddedGood
  <2>3. GoodPlugins(skPlugins')
    BY <1>3, <2>1 DEF GoodPlugins
  <2> QED BY <1>2, <2>1, <2>2, <2>3
<1> QED BY <1>4, <1>5
-----------------------------------------------------------------------------
(* The steps. *)

LEMMA SkillsInit ==
    SkInit => SkillInv
<1> SUFFICES ASSUME SkInit PROVE SkillInv
  OBVIOUS
<1>1. skRegistry = <<>> /\ skRegistry \in Seq(Skills) /\ DOMAIN skRegistry = {}
  BY EmptySeq, LenProperties DEF SkInit
<1>2. GoodRegistry(skRegistry, skFiles, skUnseen, skEvents \cup skBatch)
  BY <1>1 DEF GoodRegistry, Distinct
<1>3. PICK dirs \in Seq(Sources) : dirs = <<1, 2, 3>>
  <2>1. <<1, 2, 3>> \in [1..3 -> Sources]
    BY DEF Sources
  <2> HIDE DEF Sources
  <2>2. <<1, 2, 3>> \in Seq(Sources)
    BY <2>1, SeqDef
  <2> QED BY <2>2
<1>4. dirs # <<>>
  BY <1>3
<1>5. Present(1) \subseteq SkillFiles
  BY DEF Present, FilesOf
<1>6. skScan = [who |-> "main", dirs |-> dirs, todo |-> Present(1)]
  BY <1>3 DEF SkInit
<1>7. skScan \in Scans /\ skScan.who = "main" /\ skScan.dirs # <<>>
  BY <1>4, <1>5, <1>6 DEF Scans
<1>8. skFiles \in [SkillFiles -> 0..(MaxChanges + 1)]
  <2>1. \A n \in {0, 1} : n \in 0..(MaxChanges + 1)
    BY SkillAssumption
  <2>2. skFiles \in [SkillFiles -> {0, 1}]
    BY DEF SkInit
  <2> QED BY <2>1, <2>2
<1>9. /\ skPlugins = {} /\ skEvents = {} /\ skBatch = {} /\ skUnseen = {}
      /\ skStage = "init" /\ skChanges = 0 /\ skCommands = 0
  BY DEF SkInit
<1>10. 0 \in 0..MaxChanges /\ 0 \in 0..MaxCommands
  BY SkillAssumption
<1>11. SkillTypes
  BY <1>1, <1>7, <1>8, <1>9, <1>10 DEF SkillTypes
<1> QED BY <1>2, <1>11 DEF SkillInv

\* A scan that begins, in the directories dirs.
LEMMA ScanBegins ==
    ASSUME NEW who \in {"main", "watcher", "command"}, NEW dirs \in Seq(Sources), dirs # <<>>
    PROVE  /\ Scan(who, dirs) \in Scans /\ Scan(who, dirs).who = who
           /\ Scan(who, dirs).dirs = dirs
BY DEF Scan, Scans, Present, FilesOf

LEMMA NobodyScans == NoScan \in Scans /\ NoScan.who = "nobody" /\ NoScan.todo = {}
<1>1. <<>> \in Seq(Sources)
  BY EmptySeq
<1> QED BY <1>1 DEF NoScan, Scans

LEMMA LoadFromDirStep ==
    ASSUME SkillInv, NEW f \in SkillFiles, skill_load_from_dir(f)
    PROVE  SkillInv'
<1>1. /\ f \in skScan.todo /\ skScan' = [skScan EXCEPT !.todo = @ \ {f}]
      /\ skFiles' = skFiles /\ skEvents' = skEvents /\ skBatch' = skBatch /\ skStage' = skStage
      /\ skUnseen' = skUnseen /\ skChanges' = skChanges /\ skCommands' = skCommands
  BY DEF skill_load_from_dir
<1>2. skScan \in Scans /\ skScan.who # "nobody" /\ skScan.dirs # <<>>
  BY <1>1, NobodyScans DEF SkillInv, SkillTypes
<1>3. /\ skScan' \in Scans /\ skScan'.who = skScan.who /\ skScan'.dirs = skScan.dirs
  BY <1>1, <1>2 DEF Scans
<1>4. /\ GoodRegistry(skRegistry', skFiles, skUnseen, skEvents \cup skBatch)
      /\ GoodPlugins(skPlugins')
  <2>1. CASE skFiles[f] > 0
    <3>1. Head(skScan.dirs) \in Sources
      BY <1>2, HeadTailProperties DEF Scans
    <3>2. PICK source \in Sources : source = Head(skScan.dirs)
      BY <3>1
    <3>3. LoadFile(f, source)
      BY <2>1, <3>2 DEF skill_load_from_dir
    <3> QED BY <3>3, LoadStep DEF SkillInv
  <2>2. CASE ~(skFiles[f] > 0)
    <3>1. skRegistry' = skRegistry /\ skPlugins' = skPlugins
      BY <2>2 DEF skill_load_from_dir
    <3> QED BY <3>1 DEF SkillInv, SkillTypes, GoodPlugins
  <2> QED BY <2>1, <2>2
<1>5. skRegistry' \in Seq(Skills)
  BY <1>4 DEF GoodRegistry
<1>6. SkillTypes'
  BY <1>1, <1>2, <1>3, <1>4, <1>5 DEF SkillInv, SkillTypes, GoodPlugins
<1>7. GoodRegistry(skRegistry', skFiles', skUnseen', skEvents' \cup skBatch')
  BY <1>1, <1>4
<1> QED BY <1>6, <1>7 DEF SkillInv

\* Skills only leave, and nothing else but a scan and the stage changes.
LEMMA ScanStep ==
    ASSUME SkillInv, skRegistry' \in Seq(Skills), Distinct(skRegistry'),
           Among(skRegistry', skRegistry),
           skScan' \in Scans, skScan'.who = "nobody" => skScan' = NoScan',
           skScan'.who # "nobody" => skScan'.dirs # <<>>,
           skStage' \in {"init", "running", "unplugged", "over"}, GoodPlugins(skPlugins'),
           skCommands' \in 0..MaxCommands,
           UNCHANGED <<skFiles, skEvents, skBatch, skUnseen, skChanges>>
    PROVE  SkillInv'
<1>1. /\ skFiles' = skFiles /\ skEvents' = skEvents /\ skBatch' = skBatch
      /\ skUnseen' = skUnseen /\ skChanges' = skChanges
  OBVIOUS
<1>2. GoodRegistry(skRegistry', skFiles, skUnseen, skEvents \cup skBatch)
  BY AmongGood DEF SkillInv
<1>3. SkillTypes'
  BY <1>1 DEF SkillInv, SkillTypes, GoodPlugins
<1> QED BY <1>1, <1>2, <1>3 DEF SkillInv

LEMMA SameAmong ==
    ASSUME SkillInv
    PROVE  /\ skRegistry \in Seq(Skills) /\ Distinct(skRegistry) /\ Among(skRegistry, skRegistry)
           /\ GoodPlugins(skPlugins) /\ skCommands \in 0..MaxCommands
           /\ skStage \in {"init", "running", "unplugged", "over"}
           /\ skScan \in Scans /\ (skScan.who = "nobody" => skScan = NoScan)
           /\ (skScan.who # "nobody" => skScan.dirs # <<>>)
BY DEF SkillInv, SkillTypes, GoodRegistry, Among, GoodPlugins

LEMMA NextDirectoryStep ==
    ASSUME SkillInv, NextDirectory
    PROVE  SkillInv'
<1>1. /\ skScan \in Scans /\ skScan.who # "nobody" /\ skScan.dirs # <<>>
  BY SameAmong DEF NextDirectory
<1>2. /\ skFiles' = skFiles /\ skPlugins' = skPlugins /\ skEvents' = skEvents
      /\ skBatch' = skBatch /\ skUnseen' = skUnseen /\ skChanges' = skChanges
      /\ skCommands' = skCommands
  BY DEF NextDirectory
<1>3. CASE Len(skScan.dirs) > 1
  <2>1. PICK dirs \in Seq(Sources), who \in {"main", "watcher", "command"} :
            dirs = Tail(skScan.dirs) /\ who = skScan.who /\ dirs # <<>>
    <3>1. skScan.dirs \in Seq(Sources) /\ skScan.who \in {"main", "watcher", "command"}
      BY <1>1 DEF Scans
    <3>2. PICK d \in Seq(Sources) : d = skScan.dirs
      BY <3>1
    <3>3. Tail(d) \in Seq(Sources) /\ Len(Tail(d)) = Len(d) - 1 /\ Len(d) \in Nat
      BY <1>1, <3>2, HeadTailProperties, LenProperties
    <3>4. Tail(d) # <<>>
      <4>1. Len(d) > 1
        BY <1>3, <3>2
      <4>2. Len(Tail(d)) # 0
        BY <3>3, <4>1
      <4> QED BY <4>2, EmptySeq
    <3> QED BY <3>1, <3>2, <3>3, <3>4
  <2>2. /\ skScan' = Scan(who, dirs) /\ skStage' = skStage
        /\ skRegistry' \in {skRegistry, skill_remove_by_source(Head(dirs))}
    BY <1>3, <2>1 DEF NextDirectory
  <2>3. skScan' \in Scans /\ skScan'.who = who /\ skScan'.dirs = dirs
    <3>1. PICK scan : scan = Scan(who, dirs)
      OBVIOUS
    <3>2. scan \in Scans /\ scan.who = who /\ scan.dirs = dirs
      BY <3>1 DEF Scan, Scans, Present, FilesOf
    <3> QED BY <2>2, <3>1, <3>2
  <2>4. skRegistry' \in Seq(Skills) /\ Distinct(skRegistry') /\ Among(skRegistry', skRegistry)
    <3>1. PICK source : source = Head(dirs)
      OBVIOUS
    <3>2. PICK r : r = skill_remove_by_source(source)
      OBVIOUS
    <3>3. r \in Seq(Skills) /\ Distinct(r) /\ Among(r, skRegistry)
      BY <3>2, SameAmong, RemovedSource
    <3> QED BY <2>2, <3>1, <3>2, <3>3, SameAmong
  <2> QED BY <1>2, <2>1, <2>2, <2>3, <2>4, SameAmong, ScanStep
<1>4. CASE ~(Len(skScan.dirs) > 1)
  <2>1. /\ skScan' = NoScan /\ skRegistry' = skRegistry
        /\ skStage' = IF skStage = "init" THEN "running" ELSE skStage
    BY <1>4 DEF NextDirectory
  <2>2. NoScan' = NoScan
    BY DEF NoScan
  <2>3. skStage' \in {"init", "running", "unplugged", "over"}
    BY <2>1, SameAmong
  <2> QED BY <1>2, <2>1, <2>2, <2>3, NobodyScans, SameAmong, ScanStep
<1> QED BY <1>3, <1>4
\* The directories with unread events become the ones of the batch.
LEMMA ReadEventsStep ==
    ASSUME SkillInv, ReadEvents
    PROVE  SkillInv'
<1>1. /\ skBatch = {} /\ skBatch' = skEvents /\ skEvents' = {}
      /\ skFiles' = skFiles /\ skRegistry' = skRegistry /\ skPlugins' = skPlugins
      /\ skScan' = skScan /\ skStage' = skStage /\ skUnseen' = skUnseen
      /\ skChanges' = skChanges /\ skCommands' = skCommands
  BY DEF ReadEvents
<1>2. skEvents' \cup skBatch' = skEvents \cup skBatch
  BY <1>1
<1>3. SkillTypes'
  BY <1>1 DEF SkillInv, SkillTypes, NoScan
<1> QED BY <1>1, <1>2, <1>3 DEF SkillInv

\* The skills of a directory leave before its scan begins: none of those that stay
\* needs the event that is handled.
LEMMA HandleChangeStep ==
    ASSUME SkillInv, watcher_handle_change
    PROVE  SkillInv'
<1>1. PICK d \in skBatch : d = First(skBatch)
  <2>1. skBatch \in SUBSET Nat /\ skBatch # {}
    BY DEF SkillInv, SkillTypes, Sources, watcher_handle_change
  <2> QED BY <2>1, FirstIs
<1>2. d \in Sources
  BY DEF SkillInv, SkillTypes
<1>3. /\ skBatch' = skBatch \ {d} /\ skRegistry' = skill_remove_by_source(d)
      /\ skScan' = Scan("watcher", <<d>>)
      /\ skFiles' = skFiles /\ skPlugins' = skPlugins /\ skEvents' = skEvents
      /\ skStage' = skStage /\ skUnseen' = skUnseen
      /\ skChanges' = skChanges /\ skCommands' = skCommands
  BY <1>1 DEF watcher_handle_change, skill_reload_from_dir
<1>4. PICK dirs \in Seq(Sources) : dirs = <<d>> /\ dirs # <<>>
  <2>1. <<d>> \in Seq(Sources) /\ <<d>> = Append(<<>>, d)
    BY <1>2, OneSeq
  <2>2. Append(<<>>, d) # <<>>
    BY <1>2, AppendProperties, EmptySeq
  <2> QED BY <2>1, <2>2
<1>5. PICK scan : scan = Scan("watcher", dirs)
  OBVIOUS
<1>6. scan \in Scans /\ scan.who = "watcher" /\ scan.dirs = dirs
  BY <1>5 DEF Scan, Scans, Present, FilesOf
<1>7. PICK r : r = skill_remove_by_source(d)
  OBVIOUS
<1>8. /\ r \in Seq(Skills) /\ Distinct(r) /\ Among(r, skRegistry)
      /\ \A k \in DOMAIN r : r[k].source # d
  BY <1>7, SameAmong, RemovedSource
<1>9. GoodRegistry(r, skFiles, skUnseen, skEvents \cup skBatch)
  BY <1>8, AmongGood DEF SkillInv
<1>10. GoodRegistry(r, skFiles, skUnseen, skEvents \cup (skBatch \ {d}))
  <2> SUFFICES ASSUME NEW k \in DOMAIN r
               PROVE  Fresh(r[k], skFiles, skUnseen, skEvents \cup (skBatch \ {d}))
    BY <1>9 DEF GoodRegistry
  <2>1. Fresh(r[k], skFiles, skUnseen, skEvents \cup skBatch)
    BY <1>9 DEF GoodRegistry
  <2>2. r[k].source # d
    BY <1>8
  <2> QED BY <2>1, <2>2 DEF Fresh
<1>11. SkillTypes'
  <2>1. skScan' = scan
    BY <1>3, <1>4, <1>5
  <2>2. skRegistry' = r
    BY <1>3, <1>7
  <2> QED BY <1>3, <1>4, <1>6, <1>8, <2>1, <2>2 DEF SkillInv, SkillTypes
<1>12. GoodRegistry(skRegistry', skFiles', skUnseen', skEvents' \cup skBatch')
  BY <1>3, <1>7, <1>10
<1> QED BY <1>11, <1>12 DEF SkillInv

\* /skill load, unload, enable, disable and reload.
LEMMA SkillLoadStep ==
    ASSUME SkillInv, NEW f \in SkillFiles, skill_load(f),
           skCommands' \in 0..MaxCommands,
           UNCHANGED <<skFiles, skEvents, skBatch, skStage, skUnseen, skChanges>>
    PROVE  SkillInv'
<1>1. /\ skScan' = skScan /\ skFiles' = skFiles /\ skEvents' = skEvents /\ skBatch' = skBatch
      /\ skStage' = skStage /\ skUnseen' = skUnseen /\ skChanges' = skChanges
      /\ f.kind = "so" /\ skill_load_from_source(f, 1)
  BY DEF skill_load
<1>2. PICK source \in Sources : source = 1
  BY DEF Sources
<1>3. LoadFile(f, source)
  BY <1>1, <1>2 DEF LoadFile
<1>4. /\ GoodRegistry(skRegistry', skFiles, skUnseen, skEvents \cup skBatch)
      /\ GoodPlugins(skPlugins')
  BY <1>3, LoadStep DEF SkillInv
<1>5. skRegistry' \in Seq(Skills)
  BY <1>4 DEF GoodRegistry
<1>6. SkillTypes'
  BY <1>1, <1>4, <1>5 DEF SkillInv, SkillTypes, GoodPlugins, NoScan
<1>7. GoodRegistry(skRegistry', skFiles', skUnseen', skEvents' \cup skBatch')
  BY <1>1, <1>4
<1> QED BY <1>6, <1>7 DEF SkillInv

LEMMA SkillUnloadStep ==
    ASSUME SkillInv, NEW name, skill_unload(name),
           skCommands' \in 0..MaxCommands,
           UNCHANGED <<skFiles, skEvents, skBatch, skStage, skUnseen, skChanges>>
    PROVE  SkillInv'
<1>1. PICK reg \in Seq(Skills) : reg = skRegistry /\ Distinct(reg)
  BY SameAmong
<1>2. PICK named : named = skill_find(reg, name)
  OBVIOUS
<1>3. named # {} /\ named \subseteq DOMAIN reg
  BY <1>1, <1>2 DEF skill_unload, skill_find
<1>4. PICK i \in DOMAIN reg : i = First(named)
  <2>1. named \in SUBSET Nat
    BY <1>3, LenProperties
  <2> QED BY <1>3, <2>1, FirstIs
<1>5. /\ skRegistry' = RemoveAt(reg, i) /\ skScan' = skScan
      /\ skPlugins' \in {skPlugins, plugin_unload(reg[i].file.base)}
  BY <1>1, <1>2, <1>4 DEF skill_unload
<1>6. PICK r : r = RemoveAt(reg, i)
  OBVIOUS
<1>7. r \in Seq(Skills) /\ Distinct(r) /\ Among(r, reg)
  BY <1>1, <1>6, RemovedAt
<1>8. GoodPlugins(skPlugins')
  BY <1>5, SameAmong, UnloadGood DEF GoodPlugins, plugin_unload
<1>9. NoScan' = NoScan
  BY DEF NoScan
<1> QED BY <1>1, <1>5, <1>6, <1>7, <1>8, <1>9, SameAmong, ScanStep

\* Enabling touches no version, no name and no source.
LEMMA SetEnabledStep ==
    ASSUME SkillInv, NEW name, NEW on \in BOOLEAN, skill_set_enabled(name, on),
           skCommands' \in 0..MaxCommands,
           UNCHANGED <<skFiles, skEvents, skBatch, skStage, skUnseen, skChanges>>
    PROVE  SkillInv'
<1>1. PICK reg \in Seq(Skills) : reg = skRegistry /\ Distinct(reg)
  BY SameAmong
<1>2. PICK named : named = skill_find(reg, name)
  OBVIOUS
<1>3. named # {} /\ named \subseteq DOMAIN reg
  BY <1>1, <1>2 DEF skill_set_enabled, skill_find
<1>4. PICK i \in DOMAIN reg : i = First(named)
  <2>1. named \in SUBSET Nat
    BY <1>3, LenProperties
  <2> QED BY <1>3, <2>1, FirstIs
<1>5. /\ skRegistry' = [reg EXCEPT ![i].enabled = on] /\ skScan' = skScan
      /\ skPlugins' = skPlugins /\ skFiles' = skFiles /\ skEvents' = skEvents
      /\ skBatch' = skBatch /\ skStage' = skStage /\ skUnseen' = skUnseen
      /\ skChanges' = skChanges
  BY <1>1, <1>2, <1>4 DEF skill_set_enabled
<1>6. PICK r : r = [reg EXCEPT ![i].enabled = on]
  OBVIOUS
<1>7. DOMAIN reg = 1..Len(reg) /\ Len(reg) \in Nat /\ \A k \in 1..Len(reg) : reg[k] \in Skills
  BY LenProperties, ElementOfSeq
<1>8. /\ r = [k \in 1..Len(reg) |-> r[k]] /\ DOMAIN r = 1..Len(reg)
      /\ r[i] = [reg[i] EXCEPT !.enabled = on]
      /\ \A k \in 1..Len(reg) : k # i => r[k] = reg[k]
  BY <1>6, <1>7
<1>9. ASSUME NEW k \in 1..Len(reg)
      PROVE  /\ r[k] \in Skills /\ r[k].name = reg[k].name /\ r[k].source = reg[k].source
             /\ r[k].file = reg[k].file /\ r[k].version = reg[k].version
  <2>1. CASE k = i
    BY <1>7, <1>8, <2>1 DEF Skills
  <2>2. CASE k # i
    BY <1>7, <1>8, <2>2
  <2> QED BY <2>1, <2>2
<1>10. r \in Seq(Skills)
  <2>1. r \in [1..Len(reg) -> Skills]
    BY <1>8, <1>9
  <2> QED BY <1>7, <2>1, SeqDef
<1>11. Distinct(r)
  BY <1>1, <1>7, <1>8, <1>9 DEF Distinct
<1>12. \A k \in 1..Len(reg) : Fresh(reg[k], skFiles, skUnseen, skEvents \cup skBatch)
  BY <1>1, <1>7 DEF SkillInv, GoodRegistry
<1>13. \A k \in DOMAIN r : Fresh(r[k], skFiles, skUnseen, skEvents \cup skBatch)
  BY <1>8, <1>9, <1>12 DEF Fresh
<1>14. GoodRegistry(r, skFiles, skUnseen, skEvents \cup skBatch)
  BY <1>10, <1>11, <1>13 DEF GoodRegistry
<1>15. SkillTypes'
  BY <1>5, <1>6, <1>10 DEF SkillInv, SkillTypes, NoScan
<1> QED BY <1>5, <1>6, <1>14, <1>15 DEF SkillInv

LEMMA ReloadAllStep ==
    ASSUME SkillInv, skill_reload_all,
           skCommands' \in 0..MaxCommands,
           UNCHANGED <<skFiles, skEvents, skBatch, skStage, skUnseen, skChanges>>
    PROVE  SkillInv'
<1>1. /\ skRegistry' = skill_remove_by_source(1) /\ skPlugins' = skPlugins
      /\ skScan' = Scan("command", <<1, 2, 3>>)
  BY DEF skill_reload_all
<1>2. PICK dirs \in Seq(Sources) : dirs = <<1, 2, 3>>
  <2>1. <<1, 2, 3>> \in [1..3 -> Sources]
    BY DEF Sources
  <2> HIDE DEF Sources
  <2>2. <<1, 2, 3>> \in Seq(Sources)
    BY <2>1, SeqDef
  <2> QED BY <2>2
<1>3. dirs # <<>>
  BY <1>2
<1>4. PICK scan : scan = Scan("command", dirs)
  OBVIOUS
<1>5. scan \in Scans /\ scan.who = "command" /\ scan.dirs = dirs
  BY <1>4 DEF Scan, Scans, Present, FilesOf
<1>6. PICK r : r = skill_remove_by_source(1)
  OBVIOUS
<1>7. r \in Seq(Skills) /\ Distinct(r) /\ Among(r, skRegistry)
  BY <1>6, SameAmong, RemovedSource
<1>8. skScan' = scan /\ skRegistry' = r /\ skStage' = skStage
  BY <1>1, <1>2, <1>4, <1>6
<1>9. GoodPlugins(skPlugins')
  BY <1>1, SameAmong DEF GoodPlugins
<1> QED BY <1>3, <1>5, <1>7, <1>8, <1>9, SameAmong, ScanStep

LEMMA CmdSkillStep ==
    ASSUME SkillInv, cmd_skill
    PROVE  SkillInv'
<1>1. UNCHANGED <<skFiles, skEvents, skBatch, skStage, skUnseen, skChanges>>
  BY DEF cmd_skill
<1>2. skCommands' \in 0..MaxCommands
  BY SkillAssumption DEF cmd_skill, SkillInv, SkillTypes
<1>3. ASSUME NEW f \in SkillFiles, skill_unload(f.name) PROVE SkillInv'
  BY <1>1, <1>2, <1>3, SkillUnloadStep
<1>4. ASSUME NEW f \in SkillFiles, NEW on \in BOOLEAN, skill_set_enabled(f.name, on)
      PROVE  SkillInv'
  BY <1>1, <1>2, <1>4, SetEnabledStep
<1> QED BY <1>1, <1>2, <1>3, <1>4, SkillLoadStep, ReloadAllStep DEF cmd_skill

-----------------------------------------------------------------------------
(* A change of a file is reported, or the file counts as unseen. *)

LEMMA FileChangeStep ==
    ASSUME SkillInv, NEW f \in SkillFiles, FileChanges(f)
    PROVE  SkillInv'
<1>1. /\ skChanges < MaxChanges /\ skChanges' = skChanges + 1
      /\ skFiles' = [skFiles EXCEPT ![f] = skChanges + 2] \/ skFiles' = [skFiles EXCEPT ![f] = 0]
      /\ skEvents' = IF Reported(f) THEN skEvents \cup {f.dir} ELSE skEvents
      /\ skUnseen' = IF Reported(f) THEN skUnseen \ {f} ELSE skUnseen \cup {f}
      /\ \/ skScan' = skScan
         \/ BeingRead(f.dir) /\ skScan' = [skScan EXCEPT !.todo = @ \cup {f}]
      /\ skRegistry' = skRegistry /\ skPlugins' = skPlugins /\ skBatch' = skBatch
      /\ skStage' = skStage /\ skCommands' = skCommands
  BY DEF FileChanges
<1>2. skFiles \in [SkillFiles -> 0..(MaxChanges + 1)] /\ skChanges \in 0..MaxChanges
      /\ MaxChanges \in Nat
  BY SkillAssumption DEF SkillInv, SkillTypes
<1>3. skChanges + 2 \in 0..(MaxChanges + 1) /\ 0 \in 0..(MaxChanges + 1)
      /\ skChanges' \in 0..MaxChanges
  BY <1>1, <1>2
<1>4. skFiles' \in [SkillFiles -> 0..(MaxChanges + 1)]
      /\ \A g \in SkillFiles : g # f => skFiles'[g] = skFiles[g]
  BY <1>1, <1>2, <1>3
<1>5. Reported(f) => f.dir \in Sources
  BY SkillAssumption DEF Reported
<1>6. /\ skScan' \in Scans /\ (skScan'.who = "nobody" => skScan' = NoScan)
      /\ (skScan'.who # "nobody" => skScan'.dirs # <<>>)
  <2>1. CASE skScan' = skScan
    BY <2>1, SameAmong
  <2>2. CASE BeingRead(f.dir) /\ skScan' = [skScan EXCEPT !.todo = @ \cup {f}]
    <3>1. skScan \in Scans /\ skScan.who # "nobody" /\ skScan.dirs # <<>>
      BY <2>2, SameAmong DEF BeingRead
    <3>2. skScan' \in Scans /\ skScan'.who = skScan.who /\ skScan'.dirs = skScan.dirs
      BY <2>2, <3>1 DEF Scans
    <3> QED BY <3>1, <3>2
  <2> QED BY <1>1, <2>1, <2>2
<1>7. /\ skEvents' \subseteq Sources /\ skUnseen' \subseteq SkillFiles
  BY <1>1, <1>5 DEF SkillInv, SkillTypes
<1>8. NoScan' = NoScan
  BY DEF NoScan
<1>9. SkillTypes'
  BY <1>1, <1>3, <1>4, <1>6, <1>7, <1>8 DEF SkillInv, SkillTypes
<1>10. PICK reg \in Seq(Skills) :
          /\ reg = skRegistry /\ Distinct(reg)
          /\ \A i \in DOMAIN reg : Fresh(reg[i], skFiles, skUnseen, skEvents \cup skBatch)
  BY DEF SkillInv, GoodRegistry
<1>11. ASSUME NEW i \in DOMAIN reg
       PROVE  Fresh(reg[i], skFiles', skUnseen', skEvents' \cup skBatch')
  <2>1. Fresh(reg[i], skFiles, skUnseen, skEvents \cup skBatch) /\ reg[i].file \in SkillFiles
    <3>1. reg[i] \in Skills
      BY ElementOfSeq, LenProperties
    <3> QED BY <1>10, <3>1 DEF Skills
  <2>2. CASE reg[i].file = f
    BY <1>1, <2>1, <2>2 DEF Fresh
  <2>3. CASE reg[i].file # f
    BY <1>1, <1>4, <2>1, <2>3 DEF Fresh
  <2> QED BY <2>2, <2>3
<1>12. GoodRegistry(skRegistry', skFiles', skUnseen', skEvents' \cup skBatch')
  BY <1>1, <1>10, <1>11 DEF GoodRegistry
<1> QED BY <1>9, <1>12 DEF SkillInv

-----------------------------------------------------------------------------
(* The shutdown, and the theorem. *)

LEMMA UnpluggedStep ==
    ASSUME SkillInv, plugin_system_cleanup
    PROVE  SkillInv'
<1>1. /\ skRegistry' = skRegistry /\ skScan' = skScan /\ skStage' = "unplugged"
      /\ skPlugins' = {} /\ skCommands' = skCommands
      /\ UNCHANGED <<skFiles, skEvents, skBatch, skUnseen, skChanges>>
  BY DEF plugin_system_cleanup
<1>2. GoodPlugins(skPlugins') /\ NoScan' = NoScan
  BY <1>1 DEF GoodPlugins, NoScan
<1> QED BY <1>1, <1>2, SameAmong, ScanStep

LEMMA OverStep ==
    ASSUME SkillInv, skill_system_cleanup
    PROVE  SkillInv'
<1>1. /\ skRegistry' = <<>> /\ skStage' = "over" /\ skEvents' = {} /\ skBatch' = {}
      /\ skFiles' = skFiles /\ skPlugins' = skPlugins /\ skScan' = skScan
      /\ skUnseen' = skUnseen /\ skChanges' = skChanges /\ skCommands' = skCommands
  BY DEF skill_system_cleanup
<1>2. skRegistry' \in Seq(Skills) /\ DOMAIN skRegistry' = {}
  BY <1>1, EmptySeq, LenProperties
<1>3. GoodRegistry(skRegistry', skFiles', skUnseen', skEvents' \cup skBatch')
  BY <1>2 DEF GoodRegistry, Distinct
<1>4. SkillTypes'
  BY <1>1, <1>2 DEF SkillInv, SkillTypes, NoScan
<1> QED BY <1>3, <1>4 DEF SkillInv

LEMMA SkillsStutter ==
    ASSUME SkillInv, UNCHANGED skVars
    PROVE  SkillInv'
<1>1. /\ skRegistry' = skRegistry /\ skScan' = skScan /\ skStage' = skStage
      /\ skPlugins' = skPlugins /\ skCommands' = skCommands
      /\ UNCHANGED <<skFiles, skEvents, skBatch, skUnseen, skChanges>>
  BY DEF skVars
<1>2. GoodPlugins(skPlugins') /\ NoScan' = NoScan
  BY <1>1, SameAmong DEF GoodPlugins, NoScan
<1> QED BY <1>1, <1>2, SameAmong, ScanStep

LEMMA SkillsStep == SkillInv /\ [SkNext]_skVars => SkillInv'
<1> SUFFICES ASSUME SkillInv, [SkNext]_skVars PROVE SkillInv'
  OBVIOUS
<1>1. CASE skill_system_init
  BY <1>1, LoadFromDirStep, NextDirectoryStep DEF skill_system_init
<1>2. CASE watcher_thread_inotify
  BY <1>2, ReadEventsStep, HandleChangeStep DEF watcher_thread_inotify
<1>3. CASE UNCHANGED skVars
  BY <1>3, SkillsStutter
<1> QED BY <1>1, <1>2, <1>3, CmdSkillStep, FileChangeStep, UnpluggedStep, OverStep DEF SkNext

\* When every reported change has been handled, no skill is registered that an older
\* content of its file defines, or a file that is gone, and a name is registered once:
\* for any files, and any commands, scans and changes in between.
THEOREM SkillsAreFresh == SkSpec => []NoStaleSkill
<1>1. SkillInv => NoStaleSkill
  <2> SUFFICES ASSUME SkillInv PROVE NoStaleSkill
    OBVIOUS
  <2>1. /\ \A i \in DOMAIN skRegistry : skRegistry[i] \in Skills
        /\ Distinct(skRegistry)
        /\ \A i \in DOMAIN skRegistry :
              Fresh(skRegistry[i], skFiles, skUnseen, skEvents \cup skBatch)
    BY ElementOfSeq, LenProperties DEF SkillInv, GoodRegistry
  <2>2. SkillTypeOK
    BY <2>1 DEF SkillInv, SkillTypes, SkillTypeOK, Skills, Scans
  <2>3. ASSUME Settled, NEW i \in DOMAIN skRegistry
        PROVE  LET s == skRegistry[i] IN
               /\ s.source = s.file.dir /\ s.file \notin skUnseen => s.version = skFiles[s.file]
               /\ \A j \in DOMAIN skRegistry : skRegistry[j].name = s.name => i = j
    BY <2>1, <2>3 DEF Settled, Fresh, Distinct
  <2> QED BY <2>2, <2>3 DEF NoStaleSkill
<1> QED BY <1>1, SkillsInit, SkillsStep, PTL DEF SkSpec

-----------------------------------------------------------------------------
(***************************************************************************)
(* The link to the Feishu server (FeishuLink), for any number of frames,   *)
(* any messages and any size of the buffer.                                *)
(***************************************************************************)

PartRecords == [frame : Nat, part : Nat]
LinkClients == [state : {"disconnected", "connecting", "connected", "closing", "error"},
             running : BOOLEAN, open : BOOLEAN, buffer : Seq(PartRecords)]

LinkTypes ==
    /\ lkClient \in LinkClients /\ Len(lkClient.buffer) <= BufferParts
    /\ lkLoop \in {"none", "ready", "handling", "ended"}
    /\ lkMain \in {"starting", "handshake", "connected", "up", "joining", "freed"}
    /\ lkWire \in Seq(PartRecords) /\ lkLost \in BOOLEAN
    /\ lkSent \in Seq(Frames)
    /\ lkSkipped \in Nat /\ lkTaken \in Nat /\ lkSkipped + lkTaken <= Len(lkSent)
    /\ lkPosted \in Seq(Events) /\ lkAcked \in Seq(Events \cup {"-"})

\* Where the loop is, as the main thread knows.
LinkControl ==
    /\ lkMain \in {"starting", "handshake", "connected"} => lkLoop = "none"
    /\ lkLoop = "none" => lkTaken = 0
    /\ lkMain \in {"starting", "handshake"} => lkSkipped = 0 /\ lkClient.buffer = <<>>
    /\ lkMain \in {"up", "joining"} => lkLoop # "none"
    /\ lkMain = "freed" => lkLoop \in {"none", "ended"}
    /\ lkLoop = "handling" => lkTaken # 0

\* What the buffer and the wire hold begins the parts of the frames not taken yet; t is
\* what the loss of the connection took away.
Left(sent, done) == PartsBehind(sent, done, Len(sent) - done)
Holds(buffer, wire, lost, sent, done) ==
    \E t \in Seq(PartRecords) :
        Left(sent, done) = (buffer \o wire) \o t /\ (~lost => t = <<>>)

\* The responses are those of the events handled, each behind its message.
Handled == IF lkLoop = "handling" THEN lkTaken - 1 ELSE lkTaken
InPosted(e, posted) == e \in {posted[j] : j \in DOMAIN posted}
Responses(acked, posted, done) ==
    /\ Len(acked) = Len(done)
    /\ \A i \in DOMAIN acked :
          /\ acked[i] = done[i].event
          /\ done[i].kind = "event" => InPosted(acked[i], posted)
    /\ \A i, j \in DOMAIN posted : i # j => posted[i] # posted[j]

LinkInv ==
    /\ LinkTypes
    /\ LinkControl
    /\ Holds(lkClient.buffer, lkWire, lkLost, lkSent, lkSkipped + lkTaken)
    /\ Responses(lkAcked, lkPosted, EventsOf(lkSent, lkSkipped, Handled))
-----------------------------------------------------------------------------
(* The parts of the frames. *)

LEMMA SizeOfFrame ==
    ASSUME NEW f \in Frames
    PROVE  Size(f) \in Nat \ {0}
BY LinkAssumption DEF Size

LEMMA PartsOfFrame ==
    ASSUME NEW f \in Frames, NEW n \in Nat
    PROVE  /\ Parts(n, f) \in Seq(PartRecords) /\ Len(Parts(n, f)) = Size(f)
           /\ Parts(n, f)[1].frame = n
<1>1. PICK z \in Nat \ {0} : z = Size(f)
  BY SizeOfFrame
<1>2. PICK p : p = [i \in 1..z |-> [frame |-> n, part |-> i]]
  OBVIOUS
<1>3. p \in [1..z -> PartRecords] /\ DOMAIN p = 1..z
  BY <1>2 DEF PartRecords
<1>4. p \in Seq(PartRecords)
  BY <1>3, SeqDef
<1>5. Len(p) = z
  BY <1>3, <1>4, LenProperties
<1>6. p[1].frame = n
  BY <1>2
<1> QED BY <1>1, <1>2, <1>4, <1>5, <1>6 DEF Parts

\* The frames sent, each as the sequence of its parts.
FrameParts(sent) == [m \in 1..Len(sent) |-> Parts(m, sent[m])]

LEMMA FramePartsType ==
    ASSUME NEW sent \in Seq(Frames)
    PROVE  /\ FrameParts(sent) \in Seq(Seq(PartRecords)) /\ Len(FrameParts(sent)) = Len(sent)
           /\ \A i \in 1..Len(sent) : FrameParts(sent)[i] = Parts(i, sent[i])
<1>1. PICK p : p = FrameParts(sent)
  OBVIOUS
<1>2. PICK n \in Nat : n = Len(sent)
  BY LenProperties
<1>3. \A i \in 1..n : sent[i] \in Frames
  BY <1>2, ElementOfSeq
<1>4. \A i \in 1..n : Parts(i, sent[i]) \in Seq(PartRecords)
  BY <1>3, PartsOfFrame
<1> DEFINE Q == Seq(PartRecords)
<1>5. p \in [1..n -> Q] /\ DOMAIN p = 1..n /\ \A i \in 1..n : p[i] = Parts(i, sent[i])
  BY <1>1, <1>2, <1>4 DEF FrameParts
<1> HIDE DEF Q
<1>6. p \in Seq(Q)
  BY <1>5, SeqDef
<1>7. Len(p) = n
  BY <1>5, <1>6, LenProperties
<1> QED BY <1>1, <1>2, <1>5, <1>6, <1>7 DEF Q

LEMMA FramePartsAppend ==
    ASSUME NEW sent \in Seq(Frames), NEW f \in Frames
    PROVE  FrameParts(Append(sent, f)) = Append(FrameParts(sent), Parts(Len(sent) + 1, f))
<1>1. PICK l \in Nat : l = Len(sent)
  BY LenProperties
<1>2. PICK more \in Seq(Frames) : more = Append(sent, f)
  BY AppendProperties
<1>3. Len(more) = l + 1 /\ more[l + 1] = f /\ \A i \in 1..l : more[i] = sent[i]
  BY <1>1, <1>2, AppendProperties
<1> DEFINE Q == Seq(PartRecords)
<1>4. PICK q \in Q : q = Parts(l + 1, f)
  <2>1. l + 1 \in Nat
    OBVIOUS
  <2>2. Parts(l + 1, f) \in Seq(PartRecords)
    BY <2>1, PartsOfFrame
  <2> QED BY <2>2
<1>5. /\ FrameParts(sent) \in Seq(Q) /\ Len(FrameParts(sent)) = l
      /\ \A i \in 1..l : FrameParts(sent)[i] = Parts(i, sent[i])
  BY <1>1, FramePartsType
<1>6. /\ FrameParts(more) \in Seq(Q) /\ Len(FrameParts(more)) = l + 1
      /\ \A i \in 1..l + 1 : FrameParts(more)[i] = Parts(i, more[i])
  BY <1>3, FramePartsType
<1> HIDE DEF Q
<1>7. PICK p \in Seq(Q) : p = FrameParts(sent)
  BY <1>5
<1>8. PICK r \in Seq(Q) : r = FrameParts(more)
  BY <1>6
<1>9. PICK t \in Seq(Q) : t = Append(p, q)
  BY AppendProperties
<1>10. Len(t) = l + 1 /\ t[l + 1] = q /\ \A i \in 1..l : t[i] = p[i]
  BY <1>5, <1>7, <1>9, AppendProperties
<1>11. ASSUME NEW i \in 1..l + 1 PROVE r[i] = t[i]
  <2>1. CASE i = l + 1
    BY <1>3, <1>4, <1>6, <1>8, <1>10, <2>1
  <2>2. CASE i # l + 1
    <3>1. i \in 1..l
      BY <2>2
    <3> QED BY <1>3, <1>5, <1>6, <1>7, <1>8, <1>10, <3>1
  <2> QED BY <2>1, <2>2
<1>12. r = t
  BY <1>6, <1>8, <1>10, <1>11, SeqEqual
<1> QED BY <1>1, <1>2, <1>4, <1>7, <1>8, <1>9, <1>12

LEMMA PartsAreBehind ==
    ASSUME NEW sent \in Seq(Frames), NEW done \in Nat, NEW n \in Nat, done + n <= Len(sent)
    PROVE  PartsBehind(sent, done, n) = Behind(FrameParts(sent), done, n)
<1>1. PICK p : p = FrameParts(sent) /\ \A i \in 1..Len(sent) : p[i] = Parts(i, sent[i])
  BY FramePartsType
<1>2. \A i \in 1..n : done + i \in 1..Len(sent)
  BY LenProperties
<1>3. \A i \in 1..n : p[done + i] = Parts(done + i, sent[done + i])
  BY <1>1, <1>2
<1>4. [i \in 1..n |-> p[done + i]] = [i \in 1..n |-> Parts(done + i, sent[done + i])]
  BY <1>3
<1> QED BY <1>1, <1>4 DEF PartsBehind, Behind

LEMMA PartsBehindType ==
    ASSUME NEW sent \in Seq(Frames), NEW done \in Nat, NEW n \in Nat, done + n <= Len(sent)
    PROVE  PartsBehind(sent, done, n) \in Seq(PartRecords)
<1>1. PICK p \in Seq(Seq(PartRecords)) : p = FrameParts(sent) /\ done + n <= Len(p)
  BY FramePartsType
<1>2. Behind(p, done, n) \in Seq(PartRecords)
  BY <1>1, BehindType
<1> QED BY <1>1, <1>2, PartsAreBehind

LEMMA PartsBehindNone == \A sent, done : PartsBehind(sent, done, 0) = <<>>
<1> SUFFICES ASSUME NEW sent, NEW done PROVE PartsBehind(sent, done, 0) = <<>>
  OBVIOUS
<1>1. PICK ss : ss = [i \in 1..0 |-> Parts(done + i, sent[done + i])]
  OBVIOUS
<1>2. ss = <<>>
  BY <1>1
<1> QED BY <1>1, <1>2, FlattenEmpty DEF PartsBehind

LEMMA PartsBehindOne ==
    ASSUME NEW sent \in Seq(Frames), NEW done \in Nat, done + 1 <= Len(sent)
    PROVE  PartsBehind(sent, done, 1) = Parts(done + 1, sent[done + 1])
<1>1. PICK p \in Seq(Seq(PartRecords)) :
          /\ p = FrameParts(sent) /\ done + 1 <= Len(p)
          /\ \A i \in 1..Len(sent) : p[i] = Parts(i, sent[i])
  BY FramePartsType
<1>2. Behind(p, done, 1) = p[done + 1]
  BY <1>1, BehindOne
<1>3. done + 1 \in 1..Len(sent)
  BY LenProperties
<1>4. PartsBehind(sent, done, 1) = Behind(p, done, 1)
  BY <1>1, PartsAreBehind
<1> QED BY <1>1, <1>2, <1>3, <1>4

LEMMA LeftIs ==
    ASSUME NEW sent \in Seq(Frames), NEW done \in Nat, done <= Len(sent)
    PROVE  Left(sent, done) = AllBehind(FrameParts(sent), done)
<1>1. PICK l \in Nat : l = Len(sent)
  BY LenProperties
<1>2. l - done \in Nat /\ done + (l - done) <= l
  BY <1>1
<1>3. PICK n \in Nat : n = Len(sent) - done /\ done + n <= Len(sent)
  BY <1>1, <1>2
<1>4. Len(FrameParts(sent)) - done = n
  BY <1>3, FramePartsType
<1> QED BY <1>3, <1>4, PartsAreBehind DEF Left, AllBehind

LEMMA LeftType ==
    ASSUME NEW sent \in Seq(Frames), NEW done \in Nat, done <= Len(sent)
    PROVE  Left(sent, done) \in Seq(PartRecords)
<1>1. PICK p \in Seq(Seq(PartRecords)) : p = FrameParts(sent) /\ done <= Len(p)
  BY FramePartsType
<1>2. AllBehind(p, done) \in Seq(PartRecords)
  BY <1>1, AllBehindType
<1> QED BY <1>1, <1>2, LeftIs

\* What is left behind m frames more.
LEMMA LeftSplit ==
    ASSUME NEW sent \in Seq(Frames), NEW done \in Nat, NEW m \in Nat, done + m <= Len(sent)
    PROVE  Left(sent, done) = PartsBehind(sent, done, m) \o Left(sent, done + m)
<1>1. PICK p \in Seq(Seq(PartRecords)) : p = FrameParts(sent) /\ done + m <= Len(p)
  BY FramePartsType
<1>2. AllBehind(p, done) = Behind(p, done, m) \o AllBehind(p, done + m)
  BY <1>1, AllBehindSplit
<1>3. PICK d \in Nat : d = done + m /\ d <= Len(sent) /\ done <= Len(sent)
  BY LenProperties
<1>4. Left(sent, d) = AllBehind(p, d) /\ Left(sent, done) = AllBehind(p, done)
  BY <1>1, <1>3, LeftIs
<1>5. PartsBehind(sent, done, m) = Behind(p, done, m)
  BY <1>1, PartsAreBehind
<1> QED BY <1>2, <1>3, <1>4, <1>5

\* What is left when the server sends a frame more.
LEMMA LeftAppend ==
    ASSUME NEW sent \in Seq(Frames), NEW f \in Frames, NEW done \in Nat, done <= Len(sent)
    PROVE  Left(Append(sent, f), done) = Left(sent, done) \o Parts(Len(sent) + 1, f)
<1>1. PICK p \in Seq(Seq(PartRecords)) : p = FrameParts(sent) /\ done <= Len(p)
  BY FramePartsType
<1>2. Len(sent) + 1 \in Nat
  BY LenProperties
<1>3. PICK q \in Seq(PartRecords) : q = Parts(Len(sent) + 1, f)
  BY <1>2, PartsOfFrame
<1>4. AllBehind(Append(p, q), done) = AllBehind(p, done) \o q
  BY <1>1, AllBehindAppend
<1>9. Append(sent, f) \in Seq(Frames) /\ Len(Append(sent, f)) = Len(sent) + 1
  BY AppendProperties
<1>10. done <= Len(sent) + 1
  BY LenProperties
<1>5. PICK more \in Seq(Frames) : more = Append(sent, f) /\ done <= Len(more)
  BY <1>9, <1>10
<1>6. Left(more, done) = AllBehind(FrameParts(more), done)
  BY <1>5, LeftIs
<1>7. FrameParts(more) = Append(p, q)
  BY <1>1, <1>3, <1>5, FramePartsAppend
<1>8. Left(sent, done) = AllBehind(p, done)
  BY <1>1, LeftIs
<1> QED BY <1>3, <1>4, <1>5, <1>6, <1>7, <1>8

-----------------------------------------------------------------------------
(* What the steps do to the parts that the buffer and the wire hold. *)

LEMMA PartsAssociate ==
    \A x, y, z \in Seq(PartRecords) : (x \o y) \o z = x \o (y \o z)
<1> DEFINE S == PartRecords
<1> HIDE DEF S
<1>1. \A x, y, z \in Seq(S) : (x \o y) \o z = x \o (y \o z)
  BY ConcatAssociative
<1> QED BY <1>1 DEF S

\* The frames read together with the response of the handshake.
LEMMA SkipFrames ==
    ASSUME NEW sent \in Seq(Frames), NEW n \in Nat, n <= Len(sent),
           NEW w \in Seq(PartRecords), NEW lost \in BOOLEAN,
           Holds(<<>>, w, lost, sent, 0), IsPrefix(PartsBehind(sent, 0, n), w)
    PROVE  LET rest == SubSeq(w, Len(PartsBehind(sent, 0, n)) + 1, Len(w)) IN
           rest \in Seq(PartRecords) /\ Holds(<<>>, rest, lost, sent, n)
<1>1. PICK p \in Seq(PartRecords) : p = PartsBehind(sent, 0, n)
  BY PartsBehindType
<1>2. PICK m \in Nat : m = Len(p)
  BY LenProperties
<1>3. m \in 0..Len(w) /\ p = SubSeq(w, 1, m)
  BY <1>1, <1>2, SubSeqFull, LenProperties DEF IsPrefix
<1>4. SubSeq(w, m + 1, Len(w)) \in Seq(PartRecords)
      /\ w = SubSeq(w, 1, m) \o SubSeq(w, m + 1, Len(w))
  BY <1>3, SplitSeq
<1>5. PICK u \in Seq(PartRecords) : u = SubSeq(w, m + 1, Len(w)) /\ w = p \o u
  BY <1>3, <1>4
<1>6. PICK t \in Seq(PartRecords) : Left(sent, 0) = (<<>> \o w) \o t /\ (~lost => t = <<>>)
  BY DEF Holds
<1>7. PICK r \in Seq(PartRecords) : r = Left(sent, n)
  BY LeftType
<1>8. Left(sent, 0) = p \o r
  <2>1. 0 + n = n
    OBVIOUS
  <2>2. Left(sent, 0) = PartsBehind(sent, 0, n) \o Left(sent, 0 + n)
    BY <2>1, LeftSplit
  <2> QED BY <1>1, <1>7, <2>1, <2>2
<1>9. <<>> \o w = w /\ <<>> \o u = u
  BY ConcatEmptySeq
<1>10. (p \o u) \o t = p \o (u \o t) /\ u \o t \in Seq(PartRecords)
  <2>1. p \in Seq(PartRecords) /\ u \in Seq(PartRecords) /\ t \in Seq(PartRecords)
    OBVIOUS
  <2>2. (p \o u) \o t = p \o (u \o t)
    BY ONLY <2>1, PartsAssociate
  <2> QED BY <2>1, <2>2, ConcatProperties
<1>11. PICK v \in Seq(PartRecords) : v = u \o t
  BY <1>10
<1>12. p \o r = p \o v
  BY <1>5, <1>6, <1>8, <1>9, <1>10, <1>11
<1>13. r = v
  BY <1>12, ConcatSimplifications
<1>14. Holds(<<>>, u, lost, sent, n)
  BY <1>6, <1>7, <1>9, <1>11, <1>13 DEF Holds
<1> QED BY <1>1, <1>2, <1>5, <1>14

\* A read.
LEMMA ReadMore ==
    ASSUME NEW sent, NEW done, NEW b \in Seq(PartRecords), NEW w \in Seq(PartRecords),
           NEW lost \in BOOLEAN, NEW n \in 0..Len(w), Holds(b, w, lost, sent, done)
    PROVE  /\ b \o SubSeq(w, 1, n) \in Seq(PartRecords)
           /\ Len(b \o SubSeq(w, 1, n)) = Len(b) + n
           /\ SubSeq(w, n + 1, Len(w)) \in Seq(PartRecords)
           /\ Holds(b \o SubSeq(w, 1, n), SubSeq(w, n + 1, Len(w)), lost, sent, done)
<1>1. /\ SubSeq(w, 1, n) \in Seq(PartRecords) /\ Len(SubSeq(w, 1, n)) = n
      /\ SubSeq(w, n + 1, Len(w)) \in Seq(PartRecords)
      /\ w = SubSeq(w, 1, n) \o SubSeq(w, n + 1, Len(w))
  BY SplitSeq
<1>2. PICK x \in Seq(PartRecords), u \in Seq(PartRecords) :
          x = SubSeq(w, 1, n) /\ Len(x) = n /\ u = SubSeq(w, n + 1, Len(w)) /\ w = x \o u
  BY <1>1
<1>3. b \o x \in Seq(PartRecords) /\ Len(b \o x) = Len(b) + n
  BY <1>2, ConcatProperties
<1>4. (b \o x) \o u = b \o (x \o u)
  <2>1. b \in Seq(PartRecords) /\ x \in Seq(PartRecords) /\ u \in Seq(PartRecords)
    OBVIOUS
  <2> QED BY ONLY <2>1, PartsAssociate
<1>5. Holds(b \o x, u, lost, sent, done)
  BY <1>2, <1>4 DEF Holds
<1> QED BY <1>2, <1>3, <1>5

\* The first frame of the buffer, when it is complete, is the next one, and what is
\* behind it begins the frames behind it.
FrameTaken(sent, done, b, w, lost) ==
    LET rest == SubSeq(b, Size(sent[b[1].frame]) + 1, Len(b)) IN
    /\ done + 1 <= Len(sent)
    /\ rest \in Seq(PartRecords) /\ Len(rest) <= Len(b)
    /\ Holds(rest, w, lost, sent, done + 1)

LEMMA TakeFrame ==
    ASSUME NEW sent \in Seq(Frames), NEW done \in Nat, done <= Len(sent),
           NEW b \in Seq(PartRecords), NEW w \in Seq(PartRecords), NEW lost \in BOOLEAN,
           Holds(b, w, lost, sent, done), b # <<>>, Size(sent[b[1].frame]) <= Len(b)
    PROVE  FrameTaken(sent, done, b, w, lost)
<1>1. PICK t \in Seq(PartRecords) : Left(sent, done) = (b \o w) \o t /\ (~lost => t = <<>>)
  BY DEF Holds
<1>2. (b \o w) \o t = b \o (w \o t)
  <2>1. b \in Seq(PartRecords) /\ w \in Seq(PartRecords) /\ t \in Seq(PartRecords)
    OBVIOUS
  <2> QED BY ONLY <2>1, PartsAssociate
<1>3. PICK v \in Seq(PartRecords) : v = w \o t
  BY ConcatProperties
<1>4. Left(sent, done) = b \o v
  BY <1>1, <1>2, <1>3
<1>5. Len(b) \in Nat /\ Len(b) # 0 /\ Len(v) \in Nat
  BY EmptySeq, LenProperties
<1>6. Len(b \o v) = Len(b) + Len(v) /\ (b \o v)[1] = b[1]
  <2>1. 1 \in 1..Len(b) + Len(v) /\ 1 <= Len(b)
    BY <1>5
  <2> QED BY <2>1, ConcatProperties
<1>7. done + 1 <= Len(sent)
  <2> SUFFICES ASSUME done = Len(sent) PROVE FALSE
    BY LenProperties
  <2>1. Len(sent) - done = 0
    BY LenProperties
  <2>2. Left(sent, done) = <<>>
    BY <2>1, PartsBehindNone DEF Left
  <2>3. Len(b \o v) = 0
    BY <1>4, <2>2, EmptySeq
  <2> QED BY <1>5, <1>6, <2>3
<1>8. done + 1 \in Nat /\ done + 1 \in 1..Len(sent)
  BY <1>7, LenProperties
<1>9. PICK f \in Frames : f = sent[done + 1]
  BY <1>8, ElementOfSeq
<1>10. PICK a \in Seq(PartRecords) : /\ a = Parts(done + 1, f) /\ Len(a) = Size(f)
                                     /\ a[1].frame = done + 1
  BY <1>8, PartsOfFrame
<1>11. PICK r \in Seq(PartRecords) : r = Left(sent, done + 1)
  BY <1>7, <1>8, LeftType
<1>12. Left(sent, done) = a \o r
  <2>1. PartsBehind(sent, done, 1) = a
    BY <1>7, <1>9, <1>10, PartsBehindOne
  <2>2. Left(sent, done) = PartsBehind(sent, done, 1) \o Left(sent, done + 1)
    BY <1>7, LeftSplit
  <2> QED BY <1>11, <2>1, <2>2
<1>13. b[1].frame = done + 1
  <2>1. Len(a) \in Nat \ {0} /\ Len(r) \in Nat
    BY <1>10, SizeOfFrame, LenProperties
  <2>2. 1 \in 1..Len(a) + Len(r) /\ 1 <= Len(a)
    BY <2>1
  <2>3. (a \o r)[1] = a[1]
    BY <2>2, ConcatProperties
  <2> QED BY <1>4, <1>6, <1>10, <1>12, <2>3
<1>14. Size(sent[b[1].frame]) = Len(a)
  BY <1>9, <1>10, <1>13
<1>22. a \o r = b \o v
  BY <1>4, <1>12
<1>15. Len(a) <= Len(b)
  BY <1>14
<1>16. /\ SubSeq(b, Len(a) + 1, Len(b)) \in Seq(PartRecords)
       /\ b = a \o SubSeq(b, Len(a) + 1, Len(b))
       /\ r = SubSeq(b, Len(a) + 1, Len(b)) \o v
  <2>1. /\ a \in Seq(PartRecords) /\ b \in Seq(PartRecords)
        /\ r \in Seq(PartRecords) /\ v \in Seq(PartRecords)
    OBVIOUS
  <2>2. Cut(PartRecords, a, r, b, v)
    BY ONLY <2>1, <1>22, <1>15, Aligned
  <2> QED BY <2>2 DEF Cut
<1>17. PICK c \in Seq(PartRecords) : c = SubSeq(b, Len(a) + 1, Len(b)) /\ b = a \o c /\ r = c \o v
  BY <1>16
<1>18. Len(c) <= Len(b)
  <2>1. Len(a \o c) = Len(a) + Len(c) /\ Len(a) \in Nat /\ Len(c) \in Nat
    BY ConcatProperties, LenProperties
  <2>2. Len(b) = Len(a) + Len(c)
    BY <1>17, <2>1
  <2> QED BY <2>1, <2>2
<1>19. (c \o w) \o t = c \o (w \o t)
  <2>1. c \in Seq(PartRecords) /\ w \in Seq(PartRecords) /\ t \in Seq(PartRecords)
    OBVIOUS
  <2> QED BY ONLY <2>1, PartsAssociate
<1>20. Left(sent, done + 1) = (c \o w) \o t
  BY <1>3, <1>11, <1>17, <1>19
<1>21. Holds(c, w, lost, sent, done + 1)
  BY <1>1, <1>20 DEF Holds
<1> QED BY <1>7, <1>14, <1>17, <1>18, <1>21 DEF FrameTaken

\* A frame of the server.
LEMMA SendMore ==
    ASSUME NEW sent \in Seq(Frames), NEW done \in Nat, done <= Len(sent), NEW f \in Frames,
           NEW b \in Seq(PartRecords), NEW w \in Seq(PartRecords),
           Holds(b, w, FALSE, sent, done)
    PROVE  /\ w \o Parts(Len(sent) + 1, f) \in Seq(PartRecords)
           /\ Holds(b, w \o Parts(Len(sent) + 1, f), FALSE, Append(sent, f), done)
<1>1. Len(sent) + 1 \in Nat
  BY LenProperties
<1>2. PICK p \in Seq(PartRecords) : p = Parts(Len(sent) + 1, f)
  BY <1>1, PartsOfFrame
<1>3. w \o p \in Seq(PartRecords) /\ b \o w \in Seq(PartRecords)
      /\ b \o (w \o p) \in Seq(PartRecords)
  BY ConcatProperties
<1>4. (b \o w) \o p = b \o (w \o p)
  <2>1. b \in Seq(PartRecords) /\ w \in Seq(PartRecords) /\ p \in Seq(PartRecords)
    OBVIOUS
  <2> QED BY ONLY <2>1, PartsAssociate
<1>5. /\ (b \o w) \o <<>> = b \o w /\ (b \o (w \o p)) \o <<>> = b \o (w \o p)
      /\ <<>> \in Seq(PartRecords)
  BY <1>3, ConcatEmptySeq, EmptySeq
<1>6. Left(sent, done) = b \o w
  BY <1>5 DEF Holds
<1>7. Left(Append(sent, f), done) = (b \o w) \o p
  BY <1>2, <1>6, LeftAppend
<1>8. Holds(b, w \o p, FALSE, Append(sent, f), done)
  BY <1>4, <1>5, <1>7 DEF Holds
<1> QED BY <1>2, <1>3, <1>8

\* The connection ends.
LEMMA LoseSome ==
    ASSUME NEW sent, NEW done, NEW b \in Seq(PartRecords), NEW w \in Seq(PartRecords),
           NEW lost \in BOOLEAN, NEW n \in 0..Len(w), Holds(b, w, lost, sent, done)
    PROVE  SubSeq(w, 1, n) \in Seq(PartRecords) /\ Holds(b, SubSeq(w, 1, n), TRUE, sent, done)
<1>1. /\ SubSeq(w, 1, n) \in Seq(PartRecords)
      /\ SubSeq(w, n + 1, Len(w)) \in Seq(PartRecords)
      /\ w = SubSeq(w, 1, n) \o SubSeq(w, n + 1, Len(w))
  BY SplitSeq
<1>2. PICK x \in Seq(PartRecords), u \in Seq(PartRecords) :
          x = SubSeq(w, 1, n) /\ w = x \o u
  BY <1>1
<1>3. PICK t \in Seq(PartRecords) : Left(sent, done) = (b \o w) \o t
  BY DEF Holds
<1>4. (b \o x) \o u = b \o (x \o u) /\ b \o x \in Seq(PartRecords)
  <2>1. b \in Seq(PartRecords) /\ x \in Seq(PartRecords) /\ u \in Seq(PartRecords)
    OBVIOUS
  <2>2. (b \o x) \o u = b \o (x \o u)
    BY ONLY <2>1, PartsAssociate
  <2> QED BY <2>1, <2>2, ConcatProperties
<1>5. PICK y \in Seq(PartRecords) : y = b \o x
  BY <1>4
<1>6. (y \o u) \o t = y \o (u \o t) /\ u \o t \in Seq(PartRecords)
  <2>1. y \in Seq(PartRecords) /\ u \in Seq(PartRecords) /\ t \in Seq(PartRecords)
    OBVIOUS
  <2>2. (y \o u) \o t = y \o (u \o t)
    BY ONLY <2>1, PartsAssociate
  <2> QED BY <2>1, <2>2, ConcatProperties
<1>7. Left(sent, done) = (b \o x) \o (u \o t)
  BY <1>2, <1>3, <1>4, <1>5, <1>6
<1>8. Holds(b, x, TRUE, sent, done)
  BY <1>6, <1>7 DEF Holds
<1> QED BY <1>2, <1>8
-----------------------------------------------------------------------------
(* The event frames among those taken. *)

IsEvent(f) == f.kind \in {"event", "silent"}
IfEvent(f) == IF f.kind \in {"event", "silent"} THEN <<f>> ELSE <<>>
EventParts(sent, skipped, n) == [i \in 1..n |-> IfEvent(sent[skipped + i])]

LEMMA EventsAre ==
    ASSUME NEW sent, NEW skipped, NEW n
    PROVE  EventsOf(sent, skipped, n) = FlattenSeq(EventParts(sent, skipped, n))
<1>1. \A f : IfEvent(f) = IF f.kind \in {"event", "silent"} THEN <<f>> ELSE <<>>
  BY DEF IfEvent
<1>2. EventParts(sent, skipped, n)
        = [i \in 1..n |-> LET f == sent[skipped + i] IN
                          IF f.kind \in {"event", "silent"} THEN <<f>> ELSE <<>>]
  BY <1>1 DEF EventParts
<1> QED BY <1>2 DEF EventsOf

LEMMA EventPartsType ==
    ASSUME NEW sent \in Seq(Frames), NEW skipped \in Nat, NEW n \in Nat,
           skipped + n <= Len(sent)
    PROVE  /\ EventParts(sent, skipped, n) \in Seq(Seq(Frames))
           /\ Len(EventParts(sent, skipped, n)) = n
           /\ \A i \in 1..n : EventParts(sent, skipped, n)[i] = IfEvent(sent[skipped + i])
<1>1. PICK p : p = EventParts(sent, skipped, n)
  OBVIOUS
<1>2. \A i \in 1..n : skipped + i \in 1..Len(sent)
  BY LenProperties
<1>3. \A i \in 1..n : sent[skipped + i] \in Frames
  BY <1>2, ElementOfSeq
<1>4. \A i \in 1..n : IfEvent(sent[skipped + i]) \in Seq(Frames)
  BY <1>3, OneSeq, EmptySeq DEF IfEvent
<1> DEFINE Q == Seq(Frames)
<1>5. p \in [1..n -> Q] /\ DOMAIN p = 1..n /\ \A i \in 1..n : p[i] = IfEvent(sent[skipped + i])
  BY <1>1, <1>4 DEF EventParts
<1> HIDE DEF Q
<1>6. p \in Seq(Q)
  BY <1>5, SeqDef
<1>7. Len(p) = n
  BY <1>5, <1>6, LenProperties
<1> QED BY <1>1, <1>5, <1>6, <1>7 DEF Q

LEMMA EventsType ==
    ASSUME NEW sent \in Seq(Frames), NEW skipped \in Nat, NEW n \in Nat,
           skipped + n <= Len(sent)
    PROVE  EventsOf(sent, skipped, n) \in Seq(Frames)
<1>1. PICK ss \in Seq(Seq(Frames)) : ss = EventParts(sent, skipped, n)
  BY EventPartsType
<1> QED BY <1>1, EventsAre, FlattenType

LEMMA EventsNone == \A sent, skipped : EventsOf(sent, skipped, 0) = <<>>
<1> SUFFICES ASSUME NEW sent, NEW skipped PROVE EventsOf(sent, skipped, 0) = <<>>
  OBVIOUS
<1>1. PICK ss : ss = EventParts(sent, skipped, 0)
  OBVIOUS
<1>2. ss = <<>>
  BY <1>1 DEF EventParts
<1> QED BY <1>1, <1>2, EventsAre, FlattenEmpty

\* One frame more is taken.
LEMMA EventsMore ==
    ASSUME NEW sent \in Seq(Frames), NEW skipped \in Nat, NEW n \in Nat,
           skipped + n + 1 <= Len(sent)
    PROVE  EventsOf(sent, skipped, n + 1)
             = EventsOf(sent, skipped, n) \o IfEvent(sent[skipped + n + 1])
<1> DEFINE Q == Seq(Frames)
<1>1. PICK m \in Nat : m = n + 1 /\ skipped + m <= Len(sent) /\ skipped + n <= Len(sent)
                       /\ skipped + m = skipped + n + 1
  <2>1. n + 1 \in Nat /\ skipped + (n + 1) = skipped + n + 1
    OBVIOUS
  <2>2. skipped + n <= Len(sent)
    BY LenProperties
  <2> QED BY <2>1, <2>2
<1>2. PICK ss \in Seq(Q) : /\ ss = EventParts(sent, skipped, n) /\ Len(ss) = n
                           /\ \A i \in 1..n : ss[i] = IfEvent(sent[skipped + i])
  BY <1>1, EventPartsType
<1>3. PICK tt \in Seq(Q) : /\ tt = EventParts(sent, skipped, m) /\ Len(tt) = m
                           /\ \A i \in 1..m : tt[i] = IfEvent(sent[skipped + i])
  BY <1>1, EventPartsType
<1>4. PICK last \in Q : last = IfEvent(sent[skipped + m])
  <2>1. m \in 1..m /\ m \in 1..Len(tt)
    BY <1>1, <1>3
  <2>2. tt[m] \in Q
    BY <2>1, ElementOfSeq
  <2> QED BY <1>3, <2>1, <2>2
<1> HIDE DEF Q
<1>5. PICK uu \in Seq(Q) : uu = Append(ss, last)
  BY AppendProperties
<1>6. Len(uu) = m /\ uu[m] = last /\ \A i \in 1..n : uu[i] = ss[i]
  <2>1. Len(uu) = Len(ss) + 1 /\ uu[Len(ss) + 1] = last /\ \A i \in 1..Len(ss) : uu[i] = ss[i]
    BY <1>5, AppendProperties
  <2> QED BY <1>1, <1>2, <2>1
<1>7. ASSUME NEW i \in 1..m PROVE tt[i] = uu[i]
  <2>1. CASE i = m
    BY <1>3, <1>4, <1>6, <2>1
  <2>2. CASE i # m
    <3>1. i \in 1..n
      BY <1>1, <2>2
    <3> QED BY <1>2, <1>3, <1>6, <3>1
  <2> QED BY <2>1, <2>2
<1>8. tt = uu
  BY <1>3, <1>6, <1>7, SeqEqual
<1>9. FlattenSeq(Append(ss, last)) = FlattenSeq(ss) \o last
  <2>1. ss \in Seq(Seq(Frames)) /\ last \in Seq(Frames)
    BY DEF Q
  <2> QED BY <2>1, FlattenAppend
<1> QED BY <1>1, <1>2, <1>3, <1>4, <1>5, <1>8, <1>9, EventsAre

LEMMA EventsOld ==
    ASSUME NEW sent \in Seq(Frames), NEW f \in Frames, NEW skipped \in Nat, NEW n \in Nat,
           skipped + n <= Len(sent)
    PROVE  EventsOf(Append(sent, f), skipped, n) = EventsOf(sent, skipped, n)
<1>1. PICK more : more = Append(sent, f)
  OBVIOUS
<1>2. \A i \in 1..n : skipped + i \in 1..Len(sent)
  BY LenProperties
<1>3. \A i \in 1..n : more[skipped + i] = sent[skipped + i]
  BY <1>1, <1>2, AppendProperties
<1>4. EventParts(more, skipped, n) = EventParts(sent, skipped, n)
  BY <1>3 DEF EventParts
<1> QED BY <1>1, <1>4, EventsAre

-----------------------------------------------------------------------------
(* A response more. *)

LEMMA EventOfFrame ==
    ASSUME NEW f \in Frames
    PROVE  /\ f.event \in Events \cup {"-"}
           /\ f.kind = "event" => f.event \in Events
BY DEF Frames

\* A message that was not posted yet is posted.
LEMMA PostOne ==
    ASSUME NEW posted \in Seq(Events), NEW e \in Events, ~InPosted(e, posted),
           \A i, j \in DOMAIN posted : i # j => posted[i] # posted[j]
    PROVE  /\ Append(posted, e) \in Seq(Events)
           /\ \A i, j \in DOMAIN Append(posted, e) :
                 i # j => Append(posted, e)[i] # Append(posted, e)[j]
           /\ InPosted(e, Append(posted, e))
           /\ \A x : InPosted(x, posted) => InPosted(x, Append(posted, e))
<1>1. PICK q \in Seq(Events) : q = Append(posted, e)
  BY AppendProperties
<1>2. PICK m \in Nat : m = Len(posted)
  BY LenProperties
<1>3. DOMAIN posted = 1..m /\ DOMAIN q = 1..m + 1 /\ q[m + 1] = e
      /\ \A i \in 1..m : q[i] = posted[i]
  BY <1>1, <1>2, AppendProperties, LenProperties
<1>4. \A i \in 1..m : posted[i] # e
  BY <1>3 DEF InPosted
<1>5. ASSUME NEW i \in 1..m + 1, NEW j \in 1..m + 1, i # j PROVE q[i] # q[j]
  <2>1. CASE i = m + 1
    <3>1. j \in 1..m
      BY <1>5, <2>1
    <3> QED BY <1>3, <1>4, <2>1, <3>1
  <2>2. CASE j = m + 1
    <3>1. i \in 1..m
      BY <1>5, <2>2
    <3> QED BY <1>3, <1>4, <2>2, <3>1
  <2>3. CASE i \in 1..m /\ j \in 1..m
    BY <1>3, <1>5, <2>3
  <2> QED BY <2>1, <2>2, <2>3
<1>6. m + 1 \in 1..m + 1 /\ \A i \in 1..m : i \in 1..m + 1
  OBVIOUS
<1>7. InPosted(e, q)
  BY <1>3, <1>6 DEF InPosted
<1>8. ASSUME NEW x, InPosted(x, posted) PROVE InPosted(x, q)
  BY <1>3, <1>6, <1>8 DEF InPosted
<1> QED BY <1>1, <1>3, <1>5, <1>7, <1>8

\* The response to a frame f, once its message is posted.
LEMMA RespondOne ==
    ASSUME NEW acked \in Seq(Events \cup {"-"}), NEW posted, NEW more, NEW done \in Seq(Frames),
           NEW f \in Frames, Responses(acked, posted, done),
           \A x : InPosted(x, posted) => InPosted(x, more),
           f.kind = "event" => InPosted(f.event, more),
           \A i, j \in DOMAIN more : i # j => more[i] # more[j]
    PROVE  /\ Append(acked, f.event) \in Seq(Events \cup {"-"})
           /\ Responses(Append(acked, f.event), more, Append(done, f))
<1> DEFINE E == Events \cup {"-"}
<1>1. f.event \in E
  BY EventOfFrame
<1> HIDE DEF E
<1>2. PICK a \in Seq(E) : a = Append(acked, f.event)
  BY <1>1, AppendProperties DEF E
<1>3. PICK d \in Seq(Frames) : d = Append(done, f)
  BY AppendProperties
<1>4. PICK m \in Nat : m = Len(acked) /\ m = Len(done) /\ DOMAIN acked = 1..m
  BY LenProperties DEF Responses
<1>5. Len(a) = m + 1 /\ DOMAIN a = 1..m + 1 /\ a[m + 1] = f.event
      /\ \A i \in 1..m : a[i] = acked[i]
  BY <1>1, <1>2, <1>4, AppendProperties, LenProperties DEF E
<1>6. Len(d) = m + 1 /\ d[m + 1] = f /\ \A i \in 1..m : d[i] = done[i]
  BY <1>3, <1>4, AppendProperties
<1>7. ASSUME NEW i \in 1..m + 1
      PROVE  a[i] = d[i].event /\ (d[i].kind = "event" => InPosted(a[i], more))
  <2>1. CASE i = m + 1
    BY <1>5, <1>6, <2>1
  <2>2. CASE i # m + 1
    <3>1. i \in 1..m
      BY <2>2
    <3>2. acked[i] = done[i].event /\ (done[i].kind = "event" => InPosted(acked[i], posted))
      BY <1>4, <3>1 DEF Responses
    <3> QED BY <1>5, <1>6, <3>1, <3>2
  <2> QED BY <2>1, <2>2
<1>8. Responses(a, more, d)
  BY <1>5, <1>6, <1>7 DEF Responses
<1> QED BY <1>2, <1>3, <1>8 DEF E
-----------------------------------------------------------------------------
(* The invariant. *)

LEMMA LinkStarts == LinkInit => LinkInv
<1> SUFFICES ASSUME LinkInit PROVE LinkInv
  OBVIOUS
<1>1. \A S : <<>> \in Seq(S)
  BY EmptySeq
<1>2. Len(<<>>) = 0
  BY EmptySeq
<1>3. /\ lkClient = [state |-> "disconnected", running |-> FALSE, open |-> FALSE, buffer |-> <<>>]
      /\ lkLoop = "none" /\ lkMain = "starting" /\ lkWire = <<>> /\ lkLost = FALSE
      /\ lkSent = <<>> /\ lkSkipped = 0 /\ lkTaken = 0 /\ lkPosted = <<>> /\ lkAcked = <<>>
  BY DEF LinkInit
<1>4. lkClient \in LinkClients
  BY <1>1, <1>3 DEF LinkClients
<1>5. lkClient.buffer = <<>>
  BY <1>3
<1>6. LinkTypes
  <2>1. /\ lkWire \in Seq(PartRecords) /\ lkSent \in Seq(Frames)
        /\ lkPosted \in Seq(Events) /\ lkAcked \in Seq(Events \cup {"-"})
    BY <1>1, <1>3
  <2>2. Len(lkClient.buffer) <= BufferParts /\ lkSkipped + lkTaken <= Len(lkSent)
    <3>1. Len(lkClient.buffer) = 0 /\ Len(lkSent) = 0
      BY <1>2, <1>3, <1>5
    <3> QED BY <1>3, <3>1, LinkAssumption
  <2> QED BY <1>3, <1>4, <2>1, <2>2 DEF LinkTypes
<1>7. LinkControl
  BY <1>3, <1>5 DEF LinkControl
<1>8. Holds(<<>>, <<>>, FALSE, <<>>, 0)
  <2>1. Len(<<>>) - 0 = 0
    BY <1>2
  <2>2. Left(<<>>, 0) = <<>>
    BY <2>1, PartsBehindNone DEF Left
  <2>3. (<<>> \o <<>>) \o <<>> = <<>>
    BY <1>1, ConcatEmptySeq
  <2> QED BY <1>1, <2>2, <2>3 DEF Holds
<1>9. Responses(<<>>, <<>>, <<>>)
  <2>1. DOMAIN <<>> = {}
    BY <1>1, <1>2, LenProperties
  <2> QED BY <2>1 DEF Responses
<1>10. 0 + 0 = 0
  OBVIOUS
<1>11. Holds(lkClient.buffer, lkWire, lkLost, lkSent, lkSkipped + lkTaken)
  BY <1>3, <1>5, <1>8, <1>10
<1>12. EventsOf(lkSent, lkSkipped, Handled) = <<>>
  BY <1>3, EventsNone DEF Handled
<1>13. Responses(lkAcked, lkPosted, EventsOf(lkSent, lkSkipped, Handled))
  BY <1>3, <1>9, <1>12
<1> QED BY <1>6, <1>7, <1>11, <1>13 DEF LinkInv

\* Steps of the main thread, and of the loop, that leave the stream and the history alone.
ControlStep ==
    /\ lkClient' \in LinkClients /\ lkClient'.buffer = lkClient.buffer
    /\ UNCHANGED <<lkWire, lkLost, lkSkipped, lkSent, lkTaken, lkPosted, lkAcked>>
    /\ \/ /\ lkMain \in {"starting", "handshake", "connected"}
          /\ lkMain' = "freed" /\ lkLoop' = lkLoop
       \/ lkMain = "starting" /\ lkMain' = "handshake" /\ lkLoop' = lkLoop
       \/ lkMain = "connected" /\ lkMain' = "up" /\ lkLoop' = "ready"
       \/ lkMain = "up" /\ lkMain' = "joining" /\ lkLoop' = lkLoop
       \/ lkMain = "joining" /\ lkLoop = "ended" /\ lkMain' = "freed" /\ lkLoop' = lkLoop
       \/ lkLoop = "ready" /\ lkLoop' \in {"ready", "ended"} /\ lkMain' = lkMain

LEMMA ControlSteps ==
    ASSUME LinkTypes, LinkControl,
           \/ StartFails \/ Connect \/ StartLoop \/ StopLoop \/ Destroy
           \/ LoopEnds \/ ConnectionLost
    PROVE  ControlStep
<1>1. \A s \in {"disconnected", "connecting", "error"}, o \in BOOLEAN :
        /\ [lkClient EXCEPT !.state = s, !.open = o] \in LinkClients
        /\ [lkClient EXCEPT !.state = s, !.open = o].buffer = lkClient.buffer
  BY DEF LinkTypes, LinkClients
<1>2. \A r \in BOOLEAN :
        /\ [lkClient EXCEPT !.running = r] \in LinkClients
        /\ [lkClient EXCEPT !.running = r].buffer = lkClient.buffer
  BY DEF LinkTypes, LinkClients
<1>3. [lkClient EXCEPT !.state = "error"] \in LinkClients
      /\ [lkClient EXCEPT !.state = "error"].buffer = lkClient.buffer
  BY DEF LinkTypes, LinkClients
<1>4. lkClient \in LinkClients
  BY DEF LinkTypes
<1>5. CASE StartFails
  BY <1>1, <1>5 DEF StartFails, ControlStep, LinkHistory
<1>6. CASE Connect
  BY <1>1, <1>6 DEF Connect, ControlStep, LinkHistory
<1>7. CASE StartLoop
  BY <1>1, <1>2, <1>7 DEF StartLoop, ControlStep, LinkHistory, LinkControl
<1>8. CASE StopLoop
  BY <1>2, <1>8 DEF StopLoop, ControlStep, LinkHistory
<1>9. CASE Destroy
  BY <1>1, <1>9 DEF Destroy, ControlStep, LinkHistory
<1>10. CASE LoopEnds
  BY <1>4, <1>10 DEF LoopEnds, ControlStep, LinkHistory
<1>11. CASE ConnectionLost
  BY <1>3, <1>11 DEF ConnectionLost, Polling, ControlStep, LinkHistory
<1> QED BY <1>5, <1>6, <1>7, <1>8, <1>9, <1>10, <1>11

LEMMA ControlKeeps ==
    ASSUME LinkInv, ControlStep
    PROVE  LinkInv'
<1>1. LinkTypes /\ LinkControl
  BY DEF LinkInv
<1>2. LinkTypes'
  BY <1>1 DEF LinkTypes, ControlStep
<1>3. LinkControl'
  BY <1>1 DEF LinkTypes, LinkControl, ControlStep
<1>4. Holds(lkClient.buffer, lkWire, lkLost, lkSent, lkSkipped + lkTaken)'
  BY DEF LinkInv, ControlStep
<1>5. Handled' = Handled
  BY <1>1 DEF Handled, ControlStep, LinkControl
<1>6. Responses(lkAcked, lkPosted, EventsOf(lkSent, lkSkipped, Handled))'
  BY <1>5 DEF LinkInv, ControlStep
<1> QED BY <1>2, <1>3, <1>4, <1>6 DEF LinkInv

LEMMA HandshakeKeeps ==
    ASSUME LinkInv, ws_client_handshake
    PROVE  LinkInv'
<1>1. LinkTypes /\ LinkControl
  BY DEF LinkInv
<1>2. /\ lkMain = "handshake" /\ lkLoop = "none" /\ lkTaken = 0 /\ lkSkipped = 0
      /\ lkClient.buffer = <<>>
  BY <1>1 DEF ws_client_handshake, LinkControl
<1>3. PICK n \in 0..Len(lkSent) :
          /\ IsPrefix(PartsBehind(lkSent, 0, n), lkWire)
          /\ lkSkipped' = n
          /\ lkWire' = SubSeq(lkWire, Len(PartsBehind(lkSent, 0, n)) + 1, Len(lkWire))
  BY DEF ws_client_handshake
<1>4. n \in Nat /\ n <= Len(lkSent) /\ n + 0 = n
  BY <1>1, LenProperties DEF LinkTypes
<1>5. /\ lkClient' = [lkClient EXCEPT !.state = "connected", !.buffer = <<>>]
      /\ lkMain' = "connected" /\ lkLoop' = lkLoop /\ lkLost' = lkLost /\ lkSent' = lkSent
      /\ lkTaken' = lkTaken /\ lkPosted' = lkPosted /\ lkAcked' = lkAcked
  BY DEF ws_client_handshake, LinkHistory
<1>6. lkClient' \in LinkClients /\ lkClient'.buffer = <<>>
  <2>1. <<>> \in Seq(PartRecords)
    BY EmptySeq
  <2> QED BY <1>1, <1>5, <2>1 DEF LinkTypes, LinkClients
<1>7. Holds(<<>>, lkWire, lkLost, lkSent, 0)
  BY <1>2 DEF LinkInv
<1>8. PICK sent \in Seq(Frames), w \in Seq(PartRecords), lost \in BOOLEAN :
          sent = lkSent /\ w = lkWire /\ lost = lkLost
  BY <1>1 DEF LinkTypes
<1>9. /\ SubSeq(w, Len(PartsBehind(sent, 0, n)) + 1, Len(w)) \in Seq(PartRecords)
      /\ Holds(<<>>, SubSeq(w, Len(PartsBehind(sent, 0, n)) + 1, Len(w)), lost, sent, n)
  BY <1>3, <1>4, <1>7, <1>8, SkipFrames
<1>10. lkWire' \in Seq(PartRecords) /\ Holds(<<>>, lkWire', lkLost', lkSent', n)
  BY <1>3, <1>5, <1>8, <1>9
<1>11. lkSkipped' + lkTaken' = n /\ lkTaken' = 0
  BY <1>2, <1>3, <1>4, <1>5
<1>12. Len(<<>>) = 0
  BY EmptySeq
<1>13. LinkTypes'
  BY <1>1, <1>3, <1>4, <1>5, <1>6, <1>10, <1>11, <1>12, LinkAssumption DEF LinkTypes
<1>14. LinkControl'
  BY <1>1, <1>2, <1>5, <1>11 DEF LinkControl
<1>15. Holds(lkClient.buffer, lkWire, lkLost, lkSent, lkSkipped + lkTaken)'
  BY <1>6, <1>10, <1>11
<1>16. Handled = 0 /\ Handled' = 0
  BY <1>2, <1>5 DEF Handled
<1>17. EventsOf(lkSent, lkSkipped, Handled)' = EventsOf(lkSent, lkSkipped, Handled)
  <2>1. EventsOf(lkSent, lkSkipped, Handled) = <<>>
    BY <1>16, EventsNone
  <2>2. EventsOf(lkSent', lkSkipped', Handled') = <<>>
    BY <1>16, EventsNone
  <2> QED BY <2>1, <2>2
<1>18. Responses(lkAcked, lkPosted, EventsOf(lkSent, lkSkipped, Handled))'
  BY <1>5, <1>17 DEF LinkInv
<1> QED BY <1>13, <1>14, <1>15, <1>18 DEF LinkInv

LEMMA RecvKeeps ==
    ASSUME LinkInv, ws_client_recv_frame
    PROVE  LinkInv'
<1>1. LinkTypes /\ LinkControl
  BY DEF LinkInv
<1>2. PICK sent \in Seq(Frames), b \in Seq(PartRecords), w \in Seq(PartRecords),
           lost \in BOOLEAN, done \in Nat :
          /\ sent = lkSent /\ b = lkClient.buffer /\ w = lkWire /\ lost = lkLost
          /\ done = lkSkipped + lkTaken /\ done <= Len(sent)
  <2>1. lkClient.buffer \in Seq(PartRecords) /\ lkSkipped + lkTaken \in Nat
    BY <1>1 DEF LinkTypes, LinkClients
  <2> QED BY <1>1, <2>1 DEF LinkTypes
<1>3. Holds(b, w, lost, sent, done)
  BY <1>2 DEF LinkInv
<1>4. PICK space \in Nat : space = BufferParts - Len(b) /\ Len(b) + space = BufferParts
  <2>1. Len(b) \in Nat /\ Len(b) <= BufferParts /\ BufferParts \in Nat
    BY <1>1, <1>2, LinkAssumption, LenProperties DEF LinkTypes
  <2>2. BufferParts - Len(b) \in Nat /\ Len(b) + (BufferParts - Len(b)) = BufferParts
    BY ONLY <2>1
  <2> QED BY <2>2
<1>5. PICK n \in IF space = 0 THEN {0} ELSE 1..space :
          LET buffer == b \o SubSeq(w, 1, n) IN
          /\ n <= Len(w)
          /\ lkWire' = SubSeq(w, n + 1, Len(w))
          /\ IF Complete(buffer)
             THEN /\ lkLoop' = "handling" /\ lkTaken' = lkTaken + 1
                  /\ lkClient' = [lkClient EXCEPT !.buffer = Rest(buffer)]
             ELSE /\ UNCHANGED <<lkLoop, lkTaken>>
                  /\ lkClient' = [lkClient EXCEPT !.buffer = buffer]
  BY <1>2, <1>4 DEF ws_client_recv_frame
<1>6. n \in Nat /\ n <= space /\ n \in 0..Len(w)
  <2>1. n \in Nat /\ n <= space
    OBVIOUS
  <2>2. n <= Len(w)
    BY <1>5
  <2> QED BY <2>1, <2>2, LenProperties
<1>7. /\ lkMain' = lkMain /\ lkLost' = lkLost /\ lkSkipped' = lkSkipped /\ lkSent' = lkSent
      /\ lkPosted' = lkPosted /\ lkAcked' = lkAcked /\ lkLoop = "ready"
  BY DEF ws_client_recv_frame, Polling
<1>8. PICK c \in Seq(PartRecords), u \in Seq(PartRecords) :
          /\ c = b \o SubSeq(w, 1, n) /\ Len(c) = Len(b) + n
          /\ u = SubSeq(w, n + 1, Len(w)) /\ Holds(c, u, lost, sent, done)
  <2>1. /\ b \o SubSeq(w, 1, n) \in Seq(PartRecords)
        /\ Len(b \o SubSeq(w, 1, n)) = Len(b) + n
        /\ SubSeq(w, n + 1, Len(w)) \in Seq(PartRecords)
        /\ Holds(b \o SubSeq(w, 1, n), SubSeq(w, n + 1, Len(w)), lost, sent, done)
    BY <1>3, <1>6, ReadMore
  <2> QED BY <2>1
<1>9. /\ lkWire' = u
      /\ IF Complete(c)
         THEN /\ lkLoop' = "handling" /\ lkTaken' = lkTaken + 1
              /\ lkClient' = [lkClient EXCEPT !.buffer = Rest(c)]
         ELSE /\ lkLoop' = lkLoop /\ lkTaken' = lkTaken
              /\ lkClient' = [lkClient EXCEPT !.buffer = c]
  BY <1>5, <1>8
<1>10. Len(c) <= BufferParts
  <2>1. Len(b) \in Nat
    BY LenProperties
  <2> QED BY <1>4, <1>6, <1>8, <2>1, LinkAssumption
<1>11. \A x \in Seq(PartRecords) :
          /\ [lkClient EXCEPT !.buffer = x] \in LinkClients
          /\ [lkClient EXCEPT !.buffer = x].buffer = x
  BY <1>1 DEF LinkTypes, LinkClients
<1>12. lkMain \in {"up", "joining"}
  BY <1>1, <1>7 DEF LinkTypes, LinkControl
<1>13. CASE ~Complete(c)
  <2>1. /\ lkLoop' = lkLoop /\ lkTaken' = lkTaken
        /\ lkClient' \in LinkClients /\ lkClient'.buffer = c
    BY <1>9, <1>11, <1>13
  <2>2. LinkTypes'
    BY <1>1, <1>7, <1>9, <1>10, <2>1 DEF LinkTypes
  <2>3. LinkControl'
    BY <1>1, <1>7, <1>12, <2>1 DEF LinkControl
  <2>4. Holds(lkClient.buffer, lkWire, lkLost, lkSent, lkSkipped + lkTaken)'
    BY <1>2, <1>7, <1>8, <1>9, <2>1
  <2>5. Handled' = Handled
    BY <2>1 DEF Handled
  <2>6. Responses(lkAcked, lkPosted, EventsOf(lkSent, lkSkipped, Handled))'
    BY <1>7, <2>5 DEF LinkInv
  <2> QED BY <2>2, <2>3, <2>4, <2>6 DEF LinkInv
<1>14. CASE Complete(c)
  <2>1. c # <<>> /\ Size(sent[c[1].frame]) <= Len(c)
    BY <1>2, <1>14 DEF Complete
  <2>2. Rest(c) = SubSeq(c, Size(sent[c[1].frame]) + 1, Len(c))
    BY <1>2 DEF Rest, FirstSize
  <2>3. /\ done + 1 <= Len(sent)
        /\ SubSeq(c, Size(sent[c[1].frame]) + 1, Len(c)) \in Seq(PartRecords)
        /\ Len(SubSeq(c, Size(sent[c[1].frame]) + 1, Len(c))) <= Len(c)
        /\ Holds(SubSeq(c, Size(sent[c[1].frame]) + 1, Len(c)), u, lost, sent, done + 1)
    <3>1. FrameTaken(sent, done, c, u, lost)
      BY <1>2, <1>8, <2>1, TakeFrame
    <3> QED BY <3>1 DEF FrameTaken
  <2>4. PICK x \in Seq(PartRecords) : /\ x = Rest(c) /\ Len(x) <= Len(c)
                                      /\ Holds(x, u, lost, sent, done + 1)
    BY <2>2, <2>3
  <2>5. /\ lkLoop' = "handling" /\ lkTaken' = lkTaken + 1
        /\ lkClient' \in LinkClients /\ lkClient'.buffer = x
    BY <1>9, <1>11, <1>14, <2>4
  <2>6. /\ lkTaken \in Nat /\ lkSkipped \in Nat /\ lkTaken' \in Nat /\ lkTaken' # 0
        /\ lkSkipped' + lkTaken' = done + 1
        /\ lkTaken' - 1 = lkTaken
    BY <1>1, <1>2, <1>7, <2>5 DEF LinkTypes
  <2>7. Len(x) <= BufferParts
    <3>1. Len(x) \in Nat /\ Len(c) \in Nat
      BY LenProperties
    <3> QED BY <1>10, <2>4, <3>1, LinkAssumption
  <2>8. LinkTypes'
    BY <1>1, <1>2, <1>7, <1>9, <2>3, <2>5, <2>6, <2>7 DEF LinkTypes
  <2>9. LinkControl'
    BY <1>7, <1>12, <2>5, <2>6 DEF LinkControl
  <2>10. Holds(lkClient.buffer, lkWire, lkLost, lkSent, lkSkipped + lkTaken)'
    BY <1>2, <1>7, <1>9, <2>4, <2>5, <2>6
  <2>11. Handled' = Handled
    BY <1>7, <2>5, <2>6 DEF Handled
  <2>12. Responses(lkAcked, lkPosted, EventsOf(lkSent, lkSkipped, Handled))'
    BY <1>7, <2>11 DEF LinkInv
  <2> QED BY <2>8, <2>9, <2>10, <2>12 DEF LinkInv
<1> QED BY <1>13, <1>14

LEMMA HandleKeeps ==
    ASSUME LinkInv, HandleFrame
    PROVE  LinkInv'
<1>1. LinkTypes /\ LinkControl
  BY DEF LinkInv
<1>2. /\ lkLoop = "handling" /\ lkLoop' = "ready" /\ lkMain' = lkMain /\ lkWire' = lkWire
      /\ lkLost' = lkLost /\ lkSent' = lkSent /\ lkSkipped' = lkSkipped /\ lkTaken' = lkTaken
  BY DEF HandleFrame
<1>3. PICK n \in Nat : /\ n = lkTaken - 1 /\ n + 1 = lkTaken
                       /\ lkSkipped + n + 1 = lkSkipped + lkTaken
                       /\ lkSkipped + n + 1 <= Len(lkSent) /\ lkSkipped + n <= Len(lkSent)
  <2>1. lkTaken \in Nat /\ lkTaken # 0 /\ lkSkipped \in Nat /\ lkSkipped + lkTaken <= Len(lkSent)
    BY <1>1, <1>2 DEF LinkTypes, LinkControl
  <2>2. Len(lkSent) \in Nat
    BY <1>1, LenProperties DEF LinkTypes
  <2>3. PICK n \in Nat : n = lkTaken - 1 /\ n + 1 = lkTaken
    <3>1. lkTaken - 1 \in Nat /\ (lkTaken - 1) + 1 = lkTaken
      BY ONLY <2>1
    <3> QED BY <3>1
  <2> QED BY <2>1, <2>2, <2>3
<1>4. PICK sent \in Seq(Frames), skipped \in Nat :
          /\ sent = lkSent /\ skipped = lkSkipped
          /\ skipped + n + 1 <= Len(sent) /\ skipped + n <= Len(sent)
  BY <1>1, <1>3 DEF LinkTypes
<1>5. PICK f \in Frames : f = Taken /\ f = sent[skipped + n + 1]
  <2>1. skipped + n + 1 \in 1..Len(sent)
    BY <1>4, LenProperties
  <2>2. sent[skipped + n + 1] \in Frames
    BY <2>1, ElementOfSeq
  <2> QED BY <1>3, <1>4, <2>2 DEF Taken
<1>6. PICK done \in Seq(Frames) : done = EventsOf(sent, skipped, n)
  BY <1>4, EventsType
<1>18. EventsOf(sent, skipped, n + 1)
         = EventsOf(sent, skipped, n) \o IfEvent(sent[skipped + n + 1])
  BY <1>4, EventsMore
<1>7. EventsOf(sent, skipped, n + 1) = done \o IfEvent(f)
  BY <1>5, <1>6, <1>18
<1>8. Handled = n /\ Handled' = n + 1
  BY <1>2, <1>3 DEF Handled
<1>9. PICK posted \in Seq(Events), acked \in Seq(Events \cup {"-"}) :
          posted = lkPosted /\ acked = lkAcked
  BY <1>1 DEF LinkTypes
<1>10. Responses(acked, posted, done)
  BY <1>4, <1>6, <1>8, <1>9 DEF LinkInv
<1>11. EventsOf(lkSent, lkSkipped, Handled)' = done \o IfEvent(f)
  BY <1>2, <1>4, <1>7, <1>8
<1>12. /\ lkClient' \in LinkClients /\ lkClient'.buffer = lkClient.buffer
  <2>1. CASE lkClient' = lkClient
    BY <1>1, <2>1 DEF LinkTypes
  <2>2. CASE lkClient' = [lkClient EXCEPT !.state = "closing", !.running = FALSE]
    BY <1>1, <2>2 DEF LinkTypes, LinkClients
  <2> QED BY <2>1, <2>2 DEF HandleFrame, feishu_ws_on_message
<1>13. LinkControl'
  BY <1>1, <1>2, <1>12 DEF LinkControl
<1>14. Holds(lkClient.buffer, lkWire, lkLost, lkSent, lkSkipped + lkTaken)'
  BY <1>2, <1>12 DEF LinkInv
<1>15. SUFFICES /\ lkPosted' \in Seq(Events) /\ lkAcked' \in Seq(Events \cup {"-"})
                /\ Responses(lkAcked', lkPosted', done \o IfEvent(f))
  <2> SUFFICES ASSUME /\ lkPosted' \in Seq(Events) /\ lkAcked' \in Seq(Events \cup {"-"})
                      /\ Responses(lkAcked', lkPosted', done \o IfEvent(f))
               PROVE  LinkInv'
    OBVIOUS
  <2>1. LinkTypes'
    BY <1>1, <1>2, <1>12 DEF LinkTypes
  <2>2. Responses(lkAcked, lkPosted, EventsOf(lkSent, lkSkipped, Handled))'
    BY <1>11
  <2> QED BY <1>13, <1>14, <2>1, <2>2 DEF LinkInv
<1>16. CASE ~(f.kind \in {"event", "silent"})
  <2>1. lkPosted' = posted /\ lkAcked' = acked
    BY <1>5, <1>9, <1>16 DEF HandleFrame
  <2>2. IfEvent(f) = <<>> /\ done \o <<>> = done
    BY <1>16, ConcatEmptySeq DEF IfEvent
  <2> QED BY <1>10, <2>1, <2>2
<1>17. CASE f.kind \in {"event", "silent"}
  <2>1. /\ lkPosted' = IF f.kind = "silent" \/ feishu_is_duplicate_message(f.event)
                       THEN posted ELSE Append(posted, f.event)
        /\ lkAcked' = Append(acked, f.event)
    BY <1>5, <1>9, <1>17 DEF HandleFrame, feishu_ws_on_message
  <2>2. done \o IfEvent(f) = Append(done, f)
    <3>1. IfEvent(f) = <<f>>
      BY <1>17 DEF IfEvent
    <3>2. Append(done, f) = done \o <<f>>
      BY AppendIsConcat
    <3> QED BY <3>1, <3>2
  <2>3. feishu_is_duplicate_message(f.event) <=> InPosted(f.event, posted)
    BY <1>9 DEF feishu_is_duplicate_message, InPosted
  <2>4. \A i, j \in DOMAIN posted : i # j => posted[i] # posted[j]
    BY <1>10 DEF Responses
  <2>5. PICK more \in Seq(Events) :
            /\ more = lkPosted'
            /\ \A x : InPosted(x, posted) => InPosted(x, more)
            /\ f.kind = "event" => InPosted(f.event, more)
            /\ \A i, j \in DOMAIN more : i # j => more[i] # more[j]
    <3>1. CASE f.kind = "silent" \/ InPosted(f.event, posted)
      <4>1. lkPosted' = posted
        BY <2>1, <2>3, <3>1
      <4>2. f.kind = "event" => InPosted(f.event, posted)
        BY <3>1
      <4> QED BY <2>4, <4>1, <4>2
    <3>2. CASE ~(f.kind = "silent" \/ InPosted(f.event, posted))
      <4>1. lkPosted' = Append(posted, f.event)
        BY <2>1, <2>3, <3>2
      <4>2. PICK e \in Events : e = f.event /\ ~InPosted(e, posted)
        BY <1>17, <3>2, EventOfFrame
      <4>3. /\ Append(posted, e) \in Seq(Events)
            /\ \A i, j \in DOMAIN Append(posted, e) :
                  i # j => Append(posted, e)[i] # Append(posted, e)[j]
            /\ InPosted(e, Append(posted, e))
            /\ \A x : InPosted(x, posted) => InPosted(x, Append(posted, e))
        BY <2>4, <4>2, PostOne
      <4> QED BY <4>1, <4>2, <4>3
    <3> QED BY <3>1, <3>2
  <2>6. /\ Append(acked, f.event) \in Seq(Events \cup {"-"})
        /\ Responses(Append(acked, f.event), more, Append(done, f))
    BY <1>10, <2>5, RespondOne
  <2> QED BY <2>1, <2>2, <2>5, <2>6
<1> QED BY <1>16, <1>17

LEMMA SendKeeps ==
    ASSUME LinkInv, NEW f \in Frames, ServerSends(f)
    PROVE  LinkInv'
<1>1. LinkTypes /\ LinkControl
  BY DEF LinkInv
<1>2. /\ lkLost = FALSE /\ lkSent' = Append(lkSent, f)
      /\ lkWire' = lkWire \o Parts(Len(lkSent) + 1, f)
      /\ lkClient' = lkClient /\ lkLoop' = lkLoop /\ lkMain' = lkMain /\ lkLost' = lkLost
      /\ lkSkipped' = lkSkipped /\ lkTaken' = lkTaken /\ lkPosted' = lkPosted
      /\ lkAcked' = lkAcked
  BY <1>1 DEF ServerSends, LinkTypes
<1>3. PICK sent \in Seq(Frames), b \in Seq(PartRecords), w \in Seq(PartRecords), done \in Nat :
          /\ sent = lkSent /\ b = lkClient.buffer /\ w = lkWire
          /\ done = lkSkipped + lkTaken /\ done <= Len(sent)
  <2>1. lkClient.buffer \in Seq(PartRecords) /\ lkSkipped + lkTaken \in Nat
    BY <1>1 DEF LinkTypes, LinkClients
  <2> QED BY <1>1, <2>1 DEF LinkTypes
<1>4. Holds(b, w, FALSE, sent, done)
  BY <1>2, <1>3 DEF LinkInv
<1>5. /\ w \o Parts(Len(sent) + 1, f) \in Seq(PartRecords)
      /\ Holds(b, w \o Parts(Len(sent) + 1, f), FALSE, Append(sent, f), done)
  BY <1>3, <1>4, SendMore
<1>6. Append(sent, f) \in Seq(Frames) /\ Len(Append(sent, f)) = Len(sent) + 1
  BY AppendProperties
<1>7. LinkTypes'
  <2>1. lkWire' \in Seq(PartRecords) /\ lkSent' \in Seq(Frames)
    BY <1>2, <1>3, <1>5, <1>6
  <2>2. (lkSkipped + lkTaken <= Len(lkSent))'
    <3>1. done <= Len(sent) + 1
      BY <1>3, LenProperties
    <3> QED BY <1>2, <1>3, <1>6, <3>1
  <2> QED BY <1>1, <1>2, <2>1, <2>2 DEF LinkTypes
<1>8. LinkControl'
  BY <1>1, <1>2 DEF LinkControl
<1>9. Holds(lkClient.buffer, lkWire, lkLost, lkSent, lkSkipped + lkTaken)'
  BY <1>2, <1>3, <1>5
<1>10. Handled' = Handled
  BY <1>2 DEF Handled
<1>11. PICK n \in Nat : n = Handled /\ lkSkipped + n <= Len(sent)
  <2>1. /\ lkTaken \in Nat /\ lkSkipped \in Nat /\ (lkLoop = "handling" => lkTaken # 0)
        /\ lkSkipped + lkTaken <= Len(sent)
    BY <1>1, <1>3 DEF LinkTypes, LinkControl
  <2>2. Len(sent) \in Nat
    BY LenProperties
  <2>3. CASE lkLoop = "handling"
    <3>1. lkTaken - 1 \in Nat /\ lkSkipped + (lkTaken - 1) <= Len(sent)
      BY <2>1, <2>2, <2>3
    <3> QED BY <2>3, <3>1 DEF Handled
  <2>4. CASE lkLoop # "handling"
    BY <2>1, <2>4 DEF Handled
  <2> QED BY <2>3, <2>4
<1>12. PICK skipped \in Nat : skipped = lkSkipped /\ skipped + n <= Len(sent)
  BY <1>1, <1>11 DEF LinkTypes
<1>13. EventsOf(Append(sent, f), skipped, n) = EventsOf(sent, skipped, n)
  BY <1>12, EventsOld
<1>14. EventsOf(lkSent, lkSkipped, Handled)' = EventsOf(lkSent, lkSkipped, Handled)
  BY <1>2, <1>3, <1>10, <1>11, <1>12, <1>13
<1>15. Responses(lkAcked, lkPosted, EventsOf(lkSent, lkSkipped, Handled))'
  BY <1>2, <1>14 DEF LinkInv
<1> QED BY <1>7, <1>8, <1>9, <1>15 DEF LinkInv

LEMMA GoneKeeps ==
    ASSUME LinkInv, PeerGone
    PROVE  LinkInv'
<1>1. LinkTypes /\ LinkControl
  BY DEF LinkInv
<1>2. /\ lkLost' = TRUE /\ lkClient' = lkClient /\ lkLoop' = lkLoop /\ lkMain' = lkMain
      /\ lkSkipped' = lkSkipped /\ lkSent' = lkSent /\ lkTaken' = lkTaken
      /\ lkPosted' = lkPosted /\ lkAcked' = lkAcked
  BY DEF PeerGone, LinkHistory
<1>3. PICK n \in 0..Len(lkWire) : lkWire' = SubSeq(lkWire, 1, n)
  BY DEF PeerGone
<1>4. PICK b \in Seq(PartRecords), w \in Seq(PartRecords), lost \in BOOLEAN :
          b = lkClient.buffer /\ w = lkWire /\ lost = lkLost
  <2>1. lkClient.buffer \in Seq(PartRecords)
    BY <1>1 DEF LinkTypes, LinkClients
  <2> QED BY <1>1, <2>1 DEF LinkTypes
<1>5. PICK sent, done : sent = lkSent /\ done = lkSkipped + lkTaken
  OBVIOUS
<1>6. Holds(b, w, lost, sent, done) /\ n \in 0..Len(w)
  BY <1>4, <1>5 DEF LinkInv
<1>7. SubSeq(w, 1, n) \in Seq(PartRecords) /\ Holds(b, SubSeq(w, 1, n), TRUE, sent, done)
  BY <1>6, LoseSome
<1>8. LinkTypes'
  BY <1>1, <1>2, <1>3, <1>4, <1>7 DEF LinkTypes
<1>9. LinkControl'
  BY <1>1, <1>2 DEF LinkControl
<1>10. Holds(lkClient.buffer, lkWire, lkLost, lkSent, lkSkipped + lkTaken)'
  BY <1>2, <1>3, <1>4, <1>5, <1>7
<1>11. Handled' = Handled
  BY <1>2 DEF Handled
<1>12. Responses(lkAcked, lkPosted, EventsOf(lkSent, lkSkipped, Handled))'
  BY <1>2, <1>11 DEF LinkInv
<1> QED BY <1>8, <1>9, <1>10, <1>12 DEF LinkInv

LEMMA LinkSteps ==
    ASSUME LinkInv, [LinkNext]_lkVars
    PROVE  LinkInv'
<1>1. LinkTypes /\ LinkControl
  BY DEF LinkInv
<1>2. CASE \/ StartFails \/ Connect \/ StartLoop \/ StopLoop \/ Destroy
           \/ LoopEnds \/ ConnectionLost
  BY <1>1, <1>2, ControlSteps, ControlKeeps
<1>3. CASE ws_client_handshake
  BY <1>3, HandshakeKeeps
<1>4. CASE ws_client_recv_frame
  BY <1>4, RecvKeeps
<1>5. CASE HandleFrame
  BY <1>5, HandleKeeps
<1>6. CASE \E f \in Frames : ServerSends(f)
  BY <1>6, SendKeeps
<1>7. CASE PeerGone
  BY <1>7, GoneKeeps
<1>8. CASE UNCHANGED lkVars
  <2>1. Handled' = Handled
    BY <1>8 DEF lkVars, Handled
  <2>2. LinkTypes' /\ LinkControl'
    BY <1>1, <1>8 DEF lkVars, LinkTypes, LinkControl
  <2> QED BY <1>8, <2>1, <2>2 DEF lkVars, LinkInv
<1> QED BY <1>2, <1>3, <1>4, <1>5, <1>6, <1>7, <1>8 DEF LinkNext, ws_client_event_loop

LEMMA LinkKeeps == LinkSpec => []LinkInv
<1>1. LinkInv /\ [LinkNext]_lkVars => LinkInv'
  BY LinkSteps
<1> QED BY <1>1, LinkStarts, PTL DEF LinkSpec
-----------------------------------------------------------------------------
(* The theorems. *)

LEMMA LinkTypesAreRight ==
    ASSUME LinkTypes
    PROVE  LinkTypeOK
<1>1. /\ lkClient.state \in {"disconnected", "connecting", "connected", "closing", "error"}
      /\ lkClient.running \in BOOLEAN /\ lkClient.open \in BOOLEAN
  BY DEF LinkTypes, LinkClients
<1> QED BY <1>1 DEF LinkTypes, LinkTypeOK

LEMMA LinkIsWhole ==
    ASSUME LinkInv
    PROVE  StreamStaysWhole
<1>1. LinkTypes
  BY DEF LinkInv
<1>2. LinkTypeOK
  BY <1>1, LinkTypesAreRight
<1>3. PICK b \in Seq(PartRecords), w \in Seq(PartRecords), sent \in Seq(Frames), done \in Nat :
          /\ b = lkClient.buffer /\ w = lkWire /\ sent = lkSent
          /\ done = lkSkipped + lkTaken /\ done <= Len(sent)
  <2>1. lkClient.buffer \in Seq(PartRecords) /\ lkSkipped + lkTaken \in Nat
    BY <1>1 DEF LinkTypes, LinkClients
  <2> QED BY <1>1, <2>1 DEF LinkTypes
<1>4. PICK t \in Seq(PartRecords) : Left(sent, done) = (b \o w) \o t /\ (~lkLost => t = <<>>)
  BY <1>3 DEF LinkInv, Holds
<1>5. PICK held \in Seq(PartRecords) : held = b \o w
  BY ConcatProperties
<1>6. PICK rest \in Seq(PartRecords) : rest = Left(sent, done)
  BY <1>3, LeftType
<1>7. rest = held \o t
  BY <1>4, <1>5, <1>6
<1>8. IsPrefix(held, rest)
  BY <1>7, PrefixIs
<1>9. ~lkLost => held = rest
  BY <1>4, <1>7, ConcatEmptySeq
<1>10. rest = PartsBehind(lkSent, lkSkipped + lkTaken, Len(lkSent) - (lkSkipped + lkTaken))
       /\ held = lkClient.buffer \o lkWire
  BY <1>3, <1>5, <1>6 DEF Left
<1> QED BY <1>2, <1>8, <1>9, <1>10 DEF StreamStaysWhole

\* ws_client_recv_frame, ws_client_handshake: for any number of frames and any size of
\* recv_buffer, buffer and wire together stay what the server sent behind the frames
\* taken, however the reads cut it; once the peer has gone, the beginning of it.
THEOREM LinkStaysWhole == LinkSpec => []StreamStaysWhole
<1>1. LinkInv => StreamStaysWhole
  BY LinkIsWhole
<1> QED BY <1>1, LinkKeeps, PTL

LEMMA LinkAnswers ==
    ASSUME LinkInv
    PROVE  PostedOnceThenAcked
<1>1. LinkTypes /\ LinkControl
  BY DEF LinkInv
<1>2. PICK done : done = EventsOf(lkSent, lkSkipped, Handled)
  OBVIOUS
<1>3. Responses(lkAcked, lkPosted, done)
  BY <1>2 DEF LinkInv
<1>4. /\ \A i, j \in DOMAIN lkPosted : i # j => lkPosted[i] # lkPosted[j]
      /\ Len(lkAcked) = Len(done)
      /\ \A i \in DOMAIN lkAcked :
           /\ lkAcked[i] = done[i].event
           /\ done[i].kind = "event" => lkAcked[i] \in {lkPosted[j] : j \in DOMAIN lkPosted}
  BY <1>3 DEF Responses, InPosted
<1>5. lkMain = "freed" => lkLoop \in {"none", "ended"}
  BY <1>1 DEF LinkControl
<1> QED BY <1>2, <1>4, <1>5 DEF PostedOnceThenAcked, Handled

\* feishu_ws_on_message, gateway_stop: whatever the server sends again and whenever the
\* client is stopped, no message is handed on twice, the responses are those of the
\* event frames in their order, each behind its message, and the loop has ended when
\* the client is freed.
THEOREM AnsweredInOrder == LinkSpec => []PostedOnceThenAcked
<1>1. LinkInv => PostedOnceThenAcked
  BY LinkAnswers
<1> QED BY <1>1, LinkKeeps, PTL

-----------------------------------------------------------------------------
(***************************************************************************)
(* The WebSocket server (WebSocketServer), for any clients, any array of   *)
(* connections and any size of their buffers.                              *)
(***************************************************************************)

Pieces == [message : Nat, part : Nat, of : Nat]
FrameSizes == {2, BufferSize + 1}
Peers == [where : {"away", "queued", "connected", "leaving", "closed"}, key : BOOLEAN,
          sent : Seq(FrameSizes), missed : Nat]
Connections == [client : Clients \cup {Nobody}, done : BOOLEAN, buffer : Seq(Pieces),
                used : BOOLEAN]
Rounds == [running : BOOLEAN, count : Nat, where : {"select", "round", "ended", "stopped"},
           ready : SUBSET Slots, accept : BOOLEAN]

ServerTypes ==
    /\ svServer \in Rounds
    /\ svConn \in [Slots -> Connections]
    /\ svClient \in [Clients -> Peers]
    /\ svWire \in [Clients -> Seq(Pieces)]
    /\ svHeard \in [Clients -> Seq(1..MaxMessages)]
    /\ \A i \in Slots : Len(svConn[i].buffer) <= BufferSize
    /\ \A c \in Clients : Len(svClient[c].sent) <= MaxMessages

\* Who sits where: a connected client in one slot, each slot counted; the thread only
\* has slots to read from that are taken.
Seats ==
    /\ \A i \in Slots : svConn[i].client # Nobody
                            => svClient[svConn[i].client].where \in {"connected", "leaving"}
    /\ \A i, j \in Slots : svConn[i].client = svConn[j].client /\ svConn[i].client # Nobody
                               => i = j
    /\ \A c \in Clients : svClient[c].where \in {"connected", "leaving"}
                              => \E i \in Slots : svConn[i].client = c
    /\ svServer.count <= Cardinality(Slots)
    /\ svServer.where # "stopped" => svServer.count = Cardinality(Occupied)
    /\ svServer.where = "stopped" => \A c \in Clients : svClient[c].where = "closed"
    /\ svServer.ready \subseteq Occupied
    /\ svServer.where # "round" => svServer.ready = {}

\* The bytes of a client: its request and its frames, before the request was read; the
\* frames behind those heard, after it.
FramesLeft(sent, done) == FramesBehind(sent, done, Len(sent) - done)
Unread(buffer, wire, sent) == buffer \o wire = Request \o FramesLeft(sent, 0)
Incomplete(buffer) == buffer # <<>> => Len(buffer) < buffer[1].of
Hears(buffer, wire, sent, missed, heard) ==
    /\ missed + Len(heard) <= Len(sent)
    /\ buffer \o wire = FramesLeft(sent, missed + Len(heard))
    /\ \A k \in DOMAIN heard : heard[k] = missed + k
    /\ Incomplete(buffer)
Line(conn, sent, missed, wire, heard) ==
    IF conn.done THEN Hears(conn.buffer, wire, sent, missed, heard)
    ELSE missed = 0 /\ heard = <<>> /\ Unread(conn.buffer, wire, sent)

Lines ==
    /\ \A c \in Clients : svClient[c].where = "away" =>
          svClient[c].sent = <<>> /\ svClient[c].missed = 0 /\ svHeard[c] = <<>>
    /\ \A c \in Clients : svClient[c].where = "queued" =>
          /\ svClient[c].missed = 0 /\ svHeard[c] = <<>>
          /\ Unread(<<>>, svWire[c], svClient[c].sent)
    /\ \A c \in Clients, i \in Slots : svConn[i].client = c =>
          Line(svConn[i], svClient[c].sent, svClient[c].missed, svWire[c], svHeard[c])

ServerInv == ServerTypes /\ Seats /\ Lines
-----------------------------------------------------------------------------
(* The frames in parts. *)

LEMMA SizesAre == FrameSizes \subseteq Nat \ {0}
BY BufferAssumption DEF FrameSizes

LEMMA FrameIs ==
    ASSUME NEW m \in Nat, NEW size \in Nat \ {0}
    PROVE  /\ Frame(m, size) \in Seq(Pieces) /\ Len(Frame(m, size)) = size
           /\ \A i \in 1..size : Frame(m, size)[i] = [message |-> m, part |-> i, of |-> size]
<1>1. PICK p : p = Frame(m, size)
  OBVIOUS
<1>2. p \in [1..size -> Pieces] /\ DOMAIN p = 1..size
      /\ \A i \in 1..size : p[i] = [message |-> m, part |-> i, of |-> size]
  BY <1>1 DEF Frame, Pieces
<1>3. p \in Seq(Pieces)
  BY <1>2, SeqDef
<1>4. Len(p) = size
  BY <1>2, <1>3, LenProperties
<1> QED BY <1>1, <1>2, <1>3, <1>4

\* The frames sent, each as the sequence of its parts.
FrameSeqs(sent) == [m \in 1..Len(sent) |-> Frame(m, sent[m])]

LEMMA FrameSeqsType ==
    ASSUME NEW sent \in Seq(FrameSizes)
    PROVE  /\ FrameSeqs(sent) \in Seq(Seq(Pieces)) /\ Len(FrameSeqs(sent)) = Len(sent)
           /\ \A i \in 1..Len(sent) : FrameSeqs(sent)[i] = Frame(i, sent[i])
<1>1. PICK p : p = FrameSeqs(sent)
  OBVIOUS
<1>2. PICK n \in Nat : n = Len(sent)
  BY LenProperties
<1>3. \A i \in 1..n : sent[i] \in Nat \ {0}
  BY <1>2, ElementOfSeq, SizesAre
<1>4. ASSUME NEW i \in 1..n PROVE Frame(i, sent[i]) \in Seq(Pieces)
  <2>1. PICK size \in Nat \ {0} : size = sent[i]
    BY <1>3
  <2>2. i \in Nat
    OBVIOUS
  <2>3. Frame(i, size) \in Seq(Pieces)
    BY <2>2, FrameIs
  <2> QED BY <2>1, <2>3
<1> DEFINE Q == Seq(Pieces)
<1>5. p \in [1..n -> Q] /\ DOMAIN p = 1..n /\ \A i \in 1..n : p[i] = Frame(i, sent[i])
  BY <1>1, <1>2, <1>4 DEF FrameSeqs
<1> HIDE DEF Q
<1>6. p \in Seq(Q)
  BY <1>5, SeqDef
<1>7. Len(p) = n
  BY <1>5, <1>6, LenProperties
<1> QED BY <1>1, <1>2, <1>5, <1>6, <1>7 DEF Q

LEMMA FrameSeqsAppend ==
    ASSUME NEW sent \in Seq(FrameSizes), NEW size \in FrameSizes
    PROVE  FrameSeqs(Append(sent, size)) = Append(FrameSeqs(sent), Frame(Len(sent) + 1, size))
<1>1. PICK l \in Nat : l = Len(sent)
  BY LenProperties
<1>2. PICK more \in Seq(FrameSizes) : more = Append(sent, size)
  BY AppendProperties
<1>3. Len(more) = l + 1 /\ more[l + 1] = size /\ \A i \in 1..l : more[i] = sent[i]
  BY <1>1, <1>2, AppendProperties
<1> DEFINE Q == Seq(Pieces)
<1>13. l + 1 \in Nat /\ size \in Nat \ {0}
  BY SizesAre
<1>4. PICK q \in Q : q = Frame(l + 1, size)
  BY <1>13, FrameIs
<1>5. /\ FrameSeqs(sent) \in Seq(Q) /\ Len(FrameSeqs(sent)) = l
      /\ \A i \in 1..l : FrameSeqs(sent)[i] = Frame(i, sent[i])
  BY <1>1, FrameSeqsType
<1>6. /\ FrameSeqs(more) \in Seq(Q) /\ Len(FrameSeqs(more)) = l + 1
      /\ \A i \in 1..l + 1 : FrameSeqs(more)[i] = Frame(i, more[i])
  BY <1>3, FrameSeqsType
<1> HIDE DEF Q
<1>7. PICK p \in Seq(Q) : p = FrameSeqs(sent)
  BY <1>5
<1>8. PICK r \in Seq(Q) : r = FrameSeqs(more)
  BY <1>6
<1>9. PICK t \in Seq(Q) : t = Append(p, q)
  BY AppendProperties
<1>10. Len(t) = l + 1 /\ t[l + 1] = q /\ \A i \in 1..l : t[i] = p[i]
  BY <1>5, <1>7, <1>9, AppendProperties
<1>11. ASSUME NEW i \in 1..l + 1 PROVE r[i] = t[i]
  <2>1. CASE i = l + 1
    BY <1>3, <1>4, <1>6, <1>8, <1>10, <2>1
  <2>2. CASE i # l + 1
    <3>1. i \in 1..l
      BY <2>2
    <3> QED BY <1>3, <1>5, <1>6, <1>7, <1>8, <1>10, <3>1
  <2> QED BY <2>1, <2>2
<1>12. r = t
  BY <1>6, <1>8, <1>10, <1>11, SeqEqual
<1> QED BY <1>1, <1>2, <1>4, <1>7, <1>8, <1>9, <1>12

LEMMA FramesAreBehind ==
    ASSUME NEW sent \in Seq(FrameSizes), NEW done \in Nat, NEW n \in Nat, done + n <= Len(sent)
    PROVE  FramesBehind(sent, done, n) = Behind(FrameSeqs(sent), done, n)
<1>1. PICK p : p = FrameSeqs(sent) /\ \A i \in 1..Len(sent) : p[i] = Frame(i, sent[i])
  BY FrameSeqsType
<1>2. \A i \in 1..n : done + i \in 1..Len(sent)
  BY LenProperties
<1>3. \A i \in 1..n : p[done + i] = Frame(done + i, sent[done + i])
  BY <1>1, <1>2
<1>4. [i \in 1..n |-> p[done + i]] = [i \in 1..n |-> Frame(done + i, sent[done + i])]
  BY <1>3
<1> QED BY <1>1, <1>4 DEF FramesBehind, Behind

LEMMA FramesType ==
    ASSUME NEW sent \in Seq(FrameSizes), NEW done \in Nat, NEW n \in Nat, done + n <= Len(sent)
    PROVE  FramesBehind(sent, done, n) \in Seq(Pieces)
<1>1. PICK p \in Seq(Seq(Pieces)) : p = FrameSeqs(sent) /\ done + n <= Len(p)
  BY FrameSeqsType
<1>2. Behind(p, done, n) \in Seq(Pieces)
  BY <1>1, BehindType
<1> QED BY <1>1, <1>2, FramesAreBehind

LEMMA FramesNone == \A sent, done : FramesBehind(sent, done, 0) = <<>>
<1> SUFFICES ASSUME NEW sent, NEW done PROVE FramesBehind(sent, done, 0) = <<>>
  OBVIOUS
<1>1. PICK ss : ss = [i \in 1..0 |-> Frame(done + i, sent[done + i])]
  OBVIOUS
<1>2. ss = <<>>
  BY <1>1
<1> QED BY <1>1, <1>2, FlattenEmpty DEF FramesBehind

LEMMA FramesOne ==
    ASSUME NEW sent \in Seq(FrameSizes), NEW done \in Nat, done + 1 <= Len(sent)
    PROVE  FramesBehind(sent, done, 1) = Frame(done + 1, sent[done + 1])
<1>1. PICK p \in Seq(Seq(Pieces)) :
          /\ p = FrameSeqs(sent) /\ done + 1 <= Len(p)
          /\ \A i \in 1..Len(sent) : p[i] = Frame(i, sent[i])
  BY FrameSeqsType
<1>2. Behind(p, done, 1) = p[done + 1]
  BY <1>1, BehindOne
<1>3. done + 1 \in 1..Len(sent)
  BY LenProperties
<1>4. FramesBehind(sent, done, 1) = Behind(p, done, 1)
  BY <1>1, FramesAreBehind
<1> QED BY <1>1, <1>2, <1>3, <1>4

LEMMA FramesSplit ==
    ASSUME NEW sent \in Seq(FrameSizes), NEW done \in Nat, NEW m \in Nat, NEW n \in Nat,
           done + m + n <= Len(sent)
    PROVE  FramesBehind(sent, done, m + n)
             = FramesBehind(sent, done, m) \o FramesBehind(sent, done + m, n)
<1>1. PICK p \in Seq(Seq(Pieces)) : p = FrameSeqs(sent) /\ done + m + n <= Len(p)
  BY FrameSeqsType
<1>2. Behind(p, done, m + n) = Behind(p, done, m) \o Behind(p, done + m, n)
  <2>1. p \in Seq(Seq(Pieces)) /\ done \in Nat /\ m \in Nat /\ n \in Nat
    OBVIOUS
  <2>2. done + m + n <= Len(p)
    BY <1>1
  <2> QED BY ONLY <2>1, <2>2, BehindSplit
<1>3. PICK d \in Nat, l \in Nat : /\ d = done + m /\ l = m + n /\ done + l <= Len(sent)
                                  /\ d + n <= Len(sent)
  <2>1. done + m \in Nat /\ m + n \in Nat /\ done + (m + n) = done + m + n
    OBVIOUS
  <2> QED BY <2>1
<1>5. done + m <= Len(sent)
  BY LenProperties
<1>4. /\ FramesBehind(sent, done, l) = Behind(p, done, l)
      /\ FramesBehind(sent, done, m) = Behind(p, done, m)
      /\ FramesBehind(sent, d, n) = Behind(p, d, n)
  <2>1. FramesBehind(sent, done, l) = Behind(p, done, l)
    BY <1>1, <1>3, FramesAreBehind
  <2>2. FramesBehind(sent, done, m) = Behind(p, done, m)
    BY <1>1, <1>5, FramesAreBehind
  <2>3. FramesBehind(sent, d, n) = Behind(p, d, n)
    BY <1>1, <1>3, FramesAreBehind
  <2> QED BY <2>1, <2>2, <2>3
<1> QED BY <1>2, <1>3, <1>4

LEMMA FramesLeftIs ==
    ASSUME NEW sent \in Seq(FrameSizes), NEW done \in Nat, done <= Len(sent)
    PROVE  FramesLeft(sent, done) = AllBehind(FrameSeqs(sent), done)
<1>1. PICK l \in Nat : l = Len(sent)
  BY LenProperties
<1>2. l - done \in Nat /\ done + (l - done) <= l
  BY <1>1
<1>3. PICK n \in Nat : n = Len(sent) - done /\ done + n <= Len(sent)
  BY <1>1, <1>2
<1>4. Len(FrameSeqs(sent)) - done = n
  BY <1>3, FrameSeqsType
<1> QED BY <1>3, <1>4, FramesAreBehind DEF FramesLeft, AllBehind

LEMMA FramesLeftType ==
    ASSUME NEW sent \in Seq(FrameSizes), NEW done \in Nat, done <= Len(sent)
    PROVE  FramesLeft(sent, done) \in Seq(Pieces)
<1>1. PICK p \in Seq(Seq(Pieces)) : p = FrameSeqs(sent) /\ done <= Len(p)
  BY FrameSeqsType
<1>2. AllBehind(p, done) \in Seq(Pieces)
  BY <1>1, AllBehindType
<1> QED BY <1>1, <1>2, FramesLeftIs

\* What is left behind m frames more.
LEMMA FramesLeftSplit ==
    ASSUME NEW sent \in Seq(FrameSizes), NEW done \in Nat, NEW m \in Nat, done + m <= Len(sent)
    PROVE  FramesLeft(sent, done) = FramesBehind(sent, done, m) \o FramesLeft(sent, done + m)
<1>1. PICK p \in Seq(Seq(Pieces)) : p = FrameSeqs(sent) /\ done + m <= Len(p)
  BY FrameSeqsType
<1>2. AllBehind(p, done) = Behind(p, done, m) \o AllBehind(p, done + m)
  BY <1>1, AllBehindSplit
<1>3. PICK d \in Nat : d = done + m /\ d <= Len(sent) /\ done <= Len(sent)
  BY LenProperties
<1>4. FramesLeft(sent, d) = AllBehind(p, d) /\ FramesLeft(sent, done) = AllBehind(p, done)
  BY <1>1, <1>3, FramesLeftIs
<1>5. FramesBehind(sent, done, m) = Behind(p, done, m)
  BY <1>1, FramesAreBehind
<1> QED BY <1>2, <1>3, <1>4, <1>5

\* What is left when the client sends a frame more.
LEMMA FramesLeftAppend ==
    ASSUME NEW sent \in Seq(FrameSizes), NEW size \in FrameSizes, NEW done \in Nat,
           done <= Len(sent)
    PROVE  FramesLeft(Append(sent, size), done)
             = FramesLeft(sent, done) \o Frame(Len(sent) + 1, size)
<1>1. PICK p \in Seq(Seq(Pieces)) : p = FrameSeqs(sent) /\ done <= Len(p)
  BY FrameSeqsType
<1>2. Len(sent) + 1 \in Nat
  BY LenProperties
<1>3. PICK q \in Seq(Pieces) : q = Frame(Len(sent) + 1, size)
  BY <1>2, FrameIs, SizesAre
<1>4. AllBehind(Append(p, q), done) = AllBehind(p, done) \o q
  BY <1>1, AllBehindAppend
<1>9. Append(sent, size) \in Seq(FrameSizes) /\ Len(Append(sent, size)) = Len(sent) + 1
  BY AppendProperties
<1>10. done <= Len(sent) + 1
  BY LenProperties
<1>5. PICK more \in Seq(FrameSizes) : more = Append(sent, size) /\ done <= Len(more)
  BY <1>9, <1>10
<1>6. FramesLeft(more, done) = AllBehind(FrameSeqs(more), done)
  BY <1>5, FramesLeftIs
<1>7. FrameSeqs(more) = Append(p, q)
  BY <1>1, <1>3, <1>5, FrameSeqsAppend
<1>8. FramesLeft(sent, done) = AllBehind(p, done)
  BY <1>1, FramesLeftIs
<1> QED BY <1>3, <1>4, <1>5, <1>6, <1>7, <1>8
-----------------------------------------------------------------------------
(* Where the parts are. *)

\* One frame more: its parts come behind.
LEMMA FramesNext ==
    ASSUME NEW sent \in Seq(FrameSizes), NEW done \in Nat, NEW n \in Nat,
           done + n + 1 <= Len(sent)
    PROVE  /\ sent[done + n + 1] \in Nat \ {0}
           /\ Frame(done + n + 1, sent[done + n + 1]) \in Seq(Pieces)
           /\ FramesBehind(sent, done, n) \in Seq(Pieces)
           /\ FramesBehind(sent, done, n + 1)
                = FramesBehind(sent, done, n) \o Frame(done + n + 1, sent[done + n + 1])
           /\ Len(FramesBehind(sent, done, n + 1))
                = Len(FramesBehind(sent, done, n)) + sent[done + n + 1]
<1>1. PICK l \in Nat : l = Len(sent)
  BY LenProperties
<1>2. PICK d \in Nat : d = done + n
  OBVIOUS
<1>3. d + 1 \in 1..Len(sent) /\ d + 1 \in Nat
  BY <1>1, <1>2
<1>4. PICK size \in Nat \ {0} : size = sent[d + 1]
  BY <1>3, ElementOfSeq, SizesAre
<1>5. Frame(d + 1, size) \in Seq(Pieces) /\ Len(Frame(d + 1, size)) = size
  BY <1>3, FrameIs
<1>6. PICK f \in Seq(Pieces) : f = Frame(d + 1, size) /\ Len(f) = size
  BY <1>5
<1>7. FramesBehind(sent, d, 1) = f
  <2>1. d + 1 <= Len(sent)
    BY <1>1, <1>2
  <2> QED BY <1>4, <1>6, <2>1, FramesOne
<1>8. FramesBehind(sent, done, n) \in Seq(Pieces)
  <2>1. done + n <= Len(sent)
    BY <1>1
  <2> QED BY <2>1, FramesType
<1>9. FramesBehind(sent, done, n + 1) = FramesBehind(sent, done, n) \o f
  <2>1. 1 \in Nat
    OBVIOUS
  <2>2. FramesBehind(sent, done, n + 1)
          = FramesBehind(sent, done, n) \o FramesBehind(sent, done + n, 1)
    BY <2>1, FramesSplit
  <2> QED BY <1>2, <1>7, <2>2
<1>10. PICK a \in Seq(Pieces) : a = FramesBehind(sent, done, n)
  BY <1>8
<1>11. Len(a \o f) = Len(a) + Len(f)
  BY ConcatProperties
<1> QED BY <1>2, <1>4, <1>6, <1>8, <1>9, <1>10, <1>11

\* More frames are longer.
LEMMA FramesGrow ==
    ASSUME NEW sent \in Seq(FrameSizes), NEW done \in Nat, NEW m \in Nat, NEW n \in Nat,
           m <= n, done + n <= Len(sent)
    PROVE  Len(FramesBehind(sent, done, m)) <= Len(FramesBehind(sent, done, n))
<1>1. PICK k \in Nat : n = m + k
  <2>1. n - m \in Nat /\ n = m + (n - m)
    OBVIOUS
  <2> QED BY <2>1
<1>2. done + m + k <= Len(sent) /\ done + m <= Len(sent) /\ done + m \in Nat
  BY <1>1, LenProperties
<1>3. FramesBehind(sent, done, n)
        = FramesBehind(sent, done, m) \o FramesBehind(sent, done + m, k)
  BY <1>1, <1>2, FramesSplit
<1>4. PICK a \in Seq(Pieces) : a = FramesBehind(sent, done, m)
  BY <1>2, FramesType
<1>5. PICK b \in Seq(Pieces) : b = FramesBehind(sent, done + m, k)
  BY <1>2, FramesType
<1>6. Len(a \o b) = Len(a) + Len(b) /\ Len(a) \in Nat /\ Len(b) \in Nat
  BY ConcatProperties, LenProperties
<1> QED BY <1>3, <1>4, <1>5, <1>6

\* The part at place i of n frames: part p of the frame behind j others.
PartAt(sent, done, n, i) ==
    \E j \in 0..n - 1, p \in Nat \ {0} :
        /\ p <= sent[done + j + 1]
        /\ i = Len(FramesBehind(sent, done, j)) + p
        /\ FramesBehind(sent, done, n)[i]
             = [message |-> done + j + 1, part |-> p, of |-> sent[done + j + 1]]

LEMMA PartsAre ==
    ASSUME NEW sent \in Seq(FrameSizes), NEW done \in Nat, NEW n \in Nat, done + n <= Len(sent)
    PROVE  \A i \in 1..Len(FramesBehind(sent, done, n)) : PartAt(sent, done, n, i)
<1> DEFINE A == {k \in Nat : done + k <= Len(sent) =>
                    \A i \in 1..Len(FramesBehind(sent, done, k)) : PartAt(sent, done, k, i)}
<1>1. 0 \in A
  <2>1. Len(FramesBehind(sent, done, 0)) = 0
    BY FramesNone, EmptySeq
  <2>2. PICK z : z = Len(FramesBehind(sent, done, 0))
    OBVIOUS
  <2>3. 1..z = {}
    BY <2>1, <2>2
  <2> QED BY <2>2, <2>3
<1>2. ASSUME NEW k \in Nat, k \in A PROVE k + 1 \in A
  <2> SUFFICES ASSUME done + (k + 1) <= Len(sent),
                      NEW i \in 1..Len(FramesBehind(sent, done, k + 1))
               PROVE  PartAt(sent, done, k + 1, i)
    OBVIOUS
  <2>1. done + k + 1 <= Len(sent) /\ done + k <= Len(sent) /\ done + k + 1 \in Nat
    BY LenProperties
  <2>2. /\ sent[done + k + 1] \in Nat \ {0}
        /\ Frame(done + k + 1, sent[done + k + 1]) \in Seq(Pieces)
        /\ FramesBehind(sent, done, k) \in Seq(Pieces)
        /\ FramesBehind(sent, done, k + 1)
             = FramesBehind(sent, done, k) \o Frame(done + k + 1, sent[done + k + 1])
        /\ Len(FramesBehind(sent, done, k + 1))
             = Len(FramesBehind(sent, done, k)) + sent[done + k + 1]
    BY <2>1, FramesNext
  <2>3. PICK size \in Nat \ {0} : size = sent[done + k + 1]
    BY <2>2
  <2>4. PICK a \in Seq(Pieces) : a = FramesBehind(sent, done, k)
    BY <2>2
  <2>5. PICK f \in Seq(Pieces) : f = Frame(done + k + 1, size)
    BY <2>2, <2>3
  <2>6. /\ Len(f) = size
        /\ \A q \in 1..size : f[q] = [message |-> done + k + 1, part |-> q, of |-> size]
    BY <2>1, <2>5, FrameIs
  <2>7. PICK l \in Nat : l = Len(a)
    BY LenProperties
  <2>8. i \in 1..l + size
    BY <2>2, <2>3, <2>4, <2>7
  <2>9. (a \o f)[i] = IF i <= l THEN a[i] ELSE f[i - l]
    BY <2>6, <2>7, <2>8, ConcatProperties
  <2>10. FramesBehind(sent, done, k + 1) = a \o f
    BY <2>2, <2>3, <2>4, <2>5
  <2>11. CASE i <= l
    <3>1. i \in 1..Len(FramesBehind(sent, done, k))
      BY <2>4, <2>7, <2>8, <2>11
    <3>2. PartAt(sent, done, k, i)
      BY <1>2, <2>1, <3>1
    <3>3. PICK j \in 0..k - 1, p \in Nat \ {0} :
            /\ p <= sent[done + j + 1]
            /\ i = Len(FramesBehind(sent, done, j)) + p
            /\ a[i] = [message |-> done + j + 1, part |-> p, of |-> sent[done + j + 1]]
      BY <2>4, <3>2 DEF PartAt
    <3>4. j \in 0..(k + 1) - 1
      OBVIOUS
    <3> QED BY <2>9, <2>10, <2>11, <3>3, <3>4 DEF PartAt
  <2>12. CASE ~(i <= l)
    <3>1. PICK p \in Nat \ {0} : p = i - l /\ p \in 1..size /\ i = l + p /\ p <= size
      <4>1. i - l \in Nat \ {0} /\ i - l \in 1..size /\ i = l + (i - l) /\ i - l <= size
        BY <2>8, <2>12
      <4> QED BY <4>1
    <3>2. (a \o f)[i] = [message |-> done + k + 1, part |-> p, of |-> size]
      BY <2>6, <2>9, <2>12, <3>1
    <3>3. k \in 0..(k + 1) - 1
      OBVIOUS
    <3> QED BY <2>3, <2>4, <2>7, <2>10, <3>1, <3>2, <3>3 DEF PartAt
  <2> QED BY <2>11, <2>12
<1> HIDE DEF A
<1>3. n \in A
  BY <1>1, <1>2, Induct
<1> QED BY <1>3 DEF A
-----------------------------------------------------------------------------
(* The messages that a buffer ends. *)

\* Sequences that are all empty have nothing in them.
LEMMA FlattenSilent ==
    ASSUME NEW S, NEW ss \in Seq(Seq(S)), \A i \in 1..Len(ss) : ss[i] = <<>>
    PROVE  FlattenSeq(ss) = <<>>
<1> DEFINE Q == Seq(S)
           A == {n \in Nat : \A tt \in Seq(Q) :
                    Len(tt) = n /\ (\A i \in 1..n : tt[i] = <<>>) => FlattenSeq(tt) = <<>>}
<1>1. 0 \in A
  BY EmptySeq, FlattenEmpty
<1>2. ASSUME NEW n \in Nat, n \in A PROVE n + 1 \in A
  <2> SUFFICES ASSUME NEW tt \in Seq(Q), Len(tt) = n + 1, \A i \in 1..n + 1 : tt[i] = <<>>
               PROVE  FlattenSeq(tt) = <<>>
    OBVIOUS
  <2> HIDE DEF Q
  <2>1. PICK u \in Seq(Q), x \in Q : tt = Append(u, x)
    <3>1. tt # <<>>
      BY EmptySeq
    <3> QED BY <3>1, SequenceEmptyOrAppend
  <2>2. Len(u) = n /\ tt[n + 1] = x /\ \A i \in 1..n : tt[i] = u[i]
    BY <2>1, AppendProperties, LenProperties
  <2>3. x = <<>> /\ \A i \in 1..n : u[i] = <<>>
    BY <2>2
  <2>4. FlattenSeq(u) = <<>>
    BY <1>2, <2>2, <2>3
  <2>5. FlattenSeq(tt) = <<>> \o x
    <3>1. u \in Seq(Seq(S)) /\ x \in Seq(S)
      BY DEF Q
    <3> QED BY <2>1, <2>4, <3>1, FlattenAppend
  <2>6. <<>> \in Seq(S) /\ <<>> \o <<>> = <<>>
    BY EmptySeq, ConcatEmptySeq
  <2> QED BY <2>3, <2>5, <2>6
<1> HIDE DEF A
<1>3. Len(ss) \in A
  BY <1>1, <1>2, Induct, LenProperties
<1> QED BY <1>3 DEF A

EndOf(piece) == IF piece.part = piece.of THEN <<piece.message>> ELSE <<>>
EndsSeq(s) == [k \in 1..Len(s) |-> EndOf(s[k])]
Ends(s) == FlattenSeq(EndsSeq(s))

LEMMA EndType == \A piece \in Pieces : EndOf(piece) \in Seq(Nat)
<1> SUFFICES ASSUME NEW piece \in Pieces PROVE EndOf(piece) \in Seq(Nat)
  OBVIOUS
<1>1. piece.message \in Nat
  BY DEF Pieces
<1> QED BY <1>1, OneSeq, EmptySeq DEF EndOf

LEMMA EndsSeqType ==
    ASSUME NEW s \in Seq(Pieces)
    PROVE  /\ EndsSeq(s) \in Seq(Seq(Nat)) /\ Len(EndsSeq(s)) = Len(s)
           /\ \A k \in 1..Len(s) : EndsSeq(s)[k] = EndOf(s[k])
<1>1. PICK p : p = EndsSeq(s)
  OBVIOUS
<1>2. PICK n \in Nat : n = Len(s)
  BY LenProperties
<1>3. \A k \in 1..n : EndOf(s[k]) \in Seq(Nat)
  BY <1>2, ElementOfSeq, EndType
<1> DEFINE Q == Seq(Nat)
<1>4. p \in [1..n -> Q] /\ DOMAIN p = 1..n /\ \A k \in 1..n : p[k] = EndOf(s[k])
  BY <1>1, <1>2, <1>3 DEF EndsSeq
<1> HIDE DEF Q
<1>5. p \in Seq(Q)
  BY <1>4, SeqDef
<1>6. Len(p) = n
  BY <1>4, <1>5, LenProperties
<1> QED BY <1>1, <1>2, <1>4, <1>5, <1>6 DEF Q

LEMMA EndsConcat ==
    ASSUME NEW s \in Seq(Pieces), NEW t \in Seq(Pieces)
    PROVE  Ends(s \o t) = Ends(s) \o Ends(t)
<1> DEFINE Q == Seq(Nat)
<1>1. PICK u \in Seq(Pieces) : u = s \o t
  BY ConcatProperties
<1>2. PICK m \in Nat, n \in Nat : m = Len(s) /\ n = Len(t)
  BY LenProperties
<1>3. Len(u) = m + n /\ \A i \in 1..m + n : u[i] = IF i <= m THEN s[i] ELSE t[i - m]
  BY <1>1, <1>2, ConcatProperties
<1>4. /\ EndsSeq(s) \in Seq(Q) /\ Len(EndsSeq(s)) = m
      /\ \A k \in 1..m : EndsSeq(s)[k] = EndOf(s[k])
  BY <1>2, EndsSeqType
<1>5. /\ EndsSeq(t) \in Seq(Q) /\ Len(EndsSeq(t)) = n
      /\ \A k \in 1..n : EndsSeq(t)[k] = EndOf(t[k])
  BY <1>2, EndsSeqType
<1>6. /\ EndsSeq(u) \in Seq(Q) /\ Len(EndsSeq(u)) = m + n
      /\ \A k \in 1..m + n : EndsSeq(u)[k] = EndOf(u[k])
  BY <1>3, EndsSeqType
<1> HIDE DEF Q
<1>7. PICK a \in Seq(Q) : a = EndsSeq(s)
  BY <1>4
<1>8. PICK b \in Seq(Q) : b = EndsSeq(t)
  BY <1>5
<1>9. PICK c \in Seq(Q) : c = EndsSeq(u)
  BY <1>6
<1>10. PICK d \in Seq(Q) : d = a \o b
  BY ConcatProperties
<1>11. Len(d) = m + n /\ \A i \in 1..m + n : d[i] = IF i <= m THEN a[i] ELSE b[i - m]
  <2>1. Len(a) = m /\ Len(b) = n
    BY <1>4, <1>5, <1>7, <1>8
  <2>2. /\ Len(a \o b) = Len(a) + Len(b)
        /\ \A i \in 1..Len(a) + Len(b) :
              (a \o b)[i] = IF i <= Len(a) THEN a[i] ELSE b[i - Len(a)]
    BY ConcatProperties
  <2> QED BY <1>10, <2>1, <2>2
<1>12. ASSUME NEW i \in 1..m + n PROVE c[i] = d[i]
  <2>1. CASE i <= m
    <3>1. i \in 1..m
      BY <2>1
    <3> QED BY <1>3, <1>4, <1>6, <1>7, <1>9, <1>11, <2>1, <3>1
  <2>2. CASE ~(i <= m)
    <3>1. i - m \in 1..n
      BY <2>2
    <3>2. b[i - m] = EndOf(t[i - m])
      BY <1>5, <1>8, <3>1
    <3>3. u[i] = t[i - m] /\ d[i] = b[i - m]
      BY <1>3, <1>11, <2>2
    <3>4. c[i] = EndOf(u[i])
      BY <1>6, <1>9
    <3> QED BY <3>2, <3>3, <3>4
  <2> QED BY <2>1, <2>2
<1>13. c = d
  BY <1>6, <1>9, <1>11, <1>12, SeqEqual
<1>14. a \in Seq(Seq(Nat)) /\ b \in Seq(Seq(Nat))
  BY DEF Q
<1>15. FlattenSeq(a \o b) = FlattenSeq(a) \o FlattenSeq(b)
  BY <1>14, FlattenConcat
<1> QED BY <1>1, <1>7, <1>8, <1>9, <1>10, <1>13, <1>15 DEF Ends

\* A frame ends once.
LEMMA EndsFrame ==
    ASSUME NEW m \in Nat, NEW size \in Nat \ {0}
    PROVE  Ends(Frame(m, size)) = <<m>>
<1> DEFINE Q == Seq(Nat)
<1>1. /\ Frame(m, size) \in Seq(Pieces) /\ Len(Frame(m, size)) = size
      /\ \A i \in 1..size : Frame(m, size)[i] = [message |-> m, part |-> i, of |-> size]
  BY FrameIs
<1>2. PICK f \in Seq(Pieces) :
          /\ f = Frame(m, size) /\ Len(f) = size
          /\ \A i \in 1..size : f[i] = [message |-> m, part |-> i, of |-> size]
  BY <1>1
<1>3. /\ EndsSeq(f) \in Seq(Q) /\ Len(EndsSeq(f)) = size
      /\ \A k \in 1..size : EndsSeq(f)[k] = EndOf(f[k])
  BY <1>2, EndsSeqType
<1> HIDE DEF Q
<1>4. PICK e \in Seq(Q) : e = EndsSeq(f)
  BY <1>3
<1>5. \A k \in 1..size : e[k] = IF k = size THEN <<m>> ELSE <<>>
  <2> SUFFICES ASSUME NEW k \in 1..size PROVE e[k] = IF k = size THEN <<m>> ELSE <<>>
    OBVIOUS
  <2>1. f[k].message = m /\ f[k].part = k /\ f[k].of = size
    BY <1>2
  <2> QED BY <1>3, <1>4, <2>1 DEF EndOf
<1>6. PICK u \in Seq(Q), x \in Q : e = Append(u, x)
  <2>1. e # <<>>
    BY <1>3, <1>4, EmptySeq
  <2> QED BY <2>1, SequenceEmptyOrAppend
<1>7. PICK l \in Nat : l = Len(u)
  BY LenProperties
<1>8. Len(e) = l + 1 /\ e[l + 1] = x /\ \A i \in 1..l : e[i] = u[i]
  BY <1>6, <1>7, AppendProperties
<1>9. size = l + 1
  BY <1>3, <1>4, <1>8
<1>10. x = <<m>> /\ \A i \in 1..l : u[i] = <<>>
  <2>1. l + 1 \in 1..size /\ \A i \in 1..l : i \in 1..size /\ i # size
    BY <1>9
  <2> QED BY <1>5, <1>8, <1>9, <2>1
<1>11. u \in Seq(Seq(Nat)) /\ x \in Seq(Nat)
  BY DEF Q
<1>12. FlattenSeq(u) = <<>>
  BY <1>7, <1>10, <1>11, FlattenSilent
<1>13. FlattenSeq(e) = <<>> \o x
  BY <1>6, <1>11, <1>12, FlattenAppend
<1>14. <<>> \o x = x
  BY <1>11, ConcatEmptySeq
<1> QED BY <1>2, <1>4, <1>10, <1>13, <1>14 DEF Ends

\* Whole frames end one after the other.
Counts(s, from, n) == s \in Seq(Nat) /\ Len(s) = n /\ \A k \in 1..n : s[k] = from + k

LEMMA EndsFrames ==
    ASSUME NEW sent \in Seq(FrameSizes), NEW done \in Nat, NEW n \in Nat, done + n <= Len(sent)
    PROVE  Counts(Ends(FramesBehind(sent, done, n)), done, n)
<1> DEFINE A == {k \in Nat : done + k <= Len(sent) =>
                                 Counts(Ends(FramesBehind(sent, done, k)), done, k)}
<1>1. 0 \in A
  <2>1. PICK e \in Seq(Pieces) : e = <<>> /\ Len(e) = 0
    BY EmptySeq
  <2>2. EndsSeq(e) \in Seq(Seq(Nat)) /\ Len(EndsSeq(e)) = 0
    BY <2>1, EndsSeqType
  <2>3. EndsSeq(e) = <<>>
    BY <2>2, EmptySeq
  <2>4. Ends(e) = <<>>
    BY <2>3, FlattenEmpty DEF Ends
  <2>5. Counts(<<>>, done, 0)
    BY EmptySeq DEF Counts
  <2>6. FramesBehind(sent, done, 0) = e
    BY <2>1, FramesNone
  <2> QED BY <2>4, <2>5, <2>6
<1>2. ASSUME NEW k \in Nat, k \in A PROVE k + 1 \in A
  <2> SUFFICES ASSUME done + (k + 1) <= Len(sent)
               PROVE  Counts(Ends(FramesBehind(sent, done, k + 1)), done, k + 1)
    OBVIOUS
  <2>1. done + k + 1 <= Len(sent) /\ done + k <= Len(sent) /\ done + k + 1 \in Nat
    BY LenProperties
  <2>2. /\ sent[done + k + 1] \in Nat \ {0}
        /\ Frame(done + k + 1, sent[done + k + 1]) \in Seq(Pieces)
        /\ FramesBehind(sent, done, k) \in Seq(Pieces)
        /\ FramesBehind(sent, done, k + 1)
             = FramesBehind(sent, done, k) \o Frame(done + k + 1, sent[done + k + 1])
    BY <2>1, FramesNext
  <2>3. PICK a \in Seq(Pieces) : a = FramesBehind(sent, done, k)
    BY <2>2
  <2>4. PICK f \in Seq(Pieces) : f = Frame(done + k + 1, sent[done + k + 1])
    BY <2>2
  <2>5. Ends(a \o f) = Ends(a) \o Ends(f)
    BY EndsConcat
  <2>6. Ends(f) = <<done + k + 1>>
    BY <2>1, <2>2, <2>4, EndsFrame
  <2>7. Counts(Ends(a), done, k)
    BY <1>2, <2>1, <2>3
  <2>8. PICK s \in Seq(Nat) : s = Ends(a) /\ Len(s) = k /\ \A i \in 1..k : s[i] = done + i
    BY <2>7 DEF Counts
  <2>9. PICK t \in Seq(Nat) : t = Append(s, done + k + 1)
    BY <2>1, AppendProperties
  <2>10. s \o <<done + k + 1>> = t
    BY <2>1, <2>9, AppendIsConcat
  <2>11. Len(t) = k + 1 /\ t[k + 1] = done + k + 1 /\ \A i \in 1..k : t[i] = s[i]
    BY <2>1, <2>8, <2>9, AppendProperties
  <2>12. \A i \in 1..k + 1 : t[i] = done + i
    <3> SUFFICES ASSUME NEW i \in 1..k + 1 PROVE t[i] = done + i
      OBVIOUS
    <3>1. CASE i = k + 1
      BY <2>11, <3>1
    <3>2. CASE i \in 1..k
      BY <2>8, <2>11, <3>2
    <3> QED BY <3>1, <3>2
  <2>13. Counts(t, done, k + 1)
    BY <2>11, <2>12 DEF Counts
  <2> QED BY <2>2, <2>3, <2>4, <2>5, <2>6, <2>8, <2>10, <2>13
<1> HIDE DEF A
<1>3. n \in A
  BY <1>1, <1>2, Induct
<1> QED BY <1>3 DEF A
-----------------------------------------------------------------------------
(* What websocket_parse_frame takes out of a buffer. *)

LEMMA MaxIs ==
    ASSUME NEW S \in SUBSET Nat, NEW n \in S, \A m \in S : m <= n
    PROVE  Max(S) = n
<1>1. n \in S /\ \A m \in S : n >= m
  OBVIOUS
<1>2. Max(S) \in S /\ \A m \in S : Max(S) >= m
  BY <1>1 DEF Max
<1>3. PICK x \in Nat : x = Max(S)
  BY <1>2
<1>4. x >= n /\ x <= n
  BY <1>2, <1>3
<1> QED BY <1>3, <1>4

LEMMA MinIs ==
    ASSUME NEW S \in SUBSET Nat, S # {}
    PROVE  Min(S) \in S
<1>1. PICK n \in S : \A m \in S : n <= m
  BY Least
<1> QED BY <1>1 DEF Min

\* The most frames that are whole in a buffer of so many parts.
MostOf(sent, done, m, size) ==
    /\ m \in Nat /\ done + m <= Len(sent)
    /\ Len(FramesBehind(sent, done, m)) <= size
    /\ done + m + 1 <= Len(sent) => size < Len(FramesBehind(sent, done, m + 1))

LEMMA MostFrames ==
    ASSUME NEW sent \in Seq(FrameSizes), NEW done \in Nat, NEW size \in Nat, done <= Len(sent)
    PROVE  \E m : MostOf(sent, done, m, size)
<1>1. PICK l \in Nat : l = Len(sent)
  BY LenProperties
<1> DEFINE A == {k \in Nat : done + k + 1 <= l
                                => size < Len(FramesBehind(sent, done, k + 1))}
<1>2. l \in A
  OBVIOUS
<1>3. PICK m \in A : \A k \in A : m <= k
  BY <1>2, Least
<1>4. m \in Nat /\ (done + m + 1 <= l => size < Len(FramesBehind(sent, done, m + 1)))
  OBVIOUS
<1>5. \A k \in Nat : k < m => done + k + 1 <= l /\ ~(size < Len(FramesBehind(sent, done, k + 1)))
  BY <1>3
<1> HIDE DEF A
<1>6. CASE m = 0
  <2>1. Len(FramesBehind(sent, done, m)) = 0
    BY <1>6, FramesNone, EmptySeq
  <2> QED BY <1>1, <1>4, <1>6, <2>1 DEF MostOf
<1>7. CASE m # 0
  <2>1. PICK k \in Nat : m = k + 1
    <3>1. m - 1 \in Nat /\ m = (m - 1) + 1
      BY <1>4, <1>7
    <3> QED BY <3>1
  <2>2. done + k + 1 <= l /\ ~(size < Len(FramesBehind(sent, done, k + 1)))
    BY <1>5, <2>1
  <2>3. done + m <= Len(sent)
    BY <1>1, <2>1, <2>2
  <2>4. FramesBehind(sent, done, m) \in Seq(Pieces)
    BY <1>4, <2>3, FramesType
  <2>5. Len(FramesBehind(sent, done, m)) \in Nat
    BY <2>4, LenProperties
  <2>6. Len(FramesBehind(sent, done, m)) <= size
    BY <2>1, <2>2, <2>5
  <2> QED BY <1>1, <1>4, <2>3, <2>6 DEF MostOf
<1> QED BY <1>6, <1>7

\* What is left begins with the first part of a frame, if anything is left.
LEMMA FramesLeftBegins ==
    ASSUME NEW sent \in Seq(FrameSizes), NEW done \in Nat, done <= Len(sent),
           FramesLeft(sent, done) # <<>>
    PROVE  /\ done + 1 <= Len(sent) /\ sent[done + 1] \in Nat \ {0}
           /\ FramesLeft(sent, done)[1]
                = [message |-> done + 1, part |-> 1, of |-> sent[done + 1]]
           /\ Len(FramesBehind(sent, done, 1)) = sent[done + 1]
<1>1. PICK l \in Nat : l = Len(sent)
  BY LenProperties
<1>2. done # l
  <2>1. SUFFICES ASSUME done = l PROVE FALSE
    OBVIOUS
  <2>2. Len(sent) - done = 0
    BY <1>1, <2>1
  <2> QED BY <2>2, FramesNone DEF FramesLeft
<1>3. done + 1 <= Len(sent) /\ done + 1 \in 1..Len(sent) /\ done + 1 \in Nat
  BY <1>1, <1>2
<1>4. PICK size \in Nat \ {0} : size = sent[done + 1]
  BY <1>3, ElementOfSeq, SizesAre
<1>5. /\ Frame(done + 1, size) \in Seq(Pieces) /\ Len(Frame(done + 1, size)) = size
      /\ \A i \in 1..size : Frame(done + 1, size)[i]
                              = [message |-> done + 1, part |-> i, of |-> size]
  BY <1>3, FrameIs
<1>6. PICK f \in Seq(Pieces) :
          /\ f = Frame(done + 1, size) /\ Len(f) = size
          /\ f[1] = [message |-> done + 1, part |-> 1, of |-> size]
  <2>1. 1 \in 1..size
    OBVIOUS
  <2> QED BY <1>5, <2>1
<1>7. FramesBehind(sent, done, 1) = f
  BY <1>3, <1>4, <1>6, FramesOne
<1>8. FramesLeft(sent, done) = f \o FramesLeft(sent, done + 1)
  <2>1. 1 \in Nat
    OBVIOUS
  <2> QED BY <1>3, <1>7, <2>1, FramesLeftSplit
<1>9. PICK r \in Seq(Pieces) : r = FramesLeft(sent, done + 1)
  BY <1>3, FramesLeftType
<1>10. (f \o r)[1] = f[1]
  <2>1. Len(r) \in Nat
    BY LenProperties
  <2>2. 1 \in 1..Len(f) + Len(r) /\ 1 <= Len(f)
    BY <1>6, <2>1
  <2> QED BY <2>2, ConcatProperties
<1> QED BY <1>3, <1>4, <1>6, <1>7, <1>8, <1>9, <1>10
\* A frame that begins in n whole frames ends in them.
LEMMA FramesAreWhole ==
    ASSUME NEW sent \in Seq(FrameSizes), NEW done \in Nat, NEW n \in Nat, done + n <= Len(sent),
           NEW i \in 1..Len(FramesBehind(sent, done, n)),
           FramesBehind(sent, done, n)[i].part = 1
    PROVE  i + FramesBehind(sent, done, n)[i].of - 1 <= Len(FramesBehind(sent, done, n))
<1>1. PartAt(sent, done, n, i)
  BY PartsAre
<1>2. PICK j \in 0..n - 1, p \in Nat \ {0} :
        /\ i = Len(FramesBehind(sent, done, j)) + p
        /\ FramesBehind(sent, done, n)[i]
             = [message |-> done + j + 1, part |-> p, of |-> sent[done + j + 1]]
  BY <1>1 DEF PartAt
<1>3. p = 1
  BY <1>2
<1>4. j \in Nat /\ j + 1 \in Nat /\ j + 1 <= n /\ done + j + 1 <= Len(sent)
  BY LenProperties
<1>5. /\ sent[done + j + 1] \in Nat \ {0}
      /\ FramesBehind(sent, done, j) \in Seq(Pieces)
      /\ Len(FramesBehind(sent, done, j + 1))
           = Len(FramesBehind(sent, done, j)) + sent[done + j + 1]
  BY <1>4, FramesNext
<1>6. PICK size \in Nat : size = sent[done + j + 1]
  BY <1>5
<1>7. PICK l \in Nat : l = Len(FramesBehind(sent, done, j))
  BY <1>5, LenProperties
<1>8. Len(FramesBehind(sent, done, j + 1)) <= Len(FramesBehind(sent, done, n))
  BY <1>4, FramesGrow
<1>9. FramesBehind(sent, done, n)[i].of = size
  BY <1>2, <1>6
<1>10. l + size <= Len(FramesBehind(sent, done, n))
  BY <1>5, <1>6, <1>7, <1>8
<1>11. i = l + 1
  BY <1>2, <1>3, <1>7
<1>12. i + size - 1 = l + size
  BY <1>11
<1> QED BY <1>9, <1>10, <1>12

\* The buffer b holds the beginning of the frames left, t the others: the frames that
\* are whole in b are taken, and their messages are the next ones.
Parsed(b, t, sent, done) ==
    LET n == FramesTaken(b)
        rest == SubSeq(b, n + 1, Len(b)) IN
    \E m \in Nat :
        /\ done + m <= Len(sent)
        /\ rest \in Seq(Pieces) /\ Len(rest) <= Len(b)
        /\ rest \o t = FramesLeft(sent, done + m) /\ Incomplete(rest)
        /\ Counts(FlattenSeq([k \in 1..n |-> EndOf(b[k])]), done, m)

LEMMA ParsedFrames ==
    ASSUME NEW sent \in Seq(FrameSizes), NEW done \in Nat, done <= Len(sent),
           NEW b \in Seq(Pieces), NEW t \in Seq(Pieces), b \o t = FramesLeft(sent, done)
    PROVE  Parsed(b, t, sent, done)
<1>1. PICK size \in Nat : size = Len(b)
  BY LenProperties
<1>2. PICK m : MostOf(sent, done, m, size)
  BY MostFrames
<1>3. m \in Nat /\ done + m <= Len(sent) /\ done + m \in Nat
  BY <1>2 DEF MostOf
<1>4. PICK a \in Seq(Pieces) : a = FramesBehind(sent, done, m)
  BY <1>3, FramesType
<1>5. PICK r \in Seq(Pieces) : r = FramesLeft(sent, done + m)
  BY <1>3, FramesLeftType
<1>6. PICK n \in Nat : n = Len(a)
  BY LenProperties
<1>7. n <= size
  BY <1>2, <1>4, <1>6 DEF MostOf
<1>8. a \o r = b \o t
  BY <1>3, <1>4, <1>5, FramesLeftSplit
<1>9. Cut(Pieces, a, r, b, t)
  BY <1>1, <1>6, <1>7, <1>8, Aligned
<1>10. PICK c \in Seq(Pieces) : c = SubSeq(b, n + 1, Len(b)) /\ b = a \o c /\ r = c \o t
  BY <1>6, <1>9 DEF Cut
<1>11. PICK l \in Nat : l = Len(c)
  BY LenProperties
<1>12. size = n + l /\ \A i \in 1..n + l : b[i] = IF i <= n THEN a[i] ELSE c[i - n]
  <2>1. /\ Len(a \o c) = Len(a) + Len(c)
        /\ \A i \in 1..Len(a) + Len(c) :
              (a \o c)[i] = IF i <= Len(a) THEN a[i] ELSE c[i - Len(a)]
    BY ConcatProperties
  <2> QED BY <1>1, <1>6, <1>10, <1>11, <2>1
<1>13. \A i \in 1..n : b[i] = a[i]
  BY <1>12
<1>14. ASSUME c # <<>>
       PROVE  \E s \in Nat \ {0} : l < s /\ c[1].part = 1 /\ c[1].of = s /\ l # 0
  <2>1. l # 0
    BY <1>11, <1>14, EmptySeq
  <2>2. PICK k \in Nat : k = Len(t)
    BY LenProperties
  <2>3. Len(r) = l + k /\ r[1] = c[1]
    <3>1. 1 \in 1..Len(c) + Len(t) /\ 1 <= Len(c)
      BY <1>11, <2>1, <2>2
    <3> QED BY <1>10, <1>11, <2>2, <3>1, ConcatProperties
  <2>4. r # <<>>
    BY <2>1, <2>3, EmptySeq
  <2>5. /\ done + m + 1 <= Len(sent) /\ sent[done + m + 1] \in Nat \ {0}
        /\ r[1] = [message |-> done + m + 1, part |-> 1, of |-> sent[done + m + 1]]
    BY <1>3, <1>5, <2>4, FramesLeftBegins
  <2>6. PICK s \in Nat \ {0} : s = sent[done + m + 1]
    BY <2>5
  <2>7. Len(FramesBehind(sent, done, m + 1)) = Len(FramesBehind(sent, done, m)) + s
    BY <1>3, <2>5, <2>6, FramesNext
  <2>8. size < n + s
    BY <1>2, <1>4, <1>6, <2>5, <2>7 DEF MostOf
  <2>9. l < s
    BY <1>12, <2>8
  <2>10. c[1].part = 1 /\ c[1].of = s
    BY <2>3, <2>5, <2>6
  <2> QED BY <2>1, <2>9, <2>10
<1>15. Incomplete(c)
  BY <1>11, <1>14 DEF Incomplete
<1> DEFINE T == {0} \cup {q \in 1..Len(b) : \A k \in 1..q :
                              b[k].part = 1 => k + b[k].of - 1 <= q}
<1>16. n \in T
  <2>1. CASE n = 0
    BY <2>1
  <2>2. CASE n # 0
    <3>1. n \in 1..Len(b)
      BY <1>1, <1>7, <2>2
    <3>2. ASSUME NEW k \in 1..n, b[k].part = 1 PROVE k + b[k].of - 1 <= n
      <4>1. k \in 1..Len(FramesBehind(sent, done, m))
        BY <1>4, <1>6
      <4>2. FramesBehind(sent, done, m)[k] = b[k]
        BY <1>4, <1>13
      <4>3. k + FramesBehind(sent, done, m)[k].of - 1 <= Len(FramesBehind(sent, done, m))
        BY <1>3, <3>2, <4>1, <4>2, FramesAreWhole
      <4> QED BY <1>4, <1>6, <4>2, <4>3
    <3> QED BY <3>1, <3>2
  <2> QED BY <2>1, <2>2
<1>17. ASSUME NEW q \in T PROVE q <= n
  <2> SUFFICES ASSUME ~(q <= n) PROVE FALSE
    OBVIOUS
  <2>1. q \in 1..Len(b) /\ \A k \in 1..q : b[k].part = 1 => k + b[k].of - 1 <= q
    BY <1>17
  <2>2. q \in Nat /\ n < q /\ q <= n + l /\ l # 0
    BY <1>1, <1>12, <2>1
  <2>3. c # <<>>
    BY <1>11, <2>2, EmptySeq
  <2>4. PICK s \in Nat \ {0} : l < s /\ c[1].part = 1 /\ c[1].of = s
    BY <1>14, <2>3
  <2>5. b[n + 1] = c[1]
    <3>1. n + 1 \in 1..n + l /\ ~(n + 1 <= n) /\ (n + 1) - n = 1
      BY <2>2
    <3>2. b[n + 1] = c[(n + 1) - n]
      BY <1>12, <3>1
    <3> QED BY <3>1, <3>2
  <2>6. n + 1 \in 1..q
    BY <2>2
  <2>7. n + 1 + s - 1 <= q
    BY <2>1, <2>4, <2>5, <2>6
  <2> QED BY <2>2, <2>4, <2>7
<1>18. T \in SUBSET Nat
  OBVIOUS
<1>19. FramesTaken(b) = Max(T)
  BY DEF FramesTaken
<1> HIDE DEF T
<1>20. FramesTaken(b) = n
  BY <1>16, <1>17, <1>18, <1>19, MaxIs
<1>21. [k \in 1..n |-> EndOf(b[k])] = EndsSeq(a)
  BY <1>6, <1>13 DEF EndsSeq
<1>22. Counts(Ends(a), done, m)
  BY <1>3, <1>4, EndsFrames
<1>23. Len(c) <= Len(b)
  BY <1>1, <1>11, <1>12
<1>24. c \o t = FramesLeft(sent, done + m)
  BY <1>5, <1>10
<1> QED BY <1>3, <1>10, <1>15, <1>20, <1>21, <1>22, <1>23, <1>24 DEF Parsed, Ends
-----------------------------------------------------------------------------
(* The handshake. *)

LEMMA RequestIs ==
    /\ Request \in Seq(Pieces) /\ Len(Request) = 2 /\ Request[2].message = 0
<1>1. PICK x \in Pieces : x = [message |-> 0, part |-> 1, of |-> 2]
  BY DEF Pieces
<1>2. PICK y \in Pieces : y = [message |-> 0, part |-> 2, of |-> 2]
  BY DEF Pieces
<1>3. Request = <<x, y>>
  BY <1>1, <1>2 DEF Request
<1>4. <<x, y>> \in Seq(Pieces) /\ Len(<<x, y>>) = 2 /\ <<x, y>>[2] = y
  OBVIOUS
<1> QED BY <1>2, <1>3, <1>4

\* Two splits at the same place are one.
LEMMA SameSplit ==
    ASSUME NEW S, NEW a \in Seq(S), NEW r \in Seq(S), NEW b \in Seq(S), NEW t \in Seq(S),
           a \o r = b \o t, Len(a) = Len(b)
    PROVE  a = b /\ r = t
<1>1. PICK n \in Nat : n = Len(a) /\ n = Len(b)
  BY LenProperties
<1>2. Len(a) <= Len(b)
  BY <1>1
<1>3. Cut(S, a, r, b, t)
  BY <1>2, Aligned
<1>4. PICK c : c = SubSeq(b, n + 1, n)
  OBVIOUS
<1>5. c = <<>>
  <2>1. PICK l \in Int, k \in Int : l = n + 1 /\ k = n /\ k < l
    OBVIOUS
  <2> QED BY <1>4, <2>1, SubSeqEmpty
<1>6. b = a \o c /\ r = c \o t
  BY <1>1, <1>3, <1>4 DEF Cut
<1> QED BY <1>5, <1>6, ConcatEmptySeq

\* A buffer that holds the request and whole frames: those are missed.
LEMMA MissedFrames ==
    ASSUME NEW sent \in Seq(FrameSizes), NEW b \in Seq(Pieces), NEW t \in Seq(Pieces),
           b \o t = Request \o FramesLeft(sent, 0), Len(b) >= 2, Last(b).part = Last(b).of
    PROVE  /\ Last(b).message \in Nat /\ Last(b).message <= Len(sent)
           /\ t = FramesLeft(sent, Last(b).message)
<1>1. PICK l \in Nat : l = Len(sent)
  BY LenProperties
<1>2. PICK f \in Seq(Pieces) : f = FramesLeft(sent, 0)
  BY <1>1, FramesLeftType
<1>3. PICK q \in Seq(Pieces) : q = Request /\ Len(q) = 2 /\ q[2].message = 0
  BY RequestIs
<1>4. q \o f = b \o t /\ Len(q) <= Len(b)
  BY <1>2, <1>3, LenProperties
<1>5. Cut(Pieces, q, f, b, t)
  BY <1>4, Aligned
<1>6. PICK c \in Seq(Pieces) : b = q \o c /\ f = c \o t
  BY <1>5 DEF Cut
<1>7. PICK n \in Nat : n = Len(c)
  BY LenProperties
<1>8. Len(b) = 2 + n /\ \A i \in 1..2 + n : b[i] = IF i <= 2 THEN q[i] ELSE c[i - 2]
  <2>1. /\ Len(q \o c) = Len(q) + Len(c)
        /\ \A i \in 1..Len(q) + Len(c) :
              (q \o c)[i] = IF i <= Len(q) THEN q[i] ELSE c[i - Len(q)]
    BY ConcatProperties
  <2> QED BY <1>3, <1>6, <1>7, <2>1
<1>9. Last(b) = b[2 + n]
  BY <1>8 DEF Last
<1>10. CASE n = 0
  <2>1. Last(b) = q[2]
    <3>1. 2 + n \in 1..2 + n /\ 2 + n <= 2 /\ 2 + n = 2
      BY <1>10
    <3> QED BY <1>8, <1>9, <3>1
  <2>2. c = <<>>
    BY <1>7, <1>10, EmptySeq
  <2>3. f = t
    BY <1>6, <2>2, ConcatEmptySeq
  <2>4. Last(b).message = 0
    BY <1>3, <2>1
  <2>5. 0 <= Len(sent)
    BY <1>1
  <2> QED BY <1>2, <2>3, <2>4, <2>5
<1>11. CASE n # 0
  <2>1. Last(b) = c[n]
    <3>1. 2 + n \in 1..2 + n /\ ~(2 + n <= 2) /\ (2 + n) - 2 = n
      BY <1>11
    <3>2. b[2 + n] = c[(2 + n) - 2]
      BY <1>8, <3>1
    <3> QED BY <1>9, <3>1, <3>2
  <2>2. PICK k \in Nat : k = Len(t)
    BY LenProperties
  <2>3. Len(f) = n + k /\ f[n] = c[n]
    <3>1. /\ Len(c \o t) = Len(c) + Len(t)
          /\ \A i \in 1..Len(c) + Len(t) :
                (c \o t)[i] = IF i <= Len(c) THEN c[i] ELSE t[i - Len(c)]
      BY ConcatProperties
    <3>2. n \in 1..n + k /\ n <= n
      BY <1>11
    <3> QED BY <1>6, <1>7, <2>2, <3>1, <3>2
  <2>4. f = FramesBehind(sent, 0, l)
    <3>1. l - 0 = l
      OBVIOUS
    <3> QED BY <1>1, <1>2, <3>1 DEF FramesLeft
  <2>5. n \in 1..Len(FramesBehind(sent, 0, l))
    BY <1>11, <2>3, <2>4
  <2>6. PartAt(sent, 0, l, n)
    <3>1. 0 \in Nat /\ 0 + l <= Len(sent)
      BY <1>1
    <3> QED BY <2>5, <3>1, PartsAre
  <2>7. PICK j \in 0..l - 1, p \in Nat \ {0} :
            /\ n = Len(FramesBehind(sent, 0, j)) + p
            /\ f[n] = [message |-> 0 + j + 1, part |-> p, of |-> sent[0 + j + 1]]
    BY <2>4, <2>6 DEF PartAt
  <2>8. PICK d \in Nat : d = j + 1 /\ d = 0 + j + 1 /\ d <= Len(sent) /\ 0 + d <= Len(sent)
                         /\ 0 + d = d
    <3>1. j + 1 \in Nat /\ j + 1 = 0 + j + 1 /\ j + 1 <= l /\ 0 + (j + 1) = j + 1
      OBVIOUS
    <3> QED BY <1>1, <3>1
  <2>9. Last(b).message = d /\ p = sent[d]
    BY <2>1, <2>3, <2>7, <2>8
  <2>10. Len(FramesBehind(sent, 0, j + 1)) = Len(FramesBehind(sent, 0, j)) + sent[0 + j + 1]
    <3>1. 0 \in Nat /\ j \in Nat /\ 0 + j + 1 <= Len(sent)
      BY <2>8
    <3>2. PICK z \in Nat : z = 0 /\ z + j + 1 <= Len(sent)
      BY <3>1
    <3>3. Len(FramesBehind(sent, z, j + 1)) = Len(FramesBehind(sent, z, j)) + sent[z + j + 1]
      <4>1. sent \in Seq(FrameSizes) /\ z \in Nat /\ j \in Nat /\ z + j + 1 <= Len(sent)
        BY <3>1, <3>2
      <4> QED BY ONLY <4>1, FramesNext
    <3> QED BY <3>2, <3>3
  <2>11. Len(FramesBehind(sent, 0, d)) = n
    BY <2>7, <2>8, <2>9, <2>10
  <2>12. PICK a \in Seq(Pieces) : a = FramesBehind(sent, 0, d)
    BY <2>8, FramesType
  <2>13. PICK r \in Seq(Pieces) : r = FramesLeft(sent, d)
    BY <2>8, FramesLeftType
  <2>14. FramesLeft(sent, 0) = FramesBehind(sent, 0, d) \o FramesLeft(sent, 0 + d)
    <3>1. 0 \in Nat
      OBVIOUS
    <3> QED BY <2>8, <3>1, FramesLeftSplit
  <2>15. a \o r = c \o t
    BY <1>2, <1>6, <2>8, <2>12, <2>13, <2>14
  <2>16. r = t
    <3>1. Len(a) = Len(c)
      BY <1>7, <2>11, <2>12
    <3> QED BY <2>15, <3>1, SameSplit
  <2> QED BY <2>8, <2>9, <2>13, <2>16
<1> QED BY <1>10, <1>11
-----------------------------------------------------------------------------
(* A client's line, step by step. *)

LEMMA PiecesAssociate ==
    \A a, b, c \in Seq(Pieces) : (a \o b) \o c = a \o (b \o c)
BY ConcatAssociative

\* The client sends a frame more.
LEMMA LineSends ==
    ASSUME NEW conn \in Connections, NEW sent \in Seq(FrameSizes), NEW size \in FrameSizes,
           NEW missed \in Nat, NEW wire \in Seq(Pieces), NEW heard \in Seq(1..MaxMessages)
    PROVE  /\ wire \o Frame(Len(sent) + 1, size) \in Seq(Pieces)
           /\ Line(conn, sent, missed, wire, heard)
                => Line(conn, Append(sent, size), missed, wire \o Frame(Len(sent) + 1, size), heard)
           /\ Unread(<<>>, wire, sent)
                => Unread(<<>>, wire \o Frame(Len(sent) + 1, size), Append(sent, size))
<1>1. PICK l \in Nat : l = Len(sent)
  BY LenProperties
<1>2. PICK f \in Seq(Pieces) : f = Frame(Len(sent) + 1, size)
  <2>1. l + 1 \in Nat /\ size \in Nat \ {0}
    BY SizesAre
  <2> QED BY <1>1, <2>1, FrameIs
<1>3. PICK more \in Seq(FrameSizes) : more = Append(sent, size) /\ Len(more) = l + 1
  BY <1>1, AppendProperties
<1>4. PICK w \in Seq(Pieces) : w = wire \o f
  BY ConcatProperties
<1>5. ASSUME NEW b \in Seq(Pieces), Unread(b, wire, sent)
      PROVE  Unread(b, w, more)
  <2>1. 0 \in Nat /\ 0 <= Len(sent)
    BY <1>1
  <2>2. PICK r \in Seq(Pieces) : r = FramesLeft(sent, 0)
    BY <2>1, FramesLeftType
  <2>3. FramesLeft(more, 0) = r \o f
    BY <1>2, <1>3, <2>1, <2>2, FramesLeftAppend
  <2>4. PICK q \in Seq(Pieces) : q = Request
    BY RequestIs
  <2>5. b \o wire = q \o r
    BY <1>5, <2>2, <2>4 DEF Unread
  <2>6. (b \o wire) \o f = b \o w
    BY <1>4, PiecesAssociate
  <2>7. (q \o r) \o f = q \o (r \o f)
    BY PiecesAssociate
  <2> QED BY <2>3, <2>4, <2>5, <2>6, <2>7 DEF Unread
<1>6. ASSUME NEW b \in Seq(Pieces), Hears(b, wire, sent, missed, heard)
      PROVE  Hears(b, w, more, missed, heard)
  <2>1. PICK d \in Nat : d = missed + Len(heard) /\ d <= Len(sent)
    BY <1>6, LenProperties DEF Hears
  <2>2. PICK r \in Seq(Pieces) : r = FramesLeft(sent, d)
    BY <2>1, FramesLeftType
  <2>3. FramesLeft(more, d) = r \o f
    BY <1>2, <1>3, <2>1, <2>2, FramesLeftAppend
  <2>4. b \o wire = r
    BY <1>6, <2>1, <2>2 DEF Hears
  <2>5. (b \o wire) \o f = b \o w
    BY <1>4, PiecesAssociate
  <2>6. d <= Len(more)
    BY <1>1, <1>3, <2>1
  <2> QED BY <1>6, <2>1, <2>3, <2>4, <2>5, <2>6 DEF Hears
<1>7. conn.buffer \in Seq(Pieces)
  BY DEF Connections
<1>8. Line(conn, sent, missed, wire, heard) => Line(conn, more, missed, w, heard)
  BY <1>5, <1>6, <1>7 DEF Line
<1>9. Unread(<<>>, wire, sent) => Unread(<<>>, w, more)
  BY <1>5, EmptySeq
<1> QED BY <1>2, <1>3, <1>4, <1>8, <1>9

\* recv moves parts from the wire to the buffer.
LEMMA Moves ==
    ASSUME NEW b \in Seq(Pieces), NEW w \in Seq(Pieces), NEW n \in 0..Len(w)
    PROVE  /\ b \o SubSeq(w, 1, n) \in Seq(Pieces)
           /\ Len(b \o SubSeq(w, 1, n)) = Len(b) + n
           /\ SubSeq(w, n + 1, Len(w)) \in Seq(Pieces)
           /\ (b \o SubSeq(w, 1, n)) \o SubSeq(w, n + 1, Len(w)) = b \o w
<1>1. /\ SubSeq(w, 1, n) \in Seq(Pieces) /\ Len(SubSeq(w, 1, n)) = n
      /\ SubSeq(w, n + 1, Len(w)) \in Seq(Pieces)
      /\ w = SubSeq(w, 1, n) \o SubSeq(w, n + 1, Len(w))
  BY SplitSeq
<1>2. PICK x \in Seq(Pieces), u \in Seq(Pieces) :
          /\ x = SubSeq(w, 1, n) /\ Len(x) = n /\ u = SubSeq(w, n + 1, Len(w))
          /\ w = x \o u
  BY <1>1
<1>3. (b \o x) \o u = b \o (x \o u)
  BY PiecesAssociate
<1>4. b \o x \in Seq(Pieces) /\ Len(b \o x) = Len(b) + Len(x)
  BY ConcatProperties
<1> QED BY <1>2, <1>3, <1>4

\* The frames that are whole are heard.
LEMMA LineParses ==
    ASSUME NEW sent \in Seq(FrameSizes), Len(sent) <= MaxMessages, NEW missed \in Nat,
           NEW b \in Seq(Pieces), NEW w \in Seq(Pieces),
           NEW heard \in Seq(1..MaxMessages),
           missed + Len(heard) <= Len(sent),
           b \o w = FramesLeft(sent, missed + Len(heard)),
           \A k \in DOMAIN heard : heard[k] = missed + k
    PROVE  LET n == FramesTaken(b)
               rest == SubSeq(b, n + 1, Len(b))
               more == heard \o FlattenSeq([k \in 1..n |-> EndOf(b[k])]) IN
           /\ rest \in Seq(Pieces) /\ Len(rest) <= Len(b)
           /\ more \in Seq(1..MaxMessages)
           /\ Hears(rest, w, sent, missed, more)
<1>1. PICK d \in Nat, h \in Nat, l \in Nat :
          d = missed + h /\ h = Len(heard) /\ l = Len(sent) /\ d <= l /\ l <= MaxMessages
  <2>1. PICK h \in Nat : h = Len(heard)
    BY LenProperties
  <2>2. PICK l \in Nat : l = Len(sent)
    BY LenProperties
  <2>3. missed + h \in Nat
    OBVIOUS
  <2> QED BY <2>1, <2>2, <2>3
<1>2. d <= Len(sent) /\ b \o w = FramesLeft(sent, d)
  BY <1>1
<1>3. Parsed(b, w, sent, d)
  BY <1>2, ParsedFrames
<1>4. PICK n, rest, ms : /\ n = FramesTaken(b) /\ rest = SubSeq(b, n + 1, Len(b))
                         /\ ms = FlattenSeq([k \in 1..n |-> EndOf(b[k])])
  OBVIOUS
<1>5. PICK m \in Nat :
          /\ d + m <= Len(sent)
          /\ rest \in Seq(Pieces) /\ Len(rest) <= Len(b)
          /\ rest \o w = FramesLeft(sent, d + m) /\ Incomplete(rest)
          /\ Counts(ms, d, m)
  BY <1>3, <1>4 DEF Parsed
<1>6. ms \in Seq(Nat) /\ Len(ms) = m /\ \A k \in 1..m : ms[k] = d + k
  BY <1>5 DEF Counts
<1>7. PICK t \in Seq(Nat) : t = ms
  BY <1>6
<1>8. heard \in Seq(Nat)
  <2>1. \A k \in 1..h : heard[k] \in 1..MaxMessages
    BY <1>1, ElementOfSeq
  <2>2. \A k \in 1..h : heard[k] \in Nat
    BY <2>1, ClientsAssumption
  <2>3. heard = [k \in 1..h |-> heard[k]]
    BY <1>1, LenProperties
  <2>4. heard \in [1..h -> Nat]
    BY <2>2, <2>3
  <2> QED BY <2>4, SeqDef
<1>9. PICK g \in Seq(Nat) : g = heard /\ Len(g) = h /\ \A k \in 1..h : g[k] = missed + k
  <2>1. DOMAIN heard = 1..h
    BY <1>1, LenProperties
  <2> QED BY <1>1, <1>8, <2>1
<1>10. /\ g \o t \in Seq(Nat) /\ Len(g \o t) = h + m
       /\ \A k \in 1..h + m : (g \o t)[k] = IF k <= h THEN g[k] ELSE t[k - h]
  <2>1. /\ g \o t \in Seq(Nat) /\ Len(g \o t) = Len(g) + Len(t)
        /\ \A k \in 1..Len(g) + Len(t) :
              (g \o t)[k] = IF k <= Len(g) THEN g[k] ELSE t[k - Len(g)]
    BY ConcatProperties
  <2> QED BY <1>6, <1>7, <1>9, <2>1
<1>11. PICK more \in Seq(Nat) : /\ more = heard \o ms /\ Len(more) = h + m
                                /\ \A k \in 1..h + m : more[k] = IF k <= h THEN g[k] ELSE t[k - h]
  BY <1>7, <1>9, <1>10
<1>12. \A k \in 1..h + m : more[k] = missed + k
  <2> SUFFICES ASSUME NEW k \in 1..h + m PROVE more[k] = missed + k
    OBVIOUS
  <2>1. CASE k <= h
    <3>1. k \in 1..h
      BY <2>1
    <3> QED BY <1>9, <1>11, <2>1, <3>1
  <2>2. CASE ~(k <= h)
    <3>1. k - h \in 1..m
      BY <2>2
    <3>2. t[k - h] = d + (k - h)
      BY <1>6, <1>7, <3>1
    <3>3. d + (k - h) = missed + k
      BY <1>1, <2>2
    <3> QED BY <1>11, <2>2, <3>2, <3>3
  <2> QED BY <2>1, <2>2
<1>13. DOMAIN more = 1..h + m /\ more = [k \in 1..h + m |-> more[k]]
  BY <1>11, LenProperties
<1>14. d + m <= l /\ missed + (h + m) = d + m /\ h + m \in Nat
  BY <1>1, <1>5
<1>15. \A k \in 1..h + m : more[k] \in 1..MaxMessages
  <2> SUFFICES ASSUME NEW k \in 1..h + m PROVE more[k] \in 1..MaxMessages
    OBVIOUS
  <2>1. missed + k <= d + m /\ 1 <= missed + k /\ missed + k \in Nat
    BY <1>14
  <2>2. missed + k <= MaxMessages
    BY <1>1, <1>14, <2>1, ClientsAssumption
  <2> QED BY <1>12, <2>1, <2>2, ClientsAssumption
<1>16. more \in Seq(1..MaxMessages)
  <2>1. PICK e \in Nat : e = h + m
    BY <1>14
  <2>2. PICK M : M = 1..MaxMessages
    OBVIOUS
  <2>3. more \in [1..e -> M]
    BY <1>13, <1>15, <2>1, <2>2
  <2>4. more \in Seq(M)
    BY <2>3, SeqDef
  <2> QED BY <2>2, <2>4
<1>17. Hears(rest, w, sent, missed, more)
  <2>1. missed + Len(more) = d + m
    BY <1>11, <1>14
  <2> QED BY <1>5, <1>12, <1>13, <2>1 DEF Hears
<1> QED BY <1>4, <1>5, <1>11, <1>16, <1>17
-----------------------------------------------------------------------------
(* Who sits where, and what a step leaves alone. *)

Sits(c) == svClient[c].where \in {"connected", "leaving"}

\* A step after which everybody sits where they sat.
SeatsStep ==
    /\ \A j \in Slots : svConn'[j].client = svConn[j].client
    /\ \A c \in Clients : Sits(c)' <=> Sits(c)
    /\ \A c \in Clients : svServer.where = "stopped" => svClient'[c].where = svClient[c].where
    /\ svServer'.count = svServer.count
    /\ svServer'.where = "stopped" <=> svServer.where = "stopped"
    /\ svServer'.ready \subseteq Occupied
    /\ svServer'.where # "round" => svServer'.ready = {}

LEMMA TypesAre ==
    ASSUME ServerTypes
    PROVE  /\ \A i \in Slots : /\ svConn[i] \in Connections /\ svConn[i].buffer \in Seq(Pieces)
                               /\ svConn[i].client \in Clients \cup {Nobody}
                               /\ svConn[i].done \in BOOLEAN /\ svConn[i].used \in BOOLEAN
                               /\ Len(svConn[i].buffer) <= BufferSize
           /\ \A c \in Clients : /\ svClient[c] \in Peers /\ svClient[c].sent \in Seq(FrameSizes)
                                 /\ svClient[c].missed \in Nat /\ svClient[c].key \in BOOLEAN
                                 /\ svWire[c] \in Seq(Pieces)
                                 /\ svHeard[c] \in Seq(1..MaxMessages)
                                 /\ Len(svClient[c].sent) <= MaxMessages
<1>1. ASSUME NEW i \in Slots
      PROVE  /\ svConn[i] \in Connections /\ svConn[i].buffer \in Seq(Pieces)
             /\ svConn[i].client \in Clients \cup {Nobody}
             /\ svConn[i].done \in BOOLEAN /\ svConn[i].used \in BOOLEAN
             /\ Len(svConn[i].buffer) <= BufferSize
  <2>1. svConn[i] \in Connections /\ Len(svConn[i].buffer) <= BufferSize
    BY DEF ServerTypes
  <2> QED BY <2>1 DEF Connections
<1>2. ASSUME NEW c \in Clients
      PROVE  /\ svClient[c] \in Peers /\ svClient[c].sent \in Seq(FrameSizes)
             /\ svClient[c].missed \in Nat /\ svClient[c].key \in BOOLEAN
             /\ svWire[c] \in Seq(Pieces)
             /\ svHeard[c] \in Seq(1..MaxMessages)
             /\ Len(svClient[c].sent) <= MaxMessages
  <2>1. /\ svClient[c] \in Peers /\ Len(svClient[c].sent) <= MaxMessages
        /\ svWire[c] \in Seq(Pieces) /\ svHeard[c] \in Seq(1..MaxMessages)
    BY DEF ServerTypes
  <2> QED BY <2>1 DEF Peers
<1> QED BY <1>1, <1>2

LEMMA SeatsKept ==
    ASSUME ServerTypes, Seats, SeatsStep
    PROVE  Seats'
<1>1. Occupied' = Occupied
  BY DEF SeatsStep, Occupied
<1>2. \A i \in Slots : svConn[i].client \in Clients \cup {Nobody}
  BY TypesAre
<1>3. ASSUME NEW i \in Slots, svConn'[i].client # Nobody
      PROVE  svClient'[svConn'[i].client].where \in {"connected", "leaving"}
  <2>1. svConn'[i].client = svConn[i].client
    BY DEF SeatsStep
  <2>2. PICK c \in Clients : c = svConn[i].client /\ c = svConn'[i].client
    BY <1>2, <1>3, <2>1
  <2>3. svClient[c].where \in {"connected", "leaving"}
    BY <1>3, <2>1, <2>2 DEF Seats
  <2>4. svClient'[c].where \in {"connected", "leaving"}
    BY <2>3 DEF SeatsStep, Sits
  <2> QED BY <2>2, <2>4
<1>4. \A i, j \in Slots : svConn'[i].client = svConn'[j].client /\ svConn'[i].client # Nobody
                              => i = j
  BY DEF SeatsStep, Seats
<1>5. \A c \in Clients : svClient'[c].where \in {"connected", "leaving"}
                             => \E i \in Slots : svConn'[i].client = c
  BY DEF SeatsStep, Seats, Sits
<1>6. /\ svServer'.count <= Cardinality(Slots)
      /\ svServer'.where # "stopped" => svServer'.count = Cardinality(Occupied)
      /\ svServer'.ready \subseteq Occupied
      /\ svServer'.where # "round" => svServer'.ready = {}
  BY DEF SeatsStep, Seats
<1>7. svServer'.where = "stopped" => \A c \in Clients : svClient'[c].where = "closed"
  BY DEF SeatsStep, Seats
<1> QED BY <1>1, <1>3, <1>4, <1>5, <1>6, <1>7 DEF Seats

\* The clients in the slots are the connected ones.
LEMMA WhoSits ==
    ASSUME ServerTypes, Seats, NEW i \in Slots, svConn[i].client # Nobody
    PROVE  /\ svConn[i].client \in Clients
           /\ svClient[svConn[i].client].where \in {"connected", "leaving"}
           /\ svServer.where # "stopped"
<1>1. svConn[i].client \in Clients
  BY TypesAre
<1>2. svClient[svConn[i].client].where \in {"connected", "leaving"}
  BY DEF Seats
<1> QED BY <1>1, <1>2 DEF Seats

\* Everything but one client's line stays.
OneLine(i, c) ==
    /\ \A j \in Slots : j # i => svConn'[j] = svConn[j]
    /\ svConn[i].client = c /\ svConn'[i].client = c
    /\ \A d \in Clients : d # c => /\ svClient'[d] = svClient[d] /\ svWire'[d] = svWire[d]
                                   /\ svHeard'[d] = svHeard[d]
    /\ svClient'[c].where = svClient[c].where
    /\ Line(svConn'[i], svClient'[c].sent, svClient'[c].missed, svWire'[c], svHeard'[c])

LEMMA LinesKept ==
    ASSUME ServerInv, NEW i \in Slots, NEW c \in Clients, OneLine(i, c)
    PROVE  Lines'
<1>1. c # Nobody /\ svConn[i].client = c /\ svConn'[i].client = c
  BY ClientsAssumption DEF OneLine
<1>2. svClient[c].where \in {"connected", "leaving"}
  BY <1>1, WhoSits DEF ServerInv
<1>3. svClient'[c].where \notin {"away", "queued"}
  BY <1>2 DEF OneLine
<1>4. ASSUME NEW d \in Clients, svClient'[d].where = "away"
      PROVE  svClient'[d].sent = <<>> /\ svClient'[d].missed = 0 /\ svHeard'[d] = <<>>
  <2>1. d # c
    BY <1>3, <1>4
  <2>2. svClient'[d] = svClient[d] /\ svHeard'[d] = svHeard[d]
    BY <2>1 DEF OneLine
  <2> QED BY <1>4, <2>2 DEF ServerInv, Lines
<1>5. ASSUME NEW d \in Clients, svClient'[d].where = "queued"
      PROVE  /\ svClient'[d].missed = 0 /\ svHeard'[d] = <<>>
             /\ Unread(<<>>, svWire'[d], svClient'[d].sent)
  <2>1. d # c
    BY <1>3, <1>5
  <2>2. svClient'[d] = svClient[d] /\ svHeard'[d] = svHeard[d] /\ svWire'[d] = svWire[d]
    BY <2>1 DEF OneLine
  <2>3. /\ svClient[d].missed = 0 /\ svHeard[d] = <<>>
        /\ Unread(<<>>, svWire[d], svClient[d].sent)
    BY <1>5, <2>2 DEF ServerInv, Lines
  <2> QED BY <2>2, <2>3
<1>6. ASSUME NEW d \in Clients, NEW j \in Slots, svConn'[j].client = d
      PROVE  Line(svConn'[j], svClient'[d].sent, svClient'[d].missed, svWire'[d], svHeard'[d])
  <2>1. CASE j = i
    BY <1>1, <1>6, <2>1 DEF OneLine
  <2>2. CASE j # i
    <3>1. svConn'[j] = svConn[j]
      BY <2>2 DEF OneLine
    <3>2. d # c
      BY <1>1, <1>6, <2>2, <3>1 DEF ServerInv, Seats
    <3>3. svClient'[d] = svClient[d] /\ svHeard'[d] = svHeard[d] /\ svWire'[d] = svWire[d]
      BY <3>2 DEF OneLine
    <3>4. Line(svConn[j], svClient[d].sent, svClient[d].missed, svWire[d], svHeard[d])
      BY <1>6, <3>1 DEF ServerInv, Lines
    <3> QED BY <3>1, <3>3, <3>4
  <2> QED BY <2>1, <2>2
<1> QED BY <1>4, <1>5, <1>6 DEF Lines, Unread, Line, Hears
-----------------------------------------------------------------------------
(* The invariant, action by action. *)

LEMMA SlotSets ==
    /\ IsFiniteSet(Occupied) /\ Occupied \subseteq Slots /\ Cardinality(Occupied) \in Nat
    /\ Cardinality(Slots) \in Nat /\ Cardinality(Occupied) <= Cardinality(Slots)
<1>1. Occupied \subseteq Slots
  BY DEF Occupied
<1>2. IsFiniteSet(Occupied) /\ Cardinality(Occupied) <= Cardinality(Slots)
  BY <1>1, SlotsAssumption, FS_Subset
<1> QED BY <1>1, <1>2, SlotsAssumption, FS_CardinalityType

LEMMA ServerStarts == ServerInit => ServerInv
<1> SUFFICES ASSUME ServerInit PROVE ServerInv
  OBVIOUS
<1>1. PICK key \in [Clients -> BOOLEAN] : svClient = [c \in Clients |->
         [where |-> "away", key |-> key[c], sent |-> <<>>, missed |-> 0]]
  BY DEF ServerInit
<1>2. /\ svServer = [running |-> TRUE, count |-> 0, where |-> "select", ready |-> {},
                     accept |-> FALSE]
      /\ svConn = [i \in Slots |-> Free]
      /\ svWire = [c \in Clients |-> <<>>] /\ svHeard = [c \in Clients |-> <<>>]
  BY DEF ServerInit
<1>3. \A S : <<>> \in Seq(S)
  BY EmptySeq
<1>4. Len(<<>>) = 0
  BY EmptySeq
<1>5. Free \in Connections /\ Free.buffer = <<>> /\ Free.client = Nobody
  BY <1>3 DEF Free, Connections
<1>6. \A c \in Clients : /\ svClient[c] \in Peers /\ svClient[c].sent = <<>>
                         /\ svClient[c].missed = 0 /\ svClient[c].where = "away"
                         /\ svHeard[c] = <<>>
  BY <1>1, <1>2, <1>3 DEF Peers
<1>7. ServerTypes
  <2>1. svServer \in Rounds
    BY <1>2 DEF Rounds
  <2>2. svConn \in [Slots -> Connections]
    BY <1>2, <1>5
  <2>3. svClient \in [Clients -> Peers]
    BY <1>1, <1>6
  <2>4. svWire \in [Clients -> Seq(Pieces)] /\ svHeard \in [Clients -> Seq(1..MaxMessages)]
    BY <1>2, <1>3
  <2>5. \A i \in Slots : Len(svConn[i].buffer) <= BufferSize
    BY <1>2, <1>4, <1>5, BufferAssumption
  <2>6. \A c \in Clients : Len(svClient[c].sent) <= MaxMessages
    BY <1>4, <1>6, ClientsAssumption
  <2> QED BY <2>1, <2>2, <2>3, <2>4, <2>5, <2>6 DEF ServerTypes
<1>8. \A i \in Slots : svConn[i].client = Nobody
  BY <1>2, <1>5
<1>9. Occupied = {}
  BY <1>8 DEF Occupied
<1>10. svServer.count = 0 /\ svServer.ready = {} /\ svServer.where = "select"
  BY <1>2
<1>11. Seats
  <2>1. Cardinality(Occupied) = 0
    BY <1>9, FS_EmptySet
  <2>2. svServer.count <= Cardinality(Slots)
    BY <1>10, SlotSets
  <2> QED BY <1>6, <1>8, <1>9, <1>10, <2>1, <2>2 DEF Seats
<1>12. Lines
  BY <1>6, <1>8, ClientsAssumption DEF Lines
<1> QED BY <1>7, <1>11, <1>12 DEF ServerInv

\* Steps of the thread, and of the thread that stops it, that change svServer only.
LEMMA ServerOnly ==
    ASSUME ServerInv, svServer' \in Rounds, UNCHANGED <<svConn, svClient, svWire, svHeard>>,
           svServer'.count = svServer.count,
           svServer'.where = "stopped" <=> svServer.where = "stopped",
           svServer'.ready \subseteq Occupied,
           svServer'.where # "round" => svServer'.ready = {}
    PROVE  ServerInv'
<1>1. ServerTypes'
  BY DEF ServerInv, ServerTypes
<1>2. SeatsStep
  BY DEF SeatsStep, Sits
<1>3. Seats'
  BY <1>2, SeatsKept DEF ServerInv
<1>4. Lines'
  BY DEF ServerInv, Lines, Line, Unread, Hears
<1> QED BY <1>1, <1>3, <1>4 DEF ServerInv

LEMMA RoundBegins == ServerInv /\ Select => ServerInv'
<1> SUFFICES ASSUME ServerInv, Select PROVE ServerInv'
  OBVIOUS
<1>1. svServer \in Rounds /\ svServer.where = "select" /\ svServer.ready = {}
  BY DEF ServerInv, ServerTypes, Seats, Select
<1>2. UNCHANGED <<svConn, svClient, svWire, svHeard>>
  BY DEF Select
<1>3. CASE svServer.running
  <2>1. PICK ready : ready = {i \in Slots : Readable(i)}
    OBVIOUS
  <2>2. ready \in SUBSET Slots /\ ready \subseteq Occupied
    BY <2>1 DEF Readable, Occupied
  <2>3. svServer' = [svServer EXCEPT !.where = "round", !.ready = ready,
                                     !.accept = (Queued # {})]
    BY <1>3, <2>1 DEF Select
  <2>4. (Queued # {}) \in BOOLEAN
    OBVIOUS
  <2>5. /\ svServer' \in Rounds /\ svServer'.count = svServer.count
        /\ svServer'.where = "round" /\ svServer'.ready = ready
    BY <1>1, <2>2, <2>3, <2>4 DEF Rounds
  <2> QED BY <1>1, <1>2, <2>2, <2>5, ServerOnly
<1>4. CASE ~svServer.running
  <2>1. svServer' = [svServer EXCEPT !.where = "ended"]
    BY <1>4 DEF Select
  <2>2. /\ svServer' \in Rounds /\ svServer'.count = svServer.count
        /\ svServer'.where = "ended" /\ svServer'.ready = {}
    BY <1>1, <2>1 DEF Rounds
  <2> QED BY <1>1, <1>2, <2>2, ServerOnly
<1> QED BY <1>3, <1>4

LEMMA RoundEndsStep == ServerInv /\ RoundEnds => ServerInv'
<1> SUFFICES ASSUME ServerInv, RoundEnds PROVE ServerInv'
  OBVIOUS
<1>1. /\ svServer \in Rounds /\ svServer.where = "round" /\ svServer.ready = {}
      /\ svServer' = [svServer EXCEPT !.where = "select"]
      /\ UNCHANGED <<svConn, svClient, svWire, svHeard>>
  BY DEF ServerInv, ServerTypes, RoundEnds
<1>2. /\ svServer' \in Rounds /\ svServer'.count = svServer.count
      /\ svServer'.where = "select" /\ svServer'.ready = {}
  BY <1>1 DEF Rounds
<1> QED BY <1>1, <1>2, ServerOnly

LEMMA StopServerStep == ServerInv /\ StopServer => ServerInv'
<1> SUFFICES ASSUME ServerInv, StopServer PROVE ServerInv'
  OBVIOUS
<1>1. /\ svServer \in Rounds
      /\ svServer' = [svServer EXCEPT !.running = FALSE]
      /\ UNCHANGED <<svConn, svClient, svWire, svHeard>>
  BY DEF ServerInv, ServerTypes, StopServer
<1>2. /\ svServer' \in Rounds /\ svServer'.count = svServer.count
      /\ svServer'.where = svServer.where /\ svServer'.ready = svServer.ready
  BY <1>1 DEF Rounds
<1>3. svServer.ready \subseteq Occupied /\ (svServer.where # "round" => svServer.ready = {})
  BY DEF ServerInv, Seats
<1> QED BY <1>1, <1>2, <1>3, ServerOnly
LEMMA ClientConnectsStep ==
    ASSUME ServerInv, NEW c \in Clients, ClientConnects(c)
    PROVE  ServerInv'
<1>1. /\ svClient[c].where = "away" /\ svServer.where # "stopped"
      /\ svClient' = [svClient EXCEPT ![c].where = "queued"]
      /\ svWire' = [svWire EXCEPT ![c] = Request]
      /\ svServer' = svServer /\ svConn' = svConn /\ svHeard' = svHeard
  BY DEF ClientConnects
<1>2. /\ svClient \in [Clients -> Peers] /\ svWire \in [Clients -> Seq(Pieces)]
      /\ svClient[c] \in Peers
  BY DEF ServerInv, ServerTypes
<1>3. /\ svClient'[c] = [svClient[c] EXCEPT !.where = "queued"]
      /\ svWire'[c] = Request
      /\ \A d \in Clients : d # c => svClient'[d] = svClient[d] /\ svWire'[d] = svWire[d]
  BY <1>1, <1>2
<1>4. /\ svClient'[c] \in Peers /\ svClient'[c].where = "queued"
      /\ svClient'[c].sent = svClient[c].sent /\ svClient'[c].missed = svClient[c].missed
  BY <1>2, <1>3 DEF Peers
<1>5. ServerTypes'
  <2>1. svClient' \in [Clients -> Peers]
    BY <1>1, <1>2, <1>4
  <2>2. svWire' \in [Clients -> Seq(Pieces)]
    BY <1>1, <1>2, RequestIs
  <2>3. \A d \in Clients : svClient'[d].sent = svClient[d].sent
    BY <1>3, <1>4
  <2> QED BY <1>1, <2>1, <2>2, <2>3 DEF ServerInv, ServerTypes
<1>6. Seats'
  <2>1. \A d \in Clients : Sits(d)' <=> Sits(d)
    BY <1>1, <1>3, <1>4 DEF Sits
  <2>2. svServer.ready \subseteq Occupied /\ (svServer.where # "round" => svServer.ready = {})
    BY DEF ServerInv, Seats
  <2>3. SeatsStep
    BY <1>1, <2>1, <2>2 DEF SeatsStep
  <2> QED BY <2>3, SeatsKept DEF ServerInv
<1>7. svClient[c].sent = <<>> /\ svClient[c].missed = 0 /\ svHeard[c] = <<>>
  BY <1>1 DEF ServerInv, Lines
<1>8. Unread(<<>>, Request, <<>>)
  <2>1. Len(<<>>) - 0 = 0
    BY EmptySeq
  <2>2. FramesLeft(<<>>, 0) = <<>>
    BY <2>1, FramesNone DEF FramesLeft
  <2> QED BY <2>2, RequestIs, ConcatEmptySeq DEF Unread
<1>9. Unread(<<>>, svWire'[c], svClient'[c].sent)
  BY <1>3, <1>4, <1>7, <1>8
<1>10. \A i \in Slots : svConn[i].client # c
  <2> SUFFICES ASSUME NEW i \in Slots, svConn[i].client = c PROVE FALSE
    OBVIOUS
  <2>1. svConn[i].client # Nobody
    BY ClientsAssumption
  <2>2. svClient[c].where \in {"connected", "leaving"}
    BY <2>1, WhoSits DEF ServerInv
  <2> QED BY <1>1, <2>2
<1>11. Lines'
  <2>1. ASSUME NEW d \in Clients, svClient'[d].where = "away"
        PROVE  svClient'[d].sent = <<>> /\ svClient'[d].missed = 0 /\ svHeard'[d] = <<>>
    <3>1. svClient'[d] = svClient[d] /\ svHeard'[d] = svHeard[d]
      BY <1>1, <1>3, <1>4, <2>1
    <3> QED BY <2>1, <3>1 DEF ServerInv, Lines
  <2>2. ASSUME NEW d \in Clients, svClient'[d].where = "queued"
        PROVE  /\ svClient'[d].missed = 0 /\ svHeard'[d] = <<>>
               /\ Unread(<<>>, svWire'[d], svClient'[d].sent)
    <3>1. CASE d = c
      BY <1>1, <1>4, <1>7, <1>9, <3>1
    <3>2. CASE d # c
      <4>1. svClient'[d] = svClient[d] /\ svHeard'[d] = svHeard[d] /\ svWire'[d] = svWire[d]
        BY <1>1, <1>3, <3>2
      <4>2. /\ svClient[d].missed = 0 /\ svHeard[d] = <<>>
            /\ Unread(<<>>, svWire[d], svClient[d].sent)
        BY <2>2, <4>1 DEF ServerInv, Lines
      <4> QED BY <4>1, <4>2
    <3> QED BY <3>1, <3>2
  <2>3. ASSUME NEW d \in Clients, NEW j \in Slots, svConn'[j].client = d
        PROVE  Line(svConn'[j], svClient'[d].sent, svClient'[d].missed, svWire'[d], svHeard'[d])
    <3>1. d # c /\ svConn'[j] = svConn[j] /\ svConn[j].client = d
      BY <1>1, <1>10, <2>3
    <3>2. svClient'[d] = svClient[d] /\ svHeard'[d] = svHeard[d] /\ svWire'[d] = svWire[d]
      BY <1>1, <1>3, <3>1
    <3>3. Line(svConn[j], svClient[d].sent, svClient[d].missed, svWire[d], svHeard[d])
      BY <3>1 DEF ServerInv, Lines
    <3> QED BY <3>1, <3>2, <3>3
  <2> QED BY <2>1, <2>2, <2>3 DEF Lines, Unread, Line, Hears
<1> QED BY <1>5, <1>6, <1>11 DEF ServerInv

LEMMA ClientSendsStep ==
    ASSUME ServerInv, NEW c \in Clients, NEW size \in FrameSizes, ClientSends(c, size)
    PROVE  ServerInv'
<1>0. /\ svClient[c] \in Peers /\ svClient[c].sent \in Seq(FrameSizes)
      /\ svClient[c].missed \in Nat /\ svWire[c] \in Seq(Pieces)
      /\ svHeard[c] \in Seq(1..MaxMessages)
  BY TypesAre DEF ServerInv
<1>1. PICK sent \in Seq(FrameSizes), w \in Seq(Pieces) : sent = svClient[c].sent /\ w = svWire[c]
  BY <1>0
<1>2. PICK l \in Nat : l = Len(sent)
  BY LenProperties
<1>3. w \o Frame(Len(sent) + 1, size) \in Seq(Pieces)
  <2>1. PICK m \in Nat, h \in Seq(1..MaxMessages) : m = svClient[c].missed /\ h = svHeard[c]
    BY <1>0
  <2>2. PICK k \in Nat : k = l + 1
    OBVIOUS
  <2>3. Frame(k, size) \in Seq(Pieces)
    BY FrameIs, SizesAre
  <2> QED BY <1>2, <2>2, <2>3, ConcatProperties
<1>4. PICK u \in Seq(Pieces), more \in Seq(FrameSizes) :
          /\ u = w \o Frame(Len(sent) + 1, size) /\ more = Append(sent, size)
          /\ Len(more) = l + 1
  BY <1>2, <1>3, AppendProperties
<1>5. /\ svClient[c].where \in {"queued", "connected"} /\ l < MaxMessages
      /\ svClient' = [svClient EXCEPT ![c].sent = more]
      /\ svWire' = [svWire EXCEPT ![c] = u]
      /\ svServer' = svServer /\ svConn' = svConn /\ svHeard' = svHeard
  BY <1>1, <1>2, <1>4 DEF ClientSends
<1>6. svClient \in [Clients -> Peers] /\ svWire \in [Clients -> Seq(Pieces)]
  BY DEF ServerInv, ServerTypes
<1>7. /\ svClient'[c] = [svClient[c] EXCEPT !.sent = more]
      /\ svWire'[c] = u
      /\ \A d \in Clients : d # c => svClient'[d] = svClient[d] /\ svWire'[d] = svWire[d]
  BY <1>5, <1>6
<1>8. /\ svClient'[c] \in Peers /\ svClient'[c].sent = more
      /\ svClient'[c].where = svClient[c].where /\ svClient'[c].missed = svClient[c].missed
  BY <1>0, <1>7 DEF Peers
<1>9. ServerTypes'
  <2>1. svClient' \in [Clients -> Peers]
    BY <1>5, <1>6, <1>8
  <2>2. svWire' \in [Clients -> Seq(Pieces)]
    BY <1>5, <1>6
  <2>3. Len(more) <= MaxMessages
    BY <1>4, <1>5, ClientsAssumption
  <2>4. \A d \in Clients : Len(svClient'[d].sent) <= MaxMessages
    BY <1>7, <1>8, <2>3 DEF ServerInv, ServerTypes
  <2> QED BY <1>5, <2>1, <2>2, <2>4 DEF ServerInv, ServerTypes
<1>10. Seats'
  <2>1. \A d \in Clients : svClient'[d].where = svClient[d].where
    BY <1>7, <1>8
  <2>2. svServer.ready \subseteq Occupied /\ (svServer.where # "round" => svServer.ready = {})
    BY DEF ServerInv, Seats
  <2>3. SeatsStep
    BY <1>5, <2>1, <2>2 DEF SeatsStep, Sits
  <2> QED BY <2>3, SeatsKept DEF ServerInv
<1>11. Lines'
  <2>1. ASSUME NEW d \in Clients, svClient'[d].where = "away"
        PROVE  svClient'[d].sent = <<>> /\ svClient'[d].missed = 0 /\ svHeard'[d] = <<>>
    <3>1. svClient'[d] = svClient[d] /\ svHeard'[d] = svHeard[d]
      BY <1>5, <1>7, <1>8, <2>1
    <3> QED BY <2>1, <3>1 DEF ServerInv, Lines
  <2>2. ASSUME NEW d \in Clients, svClient'[d].where = "queued"
        PROVE  /\ svClient'[d].missed = 0 /\ svHeard'[d] = <<>>
               /\ Unread(<<>>, svWire'[d], svClient'[d].sent)
    <3>3. svClient[d].where = "queued"
      BY <1>7, <1>8, <2>2
    <3>4. /\ svClient[d].missed = 0 /\ svHeard[d] = <<>>
          /\ Unread(<<>>, svWire[d], svClient[d].sent)
      BY <3>3 DEF ServerInv, Lines
    <3>1. CASE d = c
      <4>1. Unread(<<>>, w, sent)
        BY <1>1, <3>1, <3>4
      <4>2. PICK conn \in Connections : TRUE
        <5>1. [client |-> Nobody, done |-> FALSE, buffer |-> <<>>, used |-> FALSE] \in Connections
          BY EmptySeq DEF Connections
        <5> QED BY <5>1
      <4>3. Unread(<<>>, w \o Frame(Len(sent) + 1, size), Append(sent, size))
        BY <1>0, <4>1, <4>2, LineSends
      <4> QED BY <1>4, <1>5, <1>7, <1>8, <3>1, <3>4, <4>3
    <3>2. CASE d # c
      <4>1. svClient'[d] = svClient[d] /\ svHeard'[d] = svHeard[d] /\ svWire'[d] = svWire[d]
        BY <1>5, <1>7, <3>2
      <4> QED BY <3>4, <4>1
    <3> QED BY <3>1, <3>2
  <2>3. ASSUME NEW d \in Clients, NEW j \in Slots, svConn'[j].client = d
        PROVE  Line(svConn'[j], svClient'[d].sent, svClient'[d].missed, svWire'[d], svHeard'[d])
    <3>3. svConn'[j] = svConn[j] /\ svConn[j].client = d /\ svHeard'[d] = svHeard[d]
      BY <1>5, <2>3
    <3>4. Line(svConn[j], svClient[d].sent, svClient[d].missed, svWire[d], svHeard[d])
      BY <3>3 DEF ServerInv, Lines
    <3>1. CASE d = c
      <4>1. PICK conn \in Connections, m \in Nat, h \in Seq(1..MaxMessages) :
                conn = svConn[j] /\ m = svClient[c].missed /\ h = svHeard[c]
        BY <1>0, TypesAre DEF ServerInv
      <4>2. Line(conn, sent, m, w, h)
        BY <1>1, <3>1, <3>4, <4>1
      <4>3. Line(conn, Append(sent, size), m, w \o Frame(Len(sent) + 1, size), h)
        BY <4>2, LineSends
      <4> QED BY <1>4, <1>7, <1>8, <3>1, <3>3, <4>1, <4>3
    <3>2. CASE d # c
      <4>1. svClient'[d] = svClient[d] /\ svWire'[d] = svWire[d]
        BY <1>7, <3>2
      <4> QED BY <3>3, <3>4, <4>1
    <3> QED BY <3>1, <3>2
  <2> QED BY <2>1, <2>2, <2>3 DEF Lines, Unread, Line, Hears
<1> QED BY <1>9, <1>10, <1>11 DEF ServerInv

LEMMA ClientLeavesStep ==
    ASSUME ServerInv, NEW c \in Clients, ClientLeaves(c)
    PROVE  ServerInv'
<1>1. /\ svClient[c].where = "connected"
      /\ svClient' = [svClient EXCEPT ![c].where = "leaving"]
      /\ svServer' = svServer /\ svConn' = svConn /\ svHeard' = svHeard /\ svWire' = svWire
  BY DEF ClientLeaves
<1>2. svClient \in [Clients -> Peers] /\ svClient[c] \in Peers
  BY DEF ServerInv, ServerTypes
<1>3. /\ svClient'[c] = [svClient[c] EXCEPT !.where = "leaving"]
      /\ \A d \in Clients : d # c => svClient'[d] = svClient[d]
  BY <1>1, <1>2
<1>4. /\ svClient'[c] \in Peers /\ svClient'[c].where = "leaving"
      /\ svClient'[c].sent = svClient[c].sent /\ svClient'[c].missed = svClient[c].missed
  BY <1>2, <1>3 DEF Peers
<1>5. \A d \in Clients : /\ svClient'[d].sent = svClient[d].sent
                         /\ svClient'[d].missed = svClient[d].missed
  BY <1>3, <1>4
<1>6. ServerTypes'
  <2>1. svClient' \in [Clients -> Peers]
    BY <1>1, <1>2, <1>4
  <2> QED BY <1>1, <1>5, <2>1 DEF ServerInv, ServerTypes
<1>7. Seats'
  <2>1. \A d \in Clients : Sits(d)' <=> Sits(d)
    BY <1>1, <1>3, <1>4 DEF Sits
  <2>2. svServer.ready \subseteq Occupied /\ (svServer.where # "round" => svServer.ready = {})
    BY DEF ServerInv, Seats
  <2>3. svServer.where # "stopped"
    BY <1>1 DEF ServerInv, Seats
  <2>4. SeatsStep
    BY <1>1, <2>1, <2>2, <2>3 DEF SeatsStep
  <2> QED BY <2>4, SeatsKept DEF ServerInv
<1>8. \A d \in Clients : svClient'[d].where \in {"away", "queued"}
                             => svClient'[d].where = svClient[d].where
  BY <1>3, <1>4
<1>9. Lines'
  <2>1. ASSUME NEW d \in Clients, svClient'[d].where = "away"
        PROVE  svClient'[d].sent = <<>> /\ svClient'[d].missed = 0 /\ svHeard'[d] = <<>>
    BY <1>1, <1>5, <1>8, <2>1 DEF ServerInv, Lines
  <2>2. ASSUME NEW d \in Clients, svClient'[d].where = "queued"
        PROVE  /\ svClient'[d].missed = 0 /\ svHeard'[d] = <<>>
               /\ Unread(<<>>, svWire'[d], svClient'[d].sent)
    BY <1>1, <1>5, <1>8, <2>2 DEF ServerInv, Lines
  <2>3. ASSUME NEW d \in Clients, NEW j \in Slots, svConn'[j].client = d
        PROVE  Line(svConn'[j], svClient'[d].sent, svClient'[d].missed, svWire'[d], svHeard'[d])
    BY <1>1, <1>5, <2>3 DEF ServerInv, Lines
  <2> QED BY <2>1, <2>2, <2>3 DEF Lines, Unread, Line, Hears
<1> QED BY <1>6, <1>7, <1>9 DEF ServerInv
LEMMA MinOfSlots ==
    ASSUME NEW S \in SUBSET Slots, S # {}
    PROVE  Min(S) \in S
BY MinIs, SlotsAssumption

LEMMA AcceptStep ==
    ASSUME ServerInv, NEW c \in Clients, Accept(c)
    PROVE  ServerInv'
<1>1. /\ svServer \in Rounds /\ svServer.where = "round" /\ c \in Queued
      /\ svClient[c].where = "queued"
      /\ svWire' = svWire /\ svHeard' = svHeard
      /\ svClient \in [Clients -> Peers] /\ svClient[c] \in Peers
      /\ svConn \in [Slots -> Connections]
  BY DEF Accept, Queued, ServerInv, ServerTypes
<1>2. c # Nobody
  BY ClientsAssumption
<1>3. \A j \in Slots : svConn[j].client # c
  <2> SUFFICES ASSUME NEW j \in Slots, svConn[j].client = c PROVE FALSE
    OBVIOUS
  <2>1. svClient[c].where \in {"connected", "leaving"}
    BY <1>2, WhoSits DEF ServerInv
  <2> QED BY <1>1, <2>1
<1>4. CASE Occupied = Slots
  <2>1. /\ svClient' = [svClient EXCEPT ![c].where = "closed"]
        /\ svServer' = [svServer EXCEPT !.where = "select", !.ready = {}, !.accept = FALSE]
        /\ svConn' = svConn
    BY <1>4 DEF Accept
  <2>2. /\ svClient'[c] = [svClient[c] EXCEPT !.where = "closed"]
        /\ \A d \in Clients : d # c => svClient'[d] = svClient[d]
    BY <1>1, <2>1
  <2>3. /\ svClient'[c] \in Peers /\ svClient'[c].where = "closed"
        /\ svClient'[c].sent = svClient[c].sent /\ svClient'[c].missed = svClient[c].missed
    BY <1>1, <2>2 DEF Peers
  <2>4. \A d \in Clients : /\ svClient'[d].sent = svClient[d].sent
                           /\ svClient'[d].missed = svClient[d].missed
    BY <2>2, <2>3
  <2>5. /\ svServer' \in Rounds /\ svServer'.count = svServer.count
        /\ svServer'.where = "select" /\ svServer'.ready = {}
    BY <1>1, <2>1 DEF Rounds
  <2>6. ServerTypes'
    <3>1. svClient' \in [Clients -> Peers]
      BY <1>1, <2>1, <2>3
    <3> QED BY <1>1, <2>1, <2>4, <2>5, <3>1 DEF ServerInv, ServerTypes
  <2>7. Seats'
    <3>1. \A d \in Clients : Sits(d)' <=> Sits(d)
      BY <1>1, <2>2, <2>3 DEF Sits
    <3>2. SeatsStep
      BY <1>1, <2>1, <2>5, <3>1 DEF SeatsStep
    <3> QED BY <3>2, SeatsKept DEF ServerInv
  <2>8. \A d \in Clients : svClient'[d].where \in {"away", "queued"}
                               => svClient'[d].where = svClient[d].where
    BY <2>2, <2>3
  <2>9. Lines'
    <3>1. ASSUME NEW d \in Clients, svClient'[d].where = "away"
          PROVE  svClient'[d].sent = <<>> /\ svClient'[d].missed = 0 /\ svHeard'[d] = <<>>
      BY <1>1, <2>4, <2>8, <3>1 DEF ServerInv, Lines
    <3>2. ASSUME NEW d \in Clients, svClient'[d].where = "queued"
          PROVE  /\ svClient'[d].missed = 0 /\ svHeard'[d] = <<>>
                 /\ Unread(<<>>, svWire'[d], svClient'[d].sent)
      BY <1>1, <2>4, <2>8, <3>2 DEF ServerInv, Lines
    <3>3. ASSUME NEW d \in Clients, NEW j \in Slots, svConn'[j].client = d
          PROVE  Line(svConn'[j], svClient'[d].sent, svClient'[d].missed, svWire'[d], svHeard'[d])
      BY <1>1, <2>1, <2>4, <3>3 DEF ServerInv, Lines
    <3> QED BY <3>1, <3>2, <3>3 DEF Lines, Unread, Line, Hears
  <2> QED BY <2>6, <2>7, <2>9 DEF ServerInv
<1>5. CASE Occupied # Slots
  <2>1. PICK i \in Slots : i = Min(Slots \ Occupied) /\ i \notin Occupied
    <3>1. Slots \ Occupied \in SUBSET Slots /\ Slots \ Occupied # {}
      BY <1>5, SlotSets
    <3> QED BY <3>1, MinOfSlots
  <2>2. PICK h : h = [Free EXCEPT !.client = c, !.used = svConn[i].used]
    OBVIOUS
  <2>3. /\ svConn' = [svConn EXCEPT ![i] = h]
        /\ svClient' = [svClient EXCEPT ![c].where = "connected"]
        /\ svServer' = [svServer EXCEPT !.accept = FALSE, !.count = @ + 1]
    BY <1>5, <2>1, <2>2 DEF Accept
  <2>4. svConn[i].used \in BOOLEAN
    BY TypesAre DEF ServerInv
  <2>5. h \in Connections /\ h.client = c /\ h.done = FALSE /\ h.buffer = <<>>
    BY <2>2, <2>4, EmptySeq DEF Free, Connections
  <2>6. svConn'[i] = h /\ \A j \in Slots : j # i => svConn'[j] = svConn[j]
    BY <1>1, <2>3
  <2>7. /\ svClient'[c] = [svClient[c] EXCEPT !.where = "connected"]
        /\ \A d \in Clients : d # c => svClient'[d] = svClient[d]
    BY <1>1, <2>3
  <2>8. /\ svClient'[c] \in Peers /\ svClient'[c].where = "connected"
        /\ svClient'[c].sent = svClient[c].sent /\ svClient'[c].missed = svClient[c].missed
    BY <1>1, <2>7 DEF Peers
  <2>9. /\ svServer' \in Rounds /\ svServer'.count = svServer.count + 1
        /\ svServer'.where = "round" /\ svServer'.ready = svServer.ready
    <3>1. svServer.count \in Nat
      BY <1>1 DEF Rounds
    <3>2. PICK n \in Nat : n = svServer.count + 1
      BY <3>1
    <3>3. svServer' = [svServer EXCEPT !.accept = FALSE, !.count = n]
      BY <2>3, <3>2
    <3>4. /\ svServer' \in Rounds /\ svServer'.count = n
          /\ svServer'.where = svServer.where /\ svServer'.ready = svServer.ready
      BY <1>1, <3>3 DEF Rounds
    <3> QED BY <1>1, <3>2, <3>4
  <2>10. ServerTypes'
    <3>1. svClient' \in [Clients -> Peers]
      BY <1>1, <2>3, <2>8
    <3>2. svConn' \in [Slots -> Connections]
      BY <1>1, <2>3, <2>5
    <3>3. \A d \in Clients : svClient'[d].sent = svClient[d].sent
      BY <2>7, <2>8
    <3>4. Len(h.buffer) <= BufferSize
      BY <2>5, EmptySeq, BufferAssumption
    <3>5. \A j \in Slots : Len(svConn'[j].buffer) <= BufferSize
      BY <2>6, <3>4 DEF ServerInv, ServerTypes
    <3> QED BY <1>1, <2>9, <3>1, <3>2, <3>3, <3>5 DEF ServerInv, ServerTypes
  <2>11. Occupied' = Occupied \cup {i}
    BY <1>2, <2>1, <2>5, <2>6 DEF Occupied
  <2>12. svServer'.count = Cardinality(Occupied') /\ svServer'.count <= Cardinality(Slots)
    <3>1. svServer.count = Cardinality(Occupied)
      BY <1>1 DEF ServerInv, Seats
    <3>2. Cardinality(Occupied \cup {i}) = Cardinality(Occupied) + 1
      BY <2>1, SlotSets, FS_AddElement
    <3>3. Occupied \cup {i} \subseteq Slots
      BY SlotSets
    <3>4. Cardinality(Occupied \cup {i}) <= Cardinality(Slots)
      BY <3>3, SlotsAssumption, FS_Subset
    <3> QED BY <2>9, <2>11, <3>1, <3>2, <3>4
  <2>13. Seats'
    <3>1. ASSUME NEW j \in Slots, svConn'[j].client # Nobody
          PROVE  svClient'[svConn'[j].client].where \in {"connected", "leaving"}
      <4>1. CASE j = i
        BY <2>5, <2>6, <2>8, <4>1
      <4>2. CASE j # i
        <5>1. svConn'[j] = svConn[j] /\ svConn[j].client # c
          BY <1>3, <2>6, <4>2
        <5>2. PICK d \in Clients : d = svConn[j].client /\ d # c
          BY <3>1, <5>1, WhoSits DEF ServerInv
        <5>3. svClient[d].where \in {"connected", "leaving"}
          BY <3>1, <5>1, <5>2, WhoSits DEF ServerInv
        <5> QED BY <2>7, <5>1, <5>2, <5>3
      <4> QED BY <4>1, <4>2
    <3>2. ASSUME NEW j \in Slots, NEW k \in Slots, svConn'[j].client = svConn'[k].client,
                 svConn'[j].client # Nobody
          PROVE  j = k
      BY <1>3, <2>5, <2>6, <3>2 DEF ServerInv, Seats
    <3>3. ASSUME NEW d \in Clients, svClient'[d].where \in {"connected", "leaving"}
          PROVE  \E j \in Slots : svConn'[j].client = d
      <4>1. CASE d = c
        BY <2>5, <2>6, <4>1
      <4>2. CASE d # c
        <5>1. PICK j \in Slots : svConn[j].client = d
          BY <2>7, <3>3, <4>2 DEF ServerInv, Seats
        <5>2. j # i
          BY <2>1, <5>1, ClientsAssumption DEF Occupied
        <5> QED BY <2>6, <5>1, <5>2
      <4> QED BY <4>1, <4>2
    <3>4. svServer'.ready \subseteq Occupied'
      BY <2>9, <2>11 DEF ServerInv, Seats
    <3> QED BY <2>9, <2>12, <3>1, <3>2, <3>3, <3>4 DEF Seats
  <2>14. /\ svClient[c].missed = 0 /\ svHeard[c] = <<>>
         /\ Unread(<<>>, svWire[c], svClient[c].sent)
    BY <1>1 DEF ServerInv, Lines
  <2>15. Line(h, svClient'[c].sent, svClient'[c].missed, svWire'[c], svHeard'[c])
    BY <1>1, <2>5, <2>8, <2>14 DEF Line
  <2>16. Lines'
    <3>1. ASSUME NEW d \in Clients, svClient'[d].where = "away"
          PROVE  svClient'[d].sent = <<>> /\ svClient'[d].missed = 0 /\ svHeard'[d] = <<>>
      <4>1. svClient'[d] = svClient[d] /\ svHeard'[d] = svHeard[d]
        BY <1>1, <2>7, <2>8, <3>1
      <4> QED BY <3>1, <4>1 DEF ServerInv, Lines
    <3>2. ASSUME NEW d \in Clients, svClient'[d].where = "queued"
          PROVE  /\ svClient'[d].missed = 0 /\ svHeard'[d] = <<>>
                 /\ Unread(<<>>, svWire'[d], svClient'[d].sent)
      <4>1. svClient'[d] = svClient[d] /\ svHeard'[d] = svHeard[d] /\ svWire'[d] = svWire[d]
        BY <1>1, <2>7, <2>8, <3>2
      <4>2. /\ svClient[d].missed = 0 /\ svHeard[d] = <<>>
            /\ Unread(<<>>, svWire[d], svClient[d].sent)
        BY <3>2, <4>1 DEF ServerInv, Lines
      <4> QED BY <4>1, <4>2
    <3>3. ASSUME NEW d \in Clients, NEW j \in Slots, svConn'[j].client = d
          PROVE  Line(svConn'[j], svClient'[d].sent, svClient'[d].missed, svWire'[d], svHeard'[d])
      <4>1. CASE j = i
        BY <2>5, <2>6, <2>15, <3>3, <4>1
      <4>2. CASE j # i
        <5>1. svConn'[j] = svConn[j] /\ d # c
          BY <1>3, <2>6, <3>3, <4>2
        <5>2. svClient'[d] = svClient[d] /\ svHeard'[d] = svHeard[d] /\ svWire'[d] = svWire[d]
          BY <1>1, <2>7, <5>1
        <5>3. Line(svConn[j], svClient[d].sent, svClient[d].missed, svWire[d], svHeard[d])
          BY <3>3, <5>1 DEF ServerInv, Lines
        <5> QED BY <5>1, <5>2, <5>3
      <4> QED BY <4>1, <4>2
    <3> QED BY <3>1, <3>2, <3>3 DEF Lines, Unread, Line, Hears
  <2> QED BY <2>10, <2>13, <2>16 DEF ServerInv
<1> QED BY <1>4, <1>5
LEMMA CloseConnectionStep ==
    ASSUME ServerInv, NEW i \in Slots, svServer.where = "round", i \in svServer.ready,
           UNCHANGED <<svWire, svHeard>>, CloseConnection(i, svConn[i].client)
    PROVE  ServerInv'
<1>1. i \in Occupied /\ svConn[i].client # Nobody
  BY DEF ServerInv, Seats, Occupied
<1>2. PICK c \in Clients : c = svConn[i].client
  BY <1>1, WhoSits DEF ServerInv
<1>3. c # Nobody /\ svClient[c].where \in {"connected", "leaving"}
  BY <1>1, <1>2, WhoSits DEF ServerInv
<1>4. PICK h : h = [Free EXCEPT !.used = svConn[i].used]
  OBVIOUS
<1>5. /\ svConn' = [svConn EXCEPT ![i] = h]
      /\ svClient' = [svClient EXCEPT ![c].where = "closed"]
      /\ svServer' = [svServer EXCEPT !.ready = @ \ {i}, !.count = @ - 1]
      /\ svWire' = svWire /\ svHeard' = svHeard
  BY <1>2, <1>4 DEF CloseConnection
<1>6. /\ svServer \in Rounds /\ svClient \in [Clients -> Peers] /\ svClient[c] \in Peers
      /\ svConn \in [Slots -> Connections]
  BY DEF ServerInv, ServerTypes
<1>7. svConn[i].used \in BOOLEAN
  BY TypesAre DEF ServerInv
<1>8. h \in Connections /\ h.client = Nobody /\ h.buffer = <<>>
  BY <1>4, <1>7, EmptySeq DEF Free, Connections
<1>9. svConn'[i] = h /\ \A j \in Slots : j # i => svConn'[j] = svConn[j]
  BY <1>5, <1>6
<1>10. /\ svClient'[c] = [svClient[c] EXCEPT !.where = "closed"]
       /\ \A d \in Clients : d # c => svClient'[d] = svClient[d]
  BY <1>5, <1>6
<1>11. /\ svClient'[c] \in Peers /\ svClient'[c].where = "closed"
       /\ svClient'[c].sent = svClient[c].sent /\ svClient'[c].missed = svClient[c].missed
  BY <1>6, <1>10 DEF Peers
<1>12. Occupied' = Occupied \ {i}
  BY <1>8, <1>9 DEF Occupied
<1>13. PICK k \in Nat : k = svServer.count /\ k = Cardinality(Occupied) /\ k # 0
  <2>1. svServer.count = Cardinality(Occupied)
    BY DEF ServerInv, Seats
  <2>2. Cardinality(Occupied) # 0
    BY <1>1, SlotSets, FS_EmptySet
  <2> QED BY <2>1, <2>2, SlotSets
<1>14. Cardinality(Occupied') = k - 1 /\ k - 1 \in Nat /\ k - 1 <= Cardinality(Slots)
  <2>1. Cardinality(Occupied \ {i}) = Cardinality(Occupied) - 1
    BY <1>1, SlotSets, FS_RemoveElement
  <2> QED BY <1>12, <1>13, <2>1, SlotSets
<1>15. /\ svServer' \in Rounds /\ svServer'.count = k - 1
       /\ svServer'.where = "round" /\ svServer'.ready = svServer.ready \ {i}
  <2>1. PICK n \in Nat, ready \in SUBSET Slots : n = k - 1 /\ ready = svServer.ready \ {i}
    BY <1>6, <1>14 DEF Rounds
  <2>2. svServer' = [svServer EXCEPT !.ready = ready, !.count = n]
    BY <1>5, <1>13, <2>1
  <2>3. /\ svServer' \in Rounds /\ svServer'.count = n
        /\ svServer'.where = svServer.where /\ svServer'.ready = ready
    BY <1>6, <2>2 DEF Rounds
  <2> QED BY <2>1, <2>3
<1>16. \A j \in Slots : j # i => svConn[j].client # c
  BY <1>2, <1>3 DEF ServerInv, Seats
<1>17. ServerTypes'
  <2>1. svClient' \in [Clients -> Peers]
    BY <1>5, <1>6, <1>11
  <2>2. svConn' \in [Slots -> Connections]
    BY <1>5, <1>6, <1>8
  <2>3. \A d \in Clients : svClient'[d].sent = svClient[d].sent
    BY <1>10, <1>11
  <2>4. Len(h.buffer) <= BufferSize
    BY <1>8, EmptySeq, BufferAssumption
  <2>5. \A j \in Slots : Len(svConn'[j].buffer) <= BufferSize
    BY <1>9, <2>4 DEF ServerInv, ServerTypes
  <2> QED BY <1>5, <1>15, <2>1, <2>2, <2>3, <2>5 DEF ServerInv, ServerTypes
<1>18. Seats'
  <2>1. ASSUME NEW j \in Slots, svConn'[j].client # Nobody
        PROVE  svClient'[svConn'[j].client].where \in {"connected", "leaving"}
    <3>1. j # i
      BY <1>8, <1>9, <2>1
    <3>2. svConn'[j] = svConn[j] /\ svConn[j].client # c
      BY <1>9, <1>16, <3>1
    <3>3. PICK d \in Clients : d = svConn[j].client /\ d # c
      BY <2>1, <3>2, WhoSits DEF ServerInv
    <3>4. svClient[d].where \in {"connected", "leaving"}
      BY <2>1, <3>2, <3>3, WhoSits DEF ServerInv
    <3> QED BY <1>10, <3>2, <3>3, <3>4
  <2>2. ASSUME NEW j \in Slots, NEW l \in Slots, svConn'[j].client = svConn'[l].client,
               svConn'[j].client # Nobody
        PROVE  j = l
    BY <1>8, <1>9, <2>2 DEF ServerInv, Seats
  <2>3. ASSUME NEW d \in Clients, svClient'[d].where \in {"connected", "leaving"}
        PROVE  \E j \in Slots : svConn'[j].client = d
    <3>1. d # c
      BY <1>11, <2>3
    <3>2. PICK j \in Slots : svConn[j].client = d
      BY <1>10, <2>3, <3>1 DEF ServerInv, Seats
    <3>3. j # i
      BY <1>2, <3>1, <3>2
    <3> QED BY <1>9, <3>2, <3>3
  <2>4. svServer'.ready \subseteq Occupied'
    BY <1>12, <1>15 DEF ServerInv, Seats
  <2> QED BY <1>14, <1>15, <2>1, <2>2, <2>3, <2>4 DEF Seats
<1>19. Lines'
  <2>1. ASSUME NEW d \in Clients, svClient'[d].where = "away"
        PROVE  svClient'[d].sent = <<>> /\ svClient'[d].missed = 0 /\ svHeard'[d] = <<>>
    <3>1. svClient'[d] = svClient[d] /\ svHeard'[d] = svHeard[d]
      BY <1>5, <1>10, <1>11, <2>1
    <3> QED BY <2>1, <3>1 DEF ServerInv, Lines
  <2>2. ASSUME NEW d \in Clients, svClient'[d].where = "queued"
        PROVE  /\ svClient'[d].missed = 0 /\ svHeard'[d] = <<>>
               /\ Unread(<<>>, svWire'[d], svClient'[d].sent)
    <3>1. svClient'[d] = svClient[d] /\ svHeard'[d] = svHeard[d] /\ svWire'[d] = svWire[d]
      BY <1>5, <1>10, <1>11, <2>2
    <3>2. /\ svClient[d].missed = 0 /\ svHeard[d] = <<>>
          /\ Unread(<<>>, svWire[d], svClient[d].sent)
      BY <2>2, <3>1 DEF ServerInv, Lines
    <3> QED BY <3>1, <3>2
  <2>3. ASSUME NEW d \in Clients, NEW j \in Slots, svConn'[j].client = d
        PROVE  Line(svConn'[j], svClient'[d].sent, svClient'[d].missed, svWire'[d], svHeard'[d])
    <3>1. j # i
      BY <1>8, <1>9, <2>3, ClientsAssumption
    <3>2. svConn'[j] = svConn[j] /\ d # c
      BY <1>9, <1>16, <2>3, <3>1
    <3>3. svClient'[d] = svClient[d] /\ svHeard'[d] = svHeard[d] /\ svWire'[d] = svWire[d]
      BY <1>5, <1>10, <3>2
    <3>4. Line(svConn[j], svClient[d].sent, svClient[d].missed, svWire[d], svHeard[d])
      BY <2>3, <3>2 DEF ServerInv, Lines
    <3> QED BY <3>2, <3>3, <3>4
  <2> QED BY <2>1, <2>2, <2>3 DEF Lines, Unread, Line, Hears
<1> QED BY <1>17, <1>18, <1>19 DEF ServerInv

LEMMA CloseAllStep == ServerInv /\ CloseAll => ServerInv'
<1> SUFFICES ASSUME ServerInv, CloseAll PROVE ServerInv'
  OBVIOUS
<1>1. /\ svServer.where = "ended"
      /\ svServer' = [svServer EXCEPT !.where = "stopped"]
      /\ svConn' = [i \in Slots |-> [svConn[i] EXCEPT !.client = Nobody]]
      /\ svClient' = [c \in Clients |-> [svClient[c] EXCEPT !.where = "closed"]]
      /\ svWire' = svWire /\ svHeard' = svHeard
  BY DEF CloseAll
<1>2. /\ svServer \in Rounds /\ svClient \in [Clients -> Peers]
      /\ svConn \in [Slots -> Connections]
  BY DEF ServerInv, ServerTypes
<1>3. \A i \in Slots : /\ svConn'[i] \in Connections /\ svConn'[i].client = Nobody
                       /\ svConn'[i].buffer = svConn[i].buffer
  BY <1>1, <1>2 DEF Connections
<1>4. \A c \in Clients : /\ svClient'[c] \in Peers /\ svClient'[c].where = "closed"
                         /\ svClient'[c].sent = svClient[c].sent
  BY <1>1, <1>2 DEF Peers
<1>5. /\ svServer' \in Rounds /\ svServer'.count = svServer.count
      /\ svServer'.where = "stopped" /\ svServer'.ready = svServer.ready
  BY <1>1, <1>2 DEF Rounds
<1>6. svServer.ready = {} /\ svServer.count <= Cardinality(Slots)
  BY <1>1 DEF ServerInv, Seats
<1>7. ServerTypes'
  <2>1. svClient' \in [Clients -> Peers]
    BY <1>1, <1>4
  <2>2. svConn' \in [Slots -> Connections]
    BY <1>1, <1>3
  <2> QED BY <1>1, <1>3, <1>4, <1>5, <2>1, <2>2 DEF ServerInv, ServerTypes
<1>8. Seats'
  BY <1>3, <1>4, <1>5, <1>6 DEF Seats
<1>9. Lines'
  BY <1>3, <1>4, ClientsAssumption DEF Lines
<1> QED BY <1>7, <1>8, <1>9 DEF ServerInv
\* A step that reads from one client: its connection becomes h, its side p, its wire w,
\* and what was heard of it g.
Reads(i, c, h, p, w, g) ==
    /\ svConn' = [svConn EXCEPT ![i] = h]
    /\ svClient' = [svClient EXCEPT ![c] = p]
    /\ svWire' = [svWire EXCEPT ![c] = w]
    /\ svHeard' = [svHeard EXCEPT ![c] = g]
    /\ svServer' = [svServer EXCEPT !.ready = @ \ {i}]

LEMMA ReadsStep ==
    ASSUME ServerInv, NEW i \in Slots, svServer.where = "round",
           NEW c \in Clients, c = svConn[i].client,
           NEW h \in Connections, h.client = c, Len(h.buffer) <= BufferSize,
           NEW p \in Peers, p.where = svClient[c].where, p.sent = svClient[c].sent,
           NEW w \in Seq(Pieces), NEW g \in Seq(1..MaxMessages),
           Reads(i, c, h, p, w, g), Line(h, p.sent, p.missed, w, g)
    PROVE  ServerInv'
<1>1. /\ svServer \in Rounds /\ svConn \in [Slots -> Connections]
      /\ svClient \in [Clients -> Peers] /\ svWire \in [Clients -> Seq(Pieces)]
      /\ svHeard \in [Clients -> Seq(1..MaxMessages)]
  BY DEF ServerInv, ServerTypes
<1>2. svConn'[i] = h /\ \A j \in Slots : j # i => svConn'[j] = svConn[j]
  BY <1>1 DEF Reads
<1>3. /\ svClient'[c] = p /\ svWire'[c] = w /\ svHeard'[c] = g
      /\ \A d \in Clients : d # c => /\ svClient'[d] = svClient[d] /\ svWire'[d] = svWire[d]
                                     /\ svHeard'[d] = svHeard[d]
  BY <1>1 DEF Reads
<1>4. /\ svServer' \in Rounds /\ svServer'.count = svServer.count
      /\ svServer'.where = "round" /\ svServer'.ready = svServer.ready \ {i}
  <2>1. PICK ready \in SUBSET Slots : ready = svServer.ready \ {i}
    BY <1>1 DEF Rounds
  <2>2. svServer' = [svServer EXCEPT !.ready = ready]
    BY <2>1 DEF Reads
  <2> QED BY <1>1, <2>1, <2>2 DEF Rounds
<1>5. ServerTypes'
  <2>1. svClient' \in [Clients -> Peers]
    BY <1>1 DEF Reads
  <2>2. svConn' \in [Slots -> Connections]
    BY <1>1 DEF Reads
  <2>3. svWire' \in [Clients -> Seq(Pieces)]
    BY <1>1 DEF Reads
  <2>4. svHeard' \in [Clients -> Seq(1..MaxMessages)]
    BY <1>1 DEF Reads
  <2>5. \A j \in Slots : Len(svConn'[j].buffer) <= BufferSize
    BY <1>2 DEF ServerInv, ServerTypes
  <2>6. \A d \in Clients : Len(svClient'[d].sent) <= MaxMessages
    BY <1>3 DEF ServerInv, ServerTypes
  <2> QED BY <1>4, <2>1, <2>2, <2>3, <2>4, <2>5, <2>6 DEF ServerTypes
<1>6. Seats'
  <2>1. \A d \in Clients : svClient'[d].where = svClient[d].where
    BY <1>3
  <2>2. \A j \in Slots : svConn'[j].client = svConn[j].client
    BY <1>2
  <2>3. svServer'.ready \subseteq Occupied
    BY <1>4 DEF ServerInv, Seats
  <2>4. SeatsStep
    BY <1>4, <2>1, <2>2, <2>3 DEF SeatsStep, Sits
  <2> QED BY <2>4, SeatsKept DEF ServerInv
<1>7. OneLine(i, c)
  BY <1>2, <1>3 DEF OneLine
<1>8. Lines'
  BY <1>7, LinesKept
<1> QED BY <1>5, <1>6, <1>8 DEF ServerInv

LEMMA MinOfTwo ==
    ASSUME NEW a \in Nat, NEW b \in Nat
    PROVE  Min({a, b}) \in Nat /\ Min({a, b}) <= a /\ Min({a, b}) <= b
<1>1. \E x \in {a, b} : \A y \in {a, b} : x <= y
  <2>1. CASE a <= b
    BY <2>1
  <2>2. CASE ~(a <= b)
    BY <2>2
  <2> QED BY <2>1, <2>2
<1>2. Min({a, b}) \in {a, b} /\ \A y \in {a, b} : Min({a, b}) <= y
  BY <1>1 DEF Min
<1> QED BY <1>2

LEMMA SameAt ==
    ASSUME NEW S, NEW T, NEW f \in [S -> T], NEW x \in S
    PROVE  f = [f EXCEPT ![x] = f[x]]
OBVIOUS

LEMMA ReceiveStep ==
    ASSUME ServerInv, NEW i \in Slots, Receive(i)
    PROVE  ServerInv'
<1>1. svServer.where = "round" /\ svServer.ready # {} /\ i = Min(svServer.ready)
  BY DEF Receive
<1>2. i \in svServer.ready /\ svConn[i].client # Nobody
  <2>1. svServer.ready \in SUBSET Slots /\ svServer.ready \subseteq Occupied
    BY SlotSets DEF ServerInv, Seats
  <2>2. i \in svServer.ready
    BY <1>1, <2>1, MinOfSlots
  <2> QED BY <2>1, <2>2 DEF Occupied
<1>3. PICK c \in Clients : c = svConn[i].client
  BY <1>2, WhoSits DEF ServerInv
<1>4. /\ svConn[i] \in Connections /\ svConn[i].buffer \in Seq(Pieces)
      /\ svConn[i].done \in BOOLEAN /\ svConn[i].used \in BOOLEAN
      /\ Len(svConn[i].buffer) <= BufferSize
      /\ svClient[c] \in Peers /\ svClient[c].sent \in Seq(FrameSizes)
      /\ svClient[c].missed \in Nat
      /\ svWire[c] \in Seq(Pieces) /\ svHeard[c] \in Seq(1..MaxMessages)
      /\ Len(svClient[c].sent) <= MaxMessages
  BY TypesAre DEF ServerInv
<1>0. PICK b \in Seq(Pieces), w \in Seq(Pieces) : b = svConn[i].buffer /\ w = svWire[c]
  BY <1>4
<1>10. PICK room : room = BufferSize - Len(b)
  OBVIOUS
<1>5. b = svConn[i].buffer /\ w = svWire[c] /\ room = BufferSize - Len(b)
  BY <1>0, <1>10
<1>6. PICK l \in Nat, k \in Nat : l = Len(b) /\ k = Len(w)
  BY LenProperties
<1>7. l <= BufferSize /\ room = BufferSize - l /\ room \in Nat
  BY <1>4, <1>5, <1>6, BufferAssumption
<1>8. CASE room = 0 \/ w = <<>>
  <2>1. CloseConnection(i, svConn[i].client)
    BY <1>3, <1>5, <1>8 DEF Receive
  <2>2. UNCHANGED <<svWire, svHeard>>
    BY <2>1 DEF CloseConnection
  <2> QED BY <1>1, <1>2, <2>1, <2>2, CloseConnectionStep
<1>9. CASE ~(room = 0 \/ w = <<>>)
  <2>1. PICK n \in 1..Min({room, Len(w)}) :
          LET buffer == b \o SubSeq(w, 1, n) IN
          /\ svWire' = [svWire EXCEPT ![c] = SubSeq(@, n + 1, Len(@))]
          /\ svServer' = [svServer EXCEPT !.ready = @ \ {i}]
          /\ IF svConn[i].done THEN ParseFrames(i, c, buffer)
             ELSE IF Len(buffer) >= 2 THEN Handshake(i, c, buffer)
             ELSE HalfHandshake(i, buffer)
    BY <1>3, <1>5, <1>9 DEF Receive
  <2>2. n \in Nat /\ n <= room /\ n <= k /\ n \in 0..Len(w)
    <3>1. Min({room, k}) \in Nat /\ Min({room, k}) <= room /\ Min({room, k}) <= k
      BY <1>7, MinOfTwo
    <3>2. PICK m \in Nat : m = Min({room, Len(w)}) /\ m <= room /\ m <= k
      BY <1>6, <3>1
    <3>3. n \in 1..m
      BY <2>1, <3>2
    <3> QED BY <1>6, <1>7, <3>2, <3>3
  <2>3. /\ b \o SubSeq(w, 1, n) \in Seq(Pieces)
        /\ Len(b \o SubSeq(w, 1, n)) = Len(b) + n
        /\ SubSeq(w, n + 1, Len(w)) \in Seq(Pieces)
        /\ (b \o SubSeq(w, 1, n)) \o SubSeq(w, n + 1, Len(w)) = b \o w
    BY <2>2, Moves
  <2>4. PICK buffer \in Seq(Pieces), rest \in Seq(Pieces) :
          /\ buffer = b \o SubSeq(w, 1, n) /\ rest = SubSeq(w, n + 1, Len(w))
          /\ buffer \o rest = b \o w /\ Len(buffer) = l + n
    BY <1>6, <2>3
  <2>5. Len(buffer) <= BufferSize /\ Len(buffer) \in Nat
    BY <1>7, <2>2, <2>4, BufferAssumption
  <2>6. /\ svWire' = [svWire EXCEPT ![c] = rest]
        /\ svServer' = [svServer EXCEPT !.ready = @ \ {i}]
        /\ IF svConn[i].done THEN ParseFrames(i, c, buffer)
           ELSE IF Len(buffer) >= 2 THEN Handshake(i, c, buffer)
           ELSE HalfHandshake(i, buffer)
    BY <1>5, <2>1, <2>4
  <2>7. Line(svConn[i], svClient[c].sent, svClient[c].missed, w, svHeard[c])
    BY <1>3, <1>5 DEF ServerInv, Lines
  <2>8. PICK sent \in Seq(FrameSizes), missed \in Nat, heard \in Seq(1..MaxMessages) :
          sent = svClient[c].sent /\ missed = svClient[c].missed /\ heard = svHeard[c]
    BY <1>4
  <2>9. /\ svConn \in [Slots -> Connections] /\ svClient \in [Clients -> Peers]
        /\ svHeard \in [Clients -> Seq(1..MaxMessages)]
    BY DEF ServerInv, ServerTypes
  <2>10. /\ svClient = [svClient EXCEPT ![c] = svClient[c]]
         /\ svHeard = [svHeard EXCEPT ![c] = heard]
    <3>1. svClient = [svClient EXCEPT ![c] = svClient[c]]
      BY <2>9, SameAt
    <3>2. svHeard = [svHeard EXCEPT ![c] = svHeard[c]]
      BY <2>9, SameAt
    <3> QED BY <2>8, <3>1, <3>2
  <2>11. CASE svConn[i].done
    <3>1. ParseFrames(i, c, buffer)
      BY <2>6, <2>11
    <3>2. Hears(b, w, sent, missed, heard)
      BY <1>5, <2>7, <2>8, <2>11 DEF Line
    <3>3. /\ missed + Len(heard) <= Len(sent)
          /\ buffer \o rest = FramesLeft(sent, missed + Len(heard))
          /\ \A j \in DOMAIN heard : heard[j] = missed + j
      BY <2>4, <3>2 DEF Hears
    <3>4. Len(sent) <= MaxMessages
      BY <1>4, <2>8
    <3>5. PICK m, left, more :
            /\ m = FramesTaken(buffer) /\ left = SubSeq(buffer, m + 1, Len(buffer))
            /\ more = heard \o FlattenSeq([j \in 1..m |-> EndOf(buffer[j])])
      OBVIOUS
    <3>6. /\ left \in Seq(Pieces) /\ Len(left) <= Len(buffer)
          /\ more \in Seq(1..MaxMessages)
          /\ Hears(left, rest, sent, missed, more)
      BY <3>3, <3>4, <3>5, LineParses
    <3>7. PICK h : h = [svConn[i] EXCEPT !.buffer = left]
      OBVIOUS
    <3>8. h \in Connections /\ h.client = c /\ h.buffer = left /\ h.done
      BY <1>3, <1>4, <2>11, <3>6, <3>7 DEF Connections
    <3>9. Reads(i, c, h, svClient[c], rest, more)
      <4>1. svConn' = [svConn EXCEPT ![i].buffer = left] /\ UNCHANGED svClient
        BY <3>1, <3>5 DEF ParseFrames
      <4>2. svConn' = [svConn EXCEPT ![i] = h]
        BY <3>7, <4>1
      <4>3. svHeard' = [svHeard EXCEPT ![c] = more]
        BY <2>8, <3>1, <3>5 DEF ParseFrames, EndOf
      <4> QED BY <2>6, <2>10, <4>1, <4>2, <4>3 DEF Reads
    <3>10. Line(h, sent, missed, rest, more)
      BY <3>6, <3>8 DEF Line
    <3>11. Len(h.buffer) <= BufferSize
      <4>1. Len(left) \in Nat
        BY <3>6, LenProperties
      <4> QED BY <2>5, <3>6, <3>8, <4>1, BufferAssumption
    <3> QED BY <1>1, <1>3, <1>4, <2>8, <3>6, <3>8, <3>9, <3>10, <3>11, ReadsStep
  <2>12. CASE ~svConn[i].done
    <3>1. missed = 0 /\ heard = <<>> /\ Unread(buffer, rest, sent)
      BY <1>5, <2>4, <2>7, <2>8, <2>12 DEF Line, Unread
    <3>2. CASE Len(buffer) >= 2 /\ svClient[c].key
      <4>1. Handshake(i, c, buffer)
        BY <2>6, <2>12, <3>2
      <4>2. /\ Last(buffer).part = Last(buffer).of
            /\ svConn' = [svConn EXCEPT ![i].done = TRUE, ![i].buffer = <<>>, ![i].used = TRUE]
            /\ svClient' = [svClient EXCEPT ![c].missed = Last(buffer).message]
            /\ svHeard' = svHeard
        BY <3>2, <4>1 DEF Handshake
      <4>3. buffer \o rest = Request \o FramesLeft(sent, 0)
        BY <3>1 DEF Unread
      <4>4. /\ Last(buffer).message \in Nat /\ Last(buffer).message <= Len(sent)
            /\ rest = FramesLeft(sent, Last(buffer).message)
        BY <3>2, <4>2, <4>3, MissedFrames
      <4>5. PICK m \in Nat : m = Last(buffer).message
        BY <4>4
      <4>6. PICK h, p : /\ h = [svConn[i] EXCEPT !.done = TRUE, !.buffer = <<>>, !.used = TRUE]
                        /\ p = [svClient[c] EXCEPT !.missed = m]
        OBVIOUS
      <4>7. h \in Connections /\ h.client = c /\ h.buffer = <<>> /\ h.done
        BY <1>3, <1>4, <4>6, EmptySeq DEF Connections
      <4>8. p \in Peers /\ p.where = svClient[c].where /\ p.sent = sent /\ p.missed = m
        BY <1>4, <2>8, <4>6 DEF Peers
      <4>9. Reads(i, c, h, p, rest, heard)
        <5>1. svConn' = [svConn EXCEPT ![i] = h]
          BY <2>9, <4>2, <4>6
        <5>2. svClient' = [svClient EXCEPT ![c] = p]
          BY <4>2, <4>5, <4>6
        <5> QED BY <2>6, <2>10, <4>2, <5>1, <5>2 DEF Reads
      <4>10. Hears(<<>>, rest, sent, m, heard)
        <5>1. Len(heard) = 0 /\ DOMAIN heard = {}
          BY <3>1, EmptySeq
        <5>2. m + Len(heard) = m
          BY <5>1
        <5>3. <<>> \o rest = rest
          BY ConcatEmptySeq
        <5> QED BY <4>4, <4>5, <5>1, <5>2, <5>3 DEF Hears, Incomplete
      <4>11. Line(h, p.sent, p.missed, rest, heard)
        BY <4>7, <4>8, <4>10 DEF Line
      <4>12. Len(h.buffer) <= BufferSize
        BY <4>7, EmptySeq, BufferAssumption
      <4> QED BY <1>1, <1>3, <2>8, <4>7, <4>8, <4>9, <4>11, <4>12, ReadsStep
    <3>3. CASE ~(Len(buffer) >= 2 /\ svClient[c].key)
      <4>1. PICK used \in BOOLEAN :
              /\ svConn' = [svConn EXCEPT ![i].buffer = buffer, ![i].used = used]
              /\ svClient' = svClient /\ svHeard' = svHeard
        <5>1. CASE Len(buffer) >= 2
          BY <2>6, <2>12, <3>3, <5>1 DEF Handshake
        <5>2. CASE ~(Len(buffer) >= 2)
          <6>1. svConn' = [svConn EXCEPT ![i].buffer = buffer]
                /\ svClient' = svClient /\ svHeard' = svHeard
            BY <2>6, <2>12, <5>2 DEF HalfHandshake
          <6>2. svConn' = [svConn EXCEPT ![i].buffer = buffer, ![i].used = svConn[i].used]
            BY <1>4, <2>9, <6>1 DEF Connections
          <6> QED BY <1>4, <6>1, <6>2
        <5> QED BY <5>1, <5>2
      <4>2. PICK h : h = [svConn[i] EXCEPT !.buffer = buffer, !.used = used]
        OBVIOUS
      <4>3. h \in Connections /\ h.client = c /\ h.buffer = buffer /\ ~h.done
        BY <1>3, <1>4, <2>12, <4>2 DEF Connections
      <4>4. Reads(i, c, h, svClient[c], rest, heard)
        <5>1. svConn' = [svConn EXCEPT ![i] = h]
          BY <2>9, <4>1, <4>2
        <5> QED BY <2>6, <2>10, <4>1, <5>1 DEF Reads
      <4>5. Line(h, sent, missed, rest, heard)
        BY <3>1, <4>3 DEF Line
      <4>6. Len(h.buffer) <= BufferSize
        BY <2>5, <4>3
      <4> QED BY <1>1, <1>3, <1>4, <2>8, <4>3, <4>4, <4>5, <4>6, ReadsStep
    <3> QED BY <3>2, <3>3
  <2> QED BY <1>4, <2>11, <2>12
<1> QED BY <1>8, <1>9
LEMMA ServerStutters == ServerInv /\ UNCHANGED svVars => ServerInv'
<1> SUFFICES ASSUME ServerInv, UNCHANGED svVars PROVE ServerInv'
  OBVIOUS
<1>1. /\ svServer' = svServer /\ svConn' = svConn /\ svClient' = svClient
      /\ svWire' = svWire /\ svHeard' = svHeard
  BY DEF svVars
<1>2. svServer \in Rounds /\ (svServer.where # "round" => svServer.ready = {})
      /\ svServer.ready \subseteq Occupied
  BY DEF ServerInv, ServerTypes, Seats
<1> QED BY <1>1, <1>2, ServerOnly

LEMMA ServerSteps == ServerInv /\ [ServerNext]_svVars => ServerInv'
<1> SUFFICES ASSUME ServerInv, ServerNext PROVE ServerInv'
  BY ServerStutters
<1>1. ASSUME NEW c \in Clients, Client(c) PROVE ServerInv'
  <2>1. CASE ClientConnects(c)
    BY <2>1, ClientConnectsStep
  <2>2. CASE ClientLeaves(c)
    BY <2>2, ClientLeavesStep
  <2>3. CASE \E size \in {2, BufferSize + 1} : ClientSends(c, size)
    <3>1. PICK size \in FrameSizes : ClientSends(c, size)
      BY <2>3 DEF FrameSizes
    <3> QED BY <3>1, ClientSendsStep
  <2> QED BY <1>1, <2>1, <2>2, <2>3 DEF Client
<1>2. CASE websocket_server_thread
  <2>1. ASSUME NEW c \in Clients, Accept(c) PROVE ServerInv'
    BY <2>1, AcceptStep
  <2>2. ASSUME NEW i \in Slots, Receive(i) PROVE ServerInv'
    BY <2>2, ReceiveStep
  <2> QED BY <1>2, <2>1, <2>2, RoundBegins, RoundEndsStep DEF websocket_server_thread
<1> QED BY <1>1, <1>2, StopServerStep, CloseAllStep DEF ServerNext

LEMMA ServerInvHolds == ServerSpec => []ServerInv
<1>1. ServerInit => ServerInv
  BY ServerStarts
<1>2. ServerInv /\ [ServerNext]_svVars => ServerInv'
  BY ServerSteps
<1> QED BY <1>1, <1>2, PTL DEF ServerSpec

\* For any clients, slots and size of the buffers: whoever comes and goes, each client
\* that is connected sits in one slot and is counted once, and what was heard of it
\* (gateway/websocket.c), what is in its buffer and what is on its way are its own frames
\* in their order, without a gap.
THEOREM ClientsHeard == ServerSpec => []EachClientHeardInOrder
<1>1. ServerInv => EachClientHeardInOrder
  <2> SUFFICES ASSUME ServerInv PROVE EachClientHeardInOrder
    OBVIOUS
  <2>1. ServerTypeOK
    <3>1. /\ svServer.running \in BOOLEAN /\ svServer.accept \in BOOLEAN
          /\ svServer.where \in {"select", "round", "ended", "stopped"}
          /\ svServer.ready \subseteq Slots /\ svServer.count \in Nat
      BY DEF ServerInv, ServerTypes, Rounds
    <3>2. svServer.count \in 0..Cardinality(Slots)
      BY <3>1, SlotSets DEF ServerInv, Seats
    <3>3. \A c \in Clients :
             svClient[c].where \in {"away", "queued", "connected", "leaving", "closed"}
      BY DEF ServerInv, ServerTypes, Peers
    <3> QED BY <3>1, <3>2, <3>3, TypesAre DEF ServerInv, ServerTypeOK
  <2>2. ASSUME NEW c \in Clients, svClient[c].where \in {"connected", "leaving"}
        PROVE  LET mine == {i \in Slots : svConn[i].client = c}
                   sent == svClient[c].sent
                   from == svClient[c].missed + Len(svHeard[c]) IN
               /\ Cardinality(mine) = 1 /\ svServer.count = Cardinality(Occupied)
               /\ \A i \in mine : svConn[i].done =>
                    /\ svConn[i].buffer \o svWire[c] = FramesBehind(sent, from, Len(sent) - from)
                    /\ \A k \in DOMAIN svHeard[c] : svHeard[c][k] = svClient[c].missed + k
                    /\ svServer.where = "select" /\ svConn[i].buffer # <<>>
                         => Len(svConn[i].buffer) < svConn[i].buffer[1].of
    <3>1. PICK i \in Slots : svConn[i].client = c
      BY <2>2 DEF ServerInv, Seats
    <3>2. c # Nobody
      BY ClientsAssumption
    <3>3. {j \in Slots : svConn[j].client = c} = {i}
      BY <3>1, <3>2 DEF ServerInv, Seats
    <3>4. Cardinality({i}) = 1
      BY FS_Singleton
    <3>5. svServer.count = Cardinality(Occupied)
      BY <3>1, <3>2, WhoSits DEF ServerInv, Seats
    <3>6. ASSUME svConn[i].done
          PROVE  Hears(svConn[i].buffer, svWire[c], svClient[c].sent, svClient[c].missed,
                       svHeard[c])
      BY <3>1, <3>6 DEF ServerInv, Lines, Line
    <3> QED BY <3>3, <3>4, <3>5, <3>6 DEF Hears, FramesLeft, Incomplete
  <2> QED BY <2>1, <2>2 DEF EachClientHeardInOrder
<1> QED BY <1>1, ServerInvHolds, PTL

-----------------------------------------------------------------------------
(***************************************************************************)
(* Proofs about WeixinChannel, for any polling threads, messages of any    *)
(* kinds and any failure limit.  PollInv follows the cursor: what it has   *)
(* passed was handled or is in the batch of a thread.  SoloInv adds what   *)
(* holds as long as no second polling thread joined the first: messages    *)
(* are handled in order, and the context always names the latest sender.   *)
(***************************************************************************)

Elems(s) == {s[i] : i \in DOMAIN s}
Increasing(s) == \A i, j \in DOMAIN s : i < j => s[i] < s[j]

Batch(t) == Elems(wxPoller[t].batch)
Batches == UNION {Batch(t) : t \in Pollers}

\* The messages up to a cursor: handled, in a batch, or not for the agent.
Covered(n) == \A m \in 1 .. n : Wanted(m) => m \in Elems(wxHandled) \cup Batches

Tasks == [kind : {"START", "UPDATE", "END"}, answer : 1 .. MaxArrivals]

Regular(q) ==
    /\ q.where # "handle" => q.batch = <<>>
    /\ q.where \in {"inner", "waiting", "handle"} => q.failures < MaxFailures
ThreadState == \A t \in Pollers : Regular(wxPoller[t])
CursorState == Covered(wxConfig.cursor) /\ \A t \in Pollers : Covered(wxPoller[t].cursor)
ContextState ==
    /\ wxChannel.ctx # NoContext => wxChannel.ctx.message >= 1
    /\ wxHeld # NoContext => wxHeld.message >= 1 /\ wxHeld.text >= 1

PollInv == WxTypeOK /\ wxTasks \in Seq(Tasks) /\ ThreadState /\ CursorState /\ ContextState

\* One thread, which works through increasing messages behind those handled.
OnePoller == \A t, u \in StillPolling(wxPoller) : t = u
InOrder ==
    /\ Increasing(wxHandled)
    /\ \A x \in Elems(wxHandled) : x <= wxConfig.cursor
    /\ \A t \in Pollers :
         /\ Increasing(wxPoller[t].batch)
         /\ \A y \in Batch(t) : y <= wxConfig.cursor
         /\ \A x \in Elems(wxHandled), y \in Batch(t) : x < y
         /\ wxPoller[t].where = "waiting" => wxPoller[t].cursor = wxConfig.cursor

\* What the agent answers was handled, and the context is of the latest handled.
LatestSender ==
    /\ Elems(wxInbox) \subseteq Elems(wxHandled)
    /\ wxReply # 0 => wxReply \in Elems(wxHandled)
    /\ \A i \in DOMAIN wxTasks : wxTasks[i].answer \in Elems(wxHandled)
    /\ wxChannel.ctx # NoContext =>
         \A x \in Elems(wxHandled) : x <= wxChannel.ctx.message
    /\ wxChannel.ctx.text <= wxChannel.ctx.message
    /\ wxHeld.text <= wxHeld.message
    /\ \A s \in wxSent : s.to >= s.answer

SoloInv == ~wxShared => OnePoller /\ InOrder /\ LatestSender

-----------------------------------------------------------------------------
(* Sequences, as the sets of their elements. *)

LEMMA ElemsAppend ==
    ASSUME NEW S, NEW s \in Seq(S), NEW x, NEW a, a = Append(s, x)
    PROVE  \A y : y \in Elems(a) <=> y \in Elems(s) \/ y = x
<1>1. /\ Len(s) \in Nat
      /\ \A i \in 1 .. Len(s) : a[i] = s[i]
      /\ a[Len(s) + 1] = x
      /\ DOMAIN a = 1 .. Len(s) + 1 /\ DOMAIN s = 1 .. Len(s)
  OBVIOUS
<1>2. \A i \in DOMAIN a : a[i] \in Elems(s) \/ a[i] = x
  BY <1>1 DEF Elems
<1>3. \A i \in DOMAIN s : s[i] \in Elems(a)
  BY <1>1 DEF Elems
<1>4. x \in Elems(a)
  <2>1. Len(s) + 1 \in DOMAIN a
    BY <1>1
  <2> QED BY <2>1, <1>1 DEF Elems
<1> QED BY <1>2, <1>3, <1>4 DEF Elems

LEMMA ElemsTail ==
    ASSUME NEW S, NEW s \in Seq(S), s # <<>>
    PROVE  /\ Head(s) \in S /\ Tail(s) \in Seq(S)
           /\ Head(s) \in Elems(s)
           /\ Elems(s) = Elems(Tail(s)) \cup {Head(s)}
<1> DEFINE r == Tail(s)
<1>1. /\ r \in Seq(S) /\ Len(s) \in Nat \ {0} /\ Len(r) = Len(s) - 1
      /\ \A i \in 1 .. Len(r) : r[i] = s[i + 1]
      /\ Head(s) = s[1] /\ Head(s) \in S
      /\ DOMAIN r = 1 .. Len(r) /\ DOMAIN s = 1 .. Len(s)
  OBVIOUS
<1> HIDE DEF r
<1>2. \A i \in DOMAIN r : r[i] \in Elems(s)
  <2>1. \A i \in DOMAIN r : i + 1 \in DOMAIN s
    BY <1>1
  <2> QED BY <2>1, <1>1 DEF Elems
<1>3. \A i \in DOMAIN s : s[i] \in Elems(r) \cup {Head(s)}
  <2> SUFFICES ASSUME NEW i \in DOMAIN s, i # 1
               PROVE  s[i] \in Elems(r)
    BY <1>1
  <2>1. PICK j \in DOMAIN r : i = j + 1
    <3>1. i - 1 \in DOMAIN r /\ i = (i - 1) + 1
      BY <1>1
    <3> QED BY <3>1
  <2> QED BY <2>1, <1>1 DEF Elems
<1>4. Head(s) \in Elems(s)
  BY <1>1 DEF Elems
<1> QED BY <1>1, <1>2, <1>3, <1>4 DEF Elems, r

\* What is in a batch or handled is still so when its first message is handled.
LEMMA IncreasingTail ==
    ASSUME NEW s \in Seq(Nat), s # <<>>, Increasing(s)
    PROVE  Increasing(Tail(s)) /\ \A y \in Elems(Tail(s)) : Head(s) < y
<1> DEFINE r == Tail(s)
<1>1. /\ Len(s) \in Nat \ {0}
      /\ \A i \in DOMAIN r : i \in Nat \ {0} /\ i + 1 \in DOMAIN s /\ r[i] = s[i + 1]
      /\ Head(s) = s[1] /\ 1 \in DOMAIN s
  OBVIOUS
<1> HIDE DEF r
<1>2. Increasing(r)
  <2> SUFFICES ASSUME NEW i \in DOMAIN r, NEW j \in DOMAIN r, i < j
               PROVE  r[i] < r[j]
    BY DEF Increasing
  <2>1. i + 1 < j + 1
    BY <1>1
  <2> QED BY <2>1, <1>1 DEF Increasing
<1>3. \A i \in DOMAIN r : Head(s) < r[i]
  <2> SUFFICES ASSUME NEW i \in DOMAIN r
               PROVE  Head(s) < r[i]
    OBVIOUS
  <2>1. 1 < i + 1
    BY <1>1
  <2> QED BY <2>1, <1>1 DEF Increasing
<1> QED BY <1>2, <1>3 DEF Elems, r

LEMMA IncreasingAppend ==
    ASSUME NEW s \in Seq(Nat), NEW x \in Nat, Increasing(s),
           \A y \in Elems(s) : y < x, NEW a, a = Append(s, x)
    PROVE  Increasing(a)
<1>1. /\ \A i \in DOMAIN a : i \in Nat /\ (i \in DOMAIN s \/ i = Len(s) + 1)
      /\ \A i \in DOMAIN s : a[i] = s[i] /\ i <= Len(s) /\ i \in Nat
      /\ a[Len(s) + 1] = x /\ Len(s) \in Nat
  OBVIOUS
<1>2. \A i \in DOMAIN s : s[i] < x
  BY DEF Elems
<1> SUFFICES ASSUME NEW i \in DOMAIN a, NEW j \in DOMAIN a, i < j
             PROVE  a[i] < a[j]
  BY DEF Increasing
<1>3. i \in DOMAIN s
  BY <1>1
<1> QED BY <1>1, <1>2, <1>3 DEF Increasing

\* The batch that getupdates delivers: the messages between two cursors.
LEMMA Delivered ==
    ASSUME NEW c \in 0 .. MaxArrivals, NEW n \in c .. MaxArrivals,
           MaxArrivals \in Nat
    PROVE  LET b == [i \in 1 .. n - c |-> c + i] IN
           /\ b \in Seq(1 .. MaxArrivals)
           /\ Elems(b) = (c + 1) .. n
           /\ Increasing(b)
<1> DEFINE b == [i \in 1 .. n - c |-> c + i]
<1>1. c \in Nat /\ n \in Nat /\ n - c \in Nat
  OBVIOUS
<1>2. b \in Seq(1 .. MaxArrivals)
  <2>1. \A i \in 1 .. n - c : c + i \in 1 .. MaxArrivals
    BY <1>1
  <2> QED BY <1>1, <2>1
<1>3. Elems(b) = (c + 1) .. n
  <2>1. \A i \in 1 .. n - c : c + i \in (c + 1) .. n
    BY <1>1
  <2>2. \A m \in (c + 1) .. n : m - c \in 1 .. n - c /\ m = c + (m - c)
    BY <1>1
  <2> QED BY <2>1, <2>2 DEF Elems
<1>4. Increasing(b)
  BY <1>1 DEF Increasing
<1> QED BY <1>2, <1>3, <1>4

-----------------------------------------------------------------------------
(* The cursor. *)

WxPlaces == {"none", "outer", "login", "scan", "inner", "waiting", "handle", "left", "ended"}
PollerStates == [where : WxPlaces, failures : 0 .. MaxFailures,
                 cursor : 0 .. MaxArrivals, batch : Seq(1 .. MaxArrivals)]

LEMMA PollInit == WxInit => PollInv
<1> SUFFICES ASSUME WxInit PROVE PollInv
  OBVIOUS
<1>1. MaxArrivals \in Nat /\ MaxFailures \in Nat \ {0}
  BY WeixinAssumption
<1>2. \A t \in Pollers : wxPoller[t] \in PollerStates /\ wxPoller[t].batch = <<>>
                         /\ wxPoller[t].cursor = 0 /\ wxPoller[t].failures = 0
  BY <1>1 DEF WxInit, PollerStates, WxPlaces, NewThread
<1>3. wxPoller \in [Pollers -> PollerStates]
  BY <1>2 DEF WxInit
<1>4. WxTypeOK
  <2>1. NoContext \in Contexts
    BY <1>1 DEF NoContext, Context, Contexts
  <2>2. /\ wxChannel \in [enabled : BOOLEAN, connected : BOOLEAN, ctx : Contexts]
        /\ wxConfig \in [loggedIn : BOOLEAN, cursor : 0 .. MaxArrivals]
        /\ wxHeld \in Contexts
    BY <1>1, <2>1 DEF WxInit
  <2>3. wxArrived \in 0 .. MaxArrivals /\ wxReply \in 0 .. MaxArrivals
    BY <1>1 DEF WxInit
  <2>4. wxInbox \in Seq(1 .. MaxArrivals) /\ wxHandled \in Seq(1 .. MaxArrivals)
    BY DEF WxInit
  <2>5. /\ wxBroken \in BOOLEAN /\ wxShared \in BOOLEAN
        /\ wxSent \subseteq [answer : 1 .. MaxArrivals, to : 1 .. MaxArrivals]
    BY DEF WxInit
  <2> QED BY <1>3, <2>2, <2>3, <2>4, <2>5 DEF WxTypeOK, PollerStates, WxPlaces
<1>5. CursorState
  BY <1>2 DEF WxInit, CursorState, Covered
<1>6. ThreadState /\ ContextState /\ wxTasks \in Seq(Tasks)
  BY <1>1, <1>2 DEF WxInit, ThreadState, ContextState, Regular, NewThread
<1> QED
  BY <1>4, <1>5, <1>6 DEF PollInv

\* A step of one thread that leaves its batch and moves its cursor to where the
\* cursors of the threads and of the configuration are covered anyway.
LEMMA ThreadMoves ==
    ASSUME PollInv, NEW t \in Pollers, NEW q \in PollerStates,
           wxPoller' = [wxPoller EXCEPT ![t] = q],
           q.batch = wxPoller[t].batch, Regular(q), Covered(q.cursor),
           wxConfig' \in [loggedIn : BOOLEAN, cursor : {wxConfig.cursor}],
           UNCHANGED wxHandled
    PROVE  /\ wxPoller' \in [Pollers -> PollerStates]
           /\ ThreadState' /\ CursorState'
           /\ \A u \in Pollers : wxPoller'[u].batch = wxPoller[u].batch
<1>1. wxPoller \in [Pollers -> PollerStates]
  BY DEF PollInv, WxTypeOK, PollerStates, WxPlaces
<1>2. /\ wxPoller' \in [Pollers -> PollerStates]
      /\ wxPoller'[t] = q /\ \A u \in Pollers \ {t} : wxPoller'[u] = wxPoller[u]
  BY <1>1
<1>3. \A u \in Pollers : wxPoller'[u].batch = wxPoller[u].batch
  BY <1>2
<1>4. ThreadState'
  BY <1>2 DEF ThreadState, PollInv
<1>5. Batches' = Batches /\ Elems(wxHandled)' = Elems(wxHandled)
  BY <1>3 DEF Batches, Batch
<1>6. \A n : Covered(n)' <=> Covered(n)
  BY <1>5 DEF Covered
<1>7. CursorState'
  <2>1. Covered(wxConfig.cursor) /\ wxConfig'.cursor = wxConfig.cursor
    BY DEF PollInv, CursorState
  <2>2. \A u \in Pollers : Covered(wxPoller'[u].cursor)
    BY <1>2 DEF PollInv, CursorState
  <2> QED BY <1>6, <2>1, <2>2 DEF CursorState
<1> QED BY <1>2, <1>3, <1>4, <1>7

\* The steps of a thread that receives nothing and handles nothing.
PlainStep(t) ==
    \/ OuterTest(t) \/ GetQrcode(t) \/ ScanConfirmed(t) \/ ScanGivenUp(t)
    \/ AskUpdates(t) \/ GetUpdatesFails(t) \/ BatchDone(t) \/ AfterPolling(t)

LEMMA PlainStepMoves ==
    ASSUME PollInv, NEW t \in Pollers, StartPoller(t) \/ PlainStep(t)
    PROVE  \E q \in PollerStates :
             /\ wxPoller' = [wxPoller EXCEPT ![t] = q]
             /\ q.batch = wxPoller[t].batch /\ Regular(q)
             /\ q.cursor \in {0, wxPoller[t].cursor, wxConfig.cursor}
             /\ q.where = "waiting" => q.cursor = wxConfig.cursor
             /\ q.where \notin {"none", "ended"} /\ wxPoller[t].where \in {"none", "ended"}
                  => wxShared' = (wxShared \/ StillPolling(wxPoller) # {})
<1> DEFINE p == wxPoller[t]
           Goal(q) == /\ wxPoller' = [wxPoller EXCEPT ![t] = q]
                      /\ q \in PollerStates
                      /\ q.batch = p.batch /\ Regular(q)
                      /\ q.cursor \in {0, p.cursor, wxConfig.cursor}
                      /\ q.where = "waiting" => q.cursor = wxConfig.cursor
                      /\ q.where \notin {"none", "ended"} /\ p.where \in {"none", "ended"}
                           => wxShared' = (wxShared \/ StillPolling(wxPoller) # {})
<1>1. /\ 0 \in 0 .. MaxFailures /\ 0 < MaxFailures /\ 0 \in 0 .. MaxArrivals
      /\ MaxFailures \in Nat \ {0} /\ MaxArrivals \in Nat
      /\ wxPoller \in [Pollers -> PollerStates] /\ p \in PollerStates
      /\ Regular(p) /\ wxConfig.cursor \in 0 .. MaxArrivals
  BY WeixinAssumption DEF PollInv, WxTypeOK, PollerStates, WxPlaces, ThreadState
<1>2. CASE StartPoller(t)
  <2>1. Goal(NewThread("outer"))
    BY <1>1, <1>2 DEF StartPoller, NewThread, PollerStates, WxPlaces, Regular
  <2> QED BY <2>1
<1>3. ASSUME NEW w \in WxPlaces \ {"inner", "waiting", "handle"}, Go(t, w),
             p.where \notin {"none", "ended", "handle"}
      PROVE  Goal([p EXCEPT !.where = w])
  BY <1>1, <1>3 DEF Go, PollerStates, WxPlaces, Regular
<1>4. ASSUME StartPolling(t), p.where \notin {"none", "ended", "handle"}
      PROVE  Goal([p EXCEPT !.where = "inner", !.failures = 0])
  BY <1>1, <1>4 DEF StartPolling, PollerStates, WxPlaces, Regular
<1>5. CASE OuterTest(t) \/ GetQrcode(t) \/ ScanConfirmed(t) \/ ScanGivenUp(t) \/ AfterPolling(t)
  <2>1. p.where \in {"outer", "login", "scan", "left"}
    BY <1>5 DEF OuterTest, GetQrcode, ScanConfirmed, ScanGivenUp, AfterPolling
  <2>2. (\E w \in {"ended", "login", "scan", "outer"} : Go(t, w)) \/ StartPolling(t)
    BY <1>5 DEF OuterTest, GetQrcode, ScanConfirmed, ScanGivenUp, AfterPolling
  <2>3. CASE StartPolling(t)
    BY <2>1, <2>3, <1>4
  <2>4. CASE \E w \in {"ended", "login", "scan", "outer"} : Go(t, w)
    <3>1. PICK w \in {"ended", "login", "scan", "outer"} : Go(t, w)
      BY <2>4
    <3>2. w \in WxPlaces \ {"inner", "waiting", "handle"}
      BY <3>1 DEF WxPlaces
    <3> QED BY <2>1, <3>1, <3>2, <1>3
  <2> QED BY <2>2, <2>3, <2>4
<1>6. CASE AskUpdates(t)
  <2>1. CASE Go(t, "left")
    <3>1. p.where = "inner" /\ "left" \in WxPlaces \ {"inner", "waiting", "handle"}
      BY <1>6 DEF AskUpdates, WxPlaces
    <3> QED BY <2>1, <3>1, <1>3
  <2>2. CASE wxPoller' = [wxPoller EXCEPT ![t].where = "waiting",
                                          ![t].cursor = wxConfig.cursor]
    <3>1. p.where = "inner"
      BY <1>6 DEF AskUpdates
    <3>2. Goal([p EXCEPT !.where = "waiting", !.cursor = wxConfig.cursor])
      BY <1>1, <2>2, <3>1 DEF PollerStates, WxPlaces, Regular
    <3> QED BY <3>2
  <2> QED BY <1>6, <2>1, <2>2 DEF AskUpdates
<1>7. CASE GetUpdatesFails(t)
  <2> DEFINE n == p.failures + 1
             w == IF n >= MaxFailures THEN "left" ELSE "inner"
  <2>1. /\ p.where = "waiting" /\ n \in 0 .. MaxFailures
        /\ wxPoller' = [wxPoller EXCEPT ![t].failures = n, ![t].where = w]
        /\ p.batch = <<>>
    BY <1>1, <1>7 DEF GetUpdatesFails, Regular, PollerStates
  <2>2. w \in {"left", "inner"} /\ (w = "inner" => n < MaxFailures)
    BY <1>1, <2>1
  <2> HIDE DEF n, w
  <2>3. Goal([p EXCEPT !.failures = n, !.where = w])
    BY <1>1, <2>1, <2>2 DEF PollerStates, WxPlaces, Regular
  <2> QED BY <2>3
<1>8. CASE BatchDone(t)
  <2>1. p.where = "handle" /\ p.batch = <<>>
        /\ wxPoller' = [wxPoller EXCEPT ![t].where = "inner", ![t].cursor = 0]
    BY <1>8 DEF BatchDone
  <2>2. Goal([p EXCEPT !.where = "inner", !.cursor = 0])
    BY <1>1, <2>1 DEF PollerStates, WxPlaces, Regular
  <2> QED BY <2>2
<1> QED BY <1>2, <1>5, <1>6, <1>7, <1>8 DEF PlainStep

\* A plain step in the form of ThreadMoves.
LEMMA PlainStepKeeps ==
    ASSUME PollInv, NEW t \in Pollers, StartPoller(t) \/ PlainStep(t),
           wxConfig' \in [loggedIn : BOOLEAN, cursor : {wxConfig.cursor}],
           UNCHANGED wxHandled
    PROVE  /\ wxPoller' \in [Pollers -> PollerStates]
           /\ ThreadState' /\ CursorState'
           /\ \A u \in Pollers : wxPoller'[u].batch = wxPoller[u].batch
<1>1. PICK q \in PollerStates :
        /\ wxPoller' = [wxPoller EXCEPT ![t] = q]
        /\ q.batch = wxPoller[t].batch /\ Regular(q)
        /\ q.cursor \in {0, wxPoller[t].cursor, wxConfig.cursor}
  BY PlainStepMoves
<1>2. Covered(q.cursor)
  <2>1. Covered(0)
    BY DEF Covered
  <2> QED BY <1>1, <2>1 DEF PollInv, CursorState
<1> QED BY <1>1, <1>2, ThreadMoves

\* The configuration changes in its login only, the history not at all.
LEMMA PlainStepFrame ==
    ASSUME PollInv, NEW t \in Pollers, PlainStep(t),
           UNCHANGED <<wxArrived, wxReply, wxTasks, wxHeld, wxBroken, wxSent, wxShared>>
    PROVE  /\ wxConfig' \in [loggedIn : BOOLEAN, cursor : {wxConfig.cursor}]
           /\ wxChannel' \in [enabled : BOOLEAN, connected : BOOLEAN, ctx : {wxChannel.ctx}]
           /\ UNCHANGED <<wxArrived, wxInbox, wxReply, wxTasks, wxHeld, wxBroken,
                          wxHandled, wxSent, wxShared>>
<1>1. /\ wxConfig \in [loggedIn : BOOLEAN, cursor : 0 .. MaxArrivals]
      /\ wxChannel \in [enabled : BOOLEAN, connected : BOOLEAN, ctx : Contexts]
  BY DEF PollInv, WxTypeOK
<1>2. CASE ScanConfirmed(t)
  BY <1>1, <1>2 DEF ScanConfirmed
<1>3. CASE GetUpdatesFails(t)
  BY <1>1, <1>3 DEF GetUpdatesFails
<1>4. CASE \/ OuterTest(t) \/ GetQrcode(t) \/ ScanGivenUp(t)
           \/ AskUpdates(t) \/ BatchDone(t) \/ AfterPolling(t)
  BY <1>1, <1>4 DEF OuterTest, GetQrcode, ScanGivenUp, AskUpdates, BatchDone, AfterPolling,
     WxMemory
<1> QED BY <1>2, <1>3, <1>4 DEF PlainStep

\* The cursor moves behind the messages that the thread has in its batch now.
LEMMA GetUpdatesStep ==
    ASSUME PollInv, NEW t \in Pollers, GetUpdates(t)
    PROVE  /\ wxPoller' \in [Pollers -> PollerStates]
           /\ wxConfig' \in [loggedIn : BOOLEAN, cursor : 0 .. MaxArrivals]
           /\ ThreadState' /\ CursorState'
           /\ wxPoller[t].cursor <= wxConfig'.cursor
           /\ \A u \in Pollers \ {t} : wxPoller'[u] = wxPoller[u]
           /\ wxPoller'[t].where = "handle" /\ wxPoller[t].where = "waiting"
           /\ Batch(t)' = (wxPoller[t].cursor + 1) .. wxConfig'.cursor
           /\ Increasing(wxPoller'[t].batch)
<1> DEFINE p == wxPoller[t]
           c == p.cursor
<1>1. /\ 0 \in 0 .. MaxFailures /\ 0 < MaxFailures /\ MaxArrivals \in Nat
      /\ wxPoller \in [Pollers -> PollerStates] /\ p \in PollerStates
      /\ c \in 0 .. MaxArrivals
      /\ p.batch = <<>> /\ p.where = "waiting"
      /\ wxConfig \in [loggedIn : BOOLEAN, cursor : 0 .. MaxArrivals]
      /\ wxArrived \in 0 .. MaxArrivals
  BY WeixinAssumption DEF PollInv, WxTypeOK, PollerStates, WxPlaces, ThreadState, Regular, GetUpdates
<1>2. PICK n \in c .. wxArrived :
        /\ wxConfig' = [wxConfig EXCEPT !.cursor = n]
        /\ wxPoller' = [wxPoller EXCEPT
             ![t].where = "handle", ![t].failures = 0,
             ![t].batch = [i \in 1 .. n - c |-> c + i]]
  BY DEF GetUpdates
<1> DEFINE b == [i \in 1 .. n - c |-> c + i]
<1>3. n \in c .. MaxArrivals /\ n \in 0 .. MaxArrivals /\ c <= n
  BY <1>1, <1>2
<1>4. b \in Seq(1 .. MaxArrivals) /\ Elems(b) = (c + 1) .. n /\ Increasing(b)
  BY <1>1, <1>3, Delivered
<1>5. wxPoller' = [wxPoller EXCEPT ![t].where = "handle", ![t].failures = 0, ![t].batch = b]
  BY <1>2
<1> HIDE DEF b
<1>6. /\ wxPoller'[t].where = "handle" /\ wxPoller'[t].failures = 0
      /\ wxPoller'[t].batch = b /\ wxPoller'[t].cursor = c
      /\ \A u \in Pollers \ {t} : wxPoller'[u] = wxPoller[u]
  BY <1>1, <1>5 DEF PollerStates
<1>7. wxPoller' \in [Pollers -> PollerStates]
  BY <1>1, <1>4, <1>5 DEF PollerStates, WxPlaces
<1>8. ThreadState'
  BY <1>1, <1>6 DEF ThreadState, Regular, PollInv
<1>9. /\ wxConfig' \in [loggedIn : BOOLEAN, cursor : 0 .. MaxArrivals]
      /\ wxConfig'.cursor = n /\ UNCHANGED wxHandled
  BY <1>1, <1>2, <1>3 DEF GetUpdates
<1>10. Batch(t)' = (c + 1) .. n
  BY <1>4, <1>6 DEF Batch
<1>11. Batches \subseteq Batches'
  <2>1. Batch(t) = {}
    BY <1>1 DEF Batch, Elems
  <2>2. \A u \in Pollers \ {t} : Batch(u)' = Batch(u)
    BY <1>6 DEF Batch
  <2> QED BY <2>1, <2>2 DEF Batches
<1>12. \A m : Covered(m) => Covered(m)'
  BY <1>9, <1>11 DEF Covered
<1>13. Covered(n)'
  <2> SUFFICES ASSUME NEW m \in 1 .. n, Wanted(m)
               PROVE  m \in Elems(wxHandled)' \cup Batches'
    BY DEF Covered
  <2>1. CASE m \in 1 .. c
    BY <1>12, <2>1 DEF PollInv, CursorState, Covered
  <2>2. CASE m \in (c + 1) .. n
    BY <1>10, <2>2 DEF Batches
  <2> QED BY <1>1, <1>3, <2>1, <2>2
<1>14. CursorState'
  <2>1. \A u \in Pollers : wxPoller'[u].cursor = wxPoller[u].cursor
    BY <1>6
  <2>2. \A u \in Pollers : \A k : k = wxPoller[u].cursor => Covered(k)'
    BY <1>12 DEF PollInv, CursorState
  <2> QED BY <1>9, <1>13, <2>1, <2>2 DEF CursorState, Covered
<1> QED BY <1>3, <1>4, <1>6, <1>7, <1>8, <1>9, <1>10, <1>14, <1>1

\* A message leaves the batch; it is handled then, or nobody wants it.
LEMMA HandleMessageStep ==
    ASSUME PollInv, NEW t \in Pollers, HandleMessage(t)
    PROVE  LET m == Head(wxPoller[t].batch) IN
           /\ wxPoller' \in [Pollers -> PollerStates]
           /\ m \in 1 .. MaxArrivals /\ m \in Batch(t)
           /\ ThreadState' /\ CursorState'
           /\ wxPoller[t].where = "handle"
           /\ \A u \in Pollers \ {t} : wxPoller'[u] = wxPoller[u]
           /\ wxPoller'[t] = [wxPoller[t] EXCEPT !.batch = Tail(@)]
           /\ Batch(t) = Batch(t)' \cup {m}
<1> DEFINE p == wxPoller[t]
           m == Head(p.batch)
<1>1. /\ wxPoller \in [Pollers -> PollerStates] /\ p \in PollerStates
      /\ p.batch \in Seq(1 .. MaxArrivals) /\ p.batch # <<>> /\ p.where = "handle"
      /\ wxHandled \in Seq(1 .. MaxArrivals)
      /\ wxPoller' = [wxPoller EXCEPT ![t].batch = Tail(@)]
      /\ UNCHANGED wxConfig
  BY DEF PollInv, WxTypeOK, PollerStates, WxPlaces, HandleMessage
<1>2. /\ m \in 1 .. MaxArrivals /\ Tail(p.batch) \in Seq(1 .. MaxArrivals)
      /\ m \in Elems(p.batch)
      /\ Elems(p.batch) = Elems(Tail(p.batch)) \cup {m}
  BY <1>1, ElemsTail
<1> DEFINE r == Tail(p.batch)
<1>3. wxPoller' = [wxPoller EXCEPT ![t].batch = r]
  BY <1>1
<1> HIDE DEF m, r
<1>3a. /\ wxPoller' \in [Pollers -> PollerStates]
       /\ wxPoller'[t] = [p EXCEPT !.batch = r]
  BY <1>1, <1>2, <1>3 DEF PollerStates, r
<1>4. /\ wxPoller' \in [Pollers -> PollerStates]
      /\ wxPoller'[t] = [p EXCEPT !.batch = r]
      /\ wxPoller'[t].batch = r /\ wxPoller'[t].cursor = p.cursor
      /\ wxPoller'[t].where = "handle" /\ wxPoller'[t].failures = p.failures
      /\ \A u \in Pollers \ {t} : wxPoller'[u] = wxPoller[u]
  BY <1>1, <1>3, <1>3a DEF PollerStates
<1>5. ThreadState'
  <2>1. Regular(p)
    BY DEF PollInv, ThreadState
  <2>2. Regular(wxPoller'[t])
    BY <1>1, <1>4, <2>1 DEF Regular
  <2> QED BY <1>4, <2>2 DEF PollInv, ThreadState
<1>6. Batch(t) = Batch(t)' \cup {m} /\ m \in Batch(t)
  BY <1>2, <1>4 DEF Batch, r
<1>7. /\ Elems(wxHandled) \subseteq Elems(wxHandled)'
      /\ Wanted(m) => m \in Elems(wxHandled)'
  <2>1. CASE Wanted(m)
    <3>1. wxHandled' = Append(wxHandled, m)
      BY <2>1 DEF HandleMessage, Wanted, m
    <3>2. wxHandled \in Seq(1 .. MaxArrivals) /\ m \in 1 .. MaxArrivals
      BY <1>1, <1>2
    <3>3. \A y : y \in Elems(wxHandled') <=> y \in Elems(wxHandled) \/ y = m
      BY <3>1, <3>2, ElemsAppend
    <3> QED BY <3>3 DEF Elems
  <2>2. CASE ~Wanted(m)
    BY <2>2 DEF HandleMessage, Wanted, m
  <2> QED BY <2>1, <2>2
<1>8. \A u \in Pollers \ {t} : Batch(u)' = Batch(u)
  BY <1>4 DEF Batch
<1>9. Batches \subseteq Batches' \cup {m}
  BY <1>6, <1>8 DEF Batches
<1>10. \A n : Covered(n) => Covered(n)'
  BY <1>7, <1>9 DEF Covered
<1>11. CursorState'
  <2>1. \A u \in Pollers : wxPoller'[u].cursor = wxPoller[u].cursor
    BY <1>4
  <2>2. \A u \in Pollers : \A k : k = wxPoller[u].cursor => Covered(k)'
    BY <1>10 DEF PollInv, CursorState
  <2>3. \A k : k = wxConfig.cursor => Covered(k)'
    BY <1>10 DEF PollInv, CursorState
  <2> QED BY <1>1, <2>1, <2>2, <2>3 DEF CursorState, Covered
<1> QED BY <1>1, <1>2, <1>4, <1>5, <1>6, <1>11 DEF m, r

\* What the steps of the operator, the server, the agent and the pool thread leave
\* alone: the threads, the cursor, the history.
LEMMA OthersKeep ==
    ASSUME PollInv, UNCHANGED <<wxConfig, wxPoller, wxHandled>>
    PROVE  ThreadState' /\ CursorState'
BY DEF PollInv, ThreadState, CursorState, Covered, Batches, Batch, Elems

\* Contexts: the types of the records that the callbacks read and write.
LEMMA ContextFields ==
    ASSUME PollInv
    PROVE  /\ wxChannel \in [enabled : BOOLEAN, connected : BOOLEAN, ctx : Contexts]
           /\ wxChannel.ctx \in Contexts /\ wxHeld \in Contexts /\ NoContext \in Contexts
           /\ wxChannel.ctx.text # 0 => wxChannel.ctx # NoContext /\ wxChannel.ctx.text >= 1
           /\ NoContext.text = 0 /\ NoContext.message = 0
BY WeixinAssumption DEF PollInv, WxTypeOK, Contexts, NoContext, Context

\* The steps of the agent and of the pool thread, and the arrival of a message.
LEMMA SurroundingsStep ==
    ASSUME PollInv, WxSurroundings
    PROVE  PollInv'
<1>1. ThreadState' /\ CursorState'
  BY OthersKeep DEF WxSurroundings
<1>2. /\ MaxArrivals \in Nat /\ wxArrived \in 0 .. MaxArrivals /\ wxReply \in 0 .. MaxArrivals
      /\ wxInbox \in Seq(1 .. MaxArrivals) /\ wxTasks \in Seq(Tasks)
      /\ wxSent \subseteq [answer : 1 .. MaxArrivals, to : 1 .. MaxArrivals]
      /\ wxBroken \in BOOLEAN
  BY WeixinAssumption DEF PollInv, WxTypeOK
<1> DEFINE Later == /\ wxArrived' \in 0 .. MaxArrivals /\ wxReply' \in 0 .. MaxArrivals
                   /\ wxInbox' \in Seq(1 .. MaxArrivals) /\ wxTasks' \in Seq(Tasks)
                   /\ wxSent' \subseteq [answer : 1 .. MaxArrivals, to : 1 .. MaxArrivals]
                   /\ wxBroken' \in BOOLEAN
                   /\ wxChannel' \in [enabled : BOOLEAN, connected : BOOLEAN, ctx : Contexts]
                   /\ wxHeld' \in Contexts
                   /\ ContextState'
<1>3. Later => PollInv'
  BY <1>1 DEF PollInv, WxTypeOK, WxSurroundings
<1>4. CASE WxArrive
  <2>1. wxArrived' \in 0 .. MaxArrivals
    BY <1>2, <1>4 DEF WxArrive
  <2> QED BY <1>2, <1>3, <1>4, <2>1, ContextFields DEF WxArrive, ContextState, PollInv
<1>5. CASE WxBeginReply
  <2>1. Head(wxInbox) \in 1 .. MaxArrivals /\ Tail(wxInbox) \in Seq(1 .. MaxArrivals)
    BY <1>2, <1>5 DEF WxBeginReply
  <2>2. wxReply' \in 0 .. MaxArrivals
    BY <1>2, <1>5, <2>1 DEF WxBeginReply
  <2>3. wxTasks' \in Seq(Tasks)
    <3> DEFINE e == [kind |-> "START", answer |-> Head(wxInbox)]
    <3>1. wxTasks' = wxTasks \/ wxTasks' = Append(wxTasks, e)
      BY <1>5 DEF WxBeginReply
    <3>2. e \in Tasks
      BY <2>1 DEF Tasks
    <3> HIDE DEF e
    <3>3. Append(wxTasks, e) \in Seq(Tasks)
      BY <1>2, <3>2
    <3> QED BY <1>2, <3>1, <3>3
  <2> QED BY <1>2, <1>3, <1>5, <2>1, <2>2, <2>3, ContextFields
        DEF WxBeginReply, ContextState, PollInv
<1>6. CASE WxEndReply
  <2>1. wxTasks' \in Seq(Tasks)
    <3>1. [kind |-> "UPDATE", answer |-> wxReply] \in Tasks
          /\ [kind |-> "END", answer |-> wxReply] \in Tasks
      BY <1>2, <1>6 DEF Tasks, WxEndReply
    <3> DEFINE u == [kind |-> "UPDATE", answer |-> wxReply]
               e == [kind |-> "END", answer |-> wxReply]
    <3>2. wxTasks' = Append(wxTasks, e) \/ wxTasks' = wxTasks \o <<u, e>>
      BY <1>6 DEF WxEndReply
    <3>3. u \in Tasks /\ e \in Tasks
      BY <3>1
    <3> HIDE DEF u, e
    <3>4. <<u, e>> \in Seq(Tasks)
      BY <3>3
    <3>5. wxTasks \o <<u, e>> \in Seq(Tasks)
      BY <1>2, <3>4
    <3>6. Append(wxTasks, e) \in Seq(Tasks)
      BY <1>2, <3>3
    <3> QED BY <3>2, <3>5, <3>6
  <2> QED BY <1>2, <1>3, <1>6, <2>1, ContextFields DEF WxEndReply, ContextState, PollInv
<1>7. CASE Accumulate
  <2>1. Head(wxTasks) \in Tasks /\ Tail(wxTasks) \in Seq(Tasks)
    BY <1>2, <1>7 DEF Accumulate
  <2>2. Head(wxTasks).answer \in 1 .. MaxArrivals
    BY <2>1 DEF Tasks
  <2>3. CASE wxChannel.ctx = NoContext
    BY <1>2, <1>3, <1>7, <2>1, <2>3, ContextFields DEF Accumulate, ContextState, PollInv
  <2>4. CASE wxChannel.ctx # NoContext
    <3>1. wxChannel' = [wxChannel EXCEPT !.ctx.text = Head(wxTasks).answer]
      BY <1>7, <2>4 DEF Accumulate
    <3>2. PICK c \in Contexts : c = [wxChannel.ctx EXCEPT !.text = Head(wxTasks).answer]
                                 /\ c.message = wxChannel.ctx.message
      <4>1. Head(wxTasks).answer \in 0 .. MaxArrivals
        BY <1>2, <2>2
      <4>2. \A d \in Contexts, k \in 0 .. MaxArrivals :
              [d EXCEPT !.text = k] \in Contexts /\ [d EXCEPT !.text = k].message = d.message
        BY DEF Contexts
      <4> QED BY <4>1, <4>2, ContextFields, Zenon
    <3>3. wxChannel' = [wxChannel EXCEPT !.ctx = c]
      BY <3>1, <3>2, ContextFields
    <3>4. /\ wxChannel' \in [enabled : BOOLEAN, connected : BOOLEAN, ctx : Contexts]
          /\ wxChannel'.ctx.message = wxChannel.ctx.message
      BY <3>2, <3>3, ContextFields
    <3> QED BY <1>2, <1>3, <1>7, <2>1, <2>4, <3>4, ContextFields
          DEF Accumulate, ContextState, PollInv
  <2> QED BY <2>3, <2>4
<1>8. CASE EndQuietly
  <2>1. Tail(wxTasks) \in Seq(Tasks)
    BY <1>2, <1>8 DEF EndQuietly
  <2> QED BY <1>2, <1>3, <1>8, <2>1, ContextFields DEF EndQuietly, ContextState, PollInv
<1>9. CASE EndSends
  <2>1. wxHeld' # NoContext => wxHeld'.message >= 1 /\ wxHeld'.text >= 1
    BY <1>9, ContextFields DEF EndSends, PollInv, ContextState
  <2> QED BY <1>2, <1>3, <1>9, <2>1, ContextFields DEF EndSends, ContextState, PollInv
<1>10. CASE EndFrees
  <2>1. Tail(wxTasks) \in Seq(Tasks)
    <3>1. CASE wxTasks = <<>>
      BY <1>2, <3>1
    <3>2. CASE wxTasks # <<>>
      BY <1>2, <3>2
    <3> QED BY <3>1, <3>2
  <2>2. [answer |-> wxHeld.text, to |-> wxHeld.message]
          \in [answer : 1 .. MaxArrivals, to : 1 .. MaxArrivals]
    <3>1. wxHeld.text \in 1 .. MaxArrivals /\ wxHeld.message \in 1 .. MaxArrivals
      BY <1>2, <1>10, ContextFields DEF EndFrees, PollInv, ContextState, Contexts
    <3> QED BY <3>1
  <2>3. wxSent' \subseteq [answer : 1 .. MaxArrivals, to : 1 .. MaxArrivals]
    BY <1>2, <1>10, <2>2 DEF EndFrees
  <2> QED BY <1>2, <1>3, <1>10, <2>1, <2>3, ContextFields
        DEF EndFrees, ContextState, PollInv
<1> QED BY <1>4, <1>5, <1>6, <1>7, <1>8, <1>9, <1>10 DEF WxSurroundings

LEMMA PollStep == PollInv /\ [WxNext]_wxVars => PollInv'
<1> SUFFICES ASSUME PollInv, [WxNext]_wxVars PROVE PollInv'
  OBVIOUS
<1>1. CASE UNCHANGED wxVars
  <2>1. ThreadState' /\ CursorState'
    BY <1>1, OthersKeep DEF wxVars
  <2> QED BY <1>1, <2>1 DEF wxVars, PollInv, WxTypeOK, ContextState
<1>2. CASE WxSurroundings
  BY <1>2, SurroundingsStep
<1>3. CASE WxOperator /\ (channel_enable \/ channel_disable \/ channel_disconnect)
  <2>1. ThreadState' /\ CursorState'
    BY <1>3, OthersKeep DEF WxOperator, channel_enable, channel_disable, channel_disconnect
  <2>2. /\ wxChannel' \in [enabled : BOOLEAN, connected : BOOLEAN, ctx : Contexts]
        /\ wxChannel'.ctx = wxChannel.ctx
    BY <1>3, ContextFields DEF channel_enable, channel_disable, channel_disconnect
  <2> QED BY <1>3, <2>1, <2>2 DEF WxOperator, channel_enable, channel_disable,
        channel_disconnect, PollInv, WxTypeOK, ContextState
<1>4. CASE WxOperator /\ channel_connect
  <2>1. PICK t \in Pollers : StartPoller(t)
    BY <1>4 DEF channel_connect
  <2>2. /\ wxConfig' \in [loggedIn : BOOLEAN, cursor : {wxConfig.cursor}]
        /\ UNCHANGED <<wxConfig, wxHandled, wxChannel>>
    BY <1>4 DEF WxOperator, channel_connect, PollInv, WxTypeOK
  <2>3. wxPoller' \in [Pollers -> PollerStates] /\ ThreadState' /\ CursorState'
    BY <2>1, <2>2, PlainStepKeeps
  <2>4. wxShared' \in BOOLEAN
    BY <2>1 DEF StartPoller, PollInv, WxTypeOK
  <2> QED BY <1>4, <2>2, <2>3, <2>4
        DEF WxOperator, PollInv, WxTypeOK, ContextState, PollerStates, WxPlaces
<1>5. ASSUME NEW t \in Pollers, weixin_polling_thread(t)
      PROVE  PollInv'
  <2>1. UNCHANGED <<wxArrived, wxReply, wxTasks, wxHeld, wxBroken, wxSent, wxShared>>
    BY <1>5 DEF weixin_polling_thread
  <2>2. CASE PlainStep(t)
    <3>1. /\ wxConfig' \in [loggedIn : BOOLEAN, cursor : {wxConfig.cursor}]
          /\ wxChannel' \in [enabled : BOOLEAN, connected : BOOLEAN, ctx : {wxChannel.ctx}]
          /\ UNCHANGED <<wxInbox, wxHandled>>
      BY <2>1, <2>2, PlainStepFrame
    <3>2. wxPoller' \in [Pollers -> PollerStates] /\ ThreadState' /\ CursorState'
      BY <2>2, <3>1, PlainStepKeeps
    <3>3. /\ wxConfig' \in [loggedIn : BOOLEAN, cursor : 0 .. MaxArrivals]
          /\ wxChannel' \in [enabled : BOOLEAN, connected : BOOLEAN, ctx : Contexts]
          /\ wxChannel'.ctx = wxChannel.ctx
      BY <3>1 DEF PollInv, WxTypeOK
    <3> QED BY <2>1, <3>1, <3>2, <3>3
          DEF PollInv, WxTypeOK, ContextState, PollerStates, WxPlaces
  <2>3. CASE GetUpdates(t)
    <3>1. /\ wxPoller' \in [Pollers -> PollerStates] /\ ThreadState' /\ CursorState'
          /\ wxConfig' \in [loggedIn : BOOLEAN, cursor : 0 .. MaxArrivals]
      BY <2>3, GetUpdatesStep
    <3>2. UNCHANGED <<wxChannel, wxInbox, wxHandled>>
      BY <2>3 DEF GetUpdates
    <3> QED BY <2>1, <3>1, <3>2 DEF PollInv, WxTypeOK, ContextState, PollerStates, WxPlaces
  <2>4. CASE HandleMessage(t)
    <3> DEFINE m == Head(wxPoller[t].batch)
    <3>1. /\ wxPoller' \in [Pollers -> PollerStates] /\ ThreadState' /\ CursorState'
          /\ m \in 1 .. MaxArrivals
      BY <2>4, HandleMessageStep
    <3>2. /\ wxConfig' \in [loggedIn : BOOLEAN, cursor : 0 .. MaxArrivals]
          /\ wxHandled \in Seq(1 .. MaxArrivals) /\ wxInbox \in Seq(1 .. MaxArrivals)
      BY <2>4 DEF HandleMessage, PollInv, WxTypeOK
    <3>3. CASE KindOf[m] = "other"
      BY <2>1, <2>4, <3>1, <3>2, <3>3
        DEF HandleMessage, PollInv, WxTypeOK, ContextState, PollerStates, WxPlaces
    <3>4. CASE KindOf[m] # "other"
      <4> DEFINE c == Context(Len(wxHandled) + 1, m, 0)
      <4>1. /\ wxChannel' = [wxChannel EXCEPT !.ctx = c]
            /\ wxHandled' = Append(wxHandled, m)
            /\ wxInbox' = Append(wxInbox, m) \/ wxInbox' = wxInbox
        BY <2>4, <3>4 DEF HandleMessage
      <4>2. c \in Contexts /\ c.message = m
        BY <3>1, <3>2, WeixinAssumption DEF Context, Contexts
      <4> HIDE DEF m, c
      <4>3. wxHandled' \in Seq(1 .. MaxArrivals) /\ wxInbox' \in Seq(1 .. MaxArrivals)
        <5> DEFINE M == 1 .. MaxArrivals
        <5>1. m \in M /\ wxHandled \in Seq(M) /\ wxInbox \in Seq(M)
          BY <3>1, <3>2
        <5> HIDE DEF M
        <5>2. Append(wxHandled, m) \in Seq(M) /\ Append(wxInbox, m) \in Seq(M)
          BY <5>1
        <5>3. wxHandled' \in Seq(M) /\ wxInbox' \in Seq(M)
          BY <3>2, <4>1, <5>1, <5>2
        <5> QED BY <5>3 DEF M
      <4>4. /\ wxChannel' \in [enabled : BOOLEAN, connected : BOOLEAN, ctx : Contexts]
            /\ wxChannel'.ctx.message >= 1
        BY <3>1, <4>1, <4>2, ContextFields
      <4> QED BY <2>1, <3>1, <3>2, <4>3, <4>4
            DEF PollInv, WxTypeOK, ContextState, PollerStates, WxPlaces
    <3> QED BY <3>3, <3>4
  <2> QED BY <1>5, <2>2, <2>3, <2>4 DEF weixin_polling_thread, PlainStep
<1> QED BY <1>1, <1>2, <1>3, <1>4, <1>5 DEF WxNext, WxOperator

-----------------------------------------------------------------------------
(* One polling thread. *)

LEMMA SoloInit == WxInit => SoloInv
<1> SUFFICES ASSUME WxInit PROVE OnePoller /\ InOrder /\ LatestSender
  BY DEF SoloInv
<1>1. \A t \in Pollers : /\ wxPoller[t].batch = <<>>
                         /\ wxPoller[t].where \in {"none", "outer"}
  BY DEF WxInit, NewThread
<1>2. OnePoller
  <2>1. PICK t \in Pollers : \A u \in Pollers : u # t => wxPoller[u].where = "none"
    BY DEF WxInit, NewThread
  <2> QED BY <2>1 DEF OnePoller, StillPolling
<1>3. InOrder
  BY <1>1 DEF WxInit, InOrder, Increasing, Batch, Elems
<1>4. LatestSender
  BY DEF WxInit, LatestSender, Elems, NoContext, Context
<1> QED BY <1>2, <1>3, <1>4

\* While a thread polls alone, the others have no batch and wait for nothing.
LEMMA OthersRest ==
    ASSUME PollInv, OnePoller, NEW t \in Pollers, NEW u \in Pollers \ {t},
           wxPoller[t].where \notin {"none", "ended"}
    PROVE  wxPoller[u].where \in {"none", "ended"} /\ wxPoller[u].batch = <<>>
BY DEF OnePoller, StillPolling, PollInv, ThreadState, Regular

\* A plain step begins no second thread, or sets wxShared.
LEMMA PlainStepAlone ==
    ASSUME PollInv, OnePoller, InOrder, NEW t \in Pollers, StartPoller(t) \/ PlainStep(t),
           wxConfig'.cursor = wxConfig.cursor, UNCHANGED wxHandled, ~wxShared'
    PROVE  OnePoller' /\ InOrder'
<1>1. wxPoller \in [Pollers -> PollerStates]
  BY DEF PollInv, WxTypeOK, PollerStates, WxPlaces
<1>2. PICK q \in PollerStates :
        /\ wxPoller' = [wxPoller EXCEPT ![t] = q]
        /\ q.batch = wxPoller[t].batch
        /\ q.where = "waiting" => q.cursor = wxConfig.cursor
        /\ q.where \notin {"none", "ended"} /\ wxPoller[t].where \in {"none", "ended"}
             => wxShared' = (wxShared \/ StillPolling(wxPoller) # {})
  BY PlainStepMoves
<1>3. wxPoller'[t] = q /\ \A u \in Pollers \ {t} : wxPoller'[u] = wxPoller[u]
  BY <1>1, <1>2
<1>4. OnePoller'
  <2>1. CASE wxPoller[t].where \notin {"none", "ended"}
    BY <1>3, <2>1 DEF OnePoller, StillPolling
  <2>2. CASE q.where \in {"none", "ended"}
    BY <1>3, <2>2 DEF OnePoller, StillPolling
  <2>3. CASE q.where \notin {"none", "ended"} /\ wxPoller[t].where \in {"none", "ended"}
    <3>1. StillPolling(wxPoller) = {}
      BY <1>2, <2>3
    <3> QED BY <1>3, <3>1 DEF OnePoller, StillPolling
  <2> QED BY <2>1, <2>2, <2>3
<1>5. \A u \in Pollers : wxPoller'[u].batch = wxPoller[u].batch
  BY <1>2, <1>3
<1>6. \A u \in Pollers : wxPoller'[u].where = "waiting" => wxPoller'[u].cursor = wxConfig'.cursor
  BY <1>2, <1>3 DEF InOrder
<1>7. InOrder'
  BY <1>5, <1>6 DEF InOrder, Increasing, Batch, Elems
<1> QED BY <1>4, <1>7

LEMMA HandledAreNumbers ==
    ASSUME PollInv
    PROVE  \A x \in Elems(wxHandled) : x \in Nat
<1>1. wxHandled \in Seq(Nat)
  BY WeixinAssumption DEF PollInv, WxTypeOK
<1> QED BY <1>1 DEF Elems

LEMMA GetUpdatesAlone ==
    ASSUME PollInv, OnePoller, InOrder, NEW t \in Pollers, GetUpdates(t)
    PROVE  OnePoller' /\ InOrder'
<1> DEFINE c == wxPoller[t].cursor
           n == wxConfig'.cursor
<1>1. /\ \A u \in Pollers \ {t} : wxPoller'[u] = wxPoller[u]
      /\ wxPoller'[t].where = "handle" /\ wxPoller[t].where = "waiting"
      /\ Batch(t)' = (c + 1) .. n /\ c <= n
      /\ Increasing(wxPoller'[t].batch)
      /\ wxConfig' \in [loggedIn : BOOLEAN, cursor : 0 .. MaxArrivals]
  BY GetUpdatesStep
<1>2. /\ c = wxConfig.cursor /\ c \in Nat /\ n \in Nat
      /\ \A x \in Elems(wxHandled) : x <= c /\ x \in Nat
      /\ UNCHANGED wxHandled
  <2>1. \A x \in Elems(wxHandled) : x \in Nat
    BY HandledAreNumbers
  <2>2. c = wxConfig.cursor /\ \A x \in Elems(wxHandled) : x <= c
    BY <1>1 DEF InOrder
  <2>3. wxConfig.cursor \in Nat /\ n \in Nat
    BY <1>1, WeixinAssumption DEF PollInv, WxTypeOK
  <2> QED BY <2>1, <2>2, <2>3 DEF GetUpdates
<1> HIDE DEF c, n
<1>3. \A u \in Pollers \ {t} : wxPoller[u].where \in {"none", "ended"} /\ wxPoller[u].batch = <<>>
  BY <1>1, OthersRest
<1>4. OnePoller'
  BY <1>1, <1>3 DEF OnePoller, StillPolling
<1>5. ASSUME NEW u \in Pollers \ {t}
      PROVE  /\ Increasing(wxPoller[u].batch)' /\ Batch(u)' = {}
             /\ wxPoller'[u].where # "waiting"
  BY <1>1, <1>3 DEF Increasing, Batch, Elems
<1>6. \A y \in Batch(t)' : y <= n /\ \A x \in Elems(wxHandled) : x < y
  BY <1>1, <1>2
<1>7. \A x \in Elems(wxHandled) : x <= n
  BY <1>1, <1>2
<1>8. /\ Increasing(wxHandled')
      /\ \A x \in Elems(wxHandled') : x <= wxConfig'.cursor
  BY <1>2, <1>7 DEF InOrder, n
<1>9. ASSUME NEW u \in Pollers
      PROVE  /\ Increasing(wxPoller'[u].batch)
             /\ \A y \in Batch(u)' : y <= wxConfig'.cursor
             /\ \A x \in Elems(wxHandled'), y \in Batch(u)' : x < y
             /\ wxPoller'[u].where = "waiting" => wxPoller'[u].cursor = wxConfig'.cursor
  <2>1. CASE u = t
    BY <1>1, <1>2, <1>6, <2>1 DEF n
  <2>2. CASE u # t
    BY <1>5, <2>2 DEF Increasing
  <2> QED BY <2>1, <2>2
<1>10. InOrder'
  BY <1>8, <1>9 DEF InOrder, Increasing, Batch, Elems
<1> QED BY <1>4, <1>10

LEMMA SequencesOfNumbers ==
    ASSUME PollInv
    PROVE  /\ wxHandled \in Seq(Nat) /\ wxInbox \in Seq(Nat)
           /\ \A t \in Pollers : wxPoller[t].batch \in Seq(Nat)
<1>2. \A s \in Seq(1 .. MaxArrivals) : s \in Seq(Nat)
  BY WeixinAssumption
<1>3. /\ wxHandled \in Seq(1 .. MaxArrivals) /\ wxInbox \in Seq(1 .. MaxArrivals)
      /\ \A t \in Pollers : wxPoller[t].batch \in Seq(1 .. MaxArrivals)
  BY DEF PollInv, WxTypeOK
<1> QED BY <1>2, <1>3

LEMMA HandleMessageAlone ==
    ASSUME PollInv, OnePoller, InOrder, NEW t \in Pollers, HandleMessage(t)
    PROVE  OnePoller' /\ InOrder'
<1> DEFINE p == wxPoller[t]
           m == Head(p.batch)
<1>1. /\ m \in Nat /\ m \in Batch(t)
      /\ p.where = "handle"
      /\ \A u \in Pollers \ {t} : wxPoller'[u] = wxPoller[u]
      /\ wxPoller'[t] = [p EXCEPT !.batch = Tail(@)]
      /\ Batch(t) = Batch(t)' \cup {m}
  BY HandleMessageStep
<1>2. /\ p \in PollerStates /\ p.batch \in Seq(Nat) /\ p.batch # <<>>
      /\ wxHandled \in Seq(Nat) /\ UNCHANGED wxConfig
  <2>1. p \in PollerStates /\ p.batch # <<>> /\ UNCHANGED wxConfig
    BY DEF PollInv, WxTypeOK, PollerStates, WxPlaces, HandleMessage
  <2> QED BY <2>1, SequencesOfNumbers
<1>3. /\ wxPoller'[t].where = "handle" /\ wxPoller'[t].batch = Tail(p.batch)
  BY <1>1, <1>2 DEF PollerStates
<1>4. /\ Increasing(Tail(p.batch))
      /\ \A y \in Elems(Tail(p.batch)) : m < y
  <2>1. Increasing(p.batch)
    BY DEF InOrder
  <2> QED BY <1>2, <2>1, IncreasingTail
<1>5. Batch(t)' = Elems(Tail(p.batch))
  BY <1>3 DEF Batch
<1>6. \A x \in Elems(wxHandled) : x < m /\ x \in Nat
  BY <1>1, HandledAreNumbers DEF InOrder
<1>7. m <= wxConfig.cursor
  BY <1>1 DEF InOrder
<1>8. wxHandled' = Append(wxHandled, m) \/ wxHandled' = wxHandled
  BY DEF HandleMessage
<1> HIDE DEF m
<1>9. Increasing(wxHandled')
  <2>1. CASE wxHandled' = Append(wxHandled, m)
    <3>1. Increasing(wxHandled)
      BY DEF InOrder
    <3> QED BY <1>1, <1>2, <1>6, <2>1, <3>1, IncreasingAppend
  <2>2. CASE wxHandled' = wxHandled
    BY <2>2 DEF InOrder
  <2> QED BY <1>8, <2>1, <2>2
<1>10. \A x \in Elems(wxHandled') : x \in Elems(wxHandled) \/ x = m
  <2>1. CASE wxHandled' = Append(wxHandled, m)
    <3>1. wxHandled \in Seq(Nat)
      BY <1>2
    <3> QED BY <2>1, <3>1, ElemsAppend
  <2>2. CASE wxHandled' = wxHandled
    BY <2>2
  <2> QED BY <1>8, <2>1, <2>2
<1>11. \A x \in Elems(wxHandled') : x <= wxConfig'.cursor
  BY <1>2, <1>7, <1>10 DEF InOrder
<1>12. \A u \in Pollers \ {t} : wxPoller[u].where \in {"none", "ended"} /\ wxPoller[u].batch = <<>>
  BY <1>1, OthersRest
<1>13. OnePoller'
  BY <1>1, <1>3, <1>12 DEF OnePoller, StillPolling
<1>14. ASSUME NEW u \in Pollers
       PROVE  /\ Increasing(wxPoller'[u].batch)
              /\ \A y \in Batch(u)' : y <= wxConfig'.cursor
              /\ \A x \in Elems(wxHandled'), y \in Batch(u)' : x < y
              /\ wxPoller'[u].where # "waiting"
  <2>1. CASE u = t
    <3>1. \A y \in Batch(t)' : y <= wxConfig'.cursor /\ m < y
      BY <1>1, <1>2, <1>4, <1>5 DEF InOrder
    <3>2. \A x \in Elems(wxHandled), y \in Batch(t)' : x < y
      BY <1>1 DEF InOrder
    <3> QED BY <1>3, <1>4, <1>10, <2>1, <3>1, <3>2
  <2>2. CASE u # t
    BY <1>1, <1>12, <2>2 DEF Increasing, Batch, Elems
  <2> QED BY <2>1, <2>2
<1>15. InOrder'
  BY <1>9, <1>11, <1>14 DEF InOrder, Increasing, Batch, Elems
<1> QED BY <1>13, <1>15

\* The context names the message handled last, which follows all others.
LEMMA HandleMessageNames ==
    ASSUME PollInv, OnePoller, InOrder, LatestSender, NEW t \in Pollers,
           weixin_polling_thread(t), HandleMessage(t)
    PROVE  LatestSender'
<1> DEFINE m == Head(wxPoller[t].batch)
<1>1. m \in Nat /\ m \in Batch(t)
  <2>1. m \in 1 .. MaxArrivals /\ m \in Batch(t)
    BY HandleMessageStep
  <2> QED BY <2>1, WeixinAssumption
<1>2. /\ wxHandled \in Seq(Nat) /\ wxInbox \in Seq(Nat)
      /\ UNCHANGED <<wxReply, wxTasks, wxHeld, wxSent>>
  BY SequencesOfNumbers DEF weixin_polling_thread
<1>3. CASE KindOf[m] = "other"
  BY <1>2, <1>3 DEF HandleMessage, LatestSender, Elems
<1>4. CASE KindOf[m] # "other"
  <2> DEFINE c == Context(Len(wxHandled) + 1, m, 0)
  <2>1. /\ wxChannel' = [wxChannel EXCEPT !.ctx = c]
        /\ wxHandled' = Append(wxHandled, m)
        /\ wxInbox' = Append(wxInbox, m) \/ wxInbox' = wxInbox
    BY <1>4 DEF HandleMessage
  <2>2. c.message = m /\ c.text = 0
    BY DEF Context
  <2>3. \A x \in Elems(wxHandled) : x < m /\ x \in Nat
    BY <1>1, HandledAreNumbers DEF InOrder
  <2> HIDE DEF m, c
  <2>4. \A x : x \in Elems(wxHandled') <=> x \in Elems(wxHandled) \/ x = m
    BY <1>2, <2>1, ElemsAppend
  <2>5. \A x \in Elems(wxInbox') : x \in Elems(wxInbox) \/ x = m
    <3>1. CASE wxInbox' = Append(wxInbox, m)
      BY <1>2, <3>1, ElemsAppend
    <3>2. CASE wxInbox' = wxInbox
      BY <3>2
    <3> QED BY <2>1, <3>1, <3>2
  <2>6. wxChannel'.ctx = c
    BY <2>1, ContextFields
  <2>7. Elems(wxInbox') \subseteq Elems(wxHandled')
    BY <2>4, <2>5 DEF LatestSender
  <2>8. wxReply' # 0 => wxReply' \in Elems(wxHandled')
    BY <1>2, <2>4 DEF LatestSender
  <2>9. \A i \in DOMAIN wxTasks' : wxTasks'[i].answer \in Elems(wxHandled')
    BY <1>2, <2>4 DEF LatestSender
  <2>10. /\ \A x \in Elems(wxHandled') : x <= wxChannel'.ctx.message
         /\ wxChannel'.ctx.text <= wxChannel'.ctx.message
    BY <1>1, <2>2, <2>3, <2>4, <2>6
  <2> QED BY <1>2, <2>7, <2>8, <2>9, <2>10 DEF LatestSender, Elems
<1> QED BY <1>3, <1>4

\* Tasks of one answer, added to tasks of answers in H.
LEMMA TasksOfAnswers ==
    ASSUME NEW S, NEW s \in Seq(S), NEW H, \A i \in DOMAIN s : s[i].answer \in H,
           NEW u, NEW e, u.answer \in H, e.answer \in H,
           NEW a, a = Append(s, e) \/ a = s \o <<u, e>>
    PROVE  \A i \in DOMAIN a : a[i].answer \in H
<1>1. CASE a = Append(s, e)
  <2>1. \A i \in DOMAIN a : (i \in DOMAIN s /\ a[i] = s[i]) \/ a[i] = e
    BY <1>1
  <2> QED BY <2>1
<1>2. CASE a = s \o <<u, e>>
  <2>1. \A i \in DOMAIN a : (i \in DOMAIN s /\ a[i] = s[i]) \/ a[i] = u \/ a[i] = e
    BY <1>2
  <2> QED BY <2>1
<1> QED BY <1>1, <1>2

\* The agent answers what was handled; an answer is collected in, and sent from, a
\* context whose message is not older than it.
LEMMA SurroundingsName ==
    ASSUME PollInv, LatestSender, WxSurroundings
    PROVE  LatestSender'
<1>1. /\ wxInbox \in Seq(Nat) /\ wxTasks \in Seq(Tasks) /\ UNCHANGED wxHandled
      /\ \A x \in Elems(wxHandled) : x \in Nat
  BY SequencesOfNumbers, HandledAreNumbers DEF PollInv, WxSurroundings
<1> DEFINE H == Elems(wxHandled)
<1>2. Elems(wxHandled') = H
  BY <1>1
<1> DEFINE Before == /\ Elems(wxInbox) \subseteq H /\ (wxReply # 0 => wxReply \in H)
                     /\ \A i \in DOMAIN wxTasks : wxTasks[i].answer \in H
           Context1 == /\ wxChannel.ctx # NoContext => \A x \in H : x <= wxChannel.ctx.message
                       /\ wxChannel.ctx.text <= wxChannel.ctx.message
           Sent1 == wxHeld.text <= wxHeld.message /\ \A s \in wxSent : s.to >= s.answer
<1>3. Before /\ Context1 /\ Sent1
  BY DEF LatestSender
<1> HIDE DEF H
<1>4. /\ Elems(wxInbox') \subseteq H /\ (wxReply' # 0 => wxReply' \in H)
      /\ \A i \in DOMAIN wxTasks' : wxTasks'[i].answer \in H
      /\ wxChannel'.ctx # NoContext => \A x \in H : x <= wxChannel'.ctx.message
      /\ wxChannel'.ctx.text <= wxChannel'.ctx.message
      /\ wxHeld'.text <= wxHeld'.message /\ \A s \in wxSent' : s.to >= s.answer
      => LatestSender'
  BY <1>2 DEF LatestSender, Elems, NoContext, Context
<1>5. CASE WxArrive
  BY <1>3, <1>4, <1>5 DEF WxArrive
<1>6. CASE WxBeginReply
  <2>1. Head(wxInbox) \in H /\ Elems(wxInbox') \subseteq H
    <3>1. wxInbox # <<>> /\ wxInbox' = Tail(wxInbox)
      BY <1>6 DEF WxBeginReply
    <3>2. Head(wxInbox) \in Elems(wxInbox) /\ \A x \in Elems(Tail(wxInbox)) : x \in Elems(wxInbox)
      BY <1>1, <3>1, ElemsTail
    <3> QED BY <1>3, <3>1, <3>2
  <2>2. \/ UNCHANGED <<wxReply, wxTasks>>
        \/ /\ wxReply' = Head(wxInbox)
           /\ wxTasks' = Append(wxTasks, [kind |-> "START", answer |-> Head(wxInbox)])
    BY <1>6 DEF WxBeginReply
  <2>3. /\ wxReply' # 0 => wxReply' \in H
        /\ \A i \in DOMAIN wxTasks' : wxTasks'[i].answer \in H
    <3>1. CASE UNCHANGED <<wxReply, wxTasks>>
      BY <1>3, <3>1
    <3>2. CASE wxTasks' = Append(wxTasks, [kind |-> "START", answer |-> Head(wxInbox)])
      <4> DEFINE e == [kind |-> "START", answer |-> Head(wxInbox)]
      <4>1. wxTasks' = Append(wxTasks, e) /\ e.answer \in H
        BY <2>1, <3>2
      <4> HIDE DEF e
      <4>2. \A i \in DOMAIN wxTasks' : wxTasks'[i].answer \in H
        BY <1>1, <1>3, <4>1, TasksOfAnswers
      <4> QED BY <1>3, <2>1, <2>2, <4>2
    <3> QED BY <2>2, <3>1, <3>2
  <2> QED BY <1>3, <1>4, <1>6, <2>1, <2>3 DEF WxBeginReply
<1>7. CASE WxEndReply
  <2> DEFINE u == [kind |-> "UPDATE", answer |-> wxReply]
             e == [kind |-> "END", answer |-> wxReply]
  <2>1. wxTasks' = Append(wxTasks, e) \/ wxTasks' = wxTasks \o <<u, e>>
    BY <1>7 DEF WxEndReply
  <2>2. u.answer \in H /\ e.answer \in H
    BY <1>3, <1>7 DEF WxEndReply
  <2> HIDE DEF u, e
  <2>3. \A i \in DOMAIN wxTasks' : wxTasks'[i].answer \in H
    BY <1>1, <1>3, <2>1, <2>2, TasksOfAnswers
  <2> QED BY <1>3, <1>4, <1>7, <2>3 DEF WxEndReply
<1>8. ASSUME wxTasks' = Tail(wxTasks), wxTasks # <<>>
      PROVE  \A i \in DOMAIN wxTasks' : wxTasks'[i].answer \in H
  BY <1>1, <1>3, <1>8
<1>9. CASE Accumulate
  <2>1. Head(wxTasks).answer \in H
    BY <1>1, <1>3, <1>9 DEF Accumulate
  <2>2. \A i \in DOMAIN wxTasks' : wxTasks'[i].answer \in H
    BY <1>8, <1>9 DEF Accumulate
  <2>3. CASE wxChannel.ctx = NoContext
    BY <1>3, <1>4, <1>9, <2>2, <2>3 DEF Accumulate
  <2>4. CASE wxChannel.ctx # NoContext
    <3> DEFINE k == Head(wxTasks).answer
               c == [wxChannel.ctx EXCEPT !.text = k]
    <3>1. wxChannel' = [wxChannel EXCEPT !.ctx.text = k]
      BY <1>9, <2>4 DEF Accumulate
    <3> HIDE DEF k
    <3>2. /\ wxChannel'.ctx.text = k
          /\ wxChannel'.ctx.message = wxChannel.ctx.message
      BY <3>1, ContextFields DEF Contexts
    <3>3. k <= wxChannel.ctx.message
      BY <1>3, <2>1, <2>4 DEF k
    <3> QED BY <1>3, <1>4, <1>9, <2>2, <2>4, <3>2, <3>3 DEF Accumulate
  <2> QED BY <2>3, <2>4
<1>10. CASE EndQuietly
  <2>1. \A i \in DOMAIN wxTasks' : wxTasks'[i].answer \in H
    BY <1>8, <1>10 DEF EndQuietly
  <2>2. wxChannel'.ctx = NoContext
    BY <1>10, ContextFields DEF EndQuietly
  <2> QED BY <1>3, <1>4, <1>10, <2>1, <2>2, ContextFields DEF EndQuietly
<1>11. CASE EndSends
  BY <1>3, <1>4, <1>11 DEF EndSends
<1>12. CASE EndFrees
  <2>1. \A i \in DOMAIN wxTasks' : wxTasks'[i].answer \in H
    <3>1. wxTasks' = Tail(wxTasks)
      BY <1>12 DEF EndFrees
    <3>2. CASE wxTasks = <<>>
      BY <3>1, <3>2
    <3> QED BY <1>8, <3>1, <3>2
  <2>2. wxChannel'.ctx = NoContext /\ wxHeld' = NoContext
    BY <1>12, ContextFields DEF EndFrees
  <2>3. \A s \in wxSent' : s.to >= s.answer
    <3>1. \A s \in wxSent' : s \in wxSent \/ s = [answer |-> wxHeld.text, to |-> wxHeld.message]
      BY <1>12 DEF EndFrees
    <3>2. wxHeld.message >= wxHeld.text
      BY <1>3, ContextFields, WeixinAssumption DEF Contexts
    <3> QED BY <1>3, <3>1, <3>2
  <2> QED BY <1>3, <1>4, <1>12, <2>1, <2>2, <2>3, ContextFields DEF EndFrees
<1> QED BY <1>5, <1>6, <1>7, <1>9, <1>10, <1>11, <1>12 DEF WxSurroundings

LEMMA SoloStep == PollInv /\ SoloInv /\ [WxNext]_wxVars => SoloInv'
<1> SUFFICES ASSUME PollInv, SoloInv, [WxNext]_wxVars, ~wxShared'
             PROVE  OnePoller' /\ InOrder' /\ LatestSender'
  BY DEF SoloInv
<1>1. CASE UNCHANGED wxVars
  BY <1>1 DEF wxVars, SoloInv, OnePoller, StillPolling, InOrder, LatestSender, Increasing,
     Batch, Elems
<1>2. CASE WxSurroundings
  <2>1. UNCHANGED <<wxConfig, wxPoller, wxHandled, wxShared>>
    BY <1>2 DEF WxSurroundings
  <2>2. OnePoller' /\ InOrder'
    BY <2>1 DEF SoloInv, OnePoller, StillPolling, InOrder, Increasing, Batch, Elems
  <2> QED BY <1>2, <2>1, <2>2, SurroundingsName DEF SoloInv
<1>3. CASE WxOperator /\ (channel_enable \/ channel_disable \/ channel_disconnect)
  <2>1. /\ UNCHANGED <<wxConfig, wxPoller, wxHandled, wxShared, wxInbox, wxReply, wxTasks,
                       wxHeld, wxSent>>
        /\ wxChannel'.ctx = wxChannel.ctx
    BY <1>3, ContextFields DEF WxOperator, channel_enable, channel_disable, channel_disconnect
  <2> QED BY <2>1 DEF SoloInv, OnePoller, StillPolling, InOrder, LatestSender, Increasing,
        Batch, Elems, NoContext, Context
<1>4. CASE WxOperator /\ channel_connect
  <2>1. PICK t \in Pollers : StartPoller(t)
    BY <1>4 DEF channel_connect
  <2>2. UNCHANGED <<wxConfig, wxHandled, wxInbox, wxReply, wxTasks, wxHeld, wxSent, wxChannel>>
    BY <1>4 DEF WxOperator, channel_connect
  <2>3. ~wxShared
    BY <2>1 DEF StartPoller
  <2>4. OnePoller' /\ InOrder'
    BY <2>1, <2>2, <2>3, PlainStepAlone DEF SoloInv
  <2> QED BY <2>2, <2>3, <2>4 DEF SoloInv, LatestSender, Elems, NoContext, Context
<1>5. ASSUME NEW t \in Pollers, weixin_polling_thread(t)
      PROVE  OnePoller' /\ InOrder' /\ LatestSender'
  <2>1. UNCHANGED <<wxArrived, wxReply, wxTasks, wxHeld, wxBroken, wxSent, wxShared>>
    BY <1>5 DEF weixin_polling_thread
  <2>2. OnePoller /\ InOrder /\ LatestSender
    BY <2>1 DEF SoloInv
  <2>3. CASE PlainStep(t)
    <3>1. /\ wxConfig'.cursor = wxConfig.cursor /\ wxChannel'.ctx = wxChannel.ctx
          /\ UNCHANGED <<wxInbox, wxHandled>>
      BY <2>1, <2>3, PlainStepFrame
    <3>2. OnePoller' /\ InOrder'
      BY <2>2, <2>3, <3>1, PlainStepAlone
    <3> QED BY <2>1, <2>2, <3>1, <3>2 DEF LatestSender, Elems, NoContext, Context
  <2>4. CASE GetUpdates(t)
    <3>1. UNCHANGED <<wxChannel, wxInbox, wxHandled>>
      BY <2>4 DEF GetUpdates
    <3>2. OnePoller' /\ InOrder'
      BY <2>2, <2>4, GetUpdatesAlone
    <3> QED BY <2>1, <2>2, <3>1, <3>2 DEF LatestSender, Elems, NoContext, Context
  <2>5. CASE HandleMessage(t)
    BY <1>5, <2>2, <2>5, HandleMessageAlone, HandleMessageNames
  <2> QED BY <1>5, <2>3, <2>4, <2>5 DEF weixin_polling_thread, PlainStep
<1> QED BY <1>1, <1>2, <1>3, <1>4, <1>5 DEF WxNext, WxOperator

-----------------------------------------------------------------------------

LEMMA Invariants == WxSpec => [](PollInv /\ SoloInv)
<1>1. WxInit => PollInv /\ SoloInv
  BY PollInit, SoloInit
<1>2. PollInv /\ SoloInv /\ [WxNext]_wxVars => (PollInv /\ SoloInv)'
  BY PollStep, SoloStep
<1> QED BY <1>1, <1>2, PTL DEF WxSpec

\* For any polling threads, kinds of messages and failures: the cursor never passes
\* a message that was not handled, and one thread alone handles each one once, in
\* the order of arrival.
THEOREM MessagesHandledOnce == WxSpec => []EachMessageHandledOnce
<1>1. ASSUME PollInv, SoloInv PROVE EachMessageHandledOnce
  <2>1. WxTypeOK
    BY <1>1 DEF PollInv
  <2>2. Covered(wxConfig.cursor)
    BY <1>1 DEF PollInv, CursorState
  <2>3. ~wxShared => Increasing(wxHandled)
    BY <1>1 DEF SoloInv, InOrder
  <2> QED BY <2>1, <2>2, <2>3
        DEF EachMessageHandledOnce, Covered, Batches, Batch, Elems, Increasing
<1> QED BY <1>1, Invariants, PTL

\* The receiver of an answer, which is looked up at its END, is the sender of the
\* message answered or of a later one.
THEOREM ReceiverNotOlder == WxSpec => []NeverToAnOlderSender
<1>1. PollInv /\ SoloInv => NeverToAnOlderSender
  BY DEF SoloInv, LatestSender, NeverToAnOlderSender
<1> QED BY <1>1, Invariants, PTL

=============================================================================
