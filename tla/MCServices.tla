----------------------------- MODULE MCServices -----------------------------
(* One run over the services around the agent.  They share no state in the   *)
(* models, so that a behaviour exercises one of them, which the initial      *)
(* state chooses, and leaves the others in an initial state.                 *)
EXTENDS WeixinChannel, FeishuLink, WebSocketServer, HttpApi, SkillRegistry, AgentTools,
        ModelLayer

VARIABLE service

(* Weixin: the second of three messages is a command.                        *)
MCKindOf == <<"text", "command", "text">>

(* Skills: a text and a library in different directories that give the same  *)
(* name, and a second skill of the library.                                  *)
SkillFile(d, n, k, b, name) == [dir |-> d, nested |-> n, kind |-> k, base |-> b, name |-> name]
MCSkillFiles == {SkillFile(1, FALSE, "md", "x", "x"), SkillFile(2, FALSE, "so", "b", "x"),
                 SkillFile(1, TRUE, "so", "b", "y")}

(* Tools: saving, overwriting, deleting, without keywords, parentheses inside a string, an     *)
(* unknown tool, and every other tool with and without its arguments.        *)
Save(k, v) == Call("memory-save", << Arg("key", << k >>), Arg("value", v) >>)
One(name, key) == Call(name, << Arg(key, << "t" >>) >>)
None(name) == Call(name, << >>)
OtherTools ==
    { << One("reverse-string", "text"), One("read-file", "path"), None("grep"), None("sed") >>,
      << Call("write-file", << Arg("path", << "f" >>), Arg("content", << "t" >>) >>),
         One("write-file", "path"), None("write-file") >>,
      << One("web-search", "query"), One("get-weather", "location"), None("list-directory"),
         One("web-fetch", "url"), One("shell", "command") >>,
      << Call("grep", << Arg("pattern", << "p" >>), Arg("path", << "f" >>) >>),
         Call("sed", << Arg("expression", << "e" >>), Arg("path", << "f" >>) >>) >>,
      << None("skill-search"), One("skill-match", "query"), One("skill-preview", "name"),
         None("recall-history") >> }
MCReplies ==
    { << Save("k", << "v" >>) >>,
      << Save("k", << "v", "w" >>), Save("l", << "(", "v" >>) >>,
      << One("memory-delete", "key"), Call("memory-delete", << Arg("key", << "k" >>) >>),
         Call("memory-load", << Arg("key", << "k" >>) >>) >>,
      << Call("calculator", << Arg("expression", << "(", "(", "1", ")", "(", "2" >>) >>), None("time"),
         Save("l", << "v" >>) >>,
      << Call("memory-save", << Arg("arg", << "k", "w" >>) >>), One("memory-save", "key"),
         Call("memory-delete", << Arg("arg", << "l" >>) >>) >>,
      << One("web_fetch", "url"), None("time") >> } \cup OtherTools
MCToolRequests ==
    { [name |-> "memory-save", arg |-> << "k", "u" >>], [name |-> "memory-save", arg |-> << "k" >>],
      [name |-> "memory-delete", arg |-> << "l" >>] }

(* Models: a name taken twice, providers declared and inferred, a default    *)
(* that is not the first, fields of earlier versions, and no models at all.  *)
Model(n, p, mn, u, s) == [name |-> n, provider |-> p, model_name |-> mn, url |-> u, stream |-> s]
NoLegacy == [name |-> NULL, provider |-> NULL, url |-> NULL]
NoModels == [models |-> << >>, default |-> NULL,
             legacy |-> [name |-> "x", provider |-> "gemini", url |-> "gemini"]]
MCConfigFiles ==
    { [models |-> << Model("a", "openai", "gpt", "u1", TRUE), Model("b", "ollama", NULL, "u2", TRUE) >>,
       default |-> "b", legacy |-> NoLegacy],
      [models |-> << Model("a", NULL, "m", "11434", TRUE), Model("a", "anthropic", "n", "u2", FALSE) >>,
       default |-> NULL, legacy |-> [NoLegacy EXCEPT !.url = "u3"]],
      NoModels }

(* Streams: texts, calls whose arguments come in parts, and a line that is   *)
(* longer than the buffer.                                                   *)
Event(k, t, i, n, z) == [kind |-> k, text |-> t, index |-> i, name |-> n, args |-> t, size |-> z]
MCBodies ==
    { << Event("content", << "x" >>, 0, NULL, 2), Event("content", << "y" >>, 0, NULL, 2),
         Event("done", << >>, 0, NULL, 1) >>,
      << Event("tool", << "p" >>, 2, "f", 2), Event("content", << "x" >>, 0, NULL, 4),
         Event("tool", << "q" >>, 2, NULL, 2), Event("tool", << "q" >>, 3, "g", 1) >> }

Services == {"weixin", "link", "websocket", "http", "skills", "tools", "models"}

(* An initial state of each, one for the behaviours of the others.           *)
WxIdle == WxInit /\ ~wxChannel.enabled /\ ~wxChannel.connected
SvIdle == ServerInit /\ \A c \in Clients : svClient[c].key
SkIdle == SkInit /\ \A f \in SkillFiles : skFiles[f] = 0
MlIdle == MlInit /\ mlModels = << >>

Init ==
    /\ service \in Services
    /\ IF service = "weixin" THEN WxInit ELSE WxIdle
    /\ LinkInit
    /\ IF service = "websocket" THEN ServerInit ELSE SvIdle
    /\ HttpInit
    /\ IF service = "skills" THEN SkInit ELSE SkIdle
    /\ AgInit
    /\ IF service = "models" THEN MlInit ELSE MlIdle

Weixin == service = "weixin" /\ WxNext
          /\ UNCHANGED << service, lkVars, svVars, hpVars, skVars, agVars, mlVars >>
Link == service = "link" /\ LinkNext
        /\ UNCHANGED << service, wxVars, svVars, hpVars, skVars, agVars, mlVars >>
WebSocket == service = "websocket" /\ ServerNext
             /\ UNCHANGED << service, wxVars, lkVars, hpVars, skVars, agVars, mlVars >>
Http == service = "http" /\ HttpNext
        /\ UNCHANGED << service, wxVars, lkVars, svVars, skVars, agVars, mlVars >>
Skills == service = "skills" /\ SkNext
          /\ UNCHANGED << service, wxVars, lkVars, svVars, hpVars, agVars, mlVars >>
Tools == service = "tools" /\ AgNext
         /\ UNCHANGED << service, wxVars, lkVars, svVars, hpVars, skVars, mlVars >>
Models == service = "models" /\ MlNext
          /\ UNCHANGED << service, wxVars, lkVars, svVars, hpVars, skVars, agVars >>

Next == Weixin \/ Link \/ WebSocket \/ Http \/ Skills \/ Tools \/ Models
Spec ==
    /\ Init
    /\ [][Next]_<< service, wxVars, lkVars, svVars, hpVars, skVars, agVars, mlVars >>
    /\ LinkFairness /\ ServerFairness

(* The two threads that gateway_stop and websocket_server_stop wait for end: *)
(* the shutdown does not hang on a connection, whatever its state is.        *)
StopsReturn == LoopIsJoined /\ ThreadIsJoined

=============================================================================
