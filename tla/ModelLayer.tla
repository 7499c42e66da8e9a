----------------------------- MODULE ModelLayer -----------------------------
(* Which model answers, and what is made of its answer: the models of the    *)
(* configuration (src/common/config.c), the /model command                   *)
(* (src/agent/command.c) and POST /model/switch (src/gateway/http_api.c),    *)
(* the provider that they replace (src/model/ai_model.c,                     *)
(* ai_provider_factory.c), and the answer of a provider, which OpenAI's      *)
(* sends as a stream of events that arrive in arbitrary pieces               *)
(* (src/model/provider_openai.c).                                            *)
(*                                                                           *)
(* No lock guards any of this.  A step that reads memory another thread has  *)
(* freed ends the behaviour (mlUndefined): nothing is claimed of what        *)
(* follows.                                                                  *)
EXTENDS Naturals, FiniteSets, SequencesExt

CONSTANTS ConfigFiles,  \* config.json: [models, default, legacy]
          Bodies,       \* sequences of events a model may stream
          LineSize,     \* sizeof sse_line - 1, in pieces of an event
          NewNames,     \* arguments of /model name
          MaxSwitches, MaxRequests

NULL == "NULL"

(* What cJSON hands over: a field is a string or absent.                     *)
ModelEntries == [name : STRING, provider : STRING, model_name : STRING, url : STRING,
                 stream : BOOLEAN]
ASSUME ConfigAssumption ==
    /\ \A file \in ConfigFiles :
          /\ file.models \in Seq(ModelEntries)
          /\ file.legacy \in [name : STRING, provider : STRING, url : STRING]
    /\ NewNames \subseteq STRING

(* What a line of the stream holds, and in how many pieces it may come.      *)
StreamEvents == [kind : STRING, text : Seq(STRING), index : Nat, name : STRING,
                 args : Seq(STRING), size : Nat \ {0}]
ASSUME StreamAssumption ==
    /\ Bodies \subseteq Seq(StreamEvents)
    /\ LineSize \in Nat /\ MaxSwitches \in Nat /\ MaxRequests \in Nat

MAX_STREAMING_TOOL_CALLS == 2
Types == {"openai", "anthropic", "gemini", "ollama"}
Operators == {"console", "http"}

VARIABLES mlModels,     \* g_config.models.models
          mlCurrent,    \* g_config.models.current_index
          mlModel,      \* g_config.model
          mlAgent,      \* g_agent.model
          mlProvider,   \* g_provider and what it points to
          mlOps,        \* what each operator's thread is doing
          mlByHttp,     \* the provider was made by POST /model/switch
          mlWorker,     \* the worker's request: idle, asking, streaming
          mlLine, mlLeft,         \* sse_line, and the body not received yet
          mlContent, mlTools,     \* accumulated_content, the tool calls
          mlShown,                \* what the stream callback was given last
          mlAnswer,     \* the last AIProviderResponse
          mlBody,       \* the events the model streams
          mlUndefined, mlCommands, mlRequests
mlConfig == << mlModels, mlCurrent, mlModel >>
mlStream == << mlLine, mlLeft, mlContent, mlTools, mlShown, mlBody >>
mlVars == << mlConfig, mlAgent, mlProvider, mlOps, mlByHttp, mlWorker, mlStream, mlAnswer,
             mlUndefined, mlCommands, mlRequests >>

OrElse(a, b) == IF a = NULL THEN b ELSE a

(***************************************************************************)
(* The configuration                                                        *)
(***************************************************************************)
parse_single_model(m) ==
    LET name == OrElse(m.name, "model_n")
    IN  [name |-> name, provider |-> m.provider,
         model_name |-> OrElse(m.model_name, m.name), url |-> m.url, stream |-> m.stream]
parse_models_config(list) == [i \in DOMAIN list |-> parse_single_model(list[i])]

Named(models, name) == {i \in DOMAIN models : models[i].name = name}
find_model_index(models, name) ==
    CHOOSE i \in Named(models, name) : \A j \in Named(models, name) : i <= j

(* The index in use; the default only counts when that is out of range.      *)
(* It starts at the first model.                                             *)
TargetIndex(models, default, current) ==
    IF current \in DOMAIN models THEN current
    ELSE IF Named(models, default) # {} THEN find_model_index(models, default)
    ELSE 1

NoModel == [name |-> NULL, provider |-> NULL, model_name |-> NULL, url |-> NULL, stream |-> FALSE]
sync_current_model(models, default, current) ==
    IF models = << >> THEN NoModel ELSE models[TargetIndex(models, default, current)]

(* The fields of earlier versions of the file override the model in use.     *)
parse_legacy_config(m, legacy) ==
    [m EXCEPT !.name = OrElse(legacy.name, @), !.provider = OrElse(legacy.provider, @),
              !.url = OrElse(legacy.url, @)]

config_load(file) ==
    LET models == parse_models_config(file.models)
    IN  parse_legacy_config(sync_current_model(models, file.default, 1), file.legacy)

(***************************************************************************)
(* Providers                                                                *)
(***************************************************************************)
InferredType(url) ==
    CASE url = "anthropic" -> "anthropic"
      [] url = "gemini" -> "gemini"
      [] url = "11434" -> "ollama"
      [] OTHER -> "openai"
TypeFor(provider, url) ==
    IF provider \in Types THEN provider
    ELSE IF provider = NULL THEN InferredType(url) ELSE "openai"

DefaultName(type) ==
    CASE type = "openai" -> "gpt-4"
      [] type = "anthropic" -> "claude-3-opus-20240229"
      [] type = "gemini" -> "gemini-pro"
      [] type = "ollama" -> "llama3"
ai_provider_create(type, config) ==
    [type |-> type, model_name |-> OrElse(config.model_name, DefaultName(type)),
     url |-> config.url, stream |-> config.stream, callback |-> FALSE, freed |-> FALSE]

(* ai_model_init as agent_init calls it.                                    *)
FirstProvider(m) ==
    LET provider == OrElse(m.provider, "llama")
        config == [m EXCEPT !.model_name = OrElse(OrElse(@, m.name), "llama3.2"),
                            !.url = OrElse(@, "11434")]
    IN  ai_provider_create(TypeFor(provider, config.url), config)

(***************************************************************************)
(* Switching                                                                *)
(***************************************************************************)
NoTools == [i \in 1..MAX_STREAMING_TOOL_CALLS |-> [name |-> NULL, args |-> << >>]]
Idle == [pc |-> "idle", config |-> NoModel, dangling |-> FALSE, renames |-> FALSE]

ai_model_set_stream_callback(set) == mlProvider' = [mlProvider EXCEPT !.callback = set]

MlInit ==
    /\ \E file \in ConfigFiles :
          /\ mlModels = parse_models_config(file.models)
          /\ mlCurrent = IF mlModels = << >> THEN 1 ELSE TargetIndex(mlModels, file.default, 1)
          /\ mlModel = config_load(file)
    /\ mlAgent = << OrElse(mlModel.provider, "anthropic"),
                    OrElse(mlModel.name, "claude-3-opus-20240229") >>
    /\ mlProvider = FirstProvider(mlModel)
    /\ mlOps = [o \in Operators |-> Idle] /\ mlByHttp = FALSE
    /\ mlWorker = "idle"
    /\ mlLine = << >> /\ mlLeft = << >> /\ mlContent = << >>
    /\ mlTools = NoTools
    /\ mlShown = << >> /\ mlBody = << >> /\ mlAnswer = << "none" >>
    /\ mlUndefined = FALSE /\ mlCommands = 0 /\ mlRequests = 0

UsesFreedMemory ==
    /\ mlUndefined' = TRUE
    /\ UNCHANGED << mlConfig, mlAgent, mlProvider, mlOps, mlByHttp, mlWorker, mlStream, mlAnswer,
                    mlCommands, mlRequests >>

(* The strings of g_config.model are freed: an operator that has copied the  *)
(* pointers to them and not given them to a provider yet holds dangling ones. *)
OthersDangle(o, ops) ==
    [p \in Operators |->
        [ops[p] EXCEPT !.dangling = @ \/ (p # o /\ ops[p].pc \in {"synced", "destroyed"})]]
Synced(o, m, renames) ==
    mlOps' = OthersDangle(o, [mlOps EXCEPT ![o] =
                 [pc |-> "synced", config |-> IF o = "http" THEN [m EXCEPT !.provider = NULL] ELSE m,
                  dangling |-> FALSE, renames |-> renames]])

(* /model <index|name> and POST /model/switch begin alike.                   *)
config_switch_model(o, i) ==
    /\ i \in DOMAIN mlModels
    /\ mlCurrent' = i
    /\ mlModel' = mlModels[i]
    /\ Synced(o, mlModels[i], FALSE)
    /\ UNCHANGED mlModels

(* /model name <model_name>: the three copies of the name.                  *)
cmd_model_name_current_only(name) ==
    /\ mlModel' = [mlModel EXCEPT !.model_name = name]
    /\ Synced("console", [mlModel EXCEPT !.model_name = name], TRUE)
    /\ UNCHANGED << mlCurrent, mlModels >>
cmd_model_name(name) ==
    /\ mlModel' = [mlModel EXCEPT !.model_name = name]
    /\ mlModels' = [i \in DOMAIN mlModels |->
                       IF i = mlCurrent THEN [mlModels[i] EXCEPT !.model_name = name] ELSE mlModels[i]]
    /\ Synced("console", [mlModel EXCEPT !.model_name = name], TRUE)
    /\ UNCHANGED mlCurrent

(* An unknown model, or a command that only shows something, changes nothing. *)
Begin(o) ==
    /\ ~mlUndefined /\ mlOps[o].pc = "idle" /\ mlCommands < MaxSwitches
    /\ mlCommands' = mlCommands + 1
    /\ \/ \E i \in DOMAIN mlModels :
             config_switch_model(o, find_model_index(mlModels, mlModels[i].name))
       \/ o = "console" /\ \E i \in DOMAIN mlModels : config_switch_model(o, i)
       \/ o = "console" /\ \E name \in NewNames : cmd_model_name(name)
    /\ UNCHANGED << mlAgent, mlProvider, mlByHttp, mlWorker, mlStream, mlAnswer, mlUndefined, mlRequests >>

(* ai_model_set_config destroys the provider and then makes another one.    *)
DestroyProvider(o) ==
    /\ ~mlUndefined /\ mlOps[o].pc = "synced"
    /\ IF mlProvider.freed THEN UsesFreedMemory
       ELSE /\ mlProvider' = [mlProvider EXCEPT !.freed = TRUE]
            /\ mlWorker' = IF mlWorker \in {"streaming", "waiting"} THEN "orphan" ELSE mlWorker
            /\ mlOps' = [mlOps EXCEPT ![o].pc = "destroyed"]
            /\ UNCHANGED << mlConfig, mlAgent, mlByHttp, mlStream, mlAnswer, mlUndefined,
                            mlCommands, mlRequests >>

CreateProvider(o) ==
    /\ ~mlUndefined /\ mlOps[o].pc = "destroyed"
    /\ IF mlOps[o].dangling THEN UsesFreedMemory
       ELSE LET m == mlOps[o].config IN
            /\ mlProvider' = ai_provider_create(TypeFor(m.provider, m.url), m)
            /\ mlByHttp' = (o = "http")
            /\ mlOps' = [mlOps EXCEPT ![o] = IF @.renames THEN Idle ELSE [@ EXCEPT !.pc = "created"]]
            /\ UNCHANGED << mlConfig, mlAgent, mlWorker, mlStream, mlAnswer, mlUndefined,
                            mlCommands, mlRequests >>

agent_set_model(o) ==
    /\ ~mlUndefined /\ mlOps[o].pc = "created"
    /\ mlAgent' = << mlModel.name >>
    /\ mlOps' = [mlOps EXCEPT ![o] = Idle]
    /\ UNCHANGED << mlConfig, mlProvider, mlByHttp, mlWorker, mlStream, mlAnswer, mlUndefined,
                    mlCommands, mlRequests >>

Operator(o) == Begin(o) \/ DestroyProvider(o) \/ CreateProvider(o) \/ agent_set_model(o)

(***************************************************************************)
(* A request of the worker                                                  *)
(***************************************************************************)
(* The body is the events' lines: an event e takes e.size pieces and ends    *)
(* with a newline.                                                           *)
Newline == << "\n" >>
PiecesOf(e) == [i \in 1..e.size |-> << e, i >>]
BodyOf(events) == FlattenSeq([i \in DOMAIN events |-> PiecesOf(events[i]) \o << Newline >>])

Ask ==
    /\ ~mlUndefined /\ mlWorker = "idle" /\ mlRequests < MaxRequests
    /\ mlRequests' = mlRequests + 1
    /\ IF mlProvider.freed
       THEN /\ mlUndefined' = TRUE /\ UNCHANGED << mlProvider, mlWorker >>
       ELSE /\ ai_model_set_stream_callback(mlProvider.stream)
            /\ mlWorker' = "asking" /\ UNCHANGED mlUndefined
    /\ UNCHANGED << mlConfig, mlAgent, mlOps, mlByHttp, mlStream, mlAnswer, mlCommands >>

(* openai_send_messages begins to stream; the other providers ask and wait.  *)
SendMessages ==
    /\ ~mlUndefined /\ mlWorker = "asking"
    /\ IF mlProvider.freed THEN UsesFreedMemory
       ELSE /\ \E events \in Bodies : mlBody' = events /\ mlLeft' = BodyOf(events)
            /\ mlWorker' = IF mlProvider.type = "openai" /\ mlProvider.stream THEN "streaming"
                            ELSE "waiting"
            /\ mlLine' = << >> /\ mlContent' = << >> /\ mlShown' = << >>
            /\ mlTools' = NoTools
            /\ UNCHANGED << mlConfig, mlAgent, mlProvider, mlOps, mlByHttp, mlAnswer, mlUndefined,
                            mlCommands, mlRequests >>

accumulate_tool_calls(tools, e) ==
    IF e.index \notin DOMAIN tools THEN tools
    ELSE [tools EXCEPT ![e.index] = [name |-> OrElse(e.name, @.name), args |-> @.args \o e.args]]

(* A line that is not a whole event is not JSON, or does not begin as data.  *)
process_sse_line(s, line) ==
    IF line = << >> \/ line[1] = Newline \/ line # PiecesOf(line[1][1]) THEN s
    ELSE LET e == line[1][1] IN
         CASE e.kind = "content" ->
                [s EXCEPT !.content = @ \o e.text, !.shown = IF mlProvider.callback THEN s.content \o e.text ELSE @]
           [] e.kind = "tool" -> [s EXCEPT !.tools = accumulate_tool_calls(@, e)]
           [] OTHER -> s

(* One character: a newline, or a full line, ends the line, and the          *)
(* character that did is dropped.                                            *)
TakePiece(s, c) ==
    IF c = Newline \/ Len(s.line) >= LineSize
    THEN [process_sse_line(s, s.line) EXCEPT !.line = << >>]
    ELSE [s EXCEPT !.line = Append(@, c)]

stream_data_callback_afresh(data) ==
    FoldLeft(TakePiece, [line |-> << >>, content |-> mlContent, tools |-> mlTools, shown |-> mlShown], data)
stream_data_callback(data) ==
    FoldLeft(TakePiece, [line |-> mlLine, content |-> mlContent, tools |-> mlTools, shown |-> mlShown], data)

(* Any number of characters arrive together.                                *)
ReceivePieces ==
    /\ ~mlUndefined /\ mlWorker = "streaming" /\ mlLeft # << >>
    /\ \E n \in 1..Len(mlLeft) :
          LET s == stream_data_callback(SubSeq(mlLeft, 1, n)) IN
          /\ mlLine' = s.line /\ mlContent' = s.content
          /\ mlTools' = s.tools /\ mlShown' = s.shown
          /\ mlLeft' = SubSeq(mlLeft, n + 1, Len(mlLeft))
    /\ UNCHANGED << mlConfig, mlAgent, mlProvider, mlOps, mlByHttp, mlWorker, mlAnswer, mlBody,
                    mlUndefined, mlCommands, mlRequests >>

(* The answer of a whole body, as a reply that is not streamed holds it.     *)
Fitting(events) ==
    FlattenSeq([i \in DOMAIN events |->
        IF events[i].size <= LineSize THEN << events[i] >> ELSE << >>])
TextIn(events) ==
    FlattenSeq([i \in DOMAIN events |-> IF events[i].kind = "content" THEN events[i].text ELSE << >>])
WithCallOf(tools, e) == IF e.kind = "tool" THEN accumulate_tool_calls(tools, e) ELSE tools
ToolsIn(events) == FoldLeft(WithCallOf, NoTools, events)
build_tool_calls_json(tools) == SelectSeq(tools, LAMBDA t : t.name # NULL)

(* The request ends, well or badly; the callback is taken from the provider  *)
(* there is now.                                                             *)
RequestEnds(answer) ==
    /\ IF mlProvider.freed THEN mlUndefined' = TRUE /\ UNCHANGED mlProvider
       ELSE ai_model_set_stream_callback(FALSE) /\ UNCHANGED mlUndefined
    /\ mlWorker' = "idle"
    /\ mlAnswer' = answer
    /\ UNCHANGED << mlConfig, mlAgent, mlOps, mlByHttp, mlStream, mlCommands, mlRequests >>
StreamEnds ==
    /\ ~mlUndefined /\ mlWorker = "streaming" /\ mlLeft = << >>
    /\ RequestEnds(<< "streamed", mlContent, build_tool_calls_json(mlTools) >>)
AnswerArrives ==
    /\ ~mlUndefined /\ mlWorker = "waiting"
    /\ RequestEnds(<< "whole", TextIn(mlBody),
                 IF mlProvider.type = "openai" THEN build_tool_calls_json(ToolsIn(mlBody)) ELSE << >> >>)
RequestFails ==
    /\ ~mlUndefined /\ mlWorker \in {"streaming", "waiting"}
    /\ RequestEnds(<< "error" >>)
(* Its provider has been destroyed under it.                                *)
Orphaned == ~mlUndefined /\ mlWorker = "orphan" /\ UsesFreedMemory

Worker == Ask \/ SendMessages \/ ReceivePieces \/ StreamEnds \/ AnswerArrives \/ RequestFails \/ Orphaned

MlNext == Worker \/ \E o \in Operators : Operator(o)
MlSpec == MlInit /\ [][MlNext]_mlVars

(* The strings, those of the configuration and the code's own.              *)
Literals == {NULL, "model_n", "gpt-4", "claude-3-opus-20240229", "gemini-pro", "llama3",
             "llama", "llama3.2", "11434"}
Text == STRING \cup Literals
Settings == [name : Text, provider : Text, model_name : Text, url : Text, stream : BOOLEAN]
Providers == [type : Types, model_name : Text, url : Text, stream : BOOLEAN,
              callback : BOOLEAN, freed : BOOLEAN]
Holdings == [pc : {"idle", "synced", "destroyed", "created"}, config : Settings,
             dangling : BOOLEAN, renames : BOOLEAN]

ModelTypeOK ==
    /\ mlModels \in Seq(Settings) /\ mlModel \in Settings
    /\ mlProvider \in Providers
    /\ mlOps \in [Operators -> Holdings]
    /\ mlWorker \in {"idle", "asking", "waiting", "streaming", "orphan"}
    /\ Len(mlLine) <= LineSize
    /\ mlCommands \in 0..MaxSwitches /\ mlRequests \in 0..MaxRequests

(***************************************************************************)
(* Properties                                                               *)
(***************************************************************************)

(* Unless a switch is between its steps, the provider asks the model of the  *)
(* server that the configuration has selected, and speaks the protocol it    *)
(* declares, through any switches and renamings, one after the other or one  *)
(* inside another, that did not use freed memory.  POST /model/switch does   *)
(* not pass the declared protocol on.                                        *)
SelectedModelAnswers ==
    ~mlUndefined /\ (\A o \in Operators : mlOps[o].pc \in {"idle", "created"}) =>
        /\ mlModel.model_name # NULL => mlProvider.model_name = mlModel.model_name
        /\ mlModel.url # NULL => mlProvider.url = mlModel.url
        /\ mlModel.provider \in Types /\ ~mlByHttp => mlProvider.type = mlModel.provider
        /\ mlCurrent \in DOMAIN mlModels => mlModels[mlCurrent].model_name = mlModel.model_name

(* However the pieces of a stream arrive, the answer holds the text of the   *)
(* model and its calls as an answer that is not streamed would, except for   *)
(* what came on lines that are too long, and the channels have been shown    *)
(* all of the text or, when a switch took their callback away, nothing.      *)
WholeAnswer ==
  /\ ModelTypeOK
  /\ mlWorker = "idle" /\ mlAnswer[1] = "streamed" =>
        LET events == Fitting(mlBody) IN
        /\ mlAnswer[2] = TextIn(events)
        /\ mlAnswer[3] = build_tool_calls_json(ToolsIn(events))
        /\ mlShown \in {<< >>, mlAnswer[2]}

=============================================================================
