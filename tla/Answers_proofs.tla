--------------------------- MODULE Answers_proofs ---------------------------
(***************************************************************************)
(* Proofs about what the model answers and what becomes of it: ModelLayer, *)
(* which asks the selected model and takes its stream apart, and           *)
(* AgentTools, which takes the calls out of a reply and carries them out.  *)
(* The two share no state.                                                 *)
(***************************************************************************)
EXTENDS ModelLayer, AgentTools, DataLemmas

-----------------------------------------------------------------------------
(***************************************************************************)
(* Which model answers (ModelLayer), for any configuration file.  A switch *)
(* frees the strings of the configuration it replaces: an operator that    *)
(* holds pointers to them and has not made its provider is left dangling,  *)
(* and ends the behaviour when it goes on.  One that is not dangling makes *)
(* the provider of what is selected at that moment, however many others    *)
(* began or finished in between.                                           *)
(***************************************************************************)

ModelTypes ==
    /\ mlModels \in Seq(Settings) /\ mlModel \in Settings /\ mlCurrent \in Nat
    /\ mlProvider \in Providers
    /\ mlOps \in [Operators -> Holdings]
    /\ mlByHttp \in BOOLEAN /\ mlUndefined \in BOOLEAN

\* What an operator passes on of the model that it selects.
Passed(o, m) == IF o = "http" THEN [m EXCEPT !.provider = NULL] ELSE m

\* An operator that may still make a provider holds what is selected now.
HoldsTheSelection ==
    \A o \in Operators :
        mlOps[o].pc \in {"synced", "destroyed"} /\ ~mlOps[o].dangling
            => mlOps[o].config = Passed(o, mlModel)

\* The provider is the one of m.
Serves(p, m, byHttp) ==
    /\ m.model_name # NULL => p.model_name = m.model_name
    /\ m.url # NULL => p.url = m.url
    /\ m.provider \in Types /\ ~byHttp => p.type = m.provider

\* The list of models names the one in use as the configuration does.
ListAgrees == mlCurrent \in DOMAIN mlModels => mlModels[mlCurrent].model_name = mlModel.model_name

NoSwitch == \A o \in Operators : mlOps[o].pc \in {"idle", "created"}

ModelInv ==
    /\ ModelTypes
    /\ HoldsTheSelection
    /\ NoSwitch => Serves(mlProvider, mlModel, mlByHttp)
    /\ ListAgrees
-----------------------------------------------------------------------------
(* The configuration. *)

LEMMA OrElseTypes ==
    ASSUME NEW a \in Text, NEW b \in Text
    PROVE  OrElse(a, b) \in Text /\ (a # NULL => OrElse(a, b) = a)
BY DEF OrElse

\* The list of a file, parsed.
LEMMA ParsedModels ==
    ASSUME NEW file \in ConfigFiles
    PROVE  parse_models_config(file.models) \in Seq(Settings)
<1> DEFINE list == file.models
<1>1. list \in Seq(ModelEntries)
  BY ConfigAssumption
<1> HIDE DEF list
<1>2. \A e \in ModelEntries : parse_single_model(e) \in Settings
  <2> SUFFICES ASSUME NEW e \in ModelEntries PROVE parse_single_model(e) \in Settings
    OBVIOUS
  <2>1. /\ e.name \in Text /\ e.provider \in Text /\ e.model_name \in Text /\ e.url \in Text
        /\ e.stream \in BOOLEAN /\ "model_n" \in Text
    BY DEF ModelEntries, Text, Literals
  <2>2. OrElse(e.name, "model_n") \in Text /\ OrElse(e.model_name, e.name) \in Text
    BY <2>1, OrElseTypes
  <2> QED BY <2>1, <2>2 DEF Settings, parse_single_model
<1>3. DOMAIN list = 1..Len(list) /\ Len(list) \in Nat /\ \A i \in 1..Len(list) : list[i] \in ModelEntries
  BY <1>1, ElementOfSeq, LenProperties
<1>4. parse_models_config(list) \in [1..Len(list) -> Settings]
  BY <1>2, <1>3 DEF parse_models_config
<1>5. parse_models_config(list) \in Seq(Settings)
  BY <1>3, <1>4, SeqDef
<1> QED BY <1>5 DEF list

\* The first of the models that bear a name that one bears.
LEMMA FoundModel ==
    ASSUME NEW models \in Seq(Settings), NEW name, Named(models, name) # {}
    PROVE  find_model_index(models, name) \in DOMAIN models
<1>1. Named(models, name) \in SUBSET Nat
  BY DEF Named
<1>2. \E n \in Named(models, name) : \A m \in Named(models, name) : n <= m
  BY <1>1, Least
<1>3. find_model_index(models, name) \in Named(models, name)
  BY <1>2 DEF find_model_index
<1> QED BY <1>3 DEF Named

LEMMA TargetModel ==
    ASSUME NEW models \in Seq(Settings), models # <<>>, NEW default, NEW current
    PROVE  TargetIndex(models, default, current) \in DOMAIN models
<1>1. 1 \in DOMAIN models
  BY EmptySeq, LenProperties
<1> QED BY <1>1, FoundModel DEF TargetIndex

LEMMA NoModelTypes == NoModel \in Settings
BY DEF NoModel, Settings, Text, Literals

\* The fields of earlier versions do not touch the name the server is asked for.
LEMMA LegacyFields ==
    ASSUME NEW m \in Settings, NEW file \in ConfigFiles
    PROVE  /\ parse_legacy_config(m, file.legacy) \in Settings
           /\ parse_legacy_config(m, file.legacy).model_name = m.model_name
<1>1. /\ file.legacy.name \in Text /\ file.legacy.provider \in Text
      /\ file.legacy.url \in Text
  BY ConfigAssumption DEF Text
<1>2. m.name \in Text /\ m.provider \in Text /\ m.url \in Text
  BY DEF Settings
<1>3. /\ OrElse(file.legacy.name, m.name) \in Text
      /\ OrElse(file.legacy.provider, m.provider) \in Text
      /\ OrElse(file.legacy.url, m.url) \in Text
  BY <1>1, <1>2, OrElseTypes
<1> QED BY <1>3 DEF parse_legacy_config, Settings

-----------------------------------------------------------------------------
(* The providers. *)

LEMMA TypesOfProviders ==
    ASSUME NEW provider \in Text, NEW url \in Text
    PROVE  TypeFor(provider, url) \in Types /\ (provider \in Types => TypeFor(provider, url) = provider)
BY DEF TypeFor, InferredType, Types

\* The provider that is made of m serves m.
LEMMA ProviderServes ==
    ASSUME NEW m \in Settings, NEW type \in Types
    PROVE  LET p == ai_provider_create(type, m) IN
           /\ p \in Providers /\ p.type = type /\ p.url = m.url
           /\ m.model_name # NULL => p.model_name = m.model_name
<1>1. m.model_name \in Text /\ m.url \in Text /\ m.stream \in BOOLEAN
  BY DEF Settings
<1>2. DefaultName(type) \in Text
  BY DEF DefaultName, Types, Text, Literals
<1>3. OrElse(m.model_name, DefaultName(type)) \in Text
      /\ (m.model_name # NULL => OrElse(m.model_name, DefaultName(type)) = m.model_name)
  BY <1>1, <1>2, OrElseTypes
<1> QED BY <1>1, <1>3 DEF ai_provider_create, Providers

\* So does the one of the start, whose defaults stand for what is absent.
LEMMA FirstServes ==
    ASSUME NEW m \in Settings
    PROVE  FirstProvider(m) \in Providers /\ Serves(FirstProvider(m), m, FALSE)
<1> DEFINE provider == OrElse(m.provider, "llama")
           config == [m EXCEPT !.model_name = OrElse(OrElse(@, m.name), "llama3.2"),
                               !.url = OrElse(@, "11434")]
<1>1. /\ m.name \in Text /\ m.provider \in Text /\ m.model_name \in Text
      /\ m.url \in Text
  BY DEF Settings
<1>2. /\ OrElse(m.model_name, m.name) \in Text
      /\ OrElse(OrElse(m.model_name, m.name), "llama3.2") \in Text
      /\ OrElse(m.url, "11434") \in Text
      /\ provider \in Text
      /\ m.model_name # NULL => OrElse(OrElse(m.model_name, m.name), "llama3.2") = m.model_name
      /\ m.url # NULL => OrElse(m.url, "11434") = m.url
      /\ m.provider # NULL => provider = m.provider
  BY <1>1 DEF OrElse, Text, Literals
<1>3. config \in Settings /\ config.url = OrElse(m.url, "11434")
      /\ config.model_name = OrElse(OrElse(m.model_name, m.name), "llama3.2")
  BY <1>2 DEF Settings
<1>4. NULL \notin Types
  BY DEF NULL, Types
<1> HIDE DEF provider, config
<1>5. config.url \in Text
  BY <1>3 DEF Settings
<1>6. TypeFor(provider, config.url) \in Types
      /\ (provider \in Types => TypeFor(provider, config.url) = provider)
  BY <1>2, <1>5, TypesOfProviders
<1>7. PICK t \in Types : t = TypeFor(provider, config.url)
  BY <1>6
<1> DEFINE p == ai_provider_create(t, config)
<1>8. p \in Providers /\ p.type = t /\ p.url = config.url
      /\ (config.model_name # NULL => p.model_name = config.model_name)
  BY <1>3, ProviderServes
<1>9. FirstProvider(m) = p
  BY <1>7 DEF FirstProvider, provider, config
<1> HIDE DEF p
<1>10. Serves(p, m, FALSE)
  BY <1>2, <1>3, <1>4, <1>6, <1>7, <1>8 DEF Serves
<1> QED BY <1>8, <1>9, <1>10
-----------------------------------------------------------------------------
(* The start. *)

LEMMA ModelInit ==
    MlInit => ModelInv
<1> SUFFICES ASSUME MlInit PROVE ModelInv
  OBVIOUS
<1>1. PICK file \in ConfigFiles :
          /\ mlModels = parse_models_config(file.models)
          /\ mlCurrent = IF mlModels = <<>> THEN 1 ELSE TargetIndex(mlModels, file.default, 1)
          /\ mlModel = config_load(file)
  BY DEF MlInit
<1> DEFINE chosen == sync_current_model(mlModels, file.default, 1)
<1>2. mlModels \in Seq(Settings)
  BY <1>1, ParsedModels
<1>5. /\ mlCurrent \in Nat /\ chosen \in Settings
      /\ mlCurrent \in DOMAIN mlModels => chosen = mlModels[mlCurrent]
  <2>1. CASE mlModels = <<>>
    BY <2>1, <1>1, EmptySeq, NoModelTypes DEF sync_current_model
  <2>2. CASE mlModels # <<>>
    <3>1. mlCurrent \in DOMAIN mlModels /\ chosen = mlModels[mlCurrent]
      BY <1>1, <1>2, <2>2, TargetModel DEF sync_current_model
    <3> QED BY <1>2, <3>1, ElementOfSeq, LenProperties
  <2> QED BY <2>1, <2>2
<1>6. mlModel = parse_legacy_config(chosen, file.legacy)
  BY <1>1 DEF config_load
<1> HIDE DEF chosen
<1>7. mlModel \in Settings /\ mlModel.model_name = chosen.model_name
  BY <1>5, <1>6, LegacyFields
<1>8. /\ mlProvider = FirstProvider(mlModel) /\ mlByHttp = FALSE /\ mlUndefined = FALSE
      /\ mlOps = [o \in Operators |-> Idle]
  BY DEF MlInit
<1>9. mlProvider \in Providers /\ Serves(mlProvider, mlModel, FALSE)
  BY <1>7, <1>8, FirstServes
<1>10. Idle \in Holdings /\ Idle.pc = "idle"
  BY NoModelTypes DEF Idle, Holdings
<1>11. mlOps \in [Operators -> Holdings] /\ \A o \in Operators : mlOps[o].pc = "idle"
  BY <1>8, <1>10
<1>12. ModelTypes
  BY <1>2, <1>5, <1>7, <1>8, <1>9, <1>11 DEF ModelTypes
<1>13. HoldsTheSelection
  BY <1>11 DEF HoldsTheSelection
<1>14. ListAgrees
  BY <1>5, <1>7 DEF ListAgrees
<1> QED BY <1>8, <1>9, <1>12, <1>13, <1>14 DEF ModelInv

-----------------------------------------------------------------------------
(* The steps. *)

\* A switch to m: those who were about to make a provider are left dangling, and o
\* holds what it passes on of m.
LEMMA SwitchStep ==
    ASSUME ModelInv, NEW o \in Operators, NEW m \in Settings, NEW renames \in BOOLEAN,
           Synced(o, m, renames), mlModel' = m,
           mlModels' \in Seq(Settings), mlCurrent' \in Nat, ListAgrees',
           UNCHANGED <<mlProvider, mlByHttp, mlUndefined>>
    PROVE  ModelInv'
<1> DEFINE held == [pc |-> "synced", config |-> Passed(o, m), dangling |-> FALSE,
                    renames |-> renames]
           ops == [mlOps EXCEPT ![o] = held]
<1>1. mlOps' = OthersDangle(o, ops)
  BY DEF Synced, Passed
<1>2. Passed(o, m) \in Settings
  BY DEF Passed, Settings, Text, Literals
<1>3. held \in Holdings
  BY <1>2 DEF Holdings
<1>4. held.pc = "synced" /\ held.config = Passed(o, m) /\ held.dangling = FALSE
  OBVIOUS
<1> HIDE DEF held
<1>5. ops \in [Operators -> Holdings] /\ ops[o] = held
      /\ \A p \in Operators : p # o => ops[p] = mlOps[p]
  BY <1>3 DEF ModelInv, ModelTypes
<1> HIDE DEF ops
<1>6. ASSUME NEW p \in Operators
      PROVE  /\ mlOps'[p] \in Holdings
             /\ mlOps'[p].pc = ops[p].pc /\ mlOps'[p].config = ops[p].config
             /\ mlOps'[p].dangling
                  = (ops[p].dangling \/ (p # o /\ ops[p].pc \in {"synced", "destroyed"}))
  <2>1. ops[p] \in Holdings
    BY <1>5
  <2>2. mlOps'[p]
          = [ops[p] EXCEPT !.dangling = @ \/ (p # o /\ ops[p].pc \in {"synced", "destroyed"})]
    BY <1>1 DEF OthersDangle
  <2> QED BY <2>1, <2>2 DEF Holdings
<1>7. mlOps' \in [Operators -> Holdings]
  <2>1. mlOps' = [p \in Operators |-> mlOps'[p]]
    BY <1>1 DEF OthersDangle
  <2> QED BY <1>6, <2>1
<1>8. ModelTypes'
  BY <1>7 DEF ModelInv, ModelTypes
<1>9. HoldsTheSelection'
  <2> SUFFICES ASSUME NEW p \in Operators,
                      mlOps'[p].pc \in {"synced", "destroyed"}, ~mlOps'[p].dangling
               PROVE  mlOps'[p].config = Passed(p, m)
    BY DEF HoldsTheSelection, Passed
  <2>1. p = o
    BY <1>6
  <2> QED BY <2>1, <1>4, <1>5, <1>6
<1>10. mlOps'[o].pc = "synced"
  BY <1>4, <1>5, <1>6
<1>11. ~NoSwitch'
  BY <1>10 DEF NoSwitch
<1> QED BY <1>8, <1>9, <1>11 DEF ModelInv

LEMMA SelectStep ==
    ASSUME ModelInv, NEW o \in Operators, NEW i \in DOMAIN mlModels, config_switch_model(o, i),
           UNCHANGED <<mlProvider, mlByHttp, mlUndefined>>
    PROVE  ModelInv'
<1> DEFINE m == mlModels[i]
<1>1. mlModels \in Seq(Settings)
  BY DEF ModelInv, ModelTypes
<1>2. m \in Settings /\ i \in Nat
  BY <1>1, ElementOfSeq, LenProperties
<1>3. /\ mlCurrent' = i /\ mlModel' = m /\ mlModels' = mlModels
      /\ Synced(o, m, FALSE)
  BY DEF config_switch_model
<1>4. ListAgrees'
  BY <1>3 DEF ListAgrees
<1>5. mlModels' \in Seq(Settings) /\ mlCurrent' \in Nat
  BY <1>1, <1>2, <1>3
<1> HIDE DEF m
<1> QED BY <1>2, <1>3, <1>4, <1>5, SwitchStep

LEMMA RenameStep ==
    ASSUME ModelInv, NEW name \in NewNames, cmd_model_name(name),
           UNCHANGED <<mlProvider, mlByHttp, mlUndefined>>
    PROVE  ModelInv'
<1> DEFINE m == [mlModel EXCEPT !.model_name = name]
<1>1. /\ mlModels \in Seq(Settings) /\ mlModel \in Settings /\ mlCurrent \in Nat
  BY DEF ModelInv, ModelTypes
<1>2. name \in Text
  BY ConfigAssumption DEF Text
<1>3. \A s \in Settings : /\ [s EXCEPT !.model_name = name] \in Settings
                          /\ [s EXCEPT !.model_name = name].model_name = name
  BY <1>2 DEF Settings
<1>4. /\ mlModel' = m /\ mlCurrent' = mlCurrent
      /\ mlModels' = [i \in DOMAIN mlModels |->
                        IF i = mlCurrent THEN [mlModels[i] EXCEPT !.model_name = name]
                        ELSE mlModels[i]]
      /\ Synced("console", m, TRUE)
  BY DEF cmd_model_name
<1>5. m \in Settings /\ m.model_name = name
  BY <1>1, <1>3
<1>6. DOMAIN mlModels = 1..Len(mlModels) /\ Len(mlModels) \in Nat
      /\ \A i \in 1..Len(mlModels) : mlModels[i] \in Settings
  BY <1>1, ElementOfSeq, LenProperties
<1> HIDE DEF m
<1>7. mlModels' \in [1..Len(mlModels) -> Settings]
  BY <1>3, <1>4, <1>6
<1>8. mlModels' \in Seq(Settings)
  BY <1>6, <1>7, SeqDef
<1>9. ListAgrees'
  <2> SUFFICES ASSUME mlCurrent' \in DOMAIN mlModels'
               PROVE  mlModels'[mlCurrent'].model_name = mlModel'.model_name
    BY DEF ListAgrees
  <2>1. mlCurrent \in DOMAIN mlModels /\ mlModels[mlCurrent] \in Settings
    BY <1>4, <1>6
  <2>2. mlModels'[mlCurrent'] = [mlModels[mlCurrent] EXCEPT !.model_name = name]
    BY <1>4, <2>1
  <2> QED BY <1>3, <1>4, <1>5, <2>1, <2>2
<1>10. "console" \in Operators /\ mlCurrent' \in Nat
  BY <1>1, <1>4 DEF Operators
<1> QED BY <1>4, <1>5, <1>8, <1>9, <1>10, SwitchStep

LEMMA BeginStep ==
    ASSUME ModelInv, NEW o \in Operators, Begin(o)
    PROVE  ModelInv'
<1>1. UNCHANGED <<mlProvider, mlByHttp, mlUndefined>>
  BY DEF Begin
<1>2. CASE \E i \in DOMAIN mlModels :
              config_switch_model(o, find_model_index(mlModels, mlModels[i].name))
  <2>1. PICK i \in DOMAIN mlModels :
              config_switch_model(o, find_model_index(mlModels, mlModels[i].name))
    BY <1>2
  <2>2. PICK j : j = find_model_index(mlModels, mlModels[i].name)
    OBVIOUS
  <2>3. config_switch_model(o, j)
    BY <2>1, <2>2
  <2>4. j \in DOMAIN mlModels
    BY <2>3 DEF config_switch_model
  <2> QED BY <1>1, <2>3, <2>4, SelectStep
<1>3. CASE o = "console" /\ \E i \in DOMAIN mlModels : config_switch_model(o, i)
  BY <1>1, <1>3, SelectStep
<1>4. CASE o = "console" /\ \E name \in NewNames : cmd_model_name(name)
  BY <1>1, <1>4, RenameStep
<1> QED BY <1>2, <1>3, <1>4 DEF Begin

\* Memory that was freed is used: nothing but the flag changes.
LEMMA FreedStep ==
    ASSUME ModelInv, UsesFreedMemory
    PROVE  ModelInv'
<1>1. /\ mlModels' = mlModels /\ mlCurrent' = mlCurrent /\ mlModel' = mlModel
      /\ mlProvider' = mlProvider /\ mlOps' = mlOps /\ mlByHttp' = mlByHttp
      /\ mlUndefined' = TRUE
  BY DEF UsesFreedMemory, mlConfig
<1>2. ModelTypes' /\ HoldsTheSelection' /\ ListAgrees' /\ (NoSwitch' = NoSwitch)
  BY <1>1 DEF ModelInv, ModelTypes, HoldsTheSelection, ListAgrees, NoSwitch, Passed
<1>3. NoSwitch' => Serves(mlProvider', mlModel', mlByHttp')
  BY <1>1, <1>2 DEF ModelInv
<1> QED BY <1>2, <1>3 DEF ModelInv

\* The provider keeps what it was made of, whatever its callback, and one is freed
\* behind which another follows.
LEMMA WorkStep ==
    ASSUME ModelInv, NEW callback \in BOOLEAN, NEW undefined \in BOOLEAN,
           mlProvider' \in {mlProvider, [mlProvider EXCEPT !.callback = callback]},
           mlUndefined' = undefined,
           UNCHANGED <<mlConfig, mlOps, mlByHttp>>
    PROVE  ModelInv'
<1>1. /\ mlModels' = mlModels /\ mlCurrent' = mlCurrent /\ mlModel' = mlModel
      /\ mlOps' = mlOps /\ mlByHttp' = mlByHttp
  BY DEF mlConfig
<1>2. mlProvider \in Providers
  BY DEF ModelInv, ModelTypes
<1>3. /\ mlProvider' \in Providers
      /\ mlProvider'.type = mlProvider.type /\ mlProvider'.url = mlProvider.url
      /\ mlProvider'.model_name = mlProvider.model_name
  BY <1>2 DEF Providers
<1>4. ModelTypes' /\ HoldsTheSelection' /\ ListAgrees' /\ (NoSwitch' = NoSwitch)
  BY <1>1, <1>3 DEF ModelInv, ModelTypes, HoldsTheSelection, ListAgrees, NoSwitch, Passed
<1>5. NoSwitch' => Serves(mlProvider', mlModel', mlByHttp')
  BY <1>1, <1>3, <1>4 DEF ModelInv, Serves
<1> QED BY <1>4, <1>5 DEF ModelInv
\* Only what one operator holds changes, and its wait for a provider ends or the
\* provider is freed.
LEMMA DestroyStep ==
    ASSUME ModelInv, NEW o \in Operators, DestroyProvider(o)
    PROVE  ModelInv'
<1>1. CASE mlProvider.freed
  BY <1>1, FreedStep DEF DestroyProvider
<1>2. CASE ~mlProvider.freed
  <2>1. /\ mlProvider' = [mlProvider EXCEPT !.freed = TRUE]
        /\ mlOps' = [mlOps EXCEPT ![o].pc = "destroyed"] /\ mlOps[o].pc = "synced"
        /\ mlModels' = mlModels /\ mlCurrent' = mlCurrent /\ mlModel' = mlModel
        /\ mlByHttp' = mlByHttp /\ mlUndefined' = mlUndefined
    BY <1>2 DEF DestroyProvider, mlConfig
  <2>2. mlProvider \in Providers /\ mlOps \in [Operators -> Holdings]
    BY DEF ModelInv, ModelTypes
  <2>3. mlProvider' \in Providers
    BY <2>1, <2>2 DEF Providers
  <2>4. \A h \in Holdings : LET g == [h EXCEPT !.pc = "destroyed"] IN
            /\ g \in Holdings /\ g.pc = "destroyed" /\ g.config = h.config
            /\ g.dangling = h.dangling
    BY DEF Holdings
  <2>5. mlOps[o] \in Holdings /\ mlOps'[o] = [mlOps[o] EXCEPT !.pc = "destroyed"]
    BY <2>1, <2>2
  <2>6. \A p \in Operators : p # o => mlOps'[p] = mlOps[p]
    BY <2>1, <2>2
  <2>7. mlOps' \in [Operators -> Holdings]
    <3>1. DOMAIN mlOps' = Operators /\ mlOps' = [p \in Operators |-> mlOps'[p]]
      BY <2>1, <2>2
    <3>2. \A p \in Operators : mlOps'[p] \in Holdings
      BY <2>2, <2>4, <2>5, <2>6
    <3> QED BY <3>1, <3>2
  <2>8. ModelTypes'
    BY <2>1, <2>3, <2>7 DEF ModelInv, ModelTypes
  <2>9. HoldsTheSelection'
    <3> SUFFICES ASSUME NEW p \in Operators,
                        mlOps'[p].pc \in {"synced", "destroyed"}, ~mlOps'[p].dangling
                 PROVE  mlOps'[p].config = Passed(p, mlModel)
      BY <2>1 DEF HoldsTheSelection, Passed
    <3>1. mlOps[p].pc \in {"synced", "destroyed"} /\ ~mlOps[p].dangling
          /\ mlOps'[p].config = mlOps[p].config
      BY <2>1, <2>4, <2>5, <2>6
    <3> QED BY <3>1 DEF ModelInv, HoldsTheSelection
  <2>10. mlOps'[o].pc = "destroyed"
    BY <2>4, <2>5
  <2>11. ~NoSwitch'
    BY <2>10 DEF NoSwitch
  <2>12. ListAgrees'
    BY <2>1 DEF ModelInv, ListAgrees
  <2> QED BY <2>8, <2>9, <2>11, <2>12 DEF ModelInv
<1> QED BY <1>1, <1>2

\* The operator's wait for a provider ends.
LEMMA DoneOps ==
    ASSUME ModelInv, NEW o \in Operators, NEW h \in Holdings, h.pc \in {"idle", "created"},
           mlOps' = [mlOps EXCEPT ![o] = h], mlModel' = mlModel
    PROVE  mlOps' \in [Operators -> Holdings] /\ HoldsTheSelection'
<1>1. mlOps \in [Operators -> Holdings]
  BY DEF ModelInv, ModelTypes
<1>2. mlOps' \in [Operators -> Holdings] /\ mlOps'[o] = h
      /\ \A p \in Operators : p # o => mlOps'[p] = mlOps[p]
  BY <1>1
<1>3. HoldsTheSelection'
  <2> SUFFICES ASSUME NEW p \in Operators,
                      mlOps'[p].pc \in {"synced", "destroyed"}, ~mlOps'[p].dangling
               PROVE  mlOps'[p].config = Passed(p, mlModel)
    BY DEF HoldsTheSelection, Passed
  <2>1. p # o
    BY <1>2
  <2> QED BY <1>2, <2>1 DEF ModelInv, HoldsTheSelection
<1> QED BY <1>2, <1>3

LEMMA IdleTypes == Idle \in Holdings /\ Idle.pc = "idle"
BY NoModelTypes DEF Idle, Holdings

\* An operator that is not dangling makes the provider of what is selected.
LEMMA CreateStep ==
    ASSUME ModelInv, NEW o \in Operators, CreateProvider(o)
    PROVE  ModelInv'
<1>1. CASE mlOps[o].dangling
  BY <1>1, FreedStep DEF CreateProvider
<1>2. CASE ~mlOps[o].dangling
  <2>1. PICK m : m = mlOps[o].config
    OBVIOUS
  <2>2. /\ mlProvider' = ai_provider_create(TypeFor(m.provider, m.url), m)
        /\ mlByHttp' = (o = "http")
        /\ mlOps' = [mlOps EXCEPT ![o] = IF @.renames THEN Idle ELSE [@ EXCEPT !.pc = "created"]]
        /\ mlOps[o].pc = "destroyed"
        /\ mlModels' = mlModels /\ mlCurrent' = mlCurrent /\ mlModel' = mlModel
        /\ mlUndefined' = mlUndefined
    BY <1>2, <2>1 DEF CreateProvider, mlConfig
  <2>3. mlModel \in Settings /\ mlOps[o] \in Holdings /\ mlOps \in [Operators -> Holdings]
    BY DEF ModelInv, ModelTypes
  <2>4. m = Passed(o, mlModel)
    BY <1>2, <2>1, <2>2 DEF ModelInv, HoldsTheSelection
  <2>5. /\ m \in Settings /\ m.model_name = mlModel.model_name /\ m.url = mlModel.url
        /\ o # "http" => m = mlModel
    BY <2>3, <2>4 DEF Passed, Settings, Text, Literals
  <2>6. m.provider \in Text /\ m.url \in Text
    BY <2>5 DEF Settings
  <2>7. PICK t \in Types : /\ t = TypeFor(m.provider, m.url)
                           /\ m.provider \in Types => t = m.provider
    BY <2>6, TypesOfProviders
  <2>8. /\ mlProvider' \in Providers /\ mlProvider'.type = t /\ mlProvider'.url = m.url
        /\ m.model_name # NULL => mlProvider'.model_name = m.model_name
    BY <2>2, <2>5, <2>7, ProviderServes
  <2>9. Serves(mlProvider', mlModel', mlByHttp')
    BY <2>2, <2>5, <2>7, <2>8 DEF Serves
  <2> DEFINE h == IF mlOps[o].renames THEN Idle ELSE [mlOps[o] EXCEPT !.pc = "created"]
  <2>10. h \in Holdings /\ h.pc \in {"idle", "created"}
    BY <2>3, IdleTypes DEF Holdings
  <2>11. mlOps' = [mlOps EXCEPT ![o] = h]
    BY <2>2, <2>3
  <2> HIDE DEF h
  <2>12. mlOps' \in [Operators -> Holdings] /\ HoldsTheSelection'
    BY <2>2, <2>10, <2>11, DoneOps
  <2>13. ModelTypes'
    BY <2>2, <2>8, <2>12 DEF ModelInv, ModelTypes
  <2>14. ListAgrees'
    BY <2>2 DEF ModelInv, ListAgrees
  <2> QED BY <2>9, <2>12, <2>13, <2>14 DEF ModelInv
<1> QED BY <1>1, <1>2

LEMMA SetModelStep ==
    ASSUME ModelInv, NEW o \in Operators, agent_set_model(o)
    PROVE  ModelInv'
<1>1. /\ mlOps' = [mlOps EXCEPT ![o] = Idle] /\ mlOps[o].pc = "created"
      /\ mlModels' = mlModels /\ mlCurrent' = mlCurrent /\ mlModel' = mlModel
      /\ mlProvider' = mlProvider /\ mlByHttp' = mlByHttp /\ mlUndefined' = mlUndefined
  BY DEF agent_set_model, mlConfig
<1>2. mlOps' \in [Operators -> Holdings] /\ HoldsTheSelection'
  BY <1>1, IdleTypes, DoneOps
<1>3. ModelTypes' /\ ListAgrees'
  BY <1>1, <1>2 DEF ModelInv, ModelTypes, ListAgrees
<1>4. NoSwitch' => NoSwitch
  BY <1>1, IdleTypes DEF ModelInv, ModelTypes, NoSwitch
<1>5. NoSwitch' => Serves(mlProvider', mlModel', mlByHttp')
  BY <1>1, <1>4 DEF ModelInv
<1> QED BY <1>2, <1>3, <1>5 DEF ModelInv

\* The requests of the worker leave what is selected and what serves it alone.
LEMMA WorkerStep ==
    ASSUME ModelInv, Worker
    PROVE  ModelInv'
<1>1. mlUndefined \in BOOLEAN
  BY DEF ModelInv, ModelTypes
<1>2. CASE Ask
  <2>1. PICK b \in BOOLEAN : b = mlProvider.stream
    BY DEF ModelInv, ModelTypes, Providers
  <2>2. /\ mlProvider' \in {mlProvider, [mlProvider EXCEPT !.callback = b]}
        /\ mlUndefined' \in {TRUE, mlUndefined} /\ UNCHANGED <<mlConfig, mlOps, mlByHttp>>
    BY <1>2, <2>1 DEF Ask, ai_model_set_stream_callback
  <2>3. PICK u \in BOOLEAN : mlUndefined' = u
    BY <1>1, <2>2
  <2> QED BY <2>2, <2>3, WorkStep
<1>3. CASE SendMessages
  <2>1. CASE mlProvider.freed
    BY <1>3, <2>1, FreedStep DEF SendMessages
  <2>2. CASE ~mlProvider.freed
    <3>1. mlProvider' = mlProvider /\ mlUndefined' = mlUndefined
          /\ UNCHANGED <<mlConfig, mlOps, mlByHttp>>
      BY <1>3, <2>2 DEF SendMessages
    <3> QED BY <1>1, <3>1, WorkStep
  <2> QED BY <2>1, <2>2
<1>4. CASE ReceivePieces
  <2>1. mlProvider' = mlProvider /\ mlUndefined' = mlUndefined
        /\ UNCHANGED <<mlConfig, mlOps, mlByHttp>>
    BY <1>4 DEF ReceivePieces
  <2> QED BY <1>1, <2>1, WorkStep
<1>5. ASSUME NEW answer, RequestEnds(answer) PROVE ModelInv'
  <2>1. /\ mlProvider' \in {mlProvider, [mlProvider EXCEPT !.callback = FALSE]}
        /\ mlUndefined' \in {TRUE, mlUndefined} /\ UNCHANGED <<mlConfig, mlOps, mlByHttp>>
    BY <1>5 DEF RequestEnds, ai_model_set_stream_callback
  <2>2. PICK u \in BOOLEAN : mlUndefined' = u
    BY <1>1, <2>1
  <2> QED BY <2>1, <2>2, WorkStep
<1>6. CASE StreamEnds
  BY <1>5, <1>6 DEF StreamEnds
<1>7. CASE AnswerArrives
  BY <1>5, <1>7 DEF AnswerArrives
<1>8. CASE RequestFails
  BY <1>5, <1>8 DEF RequestFails
<1>9. CASE Orphaned
  BY <1>9, FreedStep DEF Orphaned
<1> QED BY <1>2, <1>3, <1>4, <1>6, <1>7, <1>8, <1>9 DEF Worker

LEMMA ModelStutters ==
    ASSUME ModelInv, UNCHANGED mlVars
    PROVE  ModelInv'
<1>1. mlUndefined \in BOOLEAN /\ mlProvider' = mlProvider /\ mlUndefined' = mlUndefined
      /\ UNCHANGED <<mlConfig, mlOps, mlByHttp>>
  BY DEF ModelInv, ModelTypes, mlVars
<1> QED BY <1>1, WorkStep

LEMMA ModelStep == ModelInv /\ [MlNext]_mlVars => ModelInv'
<1> SUFFICES ASSUME ModelInv, [MlNext]_mlVars PROVE ModelInv'
  OBVIOUS
<1>1. ASSUME NEW o \in Operators, Operator(o) PROVE ModelInv'
  BY <1>1, BeginStep, DestroyStep, CreateStep, SetModelStep DEF Operator
<1>2. CASE Worker
  BY <1>2, WorkerStep
<1>3. CASE UNCHANGED mlVars
  BY <1>3, ModelStutters
<1> QED BY <1>1, <1>2, <1>3 DEF MlNext

\* The provider asks the model that the configuration has selected, on the server and
\* in the protocol it names, through any switches and renamings, one inside another:
\* for any configuration file and any number of switches.
THEOREM SelectionServes == MlSpec => []SelectedModelAnswers
<1>1. ModelInv => SelectedModelAnswers
  BY DEF ModelInv, NoSwitch, Serves, ListAgrees, SelectedModelAnswers
<1> QED BY <1>1, ModelInit, ModelStep, PTL DEF MlSpec

-----------------------------------------------------------------------------
(***************************************************************************)
(* What is made of a stream (ModelLayer), for any bodies and any size of   *)
(* the line buffer.  What a stream becomes depends on the characters and   *)
(* not on how they are cut: the state of the parser, put through what has  *)
(* not arrived yet, gives at every moment the same final state.  The       *)
(* lemmas say that it is the one the events themselves give.               *)
(***************************************************************************)

StreamPieces == {Newline} \cup {<<e, i>> : e \in StreamEvents, i \in Nat}
BufferLines == {l \in Seq(StreamPieces) : Len(l) <= LineSize}
ToolArray == [1..MAX_STREAMING_TOOL_CALLS -> [name : Text, args : Seq(STRING)]]
Parsers == [line : BufferLines, content : Seq(STRING), tools : ToolArray, shown : Seq(STRING)]

\* One character, as a function.
Take == [p \in Parsers \X StreamPieces |-> TakePiece(p[1], p[2])]

AtStart == [line |-> <<>>, content |-> <<>>, tools |-> NoTools, shown |-> <<>>]
AtNow == [line |-> mlLine, content |-> mlContent, tools |-> mlTools, shown |-> mlShown]
AtEnd(events) ==
    [line |-> <<>>, content |-> TextIn(Fitting(events)), tools |-> ToolsIn(Fitting(events)),
     shown |-> IF mlProvider.callback THEN TextIn(Fitting(events)) ELSE <<>>]

\* What an event makes of the parser.
WithEvent(s, e) ==
    CASE e.kind = "content" ->
            [s EXCEPT !.content = @ \o e.text, !.shown = IF mlProvider.callback THEN s.content \o e.text ELSE @]
      [] e.kind = "tool" -> [s EXCEPT !.tools = accumulate_tool_calls(@, e)]
      [] OTHER -> s

LEMMA PiecesDiffer ==
    ASSUME NEW e, NEW i
    PROVE  <<e, i>> # Newline
<1>1. Len(<<e, i>>) = 2 /\ Len(Newline) = 1
  BY DEF Newline
<1> QED BY <1>1

LEMMA AccumulateType ==
    ASSUME NEW tools \in ToolArray, NEW e \in StreamEvents
    PROVE  accumulate_tool_calls(tools, e) \in ToolArray
<1>1. DOMAIN tools = 1..MAX_STREAMING_TOOL_CALLS
  BY DEF ToolArray
<1>2. CASE e.index \notin DOMAIN tools
  BY <1>2 DEF accumulate_tool_calls
<1>3. CASE e.index \in DOMAIN tools
  <2>1. PICK k \in 1..MAX_STREAMING_TOOL_CALLS : k = e.index
    BY <1>1, <1>3
  <2>2. /\ tools[k].name \in Text /\ tools[k].args \in Seq(STRING)
        /\ e.name \in Text /\ e.args \in Seq(STRING)
    BY DEF ToolArray, StreamEvents, Text
  <2>3. OrElse(e.name, tools[k].name) \in Text
    BY <2>2 DEF OrElse
  <2>4. tools[k].args \o e.args \in Seq(STRING)
    BY <2>2, ConcatProperties
  <2>5. accumulate_tool_calls(tools, e)
          = [tools EXCEPT ![k] = [name |-> OrElse(e.name, tools[k].name),
                                  args |-> tools[k].args \o e.args]]
    BY <1>3, <2>1 DEF accumulate_tool_calls
  <2> QED BY <2>3, <2>4, <2>5 DEF ToolArray
<1> QED BY <1>2, <1>3

LEMMA WithEventType ==
    ASSUME NEW s \in Parsers, NEW e \in StreamEvents
    PROVE  WithEvent(s, e) \in Parsers /\ WithEvent(s, e).line = s.line
<1>1. /\ s.line \in BufferLines /\ s.content \in Seq(STRING) /\ s.tools \in ToolArray
      /\ s.shown \in Seq(STRING) /\ e.text \in Seq(STRING)
  BY DEF Parsers, StreamEvents
<1>2. s.content \o e.text \in Seq(STRING)
  BY <1>1, ConcatProperties
<1>3. accumulate_tool_calls(s.tools, e) \in ToolArray
  BY <1>1, AccumulateType
<1> QED BY <1>1, <1>2, <1>3 DEF WithEvent, Parsers

\* A line: nothing, or an event.
LEMMA LineRead ==
    ASSUME NEW s \in Parsers, NEW line \in BufferLines
    PROVE  /\ line = <<>> => process_sse_line(s, line) = s
           /\ \A e \in StreamEvents, i \in Nat :
                 line # <<>> /\ line[1] = <<e, i>> =>
                    process_sse_line(s, line) = IF line = PiecesOf(e) THEN WithEvent(s, e) ELSE s
           /\ process_sse_line(s, line) \in Parsers
<1>1. line = <<>> => process_sse_line(s, line) = s
  BY DEF process_sse_line
<1>2. ASSUME NEW e \in StreamEvents, NEW i \in Nat, line # <<>>, line[1] = <<e, i>>
      PROVE  process_sse_line(s, line) = IF line = PiecesOf(e) THEN WithEvent(s, e) ELSE s
  <2>1. line[1] # Newline /\ line[1][1] = e
    BY <1>2, PiecesDiffer
  <2> QED BY <1>2, <2>1 DEF process_sse_line, WithEvent
<1>3. process_sse_line(s, line) \in Parsers
  <2>1. CASE line = <<>>
    BY <1>1, <2>1
  <2>2. CASE line # <<>>
    <3>1. 1 \in 1..Len(line) /\ line \in Seq(StreamPieces)
      BY <2>2, EmptySeq, LenProperties DEF BufferLines
    <3>2. line[1] \in StreamPieces
      BY <3>1, ElementOfSeq
    <3>3. CASE line[1] = Newline
      BY <3>3 DEF process_sse_line
    <3>4. CASE line[1] # Newline
      <4>1. PICK e \in StreamEvents, i \in Nat : line[1] = <<e, i>>
        BY <3>2, <3>4 DEF StreamPieces
      <4> QED BY <1>2, <2>2, <4>1, WithEventType
    <3> QED BY <3>3, <3>4
  <2> QED BY <2>1, <2>2
<1> QED BY <1>1, <1>2, <1>3
LEMMA TakeType == Take \in [Parsers \X StreamPieces -> Parsers]
<1> SUFFICES ASSUME NEW s \in Parsers, NEW c \in StreamPieces PROVE TakePiece(s, c) \in Parsers
  BY DEF Take
<1>1. s.line \in BufferLines
  BY DEF Parsers
<1>2. CASE c = Newline \/ Len(s.line) >= LineSize
  <2>1. PICK t \in Parsers : t = process_sse_line(s, s.line)
    BY <1>1, LineRead
  <2>2. <<>> \in BufferLines
    <3>1. <<>> \in Seq(StreamPieces) /\ Len(<<>>) = 0
      BY EmptySeq
    <3> QED BY <3>1, StreamAssumption DEF BufferLines
  <2>3. TakePiece(s, c) = [t EXCEPT !.line = <<>>]
    BY <1>2, <2>1 DEF TakePiece
  <2> QED BY <2>2, <2>3 DEF Parsers
<1>3. CASE ~(c = Newline \/ Len(s.line) >= LineSize)
  <2>1. s.line \in Seq(StreamPieces) /\ Len(s.line) \in Nat
    BY <1>1, LenProperties DEF BufferLines
  <2>2. Append(s.line, c) \in Seq(StreamPieces) /\ Len(Append(s.line, c)) = Len(s.line) + 1
    BY <2>1, AppendProperties
  <2>3. Len(s.line) + 1 <= LineSize
    BY <1>3, <2>1, StreamAssumption
  <2>4. Append(s.line, c) \in BufferLines
    BY <2>2, <2>3 DEF BufferLines
  <2>5. TakePiece(s, c) = [s EXCEPT !.line = Append(@, c)]
    BY <1>3 DEF TakePiece
  <2> QED BY <2>4, <2>5 DEF Parsers
<1> QED BY <1>2, <1>3

LEMMA TakeIs ==
    ASSUME NEW s \in Parsers, NEW c \in StreamPieces
    PROVE  Take[<<s, c>>] = TakePiece(s, c)
BY DEF Take

\* The folds of the model are those of the functions.
LEMMA FoldsPieces ==
    ASSUME NEW base \in Parsers, NEW data \in Seq(StreamPieces)
    PROVE  FoldLeft(TakePiece, base, data) = FoldOf(Take, base, data)
<1>1. Len(data) \in Nat /\ DOMAIN data = 1..Len(data) /\ \A i \in 1..Len(data) : data[i] \in StreamPieces
  BY LenProperties, ElementOfSeq
<1>2. PICK h \in [SUBSET DOMAIN data -> Parsers] : SetFolding(h, Take, base, data)
  BY TakeType, SetFoldingExists
<1>3. h = [t \in SUBSET DOMAIN data |->
             IF t = {} THEN base ELSE TakePiece(h[t \ {Max(t)}], data[Max(t)])]
  <2>1. ASSUME NEW t \in SUBSET DOMAIN data
        PROVE  h[t] = IF t = {} THEN base ELSE TakePiece(h[t \ {Max(t)}], data[Max(t)])
    <3>1. CASE t = {}
      BY <1>2, <3>1 DEF SetFolding
    <3>2. CASE t # {}
      <4>1. Max(t) \in t
        BY <1>1, <3>2, MaxIn
      <4> HIDE DEF Max
      <4>2. data[Max(t)] \in StreamPieces /\ h[t \ {Max(t)}] \in Parsers
        BY <1>1, <1>2, <4>1
      <4>3. h[t] = Take[<<h[t \ {Max(t)}], data[Max(t)]>>]
        BY <1>2, <3>2 DEF SetFolding
      <4> QED BY <3>2, <4>2, <4>3, TakeIs
    <3> QED BY <3>1, <3>2
  <2> HIDE DEF Max
  <2> QED BY <1>2, <2>1
<1>4. PICK g : g = CHOOSE f : f = [t \in SUBSET DOMAIN data |->
                 IF t = {} THEN base ELSE TakePiece(f[t \ {Max(t)}], data[Max(t)])]
  OBVIOUS
<1>5. g = [t \in SUBSET DOMAIN data |->
             IF t = {} THEN base ELSE TakePiece(g[t \ {Max(t)}], data[Max(t)])]
  BY <1>3, <1>4
<1>6. FoldLeft(TakePiece, base, data) = g[DOMAIN data]
  BY <1>4 DEF FoldLeft, MapThenFoldSet
<1>7. ASSUME NEW k \in 1..Len(data), g[1..k - 1] \in Parsers
      PROVE  g[1..k] = Take[<<g[1..k - 1], data[k]>>]
  <2>1. /\ 1..k \in SUBSET DOMAIN data /\ 1..k # {} /\ Max(1..k) = k
        /\ (1..k) \ {k} = 1..k - 1
    BY <1>1, FirstPlaces
  <2> HIDE DEF Max
  <2>2. g[1..k] = TakePiece(g[(1..k) \ {Max(1..k)}], data[Max(1..k)])
    BY <1>5, <2>1
  <2> QED BY <1>1, <1>7, <2>1, <2>2, TakeIs
<1>8. g[{}] = base
  BY <1>5
<1>10. \A k \in 1..Len(data) :
          g[1..k - 1] \in Parsers => g[1..k] = Take[<<g[1..k - 1], data[k]>>]
  BY <1>7
<1>11. Unrolled(g, Parsers, Take, base, data, g[DOMAIN data])
  BY <1>1, <1>8, <1>10 DEF Unrolled
<1>9. g[DOMAIN data] = FoldOf(Take, base, data)
  BY <1>11, TakeType, SetFoldIs
<1> QED BY <1>6, <1>9

CallsIn == [p \in ToolArray \X StreamEvents |-> WithCallOf(p[1], p[2])]

LEMMA CallsInType == CallsIn \in [ToolArray \X StreamEvents -> ToolArray]
<1>1. ASSUME NEW tools \in ToolArray, NEW e \in StreamEvents PROVE WithCallOf(tools, e) \in ToolArray
  BY AccumulateType DEF WithCallOf
<1> QED BY <1>1 DEF CallsIn

LEMMA NoToolsType == NoTools \in ToolArray
<1>1. <<>> \in Seq(STRING) /\ NULL \in Text
  BY EmptySeq DEF Text, Literals
<1> QED BY <1>1 DEF NoTools, ToolArray

LEMMA FoldsCalls ==
    ASSUME NEW events \in Seq(StreamEvents)
    PROVE  ToolsIn(events) = FoldOf(CallsIn, NoTools, events)
<1>1. /\ Len(events) \in Nat /\ DOMAIN events = 1..Len(events)
      /\ \A i \in 1..Len(events) : events[i] \in StreamEvents
  BY LenProperties, ElementOfSeq
<1>0. \A tools \in ToolArray, e \in StreamEvents : CallsIn[<<tools, e>>] = WithCallOf(tools, e)
  BY DEF CallsIn
<1>2. PICK h \in [SUBSET DOMAIN events -> ToolArray] : SetFolding(h, CallsIn, NoTools, events)
  BY CallsInType, NoToolsType, SetFoldingExists
<1>3. h = [t \in SUBSET DOMAIN events |->
             IF t = {} THEN NoTools ELSE WithCallOf(h[t \ {Max(t)}], events[Max(t)])]
  <2>1. ASSUME NEW t \in SUBSET DOMAIN events
        PROVE  h[t] = IF t = {} THEN NoTools ELSE WithCallOf(h[t \ {Max(t)}], events[Max(t)])
    <3>1. CASE t = {}
      BY <1>2, <3>1 DEF SetFolding
    <3>2. CASE t # {}
      <4>1. Max(t) \in t
        BY <1>1, <3>2, MaxIn
      <4> HIDE DEF Max
      <4>2. events[Max(t)] \in StreamEvents /\ h[t \ {Max(t)}] \in ToolArray
        BY <1>1, <1>2, <4>1
      <4>3. h[t] = CallsIn[<<h[t \ {Max(t)}], events[Max(t)]>>]
        BY <1>2, <3>2 DEF SetFolding
      <4> QED BY <1>0, <3>2, <4>2, <4>3
    <3> QED BY <3>1, <3>2
  <2> HIDE DEF Max
  <2> QED BY <1>2, <2>1
<1>4. PICK g : g = CHOOSE f : f = [t \in SUBSET DOMAIN events |->
                 IF t = {} THEN NoTools ELSE WithCallOf(f[t \ {Max(t)}], events[Max(t)])]
  OBVIOUS
<1>5. g = [t \in SUBSET DOMAIN events |->
             IF t = {} THEN NoTools ELSE WithCallOf(g[t \ {Max(t)}], events[Max(t)])]
  BY <1>3, <1>4
<1>6. ToolsIn(events) = g[DOMAIN events]
  BY <1>4 DEF ToolsIn, FoldLeft, MapThenFoldSet
<1>7. ASSUME NEW k \in 1..Len(events), g[1..k - 1] \in ToolArray
      PROVE  g[1..k] = CallsIn[<<g[1..k - 1], events[k]>>]
  <2>1. /\ 1..k \in SUBSET DOMAIN events /\ 1..k # {} /\ Max(1..k) = k
        /\ (1..k) \ {k} = 1..k - 1
    BY <1>1, FirstPlaces
  <2> HIDE DEF Max
  <2>2. g[1..k] = WithCallOf(g[(1..k) \ {Max(1..k)}], events[Max(1..k)])
    BY <1>5, <2>1
  <2>3. events[k] \in StreamEvents /\ g[1..k] = WithCallOf(g[1..k - 1], events[k])
    BY <1>1, <2>1, <2>2
  <2> QED BY <1>0, <1>7, <2>3
<1>8. \A k \in 1..Len(events) :
          g[1..k - 1] \in ToolArray => g[1..k] = CallsIn[<<g[1..k - 1], events[k]>>]
  BY <1>7
<1>9. g[{}] = NoTools
  BY <1>5
<1>11. Unrolled(g, ToolArray, CallsIn, NoTools, events, g[DOMAIN events])
  BY <1>1, <1>8, <1>9 DEF Unrolled
<1>10. g[DOMAIN events] = FoldOf(CallsIn, NoTools, events)
  BY <1>11, CallsInType, NoToolsType, SetFoldIs
<1> QED BY <1>6, <1>10

-----------------------------------------------------------------------------
(* One event. *)

\* The line when k of the pieces of an event have been taken since the a-th.
PartOf(e, a, k) == [i \in 1..k - a |-> <<e, a + i>>]

LEMMA PieceType ==
    ASSUME NEW e \in StreamEvents, NEW i \in Nat
    PROVE  <<e, i>> \in StreamPieces
<1>1. PICK c : c = <<e, i>>
  OBVIOUS
<1>2. c \in {<<f, j>> : f \in StreamEvents, j \in Nat}
  BY <1>1
<1> QED BY <1>1, <1>2 DEF StreamPieces

LEMMA PartSeq ==
    ASSUME NEW e \in StreamEvents, NEW a \in Nat, NEW k \in Nat, a <= k
    PROVE  /\ PartOf(e, a, k) \in Seq(StreamPieces) /\ Len(PartOf(e, a, k)) = k - a
           /\ \A i \in 1..k - a : PartOf(e, a, k)[i] = <<e, a + i>>
<1>1. PICK n \in Nat : n = k - a
  OBVIOUS
<1>2. PICK l : l = [i \in 1..n |-> <<e, a + i>>]
  OBVIOUS
<1>3. \A i \in 1..n : a + i \in Nat /\ <<e, a + i>> \in StreamPieces
  BY DEF StreamPieces
<1>4. l \in [1..n -> StreamPieces] /\ DOMAIN l = 1..n
  BY <1>2, <1>3
<1>5. l \in Seq(StreamPieces)
  BY <1>4, SeqDef
<1>6. Len(l) = n
  BY <1>4, <1>5, LenProperties
<1>7. \A i \in 1..n : l[i] = <<e, a + i>>
  BY <1>2
<1>8. PartOf(e, a, k) = l
  BY <1>1, <1>2 DEF PartOf
<1> QED BY <1>1, <1>5, <1>6, <1>7, <1>8

LEMMA PartGrows ==
    ASSUME NEW e \in StreamEvents, NEW a \in Nat, NEW k \in Nat, a <= k
    PROVE  PartOf(e, a, k + 1) = Append(PartOf(e, a, k), <<e, k + 1>>)
<1>1. PICK n \in Nat : n = k - a /\ n + 1 = (k + 1) - a /\ a <= k + 1 /\ a + (n + 1) = k + 1
  OBVIOUS
<1>2. PICK l \in Seq(StreamPieces) : /\ l = PartOf(e, a, k) /\ Len(l) = n
                                    /\ \A i \in 1..n : l[i] = <<e, a + i>>
  BY <1>1, PartSeq
<1>3. PICK m \in Seq(StreamPieces) : /\ m = PartOf(e, a, k + 1) /\ Len(m) = n + 1
                                    /\ \A i \in 1..n + 1 : m[i] = <<e, a + i>>
  <2>1. PICK j \in Nat : j = k + 1 /\ a <= j /\ j - a = n + 1
    BY <1>1
  <2>2. /\ PartOf(e, a, j) \in Seq(StreamPieces) /\ Len(PartOf(e, a, j)) = j - a
        /\ \A i \in 1..j - a : PartOf(e, a, j)[i] = <<e, a + i>>
    BY <2>1, PartSeq
  <2> QED BY <2>1, <2>2
<1>4. PICK c \in StreamPieces : c = <<e, k + 1>>
  <2>1. k + 1 \in Nat
    OBVIOUS
  <2> QED BY <2>1, PieceType
<1>5. PICK o \in Seq(StreamPieces) : o = Append(l, c)
  BY AppendProperties
<1>6. Len(o) = n + 1 /\ o[n + 1] = c /\ \A i \in 1..n : o[i] = l[i]
  BY <1>2, <1>5, AppendProperties
<1>7. ASSUME NEW i \in 1..n + 1 PROVE o[i] = m[i]
  <2>1. CASE i = n + 1
    BY <1>1, <1>3, <1>4, <1>6, <2>1
  <2>2. CASE i # n + 1
    <3>1. i \in 1..n
      BY <2>2
    <3> QED BY <1>2, <1>3, <1>6, <3>1
  <2> QED BY <2>1, <2>2
<1>8. o = m
  BY <1>3, <1>6, <1>7, SeqEqual
<1> QED BY <1>2, <1>3, <1>4, <1>5, <1>8

LEMMA PartType ==
    ASSUME NEW e \in StreamEvents, NEW a \in Nat, NEW k \in Nat, a <= k, k - a <= LineSize
    PROVE  /\ PartOf(e, a, k) \in BufferLines /\ Len(PartOf(e, a, k)) = k - a
           /\ k # a => PartOf(e, a, k) # <<>> /\ PartOf(e, a, k)[1] = <<e, a + 1>>
           /\ k = a => PartOf(e, a, k) = <<>>
<1>1. PICK n \in Nat : n = k - a
  OBVIOUS
<1>2. PICK l \in Seq(StreamPieces) : /\ l = PartOf(e, a, k) /\ Len(l) = n
                                    /\ \A i \in 1..n : l[i] = <<e, a + i>>
  BY <1>1, PartSeq
<1>3. n # 0 => l # <<>> /\ l[1] = <<e, a + 1>>
  <2> SUFFICES ASSUME n # 0 PROVE l # <<>> /\ l[1] = <<e, a + 1>>
    OBVIOUS
  <2>1. 1 \in 1..n
    OBVIOUS
  <2> QED BY <1>2, <2>1, EmptySeq
<1>4. n = 0 => l = <<>>
  BY <1>2, EmptySeq
<1>5. l \in BufferLines
  BY <1>1, <1>2 DEF BufferLines
<1> QED BY <1>1, <1>2, <1>3, <1>4, <1>5

\* Part of a line that is not the whole event leaves no trace.
LEMMA PartRead ==
    ASSUME NEW s \in Parsers, NEW e \in StreamEvents, NEW a \in Nat, NEW k \in Nat,
           a <= k, k - a <= LineSize
    PROVE  process_sse_line(s, PartOf(e, a, k))
               = IF a = 0 /\ k = e.size THEN WithEvent(s, e) ELSE s
<1>1. e.size \in Nat /\ e.size # 0
  BY DEF StreamEvents
<1>2. PICK l \in BufferLines : /\ l = PartOf(e, a, k) /\ Len(l) = k - a
                               /\ k # a => l # <<>> /\ l[1] = <<e, a + 1>>
                               /\ k = a => l = <<>>
  BY PartType
<1>3. CASE k = a
  BY <1>1, <1>2, <1>3, LineRead
<1>4. CASE k # a
  <2>1. a + 1 \in Nat
    OBVIOUS
  <2>2. process_sse_line(s, l) = IF l = PiecesOf(e) THEN WithEvent(s, e) ELSE s
    BY <1>2, <1>4, <2>1, LineRead
  <2>3. CASE a = 0 /\ k = e.size
    <3>1. l = [i \in 1..k - a |-> <<e, a + i>>]
      BY <1>2 DEF PartOf
    <3>2. k - a = e.size /\ \A i \in 1..e.size : a + i = i
      BY <1>1, <2>3
    <3>3. l = PiecesOf(e)
      BY <3>1, <3>2 DEF PiecesOf
    <3> QED BY <1>2, <2>2, <2>3, <3>3
  <2>4. CASE ~(a = 0 /\ k = e.size)
    <3>1. l # PiecesOf(e)
      <4> SUFFICES ASSUME l = PiecesOf(e) PROVE FALSE
        OBVIOUS
      <4>1. PICK n \in Nat : n = e.size /\ n # 0
        BY <1>1
      <4>2. l = [i \in 1..n |-> <<e, i>>] /\ DOMAIN l = 1..n
        BY <4>1 DEF PiecesOf
      <4>3. 1 \in 1..n
        BY <4>1
      <4>4. l[1] = <<e, 1>>
        BY <4>2, <4>3
      <4>5. a + 1 = 1
        BY <1>2, <1>4, <4>4
      <4>6. l \in Seq(StreamPieces)
        BY DEF BufferLines
      <4>7. Len(l) = n
        BY <4>2, <4>6, LenProperties
      <4> QED BY <1>2, <2>4, <4>1, <4>5, <4>7
    <3> QED BY <1>2, <2>2, <2>4, <3>1
  <2> QED BY <2>3, <2>4
<1> QED BY <1>3, <1>4
\* The parser s, but for the line, when k of the pieces of e have been taken.
Partly(t, s, e, k) ==
    \E a \in 0..k : /\ k - a <= LineSize /\ (a = 0 \/ LineSize < a)
                    /\ t = [s EXCEPT !.line = PartOf(e, a, k)]

LEMMA PieceTaken ==
    ASSUME NEW s \in Parsers, NEW e \in StreamEvents, NEW k \in Nat, k < e.size,
           NEW t \in Parsers, Partly(t, s, e, k)
    PROVE  Partly(Take[<<t, <<e, k + 1>>>>], s, e, k + 1)
<1>1. PICK a \in 0..k : /\ k - a <= LineSize /\ (a = 0 \/ LineSize < a)
                        /\ t = [s EXCEPT !.line = PartOf(e, a, k)]
  BY DEF Partly
<1>2. PICK l \in BufferLines : l = PartOf(e, a, k) /\ Len(l) = k - a
  BY <1>1, PartType
<1>3. t.line = l /\ t = [s EXCEPT !.line = l]
  BY <1>1, <1>2 DEF Parsers
<1>4. PICK c \in StreamPieces : c = <<e, k + 1>>
  <2>1. k + 1 \in Nat
    OBVIOUS
  <2> QED BY <2>1, PieceType
<1>5. c # Newline
  BY <1>4, PiecesDiffer
<1>6. Take[<<t, c>>] = TakePiece(t, c)
  BY TakeIs
<1>0. LineSize \in Nat /\ e.size \in Nat
  BY StreamAssumption DEF StreamEvents
<1>7. CASE k - a < LineSize
  <2>1. TakePiece(t, c) = [t EXCEPT !.line = Append(l, c)]
    BY <1>0, <1>2, <1>3, <1>5, <1>7 DEF TakePiece
  <2>2. PartOf(e, a, k + 1) = Append(l, c)
    BY <1>2, <1>4, PartGrows
  <2>3. [t EXCEPT !.line = Append(l, c)] = [s EXCEPT !.line = Append(l, c)]
    BY <1>3 DEF Parsers
  <2>4. a \in 0..k + 1 /\ (k + 1) - a <= LineSize
    BY <1>0, <1>7
  <2>5. Take[<<t, c>>] = [s EXCEPT !.line = PartOf(e, a, k + 1)]
    BY <1>6, <2>1, <2>2, <2>3
  <2> QED BY <1>1, <1>4, <2>4, <2>5 DEF Partly
<1>8. CASE ~(k - a < LineSize)
  <2>1. k - a = LineSize /\ k >= LineSize
    BY <1>0, <1>1, <1>8
  <2>2. process_sse_line(t, l) = t
    <3>1. process_sse_line(t, l) = IF a = 0 /\ k = e.size THEN WithEvent(t, e) ELSE t
      BY <1>1, <1>2, PartRead
    <3> QED BY <1>0, <3>1
  <2>7. Len(t.line) >= LineSize /\ process_sse_line(t, t.line) = t
    BY <1>0, <1>2, <1>3, <2>1, <2>2
  <2>3. TakePiece(t, c) = [t EXCEPT !.line = <<>>]
    BY <2>7 DEF TakePiece
  <2>4. [t EXCEPT !.line = <<>>] = [s EXCEPT !.line = <<>>]
    BY <1>3 DEF Parsers
  <2>5. PartOf(e, k + 1, k + 1) = <<>>
    <3>1. k + 1 \in Nat /\ (k + 1) - (k + 1) <= LineSize
      BY <1>0
    <3> QED BY <3>1, PartType
  <2>6. k + 1 \in 0..k + 1 /\ (k + 1) - (k + 1) <= LineSize /\ LineSize < k + 1
    BY <1>0, <2>1
  <2> QED BY <1>4, <1>6, <2>3, <2>4, <2>5, <2>6 DEF Partly
<1> QED BY <1>7, <1>8

\* The pieces of an event and the newline behind them: its line counts if it fits.
LEMMA EventTaken ==
    ASSUME NEW s \in Parsers, s.line = <<>>, NEW e \in StreamEvents
    PROVE  FoldOf(Take, s, PiecesOf(e) \o <<Newline>>)
               = IF e.size <= LineSize THEN WithEvent(s, e) ELSE s
<1>0. LineSize \in Nat /\ e.size \in Nat
  BY StreamAssumption DEF StreamEvents
<1>1. PICK op : op = Take
  OBVIOUS
<1>2. op \in [Parsers \X StreamPieces -> Parsers]
  BY <1>1, TakeType
<1> DEFINE T(k) == FoldOf(op, s, PartOf(e, 0, k))
           A == {k \in Nat : k <= e.size => Partly(T(k), s, e, k)}
<1>3. \A k \in Nat : PartOf(e, 0, k) \in Seq(StreamPieces)
  BY PartSeq
<1>4. \A k \in Nat : T(k) \in Parsers
  BY <1>2, <1>3, FoldType
<1>5. 0 \in A
  <2>1. PartOf(e, 0, 0) = <<>>
    BY <1>0, PartType
  <2>2. T(0) = s
    BY <2>1, FoldEmpty
  <2>3. s = [s EXCEPT !.line = PartOf(e, 0, 0)]
    BY <2>1 DEF Parsers
  <2>4. 0 - 0 <= LineSize /\ 0 \in 0..0
    BY <1>0
  <2> HIDE DEF T
  <2>5. Partly(T(0), s, e, 0)
    BY <2>2, <2>3, <2>4 DEF Partly
  <2> QED BY <2>5
<1>6. ASSUME NEW k \in Nat, k \in A PROVE k + 1 \in A
  <2> SUFFICES ASSUME k + 1 <= e.size PROVE Partly(T(k + 1), s, e, k + 1)
    OBVIOUS
  <2>1. k < e.size /\ k <= e.size
    BY <1>0
  <2>2. Partly(T(k), s, e, k)
    BY <1>6, <2>1
  <2>3. PICK c \in StreamPieces : c = <<e, k + 1>>
    <3>1. k + 1 \in Nat
      OBVIOUS
    <3> QED BY <3>1, PieceType
  <2>4. PICK l \in Seq(StreamPieces) : l = PartOf(e, 0, k)
    BY <1>3
  <2>5. PartOf(e, 0, k + 1) = Append(l, c)
    BY <2>3, <2>4, PartGrows
  <2>6. FoldOf(op, s, Append(l, c)) = op[<<FoldOf(op, s, l), c>>]
    BY FoldAppend
  <2>7. T(k + 1) = op[<<T(k), c>>]
    BY <2>4, <2>5, <2>6
  <2>8. T(k) \in Parsers
    BY <1>4
  <2> HIDE DEF T
  <2>9. PICK t \in Parsers : t = T(k)
    BY <2>8
  <2>10. Partly(Take[<<t, <<e, k + 1>>>>], s, e, k + 1)
    BY <2>1, <2>2, <2>9, PieceTaken
  <2> QED BY <1>1, <2>3, <2>7, <2>9, <2>10
<1> HIDE DEF A
<1>7. e.size \in A
  BY <1>0, <1>5, <1>6, Induct
<1>8. PICK n \in Nat : n = e.size
  BY <1>0
<1>9. Partly(T(n), s, e, n)
  BY <1>7, <1>8 DEF A
<1>10. PICK t \in Parsers : t = T(n)
  BY <1>4
<1> HIDE DEF T
<1>11. PICK a \in 0..n : /\ n - a <= LineSize /\ (a = 0 \/ LineSize < a)
                         /\ t = [s EXCEPT !.line = PartOf(e, a, n)]
  BY <1>9, <1>10 DEF Partly
<1>12. PICK l \in BufferLines : l = PartOf(e, a, n)
  BY <1>11, PartType
<1>13. t.line = l /\ t = [s EXCEPT !.line = l]
  BY <1>11, <1>12 DEF Parsers
<1>14. process_sse_line(t, l) = IF a = 0 THEN WithEvent(t, e) ELSE t
  <2>1. process_sse_line(t, l) = IF a = 0 /\ n = e.size THEN WithEvent(t, e) ELSE t
    BY <1>11, <1>12, PartRead
  <2> QED BY <1>8, <2>1
<1>15. a = 0 <=> n <= LineSize
  BY <1>0, <1>11
<1>16. TakePiece(t, Newline) = [process_sse_line(t, l) EXCEPT !.line = <<>>]
  BY <1>13 DEF TakePiece
<1>17. [t EXCEPT !.line = <<>>] = s
  BY <1>13 DEF Parsers
<1>18. [WithEvent(t, e) EXCEPT !.line = <<>>] = WithEvent(s, e)
  BY <1>13 DEF Parsers, WithEvent
<1>19. TakePiece(t, Newline) = IF e.size <= LineSize THEN WithEvent(s, e) ELSE s
  BY <1>8, <1>14, <1>15, <1>16, <1>17, <1>18
<1>20. FoldOf(Take, s, PiecesOf(e) \o <<Newline>>) = TakePiece(t, Newline)
  <2>1. PICK p \in Seq(StreamPieces) : p = PartOf(e, 0, n)
    BY <1>3
  <2>2. p = PiecesOf(e)
    <3>1. p = [i \in 1..n - 0 |-> <<e, 0 + i>>]
      BY <2>1 DEF PartOf
    <3>2. n - 0 = n /\ \A i \in 1..n : 0 + i = i
      OBVIOUS
    <3> QED BY <1>8, <3>1, <3>2 DEF PiecesOf
  <2>3. PICK c \in StreamPieces : c = Newline
    BY DEF StreamPieces
  <2>4. p \o <<c>> = Append(p, c)
    BY AppendIsConcat
  <2>5. FoldOf(op, s, Append(p, c)) = op[<<FoldOf(op, s, p), c>>]
    BY FoldAppend
  <2>6. FoldOf(op, s, p) = t
    BY <1>10, <2>1 DEF T
  <2>7. Take[<<t, c>>] = TakePiece(t, c)
    BY TakeIs
  <2> QED BY <1>1, <2>2, <2>3, <2>4, <2>5, <2>6, <2>7
<1> QED BY <1>19, <1>20
-----------------------------------------------------------------------------
(* The events, one behind the other. *)

LEMMA FittingGrows ==
    /\ Fitting(<<>>) = <<>>
    /\ \A events \in Seq(StreamEvents) : Fitting(events) \in Seq(StreamEvents)
    /\ \A events \in Seq(StreamEvents), e \in StreamEvents :
          Fitting(Append(events, e))
              = IF e.size <= LineSize THEN Append(Fitting(events), e) ELSE Fitting(events)
<1>1. PICK F : F = [e \in StreamEvents |-> IF e.size <= LineSize THEN <<e>> ELSE <<>>]
  OBVIOUS
<1>2. \A e \in StreamEvents : <<e>> \in Seq(StreamEvents)
  BY OneSeq
<1>3. F \in [StreamEvents -> Seq(StreamEvents)]
  BY <1>1, <1>2, EmptySeq
<1>4. ASSUME NEW events \in Seq(StreamEvents) PROVE Fitting(events) = FlatMap(F, events)
  <2>1. \A i \in DOMAIN events : events[i] \in StreamEvents
    BY ElementOfSeq, LenProperties
  <2>2. [i \in DOMAIN events |-> IF events[i].size <= LineSize THEN <<events[i]>> ELSE <<>>]
            = [i \in DOMAIN events |-> F[events[i]]]
    BY <1>1, <2>1
  <2> QED BY <2>2 DEF Fitting, FlatMap
<1>5. \A events \in Seq(StreamEvents) : Fitting(events) \in Seq(StreamEvents)
  BY <1>3, <1>4, FlatMapType
<1>6. Fitting(<<>>) = <<>>
  <2>1. PICK events \in Seq(StreamEvents) : events = <<>>
    BY EmptySeq
  <2>2. Fitting(events) = FlatMap(F, events)
    BY <1>4
  <2> QED BY <2>1, <2>2, FlatMapEmpty
<1>7. ASSUME NEW events \in Seq(StreamEvents), NEW e \in StreamEvents
      PROVE  Fitting(Append(events, e))
                 = IF e.size <= LineSize THEN Append(Fitting(events), e) ELSE Fitting(events)
  <2>1. PICK more \in Seq(StreamEvents) : more = Append(events, e)
    BY AppendProperties
  <2>2. FlatMap(F, Append(events, e)) = FlatMap(F, events) \o F[e]
    BY <1>3, FlatMapAppend
  <2>3. PICK f \in Seq(StreamEvents) : f = Fitting(events)
    BY <1>5
  <2>4. Fitting(more) = f \o F[e]
    BY <1>4, <2>1, <2>2, <2>3
  <2>5. Append(f, e) = f \o <<e>> /\ f \o <<>> = f
    BY AppendIsConcat, ConcatEmptySeq
  <2> QED BY <1>1, <2>1, <2>3, <2>4, <2>5
<1> QED BY <1>5, <1>6, <1>7

LEMMA TextGrows ==
    /\ TextIn(<<>>) = <<>>
    /\ \A events \in Seq(StreamEvents) : TextIn(events) \in Seq(STRING)
    /\ \A events \in Seq(StreamEvents), e \in StreamEvents :
          TextIn(Append(events, e))
              = IF e.kind = "content" THEN TextIn(events) \o e.text ELSE TextIn(events)
<1>1. PICK F : F = [e \in StreamEvents |-> IF e.kind = "content" THEN e.text ELSE <<>>]
  OBVIOUS
<1>2. \A e \in StreamEvents : e.text \in Seq(STRING)
  BY DEF StreamEvents
<1>3. F \in [StreamEvents -> Seq(STRING)]
  BY <1>1, <1>2, EmptySeq
<1>4. ASSUME NEW events \in Seq(StreamEvents) PROVE TextIn(events) = FlatMap(F, events)
  <2>1. \A i \in DOMAIN events : events[i] \in StreamEvents
    BY ElementOfSeq, LenProperties
  <2>2. [i \in DOMAIN events |-> IF events[i].kind = "content" THEN events[i].text ELSE <<>>]
            = [i \in DOMAIN events |-> F[events[i]]]
    BY <1>1, <2>1
  <2> QED BY <2>2 DEF TextIn, FlatMap
<1>5. \A events \in Seq(StreamEvents) : TextIn(events) \in Seq(STRING)
  BY <1>3, <1>4, FlatMapType
<1>6. TextIn(<<>>) = <<>>
  <2>1. PICK events \in Seq(StreamEvents) : events = <<>>
    BY EmptySeq
  <2>2. TextIn(events) = FlatMap(F, events)
    BY <1>4
  <2> QED BY <2>1, <2>2, FlatMapEmpty
<1>7. ASSUME NEW events \in Seq(StreamEvents), NEW e \in StreamEvents
      PROVE  TextIn(Append(events, e))
                 = IF e.kind = "content" THEN TextIn(events) \o e.text ELSE TextIn(events)
  <2>1. PICK more \in Seq(StreamEvents) : more = Append(events, e)
    BY AppendProperties
  <2>2. FlatMap(F, Append(events, e)) = FlatMap(F, events) \o F[e]
    BY <1>3, FlatMapAppend
  <2>3. PICK f \in Seq(STRING) : f = TextIn(events)
    BY <1>5
  <2>4. TextIn(more) = f \o F[e]
    BY <1>4, <2>1, <2>2, <2>3
  <2>5. f \o <<>> = f
    BY ConcatEmptySeq
  <2> QED BY <1>1, <2>1, <2>3, <2>4, <2>5
<1> QED BY <1>5, <1>6, <1>7

LEMMA BodyGrows ==
    /\ BodyOf(<<>>) = <<>>
    /\ \A events \in Seq(StreamEvents) : BodyOf(events) \in Seq(StreamPieces)
    /\ \A e \in StreamEvents : PiecesOf(e) \o <<Newline>> \in Seq(StreamPieces)
    /\ \A events \in Seq(StreamEvents), e \in StreamEvents :
          BodyOf(Append(events, e)) = BodyOf(events) \o (PiecesOf(e) \o <<Newline>>)
<1>1. PICK F : F = [e \in StreamEvents |-> PiecesOf(e) \o <<Newline>>]
  OBVIOUS
<1>2. ASSUME NEW e \in StreamEvents PROVE PiecesOf(e) \o <<Newline>> \in Seq(StreamPieces)
  <2>1. PICK n \in Nat : n = e.size
    BY DEF StreamEvents
  <2>2. PICK p : p = PiecesOf(e)
    OBVIOUS
  <2>3. \A i \in 1..n : <<e, i>> \in StreamPieces
    BY PieceType
  <2>4. p = [i \in 1..n |-> <<e, i>>]
    BY <2>1, <2>2 DEF PiecesOf
  <2>5. p \in [1..n -> StreamPieces]
    BY <2>3, <2>4
  <2>6. p \in Seq(StreamPieces)
    BY <2>5, SeqDef
  <2>9. PICK c \in StreamPieces : c = Newline
    BY DEF StreamPieces
  <2>7. PICK o \in Seq(StreamPieces) : o = <<Newline>>
    <3>1. <<c>> \in Seq(StreamPieces)
      BY OneSeq
    <3> QED BY <2>9, <3>1
  <2>8. p \o o \in Seq(StreamPieces)
    BY <2>6, ConcatProperties
  <2> QED BY <2>2, <2>7, <2>8
<1>3. F \in [StreamEvents -> Seq(StreamPieces)]
  BY <1>1, <1>2
<1>4. ASSUME NEW events \in Seq(StreamEvents) PROVE BodyOf(events) = FlatMap(F, events)
  <2>1. \A i \in DOMAIN events : events[i] \in StreamEvents
    BY ElementOfSeq, LenProperties
  <2>2. [i \in DOMAIN events |-> PiecesOf(events[i]) \o <<Newline>>]
            = [i \in DOMAIN events |-> F[events[i]]]
    BY <1>1, <2>1
  <2> QED BY <2>2 DEF BodyOf, FlatMap
<1>5. \A events \in Seq(StreamEvents) : BodyOf(events) \in Seq(StreamPieces)
  BY <1>3, <1>4, FlatMapType
<1>6. BodyOf(<<>>) = <<>>
  <2>1. PICK events \in Seq(StreamEvents) : events = <<>>
    BY EmptySeq
  <2>2. BodyOf(events) = FlatMap(F, events)
    BY <1>4
  <2> QED BY <2>1, <2>2, FlatMapEmpty
<1>7. ASSUME NEW events \in Seq(StreamEvents), NEW e \in StreamEvents
      PROVE  BodyOf(Append(events, e)) = BodyOf(events) \o (PiecesOf(e) \o <<Newline>>)
  <2>1. PICK more \in Seq(StreamEvents) : more = Append(events, e)
    BY AppendProperties
  <2>2. FlatMap(F, Append(events, e)) = FlatMap(F, events) \o F[e]
    BY <1>3, FlatMapAppend
  <2>3. BodyOf(more) = BodyOf(events) \o F[e]
    BY <1>4, <2>1, <2>2
  <2> QED BY <1>1, <2>1, <2>3
<1> QED BY <1>2, <1>5, <1>6, <1>7

LEMMA CallsGrow ==
    /\ ToolsIn(<<>>) = NoTools
    /\ \A events \in Seq(StreamEvents) : ToolsIn(events) \in ToolArray
    /\ \A events \in Seq(StreamEvents), e \in StreamEvents :
          ToolsIn(Append(events, e))
              = IF e.kind = "tool" THEN accumulate_tool_calls(ToolsIn(events), e)
                ELSE ToolsIn(events)
<1>1. ASSUME NEW events \in Seq(StreamEvents) PROVE ToolsIn(events) \in ToolArray
  <2>1. FoldOf(CallsIn, NoTools, events) \in ToolArray
    BY FoldType, CallsInType, NoToolsType
  <2> QED BY <2>1, FoldsCalls
<1>2. ToolsIn(<<>>) = NoTools
  <2>1. PICK events \in Seq(StreamEvents) : events = <<>>
    BY EmptySeq
  <2>2. ToolsIn(events) = FoldOf(CallsIn, NoTools, events)
    BY FoldsCalls
  <2> QED BY <2>1, <2>2, FoldEmpty
<1>3. ASSUME NEW events \in Seq(StreamEvents), NEW e \in StreamEvents
      PROVE  ToolsIn(Append(events, e))
              = IF e.kind = "tool" THEN accumulate_tool_calls(ToolsIn(events), e)
                ELSE ToolsIn(events)
  <2>1. PICK more \in Seq(StreamEvents) : more = Append(events, e)
    BY AppendProperties
  <2>2. ToolsIn(more) = FoldOf(CallsIn, NoTools, more)
        /\ ToolsIn(events) = FoldOf(CallsIn, NoTools, events)
    BY FoldsCalls
  <2>3. FoldOf(CallsIn, NoTools, Append(events, e)) = CallsIn[<<FoldOf(CallsIn, NoTools, events), e>>]
    BY FoldAppend
  <2>4. PICK tools \in ToolArray : tools = ToolsIn(events)
    BY <1>1
  <2>5. CallsIn[<<tools, e>>] = WithCallOf(tools, e)
    BY DEF CallsIn
  <2> QED BY <2>1, <2>2, <2>3, <2>4, <2>5 DEF WithCallOf
<1> QED BY <1>1, <1>2, <1>3

\* What the parser has at the end of a body is what the events that fit give.
LEMMA ReadsWhole ==
    ASSUME NEW events \in Seq(StreamEvents)
    PROVE  FoldOf(Take, AtStart, BodyOf(events)) = AtEnd(events)
<1>1. PICK op : op = Take
  OBVIOUS
<1>2. AtStart \in Parsers
  <2>1. <<>> \in BufferLines /\ <<>> \in Seq(STRING)
    <3>1. <<>> \in Seq(StreamPieces) /\ Len(<<>>) = 0 /\ <<>> \in Seq(STRING)
      BY EmptySeq
    <3> QED BY <3>1, StreamAssumption DEF BufferLines
  <2> QED BY <2>1, NoToolsType DEF AtStart, Parsers
<1> DEFINE A == {t \in Seq(StreamEvents) : FoldOf(op, AtStart, BodyOf(t)) = AtEnd(t)}
<1>3. <<>> \in A
  <2>1. FoldOf(op, AtStart, <<>>) = AtStart
    BY FoldEmpty
  <2>2. AtEnd(<<>>) = AtStart
    BY FittingGrows, TextGrows, CallsGrow DEF AtEnd, AtStart
  <2>3. BodyOf(<<>>) = <<>> /\ <<>> \in Seq(StreamEvents)
    BY BodyGrows, EmptySeq
  <2> QED BY <2>1, <2>2, <2>3
<1>4. ASSUME NEW t \in Seq(StreamEvents), NEW e \in StreamEvents, t \in A
      PROVE  Append(t, e) \in A
  <2>1. PICK u \in Seq(StreamEvents) : u = Append(t, e)
    BY AppendProperties
  <2>2. PICK b \in Seq(StreamPieces), p \in Seq(StreamPieces) :
            /\ b = BodyOf(t) /\ p = PiecesOf(e) \o <<Newline>>
            /\ BodyOf(u) = b \o p
    BY <2>1, BodyGrows
  <2>3. PICK s : s = AtEnd(t)
    OBVIOUS
  <2>4. FoldOf(op, AtStart, b \o p) = FoldOf(op, s, p)
    <3>1. FoldOf(op, AtStart, b) = s
      BY <1>4, <2>2, <2>3
    <3>2. FoldOf(op, AtStart, b \o p) = FoldOf(op, FoldOf(op, AtStart, b), p)
      BY FoldConcat
    <3> QED BY <3>1, <3>2
  <2>5. s \in Parsers
    <3>1. FoldOf(op, AtStart, b) \in Parsers
      BY <1>1, <1>2, TakeType, FoldType
    <3> QED BY <1>4, <2>2, <2>3, <3>1
  <2>6. s.line = <<>>
    BY <2>3 DEF AtEnd
  <2>7. FoldOf(op, s, p) = IF e.size <= LineSize THEN WithEvent(s, e) ELSE s
    BY <1>1, <2>2, <2>5, <2>6, EventTaken
  <2>8. PICK f \in Seq(StreamEvents) : f = Fitting(t)
    BY FittingGrows
  <2>9. Fitting(u) = IF e.size <= LineSize THEN Append(f, e) ELSE f
    BY <2>1, <2>8, FittingGrows
  <2>10. s = [line |-> <<>>, content |-> TextIn(f), tools |-> ToolsIn(f),
              shown |-> IF mlProvider.callback THEN TextIn(f) ELSE <<>>]
    BY <2>3, <2>8 DEF AtEnd
  <2>11. CASE ~(e.size <= LineSize)
    <3>1. AtEnd(u) = s
      BY <2>3, <2>8, <2>9, <2>11 DEF AtEnd
    <3> QED BY <2>1, <2>2, <2>4, <2>7, <2>11, <3>1
  <2>12. CASE e.size <= LineSize
    <3>1. PICK g \in Seq(StreamEvents) : g = Append(f, e)
      BY AppendProperties
    <3>2. /\ TextIn(g) = IF e.kind = "content" THEN TextIn(f) \o e.text ELSE TextIn(f)
          /\ ToolsIn(g) = IF e.kind = "tool" THEN accumulate_tool_calls(ToolsIn(f), e)
                          ELSE ToolsIn(f)
      BY <3>1, TextGrows, CallsGrow
    <3>3. AtEnd(u) = [line |-> <<>>, content |-> TextIn(g), tools |-> ToolsIn(g),
                      shown |-> IF mlProvider.callback THEN TextIn(g) ELSE <<>>]
      BY <2>9, <2>12, <3>1 DEF AtEnd
    <3>4. WithEvent(s, e) = AtEnd(u)
      <4>1. PICK x, y, z : x = TextIn(f) /\ y = ToolsIn(f) /\ z = e.text
        OBVIOUS
      <4>2. s = [line |-> <<>>, content |-> x, tools |-> y,
                 shown |-> IF mlProvider.callback THEN x ELSE <<>>]
        BY <2>10, <4>1
      <4>3. CASE e.kind = "content"
        <5>1. AtEnd(u) = [line |-> <<>>, content |-> x \o z, tools |-> y,
                          shown |-> IF mlProvider.callback THEN x \o z ELSE <<>>]
          BY <3>2, <3>3, <4>1, <4>3
        <5>2. WithEvent(s, e) = [s EXCEPT !.content = @ \o z,
                                    !.shown = IF mlProvider.callback THEN s.content \o z ELSE @]
          BY <4>1, <4>3 DEF WithEvent
        <5>3. CASE mlProvider.callback
          BY <4>2, <5>1, <5>2, <5>3
        <5>4. CASE ~mlProvider.callback
          BY <4>2, <5>1, <5>2, <5>4
        <5> QED BY <5>3, <5>4
      <4>4. CASE e.kind = "tool"
        <5>1. AtEnd(u) = [line |-> <<>>, content |-> x, tools |-> accumulate_tool_calls(y, e),
                          shown |-> IF mlProvider.callback THEN x ELSE <<>>]
          BY <3>2, <3>3, <4>1, <4>4
        <5>2. WithEvent(s, e) = [s EXCEPT !.tools = accumulate_tool_calls(@, e)]
          BY <4>4 DEF WithEvent
        <5> QED BY <4>2, <5>1, <5>2
      <4>5. CASE e.kind # "content" /\ e.kind # "tool"
        BY <3>2, <3>3, <4>1, <4>2, <4>5 DEF WithEvent
      <4> QED BY <4>3, <4>4, <4>5
    <3> QED BY <2>1, <2>2, <2>4, <2>7, <2>12, <3>4
  <2> QED BY <2>11, <2>12
<1> HIDE DEF A
<1>5. events \in A
  BY <1>3, <1>4, SeqInduct
<1> QED BY <1>1, <1>5 DEF A
-----------------------------------------------------------------------------
(* The requests. *)

StreamTypes ==
    /\ AtNow \in Parsers
    /\ mlLeft \in Seq(StreamPieces) /\ mlBody \in Seq(StreamEvents)
    /\ mlWorker \in {"idle", "asking", "waiting", "streaming", "orphan"}
    /\ mlCommands \in 0..MaxSwitches /\ mlRequests \in 0..MaxRequests

\* Who has destroyed the provider and not made the next one: one operator at most, and
\* no request is under way meanwhile.
Destroyers == {o \in Operators : mlOps[o].pc = "destroyed"}
OneDestroyer ==
    /\ \A o, p \in Destroyers : o = p
    /\ Destroyers # {} => mlProvider.freed
    /\ mlWorker \in {"streaming", "waiting"} => ~mlProvider.freed

\* The parser will have made of the rest of the stream what the events are.
StreamComesOut == mlWorker = "streaming" => FoldOf(Take, AtNow, mlLeft) = AtEnd(mlBody)

\* The last answer that was streamed.
StreamWasWhole ==
    mlWorker = "idle" /\ mlAnswer[1] = "streamed" =>
        /\ mlAnswer[2] = TextIn(Fitting(mlBody))
        /\ mlAnswer[3] = build_tool_calls_json(ToolsIn(Fitting(mlBody)))
        /\ mlShown \in {<<>>, mlAnswer[2]}

StreamInv ==
    /\ StreamTypes
    /\ ~mlUndefined => OneDestroyer /\ StreamComesOut
    /\ StreamWasWhole

LEMMA AtStartType == AtStart \in Parsers
<1>1. <<>> \in Seq(StreamPieces) /\ Len(<<>>) = 0 /\ <<>> \in Seq(STRING)
  BY EmptySeq
<1>2. <<>> \in BufferLines
  BY <1>1, StreamAssumption DEF BufferLines
<1> QED BY <1>1, <1>2, NoToolsType DEF AtStart, Parsers

LEMMA StreamInit == MlInit => StreamInv
<1> SUFFICES ASSUME MlInit PROVE StreamInv
  OBVIOUS
<1>1. /\ mlLine = <<>> /\ mlContent = <<>> /\ mlTools = NoTools /\ mlShown = <<>>
      /\ mlLeft = <<>> /\ mlBody = <<>> /\ mlWorker = "idle" /\ mlAnswer = <<"none">>
      /\ mlCommands = 0 /\ mlRequests = 0 /\ mlOps = [o \in Operators |-> Idle]
  BY DEF MlInit
<1>2. AtNow = AtStart
  BY <1>1 DEF AtNow, AtStart
<1>3. StreamTypes
  BY <1>1, <1>2, AtStartType, EmptySeq, StreamAssumption DEF StreamTypes
<1>4. Destroyers = {}
  BY <1>1 DEF Destroyers, Idle
<1>5. mlAnswer[1] # "streamed"
  BY <1>1
<1> QED BY <1>1, <1>3, <1>4, <1>5 DEF StreamInv, OneDestroyer, StreamComesOut, StreamWasWhole

\* Nothing of the stream changes, and nobody destroys.
LEMMA StreamKept ==
    ASSUME StreamInv, UNCHANGED <<mlProvider, mlStream, mlAnswer>>,
           mlWorker' = mlWorker, ~mlUndefined' => ~mlUndefined,
           Destroyers' \subseteq Destroyers,
           mlCommands' \in 0..MaxSwitches, mlRequests' \in 0..MaxRequests
    PROVE  StreamInv'
<1>1. /\ mlLine' = mlLine /\ mlLeft' = mlLeft /\ mlContent' = mlContent /\ mlTools' = mlTools
      /\ mlShown' = mlShown /\ mlBody' = mlBody /\ mlProvider' = mlProvider
      /\ mlAnswer' = mlAnswer
  BY DEF mlStream
<1>2. AtNow' = AtNow
  BY <1>1 DEF AtNow
<1>3. Take' = Take
  BY <1>1 DEF Take, TakePiece, process_sse_line
<1>4. AtEnd(mlBody)' = AtEnd(mlBody)
  BY <1>1 DEF AtEnd
<1>5. StreamTypes'
  BY <1>1, <1>2 DEF StreamInv, StreamTypes
<1>6. StreamWasWhole'
  BY <1>1 DEF StreamInv, StreamWasWhole
<1>7. ASSUME ~mlUndefined' PROVE OneDestroyer' /\ StreamComesOut'
  <2>1. OneDestroyer /\ StreamComesOut
    BY <1>7 DEF StreamInv
  <2>2. OneDestroyer'
    BY <1>1, <2>1 DEF OneDestroyer
  <2>3. PICK op, s, l, e : op = Take /\ s = AtNow /\ l = mlLeft /\ e = AtEnd(mlBody)
    OBVIOUS
  <2>4. op = Take' /\ s = AtNow' /\ l = mlLeft' /\ e = AtEnd(mlBody)'
    BY <1>1, <1>2, <1>3, <1>4, <2>3
  <2>5. mlWorker = "streaming" => FoldOf(op, s, l) = e
    BY <2>1, <2>3 DEF StreamComesOut
  <2> QED BY <2>2, <2>4, <2>5 DEF StreamComesOut
<1> QED BY <1>5, <1>6, <1>7 DEF StreamInv

LEMMA FreedStream ==
    ASSUME StreamInv, UsesFreedMemory
    PROVE  StreamInv'
<1>1. /\ UNCHANGED <<mlProvider, mlStream, mlAnswer>> /\ mlWorker' = mlWorker
      /\ mlUndefined' = TRUE /\ mlOps' = mlOps
      /\ mlCommands' = mlCommands /\ mlRequests' = mlRequests
  BY DEF UsesFreedMemory
<1>2. Destroyers' = Destroyers
  BY <1>1 DEF Destroyers
<1>3. mlCommands' \in 0..MaxSwitches /\ mlRequests' \in 0..MaxRequests
  BY <1>1 DEF StreamInv, StreamTypes
<1> QED BY <1>1, <1>2, <1>3, StreamKept

LEMMA SyncedKeeps ==
    ASSUME ModelInv, NEW o \in Operators, NEW m, NEW renames, Synced(o, m, renames)
    PROVE  Destroyers' \subseteq Destroyers
<1>0. mlOps \in [Operators -> Holdings]
  BY DEF ModelInv, ModelTypes
<1>1. PICK h : /\ mlOps' = OthersDangle(o, [mlOps EXCEPT ![o] = h]) /\ h.pc = "synced"
  <2>1. PICK h : h = [pc |-> "synced",
                      config |-> IF o = "http" THEN [m EXCEPT !.provider = NULL] ELSE m,
                      dangling |-> FALSE, renames |-> renames]
    OBVIOUS
  <2>2. h.pc = "synced"
    BY <2>1
  <2>3. mlOps' = OthersDangle(o, [mlOps EXCEPT ![o] = h])
    BY <2>1 DEF Synced
  <2> QED BY <2>2, <2>3
<1>2. ASSUME NEW p \in Operators, mlOps'[p].pc = "destroyed" PROVE mlOps[p].pc = "destroyed"
  <2>1. PICK g : g = [mlOps EXCEPT ![o] = h][p]
    OBVIOUS
  <2>2. mlOps'[p] = [g EXCEPT !.dangling = @ \/ (p # o /\ g.pc \in {"synced", "destroyed"})]
    BY <1>1, <2>1 DEF OthersDangle
  <2>3. mlOps'[p].pc = g.pc
    BY <2>2
  <2>4. p # o /\ g = mlOps[p]
    BY <1>0, <1>1, <1>2, <2>1, <2>3
  <2> QED BY <1>2, <2>3, <2>4
<1> QED BY <1>2 DEF Destroyers

LEMMA BeginStream ==
    ASSUME ModelInv, StreamInv, NEW o \in Operators, Begin(o)
    PROVE  StreamInv'
<1>1. /\ UNCHANGED <<mlProvider, mlStream, mlAnswer>> /\ mlWorker' = mlWorker
      /\ mlUndefined' = mlUndefined /\ mlCommands' = mlCommands + 1
      /\ mlCommands < MaxSwitches /\ mlRequests' = mlRequests
  BY DEF Begin
<1>2. mlCommands' \in 0..MaxSwitches /\ mlRequests' \in 0..MaxRequests
  BY <1>1, StreamAssumption DEF StreamInv, StreamTypes
<1>3. \E p \in Operators : \E m, renames : Synced(p, m, renames)
  <2>1. "console" \in Operators
    BY DEF Operators
  <2>2. CASE \E i : config_switch_model(o, i)
    BY <2>2 DEF config_switch_model
  <2>3. CASE \E name \in NewNames : cmd_model_name(name)
    BY <2>1, <2>3 DEF cmd_model_name
  <2> QED BY <2>2, <2>3 DEF Begin
<1>4. Destroyers' \subseteq Destroyers
  BY <1>3, SyncedKeeps
<1> QED BY <1>1, <1>2, <1>4, StreamKept
LEMMA DestroyStream ==
    ASSUME ModelInv, StreamInv, NEW o \in Operators, DestroyProvider(o)
    PROVE  StreamInv'
<1>1. CASE mlProvider.freed
  BY <1>1, FreedStream DEF DestroyProvider
<1>2. CASE ~mlProvider.freed
  <2>1. /\ ~mlUndefined
        /\ mlProvider' = [mlProvider EXCEPT !.freed = TRUE]
        /\ mlWorker' = IF mlWorker \in {"streaming", "waiting"} THEN "orphan" ELSE mlWorker
        /\ mlOps' = [mlOps EXCEPT ![o].pc = "destroyed"]
        /\ UNCHANGED <<mlStream, mlAnswer, mlCommands, mlRequests>>
    BY <1>2 DEF DestroyProvider
  <2>2. /\ mlLine' = mlLine /\ mlLeft' = mlLeft /\ mlContent' = mlContent /\ mlTools' = mlTools
        /\ mlShown' = mlShown /\ mlBody' = mlBody /\ mlAnswer' = mlAnswer
    BY <2>1 DEF mlStream
  <2>3. AtNow' = AtNow
    BY <2>2 DEF AtNow
  <2>4. mlWorker' \notin {"streaming", "waiting"} /\ (mlWorker' = "idle" => mlWorker = "idle")
        /\ mlWorker' \in {"idle", "asking", "waiting", "streaming", "orphan"}
    BY <2>1 DEF StreamInv, StreamTypes
  <2>5. StreamTypes'
    BY <2>1, <2>2, <2>3, <2>4 DEF StreamInv, StreamTypes
  <2>6. StreamWasWhole'
    BY <2>2, <2>4 DEF StreamInv, StreamWasWhole
  <2>7. mlProvider'.freed
    BY <2>1 DEF ModelInv, ModelTypes, Providers
  <2>8. Destroyers = {}
    BY <1>2, <2>1 DEF StreamInv, OneDestroyer
  <2>9. \A p \in Destroyers' : p = o
    BY <2>1, <2>8 DEF Destroyers, ModelInv, ModelTypes
  <2>10. OneDestroyer'
    BY <2>4, <2>7, <2>9 DEF OneDestroyer
  <2>11. StreamComesOut'
    BY <2>4 DEF StreamComesOut
  <2> QED BY <2>5, <2>6, <2>10, <2>11 DEF StreamInv
<1> QED BY <1>1, <1>2

\* While one operator makes a provider no other is making one and nothing is streamed.
LEMMA CreateStream ==
    ASSUME ModelInv, StreamInv, NEW o \in Operators, CreateProvider(o)
    PROVE  StreamInv'
<1>1. CASE mlOps[o].dangling
  BY <1>1, FreedStream DEF CreateProvider
<1>2. CASE ~mlOps[o].dangling
  <2>1. PICK h : h = IF mlOps[o].renames THEN Idle ELSE [mlOps[o] EXCEPT !.pc = "created"]
    OBVIOUS
  <2>2. /\ ~mlUndefined /\ mlOps[o].pc = "destroyed"
        /\ mlOps' = [mlOps EXCEPT ![o] = IF @.renames THEN Idle ELSE [@ EXCEPT !.pc = "created"]]
        /\ mlProvider' = ai_provider_create(TypeFor(mlOps[o].config.provider, mlOps[o].config.url),
                                            mlOps[o].config)
        /\ mlWorker' = mlWorker /\ UNCHANGED <<mlStream, mlAnswer, mlCommands, mlRequests>>
    BY <1>2 DEF CreateProvider
  <2>3. /\ mlLine' = mlLine /\ mlLeft' = mlLeft /\ mlContent' = mlContent /\ mlTools' = mlTools
        /\ mlShown' = mlShown /\ mlBody' = mlBody /\ mlAnswer' = mlAnswer
    BY <2>2 DEF mlStream
  <2>4. AtNow' = AtNow
    BY <2>3 DEF AtNow
  <2>5. StreamTypes' /\ StreamWasWhole'
    BY <2>2, <2>3, <2>4 DEF StreamInv, StreamTypes, StreamWasWhole
  <2>6. OneDestroyer /\ mlOps \in [Operators -> Holdings] /\ o \in Destroyers
    BY <2>2 DEF StreamInv, ModelInv, ModelTypes, Destroyers
  <2>7. mlWorker' \notin {"streaming", "waiting"}
    BY <2>2, <2>6 DEF OneDestroyer
  <2>8. h.pc # "destroyed"
    BY <2>1, <2>6, IdleTypes DEF Holdings
  <2>9. mlOps'[o] = h /\ \A p \in Operators : p # o => mlOps'[p] = mlOps[p]
    BY <2>1, <2>2, <2>6
  <2>10. Destroyers' = {}
    <3> SUFFICES ASSUME NEW p \in Operators, mlOps'[p].pc = "destroyed" PROVE FALSE
      BY DEF Destroyers
    <3>1. p # o /\ mlOps[p].pc = "destroyed"
      BY <2>8, <2>9
    <3>2. p \in Destroyers
      BY <3>1 DEF Destroyers
    <3> QED BY <2>6, <3>1, <3>2 DEF OneDestroyer
  <2>11. OneDestroyer' /\ StreamComesOut'
    BY <2>7, <2>10 DEF OneDestroyer, StreamComesOut
  <2> QED BY <2>5, <2>11 DEF StreamInv
<1> QED BY <1>1, <1>2

LEMMA SetModelStream ==
    ASSUME ModelInv, StreamInv, NEW o \in Operators, agent_set_model(o)
    PROVE  StreamInv'
<1>1. /\ UNCHANGED <<mlProvider, mlStream, mlAnswer>> /\ mlWorker' = mlWorker
      /\ mlUndefined' = mlUndefined /\ mlCommands' = mlCommands /\ mlRequests' = mlRequests
      /\ mlOps' = [mlOps EXCEPT ![o] = Idle]
  BY DEF agent_set_model
<1>2. mlCommands' \in 0..MaxSwitches /\ mlRequests' \in 0..MaxRequests
      /\ mlOps \in [Operators -> Holdings]
  BY <1>1 DEF StreamInv, StreamTypes, ModelInv, ModelTypes
<1>3. Destroyers' \subseteq Destroyers
  <2> SUFFICES ASSUME NEW p \in Operators, mlOps'[p].pc = "destroyed"
               PROVE  mlOps[p].pc = "destroyed"
    BY DEF Destroyers
  <2>1. p # o
    BY <1>1, <1>2, IdleTypes
  <2> QED BY <1>1, <1>2, <2>1
<1> QED BY <1>1, <1>2, <1>3, StreamKept

LEMMA AskStream ==
    ASSUME ModelInv, StreamInv, Ask
    PROVE  StreamInv'
<1>1. /\ ~mlUndefined /\ mlWorker = "idle" /\ mlRequests < MaxRequests
      /\ mlRequests' = mlRequests + 1 /\ mlCommands' = mlCommands /\ mlOps' = mlOps
      /\ UNCHANGED <<mlStream, mlAnswer>>
  BY DEF Ask
<1>2. /\ mlRequests' \in 0..MaxRequests /\ mlCommands' \in 0..MaxSwitches
  BY <1>1, StreamAssumption DEF StreamInv, StreamTypes
<1>3. Destroyers' = Destroyers
  BY <1>1 DEF Destroyers
<1>4. CASE mlProvider.freed
  <2>1. mlProvider' = mlProvider /\ mlWorker' = mlWorker /\ mlUndefined'
    BY <1>4 DEF Ask
  <2> QED BY <1>1, <1>2, <1>3, <2>1, StreamKept
<1>5. CASE ~mlProvider.freed
  <2>1. /\ mlProvider' = [mlProvider EXCEPT !.callback = mlProvider.stream]
        /\ mlWorker' = "asking" /\ mlUndefined' = mlUndefined
    BY <1>5 DEF Ask, ai_model_set_stream_callback
  <2>2. /\ mlLine' = mlLine /\ mlLeft' = mlLeft /\ mlContent' = mlContent /\ mlTools' = mlTools
        /\ mlShown' = mlShown /\ mlBody' = mlBody /\ mlAnswer' = mlAnswer
    BY <1>1 DEF mlStream
  <2>3. AtNow' = AtNow
    BY <2>2 DEF AtNow
  <2>4. StreamTypes'
    BY <1>2, <2>1, <2>2, <2>3 DEF StreamInv, StreamTypes
  <2>5. Destroyers = {}
    BY <1>1, <1>5 DEF StreamInv, OneDestroyer
  <2> QED BY <1>3, <2>1, <2>4, <2>5 DEF StreamInv, OneDestroyer, StreamComesOut, StreamWasWhole
<1> QED BY <1>4, <1>5

LEMMA SendStream ==
    ASSUME ModelInv, StreamInv, SendMessages
    PROVE  StreamInv'
<1>1. CASE mlProvider.freed
  BY <1>1, FreedStream DEF SendMessages
<1>2. CASE ~mlProvider.freed
  <2>1. /\ ~mlUndefined /\ mlProvider' = mlProvider /\ mlOps' = mlOps
        /\ mlUndefined' = mlUndefined /\ mlCommands' = mlCommands /\ mlRequests' = mlRequests
        /\ mlWorker' \in {"streaming", "waiting"}
        /\ mlLine' = <<>> /\ mlContent' = <<>> /\ mlShown' = <<>> /\ mlTools' = NoTools
    BY <1>2 DEF SendMessages
  <2>2. PICK events \in Bodies : mlBody' = events /\ mlLeft' = BodyOf(events)
    BY <1>2 DEF SendMessages
  <2>3. events \in Seq(StreamEvents)
    BY StreamAssumption
  <2>4. AtNow' = AtStart
    BY <2>1 DEF AtNow, AtStart
  <2>5. BodyOf(events) \in Seq(StreamPieces)
    BY <2>3, BodyGrows
  <2>6. StreamTypes'
    BY <2>1, <2>2, <2>3, <2>4, <2>5, AtStartType DEF StreamInv, StreamTypes
  <2>7. Destroyers' = Destroyers
    BY <2>1 DEF Destroyers
  <2>8. OneDestroyer'
    BY <1>2, <2>1, <2>7 DEF StreamInv, OneDestroyer
  <2>9. StreamComesOut'
    <3>1. FoldOf(Take, AtStart, BodyOf(events)) = AtEnd(events)
      BY <2>3, ReadsWhole
    <3>2. Take' = Take /\ AtEnd(mlBody)' = AtEnd(events)
      BY <2>1, <2>2 DEF Take, TakePiece, process_sse_line, AtEnd
    <3>3. PICK op, s, l, e : op = Take /\ s = AtStart /\ l = BodyOf(events) /\ e = AtEnd(events)
      OBVIOUS
    <3>4. op = Take' /\ s = AtNow' /\ l = mlLeft' /\ e = AtEnd(mlBody)'
      BY <2>2, <2>4, <3>2, <3>3
    <3>5. FoldOf(op, s, l) = e
      BY <3>1, <3>3
    <3> QED BY <3>4, <3>5 DEF StreamComesOut
  <2>10. StreamWasWhole'
    BY <2>1 DEF StreamWasWhole
  <2> QED BY <2>6, <2>8, <2>9, <2>10 DEF StreamInv
<1> QED BY <1>1, <1>2

LEMMA ReceiveStream ==
    ASSUME ModelInv, StreamInv, ReceivePieces
    PROVE  StreamInv'
<1>1. PICK n \in 1..Len(mlLeft) :
          LET s == stream_data_callback(SubSeq(mlLeft, 1, n)) IN
          /\ mlLine' = s.line /\ mlContent' = s.content
          /\ mlTools' = s.tools /\ mlShown' = s.shown
          /\ mlLeft' = SubSeq(mlLeft, n + 1, Len(mlLeft))
  BY DEF ReceivePieces
<1>2. /\ ~mlUndefined /\ mlWorker = "streaming"
      /\ mlProvider' = mlProvider /\ mlOps' = mlOps /\ mlWorker' = mlWorker
      /\ mlAnswer' = mlAnswer /\ mlBody' = mlBody /\ mlUndefined' = mlUndefined
      /\ mlCommands' = mlCommands /\ mlRequests' = mlRequests
  BY DEF ReceivePieces
<1>3. mlLeft \in Seq(StreamPieces) /\ n \in 0..Len(mlLeft)
  BY LenProperties DEF StreamInv, StreamTypes
<1>4. PICK data \in Seq(StreamPieces), rest \in Seq(StreamPieces) :
          /\ data = SubSeq(mlLeft, 1, n) /\ rest = SubSeq(mlLeft, n + 1, Len(mlLeft))
          /\ mlLeft = data \o rest
  <2>1. PICK left \in Seq(StreamPieces) : left = mlLeft
    BY <1>3
  <2>2. PICK l : l = Len(left) /\ n \in 0..l
    BY <1>3, <2>1
  <2>3. /\ SubSeq(left, 1, n) \in Seq(StreamPieces)
        /\ SubSeq(left, n + 1, Len(left)) \in Seq(StreamPieces)
        /\ left = SubSeq(left, 1, n) \o SubSeq(left, n + 1, Len(left))
    BY <2>2, SplitSeq
  <2> QED BY <2>1, <2>3
<1>5. PICK op, b, e : op = Take /\ b = AtNow /\ e = AtEnd(mlBody)
  OBVIOUS
<1>6. b \in Parsers
  BY <1>5 DEF StreamInv, StreamTypes
<1>7. PICK s : s = FoldOf(op, b, data)
  OBVIOUS
<1>8. s = stream_data_callback(data)
  <2>1. FoldLeft(TakePiece, b, data) = FoldOf(op, b, data)
    BY <1>5, <1>6, FoldsPieces
  <2>2. stream_data_callback(data) = FoldLeft(TakePiece, b, data)
    BY <1>5 DEF stream_data_callback, AtNow
  <2> QED BY <1>7, <2>1, <2>2
<1>9. s \in Parsers
  BY <1>5, <1>6, <1>7, TakeType, FoldType
<1>10. AtNow' = s
  <2>1. mlLine' = s.line /\ mlContent' = s.content /\ mlTools' = s.tools /\ mlShown' = s.shown
    BY <1>1, <1>4, <1>8
  <2> QED BY <1>9, <2>1 DEF AtNow, Parsers
<1>11. mlLeft' = rest
  BY <1>1, <1>4
<1>12. FoldOf(op, s, rest) = e
  <2>1. FoldOf(op, b, data \o rest) = FoldOf(op, FoldOf(op, b, data), rest)
    BY FoldConcat
  <2>2. FoldOf(op, b, data \o rest) = e
    BY <1>2, <1>4, <1>5 DEF StreamInv, StreamComesOut
  <2> QED BY <1>7, <2>1, <2>2
<1>13. Take' = op /\ AtEnd(mlBody)' = e
  BY <1>2, <1>5 DEF Take, TakePiece, process_sse_line, AtEnd
<1>14. StreamTypes'
  BY <1>2, <1>9, <1>10, <1>11 DEF StreamInv, StreamTypes
<1>15. StreamComesOut'
  BY <1>10, <1>11, <1>12, <1>13 DEF StreamComesOut
<1>16. Destroyers' = Destroyers
  BY <1>2 DEF Destroyers
<1>17. OneDestroyer'
  BY <1>2, <1>16 DEF StreamInv, OneDestroyer
<1>18. StreamWasWhole'
  BY <1>2 DEF StreamWasWhole
<1> QED BY <1>14, <1>15, <1>17, <1>18 DEF StreamInv

LEMMA EndStream ==
    ASSUME ModelInv, StreamInv, NEW answer, ~mlUndefined,
           mlWorker \in {"streaming", "waiting"}, RequestEnds(answer),
           answer[1] = "streamed" =>
               /\ answer[2] = TextIn(Fitting(mlBody))
               /\ answer[3] = build_tool_calls_json(ToolsIn(Fitting(mlBody)))
               /\ mlShown \in {<<>>, answer[2]}
    PROVE  StreamInv'
<1>1. ~mlProvider.freed /\ OneDestroyer
  BY DEF StreamInv, OneDestroyer
<1>2. /\ mlProvider' = [mlProvider EXCEPT !.callback = FALSE] /\ mlUndefined' = mlUndefined
      /\ mlWorker' = "idle" /\ mlAnswer' = answer /\ mlOps' = mlOps
      /\ mlCommands' = mlCommands /\ mlRequests' = mlRequests /\ UNCHANGED mlStream
  BY <1>1 DEF RequestEnds, ai_model_set_stream_callback
<1>3. /\ mlLine' = mlLine /\ mlLeft' = mlLeft /\ mlContent' = mlContent /\ mlTools' = mlTools
      /\ mlShown' = mlShown /\ mlBody' = mlBody
  BY <1>2 DEF mlStream
<1>4. AtNow' = AtNow
  BY <1>3 DEF AtNow
<1>5. StreamTypes'
  BY <1>2, <1>3, <1>4 DEF StreamInv, StreamTypes
<1>6. Destroyers' = Destroyers /\ Destroyers = {}
  BY <1>1, <1>2 DEF Destroyers, OneDestroyer
<1>7. OneDestroyer' /\ StreamComesOut'
  BY <1>2, <1>6 DEF OneDestroyer, StreamComesOut
<1>8. StreamWasWhole'
  BY <1>2, <1>3 DEF StreamWasWhole
<1> QED BY <1>5, <1>7, <1>8 DEF StreamInv

LEMMA WorkerStream ==
    ASSUME ModelInv, StreamInv, Worker
    PROVE  StreamInv'
<1>1. CASE StreamEnds
  <2>1. /\ ~mlUndefined /\ mlWorker = "streaming" /\ mlLeft = <<>>
        /\ RequestEnds(<<"streamed", mlContent, build_tool_calls_json(mlTools)>>)
    BY <1>1 DEF StreamEnds
  <2>2. FoldOf(Take, AtNow, mlLeft) = AtEnd(mlBody)
    BY <2>1 DEF StreamInv, StreamComesOut
  <2>3. FoldOf(Take, AtNow, <<>>) = AtNow
    <3>1. PICK op, b : op = Take /\ b = AtNow
      OBVIOUS
    <3>2. FoldOf(op, b, <<>>) = b
      BY FoldEmpty
    <3> QED BY <3>1, <3>2
  <2>4. AtNow = AtEnd(mlBody)
    BY <2>1, <2>2, <2>3
  <2>5. /\ mlContent = TextIn(Fitting(mlBody)) /\ mlTools = ToolsIn(Fitting(mlBody))
        /\ mlShown = IF mlProvider.callback THEN TextIn(Fitting(mlBody)) ELSE <<>>
    BY <2>4 DEF AtNow, AtEnd
  <2>6. PICK answer : answer = <<"streamed", mlContent, build_tool_calls_json(mlTools)>>
    OBVIOUS
  <2>7. /\ answer[2] = TextIn(Fitting(mlBody))
        /\ answer[3] = build_tool_calls_json(ToolsIn(Fitting(mlBody)))
        /\ mlShown \in {<<>>, answer[2]}
    BY <2>5, <2>6
  <2> QED BY <2>1, <2>6, <2>7, EndStream
<1>2. CASE AnswerArrives
  <2>1. PICK text, tools : /\ ~mlUndefined /\ mlWorker = "waiting"
                           /\ RequestEnds(<<"whole", text, tools>>)
    BY <1>2 DEF AnswerArrives
  <2>2. PICK answer : answer = <<"whole", text, tools>>
    OBVIOUS
  <2>3. answer[1] # "streamed"
    BY <2>2
  <2> QED BY <2>1, <2>2, <2>3, EndStream
<1>3. CASE RequestFails
  <2>1. ~mlUndefined /\ mlWorker \in {"streaming", "waiting"} /\ RequestEnds(<<"error">>)
    BY <1>3 DEF RequestFails
  <2>2. PICK answer : answer = <<"error">>
    OBVIOUS
  <2>3. answer[1] # "streamed"
    BY <2>2
  <2> QED BY <2>1, <2>2, <2>3, EndStream
<1>4. CASE Orphaned
  BY <1>4, FreedStream DEF Orphaned
<1> QED BY <1>1, <1>2, <1>3, <1>4, AskStream, SendStream, ReceiveStream DEF Worker

LEMMA StreamStep == ModelInv /\ StreamInv /\ [MlNext]_mlVars => StreamInv'
<1> SUFFICES ASSUME ModelInv, StreamInv, [MlNext]_mlVars PROVE StreamInv'
  OBVIOUS
<1>1. ASSUME NEW o \in Operators, Operator(o) PROVE StreamInv'
  BY <1>1, BeginStream, DestroyStream, CreateStream, SetModelStream DEF Operator
<1>2. CASE Worker
  BY <1>2, WorkerStream
<1>3. CASE UNCHANGED mlVars
  <2>1. /\ UNCHANGED <<mlProvider, mlStream, mlAnswer>> /\ mlWorker' = mlWorker
        /\ mlUndefined' = mlUndefined /\ mlOps' = mlOps
        /\ mlCommands' = mlCommands /\ mlRequests' = mlRequests
    BY <1>3 DEF mlVars
  <2>2. mlCommands' \in 0..MaxSwitches /\ mlRequests' \in 0..MaxRequests
    BY <2>1 DEF StreamInv, StreamTypes
  <2>3. Destroyers' = Destroyers
    BY <2>1 DEF Destroyers
  <2> QED BY <2>1, <2>2, <2>3, StreamKept
<1> QED BY <1>1, <1>2, <1>3 DEF MlNext

\* However the pieces of a stream arrive, the answer is the text and the calls of the
\* events whose lines fit the buffer, and the channels have been shown all of the text
\* or nothing: for any bodies, any size of the buffer and any switches meanwhile.
THEOREM AnswersAreWhole == MlSpec => []WholeAnswer
<1>1. ModelInv /\ StreamInv => WholeAnswer
  <2> SUFFICES ASSUME ModelInv, StreamInv PROVE WholeAnswer
    OBVIOUS
  <2>1. Len(mlLine) <= LineSize
    BY DEF StreamInv, StreamTypes, AtNow, Parsers, BufferLines
  <2>2. ModelTypeOK
    BY <2>1 DEF StreamInv, StreamTypes, ModelInv, ModelTypes, ModelTypeOK
  <2>3. StreamWasWhole
    BY DEF StreamInv
  <2> QED BY <2>2, <2>3 DEF WholeAnswer, StreamWasWhole
<1> QED BY <1>1, ModelInit, ModelStep, StreamInit, StreamStep, PTL DEF MlSpec

-----------------------------------------------------------------------------
(***************************************************************************)
(* The memory (AgentTools), for any replies and any number of them.  The   *)
(* text of a reply, scanned twice, gives back the calls that were written: *)
(* the first scan counts them all at least, the second takes them out one  *)
(* behind the other.  The entries are then always the set that the calls   *)
(* carried out so far mean, and the file has them unless a save failed.    *)
(***************************************************************************)

-----------------------------------------------------------------------------
(* The scan of a reply. *)

\* What a text is made of, and what the scan takes out of it.
Words == STRING \cup {"(", ")", "arg", "NULL", "", "quote"}
Names == Words \cup {ws[1] : ws \in Seq(Words)}
Tokens == [quoted : BOOLEAN, words : Seq(Words)]
Scanned == [key : Names, value : Seq(Words) \cup {<<n>> : n \in Names}]
Scanners == [calls : Seq([name : Names, args : Seq(Scanned)]), at : {"outside", "name", "args"},
             name : Names, args : Seq(Scanned), word : Names]
Scan == [p \in Scanners \X Tokens |-> ScanToken(p[1], p[2])]

LEMMA ScanIs == \A s \in Scanners, t \in Tokens : Scan[<<s, t>>] = ScanToken(s, t)
BY DEF Scan

LEMMA OutsideType == Outside \in Scanners
<1>1. "" \in Names /\ "NULL" \in Names /\ <<>> \in Seq(Scanned)
  BY EmptySeq DEF Names, Words
<1>2. <<>> \in Seq([name : Names, args : Seq(Scanned)])
  BY EmptySeq
<1> QED BY <1>1, <1>2 DEF Outside, Scanners

LEMMA SettleType ==
    ASSUME NEW s \in Scanners
    PROVE  /\ Settle(s) \in Scanners
           /\ Settle(s).calls = s.calls /\ Settle(s).at = s.at /\ Settle(s).name = s.name
<1>1. CASE s.word = "NULL"
  BY <1>1 DEF Settle
<1>2. CASE s.word # "NULL"
  <2>1. s.word \in Names /\ "NULL" \in Names /\ "arg" \in Names /\ s.args \in Seq(Scanned)
    BY DEF Scanners, Names, Words
  <2>2. Arg("arg", <<s.word>>) \in Scanned
    BY <2>1 DEF Arg, Scanned
  <2>3. Append(s.args, Arg("arg", <<s.word>>)) \in Seq(Scanned)
    BY <2>1, <2>2, AppendProperties
  <2> QED BY <1>2, <2>1, <2>3 DEF Settle, Scanners
<1> QED BY <1>1, <1>2

LEMMA EndCallType ==
    ASSUME NEW s \in Scanners
    PROVE  EndCall(s) \in Scanners
<1>1. PICK u \in Scanners : u = Settle(s)
  BY SettleType
<1>2. PICK c : c = Call(s.name, u.args)
  OBVIOUS
<1>3. c \in [name : Names, args : Seq(Scanned)]
  BY <1>2 DEF Call, Scanners
<1>4. s.calls \in Seq([name : Names, args : Seq(Scanned)])
  BY DEF Scanners
<1>5. Append(s.calls, c) \in Seq([name : Names, args : Seq(Scanned)])
  BY <1>3, <1>4, AppendProperties
<1>6. [Outside EXCEPT !.calls = Append(s.calls, c)] \in Scanners
  BY <1>5, OutsideType DEF Scanners
<1> QED BY <1>1, <1>2, <1>6 DEF EndCall

LEMMA ScanArgumentType ==
    ASSUME NEW s \in Scanners, NEW t \in Tokens
    PROVE  ScanArgument(s, t) \in Scanners
<1>1. /\ s.word \in Names /\ "NULL" \in Names /\ "arg" \in Names /\ s.args \in Seq(Scanned)
      /\ t.words \in Seq(Words) /\ t.words[1] \in Names
  BY DEF Scanners, Names, Words, Tokens
<1>2. CASE t = Close
  BY <1>2, EndCallType DEF ScanArgument
<1>3. CASE t # Close /\ s.word # "NULL" /\ t # Open
  <2>1. Arg(s.word, t.words) \in Scanned
    BY <1>1 DEF Arg, Scanned
  <2>2. Append(s.args, Arg(s.word, t.words)) \in Seq(Scanned)
    BY <1>1, <2>1, AppendProperties
  <2> QED BY <1>1, <1>3, <2>2 DEF ScanArgument, Scanners
<1>4. CASE t # Close /\ ~(s.word # "NULL" /\ t # Open) /\ t.quoted
  <2>1. Arg("arg", t.words) \in Scanned
    BY <1>1 DEF Arg, Scanned
  <2>2. Append(s.args, Arg("arg", t.words)) \in Seq(Scanned)
    BY <1>1, <2>1, AppendProperties
  <2> QED BY <1>1, <1>4, <2>2 DEF ScanArgument, Scanners
<1>5. CASE t # Close /\ ~(s.word # "NULL" /\ t # Open) /\ ~t.quoted
  <2>1. PICK u \in Scanners : u = Settle(s)
    BY SettleType
  <2>2. [u EXCEPT !.word = t.words[1]] \in Scanners
    BY <1>1 DEF Scanners
  <2> QED BY <1>5, <2>1, <2>2 DEF ScanArgument
<1> QED BY <1>2, <1>3, <1>4, <1>5

LEMMA ScanType == Scan \in [Scanners \X Tokens -> Scanners]
<1>1. ASSUME NEW s \in Scanners, NEW t \in Tokens PROVE ScanToken(s, t) \in Scanners
  <2>1. t.words[1] \in Names
    BY DEF Names, Tokens
  <2>2. CASE s.at = "outside"
    BY <2>2 DEF ScanToken, Scanners
  <2>3. CASE s.at = "name"
    BY <2>1, <2>3 DEF ScanToken, Scanners
  <2>4. CASE s.at = "args"
    BY <2>4, ScanArgumentType DEF ScanToken
  <2> QED BY <2>2, <2>3, <2>4 DEF Scanners
<1> QED BY <1>1 DEF Scan

LEMMA Scans ==
    ASSUME NEW text \in Seq(Tokens)
    PROVE  FoldLeft(ScanToken, Outside, text) = FoldOf(Scan, Outside, text)
<1>1. Len(text) \in Nat /\ DOMAIN text = 1..Len(text) /\ \A i \in 1..Len(text) : text[i] \in Tokens
  BY LenProperties, ElementOfSeq
<1>0. PICK base \in Scanners : base = Outside
  BY OutsideType
<1>2. PICK h \in [SUBSET DOMAIN text -> Scanners] : SetFolding(h, Scan, base, text)
  BY ScanType, SetFoldingExists
<1>3. h = [t \in SUBSET DOMAIN text |->
             IF t = {} THEN base ELSE ScanToken(h[t \ {Max(t)}], text[Max(t)])]
  <2>1. ASSUME NEW t \in SUBSET DOMAIN text
        PROVE  h[t] = IF t = {} THEN base ELSE ScanToken(h[t \ {Max(t)}], text[Max(t)])
    <3>1. CASE t = {}
      BY <1>2, <3>1 DEF SetFolding
    <3>2. CASE t # {}
      <4>1. Max(t) \in t
        BY <1>1, <3>2, MaxIn
      <4> HIDE DEF Max
      <4>2. text[Max(t)] \in Tokens /\ h[t \ {Max(t)}] \in Scanners
        BY <1>1, <1>2, <4>1
      <4>3. h[t] = Scan[<<h[t \ {Max(t)}], text[Max(t)]>>]
        BY <1>2, <3>2 DEF SetFolding
      <4> QED BY <3>2, <4>2, <4>3, ScanIs
    <3> QED BY <3>1, <3>2
  <2> HIDE DEF Max
  <2> QED BY <1>2, <2>1
<1>4. PICK g : g = CHOOSE f : f = [t \in SUBSET DOMAIN text |->
                 IF t = {} THEN base ELSE ScanToken(f[t \ {Max(t)}], text[Max(t)])]
  OBVIOUS
<1>5. g = [t \in SUBSET DOMAIN text |->
             IF t = {} THEN base ELSE ScanToken(g[t \ {Max(t)}], text[Max(t)])]
  BY <1>3, <1>4
<1>6. FoldLeft(ScanToken, base, text) = g[DOMAIN text]
  BY <1>4 DEF FoldLeft, MapThenFoldSet
<1>7. ASSUME NEW k \in 1..Len(text), g[1..k - 1] \in Scanners
      PROVE  g[1..k] = Scan[<<g[1..k - 1], text[k]>>]
  <2>1. /\ 1..k \in SUBSET DOMAIN text /\ 1..k # {} /\ Max(1..k) = k
        /\ (1..k) \ {k} = 1..k - 1
    BY <1>1, FirstPlaces
  <2> HIDE DEF Max
  <2>2. g[1..k] = ScanToken(g[(1..k) \ {Max(1..k)}], text[Max(1..k)])
    BY <1>5, <2>1
  <2>3. g[1..k] = ScanToken(g[1..k - 1], text[k])
    BY <2>1, <2>2
  <2>4. g[1..k - 1] \in Scanners /\ text[k] \in Tokens
    BY <1>1, <1>7
  <2>5. Scan[<<g[1..k - 1], text[k]>>] = ScanToken(g[1..k - 1], text[k])
    BY <2>4, ScanIs
  <2> QED BY <2>3, <2>5
<1>8. g[{}] = base
  BY <1>5
<1>9. Unrolled(g, Scanners, Scan, base, text, g[DOMAIN text])
  BY <1>1, <1>7, <1>8 DEF Unrolled
<1>10. g[DOMAIN text] = FoldOf(Scan, base, text)
  BY <1>9, ScanType, SetFoldIs
<1> QED BY <1>0, <1>6, <1>10

-----------------------------------------------------------------------------
(* The scan takes the calls of a reply out of its text. *)

PlainArgs == {a \in Arguments : a.key \notin {"(", ")", "NULL"}}
PlainCalls == {c \in [name : STRING, args : Seq(PlainArgs)] : c.name \notin {"(", ")", "NULL"}}
ArgText == [a \in PlainArgs |-> TextOfArg(a)]
CallText == [c \in PlainCalls |-> TextOfCall(c)]

LEMMA WordsMore == ASSUME NEW s \in Seq(STRING) PROVE s \in Seq(Words)
<1>1. \A i \in 1..Len(s) : s[i] \in Words
  BY ElementOfSeq DEF Words
<1> QED BY <1>1, SeqWith

LEMMA TokenTypes ==
    /\ \A n \in STRING : Word(n) \in Tokens
    /\ Open \in Tokens /\ Close \in Tokens
    /\ \A ws \in Seq(STRING) : Quoted(ws) \in Tokens
<1>1. ASSUME NEW n \in Words PROVE Word(n) \in Tokens
  <2>1. <<n>> \in Seq(Words)
    BY OneSeq
  <2> QED BY <2>1 DEF Word, Tokens
<1>2. ASSUME NEW ws \in Seq(STRING) PROVE Quoted(ws) \in Tokens
  BY WordsMore DEF Quoted, Tokens
<1> QED BY <1>1, <1>2 DEF Open, Close, Words

LEMMA ArgTextType == ArgText \in [PlainArgs -> Seq(Tokens)]
<1>1. ASSUME NEW a \in PlainArgs PROVE TextOfArg(a) \in Seq(Tokens)
  <2>1. Word(a.key) \in Tokens /\ Quoted(a.value) \in Tokens
    BY TokenTypes DEF PlainArgs, Arguments
  <2> QED BY <2>1, TwoSeq DEF TextOfArg
<1> QED BY <1>1 DEF ArgText

LEMMA CallTextIs ==
    ASSUME NEW c \in PlainCalls
    PROVE  /\ TextOfCall(c) = <<Open, Word(c.name)>> \o FlatMap(ArgText, c.args) \o <<Close>>
           /\ <<Open, Word(c.name)>> \in Seq(Tokens) /\ FlatMap(ArgText, c.args) \in Seq(Tokens)
           /\ <<Close>> \in Seq(Tokens) /\ c.args \in Seq(PlainArgs)
<1>1. c.args \in Seq(PlainArgs) /\ c.name \in STRING
  BY DEF PlainCalls
<1>2. PICK s \in Seq(PlainArgs) : s = c.args
  BY <1>1
<1>3. \A i \in DOMAIN s : ArgText[s[i]] = TextOfArg(s[i])
  <2>1. DOMAIN s = 1..Len(s) /\ \A i \in 1..Len(s) : s[i] \in PlainArgs
    BY LenProperties, ElementOfSeq
  <2> QED BY <2>1 DEF ArgText
<1>4. [i \in DOMAIN s |-> TextOfArg(s[i])] = [i \in DOMAIN s |-> ArgText[s[i]]]
  BY <1>3
<1>5. FlattenSeq([i \in DOMAIN c.args |-> TextOfArg(c.args[i])]) = FlatMap(ArgText, c.args)
  BY <1>2, <1>4 DEF FlatMap
<1>6. FlatMap(ArgText, c.args) \in Seq(Tokens)
  BY <1>1, ArgTextType, FlatMapType
<1>7. <<Open, Word(c.name)>> \in Seq(Tokens) /\ <<Close>> \in Seq(Tokens)
  BY <1>1, TokenTypes, OneSeq, TwoSeq
<1> QED BY <1>1, <1>5, <1>6, <1>7 DEF TextOfCall

LEMMA CallTextType == CallText \in [PlainCalls -> Seq(Tokens)]
<1>1. ASSUME NEW c \in PlainCalls PROVE TextOfCall(c) \in Seq(Tokens)
  <2>1. PICK s, t, u \in Seq(Tokens) :
           s = <<Open, Word(c.name)>> /\ t = FlatMap(ArgText, c.args) /\ u = <<Close>>
    BY CallTextIs
  <2>2. s \o t \in Seq(Tokens)
    BY ConcatProperties
  <2>3. (s \o t) \o u \in Seq(Tokens)
    BY <2>2, ConcatProperties
  <2> QED BY <2>1, <2>3, CallTextIs
<1> QED BY <1>1 DEF CallText

LEMMA TextIs ==
    ASSUME NEW calls \in Seq(PlainCalls)
    PROVE  TextOf(calls) = FlatMap(CallText, calls) \o <<Close>>
<1>1. DOMAIN calls = 1..Len(calls) /\ \A i \in 1..Len(calls) : calls[i] \in PlainCalls
  BY LenProperties, ElementOfSeq
<1>2. \A i \in DOMAIN calls : CallText[calls[i]] = TextOfCall(calls[i])
  BY <1>1 DEF CallText
<1>3. [i \in DOMAIN calls |-> TextOfCall(calls[i])] = [i \in DOMAIN calls |-> CallText[calls[i]]]
  BY <1>2
<1> QED BY <1>3 DEF TextOf, FlatMap

\* A keyword and its value make an argument.
LEMMA ScansArg ==
    ASSUME NEW s \in Scanners, s.at = "args", s.word = "NULL", NEW a \in PlainArgs
    PROVE  FoldOf(Scan, s, TextOfArg(a)) = [s EXCEPT !.args = Append(@, a)]
<1>1. a.key \in STRING /\ a.key # ")" /\ a.key # "NULL" /\ a.value \in Seq(STRING)
  BY DEF PlainArgs, Arguments
<1>2. PICK k, v \in Tokens : k = Word(a.key) /\ v = Quoted(a.value)
  BY <1>1, TokenTypes
<1>3. /\ ~k.quoted /\ k.words = <<a.key>> /\ k.words[1] = a.key /\ k # Close
      /\ v.quoted /\ v.words = a.value /\ v # Close /\ v # Open
  BY <1>1, <1>2 DEF Word, Quoted, Close, Open
<1>4. PICK u \in Scanners : u = ScanToken(s, k)
  BY ScanType, ScanIs
<1>5. u = [s EXCEPT !.word = a.key]
  <2>1. ScanToken(s, k) = ScanArgument(s, k)
    BY DEF ScanToken
  <2> QED BY <1>3, <1>4, <2>1 DEF ScanArgument, Settle
<1>6. /\ u.at = "args" /\ u.word = a.key /\ u.args = s.args
      /\ u.calls = s.calls /\ u.name = s.name
  BY <1>5 DEF Scanners
<1>7. ScanToken(u, v) = [u EXCEPT !.args = Append(s.args, Arg(a.key, a.value)), !.word = "NULL"]
  <2>1. ScanToken(u, v) = ScanArgument(u, v)
    BY <1>6 DEF ScanToken
  <2> QED BY <1>1, <1>3, <1>6, <2>1 DEF ScanArgument
<1>8. Arg(a.key, a.value) = a
  BY DEF Arg, PlainArgs, Arguments
<1>9. ScanToken(u, v) = [s EXCEPT !.args = Append(s.args, a)]
  <2>1. PICK as : as = Append(s.args, a)
    OBVIOUS
  <2>2. [u EXCEPT !.args = as, !.word = "NULL"] = [s EXCEPT !.args = as]
    BY <1>6 DEF Scanners
  <2> QED BY <1>7, <1>8, <2>1, <2>2
<1>10. FoldOf(Scan, s, <<k, v>>) = Scan[<<Scan[<<s, k>>], v>>]
  BY FoldTwo
<1>11. Scan[<<s, k>>] = u /\ Scan[<<u, v>>] = ScanToken(u, v)
  BY <1>4, ScanIs
<1> QED BY <1>2, <1>9, <1>10, <1>11 DEF TextOfArg

LEMMA ScansArgs ==
    ASSUME NEW s \in Scanners, s.at = "args", s.word = "NULL", s.args = <<>>,
           NEW args \in Seq(PlainArgs)
    PROVE  FoldOf(Scan, s, FlatMap(ArgText, args)) = [s EXCEPT !.args = args]
<1> DEFINE A == {as \in Seq(PlainArgs) :
                    FoldOf(Scan, s, FlatMap(ArgText, as)) = [s EXCEPT !.args = as]}
<1>1. <<>> \in A
  <2>1. FlatMap(ArgText, <<>>) = <<>> /\ FoldOf(Scan, s, <<>>) = s /\ <<>> \in Seq(PlainArgs)
    BY FlatMapEmpty, FoldEmpty, EmptySeq
  <2>2. [s EXCEPT !.args = <<>>] = s
    BY DEF Scanners
  <2> QED BY <2>1, <2>2
<1>2. ASSUME NEW as \in Seq(PlainArgs), NEW a \in PlainArgs, as \in A PROVE Append(as, a) \in A
  <2>1. PICK t \in Seq(Tokens) : t = FlatMap(ArgText, as)
    BY ArgTextType, FlatMapType
  <2>2. PICK x \in Seq(Tokens) : x = TextOfArg(a)
    BY ArgTextType DEF ArgText
  <2>3. FlatMap(ArgText, Append(as, a)) = t \o x
    <3>1. FlatMap(ArgText, Append(as, a)) = FlatMap(ArgText, as) \o ArgText[a]
      BY ArgTextType, FlatMapAppend
    <3> QED BY <2>1, <2>2, <3>1 DEF ArgText
  <2>4. PICK u \in Scanners : u = FoldOf(Scan, s, t)
    BY ScanType, FoldType
  <2>5. u = [s EXCEPT !.args = as]
    BY <1>2, <2>1, <2>4
  <2>6. u.at = "args" /\ u.word = "NULL" /\ u.args = as
    BY <2>5 DEF Scanners
  <2>7. FoldOf(Scan, u, x) = [u EXCEPT !.args = Append(@, a)]
    BY <2>2, <2>6, ScansArg
  <2>8. [u EXCEPT !.args = Append(@, a)] = [s EXCEPT !.args = Append(as, a)]
    <3>1. PICK bs : bs = Append(as, a)
      OBVIOUS
    <3>2. [u EXCEPT !.args = bs] = [s EXCEPT !.args = bs]
      BY <2>5 DEF Scanners
    <3> QED BY <2>6, <3>1, <3>2
  <2>9. FoldOf(Scan, s, t \o x) = FoldOf(Scan, FoldOf(Scan, s, t), x)
    BY FoldConcat
  <2>10. Append(as, a) \in Seq(PlainArgs)
    BY AppendProperties
  <2> QED BY <2>3, <2>4, <2>7, <2>8, <2>9, <2>10
<1> HIDE DEF A
<1>3. args \in A
  BY <1>1, <1>2, SeqInduct
<1> QED BY <1>3 DEF A

LEMMA ScanSteps ==
    ASSUME NEW s \in Scanners, NEW x \in Tokens, NEW y \in Tokens
    PROVE  /\ FoldOf(Scan, s, <<x>>) = ScanToken(s, x)
           /\ FoldOf(Scan, s, <<x, y>>) = ScanToken(ScanToken(s, x), y)
<1>1. PICK u \in Scanners : u = ScanToken(s, x)
  BY ScanType, ScanIs
<1>2. FoldOf(Scan, s, <<x>>) = Scan[<<s, x>>]
  BY FoldOne
<1>3. FoldOf(Scan, s, <<x, y>>) = Scan[<<Scan[<<s, x>>], y>>]
  BY FoldTwo
<1>4. Scan[<<s, x>>] = u /\ Scan[<<u, y>>] = ScanToken(u, y)
  BY <1>1, ScanIs
<1> QED BY <1>1, <1>2, <1>3, <1>4

LEMMA ScanParts ==
    ASSUME NEW s \in Scanners, NEW r \in Seq(Tokens), NEW t \in Seq(Tokens), NEW l \in Seq(Tokens)
    PROVE  FoldOf(Scan, s, (r \o t) \o l) = FoldOf(Scan, FoldOf(Scan, FoldOf(Scan, s, r), t), l)
<1>1. PICK v \in Seq(Tokens) : v = r \o t
  BY ConcatProperties
<1>2. FoldOf(Scan, s, r \o t) = FoldOf(Scan, FoldOf(Scan, s, r), t)
  BY FoldConcat
<1>3. FoldOf(Scan, s, v \o l) = FoldOf(Scan, FoldOf(Scan, s, v), l)
  BY FoldConcat
<1> QED BY <1>1, <1>2, <1>3

LEMMA ScanThrough ==
    ASSUME NEW s \in Scanners, NEW r \in Seq(Tokens), NEW t \in Seq(Tokens), NEW l \in Seq(Tokens),
           NEW s2, NEW s3, NEW u,
           FoldOf(Scan, s, r) = s2, FoldOf(Scan, s2, t) = s3, FoldOf(Scan, s3, l) = u
    PROVE  FoldOf(Scan, s, (r \o t) \o l) = u
BY ScanParts

Ready(s) == s.at = "outside" /\ s.name = "" /\ s.args = <<>> /\ s.word = "NULL"

\* Between its parentheses, a name and arguments make a call.
LEMMA ScansCall ==
    ASSUME NEW s \in Scanners, Ready(s), NEW c \in PlainCalls
    PROVE  FoldOf(Scan, s, TextOfCall(c)) = [Outside EXCEPT !.calls = Append(s.calls, c)]
<1>1. c.name \in STRING /\ c.name # ")" /\ c.args \in Seq(PlainArgs)
  BY DEF PlainCalls
<1>2. PICK o, n, z \in Tokens : o = Open /\ n = Word(c.name) /\ z = Close
  BY <1>1, TokenTypes
<1>3. n # z /\ n.words[1] = c.name
  BY <1>1, <1>2 DEF Word, Close
<1>4. PICK r, t, l \in Seq(Tokens) : r = <<o, n>> /\ t = FlatMap(ArgText, c.args) /\ l = <<z>>
  BY <1>2, CallTextIs
<1>5. TextOfCall(c) = (r \o t) \o l
  BY <1>2, <1>4, CallTextIs
<1>6. PICK s1 \in Scanners : s1 = ScanToken(s, o)
  BY ScanType, ScanIs
<1>7. s1 = [s EXCEPT !.at = "name"]
  BY <1>2, <1>6 DEF ScanToken, Ready
<1>8. PICK s2 \in Scanners : s2 = ScanToken(s1, n)
  BY ScanType, ScanIs
<1>9. s2 = [s1 EXCEPT !.at = "args", !.name = c.name]
  <2>1. s1.at = "name"
    BY <1>7 DEF Scanners, Ready
  <2> QED BY <1>2, <1>3, <1>8, <2>1 DEF ScanToken
<1>10. FoldOf(Scan, s, r) = s2
  BY <1>4, <1>6, <1>8, ScanSteps
<1>11. /\ s2.at = "args" /\ s2.word = "NULL" /\ s2.args = <<>>
       /\ s2.calls = s.calls /\ s2.name = c.name
  BY <1>7, <1>9 DEF Scanners, Ready
<1>12. PICK s3 \in Scanners : s3 = FoldOf(Scan, s2, t)
  BY ScanType, FoldType
<1>13. s3 = [s2 EXCEPT !.args = c.args]
  BY <1>1, <1>4, <1>11, <1>12, ScansArgs
<1>14. s3.at = "args" /\ s3.word = "NULL" /\ s3.args = c.args /\ s3.calls = s.calls /\ s3.name = c.name
  BY <1>11, <1>13 DEF Scanners
<1>15. ScanToken(s3, z) = [Outside EXCEPT !.calls = Append(s.calls, c)]
  <2>1. ScanToken(s3, z) = EndCall(s3)
    BY <1>2, <1>14 DEF ScanToken, ScanArgument
  <2>2. Settle(s3) = s3
    BY <1>14 DEF Settle
  <2>3. Call(c.name, c.args) = c
    BY DEF Call, PlainCalls
  <2> QED BY <1>14, <2>1, <2>2, <2>3 DEF EndCall
<1>16. FoldOf(Scan, s3, l) = ScanToken(s3, z)
  BY <1>4, ScanSteps
<1>17. FoldOf(Scan, s, (r \o t) \o l) = ScanToken(s3, z)
  BY <1>10, <1>12, <1>16, ScanThrough
<1> QED BY <1>5, <1>15, <1>17

\* What the scan of a reply's text takes out of it is what was written there.
LEMMA ScansReply ==
    ASSUME NEW calls \in Seq(PlainCalls)
    PROVE  FoldLeft(ScanToken, Outside, TextOf(calls)).calls = calls
<1> DEFINE A == {cs \in Seq(PlainCalls) :
                    FoldOf(Scan, Outside, FlatMap(CallText, cs)) = [Outside EXCEPT !.calls = cs]}
<1>0. PICK b \in Scanners : b = Outside
  BY OutsideType
<1>1. <<>> \in A
  <2>1. FlatMap(CallText, <<>>) = <<>> /\ FoldOf(Scan, Outside, <<>>) = Outside /\ <<>> \in Seq(PlainCalls)
    BY FlatMapEmpty, FoldEmpty, EmptySeq
  <2>2. b.calls = <<>>
    BY <1>0 DEF Outside
  <2>3. [b EXCEPT !.calls = <<>>] = b
    BY <2>2 DEF Scanners
  <2> QED BY <1>0, <2>1, <2>3
<1>2. ASSUME NEW cs \in Seq(PlainCalls), NEW c \in PlainCalls, cs \in A PROVE Append(cs, c) \in A
  <2>1. PICK t \in Seq(Tokens) : t = FlatMap(CallText, cs)
    BY CallTextType, FlatMapType
  <2>2. PICK x \in Seq(Tokens) : x = TextOfCall(c)
    BY CallTextType DEF CallText
  <2>3. FlatMap(CallText, Append(cs, c)) = t \o x
    <3>1. FlatMap(CallText, Append(cs, c)) = FlatMap(CallText, cs) \o CallText[c]
      BY CallTextType, FlatMapAppend
    <3> QED BY <2>1, <2>2, <3>1 DEF CallText
  <2>4. PICK u \in Scanners : u = FoldOf(Scan, b, t)
    BY ScanType, FoldType
  <2>5. u = [Outside EXCEPT !.calls = cs]
    BY <1>0, <1>2, <2>1, <2>4
  <2>6. u.at = "outside" /\ u.name = "" /\ u.args = <<>> /\ u.word = "NULL" /\ u.calls = cs
    BY <2>5 DEF Outside
  <2>7. FoldOf(Scan, u, x) = [Outside EXCEPT !.calls = Append(cs, c)]
    BY <2>2, <2>6, ScansCall DEF Ready
  <2>8. FoldOf(Scan, b, t \o x) = FoldOf(Scan, FoldOf(Scan, b, t), x)
    BY FoldConcat
  <2>9. Append(cs, c) \in Seq(PlainCalls)
    BY AppendProperties
  <2> QED BY <1>0, <2>3, <2>4, <2>7, <2>8, <2>9
<1> HIDE DEF A
<1>3. calls \in A
  BY <1>1, <1>2, SeqInduct
<1>4. PICK t, l \in Seq(Tokens) : t = FlatMap(CallText, calls) /\ l = <<Close>>
  BY CallTextType, FlatMapType, TokenTypes, OneSeq
<1>5. PICK s \in Scanners : s = FoldOf(Scan, b, t)
  BY ScanType, FoldType
<1>6. s = [Outside EXCEPT !.calls = calls]
  BY <1>0, <1>3, <1>4, <1>5 DEF A
<1>7. s.at = "outside" /\ s.calls = calls
  BY <1>6 DEF Outside
<1>8. ScanToken(s, Close) = s
  BY <1>7 DEF ScanToken, Open, Close, Word
<1>9. FoldOf(Scan, s, l) = s
  <2>1. PICK z \in Tokens : z = Close
    BY TokenTypes
  <2>2. FoldOf(Scan, s, <<z>>) = Scan[<<s, z>>]
    BY FoldOne
  <2>3. Scan[<<s, z>>] = ScanToken(s, z)
    BY ScanIs
  <2> QED BY <1>4, <1>8, <2>1, <2>2, <2>3
<1>10. FoldOf(Scan, b, t \o l) = FoldOf(Scan, FoldOf(Scan, b, t), l)
  BY FoldConcat
<1>11. t \o l \in Seq(Tokens) /\ TextOf(calls) = t \o l
  BY <1>4, TextIs, ConcatProperties
<1>12. FoldLeft(ScanToken, Outside, t \o l) = FoldOf(Scan, Outside, t \o l)
  BY <1>11, Scans
<1> QED BY <1>0, <1>5, <1>7, <1>9, <1>10, <1>11, <1>12

-----------------------------------------------------------------------------
(* The first scan counts every call of a reply at least. *)

Counts == [n : Nat, skip : BOOLEAN]
Zero == [n |-> 0, skip |-> FALSE]
Counting(h, chars) ==
    /\ h[0] = Zero
    /\ \A i \in 0..Len(chars) : h[i] \in Counts
    /\ \A i \in 1..Len(chars) : h[i] = CountAt(chars, h[i - 1], i)
Counted(h, chars, n) == Counting(h, chars) /\ n = h[Len(chars)].n

LEMMA CountAtType ==
    ASSUME NEW chars, NEW acc \in Counts, NEW i
    PROVE  CountAt(chars, acc, i) \in Counts
<1>1. acc.n \in Nat /\ acc.skip \in BOOLEAN
  BY DEF Counts
<1>2. CASE acc.skip
  <2>1. CountAt(chars, acc, i) = [acc EXCEPT !.skip = FALSE]
    BY <1>2 DEF CountAt
  <2> QED BY <2>1 DEF Counts
<1>3. CASE ~acc.skip /\ (chars[i] # "(" \/ i = Len(chars))
  <2>1. CountAt(chars, acc, i) = acc
    BY <1>3 DEF CountAt
  <2> QED BY <2>1
<1>4. CASE ~acc.skip /\ ~(chars[i] # "(" \/ i = Len(chars))
  <2>1. CountAt(chars, acc, i) = [n |-> IF chars[i + 1] = ")" THEN acc.n ELSE acc.n + 1, skip |-> TRUE]
    BY <1>4 DEF CountAt
  <2>2. acc.n + 1 \in Nat
    BY <1>1
  <2> QED BY <1>1, <2>1, <2>2 DEF Counts
<1> QED BY <1>2, <1>3, <1>4

LEMMA CountsCharacters ==
    ASSUME NEW text, Characters(text) \in Seq(Words)
    PROVE  \E h : Counted(h, Characters(text), CountCalls(text))
<1>1. PICK chars \in Seq(Words) : chars = Characters(text)
  OBVIOUS
<1>2. Len(chars) \in Nat /\ DOMAIN chars = 1..Len(chars)
  BY LenProperties
<1>3. PICK m \in Nat : m = Len(chars)
  BY <1>2
<1>4. PICK places \in Seq(1..m) : places = [i \in DOMAIN chars |-> i]
  <2>1. PICK ps : ps = [i \in DOMAIN chars |-> i]
    OBVIOUS
  <2>2. ps \in [1..m -> 1..m]
    BY <1>2, <1>3, <2>1
  <2>3. ps \in Seq(1..m)
    BY <2>2, SeqDef
  <2> QED BY <2>1, <2>3
<1>5. /\ DOMAIN places = 1..m /\ \A i \in 1..m : places[i] = i /\ places[i] \in 1..m
      /\ Len(places) = m
  <2>1. DOMAIN places = 1..m /\ \A i \in 1..m : places[i] = i
    BY <1>2, <1>3, <1>4
  <2> QED BY <2>1, LenProperties
<1> DEFINE Op == [p \in Counts \X (1..m) |-> CountAt(chars, p[1], p[2])]
<1>6. Op \in [Counts \X (1..m) -> Counts]
  BY CountAtType
<1>7. \A acc \in Counts, i \in 1..m : Op[<<acc, i>>] = CountAt(chars, acc, i)
  OBVIOUS
<1> HIDE DEF Op
<1>8. PICK base \in Counts : base = Zero
  BY DEF Counts, Zero
<1>9. PICK h \in [SUBSET DOMAIN places -> Counts] : SetFolding(h, Op, base, places)
  BY <1>6, SetFoldingExists
<1>10. h = [t \in SUBSET DOMAIN places |->
             IF t = {} THEN base ELSE CountAt(chars, h[t \ {Max(t)}], places[Max(t)])]
  <2>1. ASSUME NEW t \in SUBSET DOMAIN places
        PROVE  h[t] = IF t = {} THEN base ELSE CountAt(chars, h[t \ {Max(t)}], places[Max(t)])
    <3>1. CASE t = {}
      BY <1>9, <3>1 DEF SetFolding
    <3>2. CASE t # {}
      <4>1. Max(t) \in t
        BY <1>5, <3>2, MaxIn
      <4> HIDE DEF Max
      <4>2. places[Max(t)] \in 1..m /\ h[t \ {Max(t)}] \in Counts
        BY <1>5, <1>9, <4>1
      <4>3. h[t] = Op[<<h[t \ {Max(t)}], places[Max(t)]>>]
        BY <1>9, <3>2 DEF SetFolding
      <4> QED BY <1>7, <3>2, <4>2, <4>3
    <3> QED BY <3>1, <3>2
  <2> HIDE DEF Max
  <2> QED BY <1>9, <2>1
<1>11. PICK g : g = CHOOSE f : f = [t \in SUBSET DOMAIN places |->
                 IF t = {} THEN base ELSE CountAt(chars, f[t \ {Max(t)}], places[Max(t)])]
  OBVIOUS
<1>12. g = [t \in SUBSET DOMAIN places |->
              IF t = {} THEN base ELSE CountAt(chars, g[t \ {Max(t)}], places[Max(t)])]
  BY <1>10, <1>11
<1>13. CountCalls(text) = g[DOMAIN places].n
  BY <1>1, <1>4, <1>8, <1>11 DEF CountCalls, FoldLeftDomain, FoldLeft, MapThenFoldSet, Zero
<1>14. ASSUME NEW k \in 1..m PROVE g[1..k] = CountAt(chars, g[1..k - 1], k)
  <2>1. /\ 1..k \in SUBSET DOMAIN places /\ 1..k # {} /\ Max(1..k) = k
        /\ (1..k) \ {k} = 1..k - 1
    BY <1>5, FirstPlaces
  <2> HIDE DEF Max
  <2>2. g[1..k] = CountAt(chars, g[(1..k) \ {Max(1..k)}], places[Max(1..k)])
    BY <1>12, <2>1
  <2>3. places[k] = k
    BY <1>5
  <2> QED BY <2>1, <2>2, <2>3
<1>15. g[1..0] = base
  <2>1. 1..0 = {}
    OBVIOUS
  <2> QED BY <1>12, <2>1
<1> DEFINE A == {i \in Nat : i <= m => g[1..i] \in Counts}
<1>16. 0 \in A
  BY <1>15
<1>17. ASSUME NEW i \in Nat, i \in A PROVE i + 1 \in A
  <2> SUFFICES ASSUME i + 1 <= m PROVE g[1..i + 1] \in Counts
    OBVIOUS
  <2>1. i + 1 \in 1..m /\ (i + 1) - 1 = i /\ i <= m
    OBVIOUS
  <2>2. g[1..i] \in Counts /\ g[1..i + 1] = CountAt(chars, g[1..(i + 1) - 1], i + 1)
    BY <1>14, <1>17, <2>1
  <2> QED BY <2>1, <2>2, CountAtType
<1> HIDE DEF A
<1>18. Nat \subseteq A
  BY <1>16, <1>17, Induct
<1>19. \A i \in 0..m : g[1..i] \in Counts
  <2>1. \A i \in 0..m : i \in Nat /\ i <= m
    OBVIOUS
  <2> QED BY <1>18, <2>1 DEF A
<1>20. PICK c : c = [i \in 0..m |-> g[1..i]]
  OBVIOUS
<1>21. \A i \in 0..m : c[i] = g[1..i]
  BY <1>20
<1>22. Counting(c, chars)
  <2>1. 0 \in 0..m /\ \A i \in 1..m : i \in 0..m /\ i - 1 \in 0..m
    OBVIOUS
  <2>2. \A i \in 1..m : c[i] = CountAt(chars, c[i - 1], i)
    BY <1>14, <1>21, <2>1
  <2>3. c[0] = Zero /\ \A i \in 0..m : c[i] \in Counts
    BY <1>8, <1>15, <1>19, <1>21, <2>1
  <2> QED BY <1>3, <2>2, <2>3 DEF Counting
<1>23. g[DOMAIN places] = c[m]
  <2>1. m \in 0..m
    OBVIOUS
  <2> QED BY <1>5, <1>21, <2>1
<1> QED BY <1>1, <1>3, <1>13, <1>22, <1>23 DEF Counted

CharsOf == [t \in Tokens |-> IF t.quoted THEN t.words \o <<"quote">> ELSE t.words]

LEMMA CharsOfType == CharsOf \in [Tokens -> Seq(Words)]
<1>1. ASSUME NEW t \in Tokens PROVE t.words \in Seq(Words) /\ t.words \o <<"quote">> \in Seq(Words)
  <2>1. "quote" \in Words /\ t.words \in Seq(Words)
    BY DEF Words, Tokens
  <2>2. PICK q \in Seq(Words) : q = <<"quote">>
    BY <2>1, OneSeq
  <2> QED BY <2>1, <2>2, ConcatProperties
<1> QED BY <1>1 DEF CharsOf

LEMMA CharactersIs ==
    ASSUME NEW text \in Seq(Tokens)
    PROVE  Characters(text) = FlatMap(CharsOf, text) /\ Characters(text) \in Seq(Words)
<1>1. DOMAIN text = 1..Len(text) /\ \A i \in 1..Len(text) : text[i] \in Tokens
  BY LenProperties, ElementOfSeq
<1>2. \A i \in DOMAIN text :
         CharsOf[text[i]] = IF text[i].quoted THEN text[i].words \o << "quote" >> ELSE text[i].words
  BY <1>1 DEF CharsOf
<1>3. [i \in DOMAIN text |-> CharsOf[text[i]]]
         = [i \in DOMAIN text |->
              IF text[i].quoted THEN text[i].words \o << "quote" >> ELSE text[i].words]
  BY <1>2
<1>4. Characters(text) = FlatMap(CharsOf, text)
  BY <1>3 DEF Characters, FlatMap
<1> QED BY <1>4, CharsOfType, FlatMapType

LEMMA CountsOn ==
    ASSUME NEW chars, NEW acc \in Counts, NEW i
    PROVE  /\ CountAt(chars, acc, i).n >= acc.n
           /\ acc.skip \/ chars[i] # "(" => ~CountAt(chars, acc, i).skip
           /\ ~acc.skip /\ chars[i] = "(" /\ i # Len(chars) /\ chars[i + 1] # ")" =>
                 CountAt(chars, acc, i).n = acc.n + 1
<1>1. acc.n \in Nat /\ acc.skip \in BOOLEAN
  BY DEF Counts
<1>2. CASE acc.skip
  <2>1. CountAt(chars, acc, i) = [acc EXCEPT !.skip = FALSE]
    BY <1>2 DEF CountAt
  <2>2. CountAt(chars, acc, i).n = acc.n /\ ~CountAt(chars, acc, i).skip
    BY <2>1 DEF Counts
  <2> QED BY <1>1, <1>2, <2>2
<1>3. CASE ~acc.skip /\ (chars[i] # "(" \/ i = Len(chars))
  <2>1. CountAt(chars, acc, i) = acc
    BY <1>3 DEF CountAt
  <2> QED BY <1>1, <1>3, <2>1
<1>4. CASE ~acc.skip /\ ~(chars[i] # "(" \/ i = Len(chars))
  <2>1. CountAt(chars, acc, i) = [n |-> IF chars[i + 1] = ")" THEN acc.n ELSE acc.n + 1, skip |-> TRUE]
    BY <1>4 DEF CountAt
  <2>2. CountAt(chars, acc, i).n = IF chars[i + 1] = ")" THEN acc.n ELSE acc.n + 1
    BY <2>1
  <2> QED BY <1>1, <1>4, <2>2
<1> QED BY <1>2, <1>3, <1>4

\* An opening parenthesis that is looked at counts if a name follows it, and the
\* closing one leaves the scan looking.
LEMMA CountsOne ==
    ASSUME NEW chars, NEW h, Counting(h, chars), NEW m \in Nat, NEW e \in Nat,
           Len(chars) \in Nat, m + 3 <= e, e <= Len(chars),
           ~h[m].skip, chars[m + 1] = "(", chars[m + 2] # ")", chars[e] = ")"
    PROVE  ~h[e].skip /\ h[e].n \in Nat /\ h[e].n >= h[m].n + 1
<1>1. \A i \in 0..Len(chars) : h[i] \in Counts /\ h[i].n \in Nat
  BY DEF Counting, Counts
<1>2. \A i \in 1..Len(chars) : h[i] = CountAt(chars, h[i - 1], i)
  BY DEF Counting
<1>3. /\ m \in 0..Len(chars) /\ m + 1 \in 1..Len(chars) /\ m + 1 \in 0..Len(chars)
      /\ (m + 1) - 1 = m /\ (m + 1) + 1 = m + 2 /\ m + 1 # Len(chars)
  OBVIOUS
<1>4. h[m + 1] = CountAt(chars, h[m], m + 1)
  BY <1>2, <1>3
<1>5. h[m + 1].n = h[m].n + 1
  <2>1. PICK acc \in Counts : acc = h[m]
    BY <1>1, <1>3
  <2>2. PICK i \in Nat : i = m + 1
    OBVIOUS
  <2>3. ~acc.skip /\ chars[i] = "(" /\ i # Len(chars) /\ chars[i + 1] # ")"
    BY <1>3, <2>1, <2>2
  <2>4. CountAt(chars, acc, i).n = acc.n + 1
    BY <2>3, CountsOn
  <2> QED BY <1>4, <2>1, <2>2, <2>4
<1> DEFINE A == {i \in Nat : (m + 1) + i <= Len(chars) => h[(m + 1) + i].n >= h[m].n + 1}
<1>6. 0 \in A
  <2>1. (m + 1) + 0 = m + 1
    OBVIOUS
  <2> QED BY <1>1, <1>3, <1>5, <2>1
<1>7. ASSUME NEW i \in Nat, i \in A PROVE i + 1 \in A
  <2> SUFFICES ASSUME (m + 1) + (i + 1) <= Len(chars)
               PROVE  h[(m + 1) + (i + 1)].n >= h[m].n + 1
    OBVIOUS
  <2>1. PICK j \in Nat : j = (m + 1) + i
    OBVIOUS
  <2>2. /\ (m + 1) + (i + 1) = j + 1 /\ j + 1 \in 1..Len(chars) /\ j + 1 \in 0..Len(chars)
        /\ j \in 0..Len(chars) /\ (j + 1) - 1 = j /\ j <= Len(chars)
    BY <2>1
  <2>3. h[j + 1] = CountAt(chars, h[(j + 1) - 1], j + 1)
    BY <1>2, <2>2
  <2>4. CountAt(chars, h[j], j + 1).n >= h[j].n
    BY <1>1, <2>2, CountsOn
  <2>5. h[j].n >= h[m].n + 1
    BY <1>7, <2>1, <2>2
  <2>6. h[j].n \in Nat /\ h[j + 1].n \in Nat /\ h[m].n \in Nat
    BY <1>1, <1>3, <2>2
  <2>7. h[j + 1].n >= h[j].n
    BY <2>2, <2>3, <2>4
  <2>8. h[j + 1].n >= h[m].n + 1
    BY <2>5, <2>6, <2>7
  <2> QED BY <2>2, <2>8
<1> HIDE DEF A
<1>8. PICK i \in Nat : (m + 1) + i = e
  <2>1. e - (m + 1) \in Nat /\ (m + 1) + (e - (m + 1)) = e
    OBVIOUS
  <2> QED BY <2>1
<1>9. i \in A
  BY <1>6, <1>7, Induct
<1>10. h[e].n >= h[m].n + 1
  BY <1>8, <1>9 DEF A
<1>11. e \in 1..Len(chars) /\ e \in 0..Len(chars) /\ e - 1 \in 0..Len(chars)
  OBVIOUS
<1>12. h[e] = CountAt(chars, h[e - 1], e)
  BY <1>2, <1>11
<1>13. ~h[e].skip
  <2>1. chars[e] # "("
    OBVIOUS
  <2> QED BY <1>1, <1>11, <1>12, <2>1, CountsOn
<1> QED BY <1>1, <1>10, <1>11, <1>13

LEMMA CharactersOfParts ==
    ASSUME NEW r \in Seq(Tokens), NEW t \in Seq(Tokens), NEW both, Together(both, r, t)
    PROVE  Together(FlatMap(CharsOf, both), FlatMap(CharsOf, r), FlatMap(CharsOf, t))
BY CharsOfType, FlatMapBoth

LEMMA CallCharacters ==
    ASSUME NEW c \in PlainCalls, NEW p, p = FlatMap(CharsOf, TextOfCall(c))
    PROVE  /\ p \in Seq(Words) /\ Len(p) \in Nat /\ 3 <= Len(p)
           /\ p[1] = "(" /\ p[2] = c.name /\ p[Len(p)] = ")"
<1>1. c.name \in STRING /\ c.args \in Seq(PlainArgs)
  BY DEF PlainCalls
<1>2. PICK o, n, z \in Tokens : o = Open /\ n = Word(c.name) /\ z = Close
  BY <1>1, TokenTypes
<1>3. CharsOf[o] = <<"(">> /\ CharsOf[n] = <<c.name>> /\ CharsOf[z] = <<")">>
  BY <1>2 DEF CharsOf, Open, Close, Word
<1>4. PICK r, t, l \in Seq(Tokens) : r = <<o, n>> /\ t = FlatMap(ArgText, c.args) /\ l = <<z>>
  BY <1>2, CallTextIs
<1>5. TextOfCall(c) = (r \o t) \o l
  BY <1>2, <1>4, CallTextIs
<1>6. PICK u, v, x \in Seq(Words) :
         u = FlatMap(CharsOf, r) /\ v = FlatMap(CharsOf, t) /\ x = FlatMap(CharsOf, l)
  BY CharsOfType, FlatMapType
<1>7. x = <<")">>
  BY <1>3, <1>4, <1>6, CharsOfType, FlatMapOne
<1>8. u = <<"(", c.name>>
  <2>1. PICK s \in Seq(Tokens) : s = <<o>>
    BY OneSeq
  <2>2. r = Append(s, n)
    BY <1>4, <2>1, TwoSeq
  <2>3. FlatMap(CharsOf, Append(s, n)) = FlatMap(CharsOf, s) \o CharsOf[n]
    BY CharsOfType, FlatMapAppend
  <2>4. FlatMap(CharsOf, s) = CharsOf[o]
    BY <2>1, CharsOfType, FlatMapOne
  <2>5. PICK a, b \in Seq(Words) : a = <<"(">> /\ b = <<c.name>>
    BY <1>3, CharsOfType
  <2>6. a \o b = Append(a, c.name) /\ c.name \in Words /\ "(" \in Words
    <3>1. c.name \in Words /\ "(" \in Words
      BY <1>1 DEF Words
    <3> QED BY <2>5, <3>1, AppendIsConcat
  <2>7. <<"(", c.name>> = Append(<<"(">>, c.name)
    BY <2>6, TwoSeq
  <2> QED BY <1>3, <1>6, <2>2, <2>3, <2>4, <2>5, <2>6, <2>7
<1>9. p = (u \o v) \o x
  <2>1. PICK y \in Seq(Tokens) : y = r \o t
    BY ConcatProperties
  <2>2. Together(y, r, t) /\ Together(TextOfCall(c), y, l)
    BY <1>5, <2>1 DEF Together
  <2>3. Together(FlatMap(CharsOf, y), FlatMap(CharsOf, r), FlatMap(CharsOf, t))
    BY <2>2, CharactersOfParts
  <2>4. Together(FlatMap(CharsOf, TextOfCall(c)), FlatMap(CharsOf, y), FlatMap(CharsOf, l))
    BY <2>2, CharactersOfParts
  <2> QED BY <1>6, <2>3, <2>4 DEF Together
<1>10. Len(u) = 2 /\ u[1] = "(" /\ u[2] = c.name /\ Len(x) = 1 /\ x[1] = ")"
  BY <1>7, <1>8
<1>11. PICK y \in Seq(Words) : y = u \o v
  BY ConcatProperties
<1>12. /\ Len(y) = Len(u) + Len(v) /\ Len(v) \in Nat
       /\ \A i \in 1..Len(u) : y[i] = u[i]
  BY <1>11, ConcatProperties, LenProperties
<1>13. p \in Seq(Words) /\ Len(p) = Len(y) + Len(x) /\ Len(y) \in Nat /\ Len(p) \in Nat
  BY <1>9, <1>11, ConcatProperties, LenProperties
<1>14. \A i \in 1..Len(y) : p[i] = y[i]
  BY <1>9, <1>11, ConcatProperties
<1>15. \A i \in 1..Len(x) : p[Len(y) + i] = x[i]
  BY <1>9, <1>11, ConcatProperties
<1>16. 1 \in 1..Len(u) /\ 2 \in 1..Len(u) /\ 1 \in 1..Len(y) /\ 2 \in 1..Len(y) /\ 1 \in 1..Len(x)
       /\ Len(p) = Len(y) + 1 /\ 3 <= Len(p)
  BY <1>10, <1>12, <1>13
<1> QED BY <1>10, <1>12, <1>13, <1>14, <1>15, <1>16

\* Of the text of the calls cs, whatever follows it.
LEMMA CountsAll ==
    ASSUME NEW calls \in Seq(PlainCalls), NEW w \in Seq(Words), NEW chars, NEW h,
           Together(chars, FlatMap(CharsOf, FlatMap(CallText, calls)), w), Counting(h, chars)
    PROVE  h[Len(FlatMap(CharsOf, FlatMap(CallText, calls)))].n >= Len(calls)
<1> DEFINE C(cs) == FlatMap(CharsOf, FlatMap(CallText, cs))
           Good(g, cs) == ~g[Len(C(cs))].skip /\ g[Len(C(cs))].n >= Len(cs)
           A == {cs \in Seq(PlainCalls) : \A v \in Seq(Words), d \in Seq(Words) :
                    Together(d, C(cs), v) => \A g : Counting(g, d) => Good(g, cs)}
<1>1. <<>> \in A
  <2>1. C(<<>>) = <<>> /\ <<>> \in Seq(PlainCalls)
    BY FlatMapEmpty, EmptySeq
  <2>2. ASSUME NEW g, NEW d, Counting(g, d) PROVE ~g[0].skip /\ g[0].n = 0
    BY <2>2 DEF Counting, Zero
  <2>3. Len(C(<<>>)) = 0 /\ Len(<<>>) = 0
    BY <2>1
  <2> HIDE DEF C
  <2>4. ASSUME NEW g, NEW d, Counting(g, d) PROVE Good(g, <<>>)
    BY <2>2, <2>3, <2>4
  <2> HIDE DEF Good
  <2> QED BY <2>1, <2>4
<1>2. ASSUME NEW cs \in Seq(PlainCalls), NEW c \in PlainCalls, cs \in A PROVE Append(cs, c) \in A
  <2>1. PICK b \in Seq(Words) : b = C(cs)
    <3>1. FlatMap(CallText, cs) \in Seq(Tokens)
      BY CallTextType, FlatMapType
    <3> QED BY <3>1, CharsOfType, FlatMapType
  <2>2. PICK p \in Seq(Words) : p = FlatMap(CharsOf, TextOfCall(c))
    BY CallCharacters
  <2>3. Len(p) \in Nat /\ 3 <= Len(p) /\ p[1] = "(" /\ p[2] = c.name /\ p[Len(p)] = ")" /\ c.name # ")"
    BY <2>2, CallCharacters DEF PlainCalls
  <2>4. Append(cs, c) \in Seq(PlainCalls) /\ Len(Append(cs, c)) = Len(cs) + 1 /\ Len(cs) \in Nat
    BY AppendProperties, LenProperties
  <2>5. C(Append(cs, c)) = b \o p
    <3>1. PICK t \in Seq(Tokens) : t = FlatMap(CallText, cs)
      BY CallTextType, FlatMapType
    <3>2. PICK x \in Seq(Tokens) : x = TextOfCall(c)
      BY CallTextType DEF CallText
    <3>3. FlatMap(CallText, Append(cs, c)) = FlatMap(CallText, cs) \o CallText[c]
      BY CallTextType, FlatMapAppend
    <3>4. Together(FlatMap(CallText, Append(cs, c)), t, x)
      BY <3>1, <3>2, <3>3 DEF Together, CallText
    <3>5. Together(FlatMap(CharsOf, FlatMap(CallText, Append(cs, c))), FlatMap(CharsOf, t), FlatMap(CharsOf, x))
      BY <3>4, CharactersOfParts
    <3> QED BY <2>1, <2>2, <3>1, <3>2, <3>5 DEF Together
  <2> SUFFICES ASSUME NEW v \in Seq(Words), NEW d \in Seq(Words), Together(d, C(Append(cs, c)), v),
                      NEW g, Counting(g, d)
               PROVE  Good(g, Append(cs, c))
    <3> HIDE DEF C, Good
    <3> QED BY <2>4
  <2> HIDE DEF C
  <2>6. PICK bp \in Seq(Words) : bp = b \o p
    BY ConcatProperties
  <2>7. d = bp \o v
    BY <2>5, <2>6 DEF Together
  <2>8. PICK pv \in Seq(Words) : pv = p \o v
    BY ConcatProperties
  <2>9. Together(bp, b, p) /\ Together(pv, p, v) /\ Together(d, bp, v)
    BY <2>6, <2>7, <2>8 DEF Together
  <2>10. Together(d, C(cs), pv)
    BY <2>1, <2>9, JoinedTwice
  <2>11. Good(g, cs)
    <3> HIDE DEF Good
    <3> QED BY <1>2, <2>10
  <2>12. PICK m \in Nat : m = Len(b)
    BY LenProperties
  <2>13. /\ Len(bp) = m + Len(p) /\ Len(v) \in Nat /\ Len(d) = Len(bp) + Len(v)
         /\ Len(bp) \in Nat /\ Len(d) \in Nat
    BY <2>6, <2>7, <2>12, ConcatProperties, LenProperties
  <2>14. \A i \in 1..Len(p) : d[m + i] = p[i]
    <3> SUFFICES ASSUME NEW i \in 1..Len(p) PROVE d[m + i] = p[i]
      OBVIOUS
    <3>1. m + i \in 1..Len(bp) /\ ~(m + i <= m) /\ (m + i) - m = i
      BY <2>3, <2>13
    <3>2. d[m + i] = bp[m + i]
      BY <2>7, <2>13, <3>1, ConcatProperties
    <3>3. bp[m + i] = p[(m + i) - m]
      BY <2>6, <2>12, <2>13, <3>1, ConcatProperties
    <3> QED BY <3>1, <3>2, <3>3
  <2>15. PICK e \in Nat : e = m + Len(p)
    BY <2>3
  <2>16. d[m + 1] = "(" /\ d[m + 2] # ")" /\ d[e] = ")"
    <3>1. 1 \in 1..Len(p) /\ 2 \in 1..Len(p) /\ Len(p) \in 1..Len(p)
      BY <2>3
    <3> QED BY <2>3, <2>14, <2>15, <3>1
  <2>17. m + 3 <= e /\ e <= Len(d)
    BY <2>3, <2>13, <2>15
  <2>18. ~g[m].skip /\ g[m].n >= Len(cs)
    BY <2>1, <2>11, <2>12
  <2>19. g[m].n \in Nat
    <3>1. m \in 0..Len(d)
      BY <2>13, <2>15, <2>17
    <3> QED BY <3>1 DEF Counting, Counts
  <2>20. ~g[e].skip /\ g[e].n \in Nat /\ g[e].n >= g[m].n + 1
    BY <2>13, <2>16, <2>17, <2>18, CountsOne
  <2>21. g[e].n >= Len(cs) + 1
    BY <2>4, <2>18, <2>19, <2>20
  <2>22. Len(C(Append(cs, c))) = e
    BY <2>5, <2>6, <2>13, <2>15
  <2> QED BY <2>4, <2>20, <2>21, <2>22
<1> HIDE DEF A
<1>3. calls \in A
  BY <1>1, <1>2, SeqInduct
<1>4. C(calls) \in Seq(Words)
  <2>1. FlatMap(CallText, calls) \in Seq(Tokens)
    BY CallTextType, FlatMapType
  <2> QED BY <2>1, CharsOfType, FlatMapType
<1>5. chars \in Seq(Words)
  BY <1>4, ConcatProperties DEF Together
<1> HIDE DEF C, Good
<1>6. Good(h, calls)
  BY <1>3, <1>5 DEF A, C
<1> QED BY <1>6 DEF Good, C

-----------------------------------------------------------------------------
(* Both parsers give the calls of a reply back, in their order. *)

LEMMA TextBegins ==
    ASSUME NEW calls \in Seq(PlainCalls), calls # <<>>
    PROVE  TextOf(calls) # <<>> /\ TextOf(calls)[1] = Open
<1> DEFINE T(cs) == FlatMap(CallText, cs)
           A == {cs \in Seq(PlainCalls) : cs # <<>> => 1 <= Len(T(cs)) /\ T(cs)[1] = Open}
<1>0. \A t, x \in Seq(Tokens) :
         /\ Len(t \o x) = Len(t) + Len(x) /\ t \o x \in Seq(Tokens)
         /\ Len(t) \in Nat /\ Len(x) \in Nat
         /\ \A i \in 1..Len(t) + Len(x) : (t \o x)[i] = IF i <= Len(t) THEN t[i] ELSE x[i - Len(t)]
  BY ConcatProperties, LenProperties
<1>1. <<>> \in A
  BY EmptySeq
<1>2. ASSUME NEW cs \in Seq(PlainCalls), NEW c \in PlainCalls, cs \in A PROVE Append(cs, c) \in A
  <2>1. PICK t \in Seq(Tokens) : t = T(cs)
    BY CallTextType, FlatMapType
  <2>2. PICK x \in Seq(Tokens) : x = TextOfCall(c)
    BY CallTextType DEF CallText
  <2>3. PICK u \in Seq(Tokens) : u = t \o x
    BY <1>0
  <2>4. T(Append(cs, c)) = u
    <3>1. FlatMap(CallText, Append(cs, c)) = FlatMap(CallText, cs) \o CallText[c]
      BY CallTextType, FlatMapAppend
    <3> QED BY <2>1, <2>2, <2>3, <3>1 DEF CallText
  <2>5. 1 <= Len(x) /\ x[1] = Open
    <3>1. PICK r, y, l \in Seq(Tokens) :
             r = <<Open, Word(c.name)>> /\ y = FlatMap(ArgText, c.args) /\ l = <<Close>>
      BY CallTextIs
    <3>2. PICK ry \in Seq(Tokens) : ry = r \o y
      BY <1>0
    <3>3. x = ry \o l
      BY <2>2, <3>1, <3>2, CallTextIs
    <3>4. Len(r) = 2 /\ r[1] = Open
      BY <3>1
    <3>5. Len(ry) = 2 + Len(y) /\ Len(y) \in Nat /\ 1 \in 1..Len(r) + Len(y) /\ 1 <= Len(r)
      <4>1. Len(ry) = Len(r) + Len(y) /\ Len(y) \in Nat
        BY <1>0, <3>2
      <4> QED BY <3>4, <4>1
    <3>6. ry[1] = Open
      BY <1>0, <3>2, <3>4, <3>5
    <3>7. Len(x) = Len(ry) + Len(l) /\ Len(l) \in Nat /\ 1 \in 1..Len(ry) + Len(l) /\ 1 <= Len(ry)
      <4>1. Len(x) = Len(ry) + Len(l) /\ Len(l) \in Nat
        BY <1>0, <3>3
      <4> QED BY <3>5, <4>1
    <3>8. x[1] = ry[1]
      BY <1>0, <3>3, <3>7
    <3> QED BY <3>5, <3>6, <3>7, <3>8
  <2>6. Len(u) = Len(t) + Len(x) /\ Len(t) \in Nat /\ Len(x) \in Nat /\ 1 \in 1..Len(t) + Len(x)
    BY <1>0, <2>3, <2>5
  <2>7. u[1] = IF 1 <= Len(t) THEN t[1] ELSE x[1 - Len(t)]
    BY <1>0, <2>3, <2>6
  <2>8. CASE 1 <= Len(t)
    <3>1. cs # <<>>
      <4>1. T(<<>>) = <<>>
        BY FlatMapEmpty
      <4> HIDE DEF T
      <4>2. ASSUME cs = <<>> PROVE FALSE
        <5>1. t = <<>>
          BY <2>1, <4>1, <4>2
        <5>2. Len(t) = 0
          BY <5>1
        <5> QED BY <2>8, <5>2
      <4> QED BY <4>2
    <3>2. u[1] = Open
      BY <1>2, <2>1, <2>7, <2>8, <3>1
    <3>3. 1 <= Len(u)
      BY <2>5, <2>6
    <3> QED BY <2>4, <3>2, <3>3, AppendProperties
  <2>9. CASE ~(1 <= Len(t))
    <3>1. Len(t) = 0 /\ 1 - Len(t) = 1
      BY <2>6, <2>9
    <3>2. u[1] = Open /\ 1 <= Len(u)
      BY <2>5, <2>6, <2>7, <2>9, <3>1
    <3> QED BY <2>4, <3>2, AppendProperties
  <2> QED BY <2>8, <2>9
<1> HIDE DEF A
<1>3. calls \in A
  BY <1>1, <1>2, SeqInduct
<1>4. PICK t, l \in Seq(Tokens) : t = T(calls) /\ l = <<Close>>
  BY CallTextType, FlatMapType, TokenTypes, OneSeq
<1>5. 1 <= Len(t) /\ t[1] = Open
  BY <1>3, <1>4 DEF A
<1>6. PICK u \in Seq(Tokens) : u = t \o l
  BY <1>0
<1>7. Len(u) = Len(t) + Len(l) /\ Len(t) \in Nat /\ Len(l) \in Nat /\ 1 \in 1..Len(t) + Len(l)
  BY <1>0, <1>5, <1>6
<1>8. u[1] = Open
  BY <1>0, <1>5, <1>6, <1>7
<1>9. u # <<>>
  <2>1. ASSUME u = <<>> PROVE FALSE
    <3>1. Len(u) = 0
      BY <2>1
    <3> QED BY <1>5, <1>7, <3>1
  <2> QED BY <2>1
<1>10. TextOf(calls) = u
  BY <1>4, <1>6, TextIs
<1> QED BY <1>8, <1>9, <1>10

\* r has the calls, and nothing behind them.
Agrees(calls, r) ==
    /\ Len(r) \in Nat /\ DOMAIN r = 1..Len(r) /\ Len(calls) <= Len(r)
    /\ \A i \in 1..Len(calls) : r[i] = calls[i]
    /\ \A i \in 1..Len(r) : i > Len(calls) => r[i] = Unnamed

LEMMA AgreesItself ==
    ASSUME NEW S, NEW calls \in Seq(S)
    PROVE  Agrees(calls, calls)
<1>1. Len(calls) \in Nat /\ DOMAIN calls = 1..Len(calls)
  BY LenProperties
<1> QED BY <1>1 DEF Agrees

LEMMA ParsesReply ==
    ASSUME NEW calls \in Seq(PlainCalls), NEW native \in BOOLEAN
    PROVE  Agrees(calls, parse_response_tool_calls(native, calls))
<1>1. CASE native /\ calls # <<>>
  BY <1>1, AgreesItself DEF parse_response_tool_calls, parse_tool_calls_from_json
<1>2. CASE ~native /\ calls # <<>>
  <2>1. PICK text : text = TextOf(calls)
    OBVIOUS
  <2>2. text # <<>> /\ text[1] = Open /\ FoldLeft(ScanToken, Outside, text).calls = calls
    BY <1>2, <2>1, TextBegins, ScansReply
  <2>3. PICK t, l \in Seq(Tokens) : t = FlatMap(CallText, calls) /\ l = <<Close>>
    BY CallTextType, FlatMapType, TokenTypes, OneSeq
  <2>4. text \in Seq(Tokens) /\ Together(text, t, l)
    <3>1. text = t \o l
      BY <2>1, <2>3, TextIs
    <3> QED BY <3>1, ConcatProperties DEF Together
  <2>5. PICK chars \in Seq(Words) : chars = Characters(text)
    BY <2>4, CharactersIs
  <2>6. PICK w \in Seq(Words) : w = FlatMap(CharsOf, l)
    BY CharsOfType, FlatMapType
  <2>7. Together(chars, FlatMap(CharsOf, FlatMap(CallText, calls)), w)
    <3>1. Together(FlatMap(CharsOf, text), FlatMap(CharsOf, t), FlatMap(CharsOf, l))
      BY <2>4, CharactersOfParts
    <3>2. chars = FlatMap(CharsOf, text)
      BY <2>4, <2>5, CharactersIs
    <3> QED BY <2>3, <2>6, <3>1, <3>2
  <2>8. PICK h : Counted(h, chars, CountCalls(text))
    BY <2>5, CountsCharacters
  <2>9. h[Len(FlatMap(CharsOf, FlatMap(CallText, calls)))].n >= Len(calls)
    BY <2>7, <2>8, CountsAll DEF Counted
  <2>10. PICK n \in Nat : n = CountCalls(text)
    <3>1. Len(chars) \in 0..Len(chars)
      BY LenProperties
    <3> QED BY <2>8, <3>1 DEF Counted, Counting, Counts
  <2>11. Len(calls) <= n
    <3>1. PICK c \in Seq(Words) : c = FlatMap(CharsOf, FlatMap(CallText, calls))
      BY <2>3, CharsOfType, FlatMapType
    <3>2. Len(w) = 1
      <4>1. PICK z \in Tokens : z = Close
        BY TokenTypes
      <4>2. w = CharsOf[z]
        BY <2>3, <2>6, <4>1, CharsOfType, FlatMapOne
      <4>3. CharsOf[z] = <<")">>
        BY <4>1 DEF CharsOf, Close, Word
      <4> QED BY <4>2, <4>3
    <3>3. Len(chars) = Len(c) + 1 /\ Len(c) \in Nat
      <4>1. chars = c \o w
        BY <2>7, <3>1 DEF Together
      <4>2. Len(chars) = Len(c) + Len(w) /\ Len(c) \in Nat
        BY <4>1, ConcatProperties, LenProperties
      <4> QED BY <3>2, <4>2
    <3>4. PICK m \in Nat : m = Len(c)
      BY <3>3
    <3>5. m + 1 \in 1..Len(chars) /\ m \in 0..Len(chars) /\ (m + 1) - 1 = m /\ Len(chars) = m + 1
      BY <3>3, <3>4
    <3>6. h[m + 1] = CountAt(chars, h[m], m + 1) /\ h[m] \in Counts
      <4>1. h[m + 1] = CountAt(chars, h[(m + 1) - 1], m + 1) /\ h[m] \in Counts
        BY <2>8, <3>5 DEF Counted, Counting
      <4> QED BY <3>5, <4>1
    <3>7. h[m + 1].n >= h[m].n
      BY <3>6, CountsOn
    <3>8. n = h[m + 1].n /\ h[m].n >= Len(calls) /\ h[m].n \in Nat /\ Len(calls) \in Nat
      BY <2>8, <2>9, <2>10, <3>1, <3>4, <3>5, <3>6, LenProperties DEF Counted, Counts
    <3> QED BY <3>7, <3>8
  <2> DEFINE r == [i \in 1..n |-> IF i <= Len(calls) THEN calls[i] ELSE Unnamed]
  <2>12. parse_response_tool_calls(native, calls) = r
    BY <1>2, <2>1, <2>2, <2>10 DEF parse_response_tool_calls, parse_tool_calls_from_sexp
  <2>13. DOMAIN r = 1..n /\ Len(r) = n
    <3>1. PICK q : q = r
      OBVIOUS
    <3>2. q \in [1..n -> PlainCalls \cup {Unnamed}] /\ DOMAIN q = 1..n
      <4>1. \A i \in 1..n : i <= Len(calls) => calls[i] \in PlainCalls
        <5>1. \A i \in 1..n : i <= Len(calls) => i \in 1..Len(calls)
          BY LenProperties
        <5> QED BY <5>1, ElementOfSeq
      <4> QED BY <3>1, <4>1
    <3> HIDE DEF r
    <3>3. q \in Seq(PlainCalls \cup {Unnamed})
      BY <3>2, SeqDef
    <3>4. Len(q) = n
      BY <3>2, <3>3, LenProperties
    <3> QED BY <3>1, <3>2, <3>4
  <2>14. Len(calls) \in Nat
    BY LenProperties
  <2>15. \A i \in 1..n : (i <= Len(calls) => r[i] = calls[i]) /\ (i > Len(calls) => r[i] = Unnamed)
    BY <2>14
  <2> HIDE DEF r
  <2>16. \A i \in 1..Len(calls) : i \in 1..n /\ i <= Len(calls)
    BY <2>11, <2>14
  <2> QED BY <2>11, <2>12, <2>13, <2>15, <2>16 DEF Agrees
<1>3. CASE calls = <<>>
  <2>1. calls = <<>> /\ FlatMap(CallText, <<>>) = <<>>
    BY <1>3, FlatMapEmpty
  <2>2. PICK l \in Seq(Tokens) : l = <<Close>>
    BY TokenTypes, OneSeq
  <2>3. TextOf(calls) = l
    <3>1. TextOf(calls) = FlatMap(CallText, calls) \o l
      BY <2>2, TextIs
    <3>2. <<>> \o l = l
      BY ConcatEmptySeq
    <3> QED BY <2>1, <3>1, <3>2
  <2>4. l[1] # Open
    BY <2>2 DEF Open, Close, Word
  <2>5. parse_response_tool_calls(native, calls) = calls
    BY <1>3, <2>3, <2>4 DEF parse_response_tool_calls, parse_tool_calls_from_sexp
  <2> QED BY <2>5, AgreesItself
<1> QED BY <1>1, <1>2, <1>3

LEMMA RepliesArePlain ==
    ASSUME NEW calls \in Replies \cup {<<>>}
    PROVE  /\ calls \in Seq(PlainCalls)
           /\ \A i \in 1..Len(calls) : calls[i].args \in Seq(Arguments)
<1> DEFINE Calls == [name : STRING, args : Seq(Arguments)]
<1>1. calls \in Seq(Calls)
  BY RepliesAssumption, EmptySeq
<1> HIDE DEF Calls
<1>2. DOMAIN calls = 1..Len(calls) /\ \A i \in 1..Len(calls) : calls[i] \in Calls
  BY <1>1, LenProperties, ElementOfSeq
<1>3. \A i \in 1..Len(calls) : WellFormed(calls[i])
  <2>1. CASE calls \in Replies
    BY <1>2, <2>1, RepliesAssumption
  <2>2. CASE calls = <<>>
    <3>1. 1..Len(calls) = {}
      <4>1. Len(calls) = 0
        BY <2>2
      <4> QED BY <4>1
    <3> QED BY <3>1
  <2> QED BY <2>1, <2>2
<1>4. \A i \in 1..Len(calls) : calls[i].args \in Seq(Arguments) /\ calls[i].name \in STRING
                               /\ calls[i] = Call(calls[i].name, calls[i].args)
  BY <1>2 DEF Calls, Call
<1>5. ASSUME NEW i \in 1..Len(calls) PROVE calls[i] \in PlainCalls
  <2>1. PICK c, args : c = calls[i] /\ args = c.args
    OBVIOUS
  <2>2. WellFormed(c) /\ args \in Seq(Arguments) /\ c.name \in STRING /\ c \in Calls
    BY <1>2, <1>3, <1>4, <2>1
  <2>3. DOMAIN args = 1..Len(args) /\ \A j \in 1..Len(args) : args[j] \in Arguments
    BY <2>2, LenProperties, ElementOfSeq
  <2>4. \A j \in 1..Len(args) : args[j] \in PlainArgs
    BY <2>1, <2>2, <2>3 DEF WellFormed, PlainArgs
  <2>5. args \in Seq(PlainArgs)
    BY <2>2, <2>4, SeqWith
  <2> QED BY <2>1, <2>2, <2>5 DEF PlainCalls, Calls, WellFormed
<1>6. calls \in Seq(PlainCalls)
  BY <1>1, <1>5, SeqWith
<1> QED BY <1>3, <1>4, <1>6

\* Of every reply the parsers take the calls that were written, in their order and with
\* their arguments; what a parenthesis inside a string adds behind them has no name
\* (parse_tool_calls_from_sexp and parse_tool_calls_from_json of context.c).
THEOREM CallsAreParsed ==
    \A calls \in Replies, native \in BOOLEAN :
        Agrees(calls, parse_response_tool_calls(native, calls))
BY RepliesArePlain, ParsesReply

-----------------------------------------------------------------------------
(* The entries of the memory as a set. *)

Keys == Seq(STRING) \ {<<>>}
Entries == [key : Keys, value : Keys]

LEMMA WithEntrySet ==
    ASSUME agEntries \in Seq(Entries), NEW key \in Keys, NEW value \in Keys
    PROVE  /\ WithEntry(key, value) \in Seq(Entries)
           /\ ToSet(WithEntry(key, value))
                 = {e \in ToSet(agEntries) : e.key # key} \cup {Arg(key, value)}
<1>1. PICK s \in Seq(Entries) : s = agEntries
  OBVIOUS
<1>2. PICK e \in Entries : e = Arg(key, value)
  BY DEF Arg, Entries
<1>3. e.key = key
  BY <1>2 DEF Arg
<1>4. DOMAIN s = 1..Len(s) /\ Len(s) \in Nat /\ \A i \in 1..Len(s) : s[i] \in Entries
  BY LenProperties, ElementOfSeq
<1>5. PICK I : I = IndexOf(key)
  OBVIOUS
<1>6. \A i \in DOMAIN s : i \in I <=> s[i].key = key
  BY <1>1, <1>5 DEF IndexOf
<1>7. I \subseteq DOMAIN s
  BY <1>1, <1>5 DEF IndexOf
<1>8. CASE I = {}
  <2>1. WithEntry(key, value) = Append(s, e)
    BY <1>1, <1>2, <1>5, <1>8 DEF WithEntry
  <2>2. Append(s, e) \in Seq(Entries) /\ ToSet(Append(s, e)) = ToSet(s) \cup {e}
    BY AppendProperties, ToSetAppend
  <2>3. {x \in ToSet(s) : x.key # key} = ToSet(s)
    BY <1>6, <1>8 DEF ToSet
  <2> QED BY <1>1, <1>2, <2>1, <2>2, <2>3
<1>9. CASE I # {}
  <2>1. PICK t : t = [i \in DOMAIN s |-> IF i \in I THEN e ELSE s[i]]
    OBVIOUS
  <2>2. WithEntry(key, value) = t
    BY <1>1, <1>2, <1>5, <1>9, <2>1 DEF WithEntry
  <2>3. t \in [1..Len(s) -> Entries] /\ DOMAIN t = DOMAIN s
    BY <1>4, <2>1
  <2>4. t \in Seq(Entries)
    BY <1>4, <2>3, SeqDef
  <2>5. ASSUME NEW y PROVE y \in ToSet(t) <=> y \in {x \in ToSet(s) : x.key # key} \cup {e}
    <3>1. ASSUME y \in ToSet(t) PROVE y \in {x \in ToSet(s) : x.key # key} \cup {e}
      <4>1. PICK i \in DOMAIN s : y = t[i]
        BY <2>3, <3>1 DEF ToSet
      <4> QED BY <1>6, <2>1, <4>1 DEF ToSet
    <3>2. ASSUME y \in ToSet(s), y.key # key PROVE y \in ToSet(t)
      <4>1. PICK i \in DOMAIN s : y = s[i]
        BY <3>2 DEF ToSet
      <4>2. t[i] = y
        BY <1>6, <2>1, <3>2, <4>1
      <4> QED BY <2>3, <4>1, <4>2 DEF ToSet
    <3>3. e \in ToSet(t)
      <4>1. PICK i \in I : TRUE
        BY <1>9
      <4>2. i \in DOMAIN t /\ t[i] = e
        BY <1>7, <2>1, <2>3, <4>1
      <4> QED BY <4>2 DEF ToSet
    <3> QED BY <3>1, <3>2, <3>3
  <2> QED BY <1>1, <1>2, <2>2, <2>4, <2>5
<1> QED BY <1>8, <1>9

LEMMA WithoutEntrySet ==
    ASSUME agEntries \in Seq(Entries), NEW key
    PROVE  /\ WithoutEntry(key) \in Seq(Entries)
           /\ ToSet(WithoutEntry(key)) = {e \in ToSet(agEntries) : e.key # key}
<1>1. PICK s \in Seq(Entries) : s = agEntries
  OBVIOUS
<1> DEFINE F == [e \in Entries |-> IF e.key = key THEN <<>> ELSE <<e>>]
           A == {t \in Seq(Entries) : ToSet(FlatMap(F, t)) = {e \in ToSet(t) : e.key # key}}
<1>2. F \in [Entries -> Seq(Entries)]
  <2>1. <<>> \in Seq(Entries) /\ \A e \in Entries : <<e>> \in Seq(Entries)
    BY EmptySeq, OneSeq
  <2> QED BY <2>1
<1>3. \A e \in Entries : F[e] = IF e.key = key THEN <<>> ELSE <<e>>
  OBVIOUS
<1> HIDE DEF F
<1>4. <<>> \in A
  <2>1. <<>> \in Seq(Entries) /\ FlatMap(F, <<>>) = <<>>
    BY EmptySeq, FlatMapEmpty
  <2> QED BY <2>1, ToSetNone
<1>5. ASSUME NEW t \in Seq(Entries), NEW e \in Entries, t \in A PROVE Append(t, e) \in A
  <2>1. PICK u \in Seq(Entries) : u = FlatMap(F, t)
    BY <1>2, FlatMapType
  <2>2. FlatMap(F, Append(t, e)) = u \o F[e]
    BY <1>2, <2>1, FlatMapAppend
  <2>3. ToSet(u) = {x \in ToSet(t) : x.key # key}
    BY <1>5, <2>1
  <2>4. Append(t, e) \in Seq(Entries) /\ ToSet(Append(t, e)) = ToSet(t) \cup {e}
    BY AppendProperties, ToSetAppend
  <2>5. CASE e.key = key
    <3>1. u \o F[e] = u
      BY <1>3, <2>5, ConcatEmptySeq
    <3> QED BY <2>2, <2>3, <2>4, <2>5, <3>1
  <2>6. CASE e.key # key
    <3>1. u \o F[e] = Append(u, e)
      BY <1>3, <2>6, AppendIsConcat
    <3>2. ToSet(Append(u, e)) = ToSet(u) \cup {e}
      BY ToSetAppend
    <3> QED BY <2>2, <2>3, <2>4, <2>6, <3>1, <3>2
  <2> QED BY <2>5, <2>6
<1> HIDE DEF A
<1>6. s \in A
  BY <1>4, <1>5, SeqInduct
<1>7. WithoutEntry(key) = FlatMap(F, s)
  <2>1. \A i \in DOMAIN s : F[s[i]] = IF s[i].key = key THEN <<>> ELSE <<s[i]>>
    <3>1. DOMAIN s = 1..Len(s) /\ \A i \in 1..Len(s) : s[i] \in Entries
      BY LenProperties, ElementOfSeq
    <3> QED BY <1>3, <3>1
  <2>2. [i \in DOMAIN s |-> F[s[i]]]
           = [i \in DOMAIN s |-> IF s[i].key = key THEN <<>> ELSE <<s[i]>>]
    BY <2>1
  <2> QED BY <1>1, <2>2 DEF WithoutEntry, FlatMap
<1>8. FlatMap(F, s) \in Seq(Entries)
  BY <1>2, FlatMapType
<1> QED BY <1>1, <1>6, <1>7, <1>8 DEF A

-----------------------------------------------------------------------------
(* What the tools make of the memory. *)

\* The file is what the memory was when it was last saved well.
FileFollows ==
    /\ agEntries \in Seq(Entries)
    /\ agFile = Truncated \/ agFile \in Seq(Entries)
    /\ ~agFaulty /\ ~agSaving => agFile = agEntries
    /\ agSaving \in BOOLEAN /\ agFaulty \in BOOLEAN /\ agFaults \in 0..MaxFaults

MemoryBecomes(entries) == FileFollows' /\ ToSet(agEntries') = entries

LEMMA TruncatedIs == Truncated \notin Seq(Entries)
<1>1. PICK t : t = Truncated
  OBVIOUS
<1>2. Len(t) = 1 /\ t[1].value = <<>>
  BY <1>1 DEF Truncated, Arg
<1>3. ASSUME t \in Seq(Entries) PROVE FALSE
  <2>1. 1 \in 1..Len(t)
    BY <1>2
  <2>2. t[1] \in Entries
    BY <1>3, <2>1, ElementOfSeq
  <2> QED BY <1>2, <2>2 DEF Entries, Keys
<1> QED BY <1>1, <1>3

LEMMA SavesEntries ==
    ASSUME FileFollows, ~agSaving, agEntries' \in Seq(Entries), memory_save
    PROVE  MemoryBecomes(ToSet(agEntries'))
<1>1. CASE SaveFails
  <2>1. agFaults' \in 0..MaxFaults
    BY <1>1, RepliesAssumption DEF SaveFails, FileFollows
  <2>2. Truncated' = Truncated
    BY DEF Truncated, Arg
  <2> QED BY <1>1, <2>1, <2>2 DEF SaveFails, FileFollows, MemoryBecomes
<1>2. CASE OpenFile
  <2>1. Truncated' = Truncated
    BY DEF Truncated, Arg
  <2> QED BY <1>2, <2>1 DEF OpenFile, FileFollows, MemoryBecomes
<1> QED BY <1>1, <1>2 DEF memory_save

LEMMA SetsEntry ==
    ASSUME FileFollows, ~agSaving, NEW key \in Keys, NEW value \in Keys, memory_set(key, value)
    PROVE  MemoryBecomes({e \in ToSet(agEntries) : e.key # key} \cup {Arg(key, value)})
<1>1. agEntries' = WithEntry(key, value) /\ memory_save
  BY DEF memory_set
<1>2. agEntries \in Seq(Entries)
  BY DEF FileFollows
<1>3. /\ agEntries' \in Seq(Entries)
      /\ ToSet(agEntries') = {e \in ToSet(agEntries) : e.key # key} \cup {Arg(key, value)}
  BY <1>1, <1>2, WithEntrySet
<1>4. MemoryBecomes(ToSet(agEntries'))
  BY <1>1, <1>3, SavesEntries
<1> QED BY <1>3, <1>4

LEMMA KeepsMemory ==
    ASSUME FileFollows, NoMemoryChange
    PROVE  MemoryBecomes(ToSet(agEntries))
<1>1. Truncated' = Truncated
  BY DEF Truncated, Arg
<1> QED BY <1>1 DEF NoMemoryChange, FileFollows, MemoryBecomes

LEMMA DeletesEntry ==
    ASSUME FileFollows, ~agSaving, NEW key, memory_delete(key)
    PROVE  MemoryBecomes({e \in ToSet(agEntries) : e.key # key})
<1>1. CASE IndexOf(key) = {}
  <2>1. NoMemoryChange
    BY <1>1 DEF memory_delete, NoMemoryChange
  <2>2. {e \in ToSet(agEntries) : e.key # key} = ToSet(agEntries)
    BY <1>1 DEF IndexOf, ToSet
  <2> QED BY <2>1, <2>2, KeepsMemory
<1>2. CASE IndexOf(key) # {}
  <2>1. agEntries' = WithoutEntry(key) /\ memory_save
    BY <1>2 DEF memory_delete
  <2>2. agEntries \in Seq(Entries)
    BY DEF FileFollows
  <2>3. agEntries' \in Seq(Entries) /\ ToSet(agEntries') = {e \in ToSet(agEntries) : e.key # key}
    BY <2>1, <2>2, WithoutEntrySet
  <2>4. MemoryBecomes(ToSet(agEntries'))
    BY <2>1, <2>3, SavesEntries
  <2> QED BY <2>3, <2>4
<1> QED BY <1>1, <1>2

\* Only two of the tools change the memory.
LEMMA OtherTools ==
    ASSUME NEW name, NEW args, NEW result, name # "memory-save", name # "memory-delete",
           execute(name, args, result)
    PROVE  NoMemoryChange
<1>1. CASE name = "calculator"
  <2>1. tool_calculate(args, result)
    BY <1>1 DEF execute
  <2> QED BY <2>1 DEF tool_calculate, Needs
<1>2. CASE name = "time"
  <2>1. tool_get_time(args, result)
    BY <1>2 DEF execute
  <2> QED BY <2>1 DEF tool_get_time
<1>3. CASE name = "reverse-string"
  <2>1. tool_reverse_string(args, result)
    BY <1>3 DEF execute
  <2> QED BY <2>1 DEF tool_reverse_string
<1>4. CASE name = "read-file"
  <2>1. tool_read_file(args, result)
    BY <1>4 DEF execute
  <2> QED BY <2>1 DEF tool_read_file, Needs
<1>5. CASE name = "write-file"
  <2>1. tool_write_file(args, result)
    BY <1>5 DEF execute
  <2> QED BY <2>1 DEF tool_write_file, Needs
<1>6. CASE name = "web-search"
  <2>1. tool_search_web(args, result)
    BY <1>6 DEF execute
  <2> QED BY <2>1 DEF tool_search_web, Needs
<1>7. CASE name = "memory-load"
  <2>1. tool_read_memory(args, result)
    BY <1>7 DEF execute
  <2> QED BY <2>1 DEF tool_read_memory
<1>8. CASE name = "get-weather"
  <2>1. tool_get_weather(args, result)
    BY <1>8 DEF execute
  <2> QED BY <2>1 DEF tool_get_weather, Needs
<1>9. CASE name = "list-directory"
  <2>1. tool_list_directory(args, result)
    BY <1>9 DEF execute
  <2> QED BY <2>1 DEF tool_list_directory
<1>10. CASE name = "web-fetch"
  <2>1. tool_web_fetch(args, result)
    BY <1>10 DEF execute
  <2> QED BY <2>1 DEF tool_web_fetch, Needs
<1>11. CASE name = "shell"
  <2>1. tool_shell_execute(args, result)
    BY <1>11 DEF execute
  <2> QED BY <2>1 DEF tool_shell_execute, Needs
<1>12. CASE name = "grep"
  <2>1. tool_grep_execute(args, result)
    BY <1>12 DEF execute
  <2> QED BY <2>1 DEF tool_grep_execute, Needs
<1>13. CASE name = "sed"
  <2>1. tool_sed_execute(args, result)
    BY <1>13 DEF execute
  <2> QED BY <2>1 DEF tool_sed_execute, Needs
<1>14. CASE name = "skill-search"
  <2>1. tool_skill_search(args, result)
    BY <1>14 DEF execute
  <2> QED BY <2>1 DEF tool_skill_search
<1>15. CASE name = "skill-match"
  <2>1. tool_skill_match(args, result)
    BY <1>15 DEF execute
  <2> QED BY <2>1 DEF tool_skill_match
<1>16. CASE name = "skill-preview"
  <2>1. tool_skill_preview(args, result)
    BY <1>16 DEF execute
  <2> QED BY <2>1 DEF tool_skill_preview
<1>17. CASE name = "recall-history"
  <2>1. tool_recall_history(args, result)
    BY <1>17 DEF execute
  <2> QED BY <2>1 DEF tool_recall_history
<1>18. CASE name \notin {"calculator", "time", "reverse-string", "read-file", "write-file",
                         "web-search", "memory-load", "get-weather", "list-directory", "web-fetch",
                         "shell", "grep", "sed", "skill-search", "skill-match", "skill-preview",
                         "recall-history"}
  BY <1>18 DEF execute
<1> QED BY <1>1, <1>2, <1>3, <1>4, <1>5, <1>6, <1>7, <1>8, <1>9, <1>10, <1>11, <1>12, <1>13,
           <1>14, <1>15, <1>16, <1>17, <1>18

LEMMA ExecuteMemory ==
    ASSUME NEW args, NEW result
    PROVE  /\ execute("memory-save", args, result) => tool_save_memory(args, result)
           /\ execute("memory-delete", args, result) => tool_delete_memory(args, result)
BY DEF execute

LEMMA ArgumentType ==
    ASSUME NEW args \in Seq(Arguments), NEW key
    PROVE  tool_args_get(args, key) \in Seq(STRING)
<1>1. DOMAIN args \subseteq Nat /\ \A i \in DOMAIN args : args[i].value \in Seq(STRING)
  <2>1. DOMAIN args = 1..Len(args) /\ \A i \in 1..Len(args) : args[i] \in Arguments
    BY LenProperties, ElementOfSeq
  <2> QED BY <2>1 DEF Arguments
<1>2. PICK at : at = {i \in DOMAIN args : args[i].key = key}
  OBVIOUS
<1>3. CASE at = {}
  BY <1>2, <1>3, EmptySeq DEF tool_args_get
<1>4. CASE at # {}
  <2>1. at \in SUBSET Nat
    BY <1>1, <1>2
  <2>2. \E i \in at : \A j \in at : i <= j
    BY <1>4, <2>1, Least
  <2>3. PICK m : m = CHOOSE i \in at : \A j \in at : i <= j
    OBVIOUS
  <2>4. m \in at
    BY <2>2, <2>3
  <2>5. tool_args_get(args, key) = args[m].value
    BY <1>2, <1>4, <2>3 DEF tool_args_get
  <2> QED BY <1>1, <1>2, <2>4, <2>5
<1> QED BY <1>3, <1>4

\* Without keywords the first word is the key and the others the value.
LEMMA FirstWordAndRest ==
    ASSUME NEW arg \in Seq(STRING), Len(arg) > 1
    PROVE  <<Head(arg)>> \in Keys /\ Tail(arg) \in Keys
<1>1. Len(arg) \in Nat
  BY LenProperties
<1>2. arg # <<>>
  <2>1. ASSUME arg = <<>> PROVE FALSE
    <3>1. Len(arg) = 0
      BY <2>1
    <3> QED BY <3>1
  <2> QED BY <2>1
<1>3. PICK key, value : key = <<Head(arg)>> /\ value = Tail(arg)
  OBVIOUS
<1>4. Head(arg) \in STRING /\ value \in Seq(STRING) /\ Len(value) = Len(arg) - 1
  BY <1>2, <1>3, HeadTailProperties
<1>5. key \in Seq(STRING) /\ Len(key) = 1
  BY <1>3, <1>4, OneSeq
<1>6. Len(value) > 0
  <2>1. PICK n \in Nat : n = Len(arg)
    BY <1>1
  <2> QED BY <1>4, <2>1
<1>7. ASSUME NEW s, Len(s) > 0 PROVE s # <<>>
  <2>1. ASSUME s = <<>> PROVE FALSE
    <3>1. Len(s) = 0
      BY <2>1
    <3> QED BY <1>7, <3>1
  <2> QED BY <2>1
<1>8. key # <<>> /\ value # <<>>
  <2>1. Len(key) > 0
    BY <1>5
  <2> QED BY <1>6, <1>7, <2>1
<1> QED BY <1>3, <1>4, <1>5, <1>8 DEF Keys

\* No entry has an empty key.
LEMMA KeysNotEmpty ==
    ASSUME FileFollows
    PROVE  \A e \in ToSet(agEntries) : e.key # <<>>
<1>1. PICK s \in Seq(Entries) : s = agEntries
  BY DEF FileFollows
<1>2. DOMAIN s = 1..Len(s) /\ \A i \in 1..Len(s) : s[i] \in Entries
  BY LenProperties, ElementOfSeq
<1>3. \A e \in ToSet(s) : e \in Entries
  BY <1>2 DEF ToSet
<1> QED BY <1>1, <1>3 DEF Entries, Keys

\* A call does to the memory what it means, with its arguments or without them.
LEMMA ExecutesCall ==
    ASSUME FileFollows, ~agSaving, NEW result, NEW c,
           \A key : Value(c, key) \in Seq(STRING), execute(c.name, c.args, result)
    PROVE  MemoryBecomes(Meaning(ToSet(agEntries), c))
<1>1. PICK key, value, arg : key = Value(c, "key") /\ value = Value(c, "value")
                             /\ arg = Value(c, "arg")
  OBVIOUS
<1>2. key \in Seq(STRING) /\ value \in Seq(STRING) /\ arg \in Seq(STRING)
  BY <1>1
<1>3. PICK now : now = ToSet(agEntries)
  OBVIOUS
<1>4. CASE c.name = "memory-save" /\ key # <<>> /\ value # <<>>
  <2>1. key \in Keys /\ value \in Keys
    BY <1>2, <1>4 DEF Keys
  <2>2. tool_save_memory(c.args, result)
    BY <1>4, ExecuteMemory
  <2>3. memory_set(key, value)
    BY <1>1, <1>4, <2>2 DEF tool_save_memory, Value
  <2>4. Meaning(now, c) = Remembered(now, key, value)
    BY <1>1, <1>4 DEF Meaning
  <2>5. MemoryBecomes(Remembered(now, key, value))
    BY <1>3, <2>1, <2>3, SetsEntry DEF Remembered
  <2> QED BY <1>3, <2>4, <2>5
<1>5. CASE c.name = "memory-save" /\ ~(key # <<>> /\ value # <<>>) /\ Len(arg) > 1
  <2>1. PICK k, v : k = <<Head(arg)>> /\ v = Tail(arg)
    OBVIOUS
  <2>2. k \in Keys /\ v \in Keys
    BY <1>2, <1>5, <2>1, FirstWordAndRest
  <2>3. tool_save_memory(c.args, result)
    BY <1>5, ExecuteMemory
  <2>4. memory_set(k, v)
    BY <1>1, <1>5, <2>1, <2>3 DEF tool_save_memory, Value
  <2>5. Meaning(now, c) = Remembered(now, k, v)
    BY <1>1, <1>5, <2>1 DEF Meaning
  <2>6. MemoryBecomes(Remembered(now, k, v))
    BY <1>3, <2>2, <2>4, SetsEntry DEF Remembered
  <2> QED BY <1>3, <2>5, <2>6
<1>6. CASE c.name = "memory-save" /\ ~(key # <<>> /\ value # <<>>) /\ ~(Len(arg) > 1)
  <2>1. tool_save_memory(c.args, result)
    BY <1>6, ExecuteMemory
  <2>2. NoMemoryChange
    BY <1>1, <1>6, <2>1 DEF tool_save_memory, Value
  <2>3. Meaning(now, c) = now
    BY <1>1, <1>6 DEF Meaning
  <2> QED BY <1>3, <2>2, <2>3, KeepsMemory
<1>7. CASE c.name = "memory-delete"
  <2>1. PICK k : k = IF key # <<>> THEN key ELSE arg
    OBVIOUS
  <2>2. tool_delete_memory(c.args, result)
    BY <1>7, ExecuteMemory
  <2>3. Meaning(now, c) = Forgotten(now, k)
    BY <1>1, <1>7, <2>1 DEF Meaning
  <2>4. CASE k # <<>>
    <3>1. memory_delete(k)
      BY <1>1, <2>1, <2>2, <2>4 DEF tool_delete_memory, Got, FirstOf, Value
    <3>2. MemoryBecomes(Forgotten(now, k))
      BY <1>3, <3>1, DeletesEntry DEF Forgotten
    <3> QED BY <1>3, <2>3, <3>2
  <2>5. CASE k = <<>>
    <3>1. key = <<>> /\ arg = <<>>
      BY <2>1, <2>5
    <3>2. NoMemoryChange
      BY <1>1, <2>2, <3>1 DEF tool_delete_memory, Got, Value
    <3>3. Forgotten(now, k) = now
      BY <1>3, <2>5, KeysNotEmpty DEF Forgotten
    <3> QED BY <1>3, <2>3, <3>2, <3>3, KeepsMemory
  <2> QED BY <2>4, <2>5
<1>8. CASE c.name # "memory-save" /\ c.name # "memory-delete"
  <2>1. NoMemoryChange
    BY <1>8, OtherTools
  <2>2. Meaning(now, c) = now
    BY <1>8 DEF Meaning
  <2> QED BY <1>3, <2>1, <2>2, KeepsMemory
<1> QED BY <1>4, <1>5, <1>6, <1>7, <1>8

\* Over HTTP there is one argument, under "arg".
LEMMA RequestIsCall ==
    ASSUME NEW r, r.arg \in Seq(STRING)
    PROVE  /\ OverHttp(r).name = r.name
           /\ \A key : Value(OverHttp(r), key) \in Seq(STRING)
<1>1. PICK value : value = r.arg
  OBVIOUS
<1>2. PICK args : args = <<Arg("arg", value)>>
  OBVIOUS
<1>3. DOMAIN args = {1} /\ args[1].key = "arg" /\ args[1].value = value
  BY <1>2 DEF Arg
<1>4. ASSUME NEW key PROVE tool_args_get(args, key) \in Seq(STRING)
  <2>1. PICK at : at = {i \in DOMAIN args : args[i].key = key}
    OBVIOUS
  <2>2. CASE at = {}
    BY <2>1, <2>2, EmptySeq DEF tool_args_get
  <2>3. CASE at # {}
    <3>1. at = {1}
      BY <1>3, <2>1, <2>3
    <3>2. (CHOOSE i \in at : \A j \in at : i <= j) = 1
      BY <3>1
    <3>3. tool_args_get(args, key) = args[1].value
      BY <2>1, <3>1, <3>2 DEF tool_args_get
    <3> QED BY <1>1, <1>3, <3>3
  <2> QED BY <2>2, <2>3
<1> QED BY <1>1, <1>2, <1>4 DEF OverHttp, Call, Value

-----------------------------------------------------------------------------
(* The agent's loop. *)

ToolsInv ==
    /\ FileFollows
    /\ agMeant = ToSet(agEntries)
    /\ agWritten \in Replies \cup {<<>>}
    /\ Agrees(agWritten, agCalls)
    /\ agNext \in 0..(Len(agCalls) + 1)
    /\ agReplies \in 0..MaxReplies

LEMMA ToolsInvImplies == ToolsInv => RemembersWhatItWasTold
<1> SUFFICES ASSUME ToolsInv PROVE RemembersWhatItWasTold
  OBVIOUS
<1>1. ASSUME NEW i \in DOMAIN agCalls PROVE agCalls[i].args \in Seq(Arguments)
  <2>1. i \in 1..Len(agCalls) /\ Len(agCalls) \in Nat /\ Len(agWritten) \in Nat
    <3>1. agWritten \in Seq(PlainCalls)
      BY RepliesArePlain DEF ToolsInv
    <3> QED BY <3>1, LenProperties DEF ToolsInv, Agrees
  <2>2. CASE i \in 1..Len(agWritten)
    <3>1. agCalls[i] = agWritten[i]
      BY <2>2 DEF ToolsInv, Agrees
    <3>2. agWritten[i].args \in Seq(Arguments)
      BY <2>2, RepliesArePlain DEF ToolsInv
    <3> QED BY <3>1, <3>2
  <2>3. CASE i \notin 1..Len(agWritten)
    <3>1. i > Len(agWritten)
      BY <2>1, <2>3
    <3>2. agCalls[i] = Unnamed
      BY <2>1, <3>1 DEF ToolsInv, Agrees
    <3> QED BY <3>2, EmptySeq DEF Unnamed, Call
  <2> QED BY <2>2, <2>3
<1>2. AgentToolsTypeOK
  BY <1>1 DEF ToolsInv, FileFollows, AgentToolsTypeOK
<1> QED BY <1>2 DEF ToolsInv, FileFollows, RemembersWhatItWasTold

LEMMA NoneAgrees == Agrees(<<>>, <<>>)
<1>1. <<>> \in Seq(STRING)
  BY EmptySeq
<1> QED BY <1>1, AgreesItself

LEMMA ToolsInit == AgInit => ToolsInv
<1> SUFFICES ASSUME AgInit PROVE ToolsInv
  OBVIOUS
<1>1. agEntries = <<>> /\ agFile = <<>> /\ <<>> \in Seq(Entries) /\ ToSet(<<>>) = {}
  BY EmptySeq, ToSetNone DEF AgInit
<1>2. FileFollows
  <2>1. agFaults \in 0..MaxFaults
    BY RepliesAssumption DEF AgInit
  <2>2. ~agSaving /\ ~agFaulty /\ agSaving \in BOOLEAN /\ agFaulty \in BOOLEAN
    BY DEF AgInit
  <2>3. agEntries \in Seq(Entries) /\ agFile \in Seq(Entries) /\ agFile = agEntries
    BY <1>1
  <2> QED BY <2>1, <2>2, <2>3 DEF FileFollows
<1>3. Len(agCalls) = 0
  BY DEF AgInit
<1>4. agNext \in 0..(Len(agCalls) + 1) /\ agReplies \in 0..MaxReplies
  BY <1>3, RepliesAssumption DEF AgInit
<1> QED BY <1>1, <1>2, <1>4, NoneAgrees DEF AgInit, ToolsInv

\* Nothing else has been written than what is left to be carried out.
LEMMA ToolsKeep ==
    ASSUME ToolsInv, NEW meant, MemoryBecomes(meant), agMeant' = meant,
           UNCHANGED <<agWritten, agCalls>>, agNext' \in 0..(Len(agCalls) + 1),
           agReplies' \in 0..MaxReplies
    PROVE  ToolsInv'
<1>1. Agrees(agWritten, agCalls)'
  BY DEF ToolsInv, Agrees, Unnamed, Call
<1> QED BY <1>1 DEF ToolsInv, MemoryBecomes

LEMMA ModelRepliesStep == ToolsInv /\ ModelReplies => ToolsInv'
<1> SUFFICES ASSUME ToolsInv, ModelReplies PROVE ToolsInv'
  OBVIOUS
<1>1. PICK calls \in Replies, native \in BOOLEAN :
         agWritten' = calls /\ agCalls' = parse_response_tool_calls(native, calls)
  BY DEF ModelReplies
<1>2. Agrees(calls, agCalls')
  BY <1>1, RepliesArePlain, ParsesReply
<1>3. Agrees(agWritten, agCalls)'
  BY <1>1, <1>2 DEF Agrees, Unnamed, Call
<1>4. agNext' \in 0..(Len(agCalls') + 1)
  BY <1>2 DEF ModelReplies, Agrees
<1>5. agReplies' \in 0..MaxReplies
  BY RepliesAssumption DEF ModelReplies, ToolsInv
<1>6. NoMemoryChange /\ agMeant' = agMeant
  BY DEF ModelReplies, NoMemoryChange
<1>7. MemoryBecomes(agMeant)
  BY <1>6, KeepsMemory DEF ToolsInv
<1> QED BY <1>1, <1>3, <1>4, <1>5, <1>6, <1>7 DEF ToolsInv, MemoryBecomes

LEMMA ExecuteOverHttpStep == ToolsInv /\ ExecuteOverHttp => ToolsInv'
<1> SUFFICES ASSUME ToolsInv, ExecuteOverHttp PROVE ToolsInv'
  OBVIOUS
<1>1. agReplies' \in 0..MaxReplies
  <2>1. agReplies' = agReplies + 1 /\ agReplies < MaxReplies
    BY DEF ExecuteOverHttp
  <2>2. agReplies \in 0..MaxReplies
    BY DEF ToolsInv
  <2>3. MaxReplies \in Nat
    BY RepliesAssumption
  <2> QED BY <2>1, <2>2, <2>3
<1>2. UNCHANGED <<agWritten, agCalls>> /\ agNext' \in 0..(Len(agCalls) + 1)
  BY DEF ToolsInv, ExecuteOverHttp
<1>3. PICK r \in ToolRequests, result \in {"ok", "found", "error", "not found"} :
         execute(r.name, OverHttp(r).args, result)
         /\ agMeant' = Meaning(agMeant, OverHttp(r))
  BY DEF ExecuteOverHttp
<1>4. r.arg \in Seq(STRING)
  BY RepliesAssumption
<1>5. PICK c : c = OverHttp(r)
  OBVIOUS
<1>6. (\A key : Value(c, key) \in Seq(STRING)) /\ execute(c.name, c.args, result)
  BY <1>3, <1>4, <1>5, RequestIsCall
<1>7. MemoryBecomes(Meaning(ToSet(agEntries), c))
  BY <1>6, ExecutesCall DEF ToolsInv, ExecuteOverHttp
<1>8. agMeant' = Meaning(ToSet(agEntries), c)
  BY <1>3, <1>5 DEF ToolsInv
<1> QED BY <1>1, <1>2, <1>7, <1>8, ToolsKeep

LEMMA ExecuteCallStep == ToolsInv /\ ExecuteCall => ToolsInv'
<1> SUFFICES ASSUME ToolsInv, ExecuteCall PROVE ToolsInv'
  OBVIOUS
<1>1. PICK result : execute(agCalls[agNext].name, agCalls[agNext].args, result)
  BY DEF ExecuteCall
<1>2. PICK c : c = agCalls[agNext]
  OBVIOUS
<1>3. execute(c.name, c.args, result)
  BY <1>1, <1>2
<1>4. /\ agNext \in 1..Len(agCalls) /\ Len(agCalls) \in Nat /\ ~agSaving
      /\ agNext' = agNext + 1 /\ agReplies' = agReplies /\ UNCHANGED <<agWritten, agCalls>>
      /\ agMeant' = IF agNext \in DOMAIN agWritten THEN Meaning(agMeant, agWritten[agNext])
                    ELSE agMeant
  BY DEF ExecuteCall, ToolsInv, Agrees
<1>5. agNext' \in 0..(Len(agCalls) + 1) /\ agReplies' \in 0..MaxReplies
  BY <1>4 DEF ToolsInv
<1>6. DOMAIN agWritten = 1..Len(agWritten) /\ Len(agWritten) \in Nat
  <2>1. agWritten \in Seq(PlainCalls)
    BY RepliesArePlain DEF ToolsInv
  <2> QED BY <2>1, LenProperties
<1>7. CASE agNext \in 1..Len(agWritten)
  <2>1. c = agWritten[agNext]
    BY <1>2, <1>7 DEF ToolsInv, Agrees
  <2>2. \A key : Value(c, key) \in Seq(STRING)
    <3>1. c.args \in Seq(Arguments)
      BY <1>7, <2>1, RepliesArePlain DEF ToolsInv
    <3> QED BY <3>1, ArgumentType DEF Value
  <2>3. MemoryBecomes(Meaning(ToSet(agEntries), c))
    BY <1>3, <1>4, <2>2, ExecutesCall DEF ToolsInv
  <2>4. agMeant' = Meaning(ToSet(agEntries), c)
    BY <1>4, <1>6, <1>7, <2>1 DEF ToolsInv
  <2> QED BY <1>4, <1>5, <2>3, <2>4, ToolsKeep
<1>8. CASE agNext \notin 1..Len(agWritten)
  <2>1. c = Unnamed
    <3>1. agNext > Len(agWritten)
      BY <1>4, <1>6, <1>8
    <3> QED BY <1>2, <1>4, <3>1 DEF ToolsInv, Agrees
  <2>2. NoMemoryChange
    <3>1. c.name # "memory-save" /\ c.name # "memory-delete"
      BY <2>1 DEF Unnamed, Call
    <3> QED BY <1>3, <3>1, OtherTools
  <2>3. MemoryBecomes(ToSet(agEntries))
    BY <2>2, KeepsMemory DEF ToolsInv
  <2>4. agMeant' = ToSet(agEntries)
    BY <1>4, <1>6, <1>8 DEF ToolsInv
  <2> QED BY <1>4, <1>5, <2>3, <2>4, ToolsKeep
<1> QED BY <1>7, <1>8

LEMMA WriteFileStep == ToolsInv /\ WriteFile => ToolsInv'
<1> SUFFICES ASSUME ToolsInv, WriteFile PROVE ToolsInv'
  OBVIOUS
<1>1. MemoryBecomes(ToSet(agEntries))
  BY DEF WriteFile, ToolsInv, FileFollows, MemoryBecomes
<1>2. agMeant' = ToSet(agEntries) /\ UNCHANGED <<agWritten, agCalls>>
      /\ agNext' \in 0..(Len(agCalls) + 1) /\ agReplies' \in 0..MaxReplies
  BY DEF WriteFile, ToolsInv
<1> QED BY <1>1, <1>2, ToolsKeep

\* No call that was written is left when all that were parsed are carried out.
LEMMA NothingLeft ==
    ASSUME NEW meant
    PROVE  FoldLeft(Meaning, meant, <<>>) = meant
<1>1. PICK seq : seq = <<>>
  OBVIOUS
<1>2. DOMAIN seq = {}
  BY <1>1
<1>3. PICK h : h = [t \in SUBSET DOMAIN seq |-> meant]
  OBVIOUS
<1>4. h = [t \in SUBSET DOMAIN seq |->
             IF t = {} THEN meant ELSE Meaning(h[t \ {Max(t)}], seq[Max(t)])]
  <2>1. \A t \in SUBSET DOMAIN seq : t = {}
    BY <1>2
  <2> HIDE DEF Max
  <2> QED BY <1>3, <2>1
<1>5. PICK g : g = CHOOSE f : f = [t \in SUBSET DOMAIN seq |->
                 IF t = {} THEN meant ELSE Meaning(f[t \ {Max(t)}], seq[Max(t)])]
  OBVIOUS
<1>6. g = [t \in SUBSET DOMAIN seq |->
             IF t = {} THEN meant ELSE Meaning(g[t \ {Max(t)}], seq[Max(t)])]
  BY <1>4, <1>5
<1>7. FoldLeft(Meaning, meant, seq) = g[DOMAIN seq]
  BY <1>5 DEF FoldLeft, MapThenFoldSet
<1>8. g[{}] = meant
  BY <1>6
<1> QED BY <1>1, <1>2, <1>7, <1>8

LEMMA CallsDoneStep == ToolsInv /\ CallsDone => ToolsInv'
<1> SUFFICES ASSUME ToolsInv, CallsDone PROVE ToolsInv'
  OBVIOUS
<1>1. agMeant' = agMeant
  <2>1. Len(agWritten) \in Nat
    <3>1. agWritten \in Seq(PlainCalls)
      BY RepliesArePlain DEF ToolsInv
    <3> QED BY <3>1, LenProperties
  <2>2. Len(agWritten) < agNext /\ agNext \in Nat
    BY <2>1 DEF ToolsInv, Agrees, CallsDone
  <2>3. SubSeq(agWritten, agNext, Len(agWritten)) = <<>>
    BY <2>1, <2>2, SubSeqEmpty
  <2>4. agMeant' = FoldLeft(Meaning, agMeant, SubSeq(agWritten, agNext, Len(agWritten)))
    BY DEF CallsDone
  <2> QED BY <2>3, <2>4, NothingLeft
<1>2. MemoryBecomes(ToSet(agEntries))
  <2>1. NoMemoryChange
    BY DEF CallsDone, NoMemoryChange
  <2> QED BY <2>1, KeepsMemory DEF ToolsInv
<1>3. agWritten' = <<>> /\ agCalls' = <<>> /\ agNext' = 0 /\ agReplies' = agReplies
  BY DEF CallsDone
<1>4. Agrees(agWritten, agCalls)' /\ agNext' \in 0..(Len(agCalls') + 1)
  <2>1. PICK none : none = <<>>
    OBVIOUS
  <2>2. Agrees(none, none) /\ Len(none) = 0
    BY <2>1, NoneAgrees
  <2>3. agWritten' = none /\ agCalls' = none
    BY <1>3, <2>1
  <2> QED BY <1>3, <2>2, <2>3 DEF Agrees, Unnamed, Call
<1> QED BY <1>1, <1>2, <1>3, <1>4 DEF ToolsInv, MemoryBecomes

LEMMA RestartStep == ToolsInv /\ Restart => ToolsInv'
<1> SUFFICES ASSUME ToolsInv, Restart PROVE ToolsInv'
  OBVIOUS
<1>1. Truncated' = Truncated
  BY DEF Truncated, Arg
<1>2. FileFollows'
  <2>1. agFile' = agFile /\ agSaving' = FALSE /\ agFaulty' = (agFile = Truncated)
        /\ agEntries' = IF agFile = Truncated THEN <<>> ELSE agFile
    BY DEF Restart, memory_load
  <2>2. agFaults' \in 0..MaxFaults
    BY RepliesAssumption DEF Restart, ToolsInv, FileFollows
  <2>3. agEntries' \in Seq(Entries)
    BY <2>1, EmptySeq DEF ToolsInv, FileFollows
  <2>4. agFaulty' \in BOOLEAN /\ (~agFaulty' => agFile' = agEntries')
    BY <2>1
  <2>5. agFile' = Truncated \/ agFile' \in Seq(Entries)
    BY <2>1 DEF ToolsInv, FileFollows
  <2> QED BY <1>1, <2>1, <2>2, <2>3, <2>4, <2>5 DEF FileFollows
<1>3. agMeant' = ToSet(agEntries')
  <2>1. CASE agFaulty \/ agSaving
    BY <2>1 DEF Restart
  <2>2. CASE ~agFaulty /\ ~agSaving
    <3>1. agFile = agEntries /\ agFile # Truncated
      BY <2>2, TruncatedIs DEF ToolsInv, FileFollows
    <3>2. agEntries' = agEntries /\ agMeant' = agMeant
      BY <2>2, <3>1 DEF Restart, memory_load
    <3> QED BY <3>2 DEF ToolsInv
  <2> QED BY <2>1, <2>2
<1>4. agWritten' = <<>> /\ agCalls' = <<>> /\ agNext' = 0 /\ agReplies' = agReplies
  BY DEF Restart
<1>5. Agrees(agWritten, agCalls)' /\ agNext' \in 0..(Len(agCalls') + 1)
  <2>1. PICK none : none = <<>>
    OBVIOUS
  <2>2. Agrees(none, none) /\ Len(none) = 0
    BY <2>1, NoneAgrees
  <2>3. agWritten' = none /\ agCalls' = none
    BY <1>4, <2>1
  <2> QED BY <1>4, <2>2, <2>3 DEF Agrees, Unnamed, Call
<1> QED BY <1>2, <1>3, <1>4, <1>5 DEF ToolsInv

LEMMA ToolsStay == ToolsInv /\ UNCHANGED agVars => ToolsInv'
<1> SUFFICES ASSUME ToolsInv, UNCHANGED agVars PROVE ToolsInv'
  OBVIOUS
<1>1. NoMemoryChange
  BY DEF agVars, NoMemoryChange
<1>2. MemoryBecomes(ToSet(agEntries))
  BY <1>1, KeepsMemory DEF ToolsInv
<1>3. agMeant' = ToSet(agEntries) /\ UNCHANGED <<agWritten, agCalls>>
      /\ agNext' \in 0..(Len(agCalls) + 1) /\ agReplies' \in 0..MaxReplies
  BY DEF agVars, ToolsInv
<1> QED BY <1>2, <1>3, ToolsKeep

\* Between replies, the entries are what the calls written in the replies so far, and
\* the requests over HTTP, make of them, and memory.json holds them, through restarts,
\* unless a save failed or was cut short since the last good one (memory.c, tool.c,
\* context.c).
THEOREM MemoryFollows == AgSpec => []RemembersWhatItWasTold
<1>1. ToolsInv /\ [AgNext]_agVars => ToolsInv'
  BY ModelRepliesStep, ExecuteOverHttpStep, ExecuteCallStep, WriteFileStep, CallsDoneStep,
     RestartStep, ToolsStay DEF AgNext
<1>2. ToolsInv => RemembersWhatItWasTold
  BY ToolsInvImplies
<1> QED BY <1>1, <1>2, ToolsInit, PTL DEF AgSpec

=============================================================================
