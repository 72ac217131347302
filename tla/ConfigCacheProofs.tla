-------------------------- MODULE ConfigCacheProofs --------------------------
(***************************************************************************)
(* Proofs about ConfigCache, for any number of pipelines and parameter     *)
(* lists, any contents and any interleaving of router and processing       *)
(* thread: the tables keep their types, and no module is ever run that the *)
(* ground did not put at that place of that pipeline.  And as long as the  *)
(* router does not configure while the processing thread uses the tables,  *)
(* a batch is processed by the modules and parameters that are stored, and *)
(* a module that was missing fails one batch and no more.  Contents are    *)
(* not restricted: a definition that is longer than its entry makes the    *)
(* behaviour undefined, and the tables are not followed until a restart.   *)
(***************************************************************************)
EXTENDS ConfigCache, TLAPS

(* The parts of the inductive invariant.                                   *)

Defs == Seq(Module) \cup Seq(STRING)

\* A module that some content of parameter p has at place n.
WasConfigured(p, n, name) ==
  \E v \in ever[p] \cap DOMAIN Definitions :
    n <= Len(Definitions[v]) /\ Definitions[v][n].name = name

SetupRecord == [step : Steps, param : Params, def : Defs, idx : Nat]

\* What SetupTypes says of one thread.
GoodRecord(r) ==
  /\ r \in SetupRecord
  /\ r.def = <<>> \/ \E v \in DOMAIN Contents(r.param) : r.def = Contents(r.param)[v]
  /\ r.idx \in 0 .. Len(r.def) + 1
  /\ r.step = "param_id" => r.idx \in DOMAIN r.def
  /\ r.step \notin {"none", "read", "param_id"} => r.idx >= 1
  /\ r.step \in {"function", "param_id"} => IsPipeline(r.param) /\ Len(r.def) <= ArraySize
  /\ r.step \in {"alloc", "parameter"} => ~IsPipeline(r.param)

\* What was unpacked for a pipeline is something the ground wrote.
WrittenRecord(r) ==
  IsPipeline(r.param) /\ r.def # <<>> =>
    \E v \in ever[r.param] \cap DOMAIN Definitions : r.def = Definitions[v]

SetupInv ==
  /\ setup \in [Actors -> SetupRecord]
  /\ \A a \in Actors : GoodRecord(setup[a]) /\ WrittenRecord(setup[a])

ErrTypes ==
  /\ err_current_pipeline \in 0 .. NumPipelines /\ err_current_module \in 0 .. ArraySize
  /\ log_status \in Nat

LoopTypes ==
  /\ pc \in {"idle", "rebuild", "ready", "loop", "wait", "done", "undefined"}
  /\ next \in 1 .. NumPipelines + NumLists + 1 /\ batch \in Pipelines
  /\ i \in 0 .. ArraySize /\ (pc = "wait" => i < ArraySize)
  /\ is_setup \in BOOLEAN

\* The history of the parameters, and what the setup functions unpacked, are
\* contents that the ground wrote.
EverInv ==
  /\ ever \in [Params -> SUBSET ({Empty, Undecodable, Garbled} \cup DOMAIN Definitions \cup DOMAIN Configs)]
  /\ stored \in [Params -> {Empty, Undecodable, Garbled} \cup DOMAIN Definitions \cup DOMAIN Configs]
  /\ \A k \in Params : stored[k] \in ever[k]

TablesEver ==
  \A p \in Pipelines : \A n \in 1 .. ArraySize :
    pipelines[p].modules[n].function # NULL => WasConfigured(p, n, pipelines[p].modules[n].function)

\* What a child is forked with.
Forked ==
  [function : Names \cup {NULL}, param_id : Int, config : UNION {[1 .. n -> STRING] : n \in Nat}]

\* One module is forked for each turn of the loop of execute_pipeline.
RanEver ==
  /\ ran \in Seq(Forked)
  /\ pc = "loop" => Len(ran) = i
  /\ pc = "wait" => Len(ran) = i + 1
  /\ ModulesWereConfigured

IInv ==
  /\ TableTypes /\ SetupInv /\ ErrTypes /\ LoopTypes
  /\ EverInv /\ TablesEver /\ RanEver
-----------------------------------------------------------------------------
(* Facts about contents and sequences.                                     *)

\* Appending keeps the elements and adds one at the end.
LEMMA AppendProperties ==
  ASSUME NEW S, NEW s \in Seq(S), NEW e \in S
  PROVE  /\ Append(s, e) \in Seq(S)
         /\ DOMAIN Append(s, e) = 1 .. Len(s) + 1
         /\ \A j \in DOMAIN Append(s, e) : Append(s, e)[j] = IF j = Len(s) + 1 THEN e ELSE s[j]
OBVIOUS

\* What is unpacked has a length.
LEMMA DefinitionsFit ==
  \A v \in DOMAIN Definitions :
    /\ Definitions[v] \in Seq(Module) /\ Len(Definitions[v]) \in Nat
    /\ Definitions[v] \in Defs
BY CacheAssumption DEF CacheAssumption, Defs

LEMMA ConfigsFit == \A v \in DOMAIN Configs : Configs[v] \in Seq(STRING) /\ Configs[v] \in Defs
BY CacheAssumption DEF CacheAssumption, Defs

LEMMA ContentsFit ==
  ASSUME NEW k \in Params, NEW v \in DOMAIN Contents(k)
  PROVE  Contents(k)[v] \in Defs /\ Len(Contents(k)[v]) \in Nat
BY DefinitionsFit, ConfigsFit DEF Contents

LEMMA EmptyFits == <<>> \in Defs /\ Len(<<>>) = 0
BY DEF Defs

LEMMA NoSetupGood == GoodRecord(NoSetup) /\ WrittenRecord(NoSetup)
<1>1. 1 \in Params
  BY CacheAssumption DEF CacheAssumption, Params
<1> QED
  BY <1>1, EmptyFits DEF GoodRecord, WrittenRecord, NoSetup, SetupRecord, Steps

LEMMA BeginSetupGood ==
  ASSUME NEW k \in Params
  PROVE  GoodRecord(BeginSetup(k)) /\ WrittenRecord(BeginSetup(k))
BY EmptyFits DEF GoodRecord, WrittenRecord, BeginSetup, SetupRecord, Steps

\* The definition fits into the entry of the pipeline: it was found to, or is short enough.
Fits(r) == r.step \in {"function", "param_id"} \/ Len(r.def) <= ArraySize

\* What a thread that sets up a pipeline has unpacked, if it fits the entry: each of its
\* modules was configured and has a place.
LEMMA PipelineBeingSetUp ==
  ASSUME IInv, NEW a \in Actors, IsPipeline(setup[a].param), Fits(setup[a])
  PROVE  /\ setup[a].param \in Pipelines
         /\ setup[a].def \in Seq(Module) /\ Len(setup[a].def) \in 0 .. ArraySize
         /\ \A n \in 1 .. Len(setup[a].def) :
              /\ n \in 1 .. ArraySize /\ setup[a].def[n] \in Module
              /\ WasConfigured(setup[a].param, n, setup[a].def[n].name)
<1>1. GoodRecord(setup[a]) /\ WrittenRecord(setup[a])
  BY DEF IInv, SetupInv
<1>f. Len(setup[a].def) <= ArraySize
  BY <1>1 DEF GoodRecord, Fits
<1>2. CASE setup[a].def = <<>>
  <2>1. <<>> \in Seq(Module) /\ Len(<<>>) = 0
    OBVIOUS
  <2>2. 0 \in 0 .. ArraySize
    BY CacheAssumption DEF CacheAssumption
  <2> QED
    BY <1>2, <2>1, <2>2 DEF IsPipeline
<1>3. CASE setup[a].def # <<>>
  <2>1. PICK v \in ever[setup[a].param] \cap DOMAIN Definitions : setup[a].def = Definitions[v]
    BY <1>1, <1>3 DEF WrittenRecord
  <2>2. Definitions[v] \in Seq(Module) /\ Len(Definitions[v]) \in 0 .. ArraySize
    BY <1>f, <2>1, DefinitionsFit, CacheAssumption DEF CacheAssumption
  <2>3. \A n \in 1 .. Len(Definitions[v]) : n \in 1 .. ArraySize /\ Definitions[v][n] \in Module
    BY <2>2, CacheAssumption DEF CacheAssumption
  <2>4. \A n \in 1 .. Len(Definitions[v]) : WasConfigured(setup[a].param, n, setup[a].def[n].name)
    BY <2>1, <2>2 DEF WasConfigured
  <2> QED
    BY <2>1, <2>2, <2>3, <2>4 DEF IsPipeline
<1> QED
  BY <1>2, <1>3

\* What a thread that sets up a list has unpacked is a list of values.
LEMMA ListBeingSetUp ==
  ASSUME IInv, NEW a \in Actors, ~IsPipeline(setup[a].param)
  PROVE  /\ ListOf(setup[a].param) \in 1 .. NumLists
         /\ setup[a].def \in Seq(STRING) /\ Len(setup[a].def) \in Nat
<1>1. GoodRecord(setup[a])
  BY DEF IInv, SetupInv
<1>2. ListOf(setup[a].param) \in 1 .. NumLists
  BY <1>1, CacheAssumption
    DEF GoodRecord, SetupRecord, ListOf, IsPipeline, Params, Pipelines, CacheAssumption
<1>3. setup[a].def \in Seq(STRING)
  <2>1. CASE setup[a].def = <<>>
    BY <2>1
  <2>2. CASE setup[a].def # <<>>
    <3>1. PICK v \in DOMAIN Configs : setup[a].def = Configs[v]
      BY <1>1, <2>2 DEF GoodRecord, Contents
    <3> QED
      BY <3>1, ConfigsFit
  <2> QED
    BY <2>1, <2>2
<1> QED
  BY <1>2, <1>3

-----------------------------------------------------------------------------
(* Each part of the invariant is kept by every step.                       *)

\* Errors are published from numbers.
LEMMA ErrorPublished ==
  ASSUME ErrTypes, NEW code \in Nat, SetError(code)
  PROVE  log_status' \in Nat
BY CacheAssumption DEF ErrTypes, SetError, get_error_as_uint32, CacheAssumption

LEMMA LoopTypesKept == IInv /\ [Next]_vars => LoopTypes'
<1> SUFFICES ASSUME IInv, [Next]_vars PROVE LoopTypes'
  OBVIOUS
<1>e. LoopTypes /\ TableTypes
  BY DEF IInv
<1> USE <1>e
<1>1. ASSUME NEW a \in Actors, ReadParam(a) PROVE LoopTypes'
  BY <1>1 DEF ReadParam, diskVars, tableVars, threadVars, errVars, boundVars, historyVars, LoopTypes
<1>2. ASSUME NEW a \in Actors, ReadParamFails(a) PROVE LoopTypes'
  BY <1>2 DEF ReadParamFails, diskVars, tableVars, threadVars, errVars, boundVars, historyVars, LoopTypes
<1>3. ASSUME NEW a \in Actors, SkipParam(a) PROVE LoopTypes'
  BY <1>3 DEF SkipParam, diskVars, tableVars, threadVars, errVars, boundVars, historyVars, LoopTypes
<1>4. ASSUME NEW a \in Actors, PipelineHeader(a) PROVE LoopTypes'
  BY <1>4 DEF PipelineHeader, diskVars, tableVars, threadVars, errVars, boundVars, historyVars, LoopTypes
<1>5. ASSUME NEW a \in Actors, LoadModule(a) PROVE LoopTypes'
  BY <1>5
    DEF LoadModule, LoadModuleInto, diskVars, tableVars, threadVars, errVars, boundVars, historyVars,
         LoopTypes
<1>6. ASSUME NEW a \in Actors, SetParamId(a) PROVE LoopTypes'
  BY <1>6 DEF SetParamId, diskVars, tableVars, threadVars, errVars, boundVars, historyVars, LoopTypes
<1>7. ASSUME NEW a \in Actors, ListHeader(a) PROVE LoopTypes'
  BY <1>7 DEF ListHeader, diskVars, tableVars, threadVars, errVars, boundVars, historyVars, LoopTypes
<1>8. ASSUME NEW a \in Actors, AllocList(a) PROVE LoopTypes'
  BY <1>8 DEF AllocList, diskVars, tableVars, threadVars, errVars, boundVars, historyVars, LoopTypes
<1>9. ASSUME NEW a \in Actors, AllocFails(a) PROVE LoopTypes'
  BY <1>9 DEF AllocFails, diskVars, tableVars, threadVars, errVars, boundVars, historyVars, LoopTypes
<1>10. ASSUME NEW a \in Actors, SetParameter(a) PROVE LoopTypes'
  BY <1>10 DEF SetParameter, diskVars, tableVars, threadVars, errVars, boundVars, historyVars, LoopTypes
<1>11. ASSUME NEW a \in Actors, SetupDone(a) PROVE LoopTypes'
  BY <1>11 DEF SetupDone, diskVars, tableVars, threadVars, errVars, boundVars, historyVars, LoopTypes
<1>12. ASSUME NEW k \in Params, NEW v \in DOMAIN Contents(k) \cup {Undecodable, Garbled}, SetParam(k, v) PROVE LoopTypes'
  BY <1>12 DEF SetParam, diskVars, tableVars, threadVars, errVars, boundVars, historyVars, LoopTypes
<1>13. ASSUME NEW name \in Names, Install(name) PROVE LoopTypes'
  BY <1>13 DEF Install, diskVars, tableVars, threadVars, errVars, boundVars, historyVars, LoopTypes
<1>14. CASE Restart
  <2>1. 1 \in 1 .. NumPipelines + NumLists + 1 /\ 0 \in 0 .. ArraySize
    BY CacheAssumption DEF CacheAssumption
  <2> QED
    BY <1>14, <2>1 DEF Restart, Fresh, LoopTypes
<1>15. ASSUME NEW p \in Pipelines, Execute(p) PROVE LoopTypes'
  BY <1>15, CacheAssumption
    DEF Execute, LoopTypes, CacheAssumption, diskVars, tableVars, threadVars, errVars, boundVars,
         historyVars
<1>16. ASSUME NEW p \in Pipelines, Refuse(p) PROVE LoopTypes'
  BY <1>16, CacheAssumption
    DEF Refuse, LoopTypes, CacheAssumption, diskVars, tableVars, threadVars, errVars, boundVars,
         historyVars
<1>17. CASE CacheIsSetup
  BY <1>17 DEF CacheIsSetup, diskVars, tableVars, threadVars, errVars, boundVars, historyVars, LoopTypes
<1>18. CASE RebuildCache
  BY <1>18, CacheAssumption
    DEF RebuildCache, LoopTypes, CacheAssumption, Params, diskVars, tableVars, threadVars, errVars,
         boundVars, historyVars
<1>19. CASE RebuildParam
  BY <1>19, CacheAssumption
    DEF RebuildParam, LoopTypes, CacheAssumption, Params, diskVars, tableVars, threadVars, errVars,
         boundVars, historyVars
<1>20. CASE RebuildDone
  BY <1>20 DEF RebuildDone, diskVars, tableVars, threadVars, errVars, boundVars, historyVars, LoopTypes
<1>21. CASE Fork
  <2>1. pipelines[batch].num_modules \in 0 .. ArraySize
    BY <1>e DEF LoopTypes, TableTypes, PipelineRecord
  <2>2. i < ArraySize
    BY <1>21, <1>e, <2>1, CacheAssumption DEF Fork, LoopTypes, CacheAssumption
  <2> QED
    BY <1>21, <2>2 DEF Fork, LoopTypes
<1>22. CASE ModuleSucceeds
  BY <1>22, CacheAssumption DEF ModuleSucceeds, LoopTypes, CacheAssumption
<1>23. CASE ModuleFails
  BY <1>23 DEF ModuleFails, diskVars, tableVars, threadVars, errVars, boundVars, historyVars, LoopTypes
<1>24. CASE Finish
  BY <1>24 DEF Finish, diskVars, tableVars, threadVars, errVars, boundVars, historyVars, LoopTypes
<1>25. CASE Reset
  BY <1>25 DEF Reset, diskVars, tableVars, threadVars, errVars, boundVars, historyVars, LoopTypes
<1>26. CASE UNCHANGED vars
  BY <1>26 DEF vars, diskVars, tableVars, threadVars, errVars, boundVars, historyVars, LoopTypes
<1>27. ASSUME NEW a \in Actors, PipelineOverruns(a) PROVE LoopTypes'
  <2>1. 1 \in 1 .. NumPipelines + NumLists + 1 /\ 0 \in 0 .. ArraySize
    BY CacheAssumption DEF CacheAssumption
  <2> QED
    BY <1>27, <2>1 DEF PipelineOverruns, Fresh, LoopTypes
<1>28. ASSUME NEW k \in Params, NEW v \in DOMAIN Contents(k) \cup {Undecodable, Garbled}, StoreParam(k, v) PROVE LoopTypes'
  BY <1>28 DEF StoreParam, threadVars, LoopTypes
<1>29. CASE Undefined
  BY <1>29 DEF Undefined, threadVars, LoopTypes
<1> QED
  BY <1>1, <1>2, <1>3, <1>4, <1>5, <1>6, <1>7, <1>8, <1>9, <1>10, <1>11, <1>12, <1>13, <1>14, <1>15,
     <1>16, <1>17, <1>18, <1>19, <1>20, <1>21, <1>22, <1>23, <1>24, <1>25, <1>26, <1>27, <1>28,
     <1>29
    DEF Next, Setup, Thread

LEMMA ErrTypesKept == IInv /\ [Next]_vars => ErrTypes'
<1> SUFFICES ASSUME IInv, [Next]_vars PROVE ErrTypes'
  OBVIOUS
<1>e. ErrTypes /\ LoopTypes
  BY DEF IInv
<1>c. \A code \in Nat : SetError(code) => log_status' \in Nat
  BY <1>e, ErrorPublished
<1>f. /\ 0 \in 0 .. NumPipelines /\ 0 \in 0 .. ArraySize
      /\ \A p \in Pipelines : p \in 0 .. NumPipelines
  BY CacheAssumption DEF CacheAssumption, Pipelines
<1>1. ASSUME NEW a \in Actors, ReadParam(a) PROVE ErrTypes'
  BY <1>1, <1>e, <1>f
    DEF ReadParam, ErrTypes, diskVars, tableVars, threadVars, errVars, boundVars, historyVars
<1>2. ASSUME NEW a \in Actors, ReadParamFails(a) PROVE ErrTypes'
  BY <1>2, <1>c, <1>e
    DEF ReadParamFails, ErrTypes, diskVars, tableVars, threadVars, errVars, boundVars, historyVars,
         INTERNAL_BROTLI_DECODE, MEMORY_MALLOC
<1>3. ASSUME NEW a \in Actors, SkipParam(a) PROVE ErrTypes'
  BY <1>3, <1>e, <1>f
    DEF SkipParam, ErrTypes, diskVars, tableVars, threadVars, errVars, boundVars, historyVars
<1>4. ASSUME NEW a \in Actors, PipelineHeader(a) PROVE ErrTypes'
  BY <1>4, <1>e, <1>f
    DEF PipelineHeader, ErrTypes, diskVars, tableVars, threadVars, errVars, boundVars, historyVars
<1>5. ASSUME NEW a \in Actors, LoadModule(a) PROVE ErrTypes'
  BY <1>5, <1>c, <1>e
    DEF LoadModule, LoadModuleInto, ErrTypes, diskVars, tableVars, threadVars, errVars, boundVars,
         historyVars, INTERNAL_SO_NOT_FOUND
<1>6. ASSUME NEW a \in Actors, SetParamId(a) PROVE ErrTypes'
  BY <1>6, <1>e, <1>f
    DEF SetParamId, ErrTypes, diskVars, tableVars, threadVars, errVars, boundVars, historyVars
<1>7. ASSUME NEW a \in Actors, ListHeader(a) PROVE ErrTypes'
  BY <1>7, <1>e, <1>f
    DEF ListHeader, ErrTypes, diskVars, tableVars, threadVars, errVars, boundVars, historyVars
<1>8. ASSUME NEW a \in Actors, AllocList(a) PROVE ErrTypes'
  BY <1>8, <1>e, <1>f
    DEF AllocList, ErrTypes, diskVars, tableVars, threadVars, errVars, boundVars, historyVars
<1>9. ASSUME NEW a \in Actors, AllocFails(a) PROVE ErrTypes'
  BY <1>9, <1>c, <1>e
    DEF AllocFails, ErrTypes, diskVars, tableVars, threadVars, errVars, boundVars, historyVars,
         MEMORY_MALLOC
<1>10. ASSUME NEW a \in Actors, SetParameter(a) PROVE ErrTypes'
  BY <1>10, <1>e, <1>f
    DEF SetParameter, ErrTypes, diskVars, tableVars, threadVars, errVars, boundVars, historyVars
<1>11. ASSUME NEW a \in Actors, SetupDone(a) PROVE ErrTypes'
  BY <1>11, <1>e, <1>f
    DEF SetupDone, ErrTypes, diskVars, tableVars, threadVars, errVars, boundVars, historyVars
<1>12. ASSUME NEW k \in Params, NEW v \in DOMAIN Contents(k) \cup {Undecodable, Garbled}, SetParam(k, v) PROVE ErrTypes'
  BY <1>12, <1>e, <1>f
    DEF SetParam, ErrTypes, diskVars, tableVars, threadVars, errVars, boundVars, historyVars
<1>13. ASSUME NEW name \in Names, Install(name) PROVE ErrTypes'
  BY <1>13, <1>e, <1>f
    DEF Install, ErrTypes, diskVars, tableVars, threadVars, errVars, boundVars, historyVars
<1>14. CASE Restart
  BY <1>14, <1>e, <1>f
    DEF Restart, Fresh, ErrTypes, diskVars, tableVars, threadVars, errVars, boundVars, historyVars
<1>15. ASSUME NEW p \in Pipelines, Execute(p) PROVE ErrTypes'
  BY <1>15, <1>e, <1>f
    DEF Execute, ErrTypes, diskVars, tableVars, threadVars, errVars, boundVars, historyVars
<1>16. ASSUME NEW p \in Pipelines, Refuse(p) PROVE ErrTypes'
  BY <1>16, <1>c, <1>e
    DEF Refuse, ErrTypes, diskVars, tableVars, threadVars, errVars, boundVars, historyVars,
         INTERNAL_PID_NOT_FOUND
<1>17. CASE CacheIsSetup
  BY <1>17, <1>e, <1>f
    DEF CacheIsSetup, ErrTypes, diskVars, tableVars, threadVars, errVars, boundVars, historyVars
<1>18. CASE RebuildCache
  BY <1>18, <1>e, <1>f
    DEF RebuildCache, ErrTypes, diskVars, tableVars, threadVars, errVars, boundVars, historyVars
<1>19. CASE RebuildParam
  BY <1>19, <1>e, <1>f
    DEF RebuildParam, ErrTypes, diskVars, tableVars, threadVars, errVars, boundVars, historyVars
<1>20. CASE RebuildDone
  BY <1>20, <1>e, <1>f
    DEF RebuildDone, ErrTypes, diskVars, tableVars, threadVars, errVars, boundVars, historyVars
<1>21. CASE Fork
  <2>1. pc' = "wait" /\ i' = i /\ err_current_module' = i + 1
    BY <1>21 DEF Fork
  <2>2. i < ArraySize
    BY <2>1, LoopTypesKept DEF LoopTypes
  <2>3. err_current_module' \in 0 .. ArraySize
    BY <1>e, <2>1, <2>2, CacheAssumption DEF LoopTypes, CacheAssumption
  <2> QED
    BY <1>21, <1>e, <2>3 DEF Fork, ErrTypes
<1>22. CASE ModuleSucceeds
  BY <1>22, <1>e, <1>f
    DEF ModuleSucceeds, ErrTypes, diskVars, tableVars, threadVars, errVars, boundVars, historyVars
<1>23. CASE ModuleFails
  BY <1>23, <1>c, <1>e
    DEF ModuleFails, ErrTypes, diskVars, tableVars, threadVars, errVars, boundVars, historyVars,
         MODULE_EXIT_CRASH
<1>24. CASE Finish
  BY <1>24, <1>e, <1>f
    DEF Finish, ErrTypes, diskVars, tableVars, threadVars, errVars, boundVars, historyVars
<1>25. CASE Reset
  BY <1>25, <1>e, <1>f
    DEF Reset, ErrTypes, diskVars, tableVars, threadVars, errVars, boundVars, historyVars
<1>26. CASE UNCHANGED vars
  BY <1>26, <1>e, <1>f
    DEF vars, ErrTypes, diskVars, tableVars, threadVars, errVars, boundVars, historyVars
<1>27. ASSUME NEW a \in Actors, PipelineOverruns(a) PROVE ErrTypes'
  BY <1>27, <1>e, <1>f DEF PipelineOverruns, Fresh, ErrTypes
<1>28. ASSUME NEW k \in Params, NEW v \in DOMAIN Contents(k) \cup {Undecodable, Garbled}, StoreParam(k, v) PROVE ErrTypes'
  BY <1>28, <1>e DEF StoreParam, errVars, ErrTypes
<1>29. CASE Undefined
  BY <1>29, <1>c, <1>e DEF Undefined, ErrTypes, MODULE_EXIT_CRASH
<1> QED
  BY <1>1, <1>2, <1>3, <1>4, <1>5, <1>6, <1>7, <1>8, <1>9, <1>10, <1>11, <1>12, <1>13, <1>14, <1>15,
     <1>16, <1>17, <1>18, <1>19, <1>20, <1>21, <1>22, <1>23, <1>24, <1>25, <1>26, <1>27, <1>28,
     <1>29
    DEF Next, Setup, Thread

\* ever only grows, and holds what is stored.
LEMMA EverKept == IInv /\ [Next]_vars => EverInv'
<1> SUFFICES ASSUME IInv, [Next]_vars PROVE EverInv'
  OBVIOUS
<1>e. EverInv
  BY DEF IInv
<1>1. ASSUME NEW a \in Actors, ReadParam(a) PROVE EverInv'
  BY <1>1, <1>e DEF ReadParam, diskVars, tableVars, threadVars, errVars, boundVars, historyVars, EverInv
<1>2. ASSUME NEW a \in Actors, ReadParamFails(a) PROVE EverInv'
  BY <1>2, <1>e
    DEF ReadParamFails, diskVars, tableVars, threadVars, errVars, boundVars, historyVars, EverInv
<1>3. ASSUME NEW a \in Actors, SkipParam(a) PROVE EverInv'
  BY <1>3, <1>e DEF SkipParam, diskVars, tableVars, threadVars, errVars, boundVars, historyVars, EverInv
<1>4. ASSUME NEW a \in Actors, PipelineHeader(a) PROVE EverInv'
  BY <1>4, <1>e
    DEF PipelineHeader, diskVars, tableVars, threadVars, errVars, boundVars, historyVars, EverInv
<1>5. ASSUME NEW a \in Actors, LoadModule(a) PROVE EverInv'
  BY <1>5, <1>e
    DEF LoadModule, LoadModuleInto, diskVars, tableVars, threadVars, errVars, boundVars, historyVars,
         EverInv
<1>6. ASSUME NEW a \in Actors, SetParamId(a) PROVE EverInv'
  BY <1>6, <1>e DEF SetParamId, diskVars, tableVars, threadVars, errVars, boundVars, historyVars, EverInv
<1>7. ASSUME NEW a \in Actors, ListHeader(a) PROVE EverInv'
  BY <1>7, <1>e DEF ListHeader, diskVars, tableVars, threadVars, errVars, boundVars, historyVars, EverInv
<1>8. ASSUME NEW a \in Actors, AllocList(a) PROVE EverInv'
  BY <1>8, <1>e DEF AllocList, diskVars, tableVars, threadVars, errVars, boundVars, historyVars, EverInv
<1>9. ASSUME NEW a \in Actors, AllocFails(a) PROVE EverInv'
  BY <1>9, <1>e DEF AllocFails, diskVars, tableVars, threadVars, errVars, boundVars, historyVars, EverInv
<1>10. ASSUME NEW a \in Actors, SetParameter(a) PROVE EverInv'
  BY <1>10, <1>e
    DEF SetParameter, diskVars, tableVars, threadVars, errVars, boundVars, historyVars, EverInv
<1>11. ASSUME NEW a \in Actors, SetupDone(a) PROVE EverInv'
  BY <1>11, <1>e DEF SetupDone, diskVars, tableVars, threadVars, errVars, boundVars, historyVars, EverInv
<1>12. ASSUME NEW k \in Params, NEW v \in DOMAIN Contents(k) \cup {Undecodable, Garbled}, SetParam(k, v) PROVE EverInv'
  <2>1. v \in {Empty, Undecodable, Garbled} \cup DOMAIN Definitions \cup DOMAIN Configs
    BY <1>12 DEF Contents
  <2> QED
    BY <1>12, <1>e, <2>1 DEF SetParam, EverInv
<1>13. ASSUME NEW name \in Names, Install(name) PROVE EverInv'
  BY <1>13, <1>e DEF Install, diskVars, tableVars, threadVars, errVars, boundVars, historyVars, EverInv
<1>14. CASE Restart
  BY <1>14, <1>e DEF Restart, Fresh, diskVars, tableVars, threadVars, errVars, boundVars, historyVars, EverInv
<1>15. ASSUME NEW p \in Pipelines, Execute(p) PROVE EverInv'
  BY <1>15, <1>e DEF Execute, diskVars, tableVars, threadVars, errVars, boundVars, historyVars, EverInv
<1>16. ASSUME NEW p \in Pipelines, Refuse(p) PROVE EverInv'
  BY <1>16, <1>e DEF Refuse, diskVars, tableVars, threadVars, errVars, boundVars, historyVars, EverInv
<1>17. CASE CacheIsSetup
  BY <1>17, <1>e
    DEF CacheIsSetup, diskVars, tableVars, threadVars, errVars, boundVars, historyVars, EverInv
<1>18. CASE RebuildCache
  BY <1>18, <1>e
    DEF RebuildCache, diskVars, tableVars, threadVars, errVars, boundVars, historyVars, EverInv
<1>19. CASE RebuildParam
  BY <1>19, <1>e
    DEF RebuildParam, diskVars, tableVars, threadVars, errVars, boundVars, historyVars, EverInv
<1>20. CASE RebuildDone
  BY <1>20, <1>e
    DEF RebuildDone, diskVars, tableVars, threadVars, errVars, boundVars, historyVars, EverInv
<1>21. CASE Fork
  BY <1>21, <1>e DEF Fork, diskVars, tableVars, threadVars, errVars, boundVars, historyVars, EverInv
<1>22. CASE ModuleSucceeds
  BY <1>22, <1>e
    DEF ModuleSucceeds, diskVars, tableVars, threadVars, errVars, boundVars, historyVars, EverInv
<1>23. CASE ModuleFails
  BY <1>23, <1>e
    DEF ModuleFails, diskVars, tableVars, threadVars, errVars, boundVars, historyVars, EverInv
<1>24. CASE Finish
  BY <1>24, <1>e DEF Finish, diskVars, tableVars, threadVars, errVars, boundVars, historyVars, EverInv
<1>25. CASE Reset
  BY <1>25, <1>e DEF Reset, diskVars, tableVars, threadVars, errVars, boundVars, historyVars, EverInv
<1>26. CASE UNCHANGED vars
  BY <1>26, <1>e DEF vars, diskVars, tableVars, threadVars, errVars, boundVars, historyVars, EverInv
<1>27. ASSUME NEW a \in Actors, PipelineOverruns(a) PROVE EverInv'
  BY <1>27, <1>e DEF PipelineOverruns, diskVars, EverInv
<1>28. ASSUME NEW k \in Params, NEW v \in DOMAIN Contents(k) \cup {Undecodable, Garbled}, StoreParam(k, v) PROVE EverInv'
  <2>1. v \in {Empty, Undecodable, Garbled} \cup DOMAIN Definitions \cup DOMAIN Configs
    BY <1>28 DEF Contents
  <2> QED
    BY <1>28, <1>e, <2>1 DEF StoreParam, EverInv
<1>29. CASE Undefined
  BY <1>29, <1>e DEF Undefined, diskVars, historyVars, EverInv
<1> QED
  BY <1>1, <1>2, <1>3, <1>4, <1>5, <1>6, <1>7, <1>8, <1>9, <1>10, <1>11, <1>12, <1>13, <1>14, <1>15,
     <1>16, <1>17, <1>18, <1>19, <1>20, <1>21, <1>22, <1>23, <1>24, <1>25, <1>26, <1>27, <1>28,
     <1>29
    DEF Next, Setup, Thread

\* What was written once has been written for ever.
LEMMA EverGrows ==
  IInv /\ [Next]_vars => \A q \in Params : ever[q] \subseteq ever'[q]
<1> SUFFICES ASSUME IInv, [Next]_vars PROVE \A q \in Params : ever[q] \subseteq ever'[q]
  OBVIOUS
<1>e. EverInv
  BY DEF IInv
<1>1. ASSUME NEW a \in Actors, ReadParam(a) PROVE \A q \in Params : ever[q] \subseteq ever'[q]
  BY <1>1 DEF ReadParam, diskVars, tableVars, threadVars, errVars, boundVars, historyVars
<1>2. ASSUME NEW a \in Actors, ReadParamFails(a) PROVE \A q \in Params : ever[q] \subseteq ever'[q]
  BY <1>2 DEF ReadParamFails, diskVars, tableVars, threadVars, errVars, boundVars, historyVars
<1>3. ASSUME NEW a \in Actors, SkipParam(a) PROVE \A q \in Params : ever[q] \subseteq ever'[q]
  BY <1>3 DEF SkipParam, diskVars, tableVars, threadVars, errVars, boundVars, historyVars
<1>4. ASSUME NEW a \in Actors, PipelineHeader(a) PROVE \A q \in Params : ever[q] \subseteq ever'[q]
  BY <1>4 DEF PipelineHeader, diskVars, tableVars, threadVars, errVars, boundVars, historyVars
<1>5. ASSUME NEW a \in Actors, LoadModule(a) PROVE \A q \in Params : ever[q] \subseteq ever'[q]
  BY <1>5
    DEF LoadModule, LoadModuleInto, diskVars, tableVars, threadVars, errVars, boundVars, historyVars
<1>6. ASSUME NEW a \in Actors, SetParamId(a) PROVE \A q \in Params : ever[q] \subseteq ever'[q]
  BY <1>6 DEF SetParamId, diskVars, tableVars, threadVars, errVars, boundVars, historyVars
<1>7. ASSUME NEW a \in Actors, ListHeader(a) PROVE \A q \in Params : ever[q] \subseteq ever'[q]
  BY <1>7 DEF ListHeader, diskVars, tableVars, threadVars, errVars, boundVars, historyVars
<1>8. ASSUME NEW a \in Actors, AllocList(a) PROVE \A q \in Params : ever[q] \subseteq ever'[q]
  BY <1>8 DEF AllocList, diskVars, tableVars, threadVars, errVars, boundVars, historyVars
<1>9. ASSUME NEW a \in Actors, AllocFails(a) PROVE \A q \in Params : ever[q] \subseteq ever'[q]
  BY <1>9 DEF AllocFails, diskVars, tableVars, threadVars, errVars, boundVars, historyVars
<1>10. ASSUME NEW a \in Actors, SetParameter(a) PROVE \A q \in Params : ever[q] \subseteq ever'[q]
  BY <1>10 DEF SetParameter, diskVars, tableVars, threadVars, errVars, boundVars, historyVars
<1>11. ASSUME NEW a \in Actors, SetupDone(a) PROVE \A q \in Params : ever[q] \subseteq ever'[q]
  BY <1>11 DEF SetupDone, diskVars, tableVars, threadVars, errVars, boundVars, historyVars
<1>12. ASSUME NEW k \in Params, NEW v \in DOMAIN Contents(k) \cup {Undecodable, Garbled}, SetParam(k, v) PROVE \A q \in Params : ever[q] \subseteq ever'[q]
  BY <1>12, <1>e DEF SetParam, EverInv
<1>13. ASSUME NEW name \in Names, Install(name) PROVE \A q \in Params : ever[q] \subseteq ever'[q]
  BY <1>13 DEF Install, diskVars, tableVars, threadVars, errVars, boundVars, historyVars
<1>14. CASE Restart
  BY <1>14 DEF Restart, Fresh, diskVars, tableVars, threadVars, errVars, boundVars, historyVars
<1>15. ASSUME NEW p \in Pipelines, Execute(p) PROVE \A q \in Params : ever[q] \subseteq ever'[q]
  BY <1>15 DEF Execute, diskVars, tableVars, threadVars, errVars, boundVars, historyVars
<1>16. ASSUME NEW p \in Pipelines, Refuse(p) PROVE \A q \in Params : ever[q] \subseteq ever'[q]
  BY <1>16 DEF Refuse, diskVars, tableVars, threadVars, errVars, boundVars, historyVars
<1>17. CASE CacheIsSetup
  BY <1>17 DEF CacheIsSetup, diskVars, tableVars, threadVars, errVars, boundVars, historyVars
<1>18. CASE RebuildCache
  BY <1>18 DEF RebuildCache, diskVars, tableVars, threadVars, errVars, boundVars, historyVars
<1>19. CASE RebuildParam
  BY <1>19 DEF RebuildParam, diskVars, tableVars, threadVars, errVars, boundVars, historyVars
<1>20. CASE RebuildDone
  BY <1>20 DEF RebuildDone, diskVars, tableVars, threadVars, errVars, boundVars, historyVars
<1>21. CASE Fork
  BY <1>21 DEF Fork, diskVars, tableVars, threadVars, errVars, boundVars, historyVars
<1>22. CASE ModuleSucceeds
  BY <1>22 DEF ModuleSucceeds, diskVars, tableVars, threadVars, errVars, boundVars, historyVars
<1>23. CASE ModuleFails
  BY <1>23 DEF ModuleFails, diskVars, tableVars, threadVars, errVars, boundVars, historyVars
<1>24. CASE Finish
  BY <1>24 DEF Finish, diskVars, tableVars, threadVars, errVars, boundVars, historyVars
<1>25. CASE Reset
  BY <1>25 DEF Reset, diskVars, tableVars, threadVars, errVars, boundVars, historyVars
<1>26. CASE UNCHANGED vars
  BY <1>26 DEF vars, diskVars, tableVars, threadVars, errVars, boundVars, historyVars
<1>27. ASSUME NEW a \in Actors, PipelineOverruns(a) PROVE \A q \in Params : ever[q] \subseteq ever'[q]
  BY <1>27 DEF PipelineOverruns
<1>28. ASSUME NEW k \in Params, NEW v \in DOMAIN Contents(k) \cup {Undecodable, Garbled}, StoreParam(k, v) PROVE \A q \in Params : ever[q] \subseteq ever'[q]
  BY <1>28, <1>e DEF StoreParam, EverInv
<1>29. CASE Undefined
  BY <1>29 DEF Undefined, historyVars
<1> QED
  BY <1>1, <1>2, <1>3, <1>4, <1>5, <1>6, <1>7, <1>8, <1>9, <1>10, <1>11, <1>12, <1>13, <1>14, <1>15,
     <1>16, <1>17, <1>18, <1>19, <1>20, <1>21, <1>22, <1>23, <1>24, <1>25, <1>26, <1>27, <1>28,
     <1>29
    DEF Next, Setup, Thread

-----------------------------------------------------------------------------
\* A thread moves on in its setup function to a good record.
LEMMA SetupMoves ==
  ASSUME SetupInv, ever' = ever, NEW a \in Actors, NEW r, GoodRecord(r), WrittenRecord(r),
         setup' = [setup EXCEPT ![a] = r]
  PROVE  SetupInv'
<1>1. r \in SetupRecord
  BY DEF GoodRecord
<1>2. setup' \in [Actors -> SetupRecord] /\ \A b \in Actors : setup'[b] = IF b = a THEN r ELSE setup[b]
  BY <1>1 DEF SetupInv
<1>3. \A b \in Actors : GoodRecord(setup'[b]) /\ WrittenRecord(setup'[b])
  BY <1>2 DEF SetupInv
<1>4. \A b \in Actors : (WrittenRecord(setup[b]))'
  BY <1>3 DEF WrittenRecord
<1> QED
  BY <1>2, <1>3, <1>4 DEF SetupInv

\* It keeps what it unpacked when it goes to another of its steps.
LEMMA SetupContinues ==
  ASSUME SetupInv, ever' = ever, NEW a \in Actors, NEW step \in Steps, NEW idx \in 0 .. Len(setup[a].def) + 1,
         At(a, step, setup[a].def, idx),
         step = "param_id" => idx \in DOMAIN setup[a].def,
         step \notin {"none", "read", "param_id"} => idx >= 1,
         step \in {"function", "param_id"} => IsPipeline(setup[a].param) /\ Len(setup[a].def) <= ArraySize,
         step \in {"alloc", "parameter"} => ~IsPipeline(setup[a].param)
  PROVE  SetupInv'
<1> DEFINE r == [step |-> step, param |-> setup[a].param, def |-> setup[a].def, idx |-> idx]
<1>1. GoodRecord(setup[a]) /\ WrittenRecord(setup[a])
  BY DEF SetupInv
<1>2. idx \in Nat
  <2>1. Len(setup[a].def) \in Nat
    BY <1>1 DEF GoodRecord, SetupRecord, Defs
  <2> QED
    BY <2>1
<1>3. GoodRecord(r)
  BY <1>1, <1>2 DEF GoodRecord, SetupRecord
<1>4. WrittenRecord(r)
  BY <1>1 DEF WrittenRecord
<1>5. setup' = [setup EXCEPT ![a] = r]
  BY DEF At
<1> HIDE DEF r
<1> QED
  BY <1>3, <1>4, <1>5, SetupMoves

\* It returns.
LEMMA SetupReturns ==
  ASSUME SetupInv, ever' = ever, NEW a \in Actors, Return(a)
  PROVE  SetupInv'
BY NoSetupGood, SetupMoves DEF Return

\* It has read its parameter, and what it unpacked is nothing or the content.
LEMMA SetupUnpacked ==
  ASSUME SetupInv, EverInv, ever' = ever, NEW a \in Actors, NEW def, Unpacked(a, def),
         \/ def = <<>>
         \/ /\ stored[setup[a].param] \in DOMAIN Contents(setup[a].param)
            /\ def = Contents(setup[a].param)[stored[setup[a].param]]
  PROVE  SetupInv'
<1> DEFINE r == [step |-> "header", param |-> setup[a].param, def |-> def, idx |-> 1]
<1>1. setup[a].param \in Params
  BY DEF SetupInv, SetupRecord
<1>2. def \in Defs /\ Len(def) \in Nat
  BY <1>1, EmptyFits, ContentsFit
<1>3. GoodRecord(r)
  BY <1>1, <1>2 DEF GoodRecord, SetupRecord, Steps
<1>4. WrittenRecord(r)
  BY <1>1 DEF WrittenRecord, EverInv, Contents
<1>5. setup' = [setup EXCEPT ![a] = r]
  BY DEF Unpacked, At
<1> HIDE DEF r
<1> QED
  BY <1>3, <1>4, <1>5, SetupMoves

\* Contents have a length.
LEMMA LenOfDef ==
  ASSUME NEW s \in Defs
  PROVE  Len(s) \in Nat /\ DOMAIN s = 1 .. Len(s)
BY DEF Defs

\* What the setup functions hold was written by the ground.
LEMMA SetupKept == IInv /\ [Next]_vars => SetupInv'
<1> SUFFICES ASSUME IInv, [Next]_vars PROVE SetupInv'
  OBVIOUS
<1>e. SetupInv /\ EverInv
  BY DEF IInv
<1>g. \A a \in Actors : GoodRecord(setup[a]) /\ WrittenRecord(setup[a])
  BY <1>e DEF SetupInv
<1>k. setup' = setup /\ ever' = ever => SetupInv'
  BY <1>e DEF SetupInv, WrittenRecord
<1>1. ASSUME NEW a \in Actors, ReadParam(a) PROVE SetupInv'
  <2>1. PICK def : Unpacked(a, def) /\ (def = <<>> \/ /\ stored[setup[a].param] \in DOMAIN Contents(setup[a].param)
                                                      /\ def = Contents(setup[a].param)[stored[setup[a].param]])
    BY <1>1 DEF ReadParam
  <2>2. ever' = ever
    BY <1>1 DEF ReadParam, historyVars
  <2> QED
    BY <2>1, <2>2, <1>e, SetupUnpacked
<1>2. ASSUME NEW a \in Actors, ReadParamFails(a) PROVE SetupInv'
  <2>1. Unpacked(a, <<>>) /\ ever' = ever
    BY <1>2 DEF ReadParamFails
  <2> QED
    BY <2>1, <1>e, SetupUnpacked
<1>3. ASSUME NEW a \in Actors, SkipParam(a) PROVE SetupInv'
  <2>1. Return(a) /\ ever' = ever
    BY <1>3 DEF SkipParam, historyVars
  <2> QED
    BY <2>1, <1>e, SetupReturns
<1>4. ASSUME NEW a \in Actors, PipelineHeader(a) PROVE SetupInv'
  <2>1. Goto(a, "function") /\ ever' = ever
    BY <1>4 DEF PipelineHeader, historyVars
  <2>2. setup[a].idx \in 0 .. Len(setup[a].def) + 1
    BY <1>g DEF GoodRecord
  <2>3. At(a, "function", setup[a].def, setup[a].idx)
    BY <2>1 DEF Goto
  <2> QED
    BY <1>4, <1>e, <1>g, <2>1, <2>2, <2>3, SetupContinues DEF PipelineHeader, Steps, GoodRecord
<1>5. ASSUME NEW a \in Actors, LoadModule(a) PROVE SetupInv'
  <2>1. /\ setup[a].step = "function" /\ setup[a].idx <= Len(setup[a].def)
        /\ Goto(a, "param_id") /\ ever' = ever
    BY <1>5 DEF LoadModule, LoadModuleInto, historyVars
  <2>2. /\ IsPipeline(setup[a].param) /\ Len(setup[a].def) <= ArraySize
        /\ setup[a].idx >= 1 /\ setup[a].idx \in Nat /\ setup[a].def \in Defs
    BY <1>g, <2>1 DEF GoodRecord, SetupRecord
  <2>3. setup[a].idx \in DOMAIN setup[a].def /\ setup[a].idx \in 0 .. Len(setup[a].def) + 1
    BY <2>1, <2>2, LenOfDef
  <2>4. At(a, "param_id", setup[a].def, setup[a].idx)
    BY <2>1 DEF Goto
  <2> QED
    BY <1>e, <2>1, <2>2, <2>3, <2>4, SetupContinues DEF Steps
<1>6. ASSUME NEW a \in Actors, SetParamId(a) PROVE SetupInv'
  <2>1. GotoNext(a, "function") /\ ever' = ever
    BY <1>6 DEF SetParamId, historyVars
  <2>2. GoodRecord(setup[a]) /\ Len(setup[a].def) \in Nat
    BY <1>g DEF GoodRecord, SetupRecord, Defs
  <2>3. setup[a].idx + 1 \in 0 .. Len(setup[a].def) + 1 /\ setup[a].idx + 1 >= 1
    BY <1>6, <2>2, LenOfDef DEF SetParamId, GoodRecord, SetupRecord
  <2>4. At(a, "function", setup[a].def, setup[a].idx + 1)
    BY <2>1 DEF GotoNext
  <2> QED
    BY <1>6, <1>e, <2>1, <2>2, <2>3, <2>4, SetupContinues DEF SetParamId, Steps, GoodRecord
<1>7. ASSUME NEW a \in Actors, ListHeader(a) PROVE SetupInv'
  <2>1. Goto(a, "alloc") /\ ever' = ever
    BY <1>7 DEF ListHeader, historyVars
  <2>2. setup[a].idx \in 0 .. Len(setup[a].def) + 1
    BY <1>g DEF GoodRecord
  <2>3. At(a, "alloc", setup[a].def, setup[a].idx)
    BY <2>1 DEF Goto
  <2> QED
    BY <1>7, <1>e, <1>g, <2>1, <2>2, <2>3, SetupContinues DEF ListHeader, Steps, GoodRecord
<1>8. ASSUME NEW a \in Actors, AllocList(a) PROVE SetupInv'
  <2>1. Goto(a, "parameter") /\ ever' = ever
    BY <1>8 DEF AllocList, historyVars
  <2>2. setup[a].idx \in 0 .. Len(setup[a].def) + 1
    BY <1>g DEF GoodRecord
  <2>3. At(a, "parameter", setup[a].def, setup[a].idx)
    BY <2>1 DEF Goto
  <2> QED
    BY <1>8, <1>e, <1>g, <2>1, <2>2, <2>3, SetupContinues DEF AllocList, Steps, GoodRecord
<1>9. ASSUME NEW a \in Actors, AllocFails(a) PROVE SetupInv'
  <2>1. Return(a) /\ ever' = ever
    BY <1>9 DEF AllocFails, historyVars
  <2> QED
    BY <2>1, <1>e, SetupReturns
<1>10. ASSUME NEW a \in Actors, SetParameter(a) PROVE SetupInv'
  <2>1. GotoNext(a, "parameter") /\ ever' = ever
    BY <1>10 DEF SetParameter, historyVars
  <2>2. GoodRecord(setup[a]) /\ Len(setup[a].def) \in Nat
    BY <1>g DEF GoodRecord, SetupRecord, Defs
  <2>3. setup[a].idx + 1 \in 0 .. Len(setup[a].def) + 1 /\ setup[a].idx + 1 >= 1
    BY <1>10, <2>2, LenOfDef DEF SetParameter, GoodRecord, SetupRecord
  <2>4. At(a, "parameter", setup[a].def, setup[a].idx + 1)
    BY <2>1 DEF GotoNext
  <2> QED
    BY <1>10, <1>e, <2>1, <2>2, <2>3, <2>4, SetupContinues DEF SetParameter, Steps, GoodRecord
<1>11. ASSUME NEW a \in Actors, SetupDone(a) PROVE SetupInv'
  <2>1. Return(a) /\ ever' = ever
    BY <1>11 DEF SetupDone, historyVars
  <2> QED
    BY <2>1, <1>e, SetupReturns
<1>12. ASSUME NEW k \in Params, NEW v \in DOMAIN Contents(k) \cup {Undecodable, Garbled}, SetParam(k, v) PROVE SetupInv'
  <2>1. setup' = [setup EXCEPT ![Router] = BeginSetup(k)]
    BY <1>12 DEF SetParam
  <2>2. GoodRecord(BeginSetup(k)) /\ WrittenRecord(BeginSetup(k))
    BY BeginSetupGood
  <2>3. /\ setup' \in [Actors -> SetupRecord]
        /\ \A b \in Actors : setup'[b] = IF b = Router THEN BeginSetup(k) ELSE setup[b]
    BY <1>e, <2>1, <2>2 DEF SetupInv, GoodRecord, Actors
  <2>4. \A b \in Actors : GoodRecord(setup'[b]) /\ WrittenRecord(setup'[b])
    BY <1>g, <2>2, <2>3
  <2>5. \A b \in Actors : setup'[b].param \in Params
    BY <2>3 DEF SetupRecord
  <2>6. \A b \in Actors : (WrittenRecord(setup[b]))'
    BY <2>4, <2>5, EverGrows DEF WrittenRecord
  <2> QED
    BY <2>3, <2>4, <2>6 DEF SetupInv
<1>13. ASSUME NEW name \in Names, Install(name) PROVE SetupInv'
  BY <1>13, <1>k DEF Install, diskVars, tableVars, threadVars, errVars, boundVars, historyVars
<1>14. CASE Restart
  <2>1. setup' = [b \in Actors |-> NoSetup] /\ ever' = ever
    BY <1>14 DEF Restart, Fresh
  <2>2. NoSetup \in SetupRecord
    BY NoSetupGood DEF GoodRecord
  <2>3. WrittenRecord(NoSetup)'
    BY <2>1, NoSetupGood DEF WrittenRecord
  <2> QED
    BY <2>1, <2>2, <2>3, NoSetupGood DEF SetupInv
<1>15. ASSUME NEW p \in Pipelines, Execute(p) PROVE SetupInv'
  BY <1>15, <1>k DEF Execute, diskVars, tableVars, threadVars, errVars, boundVars, historyVars
<1>16. ASSUME NEW p \in Pipelines, Refuse(p) PROVE SetupInv'
  BY <1>16, <1>k DEF Refuse, diskVars, tableVars, threadVars, errVars, boundVars, historyVars
<1>17. CASE CacheIsSetup
  BY <1>17, <1>k DEF CacheIsSetup, diskVars, tableVars, threadVars, errVars, boundVars, historyVars
<1>18. CASE RebuildCache
  BY <1>18, <1>k DEF RebuildCache, diskVars, tableVars, threadVars, errVars, boundVars, historyVars
<1>19. CASE RebuildParam
  <2>1. next \in Params /\ setup' = [setup EXCEPT ![Processing] = BeginSetup(next)] /\ ever' = ever
    BY <1>19 DEF RebuildParam, historyVars
  <2>2. Processing \in Actors
    BY DEF Actors
  <2> QED
    BY <1>e, <2>1, <2>2, BeginSetupGood, SetupMoves
<1>20. CASE RebuildDone
  BY <1>20, <1>k DEF RebuildDone, diskVars, tableVars, threadVars, errVars, boundVars, historyVars
<1>21. CASE Fork
  BY <1>21, <1>k DEF Fork, diskVars, tableVars, threadVars, errVars, boundVars, historyVars
<1>22. CASE ModuleSucceeds
  BY <1>22, <1>k DEF ModuleSucceeds, diskVars, tableVars, threadVars, errVars, boundVars, historyVars
<1>23. CASE ModuleFails
  BY <1>23, <1>k DEF ModuleFails, diskVars, tableVars, threadVars, errVars, boundVars, historyVars
<1>24. CASE Finish
  BY <1>24, <1>k DEF Finish, diskVars, tableVars, threadVars, errVars, boundVars, historyVars
<1>25. CASE Reset
  BY <1>25, <1>k DEF Reset, diskVars, tableVars, threadVars, errVars, boundVars, historyVars
<1>26. CASE UNCHANGED vars
  BY <1>26, <1>k DEF vars, diskVars, tableVars, threadVars, errVars, boundVars, historyVars
<1>27. ASSUME NEW a \in Actors, PipelineOverruns(a) PROVE SetupInv'
  <2>1. setup' = [b \in Actors |-> NoSetup] /\ ever' = ever
    BY <1>27 DEF PipelineOverruns, Fresh
  <2>2. NoSetup \in SetupRecord
    BY NoSetupGood DEF GoodRecord
  <2>3. WrittenRecord(NoSetup)'
    BY <2>1, NoSetupGood DEF WrittenRecord
  <2> QED
    BY <2>1, <2>2, <2>3, NoSetupGood DEF SetupInv
<1>28. ASSUME NEW k \in Params, NEW v \in DOMAIN Contents(k) \cup {Undecodable, Garbled}, StoreParam(k, v) PROVE SetupInv'
  <2>1. setup' = setup
    BY <1>28 DEF StoreParam
  <2>2. \A b \in Actors : setup[b].param \in Params
    BY <1>e DEF SetupInv, SetupRecord
  <2>3. \A b \in Actors : (WrittenRecord(setup[b]))'
    BY <1>g, <2>1, <2>2, EverGrows DEF WrittenRecord
  <2> QED
    BY <1>e, <2>1, <2>3 DEF SetupInv
<1>29. CASE Undefined
  BY <1>29, <1>k DEF Undefined, historyVars
<1> QED
  BY <1>1, <1>2, <1>3, <1>4, <1>5, <1>6, <1>7, <1>8, <1>9, <1>10, <1>11, <1>12, <1>13, <1>14, <1>15,
     <1>16, <1>17, <1>18, <1>19, <1>20, <1>21, <1>22, <1>23, <1>24, <1>25, <1>26, <1>27, <1>28,
     <1>29
    DEF Next, Setup, Thread

\* What a place of an entry holds.
LEMMA SlotTypes ==
  ASSUME NEW pipeline \in PipelineRecord, NEW n \in 1 .. ArraySize
  PROVE  /\ pipeline.modules[n].function \in Names \cup {NULL}
         /\ pipeline.modules[n].param_id \in Int
<1>1. pipeline.modules[n] \in [function : Names \cup {NULL}, param_id : Int]
  BY DEF PipelineRecord
<1> QED
  BY <1>1

\* A table changes at one place of one pipeline.
LEMMA ModuleStored ==
  ASSUME TableTypes, TablesEver, ever' = ever, NEW p \in Pipelines, NEW n \in 1 .. ArraySize,
         NEW function \in Names \cup {NULL}, NEW param_id \in Int,
         function # NULL => WasConfigured(p, n, function),
         SetModule(p, n, function, param_id)
  PROVE  /\ pipelines' \in [Pipelines -> PipelineRecord]
         /\ TablesEver'
<1> DEFINE Slot == [function : Names \cup {NULL}, param_id : Int]
           slot == [function |-> function, param_id |-> param_id]
           modules == [pipelines[p].modules EXCEPT ![n] = slot]
           pipeline == [pipelines[p] EXCEPT !.modules = modules]
<1>1. pipelines \in [Pipelines -> PipelineRecord] /\ pipelines[p] \in PipelineRecord
  BY DEF TableTypes
<1>2. slot \in Slot /\ slot.function = function
  OBVIOUS
<1>3. pipelines[p].modules \in [1 .. ArraySize -> Slot]
  BY <1>1 DEF PipelineRecord
<1>4. /\ modules \in [1 .. ArraySize -> Slot]
      /\ \A k \in 1 .. ArraySize : modules[k] = IF k = n THEN slot ELSE pipelines[p].modules[k]
  <2> HIDE DEF slot, Slot
  <2> QED
    BY <1>2, <1>3
<1>5. pipeline \in PipelineRecord /\ pipeline.modules = modules
  <2> HIDE DEF modules, slot
  <2> QED
    BY <1>1, <1>4 DEF PipelineRecord
<1>6. pipelines' = [pipelines EXCEPT ![p] = pipeline]
  BY DEF SetModule
<1>7. /\ pipelines' \in [Pipelines -> PipelineRecord]
      /\ \A q \in Pipelines : pipelines'[q] = IF q = p THEN pipeline ELSE pipelines[q]
  <2> HIDE DEF pipeline, modules, slot
  <2> QED
    BY <1>1, <1>5, <1>6
<1>8. \A q \in Pipelines : \A k \in 1 .. ArraySize :
        pipelines'[q].modules[k].function # NULL => WasConfigured(q, k, pipelines'[q].modules[k].function)
  <2> HIDE DEF pipeline, modules, slot
  <2> QED
    BY <1>2, <1>4, <1>5, <1>7 DEF TablesEver
<1>9. \A q, k, name : WasConfigured(q, k, name) => WasConfigured(q, k, name)'
  BY DEF WasConfigured
<1> QED
  BY <1>7, <1>8, <1>9 DEF TablesEver

\* A list changes and the pipelines do not.
LEMMA ListStored ==
  ASSUME TableTypes, TablesEver, ever' = ever, pipelines' = pipelines, NEW a \in Actors,
         ListOf(setup[a].param) \in 1 .. NumLists,
         NEW n_parameters \in Nat, NEW parameters \in Seq(STRING), SetList(a, n_parameters, parameters)
  PROVE  TableTypes' /\ TablesEver'
BY DEF TableTypes, TablesEver, WasConfigured, SetList

\* The tables of a process that has just started.
LEMMA ClearedTablesGood ==
  ASSUME NEW ps, NEW ls, ps = [p \in Pipelines |-> NoPipeline], ls = [m \in 1 .. NumLists |-> NoList]
  PROVE  /\ ps \in [Pipelines -> PipelineRecord]
         /\ ls \in [1 .. NumLists -> [n_parameters : Nat, parameters : Seq(STRING)]]
         /\ \A p \in Pipelines : \A n \in 1 .. ArraySize : ps[p].modules[n].function = NULL
<1>1. 0 \in 0 .. NumPipelines /\ 0 \in 0 .. ArraySize /\ 1 \in 1 .. NumLists
  BY CacheAssumption DEF CacheAssumption
<1>2. NoPipeline \in PipelineRecord /\ \A n \in 1 .. ArraySize : NoPipeline.modules[n].function = NULL
  BY <1>1 DEF NoPipeline, NoModule, PipelineRecord
<1>3. NoList \in [n_parameters : Nat, parameters : Seq(STRING)]
  BY DEF NoList
<1> QED
  BY <1>2, <1>3

\* A module in the tables was configured for its place.
LEMMA TablesKept == IInv /\ [Next]_vars => TableTypes' /\ TablesEver'
<1> SUFFICES ASSUME IInv, [Next]_vars PROVE TableTypes' /\ TablesEver'
  OBVIOUS
<1>e. TableTypes /\ TablesEver
  BY DEF IInv
<1>g. \A a \in Actors : GoodRecord(setup[a])
  BY DEF IInv, SetupInv
<1>k. UNCHANGED <<pipelines, module_parameter_lists, ever>> => TableTypes' /\ TablesEver'
  BY <1>e DEF TableTypes, TablesEver, WasConfigured
<1>1. ASSUME NEW a \in Actors, ReadParam(a) PROVE TableTypes' /\ TablesEver'
  BY <1>1, <1>k DEF ReadParam, diskVars, tableVars, threadVars, errVars, boundVars, historyVars
<1>2. ASSUME NEW a \in Actors, ReadParamFails(a) PROVE TableTypes' /\ TablesEver'
  BY <1>2, <1>k DEF ReadParamFails, diskVars, tableVars, threadVars, errVars, boundVars, historyVars
<1>3. ASSUME NEW a \in Actors, SkipParam(a) PROVE TableTypes' /\ TablesEver'
  BY <1>3, <1>k DEF SkipParam, diskVars, tableVars, threadVars, errVars, boundVars, historyVars
<1>4. ASSUME NEW a \in Actors, PipelineHeader(a) PROVE TableTypes' /\ TablesEver'
  <2> DEFINE p == setup[a].param
  <2>1. IsPipeline(p) /\ Fits(setup[a]) /\ UNCHANGED <<module_parameter_lists, ever>>
    BY <1>4 DEF PipelineHeader, Fits, historyVars
  <2>2. p \in Pipelines /\ Len(setup[a].def) \in 0 .. ArraySize /\ p \in 0 .. NumPipelines
    BY <2>1, PipelineBeingSetUp, CacheAssumption DEF Pipelines, CacheAssumption
  <2>3. pipelines' = [pipelines EXCEPT ![p].pipeline_id = p, ![p].num_modules = Len(setup[a].def)]
    BY <1>4 DEF PipelineHeader
  <2> HIDE DEF p
  <2>4. pipelines' \in [Pipelines -> PipelineRecord]
    BY <1>e, <2>2, <2>3 DEF TableTypes, PipelineRecord
  <2>5. \A q \in Pipelines : pipelines'[q].modules = pipelines[q].modules
    BY <1>e, <2>2, <2>3 DEF TableTypes, PipelineRecord
  <2> QED
    BY <1>e, <2>1, <2>4, <2>5 DEF TableTypes, TablesEver, WasConfigured
<1>5. ASSUME NEW a \in Actors, LoadModule(a) PROVE TableTypes' /\ TablesEver'
  <2>1. /\ setup[a].step = "function" /\ setup[a].idx <= Len(setup[a].def)
        /\ UNCHANGED <<module_parameter_lists, ever>>
    BY <1>5 DEF LoadModule, LoadModuleInto, historyVars
  <2>2. IsPipeline(setup[a].param) /\ setup[a].idx \in 1 .. Len(setup[a].def)
    BY <1>g, <2>1 DEF GoodRecord, SetupRecord
  <2> DEFINE p == setup[a].param
             n == setup[a].idx
             name == setup[a].def[n].name
  <2>3. p \in Pipelines /\ n \in 1 .. ArraySize /\ name \in Names /\ WasConfigured(p, n, name)
    BY <2>1, <2>2, PipelineBeingSetUp DEF Module, Fits
  <2>4. PICK function \in {name, NULL} : SetModule(p, n, function, pipelines[p].modules[n].param_id)
    BY <1>5 DEF LoadModule, LoadModuleInto
  <2> HIDE DEF p, n, name
  <2>5. pipelines[p].modules[n].param_id \in Int
    BY <1>e, <2>3, SlotTypes DEF TableTypes
  <2>6. pipelines' \in [Pipelines -> PipelineRecord] /\ TablesEver'
    BY <1>e, <2>1, <2>3, <2>4, <2>5, ModuleStored
  <2> QED
    BY <1>e, <2>1, <2>6 DEF TableTypes
<1>6. ASSUME NEW a \in Actors, SetParamId(a) PROVE TableTypes' /\ TablesEver'
  <2>1. setup[a].step = "param_id" /\ UNCHANGED <<module_parameter_lists, ever>>
    BY <1>6 DEF SetParamId, historyVars
  <2>2. IsPipeline(setup[a].param) /\ setup[a].idx \in 1 .. Len(setup[a].def)
    BY <1>g, <2>1, LenOfDef DEF GoodRecord, SetupRecord
  <2> DEFINE p == setup[a].param
             n == setup[a].idx
             param_id == setup[a].def[n].param_id
  <2>3. p \in Pipelines /\ n \in 1 .. ArraySize /\ param_id \in Int
    BY <2>1, <2>2, PipelineBeingSetUp DEF Module, Fits
  <2>4. SetModule(p, n, pipelines[p].modules[n].function, param_id)
    BY <1>6 DEF SetParamId
  <2> HIDE DEF p, n, param_id
  <2>5. pipelines[p].modules[n].function \in Names \cup {NULL}
    BY <1>e, <2>3, SlotTypes DEF TableTypes
  <2>6. pipelines[p].modules[n].function # NULL => WasConfigured(p, n, pipelines[p].modules[n].function)
    BY <1>e, <2>3 DEF TablesEver
  <2>7. pipelines' \in [Pipelines -> PipelineRecord] /\ TablesEver'
    BY <1>e, <2>1, <2>3, <2>4, <2>5, <2>6, ModuleStored
  <2> QED
    BY <1>e, <2>1, <2>7 DEF TableTypes
<1>7. ASSUME NEW a \in Actors, ListHeader(a) PROVE TableTypes' /\ TablesEver'
  <2>1. setup[a].step = "header" /\ pipelines' = pipelines /\ ever' = ever
    BY <1>7 DEF ListHeader, historyVars
  <2>2. ~IsPipeline(setup[a].param)
    BY <1>7, <1>g, <2>1 DEF ListHeader, GoodRecord
  <2>3. ListOf(setup[a].param) \in 1 .. NumLists /\ setup[a].def \in Seq(STRING) /\ Len(setup[a].def) \in Nat
    BY <2>2, ListBeingSetUp
  <2>4. List(a).n_parameters \in Nat /\ List(a).parameters \in Seq(STRING)
    BY <1>e, <2>3 DEF TableTypes, List
  <2> DEFINE array == List(a).parameters
  <2>5. SetList(a, Len(setup[a].def), array)
    BY <1>7 DEF ListHeader
  <2>6. array \in Seq(STRING)
    BY <2>4
  <2> HIDE DEF array
  <2> QED
    BY <1>e, <2>1, <2>3, <2>4, <2>5, <2>6, ListStored
<1>8. ASSUME NEW a \in Actors, AllocList(a) PROVE TableTypes' /\ TablesEver'
  <2>1. setup[a].step = "alloc" /\ pipelines' = pipelines /\ ever' = ever
    BY <1>8 DEF AllocList, historyVars
  <2>2. ~IsPipeline(setup[a].param)
    BY <1>8, <1>g, <2>1 DEF AllocList, GoodRecord
  <2>3. ListOf(setup[a].param) \in 1 .. NumLists /\ setup[a].def \in Seq(STRING) /\ Len(setup[a].def) \in Nat
    BY <2>2, ListBeingSetUp
  <2>4. List(a).n_parameters \in Nat /\ List(a).parameters \in Seq(STRING)
    BY <1>e, <2>3 DEF TableTypes, List
  <2> DEFINE array == [k \in 1 .. Len(setup[a].def) |-> Junk]
  <2>5. SetList(a, List(a).n_parameters, array)
    BY <1>8 DEF AllocList
  <2>6. array \in Seq(STRING)
    <3>1. Junk \in STRING
      BY CacheAssumption DEF CacheAssumption
    <3> QED
      BY <2>3, <3>1
  <2> HIDE DEF array
  <2> QED
    BY <1>e, <2>1, <2>3, <2>4, <2>5, <2>6, ListStored
<1>9. ASSUME NEW a \in Actors, AllocFails(a) PROVE TableTypes' /\ TablesEver'
  <2>1. setup[a].step \in {"alloc", "parameter"} /\ pipelines' = pipelines /\ ever' = ever
    BY <1>9 DEF AllocFails, historyVars
  <2>2. ~IsPipeline(setup[a].param)
    BY <1>9, <1>g, <2>1 DEF AllocFails, GoodRecord
  <2>3. ListOf(setup[a].param) \in 1 .. NumLists /\ setup[a].def \in Seq(STRING) /\ Len(setup[a].def) \in Nat
    BY <2>2, ListBeingSetUp
  <2>4. List(a).n_parameters \in Nat /\ List(a).parameters \in Seq(STRING)
    BY <1>e, <2>3 DEF TableTypes, List
  <2> DEFINE array == <<>>
  <2>5. SetList(a, List(a).n_parameters, array)
    BY <1>9 DEF AllocFails
  <2>6. array \in Seq(STRING)
    OBVIOUS
  <2> HIDE DEF array
  <2> QED
    BY <1>e, <2>1, <2>3, <2>4, <2>5, <2>6, ListStored
<1>10. ASSUME NEW a \in Actors, SetParameter(a) PROVE TableTypes' /\ TablesEver'
  <2>1. setup[a].step = "parameter" /\ setup[a].idx <= Len(setup[a].def) /\ pipelines' = pipelines /\ ever' = ever
    BY <1>10 DEF SetParameter, historyVars
  <2>2. ~IsPipeline(setup[a].param)
    BY <1>10, <1>g, <2>1 DEF SetParameter, GoodRecord
  <2>3. ListOf(setup[a].param) \in 1 .. NumLists /\ setup[a].def \in Seq(STRING) /\ Len(setup[a].def) \in Nat
    BY <2>2, ListBeingSetUp
  <2>4. List(a).n_parameters \in Nat /\ List(a).parameters \in Seq(STRING)
    BY <1>e, <2>3 DEF TableTypes, List
  <2> DEFINE array == IF setup[a].idx \in DOMAIN List(a).parameters
                  THEN [List(a).parameters EXCEPT ![setup[a].idx] = setup[a].def[setup[a].idx]] ELSE List(a).parameters
  <2>5. SetList(a, List(a).n_parameters, array)
    BY <1>10 DEF SetParameter
  <2>6. array \in Seq(STRING)
    <3>1. setup[a].idx \in 1 .. Len(setup[a].def)
      BY <1>g, <2>1 DEF GoodRecord, SetupRecord
    <3>2. setup[a].def[setup[a].idx] \in STRING
      BY <2>3, <3>1
    <3> QED
      BY <2>4, <3>2
  <2> HIDE DEF array
  <2> QED
    BY <1>e, <2>1, <2>3, <2>4, <2>5, <2>6, ListStored
<1>11. ASSUME NEW a \in Actors, SetupDone(a) PROVE TableTypes' /\ TablesEver'
  BY <1>11, <1>k DEF SetupDone, diskVars, tableVars, threadVars, errVars, boundVars, historyVars
<1>12. ASSUME NEW k \in Params, NEW v \in DOMAIN Contents(k) \cup {Undecodable, Garbled}, SetParam(k, v) PROVE TableTypes' /\ TablesEver'
  <2>1. UNCHANGED tableVars
    BY <1>12 DEF SetParam
  <2>2. \A q \in Pipelines : \A j, name : WasConfigured(q, j, name) => WasConfigured(q, j, name)'
    <3>1. \A q \in Pipelines : q \in Params
      BY CacheAssumption DEF CacheAssumption, Pipelines, Params
    <3> QED
      BY <3>1, EverGrows DEF WasConfigured
  <2> QED
    BY <1>e, <2>1, <2>2 DEF TableTypes, TablesEver, tableVars
<1>13. ASSUME NEW name \in Names, Install(name) PROVE TableTypes' /\ TablesEver'
  BY <1>13, <1>k DEF Install, diskVars, tableVars, threadVars, errVars, boundVars, historyVars
<1>14. CASE Restart
  <2>1. /\ pipelines' = [p \in Pipelines |-> NoPipeline]
        /\ module_parameter_lists' = [m \in 1 .. NumLists |-> NoList]
    BY <1>14 DEF Restart, Fresh
  <2>2. /\ pipelines' \in [Pipelines -> PipelineRecord]
        /\ module_parameter_lists' \in [1 .. NumLists -> [n_parameters : Nat, parameters : Seq(STRING)]]
        /\ \A p \in Pipelines : \A n \in 1 .. ArraySize : pipelines'[p].modules[n].function = NULL
    BY <2>1, ClearedTablesGood
  <2> QED
    BY <2>2 DEF TableTypes, TablesEver
<1>15. ASSUME NEW p \in Pipelines, Execute(p) PROVE TableTypes' /\ TablesEver'
  BY <1>15, <1>k DEF Execute, diskVars, tableVars, threadVars, errVars, boundVars, historyVars
<1>16. ASSUME NEW p \in Pipelines, Refuse(p) PROVE TableTypes' /\ TablesEver'
  BY <1>16, <1>k DEF Refuse, diskVars, tableVars, threadVars, errVars, boundVars, historyVars
<1>17. CASE CacheIsSetup
  BY <1>17, <1>k DEF CacheIsSetup, diskVars, tableVars, threadVars, errVars, boundVars, historyVars
<1>18. CASE RebuildCache
  BY <1>18, <1>k DEF RebuildCache, diskVars, tableVars, threadVars, errVars, boundVars, historyVars
<1>19. CASE RebuildParam
  BY <1>19, <1>k DEF RebuildParam, diskVars, tableVars, threadVars, errVars, boundVars, historyVars
<1>20. CASE RebuildDone
  BY <1>20, <1>k DEF RebuildDone, diskVars, tableVars, threadVars, errVars, boundVars, historyVars
<1>21. CASE Fork
  BY <1>21, <1>k DEF Fork, diskVars, tableVars, threadVars, errVars, boundVars, historyVars
<1>22. CASE ModuleSucceeds
  BY <1>22, <1>k DEF ModuleSucceeds, diskVars, tableVars, threadVars, errVars, boundVars, historyVars
<1>23. CASE ModuleFails
  BY <1>23, <1>k DEF ModuleFails, diskVars, tableVars, threadVars, errVars, boundVars, historyVars
<1>24. CASE Finish
  BY <1>24, <1>k DEF Finish, diskVars, tableVars, threadVars, errVars, boundVars, historyVars
<1>25. CASE Reset
  BY <1>25, <1>k DEF Reset, diskVars, tableVars, threadVars, errVars, boundVars, historyVars
<1>26. CASE UNCHANGED vars
  BY <1>26, <1>k DEF vars, diskVars, tableVars, threadVars, errVars, boundVars, historyVars
<1>27. ASSUME NEW a \in Actors, PipelineOverruns(a) PROVE TableTypes' /\ TablesEver'
  <2>1. /\ pipelines' = [p \in Pipelines |-> NoPipeline]
        /\ module_parameter_lists' = [m \in 1 .. NumLists |-> NoList]
    BY <1>27 DEF PipelineOverruns, Fresh
  <2>2. /\ pipelines' \in [Pipelines -> PipelineRecord]
        /\ module_parameter_lists' \in [1 .. NumLists -> [n_parameters : Nat, parameters : Seq(STRING)]]
        /\ \A p \in Pipelines : \A n \in 1 .. ArraySize : pipelines'[p].modules[n].function = NULL
    BY <2>1, ClearedTablesGood
  <2> QED
    BY <2>2 DEF TableTypes, TablesEver
<1>28. ASSUME NEW k \in Params, NEW v \in DOMAIN Contents(k) \cup {Undecodable, Garbled}, StoreParam(k, v) PROVE TableTypes' /\ TablesEver'
  <2>1. UNCHANGED tableVars
    BY <1>28 DEF StoreParam
  <2>2. \A q \in Pipelines : \A j, name : WasConfigured(q, j, name) => WasConfigured(q, j, name)'
    <3>1. \A q \in Pipelines : q \in Params
      BY CacheAssumption DEF CacheAssumption, Pipelines, Params
    <3> QED
      BY <3>1, EverGrows DEF WasConfigured
  <2> QED
    BY <1>e, <2>1, <2>2 DEF TableTypes, TablesEver, tableVars
<1>29. CASE Undefined
  BY <1>29, <1>k DEF Undefined, tableVars, historyVars
<1> QED
  BY <1>1, <1>2, <1>3, <1>4, <1>5, <1>6, <1>7, <1>8, <1>9, <1>10, <1>11, <1>12, <1>13, <1>14, <1>15,
     <1>16, <1>17, <1>18, <1>19, <1>20, <1>21, <1>22, <1>23, <1>24, <1>25, <1>26, <1>27, <1>28,
     <1>29
    DEF Next, Setup, Thread

LEMMA OneElement ==
  ASSUME NEW S, NEW e \in S
  PROVE  <<e>> \in [1 .. 1 -> S]
OBVIOUS

\* A child finds a list of strings, some of them perhaps junk.
LEMMA ParametersAreStrings ==
  ASSUME TableTypes, NEW m \in Int
  PROVE  ParametersOf(m) \in UNION {[1 .. n -> STRING] : n \in Nat}
<1>1. CASE m \in 1 .. NumLists
  <2> DEFINE n == module_parameter_lists[m].n_parameters
             parameters == module_parameter_lists[m].parameters
  <2>1. n \in Nat /\ parameters \in Seq(STRING) /\ Junk \in STRING
    BY <1>1, CacheAssumption DEF TableTypes, CacheAssumption
  <2>2. ParametersOf(m) = [k \in 1 .. n |-> IF k <= Len(parameters) THEN parameters[k] ELSE Junk]
    BY <1>1 DEF ParametersOf
  <2> HIDE DEF n, parameters
  <2>3. ASSUME NEW k \in 1 .. n
        PROVE  (IF k <= Len(parameters) THEN parameters[k] ELSE Junk) \in STRING
    <3>1. CASE k <= Len(parameters)
      <4>1. k \in 1 .. Len(parameters)
        BY <2>1, <3>1
      <4>2. parameters[k] \in STRING
        BY <2>1, <4>1
      <4> QED
        BY <3>1, <4>2
    <3>2. CASE ~(k <= Len(parameters))
      BY <2>1, <3>2
    <3> QED
      BY <3>1, <3>2
  <2>4. ParametersOf(m) \in [1 .. n -> STRING]
    BY <2>2, <2>3
  <2> QED
    BY <2>1, <2>4
<1>2. CASE m \notin 1 .. NumLists
  <2>1. ParametersOf(m) = <<Junk>>
    BY <1>2 DEF ParametersOf
  <2>2. PICK junk \in STRING : junk = Junk
    BY CacheAssumption DEF CacheAssumption
  <2>3. <<junk>> \in [1 .. 1 -> STRING]
    BY OneElement
  <2>4. 1 \in Nat
    OBVIOUS
  <2> QED
    BY <2>1, <2>2, <2>3, <2>4
<1> QED
  BY <1>1, <1>2

\* A module that is run was in the tables at its place.
LEMMA RanKept == IInv /\ [Next]_vars => RanEver'
<1> SUFFICES ASSUME IInv, [Next]_vars PROVE RanEver'
  OBVIOUS
<1>e. RanEver /\ LoopTypes /\ TableTypes /\ TablesEver
  BY DEF IInv
<1>k. UNCHANGED <<ran, batch, ever, pc, i>> => RanEver'
  BY <1>e DEF RanEver, ModulesWereConfigured
<1>l. UNCHANGED <<ran, batch, ever>> /\ pc' \notin {"loop", "wait"} => RanEver'
  BY <1>e DEF RanEver, ModulesWereConfigured
<1>1. ASSUME NEW a \in Actors, ReadParam(a) PROVE RanEver'
  BY <1>1, <1>k DEF ReadParam, diskVars, tableVars, threadVars, errVars, boundVars, historyVars
<1>2. ASSUME NEW a \in Actors, ReadParamFails(a) PROVE RanEver'
  BY <1>2, <1>k DEF ReadParamFails, diskVars, tableVars, threadVars, errVars, boundVars, historyVars
<1>3. ASSUME NEW a \in Actors, SkipParam(a) PROVE RanEver'
  BY <1>3, <1>k DEF SkipParam, diskVars, tableVars, threadVars, errVars, boundVars, historyVars
<1>4. ASSUME NEW a \in Actors, PipelineHeader(a) PROVE RanEver'
  BY <1>4, <1>k DEF PipelineHeader, diskVars, tableVars, threadVars, errVars, boundVars, historyVars
<1>5. ASSUME NEW a \in Actors, LoadModule(a) PROVE RanEver'
  BY <1>5, <1>k
    DEF LoadModule, LoadModuleInto, diskVars, tableVars, threadVars, errVars, boundVars, historyVars
<1>6. ASSUME NEW a \in Actors, SetParamId(a) PROVE RanEver'
  BY <1>6, <1>k DEF SetParamId, diskVars, tableVars, threadVars, errVars, boundVars, historyVars
<1>7. ASSUME NEW a \in Actors, ListHeader(a) PROVE RanEver'
  BY <1>7, <1>k DEF ListHeader, diskVars, tableVars, threadVars, errVars, boundVars, historyVars
<1>8. ASSUME NEW a \in Actors, AllocList(a) PROVE RanEver'
  BY <1>8, <1>k DEF AllocList, diskVars, tableVars, threadVars, errVars, boundVars, historyVars
<1>9. ASSUME NEW a \in Actors, AllocFails(a) PROVE RanEver'
  BY <1>9, <1>k DEF AllocFails, diskVars, tableVars, threadVars, errVars, boundVars, historyVars
<1>10. ASSUME NEW a \in Actors, SetParameter(a) PROVE RanEver'
  BY <1>10, <1>k DEF SetParameter, diskVars, tableVars, threadVars, errVars, boundVars, historyVars
<1>11. ASSUME NEW a \in Actors, SetupDone(a) PROVE RanEver'
  BY <1>11, <1>k DEF SetupDone, diskVars, tableVars, threadVars, errVars, boundVars, historyVars
<1>12. ASSUME NEW k \in Params, NEW v \in DOMAIN Contents(k) \cup {Undecodable, Garbled}, SetParam(k, v) PROVE RanEver'
  <2>1. UNCHANGED <<ran, batch, i, pc>>
    BY <1>12 DEF SetParam, threadVars
  <2>2. batch \in Params
    BY <1>e, CacheAssumption DEF LoopTypes, CacheAssumption, Pipelines, Params
  <2>3. ever[batch] \subseteq ever'[batch]
    BY <2>2, EverGrows
  <2> QED
    BY <1>e, <2>1, <2>3 DEF RanEver, ModulesWereConfigured
<1>13. ASSUME NEW name \in Names, Install(name) PROVE RanEver'
  BY <1>13, <1>k DEF Install, diskVars, tableVars, threadVars, errVars, boundVars, historyVars
<1>14. CASE Restart
  <2>1. ran' = <<>> /\ i' = 0 /\ pc' # "wait"
    BY <1>14 DEF Restart, Fresh
  <2>2. DOMAIN ran' = {} /\ Len(ran') = 0 /\ ran' \in Seq(Forked)
    BY <2>1
  <2> QED
    BY <2>1, <2>2 DEF RanEver, ModulesWereConfigured
<1>15. ASSUME NEW p \in Pipelines, Execute(p) PROVE RanEver'
  <2>1. ran' = <<>> /\ i' = 0 /\ pc' # "wait"
    BY <1>15 DEF Execute
  <2>2. DOMAIN ran' = {} /\ Len(ran') = 0 /\ ran' \in Seq(Forked)
    BY <2>1
  <2> QED
    BY <2>1, <2>2 DEF RanEver, ModulesWereConfigured
<1>16. ASSUME NEW p \in Pipelines, Refuse(p) PROVE RanEver'
  <2>1. ran' = <<>> /\ i' = 0 /\ pc' # "wait"
    BY <1>16 DEF Refuse
  <2>2. DOMAIN ran' = {} /\ Len(ran') = 0 /\ ran' \in Seq(Forked)
    BY <2>1
  <2> QED
    BY <2>1, <2>2 DEF RanEver, ModulesWereConfigured
<1>17. CASE CacheIsSetup
  BY <1>17, <1>l DEF CacheIsSetup, historyVars
<1>18. CASE RebuildCache
  BY <1>18, <1>l DEF RebuildCache, historyVars
<1>19. CASE RebuildParam
  BY <1>19, <1>k DEF RebuildParam, diskVars, tableVars, threadVars, errVars, boundVars, historyVars
<1>20. CASE RebuildDone
  BY <1>20, <1>l DEF RebuildDone, historyVars
<1>21. CASE Fork
  <2> DEFINE module == pipelines[batch].modules[i + 1]
             forked == [function |-> module.function, param_id |-> module.param_id,
                        config |-> ParametersOf(module.param_id)]
  <2>1. /\ ran' = Append(ran, forked) /\ UNCHANGED <<batch, ever, i>>
        /\ pc = "loop" /\ pc' = "wait"
    BY <1>21 DEF Fork
  <2>2. i \in Nat /\ i + 1 \in 1 .. ArraySize /\ batch \in Pipelines
    <3>1. i < ArraySize
      BY <2>1, LoopTypesKept DEF LoopTypes
    <3> QED
      BY <1>e, <3>1, CacheAssumption DEF LoopTypes, CacheAssumption
  <2>3. module.function \in Names \cup {NULL} /\ module.param_id \in Int
    BY <1>e, <2>2, SlotTypes DEF TableTypes
  <2>4. module.function # NULL => \E v \in ever[batch] \cap DOMAIN Definitions :
          i + 1 <= Len(Definitions[v]) /\ Definitions[v][i + 1].name = module.function
    BY <1>e, <2>2 DEF TablesEver, WasConfigured
  <2>5. ParametersOf(module.param_id) \in UNION {[1 .. n -> STRING] : n \in Nat}
    BY <1>e, <2>3, ParametersAreStrings
  <2>6. forked \in Forked /\ forked.function = module.function
    <3> HIDE DEF module
    <3> QED
      BY <2>3, <2>5 DEF Forked
  <2> HIDE DEF forked
  <2>7. /\ ran' \in Seq(Forked) /\ Len(ran) = i
        /\ DOMAIN ran' = 1 .. i + 1
        /\ \A j \in DOMAIN ran' : ran'[j] = IF j = i + 1 THEN forked ELSE ran[j]
    BY <1>e, <2>1, <2>6, AppendProperties DEF RanEver
  <2>8. Len(ran') = i + 1
    BY <2>2, <2>7
  <2> HIDE DEF module
  <2>9. ASSUME NEW j \in DOMAIN ran', ran'[j].function # NULL
        PROVE  \E v \in ever[batch] \cap DOMAIN Definitions :
                 j <= Len(Definitions[v]) /\ Definitions[v][j].name = ran'[j].function
    <3>1. CASE j = i + 1
      BY <2>4, <2>6, <2>7, <2>9, <3>1
    <3>2. CASE j # i + 1
      <4>1. j \in DOMAIN ran /\ ran'[j] = ran[j]
        <5>1. DOMAIN ran = 1 .. i
          BY <1>e, <2>7 DEF RanEver
        <5> QED
          BY <2>2, <2>7, <3>2, <5>1
      <4> QED
        BY <1>e, <2>9, <4>1 DEF RanEver, ModulesWereConfigured
    <3> QED
      BY <3>1, <3>2
  <2>10. ModulesWereConfigured'
    BY <2>1, <2>9 DEF ModulesWereConfigured
  <2> QED
    BY <2>1, <2>7, <2>8, <2>10 DEF RanEver
<1>22. CASE ModuleSucceeds
  <2>1. pc = "wait" /\ pc' = "loop" /\ i' = i + 1 /\ UNCHANGED <<ran, batch, ever>>
    BY <1>22 DEF ModuleSucceeds, historyVars
  <2> QED
    BY <1>e, <2>1 DEF RanEver, ModulesWereConfigured
<1>23. CASE ModuleFails
  BY <1>23, <1>l DEF ModuleFails, historyVars
<1>24. CASE Finish
  BY <1>24, <1>l DEF Finish, historyVars
<1>25. CASE Reset
  BY <1>25, <1>l DEF Reset, historyVars
<1>26. CASE UNCHANGED vars
  BY <1>26, <1>k DEF vars, diskVars, tableVars, threadVars, errVars, boundVars, historyVars
<1>27. ASSUME NEW a \in Actors, PipelineOverruns(a) PROVE RanEver'
  <2>1. ran' = <<>> /\ i' = 0 /\ pc' # "wait"
    BY <1>27 DEF PipelineOverruns, Fresh
  <2>2. DOMAIN ran' = {} /\ Len(ran') = 0 /\ ran' \in Seq(Forked)
    BY <2>1
  <2> QED
    BY <2>1, <2>2 DEF RanEver, ModulesWereConfigured
<1>28. ASSUME NEW k \in Params, NEW v \in DOMAIN Contents(k) \cup {Undecodable, Garbled}, StoreParam(k, v) PROVE RanEver'
  <2>1. UNCHANGED <<ran, batch, i, pc>>
    BY <1>28 DEF StoreParam, threadVars
  <2>2. batch \in Params
    BY <1>e, CacheAssumption DEF LoopTypes, CacheAssumption, Pipelines, Params
  <2>3. ever[batch] \subseteq ever'[batch]
    BY <2>2, EverGrows
  <2> QED
    BY <1>e, <2>1, <2>3 DEF RanEver, ModulesWereConfigured
<1>29. CASE Undefined
  BY <1>29, <1>k DEF Undefined, threadVars, historyVars
<1> QED
  BY <1>1, <1>2, <1>3, <1>4, <1>5, <1>6, <1>7, <1>8, <1>9, <1>10, <1>11, <1>12, <1>13, <1>14, <1>15,
     <1>16, <1>17, <1>18, <1>19, <1>20, <1>21, <1>22, <1>23, <1>24, <1>25, <1>26, <1>27, <1>28,
     <1>29
    DEF Next, Setup, Thread

-----------------------------------------------------------------------------
(* The theorems.                                                           *)

\* A process that has just started satisfies the invariant.
LEMMA InitIInv == Init => IInv
<1> SUFFICES ASSUME Init PROVE IInv
  OBVIOUS
<1>1. TableTypes /\ TablesEver
  BY ClearedTablesGood DEF Init, ClearedTables, TableTypes, TablesEver
<1>2. SetupInv
  <2>1. setup = [a \in Actors |-> NoSetup]
    BY DEF Init
  <2>2. NoSetup \in SetupRecord
    BY NoSetupGood DEF GoodRecord
  <2> QED
    BY <2>1, <2>2, NoSetupGood DEF SetupInv
<1>3. ErrTypes /\ LoopTypes
  <2>1. /\ 0 \in 0 .. NumPipelines /\ 0 \in 0 .. ArraySize
        /\ 1 \in 1 .. NumPipelines + NumLists + 1 /\ 1 \in Pipelines
    BY CacheAssumption DEF CacheAssumption, Pipelines
  <2> QED
    BY <2>1 DEF Init, ErrTypes, LoopTypes
<1>4. EverInv
  BY DEF Init, EverInv
<1>5. RanEver
  <2>1. ran = <<>> /\ pc = "idle"
    BY DEF Init
  <2>2. DOMAIN ran = {} /\ ran \in Seq(Forked)
    BY <2>1
  <2> QED
    BY <2>1, <2>2 DEF RanEver, ModulesWereConfigured
<1> QED
  BY <1>1, <1>2, <1>3, <1>4, <1>5 DEF IInv

\* The invariant from which both theorems follow: the tables, the records of
\* the two threads in setup_pipeline and setup_module_config, and the loop of
\* execute_pipeline, with all that was ever written to the parameters.
THEOREM CacheInvariance == Spec => []IInv
<1>1. IInv /\ [Next]_vars => IInv'
  BY ErrTypesKept, LoopTypesKept, EverKept, SetupKept, TablesKept, RanKept DEF IInv
<1> QED
  BY <1>1, InitIInv, PTL DEF Spec

\* For any number of pipelines and lists, whatever the ground writes and
\* however the router and the processing thread interleave: until a definition
\* that is longer than its entry is set up and makes the behaviour undefined,
\* the fields of the tables keep their ranges, setup_pipeline never writes
\* past Pipeline.modules, and execute_pipeline never reads past it.
THEOREM CacheTypes == Spec => []TypeOK
<1>1. IInv => TypeOK
  <2> SUFFICES ASSUME IInv PROVE TypeOK
    OBVIOUS
  <2>1. ThreadTypes
    BY DEF IInv, ErrTypes, LoopTypes, ThreadTypes
  <2>2. ASSUME NEW a \in Actors
        PROVE  /\ setup[a].step \in Steps /\ setup[a].param \in Params
               /\ setup[a].def = <<>> \/ \E v \in DOMAIN Contents(setup[a].param) : setup[a].def = Contents(setup[a].param)[v]
               /\ setup[a].idx \in 0 .. Len(setup[a].def) + 1
               /\ setup[a].step = "param_id" => setup[a].idx \in DOMAIN setup[a].def
               /\ setup[a].step \in {"function", "param_id"} => IsPipeline(setup[a].param)
               /\ setup[a].step \in {"alloc", "parameter"} => ~IsPipeline(setup[a].param)
    <3>1. GoodRecord(setup[a])
      BY DEF IInv, SetupInv
    <3> QED
      BY <3>1 DEF GoodRecord, SetupRecord
  <2> QED
    BY <2>1, <2>2 DEF IInv, TypeOK, SetupTypes
<1> QED
  BY <1>1, CacheInvariance, PTL

\* No module is ever run at a place of a pipeline where no definition that
\* the ground wrote had it: racing writers of the table (the router's
\* callback and the rebuild of the cache) can mix definitions, but each
\* module they mix was configured there.
THEOREM ConfiguredModulesRun == Spec => []ModulesWereConfigured
<1>1. IInv => ModulesWereConfigured
  BY DEF IInv, RanEver
<1> QED
  BY <1>1, CacheInvariance, PTL

-----------------------------------------------------------------------------
(***************************************************************************)
(* What the tables have to do with the storage.                            *)
(*                                                                         *)
(* Neither BatchFollowsStorage nor MissingModuleFailsOnce is inductive.  A *)
(* batch reads entries that setup functions built element by element, so   *)
(* the invariant follows the entry that is being filled (Progress), says   *)
(* which entries nobody is about to change (Settled), that those agree     *)
(* with their parameters (TablesFollow), and who may be in a setup         *)
(* function at all (ThreadInv).                                            *)
(***************************************************************************)

Active(a) == setup[a].step # "none"

\* The loops of the setup functions start at the first element.
AtStart(a) == setup[a].step \in {"header", "alloc"} => setup[a].idx = 1

\* Who configures while the processing thread uses the tables: without an
\* overlap, nobody but the rebuild itself.
ThreadInv ==
  /\ \A a \in Actors : AtStart(a)
  /\ pc \in {"ready", "loop", "wait"} => is_setup
  /\ pc = "undefined" => ~is_setup /\ \A a \in Actors : ~Active(a)
  /\ Active(Processing) => pc = "rebuild" /\ setup[Processing].param < next
  /\ ~overlap /\ Active(Router) => pc \notin Using

\* The parameter has been read since the tables were last invalid.
SetUp(k) == is_setup \/ (pc = "rebuild" /\ k < next)

Occupied(k) == \E a \in Actors : Active(a) /\ setup[a].param = k

\* Nobody is about to change the entry of parameter k, which is up to date.
Settled(k) == SetUp(k) /\ ~Occupied(k) /\ stored[k] # Garbled

\* What the parameter prescribes, for a pipeline and for a module.
Wanted(k) == IF IsPipeline(k) THEN Prescribed(k) ELSE Configured(ListOf(k))

LoadedAs(entry, module) ==
  entry.function \in {module.name, NULL} /\ entry.param_id = module.param_id

\* How far the setup function of a thread has come with its entry.
PipelineBuilt(entry, r) ==
  r.step \in {"function", "param_id"} =>
    /\ entry.num_modules = Len(r.def)
    /\ \A n \in 1 .. r.idx - 1 : LoadedAs(entry.modules[n], r.def[n])
    /\ r.step = "param_id" => entry.modules[r.idx].function \in {r.def[r.idx].name, NULL}

ListBuilt(entry, r) ==
  /\ r.step \in {"alloc", "parameter"} => entry.n_parameters = Len(r.def)
  /\ r.step = "parameter" =>
       /\ Len(entry.parameters) = Len(r.def)
       /\ \A n \in 1 .. r.idx - 1 : entry.parameters[n] = r.def[n]

PipelineProgress(a) == PipelineBuilt(pipelines[setup[a].param], setup[a])
ListProgress(a) == ListBuilt(List(a), setup[a])

Progress ==
  \A a \in Actors : Active(a) /\ setup[a].step # "read" =>
    /\ setup[a].def = Wanted(setup[a].param)
    /\ PipelineProgress(a) /\ ListProgress(a)

\* The tables agree with the storage.
PipelineFollows(p) ==
  /\ pipelines[p].num_modules = Len(Prescribed(p))
  /\ \A n \in 1 .. Len(Prescribed(p)) : LoadedAs(pipelines[p].modules[n], Prescribed(p)[n])

ListFollows(m) ==
  /\ module_parameter_lists[m].n_parameters = Len(Configured(m))
  /\ module_parameter_lists[m].parameters = Configured(m)

TablesFollow ==
  /\ \A p \in Pipelines : Settled(p) => PipelineFollows(p)
  /\ \A m \in 1 .. NumLists : Settled(NumPipelines + m) => ListFollows(m)

\* BatchFollowsStorage and what it needs.
FollowInv == ~overlap /\ ~faulted => Progress /\ TablesFollow /\ BatchFollowsStorage

\* Modules that were found.
PipelineFound(p) ==
  \A n \in 1 .. pipelines[p].num_modules : pipelines[p].modules[n].function # NULL

FoundProgress(a) ==
  LET r == setup[a]
      p == pipelines[r.param]
  IN  r.step \in {"function", "param_id"} =>
        /\ p.num_modules = Len(r.def)
        /\ \A n \in 1 .. r.idx - 1 : p.modules[n].function # NULL
        /\ r.step = "param_id" => p.modules[r.idx].function # NULL

AllFound ==
  /\ \A p \in Pipelines : Settled(p) => PipelineFound(p)
  /\ \A a \in Actors : FoundProgress(a)

\* MissingModuleFailsOnce: once all modules are installed, a missing one is
\* either running right now, or all that has been set up since was found.
NullRunning == pc = "wait" /\ ran[Len(ran)].function = NULL

FoundInv ==
  ~overlap =>
    /\ nullRuns \in {0, 1}
    /\ nullRuns = 1 => installed = Names /\ (AllFound \/ NullRunning)

StorageInv == installed \subseteq Names /\ ThreadInv /\ FollowInv /\ FoundInv

-----------------------------------------------------------------------------
(* What the steps leave alone.                                             *)

\* A step of a setup function concerns its own record and its own entry.
LEMMA SetupFrame ==
  ASSUME IInv, NEW a \in Actors, Setup(a)
  PROVE  /\ Active(a) /\ setup[a].param \in Params
         /\ UNCHANGED <<stored, installed, threadVars, ran, nullRuns, overlap>>
         /\ \A b \in Actors : b # a => setup'[b] = setup[b]
         /\ Active(a)' => setup'[a].param = setup[a].param
         /\ \A p \in Pipelines : p # setup[a].param => pipelines'[p] = pipelines[p]
         /\ \A m \in 1 .. NumLists :
              NumPipelines + m # setup[a].param => module_parameter_lists'[m] = module_parameter_lists[m]
         /\ faulted => faulted'
<1>1. setup \in [Actors -> SetupRecord] /\ GoodRecord(setup[a])
  BY DEF IInv, SetupInv
<1>2. setup[a].param \in Params
  BY <1>1 DEF GoodRecord, SetupRecord
<1>3. ASSUME NEW step, NEW def, NEW idx, At(a, step, def, idx)
      PROVE  /\ \A b \in Actors : b # a => setup'[b] = setup[b]
             /\ setup'[a].param = setup[a].param
  BY <1>1, <1>3 DEF At
<1>4. ASSUME Return(a)
      PROVE  /\ \A b \in Actors : b # a => setup'[b] = setup[b]
             /\ ~Active(a)'
  BY <1>1, <1>4 DEF Return, NoSetup, Active
<1>5. ASSUME NEW n, NEW parameters, SetList(a, n, parameters), ~IsPipeline(setup[a].param)
      PROVE  \A m \in 1 .. NumLists :
               NumPipelines + m # setup[a].param => module_parameter_lists'[m] = module_parameter_lists[m]
  <2>1. \A m \in 1 .. NumLists : NumPipelines + m # setup[a].param => m # ListOf(setup[a].param)
    BY <1>2, CacheAssumption DEF ListOf, Params, CacheAssumption
  <2>2. module_parameter_lists \in [1 .. NumLists -> [n_parameters : Nat, parameters : Seq(STRING)]]
    BY DEF IInv, TableTypes
  <2> QED
    BY <1>5, <2>1, <2>2 DEF SetList
<1>6. \A p \in Pipelines : pipelines[p] = pipelines[p] /\ DOMAIN pipelines = Pipelines
  BY DEF IInv, TableTypes
<1> USE <1>2 DEF diskVars, tableVars, threadVars, historyVars, Active
<1>7. CASE ReadParam(a) \/ ReadParamFails(a)
  BY <1>3, <1>7 DEF ReadParam, ReadParamFails, Unpacked
<1>8. CASE SkipParam(a) \/ SetupDone(a)
  BY <1>4, <1>8 DEF SkipParam, SetupDone
<1>9. CASE PipelineHeader(a)
  BY <1>3, <1>6, <1>9 DEF PipelineHeader, Goto
<1>10. CASE LoadModule(a)
  BY <1>3, <1>6, <1>10 DEF LoadModule, LoadModuleInto, SetModule, Goto
<1>11. CASE SetParamId(a)
  BY <1>3, <1>6, <1>11 DEF SetParamId, SetModule, GotoNext
<1>12. CASE ListHeader(a)
  BY <1>3, <1>5, <1>12 DEF ListHeader, Goto
<1>13. CASE AllocList(a)
  BY <1>1, <1>3, <1>5, <1>13 DEF AllocList, Goto, GoodRecord
<1>14. CASE AllocFails(a)
  BY <1>1, <1>4, <1>5, <1>14 DEF AllocFails, GoodRecord
<1>15. CASE SetParameter(a)
  BY <1>1, <1>3, <1>5, <1>15 DEF SetParameter, GotoNext, GoodRecord
<1> QED
  BY <1>7, <1>8, <1>9, <1>10, <1>11, <1>12, <1>13, <1>14, <1>15 DEF Setup

\* The threads are two, and only the router is not the processing thread.
LEMMA TwoActors ==
  /\ Router \in Actors /\ Processing \in Actors /\ Router # Processing
  /\ \A a \in Actors : a = Router \/ a = Processing
BY DEF Actors, Router, Processing

\* Without an overlap only one of them is in a setup function.
LEMMA OneActor ==
  ASSUME ThreadInv, ~overlap, NEW a \in Actors, NEW b \in Actors, Active(a), Active(b)
  PROVE  a = b
BY TwoActors DEF ThreadInv, Using

\* What At, and a return, make of the record of a thread.
LEMMA AtRecord ==
  ASSUME IInv, NEW a \in Actors, NEW step, NEW def, NEW idx, At(a, step, def, idx)
  PROVE  /\ setup'[a].step = step /\ setup'[a].param = setup[a].param
         /\ setup'[a].def = def /\ setup'[a].idx = idx
<1>1. setup \in [Actors -> SetupRecord]
  BY DEF IInv, SetupInv
<1> QED
  BY <1>1 DEF At

LEMMA ReturnRecord ==
  ASSUME IInv, NEW a \in Actors, Return(a)
  PROVE  setup'[a] = NoSetup
BY DEF Return, IInv, SetupInv

LEMMA StartKept ==
  ASSUME IInv, NEW a \in Actors, Setup(a), AtStart(a)
  PROVE  AtStart(a)'
<1>a. ASSUME NEW step, NEW def, NEW idx, At(a, step, def, idx)
      PROVE  setup'[a].step = step /\ setup'[a].idx = idx
  BY <1>a, AtRecord
<1>b. ASSUME Return(a) PROVE setup'[a].step = "none"
  BY <1>b, ReturnRecord DEF NoSetup
<1> USE <1>a, <1>b DEF AtStart, Unpacked, Goto, GotoNext
<1>1. CASE ReadParam(a) \/ ReadParamFails(a)
  BY <1>1 DEF ReadParam, ReadParamFails
<1>2. CASE SkipParam(a) \/ SetupDone(a) \/ AllocFails(a)
  BY <1>2 DEF SkipParam, SetupDone, AllocFails
<1>3. CASE PipelineHeader(a)
  BY <1>3 DEF PipelineHeader
<1>5. CASE LoadModule(a)
  BY <1>5 DEF LoadModule, LoadModuleInto
<1>6. CASE SetParamId(a)
  BY <1>6 DEF SetParamId
<1>4. CASE ListHeader(a) \/ AllocList(a) \/ SetParameter(a)
  BY <1>4 DEF ListHeader, AllocList, SetParameter
<1> QED
  BY <1>1, <1>2, <1>3, <1>4, <1>5, <1>6 DEF Setup

LEMMA ThreadKept == IInv /\ ThreadInv /\ [Next]_vars => ThreadInv'
<1> SUFFICES ASSUME IInv, ThreadInv, [Next]_vars PROVE ThreadInv'
  OBVIOUS
<1> USE TwoActors
<1>e. setup \in [Actors -> SetupRecord] /\ next \in 1 .. NumPipelines + NumLists + 1
  BY DEF IInv, SetupInv, LoopTypes
<1>1. ASSUME NEW a \in Actors, Setup(a) PROVE ThreadInv'
  <2>1. /\ Active(a) /\ UNCHANGED <<is_setup, pc, next, overlap>>
        /\ \A b \in Actors : b # a => setup'[b] = setup[b]
        /\ Active(a)' => setup'[a].param = setup[a].param
    BY <1>1, SetupFrame DEF threadVars
  <2>2. AtStart(a)'
    BY <1>1, StartKept DEF ThreadInv
  <2> QED
    BY <2>1, <2>2 DEF ThreadInv, Active, AtStart
<1>2. ASSUME NEW k \in Params, NEW v, SetParam(k, v) PROVE ThreadInv'
  <2>1. /\ UNCHANGED <<is_setup, pc, next>> /\ setup'[Processing] = setup[Processing]
        /\ setup'[Router] = BeginSetup(k)
    BY <1>2, <1>e DEF SetParam, threadVars
  <2>2. (~overlap' => pc \notin Using) /\ pc # "undefined"
    BY <1>2 DEF SetParam
  <2>3. (\A a \in Actors : AtStart(a))'
    BY <2>1 DEF ThreadInv, AtStart, BeginSetup
  <2> QED
    BY <2>1, <2>2, <2>3 DEF ThreadInv, Active
<1>3. CASE Restart
  BY <1>3, <1>e DEF Restart, Fresh, ThreadInv, Active, AtStart, NoSetup
<1>4. ASSUME NEW p \in Pipelines, Execute(p) PROVE ThreadInv'
  <2>1. pc = "ready" /\ pc' = "loop" /\ UNCHANGED <<setup, is_setup, next>>
    BY <1>4 DEF Execute
  <2>2. ~overlap' => ~Active(Router)
    BY <1>4 DEF Execute, StartsUsing, Active
  <2> QED
    BY <2>1, <2>2 DEF ThreadInv, Active, AtStart
<1>12. ASSUME NEW p \in Pipelines, Refuse(p) PROVE ThreadInv'
  BY <1>12 DEF Refuse, ThreadInv, Active, AtStart, Using
<1>5. CASE CacheIsSetup
  BY <1>5 DEF CacheIsSetup, ThreadInv, Active, AtStart, historyVars, Using
<1>6. CASE RebuildCache
  BY <1>6 DEF RebuildCache, StartsUsing, ThreadInv, Active, AtStart
<1>7. CASE RebuildParam
  <2>1. /\ setup'[Processing] = BeginSetup(next) /\ setup'[Router] = setup[Router]
        /\ next' = next + 1 /\ pc = "rebuild" /\ UNCHANGED <<is_setup, pc, overlap>>
    BY <1>7, <1>e DEF RebuildParam, historyVars
  <2>2. next < next + 1
    BY <1>e, CacheAssumption DEF CacheAssumption
  <2> QED
    BY <2>1, <2>2 DEF ThreadInv, Active, AtStart, BeginSetup
<1>8. CASE RebuildDone
  BY <1>8 DEF RebuildDone, ThreadInv, Active, AtStart, historyVars, Using
<1>9. CASE Fork \/ ModuleSucceeds \/ ModuleFails \/ Finish \/ Reset
  BY <1>9 DEF Fork, ModuleSucceeds, ModuleFails, Finish, Reset, ThreadInv, Active, AtStart, historyVars, Using
<1>10. ASSUME NEW name \in Names, Install(name) PROVE ThreadInv'
  BY <1>10 DEF Install, ThreadInv, Active, AtStart, threadVars, historyVars
<1>11. CASE UNCHANGED vars
  BY <1>11 DEF vars, ThreadInv, Active, AtStart, threadVars, historyVars
<1>13. ASSUME NEW a \in Actors, PipelineOverruns(a) PROVE ThreadInv'
  BY <1>13 DEF PipelineOverruns, Fresh, ThreadInv, Active, AtStart, NoSetup
<1>14. ASSUME NEW k \in Params, NEW v, StoreParam(k, v) PROVE ThreadInv'
  BY <1>14 DEF StoreParam, ThreadInv, Active, AtStart, threadVars
<1>15. CASE Undefined
  BY <1>15 DEF Undefined, ThreadInv, Active, AtStart, threadVars, historyVars
<1> QED
  BY <1>1, <1>2, <1>3, <1>4, <1>5, <1>6, <1>7, <1>8, <1>9, <1>10, <1>11, <1>12, <1>13, <1>14, <1>15
    DEF Next, Thread

-----------------------------------------------------------------------------
(* How a setup function gets on with its entry.                            *)

\* What a thread unpacks is what the parameter prescribes.
LEMMA ReadsWanted ==
  ASSUME IInv, NEW a \in Actors, ReadParam(a) \/ (ReadParamFails(a) /\ ~faulted')
  PROVE  /\ setup'[a].step = "header" /\ setup'[a].def = Wanted(setup[a].param)
         /\ setup'[a].param = setup[a].param
<1> DEFINE k == setup[a].param
           v == stored[k]
<1>1. k \in Params
  BY DEF IInv, SetupInv, SetupRecord
<1>2. ~IsPipeline(k) => NumPipelines + ListOf(k) = k
  BY <1>1, CacheAssumption DEF ListOf, Params, CacheAssumption
<1>3. v \in {Empty, Undecodable} => Wanted(k) = <<>>
  BY <1>2, CacheAssumption DEF Wanted, Prescribed, Configured, CacheAssumption
<1>4. v \in DOMAIN Contents(k) => Wanted(k) = Contents(k)[v]
  BY <1>2 DEF Wanted, Prescribed, Configured, Contents
<1>5. PICK def : Unpacked(a, def) /\ def = Wanted(k)
  <2>1. CASE ReadParam(a)
    BY <1>3, <1>4, <2>1, CacheAssumption DEF ReadParam, CacheAssumption
  <2>2. CASE ReadParamFails(a) /\ ~faulted'
    BY <1>3, <2>2 DEF ReadParamFails
  <2> QED
    BY <2>1, <2>2
<1> HIDE DEF k
<1> QED
  BY <1>5, AtRecord DEF Unpacked, k

\* One module of a pipeline is written, the others stay.
LEMMA ModuleWritten ==
  ASSUME IInv, NEW p \in Pipelines, NEW n \in 1 .. ArraySize, NEW function, NEW param_id,
         SetModule(p, n, function, param_id)
  PROVE  /\ pipelines'[p].num_modules = pipelines[p].num_modules
         /\ pipelines'[p].modules[n].function = function
         /\ pipelines'[p].modules[n].param_id = param_id
         /\ \A j \in 1 .. ArraySize : j # n => pipelines'[p].modules[j] = pipelines[p].modules[j]
<1> DEFINE slot == [function |-> function, param_id |-> param_id]
           modules == [pipelines[p].modules EXCEPT ![n] = slot]
           pipeline == [pipelines[p] EXCEPT !.modules = modules]
<1>1. pipelines \in [Pipelines -> PipelineRecord]
  BY DEF IInv, TableTypes
<1>2. DOMAIN pipelines[p].modules = 1 .. ArraySize
  BY <1>1 DEF PipelineRecord
<1>3. pipelines' = [pipelines EXCEPT ![p] = pipeline]
  BY DEF SetModule
<1>4. slot.function = function /\ slot.param_id = param_id
  OBVIOUS
<1>5. \A j \in 1 .. ArraySize : modules[j] = IF j = n THEN slot ELSE pipelines[p].modules[j]
  <2> HIDE DEF slot
  <2> QED
    BY <1>2
<1>6. pipeline.modules = modules /\ pipeline.num_modules = pipelines[p].num_modules
  <2> HIDE DEF modules
  <2> QED
    BY <1>1 DEF PipelineRecord
<1> HIDE DEF pipeline, modules, slot
<1>7. pipelines'[p] = pipeline
  BY <1>1, <1>3
<1> QED
  BY <1>4, <1>5, <1>6, <1>7

\* Header, function and param_id of the next module: the modules before it are those that were
\* unpacked.
LEMMA PipelineStep ==
  ASSUME IInv, NEW a \in Actors, AtStart(a), PipelineProgress(a),
         PipelineHeader(a) \/ LoadModule(a) \/ SetParamId(a)
  PROVE  PipelineProgress(a)' /\ setup'[a].def = setup[a].def /\ setup'[a].step \in {"function", "param_id"}
<1> DEFINE p == setup[a].param
           def == setup[a].def
           n == setup[a].idx
<1>1. GoodRecord(setup[a])
  BY DEF IInv, SetupInv
<1>2. IsPipeline(p) /\ Fits(setup[a])
  BY <1>1 DEF PipelineHeader, LoadModule, LoadModuleInto, SetParamId, GoodRecord, Fits
<1>3. /\ p \in Pipelines /\ Len(def) \in Nat /\ DOMAIN def = 1 .. Len(def)
      /\ \A j \in 1 .. Len(def) : j \in 1 .. ArraySize
  BY <1>2, PipelineBeingSetUp
<1>4. n \in Nat
  BY <1>1 DEF GoodRecord, SetupRecord
<1>5. CASE PipelineHeader(a)
  <2>1. n = 1 /\ setup[a].step = "header"
    BY <1>5 DEF PipelineHeader, AtStart
  <2>2. /\ setup'[a].step = "function" /\ setup'[a].param = p /\ setup'[a].def = def
        /\ setup'[a].idx = 1
    BY <1>5, <2>1, AtRecord DEF PipelineHeader, Goto
  <2>3. pipelines'[p].num_modules = Len(def)
    BY <1>3, <1>5 DEF PipelineHeader, IInv, TableTypes, PipelineRecord
  <2> HIDE DEF p, def, n
  <2>4. PipelineBuilt(pipelines'[p], setup'[a])
    BY <2>2, <2>3 DEF PipelineBuilt
  <2> QED
    BY <2>2, <2>4 DEF PipelineProgress, def
<1>6. CASE LoadModule(a)
  <2>1. setup[a].step = "function" /\ n <= Len(def)
    BY <1>6 DEF LoadModule, LoadModuleInto
  <2>2. n \in 1 .. Len(def) /\ n \in 1 .. ArraySize
    BY <1>1, <1>3, <2>1 DEF GoodRecord
  <2>3. /\ setup'[a].step = "param_id" /\ setup'[a].param = p /\ setup'[a].def = def
        /\ setup'[a].idx = n
    BY <1>6, AtRecord, SMTT(30) DEF LoadModule, LoadModuleInto, Goto
  <2>4. PICK function \in {def[n].name, NULL} : SetModule(p, n, function, pipelines[p].modules[n].param_id)
    BY <1>6 DEF LoadModule, LoadModuleInto
  <2>5. /\ pipelines[p].num_modules = Len(def)
        /\ \A j \in 1 .. n - 1 : LoadedAs(pipelines[p].modules[j], def[j])
    BY <2>1 DEF PipelineProgress, PipelineBuilt
  <2> HIDE DEF p, def, n
  <2>6. /\ pipelines'[p].num_modules = Len(def) /\ pipelines'[p].modules[n].function = function
        /\ \A j \in 1 .. ArraySize : j # n => pipelines'[p].modules[j] = pipelines[p].modules[j]
    BY <1>3, <2>2, <2>4, <2>5, ModuleWritten
  <2>7. \A j \in 1 .. n - 1 : LoadedAs(pipelines'[p].modules[j], def[j])
    <3>1. \A j \in 1 .. n - 1 : j \in 1 .. ArraySize /\ j # n
      BY <2>2, CacheAssumption DEF CacheAssumption
    <3> QED
      BY <2>5, <2>6, <3>1
  <2>8. PipelineBuilt(pipelines'[p], setup'[a])
    BY <2>3, <2>6, <2>7 DEF PipelineBuilt
  <2> QED
    BY <2>3, <2>8 DEF PipelineProgress, def
<1>7. CASE SetParamId(a)
  <2>1. setup[a].step = "param_id"
    BY <1>7 DEF SetParamId
  <2>2. n \in 1 .. Len(def) /\ n \in 1 .. ArraySize
    BY <1>1, <1>3, <2>1 DEF GoodRecord
  <2>3. /\ setup'[a].step = "function" /\ setup'[a].param = p /\ setup'[a].def = def
        /\ setup'[a].idx = n + 1
    BY <1>7, AtRecord DEF SetParamId, GotoNext
  <2>4. SetModule(p, n, pipelines[p].modules[n].function, def[n].param_id)
    BY <1>7 DEF SetParamId
  <2>5. /\ pipelines[p].num_modules = Len(def)
        /\ \A j \in 1 .. n - 1 : LoadedAs(pipelines[p].modules[j], def[j])
        /\ pipelines[p].modules[n].function \in {def[n].name, NULL}
    BY <2>1 DEF PipelineProgress, PipelineBuilt
  <2> HIDE DEF p, def, n
  <2>6. /\ pipelines'[p].num_modules = Len(def)
        /\ pipelines'[p].modules[n].function = pipelines[p].modules[n].function
        /\ pipelines'[p].modules[n].param_id = def[n].param_id
        /\ \A j \in 1 .. ArraySize : j # n => pipelines'[p].modules[j] = pipelines[p].modules[j]
    BY <1>3, <2>2, <2>4, <2>5, ModuleWritten
  <2>7. ASSUME NEW j \in 1 .. n PROVE LoadedAs(pipelines'[p].modules[j], def[j])
    <3>1. CASE j = n
      BY <2>5, <2>6, <3>1 DEF LoadedAs
    <3>2. CASE j # n
      <4>1. j \in 1 .. n - 1 /\ j \in 1 .. ArraySize
        BY <2>2, <3>2, CacheAssumption DEF CacheAssumption
      <4> QED
        BY <2>5, <2>6, <3>2, <4>1
    <3> QED
      BY <3>1, <3>2
  <2>8. setup'[a].idx - 1 = n
    BY <1>4, <2>3
  <2>9. PipelineBuilt(pipelines'[p], setup'[a])
    BY <2>3, <2>6, <2>7, <2>8 DEF PipelineBuilt
  <2> QED
    BY <2>3, <2>9 DEF PipelineProgress, def
<1> QED
  BY <1>5, <1>6, <1>7

\* The entry of a list is replaced.
LEMMA ListWritten ==
  ASSUME IInv, NEW a \in Actors, ListOf(setup[a].param) \in 1 .. NumLists,
         NEW n_parameters, NEW parameters, SetList(a, n_parameters, parameters)
  PROVE  /\ module_parameter_lists'[ListOf(setup[a].param)].n_parameters = n_parameters
         /\ module_parameter_lists'[ListOf(setup[a].param)].parameters = parameters
BY DEF SetList, IInv, TableTypes

\* Header, array and elements of a list: the elements before the next are those that were
\* unpacked.
LEMMA ListStep ==
  ASSUME IInv, NEW a \in Actors, AtStart(a), ListProgress(a),
         ListHeader(a) \/ AllocList(a) \/ SetParameter(a)
  PROVE  ListProgress(a)' /\ setup'[a].def = setup[a].def /\ setup'[a].step \in {"alloc", "parameter"}
<1> DEFINE def == setup[a].def
           n == setup[a].idx
           m == ListOf(setup[a].param)
           entry == module_parameter_lists[m]
           new == module_parameter_lists'[m]
<1>1. GoodRecord(setup[a])
  BY DEF IInv, SetupInv
<1>2. ~IsPipeline(setup[a].param)
  BY <1>1 DEF ListHeader, AllocList, SetParameter, GoodRecord
<1>3. m \in 1 .. NumLists /\ def \in Seq(STRING) /\ Len(def) \in Nat
  BY <1>2, ListBeingSetUp
<1>4. n \in Nat /\ entry.parameters \in Seq(STRING)
  BY <1>1, <1>3 DEF GoodRecord, SetupRecord, IInv, TableTypes
<1>5. setup[a].step # "header" => ListBuilt(entry, setup[a])
  BY DEF ListProgress, List
<1>6. ASSUME ListBuilt(new, setup'[a]), setup'[a].param = setup[a].param PROVE ListProgress(a)'
  BY <1>6 DEF ListProgress, List, ListOf
<1>7. CASE ListHeader(a)
  <2>1. n = 1
    BY <1>7 DEF ListHeader, AtStart
  <2>2. /\ setup'[a].step = "alloc" /\ setup'[a].param = setup[a].param /\ setup'[a].def = def
    BY <1>7, AtRecord DEF ListHeader, Goto
  <2>3. SetList(a, Len(def), entry.parameters)
    BY <1>7 DEF ListHeader, List
  <2> HIDE DEF def, entry, n
  <2>4. new.n_parameters = Len(def)
    BY <1>3, <2>3, ListWritten
  <2> HIDE DEF new, m
  <2>5. ListBuilt(new, setup'[a])
    BY <2>2, <2>4 DEF ListBuilt
  <2> QED
    BY <1>6, <2>2, <2>5 DEF def
<1>8. CASE AllocList(a)
  <2>1. n = 1 /\ setup[a].step = "alloc"
    BY <1>8 DEF AllocList, AtStart
  <2>2. /\ setup'[a].step = "parameter" /\ setup'[a].param = setup[a].param /\ setup'[a].def = def
        /\ setup'[a].idx = n
    BY <1>8, AtRecord DEF AllocList, Goto
  <2> DEFINE array == [k \in 1 .. Len(def) |-> Junk]
  <2>3. SetList(a, entry.n_parameters, array)
    BY <1>8 DEF AllocList, List
  <2>4. Len(array) = Len(def)
    BY <1>3
  <2>5. entry.n_parameters = Len(def)
    BY <1>5, <2>1 DEF ListBuilt
  <2> HIDE DEF def, entry, n, array
  <2>6. new.n_parameters = Len(def) /\ new.parameters = array
    BY <1>3, <2>3, <2>5, ListWritten
  <2> HIDE DEF new, m
  <2>7. \A j : j \notin 1 .. setup'[a].idx - 1
    BY <2>1, <2>2
  <2>8. ListBuilt(new, setup'[a])
    BY <2>2, <2>4, <2>6, <2>7 DEF ListBuilt
  <2> QED
    BY <1>6, <2>2, <2>8 DEF def
<1>9. CASE SetParameter(a)
  <2>1. setup[a].step = "parameter" /\ n \in 1 .. Len(def)
    BY <1>1, <1>9 DEF SetParameter, GoodRecord
  <2>2. /\ setup'[a].step = "parameter" /\ setup'[a].param = setup[a].param /\ setup'[a].def = def
        /\ setup'[a].idx = n + 1
    BY <1>9, AtRecord DEF SetParameter, GotoNext
  <2>3. /\ entry.n_parameters = Len(def) /\ Len(entry.parameters) = Len(def)
        /\ \A j \in 1 .. n - 1 : entry.parameters[j] = def[j]
    BY <1>5, <2>1 DEF ListBuilt
  <2> DEFINE array == [entry.parameters EXCEPT ![n] = def[n]]
  <2>4. n \in DOMAIN entry.parameters
    BY <1>4, <2>1, <2>3
  <2>5. SetList(a, entry.n_parameters, array)
    BY <1>9, <2>4 DEF SetParameter, List
  <2> HIDE DEF def, entry, n
  <2>6. Len(array) = Len(def) /\ \A j \in 1 .. n : array[j] = def[j]
    <3>1. array \in Seq(STRING) /\ Len(array) = Len(def)
      BY <1>3, <1>4, <2>1, <2>3
    <3>2. ASSUME NEW j \in 1 .. n PROVE array[j] = def[j]
      <4>1. j \in 1 .. Len(def)
        BY <1>3, <2>1
      <4>2. j \in DOMAIN entry.parameters
        BY <1>4, <2>3, <4>1
      <4>3. j # n => j \in 1 .. n - 1
        BY <1>4
      <4> QED
        BY <2>3, <4>2, <4>3
    <3> QED
      BY <3>1, <3>2
  <2> HIDE DEF array
  <2>7. new.n_parameters = Len(def) /\ new.parameters = array
    BY <1>3, <2>3, <2>5, ListWritten
  <2> HIDE DEF new, m
  <2>8. setup'[a].idx - 1 = n
    BY <1>4, <2>2
  <2>9. ListBuilt(new, setup'[a])
    BY <2>2, <2>6, <2>7, <2>8 DEF ListBuilt
  <2> QED
    BY <1>6, <2>2, <2>9 DEF def
<1> QED
  BY <1>7, <1>8, <1>9

\* The functions by which a thread returns from a setup function.
LEMMA OnlyReturns ==
  ASSUME IInv, NEW a \in Actors, Setup(a), ~Active(a)'
  PROVE  SkipParam(a) \/ AllocFails(a) \/ SetupDone(a)
<1>1. ASSUME NEW step, NEW def, NEW idx, At(a, step, def, idx) PROVE setup'[a].step = step
  BY <1>1, AtRecord
<1> USE <1>1 DEF Active, Unpacked, Goto, GotoNext
<1>2. ~(ReadParam(a) \/ ReadParamFails(a))
  BY DEF ReadParam, ReadParamFails
<1>3. ~(PipelineHeader(a) \/ LoadModule(a) \/ SetParamId(a))
  BY DEF PipelineHeader, LoadModule, LoadModuleInto, SetParamId
<1>4. ~(ListHeader(a) \/ AllocList(a) \/ SetParameter(a))
  BY DEF ListHeader, AllocList, SetParameter
<1> QED
  BY <1>2, <1>3, <1>4 DEF Setup

\* When it returns, the entry is what the parameter prescribes.
LEMMA EntryComplete ==
  ASSUME IInv, NEW a \in Actors, Setup(a), ~Active(a)', ~faulted',
         setup[a].step # "read" =>
           setup[a].def = Wanted(setup[a].param) /\ PipelineProgress(a) /\ ListProgress(a),
         stored[setup[a].param] # Garbled
  PROVE  /\ IsPipeline(setup[a].param) => PipelineFollows(setup[a].param)
         /\ ~IsPipeline(setup[a].param) => ListFollows(ListOf(setup[a].param))
         /\ UNCHANGED tableVars
<1> DEFINE k == setup[a].param
           def == setup[a].def
<1>1. SetupDone(a)
  BY OnlyReturns DEF SkipParam, AllocFails
<1>2. /\ setup[a].step \in {"function", "parameter"} /\ setup[a].idx > Len(def)
      /\ UNCHANGED tableVars
  BY <1>1 DEF SetupDone
<1>3. GoodRecord(setup[a])
  BY DEF IInv, SetupInv
<1>4. def = Wanted(k) /\ PipelineProgress(a) /\ ListProgress(a)
  BY <1>2
<1>5. CASE IsPipeline(k)
  <2>1. setup[a].step = "function" /\ Len(def) \in Nat
    BY <1>2, <1>3, <1>5, PipelineBeingSetUp DEF GoodRecord, Fits
  <2>2. setup[a].idx - 1 = Len(def)
    BY <1>2, <1>3, <2>1 DEF GoodRecord, SetupRecord
  <2>3. /\ pipelines[k].num_modules = Len(def)
        /\ \A n \in 1 .. Len(def) : LoadedAs(pipelines[k].modules[n], def[n])
    BY <1>4, <2>1, <2>2 DEF PipelineProgress, PipelineBuilt
  <2>4. def = Prescribed(k)
    BY <1>4, <1>5 DEF Wanted
  <2> HIDE DEF def, k
  <2>5. PipelineFollows(k)
    BY <2>3, <2>4 DEF PipelineFollows
  <2> QED
    BY <1>2, <1>5, <2>5 DEF k
<1>6. CASE ~IsPipeline(k)
  <2> DEFINE m == ListOf(k)
             entry == module_parameter_lists[m]
  <2>1. /\ setup[a].step = "parameter" /\ m \in 1 .. NumLists
        /\ def \in Seq(STRING) /\ Len(def) \in Nat
    BY <1>2, <1>3, <1>6, ListBeingSetUp DEF GoodRecord
  <2>2. setup[a].idx - 1 = Len(def)
    BY <1>2, <1>3, <2>1 DEF GoodRecord, SetupRecord
  <2>3. /\ entry.n_parameters = Len(def) /\ Len(entry.parameters) = Len(def)
        /\ \A n \in 1 .. Len(def) : entry.parameters[n] = def[n]
    BY <1>4, <2>1, <2>2 DEF ListProgress, ListBuilt, List
  <2>4. entry.parameters \in Seq(STRING)
    BY <2>1 DEF IInv, TableTypes
  <2>5. def = Configured(m)
    BY <1>4, <1>6 DEF Wanted
  <2> HIDE DEF def, k, entry
  <2>6. entry.parameters = def
    BY <2>1, <2>3, <2>4
  <2> HIDE DEF m
  <2>7. ListFollows(m)
    BY <2>3, <2>5, <2>6 DEF ListFollows, entry
  <2> QED
    BY <1>2, <1>6, <2>7 DEF k, m
<1> QED
  BY <1>5, <1>6

-----------------------------------------------------------------------------
(* The tables follow the storage.                                          *)

LEMMA ParamsSplit ==
  /\ \A p \in Pipelines : p \in Params
  /\ \A m \in 1 .. NumLists : NumPipelines + m \in Params /\ NumPipelines + m \notin Pipelines
BY CacheAssumption DEF Pipelines, Params, CacheAssumption

\* A step that touches neither tables nor storage.
LEMMA TablesStay ==
  ASSUME Progress, TablesFollow, UNCHANGED <<stored, setup, tableVars>>,
         \A k \in Params : SetUp(k)' => SetUp(k)
  PROVE  Progress' /\ TablesFollow'
<1> USE DEF tableVars
<1>1. Progress'
  <2>1. ASSUME NEW a \in Actors, Active(a)', setup'[a].step # "read"
        PROVE  /\ setup'[a].def = Wanted(setup[a].param)
               /\ PipelineProgress(a)' /\ ListProgress(a)'
    BY <2>1 DEF Progress, Active, PipelineProgress, ListProgress, List
  <2>2. \A k : Wanted(k)' = Wanted(k)
    BY DEF Wanted, Prescribed, Configured
  <2> QED
    BY <2>1, <2>2 DEF Progress
<1>2. \A k \in Params : Settled(k)' => Settled(k)
  BY DEF Settled, Occupied, Active
<1>3. ASSUME NEW p \in Pipelines, Settled(p)' PROVE PipelineFollows(p)'
  BY <1>2, <1>3, ParamsSplit DEF TablesFollow, PipelineFollows, Prescribed
<1>4. ASSUME NEW m \in 1 .. NumLists, Settled(NumPipelines + m)' PROVE ListFollows(m)'
  BY <1>2, <1>4, ParamsSplit DEF TablesFollow, ListFollows, Configured
<1> QED
  BY <1>1, <1>3, <1>4 DEF TablesFollow

\* The other parameters are settled after a step of a setup function only if they were.
LEMMA SetupSettled ==
  ASSUME IInv, ThreadInv, ~overlap, NEW a \in Actors, Setup(a),
         NEW j \in Params, j # setup[a].param, Settled(j)'
  PROVE  Settled(j)
<1>1. /\ Active(a) /\ UNCHANGED <<stored, is_setup, pc, next>>
      /\ \A b \in Actors : b # a => setup'[b] = setup[b]
  BY SetupFrame DEF threadVars
<1>2. \A b \in Actors : b # a => ~Active(b)
  BY <1>1, OneActor
<1> QED
  BY <1>1, <1>2 DEF Settled, SetUp, Occupied

\* A step of a setup function.
LEMMA SetupFollows ==
  ASSUME IInv, ThreadInv, ~overlap, Progress, TablesFollow, NEW a \in Actors, Setup(a), ~faulted'
  PROVE  Progress' /\ TablesFollow'
<1> PICK k \in Params : k = setup[a].param
  BY SetupFrame
<1>1. /\ Active(a) /\ k \in Params /\ UNCHANGED <<stored, is_setup, pc, next>>
      /\ \A b \in Actors : b # a => setup'[b] = setup[b]
      /\ Active(a)' => setup'[a].param = k
      /\ \A p \in Pipelines : p # k => pipelines'[p] = pipelines[p]
      /\ \A m \in 1 .. NumLists :
           NumPipelines + m # k => module_parameter_lists'[m] = module_parameter_lists[m]
  BY SetupFrame DEF threadVars
<1>2. \A b \in Actors : b # a => ~Active(b) /\ ~Active(b)'
  BY <1>1, OneActor DEF Active
<1>3. setup[a].step # "read" =>
        setup[a].def = Wanted(k) /\ PipelineProgress(a) /\ ListProgress(a)
  BY <1>1 DEF Progress
<1>4. \A j : Wanted(j)' = Wanted(j) /\ Prescribed(j)' = Prescribed(j) /\ Configured(j)' = Configured(j)
  BY <1>1 DEF Wanted, Prescribed, Configured
<1>5. AtStart(a)
  BY DEF ThreadInv
<1>6. Progress'
  <2>1. ASSUME Active(a)', setup'[a].step # "read"
        PROVE  setup'[a].def = Wanted(k) /\ PipelineProgress(a)' /\ ListProgress(a)'
    <3>1. CASE ReadParam(a) \/ ReadParamFails(a)
      <4>1. setup'[a].step = "header" /\ setup'[a].def = Wanted(k)
        BY <3>1, ReadsWanted
      <4> QED
        BY <4>1 DEF PipelineProgress, PipelineBuilt, ListProgress, ListBuilt
    <3>2. CASE PipelineHeader(a) \/ LoadModule(a) \/ SetParamId(a)
      <4>1. setup[a].step # "read"
        BY <3>2 DEF PipelineHeader, LoadModule, LoadModuleInto, SetParamId
      <4>2. /\ PipelineProgress(a)' /\ setup'[a].def = setup[a].def
            /\ setup'[a].step \in {"function", "param_id"}
        BY <1>3, <1>5, <3>2, <4>1, PipelineStep
      <4> QED
        BY <1>3, <4>1, <4>2 DEF ListProgress, ListBuilt
    <3>3. CASE ListHeader(a) \/ AllocList(a) \/ SetParameter(a)
      <4>1. setup[a].step # "read"
        BY <3>3 DEF ListHeader, AllocList, SetParameter
      <4>2. /\ ListProgress(a)' /\ setup'[a].def = setup[a].def
            /\ setup'[a].step \in {"alloc", "parameter"}
        BY <1>3, <1>5, <3>3, <4>1, ListStep
      <4> QED
        BY <1>3, <4>1, <4>2 DEF PipelineProgress, PipelineBuilt
    <3>4. CASE SkipParam(a) \/ AllocFails(a) \/ SetupDone(a)
      <4>1. setup'[a] = NoSetup
        BY <3>4, ReturnRecord DEF SkipParam, AllocFails, SetupDone
      <4> QED
        BY <2>1, <4>1 DEF Active, NoSetup
    <3> QED
      BY <3>1, <3>2, <3>3, <3>4 DEF Setup
  <2> QED
    BY <1>1, <1>2, <1>4, <2>1 DEF Progress
<1>7. \A j \in Params : Settled(j)' /\ j # k => Settled(j)
  BY SetupSettled
<1>8. ASSUME Settled(k)'
      PROVE  /\ IsPipeline(k) => PipelineFollows(k)
             /\ ~IsPipeline(k) => ListFollows(ListOf(k))
             /\ UNCHANGED tableVars
  <2>1. ~Active(a)' /\ stored[k] # Garbled
    BY <1>1, <1>8 DEF Settled, Occupied
  <2> QED
    BY <1>1, <1>3, <2>1, EntryComplete
<1>9. ASSUME NEW p \in Pipelines, Settled(p)' PROVE PipelineFollows(p)'
  <2>1. CASE p = k
    <3>1. PipelineFollows(p) /\ pipelines' = pipelines
      BY <1>8, <1>9, <2>1 DEF IsPipeline, tableVars
    <3> QED
      BY <1>4, <3>1 DEF PipelineFollows
  <2>2. CASE p # k
    <3>1. PipelineFollows(p) /\ pipelines'[p] = pipelines[p]
      BY <1>1, <1>7, <1>9, <2>2, ParamsSplit DEF TablesFollow
    <3> QED
      BY <1>4, <3>1 DEF PipelineFollows
  <2> QED
    BY <2>1, <2>2
<1>10. ASSUME NEW m \in 1 .. NumLists, Settled(NumPipelines + m)' PROVE ListFollows(m)'
  <2>1. CASE NumPipelines + m = k
    <3>1. ~IsPipeline(k) /\ ListOf(k) = m
      BY <2>1, ParamsSplit, CacheAssumption DEF IsPipeline, ListOf, CacheAssumption
    <3>2. ListFollows(m) /\ module_parameter_lists' = module_parameter_lists
      BY <1>8, <1>10, <2>1, <3>1 DEF tableVars
    <3> QED
      BY <1>4, <3>2 DEF ListFollows
  <2>2. CASE NumPipelines + m # k
    <3>1. ListFollows(m) /\ module_parameter_lists'[m] = module_parameter_lists[m]
      BY <1>1, <1>7, <1>10, <2>2, ParamsSplit DEF TablesFollow
    <3> QED
      BY <1>4, <3>1 DEF ListFollows
  <2> QED
    BY <2>1, <2>2
<1> QED
  BY <1>6, <1>9, <1>10 DEF TablesFollow

\* The histories only grow.
LEMMA HistoryGrows ==
  ASSUME IInv, [Next]_vars
  PROVE  (~overlap' => ~overlap) /\ (~faulted' => ~faulted)
<1>1. ASSUME NEW a \in Actors, Setup(a) PROVE (~overlap' => ~overlap) /\ (~faulted' => ~faulted)
  BY <1>1, SetupFrame
<1>2. ASSUME NEW k \in Params, NEW v, SetParam(k, v) PROVE (~overlap' => ~overlap) /\ (~faulted' => ~faulted)
  BY <1>2 DEF SetParam
<1>3. ASSUME NEW p \in Pipelines, Execute(p) PROVE (~overlap' => ~overlap) /\ (~faulted' => ~faulted)
  BY <1>3 DEF Execute, StartsUsing
<1>9. ASSUME NEW p \in Pipelines, Refuse(p) PROVE (~overlap' => ~overlap) /\ (~faulted' => ~faulted)
  BY <1>9 DEF Refuse
<1>4. ASSUME NEW name \in Names, Install(name) PROVE (~overlap' => ~overlap) /\ (~faulted' => ~faulted)
  BY <1>4 DEF Install, historyVars
<1>5. CASE RebuildCache
  BY <1>5 DEF RebuildCache, StartsUsing
<1>6. CASE Restart \/ CacheIsSetup \/ RebuildParam \/ RebuildDone
  BY <1>6 DEF Restart, Fresh, CacheIsSetup, RebuildParam, RebuildDone, historyVars
<1>7. CASE Fork \/ ModuleSucceeds \/ ModuleFails \/ Finish \/ Reset
  BY <1>7 DEF Fork, ModuleSucceeds, ModuleFails, Finish, Reset, historyVars
<1>8. CASE UNCHANGED vars
  BY <1>8 DEF vars, historyVars
<1>10. ASSUME NEW a \in Actors, PipelineOverruns(a) PROVE (~overlap' => ~overlap) /\ (~faulted' => ~faulted)
  BY <1>10 DEF PipelineOverruns
<1>11. ASSUME NEW k \in Params, NEW v, StoreParam(k, v) PROVE (~overlap' => ~overlap) /\ (~faulted' => ~faulted)
  BY <1>11 DEF StoreParam
<1>12. CASE Undefined
  BY <1>12 DEF Undefined, historyVars
<1> QED
  BY <1>1, <1>2, <1>3, <1>4, <1>5, <1>6, <1>7, <1>8, <1>9, <1>10, <1>11, <1>12 DEF Next, Thread

\* A step that leaves the batch, or ends it.
LEMMA BatchStays ==
  ASSUME ~overlap, ~faulted, BatchFollowsStorage,
         \/ UNCHANGED <<ran, batch, stored>> /\ (pc' \in {"loop", "wait"} => pc \in {"loop", "wait"})
         \/ pc' \notin {"loop", "wait"}
  PROVE  BatchFollowsStorage'
<1>1. CASE pc' \notin {"loop", "wait"}
  BY <1>1 DEF BatchFollowsStorage
<1>2. CASE UNCHANGED <<ran, batch, stored>> /\ (pc' \in {"loop", "wait"} => pc \in {"loop", "wait"})
  BY <1>2 DEF BatchFollowsStorage, Prescribed, Configured
<1> QED
  BY <1>1, <1>2

\* The parameters that a child finds are the whole list.
LEMMA ParametersFollow ==
  ASSUME NEW m \in 1 .. NumLists, ListFollows(m)
  PROVE  ParametersOf(m) = Configured(m)
<1> DEFINE content == Configured(m)
<1>1. content \in Seq(STRING)
  <2>1. <<>> \in Seq(STRING)
    OBVIOUS
  <2> QED
    BY <2>1, ConfigsFit DEF Configured
<1>2. ParametersOf(m) = [k \in 1 .. Len(content) |-> IF k <= Len(content) THEN content[k] ELSE Junk]
  BY DEF ParametersOf, ListFollows
<1> HIDE DEF content
<1>3. [k \in 1 .. Len(content) |-> IF k <= Len(content) THEN content[k] ELSE Junk] = content
  <2>1. Len(content) \in Nat
    BY <1>1
  <2>2. \A k \in 1 .. Len(content) : k <= Len(content)
    BY <2>1
  <2>3. content = [k \in 1 .. Len(content) |-> content[k]]
    BY <1>1
  <2> QED
    BY <2>2, <2>3
<1> QED
  BY <1>2, <1>3 DEF content

LEMMA PrescribedFits ==
  ASSUME NEW p \in Pipelines
  PROVE  Prescribed(p) \in Seq(Module) /\ Len(Prescribed(p)) \in Nat
<1>1. <<>> \in Seq(Module) /\ Len(<<>>) = 0
  OBVIOUS
<1> QED
  BY <1>1, DefinitionsFit DEF Prescribed

\* While a batch is processed nobody is configuring.
LEMMA NobodyActive ==
  ASSUME ThreadInv, ~overlap, pc \in {"ready", "loop", "wait"}, pc = "ready" => ~Active(Router)
  PROVE  is_setup /\ \A a \in Actors : ~Active(a)
BY TwoActors DEF ThreadInv, Using

LEMMA BatchIsSettled ==
  ASSUME ThreadInv, ~overlap, pc \in {"loop", "wait"}, NEW k \in Params, stored[k] # Garbled
  PROVE  Settled(k)
BY NobodyActive DEF Settled, SetUp, Occupied

\* The next module of the batch is the one that is prescribed.
LEMMA ForkFollows ==
  ASSUME IInv, ThreadInv, ~overlap, ~faulted, TablesFollow, BatchFollowsStorage, Fork
  PROVE  BatchFollowsStorage'
<1> SUFFICES ASSUME stored[batch] # Garbled PROVE BatchFollowsStorage'
  BY DEF Fork, diskVars, BatchFollowsStorage
<1> DEFINE prescribed == Prescribed(batch)
           module == pipelines[batch].modules[i + 1]
           m == module.param_id
           new == [function |-> module.function, param_id |-> m, config |-> ParametersOf(m)]
<1>1. /\ pc = "loop" /\ i < pipelines[batch].num_modules /\ ran' = Append(ran, new)
      /\ UNCHANGED <<stored, batch>>
  BY DEF Fork, diskVars
<1>2. batch \in Pipelines /\ i \in Nat /\ ran \in Seq(Forked) /\ Len(ran) = i
  BY <1>1, CacheAssumption DEF IInv, LoopTypes, RanEver, CacheAssumption
<1>3. PipelineFollows(batch)
  BY <1>1, <1>2, BatchIsSettled, ParamsSplit DEF TablesFollow
<1>4. prescribed \in Seq(Module) /\ Len(prescribed) \in Nat
  BY <1>2, PrescribedFits, CacheAssumption DEF CacheAssumption
<1>5. i + 1 \in 1 .. Len(prescribed)
  BY <1>1, <1>2, <1>3, <1>4 DEF PipelineFollows
<1>6. module.function \in {prescribed[i + 1].name, NULL} /\ m = prescribed[i + 1].param_id
  BY <1>3, <1>5 DEF PipelineFollows, LoadedAs
<1>8. m \in 1 .. NumLists /\ stored[NumPipelines + m] # Garbled => ParametersOf(m) = Configured(m)
  BY <1>1, BatchIsSettled, ParamsSplit, ParametersFollow DEF TablesFollow
<1>9. /\ Len(ran) <= Len(prescribed)
      /\ \A j \in DOMAIN ran :
           /\ ran[j].function \in {prescribed[j].name, NULL}
           /\ ran[j].param_id = prescribed[j].param_id
           /\ /\ prescribed[j].param_id \in 1 .. NumLists
              /\ stored[NumPipelines + prescribed[j].param_id] # Garbled
              => ran[j].config = Configured(prescribed[j].param_id)
  BY <1>1 DEF BatchFollowsStorage
<1>10. new.function = module.function /\ new.param_id = m /\ new.config = ParametersOf(m)
  OBVIOUS
<1> HIDE DEF new, module, m, prescribed
<1>11. Len(ran') = i + 1 /\ DOMAIN ran' = 1 .. i + 1 /\ ran'[i + 1] = new
  BY <1>1, <1>2
<1>12. \A j \in 1 .. i : ran'[j] = ran[j] /\ j \in DOMAIN ran
  BY <1>1, <1>2
<1>13. ASSUME NEW j \in 1 .. i + 1
       PROVE  /\ ran'[j].function \in {prescribed[j].name, NULL}
              /\ ran'[j].param_id = prescribed[j].param_id
              /\ /\ prescribed[j].param_id \in 1 .. NumLists
                 /\ stored[NumPipelines + prescribed[j].param_id] # Garbled
                 => ran'[j].config = Configured(prescribed[j].param_id)
  <2>1. CASE j = i + 1
    BY <1>6, <1>8, <1>10, <1>11, <2>1
  <2>2. CASE j # i + 1
    <3>1. j \in 1 .. i
      BY <1>2, <2>2
    <3> QED
      BY <1>9, <1>12, <3>1
  <2> QED
    BY <2>1, <2>2
<1>14. Prescribed(batch)' = prescribed /\ \A k : Configured(k)' = Configured(k)
  BY <1>1 DEF Prescribed, Configured, prescribed
<1>15. Len(ran') <= Len(prescribed)
  BY <1>4, <1>5, <1>11
<1> QED
  BY <1>1, <1>11, <1>13, <1>14, <1>15 DEF BatchFollowsStorage

\* The ground writes a parameter: its own entry is no longer settled, the others stay as they were.
LEMMA SetParamSettled ==
  ASSUME IInv, ThreadInv, ~overlap', NEW k \in Params, NEW v, SetParam(k, v)
  PROVE  /\ UNCHANGED <<is_setup, pc, next, tableVars>> /\ pc \notin Using
         /\ setup'[Router] = BeginSetup(k) /\ setup'[Processing] = setup[Processing]
         /\ \A a \in Actors : Active(a)' => a = Router
         /\ \A j \in Params : Settled(j)' => Settled(j) /\ stored'[j] = stored[j]
<1>1. /\ UNCHANGED <<is_setup, pc, next, tableVars>> /\ setup'[Processing] = setup[Processing]
      /\ setup'[Router] = BeginSetup(k) /\ ~Active(Router) /\ stored' = [stored EXCEPT ![k] = v]
  <2>1. setup \in [Actors -> SetupRecord]
    BY DEF IInv, SetupInv
  <2> QED
    BY <2>1, TwoActors DEF SetParam, threadVars, Active
<1>2. pc \notin Using
  BY DEF SetParam
<1>3. \A a \in Actors : ~Active(a)
  BY <1>1, <1>2, TwoActors DEF ThreadInv, Using
<1>4. \A a \in Actors : Active(a)' => a = Router
  BY <1>1, <1>3, TwoActors DEF Active
<1>5. ~Settled(k)'
  BY <1>1, TwoActors DEF Settled, Occupied, Active, BeginSetup
<1>6. ASSUME NEW j \in Params, Settled(j)' PROVE Settled(j) /\ stored'[j] = stored[j]
  <2>1. j # k
    BY <1>5, <1>6
  <2>2. stored'[j] = stored[j]
    BY <1>1, <2>1 DEF IInv, EverInv
  <2>3. SetUp(j)
    BY <1>1, <1>6 DEF Settled, SetUp
  <2>4. stored[j] # Garbled
    BY <1>6, <2>2 DEF Settled
  <2> QED
    BY <1>3, <2>2, <2>3, <2>4 DEF Settled, Occupied
<1> QED
  BY <1>1, <1>2, <1>4, <1>6

LEMMA SetParamFollows ==
  ASSUME IInv, ThreadInv, ~overlap', TablesFollow, NEW k \in Params, NEW v, SetParam(k, v)
  PROVE  Progress' /\ TablesFollow' /\ BatchFollowsStorage'
<1>1. /\ UNCHANGED <<is_setup, pc, next, tableVars>> /\ pc \notin Using
      /\ setup'[Router] = BeginSetup(k) /\ \A a \in Actors : Active(a)' => a = Router
      /\ \A j \in Params : Settled(j)' => Settled(j) /\ stored'[j] = stored[j]
  BY SetParamSettled
<1>2. Progress'
  BY <1>1 DEF Progress, BeginSetup
<1>3. ASSUME NEW p \in Pipelines, Settled(p)' PROVE PipelineFollows(p)'
  <2>1. PipelineFollows(p) /\ Prescribed(p)' = Prescribed(p)
    BY <1>1, <1>3, ParamsSplit DEF TablesFollow, Prescribed
  <2> QED
    BY <1>1, <2>1 DEF PipelineFollows, tableVars
<1>4. ASSUME NEW m \in 1 .. NumLists, Settled(NumPipelines + m)' PROVE ListFollows(m)'
  <2>1. ListFollows(m) /\ Configured(m)' = Configured(m)
    BY <1>1, <1>4, ParamsSplit DEF TablesFollow, Configured
  <2> QED
    BY <1>1, <2>1 DEF ListFollows, tableVars
<1>5. BatchFollowsStorage'
  BY <1>1 DEF BatchFollowsStorage, Using
<1> QED
  BY <1>2, <1>3, <1>4, <1>5 DEF TablesFollow

\* The rebuild comes to the next parameter.
LEMMA RebuildSettled ==
  ASSUME IInv, ThreadInv, ~overlap, RebuildParam
  PROVE  /\ UNCHANGED <<stored, tableVars>> /\ pc' = "rebuild"
         /\ setup'[Processing].step = "read" /\ setup'[Router] = setup[Router]
         /\ \A a \in Actors : Active(a)' => a = Processing
         /\ \A j \in Params : Settled(j)' => Settled(j)
<1>1. /\ pc = "rebuild" /\ next \in Params /\ ~Active(Processing)
      /\ setup'[Processing] = BeginSetup(next) /\ setup'[Router] = setup[Router]
      /\ next' = next + 1 /\ UNCHANGED <<stored, tableVars, is_setup, pc>>
  <2>1. setup \in [Actors -> SetupRecord]
    BY DEF IInv, SetupInv
  <2> QED
    BY <2>1, TwoActors DEF RebuildParam, diskVars, Active
<1>2. \A a \in Actors : ~Active(a)
  BY <1>1, TwoActors DEF ThreadInv, Using
<1>3. \A a \in Actors : Active(a)' => a = Processing
  BY <1>1, <1>2, TwoActors DEF Active
<1> PICK k \in Params : k = next
  BY <1>1
<1>4. ~Settled(k)'
  <2>1. Active(Processing)' /\ setup'[Processing].param = k
    BY <1>1 DEF Active, BeginSetup
  <2> QED
    BY <2>1, TwoActors DEF Settled, Occupied
<1>5. ASSUME NEW j \in Params, Settled(j)' PROVE Settled(j)
  <2>1. j # k
    BY <1>4, <1>5
  <2>2. is_setup \/ j < next + 1
    BY <1>1, <1>5 DEF Settled, SetUp
  <2>3. is_setup \/ j < next
    BY <2>1, <2>2, CacheAssumption DEF Params, CacheAssumption
  <2> QED
    BY <1>1, <1>2, <1>5, <2>3 DEF Settled, SetUp, Occupied
<1> QED
  BY <1>1, <1>3, <1>5 DEF BeginSetup

LEMMA RebuildFollows ==
  ASSUME IInv, ThreadInv, ~overlap, TablesFollow, RebuildParam
  PROVE  Progress' /\ TablesFollow' /\ BatchFollowsStorage'
<1>1. /\ UNCHANGED <<stored, tableVars>> /\ pc' = "rebuild" /\ setup'[Processing].step = "read"
      /\ \A a \in Actors : Active(a)' => a = Processing
      /\ \A j \in Params : Settled(j)' => Settled(j)
  BY RebuildSettled
<1>2. Progress'
  BY <1>1 DEF Progress
<1>3. ASSUME NEW p \in Pipelines, Settled(p)' PROVE PipelineFollows(p)'
  BY <1>1, <1>3, ParamsSplit DEF TablesFollow, PipelineFollows, Prescribed, tableVars
<1>4. ASSUME NEW m \in 1 .. NumLists, Settled(NumPipelines + m)' PROVE ListFollows(m)'
  BY <1>1, <1>4, ParamsSplit DEF TablesFollow, ListFollows, Configured, tableVars
<1>5. BatchFollowsStorage'
  BY <1>1 DEF BatchFollowsStorage
<1> QED
  BY <1>2, <1>3, <1>4, <1>5 DEF TablesFollow

\* Nothing is set up, nor being set up, in a new process and in one that is no longer followed.
LEMMA NothingFollows ==
  ASSUME ~is_setup', pc' \in {"idle", "undefined"}, \A a \in Actors : ~Active(a)'
  PROVE  Progress' /\ TablesFollow' /\ BatchFollowsStorage'
<1>1. \A k \in Params : ~Settled(k)'
  BY DEF Settled, SetUp
<1> QED
  BY <1>1, ParamsSplit DEF Progress, Active, TablesFollow, BatchFollowsStorage

\* A step of the processing thread that leaves tables and storage: what is set up after it was
\* set up before.
LEMMA SetUpStays ==
  ASSUME IInv,
         is_setup' => is_setup \/ (pc = "rebuild" /\ next \notin Params),
         pc' = "rebuild" => (pc = "rebuild" /\ next' = next) \/ next' = 1,
         NEW k \in Params, SetUp(k)'
  PROVE  SetUp(k)
<1>1. is_setup' \/ (pc' = "rebuild" /\ k < next')
  BY DEF SetUp
<1>2. CASE is_setup'
  <2>1. next \notin Params => k < next
    BY CacheAssumption DEF IInv, LoopTypes, Params, CacheAssumption
  <2> QED
    BY <1>2, <2>1 DEF SetUp
<1>3. CASE pc' = "rebuild" /\ k < next'
  <2>1. ~(k < 1)
    BY CacheAssumption DEF Params, CacheAssumption
  <2> QED
    BY <1>3, <2>1 DEF SetUp
<1> QED
  BY <1>1, <1>2, <1>3

LEMMA ThreadFollows ==
  ASSUME IInv, ~overlap, ~faulted, Progress, TablesFollow, BatchFollowsStorage,
         UNCHANGED <<stored, setup, tableVars>>,
         is_setup' => is_setup \/ (pc = "rebuild" /\ next \notin Params),
         pc' = "rebuild" => (pc = "rebuild" /\ next' = next) \/ next' = 1,
         \/ UNCHANGED <<ran, batch>> /\ (pc' \in {"loop", "wait"} => pc \in {"loop", "wait"})
         \/ pc' \notin {"loop", "wait"}
  PROVE  Progress' /\ TablesFollow' /\ BatchFollowsStorage'
BY SetUpStays, TablesStay, BatchStays

\* Execute clears the history of its batch.
LEMMA ExecuteFollows ==
  ASSUME NEW p \in Pipelines, Execute(p), ~overlap, Progress, TablesFollow
  PROVE  Progress' /\ TablesFollow' /\ BatchFollowsStorage'
<1>1. /\ ran' = <<>> /\ batch' = p /\ pc = "ready" /\ pc' = "loop"
      /\ UNCHANGED <<stored, setup, tableVars, is_setup, next>>
  BY DEF Execute, diskVars
<1>2. \A k \in Params : SetUp(k)' => SetUp(k)
  BY <1>1 DEF SetUp
<1>3. Len(Prescribed(p)) \in Nat /\ Prescribed(p)' = Prescribed(p)
  BY <1>1, PrescribedFits, CacheAssumption DEF CacheAssumption, Prescribed
<1>4. Len(ran') = 0 /\ DOMAIN ran' = {}
  BY <1>1
<1>5. BatchFollowsStorage'
  BY <1>1, <1>3, <1>4 DEF BatchFollowsStorage
<1> QED
  BY <1>1, <1>2, <1>5, TablesStay

LEMMA FollowKept == IInv /\ ThreadInv /\ FollowInv /\ [Next]_vars => FollowInv'
<1> SUFFICES ASSUME IInv, ThreadInv, FollowInv, [Next]_vars, ~overlap', ~faulted'
             PROVE  Progress' /\ TablesFollow' /\ BatchFollowsStorage'
  BY DEF FollowInv
<1> DEFINE Goal == Progress /\ TablesFollow /\ BatchFollowsStorage
<1>0. ~overlap /\ ~faulted /\ Goal
  BY HistoryGrows DEF FollowInv
<1>1. ASSUME NEW a \in Actors, Setup(a) PROVE Goal'
  <2>1. Progress' /\ TablesFollow'
    BY <1>0, <1>1, SetupFollows
  <2>2. UNCHANGED <<stored, ran, batch, pc>>
    BY <1>1, SetupFrame DEF threadVars
  <2> QED
    BY <1>0, <2>1, <2>2, BatchStays
<1>2. ASSUME NEW k \in Params, NEW v, SetParam(k, v) PROVE Goal'
  BY <1>0, <1>2, SetParamFollows
<1>3. ASSUME NEW name \in Names, Install(name) PROVE Goal'
  BY <1>0, <1>3, ThreadFollows DEF Install, threadVars, historyVars
<1>4. CASE Restart
  BY <1>4, NothingFollows DEF Restart, Fresh, Active, NoSetup
<1>5. ASSUME NEW p \in Pipelines, Execute(p) PROVE Goal'
  BY <1>0, <1>5, ExecuteFollows
<1>6. ASSUME NEW p \in Pipelines, Refuse(p) PROVE Goal'
  BY <1>0, <1>6, ThreadFollows DEF Refuse, diskVars
<1>7. CASE CacheIsSetup \/ RebuildCache \/ RebuildDone
  BY <1>0, <1>7, ThreadFollows DEF CacheIsSetup, RebuildCache, RebuildDone, diskVars, historyVars
<1>8. CASE RebuildParam
  BY <1>0, <1>8, RebuildFollows
<1>9. CASE Fork
  <2>1. BatchFollowsStorage'
    BY <1>0, <1>9, ForkFollows
  <2>2. UNCHANGED <<stored, setup, tableVars, is_setup>> /\ pc' # "rebuild"
    BY <1>9 DEF Fork, diskVars
  <2>3. Progress' /\ TablesFollow'
    BY <1>0, <2>2, TablesStay DEF SetUp
  <2> QED
    BY <2>1, <2>3
<1>10. CASE ModuleSucceeds \/ ModuleFails \/ Finish \/ Reset
  BY <1>0, <1>10, ThreadFollows DEF ModuleSucceeds, ModuleFails, Finish, Reset, diskVars, historyVars
<1>11. CASE UNCHANGED vars
  BY <1>0, <1>11, ThreadFollows DEF vars, diskVars, threadVars, historyVars
<1>12. ASSUME NEW a \in Actors, PipelineOverruns(a) PROVE Goal'
  BY <1>12, NothingFollows DEF PipelineOverruns, Fresh, Active, NoSetup
<1>13. ASSUME NEW k \in Params, NEW v, StoreParam(k, v) PROVE Goal'
  <2>1. pc = "undefined" /\ UNCHANGED <<setup, is_setup, pc>>
    BY <1>13 DEF StoreParam, threadVars
  <2> QED
    BY <2>1, NothingFollows DEF ThreadInv, Active
<1>14. CASE Undefined
  <2>1. pc = "undefined" /\ UNCHANGED <<setup, is_setup, pc>>
    BY <1>14 DEF Undefined, threadVars
  <2> QED
    BY <2>1, NothingFollows DEF ThreadInv, Active
<1> QED
  BY <1>1, <1>2, <1>3, <1>4, <1>5, <1>6, <1>7, <1>8, <1>9, <1>10, <1>11, <1>12, <1>13, <1>14
    DEF Next, Thread

-----------------------------------------------------------------------------
(* Modules that were found.                                                *)

\* Header, function and param_id, when every module is installed.
LEMMA FoundStep ==
  ASSUME IInv, installed = Names, NEW a \in Actors, AtStart(a), FoundProgress(a),
         PipelineHeader(a) \/ LoadModule(a) \/ SetParamId(a)
  PROVE  FoundProgress(a)'
<1> DEFINE p == setup[a].param
           def == setup[a].def
           n == setup[a].idx
<1>1. GoodRecord(setup[a])
  BY DEF IInv, SetupInv
<1>2. IsPipeline(p) /\ Fits(setup[a])
  BY <1>1 DEF PipelineHeader, LoadModule, LoadModuleInto, SetParamId, GoodRecord, Fits
<1>3. /\ p \in Pipelines /\ Len(def) \in Nat /\ n \in Nat
      /\ \A j \in 1 .. Len(def) : j \in 1 .. ArraySize /\ def[j] \in Module
  BY <1>1, <1>2, PipelineBeingSetUp DEF GoodRecord, SetupRecord
<1>4. CASE PipelineHeader(a)
  <2>1. n = 1
    BY <1>4 DEF PipelineHeader, AtStart
  <2>2. /\ setup'[a].step = "function" /\ setup'[a].param = p /\ setup'[a].def = def
        /\ setup'[a].idx = 1
    BY <1>4, <2>1, AtRecord DEF PipelineHeader, Goto
  <2>3. pipelines'[p].num_modules = Len(def)
    BY <1>3, <1>4 DEF PipelineHeader, IInv, TableTypes, PipelineRecord
  <2>4. \A j : j \notin 1 .. setup'[a].idx - 1
    BY <2>2
  <2> HIDE DEF p, def, n
  <2> QED
    BY <2>2, <2>3, <2>4 DEF FoundProgress
<1>5. CASE LoadModule(a)
  <2>1. setup[a].step = "function" /\ n \in 1 .. Len(def)
    BY <1>1, <1>3, <1>5, SMTT(30) DEF LoadModule, LoadModuleInto, GoodRecord
  <2>2. def[n].name \in Names /\ def[n].name # NULL
    BY <1>3, <2>1, CacheAssumption DEF Module, CacheAssumption
  <2>3. /\ setup'[a].step = "param_id" /\ setup'[a].param = p /\ setup'[a].def = def
        /\ setup'[a].idx = n
    BY <1>5, AtRecord, SMTT(30) DEF LoadModule, LoadModuleInto, Goto
  <2>4. SetModule(p, n, def[n].name, pipelines[p].modules[n].param_id)
    BY <1>5, <2>2 DEF LoadModule, LoadModuleInto
  <2>5. /\ pipelines[p].num_modules = Len(def)
        /\ \A j \in 1 .. n - 1 : pipelines[p].modules[j].function # NULL
    BY <2>1 DEF FoundProgress
  <2> HIDE DEF p, def, n
  <2>6. /\ pipelines'[p].num_modules = Len(def)
        /\ pipelines'[p].modules[n].function = def[n].name
        /\ \A j \in 1 .. ArraySize : j # n => pipelines'[p].modules[j] = pipelines[p].modules[j]
    BY <1>3, <2>1, <2>4, <2>5, ModuleWritten
  <2>7. \A j \in 1 .. n - 1 : j # n /\ j \in 1 .. Len(def)
    BY <1>3, <2>1
  <2>8. \A j \in 1 .. n - 1 : pipelines'[p].modules[j].function # NULL
    BY <1>3, <2>5, <2>6, <2>7
  <2> QED
    BY <2>2, <2>3, <2>6, <2>8 DEF FoundProgress
<1>6. CASE SetParamId(a)
  <2>1. setup[a].step = "param_id" /\ n \in 1 .. Len(def)
    BY <1>1, <1>3, <1>6, LenOfDef DEF SetParamId, GoodRecord, SetupRecord
  <2>2. /\ setup'[a].step = "function" /\ setup'[a].param = p /\ setup'[a].def = def
        /\ setup'[a].idx = n + 1
    BY <1>6, AtRecord DEF SetParamId, GotoNext
  <2>3. SetModule(p, n, pipelines[p].modules[n].function, def[n].param_id)
    BY <1>6 DEF SetParamId
  <2>4. /\ pipelines[p].num_modules = Len(def)
        /\ \A j \in 1 .. n - 1 : pipelines[p].modules[j].function # NULL
        /\ pipelines[p].modules[n].function # NULL
    BY <2>1 DEF FoundProgress
  <2> HIDE DEF p, def, n
  <2>5. /\ pipelines'[p].num_modules = Len(def)
        /\ pipelines'[p].modules[n].function = pipelines[p].modules[n].function
        /\ \A j \in 1 .. ArraySize : j # n => pipelines'[p].modules[j] = pipelines[p].modules[j]
    BY <1>3, <2>1, <2>3, <2>4, ModuleWritten
  <2>6. \A j \in 1 .. n : (j # n => j \in 1 .. n - 1) /\ j \in 1 .. ArraySize
    BY <1>3, <2>1
  <2>7. \A j \in 1 .. n : pipelines'[p].modules[j].function # NULL
    BY <2>4, <2>5, <2>6
  <2>8. setup'[a].idx - 1 = n
    BY <1>3, <2>2
  <2> QED
    BY <2>2, <2>5, <2>7, <2>8 DEF FoundProgress
<1> QED
  BY <1>4, <1>5, <1>6

\* A step that leaves the pipelines.
LEMMA FoundStays ==
  ASSUME AllFound, UNCHANGED <<stored, setup, pipelines>>,
         \A k \in Params : SetUp(k)' => SetUp(k)
  PROVE  AllFound'
<1>1. \A k \in Params : Settled(k)' => Settled(k)
  BY DEF Settled, Occupied, Active
<1>2. \A a \in Actors : FoundProgress(a)'
  BY DEF AllFound, FoundProgress
<1>3. ASSUME NEW p \in Pipelines, Settled(p)' PROVE PipelineFound(p)'
  BY <1>1, <1>3, ParamsSplit DEF AllFound, PipelineFound
<1> QED
  BY <1>2, <1>3 DEF AllFound

LEMMA SetupFound ==
  ASSUME IInv, ThreadInv, ~overlap, installed = Names, AllFound, NEW a \in Actors, Setup(a)
  PROVE  AllFound'
<1> PICK k \in Params : k = setup[a].param
  BY SetupFrame
<1>1. /\ Active(a) /\ UNCHANGED stored
      /\ \A b \in Actors : b # a => setup'[b] = setup[b]
      /\ Active(a)' => setup'[a].param = k
      /\ \A p \in Pipelines : p # k => pipelines'[p] = pipelines[p]
  BY SetupFrame
<1>2. \A b \in Actors : b # a => ~Active(b)'
  BY <1>1, OneActor DEF Active
<1>3. FoundProgress(a) /\ AtStart(a)
  BY DEF AllFound, ThreadInv
<1>4. GoodRecord(setup[a])
  BY DEF IInv, SetupInv
<1>5. \A b \in Actors : FoundProgress(b)'
  <2>1. \A b \in Actors : ~Active(b)' => FoundProgress(b)'
    BY DEF Active, FoundProgress
  <2>2. FoundProgress(a)'
    <3>1. CASE PipelineHeader(a) \/ LoadModule(a) \/ SetParamId(a)
      BY <1>3, <3>1, FoundStep
    <3>2. CASE ReadParam(a) \/ ReadParamFails(a)
      <4>1. setup'[a].step = "header"
        BY <3>2, AtRecord DEF ReadParam, ReadParamFails, Unpacked
      <4> QED
        BY <4>1 DEF FoundProgress
    <3>3. CASE ListHeader(a) \/ AllocList(a) \/ SetParameter(a)
      <4>1. setup'[a].step \in {"alloc", "parameter"}
        BY <3>3, AtRecord DEF ListHeader, AllocList, SetParameter, Goto, GotoNext
      <4> QED
        BY <4>1 DEF FoundProgress
    <3>4. CASE SkipParam(a) \/ AllocFails(a) \/ SetupDone(a)
      <4>1. setup'[a] = NoSetup
        BY <3>4, ReturnRecord DEF SkipParam, AllocFails, SetupDone
      <4> QED
        BY <4>1 DEF FoundProgress, NoSetup
    <3> QED
      BY <3>1, <3>2, <3>3, <3>4 DEF Setup
  <2> QED
    BY <1>2, <2>1, <2>2
<1>6. ASSUME NEW p \in Pipelines, Settled(p)' PROVE PipelineFound(p)'
  <2>1. CASE p # k
    <3>1. PipelineFound(p) /\ pipelines'[p] = pipelines[p]
      BY <1>1, <1>6, <2>1, SetupSettled, ParamsSplit DEF AllFound
    <3> QED
      BY <3>1 DEF PipelineFound
  <2>2. CASE p = k
    <3>1. ~Active(a)' /\ stored[k] # Garbled
      BY <1>1, <1>6, <2>2 DEF Settled, Occupied
    <3>2. SetupDone(a) /\ setup[a].step = "function"
      BY <1>4, <2>2, <3>1, OnlyReturns DEF SkipParam, AllocFails, SetupDone, GoodRecord, IsPipeline
    <3>3. setup[a].idx > Len(setup[a].def) /\ pipelines' = pipelines
      BY <3>2 DEF SetupDone, tableVars
    <3>4. setup[a].idx - 1 = Len(setup[a].def)
      BY <1>4, <2>2, <3>2, <3>3, PipelineBeingSetUp DEF GoodRecord, SetupRecord, IsPipeline, Fits
    <3>5. PipelineFound(p)
      BY <1>3, <2>2, <3>2, <3>4 DEF FoundProgress, PipelineFound
    <3> QED
      BY <3>3, <3>5 DEF PipelineFound
  <2> QED
    BY <2>1, <2>2
<1> QED
  BY <1>5, <1>6 DEF AllFound

LEMMA SetParamFound ==
  ASSUME IInv, ThreadInv, ~overlap', AllFound, NEW k \in Params, NEW v, SetParam(k, v)
  PROVE  AllFound'
<1>1. /\ UNCHANGED <<is_setup, pc, next, pipelines>> /\ setup'[Processing] = setup[Processing]
      /\ setup'[Router] = BeginSetup(k) /\ stored' = [stored EXCEPT ![k] = v]
  <2>1. setup \in [Actors -> SetupRecord]
    BY DEF IInv, SetupInv
  <2> QED
    BY <2>1, TwoActors DEF SetParam, threadVars, tableVars
<1>2. \A a \in Actors : FoundProgress(a)'
  BY <1>1, TwoActors DEF AllFound, FoundProgress, BeginSetup
<1>3. ASSUME NEW p \in Pipelines, Settled(p)' PROVE PipelineFound(p)'
  <2>1. Settled(p)
    BY <1>3, SetParamSettled, ParamsSplit
  <2> QED
    BY <1>1, <2>1 DEF AllFound, PipelineFound
<1> QED
  BY <1>2, <1>3 DEF AllFound

LEMMA RebuildFound ==
  ASSUME IInv, ThreadInv, ~overlap, AllFound, RebuildParam
  PROVE  AllFound'
<1>1. setup'[Processing] = BeginSetup(next) /\ setup'[Router] = setup[Router] /\ UNCHANGED pipelines
  <2>1. setup \in [Actors -> SetupRecord]
    BY DEF IInv, SetupInv
  <2> QED
    BY <2>1, TwoActors DEF RebuildParam, tableVars
<1>2. \A a \in Actors : FoundProgress(a)'
  BY <1>1, TwoActors DEF AllFound, FoundProgress, BeginSetup
<1>3. ASSUME NEW p \in Pipelines, Settled(p)' PROVE PipelineFound(p)'
  <2>1. Settled(p)
    BY <1>3, RebuildSettled, ParamsSplit
  <2> QED
    BY <1>1, <2>1 DEF AllFound, PipelineFound
<1> QED
  BY <1>2, <1>3 DEF AllFound

\* A step that forks no module and keeps what is installed.
LEMMA FoundLater ==
  ASSUME ~overlap, FoundInv, UNCHANGED <<installed, nullRuns>>,
         AllFound => AllFound',
         pc = "wait" => AllFound' \/ (NullRunning => NullRunning')
  PROVE  FoundInv'
BY DEF FoundInv, NullRunning

\* Nothing is set up in a new process, nor when the cache was invalidated.
LEMMA NothingSettled ==
  ASSUME ~is_setup', pc' # "rebuild", \A a \in Actors : ~Active(a)'
  PROVE  AllFound'
BY ParamsSplit DEF AllFound, Settled, SetUp, FoundProgress, Active

\* A null pointer is forked once all modules are installed only if it was never so before.
LEMMA ForkFound ==
  ASSUME IInv, ThreadInv, ~overlap, FoundInv, Fork
  PROVE  FoundInv'
<1> DEFINE function == pipelines[batch].modules[i + 1].function
<1>1. /\ pc = "loop" /\ pc' = "wait" /\ i < pipelines[batch].num_modules
      /\ UNCHANGED <<installed, stored, setup, pipelines, is_setup>>
  BY DEF Fork, diskVars, tableVars
<1>2. PICK new : ran' = Append(ran, new) /\ new.function = function
  BY DEF Fork
<1>3. nullRuns' = IF function = NULL /\ installed = Names /\ stored[batch] # Garbled
                    THEN nullRuns + 1 ELSE nullRuns
  BY DEF Fork
<1>4. batch \in Pipelines /\ i \in Nat /\ pipelines[batch].num_modules \in Nat /\ ran \in Seq(Forked)
  BY CacheAssumption DEF IInv, LoopTypes, RanEver, TableTypes, PipelineRecord, CacheAssumption
<1>5. i + 1 \in 1 .. pipelines[batch].num_modules
  BY <1>1, <1>4
<1>6. AllFound => AllFound'
  BY <1>1, FoundStays DEF SetUp
<1>7. CASE nullRuns = 1
  <2>1. AllFound /\ installed = Names
    BY <1>1, <1>7 DEF FoundInv, NullRunning
  <2>2. stored[batch] # Garbled => function # NULL
    BY <1>1, <1>4, <1>5, <2>1, BatchIsSettled, ParamsSplit DEF AllFound, PipelineFound
  <2>3. nullRuns' = 1
    BY <1>3, <1>7, <2>2
  <2> QED
    BY <1>1, <1>6, <2>1, <2>3 DEF FoundInv, NullRunning
<1>8. CASE nullRuns = 0
  <2>1. nullRuns' \in {0, 1} /\ (nullRuns' = 1 => function = NULL /\ installed = Names)
    BY <1>3, <1>8
  <2> HIDE DEF function
  <2>2. ran'[Len(ran')] = new
    <3>1. Len(ran') = Len(ran) + 1 /\ Len(ran) \in Nat
      BY <1>2, <1>4
    <3>2. Append(ran, new)[Len(ran) + 1] = new
      BY <1>4
    <3> QED
      BY <1>2, <3>1, <3>2
  <2> QED
    BY <1>1, <1>2, <2>1, <2>2 DEF FoundInv, NullRunning
<1> QED
  BY <1>7, <1>8 DEF FoundInv

LEMMA FoundKept == IInv /\ ThreadInv /\ installed \subseteq Names /\ FoundInv /\ [Next]_vars => FoundInv'
<1> SUFFICES ASSUME IInv, ThreadInv, installed \subseteq Names, FoundInv, [Next]_vars, ~overlap'
             PROVE  FoundInv'
  BY DEF FoundInv
<1>0. ~overlap
  BY HistoryGrows
<1>1. ASSUME NEW a \in Actors, Setup(a) PROVE FoundInv'
  <2>1. UNCHANGED <<installed, ran, nullRuns, pc>>
    BY <1>1, SetupFrame DEF threadVars
  <2>2. installed = Names /\ AllFound => AllFound'
    BY <1>0, <1>1, SetupFound
  <2> QED
    BY <1>0, <2>1, <2>2 DEF FoundInv, NullRunning
<1>2. ASSUME NEW k \in Params, NEW v, SetParam(k, v) PROVE FoundInv'
  <2>1. AllFound => AllFound'
    BY <1>2, SetParamFound
  <2> QED
    BY <1>0, <1>2, <2>1, FoundLater DEF SetParam, Using
<1>3. ASSUME NEW name \in Names, Install(name) PROVE FoundInv'
  <2>1. name \notin installed /\ nullRuns' = nullRuns
    BY <1>3 DEF Install, historyVars
  <2> QED
    BY <1>0, <2>1 DEF FoundInv
<1>4. CASE Restart
  <2>1. ~is_setup' /\ pc' # "rebuild" /\ \A a \in Actors : ~Active(a)'
    BY <1>4 DEF Restart, Fresh, Active, NoSetup
  <2> QED
    BY <1>0, <1>4, <2>1, NothingSettled, FoundLater DEF Restart, Fresh, diskVars
<1>5. ASSUME NEW p \in Pipelines, Execute(p) \/ Refuse(p) PROVE FoundInv'
  <2>1. /\ pc = "ready" /\ pc' # "rebuild"
        /\ UNCHANGED <<installed, nullRuns, stored, setup, pipelines, is_setup>>
    <3>1. CASE Execute(p)
      BY <3>1 DEF Execute, diskVars, tableVars
    <3>2. CASE Refuse(p)
      BY <3>2 DEF Refuse, diskVars, tableVars
    <3> QED
      BY <1>5, <3>1, <3>2
  <2>2. AllFound => AllFound'
    BY <2>1, FoundStays DEF SetUp
  <2> QED
    BY <1>0, <2>1, <2>2, FoundLater
<1>6. CASE CacheIsSetup \/ RebuildCache \/ RebuildDone \/ Finish \/ Reset
  <2>1. /\ UNCHANGED <<installed, nullRuns, stored, setup, pipelines>> /\ pc # "wait"
        /\ is_setup' => is_setup \/ (pc = "rebuild" /\ next \notin Params)
        /\ pc' = "rebuild" => (pc = "rebuild" /\ next' = next) \/ next' = 1
    BY <1>6 DEF CacheIsSetup, RebuildCache, RebuildDone, Finish, Reset, diskVars, tableVars, historyVars
  <2>2. AllFound => AllFound'
    BY <2>1, FoundStays, SetUpStays
  <2> QED
    BY <1>0, <2>1, <2>2, FoundLater
<1>7. CASE RebuildParam
  <2>1. AllFound => AllFound'
    BY <1>0, <1>7, RebuildFound
  <2> QED
    BY <1>0, <1>7, <2>1, FoundLater DEF RebuildParam, diskVars, historyVars
<1>8. CASE Fork
  BY <1>0, <1>8, ForkFound
<1>9. CASE ModuleSucceeds
  <2>1. /\ ran[Len(ran)].function # NULL /\ pc' # "rebuild"
        /\ UNCHANGED <<installed, nullRuns, stored, setup, pipelines, is_setup>>
    BY <1>9 DEF ModuleSucceeds, diskVars, tableVars, historyVars
  <2>2. AllFound => AllFound'
    BY <2>1, FoundStays DEF SetUp
  <2> QED
    BY <1>0, <2>1, <2>2, FoundLater DEF NullRunning
<1>10. CASE ModuleFails
  <2>1. ~is_setup' /\ pc = "wait" /\ pc' # "rebuild" /\ UNCHANGED <<installed, nullRuns, setup>>
    BY <1>10 DEF ModuleFails, diskVars, historyVars
  <2>2. \A a \in Actors : ~Active(a)'
    BY <1>0, <2>1, NobodyActive DEF Active
  <2> QED
    BY <1>0, <2>1, <2>2, NothingSettled, FoundLater
<1>11. CASE UNCHANGED vars
  <2>1. AllFound => AllFound'
    BY <1>11, FoundStays DEF vars, diskVars, tableVars, threadVars, SetUp
  <2> QED
    BY <1>0, <1>11, <2>1, FoundLater DEF vars, diskVars, threadVars, historyVars, NullRunning
<1>12. ASSUME NEW a \in Actors, PipelineOverruns(a) PROVE FoundInv'
  <2>1. ~is_setup' /\ pc' # "rebuild" /\ \A b \in Actors : ~Active(b)'
    BY <1>12 DEF PipelineOverruns, Fresh, Active, NoSetup
  <2> QED
    BY <1>0, <1>12, <2>1, NothingSettled, FoundLater DEF PipelineOverruns, diskVars
<1>13. ASSUME NEW k \in Params, NEW v, StoreParam(k, v) PROVE FoundInv'
  <2>1. pc = "undefined" /\ UNCHANGED <<setup, is_setup, pc, installed, nullRuns>>
    BY <1>13 DEF StoreParam, threadVars
  <2> QED
    BY <1>0, <2>1, NothingSettled, FoundLater DEF ThreadInv, Active
<1>14. CASE Undefined
  <2>1. pc = "undefined" /\ UNCHANGED <<setup, is_setup, pc, installed, nullRuns>>
    BY <1>14 DEF Undefined, threadVars, diskVars, historyVars
  <2> QED
    BY <1>0, <2>1, NothingSettled, FoundLater DEF ThreadInv, Active
<1> QED
  BY <1>1, <1>2, <1>3, <1>4, <1>5, <1>6, <1>7, <1>8, <1>9, <1>10, <1>11, <1>12, <1>13, <1>14
    DEF Next, Thread

-----------------------------------------------------------------------------

(* The theorems.                                                           *)

LEMMA InstalledKept == IInv /\ installed \subseteq Names /\ [Next]_vars => installed' \subseteq Names
<1> SUFFICES ASSUME IInv, installed \subseteq Names, [Next]_vars PROVE installed' \subseteq Names
  OBVIOUS
<1>1. ASSUME NEW a \in Actors, Setup(a) PROVE installed' = installed
  BY <1>1, SetupFrame
<1>2. ASSUME NEW k \in Params, NEW v, SetParam(k, v) \/ StoreParam(k, v) PROVE installed' = installed
  BY <1>2 DEF SetParam, StoreParam
<1>3. ASSUME NEW name \in Names, Install(name) PROVE installed' = installed \cup {name}
  BY <1>3 DEF Install
<1>4. ASSUME NEW p \in Pipelines, Execute(p) \/ Refuse(p) PROVE installed' = installed
  BY <1>4 DEF Execute, Refuse, diskVars
<1>5. CASE Thread \/ Restart
  BY <1>5
    DEF Thread, Restart, Fresh, CacheIsSetup, RebuildCache, RebuildParam, RebuildDone, Fork,
         ModuleSucceeds, ModuleFails, Finish, Reset, Undefined, diskVars
<1>6. CASE UNCHANGED vars
  BY <1>6 DEF vars, diskVars
<1>7. ASSUME NEW a \in Actors, PipelineOverruns(a) PROVE installed' = installed
  BY <1>7 DEF PipelineOverruns, diskVars
<1> QED
  BY <1>1, <1>2, <1>3, <1>4, <1>5, <1>6, <1>7 DEF Next

LEMMA InitStorageInv == Init => StorageInv
<1> SUFFICES ASSUME Init PROVE StorageInv
  OBVIOUS
<1>1. \A a \in Actors : setup[a].step = "none"
  BY DEF Init, NoSetup
<1>2. ThreadInv
  BY <1>1, TwoActors DEF Init, ThreadInv, AtStart, Active
<1>3. \A k \in Params : ~Settled(k)
  BY DEF Init, Settled, SetUp
<1>4. FollowInv
  BY <1>1, <1>3, ParamsSplit DEF Init, FollowInv, Progress, Active, TablesFollow, BatchFollowsStorage
<1> QED
  BY <1>2, <1>4 DEF Init, StorageInv, FoundInv

\* Each step of either thread keeps what is said above of the tables, of the
\* entry that a setup function is filling, and of the batch.
THEOREM StorageInvariance == Spec => []StorageInv
<1>1. IInv /\ StorageInv /\ [Next]_vars => StorageInv'
  BY ThreadKept, FollowKept, FoundKept, InstalledKept DEF StorageInv
<1> QED
  BY <1>1, InitStorageInv, CacheInvariance, PTL DEF Spec

\* For any number of pipelines and lists, any contents, any number of writes,
\* installations and restarts: unless the router has configured while the
\* tables were in use, or an allocation has failed, execute_pipeline runs the
\* modules that the stored definition prescribes, in their order, and with the
\* stored parameters if there is a list for them.
THEOREM BatchesFollowStorage == Spec => []BatchFollowsStorage
<1>1. StorageInv => BatchFollowsStorage
  BY DEF StorageInv, FollowInv, BatchFollowsStorage
<1> QED
  BY <1>1, StorageInvariance, PTL

\* Under the same condition on the router: invalidate_cache in the failing
\* batch makes the next one load the module again, so that a null pointer of
\* load_module runs at most once after the last module was installed.
THEOREM OneFailureForAMissingModule == Spec => []MissingModuleFailsOnce
<1>1. StorageInv => MissingModuleFailsOnce
  BY DEF StorageInv, FoundInv, MissingModuleFailsOnce
<1> QED
  BY <1>1, StorageInvariance, PTL
=============================================================================
