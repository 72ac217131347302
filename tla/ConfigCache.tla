----------------------------- MODULE ConfigCache -----------------------------
(***************************************************************************)
(* The configuration cache (src/src/dipp_config.c) between storage, the    *)
(* router and the processing thread.                                       *)
(*                                                                         *)
(* A parameter of the storage holds the definition of a pipeline or the    *)
(* parameters of a module.  When the ground writes one, its callback       *)
(* (setup_pipeline, setup_module_config) copies it into the tables, in the *)
(* router.  The processing thread calls the same two functions for all     *)
(* parameters when the cache is not valid, and reads the tables while it   *)
(* executes a batch.  No lock orders the two.                              *)
(*                                                                         *)
(* Parameters 1 .. NumPipelines define pipelines, the NumLists after them  *)
(* configure modules.  A parameter's value is the name of a content, which *)
(* Definitions and Configs map to what pipeline_definition__unpack and     *)
(* module_config__unpack return.  Nothing looks at what it prescribes: a   *)
(* definition may be longer than its entry, whose end is then overrun, and *)
(* a module may have a param_id for which there is no list.                *)
(***************************************************************************)
EXTENDS DippError, Integers, Sequences

CONSTANTS
  NumPipelines, NumLists,
  ArraySize,        \* MAX_MODULES, the length of Pipeline.modules
  Names,            \* names of modules
  Definitions,      \* content -> sequence of [name, param_id]
  Configs,          \* content -> sequence of parameter values
  Undecodable,      \* a content that BrotliDecoderDecompress rejects
  Garbled,          \* a content that decompresses and does not unpack
  Empty,            \* a parameter never written: zeros
  NULL, Junk,       \* a null pointer; heap memory that nothing has set yet
  Faults,           \* subset of {"malloc"}
  MaxCommands, MaxRestarts  \* bounds

Pipelines == 1 .. NumPipelines
Params == 1 .. NumPipelines + NumLists

Module == [name : Names, param_id : Int]

ASSUME CacheAssumption ==
  /\ NumPipelines \in Nat \ {0} /\ NumLists \in Nat \ {0} /\ ArraySize \in Nat
  /\ \A v \in DOMAIN Definitions : Definitions[v] \in Seq(Module)
  /\ \A v \in DOMAIN Configs : Configs[v] \in Seq(STRING)
  /\ {Undecodable, Garbled, Empty} \cap (DOMAIN Definitions \cup DOMAIN Configs) = {}
  /\ Garbled \notin {Undecodable, Empty} /\ NULL \notin Names /\ Junk \in STRING
  /\ Faults \subseteq {"malloc"}
  /\ MaxCommands \in Nat /\ MaxRestarts \in Nat

Router == "router"
Processing == "processing"
Actors == {Router, Processing}

VARIABLES
  stored,       \* the parameters, persistent
  installed,    \* modules whose shared object is on disk
  pipelines, module_parameter_lists,  \* the tables
  is_setup,
  setup,        \* what each thread is doing in a setup function
  pc,           \* where the processing thread is
  next,         \* the parameter it rebuilds next
  batch,        \* the pipeline its batch asks for
  i,            \* the loop index of execute_pipeline
  err_current_pipeline, err_current_module, log_status,
  commands, restarts,
  ever,         \* history: the contents a parameter has had
  ran,          \* history: the modules forked for the batch
  nullRuns,     \* history: see MissingModuleFailsOnce
  overlap,      \* history: the router configured while the thread used the tables
  faulted       \* history: an allocation has failed

diskVars == <<stored, installed>>
tableVars == <<pipelines, module_parameter_lists>>
threadVars == <<is_setup, pc, next, batch, i>>
errVars == <<err_current_pipeline, err_current_module, log_status>>
boundVars == <<commands, restarts>>
historyVars == <<ever, ran, nullRuns, overlap, faulted>>
vars == <<diskVars, tableVars, setup, threadVars, errVars, boundVars, historyVars>>

SetError(code) ==
  log_status' = get_error_as_uint32(code, err_current_pipeline, err_current_module)

NoModule == [function |-> NULL, param_id |-> 1]
NoPipeline == [pipeline_id |-> 0, num_modules |-> 0, modules |-> [k \in 1 .. ArraySize |-> NoModule]]
NoList == [n_parameters |-> 0, parameters |-> <<>>]
NoSetup == [step |-> "none", param |-> 1, def |-> <<>>, idx |-> 0]

ClearedTables ==
  /\ pipelines = [p \in Pipelines |-> NoPipeline]
  /\ module_parameter_lists = [m \in 1 .. NumLists |-> NoList]

Init ==
  /\ stored = [k \in Params |-> Empty] /\ installed \in SUBSET Names
  /\ ClearedTables
  /\ is_setup = FALSE /\ setup = [a \in Actors |-> NoSetup]
  /\ pc = "idle" /\ next = 1 /\ batch = 1 /\ i = 0
  /\ err_current_pipeline = 0 /\ err_current_module = 0 /\ log_status = 0
  /\ commands = 0 /\ restarts = 0
  /\ ever = [k \in Params |-> {Empty}] /\ ran = <<>> /\ nullRuns = 0
  /\ overlap = FALSE /\ faulted = FALSE

-----------------------------------------------------------------------------
(* setup_pipeline and setup_module_config, in the router or in the         *)
(* processing thread.                                                      *)

BeginSetup(k) == [step |-> "read", param |-> k, def |-> <<>>, idx |-> 0]

\* The thread is at a step of its setup function, with what it unpacked and
\* the index of the module or element it comes to.
At(a, step, def, idx) ==
  setup' = [setup EXCEPT ![a] = [step |-> step, param |-> setup[a].param, def |-> def, idx |-> idx]]

Unpacked(a, def) == At(a, "header", def, 1)
Goto(a, step) == At(a, step, setup[a].def, setup[a].idx)
GotoNext(a, step) == At(a, step, setup[a].def, setup[a].idx + 1)
Return(a) == setup' = [setup EXCEPT ![a] = NoSetup]

IsPipeline(k) == k \in Pipelines
ListOf(k) == k - NumPipelines
Contents(k) == IF IsPipeline(k) THEN Definitions ELSE Configs

\* get_param_buffer and unpack: a parameter of zeros yields no bytes, which
\* unpack to a message without elements.
ReadParam(a) ==
  /\ setup[a].step = "read"
  /\ LET k == setup[a].param
         v == stored[k]
     IN /\ v \in {Empty} \cup DOMAIN Contents(k)
        /\ Unpacked(a, IF v = Empty THEN <<>> ELSE Contents(k)[v])
  /\ UNCHANGED <<diskVars, tableVars, threadVars, errVars, boundVars, historyVars>>

\* The buffer cannot be decoded, or malloc fails: no bytes either.
ReadParamFails(a) ==
  /\ setup[a].step = "read"
  /\ LET v == stored[setup[a].param] IN
       \/ v = Undecodable /\ SetError(INTERNAL_BROTLI_DECODE) /\ UNCHANGED faulted
       \/ "malloc" \in Faults /\ v \notin {Undecodable, Empty} /\ SetError(MEMORY_MALLOC) /\ faulted' = TRUE
  /\ Unpacked(a, <<>>)
  /\ UNCHANGED <<diskVars, tableVars, threadVars, err_current_pipeline, err_current_module, boundVars,
                 ever, ran, nullRuns, overlap>>

\* "Skip this pipeline if unpacking fails".
SkipParam(a) ==
  /\ setup[a].step = "read" /\ stored[setup[a].param] = Garbled
  /\ Return(a)
  /\ UNCHANGED <<diskVars, tableVars, threadVars, errVars, boundVars, historyVars>>

\* Mutant: num_modules keeps the larger of two definitions.
PipelineHeader_KeepsCount(a) ==
  /\ setup[a].step = "header" /\ IsPipeline(setup[a].param) /\ Len(setup[a].def) <= ArraySize
  /\ LET p == setup[a].param IN
       pipelines' = [pipelines EXCEPT ![p].pipeline_id = p,
                       ![p].num_modules = IF @ > Len(setup[a].def) THEN @ ELSE Len(setup[a].def)]
  /\ Goto(a, "function")
  /\ UNCHANGED <<diskVars, module_parameter_lists, threadVars, errVars, boundVars, historyVars>>

PipelineHeader(a) ==
  /\ setup[a].step = "header" /\ IsPipeline(setup[a].param) /\ Len(setup[a].def) <= ArraySize
  /\ LET p == setup[a].param IN
       pipelines' = [pipelines EXCEPT ![p].pipeline_id = p, ![p].num_modules = Len(setup[a].def)]
  /\ Goto(a, "function")
  /\ UNCHANGED <<diskVars, module_parameter_lists, threadVars, errVars, boundVars, historyVars>>

\* The memory of a process that has just been started.
Fresh ==
  /\ pipelines' = [p \in Pipelines |-> NoPipeline]
  /\ module_parameter_lists' = [m \in 1 .. NumLists |-> NoList]
  /\ is_setup' = FALSE /\ setup' = [a \in Actors |-> NoSetup]
  /\ next' = 1 /\ i' = 0 /\ err_current_pipeline' = 0 /\ err_current_module' = 0
  /\ ran' = <<>>

\* num_modules says more than the array holds, and the loop writes the modules
\* past its end: over num_modules itself, the entries of the next pipelines and
\* what the linker has placed behind the table.  What the process does from
\* then on is undefined: its tables and threads are not followed any further.
PipelineOverruns(a) ==
  /\ setup[a].step = "header" /\ IsPipeline(setup[a].param) /\ Len(setup[a].def) > ArraySize
  /\ pc' = "undefined" /\ Fresh
  /\ UNCHANGED <<diskVars, batch, log_status, boundVars, ever, nullRuns, overlap, faulted>>

SetModule(p, n, function, param_id) ==
  pipelines' = [pipelines EXCEPT ![p].modules[n] = [function |-> function, param_id |-> param_id]]

\* load_module: dlopen, dlsym.  A module that is not there is a null pointer.
LoadModuleInto(a, n) ==
  /\ setup[a].step = "function" /\ setup[a].idx <= Len(setup[a].def)
  /\ LET p == setup[a].param
         name == setup[a].def[setup[a].idx].name
     IN \/ /\ name \in installed
           /\ SetModule(p, n, name, pipelines[p].modules[n].param_id)
           /\ UNCHANGED errVars
        \/ /\ name \notin installed
           /\ SetModule(p, n, NULL, pipelines[p].modules[n].param_id)
           /\ SetError(INTERNAL_SO_NOT_FOUND)
           /\ UNCHANGED <<err_current_pipeline, err_current_module>>
  /\ Goto(a, "param_id")
  /\ UNCHANGED <<diskVars, module_parameter_lists, threadVars, boundVars, historyVars>>

\* Mutant: modules after the first are stored one place too early.
LoadModule_OffByOne(a) == LoadModuleInto(a, IF setup[a].idx > 1 THEN setup[a].idx - 1 ELSE 1)

LoadModule(a) == LoadModuleInto(a, setup[a].idx)

SetParamId(a) ==
  /\ setup[a].step = "param_id"
  /\ LET p == setup[a].param
         n == setup[a].idx
     IN SetModule(p, n, pipelines[p].modules[n].function, setup[a].def[n].param_id)
  /\ GotoNext(a, "function")
  /\ UNCHANGED <<diskVars, module_parameter_lists, threadVars, errVars, boundVars, historyVars>>

List(a) == module_parameter_lists[ListOf(setup[a].param)]
SetList(a, n, parameters) ==
  module_parameter_lists' = [module_parameter_lists EXCEPT
    ![ListOf(setup[a].param)] = [n_parameters |-> n, parameters |-> parameters]]

ListHeader(a) ==
  /\ setup[a].step = "header" /\ ~IsPipeline(setup[a].param)
  /\ SetList(a, Len(setup[a].def), List(a).parameters)
  /\ Goto(a, "alloc")
  /\ UNCHANGED <<diskVars, pipelines, threadVars, errVars, boundVars, historyVars>>

\* malloc of the array: its elements are not set.
AllocList(a) ==
  /\ setup[a].step = "alloc"
  /\ SetList(a, List(a).n_parameters, [k \in 1 .. Len(setup[a].def) |-> Junk])
  /\ Goto(a, "parameter")
  /\ UNCHANGED <<diskVars, pipelines, threadVars, errVars, boundVars, historyVars>>

\* malloc fails for the array or for an element, which frees the array again;
\* n_parameters keeps its value.
AllocFails(a) ==
  /\ "malloc" \in Faults
  /\ setup[a].step \in {"alloc", "parameter"} /\ setup[a].idx <= Len(setup[a].def)
  /\ SetList(a, List(a).n_parameters, <<>>)
  /\ SetError(MEMORY_MALLOC) /\ faulted' = TRUE
  /\ Return(a)
  /\ UNCHANGED <<diskVars, pipelines, threadVars, err_current_pipeline, err_current_module, boundVars,
                 ever, ran, nullRuns, overlap>>

\* Mutant: the loop over the elements takes one more than there are.
SetParameter_OneMore(a) ==
  /\ setup[a].step = "parameter" /\ setup[a].idx <= Len(setup[a].def) + 1
  /\ LET n == setup[a].idx
         array == List(a).parameters
     IN SetList(a, List(a).n_parameters,
                IF n \in DOMAIN array THEN [array EXCEPT ![n] = setup[a].def[n]] ELSE array)
  /\ GotoNext(a, "parameter")
  /\ UNCHANGED <<diskVars, pipelines, threadVars, errVars, boundVars, historyVars>>

\* The array is the one that the table names by now, whoever put it there;
\* a write past its end lands in memory that the model does not have.
SetParameter(a) ==
  /\ setup[a].step = "parameter" /\ setup[a].idx <= Len(setup[a].def)
  /\ LET n == setup[a].idx
         array == List(a).parameters
     IN SetList(a, List(a).n_parameters,
                IF n \in DOMAIN array THEN [array EXCEPT ![n] = setup[a].def[n]] ELSE array)
  /\ GotoNext(a, "parameter")
  /\ UNCHANGED <<diskVars, pipelines, threadVars, errVars, boundVars, historyVars>>

SetupDone(a) ==
  /\ setup[a].step \in {"function", "parameter"} /\ setup[a].idx > Len(setup[a].def)
  /\ Return(a)
  /\ UNCHANGED <<diskVars, tableVars, threadVars, errVars, boundVars, historyVars>>

Setup(a) ==
  \/ ReadParam(a) \/ ReadParamFails(a) \/ SkipParam(a)
  \/ PipelineHeader(a) \/ LoadModule(a) \/ SetParamId(a)
  \/ ListHeader(a) \/ AllocList(a) \/ AllocFails(a) \/ SetParameter(a)
  \/ SetupDone(a)

-----------------------------------------------------------------------------
(* The router and the ground.                                              *)

\* The processing thread uses the tables.
Using == {"rebuild", "loop", "wait"}

\* The ground writes a parameter: it is stored, and its callback runs.
SetParam(k, v) ==
  /\ commands < MaxCommands /\ setup[Router].step = "none" /\ pc # "undefined"
  /\ v \in DOMAIN Contents(k) \cup {Undecodable, Garbled}
  /\ stored' = [stored EXCEPT ![k] = v] /\ ever' = [ever EXCEPT ![k] = @ \cup {v}]
  /\ setup' = [setup EXCEPT ![Router] = BeginSetup(k)]
  /\ overlap' = (overlap \/ pc \in Using)
  /\ commands' = commands + 1
  /\ UNCHANGED <<installed, tableVars, threadVars, errVars, restarts, ran, nullRuns, faulted>>

\* The same in a process whose behaviour is undefined, which may still store the
\* parameter.
StoreParam(k, v) ==
  /\ commands < MaxCommands /\ pc = "undefined"
  /\ v \in DOMAIN Contents(k) \cup {Undecodable, Garbled}
  /\ stored' = [stored EXCEPT ![k] = v] /\ ever' = [ever EXCEPT ![k] = @ \cup {v}]
  /\ commands' = commands + 1
  /\ UNCHANGED <<installed, tableVars, setup, threadVars, errVars, restarts, ran, nullRuns, overlap,
                 faulted>>

\* A shared object is copied to the directory of the modules.
Install(name) ==
  /\ name \notin installed
  /\ installed' = installed \cup {name}
  /\ UNCHANGED <<stored, tableVars, setup, threadVars, errVars, boundVars, historyVars>>

\* DIPP ends and is started again; storage survives.
Restart ==
  /\ restarts < MaxRestarts
  /\ restarts' = restarts + 1
  /\ pc' = "idle" /\ Fresh
  /\ UNCHANGED <<diskVars, batch, log_status, commands, ever, nullRuns, overlap, faulted>>

-----------------------------------------------------------------------------
(* The processing thread.                                                  *)

StartsUsing == overlap' = (overlap \/ setup[Router].step # "none")

\* setup_cache_if_needed
CacheIsSetup ==
  /\ pc = "idle" /\ is_setup
  /\ pc' = "ready"
  /\ UNCHANGED <<diskVars, tableVars, setup, is_setup, next, batch, i, errVars, boundVars, historyVars>>

RebuildCache ==
  /\ pc = "idle" /\ ~is_setup
  /\ pc' = "rebuild" /\ next' = 1
  /\ StartsUsing
  /\ UNCHANGED <<diskVars, tableVars, setup, is_setup, batch, i, errVars, boundVars, ever, ran, nullRuns, faulted>>

\* setup_all_pipelines, then setup_all_module_configs.
RebuildParam ==
  /\ pc = "rebuild" /\ next \in Params /\ setup[Processing].step = "none"
  /\ setup' = [setup EXCEPT ![Processing] = BeginSetup(next)]
  /\ next' = next + 1
  /\ UNCHANGED <<diskVars, tableVars, is_setup, pc, batch, i, errVars, boundVars, historyVars>>

RebuildDone ==
  /\ pc = "rebuild" /\ next \notin Params /\ setup[Processing].step = "none"
  /\ is_setup' = TRUE /\ pc' = "ready"
  /\ UNCHANGED <<diskVars, tableVars, setup, next, batch, i, errVars, boundVars, historyVars>>

\* A message that asks for pipeline p: get_pipeline_by_id finds it.
Execute(p) ==
  /\ pc = "ready" /\ pipelines[p].pipeline_id = p
  /\ batch' = p /\ i' = 0 /\ ran' = <<>>
  /\ err_current_pipeline' = p
  /\ pc' = "loop"
  /\ StartsUsing
  /\ UNCHANGED <<diskVars, tableVars, setup, is_setup, next, err_current_module, log_status, boundVars,
                 ever, nullRuns, faulted>>

\* The pipeline has never been set up.
Refuse(p) ==
  /\ pc = "ready" /\ pipelines[p].pipeline_id # p
  /\ batch' = p /\ i' = 0 /\ ran' = <<>>
  /\ SetError(INTERNAL_PID_NOT_FOUND)
  /\ pc' = "done"
  /\ UNCHANGED <<diskVars, tableVars, setup, is_setup, next, err_current_pipeline, err_current_module,
                 boundVars, ever, nullRuns, overlap, faulted>>

\* The parameters that a child finds: the table as it is when it is forked, or
\* whatever lies before or behind it.
ParametersOf(m) ==
  IF m \notin 1 .. NumLists THEN <<Junk>>
  ELSE [k \in 1 .. module_parameter_lists[m].n_parameters |->
          IF k <= Len(module_parameter_lists[m].parameters)
            THEN module_parameter_lists[m].parameters[k] ELSE Junk]

\* A child is forked for the next module of the pipeline, as the table has
\* it at this moment.
Fork ==
  /\ pc = "loop" /\ i < pipelines[batch].num_modules
  /\ LET module == pipelines[batch].modules[i + 1] IN
       /\ ran' = Append(ran, [function |-> module.function, param_id |-> module.param_id,
                              config |-> ParametersOf(module.param_id)])
       /\ nullRuns' = IF module.function = NULL /\ installed = Names /\ stored[batch] # Garbled
                        THEN nullRuns + 1 ELSE nullRuns
  /\ err_current_module' = i + 1
  /\ pc' = "wait"
  /\ UNCHANGED <<diskVars, tableVars, setup, is_setup, next, batch, i, err_current_pipeline, log_status,
                 boundVars, ever, overlap, faulted>>

ModuleSucceeds ==
  /\ pc = "wait" /\ ran[Len(ran)].function # NULL
  /\ i' = i + 1 /\ pc' = "loop"
  /\ UNCHANGED <<diskVars, tableVars, setup, is_setup, next, batch, errVars, boundVars, historyVars>>

\* Mutant: the cache survives a failing module.
ModuleFails_KeepsCache ==
  /\ pc = "wait"
  /\ SetError(MODULE_EXIT_CRASH)
  /\ pc' = "done"
  /\ UNCHANGED <<diskVars, tableVars, setup, is_setup, next, batch, i, err_current_pipeline, err_current_module,
                 boundVars, historyVars>>

\* The child fails, as it must when it calls a null pointer; the crash code
\* stands for any that is published.  invalidate_cache
ModuleFails ==
  /\ pc = "wait"
  /\ SetError(MODULE_EXIT_CRASH)
  /\ is_setup' = FALSE /\ pc' = "done"
  /\ UNCHANGED <<diskVars, tableVars, setup, next, batch, i, err_current_pipeline, err_current_module,
                 boundVars, historyVars>>

Finish ==
  /\ pc = "loop" /\ i >= pipelines[batch].num_modules
  /\ pc' = "done"
  /\ UNCHANGED <<diskVars, tableVars, setup, is_setup, next, batch, i, errVars, boundVars, historyVars>>

\* process resets the error context.
Reset ==
  /\ pc = "done"
  /\ err_current_pipeline' = 0 /\ err_current_module' = 0
  /\ pc' = "idle"
  /\ UNCHANGED <<diskVars, tableVars, setup, is_setup, next, batch, i, log_status, boundVars, historyVars>>

\* Batches may go on failing in a process whose behaviour is undefined.
Undefined ==
  /\ pc = "undefined" /\ SetError(MODULE_EXIT_CRASH)
  /\ UNCHANGED <<diskVars, tableVars, setup, threadVars, err_current_pipeline, err_current_module,
                 boundVars, historyVars>>

Thread ==
  \/ CacheIsSetup \/ RebuildCache \/ RebuildParam \/ RebuildDone
  \/ Fork \/ ModuleSucceeds \/ ModuleFails \/ Finish \/ Reset \/ Undefined

Next ==
  \/ \E k \in Params : \E v \in DOMAIN Contents(k) \cup {Undecodable, Garbled} :
       SetParam(k, v) \/ StoreParam(k, v)
  \/ \E name \in Names : Install(name)
  \/ Restart
  \/ \E a \in Actors : Setup(a) \/ PipelineOverruns(a)
  \/ \E p \in Pipelines : Execute(p) \/ Refuse(p)
  \/ Thread

Spec == Init /\ [][Next]_vars

-----------------------------------------------------------------------------
(* Properties.                                                             *)

\* The modules that parameter p prescribes: none if it yields no bytes.
Prescribed(p) == IF stored[p] \in DOMAIN Definitions THEN Definitions[stored[p]] ELSE <<>>
Configured(m) ==
  LET v == stored[NumPipelines + m] IN IF v \in DOMAIN Configs THEN Configs[v] ELSE <<>>

Steps == {"none", "read", "header", "function", "param_id", "alloc", "parameter"}

PipelineRecord ==
  [pipeline_id : 0 .. NumPipelines, num_modules : 0 .. ArraySize,
   modules : [1 .. ArraySize -> [function : Names \cup {NULL}, param_id : Int]]]

TableTypes ==
  /\ pipelines \in [Pipelines -> PipelineRecord]
  /\ module_parameter_lists \in [1 .. NumLists -> [n_parameters : Nat, parameters : Seq(STRING)]]

\* What a setup function unpacked is a content that its parameter can have;
\* no module or element is set past the end of it.
SetupTypes ==
  \A a \in Actors :
    /\ setup[a].step \in Steps /\ setup[a].param \in Params
    /\ setup[a].def = <<>> \/ \E v \in DOMAIN Contents(setup[a].param) : setup[a].def = Contents(setup[a].param)[v]
    /\ setup[a].idx \in 0 .. Len(setup[a].def) + 1
    /\ setup[a].step = "param_id" => setup[a].idx \in DOMAIN setup[a].def
    /\ setup[a].step \in {"function", "param_id"} => IsPipeline(setup[a].param)
    /\ setup[a].step \in {"alloc", "parameter"} => ~IsPipeline(setup[a].param)

ThreadTypes ==
  /\ pc \in {"idle", "rebuild", "ready", "loop", "wait", "done", "undefined"}
  /\ next \in 1 .. NumPipelines + NumLists + 1 /\ batch \in Pipelines
  /\ i \in 0 .. ArraySize /\ (pc = "wait" => i < ArraySize)
  /\ is_setup \in BOOLEAN
  /\ err_current_pipeline \in 0 .. NumPipelines /\ err_current_module \in 0 .. ArraySize
  /\ log_status \in Nat

\* Every variable keeps to the values its C counterpart can take; the indices
\* into Pipeline.modules and into the definitions stay within their bounds, until
\* a definition that is longer than its entry is set up (pc is "undefined" then,
\* and there is nothing left to say of the tables).
TypeOK == TableTypes /\ SetupTypes /\ ThreadTypes

\* Whatever the router does meanwhile, a module that is run at some position
\* is one that the parameter of that pipeline has had at that position, or a
\* null pointer, unless the behaviour is undefined.
ModulesWereConfigured ==
  \A j \in DOMAIN ran :
    ran[j].function # NULL =>
      \E v \in ever[batch] \cap DOMAIN Definitions :
        j <= Len(Definitions[v]) /\ Definitions[v][j].name = ran[j].function

\* Unless the router has configured while the tables were in use, a batch is
\* processed by the modules that its parameter prescribes, in their order,
\* with their parameters if they have a list, or the behaviour is undefined.
BatchFollowsStorage ==
  ~overlap /\ ~faulted /\ pc \in {"loop", "wait"} /\ stored[batch] # Garbled =>
    /\ Len(ran) <= Len(Prescribed(batch))
    /\ \A j \in DOMAIN ran :
         LET prescribed == Prescribed(batch)[j]
             content == stored[NumPipelines + prescribed.param_id]
         IN /\ ran[j].function \in {prescribed.name, NULL}
            /\ ran[j].param_id = prescribed.param_id
            /\ prescribed.param_id \in 1 .. NumLists /\ content # Garbled =>
                 ran[j].config = Configured(prescribed.param_id)

\* Unless the router has configured while the tables were in use, once all
\* modules are installed at most one batch fails because one was missing
\* when its pipeline was set up, not counting those of undefined behaviour.
MissingModuleFailsOnce == ~overlap => nullRuns <= 1

-----------------------------------------------------------------------------
(* What the repository says and the code does not do.                      *)

\* README, "Error signaling": errors outside of a module are suffixed with
\* zeros; "501000: Could not find SO file with name 'module' during preload".
PreloadErrorUnsuffixed ==
  CodeOf(log_status) = INTERNAL_SO_NOT_FOUND =>
    PipelineOf(log_status) = 0 /\ ModuleOf(log_status) = 0
=============================================================================
