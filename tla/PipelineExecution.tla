-------------------------- MODULE PipelineExecution --------------------------
(***************************************************************************)
(* The execution of one image batch by one pipeline: load_pipeline_and_    *)
(* execute, execute_pipeline, execute_module_in_process and timeout_handler*)
(* of src/src/dipp_process.c.  The processing thread (the parent) forks one *)
(* child per module, waits for it, and learns its result through the       *)
(* output pipe or its error code through the error pipe.  The parent keeps *)
(* both ends of both pipes open, so a read of an empty pipe blocks and     *)
(* never sees end-of-file.                                                 *)
(*                                                                         *)
(* What the module code does inside the child is external: a module may    *)
(* return, report an error and exit, crash, or simply run on.  Behaviours  *)
(* and Faults name what the environment may do beyond that.                *)
(***************************************************************************)
EXTENDS DippError, Integers, Sequences

CONSTANTS
  PipelineIds,   \* the ids found in pipelines[]: those setup_pipeline has set,
                 \* and 0 while an entry is as it was at the start
  NumModules,    \* pipelines[].num_modules, by pipeline id
  RequestedIds,  \* the pipeline_id values that image batches carry
  ReportCodes,   \* the uint16_t codes modules write to the error pipe
  ModuleTimeout, \* the module_timeout parameter; 0 arms no alarm
  Behaviours,    \* what the modules of each pipeline do beyond returning,
                 \* crashing and reporting
  Faults,        \* system calls that may fail while each pipeline executes
  FdLimit,       \* descriptors the process may have open for pipes
  MaxReports     \* bound: codes modules leave in the error pipe

MAX_PIPELINES == 6
MAX_MODULES == 20
UINT16_MAX == 65535

ASSUME ConfigAssumption ==
  /\ PipelineIds \subseteq 0 .. MAX_PIPELINES
  /\ NumModules \in [PipelineIds -> 0 .. MAX_MODULES]
  /\ 0 \in PipelineIds => NumModules[0] = 0
  /\ RequestedIds \subseteq Int

ASSUME EnvironmentAssumption ==
  /\ ReportCodes \subseteq 0 .. UINT16_MAX
  /\ ModuleTimeout \in Nat
  /\ Behaviours \in [PipelineIds -> SUBSET {"carry_on", "silent_exit", "exit_zero"}]
  /\ Faults \in [PipelineIds -> SUBSET {"pipe", "fork", "read"}]
  /\ FdLimit \in Nat
  /\ MaxReports \in Nat

VARIABLES
  pc,           \* where the processing thread is
  pipeline,     \* the pipeline_id of the batch
  i,            \* the loop index of execute_pipeline: modules completed
  data,         \* the module whose output the batch holds, 0: as received
  outcome,      \* the value load_pipeline_and_execute returns
  child,        \* the forked process
  status,       \* its wait status
  output_pipe,  \* results in the output pipe, by the module that wrote them
  error_pipe,   \* codes in the error pipe, with the module that wrote them
  fds,          \* pipe descriptors the parent has open
  err_current_pipeline, err_current_module, log_status,
  is_setup,     \* the configuration cache is built
  faulted       \* history: a pipe() or a read() has failed

parentVars == <<pc, pipeline, i, data, outcome>>
childVars == <<child, status>>
pipeVars == <<output_pipe, error_pipe, fds>>
errVars == <<err_current_pipeline, err_current_module, log_status>>
vars == <<parentVars, childVars, pipeVars, errVars, is_setup, faulted>>

\* set_error_param
SetError(code) ==
  log_status' = get_error_as_uint32(code, err_current_pipeline, err_current_module)

\* Mutant: the pipes are closed where the module fails and again by the caller.
ClosePipes_Twice ==
  fds' = fds - 8 /\ output_pipe' = <<>> /\ error_pipe' = <<>>

\* The four close() calls: what the pipes held is gone.
ClosePipes ==
  /\ fds' = fds - 4
  /\ output_pipe' = <<>>
  /\ error_pipe' = <<>>

Return(result) ==
  /\ outcome' = result
  /\ pc' = "done"
  /\ UNCHANGED <<pipeline, i, data>>

\* Mutant: the cache survives a failing module.
FailModule_KeepsCache(code) ==
  /\ SetError(code)
  /\ ClosePipes
  /\ Return("failure")
  /\ UNCHANGED <<childVars, err_current_pipeline, err_current_module, is_setup>>

\* Mutant: the failure path returns without closing the pipes.
FailModule_LeaksPipes(code) ==
  /\ SetError(code)
  /\ is_setup' = FALSE
  /\ Return("failure")
  /\ UNCHANGED <<childVars, pipeVars, err_current_pipeline, err_current_module>>

\* execute_module_in_process returns FAILURE; execute_pipeline gives up.
FailModule(code) ==
  /\ SetError(code)
  /\ is_setup' = FALSE
  /\ ClosePipes
  /\ Return("failure")
  /\ UNCHANGED <<childVars, err_current_pipeline, err_current_module>>

Init ==
  /\ pc = "idle" /\ pipeline = 0 /\ i = 0 /\ data = 0 /\ outcome = "none"
  /\ child = "none" /\ status = "success"
  /\ output_pipe = <<>> /\ error_pipe = <<>> /\ fds = 0
  /\ err_current_pipeline = 0 /\ err_current_module = 0 /\ log_status = 0
  /\ is_setup = FALSE /\ faulted = FALSE

-----------------------------------------------------------------------------
(* The processing thread.                                                  *)

\* setup_cache_if_needed has run; get_pipeline_by_id finds the pipeline.
Accept(p) ==
  /\ pc = "idle" /\ p \in PipelineIds
  /\ pc' = "open" /\ pipeline' = p /\ i' = 0 /\ data' = 0
  /\ is_setup' = TRUE
  /\ err_current_pipeline' = p
  /\ UNCHANGED <<outcome, childVars, pipeVars, err_current_module, log_status, faulted>>

\* get_pipeline_by_id finds no pipeline with this id.
Reject(p) ==
  /\ pc = "idle" /\ p \notin PipelineIds
  /\ pc' = "done" /\ pipeline' = p /\ i' = 0 /\ data' = 0 /\ outcome' = "failure"
  /\ is_setup' = TRUE
  /\ SetError(INTERNAL_PID_NOT_FOUND)
  /\ UNCHANGED <<childVars, pipeVars, err_current_pipeline, err_current_module, faulted>>

OpenPipes ==
  /\ pc = "open" /\ fds + 4 <= FdLimit
  /\ fds' = fds + 4 /\ output_pipe' = <<>> /\ error_pipe' = <<>>
  /\ pc' = "loop"
  /\ UNCHANGED <<pipeline, i, data, outcome, childVars, errVars, is_setup, faulted>>

\* pipe() fails for the output pipe (n = 0), or for the error pipe once the
\* output pipe is open (n = 2): its two descriptors are not closed again.
OpenPipesFails ==
  /\ pc = "open"
  /\ \E n \in {0, 2} :
       /\ fds + n <= FdLimit
       /\ "pipe" \in Faults[pipeline] \/ fds + n + 2 > FdLimit
       /\ fds' = fds + n
  /\ SetError(PIPE_CREATE)
  /\ Return("failure")
  /\ faulted' = TRUE
  /\ UNCHANGED <<childVars, output_pipe, error_pipe, err_current_pipeline, err_current_module, is_setup>>

\* Mutant: err_current_module is the zero-based loop index.
Fork_ZeroBased ==
  /\ pc = "loop" /\ i < NumModules[pipeline]
  /\ err_current_module' = i
  /\ child' = "running"
  /\ pc' = "wait"
  /\ UNCHANGED <<pipeline, i, data, outcome, status, pipeVars, err_current_pipeline, log_status, is_setup, faulted>>

Fork ==
  /\ pc = "loop" /\ i < NumModules[pipeline]
  /\ err_current_module' = i + 1
  /\ child' = "running"
  /\ pc' = "wait"
  /\ UNCHANGED <<pipeline, i, data, outcome, status, pipeVars, err_current_pipeline, log_status, is_setup, faulted>>

\* fork() returns -1, which the code takes for a child's pid: waitpid(-1)
\* finds no child and leaves the uninitialized status as it is, whatever it is.
ForkFails ==
  /\ pc = "loop" /\ i < NumModules[pipeline]
  /\ "fork" \in Faults[pipeline]
  /\ err_current_module' = i + 1
  /\ status' \in {"success", "failure", "signal"}
  /\ pc' = "reaped"
  /\ UNCHANGED <<pipeline, i, data, outcome, child, pipeVars, err_current_pipeline, log_status, is_setup, faulted>>

Finish ==
  /\ pc = "loop" /\ i = NumModules[pipeline]
  /\ ClosePipes
  /\ Return("success")
  /\ UNCHANGED <<childVars, errVars, is_setup, faulted>>

WaitPid ==
  /\ pc = "wait" /\ child = "exited"
  /\ child' = "none" /\ pc' = "reaped"
  /\ UNCHANGED <<pipeline, i, data, outcome, status, pipeVars, errVars, is_setup, faulted>>

\* WIFEXITED is false.
ChildCrashed ==
  /\ pc = "reaped" /\ status = "signal"
  /\ FailModule(MODULE_EXIT_CRASH)
  /\ UNCHANGED faulted

\* The exit status is not zero and the error pipe holds a code: the oldest.
ReadError ==
  /\ pc = "reaped" /\ status = "failure" /\ error_pipe # <<>>
  /\ LET module_error == Head(error_pipe).code IN
       FailModule(IF module_error < 100 THEN MODULE_EXIT_CUSTOM + module_error
                                        ELSE module_error)
  /\ UNCHANGED faulted

ReadErrorFails ==
  /\ pc = "reaped" /\ status = "failure"
  /\ "read" \in Faults[pipeline]
  /\ FailModule(PIPE_READ)
  /\ faulted' = TRUE

\* Mutant: the batch keeps its old segment after a module has run.
ReadOutput_KeepsInput ==
  /\ pc = "reaped" /\ status = "success" /\ output_pipe # <<>>
  /\ output_pipe' = Tail(output_pipe)
  /\ i' = i + 1 /\ pc' = "loop"
  /\ UNCHANGED <<pipeline, data, outcome, childVars, error_pipe, fds, errVars, is_setup, faulted>>

ReadOutput ==
  /\ pc = "reaped" /\ status = "success" /\ output_pipe # <<>>
  /\ data' = Head(output_pipe) /\ output_pipe' = Tail(output_pipe)
  /\ i' = i + 1 /\ pc' = "loop"
  /\ UNCHANGED <<pipeline, outcome, childVars, error_pipe, fds, errVars, is_setup, faulted>>

\* This return does not close the pipes.
ReadOutputFails ==
  /\ pc = "reaped" /\ status = "success"
  /\ "read" \in Faults[pipeline]
  /\ SetError(PIPE_READ)
  /\ Return("failure")
  /\ faulted' = TRUE
  /\ UNCHANGED <<childVars, pipeVars, err_current_pipeline, err_current_module, is_setup>>

\* Mutant: the error context of the batch outlives it.
Reset_KeepsContext ==
  /\ pc = "done"
  /\ pc' = "idle" /\ outcome' = "none"
  /\ UNCHANGED <<pipeline, i, data, childVars, pipeVars, errVars, is_setup, faulted>>

\* process() resets the error context; what it does with the batch is
\* the subject of BatchProcessing.
Reset ==
  /\ pc = "done"
  /\ err_current_pipeline' = 0 /\ err_current_module' = 0
  /\ pc' = "idle" /\ outcome' = "none"
  /\ UNCHANGED <<pipeline, i, data, childVars, pipeVars, log_status, is_setup, faulted>>

-----------------------------------------------------------------------------
(* The child process.                                                      *)

Exit(st) ==
  /\ child' = "exited" /\ status' = st
  /\ UNCHANGED <<parentVars, fds, errVars, is_setup, faulted>>

WriteError(code) ==
  error_pipe' = Append(error_pipe, [code |-> code, by |-> i + 1])

\* The module writes a code to the error pipe and goes on to exit or, if
\* its author chose so, carries on as if nothing had happened.
ModuleReports(code) ==
  /\ child = "running" /\ Len(error_pipe) < MaxReports
  /\ WriteError(code)
  /\ child' \in {"exiting"} \cup (IF "carry_on" \in Behaviours[pipeline] THEN {"running"} ELSE {})
  /\ UNCHANGED <<parentVars, status, output_pipe, fds, errVars, is_setup, faulted>>

ModuleExits ==
  /\ child = "exiting" \/ (child = "running" /\ "silent_exit" \in Behaviours[pipeline])
  /\ Exit("failure") /\ UNCHANGED <<output_pipe, error_pipe>>

ModuleExitsZero ==
  /\ child = "running" /\ "exit_zero" \in Behaviours[pipeline]
  /\ Exit("success") /\ UNCHANGED <<output_pipe, error_pipe>>

ModuleCrashes ==
  /\ child = "running"
  /\ Exit("signal") /\ UNCHANGED <<output_pipe, error_pipe>>

ModuleReturns ==
  /\ child = "running"
  /\ child' = "returned"
  /\ UNCHANGED <<parentVars, status, pipeVars, errVars, is_setup, faulted>>

\* Mutant: alarm(0) is missing, so that the alarm may still fire at the end.
TimeoutHandler_NotStopped ==
  /\ ModuleTimeout > 0 /\ child \in {"running", "exiting", "returned", "disarmed", "written"}
  /\ WriteError(MODULE_EXIT_TIMEOUT)
  /\ Exit("failure") /\ UNCHANGED output_pipe

\* Mutant: the handler returns to the module instead of exiting.
TimeoutHandler_Returns ==
  /\ ModuleTimeout > 0 /\ child \in {"running", "exiting", "returned"}
  /\ Len(error_pipe) < MaxReports
  /\ WriteError(MODULE_EXIT_TIMEOUT)
  /\ UNCHANGED <<parentVars, childVars, output_pipe, fds, errVars, is_setup, faulted>>

\* Mutant: the handler exits without a code in the error pipe.
TimeoutHandler_Silent ==
  /\ ModuleTimeout > 0 /\ child \in {"running", "exiting", "returned"}
  /\ Exit("failure") /\ UNCHANGED <<output_pipe, error_pipe>>

\* SIGALRM before alarm(0): the handler writes its code and exits.
TimeoutHandler ==
  /\ ModuleTimeout > 0 /\ child \in {"running", "exiting", "returned"}
  /\ WriteError(MODULE_EXIT_TIMEOUT)
  /\ Exit("failure") /\ UNCHANGED output_pipe

StopAlarm ==
  /\ child = "returned"
  /\ child' = "disarmed"
  /\ UNCHANGED <<parentVars, status, pipeVars, errVars, is_setup, faulted>>

WriteResult ==
  /\ child = "disarmed"
  /\ output_pipe' = Append(output_pipe, i + 1)
  /\ child' = "written"
  /\ UNCHANGED <<parentVars, status, error_pipe, fds, errVars, is_setup, faulted>>

ExitSuccess ==
  /\ child = "written"
  /\ Exit("success") /\ UNCHANGED <<output_pipe, error_pipe>>

-----------------------------------------------------------------------------
Parent ==
  \/ OpenPipes \/ OpenPipesFails \/ Fork \/ ForkFails \/ Finish \/ WaitPid
  \/ ChildCrashed \/ ReadError \/ ReadErrorFails \/ ReadOutput \/ ReadOutputFails
  \/ Reset

\* Steps of the parent that need no system call to fail, unless the process
\* has no descriptors left.
Progress ==
  \/ OpenPipes \/ (fds + 4 > FdLimit /\ OpenPipesFails)
  \/ Fork \/ Finish \/ WaitPid \/ ChildCrashed \/ ReadError \/ ReadOutput \/ Reset

\* Steps of the child that the code itself takes, once the module is through.
Epilogue == (child = "exiting" /\ ModuleExits) \/ StopAlarm \/ WriteResult \/ ExitSuccess

Child ==
  \/ \E code \in ReportCodes : ModuleReports(code)
  \/ ModuleExits \/ ModuleExitsZero \/ ModuleCrashes \/ ModuleReturns
  \/ TimeoutHandler \/ StopAlarm \/ WriteResult \/ ExitSuccess

Next ==
  \/ \E p \in RequestedIds : Accept(p) \/ Reject(p)
  \/ Parent
  \/ Child

Spec == Init /\ [][Next]_vars

(***************************************************************************)
(* The scheduler runs the processing thread and the child, and the kernel  *)
(* delivers a pending SIGALRM.  Nothing obliges a module to return, the    *)
(* ground to send batches, or a system call to fail.                       *)
(***************************************************************************)
FairSpec == Spec /\ WF_vars(Progress) /\ WF_vars(Epilogue) /\ WF_vars(TimeoutHandler)

-----------------------------------------------------------------------------
(* Properties.                                                             *)

ErrorRecord == [code : 0 .. UINT16_MAX, by : 1 .. MAX_MODULES]

ProcessTypes ==
  /\ pc \in {"idle", "open", "loop", "wait", "reaped", "done"}
  /\ pipeline \in Int
  /\ i \in 0 .. MAX_MODULES /\ data \in 0 .. MAX_MODULES
  /\ outcome \in {"none", "success", "failure"}
  /\ child \in {"none", "running", "exiting", "returned", "disarmed", "written", "exited"}
  /\ status \in {"success", "failure", "signal"}
  /\ err_current_pipeline \in 0 .. MAX_PIPELINES
  /\ err_current_module \in 0 .. MAX_MODULES
  /\ log_status \in Nat
  /\ is_setup \in BOOLEAN /\ faulted \in BOOLEAN

PipeTypes ==
  /\ output_pipe \in Seq(1 .. MAX_MODULES)
  /\ error_pipe \in Seq(ErrorRecord)
  /\ fds \in 0 .. FdLimit

\* Every variable keeps to the values its C counterpart can take; the open
\* descriptors stay between zero and the limit of the process, so that no
\* path of execute_pipeline closes a pipe twice.
TypeOK == ProcessTypes /\ PipeTypes

\* When the next module is forked, the batch is what the previous module
\* returned and no result of an earlier one is left in the pipe; an execution
\* that succeeds leaves the batch as the pipeline's last module returned it.
ResultChain ==
  /\ pc = "loop" => data = i /\ output_pipe = <<>>
  /\ outcome = "success" => data = NumModules[pipeline]

\* A result is in the output pipe only if the child that wrote it ends, or is
\* about to end, with exit status 0: a module that crashed or timed out
\* delivers nothing, however late its alarm fired.
ResultMeansSuccess ==
  output_pipe # <<>> =>
    child = "written" \/ (child \in {"none", "exited"} /\ status = "success")

\* If no module of the pipeline carries on after it has reported an error, then the code that
\* the parent is about to read was written by the module that failed, not by
\* one before it in the pipeline.
BlameTheFailingModule ==
  pc \in {"wait", "reaped"} /\ "carry_on" \notin Behaviours[pipeline] =>
    \A k \in DOMAIN error_pipe : error_pipe[k].by = i + 1

\* After a failure log_status, read as the README reads it, names the pipeline
\* and either the module at which execution stopped or, if the execution could
\* not start, no module at all.
FailureNamesStage ==
  outcome = "failure" =>
    /\ PipelineOf(log_status) = IF pipeline \in PipelineIds THEN pipeline ELSE 0
    /\ ModuleOf(log_status) \in {0, i + 1}
    /\ ModuleOf(log_status) = 0 => CodeOf(log_status) \in {INTERNAL_PID_NOT_FOUND, PIPE_CREATE} /\ i = 0
    /\ CodeOf(log_status) \in {INTERNAL_PID_NOT_FOUND, PIPE_CREATE} \ ReportCodes => ModuleOf(log_status) = 0

\* As long as no pipe() and no read() has failed, every descriptor is back
\* when the execution is over, whichever way it ended.
DescriptorsReturned == pc = "idle" /\ ~faulted => fds = 0

\* As long as no pipe() and no read() has failed, the configuration cache is
\* invalid at the end exactly if a module failed.
RebuildAfterFailure ==
  pc = "done" /\ ~faulted =>
    (~is_setup <=> outcome = "failure" /\ pipeline \in PipelineIds)

\* Pipelines whose modules do not exit without a word, and for which fork works.
Tame == {p \in RequestedIds : p \in PipelineIds => Behaviours[p] = {} /\ "fork" \notin Faults[p]}

\* Every execution of such a pipeline comes to an end: the alarm frees the
\* parent from a module that runs on, and a pipe that is read is never empty.
ExecutionCompletes == \A p \in Tame : (pc # "idle" /\ pipeline = p) ~> pc = "idle"

\* The execution implements PipelineService; phase is the abstract state.
Phase == IF pc = "idle" THEN "idle" ELSE IF pc = "done" THEN outcome ELSE "running"

Service == INSTANCE PipelineService WITH phase <- Phase, stage <- data, report <- log_status

ImplementsService == Service!Spec

-----------------------------------------------------------------------------
(* What the repository says and the code does not do.                      *)

\* README, "Error signaling": a module that exits by itself with a non-zero
\* status and no code of its own is reported as 601, Normal.
SilentExitReported ==
  (pc = "reaped" /\ status = "failure" /\ error_pipe = <<>>)
    ~> CodeOf(log_status) = MODULE_EXIT_NORMAL
=============================================================================
