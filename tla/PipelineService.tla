--------------------------- MODULE PipelineService ---------------------------
(***************************************************************************)
(* What executing a pipeline promises, without processes, pipes or         *)
(* descriptors: the modules of the requested pipeline take effect one      *)
(* after the other, each exactly once, the first failure ends the          *)
(* execution, and every failure publishes exactly one report, which names  *)
(* the pipeline and the stage that failed.  A success publishes nothing.   *)
(***************************************************************************)
EXTENDS DippError, Integers

CONSTANTS PipelineIds, NumModules, RequestedIds, ReportCodes

VARIABLES
  phase,     \* "idle", "running", "success" or "failure"
  pipeline,  \* the id requested
  stage,     \* modules whose result the batch holds
  report     \* the last error published

vars == <<phase, pipeline, stage, report>>

(* The codes a failing module may be reported with.                        *)
ModuleCodes ==
  {PIPE_READ, MODULE_EXIT_CRASH, MODULE_EXIT_TIMEOUT}
    \cup {MODULE_EXIT_CUSTOM + c : c \in ReportCodes \cap 0 .. 99}
    \cup {c \in ReportCodes : c >= 100}

Init == phase = "idle" /\ pipeline = 0 /\ stage = 0 /\ report = 0

Begin(p) ==
  /\ phase = "idle" /\ p \in PipelineIds
  /\ phase' = "running" /\ pipeline' = p /\ stage' = 0
  /\ UNCHANGED report

Refuse(p) ==
  /\ phase = "idle" /\ p \notin PipelineIds
  /\ phase' = "failure" /\ pipeline' = p /\ stage' = 0
  /\ report' = get_error_as_uint32(INTERNAL_PID_NOT_FOUND, 0, 0)

Advance ==
  /\ phase = "running" /\ stage < NumModules[pipeline]
  /\ stage' = stage + 1
  /\ UNCHANGED <<phase, pipeline, report>>

Succeed ==
  /\ phase = "running" /\ stage = NumModules[pipeline]
  /\ phase' = "success"
  /\ UNCHANGED <<pipeline, stage, report>>

\* The execution fails before its first module.
FailToStart ==
  /\ phase = "running" /\ stage = 0
  /\ phase' = "failure"
  /\ report' = get_error_as_uint32(PIPE_CREATE, pipeline, 0)
  /\ UNCHANGED <<pipeline, stage>>

\* The module after the current stage fails.
FailStage(code) ==
  /\ phase = "running" /\ stage < NumModules[pipeline]
  /\ phase' = "failure"
  /\ report' = get_error_as_uint32(code, pipeline, stage + 1)
  /\ UNCHANGED <<pipeline, stage>>

Rest ==
  /\ phase \in {"success", "failure"}
  /\ phase' = "idle"
  /\ UNCHANGED <<pipeline, stage, report>>

Next ==
  \/ \E p \in RequestedIds : Begin(p) \/ Refuse(p)
  \/ Advance \/ Succeed \/ FailToStart
  \/ \E code \in ModuleCodes : FailStage(code)
  \/ Rest

Spec == Init /\ [][Next]_vars
=============================================================================
