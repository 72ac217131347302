----------------------- MODULE PipelineExecutionProofs -----------------------
(***************************************************************************)
(* Proofs about PipelineExecution, for every configuration, every set of   *)
(* module behaviours and every set of system call faults.                  *)
(***************************************************************************)
EXTENDS PipelineExecution, TLAPS

(* Where the parent is, while its two pipes are in use.                    *)
Inside == {"loop", "wait", "reaped"}

(* The parts of the inductive invariant.                                   *)

\* What pc says about the loop, the error context and the cache.
ControlInv ==
  /\ pc \in {"open"} \cup Inside => pipeline \in PipelineIds /\ is_setup
  /\ pc \in {"open"} \cup Inside => err_current_pipeline = pipeline
  /\ pc = "open" => i = 0 /\ err_current_module = 0
  /\ pc \in Inside => i <= NumModules[pipeline]
  /\ pc = "loop" => err_current_module = i
  /\ pc \in {"wait", "reaped"} => err_current_module = i + 1 /\ i < NumModules[pipeline]
  /\ pc = "idle" => err_current_pipeline = 0 /\ err_current_module = 0
  /\ data = i
  /\ pc = "done" <=> outcome # "none"
  /\ outcome = "success" => pipeline \in PipelineIds /\ data = NumModules[pipeline]

\* A child lives only while the parent waits for it; the output pipe holds
\* its result at most, and only once it has left the module code.
ChildInv ==
  /\ child # "none" <=> pc = "wait"
  /\ pc = "loop" => output_pipe = <<>>
  /\ child \in {"running", "exiting", "returned", "disarmed"} => output_pipe = <<>>
  /\ child = "written" => output_pipe = <<i + 1>>
  /\ pc \in {"wait", "reaped"} /\ child \in {"none", "exited"} /\ status # "success"
       => output_pipe = <<>>
  /\ pc \in {"wait", "reaped"} /\ child \in {"none", "exited"}
       => output_pipe \in {<<>>, <<i + 1>>}

\* The output pipe outlives the execution only if reading it failed.
LeftoverInv == pc \in {"idle", "open", "done"} /\ output_pipe # <<>> => status = "success"

FdsInv ==
  /\ pc \in Inside => fds >= 4
  /\ ~faulted => fds = IF pc \in Inside THEN 4 ELSE 0

\* Without modules that carry on, a code in the pipe means its writer is about
\* to fail or has failed.
BlameInv ==
  "carry_on" \notin Behaviours[pipeline] =>
    /\ pc = "loop" => error_pipe = <<>>
    /\ child \in {"running", "returned", "disarmed", "written"} => error_pipe = <<>>
    /\ pc \in {"wait", "reaped"} /\ child \in {"none", "exited"} /\ status = "success"
         => error_pipe = <<>>
    /\ pc \in {"wait", "reaped"} => \A k \in DOMAIN error_pipe : error_pipe[k].by = i + 1

\* Codes in the error pipe come from a module or from the handler.
CodesInv == \A k \in DOMAIN error_pipe : error_pipe[k].code \in ReportCodes \cup {MODULE_EXIT_TIMEOUT}

\* What log_status holds once an execution has failed.
ReportInv ==
  outcome = "failure" =>
    \/ pipeline \notin PipelineIds /\ i = 0
         /\ log_status = get_error_as_uint32(INTERNAL_PID_NOT_FOUND, 0, 0)
    \/ pipeline \in PipelineIds /\ i = 0
         /\ log_status = get_error_as_uint32(PIPE_CREATE, pipeline, 0)
    \/ /\ pipeline \in PipelineIds /\ i < NumModules[pipeline]
       /\ \E code \in Service!ModuleCodes : log_status = get_error_as_uint32(code, pipeline, i + 1)

\* What an invalid cache says about an execution that is over.
CacheInv ==
  pc = "done" /\ ~faulted =>
    (~is_setup <=> outcome = "failure" /\ pipeline \in PipelineIds)

IInv ==
  /\ ProcessTypes /\ PipeTypes /\ ControlInv /\ ChildInv /\ LeftoverInv /\ FdsInv /\ CodesInv /\ BlameInv
  /\ ReportInv /\ CacheInv
-----------------------------------------------------------------------------
(* The invariant holds initially and every step preserves it.              *)

\* The codes the code itself publishes, and those it makes of a module's.
LEMMA ModuleCodesClosed ==
  /\ {PIPE_READ, MODULE_EXIT_CRASH, MODULE_EXIT_TIMEOUT} \subseteq Service!ModuleCodes
  /\ \A c \in ReportCodes \cup {MODULE_EXIT_TIMEOUT} :
       (IF c < 100 THEN MODULE_EXIT_CUSTOM + c ELSE c) \in Service!ModuleCodes
<1>1. Service!ModuleCodes =
        {PIPE_READ, MODULE_EXIT_CRASH, MODULE_EXIT_TIMEOUT}
          \cup {MODULE_EXIT_CUSTOM + c : c \in ReportCodes \cap 0 .. 99}
          \cup {c \in ReportCodes : c >= 100}
  BY DEF Service!ModuleCodes, Service!PIPE_READ, Service!MODULE_EXIT_CRASH,
         Service!MODULE_EXIT_TIMEOUT, Service!MODULE_EXIT_CUSTOM, PIPE_READ,
         MODULE_EXIT_CRASH, MODULE_EXIT_TIMEOUT, MODULE_EXIT_CUSTOM
<1>2. ASSUME NEW c \in ReportCodes \cup {MODULE_EXIT_TIMEOUT}
      PROVE  (IF c < 100 THEN MODULE_EXIT_CUSTOM + c ELSE c) \in Service!ModuleCodes
  <2>1. c \in Nat /\ (c < 100 => c \in ReportCodes)
    <3>1. c \in ReportCodes => c \in Nat
      BY EnvironmentAssumption DEF EnvironmentAssumption
    <3> QED
      BY <3>1 DEF MODULE_EXIT_TIMEOUT
  <2>2. CASE c < 100
    <3>1. c \in ReportCodes \cap 0 .. 99
      BY <2>1, <2>2
    <3> QED
      BY <1>1, <2>2, <3>1
  <2>3. CASE c >= 100
    BY <1>1, <2>1, <2>3
  <2> QED
    BY <2>1, <2>2, <2>3
<1> QED
  BY <1>1, <1>2

\* They are numbers, and 402 and 500 are among them only if a module says so.
LEMMA ModuleCodesAreNat ==
  \A code \in Service!ModuleCodes :
    /\ code \in Nat
    /\ code \in {INTERNAL_PID_NOT_FOUND, PIPE_CREATE} => code \in ReportCodes
<1>1. ReportCodes \subseteq Nat
  BY EnvironmentAssumption DEF EnvironmentAssumption
<1> QED
  BY <1>1 DEF Service!ModuleCodes, Service!PIPE_READ, Service!MODULE_EXIT_CRASH,
     Service!MODULE_EXIT_TIMEOUT, Service!MODULE_EXIT_CUSTOM, PIPE_CREATE, INTERNAL_PID_NOT_FOUND

\* Giving up at the module after stage i leaves a report that says so.
LEMMA GivingUpReports ==
  ASSUME IInv, pc = "reaped", NEW code \in Service!ModuleCodes,
         SetError(code), Return("failure")
  PROVE  ReportInv'
<1>1. /\ pipeline \in PipelineIds /\ i < NumModules[pipeline]
      /\ err_current_pipeline = pipeline /\ err_current_module = i + 1
  BY DEF IInv, ControlInv, Inside
<1> QED
  BY <1>1 DEF ReportInv, SetError, Return

\* The head of a non-empty sequence is one of its elements' values.
LEMMA HeadIsElement ==
  ASSUME NEW S, NEW s \in Seq(S), s # <<>>
  PROVE  Head(s) \in S
OBVIOUS

\* Everything in the output pipe is the number of a stage.
LEMMA OutputPipeTypes ==
  ASSUME PipeTypes
  PROVE  /\ output_pipe \in Seq(Nat)
         /\ output_pipe # <<>> => Head(output_pipe) \in 0 .. MAX_MODULES
<1>1. output_pipe \in Seq(1 .. MAX_MODULES)
  BY DEF PipeTypes
<1>2. \A n \in 1 .. MAX_MODULES : n \in Nat /\ n \in 0 .. MAX_MODULES
  BY DEF MAX_MODULES
<1>3. output_pipe \in Seq(Nat)
  <2>1. ASSUME NEW S, NEW T, S \subseteq T, NEW s \in Seq(S) PROVE s \in Seq(T)
    BY <2>1
  <2>2. 1 .. MAX_MODULES \subseteq Nat
    BY <1>2
  <2> QED
    BY <1>1, <2>1, <2>2
<1>4. output_pipe # <<>> => Head(output_pipe) \in 1 .. MAX_MODULES
  BY <1>1, HeadIsElement
<1> QED
  BY <1>2, <1>3, <1>4

\* The types of all but the pipes.
LEMMA ProcessTypesStep == IInv /\ [Next]_vars => ProcessTypes'
<1> SUFFICES ASSUME IInv, [Next]_vars PROVE ProcessTypes'
  OBVIOUS
<1>f. ProcessTypes /\ ControlInv
  BY DEF IInv
<1>g. \A p \in PipelineIds : NumModules[p] \in 0 .. MAX_MODULES /\ p \in 0 .. MAX_PIPELINES
  BY ConfigAssumption DEF ConfigAssumption, MAX_PIPELINES, MAX_MODULES
<1>h. \A code \in Nat : SetError(code) => log_status' \in Nat
  BY <1>f DEF SetError, get_error_as_uint32, ProcessTypes
<1>i. ASSUME NEW code \in Nat, pc = "reaped", FailModule(code)
      PROVE  (faulted' \in BOOLEAN) => ProcessTypes'
  BY <1>f, <1>h, <1>i DEF FailModule, Return, ProcessTypes, childVars
<1>k. RequestedIds \subseteq Int
  BY ConfigAssumption DEF ConfigAssumption
<1>l. output_pipe # <<>> => Head(output_pipe) \in 0 .. MAX_MODULES
  BY OutputPipeTypes DEF IInv
<1> USE <1>f, <1>g DEF ProcessTypes, ControlInv, Inside, MAX_MODULES, MAX_PIPELINES, parentVars, childVars, pipeVars, errVars
<1>1. CASE \E p \in RequestedIds : Accept(p)
  BY <1>1, <1>k DEF Accept
<1>2. CASE \E p \in RequestedIds : Reject(p)
  BY <1>2, <1>h, <1>k DEF Reject, INTERNAL_PID_NOT_FOUND
<1>3. CASE OpenPipes
  BY <1>3 DEF OpenPipes
<1>4. CASE OpenPipesFails
  BY <1>4, <1>h DEF OpenPipesFails, Return, PIPE_CREATE
<1>5. CASE Fork
  BY <1>5 DEF Fork
<1>6. CASE ForkFails
  BY <1>6 DEF ForkFails
<1>7. CASE Finish
  BY <1>7 DEF Finish, Return, ClosePipes
<1>8. CASE WaitPid
  BY <1>8 DEF WaitPid
<1>9. CASE ChildCrashed
  BY <1>9, <1>i DEF ChildCrashed, MODULE_EXIT_CRASH
<1>10. CASE ReadError
  <2>1. Head(error_pipe) \in ErrorRecord
    BY <1>10 DEF ReadError, IInv, PipeTypes
  <2>2. Head(error_pipe).code \in 0 .. UINT16_MAX
    BY <2>1 DEF ErrorRecord
  <2>3. Head(error_pipe).code \in Nat
    BY <2>2
  <2> QED
    BY <1>10, <1>i, <2>3 DEF ReadError, MODULE_EXIT_CUSTOM
<1>11. CASE ReadErrorFails
  BY <1>11, <1>i DEF ReadErrorFails, PIPE_READ
<1>12. CASE ReadOutput
  BY <1>12, <1>l DEF ReadOutput
<1>13. CASE ReadOutputFails
  BY <1>13, <1>h DEF ReadOutputFails, Return, PIPE_READ
<1>14. CASE Reset
  BY <1>14 DEF Reset
<1>15. CASE ModuleExits
  BY <1>15 DEF ModuleExits, Exit
<1>16. CASE ModuleExitsZero
  BY <1>16 DEF ModuleExitsZero, Exit
<1>17. CASE ModuleCrashes
  BY <1>17 DEF ModuleCrashes, Exit
<1>18. CASE ModuleReturns
  BY <1>18 DEF ModuleReturns
<1>19. CASE TimeoutHandler
  BY <1>19 DEF TimeoutHandler, Exit, WriteError
<1>20. CASE StopAlarm
  BY <1>20 DEF StopAlarm
<1>21. CASE WriteResult
  BY <1>21 DEF WriteResult
<1>22. CASE ExitSuccess
  BY <1>22 DEF ExitSuccess, Exit
<1>23. CASE \E code \in ReportCodes : ModuleReports(code)
  BY <1>23 DEF ModuleReports, WriteError
<1>24. CASE UNCHANGED vars
  BY <1>24 DEF vars, parentVars, childVars, pipeVars, errVars
<1> HIDE DEF ProcessTypes, ControlInv, Inside, MAX_MODULES, MAX_PIPELINES, parentVars, childVars, pipeVars, errVars
<1> QED
  BY <1>1, <1>2, <1>3, <1>4, <1>5, <1>6, <1>7, <1>8, <1>9, <1>10, <1>11, <1>12, <1>13, <1>14, <1>15, <1>16, <1>17, <1>18, <1>19, <1>20, <1>21, <1>22, <1>23, <1>24 DEF Next, Parent, Child

\* The types of the pipes.
LEMMA PipeTypesStep == IInv /\ [Next]_vars => PipeTypes'
<1> SUFFICES ASSUME IInv, [Next]_vars PROVE PipeTypes'
  OBVIOUS
<1>f. /\ PipeTypes /\ i \in 0 .. MAX_MODULES /\ FdLimit \in Nat
      /\ pc \in Inside => fds >= 4
      /\ child # "none" => i + 1 \in 1 .. MAX_MODULES
  <2>1. \A p \in PipelineIds : NumModules[p] \in 0 .. MAX_MODULES
    BY ConfigAssumption DEF ConfigAssumption
  <2> QED
    BY <2>1, EnvironmentAssumption DEF EnvironmentAssumption, IInv, ProcessTypes, PipeTypes,
       ControlInv, ChildInv, FdsInv, MAX_MODULES, Inside
<1>g. ASSUME NEW code \in ReportCodes \cup {MODULE_EXIT_TIMEOUT}, child # "none", WriteError(code)
      PROVE  error_pipe' \in Seq(ErrorRecord)
  <2>1. [code |-> code, by |-> i + 1] \in ErrorRecord
    <3>1. MODULE_EXIT_TIMEOUT \in 0 .. UINT16_MAX
      BY DEF MODULE_EXIT_TIMEOUT, UINT16_MAX
    <3> QED
      BY <1>f, <1>g, <3>1, EnvironmentAssumption DEF EnvironmentAssumption, ErrorRecord
  <2> QED
    BY <1>f, <1>g, <2>1 DEF WriteError, PipeTypes
<1> USE <1>f DEF PipeTypes, Inside, parentVars, childVars, pipeVars, errVars
<1>1. CASE \E p \in RequestedIds : Accept(p)
  BY <1>1 DEF Accept
<1>2. CASE \E p \in RequestedIds : Reject(p)
  BY <1>2 DEF Reject, SetError
<1>3. CASE OpenPipes
  BY <1>3 DEF OpenPipes
<1>4. CASE OpenPipesFails
  BY <1>4 DEF OpenPipesFails, Return, SetError
<1>5. CASE Fork
  BY <1>5 DEF Fork
<1>6. CASE ForkFails
  BY <1>6 DEF ForkFails
<1>7. CASE Finish
  BY <1>7 DEF Finish, Return, ClosePipes
<1>8. CASE WaitPid
  BY <1>8 DEF WaitPid
<1>9. CASE ChildCrashed
  BY <1>9 DEF ChildCrashed, FailModule, Return, ClosePipes, SetError
<1>10. CASE ReadError
  BY <1>10 DEF ReadError, FailModule, Return, ClosePipes, SetError
<1>11. CASE ReadErrorFails
  BY <1>11 DEF ReadErrorFails, FailModule, Return, ClosePipes, SetError
<1>12. CASE ReadOutput
  BY <1>12 DEF ReadOutput
<1>13. CASE ReadOutputFails
  BY <1>13 DEF ReadOutputFails, Return, SetError
<1>14. CASE Reset
  BY <1>14 DEF Reset
<1>15. CASE ModuleExits
  BY <1>15 DEF ModuleExits, Exit
<1>16. CASE ModuleExitsZero
  BY <1>16 DEF ModuleExitsZero, Exit
<1>17. CASE ModuleCrashes
  BY <1>17 DEF ModuleCrashes, Exit
<1>18. CASE ModuleReturns
  BY <1>18 DEF ModuleReturns
<1>19. CASE TimeoutHandler
  BY <1>19, <1>g DEF TimeoutHandler, Exit
<1>20. CASE StopAlarm
  BY <1>20 DEF StopAlarm
<1>21. CASE WriteResult
  BY <1>21 DEF WriteResult
<1>22. CASE ExitSuccess
  BY <1>22 DEF ExitSuccess, Exit
<1>23. CASE \E code \in ReportCodes : ModuleReports(code)
  BY <1>23, <1>g DEF ModuleReports
<1>24. CASE UNCHANGED vars
  BY <1>24 DEF vars, parentVars, childVars, pipeVars, errVars
<1> HIDE DEF PipeTypes, Inside, parentVars, childVars, pipeVars, errVars
<1> QED
  BY <1>1, <1>2, <1>3, <1>4, <1>5, <1>6, <1>7, <1>8, <1>9, <1>10, <1>11, <1>12, <1>13, <1>14, <1>15, <1>16, <1>17, <1>18, <1>19, <1>20, <1>21, <1>22, <1>23, <1>24 DEF Next, Parent, Child

\* Where the parent is and what it knows, after every step.
LEMMA ControlInvStep == IInv /\ [Next]_vars => ControlInv'
<1> SUFFICES ASSUME IInv, [Next]_vars PROVE ControlInv'
  OBVIOUS
<1>f. ControlInv /\ ChildInv /\ i \in Nat
  BY DEF IInv, ProcessTypes
<1>g. \A p \in PipelineIds : NumModules[p] \in Nat
  BY ConfigAssumption DEF ConfigAssumption
<1> USE <1>f, <1>g DEF ControlInv, ChildInv, Inside, parentVars, childVars, pipeVars, errVars
<1>1. CASE \E p \in RequestedIds : Accept(p)
  BY <1>1 DEF Accept
<1>2. CASE \E p \in RequestedIds : Reject(p)
  BY <1>2 DEF Reject, SetError
<1>3. CASE OpenPipes
  BY <1>3 DEF OpenPipes
<1>4. CASE OpenPipesFails
  BY <1>4 DEF OpenPipesFails, Return, SetError
<1>5. CASE Fork
  BY <1>5 DEF Fork
<1>6. CASE ForkFails
  BY <1>6 DEF ForkFails
<1>7. CASE Finish
  BY <1>7 DEF Finish, Return, ClosePipes
<1>8. CASE WaitPid
  BY <1>8 DEF WaitPid
<1>9. CASE ChildCrashed
  BY <1>9 DEF ChildCrashed, FailModule, Return, ClosePipes, SetError
<1>10. CASE ReadError
  BY <1>10 DEF ReadError, FailModule, Return, ClosePipes, SetError
<1>11. CASE ReadErrorFails
  BY <1>11 DEF ReadErrorFails, FailModule, Return, ClosePipes, SetError
<1>12. CASE ReadOutput
  BY <1>12 DEF ReadOutput
<1>13. CASE ReadOutputFails
  BY <1>13 DEF ReadOutputFails, Return, SetError
<1>14. CASE Reset
  BY <1>14 DEF Reset
<1>15. CASE ModuleExits
  BY <1>15 DEF ModuleExits, Exit
<1>16. CASE ModuleExitsZero
  BY <1>16 DEF ModuleExitsZero, Exit
<1>17. CASE ModuleCrashes
  BY <1>17 DEF ModuleCrashes, Exit
<1>18. CASE ModuleReturns
  BY <1>18 DEF ModuleReturns
<1>19. CASE TimeoutHandler
  BY <1>19 DEF TimeoutHandler, Exit, WriteError
<1>20. CASE StopAlarm
  BY <1>20 DEF StopAlarm
<1>21. CASE WriteResult
  BY <1>21 DEF WriteResult
<1>22. CASE ExitSuccess
  BY <1>22 DEF ExitSuccess, Exit
<1>23. CASE \E code \in ReportCodes : ModuleReports(code)
  BY <1>23 DEF ModuleReports, WriteError
<1>24. CASE UNCHANGED vars
  BY <1>24 DEF vars, parentVars, childVars, pipeVars, errVars
<1> HIDE DEF ControlInv, ChildInv, Inside, parentVars, childVars, pipeVars, errVars
<1> QED
  BY <1>1, <1>2, <1>3, <1>4, <1>5, <1>6, <1>7, <1>8, <1>9, <1>10, <1>11, <1>12, <1>13, <1>14, <1>15, <1>16, <1>17, <1>18, <1>19, <1>20, <1>21, <1>22, <1>23, <1>24 DEF Next, Parent, Child

\* The child and the output pipe.
LEMMA ChildInvStep == IInv /\ [Next]_vars => ChildInv'
<1> SUFFICES ASSUME IInv, [Next]_vars PROVE ChildInv'
  OBVIOUS
<1>d. ControlInv /\ ChildInv /\ ProcessTypes /\ PipeTypes
  BY DEF IInv
<1>e. i \in Nat /\ status \in {"success", "failure", "signal"}
  BY <1>d DEF ProcessTypes, MAX_MODULES
<1>f. /\ ControlInv /\ ChildInv
      /\ i \in Nat /\ output_pipe \in Seq(Nat)
      /\ status \in {"success", "failure", "signal"}
  BY <1>d, <1>e, OutputPipeTypes
<1> USE <1>f DEF ChildInv, ControlInv, Inside, parentVars, childVars, pipeVars, errVars
<1>1. CASE \E p \in RequestedIds : Accept(p)
  BY <1>1 DEF Accept
<1>2. CASE \E p \in RequestedIds : Reject(p)
  BY <1>2 DEF Reject, SetError
<1>3. CASE OpenPipes
  BY <1>3 DEF OpenPipes
<1>4. CASE OpenPipesFails
  BY <1>4 DEF OpenPipesFails, Return, SetError
<1>5. CASE Fork
  BY <1>5 DEF Fork
<1>6. CASE ForkFails
  BY <1>6 DEF ForkFails
<1>7. CASE Finish
  BY <1>7 DEF Finish, Return, ClosePipes
<1>8. CASE WaitPid
  BY <1>8 DEF WaitPid
<1>9. CASE ChildCrashed
  BY <1>9 DEF ChildCrashed, FailModule, Return, ClosePipes, SetError
<1>10. CASE ReadError
  BY <1>10 DEF ReadError, FailModule, Return, ClosePipes, SetError
<1>11. CASE ReadErrorFails
  BY <1>11 DEF ReadErrorFails, FailModule, Return, ClosePipes, SetError
<1>12. CASE ReadOutput
  BY <1>12 DEF ReadOutput
<1>13. CASE ReadOutputFails
  BY <1>13 DEF ReadOutputFails, Return, SetError
<1>14. CASE Reset
  BY <1>14 DEF Reset
<1>15. CASE ModuleExits
  BY <1>15 DEF ModuleExits, Exit
<1>16. CASE ModuleExitsZero
  BY <1>16 DEF ModuleExitsZero, Exit
<1>17. CASE ModuleCrashes
  BY <1>17 DEF ModuleCrashes, Exit
<1>18. CASE ModuleReturns
  BY <1>18 DEF ModuleReturns
<1>19. CASE TimeoutHandler
  BY <1>19 DEF TimeoutHandler, Exit, WriteError
<1>20. CASE StopAlarm
  BY <1>20 DEF StopAlarm
<1>21. CASE WriteResult
  BY <1>21 DEF WriteResult
<1>22. CASE ExitSuccess
  BY <1>22 DEF ExitSuccess, Exit
<1>23. CASE \E code \in ReportCodes : ModuleReports(code)
  BY <1>23 DEF ModuleReports, WriteError
<1>24. CASE UNCHANGED vars
  BY <1>24 DEF vars, parentVars, childVars, pipeVars, errVars
<1> HIDE DEF ChildInv, ControlInv, Inside, parentVars, childVars, pipeVars, errVars
<1> QED
  BY <1>1, <1>2, <1>3, <1>4, <1>5, <1>6, <1>7, <1>8, <1>9, <1>10, <1>11, <1>12, <1>13, <1>14, <1>15, <1>16, <1>17, <1>18, <1>19, <1>20, <1>21, <1>22, <1>23, <1>24 DEF Next, Parent, Child

\* A result is left behind only by a module that succeeded.
LEMMA LeftoverInvStep == IInv /\ [Next]_vars => LeftoverInv'
<1> SUFFICES ASSUME IInv, [Next]_vars PROVE LeftoverInv'
  OBVIOUS
<1>f. ControlInv /\ ChildInv /\ LeftoverInv
  BY DEF IInv
<1> USE <1>f DEF LeftoverInv, ControlInv, ChildInv, Inside, parentVars, childVars, pipeVars, errVars
<1>1. CASE \E p \in RequestedIds : Accept(p)
  BY <1>1 DEF Accept
<1>2. CASE \E p \in RequestedIds : Reject(p)
  BY <1>2 DEF Reject, SetError
<1>3. CASE OpenPipes
  BY <1>3 DEF OpenPipes
<1>4. CASE OpenPipesFails
  BY <1>4 DEF OpenPipesFails, Return, SetError
<1>5. CASE Fork
  BY <1>5 DEF Fork
<1>6. CASE ForkFails
  BY <1>6 DEF ForkFails
<1>7. CASE Finish
  BY <1>7 DEF Finish, Return, ClosePipes
<1>8. CASE WaitPid
  BY <1>8 DEF WaitPid
<1>9. CASE ChildCrashed
  BY <1>9 DEF ChildCrashed, FailModule, Return, ClosePipes, SetError
<1>10. CASE ReadError
  BY <1>10 DEF ReadError, FailModule, Return, ClosePipes, SetError
<1>11. CASE ReadErrorFails
  BY <1>11 DEF ReadErrorFails, FailModule, Return, ClosePipes, SetError
<1>12. CASE ReadOutput
  BY <1>12 DEF ReadOutput
<1>13. CASE ReadOutputFails
  BY <1>13 DEF ReadOutputFails, Return, SetError
<1>14. CASE Reset
  BY <1>14 DEF Reset
<1>15. CASE ModuleExits
  BY <1>15 DEF ModuleExits, Exit
<1>16. CASE ModuleExitsZero
  BY <1>16 DEF ModuleExitsZero, Exit
<1>17. CASE ModuleCrashes
  BY <1>17 DEF ModuleCrashes, Exit
<1>18. CASE ModuleReturns
  BY <1>18 DEF ModuleReturns
<1>19. CASE TimeoutHandler
  BY <1>19 DEF TimeoutHandler, Exit, WriteError
<1>20. CASE StopAlarm
  BY <1>20 DEF StopAlarm
<1>21. CASE WriteResult
  BY <1>21 DEF WriteResult
<1>22. CASE ExitSuccess
  BY <1>22 DEF ExitSuccess, Exit
<1>23. CASE \E code \in ReportCodes : ModuleReports(code)
  BY <1>23 DEF ModuleReports, WriteError
<1>24. CASE UNCHANGED vars
  BY <1>24 DEF vars, parentVars, childVars, pipeVars, errVars
<1> HIDE DEF LeftoverInv, ControlInv, ChildInv, Inside, parentVars, childVars, pipeVars, errVars
<1> QED
  BY <1>1, <1>2, <1>3, <1>4, <1>5, <1>6, <1>7, <1>8, <1>9, <1>10, <1>11, <1>12, <1>13, <1>14, <1>15, <1>16, <1>17, <1>18, <1>19, <1>20, <1>21, <1>22, <1>23, <1>24 DEF Next, Parent, Child

\* The pipes' descriptors.
LEMMA FdsInvStep == IInv /\ [Next]_vars => FdsInv'
<1> SUFFICES ASSUME IInv, [Next]_vars PROVE FdsInv'
  OBVIOUS
<1>f. fds \in Nat /\ FdLimit \in Nat /\ ControlInv /\ FdsInv
  BY EnvironmentAssumption DEF EnvironmentAssumption, IInv, PipeTypes
<1> USE <1>f DEF FdsInv, ControlInv, Inside, parentVars, childVars, pipeVars, errVars
<1>1. CASE \E p \in RequestedIds : Accept(p)
  BY <1>1 DEF Accept
<1>2. CASE \E p \in RequestedIds : Reject(p)
  BY <1>2 DEF Reject, SetError
<1>3. CASE OpenPipes
  BY <1>3 DEF OpenPipes
<1>4. CASE OpenPipesFails
  BY <1>4 DEF OpenPipesFails, Return, SetError
<1>5. CASE Fork
  BY <1>5 DEF Fork
<1>6. CASE ForkFails
  BY <1>6 DEF ForkFails
<1>7. CASE Finish
  BY <1>7 DEF Finish, Return, ClosePipes
<1>8. CASE WaitPid
  BY <1>8 DEF WaitPid
<1>9. CASE ChildCrashed
  BY <1>9 DEF ChildCrashed, FailModule, Return, ClosePipes, SetError
<1>10. CASE ReadError
  BY <1>10 DEF ReadError, FailModule, Return, ClosePipes, SetError
<1>11. CASE ReadErrorFails
  BY <1>11 DEF ReadErrorFails, FailModule, Return, ClosePipes, SetError
<1>12. CASE ReadOutput
  BY <1>12 DEF ReadOutput
<1>13. CASE ReadOutputFails
  BY <1>13 DEF ReadOutputFails, Return, SetError
<1>14. CASE Reset
  BY <1>14 DEF Reset
<1>15. CASE ModuleExits
  BY <1>15 DEF ModuleExits, Exit
<1>16. CASE ModuleExitsZero
  BY <1>16 DEF ModuleExitsZero, Exit
<1>17. CASE ModuleCrashes
  BY <1>17 DEF ModuleCrashes, Exit
<1>18. CASE ModuleReturns
  BY <1>18 DEF ModuleReturns
<1>19. CASE TimeoutHandler
  BY <1>19 DEF TimeoutHandler, Exit, WriteError
<1>20. CASE StopAlarm
  BY <1>20 DEF StopAlarm
<1>21. CASE WriteResult
  BY <1>21 DEF WriteResult
<1>22. CASE ExitSuccess
  BY <1>22 DEF ExitSuccess, Exit
<1>23. CASE \E code \in ReportCodes : ModuleReports(code)
  BY <1>23 DEF ModuleReports, WriteError
<1>24. CASE UNCHANGED vars
  BY <1>24 DEF vars, parentVars, childVars, pipeVars, errVars
<1> HIDE DEF FdsInv, ControlInv, Inside, parentVars, childVars, pipeVars, errVars
<1> QED
  BY <1>1, <1>2, <1>3, <1>4, <1>5, <1>6, <1>7, <1>8, <1>9, <1>10, <1>11, <1>12, <1>13, <1>14, <1>15, <1>16, <1>17, <1>18, <1>19, <1>20, <1>21, <1>22, <1>23, <1>24 DEF Next, Parent, Child

\* The error pipe's codes.
LEMMA CodesInvStep == IInv /\ [Next]_vars => CodesInv'
<1> SUFFICES ASSUME IInv, [Next]_vars PROVE CodesInv'
  OBVIOUS
<1>f. CodesInv /\ error_pipe \in Seq(ErrorRecord)
  BY DEF IInv, PipeTypes
<1> USE <1>f DEF CodesInv, parentVars, childVars, pipeVars, errVars
<1>1. CASE \E p \in RequestedIds : Accept(p)
  BY <1>1 DEF Accept
<1>2. CASE \E p \in RequestedIds : Reject(p)
  BY <1>2 DEF Reject, SetError
<1>3. CASE OpenPipes
  BY <1>3 DEF OpenPipes
<1>4. CASE OpenPipesFails
  BY <1>4 DEF OpenPipesFails, Return, SetError
<1>5. CASE Fork
  BY <1>5 DEF Fork
<1>6. CASE ForkFails
  BY <1>6 DEF ForkFails
<1>7. CASE Finish
  BY <1>7 DEF Finish, Return, ClosePipes
<1>8. CASE WaitPid
  BY <1>8 DEF WaitPid
<1>9. CASE ChildCrashed
  BY <1>9 DEF ChildCrashed, FailModule, Return, ClosePipes, SetError
<1>10. CASE ReadError
  BY <1>10 DEF ReadError, FailModule, Return, ClosePipes, SetError
<1>11. CASE ReadErrorFails
  BY <1>11 DEF ReadErrorFails, FailModule, Return, ClosePipes, SetError
<1>12. CASE ReadOutput
  BY <1>12 DEF ReadOutput
<1>13. CASE ReadOutputFails
  BY <1>13 DEF ReadOutputFails, Return, SetError
<1>14. CASE Reset
  BY <1>14 DEF Reset
<1>15. CASE ModuleExits
  BY <1>15 DEF ModuleExits, Exit
<1>16. CASE ModuleExitsZero
  BY <1>16 DEF ModuleExitsZero, Exit
<1>17. CASE ModuleCrashes
  BY <1>17 DEF ModuleCrashes, Exit
<1>18. CASE ModuleReturns
  BY <1>18 DEF ModuleReturns
<1>19. CASE TimeoutHandler
  BY <1>19 DEF TimeoutHandler, Exit, WriteError
<1>20. CASE StopAlarm
  BY <1>20 DEF StopAlarm
<1>21. CASE WriteResult
  BY <1>21 DEF WriteResult
<1>22. CASE ExitSuccess
  BY <1>22 DEF ExitSuccess, Exit
<1>23. CASE \E code \in ReportCodes : ModuleReports(code)
  BY <1>23 DEF ModuleReports, WriteError
<1>24. CASE UNCHANGED vars
  BY <1>24 DEF vars, parentVars, childVars, pipeVars, errVars
<1> HIDE DEF CodesInv, parentVars, childVars, pipeVars, errVars
<1> QED
  BY <1>1, <1>2, <1>3, <1>4, <1>5, <1>6, <1>7, <1>8, <1>9, <1>10, <1>11, <1>12, <1>13, <1>14, <1>15, <1>16, <1>17, <1>18, <1>19, <1>20, <1>21, <1>22, <1>23, <1>24 DEF Next, Parent, Child

\* Who wrote the codes in the error pipe.
LEMMA BlameInvStep == IInv /\ [Next]_vars => BlameInv'
<1> SUFFICES ASSUME IInv, [Next]_vars PROVE BlameInv'
  OBVIOUS
<1>f. /\ BlameInv /\ ControlInv /\ ChildInv
      /\ i \in Nat /\ error_pipe \in Seq(ErrorRecord)
      /\ status \in {"success", "failure", "signal"}
  BY DEF IInv, ProcessTypes, PipeTypes
<1> USE <1>f DEF BlameInv, ControlInv, ChildInv, Inside, parentVars, childVars, pipeVars, errVars
<1>1. CASE \E p \in RequestedIds : Accept(p)
  BY <1>1 DEF Accept
<1>2. CASE \E p \in RequestedIds : Reject(p)
  BY <1>2 DEF Reject, SetError
<1>3. CASE OpenPipes
  BY <1>3 DEF OpenPipes
<1>4. CASE OpenPipesFails
  BY <1>4 DEF OpenPipesFails, Return, SetError
<1>5. CASE Fork
  BY <1>5 DEF Fork
<1>6. CASE ForkFails
  BY <1>6 DEF ForkFails
<1>7. CASE Finish
  BY <1>7 DEF Finish, Return, ClosePipes
<1>8. CASE WaitPid
  BY <1>8 DEF WaitPid
<1>9. CASE ChildCrashed
  BY <1>9 DEF ChildCrashed, FailModule, Return, ClosePipes, SetError
<1>10. CASE ReadError
  BY <1>10 DEF ReadError, FailModule, Return, ClosePipes, SetError
<1>11. CASE ReadErrorFails
  BY <1>11 DEF ReadErrorFails, FailModule, Return, ClosePipes, SetError
<1>12. CASE ReadOutput
  BY <1>12 DEF ReadOutput
<1>13. CASE ReadOutputFails
  BY <1>13 DEF ReadOutputFails, Return, SetError
<1>14. CASE Reset
  BY <1>14 DEF Reset
<1>15. CASE ModuleExits
  BY <1>15 DEF ModuleExits, Exit
<1>16. CASE ModuleExitsZero
  BY <1>16 DEF ModuleExitsZero, Exit
<1>17. CASE ModuleCrashes
  BY <1>17 DEF ModuleCrashes, Exit
<1>18. CASE ModuleReturns
  BY <1>18 DEF ModuleReturns
<1>19. CASE TimeoutHandler
  BY <1>19 DEF TimeoutHandler, Exit, WriteError
<1>20. CASE StopAlarm
  BY <1>20 DEF StopAlarm
<1>21. CASE WriteResult
  BY <1>21 DEF WriteResult
<1>22. CASE ExitSuccess
  BY <1>22 DEF ExitSuccess, Exit
<1>23. CASE \E code \in ReportCodes : ModuleReports(code)
  BY <1>23 DEF ModuleReports, WriteError
<1>24. CASE UNCHANGED vars
  BY <1>24 DEF vars, parentVars, childVars, pipeVars, errVars
<1> HIDE DEF BlameInv, ControlInv, ChildInv, Inside, parentVars, childVars, pipeVars, errVars
<1> QED
  BY <1>1, <1>2, <1>3, <1>4, <1>5, <1>6, <1>7, <1>8, <1>9, <1>10, <1>11, <1>12, <1>13, <1>14, <1>15, <1>16, <1>17, <1>18, <1>19, <1>20, <1>21, <1>22, <1>23, <1>24 DEF Next, Parent, Child

\* The report of a failure.
LEMMA ReportInvStep == IInv /\ [Next]_vars => ReportInv'
<1> SUFFICES ASSUME IInv, [Next]_vars PROVE ReportInv'
  OBVIOUS
<1>f. ReportInv /\ ControlInv /\ i \in Nat
  BY DEF IInv, ProcessTypes
<1>g. \A p \in PipelineIds : NumModules[p] \in Nat
  BY ConfigAssumption DEF ConfigAssumption
<1> USE <1>f, <1>g DEF ReportInv, ControlInv, Inside, parentVars, childVars, pipeVars, errVars
<1>1. CASE \E p \in RequestedIds : Accept(p)
  BY <1>1 DEF Accept
<1>2. CASE \E p \in RequestedIds : Reject(p)
  BY <1>2 DEF Reject, SetError
<1>3. CASE OpenPipes
  BY <1>3 DEF OpenPipes
<1>4. CASE OpenPipesFails
  BY <1>4 DEF OpenPipesFails, Return, SetError
<1>5. CASE Fork
  BY <1>5 DEF Fork
<1>6. CASE ForkFails
  BY <1>6 DEF ForkFails
<1>7. CASE Finish
  BY <1>7 DEF Finish, Return, ClosePipes
<1>8. CASE WaitPid
  BY <1>8 DEF WaitPid
<1>9. CASE ChildCrashed
  BY <1>9, GivingUpReports, ModuleCodesClosed DEF ChildCrashed, FailModule
<1>10. CASE ReadError
  <2>1. Head(error_pipe).code \in ReportCodes \cup {MODULE_EXIT_TIMEOUT}
    BY <1>10 DEF ReadError, IInv, PipeTypes, CodesInv
  <2> QED
    BY <1>10, <2>1, GivingUpReports, ModuleCodesClosed DEF ReadError, FailModule
<1>11. CASE ReadErrorFails
  BY <1>11, GivingUpReports, ModuleCodesClosed DEF ReadErrorFails, FailModule
<1>12. CASE ReadOutput
  BY <1>12 DEF ReadOutput
<1>13. CASE ReadOutputFails
  BY <1>13, GivingUpReports, ModuleCodesClosed DEF ReadOutputFails
<1>14. CASE Reset
  BY <1>14 DEF Reset
<1>15. CASE ModuleExits
  BY <1>15 DEF ModuleExits, Exit
<1>16. CASE ModuleExitsZero
  BY <1>16 DEF ModuleExitsZero, Exit
<1>17. CASE ModuleCrashes
  BY <1>17 DEF ModuleCrashes, Exit
<1>18. CASE ModuleReturns
  BY <1>18 DEF ModuleReturns
<1>19. CASE TimeoutHandler
  BY <1>19 DEF TimeoutHandler, Exit, WriteError
<1>20. CASE StopAlarm
  BY <1>20 DEF StopAlarm
<1>21. CASE WriteResult
  BY <1>21 DEF WriteResult
<1>22. CASE ExitSuccess
  BY <1>22 DEF ExitSuccess, Exit
<1>23. CASE \E code \in ReportCodes : ModuleReports(code)
  BY <1>23 DEF ModuleReports, WriteError
<1>24. CASE UNCHANGED vars
  BY <1>24 DEF vars, parentVars, childVars, pipeVars, errVars
<1> HIDE DEF ReportInv, ControlInv, Inside, parentVars, childVars, pipeVars, errVars
<1> QED
  BY <1>1, <1>2, <1>3, <1>4, <1>5, <1>6, <1>7, <1>8, <1>9, <1>10, <1>11, <1>12, <1>13, <1>14, <1>15, <1>16, <1>17, <1>18, <1>19, <1>20, <1>21, <1>22, <1>23, <1>24 DEF Next, Parent, Child

\* The configuration cache.
LEMMA CacheInvStep == IInv /\ [Next]_vars => CacheInv'
<1> SUFFICES ASSUME IInv, [Next]_vars PROVE CacheInv'
  OBVIOUS
<1>f. CacheInv /\ ControlInv
  BY DEF IInv
<1> USE <1>f DEF CacheInv, ControlInv, Inside, parentVars, childVars, pipeVars, errVars
<1>1. CASE \E p \in RequestedIds : Accept(p)
  BY <1>1 DEF Accept
<1>2. CASE \E p \in RequestedIds : Reject(p)
  BY <1>2 DEF Reject, SetError
<1>3. CASE OpenPipes
  BY <1>3 DEF OpenPipes
<1>4. CASE OpenPipesFails
  BY <1>4 DEF OpenPipesFails, Return, SetError
<1>5. CASE Fork
  BY <1>5 DEF Fork
<1>6. CASE ForkFails
  BY <1>6 DEF ForkFails
<1>7. CASE Finish
  BY <1>7 DEF Finish, Return, ClosePipes
<1>8. CASE WaitPid
  BY <1>8 DEF WaitPid
<1>9. CASE ChildCrashed
  BY <1>9 DEF ChildCrashed, FailModule, Return, ClosePipes, SetError
<1>10. CASE ReadError
  BY <1>10 DEF ReadError, FailModule, Return, ClosePipes, SetError
<1>11. CASE ReadErrorFails
  BY <1>11 DEF ReadErrorFails, FailModule, Return, ClosePipes, SetError
<1>12. CASE ReadOutput
  BY <1>12 DEF ReadOutput
<1>13. CASE ReadOutputFails
  BY <1>13 DEF ReadOutputFails, Return, SetError
<1>14. CASE Reset
  BY <1>14 DEF Reset
<1>15. CASE ModuleExits
  BY <1>15 DEF ModuleExits, Exit
<1>16. CASE ModuleExitsZero
  BY <1>16 DEF ModuleExitsZero, Exit
<1>17. CASE ModuleCrashes
  BY <1>17 DEF ModuleCrashes, Exit
<1>18. CASE ModuleReturns
  BY <1>18 DEF ModuleReturns
<1>19. CASE TimeoutHandler
  BY <1>19 DEF TimeoutHandler, Exit, WriteError
<1>20. CASE StopAlarm
  BY <1>20 DEF StopAlarm
<1>21. CASE WriteResult
  BY <1>21 DEF WriteResult
<1>22. CASE ExitSuccess
  BY <1>22 DEF ExitSuccess, Exit
<1>23. CASE \E code \in ReportCodes : ModuleReports(code)
  BY <1>23 DEF ModuleReports, WriteError
<1>24. CASE UNCHANGED vars
  BY <1>24 DEF vars, parentVars, childVars, pipeVars, errVars
<1> HIDE DEF CacheInv, ControlInv, Inside, parentVars, childVars, pipeVars, errVars
<1> QED
  BY <1>1, <1>2, <1>3, <1>4, <1>5, <1>6, <1>7, <1>8, <1>9, <1>10, <1>11, <1>12, <1>13, <1>14, <1>15, <1>16, <1>17, <1>18, <1>19, <1>20, <1>21, <1>22, <1>23, <1>24 DEF Next, Parent, Child

THEOREM Invariance == Spec => []IInv
<1>1. Init => IInv
  <2> SUFFICES ASSUME Init PROVE IInv
    OBVIOUS
  <2>1. FdLimit \in Nat
    BY EnvironmentAssumption DEF EnvironmentAssumption
  <2>2. ProcessTypes
    <3>1. is_setup \in BOOLEAN /\ faulted \in BOOLEAN
      BY Zenon DEF Init
    <3>2. 0 \in 0 .. MAX_MODULES /\ 0 \in 0 .. MAX_PIPELINES /\ 0 \in Int /\ 0 \in Nat
      BY DEF MAX_MODULES, MAX_PIPELINES
    <3> QED
      BY <3>1, <3>2, Zenon DEF Init, ProcessTypes
  <2>3. PipeTypes
    <3>1. <<>> \in Seq(1 .. MAX_MODULES) /\ <<>> \in Seq(ErrorRecord)
      OBVIOUS
    <3> QED
      BY <2>1, <3>1 DEF Init, PipeTypes
  <2>4. ControlInv /\ FdsInv /\ LeftoverInv /\ ReportInv /\ CacheInv
    BY DEF Init, ControlInv, FdsInv, LeftoverInv, ReportInv, CacheInv, Inside
  <2>5. ChildInv /\ CodesInv /\ BlameInv
    BY DEF Init, ChildInv, CodesInv, BlameInv
  <2> QED
    BY <2>2, <2>3, <2>4, <2>5 DEF IInv
<1>2. IInv /\ [Next]_vars => IInv'
  <2> SUFFICES ASSUME IInv, [Next]_vars PROVE IInv'
    OBVIOUS
  <2>1. /\ ProcessTypes' /\ PipeTypes' /\ ControlInv' /\ ChildInv' /\ LeftoverInv'
        /\ FdsInv' /\ CodesInv' /\ BlameInv' /\ ReportInv' /\ CacheInv'
    BY ProcessTypesStep, PipeTypesStep, ControlInvStep, ChildInvStep, LeftoverInvStep,
       FdsInvStep, CodesInvStep, BlameInvStep, ReportInvStep, CacheInvStep
  <2> QED
    BY <2>1 DEF IInv
<1> QED
  BY <1>1, <1>2, PTL DEF Spec

-----------------------------------------------------------------------------
(* What the invariant gives.                                               *)

\* Every variable keeps to its type; in particular no path closes a
\* descriptor that it has not opened.
THEOREM TypeCorrectness == Spec => []TypeOK
<1>1. IInv => TypeOK
  BY DEF IInv, TypeOK
<1> QED
  BY <1>1, Invariance, PTL

\* Modules see each other's results in order, whatever the modules do and
\* whichever system calls fail: see ResultChain.
THEOREM ResultsChain == Spec => []ResultChain
<1>1. IInv => ResultChain
  BY DEF IInv, ControlInv, ChildInv, ResultChain
<1> QED
  BY <1>1, Invariance, PTL

\* A module that crashed, failed or timed out has not delivered a result: see
\* ResultMeansSuccess.
THEOREM ResultsMeanSuccess == Spec => []ResultMeansSuccess
<1>1. IInv => ResultMeansSuccess
  <2> SUFFICES ASSUME IInv, output_pipe # <<>>
               PROVE  child = "written" \/ (child \in {"none", "exited"} /\ status = "success")
    BY DEF ResultMeansSuccess
  <2>1. /\ pc \in {"idle", "open", "loop", "wait", "reaped", "done"}
        /\ child \in {"none", "running", "exiting", "returned", "disarmed", "written", "exited"}
    BY DEF IInv, ProcessTypes
  <2> QED
    BY <2>1 DEF IInv, ChildInv, LeftoverInv
<1> QED
  BY <1>1, Invariance, PTL

\* The code that the parent reads is the failing module's own, if modules stop
\* after they have reported: see BlameTheFailingModule.
THEOREM BlameIsRight == Spec => []BlameTheFailingModule
<1>1. IInv => BlameTheFailingModule
  BY DEF IInv, BlameInv, BlameTheFailingModule
<1> QED
  BY <1>1, Invariance, PTL

\* Without failing system calls no descriptor is lost: see DescriptorsReturned.
THEOREM NoDescriptorLost == Spec => []DescriptorsReturned
<1>1. IInv => DescriptorsReturned
  BY DEF IInv, FdsInv, Inside, DescriptorsReturned
<1> QED
  BY <1>1, Invariance, PTL

\* The cache is rebuilt after a failing module and only then: see
\* RebuildAfterFailure.
THEOREM CacheRebuilt == Spec => []RebuildAfterFailure
<1>1. IInv => RebuildAfterFailure
  BY DEF IInv, CacheInv, RebuildAfterFailure
<1> QED
  BY <1>1, Invariance, PTL

\* The digits of log_status give back what was put together.
LEMMA DigitsDecode ==
  ASSUME NEW code \in Nat, NEW p \in 0 .. 9, NEW m \in 0 .. 99
  PROVE  LET value == get_error_as_uint32(code, p, m) IN
           ModuleOf(value) = m /\ PipelineOf(value) = p /\ CodeOf(value) = code
<1> DEFINE value == code * 1000 + p * 100 + m
<1>1. value % 100 = m
  OBVIOUS
<1>2. value \div 100 = code * 10 + p
  OBVIOUS
<1>3. (code * 10 + p) % 10 = p
  OBVIOUS
<1>4. value \div 1000 = code
  OBVIOUS
<1> QED
  BY <1>1, <1>2, <1>3, <1>4 DEF get_error_as_uint32, ModuleOf, PipelineOf, CodeOf

\* An operator who reads log_status as the README says finds the pipeline and
\* the module that failed: see FailureNamesStage.
THEOREM FailureLocated == Spec => []FailureNamesStage
<1>1. IInv => FailureNamesStage
  <2> SUFFICES ASSUME IInv, outcome = "failure" PROVE FailureNamesStage
    BY DEF FailureNamesStage
  <2>1. /\ i \in 0 .. MAX_MODULES
        /\ \A p \in PipelineIds : p \in 0 .. 9 /\ NumModules[p] \in 0 .. 20
    BY ConfigAssumption DEF ConfigAssumption, IInv, ProcessTypes, MAX_MODULES, MAX_PIPELINES
  <2>2. CASE /\ pipeline \notin PipelineIds /\ i = 0
             /\ log_status = get_error_as_uint32(INTERNAL_PID_NOT_FOUND, 0, 0)
    BY <2>2, DigitsDecode, SMTT(30) DEF FailureNamesStage, INTERNAL_PID_NOT_FOUND
  <2>3. CASE /\ pipeline \in PipelineIds /\ i = 0
             /\ log_status = get_error_as_uint32(PIPE_CREATE, pipeline, 0)
    BY <2>1, <2>3, DigitsDecode, SMTT(30) DEF FailureNamesStage, PIPE_CREATE
  <2>4. ASSUME pipeline \in PipelineIds, i < NumModules[pipeline],
               NEW code \in Service!ModuleCodes,
               log_status = get_error_as_uint32(code, pipeline, i + 1)
        PROVE  FailureNamesStage
    <3>1. code \in Nat /\ (code \in {INTERNAL_PID_NOT_FOUND, PIPE_CREATE} => code \in ReportCodes)
      BY ModuleCodesAreNat
    <3>2. i + 1 \in 1 .. 99 /\ pipeline \in 0 .. 9
      BY <2>1, <2>4
    <3>3. /\ ModuleOf(log_status) = i + 1 /\ PipelineOf(log_status) = pipeline
          /\ CodeOf(log_status) = code
      BY <2>4, <3>1, <3>2, DigitsDecode, SMTT(30)
    <3> QED
      BY <2>1, <2>4, <3>1, <3>2, <3>3 DEF FailureNamesStage
  <2> QED
    BY <2>2, <2>3, <2>4 DEF IInv, ReportInv
<1> QED
  BY <1>1, Invariance, PTL

-----------------------------------------------------------------------------
(* Every step of the execution is a step of the service or none at all.    *)

\* The initial state.
LEMMA InitRefines == Init => Service!Init
  BY DEF Init, Service!Init, Phase

\* Giving up at the module after stage i fails that stage of the service.
LEMMA GivingUpRefines ==
  ASSUME IInv, pc = "reaped", NEW code \in Service!ModuleCodes,
         SetError(code), Return("failure")
  PROVE  Service!Next
<1>1. /\ pipeline \in PipelineIds /\ i < NumModules[pipeline] /\ data = i
      /\ err_current_pipeline = pipeline /\ err_current_module = i + 1
  BY DEF IInv, ControlInv, Inside
<1>2. Service!FailStage(code)
  BY <1>1 DEF Service!FailStage, Service!get_error_as_uint32, get_error_as_uint32,
     SetError, Return, Phase
<1> QED
  BY <1>2 DEF Service!Next

\* The steps.
LEMMA StepRefines == IInv /\ [Next]_vars => [Service!Next]_Service!vars
<1> SUFFICES ASSUME IInv, [Next]_vars PROVE [Service!Next]_Service!vars
  OBVIOUS
<1>f. ControlInv /\ ChildInv /\ i \in Nat
  BY DEF IInv, ProcessTypes
<1>1. ASSUME NEW p \in RequestedIds, Accept(p) PROVE Service!Next
  <2>1. Service!Begin(p)
    BY <1>1 DEF Accept, Service!Begin, Phase
  <2> QED
    BY <2>1 DEF Service!Next
<1>2. ASSUME NEW p \in RequestedIds, Reject(p) PROVE Service!Next
  <2>1. Service!Refuse(p)
    BY <1>f, <1>2 DEF Reject, Service!Refuse, Phase, SetError, ControlInv, get_error_as_uint32,
       Service!get_error_as_uint32, INTERNAL_PID_NOT_FOUND, Service!INTERNAL_PID_NOT_FOUND
  <2> QED
    BY <2>1 DEF Service!Next
<1>3. CASE OpenPipesFails
  <2>1. Service!FailToStart
    BY <1>f, <1>3 DEF OpenPipesFails, Return, SetError, Service!FailToStart, Phase, ControlInv,
       get_error_as_uint32, Service!get_error_as_uint32, PIPE_CREATE, Service!PIPE_CREATE
  <2> QED
    BY <2>1 DEF Service!Next
<1>4. CASE Finish
  <2>1. Service!Succeed
    BY <1>f, <1>4 DEF Finish, Return, errVars, Service!Succeed, Phase, ControlInv
  <2> QED
    BY <2>1 DEF Service!Next
<1>5. CASE ReadOutput
  <2>1. output_pipe = <<i + 1>> /\ i < NumModules[pipeline] /\ data = i
    BY <1>f, <1>5 DEF ReadOutput, ChildInv, ControlInv
  <2>2. Service!Advance
    BY <1>5, <2>1 DEF ReadOutput, errVars, Service!Advance, Phase
  <2> QED
    BY <2>2 DEF Service!Next
<1>6. CASE ChildCrashed
  BY <1>6, GivingUpRefines, ModuleCodesClosed DEF ChildCrashed, FailModule
<1>7. CASE ReadErrorFails
  BY <1>7, GivingUpRefines, ModuleCodesClosed DEF ReadErrorFails, FailModule
<1>8. CASE ReadOutputFails
  BY <1>8, GivingUpRefines, ModuleCodesClosed DEF ReadOutputFails
<1>9. CASE ReadError
  <2>1. Head(error_pipe).code \in ReportCodes \cup {MODULE_EXIT_TIMEOUT}
    BY <1>9 DEF ReadError, IInv, PipeTypes, CodesInv
  <2> QED
    BY <1>9, <2>1, GivingUpRefines, ModuleCodesClosed DEF ReadError, FailModule
<1>10. CASE Reset
  <2>1. Service!Rest
    BY <1>f, <1>10 DEF Reset, Service!Rest, Phase, ControlInv, childVars, pipeVars, IInv, ProcessTypes
  <2> QED
    BY <2>1 DEF Service!Next
<1>11. CASE OpenPipes \/ Fork \/ ForkFails \/ WaitPid
  BY <1>11 DEF OpenPipes, Fork, ForkFails, WaitPid, Service!vars, Phase, errVars
<1>12. CASE Child
  BY <1>12 DEF Child, ModuleReports, ModuleExits, ModuleExitsZero, ModuleCrashes,
     ModuleReturns, TimeoutHandler, StopAlarm, WriteResult, ExitSuccess, Exit,
     Service!vars, Phase, parentVars, errVars
<1>13. CASE UNCHANGED vars
  BY <1>13 DEF vars, parentVars, errVars, Service!vars, Phase
<1> QED
  BY <1>1, <1>2, <1>3, <1>4, <1>5, <1>6, <1>7, <1>8, <1>9, <1>10, <1>11, <1>12, <1>13
     DEF Next, Parent

\* Processes, pipes, alarms and their races do not show: for every behaviour
\* of the modules and every fault the execution implements PipelineService.
THEOREM Refinement == Spec => ImplementsService
<1>1. Init => Service!Init
  BY InitRefines
<1>2. IInv /\ [Next]_vars => [Service!Next]_Service!vars
  BY StepRefines
<1> QED
  BY <1>1, <1>2, Invariance, PTL DEF Spec, Service!Spec, ImplementsService
=============================================================================
