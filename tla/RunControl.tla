------------------------------ MODULE RunControl ------------------------------
(***************************************************************************)
(* Starting and ending runs: callback_run and process_thread of            *)
(* src/src/dipp_process.c with the logger of src/src/logger.c.  The router *)
(* thread sets the pipeline_run parameter and then executes the callback;  *)
(* the processing thread resets the parameter at its end, which executes   *)
(* the callback in that thread, too (libparam, external).  is_processing   *)
(* is atomic; pipeline_run, the global pointer logger and the log buffer   *)
(* are shared without a lock.                                              *)
(*                                                                         *)
(* What a run does with its batches is the subject of BatchProcessing,     *)
(* which relies on OneRunAtATime.                                          *)
(***************************************************************************)
EXTENDS Integers, FiniteSets

CONSTANTS
  Threads,     \* processing threads that may exist at a time
  Router,      \* the CSP router thread
  Commands,    \* values the ground writes to pipeline_run, a uint8_t
  Faults,      \* "logger", "spawn": logger_create, malloc or pthread_create fail
  BUFFER_SIZE, \* lines in the log buffer (10000)
  MaxCommands, \* bound: commands ever given
  MaxBatches   \* bound: batches ever received

ASSUME RunAssumption ==
  /\ Router \notin Threads
  /\ Commands \subseteq 0 .. 255
  /\ Faults \subseteq {"logger", "spawn"}
  /\ BUFFER_SIZE \in Nat \ {0}
  /\ MaxCommands \in Nat
  /\ MaxBatches \in Nat

Actors == {Router} \cup Threads

VARIABLES
  pc,            \* where each thread is
  pipeline_run,  \* the parameter
  param_value,   \* its value as each callback has read it
  is_processing,
  args,          \* ProcessThreadArgs of each thread
  lines,         \* lines a thread still logs about its batch
  logger,        \* the global pointer, 0: NULL
  loggers,       \* how many logger objects have been created
  destroyed,     \* those that have been freed
  count,         \* log_buffer.count
  run_log,       \* history: the logger object created for a thread's run
  commands,      \* history: commands given
  asked,         \* history: a command other than 0 was given while no run was in progress
  batches,       \* history: batches received
  faulted        \* history: a run could not be started

paramVars == <<pipeline_run, param_value, is_processing>>
logVars == <<logger, loggers, destroyed, count>>
runVars == <<args, lines, run_log, batches>>
historyVars == <<commands, asked, faulted>>
vars == <<pc, paramVars, logVars, runVars, historyVars>>

NoArgs == [all |-> FALSE, wait |-> FALSE]

\* Program counters at which the thread owns is_processing.
Claimed == {"create", "log_started", "spawn", "work", "log_batch", "release"}

\* Program counters at which the thread logs a line.
Logging == {"log_started", "log_detached", "log_batch", "log_finished"}

Init ==
  /\ pc = [a \in Actors |-> "idle"]
  /\ pipeline_run = 0 /\ param_value = [a \in Actors |-> 0] /\ is_processing = 0
  /\ args = [t \in Threads |-> NoArgs] /\ lines = [t \in Threads |-> 0]
  /\ logger = 0 /\ loggers = 0 /\ destroyed = {} /\ count = 0
  /\ run_log = [t \in Threads |-> 0]
  /\ commands = 0 /\ asked = FALSE /\ batches = 0 /\ faulted = FALSE

Goto(a, label) == pc' = [pc EXCEPT ![a] = label]

\* A callback in the processing thread is part of param_set_uint8.
ReturnLabel(a) == IF a = Router THEN "idle" ELSE "log_finished"
Return(a) == Goto(a, ReturnLabel(a))

-----------------------------------------------------------------------------
(* logger.c                                                                *)

(***************************************************************************)
(* logger_log_print on the current logger.  Nothing is logged without one. *)
(* count++ is not atomic: it may be lost if another thread logs, too.  A   *)
(* destroyed logger may have kept its contents or look like one that has   *)
(* no file.                                                                *)
(***************************************************************************)
LogPrint(a) ==
  /\ logger = 0 \/ count < BUFFER_SIZE
  /\ count' \in
       IF logger = 0 THEN {count}
       ELSE IF logger \in destroyed \/ \E b \in Actors \ {a} : pc[b] \in Logging
         THEN {count, count + 1}
         ELSE {count + 1}
  /\ UNCHANGED <<logger, loggers, destroyed>>

\* Using a destroyed logger, or writing past the buffer, may end the process;
\* it is started again.  Threads, buffer and parameter are gone with it.
Segfault(a) ==
  /\ pc[a] \in Logging \cup {"flush", "destroy"} /\ logger # 0
  /\ logger \in destroyed \/ (pc[a] \in Logging /\ count >= BUFFER_SIZE)
  /\ pc' = [b \in Actors |-> "idle"]
  /\ pipeline_run' = 0 /\ param_value' = [b \in Actors |-> 0] /\ is_processing' = 0
  /\ args' = [t \in Threads |-> NoArgs] /\ lines' = [t \in Threads |-> 0]
  /\ logger' = 0 /\ destroyed' = 1 .. loggers /\ count' = 0
  /\ run_log' = [t \in Threads |-> 0] /\ asked' = FALSE
  /\ UNCHANGED <<loggers, commands, batches, faulted>>

-----------------------------------------------------------------------------
(* callback_run, in the router or in a processing thread.                  *)

\* A command arrives: the router sets the parameter and calls the callback.
SetParam(v) ==
  /\ pc[Router] = "idle" /\ commands < MaxCommands
  /\ pipeline_run' = v
  /\ Goto(Router, "read")
  /\ commands' = commands + 1
  /\ asked' = (v # 0 /\ is_processing = 0)
  /\ UNCHANGED <<param_value, is_processing, logVars, runVars, faulted>>

ReadParam(a) ==
  /\ pc[a] = "read"
  /\ param_value' = [param_value EXCEPT ![a] = pipeline_run]
  /\ IF pipeline_run = 0 THEN Return(a) ELSE Goto(a, "claim")
  /\ UNCHANGED <<pipeline_run, is_processing, logVars, runVars, historyVars>>

\* Mutant: is_processing is set without looking at what it was.
Claim_Always(a) ==
  /\ pc[a] = "claim"
  /\ is_processing' = 1 /\ asked' = FALSE
  /\ Goto(a, "create")
  /\ UNCHANGED <<pipeline_run, param_value, logVars, runVars, commands, faulted>>

\* atomic_compare_exchange_strong
Claim(a) ==
  /\ pc[a] = "claim" /\ is_processing = 0
  /\ is_processing' = 1 /\ asked' = FALSE
  /\ Goto(a, "create")
  /\ UNCHANGED <<pipeline_run, param_value, logVars, runVars, commands, faulted>>

\* Another thread is already processing.
ClaimFails(a) ==
  /\ pc[a] = "claim" /\ is_processing = 1
  /\ Return(a)
  /\ UNCHANGED <<paramVars, logVars, runVars, historyVars>>

CreateLogger(a) ==
  /\ pc[a] = "create"
  /\ \/ loggers' = loggers + 1 /\ logger' = loggers + 1
     \/ "logger" \in Faults /\ loggers' = loggers /\ logger' = 0
  /\ Goto(a, "log_started")
  /\ UNCHANGED <<paramVars, destroyed, count, runVars, historyVars>>

LogStarted(a) ==
  /\ pc[a] = "log_started"
  /\ LogPrint(a)
  /\ Goto(a, "spawn")
  /\ UNCHANGED <<paramVars, runVars, historyVars>>

\* malloc and pthread_create; the new thread has its mode from the value read.
Spawn(a, t) ==
  /\ pc[a] = "spawn" /\ pc[t] = "idle"
  /\ pc' = [pc EXCEPT ![a] = "log_detached", ![t] = "work"]
  /\ args' = [args EXCEPT ![t] = [all |-> param_value[a] % 2 = 0, wait |-> param_value[a] > 2]]
  /\ run_log' = [run_log EXCEPT ![t] = logger]
  /\ UNCHANGED <<paramVars, logVars, lines, batches, historyVars>>


SpawnFails(a) ==
  /\ pc[a] = "spawn" /\ ("spawn" \in Faults \/ \A t \in Threads : pc[t] # "idle")
  /\ is_processing' = 0
  /\ Return(a)
  /\ faulted' = TRUE
  /\ UNCHANGED <<pipeline_run, param_value, logVars, runVars, commands, asked>>

LogDetached(a) ==
  /\ pc[a] = "log_detached"
  /\ LogPrint(a)
  /\ Return(a)
  /\ UNCHANGED <<paramVars, runVars, historyVars>>

-----------------------------------------------------------------------------
(* process_thread                                                          *)

\* A message is received: process_all logs three lines about its batch and
\* goes on, process_one processes the batch and returns.
TakeBatch(t) ==
  /\ pc[t] = "work" /\ batches < MaxBatches
  /\ batches' = batches + 1
  /\ lines' = [lines EXCEPT ![t] = IF args[t].all THEN 3 ELSE 0]
  /\ Goto(t, IF args[t].all THEN "log_batch" ELSE "release")
  /\ UNCHANGED <<paramVars, logVars, args, run_log, historyVars>>

\* Mutant: one line too many.
LogBatch_OneMore(t) ==
  /\ pc[t] = "log_batch"
  /\ LogPrint(t)
  /\ lines' = [lines EXCEPT ![t] = @ - 1]
  /\ Goto(t, IF lines[t] > 0 THEN "log_batch" ELSE "work")
  /\ UNCHANGED <<paramVars, args, run_log, batches, historyVars>>

LogBatch(t) ==
  /\ pc[t] = "log_batch"
  /\ LogPrint(t)
  /\ lines' = [lines EXCEPT ![t] = @ - 1]
  /\ Goto(t, IF lines[t] > 1 THEN "log_batch" ELSE "work")
  /\ UNCHANGED <<paramVars, args, run_log, batches, historyVars>>

\* get_message_from_queue fails: the queue is empty or does not exist.
FetchFails(t) ==
  /\ pc[t] = "work"
  /\ Goto(t, "release")
  /\ UNCHANGED <<paramVars, logVars, runVars, historyVars>>

Release(t) ==
  /\ pc[t] = "release"
  /\ is_processing' = 0
  /\ Goto(t, "reset")
  /\ UNCHANGED <<pipeline_run, param_value, logVars, runVars, historyVars>>

\* param_set_uint8; libparam then calls the callback, or does not.
ResetParam(t) ==
  /\ pc[t] = "reset"
  /\ pipeline_run' = 0
  /\ \E label \in {"read", "log_finished"} : Goto(t, label)
  /\ UNCHANGED <<param_value, is_processing, logVars, runVars, historyVars>>

LogFinished(t) ==
  /\ pc[t] = "log_finished"
  /\ LogPrint(t)
  /\ Goto(t, "flush")
  /\ UNCHANGED <<paramVars, runVars, historyVars>>

\* logger_flush: a logger without a file flushes nothing.
Flush(t) ==
  /\ pc[t] = "flush"
  /\ count' \in IF logger = 0 THEN {count} ELSE IF logger \in destroyed THEN {0, count} ELSE {0}
  /\ Goto(t, "destroy")
  /\ UNCHANGED <<paramVars, logger, loggers, destroyed, runVars, historyVars>>

\* logger_destroy: the pointer keeps its value.  The thread ends.
DestroyLogger(t) ==
  /\ pc[t] = "destroy"
  /\ destroyed' = IF logger = 0 THEN destroyed ELSE destroyed \cup {logger}
  /\ Goto(t, "idle")
  /\ UNCHANGED <<paramVars, logger, loggers, count, runVars, historyVars>>

-----------------------------------------------------------------------------
Callback(a) ==
  \/ ReadParam(a) \/ Claim(a) \/ ClaimFails(a) \/ CreateLogger(a) \/ LogStarted(a)
  \/ (\E t \in Threads : Spawn(a, t)) \/ SpawnFails(a) \/ LogDetached(a)

\* Mutant: the parameter is reset before is_processing is released.
Process_ResetFirst(t) ==
  \/ TakeBatch(t) \/ LogBatch(t) \/ FetchFails(t) \/ LogFinished(t) \/ Flush(t) \/ DestroyLogger(t)
  \/ /\ pc[t] = "release" /\ pipeline_run' = 0 /\ Goto(t, "reset")
     /\ UNCHANGED <<param_value, is_processing, logVars, runVars, historyVars>>
  \/ /\ pc[t] = "reset" /\ is_processing' = 0 /\ Goto(t, "log_finished")
     /\ UNCHANGED <<pipeline_run, param_value, logVars, runVars, historyVars>>

Process(t) ==
  \/ TakeBatch(t) \/ LogBatch(t) \/ FetchFails(t) \/ Release(t) \/ ResetParam(t)
  \/ LogFinished(t) \/ Flush(t) \/ DestroyLogger(t)

Next ==
  \/ \E v \in Commands : SetParam(v)
  \/ \E a \in Actors : Callback(a) \/ Segfault(a)
  \/ \E t \in Threads : Process(t)

Spec == Init /\ [][Next]_vars

(***************************************************************************)
(* The scheduler runs every thread, also into a segmentation fault.  A     *)
(* thread that waits for a message may wait for ever, so that its          *)
(* receiving is not obliged to fail.                                       *)
(***************************************************************************)
FairSpec ==
  /\ Spec
  /\ \A a \in Actors : WF_vars(Callback(a) \/ Segfault(a))
  /\ \A t \in Threads : WF_vars((pc[t] = "work" => ~args[t].wait) /\ Process(t))

-----------------------------------------------------------------------------
(* Properties.                                                             *)

ParamTypes ==
  /\ pipeline_run \in 0 .. 255
  /\ param_value \in [Actors -> 0 .. 255]
  /\ is_processing \in {0, 1}

Labels == Claimed \cup Logging \cup {"idle", "read", "claim", "reset", "flush", "destroy"}

ThreadTypes ==
  /\ pc \in [Actors -> Labels]
  /\ args \in [Threads -> [all : BOOLEAN, wait : BOOLEAN]]
  /\ lines \in [Threads -> 0 .. 3]
  /\ run_log \in [Threads -> Nat]

LogTypes ==
  /\ logger \in Nat /\ loggers \in Nat /\ destroyed \subseteq Nat
  /\ logger \in 0 .. loggers
  /\ count \in Nat

HistoryTypes ==
  /\ commands \in Nat /\ batches \in Nat
  /\ asked \in BOOLEAN /\ faulted \in BOOLEAN

\* Every variable keeps to the values its C counterpart can take, and the
\* pointer logger is NULL or the address of an object once created.
TypeOK == ParamTypes /\ ThreadTypes /\ LogTypes /\ HistoryTypes

\* At most one thread starts or processes a run at any time, whoever executes
\* the callback, and is_processing says whether there is one: queue, batch,
\* pipes and configuration cache are never used by two threads at once.
OneRunAtATime ==
  /\ \A a, b \in Actors : pc[a] \in Claimed /\ pc[b] \in Claimed => a = b
  /\ is_processing = 1 <=> \E a \in Actors : pc[a] \in Claimed

\* When everything has come to rest, and no run failed to start, pipeline_run
\* is 0 again: a command that a running thread made the callback ignore is
\* not left standing in the parameter.
IdleReadsZero ==
  (\A a \in Actors : pc[a] = "idle") /\ ~faulted => pipeline_run = 0

\* The thread waits for a message, as PROCESS_WAIT_ONE and PROCESS_WAIT_ALL do.
Waiting(t) == pc[t] = "work" /\ args[t].wait


-----------------------------------------------------------------------------
(* What the repository says and the code does not do.                      *)

\* Comment in process_thread: "Indicate that processing is finished", before
\* the log is written: then what is left to do concerns the finished run, and
\* not the logger of another one.
LoggerOfOwnRun ==
  \A t \in Threads : pc[t] \in {"log_finished", "flush", "destroy"} => logger = run_log[t]

\* README, "Activate the pipeline": setting pipeline_run activates it.  A
\* command given while no run is in progress has started one when the
\* callback returns.
CommandHeard == pc[Router] = "idle" => ~asked
=============================================================================
