--------------------------- MODULE RunControlProofs ---------------------------
(***************************************************************************)
(* Proofs about RunControl, for any number of processing threads, commands *)
(* and batches, every set of faults and every size of the log buffer.      *)
(***************************************************************************)
EXTENDS RunControl, TLAPS

-----------------------------------------------------------------------------
(* The inductive invariant.                                                *)

\* A thread that is about to log about its batch has a line left to log.
LinesInv == \A t \in Threads : pc[t] = "log_batch" => lines[t] > 0

\* Whoever leaves a command standing in pipeline_run is followed by somebody
\* who looks at it or resets it: the router in its callback, the run in
\* progress, or the run that has ended and is about to reset the parameter.
StandingInv ==
  ~faulted /\ pipeline_run # 0 =>
    \/ pc[Router] \in {"read", "claim"}
    \/ is_processing = 1
    \/ \E t \in Threads : pc[t] = "reset"

IInv == TypeOK /\ OneRunAtATime /\ LinesInv /\ StandingInv

-----------------------------------------------------------------------------
(* Facts about the program counters.                                       *)

\* A step that moves nobody into or out of the claimed labels, and leaves
\* is_processing alone, keeps the exclusion.
LEMMA ClaimUnmoved ==
  ASSUME OneRunAtATime, UNCHANGED is_processing,
         \A b \in Actors : pc'[b] \in Claimed <=> pc[b] \in Claimed
  PROVE  OneRunAtATime'
  BY DEF OneRunAtATime, Actors

\* A thread that moves between labels on the same side of the claim is such
\* a step.
LEMMA MoveWithinClaim ==
  ASSUME TypeOK, OneRunAtATime, NEW a \in Actors, NEW label,
         Goto(a, label), pc[a] \in Claimed <=> label \in Claimed,
         UNCHANGED is_processing
  PROVE  OneRunAtATime'
<1>1. \A b \in Actors : pc'[b] = IF b = a THEN label ELSE pc[b]
  BY DEF Goto, TypeOK, ThreadTypes
<1>2. \A b \in Actors : pc'[b] \in Claimed <=> pc[b] \in Claimed
  BY <1>1
<1> QED BY <1>2, ClaimUnmoved

LEMMA TypesKept == IInv /\ [Next]_vars => TypeOK'
<1> SUFFICES ASSUME IInv, [Next]_vars PROVE TypeOK'
  OBVIOUS
<1> USE RunAssumption DEF IInv, TypeOK, ParamTypes, ThreadTypes, LogTypes, HistoryTypes, Labels, Claimed, Logging, Actors
<1>1. CASE UNCHANGED vars
  BY <1>1 DEF vars, paramVars, logVars, runVars, historyVars
<1>2. ASSUME NEW v \in Commands, SetParam(v) PROVE TypeOK'
  BY <1>2 DEF SetParam, paramVars, logVars, runVars, historyVars, Goto
<1>3. ASSUME NEW a \in Actors, ReadParam(a) PROVE TypeOK'
  BY <1>3 DEF ReadParam, Return, ReturnLabel, LogPrint, paramVars, logVars, runVars, historyVars, Goto
<1>4. ASSUME NEW a \in Actors, ClaimFails(a) PROVE TypeOK'
  BY <1>4 DEF ClaimFails, Return, ReturnLabel, LogPrint, paramVars, logVars, runVars, historyVars, Goto
<1>5. ASSUME NEW a \in Actors, CreateLogger(a) PROVE TypeOK'
  BY <1>5 DEF CreateLogger, Return, ReturnLabel, LogPrint, paramVars, logVars, runVars, historyVars, Goto
<1>6. ASSUME NEW a \in Actors, LogStarted(a) PROVE TypeOK'
  BY <1>6 DEF LogStarted, Return, ReturnLabel, LogPrint, paramVars, logVars, runVars, historyVars, Goto
<1>7. ASSUME NEW a \in Actors, LogDetached(a) PROVE TypeOK'
  BY <1>7 DEF LogDetached, Return, ReturnLabel, LogPrint, paramVars, logVars, runVars, historyVars, Goto
<1>8. ASSUME NEW a \in Actors, Claim(a) PROVE TypeOK'
  BY <1>8 DEF Claim, Return, ReturnLabel, LogPrint, paramVars, logVars, runVars, historyVars, Goto
<1>9. ASSUME NEW a \in Actors, SpawnFails(a) PROVE TypeOK'
  BY <1>9 DEF SpawnFails, Return, ReturnLabel, LogPrint, paramVars, logVars, runVars, historyVars, Goto
<1>10. ASSUME NEW a \in Actors, NEW t \in Threads, Spawn(a, t) PROVE TypeOK'
  BY <1>10 DEF Spawn, paramVars, logVars, runVars, historyVars, Goto
<1>11. ASSUME NEW a \in Actors, Segfault(a) PROVE TypeOK'
  <2>1. NoArgs \in [all : BOOLEAN, wait : BOOLEAN]
    BY DEF NoArgs
  <2>2. ParamTypes'
    BY <1>11 DEF Segfault
  <2>4. HistoryTypes'
    <3>1. asked' \in BOOLEAN /\ faulted' \in BOOLEAN
      BY <1>11, Zenon DEF Segfault
    <3> QED BY <1>11, <3>1 DEF Segfault
  <2>3. ThreadTypes'
    BY <1>11, <2>1 DEF Segfault
  <2>5. LogTypes'
    BY <1>11 DEF Segfault
  <2> QED BY <2>2, <2>3, <2>4, <2>5
<1>12. ASSUME NEW t \in Threads, TakeBatch(t) PROVE TypeOK'
  BY <1>12 DEF TakeBatch, LinesInv, LogPrint, paramVars, logVars, runVars, historyVars, Goto
<1>13. ASSUME NEW t \in Threads, LogBatch(t) PROVE TypeOK'
  BY <1>13 DEF LogBatch, LinesInv, LogPrint, paramVars, logVars, runVars, historyVars, Goto
<1>14. ASSUME NEW t \in Threads, FetchFails(t) PROVE TypeOK'
  BY <1>14 DEF FetchFails, LinesInv, LogPrint, paramVars, logVars, runVars, historyVars, Goto
<1>15. ASSUME NEW t \in Threads, ResetParam(t) PROVE TypeOK'
  BY <1>15 DEF ResetParam, LinesInv, LogPrint, paramVars, logVars, runVars, historyVars, Goto
<1>16. ASSUME NEW t \in Threads, LogFinished(t) PROVE TypeOK'
  BY <1>16 DEF LogFinished, LinesInv, LogPrint, paramVars, logVars, runVars, historyVars, Goto
<1>17. ASSUME NEW t \in Threads, Flush(t) PROVE TypeOK'
  BY <1>17 DEF Flush, LinesInv, LogPrint, paramVars, logVars, runVars, historyVars, Goto
<1>18. ASSUME NEW t \in Threads, DestroyLogger(t) PROVE TypeOK'
  BY <1>18 DEF DestroyLogger, LinesInv, LogPrint, paramVars, logVars, runVars, historyVars, Goto
<1>19. ASSUME NEW t \in Threads, Release(t) PROVE TypeOK'
  BY <1>19 DEF Release, LinesInv, LogPrint, paramVars, logVars, runVars, historyVars, Goto
<1> HIDE DEF TypeOK, IInv
<1> QED
  BY <1>1, <1>2, <1>3, <1>4, <1>5, <1>6, <1>7, <1>8, <1>9, <1>10, <1>11, <1>12, <1>13, <1>14, <1>15,
     <1>16, <1>17, <1>18, <1>19
    DEF Next, Callback, Process

LEMMA ExclusionKept == IInv /\ [Next]_vars => OneRunAtATime'
<1> SUFFICES ASSUME IInv, [Next]_vars PROVE OneRunAtATime'
  OBVIOUS
<1> USE RunAssumption DEF IInv
<1>1. CASE UNCHANGED vars
  BY <1>1 DEF OneRunAtATime, vars, paramVars
<1>2. ASSUME NEW v \in Commands, SetParam(v) PROVE OneRunAtATime'
  <2>1. Router \in Actors /\ Goto(Router, "read") /\ pc[Router] = "idle" /\ UNCHANGED is_processing
    BY <1>2 DEF SetParam, Actors
  <2> QED BY <2>1, MoveWithinClaim DEF Claimed
<1>3. ASSUME NEW a \in Actors, ReadParam(a) PROVE OneRunAtATime'
  <2> DEFINE label == IF pipeline_run = 0 THEN ReturnLabel(a) ELSE "claim"
  <2>1. Goto(a, label) /\ pc[a] = "read" /\ UNCHANGED is_processing
    BY <1>3 DEF ReadParam, Return
  <2>2. label \notin Claimed
    BY DEF ReturnLabel, Claimed
  <2> QED BY <2>1, <2>2, MoveWithinClaim DEF Claimed
<1>4. ASSUME NEW a \in Actors, ClaimFails(a) PROVE OneRunAtATime'
  <2>1. Goto(a, ReturnLabel(a)) /\ pc[a] = "claim" /\ UNCHANGED is_processing
    BY <1>4 DEF ClaimFails, Return, paramVars
  <2>2. ReturnLabel(a) \notin Claimed
    BY DEF ReturnLabel, Claimed
  <2> QED BY <2>1, <2>2, MoveWithinClaim DEF Claimed
<1>5. ASSUME NEW a \in Actors, CreateLogger(a) PROVE OneRunAtATime'
  <2> DEFINE label == "log_started"
  <2>1. a \in Actors /\ Goto(a, label) /\ pc[a] = "create" /\ UNCHANGED is_processing
    BY <1>5 DEF CreateLogger, paramVars, Actors
  <2> QED BY <2>1, MoveWithinClaim DEF Claimed
<1>6. ASSUME NEW a \in Actors, LogStarted(a) PROVE OneRunAtATime'
  <2> DEFINE label == "spawn"
  <2>1. a \in Actors /\ Goto(a, label) /\ pc[a] = "log_started" /\ UNCHANGED is_processing
    BY <1>6 DEF LogStarted, paramVars, Actors
  <2> QED BY <2>1, MoveWithinClaim DEF Claimed
<1>7. ASSUME NEW a \in Actors, LogDetached(a) PROVE OneRunAtATime'
  <2>1. Goto(a, ReturnLabel(a)) /\ pc[a] = "log_detached" /\ UNCHANGED is_processing
    BY <1>7 DEF LogDetached, Return, paramVars
  <2>2. ReturnLabel(a) \notin Claimed
    BY DEF ReturnLabel, Claimed
  <2> QED BY <2>1, <2>2, MoveWithinClaim DEF Claimed
<1>8. ASSUME NEW t \in Threads, TakeBatch(t) PROVE OneRunAtATime'
  <2> DEFINE label == IF args[t].all THEN "log_batch" ELSE "release"
  <2>1. t \in Actors /\ Goto(t, label) /\ pc[t] = "work" /\ UNCHANGED is_processing
    BY <1>8 DEF TakeBatch, paramVars, Actors
  <2> QED BY <2>1, MoveWithinClaim DEF Claimed
<1>9. ASSUME NEW t \in Threads, LogBatch(t) PROVE OneRunAtATime'
  <2> DEFINE label == IF lines[t] > 1 THEN "log_batch" ELSE "work"
  <2>1. t \in Actors /\ Goto(t, label) /\ pc[t] = "log_batch" /\ UNCHANGED is_processing
    BY <1>9 DEF LogBatch, paramVars, Actors
  <2> QED BY <2>1, MoveWithinClaim DEF Claimed
<1>10. ASSUME NEW t \in Threads, FetchFails(t) PROVE OneRunAtATime'
  <2> DEFINE label == "release"
  <2>1. t \in Actors /\ Goto(t, label) /\ pc[t] = "work" /\ UNCHANGED is_processing
    BY <1>10 DEF FetchFails, paramVars, Actors
  <2> QED BY <2>1, MoveWithinClaim DEF Claimed
<1>11. ASSUME NEW t \in Threads, ResetParam(t) PROVE OneRunAtATime'
  <2>1. t \in Actors /\ pc[t] = "reset" /\ UNCHANGED is_processing
    BY <1>11 DEF ResetParam, Actors
  <2>2. PICK label \in {"read", "log_finished"} : Goto(t, label)
    BY <1>11 DEF ResetParam
  <2> QED BY <2>1, <2>2, MoveWithinClaim DEF Claimed
<1>12. ASSUME NEW t \in Threads, LogFinished(t) PROVE OneRunAtATime'
  <2> DEFINE label == "flush"
  <2>1. t \in Actors /\ Goto(t, label) /\ pc[t] = "log_finished" /\ UNCHANGED is_processing
    BY <1>12 DEF LogFinished, paramVars, Actors
  <2> QED BY <2>1, MoveWithinClaim DEF Claimed
<1>13. ASSUME NEW t \in Threads, Flush(t) PROVE OneRunAtATime'
  <2> DEFINE label == "destroy"
  <2>1. t \in Actors /\ Goto(t, label) /\ pc[t] = "flush" /\ UNCHANGED is_processing
    BY <1>13 DEF Flush, paramVars, Actors
  <2> QED BY <2>1, MoveWithinClaim DEF Claimed
<1>14. ASSUME NEW t \in Threads, DestroyLogger(t) PROVE OneRunAtATime'
  <2> DEFINE label == "idle"
  <2>1. t \in Actors /\ Goto(t, label) /\ pc[t] = "destroy" /\ UNCHANGED is_processing
    BY <1>14 DEF DestroyLogger, paramVars, Actors
  <2> QED BY <2>1, MoveWithinClaim DEF Claimed
<1>15. ASSUME NEW a \in Actors, Claim(a) PROVE OneRunAtATime'
  <2>1. \A b \in Actors : pc[b] \notin Claimed
    BY <1>15 DEF Claim, OneRunAtATime
  <2>2. \A b \in Actors : pc'[b] = IF b = a THEN "create" ELSE pc[b]
    BY <1>15 DEF Claim, Goto, TypeOK, ThreadTypes
  <2>3. is_processing' = 1 /\ "create" \in Claimed
    BY <1>15 DEF Claim, Claimed
  <2> QED BY <2>1, <2>2, <2>3 DEF OneRunAtATime, Actors
<1>16. ASSUME NEW a \in Actors, NEW t \in Threads, Spawn(a, t) PROVE OneRunAtATime'
  <2>1. a # t /\ t \in Actors /\ pc[a] \in Claimed
    BY <1>16 DEF Spawn, Claimed, Actors
  <2>2. \A b \in Actors : pc'[b] = IF b = t THEN "work" ELSE IF b = a THEN "log_detached" ELSE pc[b]
    BY <1>16, <2>1 DEF Spawn, TypeOK, ThreadTypes
  <2>3. is_processing' = 1 /\ "work" \in Claimed /\ "log_detached" \notin Claimed
    BY <1>16, <2>1 DEF Spawn, Claimed, OneRunAtATime, paramVars
  <2>4. \A b \in Actors : pc[b] \in Claimed => b = a
    BY <2>1 DEF OneRunAtATime
  <2>5. \A b \in Actors : pc'[b] \in Claimed <=> b = t
    BY <2>1, <2>2, <2>3, <2>4
  <2> QED BY <2>1, <2>3, <2>5 DEF OneRunAtATime, Actors
<1>17. ASSUME NEW a \in Actors, SpawnFails(a) PROVE OneRunAtATime'
  <2>1. a \in Actors /\ pc[a] \in Claimed /\ is_processing' = 0
    BY <1>17 DEF SpawnFails, Claimed, Actors
  <2>2. \A b \in Actors : pc'[b] = IF b = a THEN ReturnLabel(a) ELSE pc[b]
    BY <1>17, <2>1 DEF SpawnFails, Return, Goto, TypeOK, ThreadTypes
  <2>3. ReturnLabel(a) \notin Claimed
    BY DEF ReturnLabel, Claimed
  <2>4. \A b \in Actors : pc[b] \in Claimed => b = a
    BY <2>1 DEF OneRunAtATime
  <2>5. \A b \in Actors : pc'[b] \notin Claimed
    BY <2>1, <2>2, <2>3, <2>4
  <2> QED BY <2>1, <2>5 DEF OneRunAtATime, Actors
<1>18. ASSUME NEW t \in Threads, Release(t) PROVE OneRunAtATime'
  <2>1. t \in Actors /\ pc[t] \in Claimed /\ is_processing' = 0
    BY <1>18 DEF Release, Claimed, Actors
  <2>2. \A b \in Actors : pc'[b] = IF b = t THEN "reset" ELSE pc[b]
    BY <1>18, <2>1 DEF Release, Return, Goto, TypeOK, ThreadTypes
  <2>3. "reset" \notin Claimed
    BY DEF ReturnLabel, Claimed
  <2>4. \A b \in Actors : pc[b] \in Claimed => b = t
    BY <2>1 DEF OneRunAtATime
  <2>5. \A b \in Actors : pc'[b] \notin Claimed
    BY <2>1, <2>2, <2>3, <2>4
  <2> QED BY <2>1, <2>5 DEF OneRunAtATime, Actors
<1>19. ASSUME NEW a \in Actors, Segfault(a) PROVE OneRunAtATime'
  <2>1. is_processing' = 0 /\ \A b \in Actors : pc'[b] \notin Claimed
    BY <1>19 DEF Segfault, Claimed
  <2> QED BY <2>1 DEF OneRunAtATime, Actors
<1> HIDE DEF IInv
<1> QED
  BY <1>1, <1>2, <1>3, <1>4, <1>5, <1>6, <1>7, <1>8, <1>9, <1>10, <1>11, <1>12, <1>13, <1>14, <1>15,
     <1>16, <1>17, <1>18, <1>19
    DEF Next, Callback, Process

LEMMA LinesKept == IInv /\ [Next]_vars => LinesInv'
<1> SUFFICES ASSUME IInv, [Next]_vars PROVE LinesInv'
  OBVIOUS
<1> USE RunAssumption DEF IInv, TypeOK, ParamTypes, ThreadTypes, Actors, LinesInv
<1>1. CASE UNCHANGED vars
  BY <1>1 DEF vars, paramVars, logVars, runVars, historyVars
<1>2. ASSUME NEW v \in Commands, SetParam(v) PROVE LinesInv'
  BY <1>2 DEF SetParam, Goto, paramVars, logVars, runVars, historyVars
<1>3. ASSUME NEW a \in Actors, ReadParam(a) PROVE LinesInv'
  BY <1>3 DEF ReadParam, Return, ReturnLabel, Goto, paramVars, logVars, runVars, historyVars
<1>4. ASSUME NEW a \in Actors, ClaimFails(a) PROVE LinesInv'
  BY <1>4 DEF ClaimFails, Return, ReturnLabel, Goto, paramVars, logVars, runVars, historyVars
<1>5. ASSUME NEW a \in Actors, CreateLogger(a) PROVE LinesInv'
  BY <1>5 DEF CreateLogger, Return, ReturnLabel, Goto, paramVars, logVars, runVars, historyVars
<1>6. ASSUME NEW a \in Actors, LogStarted(a) PROVE LinesInv'
  BY <1>6 DEF LogStarted, Return, ReturnLabel, Goto, paramVars, logVars, runVars, historyVars
<1>7. ASSUME NEW a \in Actors, LogDetached(a) PROVE LinesInv'
  BY <1>7 DEF LogDetached, Return, ReturnLabel, Goto, paramVars, logVars, runVars, historyVars
<1>8. ASSUME NEW a \in Actors, Claim(a) PROVE LinesInv'
  BY <1>8 DEF Claim, Return, ReturnLabel, Goto, paramVars, logVars, runVars, historyVars
<1>9. ASSUME NEW a \in Actors, SpawnFails(a) PROVE LinesInv'
  BY <1>9 DEF SpawnFails, Return, ReturnLabel, Goto, paramVars, logVars, runVars, historyVars
<1>10. ASSUME NEW a \in Actors, NEW t \in Threads, Spawn(a, t) PROVE LinesInv'
  BY <1>10 DEF Spawn, Return, ReturnLabel, Goto, paramVars, logVars, runVars, historyVars
<1>11. ASSUME NEW a \in Actors, Segfault(a) PROVE LinesInv'
  BY <1>11 DEF Segfault, Return, ReturnLabel, Goto, paramVars, logVars, runVars, historyVars
<1>12. ASSUME NEW t \in Threads, TakeBatch(t) PROVE LinesInv'
  BY <1>12 DEF TakeBatch, Return, ReturnLabel, Goto, paramVars, logVars, runVars, historyVars
<1>13. ASSUME NEW t \in Threads, LogBatch(t) PROVE LinesInv'
  BY <1>13 DEF LogBatch, Return, ReturnLabel, Goto, paramVars, logVars, runVars, historyVars
<1>14. ASSUME NEW t \in Threads, FetchFails(t) PROVE LinesInv'
  BY <1>14 DEF FetchFails, Return, ReturnLabel, Goto, paramVars, logVars, runVars, historyVars
<1>15. ASSUME NEW t \in Threads, ResetParam(t) PROVE LinesInv'
  BY <1>15 DEF ResetParam, Return, ReturnLabel, Goto, paramVars, logVars, runVars, historyVars
<1>16. ASSUME NEW t \in Threads, LogFinished(t) PROVE LinesInv'
  BY <1>16 DEF LogFinished, Return, ReturnLabel, Goto, paramVars, logVars, runVars, historyVars
<1>17. ASSUME NEW t \in Threads, Flush(t) PROVE LinesInv'
  BY <1>17 DEF Flush, Return, ReturnLabel, Goto, paramVars, logVars, runVars, historyVars
<1>18. ASSUME NEW t \in Threads, DestroyLogger(t) PROVE LinesInv'
  BY <1>18 DEF DestroyLogger, Return, ReturnLabel, Goto, paramVars, logVars, runVars, historyVars
<1>19. ASSUME NEW t \in Threads, Release(t) PROVE LinesInv'
  BY <1>19 DEF Release, Return, ReturnLabel, Goto, paramVars, logVars, runVars, historyVars
<1> HIDE DEF IInv, TypeOK, ParamTypes, ThreadTypes, Actors, LinesInv
<1> QED
  BY <1>1, <1>2, <1>3, <1>4, <1>5, <1>6, <1>7, <1>8, <1>9, <1>10, <1>11, <1>12, <1>13, <1>14, <1>15,
     <1>16, <1>17, <1>18, <1>19
    DEF Next, Callback, Process

LEMMA StandingKept == IInv /\ [Next]_vars => StandingInv'
<1> SUFFICES ASSUME IInv, [Next]_vars PROVE StandingInv'
  OBVIOUS
<1> USE RunAssumption DEF IInv, TypeOK, ParamTypes, ThreadTypes, Actors, StandingInv, OneRunAtATime, Claimed
<1>1. CASE UNCHANGED vars
  BY <1>1 DEF vars, paramVars, logVars, runVars, historyVars
<1>2. ASSUME NEW v \in Commands, SetParam(v) PROVE StandingInv'
  BY <1>2 DEF SetParam, Goto, paramVars, logVars, runVars, historyVars
<1>3. ASSUME NEW a \in Actors, ReadParam(a) PROVE StandingInv'
  BY <1>3 DEF ReadParam, Return, ReturnLabel, Goto, paramVars, logVars, runVars, historyVars
<1>4. ASSUME NEW a \in Actors, ClaimFails(a) PROVE StandingInv'
  BY <1>4 DEF ClaimFails, Return, ReturnLabel, Goto, paramVars, logVars, runVars, historyVars
<1>5. ASSUME NEW a \in Actors, CreateLogger(a) PROVE StandingInv'
  BY <1>5 DEF CreateLogger, Return, ReturnLabel, Goto, paramVars, logVars, runVars, historyVars
<1>6. ASSUME NEW a \in Actors, LogStarted(a) PROVE StandingInv'
  BY <1>6 DEF LogStarted, Return, ReturnLabel, Goto, paramVars, logVars, runVars, historyVars
<1>7. ASSUME NEW a \in Actors, LogDetached(a) PROVE StandingInv'
  BY <1>7 DEF LogDetached, Return, ReturnLabel, Goto, paramVars, logVars, runVars, historyVars
<1>8. ASSUME NEW a \in Actors, Claim(a) PROVE StandingInv'
  BY <1>8 DEF Claim, Return, ReturnLabel, Goto, paramVars, logVars, runVars, historyVars
<1>9. ASSUME NEW a \in Actors, SpawnFails(a) PROVE StandingInv'
  BY <1>9 DEF SpawnFails, Return, ReturnLabel, Goto, paramVars, logVars, runVars, historyVars
<1>10. ASSUME NEW a \in Actors, NEW t \in Threads, Spawn(a, t) PROVE StandingInv'
  BY <1>10 DEF Spawn, Return, ReturnLabel, Goto, paramVars, logVars, runVars, historyVars
<1>11. ASSUME NEW a \in Actors, Segfault(a) PROVE StandingInv'
  BY <1>11 DEF Segfault, Return, ReturnLabel, Goto, paramVars, logVars, runVars, historyVars
<1>12. ASSUME NEW t \in Threads, TakeBatch(t) PROVE StandingInv'
  BY <1>12 DEF TakeBatch, Return, ReturnLabel, Goto, paramVars, logVars, runVars, historyVars
<1>13. ASSUME NEW t \in Threads, LogBatch(t) PROVE StandingInv'
  BY <1>13 DEF LogBatch, Return, ReturnLabel, Goto, paramVars, logVars, runVars, historyVars
<1>14. ASSUME NEW t \in Threads, FetchFails(t) PROVE StandingInv'
  BY <1>14 DEF FetchFails, Return, ReturnLabel, Goto, paramVars, logVars, runVars, historyVars
<1>15. ASSUME NEW t \in Threads, ResetParam(t) PROVE StandingInv'
  BY <1>15 DEF ResetParam, Return, ReturnLabel, Goto, paramVars, logVars, runVars, historyVars
<1>16. ASSUME NEW t \in Threads, LogFinished(t) PROVE StandingInv'
  BY <1>16 DEF LogFinished, Return, ReturnLabel, Goto, paramVars, logVars, runVars, historyVars
<1>17. ASSUME NEW t \in Threads, Flush(t) PROVE StandingInv'
  BY <1>17 DEF Flush, Return, ReturnLabel, Goto, paramVars, logVars, runVars, historyVars
<1>18. ASSUME NEW t \in Threads, DestroyLogger(t) PROVE StandingInv'
  BY <1>18 DEF DestroyLogger, Return, ReturnLabel, Goto, paramVars, logVars, runVars, historyVars
<1>19. ASSUME NEW t \in Threads, Release(t) PROVE StandingInv'
  BY <1>19 DEF Release, Return, ReturnLabel, Goto, paramVars, logVars, runVars, historyVars
<1> HIDE DEF IInv
<1> QED
  BY <1>1, <1>2, <1>3, <1>4, <1>5, <1>6, <1>7, <1>8, <1>9, <1>10, <1>11, <1>12, <1>13, <1>14, <1>15,
     <1>16, <1>17, <1>18, <1>19
    DEF Next, Callback, Process

-----------------------------------------------------------------------------
(* The theorems.                                                           *)

\* The inductive invariant holds in every reachable state.
THEOREM RunInvariance == Spec => []IInv
<1>1. Init => IInv
  <2> SUFFICES ASSUME Init PROVE IInv
    OBVIOUS
  <2>1. NoArgs \in [all : BOOLEAN, wait : BOOLEAN]
    BY DEF NoArgs
  <2>2. ParamTypes /\ LogTypes
    BY DEF Init, ParamTypes, LogTypes
  <2>3. ThreadTypes
    BY <2>1 DEF Init, ThreadTypes, Labels
  <2>4. HistoryTypes
    <3>1. asked \in BOOLEAN /\ faulted \in BOOLEAN
      BY Zenon DEF Init
    <3> QED BY <3>1 DEF Init, HistoryTypes
  <2>5. OneRunAtATime
    BY DEF Init, OneRunAtATime, Claimed
  <2>6. LinesInv /\ StandingInv
    BY DEF Init, LinesInv, StandingInv, Actors
  <2> QED BY <2>2, <2>3, <2>4, <2>5, <2>6 DEF IInv, TypeOK
<1>2. IInv /\ [Next]_vars => IInv'
  BY TypesKept, ExclusionKept, LinesKept, StandingKept DEF IInv
<1> QED BY <1>1, <1>2, PTL DEF Spec

\* Type correctness: the parameter, the claim and the log stay in range.
THEOREM RunTypes == Spec => []TypeOK
<1>1. IInv => TypeOK
  BY DEF IInv
<1> QED BY <1>1, RunInvariance, PTL

\* However many commands arrive, and in whichever thread the callback runs,
\* no two threads ever start or process a run at once.
THEOREM MutualExclusion == Spec => []OneRunAtATime
<1>1. IInv => OneRunAtATime
  BY DEF IInv
<1> QED BY <1>1, RunInvariance, PTL

\* No command is left standing in pipeline_run once every thread is at rest.
THEOREM ParameterReset == Spec => []IdleReadsZero
<1>1. ASSUME IInv PROVE IdleReadsZero
  <2> SUFFICES ASSUME \A a \in Actors : pc[a] = "idle", ~faulted, pipeline_run # 0 PROVE FALSE
    BY DEF IdleReadsZero
  <2>1. is_processing # 1
    BY <1>1 DEF IInv, OneRunAtATime, Claimed
  <2> QED BY <1>1, <2>1 DEF IInv, StandingInv, Actors
<1> QED BY <1>1, RunInvariance, PTL
=============================================================================
