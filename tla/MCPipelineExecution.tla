------------------------- MODULE MCPipelineExecution -------------------------
(* Two modules in pipeline 1, whose modules and system calls do whatever   *)
(* they can, and two in pipeline 2, whose modules return, crash, run on or *)
(* report and exit.  Pipeline 3 has no modules, 0 is what the table has    *)
(* where nothing has been set up, 7 is unknown.                            *)
EXTENDS PipelineExecution

MCNumModules == [p \in PipelineIds |-> IF p \in {0, 3} THEN 0 ELSE 2]
MCBehaviours == [p \in PipelineIds |-> IF p = 1 THEN {"carry_on", "silent_exit", "exit_zero"} ELSE {}]
MCFaults == [p \in PipelineIds |-> IF p = 1 THEN {"pipe", "fork", "read"} ELSE {"pipe", "read"}]
MCSilentExits == [p \in PipelineIds |-> {"silent_exit"}]
MCNoFaults == [p \in PipelineIds |-> {}]
=============================================================================
