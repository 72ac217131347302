------------------------------ MODULE DippError ------------------------------
(***************************************************************************)
(* Error codes and the value published in the log_status parameter         *)
(* (src/src/dipp_error.c, src/src/include/dipp_error.h).  Only the codes   *)
(* that the modelled components raise are named.                           *)
(***************************************************************************)
EXTENDS Naturals

MEMORY_MALLOC == 100
MSGQ_NOT_FOUND == 200
MSGQ_EMPTY == 201
SHM_DETACH == 301
SHM_REMOVE == 302
SHM_ATTACH == 303
PIPE_READ == 400
PIPE_EMPTY == 401
PIPE_CREATE == 402
INTERNAL_PID_NOT_FOUND == 500
INTERNAL_SO_NOT_FOUND == 501
INTERNAL_BROTLI_DECODE == 516
MODULE_EXIT_CRASH == 600
MODULE_EXIT_NORMAL == 601
MODULE_EXIT_TIMEOUT == 602
MODULE_EXIT_CUSTOM == 700

(***************************************************************************)
(* What set_error_param publishes for a code while a given pipeline and    *)
(* module are current.  The C result is a uint32_t; the largest argument,  *)
(* a uint16_t code with two uint8_t indices, stays far below 2^31.         *)
(***************************************************************************)
get_error_as_uint32(code, pipeline, module) ==
  code * 1000 + pipeline * 100 + module

(***************************************************************************)
(* How the README tells an operator to read the number back: the last two  *)
(* digits are the module, the one before is the pipeline.                  *)
(***************************************************************************)
ModuleOf(value) == value % 100
PipelineOf(value) == (value \div 100) % 10
CodeOf(value) == value \div 1000
=============================================================================
