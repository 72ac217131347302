----------------------------- MODULE MCRunControl -----------------------------
(* Two processing threads.                                                 *)
EXTENDS RunControl

CONSTANTS t1, t2
=============================================================================
