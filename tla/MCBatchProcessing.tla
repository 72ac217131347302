-------------------------- MODULE MCBatchProcessing --------------------------
(* Batches with two images, with one and with none; all four run modes.    *)
EXTENDS BatchProcessing

CONSTANTS b1, b2, b3

MCNumImages == [b \in Batches |-> CASE b = b1 -> 2 [] b = b2 -> 1 [] b = b3 -> 0]
MCModes == [all : BOOLEAN, wait : BOOLEAN]
=============================================================================
