----------------------------- MODULE MCBatchRun -----------------------------
(* BatchRun on small instances; the values are in the configurations.       *)
EXTENDS BatchRun
=============================================================================
