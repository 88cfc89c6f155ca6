---------------------------- MODULE MCBatchRetry ----------------------------
(* BatchRetry for TLC, with the mutants of its definitions.                *)
EXTENDS BatchRetry
=============================================================================
