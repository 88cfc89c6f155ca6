---------------------------- MODULE MCIndexerPods ----------------------------
(* IndexerPods for TLC.                                                    *)
EXTENDS IndexerPods, TLC
=============================================================================
