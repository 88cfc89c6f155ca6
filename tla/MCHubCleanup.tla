---------------------------- MODULE MCHubCleanup ----------------------------
(* HubCleanup for TLC; the configurations give the names and the bounds.   *)
EXTENDS HubCleanup
=============================================================================
