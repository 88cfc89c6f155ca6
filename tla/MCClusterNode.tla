--------------------------- MODULE MCClusterNode ---------------------------
(* ClusterNode for TLC; the configurations give the constants.             *)
EXTENDS ClusterNode
=============================================================================
