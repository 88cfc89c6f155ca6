-------------------------- MODULE MCRequestLimiter --------------------------
(* RequestLimiter for TLC.                                                 *)
EXTENDS RequestLimiter
=============================================================================
