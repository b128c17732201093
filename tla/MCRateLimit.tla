----------------------------- MODULE MCRateLimit -------------------------------
(***************************************************************************)
(* Instance of RateLimit for TLC: two calls at a time; the bucket holds a  *)
(* token, and a unit of time refills it.                                   *)
(***************************************************************************)
EXTENDS RateLimit

CONSTANTS a1, a2
================================================================================
