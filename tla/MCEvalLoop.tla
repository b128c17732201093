------------------------------- MODULE MCEvalLoop ------------------------------
(***************************************************************************)
(* Instance of EvalLoop for TLC: five entries in batches of two, so that   *)
(* batches follow one another and the last one is cut short.               *)
(***************************************************************************)
EXTENDS EvalLoop

MCTotal == 5
MCBatch == 2
================================================================================
