------------------------------- MODULE MCKbAdmin -------------------------------
(***************************************************************************)
(* Instance of KbAdmin for TLC: two requests at a time, which are          *)
(* interchangeable, and pages of one knowledge base.                       *)
(***************************************************************************)
EXTENDS KbAdmin, TLC

CONSTANTS q1, q2

Symmetry == Permutations(Threads)
================================================================================
