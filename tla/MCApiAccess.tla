------------------------------ MODULE MCApiAccess ------------------------------
(***************************************************************************)
(* Instance of ApiAccess for TLC: two knowledge bases of the same name.    *)
(***************************************************************************)
EXTENDS ApiAccess

CONSTANTS r1, k1, n1

SameName == [b \in 1..2 |-> n1]
================================================================================
