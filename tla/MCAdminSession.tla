---------------------------- MODULE MCAdminSession -----------------------------
(***************************************************************************)
(* Instance of AdminSession for TLC: two tabs of one browser, which share  *)
(* its cookie and its stored token, so that the tabs are interchangeable.  *)
(***************************************************************************)
EXTENDS AdminSession, TLC

CONSTANTS t1, t2, b1, c1

OneBrowser == [t \in Tabs |-> b1]
Symmetry == Permutations(Tabs)
================================================================================
