---------------------------- MODULE MCWebStore ----------------------------
(***************************************************************************)
(* Instances of WebStore for TLC.                                          *)
(***************************************************************************)
EXTENDS WebStore, TLC

CONSTANTS k1, k2, o1, o2

AnyOp == Permutations(Ops)
=============================================================================
