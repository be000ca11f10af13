----------------------------- MODULE MCCliFiles -----------------------------
(***************************************************************************)
(* Instances of CliFiles for TLC.                                          *)
(***************************************************************************)
EXTENDS CliFilesInvariant

CONSTANTS p1, p2

AnyProc == Permutations(Procs)
=============================================================================
