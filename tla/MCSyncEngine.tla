--------------------------- MODULE MCSyncEngine ---------------------------
(***************************************************************************)
(* Instances of SyncEngine for TLC: windows of two slots, so that a lane   *)
(* of three messages takes two.                                            *)
(***************************************************************************)
EXTENDS SyncEngine, TLC

CONSTANTS a, b

SingleBatches == {<<a>>, <<a, b>>}
MixedBatches == {<<a>>, <<b, a>>}
Interchangeable == Permutations(Syncers)
=============================================================================
