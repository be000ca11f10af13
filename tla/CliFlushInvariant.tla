------------------------- MODULE CliFlushInvariant -------------------------
(***************************************************************************)
(* The inductive invariant behind LaneDense and CursorSound.               *)
(*                                                                         *)
(* Neither is inductive: that a lane stays dense when a transaction lands  *)
(* depends on the indices it was sealed at, perhaps long ago and by a      *)
(* command that has died since.  The strengthening says that every batch   *)
(* in a memory or among the lost transactions stays covered, through       *)
(* races, reseals, halves and chained transactions.                        *)
(***************************************************************************)
EXTENDS CliFlush, LaneDensity

\* What is in a process's memory.
MemoryCovered(occupied, me) ==
  /\ Covered(occupied, me.lane, me.batch \o me.rest)
  /\ Climbs(me.batch \o me.rest)
  /\ me.pc \in {"submit", "await", "reseal"} => me.batch # <<>>
  /\ me.pc \in {"idle", "seal"} => me.batch = <<>> /\ me.rest = <<>>
  /\ me.tx = "landed" => me.pc = "await" /\ Stored(occupied, me.lane, me.batch)
  /\ \A l \in Lanes : Reaches(occupied, l, me.cursors[l])

IInv ==
  /\ TypeOK
  /\ IsFiniteSet(DOMAIN slot)
  /\ LaneDense
  /\ \A h \in Homes, l \in Lanes : Reaches(DOMAIN slot, l, cursor[h][l])
  /\ \A p \in Procs : MemoryCovered(DOMAIN slot, proc[p])
  /\ \A t \in lost : Covered(DOMAIN slot, t.lane, t.batch)
=============================================================================
