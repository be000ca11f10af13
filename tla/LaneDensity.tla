----------------------------- MODULE LaneDensity -----------------------------
(***************************************************************************)
(* Why no lane gets a gap, whoever writes to it: what a writer keeps of a  *)
(* batch it has sealed, until the batch lands or is forgotten.  Below any  *)
(* of its indices everything is stored already, or is the index of an item *)
(* before it in the same batch.                                            *)
(***************************************************************************)
EXTENDS Outbox

\* A lane has no gap: what is stored at an index is preceded by something at
\* every lower index, however many writers raced, retried, split and crashed.
\* A reader stops at the first empty slot, so a message past a gap is lost.
LaneDense ==
  \A id \in DOMAIN slot : \A i \in 0 .. id[2]-1 : Occupied(id[1], i)

(* `occupied' is the set of the occupied msg_ids, DOMAIN slot.             *)

\* Everything below index i of the lane is stored.
Reaches(occupied, lane, i) == \A j \in 0..i-1 : <<lane, j>> \in occupied

\* Below each index: stored already, or the index of an earlier item.
Covered(occupied, lane, items) ==
  \A k \in DOMAIN items : \A j \in 0..items[k].index-1 :
    <<lane, j>> \in occupied \/ \E i \in 1..k-1 : items[i].index = j

\* Indices rise by at most one per item; they may fall, where what was cut off
\* keeps its old indices and what is sent first was sealed again.
Climbs(items) ==
  \A k \in DOMAIN items : \A i \in 1..k : items[k].index <= items[i].index + (k - i)

\* Each item is sealed at a higher index than those before it.
Ascending(items) == \A i, j \in DOMAIN items : i < j => items[i].index < items[j].index

Stored(occupied, lane, items) == \A k \in DOMAIN items : <<lane, items[k].index>> \in occupied

\* The storage: dense, and of the right type.
ChainOK == /\ DOMAIN slot \subseteq MsgId
           /\ \A id \in DOMAIN slot : slot[id] \in Payloads
           /\ IsFiniteSet(DOMAIN slot)
           /\ LaneDense

\* A message is stored somewhere; it is stored in one slot only.
Stores(storage, m) == \E id \in DOMAIN storage : storage[id] = m
StoredOnce(storage, m) ==
  \A a, b \in DOMAIN storage : storage[a] = m /\ storage[b] = m => a = b

\* The messages of a batch, each once.
Distinct(items) == \A i, j \in DOMAIN items : i # j => items[i].msg # items[j].msg

-----------------------------------------------------------------------------
\* What is stored in a lane, by index: the abstract log the lanes implement.
LaneLength(l) == Cardinality({id \in DOMAIN slot : id[1] = l})
Log == INSTANCE LaneLog WITH
         log <- [l \in Lanes |-> [i \in 1..LaneLength(l) |-> slot[<<l, i-1>>]]]

\* Every step of every writer appends one batch to one lane, or changes none.
LanesAreLogs == Log!LogSpec
=============================================================================
