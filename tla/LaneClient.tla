----------------------------- MODULE LaneClient -----------------------------
(***************************************************************************)
(* What every writer does before it submits: walk a lane to its first      *)
(* empty slot, seal a batch at consecutive indices, encode the calldata,   *)
(* and, when a proof is too large, split the batch.                        *)
(***************************************************************************)
EXTENDS MessageAnonymizer, Integers, FiniteSets

Item == [msg : Payloads, index : Nat]

\* A copy of NextFree that may answer one slot too far.
NextFreePast(lane, from) ==
  {i \in from .. from + 1 + Cardinality(DOMAIN slot) :
     /\ ~ Occupied(lane, i)
     /\ \A j \in from .. i-2 : Occupied(lane, j)}

\* The slot walk: windows of slot_lens from `from' until one holds an empty
\* slot.  Slots are never emptied again, so the walk's answer is the answer of
\* its last read; the set holds exactly that index.
NextFree(lane, from) ==
  {i \in from .. from + Cardinality(DOMAIN slot) :
     /\ ~ Occupied(lane, i)
     /\ \A j \in from .. i-1 : Occupied(lane, j)}

\* seal: the k-th message of the batch goes to the k-th index from `start'.
Sealed(msgs, start) ==
  [k \in DOMAIN msgs |-> [msg |-> msgs[k], index |-> start + k - 1]]

Calldata(lane, items) ==
  [k \in DOMAIN items |->
     [msg_id |-> <<lane, items[k].index>>, ciphertext |-> items[k].msg]]

\* splitBatch: the first half, rounded up, and the rest.
HalfLen(items) == (Len(items) + 1) \div 2
FrontHalf(items) == SubSeq(items, 1, HalfLen(items))

\* A copy of BackHalf that starts one item early.
BackHalfOverlaps(items) == SubSeq(items, HalfLen(items), Len(items))

BackHalf(items) == SubSeq(items, HalfLen(items) + 1, Len(items))
=============================================================================
