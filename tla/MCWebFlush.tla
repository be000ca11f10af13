---------------------------- MODULE MCWebFlush ----------------------------
(***************************************************************************)
(* Instances of WebFlush for TLC.                                          *)
(***************************************************************************)
EXTENDS WebFlushInvariant, TLC

CONSTANTS o1, o2, lane1, lane2

\* Message 1 is queued for one lane and 3 for another; 4 rides with a payment
\* and 5 comes from another device, both in the first lane.
WebLaneOf == [m \in Payloads |-> IF m = 3 THEN lane2 ELSE lane1]

EmptyCiphertext == 0
AnyOp == Permutations(Ops)
=============================================================================
