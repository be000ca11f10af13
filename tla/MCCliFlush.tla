---------------------------- MODULE MCCliFlush ----------------------------
(***************************************************************************)
(* Instances of CliFlush for TLC.                                          *)
(***************************************************************************)
EXTENDS CliFlushInvariant, TLC

CONSTANTS h1, h2, p1, p2, lane1

\* Two homes, one command at a time each, that write the same lane: two
\* devices of one user, or the two ends of a key shared by hand.
DevicesHomeOf == (p1 :> h1) @@ (p2 :> h2)
DevicesMsgHome == [m \in Payloads |-> IF m = 3 THEN h2 ELSE h1]
DevicesLaneOf == [m \in Payloads |-> lane1]

EmptyCiphertext == 0
=============================================================================
