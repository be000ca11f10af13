------------------------------ MODULE LaneLog ------------------------------
(***************************************************************************)
(* What the helper contract and its writers promise a reader of a lane: an *)
(* append-only log without gaps.  A reader who stops at the first empty    *)
(* slot has seen every message there is, in the order in which they        *)
(* landed; nothing he has read is ever replaced.  A transaction appends    *)
(* all of its messages, to one lane, or none of them, and appends no       *)
(* message twice.                                                          *)
(***************************************************************************)
EXTENDS Naturals, Sequences

CONSTANTS Lanes, Payloads

VARIABLE log      \* log[l] : the messages of lane l, by slot index

LogInit == log = [l \in Lanes |-> <<>>]

Appended(old, new) == SubSeq(new, Len(old) + 1, Len(new))

Land(l) ==
  /\ log'[l] \in Seq(Payloads)
  /\ Len(log'[l]) > Len(log[l])
  /\ SubSeq(log'[l], 1, Len(log[l])) = log[l]
  /\ LET batch == Appended(log[l], log'[l])
     IN  \A i, j \in DOMAIN batch : i # j => batch[i] # batch[j]
  /\ log' = [log EXCEPT ![l] = log'[l]]

LogNext == \E l \in Lanes : Land(l)

LogSpec == LogInit /\ [][LogNext]_log
=============================================================================
