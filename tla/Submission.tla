----------------------------- MODULE Submission -----------------------------
(***************************************************************************)
(* What a backend of either application promises to the flush that calls   *)
(* it: a submission is announced at most once, it resolves only when its   *)
(* effect is on the chain (or another writer holds the slot, which a walk  *)
(* of the lane finds again), and it may be rejected at any time, also when *)
(* its effect has been or will be stored.                                  *)
(***************************************************************************)
VARIABLES stage, announced, stored, contested

vars == <<stage, announced, stored, contested>>

Init ==
    /\ stage = "idle"
    /\ ~announced /\ ~stored /\ ~contested

Begin ==
    /\ stage # "working"
    /\ stage' = "working"
    /\ ~announced' /\ ~stored' /\ ~contested'

Announce ==
    /\ stage = "working" /\ ~announced
    /\ announced'
    /\ UNCHANGED <<stage, stored, contested>>

Store ==
    /\ stage # "idle"
    /\ stored'
    /\ UNCHANGED <<stage, announced, contested>>

Contest ==
    /\ stage # "idle" /\ ~stored
    /\ contested'
    /\ UNCHANGED <<stage, announced, stored>>

Resolve ==
    /\ stage = "working" /\ stage' = "resolved"
    /\ announced'
    /\ stored => stored'
    /\ stored' \/ contested
    /\ UNCHANGED contested

Reject ==
    /\ stage = "working" /\ stage' = "rejected"
    /\ UNCHANGED <<announced, stored, contested>>

Next == Begin \/ Announce \/ Store \/ Contest \/ Resolve \/ Reject

Spec == Init /\ [][Next]_vars
=============================================================================
