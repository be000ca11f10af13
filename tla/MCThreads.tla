----------------------------- MODULE MCThreads -----------------------------
(* A small instance of Threads for TLC: alice asks, bob pays.  Alice's      *)
(* batches spend the notes she was paid.                                    *)
EXTENDS Threads
CONSTANTS alice, bob
Both == {alice, bob}
Asker == {alice}
Payer == {bob}
BobsNote == [u \in Both |-> IF u = bob THEN SetToBag({2}) ELSE EmptyBag]
=============================================================================
