------------------------- MODULE WebFlushInvariant -------------------------
(***************************************************************************)
(* The inductive invariants of the web application's send path: one behind *)
(* LaneDense, NeverStuck, NeverLocked and ConfirmedOnChain, and one behind *)
(* AtMostOnce, at the end.                                                 *)
(*                                                                         *)
(* What a batch was sealed at must stay covered while it waits, or is      *)
(* forgotten; and a batch that landed must be stored as it was sealed, for *)
(* its entries to be marked by what the operation remembers.               *)
(***************************************************************************)
EXTENDS WebFlush, LaneDensity

\* Each item is stored where it was sealed (sl is the storage).
HasItems(sl, lane, items) ==
  \A k \in DOMAIN items : /\ <<lane, items[k].index>> \in DOMAIN sl
                          /\ sl[<<lane, items[k].index>>] = items[k].msg

\* What an invocation remembers, under backend `with'.
InvocationOK(sl, with, me) ==
  /\ Covered(DOMAIN sl, me.lane, me.batch)
  /\ \A k \in DOMAIN me.batch : LaneOf[me.batch[k].msg] = me.lane
  /\ me.tx = "landed" /\ me.kind # "plain" => HasItems(sl, me.lane, me.batch)
  /\ with # "wallet" => me.pc \notin {"wallet", "look"}

IInv ==
  /\ TypeOK
  /\ IsFiniteSet(DOMAIN slot)
  /\ LaneDense
  /\ \A o \in Ops : InvocationOK(slot, mode, op[o])
  /\ \A t \in lost : Covered(DOMAIN slot, t.lane, t.batch)
  /\ NeverStuck /\ NeverLocked /\ ConfirmedOnChain

-----------------------------------------------------------------------------
(* At most once.  A message that is not in doubt, and that no two          *)
(* invocations held at a time, is in one place from which it can still be  *)
(* stored, or in none; and it is in none once it is stored.                *)

\* What an invocation is to send, or has sent.
Has(me) == me.todo \cup Msgs(me.batch)

\* What has landed with the transaction it waits for.
Landed(me) == IF me.tx = "landed" THEN Msgs(me.batch) ELSE {}

\* A transaction that nobody waits for carries the message.
Out(m) == \E t \in lost : m \in Msgs(t.batch)

\* Nothing is stored twice, or can still be.
SentOnce(m) ==
  /\ StoredOnce(slot, m)
  /\ m \in fresh => /\ ~ Stores(slot, m) /\ ~ Out(m) /\ outbox[m].status = "absent"
                    /\ \A o \in Ops : m \notin Has(op[o])
  /\ \A o \in Ops : m \in Has(op[o]) =>
       /\ ~ Out(m)
       /\ Stores(slot, m) => m \in Landed(op[o])
       /\ \A q \in Ops : m \in Has(op[q]) => q = o
       /\ op[o].kind # "batch" => outbox[m].status = "absent"
  /\ Out(m) => /\ ~ Stores(slot, m) /\ outbox[m].status \in {"absent", "confirmed"}
               /\ \A t, u \in lost : m \in Msgs(t.batch) /\ m \in Msgs(u.batch) => t = u
  /\ outbox[m].status = "queued" =>
       (~ Stores(slot, m) /\ ~ Out(m)) \/ \E o \in Ops : m \in Held(op[o])

\* The batch of an invocation, and when it has one.
BatchOK(me) ==
  /\ Distinct(me.batch)
  /\ \A m \in me.todo : m \notin Msgs(me.batch)
  /\ me.pc \in {"idle", "walk", "sync"} \/ me.kind = "plain" => me.batch = <<>>
  /\ me.pc = "submit" => me.tx = "none"
  /\ me.pc = "idle" \/ me.kind = "plain" => me.todo = {}

OnceInv ==
  /\ \A m \in Payloads \ (doubt \cup twice) : SentOnce(m)
  /\ \A o \in Ops : BatchOK(op[o])
  /\ \A t \in lost : Distinct(t.batch)
=============================================================================
