-------------------------- MODULE CliFlushDelivery --------------------------
(***************************************************************************)
(* The inductive invariants behind ConfirmedOnChain, OrderKept,            *)
(* NothingDropped and AtMostOnce.                                          *)
(*                                                                         *)
(* What an outbox says was written by a process that had marked its own    *)
(* copy, so the strengthening speaks of the copies as well, and of what    *)
(* each process still has to do: the messages it has taken and not yet     *)
(* confirmed are pending, in the order they were queued in.  `storage',    *)
(* `unwritten' stand for slot and fresh, before a step or after it.        *)
(***************************************************************************)
EXTENDS CliFlushInvariant

Earlier(m, n) == m < n /\ LaneOf[m] = LaneOf[n]

InOrderOfQueueing(items) == \A i, j \in DOMAIN items : i < j => items[i].msg < items[j].msg

Holds(storage, id, m) == id \in DOMAIN storage /\ storage[id] = m

\* Storage is written once.
Grows(storage, later) == \A id \in DOMAIN storage : Holds(later, id, storage[id])

\* What is written is a prefix of what the user of each home writes.
FreshIsSuffix(unwritten) ==
  \A m \in unwritten, n \in Payloads : m < n /\ MsgHome[m] = MsgHome[n] => n \in unwritten

\* An outbox of home h, saved or in memory: what it says is true, and nothing
\* is sent before an older message to the same lane has left the queue.
BoxOK(storage, unwritten, h, box) ==
  /\ \A m \in Payloads : box[m].status = "confirmed" =>
       Holds(storage, <<LaneOf[m], box[m].index>>, m)
  /\ \A m, n \in Payloads : Earlier(m, n) =>
       /\ box[n].status \notin {"absent", "queued"} => box[m].status # "queued"
       /\ box[m].status = "confirmed" /\ box[n].status = "confirmed"
            => box[m].index < box[n].index
  /\ \A m \in Payloads : box[m].status # "absent" => m \notin unwritten /\ MsgHome[m] = h

\* What a process has taken and not confirmed.
Pending(me) == me.todo \cup Msgs(me.batch) \cup Msgs(me.rest)

TakenOK(unwritten, h, me) ==
  /\ Pending(me) \subseteq me.taken
  /\ \A m \in me.taken : m \notin unwritten /\ MsgHome[m] = h

Accounted(me) ==
  me.pc # "idle" => \A m \in me.taken : m \in Pending(me) \/ me.box[m].status = "confirmed"

\* The current batch and what was cut off from it are the messages to one lane,
\* oldest first.
Arranged(me) ==
  /\ InOrderOfQueueing(me.batch \o me.rest)
  /\ \A m \in Msgs(me.batch) \cup Msgs(me.rest) : LaneOf[m] = me.lane
  /\ me.pc \in {"submit", "await", "reseal"} => \A m \in me.todo : LaneOf[m] # me.lane

\* Nothing was taken, or confirmed, past an older message to the same lane.
OldestTaken(me) ==
  \A m, n \in Payloads : Earlier(m, n) =>
    /\ m \in Pending(me) => me.box[n].status # "confirmed"
    /\ n \in me.taken /\ me.box[m].status = "queued" => m \in me.taken

\* `msg send' has one message and no outbox.
SendsOne(me) ==
  me.cmd = "send" /\ me.pc # "idle" =>
    /\ me.rest = <<>>
    /\ me.pc # "seal" => me.todo = {}
    /\ \E m \in Payloads : me.taken = {m}
    /\ \A m \in Payloads : me.box[m].status = "absent"

\* A batch that has landed is stored where it was sealed for, in order, behind
\* everything that was confirmed before.
LandedOK(storage, me) ==
  me.tx = "landed" =>
    /\ \A k \in DOMAIN me.batch : Holds(storage, <<me.lane, me.batch[k].index>>, me.batch[k].msg)
    /\ Ascending(me.batch)
    /\ \A m \in Payloads, k \in DOMAIN me.batch :
         me.box[m].status = "confirmed" /\ LaneOf[m] = me.lane
           => me.box[m].index < me.batch[k].index

MemoryOK(storage, unwritten, h, me) ==
  /\ BoxOK(storage, unwritten, h, me.box)
  /\ TakenOK(unwritten, h, me)
  /\ Accounted(me)
  /\ Arranged(me)
  /\ OldestTaken(me)
  /\ SendsOne(me)
  /\ LandedOK(storage, me)

DInv ==
  /\ FreshIsSuffix(fresh)
  /\ \A h \in Homes : BoxOK(slot, fresh, h, outbox[h])
  /\ \A p \in Procs : MemoryOK(slot, fresh, HomeOf[p], proc[p])
  /\ \A t \in lost : InOrderOfQueueing(t.batch)

-----------------------------------------------------------------------------
(* At most once, where one command at a time runs over a home: a message   *)
(* that may still be sent is not stored, unless the outcome of one of its  *)
(* transactions went unread.                                               *)

OneCommandPerHome == \A p, q \in Procs : HomeOf[p] = HomeOf[q] => p = q

\* Messages that a landed transaction of the process carries.
Landed(me) == IF me.tx = "landed" THEN Msgs(me.batch) ELSE {}

Unqueued(box, items) == \A m \in Msgs(items) : box[m].status # "queued"

QueuedNotStored(storage, unread, box) ==
  \A m \in Payloads \ unread : box[m].status = "queued" => ~ Stores(storage, m)

\* What a process is about to send is not queued any more in the outbox that
\* the next command of its home will read.
ProcOnce(storage, unread, me, saved) ==
  /\ \A m \in Pending(me) \ (unread \cup Landed(me)) : ~ Stores(storage, m)
  /\ QueuedNotStored(storage, unread, me.box)
  /\ me.pc = "await" => Unqueued(me.box, me.batch) /\ Unqueued(saved, me.batch)
  /\ me.cmd = "send" => \A m \in Pending(me) : saved[m].status = "absent"

OnceInv ==
  /\ \A m \in Payloads \ doubt : StoredOnce(slot, m)
  /\ \A m \in fresh \ doubt : ~ Stores(slot, m)
  /\ \A h \in Homes : QueuedNotStored(slot, doubt, outbox[h])
  /\ \A p \in Procs : ProcOnce(slot, doubt, proc[p], outbox[HomeOf[p]])
  /\ \A t \in lost : Msgs(t.batch) \subseteq doubt
=============================================================================
