------------------------------ MODULE WebFlush ------------------------------
(***************************************************************************)
(* The web application's send path: sendBatch, payments, shielding and     *)
(* registration, which share one progress bar (`flush') and, with other    *)
(* devices, the lanes.  One tab; it runs on one thread, and an operation   *)
(* in progress is suspended at its awaits, so several can be under way.    *)
(*                                                                         *)
(* A step is the code between two awaits.  The buttons that start an       *)
(* operation are offered only while the bar is not busy, which is no       *)
(* weaker than the store's own guards.  "encrypting" is set and left       *)
(* within one step.                                                        *)
(*                                                                         *)
(* Left out: bodies, amounts, balances, the setup of a channel, and the    *)
(* history (a sync that succeeds or fails).  Entries without a lane are    *)
(* not modelled.  Bound: MaxRuns operations are started.                   *)
(***************************************************************************)
EXTENDS Outbox

CONSTANTS
  Ops,            \* invocations
  NoOp,
  Outgoing,       \* messages the user queues
  Memos,          \* messages that ride with a payment
  Foreign,        \* messages another device writes
  LaneOf,         \* LaneOf[m] : the lane of message m
  Modes,          \* backends to choose from: "demo", "direct", "pool", "wallet"
  MaxRuns         \* bound: operations started

ASSUME WebPayloadsAssumption ==
  /\ Payloads \subseteq Nat /\ IsFiniteSet(Payloads) /\ Lanes # {}
  /\ Outgoing \subseteq Payloads /\ Memos \subseteq Payloads /\ Foreign \subseteq Payloads
  /\ LaneOf \in [Payloads -> Lanes]
ASSUME WebAssumption ==
  /\ NoOp \notin Ops
  /\ Modes \subseteq {"demo", "direct", "pool", "wallet"} /\ MaxRuns \in Nat

VARIABLES
  mode,           \* which backend
  outbox,         \* the outbox, in memory and in local storage
  phase,          \* flush.phase
  flushAbort,     \* the operation whose AbortController is the current one
  op,             \* the invocations in progress
  fresh,          \* messages not written yet
  lost,           \* transactions that no operation awaits any more
  doubt,          \* messages of transactions whose outcome went unread
  twice,          \* messages that two invocations of sendBatch held at a time
  runs            \* operations started so far

vars == <<slot, mode, outbox, phase, flushAbort, op, fresh, lost, doubt, twice, runs>>

-----------------------------------------------------------------------------
(* Operations.                                                             *)

Phase == {"idle", "proving", "submitted", "confirmed", "failed"}
Busy == {"proving", "submitted"}

Tx == [lane : Lanes, batch : Seq(Item)]

\* "batch": sendBatch; "pay": pay and payGroup; "plain": shield, registerSelf.
\* `submit': up to the broadcast; `wallet': the wallet has been asked; `look':
\* its answer was a time-out; `await': for the receipt; `sync': in syncNow.
Invocation == [pc : {"idle", "walk", "submit", "wallet", "look", "await", "sync"},
               kind : {"batch", "pay", "plain"},
               todo : SUBSET Payloads,      \* taken, lane not reached yet
               lane : Lanes,
               batch : Seq(Item),
               aborted : BOOLEAN,           \* signal.aborted
               tx : {"none", "landed", "reverted"}]

NotRunning == [pc |-> "idle", kind |-> "batch", todo |-> {}, lane |-> CHOOSE l \in Lanes : TRUE,
               batch |-> <<>>, aborted |-> FALSE, tx |-> "none"]

Init ==
  /\ SlotInit
  /\ mode \in Modes
  /\ outbox = [m \in Payloads |-> Absent]
  /\ phase = "idle"
  /\ flushAbort = NoOp
  /\ op = [o \in Ops |-> NotRunning]
  /\ fresh = Payloads
  /\ lost = {} /\ doubt = {} /\ twice = {}
  /\ runs = 0

Becomes(o, me) == op' = [op EXCEPT ![o] = me]

\* Entries are marked by sendBatch only.
MarkBatch(o, status) ==
  outbox' = IF op[o].kind = "batch" THEN Mark(outbox, op[o].batch, status) ELSE outbox

TheTx(me) == [lane |-> me.lane, batch |-> me.batch]
Call(t) == Calldata(t.lane, t.batch)
Held(me) == IF me.kind = "batch" THEN me.todo \cup Msgs(me.batch) ELSE {}

-----------------------------------------------------------------------------
(* Starting.                                                               *)

Compose(m) ==
  /\ m \in fresh \cap Outgoing
  /\ \A n \in fresh \cap Outgoing : m <= n
  /\ outbox' = [outbox EXCEPT ![m] = Queued]
  /\ fresh' = fresh \ {m}
  /\ UNCHANGED <<slot, mode, phase, flushAbort, op, lost, doubt, twice, runs>>

Start(o) ==
  /\ op[o].pc = "idle"
  /\ phase \notin Busy
  /\ runs < MaxRuns
  /\ runs' = runs + 1
  /\ UNCHANGED <<slot, mode, outbox, lost, doubt>>

\* sendBatch: it takes what is queued, and walks.
StartBatch(o) ==
  LET taken == Take(outbox, Cardinality(Payloads)) IN
  /\ Start(o)
  /\ taken # {}
  /\ Becomes(o, [NotRunning EXCEPT !.pc = "walk", !.todo = taken])
  /\ twice' = twice \cup UNION {taken \cap Held(op[q]) : q \in Ops}
  /\ flushAbort' = o
  /\ UNCHANGED <<phase, fresh>>

\* pay, payGroup: a memo goes with the transfer, past the outbox.
StartPay(o) ==
  /\ Start(o)
  /\ mode # "direct"
  /\ \E m \in fresh \cap Memos :
       /\ Becomes(o, [NotRunning EXCEPT !.pc = "walk", !.kind = "pay", !.todo = {m}])
       /\ fresh' = fresh \ {m}
  /\ UNCHANGED <<phase, flushAbort, twice>>

\* shield, registerSelf: no message and no walk.
StartPlain(o) ==
  /\ Start(o)
  /\ mode # "direct"
  /\ Becomes(o, [NotRunning EXCEPT !.pc = "submit", !.kind = "plain"])
  /\ phase' = "proving"
  /\ UNCHANGED <<flushAbort, fresh, twice>>

\* cancelFlush, offered by the demo: it reaches the operation started last.
CancelFlush ==
  /\ mode = "demo" /\ phase = "proving" /\ flushAbort # NoOp
  /\ op' = [op EXCEPT ![flushAbort].aborted = TRUE]
  /\ UNCHANGED <<slot, mode, outbox, phase, flushAbort, fresh, lost, doubt, twice, runs>>

-----------------------------------------------------------------------------
(* Sealing and submitting.                                                 *)

\* The walk answers; the messages of the lane are sealed and marked.
SealLane(o) ==
  LET me == op[o] IN
  /\ me.pc = "walk"
  /\ \E first \in Oldest(me.todo) :
       LET lane == LaneOf[first]
           entries == {m \in me.todo : LaneOf[m] = lane}
       IN  \E msgs \in OldestFirst(entries), start \in NextFree(lane, 0) :
             LET batch == Sealed(msgs, start)
             IN  /\ Becomes(o, [me EXCEPT !.pc = "submit", !.todo = @ \ entries, !.tx = "none",
                                          !.lane = lane, !.batch = batch])
                 /\ outbox' = IF me.kind = "batch" THEN Mark(outbox, batch, "proving") ELSE outbox
  /\ phase' = "proving"
  /\ UNCHANGED <<slot, mode, flushAbort, fresh, lost, doubt, twice, runs>>

\* Proved and broadcast.  Direct mode estimates first; the demo's delay ends
\* here unless it was cancelled.
Broadcast(o) ==
  /\ op[o].pc = "submit" /\ mode # "wallet"
  /\ mode = "direct" => Accepts(Pool, Call(TheTx(op[o])))
  /\ mode = "demo" => ~ op[o].aborted
  /\ Becomes(o, [op[o] EXCEPT !.pc = "await"])
  /\ phase' = "submitted"
  /\ MarkBatch(o, "submitted")
  /\ UNCHANGED <<slot, mode, flushAbort, fresh, lost, doubt, twice, runs>>

\* The wallet is asked; it proves, and submits without saying so.
AskWallet(o) ==
  /\ op[o].pc = "submit" /\ mode = "wallet"
  /\ Becomes(o, [op[o] EXCEPT !.pc = "wallet"])
  /\ phase' = "proving"
  /\ MarkBatch(o, "proving")
  /\ UNCHANGED <<slot, mode, flushAbort, fresh, lost, doubt, twice, runs>>

\* The wallet answers: with a hash, or that it timed out.
WalletAnswers(o) ==
  /\ op[o].pc = "wallet"
  /\ \/ Becomes(o, [op[o] EXCEPT !.pc = "await"])
     \/ op[o].kind # "plain" /\ Becomes(o, [op[o] EXCEPT !.pc = "look"])
  /\ phase' = "submitted"
  /\ MarkBatch(o, "submitted")
  /\ UNCHANGED <<slot, mode, flushAbort, fresh, lost, doubt, twice, runs>>

\* Where a transaction of the operation may be out.
MayBeOut(me) == me.pc \in {"wallet", "look", "await"} /\ me.tx = "none"

\* The network executes it.
Include(o) ==
  LET me == op[o]
      accepted == me.kind = "plain" \/ Accepts(Pool, Call(TheTx(me)))
  IN
  /\ MayBeOut(me)
  /\ IF me.kind = "plain" THEN UNCHANGED slot ELSE PrivacyInvoke(Pool, Call(TheTx(me)))
  /\ Becomes(o, [me EXCEPT !.tx = IF accepted THEN "landed" ELSE "reverted"])
  /\ UNCHANGED <<mode, outbox, phase, flushAbort, fresh, lost, doubt, twice, runs>>

\* The account or the pool refuses it, or it runs out of gas; the demo refuses
\* a payment for which its notes do not suffice.
RevertsOutside(o) ==
  /\ MayBeOut(op[o])
  /\ mode = "demo" => op[o].kind = "pay"
  /\ Becomes(o, [op[o] EXCEPT !.tx = "reverted"])
  /\ UNCHANGED <<slot, mode, outbox, phase, flushAbort, fresh, lost, doubt, twice, runs>>

-----------------------------------------------------------------------------
(* Success.                                                                *)

\* A copy of Succeeded that takes any receipt for a success.
SucceededAnyReceipt(o) == op[o].pc = "await" /\ op[o].tx # "none"

\* A receipt that says the transaction succeeded.
Succeeded(o) == op[o].pc = "await" /\ op[o].tx = "landed"

\* waitForSlots: something is stored in each slot the batch was sealed for.
SlotsSeen(o) ==
  /\ op[o].pc \in {"wallet", "look"}
  /\ \A k \in DOMAIN op[o].batch : Occupied(op[o].lane, op[o].batch[k].index)
  /\ op[o].batch # <<>>

\* finally: the controller is dropped, whoever it belongs to.
AbortAfter(o) == IF op[o].kind = "batch" THEN NoOp ELSE flushAbort

Confirm(o) ==
  LET me == op[o] IN
  /\ Succeeded(o) \/ SlotsSeen(o)
  /\ outbox' = IF me.kind = "batch" THEN MarkConfirmed(outbox, me.batch) ELSE outbox
  /\ phase' = "confirmed"
  /\ Becomes(o, IF me.kind = "plain" THEN NotRunning
                ELSE [me EXCEPT !.pc = "sync", !.batch = <<>>, !.tx = "none"])
  /\ lost' = IF me.tx = "none" THEN lost \cup {TheTx(me)} ELSE lost
  /\ UNCHANGED <<slot, mode, flushAbort, fresh, doubt, twice, runs>>

\* syncNow returns: the next lane, or the end.
Synced(o) ==
  /\ op[o].pc = "sync"
  /\ IF op[o].todo # {}
       THEN Becomes(o, [op[o] EXCEPT !.pc = "walk"]) /\ UNCHANGED flushAbort
       ELSE Becomes(o, NotRunning) /\ flushAbort' = AbortAfter(o)
  /\ UNCHANGED <<slot, mode, outbox, phase, fresh, lost, doubt, twice, runs>>

-----------------------------------------------------------------------------
(* Failure: the catch blocks.                                              *)

\* Copies of Requeued: one leaves what was submitted, one re-queues the whole
\* outbox; and a copy of FailedPhase that leaves the bar as it is.
RequeuedProving(box) ==
  [m \in Payloads |-> IF box[m].status = "proving" THEN [box[m] EXCEPT !.status = "queued"]
                                                   ELSE box[m]]
RequeuedAll(box) ==
  [m \in Payloads |-> IF box[m].status # "absent" THEN [box[m] EXCEPT !.status = "queued"]
                                                  ELSE box[m]]
FailedPhaseKept(me) == phase

\* A failed batch re-queues every entry in flight, whose ever it is.
Requeued(box) ==
  [m \in Payloads |-> IF box[m].status \in {"proving", "submitted"}
                        THEN [box[m] EXCEPT !.status = "queued"]
                        ELSE box[m]]

FailedPhase(me) == IF me.aborted /\ me.pc = "submit" THEN "idle" ELSE "failed"

Catch(o) ==
  /\ outbox' = IF op[o].kind = "batch" THEN Requeued(outbox) ELSE outbox
  /\ phase' = FailedPhase(op[o])
  /\ flushAbort' = AbortAfter(o)
  /\ Becomes(o, NotRunning)
  /\ UNCHANGED <<slot, mode, fresh, twice, runs>>

\* The transaction was not made (the wallet's user refuses it, for one), or its
\* receipt says that it reverted; a walk or a sync fails.  The demo fails only
\* when cancelled or on a conflict.
Fails(o) ==
  /\ \/ op[o].pc \in {"walk", "submit", "sync"} /\ mode # "demo"
     \/ op[o].pc = "submit" /\ mode = "demo" /\ op[o].aborted
     \/ op[o].pc = "wallet" /\ op[o].tx = "none"
     \/ op[o].pc = "await" /\ op[o].tx = "reverted"
  /\ Catch(o)
  /\ UNCHANGED <<lost, doubt>>

\* An answer is lost, or does not come in time: of the broadcast, of the wait
\* for the receipt, of the wallet.  The transaction may land all the same.
Unanswered(o) ==
  LET me == op[o] IN
  /\ mode # "demo"
  /\ me.pc \in {"submit", "wallet", "look", "await"}
  /\ me.pc = "submit" => mode # "wallet"
  /\ Catch(o)
  /\ lost' = IF me.tx = "none" /\ me.kind # "plain" THEN lost \cup {TheTx(me)} ELSE lost
  /\ doubt' = doubt \cup Msgs(me.batch)

-----------------------------------------------------------------------------
(* The surroundings.                                                       *)

IncludeLost(t) ==
  /\ t \in lost
  /\ PrivacyInvoke(Pool, Call(t))
  /\ lost' = lost \ {t}
  /\ UNCHANGED <<mode, outbox, phase, flushAbort, op, fresh, doubt, twice, runs>>

\* Another device of the user, or the command line client, writes to the lane.
Elsewhere(m) ==
  /\ m \in fresh \cap Foreign
  /\ \E i \in NextFree(LaneOf[m], 0) :
       PrivacyInvoke(Pool, Calldata(LaneOf[m], Sealed(<<m>>, i)))
  /\ fresh' = fresh \ {m}
  /\ UNCHANGED <<mode, outbox, phase, flushAbort, op, lost, doubt, twice, runs>>

Advance(o) ==
  \/ SealLane(o) \/ Broadcast(o) \/ AskWallet(o) \/ WalletAnswers(o)
  \/ Include(o) \/ RevertsOutside(o) \/ Confirm(o) \/ Synced(o)
  \/ Fails(o) \/ Unanswered(o)

Next ==
  \/ \E m \in Payloads : Compose(m) \/ Elsewhere(m)
  \/ \E o \in Ops : StartBatch(o) \/ StartPay(o) \/ StartPlain(o)
  \/ \E o \in Ops : Advance(o)
  \/ CancelFlush
  \/ \E t \in lost : IncludeLost(t)

Spec == Init /\ [][Next]_vars

-----------------------------------------------------------------------------
(* Properties.                                                             *)

\* Every variable has its type, and a controller belongs to a sendBatch that
\* is still running: a cancel is never addressed to one that has ended.
TypeOK ==
  /\ DOMAIN slot \subseteq MsgId
  /\ \A id \in DOMAIN slot : slot[id] \in Payloads
  /\ mode \in Modes
  /\ outbox \in [Payloads -> Entry]
  /\ phase \in Phase
  /\ op \in [Ops -> Invocation]
  /\ fresh \subseteq Payloads /\ lost \subseteq Tx
  /\ doubt \subseteq Payloads /\ twice \subseteq Payloads
  /\ runs \in 0 .. MaxRuns
  /\ flushAbort # NoOp =>
       flushAbort \in Ops /\ op[flushAbort].pc # "idle" /\ op[flushAbort].kind = "batch"

InFlight(me) == me.pc \in {"submit", "wallet", "look", "await"}
Carries(me, m) == me.kind = "batch" /\ InFlight(me) /\ m \in Msgs(me.batch)

\* No entry is stuck in "proving" or "submitted": it is in the batch of a
\* sendBatch that is still waiting for an outcome, although one that fails
\* re-queues the entries of all of them and late answers mark them again.
NeverStuck ==
  \A m \in Payloads :
    outbox[m].status \in {"proving", "submitted"} => \E o \in Ops : Carries(op[o], m)

\* The bar is busy, which keeps every button from being pressed, only while an
\* operation is waiting for an outcome: the application never locks up.
NeverLocked == phase \in Busy => \E o \in Ops : InFlight(op[o])

\* Outside wallet mode a confirmed entry's message is stored under the index
\* the entry names, though overlapping batches mark the same entries.
ConfirmedOnChain ==
  mode # "wallet" =>
    \A m \in Payloads : outbox[m].status = "confirmed" =>
      LET id == <<LaneOf[m], outbox[m].index>>
      IN  id \in DOMAIN slot /\ slot[id] = m

\* A message is stored twice only if the outcome of one of its transactions
\* went unread, or two invocations of sendBatch held it at the same time.
AtMostOnce ==
  \A m \in Payloads \ (doubt \cup twice) :
    Cardinality({id \in DOMAIN slot : slot[id] = m}) <= 1
=============================================================================
