--------------------------- MODULE WebFlushProofs ---------------------------
(***************************************************************************)
(* Proofs about the web application's send path, for any number of         *)
(* operations, lanes and messages and any choice of backends: lanes stay   *)
(* dense, nothing is stuck or locked, "confirmed" is true, a message that  *)
(* is not in doubt is stored at most once, and the lanes implement the     *)
(* append-only logs of LaneLog.                                            *)
(***************************************************************************)
EXTENDS WebFlushInvariant, LaneProofs

-----------------------------------------------------------------------------
(* The invariant by parts.                                                 *)

OpsOK == /\ op \in [Ops -> Invocation]
         /\ \A o \in Ops : InvocationOK(slot, mode, op[o])
LostOK == /\ lost \subseteq Tx
          /\ \A t \in lost : Covered(DOMAIN slot, t.lane, t.batch)
PlainOK == /\ mode \in Modes /\ outbox \in [Payloads -> Entry] /\ phase \in Phase
           /\ fresh \subseteq Payloads /\ doubt \subseteq Payloads /\ twice \subseteq Payloads
           /\ runs \in 0 .. MaxRuns
ControllerOK == flushAbort # NoOp => /\ flushAbort \in Ops
                                     /\ op[flushAbort].pc # "idle"
                                     /\ op[flushAbort].kind = "batch"

LEMMA Parts ==
  IInv <=> /\ ChainOK /\ OpsOK /\ LostOK /\ PlainOK /\ ControllerOK
           /\ NeverStuck /\ NeverLocked /\ ConfirmedOnChain
BY DEF IInv, TypeOK, ChainOK, OpsOK, LostOK, PlainOK, ControllerOK

LEMMA PartsNext ==
  /\ ChainOK' /\ OpsOK' /\ LostOK' /\ PlainOK' /\ ControllerOK'
  /\ NeverStuck' /\ NeverLocked' /\ ConfirmedOnChain'
  => IInv'
BY DEF IInv, TypeOK, ChainOK, OpsOK, LostOK, PlainOK, ControllerOK

-----------------------------------------------------------------------------
(* What a step must do to keep each part.                                  *)

\* Storage only grows.
Grew == /\ DOMAIN slot \subseteq DOMAIN slot'
        /\ \A id \in DOMAIN slot : slot'[id] = slot[id]

\* What an invocation remembers stays true when storage grows.
LEMMA InvocationGrows ==
  ASSUME NEW sl, NEW later, DOMAIN sl \subseteq DOMAIN later,
         \A id \in DOMAIN sl : later[id] = sl[id],
         NEW with, NEW me, InvocationOK(sl, with, me)
  PROVE  InvocationOK(later, with, me)
<1>1. Covered(DOMAIN later, me.lane, me.batch)
  BY CoveredGrows DEF InvocationOK
<1>2. HasItems(sl, me.lane, me.batch) => HasItems(later, me.lane, me.batch)
  BY DEF HasItems
<1>3. QED
  BY <1>1, <1>2 DEF InvocationOK

\* One invocation goes on with a memory that is right; the others do not move.
LEMMA OpBecomes ==
  ASSUME OpsOK, Grew, mode' = mode, NEW o \in Ops, NEW me \in Invocation,
         Becomes(o, me), InvocationOK(slot', mode, me)
  PROVE  OpsOK'
<1>1. op' \in [Ops -> Invocation]
  BY DEF OpsOK, Becomes
<1>2. ASSUME NEW q \in Ops
      PROVE  InvocationOK(slot', mode', op'[q])
  <2>1. CASE q = o
    BY <2>1 DEF OpsOK, Becomes
  <2>2. CASE q # o
    <3>1. op'[q] = op[q] /\ InvocationOK(slot, mode, op[q])
      BY <2>2 DEF OpsOK, Becomes
    <3>2. QED
      BY <3>1, InvocationGrows DEF Grew
  <2>3. QED
    BY <2>1, <2>2
<1>3. QED
  BY <1>1, <1>2 DEF OpsOK

LEMMA OpsSame ==
  ASSUME OpsOK, Grew, UNCHANGED <<mode, op>>
  PROVE  OpsOK'
BY InvocationGrows DEF OpsOK, Grew

LEMMA LostGrows ==
  ASSUME LostOK, Grew, lost' \subseteq lost
  PROVE  LostOK'
BY CoveredGrows DEF LostOK, Grew

\* An entry in flight is carried by the invocation that moves, or it was in
\* flight already and not carried by it.
LEMMA StuckStep ==
  ASSUME OpsOK, NeverStuck, NEW o \in Ops, NEW me \in Invocation, Becomes(o, me),
         \A m \in Payloads : outbox'[m].status \in {"proving", "submitted"} =>
           \/ Carries(me, m)
           \/ outbox[m].status \in {"proving", "submitted"} /\ ~ Carries(op[o], m)
  PROVE  NeverStuck'
<1> SUFFICES ASSUME NEW m \in Payloads, outbox'[m].status \in {"proving", "submitted"}
             PROVE  \E q \in Ops : Carries(op'[q], m)
  BY DEF NeverStuck, Carries, InFlight
<1>1. op'[o] = me /\ \A q \in Ops : q # o => op'[q] = op[q]
  BY DEF OpsOK, Becomes
<1>2. CASE Carries(me, m)
  BY <1>1, <1>2
<1>3. CASE outbox[m].status \in {"proving", "submitted"} /\ ~ Carries(op[o], m)
  <2>1. PICK q \in Ops : Carries(op[q], m)
    BY <1>3 DEF NeverStuck
  <2>2. QED
    BY <1>1, <1>3, <2>1
<1>4. QED
  BY <1>2, <1>3

\* Likewise for the bar.
LEMMA LockedStep ==
  ASSUME OpsOK, NeverLocked, NEW o \in Ops, NEW me \in Invocation, Becomes(o, me),
         phase' \in Busy => InFlight(me) \/ (phase \in Busy /\ ~ InFlight(op[o]))
  PROVE  NeverLocked'
<1>1. op'[o] = me /\ \A q \in Ops : q # o => op'[q] = op[q]
  BY DEF OpsOK, Becomes
<1>2. CASE InFlight(me)
  BY <1>1, <1>2 DEF NeverLocked, InFlight
<1>3. CASE phase \in Busy /\ ~ InFlight(op[o])
  <2>1. PICK q \in Ops : InFlight(op[q])
    BY <1>3 DEF NeverLocked
  <2>2. op'[q] = op[q]
    BY <1>1, <1>3, <2>1
  <2>3. QED
    BY <2>1, <2>2 DEF NeverLocked, InFlight
<1>4. QED
  BY <1>2, <1>3 DEF NeverLocked, Busy

LEMMA ControllerStep ==
  ASSUME OpsOK, ControllerOK, NEW o \in Ops, NEW me \in Invocation, Becomes(o, me),
         \/ flushAbort' = NoOp
         \/ flushAbort' = o /\ me.pc # "idle" /\ me.kind = "batch"
         \/ flushAbort' = flushAbort /\ (flushAbort = o => me.pc # "idle" /\ me.kind = "batch")
  PROVE  ControllerOK'
BY DEF OpsOK, ControllerOK, Becomes

\* No entry becomes confirmed.
LEMMA ConfirmedKept ==
  ASSUME ConfirmedOnChain, Grew, mode' = mode,
         \A m \in Payloads : outbox'[m].status = "confirmed" => outbox'[m] = outbox[m]
  PROVE  ConfirmedOnChain'
BY DEF ConfirmedOnChain, Grew

LEMMA Surroundings ==
  ASSUME ChainOK, UNCHANGED slot
  PROVE  ChainOK' /\ Grew
BY ChainSame DEF Grew

LEMMA NotRunningOK ==
  /\ NotRunning \in Invocation
  /\ \A sl, with : InvocationOK(sl, with, NotRunning)
<1>1. (CHOOSE l \in Lanes : TRUE) \in Lanes
  BY WebPayloadsAssumption
<1>2. NotRunning \in Invocation
  BY <1>1 DEF NotRunning, Invocation
<1>3. QED
  BY <1>2 DEF InvocationOK, NotRunning, Covered

\* A transaction that may land makes storage grow, and keeps it dense.
LEMMA InvokeGrows ==
  ASSUME ChainOK, NEW lane \in Lanes, NEW items \in Seq(Item),
         Covered(DOMAIN slot, lane, items), PrivacyInvoke(Pool, Calldata(lane, items))
  PROVE  /\ ChainOK' /\ Grew
         /\ Accepts(Pool, Calldata(lane, items)) => HasItems(slot', lane, items)
<1>1. CASE Accepts(Pool, Calldata(lane, items))
  <2>1. Store(Calldata(lane, items))
    BY <1>1 DEF PrivacyInvoke
  <2>2. ChainOK' /\ Grew /\ Stored(DOMAIN slot', lane, items)
    BY <1>1, <2>1, LandDense, StoreProperty DEF Grew
  <2>3. QED
    BY <1>1, <2>1, <2>2, StoredItems DEF HasItems, Stored
<1>2. CASE ~ Accepts(Pool, Calldata(lane, items))
  BY <1>2, Surroundings DEF PrivacyInvoke
<1>3. QED
  BY <1>1, <1>2

-----------------------------------------------------------------------------
(* Steps that move one invocation from one await to another.               *)

\* A step that changes nothing but what is known of a transaction, or a signal.
LEMMA TouchStep ==
  ASSUME IInv, ChainOK', Grew, NEW o \in Ops, NEW me \in Invocation, Becomes(o, me),
         me.pc = op[o].pc, me.kind = op[o].kind, me.batch = op[o].batch,
         InvocationOK(slot', mode, me),
         UNCHANGED <<mode, outbox, phase, flushAbort, fresh, lost, doubt, twice, runs>>
  PROVE  IInv'
<1>1. \A m : Carries(me, m) <=> Carries(op[o], m)
  BY DEF Carries, InFlight
<1>2. NeverStuck'
  BY <1>1, Parts, StuckStep
<1>3. NeverLocked'
  BY Parts, LockedStep DEF InFlight
<1>4. ControllerOK'
  <2>1. flushAbort = o /\ flushAbort # NoOp => me.pc # "idle" /\ me.kind = "batch"
    BY Parts DEF ControllerOK
  <2>2. o # NoOp
    BY WebAssumption
  <2>3. QED
    BY <2>1, <2>2, Parts, ControllerStep
<1>5. OpsOK' /\ LostOK' /\ ConfirmedOnChain'
  BY Parts, OpBecomes, LostGrows, ConfirmedKept
<1>6. PlainOK'
  BY Parts DEF PlainOK
<1>7. QED
  BY <1>2, <1>3, <1>4, <1>5, <1>6, PartsNext

LEMMA CancelFlushStep ==
  ASSUME IInv, CancelFlush
  PROVE  IInv'
<1> DEFINE o == flushAbort
           me == [op[o] EXCEPT !.aborted = TRUE]
<1>1. o \in Ops /\ Becomes(o, me)
  BY Parts DEF CancelFlush, ControllerOK, Becomes
<1>2. op[o] \in Invocation /\ InvocationOK(slot, mode, op[o])
  BY <1>1, Parts DEF OpsOK
<1>3. /\ me \in Invocation
      /\ me.pc = op[o].pc /\ me.kind = op[o].kind /\ me.batch = op[o].batch
      /\ me.lane = op[o].lane /\ me.tx = op[o].tx
  BY <1>2 DEF Invocation
<1>4. ChainOK' /\ Grew /\ slot' = slot
  BY Parts, Surroundings DEF CancelFlush
<1> HIDE DEF me
<1>5. InvocationOK(slot', mode, me)
  BY <1>2, <1>3, <1>4 DEF InvocationOK
<1>6. UNCHANGED <<mode, outbox, phase, flushAbort, fresh, lost, doubt, twice, runs>>
  BY DEF CancelFlush
<1> HIDE DEF o
<1>7. QED
  BY <1>1, <1>3, <1>4, <1>5, <1>6, TouchStep

LEMMA IncludeStep ==
  ASSUME IInv, NEW o \in Ops, Include(o)
  PROVE  IInv'
<1> DEFINE items == Calldata(op[o].lane, op[o].batch)
           accepted == op[o].kind = "plain" \/ Accepts(Pool, items)
           me == [op[o] EXCEPT !.tx = IF accepted THEN "landed" ELSE "reverted"]
<1>1. /\ IF op[o].kind = "plain" THEN UNCHANGED slot ELSE PrivacyInvoke(Pool, items)
      /\ Becomes(o, me)
      /\ UNCHANGED <<mode, outbox, phase, flushAbort, fresh, lost, doubt, twice, runs>>
  BY DEF Include, Call, TheTx
<1>2. op[o] \in Invocation /\ InvocationOK(slot, mode, op[o])
  BY Parts DEF OpsOK
<1>3. op[o].lane \in Lanes /\ op[o].batch \in Seq(Item)
  BY <1>2 DEF Invocation
<1>4. /\ me \in Invocation
      /\ me.pc = op[o].pc /\ me.kind = op[o].kind /\ me.batch = op[o].batch
      /\ me.lane = op[o].lane
      /\ me.tx = "landed" => accepted
  BY <1>2 DEF Invocation
<1>5. /\ ChainOK' /\ Grew
      /\ me.tx = "landed" /\ me.kind # "plain" => HasItems(slot', me.lane, me.batch)
  <2>1. CASE op[o].kind = "plain"
    BY <1>1, <1>4, <2>1, Parts, Surroundings
  <2>2. CASE op[o].kind # "plain"
    <3>1. Covered(DOMAIN slot, op[o].lane, op[o].batch) /\ PrivacyInvoke(Pool, items)
      BY <1>1, <1>2, <2>2 DEF InvocationOK
    <3>2. ChainOK' /\ Grew /\ (Accepts(Pool, items) => HasItems(slot', op[o].lane, op[o].batch))
      BY <1>3, <3>1, Parts, InvokeGrows
    <3>3. QED
      BY <1>4, <2>2, <3>2
  <2>3. QED
    BY <2>1, <2>2
<1>6. InvocationOK(slot', mode, op[o])
  BY <1>2, <1>5, InvocationGrows DEF Grew
<1> HIDE DEF me
<1>7. InvocationOK(slot', mode, me)
  BY <1>4, <1>5, <1>6 DEF InvocationOK
<1>8. QED
  BY <1>1, <1>4, <1>5, <1>7, TouchStep

LEMMA RevertsOutsideStep ==
  ASSUME IInv, NEW o \in Ops, RevertsOutside(o)
  PROVE  IInv'
<1> DEFINE me == [op[o] EXCEPT !.tx = "reverted"]
<1>1. /\ Becomes(o, me) /\ slot' = slot
      /\ UNCHANGED <<mode, outbox, phase, flushAbort, fresh, lost, doubt, twice, runs>>
  BY DEF RevertsOutside
<1>2. op[o] \in Invocation /\ InvocationOK(slot, mode, op[o])
  BY Parts DEF OpsOK
<1>3. /\ me \in Invocation
      /\ me.pc = op[o].pc /\ me.kind = op[o].kind /\ me.batch = op[o].batch
      /\ me.lane = op[o].lane /\ me.tx # "landed"
  BY <1>2 DEF Invocation
<1>4. ChainOK' /\ Grew
  BY <1>1, Parts, Surroundings
<1> HIDE DEF me
<1>5. InvocationOK(slot', mode, me)
  BY <1>1, <1>2, <1>3 DEF InvocationOK
<1>6. QED
  BY <1>1, <1>3, <1>4, <1>5, TouchStep

\* A submission goes from one of its awaits to the next, and its entries and
\* the bar are marked.
LEMMA MoveOnStep ==
  ASSUME IInv, NEW o \in Ops, InFlight(op[o]), NEW pc \in {"wallet", "look", "await"},
         Becomes(o, [op[o] EXCEPT !.pc = pc]), mode # "wallet" => pc = "await",
         NEW status \in {"proving", "submitted"}, phase' = status, MarkBatch(o, status),
         UNCHANGED <<slot, mode, flushAbort, fresh, lost, doubt, twice, runs>>
  PROVE  IInv'
<1> DEFINE me == [op[o] EXCEPT !.pc = pc]
<1>1. op[o] \in Invocation /\ InvocationOK(slot, mode, op[o])
  BY Parts DEF OpsOK
<1>2. /\ me \in Invocation
      /\ me.pc = pc /\ me.kind = op[o].kind /\ me.batch = op[o].batch
      /\ me.lane = op[o].lane /\ me.tx = op[o].tx
  BY <1>1 DEF Invocation
<1>3. ChainOK' /\ Grew
  BY Parts, Surroundings
<1> HIDE DEF me
<1>4. InvocationOK(slot', mode, me)
  BY <1>1, <1>2 DEF InvocationOK
<1>5. InFlight(me)
  BY <1>2 DEF InFlight
<1>6. \A m \in Payloads : \/ outbox'[m] = outbox[m]
                          \/ Carries(me, m) /\ outbox'[m].status = status
  BY <1>2, <1>5, Parts DEF MarkBatch, Mark, Carries, PlainOK
<1>7. NeverStuck'
  <2>1. \A m \in Payloads : Carries(op[o], m) => Carries(me, m)
    BY <1>2, <1>5 DEF Carries
  <2>2. QED
    BY <1>2, <1>6, <2>1, Parts, StuckStep DEF me
<1>8. NeverLocked'
  BY <1>2, <1>5, Parts, LockedStep DEF me
<1>9. ControllerOK'
  <2>1. me.pc # "idle" /\ (flushAbort = o => me.kind = "batch")
    BY <1>2, Parts, WebAssumption DEF ControllerOK
  <2>2. QED
    BY <1>2, <2>1, Parts, ControllerStep DEF me
<1>10. OpsOK' /\ LostOK'
  BY <1>2, <1>3, <1>4, Parts, OpBecomes, LostGrows DEF me
<1>11. ConfirmedOnChain'
  <2>1. \A m \in Payloads : outbox'[m].status = "confirmed" => outbox'[m] = outbox[m]
    BY <1>6
  <2>2. QED
    BY <1>3, <2>1, Parts, ConfirmedKept
<1>12. PlainOK'
  <2>1. outbox' \in [Payloads -> Entry]
    BY Parts, MarkType DEF PlainOK, MarkBatch, Status
  <2>2. QED
    BY <2>1, Parts DEF PlainOK, Phase
<1>13. QED
  BY <1>3, <1>7, <1>8, <1>9, <1>10, <1>11, <1>12, PartsNext

LEMMA SubmissionSteps ==
  ASSUME IInv, NEW o \in Ops, Broadcast(o) \/ AskWallet(o) \/ WalletAnswers(o)
  PROVE  IInv'
<1>1. CASE Broadcast(o)
  BY <1>1, MoveOnStep DEF Broadcast, InFlight
<1>2. CASE AskWallet(o)
  BY <1>2, MoveOnStep DEF AskWallet, InFlight
<1>3. CASE WalletAnswers(o)
  <2>1. mode = "wallet"
    BY <1>3, Parts DEF WalletAnswers, OpsOK, InvocationOK
  <2>2. PICK pc \in {"look", "await"} : Becomes(o, [op[o] EXCEPT !.pc = pc])
    BY <1>3 DEF WalletAnswers
  <2>3. QED
    BY <1>3, <2>1, <2>2, MoveOnStep DEF WalletAnswers, InFlight
<1>4. QED
  BY <1>1, <1>2, <1>3

-----------------------------------------------------------------------------
(* Starting.                                                               *)

LEMMA ComposeStep ==
  ASSUME IInv, NEW m \in Payloads, Compose(m)
  PROVE  IInv'
<1>1. /\ outbox' = [outbox EXCEPT ![m] = Queued] /\ fresh' = fresh \ {m}
      /\ UNCHANGED <<slot, mode, phase, flushAbort, op, lost, doubt, twice, runs>>
  BY DEF Compose
<1>2. Queued \in Entry /\ Queued.status = "queued"
  BY DEF Queued, Entry, Status
<1>3. ChainOK' /\ Grew
  BY <1>1, Parts, Surroundings
<1>4. \A n \in Payloads : outbox'[n] = outbox[n] \/ outbox'[n].status = "queued"
  BY <1>1, <1>2, Parts DEF PlainOK
<1>5. NeverStuck'
  BY <1>1, <1>4, Parts DEF NeverStuck, Carries, InFlight
<1>6. NeverLocked' /\ ControllerOK'
  BY <1>1, Parts DEF NeverLocked, InFlight, Busy, ControllerOK
<1>7. ConfirmedOnChain'
  <2>1. \A n \in Payloads : outbox'[n].status = "confirmed" => outbox'[n] = outbox[n]
    BY <1>4
  <2>2. QED
    BY <1>1, <1>3, <2>1, Parts, ConfirmedKept
<1>8. OpsOK' /\ LostOK'
  BY <1>1, <1>3, Parts, OpsSame, LostGrows
<1>9. PlainOK'
  BY <1>1, <1>2, Parts DEF PlainOK
<1>10. QED
  BY <1>3, <1>5, <1>6, <1>7, <1>8, <1>9, PartsNext

\* An invocation starts with nothing sealed.
LEMMA StartStep ==
  ASSUME IInv, NEW o \in Ops, Start(o), NEW me \in Invocation, Becomes(o, me),
         me.pc \in {"walk", "submit"}, me.batch = <<>>, me.tx = "none",
         phase' = phase \/ (phase' = "proving" /\ me.pc = "submit"),
         flushAbort' = flushAbort \/ (flushAbort' = o /\ me.kind = "batch"),
         fresh' \subseteq fresh, twice' \subseteq Payloads
  PROVE  IInv'
<1>1. /\ op[o].pc = "idle" /\ runs < MaxRuns /\ runs' = runs + 1
      /\ UNCHANGED <<slot, mode, outbox, lost, doubt>>
  BY DEF Start
<1>2. ChainOK' /\ Grew
  BY <1>1, Parts, Surroundings
<1>3. InvocationOK(slot', mode, me)
  BY DEF InvocationOK, Covered, HasItems
<1>4. NeverStuck'
  <2>1. \A m : ~ Carries(op[o], m)
    BY <1>1 DEF Carries, InFlight
  <2>2. QED
    BY <1>1, <2>1, Parts, StuckStep
<1>5. NeverLocked'
  BY <1>1, Parts, LockedStep DEF InFlight
<1>6. ControllerOK'
  <2>1. flushAbort = o => flushAbort = NoOp
    BY <1>1, Parts DEF ControllerOK
  <2>2. QED
    BY <2>1, WebAssumption, Parts, ControllerStep
<1>7. OpsOK' /\ LostOK' /\ ConfirmedOnChain'
  BY <1>1, <1>2, <1>3, Parts, OpBecomes, LostGrows, ConfirmedKept
<1>8. PlainOK'
  BY <1>1, WebAssumption, Parts DEF PlainOK, Phase
<1>9. QED
  BY <1>2, <1>4, <1>5, <1>6, <1>7, <1>8, PartsNext

LEMMA StartSteps ==
  ASSUME IInv, NEW o \in Ops, StartBatch(o) \/ StartPay(o) \/ StartPlain(o)
  PROVE  IInv'
<1>1. NotRunning \in Invocation /\ NotRunning.batch = <<>> /\ NotRunning.tx = "none"
      /\ NotRunning.kind = "batch"
  BY NotRunningOK DEF NotRunning
<1>2. Start(o)
  BY DEF StartBatch, StartPay, StartPlain
<1>3. CASE StartBatch(o)
  <2> DEFINE taken == Take(outbox, Cardinality(Payloads))
             me == [NotRunning EXCEPT !.pc = "walk", !.todo = taken]
  <2>1. /\ Becomes(o, me)
        /\ twice' = twice \cup UNION {taken \cap Held(op[q]) : q \in Ops}
        /\ flushAbort' = o /\ UNCHANGED <<phase, fresh>>
    BY <1>3 DEF StartBatch
  <2>2. taken \subseteq Payloads
    BY DEF Take
  <2> HIDE DEF taken
  <2>3. /\ me \in Invocation /\ me.pc = "walk" /\ me.batch = <<>>
        /\ me.tx = "none" /\ me.kind = "batch"
    BY <1>1, <2>2 DEF Invocation
  <2>4. twice' \subseteq Payloads
    BY <2>1, <2>2, Parts DEF PlainOK
  <2> HIDE DEF me
  <2>5. QED
    BY <1>2, <2>1, <2>3, <2>4, StartStep
<1>4. CASE StartPay(o)
  <2>1. PICK m \in fresh \cap Memos :
          /\ Becomes(o, [NotRunning EXCEPT !.pc = "walk", !.kind = "pay", !.todo = {m}])
          /\ fresh' = fresh \ {m}
    BY <1>4 DEF StartPay
  <2> DEFINE me == [NotRunning EXCEPT !.pc = "walk", !.kind = "pay", !.todo = {m}]
  <2>2. {m} \subseteq Payloads
    BY WebPayloadsAssumption
  <2>3. /\ me \in Invocation /\ me.pc = "walk" /\ me.batch = <<>> /\ me.tx = "none"
    BY <1>1, <2>2 DEF Invocation
  <2>4. UNCHANGED <<phase, flushAbort, twice>> /\ twice \subseteq Payloads
    BY <1>4, Parts DEF StartPay, PlainOK
  <2> HIDE DEF me
  <2>5. QED
    BY <1>2, <2>1, <2>3, <2>4, StartStep DEF me
<1>5. CASE StartPlain(o)
  <2> DEFINE me == [NotRunning EXCEPT !.pc = "submit", !.kind = "plain"]
  <2>1. /\ Becomes(o, me) /\ phase' = "proving"
        /\ UNCHANGED <<flushAbort, fresh, twice>> /\ twice \subseteq Payloads
    BY <1>5, Parts DEF StartPlain, PlainOK
  <2>2. me \in Invocation /\ me.pc = "submit" /\ me.batch = <<>> /\ me.tx = "none"
    BY <1>1 DEF Invocation
  <2> HIDE DEF me
  <2>3. QED
    BY <1>2, <2>1, <2>2, StartStep
<1>6. QED
  BY <1>3, <1>4, <1>5

-----------------------------------------------------------------------------
(* Sealing.                                                                *)

LEMMA SealLaneStep ==
  ASSUME IInv, NEW o \in Ops, SealLane(o)
  PROVE  IInv'
<1>1. op[o] \in Invocation /\ InvocationOK(slot, mode, op[o]) /\ op[o].pc = "walk"
  BY Parts DEF OpsOK, SealLane
<1>2. PICK first \in Oldest(op[o].todo) :
        LET lane == LaneOf[first]
            entries == {m \in op[o].todo : LaneOf[m] = lane}
        IN  \E msgs \in OldestFirst(entries), start \in NextFree(lane, 0) :
              LET batch == Sealed(msgs, start)
              IN  /\ Becomes(o, [op[o] EXCEPT !.pc = "submit", !.todo = @ \ entries,
                                              !.tx = "none", !.lane = lane, !.batch = batch])
                  /\ outbox' = IF op[o].kind = "batch" THEN Mark(outbox, batch, "proving")
                                                       ELSE outbox
  BY DEF SealLane
<1> DEFINE lane == LaneOf[first]
           entries == {m \in op[o].todo : LaneOf[m] = lane}
<1>3. PICK msgs \in OldestFirst(entries), start \in NextFree(lane, 0) :
        /\ Becomes(o, [op[o] EXCEPT !.pc = "submit", !.todo = @ \ entries, !.tx = "none",
                                    !.lane = lane, !.batch = Sealed(msgs, start)])
        /\ outbox' = IF op[o].kind = "batch" THEN Mark(outbox, Sealed(msgs, start), "proving")
                                             ELSE outbox
  BY <1>2
<1> DEFINE batch == Sealed(msgs, start)
           me == [op[o] EXCEPT !.pc = "submit", !.todo = @ \ entries, !.tx = "none",
                               !.lane = lane, !.batch = batch]
<1>4. first \in op[o].todo /\ op[o].todo \subseteq Payloads /\ lane \in Lanes
  BY <1>1, WebPayloadsAssumption DEF Oldest, Invocation
<1>5. /\ msgs \in Seq(Payloads)
      /\ \A k \in DOMAIN msgs : LaneOf[msgs[k]] = lane
  <2>1. entries \in SUBSET Payloads /\ entries # {}
    BY <1>4
  <2>2. msgs \in Seq(Payloads) /\ \A k \in DOMAIN msgs : msgs[k] \in entries
    BY <2>1, WebPayloadsAssumption, OldestFirstProperty
  <2>3. QED
    BY <2>2
<1>6. start \in Nat /\ Reaches(DOMAIN slot, lane, start)
  BY <1>4, Parts, WalkProperty DEF ChainOK, Reaches
<1> HIDE DEF lane
<1>7. /\ batch \in Seq(Item) /\ Covered(DOMAIN slot, lane, batch)
      /\ \A k \in DOMAIN batch : LaneOf[batch[k].msg] = lane
  <2>1. batch \in Seq(Item) /\ Covered(DOMAIN slot, lane, batch)
    BY <1>4, <1>5, <1>6, SealedProperty
  <2>2. DOMAIN batch = DOMAIN msgs /\ \A k \in DOMAIN msgs : batch[k].msg = msgs[k]
    BY DEF Sealed
  <2>3. QED
    BY <1>5, <2>1, <2>2
<1> HIDE DEF entries, batch
<1>8. /\ me \in Invocation
      /\ me.pc = "submit" /\ me.tx = "none" /\ me.lane = lane /\ me.batch = batch
      /\ me.kind = op[o].kind
  BY <1>1, <1>4, <1>7 DEF Invocation
<1>9. /\ Becomes(o, me) /\ phase' = "proving"
      /\ outbox' = IF op[o].kind = "batch" THEN Mark(outbox, batch, "proving") ELSE outbox
      /\ UNCHANGED <<slot, mode, flushAbort, fresh, lost, doubt, twice, runs>>
  BY <1>3 DEF SealLane, batch
<1> HIDE DEF me
<1>10. ChainOK' /\ Grew
  BY <1>9, Parts, Surroundings
<1>11. InvocationOK(slot', mode, me)
  BY <1>7, <1>8, <1>9 DEF InvocationOK
<1>12. \A m \in Payloads : \/ outbox'[m] = outbox[m]
                           \/ Carries(me, m) /\ outbox'[m].status = "proving"
  BY <1>8, <1>9, Parts DEF Mark, Carries, InFlight, PlainOK
<1>13. NeverStuck'
  <2>1. \A m : ~ Carries(op[o], m)
    BY <1>1 DEF Carries, InFlight
  <2>2. QED
    BY <1>8, <1>9, <1>12, <2>1, Parts, StuckStep
<1>14. NeverLocked'
  BY <1>8, <1>9, Parts, LockedStep DEF InFlight
<1>15. ControllerOK'
  <2>1. me.pc # "idle" /\ (flushAbort = o => me.kind = "batch")
    BY <1>8, Parts, WebAssumption DEF ControllerOK
  <2>2. QED
    BY <1>8, <1>9, <2>1, Parts, ControllerStep
<1>16. OpsOK' /\ LostOK'
  BY <1>8, <1>9, <1>10, <1>11, Parts, OpBecomes, LostGrows
<1>17. ConfirmedOnChain'
  <2>1. \A m \in Payloads : outbox'[m].status = "confirmed" => outbox'[m] = outbox[m]
    BY <1>12
  <2>2. QED
    BY <1>9, <1>10, <2>1, Parts, ConfirmedKept
<1>18. PlainOK'
  <2>1. outbox' \in [Payloads -> Entry]
    BY <1>9, Parts, MarkType DEF PlainOK, Status
  <2>2. QED
    BY <1>9, <2>1, Parts DEF PlainOK, Phase
<1>19. QED
  BY <1>10, <1>13, <1>14, <1>15, <1>16, <1>17, <1>18, PartsNext

-----------------------------------------------------------------------------
(* Success.                                                                *)

\* What an operation in flight lets go of may land later.
LEMMA LetGo ==
  ASSUME IInv, NEW o \in Ops, UNCHANGED slot,
         lost' = lost \/ lost' = lost \cup {TheTx(op[o])}
  PROVE  LostOK'
<1>1. op[o] \in Invocation /\ InvocationOK(slot, mode, op[o])
  BY Parts DEF OpsOK
<1>2. TheTx(op[o]) \in Tx
  BY <1>1 DEF TheTx, Tx, Invocation
<1>3. Covered(DOMAIN slot, TheTx(op[o]).lane, TheTx(op[o]).batch)
  BY <1>1 DEF TheTx, InvocationOK
<1>4. QED
  BY <1>2, <1>3, Parts DEF LostOK

LEMMA ConfirmStep ==
  ASSUME IInv, NEW o \in Ops, Confirm(o)
  PROVE  IInv'
<1> DEFINE me == IF op[o].kind = "plain" THEN NotRunning
                 ELSE [op[o] EXCEPT !.pc = "sync", !.batch = <<>>, !.tx = "none"]
<1>1. /\ Succeeded(o) \/ SlotsSeen(o)
      /\ outbox' = IF op[o].kind = "batch" THEN MarkConfirmed(outbox, op[o].batch) ELSE outbox
      /\ phase' = "confirmed" /\ Becomes(o, me)
      /\ lost' = lost \/ lost' = lost \cup {TheTx(op[o])}
      /\ UNCHANGED <<slot, mode, flushAbort, fresh, doubt, twice, runs>>
  BY DEF Confirm
<1>2. op[o] \in Invocation /\ InvocationOK(slot, mode, op[o])
  BY Parts DEF OpsOK
<1>3. /\ me \in Invocation
      /\ op[o].kind # "plain" => /\ me.pc = "sync" /\ me.kind = op[o].kind
                                 /\ me.batch = <<>> /\ me.tx = "none"
      /\ op[o].kind = "plain" => me = NotRunning
  <2> DEFINE synced == [op[o] EXCEPT !.pc = "sync", !.batch = <<>>, !.tx = "none"]
  <2>1. /\ synced \in Invocation
        /\ synced.pc = "sync" /\ synced.kind = op[o].kind
        /\ synced.batch = <<>> /\ synced.tx = "none"
    <3> DEFINE none == <<>>
               after == [op[o] EXCEPT !.pc = "sync", !.batch = none, !.tx = "none"]
    <3>1. none \in Seq(Item)
      OBVIOUS
    <3> HIDE DEF none
    <3>2. /\ after \in Invocation
          /\ after.pc = "sync" /\ after.kind = op[o].kind
          /\ after.batch = none /\ after.tx = "none"
      BY <1>2, <3>1 DEF Invocation
    <3>3. QED
      BY <3>2 DEF none
  <2> HIDE DEF synced
  <2>2. me = IF op[o].kind = "plain" THEN NotRunning ELSE synced
    BY DEF synced
  <2>3. QED
    BY <2>1, <2>2, NotRunningOK
<1> HIDE DEF me
<1>4. ChainOK' /\ Grew
  BY <1>1, Parts, Surroundings
<1>5. InvocationOK(slot', mode, me)
  <2>1. CASE op[o].kind = "plain"
    BY <1>3, <2>1, NotRunningOK
  <2>2. CASE op[o].kind # "plain"
    BY <1>3, <2>2 DEF InvocationOK, Covered
  <2>3. QED
    BY <2>1, <2>2
<1>6. \A m \in Payloads : \/ outbox'[m] = outbox[m] /\ ~ Carries(op[o], m)
                          \/ outbox'[m].status = "confirmed"
  BY <1>1, Parts DEF MarkConfirmed, Carries, PlainOK
<1>7. NeverStuck'
  BY <1>1, <1>3, <1>6, Parts, StuckStep
<1>8. NeverLocked'
  BY <1>1, <1>3, Parts, LockedStep DEF Busy
<1>9. ControllerOK'
  <2>1. flushAbort = o => me.pc # "idle" /\ me.kind = "batch"
    BY <1>3, Parts, WebAssumption DEF ControllerOK
  <2>2. QED
    BY <1>1, <1>3, <2>1, Parts, ControllerStep
<1>10. OpsOK' /\ LostOK'
  BY <1>1, <1>3, <1>4, <1>5, Parts, OpBecomes, LetGo
<1>11. ConfirmedOnChain'
  <2> SUFFICES ASSUME mode # "wallet", NEW m \in Payloads, outbox'[m].status = "confirmed"
               PROVE  LET id == <<LaneOf[m], outbox'[m].index>>
                      IN  id \in DOMAIN slot' /\ slot'[id] = m
    BY <1>1 DEF ConfirmedOnChain
  <2>1. CASE outbox'[m] = outbox[m]
    BY <1>1, <2>1, Parts DEF ConfirmedOnChain
  <2>2. CASE outbox'[m] # outbox[m]
    <3>1. /\ op[o].kind = "batch" /\ m \in Msgs(op[o].batch)
          /\ outbox'[m].index = IndexOf(op[o].batch, m)
      BY <1>1, <2>2, Parts DEF MarkConfirmed, PlainOK
    <3>2. op[o].tx = "landed"
      BY <1>1, <1>2 DEF Succeeded, SlotsSeen, InvocationOK
    <3>3. HasItems(slot, op[o].lane, op[o].batch)
      BY <1>2, <3>1, <3>2 DEF InvocationOK
    <3>4. op[o].batch \in Seq(Item)
      BY <1>2 DEF Invocation
    <3>5. PICK k \in DOMAIN op[o].batch :
            op[o].batch[k].msg = m /\ op[o].batch[k].index = IndexOf(op[o].batch, m)
      BY <3>1, <3>4, IndexOfProperty
    <3>6. LaneOf[m] = op[o].lane
      BY <1>2, <3>5 DEF InvocationOK
    <3>7. QED
      BY <1>1, <3>1, <3>3, <3>5, <3>6 DEF HasItems
  <2>3. QED
    BY <2>1, <2>2
<1>12. PlainOK'
  <2>1. op[o].batch \in Seq(Item)
    BY <1>2 DEF Invocation
  <2>2. outbox' \in [Payloads -> Entry]
    BY <1>1, <2>1, Parts, MarkConfirmedType DEF PlainOK
  <2>3. QED
    BY <1>1, <2>2, Parts DEF PlainOK, Phase
<1>13. QED
  BY <1>4, <1>7, <1>8, <1>9, <1>10, <1>11, <1>12, PartsNext

LEMMA SyncedStep ==
  ASSUME IInv, NEW o \in Ops, Synced(o)
  PROVE  IInv'
<1>1. /\ op[o].pc = "sync"
      /\ UNCHANGED <<slot, mode, outbox, phase, fresh, lost, doubt, twice, runs>>
  BY DEF Synced
<1>2. op[o] \in Invocation /\ InvocationOK(slot, mode, op[o])
  BY Parts DEF OpsOK
<1>3. PICK me \in Invocation :
        /\ Becomes(o, me) /\ InvocationOK(slot, mode, me)
        /\ \/ flushAbort' = NoOp
           \/ flushAbort' = flushAbort /\ (flushAbort = o => me.pc # "idle" /\ me.kind = "batch")
  <2>1. CASE op[o].todo # {}
    <3> DEFINE me == [op[o] EXCEPT !.pc = "walk"]
    <3>1. Becomes(o, me) /\ flushAbort' = flushAbort
      BY <2>1 DEF Synced
    <3>2. /\ me \in Invocation /\ me.pc = "walk" /\ me.kind = op[o].kind
          /\ me.batch = op[o].batch /\ me.lane = op[o].lane /\ me.tx = op[o].tx
      BY <1>2 DEF Invocation
    <3> HIDE DEF me
    <3>3. InvocationOK(slot, mode, me)
      BY <1>2, <3>2 DEF InvocationOK
    <3>4. flushAbort = o => me.kind = "batch"
      BY <3>2, Parts, WebAssumption DEF ControllerOK
    <3>5. QED
      BY <3>1, <3>2, <3>3, <3>4
  <2>2. CASE op[o].todo = {}
    <3>1. Becomes(o, NotRunning) /\ flushAbort' = AbortAfter(o)
      BY <2>2 DEF Synced
    <3>2. \/ flushAbort' = NoOp
          \/ flushAbort' = flushAbort /\ flushAbort # o
      BY <3>1, Parts, WebAssumption DEF AbortAfter, ControllerOK
    <3>3. QED
      BY <3>1, <3>2, NotRunningOK
  <2>3. QED
    BY <2>1, <2>2
<1>4. ChainOK' /\ Grew
  BY <1>1, Parts, Surroundings
<1>5. ~ InFlight(op[o]) /\ \A m : ~ Carries(op[o], m)
  BY <1>1 DEF InFlight, Carries
<1>6. NeverStuck'
  BY <1>1, <1>3, <1>5, Parts, StuckStep
<1>7. NeverLocked'
  BY <1>1, <1>3, <1>5, Parts, LockedStep
<1>8. ControllerOK'
  BY <1>3, Parts, ControllerStep
<1>9. OpsOK' /\ LostOK' /\ ConfirmedOnChain'
  BY <1>1, <1>3, <1>4, Parts, OpBecomes, LostGrows, ConfirmedKept
<1>10. PlainOK'
  BY <1>1, Parts DEF PlainOK
<1>11. QED
  BY <1>4, <1>6, <1>7, <1>8, <1>9, <1>10, PartsNext

-----------------------------------------------------------------------------
(* Failure.                                                                *)

LEMMA CatchStep ==
  ASSUME IInv, NEW o \in Ops, Catch(o),
         lost' = lost \/ lost' = lost \cup {TheTx(op[o])},
         doubt' = doubt \/ doubt' = doubt \cup Msgs(op[o].batch)
  PROVE  IInv'
<1>1. /\ outbox' = IF op[o].kind = "batch" THEN Requeued(outbox) ELSE outbox
      /\ phase' = FailedPhase(op[o]) /\ flushAbort' = AbortAfter(o)
      /\ Becomes(o, NotRunning)
      /\ UNCHANGED <<slot, mode, fresh, twice, runs>>
  BY DEF Catch
<1>2. phase' \in {"idle", "failed"}
  BY <1>1 DEF FailedPhase
<1>3. ChainOK' /\ Grew
  BY <1>1, Parts, Surroundings
<1>4. \A m \in Payloads :
        \/ outbox'[m] = outbox[m] /\ ~ (op[o].kind = "batch" /\ outbox[m].status \in
                                          {"proving", "submitted"})
        \/ outbox'[m].status = "queued"
  BY <1>1, Parts DEF Requeued, PlainOK
<1>5. NeverStuck'
  BY <1>1, <1>4, Parts, NotRunningOK, StuckStep DEF Carries
<1>6. NeverLocked'
  BY <1>1, <1>2, Parts, NotRunningOK, LockedStep DEF Busy
<1>7. ControllerOK'
  <2>1. \/ flushAbort' = NoOp
        \/ flushAbort' = flushAbort /\ flushAbort # o
    BY <1>1, Parts, WebAssumption DEF AbortAfter, ControllerOK
  <2>2. QED
    BY <1>1, <2>1, Parts, NotRunningOK, ControllerStep
<1>8. OpsOK' /\ LostOK'
  BY <1>1, <1>3, Parts, NotRunningOK, OpBecomes, LetGo
<1>9. ConfirmedOnChain'
  <2>1. \A m \in Payloads : outbox'[m].status = "confirmed" => outbox'[m] = outbox[m]
    BY <1>4
  <2>2. QED
    BY <1>1, <1>3, <2>1, Parts, ConfirmedKept
<1>10. PlainOK'
  <2>1. Requeued(outbox) \in [Payloads -> Entry]
    BY Parts DEF Requeued, PlainOK, Entry, Status
  <2>2. Msgs(op[o].batch) \subseteq Payloads
    BY Parts, ItemFacts DEF OpsOK, Invocation, Msgs
  <2>3. QED
    BY <1>1, <1>2, <2>1, <2>2, Parts DEF PlainOK, Phase
<1>11. QED
  BY <1>3, <1>5, <1>6, <1>7, <1>8, <1>9, <1>10, PartsNext

LEMMA FailureSteps ==
  ASSUME IInv, NEW o \in Ops, Fails(o) \/ Unanswered(o)
  PROVE  IInv'
BY CatchStep DEF Fails, Unanswered

-----------------------------------------------------------------------------
(* The surroundings.                                                       *)

\* A transaction of nobody in this tab.
LEMMA OutsideStep ==
  ASSUME IInv, NEW lane \in Lanes, NEW items \in Seq(Item),
         Covered(DOMAIN slot, lane, items), PrivacyInvoke(Pool, Calldata(lane, items)),
         lost' \subseteq lost, fresh' \subseteq fresh,
         UNCHANGED <<mode, outbox, phase, flushAbort, op, doubt, twice, runs>>
  PROVE  IInv'
<1>1. ChainOK' /\ Grew
  BY Parts, InvokeGrows
<1>2. OpsOK' /\ LostOK' /\ ConfirmedOnChain'
  BY <1>1, Parts, OpsSame, LostGrows, ConfirmedKept
<1>3. PlainOK' /\ ControllerOK'
  BY Parts DEF PlainOK, ControllerOK
<1>4. NeverStuck' /\ NeverLocked'
  BY Parts DEF NeverStuck, NeverLocked, Carries, InFlight, Busy
<1>5. QED
  BY <1>1, <1>2, <1>3, <1>4, PartsNext

LEMMA SurroundingSteps ==
  ASSUME IInv, (\E t \in lost : IncludeLost(t)) \/ (\E m \in Payloads : Elsewhere(m))
  PROVE  IInv'
<1>1. CASE \E t \in lost : IncludeLost(t)
  <2>1. PICK t \in lost : IncludeLost(t)
    BY <1>1
  <2>2. t.lane \in Lanes /\ t.batch \in Seq(Item) /\ Covered(DOMAIN slot, t.lane, t.batch)
    BY Parts DEF LostOK, Tx
  <2>3. QED
    BY <2>1, <2>2, OutsideStep DEF IncludeLost, Call
<1>2. CASE \E m \in Payloads : Elsewhere(m)
  <2>1. PICK m \in Payloads : Elsewhere(m)
    BY <1>2
  <2>2. PICK i \in NextFree(LaneOf[m], 0) :
          PrivacyInvoke(Pool, Calldata(LaneOf[m], Sealed(<<m>>, i)))
    BY <2>1 DEF Elsewhere
  <2>3. LaneOf[m] \in Lanes /\ <<m>> \in Seq(Payloads)
    BY WebPayloadsAssumption
  <2>4. i \in Nat /\ Reaches(DOMAIN slot, LaneOf[m], i)
    BY <2>3, Parts, WalkProperty DEF ChainOK, Reaches
  <2>5. /\ Sealed(<<m>>, i) \in Seq(Item)
        /\ Covered(DOMAIN slot, LaneOf[m], Sealed(<<m>>, i))
    BY <2>3, <2>4, SealedProperty
  <2>6. /\ fresh' \subseteq fresh /\ lost' \subseteq lost
        /\ UNCHANGED <<mode, outbox, phase, flushAbort, op, doubt, twice, runs>>
    BY <2>1 DEF Elsewhere
  <2>7. QED
    BY <2>2, <2>3, <2>5, <2>6, OutsideStep
<1>3. QED
  BY <1>1, <1>2

-----------------------------------------------------------------------------
(* The theorems.                                                           *)

LEMMA InitInvariant == Init => IInv
<1> SUFFICES ASSUME Init
             PROVE  IInv
  OBVIOUS
<1>1. DOMAIN slot = {}
  BY DEF Init, SlotInit
<1>2. ChainOK
  BY <1>1, FS_EmptySet DEF ChainOK, LaneDense
<1>3. OpsOK
  BY NotRunningOK DEF Init, OpsOK
<1>4. LostOK /\ ControllerOK
  BY DEF Init, LostOK, ControllerOK
<1>5. Absent \in Entry /\ Absent.status = "absent"
  BY DEF Absent, Entry, Status
<1>6. PlainOK
  BY <1>5, WebAssumption DEF Init, PlainOK, Phase
<1>7. NeverStuck /\ NeverLocked /\ ConfirmedOnChain
  BY <1>5 DEF Init, NeverStuck, NeverLocked, Busy, ConfirmedOnChain
<1>8. QED
  BY <1>2, <1>3, <1>4, <1>6, <1>7, Parts

LEMMA NextInvariant == IInv /\ [Next]_vars => IInv'
<1> SUFFICES ASSUME IInv, [Next]_vars
             PROVE  IInv'
  OBVIOUS
<1>1. CASE \E m \in Payloads : Compose(m)
  BY <1>1, ComposeStep
<1>2. CASE \E o \in Ops : StartBatch(o) \/ StartPay(o) \/ StartPlain(o)
  BY <1>2, StartSteps
<1>3. CASE \E o \in Ops : Advance(o)
  <2>1. PICK o \in Ops : Advance(o)
    BY <1>3
  <2>2. CASE SealLane(o)
    BY <2>2, SealLaneStep
  <2>3. CASE Broadcast(o) \/ AskWallet(o) \/ WalletAnswers(o)
    BY <2>3, SubmissionSteps
  <2>4. CASE Include(o)
    BY <2>4, IncludeStep
  <2>5. CASE RevertsOutside(o)
    BY <2>5, RevertsOutsideStep
  <2>6. CASE Confirm(o)
    BY <2>6, ConfirmStep
  <2>7. CASE Synced(o)
    BY <2>7, SyncedStep
  <2>8. CASE Fails(o) \/ Unanswered(o)
    BY <2>8, FailureSteps
  <2>9. QED
    BY <2>1, <2>2, <2>3, <2>4, <2>5, <2>6, <2>7, <2>8 DEF Advance
<1>4. CASE CancelFlush
  BY <1>4, CancelFlushStep
<1>5. CASE (\E t \in lost : IncludeLost(t)) \/ (\E m \in Payloads : Elsewhere(m))
  BY <1>5, SurroundingSteps
<1>6. CASE UNCHANGED vars
  <2>1. ChainOK' /\ Grew
    BY <1>6, Parts, Surroundings DEF vars
  <2>2. OpsOK' /\ LostOK' /\ ConfirmedOnChain'
    BY <1>6, <2>1, Parts, OpsSame, LostGrows, ConfirmedKept DEF vars
  <2>3. PlainOK' /\ ControllerOK'
    BY <1>6, Parts DEF vars, PlainOK, ControllerOK
  <2>4. NeverStuck' /\ NeverLocked'
    BY <1>6, Parts DEF vars, NeverStuck, NeverLocked, Carries, InFlight, Busy
  <2>5. QED
    BY <2>1, <2>2, <2>3, <2>4, PartsNext
<1>7. QED
  BY <1>1, <1>2, <1>3, <1>4, <1>5, <1>6 DEF Next

\* The inductive invariant of the web application's send path (sendBatch, pay,
\* shield, registerSelf, cancelFlush), for every choice of the constants.
THEOREM Invariant == Spec => []IInv
<1>1. QED
  BY InitInvariant, NextInvariant, PTL DEF Spec

\* Every variable has its type, and a controller belongs to a running batch.
THEOREM TypeCorrect == Spec => []TypeOK
<1>1. IInv => TypeOK
  BY DEF IInv
<1>2. QED
  BY <1>1, Invariant, PTL

\* No batch of the web application, late or lost, leaves a gap in a lane.
THEOREM LanesStayDense == Spec => []LaneDense
<1>1. IInv => LaneDense
  BY DEF IInv
<1>2. QED
  BY <1>1, Invariant, PTL

\* No entry stays in "proving" or "submitted" without a batch that carries it
\* (the catch block of sendBatch, and the callbacks that mark again).
THEOREM NothingIsStuck == Spec => []NeverStuck
<1>1. IInv => NeverStuck
  BY DEF IInv
<1>2. QED
  BY <1>1, Invariant, PTL

\* The bar is busy only while an operation waits for an outcome.
THEOREM NothingIsLocked == Spec => []NeverLocked
<1>1. IInv => NeverLocked
  BY DEF IInv
<1>2. QED
  BY <1>1, Invariant, PTL

\* Outside wallet mode a confirmed entry is stored where it says.
THEOREM ConfirmedIsTrue == Spec => []ConfirmedOnChain
<1>1. IInv => ConfirmedOnChain
  BY DEF IInv
<1>2. QED
  BY <1>1, Invariant, PTL

-----------------------------------------------------------------------------
(* At most once.                                                           *)

\* A message goes nowhere new: it is not stored again, no invocation and no
\* transaction takes it up, and only what an invocation holds is marked.
LEMMA MessageStep ==
  ASSUME NEW m \in Payloads, SentOnce(m),
         m \in fresh' => m \in fresh,
         Stores(slot', m) => Stores(slot, m),
         StoredOnce(slot, m) => StoredOnce(slot', m),
         \A q \in Ops : m \in Has(op'[q]) =>
           /\ m \in Has(op[q]) /\ op'[q].kind = op[q].kind
           /\ m \in Landed(op[q]) => m \in Landed(op'[q]),
         \A t \in lost' : m \in Msgs(t.batch) => t \in lost,
         outbox'[m].status = outbox[m].status \/ \E q \in Ops : m \in Held(op[q]),
         outbox'[m].status = "queued" =>
           \A q \in Ops : m \in Held(op[q]) => m \in Held(op'[q]) \/ ~ Stores(slot, m)
  PROVE  SentOnce(m)'
<1>1. \A q \in Ops : m \in Held(op[q]) => m \in Has(op[q]) /\ op[q].kind = "batch"
  BY DEF Held, Has
<1>2. Out(m)' => Out(m)
  BY DEF Out
<1>3. m \in fresh' => /\ ~ Stores(slot', m) /\ ~ Out(m)' /\ outbox'[m].status = "absent"
                      /\ \A q \in Ops : m \notin Has(op'[q])
  BY <1>1, <1>2 DEF SentOnce
<1>4. ASSUME NEW o \in Ops, m \in Has(op'[o])
      PROVE  /\ ~ Out(m)'
             /\ Stores(slot', m) => m \in Landed(op'[o])
             /\ \A q \in Ops : m \in Has(op'[q]) => q = o
             /\ op'[o].kind # "batch" => outbox'[m].status = "absent"
  BY <1>1, <1>2, <1>4 DEF SentOnce
<1>5. Out(m)' => /\ ~ Stores(slot', m) /\ outbox'[m].status \in {"absent", "confirmed"}
                 /\ \A t, u \in lost' : m \in Msgs(t.batch) /\ m \in Msgs(u.batch) => t = u
  BY <1>1, <1>2 DEF SentOnce
<1>6. outbox'[m].status = "queued" =>
        (~ Stores(slot', m) /\ ~ Out(m)') \/ \E q \in Ops : m \in Held(op'[q])
  BY <1>1, <1>2 DEF SentOnce
<1>7. StoredOnce(slot', m)
  BY DEF SentOnce
<1>8. QED
  BY <1>3, <1>4, <1>5, <1>6, <1>7 DEF SentOnce

\* The same when one invocation moves, or none.
LEMMA MessageMoves ==
  ASSUME IInv, NEW m \in Payloads, SentOnce(m), NEW o \in Ops, NEW me, Becomes(o, me),
         m \in fresh' => m \in fresh,
         Stores(slot', m) => Stores(slot, m),
         StoredOnce(slot, m) => StoredOnce(slot', m),
         m \in Has(me) => /\ m \in Has(op[o]) /\ me.kind = op[o].kind
                          /\ m \in Landed(op[o]) => m \in Landed(me),
         \A t \in lost' : m \in Msgs(t.batch) => t \in lost,
         outbox'[m].status = outbox[m].status \/ \E q \in Ops : m \in Held(op[q]),
         outbox'[m].status = "queued" /\ m \in Held(op[o]) => m \in Held(me) \/ ~ Stores(slot, m)
  PROVE  SentOnce(m)'
<1>1. op'[o] = me /\ \A q \in Ops : q # o => op'[q] = op[q]
  BY Parts DEF OpsOK, Becomes
<1>2. \A q \in Ops : m \in Has(op'[q]) =>
        /\ m \in Has(op[q]) /\ op'[q].kind = op[q].kind
        /\ m \in Landed(op[q]) => m \in Landed(op'[q])
  BY <1>1
<1>3. outbox'[m].status = "queued" =>
        \A q \in Ops : m \in Held(op[q]) => m \in Held(op'[q]) \/ ~ Stores(slot, m)
  BY <1>1
<1>4. QED
  BY <1>2, <1>3, MessageStep

LEMMA MessageStays ==
  ASSUME NEW m \in Payloads, SentOnce(m), UNCHANGED op,
         m \in fresh' => m \in fresh,
         Stores(slot', m) => Stores(slot, m),
         StoredOnce(slot, m) => StoredOnce(slot', m),
         \A t \in lost' : m \in Msgs(t.batch) => t \in lost,
         outbox'[m].status = outbox[m].status
  PROVE  SentOnce(m)'
BY MessageStep

\* The batches stay in order when one invocation moves, or none.
LEMMA OnceStep ==
  ASSUME IInv, OnceInv, NEW o \in Ops, NEW me, Becomes(o, me), BatchOK(me),
         lost' \subseteq lost \cup {TheTx(op[o])},
         \A m \in Payloads \ (doubt' \cup twice') : SentOnce(m)'
  PROVE  OnceInv'
<1>1. op'[o] = me /\ \A q \in Ops : q # o => op'[q] = op[q]
  BY Parts DEF OpsOK, Becomes
<1>2. \A q \in Ops : BatchOK(op'[q])
  BY <1>1 DEF OnceInv
<1>3. TheTx(op[o]).batch = op[o].batch
  BY DEF TheTx
<1>4. \A t \in lost' : Distinct(t.batch)
  BY <1>3 DEF OnceInv, BatchOK
<1>5. QED
  BY <1>2, <1>4 DEF OnceInv

LEMMA OnceStays ==
  ASSUME OnceInv, UNCHANGED op, lost' \subseteq lost,
         \A m \in Payloads \ (doubt' \cup twice') : SentOnce(m)'
  PROVE  OnceInv'
BY DEF OnceInv

\* An invocation without a message.
LEMMA NotRunningHas ==
  Has(NotRunning) = {} /\ BatchOK(NotRunning)
BY DEF Has, NotRunning, Msgs, BatchOK, Distinct

\* What the invariants say of an invocation.
LEMMA Invoked ==
  ASSUME IInv, OnceInv, NEW o \in Ops
  PROVE  /\ op[o] \in Invocation /\ BatchOK(op[o])
         /\ op[o].lane \in Lanes /\ op[o].batch \in Seq(Item)
         /\ TheTx(op[o]).lane = op[o].lane /\ TheTx(op[o]).batch = op[o].batch
         /\ Msgs(op[o].batch) \subseteq Payloads
<1>1. op[o] \in Invocation /\ BatchOK(op[o])
  BY Parts DEF OpsOK, OnceInv
<1>2. op[o].lane \in Lanes /\ op[o].batch \in Seq(Item)
  BY <1>1 DEF Invocation
<1>3. QED
  BY <1>1, <1>2, ItemFacts DEF TheTx, Msgs

\* Storage that does not change.
LEMMA SameStorage ==
  ASSUME UNCHANGED slot
  PROVE  \A m : /\ Stores(slot', m) => Stores(slot, m)
                /\ StoredOnce(slot, m) => StoredOnce(slot', m)
OBVIOUS

\* Steps that mark the batch and go on with it.
LEMMA GoOnOnce ==
  ASSUME IInv, OnceInv, NEW o \in Ops, NEW me, Becomes(o, me),
         me.todo = op[o].todo, me.batch = op[o].batch, me.kind = op[o].kind,
         BatchOK(me), op[o].tx = "landed" => me.tx = "landed",
         UNCHANGED <<slot, fresh, lost, doubt, twice>>,
         \A m \in Payloads : m \notin Held(op[o]) => outbox'[m] = outbox[m]
  PROVE  OnceInv'
<1>1. ASSUME NEW m \in Payloads \ (doubt' \cup twice')
      PROVE  SentOnce(m)'
  <2>1. SentOnce(m)
    BY DEF OnceInv
  <2>2. /\ m \in Has(me) => m \in Has(op[o])
        /\ m \in Landed(op[o]) => m \in Landed(me)
        /\ m \in Held(op[o]) => m \in Held(me)
    BY DEF Has, Held, Landed
  <2>3. outbox'[m].status = outbox[m].status \/ \E q \in Ops : m \in Held(op[q])
    OBVIOUS
  <2>4. QED
    BY <2>1, <2>2, <2>3, SameStorage, MessageMoves
<1>2. QED
  BY <1>1, OnceStep

LEMMA MarkBatchHolds ==
  ASSUME NEW o \in Ops, NEW status, MarkBatch(o, status), outbox \in [Payloads -> Entry],
         NEW m \in Payloads, m \notin Held(op[o])
  PROVE  outbox'[m] = outbox[m]
BY DEF MarkBatch, Mark, Held

LEMMA BroadcastOnce ==
  ASSUME IInv, OnceInv, NEW o \in Ops, Broadcast(o)
  PROVE  OnceInv'
<1> DEFINE me == [op[o] EXCEPT !.pc = "await"]
<1>1. op[o] \in Invocation /\ BatchOK(op[o]) /\ op[o].pc = "submit" /\ Becomes(o, me)
  BY Invoked DEF Broadcast
<1>2. /\ me.todo = op[o].todo /\ me.batch = op[o].batch /\ me.kind = op[o].kind
      /\ me.tx = op[o].tx /\ me.pc = "await"
  BY <1>1 DEF Invocation
<1>3. BatchOK(me)
  <2> HIDE DEF me
  <2>1. QED
    BY <1>1, <1>2 DEF BatchOK
<1>4. \A m \in Payloads : m \notin Held(op[o]) => outbox'[m] = outbox[m]
  BY Parts, MarkBatchHolds DEF Broadcast, PlainOK
<1> HIDE DEF me
<1>5. QED
  BY <1>1, <1>2, <1>3, <1>4, GoOnOnce DEF Broadcast

LEMMA AskWalletOnce ==
  ASSUME IInv, OnceInv, NEW o \in Ops, AskWallet(o)
  PROVE  OnceInv'
<1> DEFINE me == [op[o] EXCEPT !.pc = "wallet"]
<1>1. op[o] \in Invocation /\ BatchOK(op[o]) /\ op[o].pc = "submit" /\ Becomes(o, me)
  BY Invoked DEF AskWallet
<1>2. /\ me.todo = op[o].todo /\ me.batch = op[o].batch /\ me.kind = op[o].kind
      /\ me.tx = op[o].tx /\ me.pc = "wallet"
  BY <1>1 DEF Invocation
<1>3. BatchOK(me)
  <2> HIDE DEF me
  <2>1. QED
    BY <1>1, <1>2 DEF BatchOK
<1>4. \A m \in Payloads : m \notin Held(op[o]) => outbox'[m] = outbox[m]
  BY Parts, MarkBatchHolds DEF AskWallet, PlainOK
<1> HIDE DEF me
<1>5. QED
  BY <1>1, <1>2, <1>3, <1>4, GoOnOnce DEF AskWallet

LEMMA WalletAnswersOnce ==
  ASSUME IInv, OnceInv, NEW o \in Ops, WalletAnswers(o)
  PROVE  OnceInv'
<1>1. PICK pc \in {"await", "look"} : Becomes(o, [op[o] EXCEPT !.pc = pc])
  BY DEF WalletAnswers
<1> DEFINE me == [op[o] EXCEPT !.pc = pc]
<1>2. op[o] \in Invocation /\ BatchOK(op[o]) /\ op[o].pc = "wallet" /\ Becomes(o, me)
  BY <1>1, Invoked DEF WalletAnswers
<1>3. /\ me.todo = op[o].todo /\ me.batch = op[o].batch /\ me.kind = op[o].kind
      /\ me.tx = op[o].tx /\ me.pc = pc
  BY <1>2 DEF Invocation
<1>4. BatchOK(me)
  <2> HIDE DEF me
  <2>1. QED
    BY <1>2, <1>3 DEF BatchOK
<1>5. \A m \in Payloads : m \notin Held(op[o]) => outbox'[m] = outbox[m]
  BY Parts, MarkBatchHolds DEF WalletAnswers, PlainOK
<1> HIDE DEF me
<1>6. QED
  BY <1>2, <1>3, <1>4, <1>5, GoOnOnce DEF WalletAnswers

LEMMA RevertsOutsideOnce ==
  ASSUME IInv, OnceInv, NEW o \in Ops, RevertsOutside(o)
  PROVE  OnceInv'
<1> DEFINE me == [op[o] EXCEPT !.tx = "reverted"]
<1>1. op[o] \in Invocation /\ BatchOK(op[o]) /\ MayBeOut(op[o]) /\ Becomes(o, me)
  BY Invoked DEF RevertsOutside
<1>2. /\ me.todo = op[o].todo /\ me.batch = op[o].batch /\ me.kind = op[o].kind
      /\ me.pc = op[o].pc
  BY <1>1 DEF Invocation
<1>3. BatchOK(me)
  <2> HIDE DEF me
  <2>1. QED
    BY <1>1, <1>2 DEF BatchOK, MayBeOut
<1> HIDE DEF me
<1>4. QED
  BY <1>1, <1>2, <1>3, GoOnOnce DEF RevertsOutside, MayBeOut

LEMMA CancelFlushOnce ==
  ASSUME IInv, OnceInv, CancelFlush
  PROVE  OnceInv'
<1>1. flushAbort \in Ops
  BY Parts DEF ControllerOK, CancelFlush
<1> DEFINE me == [op[flushAbort] EXCEPT !.aborted = TRUE]
<1>2. op[flushAbort] \in Invocation /\ BatchOK(op[flushAbort]) /\ Becomes(flushAbort, me)
  BY <1>1, Invoked DEF CancelFlush, Becomes
<1>3. /\ me.todo = op[flushAbort].todo /\ me.batch = op[flushAbort].batch
      /\ me.kind = op[flushAbort].kind /\ me.tx = op[flushAbort].tx /\ me.pc = op[flushAbort].pc
  BY <1>2 DEF Invocation
<1>4. BatchOK(me)
  <2> HIDE DEF me
  <2>1. QED
    BY <1>2, <1>3 DEF BatchOK
<1> HIDE DEF me
<1>5. QED
  BY <1>1, <1>2, <1>3, <1>4, GoOnOnce DEF CancelFlush

\* An invocation that has nothing: it starts, or it ends.
LEMMA SyncedOnce ==
  ASSUME IInv, OnceInv, NEW o \in Ops, Synced(o)
  PROVE  OnceInv'
<1>1. op[o] \in Invocation /\ BatchOK(op[o]) /\ op[o].pc = "sync"
  BY Invoked DEF Synced
<1>2. CASE op[o].todo # {}
  <2> DEFINE me == [op[o] EXCEPT !.pc = "walk"]
  <2>1. Becomes(o, me)
    BY <1>2 DEF Synced
  <2>2. /\ me.todo = op[o].todo /\ me.batch = op[o].batch /\ me.kind = op[o].kind
        /\ me.tx = op[o].tx /\ me.pc = "walk"
    BY <1>1 DEF Invocation
  <2> HIDE DEF me
  <2>3. BatchOK(me)
    BY <1>1, <2>2 DEF BatchOK
  <2>4. QED
    BY <2>1, <2>2, <2>3, GoOnOnce DEF Synced
<1>3. CASE op[o].todo = {}
  <2>1. Becomes(o, NotRunning)
    BY <1>3 DEF Synced
  <2>2. op[o].batch = <<>>
    BY <1>1 DEF BatchOK
  <2>3. Held(op[o]) = {}
    BY <1>3, <2>2 DEF Held, Msgs
  <2>4. ASSUME NEW m \in Payloads \ (doubt' \cup twice')
        PROVE  SentOnce(m)'
    <3>1. SentOnce(m)
      BY DEF OnceInv, Synced
    <3>2. QED
      BY <2>1, <2>3, <3>1, NotRunningHas, SameStorage, MessageMoves DEF Synced
  <2>5. QED
    BY <2>1, <2>4, NotRunningHas, OnceStep DEF Synced
<1>4. QED
  BY <1>2, <1>3

\* What is re-queued was in the batch of an invocation that waits for an
\* outcome (NeverStuck).
LEMMA RequeuedHeld ==
  ASSUME IInv, NEW o \in Ops, Catch(o), NEW m \in Payloads
  PROVE  outbox'[m].status = outbox[m].status \/ \E q \in Ops : m \in Held(op[q])
<1>1. CASE op[o].kind = "batch" /\ outbox[m].status \in {"proving", "submitted"}
  BY <1>1, Parts DEF NeverStuck, Carries, Held
<1>2. CASE ~ (op[o].kind = "batch" /\ outbox[m].status \in {"proving", "submitted"})
  BY <1>2, Parts DEF Catch, Requeued, PlainOK
<1>3. QED
  BY <1>1, <1>2

\* The transaction was not made or reverted: nothing of the batch landed.
LEMMA FailsOnce ==
  ASSUME IInv, OnceInv, NEW o \in Ops, Fails(o)
  PROVE  OnceInv'
<1>1. op[o] \in Invocation /\ BatchOK(op[o])
  BY Invoked
<1>2. Landed(op[o]) = {}
  BY <1>1 DEF Fails, BatchOK, Landed, Msgs
<1>3. Becomes(o, NotRunning) /\ UNCHANGED <<slot, fresh, lost, doubt, twice>>
  BY DEF Fails, Catch
<1>4. ASSUME NEW m \in Payloads \ (doubt' \cup twice')
      PROVE  SentOnce(m)'
  <2>1. SentOnce(m)
    BY <1>3 DEF OnceInv
  <2>2. m \in Held(op[o]) => ~ Stores(slot, m)
    BY <1>2, <2>1 DEF SentOnce, Held, Has
  <2>3. outbox'[m].status = outbox[m].status \/ \E q \in Ops : m \in Held(op[q])
    BY RequeuedHeld DEF Fails
  <2>4. QED
    BY <1>3, <2>1, <2>2, <2>3, NotRunningHas, SameStorage, MessageMoves
<1>5. QED
  BY <1>3, <1>4, NotRunningHas, OnceStep

\* The batch is in doubt from now on; the rest of what was taken was not sent.
LEMMA UnansweredOnce ==
  ASSUME IInv, OnceInv, NEW o \in Ops, Unanswered(o)
  PROVE  OnceInv'
<1>1. op[o] \in Invocation /\ BatchOK(op[o]) /\ TheTx(op[o]).batch = op[o].batch
  BY Invoked
<1>2. /\ Becomes(o, NotRunning) /\ UNCHANGED <<slot, fresh, twice>>
      /\ lost' \subseteq lost \cup {TheTx(op[o])}
      /\ doubt' = doubt \cup Msgs(op[o].batch) /\ Catch(o)
  BY DEF Unanswered, Catch
<1>3. ASSUME NEW m \in Payloads \ (doubt' \cup twice')
      PROVE  SentOnce(m)'
  <2>1. SentOnce(m) /\ m \notin Msgs(op[o].batch)
    BY <1>2 DEF OnceInv
  <2>2. m \in Held(op[o]) => ~ Stores(slot, m)
    BY <2>1 DEF SentOnce, Held, Has, Landed
  <2>3. outbox'[m].status = outbox[m].status \/ \E q \in Ops : m \in Held(op[q])
    BY <1>2, RequeuedHeld
  <2>4. \A t \in lost' : m \in Msgs(t.batch) => t \in lost
    BY <1>1, <1>2, <2>1
  <2>5. QED
    BY <1>2, <2>1, <2>2, <2>3, <2>4, NotRunningHas, SameStorage, MessageMoves
<1>4. QED
  BY <1>2, <1>3, NotRunningHas, OnceStep

\* The batch was confirmed: a receipt says so, or the slots are taken.  In the
\* second case the transaction may be out still, and the entries are not sent
\* again.
LEMMA ConfirmOnce ==
  ASSUME IInv, OnceInv, NEW o \in Ops, Confirm(o)
  PROVE  OnceInv'
<1> DEFINE done == IF op[o].kind = "plain" THEN NotRunning
                   ELSE [op[o] EXCEPT !.pc = "sync", !.batch = <<>>, !.tx = "none"]
<1>1. /\ op[o] \in Invocation /\ BatchOK(op[o]) /\ TheTx(op[o]).batch = op[o].batch
      /\ Msgs(op[o].batch) \subseteq Payloads
  BY Invoked
<1>2. /\ Becomes(o, done) /\ UNCHANGED <<slot, fresh, doubt, twice>>
      /\ lost' = IF op[o].tx = "none" THEN lost \cup {TheTx(op[o])} ELSE lost
      /\ outbox' = IF op[o].kind = "batch" THEN MarkConfirmed(outbox, op[o].batch) ELSE outbox
  BY DEF Confirm
<1>3. CASE op[o].kind = "plain"
  <2>1. done = NotRunning /\ op[o].todo = {} /\ op[o].batch = <<>>
    BY <1>1, <1>3 DEF BatchOK
  <2>2. Msgs(op[o].batch) = {} /\ Held(op[o]) = {}
    BY <1>3, <2>1 DEF Msgs, Held
  <2> HIDE DEF done
  <2>3. ASSUME NEW m \in Payloads \ (doubt' \cup twice')
        PROVE  SentOnce(m)'
    <3>1. SentOnce(m)
      BY <1>2 DEF OnceInv
    <3>2. \A t \in lost' : m \in Msgs(t.batch) => t \in lost
      BY <1>1, <1>2, <2>2
    <3>3. outbox'[m] = outbox[m]
      BY <1>2, <1>3
    <3>4. QED
      BY <1>2, <2>1, <2>2, <3>1, <3>2, <3>3, NotRunningHas, SameStorage, MessageMoves
  <2>4. lost' \subseteq lost \cup {TheTx(op[o])}
    BY <1>2
  <2>5. QED
    BY <1>2, <2>1, <2>3, <2>4, NotRunningHas, OnceStep
<1>4. CASE op[o].kind # "plain"
  <2>1. /\ done.todo = op[o].todo /\ done.batch = <<>> /\ done.kind = op[o].kind
        /\ done.pc = "sync" /\ done.tx = "none"
    BY <1>1, <1>4 DEF Invocation
  <2> HIDE DEF done
  <2>2. BatchOK(done)
    BY <1>4, <2>1 DEF BatchOK, Distinct, Msgs
  <2>3. Has(done) = op[o].todo /\ Landed(done) = {} /\ (Held(op[o]) \ Msgs(op[o].batch)) \subseteq Held(done)
    BY <2>1 DEF Has, Landed, Held, Msgs
  <2>4. \A m \in op[o].todo : m \notin Msgs(op[o].batch)
    BY <1>1 DEF BatchOK
  <2>5. \A m \in Payloads : /\ m \in Msgs(op[o].batch) /\ op[o].kind = "batch" =>
                                 outbox'[m].status = "confirmed" /\ m \in Held(op[o])
                            /\ m \notin Msgs(op[o].batch) \/ op[o].kind # "batch" =>
                                 outbox'[m] = outbox[m]
    BY <1>2 DEF MarkConfirmed, Held
  <2>6. ASSUME NEW m \in Payloads \ (doubt' \cup twice')
        PROVE  SentOnce(m)'
    <3>1. SentOnce(m)
      BY <1>2 DEF OnceInv
    <3>2. CASE m \notin Msgs(op[o].batch) \/ op[o].tx # "none"
      <4>1. \A t \in lost' : m \in Msgs(t.batch) => t \in lost
        BY <1>1, <1>2, <3>2
      <4>2. outbox'[m].status = outbox[m].status \/ \E q \in Ops : m \in Held(op[q])
        BY <2>5
      <4>3. m \in Has(done) => m \in Has(op[o]) /\ m \notin Landed(op[o])
        BY <2>3, <2>4 DEF Has, Landed
      <4>4. outbox'[m].status = "queued" /\ m \in Held(op[o]) => m \in Held(done)
        BY <2>3, <2>5 DEF Held
      <4>5. QED
        BY <1>2, <2>1, <3>1, <4>1, <4>2, <4>3, <4>4, SameStorage, MessageMoves
    <3>3. CASE m \in Msgs(op[o].batch) /\ op[o].tx = "none"
      <4>1. /\ m \in Has(op[o]) /\ Landed(op[o]) = {}
            /\ m \notin fresh
            /\ ~ Stores(slot, m) /\ ~ Out(m) /\ StoredOnce(slot, m)
            /\ \A q \in Ops : m \in Has(op[q]) => q = o
            /\ op[o].kind # "batch" => outbox[m].status = "absent"
        BY <3>1, <3>3 DEF SentOnce, Has, Landed
      <4>2. \A q \in Ops : m \notin Has(op'[q])
        <5>1. op'[o] = done /\ \A q \in Ops : q # o => op'[q] = op[q]
          BY <1>2, Parts DEF OpsOK, Becomes
        <5>2. QED
          BY <2>3, <2>4, <3>3, <4>1, <5>1
      <4>3. \A t \in lost' : m \in Msgs(t.batch) => t = TheTx(op[o])
        BY <1>2, <4>1 DEF Out
      <4>4. outbox'[m].status \in {"absent", "confirmed"}
        BY <2>5, <3>3, <4>1
      <4>5. ~ Stores(slot', m) /\ StoredOnce(slot', m) /\ m \notin fresh'
        BY <1>2, <4>1
      <4>6. QED
        BY <4>2, <4>3, <4>4, <4>5 DEF SentOnce
    <3>4. QED
      BY <3>2, <3>3
  <2>7. lost' \subseteq lost \cup {TheTx(op[o])}
    BY <1>2
  <2>8. QED
    BY <1>2, <2>2, <2>6, <2>7, OnceStep
<1>5. QED
  BY <1>3, <1>4

-----------------------------------------------------------------------------
(* At most once: starting and sealing.                                     *)

\* A message that was queued is not in the hands of a payment.
LEMMA StartBatchOnce ==
  ASSUME IInv, OnceInv, NEW o \in Ops, StartBatch(o)
  PROVE  OnceInv'
<1> DEFINE taken == Take(outbox, Cardinality(Payloads))
           me == [NotRunning EXCEPT !.pc = "walk", !.todo = taken]
<1>1. /\ Becomes(o, me)
      /\ twice' = twice \cup UNION {taken \cap Held(op[q]) : q \in Ops}
      /\ UNCHANGED <<slot, outbox, fresh, lost, doubt>>
  BY DEF StartBatch, Start
<1>2. \A m \in taken : m \in Payloads /\ outbox[m].status = "queued"
  BY DEF Take
<1>3. BatchOK(op[o]) /\ op[o].pc = "idle"
  BY Invoked DEF StartBatch, Start
<1>4. Has(op[o]) = {} /\ Held(op[o]) = {}
  BY <1>3 DEF BatchOK, Has, Held, Msgs
<1> HIDE DEF taken
<1>5. me.pc = "walk" /\ me.todo = taken /\ me.kind = "batch" /\ me.batch = <<>>
  BY DEF NotRunning
<1> HIDE DEF me
<1>6. Has(me) = taken /\ Held(me) = taken /\ BatchOK(me)
  BY <1>5 DEF Has, Held, Msgs, BatchOK, Distinct
<1>7. ASSUME NEW m \in Payloads \ (doubt' \cup twice')
      PROVE  SentOnce(m)'
  <2>1. SentOnce(m)
    BY <1>1 DEF OnceInv
  <2>2. CASE m \notin taken
    BY <1>1, <1>4, <1>6, <2>1, <2>2, SameStorage, MessageMoves
  <2>3. CASE m \in taken
    <3>1. \A q \in Ops : m \notin Held(op[q])
      BY <1>1, <2>3
    <3>2. outbox[m].status = "queued"
      BY <1>2, <2>3
    <3>3. \A q \in Ops : m \notin Has(op[q])
      BY <2>1, <3>1, <3>2 DEF SentOnce, Held, Has
    <3>4. /\ ~ Stores(slot, m) /\ ~ Out(m) /\ m \notin fresh /\ StoredOnce(slot, m)
      BY <2>1, <3>1, <3>2 DEF SentOnce
    <3>5. op'[o] = me /\ \A q \in Ops : q # o => op'[q] = op[q]
      BY <1>1, Parts DEF OpsOK, Becomes
    <3>6. \A q \in Ops : m \in Has(op'[q]) => q = o
      BY <3>3, <3>5
    <3>7. ~ Stores(slot', m) /\ ~ Out(m)' /\ m \notin fresh' /\ StoredOnce(slot', m)
      BY <1>1, <3>4 DEF Out
    <3>8. op'[o].kind = "batch" /\ outbox'[m].status = "queued"
      BY <1>1, <1>5, <3>2, <3>5
    <3>9. QED
      BY <3>6, <3>7, <3>8 DEF SentOnce
  <2>4. QED
    BY <2>2, <2>3
<1>8. QED
  BY <1>1, <1>6, <1>7, OnceStep

\* The memo of a payment was not written before.
LEMMA StartPayOnce ==
  ASSUME IInv, OnceInv, NEW o \in Ops, StartPay(o)
  PROVE  OnceInv'
<1>1. PICK n \in fresh \cap Memos :
        /\ Becomes(o, [NotRunning EXCEPT !.pc = "walk", !.kind = "pay", !.todo = {n}])
        /\ fresh' = fresh \ {n}
  BY DEF StartPay
<1> DEFINE me == [NotRunning EXCEPT !.pc = "walk", !.kind = "pay", !.todo = {n}]
<1>2. Becomes(o, me) /\ UNCHANGED <<slot, outbox, lost, doubt, twice>>
  BY <1>1 DEF StartPay, Start
<1>3. BatchOK(op[o]) /\ op[o].pc = "idle"
  BY Invoked DEF StartPay, Start
<1>4. Has(op[o]) = {} /\ Held(op[o]) = {}
  BY <1>3 DEF BatchOK, Has, Held, Msgs
<1>5. me.pc = "walk" /\ me.todo = {n} /\ me.kind = "pay" /\ me.batch = <<>>
  BY DEF NotRunning
<1> HIDE DEF me
<1>6. Has(me) = {n} /\ BatchOK(me)
  BY <1>5 DEF Has, Msgs, BatchOK, Distinct
<1>7. ASSUME NEW m \in Payloads \ (doubt' \cup twice')
      PROVE  SentOnce(m)'
  <2>1. SentOnce(m)
    BY <1>2 DEF OnceInv
  <2>2. CASE m # n
    BY <1>1, <1>2, <1>4, <1>6, <2>1, <2>2, SameStorage, MessageMoves
  <2>3. CASE m = n
    <3>1. /\ ~ Stores(slot, m) /\ ~ Out(m) /\ StoredOnce(slot, m)
          /\ outbox[m].status = "absent" /\ \A q \in Ops : m \notin Has(op[q])
      BY <1>1, <2>1, <2>3 DEF SentOnce
    <3>2. op'[o] = me /\ \A q \in Ops : q # o => op'[q] = op[q]
      BY <1>2, Parts DEF OpsOK, Becomes
    <3>3. \A q \in Ops : m \in Has(op'[q]) => q = o
      BY <3>1, <3>2
    <3>4. /\ ~ Stores(slot', m) /\ ~ Out(m)' /\ StoredOnce(slot', m)
          /\ outbox'[m].status = "absent" /\ m \notin fresh'
      BY <1>1, <1>2, <2>3, <3>1 DEF Out
    <3>5. QED
      BY <3>3, <3>4 DEF SentOnce
  <2>4. QED
    BY <2>2, <2>3
<1>8. QED
  BY <1>2, <1>6, <1>7, OnceStep

LEMMA StartPlainOnce ==
  ASSUME IInv, OnceInv, NEW o \in Ops, StartPlain(o)
  PROVE  OnceInv'
<1> DEFINE me == [NotRunning EXCEPT !.pc = "submit", !.kind = "plain"]
<1>1. Becomes(o, me) /\ UNCHANGED <<slot, outbox, fresh, lost, doubt, twice>>
  BY DEF StartPlain, Start
<1>2. BatchOK(op[o]) /\ op[o].pc = "idle"
  BY Invoked DEF StartPlain, Start
<1>3. Held(op[o]) = {}
  BY <1>2 DEF BatchOK, Held, Msgs
<1>4. /\ me.pc = "submit" /\ me.todo = {} /\ me.kind = "plain" /\ me.batch = <<>>
      /\ me.tx = "none"
  BY DEF NotRunning
<1> HIDE DEF me
<1>5. Has(me) = {} /\ BatchOK(me)
  BY <1>4 DEF Has, Msgs, BatchOK, Distinct
<1>6. ASSUME NEW m \in Payloads \ (doubt' \cup twice')
      PROVE  SentOnce(m)'
  <2>1. SentOnce(m)
    BY <1>1 DEF OnceInv
  <2>2. QED
    BY <1>1, <1>3, <1>5, <2>1, SameStorage, MessageMoves
<1>7. QED
  BY <1>1, <1>5, <1>6, OnceStep

\* What is sealed are the taken messages to one lane, each once: the take is
\* in order, and an order has no repetition.
LEMMA SealLaneOnce ==
  ASSUME IInv, OnceInv, NEW o \in Ops, SealLane(o)
  PROVE  OnceInv'
<1>1. op[o] \in Invocation /\ BatchOK(op[o]) /\ op[o].pc = "walk"
  BY Invoked DEF SealLane
<1>2. PICK first \in Oldest(op[o].todo) :
        LET lane == LaneOf[first]
            entries == {m \in op[o].todo : LaneOf[m] = lane}
        IN  \E msgs \in OldestFirst(entries), start \in NextFree(lane, 0) :
              LET batch == Sealed(msgs, start)
              IN  /\ Becomes(o, [op[o] EXCEPT !.pc = "submit", !.todo = @ \ entries,
                                              !.tx = "none", !.lane = lane, !.batch = batch])
                  /\ outbox' = IF op[o].kind = "batch" THEN Mark(outbox, batch, "proving")
                                                       ELSE outbox
  BY DEF SealLane
<1> DEFINE lane == LaneOf[first]
           entries == {m \in op[o].todo : LaneOf[m] = lane}
<1>3. PICK msgs \in OldestFirst(entries), start \in NextFree(lane, 0) :
        /\ Becomes(o, [op[o] EXCEPT !.pc = "submit", !.todo = @ \ entries, !.tx = "none",
                                    !.lane = lane, !.batch = Sealed(msgs, start)])
        /\ outbox' = IF op[o].kind = "batch" THEN Mark(outbox, Sealed(msgs, start), "proving")
                                             ELSE outbox
  BY <1>2
<1> DEFINE batch == Sealed(msgs, start)
           me == [op[o] EXCEPT !.pc = "submit", !.todo = @ \ entries, !.tx = "none",
                               !.lane = lane, !.batch = batch]
<1>4. first \in op[o].todo /\ op[o].todo \subseteq Payloads
  BY <1>1 DEF Oldest, Invocation
<1>5. /\ msgs \in Seq(Payloads)
      /\ \A k \in DOMAIN msgs : msgs[k] \in entries
      /\ \A i, j \in DOMAIN msgs : i < j => msgs[i] < msgs[j]
      /\ \A m \in entries : \E k \in DOMAIN msgs : msgs[k] = m
  <2>1. entries \in SUBSET Payloads /\ entries # {}
    BY <1>4
  <2> HIDE DEF entries
  <2>2. QED
    BY <2>1, WebPayloadsAssumption, OldestFirstProperty, OldestFirstComplete
<1>6. entries \subseteq op[o].todo
  OBVIOUS
<1> HIDE DEF lane, entries
<1>7. DOMAIN batch = DOMAIN msgs /\ \A k \in DOMAIN msgs : batch[k].msg = msgs[k]
  BY DEF Sealed
<1> HIDE DEF batch
<1>8. Msgs(batch) = entries
  BY <1>5, <1>7 DEF Msgs
<1>9. Distinct(batch)
  <2>1. DOMAIN msgs \subseteq Nat /\ \A k \in DOMAIN msgs : msgs[k] \in Payloads
    BY <1>5
  <2>2. \A k \in DOMAIN msgs : msgs[k] \in Nat
    BY <2>1, WebPayloadsAssumption
  <2>3. \A i, j \in DOMAIN msgs : i # j => msgs[i] # msgs[j]
    BY <1>5, <2>1, <2>2
  <2>4. QED
    BY <1>7, <2>3 DEF Distinct
<1>10. /\ me.pc = "submit" /\ me.tx = "none" /\ me.batch = batch /\ me.kind = op[o].kind
       /\ me.todo = op[o].todo \ entries
  BY <1>1 DEF Invocation
<1>11. /\ Becomes(o, me)
       /\ outbox' = IF op[o].kind = "batch" THEN Mark(outbox, batch, "proving") ELSE outbox
       /\ UNCHANGED <<slot, fresh, lost, doubt, twice>>
  BY <1>3 DEF SealLane, batch
<1> HIDE DEF me
<1>12. BatchOK(me)
  <2>1. me.kind # "plain"
    BY <1>1, <1>4, <1>10 DEF BatchOK
  <2>2. QED
    BY <1>8, <1>9, <1>10, <2>1 DEF BatchOK
<1>13. Msgs(op[o].batch) = {} /\ Landed(op[o]) = {}
  BY <1>1 DEF BatchOK, Landed, Msgs
<1>14. Has(me) = Has(op[o]) /\ Held(me) = Held(op[o])
  BY <1>6, <1>8, <1>10, <1>13 DEF Has, Held
<1>15. \A m \in Payloads : m \notin Held(op[o]) => outbox'[m] = outbox[m]
  BY <1>6, <1>8, <1>11, Parts DEF Held, Mark, PlainOK
<1>16. ASSUME NEW m \in Payloads \ (doubt' \cup twice')
       PROVE  SentOnce(m)'
  <2>1. SentOnce(m)
    BY <1>11 DEF OnceInv
  <2>2. outbox'[m].status = outbox[m].status \/ \E q \in Ops : m \in Held(op[q])
    BY <1>15
  <2>3. QED
    BY <1>10, <1>11, <1>13, <1>14, <2>1, <2>2, SameStorage, MessageMoves
<1>17. QED
  BY <1>11, <1>12, <1>16, OnceStep

-----------------------------------------------------------------------------
(* At most once: what lands.                                               *)

\* A message that was stored nowhere lands once.
LEMMA LandedOnce ==
  ASSUME NEW lane \in Lanes, NEW items \in Seq(Item), Distinct(items),
         PrivacyInvoke(Pool, Calldata(lane, items)), NEW m, ~ Stores(slot, m)
  PROVE  StoredOnce(slot', m)
<1>1. CASE Accepts(Pool, Calldata(lane, items))
  <2>1. Store(Calldata(lane, items))
    BY <1>1 DEF PrivacyInvoke
  <2>2. QED
    BY <1>1, <2>1, LandsOnce DEF Distinct
<1>2. CASE ~ Accepts(Pool, Calldata(lane, items))
  BY <1>2 DEF PrivacyInvoke, Stores, StoredOnce
<1>3. QED
  BY <1>1, <1>2

LEMMA IncludeOnce ==
  ASSUME IInv, OnceInv, NEW o \in Ops, Include(o)
  PROVE  OnceInv'
<1> DEFINE items == Calldata(op[o].lane, op[o].batch)
           accepted == op[o].kind = "plain" \/ Accepts(Pool, items)
           me == [op[o] EXCEPT !.tx = IF accepted THEN "landed" ELSE "reverted"]
<1>1. /\ IF op[o].kind = "plain" THEN UNCHANGED slot ELSE PrivacyInvoke(Pool, items)
      /\ Becomes(o, me) /\ op[o].tx = "none" /\ op[o].pc \in {"wallet", "look", "await"}
      /\ UNCHANGED <<outbox, fresh, lost, doubt, twice>>
  BY DEF Include, Call, TheTx, MayBeOut
<1>2. /\ op[o] \in Invocation /\ BatchOK(op[o])
      /\ op[o].lane \in Lanes /\ op[o].batch \in Seq(Item)
  BY Invoked
<1>3. /\ me.pc = op[o].pc /\ me.kind = op[o].kind /\ me.batch = op[o].batch
      /\ me.todo = op[o].todo /\ me.tx = IF accepted THEN "landed" ELSE "reverted"
  BY <1>2 DEF Invocation
<1> HIDE DEF me
<1>4. BatchOK(me)
  BY <1>1, <1>2, <1>3 DEF BatchOK
<1>5. /\ Has(me) = Has(op[o]) /\ Held(me) = Held(op[o]) /\ Landed(op[o]) = {}
      /\ op[o].kind = "plain" => Msgs(op[o].batch) = {}
  BY <1>1, <1>2, <1>3 DEF Has, Held, Landed, BatchOK, Msgs
<1>6. ~ accepted => UNCHANGED slot
  BY <1>1 DEF PrivacyInvoke
<1> HIDE DEF accepted, items
<1>7. ASSUME NEW m \in Payloads \ (doubt' \cup twice')
      PROVE  SentOnce(m)'
  <2>1. SentOnce(m)
    BY <1>1 DEF OnceInv
  <2>2. CASE UNCHANGED slot
    BY <1>1, <1>3, <1>5, <2>1, <2>2, SameStorage, MessageMoves
  <2>3. CASE op[o].kind # "plain" /\ m \notin Msgs(op[o].batch)
    <3>1. /\ Stores(slot', m) => Stores(slot, m)
          /\ StoredOnce(slot, m) => StoredOnce(slot', m)
      BY <1>1, <1>2, <2>3, StoresOnly DEF items
    <3>2. QED
      BY <1>1, <1>3, <1>5, <2>1, <3>1, MessageMoves
  <2>4. CASE op[o].kind # "plain" /\ m \in Msgs(op[o].batch) /\ accepted
    <3>1. m \in Has(op[o])
      BY <2>4 DEF Has
    <3>2. /\ ~ Stores(slot, m) /\ ~ Out(m) /\ m \notin fresh
          /\ \A q \in Ops : m \in Has(op[q]) => q = o
          /\ op[o].kind # "batch" => outbox[m].status = "absent"
      BY <1>5, <2>1, <3>1 DEF SentOnce
    <3>3. StoredOnce(slot', m)
      BY <1>1, <1>2, <2>4, <3>2, LandedOnce DEF BatchOK, items
    <3>4. op'[o] = me /\ \A q \in Ops : q # o => op'[q] = op[q]
      BY <1>1, Parts DEF OpsOK, Becomes
    <3>5. /\ \A q \in Ops : m \in Has(op'[q]) => q = o
          /\ m \in Landed(op'[o])
          /\ op'[o].kind # "batch" => outbox'[m].status = "absent"
          /\ op'[o].kind = "batch" => m \in Held(op'[o])
      BY <1>1, <1>3, <2>4, <3>2, <3>4 DEF Has, Landed, Held
    <3>6. ~ Out(m)' /\ m \notin fresh'
      BY <1>1, <3>2 DEF Out
    <3>7. outbox'[m].status = "queued" => m \in Held(op'[o])
      BY <3>5
    <3>8. QED
      BY <3>3, <3>5, <3>6, <3>7 DEF SentOnce
  <2>5. QED
    BY <1>1, <1>6, <2>2, <2>3, <2>4
<1>8. QED
  BY <1>1, <1>4, <1>7, OnceStep

\* A transaction that nobody waits for lands, or reverts: it is gone.
LEMMA IncludeLostOnce ==
  ASSUME IInv, OnceInv, NEW t \in lost, IncludeLost(t)
  PROVE  OnceInv'
<1>1. /\ t.lane \in Lanes /\ t.batch \in Seq(Item) /\ Distinct(t.batch)
      /\ PrivacyInvoke(Pool, Calldata(t.lane, t.batch))
  BY Parts DEF LostOK, Tx, OnceInv, IncludeLost, Call
<1>2. lost' = lost \ {t} /\ UNCHANGED <<outbox, op, fresh, doubt, twice>>
  BY DEF IncludeLost
<1>3. ASSUME NEW m \in Payloads \ (doubt' \cup twice')
      PROVE  SentOnce(m)'
  <2>1. SentOnce(m)
    BY <1>2 DEF OnceInv
  <2>2. CASE m \notin Msgs(t.batch)
    <3>1. /\ Stores(slot', m) => Stores(slot, m)
          /\ StoredOnce(slot, m) => StoredOnce(slot', m)
      BY <1>1, <2>2, StoresOnly
    <3>2. QED
      BY <1>2, <2>1, <3>1, MessageStays
  <2>3. CASE m \in Msgs(t.batch)
    <3>1. Out(m)
      BY <2>3 DEF Out
    <3>2. /\ ~ Stores(slot, m) /\ outbox[m].status \in {"absent", "confirmed"}
          /\ \A u \in lost : m \in Msgs(u.batch) => u = t
          /\ m \notin fresh /\ \A q \in Ops : m \notin Has(op[q])
      BY <2>1, <2>3, <3>1 DEF SentOnce
    <3>3. StoredOnce(slot', m)
      BY <1>1, <3>2, LandedOnce
    <3>4. /\ ~ Out(m)' /\ outbox'[m].status \in {"absent", "confirmed"}
          /\ m \notin fresh' /\ \A q \in Ops : m \notin Has(op'[q])
      BY <1>2, <3>2 DEF Out
    <3>5. QED
      BY <3>3, <3>4 DEF SentOnce
  <2>4. QED
    BY <2>2, <2>3
<1>4. QED
  BY <1>2, <1>3, OnceStays

\* Another device writes one of its own messages.
LEMMA ElsewhereOnce ==
  ASSUME IInv, OnceInv, NEW n \in Payloads, Elsewhere(n)
  PROVE  OnceInv'
<1>1. PICK i \in NextFree(LaneOf[n], 0) :
        PrivacyInvoke(Pool, Calldata(LaneOf[n], Sealed(<<n>>, i)))
  BY DEF Elsewhere
<1>2. LaneOf[n] \in Lanes /\ <<n>> \in Seq(Payloads)
  BY WebPayloadsAssumption
<1>3. i \in Nat /\ Reaches(DOMAIN slot, LaneOf[n], i)
  BY <1>2, Parts, WalkProperty DEF ChainOK, Reaches
<1> DEFINE items == Sealed(<<n>>, i)
<1>4. items \in Seq(Item)
  BY <1>2, <1>3, SealedProperty
<1>5. Msgs(items) = {n} /\ Distinct(items)
  BY DEF Msgs, Distinct, Sealed
<1> HIDE DEF items
<1>6. n \in fresh /\ fresh' = fresh \ {n} /\ UNCHANGED <<outbox, op, lost, doubt, twice>>
  BY DEF Elsewhere
<1>7. ASSUME NEW m \in Payloads \ (doubt' \cup twice')
      PROVE  SentOnce(m)'
  <2>1. SentOnce(m)
    BY <1>6 DEF OnceInv
  <2>2. CASE m # n
    <3>1. /\ Stores(slot', m) => Stores(slot, m)
          /\ StoredOnce(slot, m) => StoredOnce(slot', m)
      BY <1>1, <1>2, <1>4, <1>5, <2>2, StoresOnly DEF items
    <3>2. QED
      BY <1>6, <2>1, <3>1, MessageStays
  <2>3. CASE m = n
    <3>1. /\ ~ Stores(slot, m) /\ ~ Out(m) /\ outbox[m].status = "absent"
          /\ \A q \in Ops : m \notin Has(op[q])
      BY <1>6, <2>1, <2>3 DEF SentOnce
    <3>2. StoredOnce(slot', m)
      BY <1>1, <1>2, <1>4, <1>5, <3>1, LandedOnce DEF items
    <3>3. /\ ~ Out(m)' /\ outbox'[m].status = "absent" /\ m \notin fresh'
          /\ \A q \in Ops : m \notin Has(op'[q])
      BY <1>6, <2>3, <3>1 DEF Out
    <3>4. QED
      BY <3>2, <3>3 DEF SentOnce
  <2>4. QED
    BY <2>2, <2>3
<1>8. QED
  BY <1>6, <1>7, OnceStays

LEMMA ComposeOnce ==
  ASSUME IInv, OnceInv, NEW n \in Payloads, Compose(n)
  PROVE  OnceInv'
<1>1. /\ n \in fresh /\ fresh' = fresh \ {n} /\ outbox' = [outbox EXCEPT ![n] = Queued]
      /\ UNCHANGED <<slot, op, lost, doubt, twice>>
  BY DEF Compose
<1>2. /\ outbox'[n] = Queued /\ Queued.status = "queued"
      /\ \A m \in Payloads : m # n => outbox'[m] = outbox[m]
  BY <1>1, Parts DEF PlainOK, Queued
<1>3. ASSUME NEW m \in Payloads \ (doubt' \cup twice')
      PROVE  SentOnce(m)'
  <2>1. SentOnce(m)
    BY <1>1 DEF OnceInv
  <2>2. CASE m # n
    BY <1>1, <1>2, <2>1, <2>2, SameStorage, MessageStays
  <2>3. CASE m = n
    <3>1. /\ ~ Stores(slot, m) /\ ~ Out(m) /\ StoredOnce(slot, m)
          /\ \A q \in Ops : m \notin Has(op[q])
      BY <1>1, <2>1, <2>3 DEF SentOnce
    <3>2. /\ ~ Stores(slot', m) /\ ~ Out(m)' /\ StoredOnce(slot', m) /\ m \notin fresh'
          /\ \A q \in Ops : m \notin Has(op'[q])
      BY <1>1, <2>3, <3>1 DEF Out
    <3>3. QED
      BY <3>2 DEF SentOnce
  <2>4. QED
    BY <2>2, <2>3
<1>4. QED
  BY <1>1, <1>3, OnceStays

LEMMA InitOnce == Init => OnceInv
<1> SUFFICES ASSUME Init
             PROVE  OnceInv
  OBVIOUS
<1>1. /\ DOMAIN slot = {} /\ lost = {} /\ \A o \in Ops : op[o] = NotRunning
      /\ \A m \in Payloads : outbox[m].status = "absent"
  BY DEF Init, SlotInit, Absent
<1>2. \A o \in Ops : Has(op[o]) = {} /\ BatchOK(op[o])
  BY <1>1, NotRunningHas
<1>3. \A m \in Payloads : SentOnce(m)
  BY <1>1, <1>2 DEF SentOnce, Stores, StoredOnce, Out
<1>4. QED
  BY <1>1, <1>2, <1>3 DEF OnceInv

LEMMA NextOnce == IInv /\ OnceInv /\ [Next]_vars => OnceInv'
<1> SUFFICES ASSUME IInv, OnceInv, [Next]_vars
             PROVE  OnceInv'
  OBVIOUS
<1>1. ASSUME NEW m \in Payloads, Compose(m) \/ Elsewhere(m)
      PROVE  OnceInv'
  BY <1>1, ComposeOnce, ElsewhereOnce
<1>2. ASSUME NEW o \in Ops, StartBatch(o) \/ StartPay(o) \/ StartPlain(o)
      PROVE  OnceInv'
  BY <1>2, StartBatchOnce, StartPayOnce, StartPlainOnce
<1>3. ASSUME NEW o \in Ops, Advance(o)
      PROVE  OnceInv'
  BY <1>3, SealLaneOnce, BroadcastOnce, AskWalletOnce, WalletAnswersOnce, IncludeOnce,
     RevertsOutsideOnce, ConfirmOnce, SyncedOnce, FailsOnce, UnansweredOnce DEF Advance
<1>4. ASSUME NEW t \in lost, IncludeLost(t)
      PROVE  OnceInv'
  BY <1>4, IncludeLostOnce
<1>5. CASE UNCHANGED vars
  <2>1. UNCHANGED <<slot, outbox, op, fresh, lost, doubt, twice>>
    BY <1>5 DEF vars
  <2>2. \A m \in Payloads \ (doubt' \cup twice') : SentOnce(m)'
    BY <2>1, SameStorage, MessageStays DEF OnceInv
  <2>3. QED
    BY <2>1, <2>2, OnceStays
<1>6. QED
  BY <1>1, <1>2, <1>3, <1>4, <1>5, CancelFlushOnce DEF Next

\* A message whose transactions were all heard of, and that no two invocations
\* of sendBatch held at a time, is stored in one slot at most: whatever is
\* cancelled, re-queued by the catch of another invocation, confirmed by its
\* slots or written by other devices.
THEOREM StoredAtMostOnce == Spec => []AtMostOnce
<1>1. Spec => []OnceInv
  BY InitOnce, NextOnce, Invariant, PTL DEF Spec
<1>2. IInv /\ OnceInv => AtMostOnce
  BY Parts, StoredOnceCounts DEF OnceInv, SentOnce, AtMostOnce, ChainOK
<1>3. QED
  BY <1>1, <1>2, Invariant, PTL

-----------------------------------------------------------------------------
(* The abstract log of each lane.                                          *)

LEMMA NextLogs == IInv /\ OnceInv /\ [Next]_vars => Log!LogNext \/ UNCHANGED slot
<1> SUFFICES ASSUME IInv, OnceInv, [Next]_vars
             PROVE  Log!LogNext \/ UNCHANGED slot
  OBVIOUS
<1>1. ASSUME NEW o \in Ops, Include(o), op[o].kind # "plain"
      PROVE  Log!LogNext \/ UNCHANGED slot
  <2>1. PrivacyInvoke(Pool, Calldata(op[o].lane, op[o].batch))
    BY <1>1 DEF Include, Call, TheTx
  <2>2. op[o].lane \in Lanes /\ op[o].batch \in Seq(Item) /\ Distinct(op[o].batch)
    BY Invoked DEF BatchOK
  <2>3. ChainOK /\ Covered(DOMAIN slot, op[o].lane, op[o].batch)
    BY Parts DEF OpsOK, InvocationOK
  <2>4. QED
    BY <2>1, <2>2, <2>3, InvokeLogs DEF Distinct
<1>2. ASSUME NEW t \in lost, IncludeLost(t)
      PROVE  Log!LogNext \/ UNCHANGED slot
  <2>1. PrivacyInvoke(Pool, Calldata(t.lane, t.batch))
    BY <1>2 DEF IncludeLost, Call
  <2>2. t.lane \in Lanes /\ t.batch \in Seq(Item) /\ Distinct(t.batch)
    BY Parts DEF LostOK, Tx, OnceInv
  <2>3. ChainOK /\ Covered(DOMAIN slot, t.lane, t.batch)
    BY Parts DEF LostOK
  <2>4. QED
    BY <2>1, <2>2, <2>3, InvokeLogs DEF Distinct
<1>3. ASSUME NEW m \in Payloads, Elsewhere(m)
      PROVE  Log!LogNext \/ UNCHANGED slot
  <2>1. PICK i \in NextFree(LaneOf[m], 0) :
          PrivacyInvoke(Pool, Calldata(LaneOf[m], Sealed(<<m>>, i)))
    BY <1>3 DEF Elsewhere
  <2>2. LaneOf[m] \in Lanes /\ <<m>> \in Seq(Payloads) /\ ChainOK
    BY WebPayloadsAssumption, Parts
  <2>3. i \in Nat /\ Reaches(DOMAIN slot, LaneOf[m], i)
    BY <2>2, WalkProperty DEF ChainOK, Reaches
  <2>4. /\ Sealed(<<m>>, i) \in Seq(Item)
        /\ Covered(DOMAIN slot, LaneOf[m], Sealed(<<m>>, i))
        /\ Len(Sealed(<<m>>, i)) = 1
    BY <2>2, <2>3, SealedProperty
  <2>5. \A j, k \in DOMAIN Sealed(<<m>>, i) : j = k
    BY <2>4
  <2>6. QED
    BY <2>1, <2>2, <2>4, <2>5, InvokeLogs
<1>4. ASSUME NEW m \in Payloads, Compose(m)
      PROVE  UNCHANGED slot
  BY <1>4 DEF Compose
<1>5. ASSUME NEW o \in Ops, StartBatch(o) \/ StartPay(o) \/ StartPlain(o)
      PROVE  UNCHANGED slot
  BY <1>5, Zenon DEF StartBatch, StartPay, StartPlain, Start
<1>6. ASSUME NEW o \in Ops, Advance(o), ~ (Include(o) /\ op[o].kind # "plain")
      PROVE  UNCHANGED slot
  BY <1>6, Zenon DEF Advance, SealLane, Broadcast, AskWallet, WalletAnswers, Include,
                     RevertsOutside, Confirm, Synced, Fails, Unanswered, Catch
<1>7. CASE CancelFlush \/ UNCHANGED vars
  BY <1>7 DEF CancelFlush, vars
<1>8. QED
  BY <1>1, <1>2, <1>3, <1>4, <1>5, <1>6, <1>7 DEF Next

\* Seen from the chain, every step of the application, of the other devices
\* that write to its lanes, and of the transactions it has given up on appends
\* one batch of distinct messages to one lane, or changes none.
THEOREM LanesImplementLogs == Spec => LanesAreLogs
<1> DEFINE log == [l \in Lanes |-> [i \in 1..LaneLength(l) |-> slot[<<l, i-1>>]]]
<1>1. Init => Log!LogInit
  BY LogStarts DEF Init
<1>2. IInv /\ OnceInv /\ [Next]_vars => [Log!LogNext]_log
  BY NextLogs, LogSame
<1>3. Spec => []OnceInv
  BY InitOnce, NextOnce, Invariant, PTL DEF Spec
<1>4. QED
  BY <1>1, <1>2, <1>3, Invariant, PTL DEF Spec, LanesAreLogs, Log!LogSpec
=============================================================================
