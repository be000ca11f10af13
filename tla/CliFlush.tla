------------------------------ MODULE CliFlush ------------------------------
(***************************************************************************)
(* The command line client's send path: `msg queue', `msg flush' and       *)
(* `msg send', run by several processes over one configuration directory   *)
(* (a home) or over several homes that write the same lane.                *)
(*                                                                         *)
(* A step is the code between two awaits of a process.  The outbox and the *)
(* cursors are files that a command reads whole when it starts and writes  *)
(* whole at every mark; in between it works on its own copy.  A            *)
(* transaction whose command gave up on it may still land.                 *)
(*                                                                         *)
(* A walk answers with the first empty slot at its last read.  Left out:   *)
(* the log lines, the channel setup that rides on the first transaction to *)
(* a peer, and the proving block (re-read on every attempt, never used     *)
(* again).  Bound: MaxRuns commands are started.                           *)
(***************************************************************************)
EXTENDS Outbox

CONSTANTS
  Homes,          \* configuration directories
  Procs,          \* command processes
  HomeOf,         \* HomeOf[p] : the directory process p runs over
  MsgHome,        \* MsgHome[m] : the directory message m is written in
  LaneOf,         \* LaneOf[m] : the lane resolveChannel finds for m
  MaxAttempts,    \* maxAttempts of submitWithResilience
  Caps,           \* values of `msg flush --max'
  PoolMode,       \* cfg.mode = "pool"
  MaxRuns         \* bound: commands started

ASSUME PayloadsAssumption == /\ Payloads \subseteq Nat
                             /\ IsFiniteSet(Payloads)
                             /\ Lanes # {}
ASSUME TopologyAssumption == /\ HomeOf \in [Procs -> Homes]
                             /\ MsgHome \in [Payloads -> Homes]
                             /\ LaneOf \in [Payloads -> Lanes]
ASSUME LimitsAssumption == /\ MaxAttempts \in Nat \ {0}
                           /\ Caps \subseteq Nat
                           /\ PoolMode \in BOOLEAN
                           /\ MaxRuns \in Nat

VARIABLES
  outbox,         \* outbox.json of each home: message -> entry
  cursor,         \* state.json of each home: lane -> next index to try
  fresh,          \* messages not written yet
  proc,           \* memory of each process
  lost,           \* broadcast transactions that no process awaits any more
  doubt,          \* messages of transactions whose outcome went unread
  runs            \* commands started so far

vars == <<slot, outbox, cursor, fresh, proc, lost, doubt, runs>>

-----------------------------------------------------------------------------
(* Processes.                                                              *)

Tx == [lane : Lanes, batch : Seq(Item)]

Memory == [pc : {"idle", "seal", "submit", "await", "reseal"},
           cmd : {"flush", "send"},
           box : [Payloads -> Entry],       \* the Outbox object
           cursors : [Lanes -> Nat],        \* the loaded cursors
           taken : SUBSET Payloads,         \* what outbox.take returned
           todo : SUBSET Payloads,          \* taken, lane not reached yet
           lane : Lanes,                    \* channel being flushed
           batch : Seq(Item),               \* `current'
           rest : Seq(Item),                \* `remaining'
           attempt : 0..MaxAttempts,
           tx : {"none", "pending", "landed", "reverted"}]

NoProcess ==
  [pc |-> "idle", cmd |-> "flush",
   box |-> [m \in Payloads |-> Absent], cursors |-> [l \in Lanes |-> 0],
   taken |-> {}, todo |-> {}, lane |-> CHOOSE l \in Lanes : TRUE,
   batch |-> <<>>, rest |-> <<>>, attempt |-> 0, tx |-> "none"]

Init ==
  /\ SlotInit
  /\ outbox = [h \in Homes |-> [m \in Payloads |-> Absent]]
  /\ cursor = [h \in Homes |-> [l \in Lanes |-> 0]]
  /\ fresh = Payloads
  /\ proc = [p \in Procs |-> NoProcess]
  /\ lost = {}
  /\ doubt = {}
  /\ runs = 0

\* The process goes on as `me'; a mark has saved the whole outbox.
Becomes(p, me) == proc' = [proc EXCEPT ![p] = me]
SaveOutbox(p, box) ==
  outbox' = IF proc[p].cmd = "flush" THEN [outbox EXCEPT ![HomeOf[p]] = box] ELSE outbox

TheTx(me) == [lane |-> me.lane, batch |-> me.batch]
Call(t) == Calldata(t.lane, t.batch)

\* The command lets go of its transaction without having read what became of
\* it.  If it is still out it may land later, or never.
Abandon(p) ==
  /\ lost' = IF proc[p].tx \in {"landed", "reverted"} THEN lost
                                                     ELSE lost \cup {TheTx(proc[p])}
  /\ doubt' = doubt \cup Msgs(proc[p].batch)

-----------------------------------------------------------------------------
(* Starting a command.                                                     *)

\* The user writes his messages in order, and queues or sends each one.
Written(h) == Oldest({m \in fresh : MsgHome[m] = h})

\* `msg queue': loads the outbox, appends an entry, saves.
Queue(m) ==
  /\ m \in Written(MsgHome[m])
  /\ outbox' = [outbox EXCEPT ![MsgHome[m]][m] = Queued]
  /\ fresh' = fresh \ {m}
  /\ UNCHANGED <<slot, cursor, proc, lost, doubt, runs>>

\* `msg flush --max n': with nothing queued it ends at once.
StartFlush(p) ==
  /\ proc[p].pc = "idle"
  /\ runs < MaxRuns
  /\ \E max \in Caps :
       LET taken == Take(outbox[HomeOf[p]], max)
       IN  /\ taken # {}
           /\ Becomes(p, [NoProcess EXCEPT !.pc = "seal", !.cmd = "flush",
                                           !.box = outbox[HomeOf[p]],
                                           !.cursors = cursor[HomeOf[p]],
                                           !.taken = taken, !.todo = taken])
  /\ runs' = runs + 1
  /\ UNCHANGED <<slot, outbox, cursor, fresh, lost, doubt>>

\* `msg send': one message, past the outbox.
StartSend(p) ==
  /\ proc[p].pc = "idle"
  /\ runs < MaxRuns
  /\ \E m \in Written(HomeOf[p]) :
       /\ Becomes(p, [NoProcess EXCEPT !.pc = "seal", !.cmd = "send",
                                       !.cursors = cursor[HomeOf[p]],
                                       !.taken = {m}, !.todo = {m}])
       /\ fresh' = fresh \ {m}
  /\ runs' = runs + 1
  /\ UNCHANGED <<slot, outbox, cursor, lost, doubt>>

-----------------------------------------------------------------------------
(* Sealing and submitting.                                                 *)

\* The top of the `while (toSend.length > 0)' loop, up to the submission.
NextTransaction(me, batch, rest) ==
  [me EXCEPT !.pc = "submit", !.batch = batch, !.rest = rest, !.attempt = 1,
             !.tx = "none",
             !.box = IF PoolMode /\ me.cmd = "flush" THEN Mark(me.box, batch, "proving")
                                                     ELSE me.box]

\* The next lane: its messages are sealed from the first free index on.
SealLane(p) ==
  LET me == proc[p] IN
  /\ me.pc = "seal"
  /\ \E first \in Oldest(me.todo) :
       LET lane == LaneOf[first]
           entries == {m \in me.todo : LaneOf[m] = lane}
       IN  \E msgs \in OldestFirst(entries), start \in NextFree(lane, me.cursors[lane]) :
             LET next == NextTransaction([me EXCEPT !.lane = lane, !.todo = @ \ entries],
                                         Sealed(msgs, start), <<>>)
             IN  /\ Becomes(p, next)
                 /\ IF PoolMode THEN SaveOutbox(p, next.box) ELSE UNCHANGED outbox
  /\ UNCHANGED <<slot, cursor, fresh, lost, doubt, runs>>

\* The transaction is out.  In direct mode its fee was estimated, against the
\* chain as it is, so one the contract refuses does not get this far; a proof
\* is made ten blocks behind the head and shows nothing.
Broadcast(p) ==
  LET me == proc[p]
      box == IF me.cmd = "flush" THEN Mark(me.box, me.batch, "submitted") ELSE me.box
  IN
  /\ me.pc = "submit"
  /\ PoolMode \/ Accepts(Pool, Call(TheTx(me)))
  /\ Becomes(p, [me EXCEPT !.pc = "await", !.tx = "pending", !.box = box])
  /\ SaveOutbox(p, box)
  /\ UNCHANGED <<slot, cursor, fresh, lost, doubt, runs>>

\* The network executes the transaction.
Include(p) ==
  LET me == proc[p]
      accepted == Accepts(Pool, Call(TheTx(me)))
  IN
  /\ me.pc = "await"
  /\ me.tx = "pending"
  /\ PrivacyInvoke(Pool, Call(TheTx(me)))
  /\ Becomes(p, [me EXCEPT !.tx = IF accepted THEN "landed" ELSE "reverted"])
  /\ UNCHANGED <<outbox, cursor, fresh, lost, doubt, runs>>

\* It runs out of gas, or the account or the pool refuses it: the helper is
\* not reached.
RevertsOutside(p) ==
  /\ proc[p].pc = "await"
  /\ proc[p].tx = "pending"
  /\ Becomes(p, [proc[p] EXCEPT !.tx = "reverted"])
  /\ UNCHANGED <<slot, outbox, cursor, fresh, lost, doubt, runs>>

\* One that nobody waits for is executed as well.
IncludeLost(t) ==
  /\ t \in lost
  /\ PrivacyInvoke(Pool, Call(t))
  /\ lost' = lost \ {t}
  /\ UNCHANGED <<outbox, cursor, fresh, proc, doubt, runs>>

-----------------------------------------------------------------------------
(* Success.                                                                *)

LastIndex(items) == CHOOSE i \in {items[k].index : k \in DOMAIN items} :
                      \A k \in DOMAIN items : items[k].index <= i

\* A copy of CursorPast that skips one slot too many.
CursorPastSkips(items) == LastIndex(items) + 2

\* maxIndex + 1.
CursorPast(items) == LastIndex(items) + 1

\* After a confirmation: the part that was cut off, the next lane, or the end.
Continue(me) ==
  IF me.rest # <<>> THEN NextTransaction(me, me.rest, <<>>)
  ELSE IF me.todo # {} THEN [me EXCEPT !.pc = "seal", !.batch = <<>>, !.tx = "none"]
  ELSE NoProcess

\* A copy of Succeeded that takes any receipt for a success.
SucceededAnyReceipt(p) == proc[p].pc = "await" /\ proc[p].tx \in {"landed", "reverted"}

\* awaitSuccess returns: a receipt, and it says the transaction succeeded.
Succeeded(p) == proc[p].pc = "await" /\ proc[p].tx = "landed"

\* The entries are marked, then the cursors are saved, all of them.
Confirm(p) ==
  LET me == proc[p]
      box == IF me.cmd = "flush" THEN MarkConfirmed(me.box, me.batch) ELSE me.box
      done == [me EXCEPT !.box = box, !.cursors[me.lane] = CursorPast(me.batch)]
  IN
  /\ Succeeded(p)
  /\ Becomes(p, Continue(done))
  /\ SaveOutbox(p, IF Continue(done).pc = "submit" THEN Continue(done).box ELSE box)
  /\ cursor' = [cursor EXCEPT ![HomeOf[p]] = done.cursors]
  /\ UNCHANGED <<slot, fresh, lost, doubt, runs>>

-----------------------------------------------------------------------------
(* Failure: the catch block of submitWithResilience.                       *)

\* Out of attempts, or `msg send', which makes only one: the error is thrown
\* and the command ends.  Its entries keep the status they have.
GiveUp(p) ==
  /\ proc[p].attempt >= MaxAttempts \/ proc[p].cmd = "send"
  /\ Becomes(p, NoProcess)

Retry(p, me) == Becomes(p, [me EXCEPT !.attempt = @ + 1, !.tx = "none"])

MayRetry(p) == proc[p].attempt < MaxAttempts /\ proc[p].cmd = "flush"

\* Copies of Halve: one sends the second half first, one forgets what an
\* earlier halving has cut off.
HalveTailFirst(p) ==
  Retry(p, [proc[p] EXCEPT !.pc = "submit", !.batch = BackHalf(@),
                           !.rest = FrontHalf(proc[p].batch) \o @])
HalveForgets(p) ==
  Retry(p, [proc[p] EXCEPT !.pc = "submit", !.batch = FrontHalf(@),
                           !.rest = BackHalf(proc[p].batch)])

\* proof-size: the first half now, the second before what was cut off earlier.
Halve(p) ==
  Retry(p, [proc[p] EXCEPT !.pc = "submit", !.batch = FrontHalf(@),
                           !.rest = BackHalf(proc[p].batch) \o @])

Again(p) == Retry(p, [proc[p] EXCEPT !.pc = "submit"])

Fail(p, kind) ==
  \/ GiveUp(p)
  \/ /\ MayRetry(p)
     /\ \/ kind = "proof-size" /\ Len(proc[p].batch) > 1 /\ Halve(p)
        \/ kind = "slot-conflict" /\ Retry(p, [proc[p] EXCEPT !.pc = "reseal"])
        \/ kind = "proof-size" /\ Len(proc[p].batch) <= 1 /\ Again(p)
        \/ kind = "other" /\ Again(p)

\* Proving, estimation or the gateway refuses; "other" includes "nonce", which
\* the code treats alike.  After an "other" the transaction may be out.
SubmitFails(p, kind) ==
  /\ proc[p].pc = "submit"
  /\ kind = "slot-conflict" => ~ Accepts(Pool, Call(TheTx(proc[p])))
  /\ \/ UNCHANGED <<lost, doubt>>
     \/ kind = "other" /\ Abandon(p)
  /\ Fail(p, kind)
  /\ UNCHANGED <<slot, outbox, cursor, fresh, runs>>

\* A receipt that says the transaction reverted, and why.
Reverted(p, kind) ==
  /\ proc[p].pc = "await"
  /\ proc[p].tx = "reverted"
  /\ kind = "slot-conflict" => ~ Accepts(Pool, Call(TheTx(proc[p])))
  /\ Fail(p, kind)
  /\ UNCHANGED <<slot, outbox, cursor, fresh, lost, doubt, runs>>

\* The wait itself fails, whatever became of the transaction.
AnswerLost(p) ==
  /\ proc[p].pc = "await"
  /\ Abandon(p)
  /\ Fail(p, "other")
  /\ UNCHANGED <<slot, outbox, cursor, fresh, runs>>

\* reseal: the whole current batch at fresh indices, from the process's own
\* cursor; what was cut off keeps the indices it was sealed at.
Reseal(p) ==
  LET me == proc[p] IN
  /\ me.pc = "reseal"
  /\ \E start \in NextFree(me.lane, me.cursors[me.lane]) :
       Becomes(p, [me EXCEPT !.pc = "submit", !.batch = Sealed(Texts(me.batch), start)])
  /\ UNCHANGED <<slot, outbox, cursor, fresh, lost, doubt, runs>>

-----------------------------------------------------------------------------
(* The process ends at any await: it is killed, or a call outside the try  *)
(* block (a walk, the block number) throws.                                *)

Crash(p) ==
  /\ proc[p].pc # "idle"
  /\ \/ proc[p].pc # "await" /\ UNCHANGED <<lost, doubt>>
     \/ proc[p].pc \in {"submit", "await"} /\ Abandon(p)
  /\ Becomes(p, NoProcess)
  /\ UNCHANGED <<slot, outbox, cursor, fresh, runs>>

\* Killed in Confirm, between the two files it writes.
CrashBetweenSaves(p) ==
  /\ Succeeded(p)
  /\ proc[p].cmd = "flush"
  /\ SaveOutbox(p, MarkConfirmed(proc[p].box, proc[p].batch))
  /\ Becomes(p, NoProcess)
  /\ UNCHANGED <<slot, cursor, fresh, lost, doubt, runs>>

-----------------------------------------------------------------------------
FailureKind == {"proof-size", "slot-conflict", "other"}

\* What a running command does, the network's answers to it included.
Advance(p) ==
  \/ SealLane(p)
  \/ Broadcast(p)
  \/ Include(p)
  \/ RevertsOutside(p)
  \/ Confirm(p)
  \/ \E kind \in FailureKind : SubmitFails(p, kind) \/ Reverted(p, kind)
  \/ AnswerLost(p)
  \/ Reseal(p)

Next ==
  \/ \E m \in Payloads : Queue(m)
  \/ \E p \in Procs : StartFlush(p) \/ StartSend(p)
  \/ \E p \in Procs : Advance(p)
  \/ \E p \in Procs : Crash(p) \/ CrashBetweenSaves(p)
  \/ \E t \in lost : IncludeLost(t)

Spec == Init /\ [][Next]_vars

-----------------------------------------------------------------------------
(* Properties.                                                             *)

\* Every variable has its type; no process starts an attempt beyond the last.
TypeOK ==
  /\ DOMAIN slot \subseteq MsgId
  /\ \A id \in DOMAIN slot : slot[id] \in Payloads
  /\ outbox \in [Homes -> [Payloads -> Entry]]
  /\ cursor \in [Homes -> [Lanes -> Nat]]
  /\ fresh \subseteq Payloads
  /\ proc \in [Procs -> Memory]
  /\ lost \subseteq Tx
  /\ doubt \subseteq Payloads
  /\ runs \in 0..MaxRuns

\* A cursor, saved or in a process's memory, never points past the end of its
\* lane: a walk that starts at it cannot leave a gap, though commands overwrite
\* each other's cursor file with what they once loaded.
CursorSound ==
  /\ \A h \in Homes, l \in Lanes : \A i \in 0 .. cursor[h][l]-1 : Occupied(l, i)
  /\ \A p \in Procs, l \in Lanes : \A i \in 0 .. proc[p].cursors[l]-1 : Occupied(l, i)

\* "confirmed" is true: the entry's message is stored in its lane at the index
\* the entry names, also after reseals, halves and chained transactions.
ConfirmedOnChain ==
  \A h \in Homes, m \in Payloads :
    outbox[h][m].status = "confirmed" =>
      LET id == <<LaneOf[m], outbox[h][m].index>>
      IN  id \in DOMAIN slot /\ slot[id] = m

\* Confirmed messages to one lane are stored in the order they were queued in.
OrderKept ==
  \A h \in Homes : \A m, n \in Payloads :
    /\ m < n /\ LaneOf[m] = LaneOf[n]
    /\ outbox[h][m].status = "confirmed" /\ outbox[h][n].status = "confirmed"
    => outbox[h][m].index < outbox[h][n].index

\* A running flush accounts for every entry it took: it waits for its lane, is
\* in the current batch, was cut off for a chained transaction, or is confirmed.
NothingDropped ==
  \A p \in Procs :
    LET me == proc[p] IN
    me.pc # "idle" =>
      \A m \in me.taken :
        \/ m \in me.todo \cup Msgs(me.batch) \cup Msgs(me.rest)
        \/ me.box[m].status = "confirmed"

\* The retry loop never sends a message twice by itself: a message is stored
\* in more than one slot only if the outcome of one of its transactions went
\* unread.  (For homes over which one command runs at a time.)
AtMostOnce ==
  \A m \in Payloads \ doubt : Cardinality({id \in DOMAIN slot : slot[id] = m}) <= 1
=============================================================================
