----------------------------- MODULE SyncEngine -----------------------------
(***************************************************************************)
(* The sync engine: rebuilds the message history of the known lanes by     *)
(* walking their slots, against lanes that grow meanwhile.  It runs in     *)
(* several processes over one snapshot file: commands of one home, or two  *)
(* tabs of one browser.                                                    *)
(*                                                                         *)
(* The lanes are the logs of LaneLog, which is what their writers          *)
(* implement; every landed transaction makes a block.  A snapshot is       *)
(* loaded and saved whole, a save is atomic (temporary file and rename),   *)
(* and a step is the code between two awaits, except that another process  *)
(* may save between the last save of a lane and the load that follows it.  *)
(*                                                                         *)
(* Left out: updatedAt, the counts of a result, sender and timestamp of a  *)
(* record.  Bound: MaxBlocks blocks.                                       *)
(***************************************************************************)
EXTENDS LaneLog, FiniteSets

CONSTANTS
  Batches,        \* what one transaction may append to a lane
  Syncers,        \* processes
  Window,         \* slots read in one round trip
  FullScans,      \* may a sync be started with fromScratch (`msg sync --full')?
  MaxBlocks       \* bound

ASSUME BatchesAssumption ==
  \A b \in Batches : /\ b \in Seq(Payloads)
                     /\ b # <<>>
                     /\ \A i, j \in DOMAIN b : i # j => b[i] # b[j]
ASSUME SyncAssumption == /\ Window \in Nat \ {0} /\ MaxBlocks \in Nat
                         /\ FullScans \in BOOLEAN /\ Lanes # {}

VARIABLES
  blocks,         \* blocks[b][l] : length of lane l after block b
  known,          \* lanes in the configuration (or of the contacts and groups)
  store,          \* the snapshot on disk
  eng             \* memory of each process

vars == <<log, blocks, known, store, eng>>

-----------------------------------------------------------------------------
(* Snapshots.                                                              *)

HistoryRecord == [lane : Lanes, index : Nat, payload : Payloads]

\* SyncSnapshot.  `covers' is not in the code: the lanes walked by the sync
\* that set syncedTo (0 stands for null).
Snapshot == [syncedTo : Nat, covers : SUBSET Lanes, scannedTo : [Lanes -> Nat],
             messages : SUBSET HistoryRecord]

EmptySnapshot == [syncedTo |-> 0, covers |-> {}, scannedTo |-> [l \in Lanes |-> 0],
                  messages |-> {}]

Has(snapshot, l, i) == \E r \in snapshot.messages : r.lane = l /\ r.index = i

\* A copy of Erased that erases whether or not fromScratch was asked for.
ErasedAlways(snapshot, keys, full) ==
  [snapshot EXCEPT !.scannedTo = [l \in Lanes |-> IF l \in keys THEN 0 ELSE @[l]],
                   !.messages = {r \in @ : r.lane \notin keys}]

\* fromScratch: forget the lanes about to be walked, and nothing else.
Erased(snapshot, keys, full) ==
  IF ~ full THEN snapshot
  ELSE [snapshot EXCEPT !.scannedTo = [l \in Lanes |-> IF l \in keys THEN 0 ELSE @[l]],
                   !.messages = {r \in @ : r.lane \notin keys}]

\* Where the window from index i ends: at its first empty slot, if it has one.
WindowEnd(l, i) ==
  IF Len(log[l]) >= i + Window THEN i + Window
  ELSE IF Len(log[l]) >= i THEN Len(log[l]) ELSE i

\* Copies of NextIndex: one always goes a whole window further, one stays.
NextIndexWindow(me) == me.i + Window
NextIndexStays(me) == me.i

\* Where the next window starts: behind this one, or at the empty slot.
NextIndex(me) == me.end

\* The payloads of a window are stored, and only then is scannedTo advanced.
WithWindow(snapshot, me) ==
  LET new == {i \in me.i .. me.end - 1 : ~ Has(snapshot, me.lane, i)}
  IN  [snapshot EXCEPT
         !.scannedTo[me.lane] = NextIndex(me),
         !.messages = @ \cup {[lane |-> me.lane, index |-> i,
                               payload |-> log[me.lane][i + 1]] : i \in new}]

-----------------------------------------------------------------------------
(* Processes.                                                              *)

Memory == [pc : {"idle", "block", "lens", "payloads", "reload"},
           full : BOOLEAN,
           keys : SUBSET Lanes,             \* channelKeys
           todo : SUBSET Lanes,             \* lanes not reached yet
           lane : Lanes, i : Nat,
           end : Nat,                       \* end of the window's occupied slots
           startBlock : Nat,
           snapshot : Snapshot]

NoSync == [pc |-> "idle", full |-> FALSE, keys |-> {}, todo |-> {},
           lane |-> CHOOSE l \in Lanes : TRUE, i |-> 0, end |-> 0, startBlock |-> 0,
           snapshot |-> EmptySnapshot]

Init ==
  /\ LogInit
  /\ blocks = <<>>
  /\ known = {}
  /\ store = EmptySnapshot
  /\ eng = [p \in Syncers |-> NoSync]

Becomes(p, me) == eng' = [eng EXCEPT ![p] = me]

-----------------------------------------------------------------------------
(* The surroundings.                                                       *)

\* Someone's transaction lands: a block.
Arrive(l) ==
  /\ Len(blocks) < MaxBlocks
  /\ \E batch \in Batches : log' = [log EXCEPT ![l] = @ \o batch]
  /\ blocks' = Append(blocks, [k \in Lanes |-> Len(log'[k])])
  /\ UNCHANGED <<known, store, eng>>

\* `msg channel add', the discovery scan, or a new contact.
LearnLane(l) ==
  /\ l \notin known
  /\ known' = known \cup {l}
  /\ UNCHANGED <<log, blocks, store, eng>>

-----------------------------------------------------------------------------
(* sync(channelKeys, opts).                                                *)

StartSync(p) ==
  /\ eng[p].pc = "idle"
  /\ \E full \in {FALSE, FullScans} :
       Becomes(p, [NoSync EXCEPT !.pc = "block", !.full = full, !.keys = known])
  /\ UNCHANGED <<log, blocks, known, store>>

\* A copy of Watermark that takes the block at the end of the scan.
WatermarkAtEnd(me) == Len(blocks)

\* The block observed before the scan started.
Watermark(me) == me.startBlock

\* The lanes are walked in the order of the configuration: any order.
NextLane(p, me) ==
  IF me.todo = {}
    THEN /\ store' = [me.snapshot EXCEPT !.syncedTo = Watermark(me), !.covers = me.keys]
         /\ Becomes(p, NoSync)
    ELSE /\ store' = me.snapshot
         /\ \E l \in me.todo :
              Becomes(p, [me EXCEPT !.pc = "lens", !.lane = l, !.todo = @ \ {l},
                                    !.i = me.snapshot.scannedTo[l]])

\* The block number arrives; the snapshot is loaded, and erased and saved
\* when the scan is to start from scratch.
BlockNumber(p) ==
  /\ eng[p].pc = "block"
  /\ NextLane(p, [eng[p] EXCEPT !.startBlock = Len(blocks), !.todo = eng[p].keys,
                                !.snapshot = Erased(store, eng[p].keys, eng[p].full)])
  /\ UNCHANGED <<log, blocks, known>>

\* slotLens: the lengths of one window arrive.
SlotLens(p) ==
  LET me == eng[p] IN
  /\ me.pc = "lens"
  /\ Becomes(p, [me EXCEPT !.pc = "payloads", !.end = WindowEnd(me.lane, me.i)])
  /\ UNCHANGED <<log, blocks, known, store>>

\* The last of the window's payloads arrives; the window is saved.
StoreWindow(p) ==
  LET me == eng[p]
      snapshot == WithWindow(me.snapshot, me)
  IN
  /\ me.pc = "payloads"
  /\ store' = snapshot
  /\ Becomes(p, [me EXCEPT !.pc = IF me.end = me.i + Window THEN "lens" ELSE "reload",
                           !.i = NextIndex(me), !.end = 0, !.snapshot = snapshot])
  /\ UNCHANGED <<log, blocks, known>>

\* A lane is done: the snapshot is loaded again, for the next lane or the end.
Reload(p) ==
  /\ eng[p].pc = "reload"
  /\ NextLane(p, [eng[p] EXCEPT !.snapshot = store])
  /\ UNCHANGED <<log, blocks, known>>

\* The process is killed, a read fails, a ciphertext does not open, or
\* onWindow throws: what was saved stays.
Interrupt(p) ==
  /\ eng[p].pc # "idle"
  /\ Becomes(p, NoSync)
  /\ UNCHANGED <<log, blocks, known, store>>

Next ==
  \/ \E l \in Lanes : Arrive(l) \/ LearnLane(l)
  \/ \E p \in Syncers :
       StartSync(p) \/ BlockNumber(p) \/ SlotLens(p) \/ StoreWindow(p) \/ Reload(p) \/ Interrupt(p)

Spec == Init /\ [][Next]_vars
-----------------------------------------------------------------------------
(* Properties.                                                             *)

\* The length of a lane after block b of the chain bs.
LengthAt(bs, b, l) == IF b = 0 THEN 0 ELSE bs[b][l]

\* A snapshot holds of each lane (of the logs lg) the messages below scannedTo,
\* all of them and no other, each under the index it has in the lane.
Sound(lg, snapshot) ==
  /\ \A l \in Lanes : snapshot.scannedTo[l] <= Len(lg[l])
  /\ \A l \in Lanes : \A i \in 0 .. snapshot.scannedTo[l] - 1 : Has(snapshot, l, i)
  /\ \A r \in snapshot.messages : /\ r.index < snapshot.scannedTo[r.lane]
                                  /\ r.payload = lg[r.lane][r.index + 1]

\* Every variable has its type, and a watermark names a block that exists.
TypeOK ==
  /\ log \in [Lanes -> Seq(Payloads)]
  /\ blocks \in Seq([Lanes -> Nat])
  /\ known \subseteq Lanes
  /\ store \in Snapshot /\ store.syncedTo <= Len(blocks)
  /\ eng \in [Syncers -> Memory]
  /\ \A p \in Syncers : /\ eng[p].startBlock <= Len(blocks)
                        /\ eng[p].snapshot.syncedTo <= Len(blocks)

\* The history is free of gaps and of duplicates, and no message is attributed
\* to another index, whatever syncs overlapped, were interrupted or were
\* started from scratch, and whose snapshot was saved last.
HistorySound == Sound(log, store)

\* The watermark never overstates what has been seen: of every lane that the
\* sync which set it walked, all that landed up to that block is stored.
WatermarkHonest ==
  \A l \in store.covers : \A i \in 0 .. LengthAt(blocks, store.syncedTo, l) - 1 :
    Has(store, l, i)

\* No restart forgets: a message in the saved history stays there.
HistoryGrows == [][store.messages \subseteq store'.messages]_store

\* Everything in the known lanes ends up in the history and stays there,
\* although syncs are interrupted again and again.
CatchesUp ==
  <>[](\A l \in known : \A i \in 0 .. Len(log[l]) - 1 : Has(store, l, i))

\* Syncs are started again and again (every 15 s by the workspace), and a read
\* that is repeated often enough, whatever interrupts the others, is answered.
FairSpec ==
  /\ Spec
  /\ \A p \in Syncers :
       /\ WF_vars(StartSync(p)) /\ SF_vars(BlockNumber(p))
       /\ \A l \in Lanes : /\ SF_vars(eng[p].lane = l /\ SlotLens(p))
                           /\ SF_vars(eng[p].lane = l /\ StoreWindow(p))
                           /\ SF_vars(eng[p].lane = l /\ Reload(p))

-----------------------------------------------------------------------------
(* The inductive invariants.                                               *)

\* What a process holds is sound as well, and it walks on where it stopped;
\* an end it has been told was true then and stays true.
MemorySound(lg, me) ==
  /\ Sound(lg, me.snapshot)
  /\ me.pc \in {"lens", "payloads"} => me.i = me.snapshot.scannedTo[me.lane]
  /\ me.pc = "payloads" => me.i <= me.end /\ me.end <= Len(lg[me.lane])

IInv == TypeOK /\ Sound(log, store) /\ \A p \in Syncers : MemorySound(log, eng[p])

\* For a single process and without fromScratch: what it holds is what is on
\* disk, and of the lanes it is done with it has all that its watermark will
\* claim.
Done(me) == IF me.pc = "reload" THEN me.keys \ me.todo ELSE me.keys \ (me.todo \cup {me.lane})

Scanned(bs, snapshot, lanes, block) ==
  \A l \in lanes : LengthAt(bs, block, l) <= snapshot.scannedTo[l]

WMemory(bs, snapshot, me) ==
  /\ ~ me.full
  /\ me.pc \in {"lens", "payloads", "reload"} =>
       me.snapshot = snapshot /\ Scanned(bs, snapshot, Done(me), me.startBlock)
  /\ me.pc = "payloads" /\ me.end # me.i + Window =>
       LengthAt(bs, me.startBlock, me.lane) <= me.end

WInv ==
  /\ \A b \in 1 .. Len(blocks) : \A l \in Lanes : blocks[b][l] <= Len(log[l])
  /\ Scanned(blocks, store, store.covers, store.syncedTo)
  /\ \A p \in Syncers : WMemory(blocks, store, eng[p])
=============================================================================
