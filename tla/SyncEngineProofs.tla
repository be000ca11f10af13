-------------------------- MODULE SyncEngineProofs --------------------------
(***************************************************************************)
(* Proofs about the sync engine: its history is sound for every number of  *)
(* processes, lanes and window size, and for a single process that never   *)
(* rescans from scratch its watermark is honest and its history only grows.*)
(*                                                                         *)
(* And about what the application makes of the lanes it read: Threads, the *)
(* conversation of two users.  A payment settles one request and settles   *)
(* it for good, the two clients agree, and the ticks are of notes that are *)
(* there, for any amounts, clocks and lengths of the lanes.                *)
(***************************************************************************)
EXTENDS SyncEngine, Threads, FiniteSetTheorems, SequenceTheorems, NaturalsInduction,
        WellFoundedInduction, TLAPS

-----------------------------------------------------------------------------
(* Snapshots.                                                              *)

LEMMA SnapshotFields ==
  ASSUME NEW s \in Snapshot
  PROVE  /\ s.syncedTo \in Nat /\ s.covers \subseteq Lanes
         /\ s.scannedTo \in [Lanes -> Nat] /\ s.messages \subseteq HistoryRecord
  BY DEF Snapshot

LEMMA EmptySnapshotSound ==
  ASSUME NEW lg \in [Lanes -> Seq(Payloads)]
  PROVE  EmptySnapshot \in Snapshot /\ Sound(lg, EmptySnapshot)
<1>1. EmptySnapshot \in Snapshot
  BY DEF EmptySnapshot, Snapshot
<1>2. Sound(lg, EmptySnapshot)
  <2>1. \A l \in Lanes : Len(lg[l]) \in Nat
    OBVIOUS
  <2>2. QED
    BY <2>1 DEF EmptySnapshot, Sound
<1>3. QED
  BY <1>1, <1>2

\* Forgetting whole lanes keeps a snapshot sound.
LEMMA ErasedSound ==
  ASSUME NEW lg \in [Lanes -> Seq(Payloads)],
         NEW s \in Snapshot, Sound(lg, s),
         NEW keys \in SUBSET Lanes, NEW full \in BOOLEAN
  PROVE  /\ Erased(s, keys, full) \in Snapshot
         /\ Sound(lg, Erased(s, keys, full))
<1> DEFINE from == [l \in Lanes |-> IF l \in keys THEN 0 ELSE s.scannedTo[l]]
           kept == {r \in s.messages : r.lane \notin keys}
           new == [s EXCEPT !.scannedTo = from, !.messages = kept]
<1>1. CASE ~ full
  BY <1>1 DEF Erased
<1>2. CASE full
  <2>1. Erased(s, keys, full) = new
    BY <1>2, SnapshotFields DEF Erased
  <2>2. from \in [Lanes -> Nat] /\ kept \in SUBSET HistoryRecord
    BY SnapshotFields
  <2> HIDE DEF from, kept
  <2>3. new \in Snapshot
    BY <2>2, Zenon DEF Snapshot
  <2>4. new.scannedTo = from /\ new.messages = kept
    BY DEF Snapshot
  <2> HIDE DEF new
  <2>5. \A l \in Lanes : new.scannedTo[l] <= Len(lg[l])
    <3>1. SUFFICES ASSUME NEW l \in Lanes
                   PROVE  new.scannedTo[l] <= Len(lg[l])
      OBVIOUS
    <3>2. lg[l] \in Seq(Payloads)
      OBVIOUS
    <3>3. Len(lg[l]) \in Nat /\ s.scannedTo[l] <= Len(lg[l])
      BY <3>2, LenProperties DEF Sound
    <3>4. new.scannedTo[l] = IF l \in keys THEN 0 ELSE s.scannedTo[l]
      BY <2>4 DEF from
    <3>5. QED
      BY <3>3, <3>4
  <2>6. \A l \in Lanes : \A i \in 0 .. new.scannedTo[l] - 1 : Has(new, l, i)
    <3>1. SUFFICES ASSUME NEW l \in Lanes, NEW i \in 0 .. new.scannedTo[l] - 1
                   PROVE  Has(new, l, i)
      OBVIOUS
    <3>2. l \notin keys /\ new.scannedTo[l] = s.scannedTo[l]
      BY <2>4, <3>1 DEF from
    <3>3. Has(s, l, i)
      BY <3>1, <3>2 DEF Sound
    <3>4. QED
      BY <2>4, <3>2, <3>3 DEF Has, kept
  <2>7. \A r \in new.messages : /\ r.index < new.scannedTo[r.lane]
                                /\ r.payload = lg[r.lane][r.index + 1]
    <3>1. SUFFICES ASSUME NEW r \in new.messages
                   PROVE  /\ r.index < new.scannedTo[r.lane]
                          /\ r.payload = lg[r.lane][r.index + 1]
      OBVIOUS
    <3>2. r \in s.messages /\ r.lane \notin keys /\ r.lane \in Lanes
      BY <2>2, <2>4 DEF kept, HistoryRecord
    <3>3. new.scannedTo[r.lane] = s.scannedTo[r.lane]
      BY <2>4, <3>2 DEF from
    <3>4. QED
      BY <3>2, <3>3 DEF Sound
  <2>8. QED
    BY <2>1, <2>3, <2>5, <2>6, <2>7 DEF Sound
<1>3. QED
  BY <1>1, <1>2

\* Storing the window behind scannedTo keeps a snapshot sound.
LEMMA WithWindowSound ==
  ASSUME log \in [Lanes -> Seq(Payloads)],
         NEW me \in Memory, MemorySound(log, me), me.pc = "payloads"
  PROVE  /\ WithWindow(me.snapshot, me) \in Snapshot
         /\ Sound(log, WithWindow(me.snapshot, me))
         /\ WithWindow(me.snapshot, me).scannedTo = [me.snapshot.scannedTo EXCEPT ![me.lane] = me.end]
         /\ WithWindow(me.snapshot, me).syncedTo = me.snapshot.syncedTo
         /\ WithWindow(me.snapshot, me).covers = me.snapshot.covers
<1> DEFINE s == me.snapshot
           l == me.lane
           unseen == {i \in me.i .. me.end - 1 : ~ Has(s, l, i)}
           records == {[lane |-> l, index |-> i, payload |-> log[l][i + 1]] : i \in unseen}
           from == [s.scannedTo EXCEPT ![l] = me.end]
           all == s.messages \cup records
           new == [s EXCEPT !.scannedTo = from, !.messages = all]
<1>1. /\ s \in Snapshot /\ l \in Lanes /\ me.i \in Nat /\ me.end \in Nat
      /\ Sound(log, s) /\ me.i = s.scannedTo[l] /\ me.i <= me.end /\ me.end <= Len(log[l])
  BY DEF Memory, MemorySound
<1>2. WithWindow(s, me) = new
  BY <1>1, SnapshotFields DEF WithWindow, NextIndex
<1>3. \A r \in records : /\ r \in HistoryRecord /\ r.lane = l /\ r.index \in me.i .. me.end - 1
                         /\ r.payload = log[l][r.index + 1]
  <2>1. SUFFICES ASSUME NEW i \in unseen
                 PROVE  LET r == [lane |-> l, index |-> i, payload |-> log[l][i + 1]]
                        IN  /\ r \in HistoryRecord /\ r.lane = l
                            /\ r.index \in me.i .. me.end - 1 /\ r.payload = log[l][r.index + 1]
    OBVIOUS
  <2>2. i \in me.i .. me.end - 1
    OBVIOUS
  <2>3. i \in Nat /\ log[l][i + 1] \in Payloads
    <3>1. log[l] \in Seq(Payloads) /\ i + 1 \in 1 .. Len(log[l])
      BY <1>1, <2>2
    <3>2. QED
      BY <1>1, <2>2, <3>1, ElementOfSeq
  <2>4. QED
    BY <1>1, <2>2, <2>3 DEF HistoryRecord
<1>4. from \in [Lanes -> Nat] /\ all \in SUBSET HistoryRecord
  BY <1>1, <1>3, SnapshotFields
<1>5. unseen = {i \in me.i .. me.end - 1 : ~ Has(s, l, i)}
  OBVIOUS
<1>6. \A i \in unseen : \E r \in records : r.lane = l /\ r.index = i
  <2>1. SUFFICES ASSUME NEW i \in unseen
                 PROVE  \E r \in records : r.lane = l /\ r.index = i
    OBVIOUS
  <2> DEFINE r == [lane |-> l, index |-> i, payload |-> log[l][i + 1]]
  <2>2. r \in records /\ r.lane = l /\ r.index = i
    OBVIOUS
  <2>3. QED
    BY <2>2
<1> HIDE DEF records, unseen
<1>7. from = [k \in Lanes |-> IF k = l THEN me.end ELSE s.scannedTo[k]]
  BY <1>1, SnapshotFields
<1>8. all = s.messages \cup records
  OBVIOUS
<1> HIDE DEF from, all
<1>9. new \in Snapshot
  BY <1>1, <1>4, Zenon DEF Snapshot
<1>10. /\ new.scannedTo = from /\ new.messages = all
       /\ new.syncedTo = s.syncedTo /\ new.covers = s.covers
  BY <1>1 DEF Snapshot
<1> HIDE DEF new
<1>11. \A k \in Lanes : new.scannedTo[k] <= Len(log[k])
  BY <1>1, <1>7, <1>10 DEF Sound
<1>12. \A k \in Lanes : \A i \in 0 .. new.scannedTo[k] - 1 : Has(new, k, i)
  <2>1. SUFFICES ASSUME NEW k \in Lanes, NEW i \in 0 .. new.scannedTo[k] - 1
                 PROVE  Has(new, k, i)
    OBVIOUS
  <2>2. CASE Has(s, k, i)
    BY <1>8, <1>10, <2>2 DEF Has
  <2>3. CASE ~ Has(s, k, i)
    <3>1. s.scannedTo[k] \in Nat /\ ~ (i \in 0 .. s.scannedTo[k] - 1)
      BY <1>1, <2>3, SnapshotFields DEF Sound
    <3>2. k = l /\ i \in me.i .. me.end - 1
      BY <1>1, <1>7, <1>10, <2>1, <3>1
    <3>3. i \in unseen
      BY <1>5, <2>3, <3>2
    <3>4. QED
      BY <1>6, <1>8, <1>10, <3>2, <3>3 DEF Has
  <2>4. QED
    BY <2>2, <2>3
<1>13. \A r \in new.messages : /\ r.index < new.scannedTo[r.lane]
                               /\ r.payload = log[r.lane][r.index + 1]
  <2>1. SUFFICES ASSUME NEW r \in new.messages
                 PROVE  /\ r.index < new.scannedTo[r.lane]
                        /\ r.payload = log[r.lane][r.index + 1]
    OBVIOUS
  <2>2. r.lane \in Lanes /\ r.index \in Nat
    BY <1>4, <1>10 DEF HistoryRecord
  <2>3. CASE r \in s.messages
    <3>1. r.index < s.scannedTo[r.lane] /\ r.payload = log[r.lane][r.index + 1]
      BY <1>1, <2>3 DEF Sound
    <3>2. s.scannedTo[r.lane] \in Nat
      BY <1>1, <2>2, SnapshotFields
    <3>3. new.scannedTo[r.lane] = IF r.lane = l THEN me.end ELSE s.scannedTo[r.lane]
      BY <1>7, <1>10, <2>2
    <3>4. s.scannedTo[r.lane] <= new.scannedTo[r.lane] /\ new.scannedTo[r.lane] \in Nat
      BY <1>1, <3>2, <3>3
    <3>5. QED
      BY <2>2, <3>1, <3>2, <3>4
  <2>4. CASE r \in records
    BY <1>1, <1>3, <1>7, <1>10, <2>4
  <2>5. QED
    BY <1>8, <1>10, <2>3, <2>4
<1>14. QED
  BY <1>2, <1>9, <1>10, <1>11, <1>12, <1>13 DEF Sound, from

\* What was sound stays sound when the lanes grow.
LEMMA SoundGrows ==
  ASSUME NEW lg \in [Lanes -> Seq(Payloads)], NEW lg2 \in [Lanes -> Seq(Payloads)],
         \A l \in Lanes : /\ Len(lg[l]) <= Len(lg2[l])
                          /\ \A i \in 1 .. Len(lg[l]) : lg2[l][i] = lg[l][i],
         NEW s \in Snapshot, Sound(lg, s)
  PROVE  Sound(lg2, s)
<1>1. \A l \in Lanes : s.scannedTo[l] \in Nat /\ Len(lg[l]) \in Nat /\ Len(lg2[l]) \in Nat
  <2>1. SUFFICES ASSUME NEW l \in Lanes
                 PROVE  s.scannedTo[l] \in Nat /\ Len(lg[l]) \in Nat /\ Len(lg2[l]) \in Nat
    OBVIOUS
  <2>2. lg[l] \in Seq(Payloads) /\ lg2[l] \in Seq(Payloads)
    OBVIOUS
  <2>3. QED
    BY <2>2, SnapshotFields, LenProperties
<1>2. \A l \in Lanes : s.scannedTo[l] <= Len(lg2[l])
  <2>1. SUFFICES ASSUME NEW l \in Lanes
                 PROVE  s.scannedTo[l] <= Len(lg2[l])
    OBVIOUS
  <2>2. s.scannedTo[l] <= Len(lg[l]) /\ Len(lg[l]) <= Len(lg2[l])
    BY DEF Sound
  <2>3. QED
    BY <1>1, <2>2
<1>3. \A r \in s.messages : /\ r.index < s.scannedTo[r.lane]
                            /\ r.payload = lg2[r.lane][r.index + 1]
  <2>1. SUFFICES ASSUME NEW r \in s.messages
                 PROVE  /\ r.index < s.scannedTo[r.lane]
                        /\ r.payload = lg2[r.lane][r.index + 1]
    OBVIOUS
  <2>2. r.lane \in Lanes /\ r.index \in Nat
    BY SnapshotFields DEF HistoryRecord
  <2>3. r.index < s.scannedTo[r.lane] /\ s.scannedTo[r.lane] <= Len(lg[r.lane])
    BY <2>2 DEF Sound
  <2>4. r.index + 1 \in 1 .. Len(lg[r.lane])
    BY <1>1, <2>2, <2>3
  <2>5. QED
    BY <2>2, <2>3, <2>4 DEF Sound
<1>4. QED
  BY <1>2, <1>3 DEF Sound

-----------------------------------------------------------------------------
(* The invariant, in three parts.                                          *)

ChainOK == /\ log \in [Lanes -> Seq(Payloads)]
           /\ blocks \in Seq([Lanes -> Nat])
           /\ known \subseteq Lanes

StoreOK == store \in Snapshot /\ store.syncedTo <= Len(blocks) /\ Sound(log, store)

EngOK == /\ eng \in [Syncers -> Memory]
         /\ \A p \in Syncers : /\ MemorySound(log, eng[p])
                               /\ eng[p].startBlock <= Len(blocks)
                               /\ eng[p].snapshot.syncedTo <= Len(blocks)

LEMMA Parts == IInv <=> ChainOK /\ StoreOK /\ EngOK
  BY DEF IInv, TypeOK, ChainOK, StoreOK, EngOK

LEMMA PartsNext == IInv' <=> ChainOK' /\ StoreOK' /\ EngOK'
  BY DEF IInv, TypeOK, ChainOK, StoreOK, EngOK

LEMMA EngBecomes ==
  ASSUME EngOK, NEW p \in Syncers, NEW me \in Memory, Becomes(p, me),
         MemorySound(log, me), UNCHANGED <<log, blocks>>,
         me.startBlock <= Len(blocks), me.snapshot.syncedTo <= Len(blocks)
  PROVE  EngOK'
  BY DEF EngOK, Becomes

LEMMA NoSyncSound ==
  ASSUME NEW lg \in [Lanes -> Seq(Payloads)]
  PROVE  /\ NoSync \in Memory /\ MemorySound(lg, NoSync)
         /\ NoSync.startBlock = 0 /\ NoSync.snapshot.syncedTo = 0
<1>1. EmptySnapshot \in Snapshot /\ Sound(lg, EmptySnapshot)
  BY EmptySnapshotSound
<1>2. (CHOOSE l \in Lanes : TRUE) \in Lanes
  BY SyncAssumption
<1> DEFINE any == CHOOSE l \in Lanes : TRUE
<1> HIDE DEF any
<1>3. QED
  BY <1>1, <1>2 DEF NoSync, Memory, MemorySound, any, EmptySnapshot

\* On to the next lane, or to the end of the sync.
LEMMA NextLaneStep ==
  ASSUME IInv, NEW p \in Syncers, NEW me \in Memory,
         Sound(log, me.snapshot),
         me.startBlock <= Len(blocks), me.snapshot.syncedTo <= Len(blocks),
         NextLane(p, me), UNCHANGED <<log, blocks, known>>
  PROVE  IInv'
<1>1. ChainOK'
  BY Parts DEF ChainOK
<1>2. me.snapshot \in Snapshot /\ me.keys \subseteq Lanes /\ me.startBlock \in Nat
      /\ me.todo \subseteq Lanes
  BY DEF Memory
<1>3. CASE me.todo = {}
  <2> DEFINE new == [me.snapshot EXCEPT !.syncedTo = me.startBlock, !.covers = me.keys]
  <2>1. store' = new /\ Becomes(p, NoSync)
    BY <1>3 DEF NextLane, Watermark
  <2>2. new \in Snapshot
    BY <1>2, Zenon DEF Snapshot
  <2>3. /\ new.syncedTo = me.startBlock /\ new.scannedTo = me.snapshot.scannedTo
        /\ new.messages = me.snapshot.messages
    BY <1>2 DEF Snapshot
  <2> HIDE DEF new
  <2>4. Sound(log, new)
    BY <2>3 DEF Sound, Has
  <2>5. StoreOK'
    BY <2>1, <2>2, <2>3, <2>4 DEF StoreOK
  <2>6. Len(blocks) \in Nat
    BY Parts, LenProperties DEF ChainOK
  <2>7. EngOK'
    BY <2>1, <2>6, Parts, NoSyncSound, EngBecomes DEF ChainOK
  <2>8. QED
    BY <1>1, <2>5, <2>7, PartsNext
<1>4. CASE me.todo # {}
  <2>1. store' = me.snapshot
    BY <1>4 DEF NextLane
  <2>2. PICK l \in me.todo :
          Becomes(p, [me EXCEPT !.pc = "lens", !.lane = l, !.todo = @ \ {l},
                                !.i = me.snapshot.scannedTo[l]])
    BY <1>4 DEF NextLane
  <2> DEFINE i == me.snapshot.scannedTo[l]
             left == me.todo \ {l}
             next == [me EXCEPT !.pc = "lens", !.lane = l, !.todo = left, !.i = i]
  <2>3. Becomes(p, next)
    BY <2>2
  <2>4. l \in Lanes /\ i \in Nat /\ left \in SUBSET Lanes
    BY <1>2, SnapshotFields
  <2>5. next \in Memory
    BY <2>4, Zenon DEF Memory
  <2>6. /\ next.pc = "lens" /\ next.lane = l /\ next.i = i
        /\ next.snapshot = me.snapshot /\ next.startBlock = me.startBlock
    BY DEF Memory
  <2> HIDE DEF next
  <2>7. MemorySound(log, next)
    BY <2>6 DEF MemorySound
  <2>8. EngOK'
    BY <2>3, <2>5, <2>6, <2>7, Parts, EngBecomes
  <2>9. StoreOK'
    <3>1. me.snapshot.syncedTo <= Len(blocks)
      OBVIOUS
    <3>2. QED
      BY <1>2, <2>1, <3>1 DEF StoreOK
  <2>10. QED
    BY <1>1, <2>8, <2>9, PartsNext
<1>5. QED
  BY <1>3, <1>4

-----------------------------------------------------------------------------
(* One lemma per action.                                                   *)

LEMMA EngFacts ==
  ASSUME IInv, NEW p \in Syncers
  PROVE  /\ eng[p] \in Memory /\ MemorySound(log, eng[p])
         /\ eng[p].snapshot \in Snapshot /\ Sound(log, eng[p].snapshot)
         /\ eng[p].startBlock <= Len(blocks) /\ eng[p].snapshot.syncedTo <= Len(blocks)
<1>1. eng[p] \in Memory /\ MemorySound(log, eng[p])
  BY Parts DEF EngOK
<1>2. eng[p].snapshot \in Snapshot
  BY <1>1 DEF Memory
<1>3. QED
  BY <1>1, <1>2, Parts DEF EngOK, MemorySound

\* A landing extends one lane and makes a block.
LEMMA ArriveGrows ==
  ASSUME IInv, NEW l \in Lanes, Arrive(l)
  PROVE  /\ log' \in [Lanes -> Seq(Payloads)]
         /\ \A k \in Lanes : /\ Len(log[k]) <= Len(log'[k])
                             /\ \A i \in 1 .. Len(log[k]) : log'[k][i] = log[k][i]
         /\ blocks' \in Seq([Lanes -> Nat]) /\ Len(blocks') = Len(blocks) + 1
         /\ \A k \in Lanes : blocks'[Len(blocks) + 1][k] = Len(log'[k])
         /\ \A b \in 1 .. Len(blocks) : blocks'[b] = blocks[b]
<1>1. PICK batch \in Batches : log' = [log EXCEPT ![l] = log[l] \o batch]
  BY DEF Arrive
<1>2. batch \in Seq(Payloads) /\ log \in [Lanes -> Seq(Payloads)] /\ blocks \in Seq([Lanes -> Nat])
  BY Parts, BatchesAssumption DEF ChainOK
<1>3. log[l] \in Seq(Payloads)
  BY <1>2
<1>4. /\ log[l] \o batch \in Seq(Payloads)
      /\ Len(log[l] \o batch) = Len(log[l]) + Len(batch)
      /\ \A i \in 1 .. Len(log[l]) : (log[l] \o batch)[i] = log[l][i]
  <2>1. Len(log[l]) \in Nat /\ Len(batch) \in Nat
    BY <1>2, <1>3, LenProperties
  <2>2. QED
    BY <1>2, <1>3, <2>1, ConcatProperties
<1> DEFINE longer == log[l] \o batch
<1>5. log' \in [Lanes -> Seq(Payloads)] /\ \A k \in Lanes : log'[k] = IF k = l THEN longer ELSE log[k]
  BY <1>1, <1>2, <1>4
<1>6. Len(batch) \in Nat /\ \A k \in Lanes : Len(log[k]) \in Nat /\ Len(log'[k]) \in Nat
  <2>1. \A k \in Lanes : log[k] \in Seq(Payloads) /\ log'[k] \in Seq(Payloads)
    BY <1>2, <1>5
  <2>2. QED
    BY <1>2, <2>1, LenProperties
<1>7. \A k \in Lanes : /\ Len(log[k]) <= Len(log'[k])
                       /\ \A i \in 1 .. Len(log[k]) : log'[k][i] = log[k][i]
  <2>1. SUFFICES ASSUME NEW k \in Lanes
                 PROVE  /\ Len(log[k]) <= Len(log'[k])
                        /\ \A i \in 1 .. Len(log[k]) : log'[k][i] = log[k][i]
    OBVIOUS
  <2>2. CASE k = l
    BY <1>4, <1>5, <1>6, <2>2
  <2>3. CASE k # l
    BY <1>5, <1>6, <2>3
  <2>4. QED
    BY <2>2, <2>3
<1> DEFINE lengths == [k \in Lanes |-> Len(log'[k])]
<1>8. blocks' = Append(blocks, lengths)
  BY DEF Arrive
<1>9. lengths \in [Lanes -> Nat]
  BY <1>6
<1>10. \A k \in Lanes : lengths[k] = Len(log'[k])
  OBVIOUS
<1> HIDE DEF lengths
<1>11. /\ blocks' \in Seq([Lanes -> Nat]) /\ Len(blocks') = Len(blocks) + 1
       /\ blocks'[Len(blocks) + 1] = lengths
       /\ \A b \in 1 .. Len(blocks) : blocks'[b] = blocks[b]
  BY <1>2, <1>8, <1>9, AppendProperties
<1>12. QED
  BY <1>5, <1>7, <1>10, <1>11

LEMMA ArriveStep ==
  ASSUME IInv, NEW l \in Lanes, Arrive(l)
  PROVE  IInv'
<1>1. UNCHANGED <<known, store, eng>>
  BY DEF Arrive
<1>2. ChainOK'
  BY <1>1, Parts, ArriveGrows DEF ChainOK
<1>3. Len(blocks) \in Nat /\ Len(blocks') = Len(blocks) + 1
  BY Parts, ArriveGrows, LenProperties DEF ChainOK
<1>4. \A s \in Snapshot : Sound(log, s) => Sound(log', s)
  BY Parts, ArriveGrows, SoundGrows DEF ChainOK
<1>5. StoreOK'
  <2>1. store.syncedTo \in Nat
    BY Parts, SnapshotFields DEF StoreOK
  <2>2. QED
    BY <1>1, <1>3, <1>4, <2>1, Parts DEF StoreOK
<1>6. EngOK'
  <2>1. SUFFICES ASSUME NEW p \in Syncers
                 PROVE  /\ MemorySound(log', eng[p])
                        /\ eng[p].startBlock <= Len(blocks')
                        /\ eng[p].snapshot.syncedTo <= Len(blocks')
    BY <1>1, Parts DEF EngOK
  <2>2. /\ eng[p] \in Memory /\ MemorySound(log, eng[p]) /\ eng[p].snapshot \in Snapshot
        /\ eng[p].startBlock <= Len(blocks) /\ eng[p].snapshot.syncedTo <= Len(blocks)
    BY EngFacts
  <2>3. /\ eng[p].startBlock \in Nat /\ eng[p].snapshot.syncedTo \in Nat
        /\ eng[p].end \in Nat /\ eng[p].lane \in Lanes
    BY <2>2, SnapshotFields DEF Memory
  <2>4. Len(log[eng[p].lane]) \in Nat /\ Len(log'[eng[p].lane]) \in Nat
        /\ Len(log[eng[p].lane]) <= Len(log'[eng[p].lane])
    <3>1. log[eng[p].lane] \in Seq(Payloads) /\ log'[eng[p].lane] \in Seq(Payloads)
      BY <2>3, Parts, ArriveGrows DEF ChainOK
    <3>2. QED
      BY <2>3, <3>1, ArriveGrows, LenProperties
  <2>5. MemorySound(log', eng[p])
    BY <1>4, <2>2, <2>3, <2>4 DEF MemorySound
  <2>6. QED
    BY <1>3, <2>2, <2>3, <2>5
<1>7. QED
  BY <1>2, <1>5, <1>6, PartsNext

LEMMA LearnLaneStep ==
  ASSUME IInv, NEW l \in Lanes, LearnLane(l)
  PROVE  IInv'
  BY Parts, PartsNext DEF LearnLane, ChainOK, StoreOK, EngOK

LEMMA StartSyncStep ==
  ASSUME IInv, NEW p \in Syncers, StartSync(p)
  PROVE  IInv'
<1>1. PICK full \in {FALSE, FullScans} :
        Becomes(p, [NoSync EXCEPT !.pc = "block", !.full = full, !.keys = known])
  BY DEF StartSync
<1>2. UNCHANGED <<log, blocks, known, store>>
  BY DEF StartSync
<1> DEFINE me == [NoSync EXCEPT !.pc = "block", !.full = full, !.keys = known]
<1>3. /\ NoSync \in Memory /\ Sound(log, NoSync.snapshot)
      /\ NoSync.startBlock = 0 /\ NoSync.snapshot.syncedTo = 0
  BY Parts, NoSyncSound DEF ChainOK, MemorySound
<1>4. full \in BOOLEAN /\ known \in SUBSET Lanes
  BY Parts, SyncAssumption DEF ChainOK
<1>5. me \in Memory
  BY <1>3, <1>4, Zenon DEF Memory
<1>6. me.pc = "block" /\ me.snapshot = NoSync.snapshot /\ me.startBlock = 0
  BY <1>3 DEF Memory
<1>11. Becomes(p, me)
  BY <1>1
<1> HIDE DEF me
<1>7. MemorySound(log, me)
  BY <1>3, <1>6 DEF MemorySound
<1>8. Len(blocks) \in Nat
  BY Parts, LenProperties DEF ChainOK
<1>9. EngOK'
  BY <1>2, <1>3, <1>5, <1>6, <1>7, <1>8, <1>11, Parts, EngBecomes
<1>10. QED
  BY <1>2, <1>9, Parts, PartsNext DEF ChainOK, StoreOK

LEMMA BlockNumberStep ==
  ASSUME IInv, NEW p \in Syncers, BlockNumber(p)
  PROVE  IInv'
<1> DEFINE keys == eng[p].keys
           height == Len(blocks)
           loaded == Erased(store, keys, eng[p].full)
           me == [eng[p] EXCEPT !.startBlock = height, !.todo = keys, !.snapshot = loaded]
<1>1. NextLane(p, me) /\ UNCHANGED <<log, blocks, known>>
  BY DEF BlockNumber
<1>2. eng[p] \in Memory /\ keys \in SUBSET Lanes /\ eng[p].full \in BOOLEAN
  BY EngFacts DEF Memory
<1>3. loaded \in Snapshot /\ Sound(log, loaded)
  BY <1>2, Parts, ErasedSound DEF ChainOK, StoreOK
<1>4. height \in Nat
  BY Parts, LenProperties DEF ChainOK
<1>5. loaded.syncedTo = store.syncedTo
  BY Parts DEF Erased, Snapshot, StoreOK
<1> HIDE DEF keys, loaded, height
<1>6. me \in Memory
  BY <1>2, <1>3, <1>4, Zenon DEF Memory
<1>7. me.snapshot = loaded /\ me.startBlock = height
  BY <1>2 DEF Memory
<1> HIDE DEF me
<1>8. me.startBlock <= Len(blocks) /\ me.snapshot.syncedTo <= Len(blocks)
  BY <1>4, <1>5, <1>7, Parts DEF StoreOK, height
<1>9. QED
  BY <1>1, <1>3, <1>6, <1>7, <1>8, NextLaneStep

LEMMA SlotLensStep ==
  ASSUME IInv, NEW p \in Syncers, SlotLens(p)
  PROVE  IInv'
<1> DEFINE me == eng[p]
           end == WindowEnd(me.lane, me.i)
           next == [me EXCEPT !.pc = "payloads", !.end = end]
<1>1. me.pc = "lens" /\ Becomes(p, next) /\ UNCHANGED <<log, blocks, known, store>>
  BY DEF SlotLens
<1>2. /\ me \in Memory /\ me.lane \in Lanes /\ me.i \in Nat /\ me.snapshot \in Snapshot
      /\ Sound(log, me.snapshot) /\ me.i = me.snapshot.scannedTo[me.lane]
      /\ me.startBlock <= Len(blocks) /\ me.snapshot.syncedTo <= Len(blocks)
  BY <1>1, EngFacts DEF Memory, MemorySound
<1>3. me.i <= Len(log[me.lane]) /\ Len(log[me.lane]) \in Nat
  <2>1. log[me.lane] \in Seq(Payloads)
    BY <1>2, Parts DEF ChainOK
  <2>2. QED
    BY <1>2, <2>1, LenProperties DEF Sound
<1>4. end \in Nat /\ me.i <= end /\ end <= Len(log[me.lane])
  BY <1>2, <1>3, SyncAssumption DEF WindowEnd
<1> HIDE DEF end
<1>5. next \in Memory
  BY <1>2, <1>4, Zenon DEF Memory
<1>6. /\ next.pc = "payloads" /\ next.end = end /\ next.i = me.i /\ next.lane = me.lane
      /\ next.snapshot = me.snapshot /\ next.startBlock = me.startBlock
  BY <1>2 DEF Memory
<1> HIDE DEF next
<1>7. MemorySound(log, next)
  BY <1>2, <1>4, <1>6 DEF MemorySound
<1>8. EngOK'
  BY <1>1, <1>2, <1>5, <1>6, <1>7, Parts, EngBecomes
<1>9. QED
  BY <1>1, <1>8, Parts, PartsNext DEF ChainOK, StoreOK

LEMMA StoreWindowStep ==
  ASSUME IInv, NEW p \in Syncers, StoreWindow(p)
  PROVE  IInv'
<1> DEFINE me == eng[p]
           new == WithWindow(me.snapshot, me)
           pc == IF me.end = me.i + Window THEN "lens" ELSE "reload"
           next == [me EXCEPT !.pc = pc, !.i = me.end, !.end = 0, !.snapshot = new]
<1>1. /\ me.pc = "payloads" /\ store' = new /\ Becomes(p, next)
      /\ UNCHANGED <<log, blocks, known>>
  BY DEF StoreWindow, NextIndex
<1>2. /\ me \in Memory /\ MemorySound(log, me) /\ me.lane \in Lanes /\ me.end \in Nat
      /\ me.snapshot \in Snapshot
      /\ me.startBlock <= Len(blocks) /\ me.snapshot.syncedTo <= Len(blocks)
  BY EngFacts DEF Memory
<1>3. /\ new \in Snapshot /\ Sound(log, new) /\ new.syncedTo = me.snapshot.syncedTo
      /\ new.scannedTo = [me.snapshot.scannedTo EXCEPT ![me.lane] = me.end]
  BY <1>1, <1>2, Parts, WithWindowSound DEF ChainOK
<1>4. new.scannedTo[me.lane] = me.end
  BY <1>2, <1>3, SnapshotFields
<1>5. pc \in {"lens", "reload"}
  OBVIOUS
<1> HIDE DEF new, pc
<1>6. next \in Memory
  BY <1>2, <1>3, <1>5, Zenon DEF Memory
<1>7. /\ next.pc = pc /\ next.i = me.end /\ next.lane = me.lane
      /\ next.snapshot = new /\ next.startBlock = me.startBlock
  BY <1>2 DEF Memory
<1> HIDE DEF next
<1>8. MemorySound(log, next)
  BY <1>3, <1>4, <1>5, <1>7 DEF MemorySound
<1>9. EngOK'
  BY <1>1, <1>2, <1>3, <1>6, <1>7, <1>8, Parts, EngBecomes
<1>10. StoreOK'
  BY <1>1, <1>2, <1>3 DEF StoreOK
<1>11. QED
  BY <1>1, <1>9, <1>10, Parts, PartsNext DEF ChainOK

LEMMA ReloadStep ==
  ASSUME IInv, NEW p \in Syncers, Reload(p)
  PROVE  IInv'
<1> DEFINE me == [eng[p] EXCEPT !.snapshot = store]
<1>1. NextLane(p, me) /\ UNCHANGED <<log, blocks, known>>
  BY DEF Reload
<1>2. eng[p] \in Memory /\ eng[p].startBlock <= Len(blocks)
  BY EngFacts
<1>3. store \in Snapshot /\ Sound(log, store) /\ store.syncedTo <= Len(blocks)
  BY Parts DEF StoreOK
<1>4. me \in Memory
  BY <1>2, <1>3, Zenon DEF Memory
<1>5. me.snapshot = store /\ me.startBlock = eng[p].startBlock
  BY <1>2 DEF Memory
<1> HIDE DEF me
<1>6. QED
  BY <1>1, <1>2, <1>3, <1>4, <1>5, NextLaneStep

LEMMA InterruptStep ==
  ASSUME IInv, NEW p \in Syncers, Interrupt(p)
  PROVE  IInv'
<1>1. Becomes(p, NoSync) /\ UNCHANGED <<log, blocks, known, store>>
  BY DEF Interrupt
<1>2. Len(blocks) \in Nat /\ log \in [Lanes -> Seq(Payloads)]
  BY Parts, LenProperties DEF ChainOK
<1>3. EngOK'
  BY <1>1, <1>2, Parts, NoSyncSound, EngBecomes
<1>4. QED
  BY <1>1, <1>3, Parts, PartsNext DEF ChainOK, StoreOK

-----------------------------------------------------------------------------
(* The theorems.                                                           *)

LEMMA InitInvariant == Init => IInv
<1> SUFFICES ASSUME Init
             PROVE  IInv
  OBVIOUS
<1>1. log \in [Lanes -> Seq(Payloads)] /\ blocks = <<>> /\ known = {}
  BY DEF Init, LogInit
<1>2. ChainOK
  BY <1>1 DEF ChainOK
<1>3. Len(blocks) = 0
  BY <1>1
<1>4. StoreOK
  <2>1. store = EmptySnapshot /\ EmptySnapshot.syncedTo = 0
    BY DEF Init, EmptySnapshot
  <2>2. QED
    BY <1>1, <1>3, <2>1, EmptySnapshotSound DEF StoreOK
<1>5. EngOK
  BY <1>1, <1>3, NoSyncSound DEF Init, EngOK
<1>6. QED
  BY <1>2, <1>4, <1>5, Parts

LEMMA NextInvariant == IInv /\ [Next]_vars => IInv'
<1> SUFFICES ASSUME IInv, [Next]_vars
             PROVE  IInv'
  OBVIOUS
<1>1. CASE UNCHANGED vars
  BY <1>1, Parts, PartsNext DEF vars, ChainOK, StoreOK, EngOK
<1>2. CASE \E l \in Lanes : Arrive(l) \/ LearnLane(l)
  BY <1>2, ArriveStep, LearnLaneStep
<1>3. CASE \E p \in Syncers : \/ StartSync(p) \/ BlockNumber(p) \/ SlotLens(p)
                              \/ StoreWindow(p) \/ Reload(p) \/ Interrupt(p)
  BY <1>3, StartSyncStep, BlockNumberStep, SlotLensStep, StoreWindowStep, ReloadStep,
     InterruptStep
<1>4. QED
  BY <1>1, <1>2, <1>3 DEF Next

\* The invariant holds of every run of any number of syncs.
THEOREM Invariant == Spec => []IInv
<1>1. QED
  BY InitInvariant, NextInvariant, PTL DEF Spec

\* Type correctness; in particular no watermark is ahead of the chain.
THEOREM TypeCorrect == Spec => []TypeOK
<1>1. IInv => TypeOK
  BY DEF IInv
<1>2. QED
  BY <1>1, Invariant, PTL

\* The saved history never has a gap, nor a message under a wrong index,
\* whatever syncs overlap, are interrupted, or start from scratch.
THEOREM HistoryStaysSound == Spec => []HistorySound
<1>1. IInv => HistorySound
  BY DEF IInv, HistorySound
<1>2. QED
  BY <1>1, Invariant, PTL

-----------------------------------------------------------------------------
(* The watermark, with one process that never rescans from scratch.        *)

LEMMA LengthAtType ==
  ASSUME IInv, NEW b \in 0 .. Len(blocks), NEW l \in Lanes
  PROVE  LengthAt(blocks, b, l) \in Nat
<1>1. blocks \in Seq([Lanes -> Nat])
  BY Parts DEF ChainOK
<1>2. CASE b = 0
  BY <1>2 DEF LengthAt
<1>3. CASE b # 0
  <2>1. b \in 1 .. Len(blocks)
    BY <1>1, <1>3, LenProperties
  <2>2. blocks[b] \in [Lanes -> Nat]
    BY <1>1, <2>1, ElementOfSeq
  <2>3. QED
    BY <1>3, <2>2 DEF LengthAt
<1>4. QED
  BY <1>2, <1>3

\* The types of what the invariant compares.
LEMMA WFacts ==
  ASSUME IInv, NEW p \in Syncers
  PROVE  /\ Len(blocks) \in Nat /\ store \in Snapshot
         /\ store.syncedTo \in 0 .. Len(blocks) /\ store.covers \subseteq Lanes
         /\ store.scannedTo \in [Lanes -> Nat]
         /\ eng[p].startBlock \in 0 .. Len(blocks) /\ eng[p].lane \in Lanes
         /\ eng[p].keys \subseteq Lanes /\ eng[p].i \in Nat /\ eng[p].end \in Nat
         /\ \A l \in Lanes : Len(log[l]) \in Nat
<1>1. Len(blocks) \in Nat
  BY Parts, LenProperties DEF ChainOK
<1>2. store \in Snapshot /\ store.syncedTo <= Len(blocks)
  BY Parts DEF StoreOK
<1>3. eng[p] \in Memory /\ eng[p].startBlock <= Len(blocks)
  BY EngFacts
<1>4. \A l \in Lanes : Len(log[l]) \in Nat
  <2>1. \A l \in Lanes : log[l] \in Seq(Payloads)
    BY Parts DEF ChainOK
  <2>2. QED
    BY <2>1, LenProperties
<1>5. eng[p].startBlock \in Nat /\ store.syncedTo \in Nat
  BY <1>2, <1>3, SnapshotFields DEF Memory
<1>6. QED
  BY <1>1, <1>2, <1>3, <1>4, <1>5, SnapshotFields DEF Memory

LEMMA WArriveStep ==
  ASSUME IInv, WInv, NEW l \in Lanes, Arrive(l)
  PROVE  WInv'
<1>1. UNCHANGED <<known, store, eng>>
  BY DEF Arrive
<1>2. Len(blocks) \in Nat /\ blocks \in Seq([Lanes -> Nat])
  BY Parts, LenProperties DEF ChainOK
<1>3. \A b \in 0 .. Len(blocks) : \A k \in Lanes : LengthAt(blocks', b, k) = LengthAt(blocks, b, k)
  <2>1. SUFFICES ASSUME NEW b \in 0 .. Len(blocks), NEW k \in Lanes
                 PROVE  LengthAt(blocks', b, k) = LengthAt(blocks, b, k)
    OBVIOUS
  <2>2. b # 0 => b \in 1 .. Len(blocks)
    BY <1>2
  <2>3. b # 0 => blocks'[b] = blocks[b]
    BY <2>2, ArriveGrows
  <2>4. QED
    BY <2>3 DEF LengthAt
<1>4. \A b \in 1 .. Len(blocks') : \A k \in Lanes : blocks'[b][k] <= Len(log'[k])
  <2>1. SUFFICES ASSUME NEW b \in 1 .. Len(blocks'), NEW k \in Lanes
                 PROVE  blocks'[b][k] <= Len(log'[k])
    OBVIOUS
  <2>2. Len(log[k]) \in Nat /\ Len(log'[k]) \in Nat /\ Len(log[k]) <= Len(log'[k])
    <3>1. log[k] \in Seq(Payloads) /\ log'[k] \in Seq(Payloads)
      BY Parts, ArriveGrows DEF ChainOK
    <3>2. QED
      BY <3>1, ArriveGrows, LenProperties
  <2>3. CASE b = Len(blocks) + 1
    BY <2>2, <2>3, ArriveGrows
  <2>4. CASE b # Len(blocks) + 1
    <3>1. b \in 1 .. Len(blocks)
      BY <1>2, <2>4, ArriveGrows
    <3>2. blocks'[b] = blocks[b] /\ blocks[b] \in [Lanes -> Nat]
      BY <1>2, <3>1, ArriveGrows, ElementOfSeq
    <3>3. blocks[b][k] <= Len(log[k]) /\ blocks[b][k] \in Nat
      BY <3>1, <3>2 DEF WInv
    <3>4. QED
      BY <2>2, <3>2, <3>3
  <2>5. QED
    BY <2>3, <2>4
<1>5. Scanned(blocks', store', store'.covers, store'.syncedTo)
  <2>1. store.syncedTo \in 0 .. Len(blocks) /\ store.covers \subseteq Lanes
    <3>1. store.syncedTo <= Len(blocks) /\ store \in Snapshot
      BY Parts DEF StoreOK
    <3>2. QED
      BY <1>2, <3>1, SnapshotFields
  <2>2. QED
    BY <1>1, <1>3, <2>1 DEF WInv, Scanned
<1>6. ASSUME NEW p \in Syncers
      PROVE  WMemory(blocks', store', eng'[p])
  <2>1. /\ eng[p].startBlock \in 0 .. Len(blocks) /\ eng[p].lane \in Lanes
        /\ Done(eng[p]) \subseteq Lanes
    BY WFacts DEF Done
  <2>2. eng'[p] = eng[p] /\ store' = store /\ WMemory(blocks, store, eng[p])
    BY <1>1 DEF WInv
  <2>3. QED
    BY <1>3, <2>1, <2>2 DEF WMemory, Scanned
<1>7. QED
  BY <1>4, <1>5, <1>6 DEF WInv

\* Steps of the process, which leave the chain alone.
LEMMA WBecomes ==
  ASSUME IInv, WInv, NEW p \in Syncers, Syncers = {p},
         NEW me \in Memory, Becomes(p, me), WMemory(blocks, store', me),
         Scanned(blocks, store', store'.covers, store'.syncedTo),
         UNCHANGED <<log, blocks>>
  PROVE  WInv'
<1>1. eng'[p] = me
  BY Parts DEF Becomes, EngOK
<1>2. QED
  BY <1>1 DEF WInv

LEMMA WNoSync == \A bs, snapshot : WMemory(bs, snapshot, NoSync)
  BY DEF WMemory, NoSync

LEMMA WNextLane ==
  ASSUME IInv, WInv, NEW p \in Syncers, Syncers = {p},
         NEW me \in Memory, me.snapshot = store, ~ me.full, me.pc # "payloads",
         Scanned(blocks, store, me.keys \ me.todo, me.startBlock),
         NextLane(p, me), UNCHANGED <<log, blocks>>
  PROVE  WInv'
<1>1. store \in Snapshot /\ me.keys \in SUBSET Lanes /\ me.startBlock \in Nat /\ me.todo \subseteq Lanes
  BY Parts DEF StoreOK, Memory
<1>2. CASE me.todo = {}
  <2> DEFINE new == [store EXCEPT !.syncedTo = me.startBlock, !.covers = me.keys]
  <2>1. store' = new /\ Becomes(p, NoSync)
    BY <1>2 DEF NextLane, Watermark
  <2>2. /\ new.syncedTo = me.startBlock /\ new.covers = me.keys
        /\ new.scannedTo = store.scannedTo
    BY <1>1 DEF Snapshot
  <2>3. Scanned(blocks, new, new.covers, new.syncedTo)
    BY <1>2, <2>2 DEF Scanned
  <2>4. NoSync \in Memory
    BY Parts, NoSyncSound DEF ChainOK
  <2>5. QED
    BY <2>1, <2>3, <2>4, WNoSync, WBecomes
<1>3. CASE me.todo # {}
  <2>1. store' = store
    BY <1>3 DEF NextLane
  <2>2. PICK l \in me.todo :
          Becomes(p, [me EXCEPT !.pc = "lens", !.lane = l, !.todo = @ \ {l},
                                !.i = me.snapshot.scannedTo[l]])
    BY <1>3 DEF NextLane
  <2> DEFINE i == me.snapshot.scannedTo[l]
             left == me.todo \ {l}
             next == [me EXCEPT !.pc = "lens", !.lane = l, !.todo = left, !.i = i]
  <2>3. Becomes(p, next)
    BY <2>2
  <2>4. l \in Lanes /\ i \in Nat /\ left \in SUBSET Lanes
    BY <1>1, SnapshotFields
  <2>5. next \in Memory
    BY <2>4, Zenon DEF Memory
  <2>6. /\ next.pc = "lens" /\ next.lane = l /\ next.todo = left /\ next.keys = me.keys
        /\ next.snapshot = store /\ next.startBlock = me.startBlock /\ ~ next.full
    BY DEF Memory
  <2> HIDE DEF next
  <2>7. Done(next) = me.keys \ me.todo
    BY <2>6 DEF Done
  <2>8. WMemory(blocks, store', next)
    BY <2>1, <2>6, <2>7 DEF WMemory
  <2>9. QED
    BY <2>1, <2>3, <2>5, <2>8, WBecomes DEF WInv
<1>4. QED
  BY <1>2, <1>3

LEMMA WStep ==
  ASSUME IInv, WInv, FullScans = FALSE, NEW p \in Syncers, Syncers = {p},
         \/ StartSync(p) \/ BlockNumber(p) \/ SlotLens(p)
         \/ StoreWindow(p) \/ Reload(p) \/ Interrupt(p)
  PROVE  WInv'
<1> DEFINE me == eng[p]
<1>0. me \in Memory /\ WMemory(blocks, store, me)
  BY EngFacts DEF WInv
<1>1. CASE StartSync(p)
  <2> DEFINE next == [NoSync EXCEPT !.pc = "block", !.full = FALSE, !.keys = known]
  <2>1. Becomes(p, next) /\ UNCHANGED <<log, blocks, known, store>>
    BY <1>1 DEF StartSync
  <2>2. NoSync \in Memory /\ known \in SUBSET Lanes
    BY Parts, NoSyncSound DEF ChainOK
  <2>3. next \in Memory
    BY <2>2, Zenon DEF Memory
  <2>4. next.pc = "block" /\ ~ next.full
    BY <2>2 DEF Memory
  <2> HIDE DEF next
  <2>5. WMemory(blocks, store', next)
    BY <2>4 DEF WMemory
  <2>6. QED
    BY <2>1, <2>3, <2>5, WBecomes DEF WInv
<1>2. CASE BlockNumber(p)
  <2> DEFINE keys == me.keys
             height == Len(blocks)
             loaded == Erased(store, keys, me.full)
             next == [me EXCEPT !.startBlock = height, !.todo = keys, !.snapshot = loaded]
  <2>1. NextLane(p, next) /\ UNCHANGED <<log, blocks>> /\ me.pc = "block"
    BY <1>2 DEF BlockNumber
  <2>2. loaded = store
    BY <1>0 DEF WMemory, Erased
  <2>3. store \in Snapshot /\ height \in Nat /\ keys \in SUBSET Lanes
    BY <1>0, WFacts DEF Memory
  <2> HIDE DEF loaded, height, keys
  <2>4. next \in Memory
    BY <1>0, <2>2, <2>3, Zenon DEF Memory
  <2>5. /\ next.snapshot = store /\ next.full = me.full /\ next.pc = "block"
        /\ next.keys \ next.todo = {}
    BY <1>0, <2>1, <2>2 DEF Memory, keys
  <2> HIDE DEF next
  <2>6. Scanned(blocks, store, next.keys \ next.todo, next.startBlock) /\ ~ next.full
    BY <1>0, <2>5 DEF Scanned, WMemory
  <2>7. QED
    BY <2>1, <2>4, <2>5, <2>6, WNextLane
<1>3. CASE SlotLens(p)
  <2> DEFINE end == WindowEnd(me.lane, me.i)
             next == [me EXCEPT !.pc = "payloads", !.end = end]
  <2>1. me.pc = "lens" /\ Becomes(p, next) /\ UNCHANGED <<log, blocks, known, store>>
    BY <1>3 DEF SlotLens
  <2>2. /\ me.i \in Nat /\ me.lane \in Lanes /\ me.startBlock \in 0 .. Len(blocks)
        /\ Len(log[me.lane]) \in Nat /\ me.i <= Len(log[me.lane])
    <3>1. me.i = store.scannedTo[me.lane]
      BY <1>0, <2>1, EngFacts DEF MemorySound, WMemory
    <3>2. QED
      BY <3>1, WFacts, Parts DEF StoreOK, Sound
  <2>3. end \in Nat /\ end # me.i + Window => end = Len(log[me.lane])
    BY <2>2, SyncAssumption DEF WindowEnd
  <2>4. LengthAt(blocks, me.startBlock, me.lane) <= Len(log[me.lane])
    BY <2>2 DEF WInv, LengthAt
  <2> HIDE DEF end
  <2>5. end \in Nat
    BY <2>2, SyncAssumption DEF WindowEnd, end
  <2>6. next \in Memory
    BY <1>0, <2>5, Zenon DEF Memory
  <2>7. /\ next.pc = "payloads" /\ next.end = end /\ next.i = me.i /\ next.lane = me.lane
        /\ next.snapshot = me.snapshot /\ next.startBlock = me.startBlock
        /\ next.full = me.full /\ next.keys = me.keys /\ next.todo = me.todo
    BY <1>0 DEF Memory
  <2> HIDE DEF next
  <2>8. Done(next) = Done(me)
    BY <2>1, <2>7 DEF Done
  <2>9. WMemory(blocks, store', next)
    BY <1>0, <2>1, <2>3, <2>4, <2>5, <2>7, <2>8 DEF WMemory
  <2>10. QED
    BY <2>1, <2>6, <2>9, WBecomes DEF WInv
<1>4. CASE StoreWindow(p)
  <2> DEFINE new == WithWindow(me.snapshot, me)
             pc == IF me.end = me.i + Window THEN "lens" ELSE "reload"
             next == [me EXCEPT !.pc = pc, !.i = me.end, !.end = 0, !.snapshot = new]
  <2>1. /\ me.pc = "payloads" /\ store' = new /\ Becomes(p, next)
        /\ UNCHANGED <<log, blocks, known>>
    BY <1>4 DEF StoreWindow, NextIndex
  <2>2. /\ me.snapshot = store /\ Scanned(blocks, store, Done(me), me.startBlock)
        /\ me.end # me.i + Window => LengthAt(blocks, me.startBlock, me.lane) <= me.end
    BY <1>0, <2>1 DEF WMemory
  <2>3. /\ new \in Snapshot
        /\ new.scannedTo = [store.scannedTo EXCEPT ![me.lane] = me.end]
        /\ new.syncedTo = store.syncedTo /\ new.covers = store.covers
    BY <1>0, <2>1, <2>2, EngFacts, Parts, WithWindowSound DEF ChainOK
  <2>4. /\ me.lane \in Lanes /\ me.end \in Nat /\ store.scannedTo \in [Lanes -> Nat]
        /\ store.scannedTo[me.lane] <= me.end
        /\ store.covers \subseteq Lanes /\ store.syncedTo \in 0 .. Len(blocks)
        /\ me.startBlock \in 0 .. Len(blocks) /\ Done(me) \subseteq Lanes
    BY <2>1, <2>2, EngFacts, WFacts DEF MemorySound, Done
  <2>5. \A l \in Lanes : store.scannedTo[l] <= new.scannedTo[l] /\ new.scannedTo[l] \in Nat
    BY <2>3, <2>4
  <2>6. ASSUME NEW lanes \in SUBSET Lanes, NEW b \in 0 .. Len(blocks),
               Scanned(blocks, store, lanes, b)
        PROVE  Scanned(blocks, new, lanes, b)
    <3>1. SUFFICES ASSUME NEW l \in lanes
                   PROVE  LengthAt(blocks, b, l) <= new.scannedTo[l]
      BY DEF Scanned
    <3>2. LengthAt(blocks, b, l) <= store.scannedTo[l] /\ LengthAt(blocks, b, l) \in Nat
      BY <2>6, LengthAtType DEF Scanned
    <3>3. QED
      BY <2>4, <2>5, <3>2
  <2>7. pc \in {"lens", "reload"} /\ (pc = "reload" => me.end # me.i + Window)
    OBVIOUS
  <2> HIDE DEF new, pc
  <2>8. next \in Memory
    BY <1>0, <2>3, <2>4, <2>7, Zenon DEF Memory
  <2>9. /\ next.pc = pc /\ next.lane = me.lane /\ next.snapshot = new
        /\ next.startBlock = me.startBlock /\ next.full = me.full
        /\ next.keys = me.keys /\ next.todo = me.todo
    BY <1>0 DEF Memory
  <2> HIDE DEF next
  <2>10. Scanned(blocks, new, Done(me), me.startBlock)
    BY <2>2, <2>4, <2>6
  <2>11. Scanned(blocks, new, Done(next), next.startBlock)
    <3>1. CASE pc = "lens"
      BY <2>1, <2>9, <2>10, <3>1 DEF Done
    <3>2. CASE pc = "reload"
      <4>1. \A l \in Done(next) : l \in Done(me) \/ l = me.lane
        BY <2>1, <2>9, <3>2 DEF Done
      <4>2. LengthAt(blocks, me.startBlock, me.lane) <= new.scannedTo[me.lane]
        BY <2>2, <2>3, <2>4, <2>7, <3>2
      <4>3. QED
        BY <2>9, <2>10, <4>1, <4>2 DEF Scanned
    <3>3. QED
      BY <2>7, <3>1, <3>2
  <2>12. WMemory(blocks, store', next)
    BY <1>0, <2>1, <2>7, <2>9, <2>11 DEF WMemory
  <2>13. Scanned(blocks, store', store'.covers, store'.syncedTo)
    BY <2>1, <2>3, <2>4, <2>6 DEF WInv
  <2>14. QED
    BY <2>1, <2>8, <2>12, <2>13, WBecomes
<1>5. CASE Reload(p)
  <2> DEFINE next == [me EXCEPT !.snapshot = store]
  <2>1. NextLane(p, next) /\ UNCHANGED <<log, blocks>> /\ me.pc = "reload"
    BY <1>5 DEF Reload
  <2>2. store \in Snapshot
    BY WFacts
  <2>3. next \in Memory
    BY <1>0, <2>2, Zenon DEF Memory
  <2>4. /\ next.snapshot = store /\ next.full = me.full /\ next.pc = "reload"
        /\ next.keys = me.keys /\ next.todo = me.todo /\ next.startBlock = me.startBlock
    BY <1>0, <2>1 DEF Memory
  <2> HIDE DEF next
  <2>5. Scanned(blocks, store, next.keys \ next.todo, next.startBlock) /\ ~ next.full
    BY <1>0, <2>1, <2>4 DEF WMemory, Done
  <2>6. QED
    BY <2>1, <2>3, <2>4, <2>5, WNextLane
<1>6. CASE Interrupt(p)
  <2>1. Becomes(p, NoSync) /\ UNCHANGED <<log, blocks, known, store>>
    BY <1>6 DEF Interrupt
  <2>2. NoSync \in Memory
    BY Parts, NoSyncSound DEF ChainOK
  <2>3. QED
    BY <2>1, <2>2, WNoSync, WBecomes DEF WInv
<1>7. QED
  BY <1>1, <1>2, <1>3, <1>4, <1>5, <1>6

LEMMA WInit == Init => WInv
<1> SUFFICES ASSUME Init
             PROVE  WInv
  OBVIOUS
<1>1. Len(blocks) = 0
  BY DEF Init
<1>2. Scanned(blocks, store, store.covers, store.syncedTo)
  BY DEF Init, EmptySnapshot, Scanned
<1>3. \A p \in Syncers : WMemory(blocks, store, eng[p])
  BY WNoSync DEF Init
<1>4. QED
  BY <1>1, <1>2, <1>3 DEF WInv

LEMMA WNext ==
  ASSUME FullScans = FALSE, NEW s, Syncers = {s}
  PROVE  IInv /\ WInv /\ [Next]_vars => WInv'
<1> SUFFICES ASSUME IInv, WInv, [Next]_vars
             PROVE  WInv'
  OBVIOUS
<1>1. CASE UNCHANGED vars
  BY <1>1 DEF vars, WInv
<1>2. CASE \E l \in Lanes : Arrive(l) \/ LearnLane(l)
  <2>1. CASE \E l \in Lanes : LearnLane(l)
    BY <2>1 DEF LearnLane, WInv
  <2>2. QED
    BY <1>2, <2>1, WArriveStep
<1>3. CASE \E p \in Syncers : \/ StartSync(p) \/ BlockNumber(p) \/ SlotLens(p)
                              \/ StoreWindow(p) \/ Reload(p) \/ Interrupt(p)
  <2>1. PICK p \in Syncers : \/ StartSync(p) \/ BlockNumber(p) \/ SlotLens(p)
                             \/ StoreWindow(p) \/ Reload(p) \/ Interrupt(p)
    BY <1>3
  <2>2. Syncers = {p}
    OBVIOUS
  <2>3. QED
    BY <2>1, <2>2, WStep
<1>4. QED
  BY <1>1, <1>2, <1>3 DEF Next

LEMMA WImplies ==
  ASSUME NEW s \in Syncers
  PROVE  IInv /\ WInv => WatermarkHonest
<1> SUFFICES ASSUME IInv, WInv, NEW l \in store.covers,
                    NEW i \in 0 .. LengthAt(blocks, store.syncedTo, l) - 1
             PROVE  Has(store, l, i)
  BY DEF WatermarkHonest
<1>1. /\ l \in Lanes /\ store.syncedTo \in 0 .. Len(blocks)
      /\ store.scannedTo \in [Lanes -> Nat]
  BY WFacts
<1>2. LengthAt(blocks, store.syncedTo, l) \in Nat
  BY <1>1, LengthAtType
<1>3. LengthAt(blocks, store.syncedTo, l) <= store.scannedTo[l]
  BY DEF WInv, Scanned
<1>4. i \in 0 .. store.scannedTo[l] - 1
  BY <1>1, <1>2, <1>3
<1>5. QED
  BY <1>1, <1>4, Parts DEF StoreOK, Sound

\* With one process that never rescans from scratch, the watermark never
\* overstates what is stored: a scan may be cut short anywhere, and messages
\* land and lanes are added while it runs.
THEOREM WatermarkStaysHonest ==
  ASSUME FullScans = FALSE, NEW s, Syncers = {s}
  PROVE  Spec => []WatermarkHonest
<1>1. IInv /\ WInv => WatermarkHonest
  BY WImplies
<1>2. IInv /\ WInv /\ [Next]_vars => WInv'
  BY WNext
<1>3. QED
  BY <1>1, <1>2, WInit, Invariant, PTL DEF Spec

\* What a process goes on with is the history it saves.
LEMMA NextLaneKeeps ==
  ASSUME NEW p \in Syncers, NEW me, me.snapshot \in Snapshot, NextLane(p, me)
  PROVE  store'.messages = me.snapshot.messages
<1>1. CASE me.todo = {}
  <2>1. store' = [me.snapshot EXCEPT !.syncedTo = Watermark(me), !.covers = me.keys]
    BY <1>1 DEF NextLane
  <2>2. QED
    BY <2>1 DEF Snapshot
<1>2. CASE me.todo # {}
  BY <1>2 DEF NextLane
<1>3. QED
  BY <1>1, <1>2

\* A process saves over the history it has loaded: nobody else wrote meanwhile.
LEMMA HistoryStep ==
  ASSUME IInv, WInv, NEW p \in Syncers,
         StartSync(p) \/ BlockNumber(p) \/ SlotLens(p) \/ StoreWindow(p) \/ Reload(p) \/ Interrupt(p)
  PROVE  store.messages \subseteq store'.messages
<1> DEFINE me == eng[p]
<1>1. me \in Memory /\ me.snapshot \in Snapshot /\ store \in Snapshot
  BY Parts DEF EngOK, StoreOK, Memory
<1>2. WMemory(blocks, store, me)
  BY DEF WInv
<1>3. CASE BlockNumber(p)
  <2> DEFINE next == [me EXCEPT !.startBlock = Len(blocks), !.todo = me.keys,
                                !.snapshot = Erased(store, me.keys, me.full)]
  <2>1. NextLane(p, next)
    BY <1>3 DEF BlockNumber
  <2>2. next.snapshot = store
    BY <1>1, <1>2 DEF WMemory, Erased, Memory
  <2> HIDE DEF next
  <2>3. QED
    BY <1>1, <2>1, <2>2, NextLaneKeeps
<1>4. CASE StoreWindow(p)
  <2>1. me.pc = "payloads" /\ store' = WithWindow(me.snapshot, me)
    BY <1>4 DEF StoreWindow
  <2>2. me.snapshot = store
    BY <1>2, <2>1 DEF WMemory
  <2>3. store.messages \subseteq WithWindow(store, me).messages
    BY <1>1 DEF WithWindow, Snapshot
  <2>4. QED
    BY <2>1, <2>2, <2>3
<1>5. CASE Reload(p)
  <2> DEFINE next == [me EXCEPT !.snapshot = store]
  <2>1. NextLane(p, next) /\ next.snapshot = store
    BY <1>1, <1>5 DEF Reload, Memory
  <2> HIDE DEF next
  <2>2. QED
    BY <1>1, <2>1, NextLaneKeeps
<1>6. CASE StartSync(p) \/ SlotLens(p) \/ Interrupt(p)
  BY <1>6 DEF StartSync, SlotLens, Interrupt
<1>7. QED
  BY <1>3, <1>4, <1>5, <1>6

\* With one process that never rescans from scratch, nothing that is in the
\* saved history leaves it again, however often a sync is cut short.
THEOREM HistoryOnlyGrows ==
  ASSUME FullScans = FALSE, NEW s, Syncers = {s}
  PROVE  Spec => HistoryGrows
<1>1. IInv /\ WInv /\ [Next]_vars => [store.messages \subseteq store'.messages]_store
  <2> SUFFICES ASSUME IInv, WInv, [Next]_vars
               PROVE  store.messages \subseteq store'.messages \/ UNCHANGED store
    OBVIOUS
  <2>1. CASE \E p \in Syncers : \/ StartSync(p) \/ BlockNumber(p) \/ SlotLens(p)
                                \/ StoreWindow(p) \/ Reload(p) \/ Interrupt(p)
    BY <2>1, HistoryStep
  <2>2. CASE \E l \in Lanes : Arrive(l) \/ LearnLane(l)
    BY <2>2 DEF Arrive, LearnLane
  <2>3. CASE UNCHANGED vars
    BY <2>3 DEF vars
  <2>4. QED
    BY <2>1, <2>2, <2>3 DEF Next
<1>2. IInv /\ WInv /\ [Next]_vars => WInv'
  BY WNext
<1>3. QED
  BY <1>1, <1>2, WInit, Invariant, PTL DEF Spec, HistoryGrows

\* The surroundings the engine is proved against are those the writers of a
\* lane promise: a landing extends one log by one batch.
THEOREM LanesAreLogs == Spec => LogSpec
<1>1. Init => LogInit
  BY DEF Init
<1>2. IInv /\ [Next]_vars => [LogNext]_log
  <2> SUFFICES ASSUME IInv, [Next]_vars
               PROVE  [LogNext]_log
    OBVIOUS
  <2>1. CASE \E l \in Lanes : Arrive(l)
    <3>1. PICK l \in Lanes : Arrive(l)
      BY <2>1
    <3>2. PICK batch \in Batches : log' = [log EXCEPT ![l] = log[l] \o batch]
      BY <3>1 DEF Arrive
    <3>3. /\ log \in [Lanes -> Seq(Payloads)] /\ log[l] \in Seq(Payloads)
          /\ batch \in Seq(Payloads) /\ batch # <<>>
          /\ \A i, j \in DOMAIN batch : i # j => batch[i] # batch[j]
      BY Parts, BatchesAssumption DEF ChainOK
    <3>4. log'[l] = log[l] \o batch
      BY <3>2, <3>3
    <3>5. /\ Len(log[l]) \in Nat /\ Len(batch) \in Nat /\ Len(batch) # 0
          /\ log[l] \o batch \in Seq(Payloads)
          /\ Len(log[l] \o batch) = Len(log[l]) + Len(batch)
      BY <3>3, LenProperties, ConcatProperties, EmptySeq
    <3>6. /\ SubSeq(log[l] \o batch, 1, Len(log[l])) = log[l]
          /\ SubSeq(log[l] \o batch, Len(log[l]) + 1, Len(log[l] \o batch)) = batch
      BY <3>3, <3>5
    <3>7. Appended(log[l], log'[l]) = batch
      BY <3>4, <3>6 DEF Appended
    <3>8. /\ log'[l] \in Seq(Payloads) /\ Len(log'[l]) > Len(log[l])
          /\ SubSeq(log'[l], 1, Len(log[l])) = log[l]
      BY <3>4, <3>5, <3>6
    <3>9. log' = [log EXCEPT ![l] = log'[l]]
      BY <3>2, <3>4
    <3>10. Land(l)
      BY <3>3, <3>7, <3>8, <3>9, Zenon DEF Land
    <3>11. QED
      BY <3>10 DEF LogNext
  <2>2. CASE UNCHANGED log
    BY <2>2
  <2>3. QED
    BY <2>1, <2>2 DEF Next, vars, LearnLane, StartSync, BlockNumber, SlotLens, StoreWindow,
                      Reload, Interrupt
<1>3. QED
  BY <1>1, <1>2, Invariant, PTL DEF Spec, LogSpec

-----------------------------------------------------------------------------
(***************************************************************************)
(* Threads.  The lanes are in the order of their times, and a browser has  *)
(* read a beginning of each, so its thread is finite and in a total order; *)
(* a request takes the oldest payment that those before it left.  The      *)
(* ticks are covered by the notes as they were last read; when notes were  *)
(* spent since, by a transaction the bar confirmed, a check is due.        *)
(***************************************************************************)
Rec == [kind : {"req", "pay"}, amount : Amounts, ts : Nat]
Operation == [at : Nat, recs : Seq(Rec) \ {<<>>}]
Message == [by : Users, index : Nat \ {0}, kind : {"req", "pay"}, amount : Amounts, ts : Nat]

WritingOK ==
    /\ lane \in [Users -> Seq(Rec)] /\ op \in [Users -> {None} \cup Operation]
    /\ late \in [Users -> SUBSET Operation] /\ confirmed \in [Users -> BOOLEAN]
NotesOK ==
    /\ DOMAIN notes = Users /\ DOMAIN read = Users
    /\ \A u \in Users : IsABag(notes[u]) /\ IsABag(read[u])
ReadingOK ==
    /\ seen \in [Users -> [Users -> Nat]]
    /\ \A u, v \in Users : seen[u][v] <= Len(lane[v])
    /\ check \in [Users -> {"asked", "read", "over"}] /\ DOMAIN receipts = Users
    /\ stale \in [Users -> BOOLEAN]

\* A lane, and what waits to be added to it, is in the order of the times.
Rises(s) == \A i, j \in 1..Len(s) : i < j => s[i].ts <= s[j].ts
InOrder == \A u \in Users :
    /\ Rises(lane[u])
    /\ \A tx \in Sent(u) : Len(lane[u]) = tx.at => Rises(lane[u] \o tx.recs)

\* What may land late is for the next free slot.  Nothing is left to land when
\* the bar shows a confirmed transaction, nor once a slot of its own is taken.
SentOK == \A u \in Users :
    /\ \A tx \in Sent(u) : tx.at <= Len(lane[u])
    /\ \A tx \in late[u] : tx.at = Len(lane[u])
    /\ confirmed[u] => Sent(u) = {}
    /\ op[u] # None /\ Len(lane[u]) > op[u].at => late[u] = {}

Incoming(u) == {m \in Kind(u, "pay") : m.by # u}
Ticked(u, a) == {m \in receipts[u] : m.amount = a}

\* The ticks, and what the check was told, are covered by the notes, until the
\* user spends some; when the bar has confirmed it, the check is to begin, or
\* there is nothing to show.
CheckOK(u) ==
    /\ receipts[u] \subseteq Incoming(u)
    /\ ~stale[u] /\ check[u] = "over" =>
          \A a \in Amounts : Cardinality(Ticked(u, a)) <= Held(a, notes[u])
    /\ ~stale[u] /\ check[u] = "read" =>
          \A a \in Amounts : Held(a, read[u]) <= Held(a, notes[u])
    /\ stale[u] /\ confirmed[u] => \/ check[u] = "asked" \/ Incoming(u) = {}
                                   \/ check[u] = "over" /\ receipts[u] = {}
ChecksOK == \A u \in Users : CheckOK(u)

ThreadsInv == WritingOK /\ NotesOK /\ ReadingOK /\ InOrder /\ SentOK /\ ChecksOK

-----------------------------------------------------------------------------
(* The order of a thread.                                                  *)

LEMMA TwoUsers ==
  ASSUME NEW u \in Users
  PROVE  Peer(u) \in Users /\ Peer(u) # u /\ \A v \in Users : v = u \/ v = Peer(u)
<1>1. PICK v, w \in Users : v # w /\ Users = {v, w}
  BY ThreadsAssumption
<1>2. \E x \in Users : x # u
  BY <1>1
<1>3. Peer(u) \in Users /\ Peer(u) # u
  BY <1>2 DEF Peer
<1> QED
  BY <1>1, <1>3

\* A set of messages, each of a place of its own.
Placed(T) == T \subseteq Message /\ \A a, b \in T : a.by = b.by /\ a.index = b.index => a = b

\* The order of a thread is total.
LEMMA BeforeIsOrder ==
  ASSUME NEW u \in Users, NEW T, Placed(T)
  PROVE  /\ \A a \in T : ~Before(u, a, a)
         /\ \A a, b, c \in T : Before(u, a, b) /\ Before(u, b, c) => Before(u, a, c)
         /\ \A a, b \in T : a # b => Before(u, a, b) \/ Before(u, b, a)
<1>1. \A a \in T : a.by \in Users /\ a.index \in Nat /\ a.ts \in Nat
  BY DEF Placed, Message
<1>2. \A a, b \in T : a.by # u /\ b.by # u => a.by = b.by
  BY <1>1, TwoUsers
<1>3. \A a \in T : ~Before(u, a, a)
  BY <1>1 DEF Before
<1>4. ASSUME NEW a \in T, NEW b \in T, NEW c \in T, Before(u, a, b), Before(u, b, c)
      PROVE  Before(u, a, c)
  <2>1. a.ts <= b.ts /\ b.ts <= c.ts
    BY <1>1, <1>4 DEF Before
  <2>2. CASE a.ts < c.ts
    BY <2>2 DEF Before
  <2>3. CASE a.ts = c.ts
    <3>1. a.ts = b.ts /\ b.ts = c.ts
      BY <1>1, <2>1, <2>3
    <3> QED
      BY <1>1, <1>2, <1>4, <2>3, <3>1 DEF Before
  <2> QED
    BY <1>1, <2>1, <2>2, <2>3
<1>5. ASSUME NEW a \in T, NEW b \in T, a # b
      PROVE  Before(u, a, b) \/ Before(u, b, a)
  <2>1. a.by # b.by \/ a.index # b.index
    BY <1>5 DEF Placed
  <2> QED
    BY <1>1, <1>2, <2>1 DEF Before
<1> QED
  BY <1>3, <1>4, <1>5

\* A finite set has an element that nothing precedes.
LEMMA FirstOne ==
  ASSUME NEW S, IsFiniteSet(S), S # {}, NEW R,
         \A a \in S : <<a, a>> \notin R,
         \A a, b, c \in S : <<a, b>> \in R /\ <<b, c>> \in R => <<a, c>> \in R
  PROVE  \E m \in S : \A n \in S : <<n, m>> \notin R
<1> DEFINE below(m) == {n \in S : <<n, m>> \in R}
           ranks == {Cardinality(below(m)) : m \in S}
<1>1. \A m \in S : IsFiniteSet(below(m)) /\ Cardinality(below(m)) \in Nat
  <2> TAKE m \in S
  <2>1. below(m) \in SUBSET S
    OBVIOUS
  <2> QED
    BY <2>1, FS_Subset, FS_CardinalityType
<1>2. ranks \in SUBSET Nat /\ ranks # {}
  <2>1. PICK m \in S : TRUE
    OBVIOUS
  <2>2. Cardinality(below(m)) \in ranks
    OBVIOUS
  <2>3. \A k \in ranks : k \in Nat
    <3> HIDE DEF below
    <3> QED
      BY <1>1
  <2> QED
    BY <2>2, <2>3
<1>3. PICK k \in ranks : \A j \in ranks : ~(<<j, k>> \in OpToRel(<, Nat))
  <2> HIDE DEF ranks
  <2> QED
    BY <1>2, WFMin, NatLessThanWellFounded, Zenon
<1>4. PICK m \in S : k = Cardinality(below(m))
  OBVIOUS
<1>5. ASSUME NEW n \in S, <<n, m>> \in R
      PROVE  FALSE
  <2>1. below(n) \in SUBSET below(m) /\ n \in below(m) /\ n \notin below(n)
    BY <1>5
  <2>2. Cardinality(below(n)) <= Cardinality(below(m))
        /\ Cardinality(below(n)) # Cardinality(below(m))
    <3> HIDE DEF below
    <3>1. IsFiniteSet(below(m)) /\ below(m) # below(n)
      BY <1>1, <2>1
    <3> QED
      BY <2>1, <3>1, FS_Subset
  <2>3. Cardinality(below(n)) \in ranks
    OBVIOUS
  <2>4. ~(Cardinality(below(n)) < k)
    <3> HIDE DEF below, ranks
    <3> QED
      BY <1>1, <1>2, <1>3, <2>3 DEF OpToRel
  <2> QED
    <3> HIDE DEF below
    <3> QED
      BY <1>1, <1>4, <2>2, <2>4
<1> QED
  BY <1>5

\* Of some members of a thread, one is the first, and one the last.
LEMMA Extremes ==
  ASSUME NEW u \in Users, NEW T, Placed(T), IsFiniteSet(T), NEW S \in SUBSET T, S # {}
  PROVE  /\ \E m \in S : \A n \in S : ~Before(u, n, m)
         /\ \E m \in S : \A n \in S : ~Before(u, m, n)
<1> DEFINE R == {p \in T \X T : Before(u, p[1], p[2])}
           C == {p \in T \X T : Before(u, p[2], p[1])}
<1>1. \A a, b \in S : /\ <<a, b>> \in R <=> Before(u, a, b)
                      /\ <<a, b>> \in C <=> Before(u, b, a)
  OBVIOUS
<1>2. IsFiniteSet(S)
  BY FS_Subset
<1>3. /\ \A a \in S : ~Before(u, a, a)
      /\ \A a, b, c \in S : Before(u, a, b) /\ Before(u, b, c) => Before(u, a, c)
  BY BeforeIsOrder
<1> HIDE DEF R, C
<1>4. \E m \in S : \A n \in S : <<n, m>> \notin R
  <2>1. /\ \A a \in S : <<a, a>> \notin R
        /\ \A a, b, c \in S : <<a, b>> \in R /\ <<b, c>> \in R => <<a, c>> \in R
    BY <1>1, <1>3
  <2> QED
    BY <1>2, <2>1, FirstOne
<1>5. \E m \in S : \A n \in S : <<n, m>> \notin C
  <2>1. /\ \A a \in S : <<a, a>> \notin C
        /\ \A a, b, c \in S : <<a, b>> \in C /\ <<b, c>> \in C => <<a, c>> \in C
    BY <1>1, <1>3
  <2> QED
    BY <1>2, <2>1, FirstOne
<1> QED
  BY <1>1, <1>4, <1>5

-----------------------------------------------------------------------------
(* What settles a request.                                                 *)

\* What a request takes when those before it took what paid says.
Earlier(u, reqs, r) == {q \in reqs : Before(u, q, r)}
Takes(u, reqs, pays, paid, r) ==
    OldestOf(u, Answers(u, r, Left(pays, UNION {paid[q] : q \in Earlier(u, reqs, r)})))

LEMMA TakesSome ==
  ASSUME NEW u, NEW reqs, NEW pays, NEW paid, NEW r
  PROVE  Takes(u, reqs, pays, paid, r) \in SUBSET pays
BY DEF Takes, OldestOf, Answers, Left

\* It depends on the requests before it only.
LEMMA TakesAlike ==
  ASSUME NEW u, NEW reqs, NEW pays, NEW f, NEW g, NEW r,
         \A q \in Earlier(u, reqs, r) : f[q] = g[q]
  PROVE  Takes(u, reqs, pays, f, r) = Takes(u, reqs, pays, g, r)
<1>1. {f[q] : q \in Earlier(u, reqs, r)} = {g[q] : q \in Earlier(u, reqs, r)}
  OBVIOUS
<1> QED
  BY <1>1 DEF Takes

\* The recursion has a solution: were there requests without one, a smallest
\* set of them that no request precedes would have one after all.
LEMMA SomeoneSettles ==
  ASSUME NEW u \in Users, NEW reqs, Placed(reqs), IsFiniteSet(reqs), NEW pays
  PROVE  \E g \in [reqs -> SUBSET pays] :
            \A r \in reqs : g[r] = Takes(u, reqs, pays, g, r)
<1> DEFINE Good(D) == \E g \in [D -> SUBSET pays] :
                         \A r \in D : g[r] = Takes(u, reqs, pays, g, r)
           Closed(D) == \A r \in D : Earlier(u, reqs, r) \subseteq D
           Bad == {D \in SUBSET reqs : Closed(D) /\ ~Good(D)}
           R == {p \in (SUBSET reqs) \X (SUBSET reqs) : p[1] \subseteq p[2] /\ p[1] # p[2]}
<1>1. Closed(reqs)
  BY DEF Earlier
<1>2. SUFFICES ASSUME Bad # {} PROVE FALSE
  BY <1>1
<1>3. PICK D \in Bad : \A E \in Bad : <<E, D>> \notin R
  <2>1. IsFiniteSet(Bad)
    <3>1. IsFiniteSet(SUBSET reqs) /\ Bad \in SUBSET SUBSET reqs
      BY FS_SUBSET
    <3> HIDE DEF Bad
    <3> QED
      BY <3>1, FS_Subset
  <2>2. /\ \A a \in Bad : <<a, a>> \notin R
        /\ \A a, b, c \in Bad : <<a, b>> \in R /\ <<b, c>> \in R => <<a, c>> \in R
    <3>1. \A a, b \in SUBSET reqs : <<a, b>> \in R <=> a \subseteq b /\ a # b
      OBVIOUS
    <3>2. Bad \subseteq SUBSET reqs
      OBVIOUS
    <3> HIDE DEF Bad, R
    <3> QED
      BY <3>1, <3>2
  <2> HIDE DEF Bad, R
  <2> QED
    BY <1>2, <2>1, <2>2, FirstOne
<1>4. D \in SUBSET reqs /\ Closed(D) /\ ~Good(D)
  OBVIOUS
<1>5. \A E \in SUBSET D : E # D /\ Closed(E) => Good(E)
  <2> SUFFICES ASSUME NEW E \in SUBSET D, E # D, Closed(E) PROVE Good(E)
    OBVIOUS
  <2>1. <<E, D>> \in R /\ E \in SUBSET reqs
    BY <1>4
  <2>2. E \notin Bad
    BY <1>3, <2>1
  <2> HIDE DEF Good
  <2> QED
    BY <2>1, <2>2
<1> HIDE DEF Bad, R
<1>6. CASE D = {}
  <2>1. [r \in {} |-> {}] \in [D -> SUBSET pays]
    BY <1>6
  <2> QED
    BY <1>4, <1>6, <2>1
<1>7. CASE D # {}
  <2>1. PICK m \in D : \A n \in D : ~Before(u, m, n)
    BY <1>4, <1>7, Extremes
  <2>2. Closed(D \ {m})
    BY <1>4, <2>1 DEF Earlier
  <2>3. PICK g \in [D \ {m} -> SUBSET pays] :
           \A r \in D \ {m} : g[r] = Takes(u, reqs, pays, g, r)
    <3>1. Good(D \ {m})
      <4> HIDE DEF Good, Closed
      <4> QED
        BY <1>5, <2>1, <2>2
    <3> QED
      BY <3>1
  <2> DEFINE h == [r \in D |-> IF r = m THEN Takes(u, reqs, pays, g, m) ELSE g[r]]
  <2>4. h \in [D -> SUBSET pays]
    BY TakesSome
  <2>5. ASSUME NEW r \in D PROVE h[r] = Takes(u, reqs, pays, h, r)
    <3>1. \A q \in Earlier(u, reqs, r) : q \in D /\ q # m
      BY <1>4, <2>1 DEF Earlier
    <3>2. \A q \in Earlier(u, reqs, r) : h[q] = g[q]
      BY <3>1
    <3>3. Takes(u, reqs, pays, h, r) = Takes(u, reqs, pays, g, r)
      <4> HIDE DEF h
      <4> QED
        BY <3>2, TakesAlike
    <3> QED
      BY <2>3, <3>3
  <2>6. Good(D)
    BY <2>4, <2>5
  <2> QED
    BY <1>4, <2>6
<1> QED
  BY <1>6, <1>7

\* So PaidBy is one.
LEMMA PaidByRule ==
  ASSUME NEW u \in Users, NEW reqs, Placed(reqs), IsFiniteSet(reqs), NEW pays
  PROVE  \A r \in reqs : PaidBy(u, reqs, pays)[r] = Takes(u, reqs, pays, PaidBy(u, reqs, pays), r)
<1> DEFINE eq(f) == f = [r \in reqs |->
             LET taken == UNION {f[q] : q \in {q \in reqs : Before(u, q, r)}}
             IN OldestOf(u, Answers(u, r, Left(pays, taken)))]
<1>1. PICK g \in [reqs -> SUBSET pays] : \A r \in reqs : g[r] = Takes(u, reqs, pays, g, r)
  BY SomeoneSettles
<1>2. eq(g)
  <2>1. g = [r \in reqs |-> g[r]]
    OBVIOUS
  <2>2. \A r \in reqs : g[r] = OldestOf(u, Answers(u, r, Left(pays,
                              UNION {g[q] : q \in {q \in reqs : Before(u, q, r)}})))
    BY <1>1 DEF Takes, Earlier
  <2> QED
    BY <2>1, <2>2
<1>3. PaidBy(u, reqs, pays) = CHOOSE f : eq(f)
  BY DEF PaidBy
<1>4. eq(PaidBy(u, reqs, pays))
  <2> HIDE DEF eq
  <2> QED
    BY <1>2, <1>3
<1> QED
  BY <1>4 DEF Takes, Earlier

-----------------------------------------------------------------------------
(* The lanes, the notes and what a browser read of the lanes.              *)

\* A thread is a finite set of messages, each of a place of its own.
LEMMA ThreadPlaced ==
  ASSUME ThreadsInv, NEW u \in Users
  PROVE  /\ Placed(Thread(u)) /\ IsFiniteSet(Thread(u))
         /\ \A v \in Users : \A i \in 1..seen[u][v] : Entry(v, i) \in Message
<1>1. \A v \in Users : /\ lane[v] \in Seq(Rec) /\ seen[u][v] \in Nat
                       /\ seen[u][v] <= Len(lane[v])
  BY DEF ThreadsInv, WritingOK, ReadingOK
<1>2. ASSUME NEW v \in Users, NEW i \in 1..seen[u][v]
      PROVE  Entry(v, i) \in Message
  <2>1. lane[v][i] \in Rec /\ i \in Nat \ {0}
    BY <1>1
  <2> QED
    BY <2>1 DEF Entry, Message, Rec
<1>3. Thread(u) \subseteq Message
  BY <1>2 DEF Thread
<1>4. \A m \in Thread(u) : /\ m.by \in Users /\ m.index \in 1..seen[u][m.by]
                           /\ m = Entry(m.by, m.index)
  <2> SUFFICES ASSUME NEW v \in Users, NEW i \in 1..seen[u][v]
               PROVE  Entry(v, i).by = v /\ Entry(v, i).index = i
    BY DEF Thread
  <2> QED
    BY DEF Entry
<1>5. IsFiniteSet(Thread(u))
  <2>1. PICK v, w \in Users : Users = {v, w}
    BY ThreadsAssumption
  <2> DEFINE part(x) == {Entry(x, i) : i \in 1..seen[u][x]}
  <2>2. \A x \in Users : IsFiniteSet(part(x))
    <3> TAKE x \in Users
    <3> DEFINE at == [i \in 1..seen[u][x] |-> Entry(x, i)]
    <3>1. at \in Surjection(1..seen[u][x], part(x))
      BY DEF Surjection
    <3>2. IsFiniteSet(1..seen[u][x])
      <4>1. seen[u][x] \in Int /\ 1 \in Int
        BY <1>1
      <4> QED
        BY <4>1, FS_Interval
    <3> HIDE DEF at, part
    <3> QED
      BY <3>1, <3>2, FS_Surjection
  <2>3. Thread(u) = part(v) \cup part(w)
    BY <2>1 DEF Thread
  <2> HIDE DEF part
  <2> QED
    BY <2>2, <2>3, FS_Union
<1> QED
  BY <1>2, <1>3, <1>4, <1>5 DEF Placed

LEMMA KindPlaced ==
  ASSUME ThreadsInv, NEW u \in Users, NEW k
  PROVE  Placed(Kind(u, k)) /\ IsFiniteSet(Kind(u, k)) /\ Kind(u, k) \in SUBSET Thread(u)
<1>1. Kind(u, k) \in SUBSET Thread(u)
  BY DEF Kind
<1>2. IsFiniteSet(Kind(u, k))
  BY <1>1, ThreadPlaced, FS_Subset
<1> QED
  BY <1>1, <1>2, ThreadPlaced DEF Placed

\* What is settled, in terms of what each request takes.
LEMMA SettledRule ==
  ASSUME ThreadsInv, NEW u \in Users, NEW reqs, NEW pays, NEW paid,
         reqs = Kind(u, "req"), pays = Kind(u, "pay"), paid = PaidBy(u, reqs, pays)
  PROVE  /\ Settled(u) = {x \in reqs \X pays : x[2] \in paid[x[1]]}
         /\ \A r \in reqs : paid[r] = Takes(u, reqs, pays, paid, r)
<1>1. \A r \in reqs : paid[r] = Takes(u, reqs, pays, paid, r)
  BY KindPlaced, PaidByRule
<1>2. \A r \in reqs : paid[r] \subseteq pays
  BY <1>1, TakesSome
<1>3. Settled(u) = UNION {{r} \X paid[r] : r \in reqs}
  BY DEF Settled
<1> QED
  BY <1>1, <1>2, <1>3

-----------------------------------------------------------------------------
\* No payment settles two requests: of two requests one is the earlier, and
\* what it takes is not left for the other.
LEMMA OnePaymentHolds == ThreadsInv => OnePaymentEach
<1> SUFFICES ASSUME ThreadsInv, NEW u \in Users, NEW x \in Settled(u), NEW y \in Settled(u),
                    x[2] = y[2]
             PROVE  x = y
  BY DEF OnePaymentEach
<1>1. PICK reqs, pays, paid : /\ reqs = Kind(u, "req") /\ pays = Kind(u, "pay")
                              /\ paid = PaidBy(u, reqs, pays)
  OBVIOUS
<1>2. /\ Settled(u) = {z \in reqs \X pays : z[2] \in paid[z[1]]}
      /\ \A r \in reqs : paid[r] = Takes(u, reqs, pays, paid, r)
  BY <1>1, SettledRule
<1>3. ASSUME NEW r \in reqs, NEW q \in reqs, Before(u, q, r), NEW p \in paid[q] PROVE p \notin paid[r]
  <2>1. paid[q] \subseteq UNION {paid[z] : z \in Earlier(u, reqs, r)}
    BY <1>3 DEF Earlier
  <2> QED
    BY <1>2, <1>3, <2>1 DEF Takes, OldestOf, Answers, Left
<1>4. \A q, r \in reqs : q # r => Before(u, q, r) \/ Before(u, r, q)
  BY <1>1, KindPlaced, BeforeIsOrder
<1>5. x \in reqs \X pays /\ y \in reqs \X pays /\ x[2] \in paid[x[1]] /\ y[2] \in paid[y[1]]
  BY <1>2
<1>6. x[1] = y[1]
  BY <1>3, <1>4, <1>5
<1> QED
  BY <1>5, <1>6

\* Of the same messages, none of one time in both lanes, the two browsers make
\* the same order, and so settle alike.
LEMMA AgreeHolds == ThreadsInv => Agree
<1> SUFFICES ASSUME ThreadsInv, NEW u \in Users, seen[u] = seen[Peer(u)], ~Tied(u)
             PROVE  Settled(u) = Settled(Peer(u))
  BY DEF Agree
<1>1. PICK v \in Users : v = Peer(u)
  BY TwoUsers
<1>2. Thread(v) = Thread(u)
  BY <1>1 DEF Thread
<1>3. PICK reqs, pays, f, g :
         /\ reqs = Kind(u, "req") /\ pays = Kind(u, "pay")
         /\ f = PaidBy(u, reqs, pays) /\ g = PaidBy(v, reqs, pays)
  OBVIOUS
<1>4. reqs = Kind(v, "req") /\ pays = Kind(v, "pay")
  BY <1>2, <1>3 DEF Kind
<1>5. /\ Settled(u) = {x \in reqs \X pays : x[2] \in f[x[1]]}
      /\ \A r \in reqs : f[r] = Takes(u, reqs, pays, f, r)
  BY <1>3, SettledRule
<1>6. /\ Settled(v) = {x \in reqs \X pays : x[2] \in g[x[1]]}
      /\ \A r \in reqs : g[r] = Takes(v, reqs, pays, g, r)
  BY <1>3, <1>4, SettledRule
<1>7. \A a, b \in Thread(u) : Before(v, a, b) <=> Before(u, a, b)
  <2>1. \A a, b \in Thread(u) : a.ts = b.ts => a.by = b.by
    BY DEF Tied
  <2> QED
    BY <2>1 DEF Before
<1>8. reqs \in SUBSET Thread(u) /\ pays \in SUBSET Thread(u)
  BY <1>3, KindPlaced
<1>9. \A h : \A r \in reqs : Takes(v, reqs, pays, h, r) = Takes(u, reqs, pays, h, r)
  <2> SUFFICES ASSUME NEW h, NEW r \in reqs
               PROVE  Takes(v, reqs, pays, h, r) = Takes(u, reqs, pays, h, r)
    OBVIOUS
  <2>1. Earlier(v, reqs, r) = Earlier(u, reqs, r)
    BY <1>7, <1>8 DEF Earlier
  <2>2. \A ps \in SUBSET pays : Answers(v, r, ps) = Answers(u, r, ps)
    BY <1>7, <1>8 DEF Answers
  <2>3. \A ps \in SUBSET pays : OldestOf(v, ps) = OldestOf(u, ps)
    BY <1>7, <1>8 DEF OldestOf
  <2>4. \A t : Left(pays, t) \in SUBSET pays
    BY DEF Left
  <2>5. \A ps \in SUBSET pays : Answers(u, r, ps) \in SUBSET pays
    BY DEF Answers
  <2> QED
    BY <2>1, <2>2, <2>3, <2>4, <2>5 DEF Takes
<1>10. \A r \in reqs : f[r] = g[r]
  <2> DEFINE S == {r \in reqs : f[r] # g[r]}
  <2> SUFFICES ASSUME S # {} PROVE FALSE
    OBVIOUS
  <2>1. PICK r \in S : \A q \in S : ~Before(u, q, r)
    <3>1. S \in SUBSET Thread(u)
      BY <1>8
    <3> HIDE DEF S
    <3> QED
      BY <3>1, ThreadPlaced, Extremes
  <2>2. \A q \in Earlier(u, reqs, r) : f[q] = g[q]
    BY <2>1 DEF Earlier
  <2>3. Takes(u, reqs, pays, f, r) = Takes(u, reqs, pays, g, r)
    BY <2>2, TakesAlike
  <2> QED
    BY <1>5, <1>6, <1>9, <2>3
<1> QED
  BY <1>1, <1>5, <1>6, <1>10

\* A lane read further brings messages later than those read of it before:
\* what was paid stays paid, by the same payment.
LEMMA SettledStays ==
  ASSUME NEW u \in Users, NEW R, NEW P, NEW R2, NEW P2,
         Placed(R2 \cup P2), IsFiniteSet(R2), R \subseteq R2, P \subseteq P2,
         \A a \in R \cup P, b \in (R2 \ R) \cup (P2 \ P) : a.by = b.by => Before(u, a, b)
  PROVE  \A r \in R : PaidBy(u, R, P)[r] \subseteq PaidBy(u, R2, P2)[r]
<1> DEFINE T == R2 \cup P2
<1>1. PICK f, g : f = PaidBy(u, R, P) /\ g = PaidBy(u, R2, P2)
  OBVIOUS
<1>2. /\ \A r \in R : f[r] = Takes(u, R, P, f, r)
      /\ \A r \in R2 : g[r] = Takes(u, R2, P2, g, r)
  <2>1. Placed(R2) /\ Placed(R) /\ IsFiniteSet(R)
    BY FS_Subset DEF Placed
  <2>2. \A r \in R : f[r] = Takes(u, R, P, f, r)
    BY <1>1, <2>1, PaidByRule
  <2>3. \A r \in R2 : g[r] = Takes(u, R2, P2, g, r)
    BY <1>1, <2>1, PaidByRule
  <2> QED
    BY <2>2, <2>3
<1> DEFINE S == {r \in R : ~(f[r] \subseteq g[r] /\ g[r] \cap P \subseteq f[r])}
<1> SUFFICES ASSUME S # {} PROVE FALSE
  BY <1>1
<1>3. PICK r \in S : \A q \in S : ~Before(u, q, r)
  <2>1. S \in SUBSET R2
    OBVIOUS
  <2>2. Placed(R2)
    BY DEF Placed
  <2> HIDE DEF S
  <2> QED
    BY <2>1, <2>2, Extremes
<1>4. r \in R /\ \A q \in Earlier(u, R, r) : f[q] \subseteq g[q] /\ g[q] \cap P \subseteq f[q]
  BY <1>3 DEF Earlier
<1>5. ASSUME NEW q \in R2, NEW p \in g[q]
      PROVE  p \in P2 /\ p.by # q.by
  BY <1>2, <1>5 DEF Takes, OldestOf, Answers, Left
<1>6. \A a, b, c \in T : a.by # b.by /\ c.by # b.by => a.by = c.by
  <2>1. \A a \in T : a.by \in Users
    BY DEF Placed, Message
  <2> QED
    BY <2>1, TwoUsers
<1>7. \A a, b \in T : Before(u, a, b) => ~Before(u, b, a)
  BY BeforeIsOrder
<1> DEFINE tf == UNION {f[q] : q \in Earlier(u, R, r)}
           tg == UNION {g[q] : q \in Earlier(u, R2, r)}
           A == Answers(u, r, Left(P, tf))
           A2 == Answers(u, r, Left(P2, tg))
<1>8. f[r] = OldestOf(u, A) /\ g[r] = OldestOf(u, A2)
  BY <1>2, <1>4 DEF Takes
<1>9. ASSUME NEW p \in P, p.by # r.by
      PROVE  p \in tf <=> p \in tg
  <2>1. ASSUME p \in tf PROVE p \in tg
    <3>1. PICK q \in Earlier(u, R, r) : p \in f[q]
      BY <2>1
    <3>2. q \in Earlier(u, R2, r) /\ p \in g[q]
      BY <1>4, <3>1 DEF Earlier
    <3> QED
      BY <3>2
  <2>2. ASSUME p \in tg PROVE p \in tf
    <3>1. PICK q \in Earlier(u, R2, r) : p \in g[q]
      BY <2>2
    <3>2. q \in R2 /\ Before(u, q, r) /\ p.by # q.by
      BY <1>5, <3>1 DEF Earlier
    <3>3. q.by = r.by
      BY <1>4, <1>6, <1>9, <3>2
    <3>4. q \in R
      BY <1>4, <1>7, <3>2, <3>3
    <3>5. q \in Earlier(u, R, r) /\ p \in f[q]
      BY <1>4, <3>1, <3>2, <3>4 DEF Earlier
    <3> QED
      BY <3>5
  <2> QED
    BY <2>1, <2>2
<1>10. A = A2 \cap P
  <2> HIDE DEF tf, tg
  <2> QED
    BY <1>9 DEF Answers, Left
<1>11. \A a \in A2 \cap P, b \in A2 \ P : Before(u, a, b)
  <2>1. \A a \in A2 : a \in P2 /\ a.by # r.by
    BY DEF Answers, Left
  <2> HIDE DEF A2
  <2> QED
    BY <1>4, <1>6, <2>1
<1>12. f[r] \subseteq g[r] /\ g[r] \cap P \subseteq f[r]
  <2> HIDE DEF A, A2
  <2> QED
    BY <1>8, <1>10, <1>11 DEF OldestOf
<1> QED
  BY <1>3, <1>12

-----------------------------------------------------------------------------
(* The notes.                                                              *)

LEMMA HeldNat ==
  ASSUME NEW b, IsABag(b), NEW a
  PROVE  Held(a, b) \in Nat
BY DEF Held, BagIn, BagToSet, IsABag

LEMMA BagsAdded ==
  ASSUME NEW b, NEW c, IsABag(b), IsABag(c)
  PROVE  IsABag(b (+) c) /\ \A a : Held(a, b) <= Held(a, b (+) c)
<1>1. DOMAIN (b (+) c) = DOMAIN b \cup DOMAIN c
  BY DEF (+)
<1>2. \A e \in DOMAIN b \cup DOMAIN c :
         (b (+) c)[e] = (IF e \in DOMAIN b THEN b[e] ELSE 0) + (IF e \in DOMAIN c THEN c[e] ELSE 0)
  BY DEF (+)
<1>3. \A e : /\ e \in DOMAIN b => b[e] \in Nat /\ b[e] > 0
             /\ e \in DOMAIN c => c[e] \in Nat /\ c[e] > 0
  BY DEF IsABag
<1>4. \A e \in DOMAIN b \cup DOMAIN c : (b (+) c)[e] \in Nat /\ (b (+) c)[e] > 0
  BY <1>2, <1>3
<1>5. b (+) c = [e \in DOMAIN b \cup DOMAIN c |-> (b (+) c)[e]]
  BY <1>1 DEF (+)
<1>6. IsABag(b (+) c)
  BY <1>1, <1>4, <1>5 DEF IsABag
<1>7. \A a : Held(a, b) <= Held(a, b (+) c)
  BY <1>1, <1>2, <1>3 DEF Held, BagIn, BagToSet
<1> QED
  BY <1>6, <1>7

LEMMA BagsTaken ==
  ASSUME NEW b, IsABag(b), NEW c \in Spendable(b)
  PROVE  IsABag(b (-) c)
<1>1. PICK S \in SUBSET DOMAIN b : c \in [S -> UNION {1..b[n] : n \in S}]
  BY DEF Spendable
<1>2. \A e \in S : c[e] \in Nat
  BY <1>1 DEF IsABag
<1>3. \A e \in DOMAIN b : b[e] \in Nat
  BY DEF IsABag
<1> DEFINE B == [e \in DOMAIN b |-> IF e \in DOMAIN c THEN b[e] - c[e] ELSE b[e]]
           D == {d \in DOMAIN B : B[d] > 0}
<1>4. \A e \in D : B[e] \in Nat /\ B[e] > 0
  BY <1>1, <1>2, <1>3
<1>5. b (-) c = [e \in D |-> B[e]]
  BY DEF (-)
<1> HIDE DEF B, D
<1> QED
  BY <1>4, <1>5 DEF IsABag

LEMMA ChangeIsBag ==
  ASSUME NEW n
  PROVE  IsABag(Change(n))
BY DEF Change, EmptyBag, SetToBag, IsABag

\* Of the memos of one amount, no more are paired than there are notes of it.
LEMMA PairedFew ==
  ASSUME ThreadsInv, NEW u \in Users, NEW a \in Amounts
  PROVE  Cardinality(Paired(u, a)) <= Held(a, read[u])
<1> DEFINE R == Received(u, a)
           before(m) == {n \in R : Before(u, n, m)}
           h == Held(a, read[u])
           P == Paired(u, a)
           rank == [m \in P |-> Cardinality(before(m)) + 1]
<1>1. R \in SUBSET Thread(u) /\ P \in SUBSET R
  BY DEF Received, Kind, Paired
<1>2. IsFiniteSet(R)
  <2> HIDE DEF R
  <2> QED
    BY <1>1, ThreadPlaced, FS_Subset
<1>3. \A m : IsFiniteSet(before(m)) /\ Cardinality(before(m)) \in Nat
  <2> TAKE m
  <2>1. before(m) \in SUBSET R
    OBVIOUS
  <2> HIDE DEF R, before
  <2> QED
    BY <1>2, <2>1, FS_Subset, FS_CardinalityType
<1>4. h \in Nat
  BY HeldNat DEF ThreadsInv, NotesOK
<1>5. \A m \in P : Cardinality(before(m)) < h
  BY DEF Paired
<1>6. rank \in [P -> 1..h]
  <2> HIDE DEF before, P, h
  <2> QED
    BY <1>3, <1>4, <1>5
<1>7. ASSUME NEW m \in P, NEW n \in P, Before(u, m, n)
      PROVE  Cardinality(before(m)) < Cardinality(before(n))
  <2>1. /\ \A b \in R : ~Before(u, b, b)
        /\ \A b, c, d \in R : Before(u, b, c) /\ Before(u, c, d) => Before(u, b, d)
    <3> HIDE DEF R
    <3> QED
      BY <1>1, ThreadPlaced, BeforeIsOrder
  <2>2. m \in R /\ n \in R
    BY <1>1
  <2>3. before(m) \in SUBSET before(n) /\ m \in before(n) /\ m \notin before(m)
    <3> HIDE DEF R, P
    <3> QED
      BY <1>7, <2>1, <2>2
  <2> HIDE DEF before
  <2>4. before(m) # before(n)
    BY <2>3
  <2>5. Cardinality(before(m)) <= Cardinality(before(n))
        /\ (Cardinality(before(n)) = Cardinality(before(m)) => before(n) = before(m))
    BY <1>3, <2>3, FS_Subset
  <2> QED
    BY <1>3, <2>4, <2>5
<1>8. \A m, n \in P : m # n => Before(u, m, n) \/ Before(u, n, m)
  <2> HIDE DEF R, P
  <2> QED
    BY <1>1, ThreadPlaced, BeforeIsOrder
<1>9. rank \in Injection(P, 1..h)
  <2>1. \A m, n \in P : rank[m] = rank[n] => m = n
    <3> HIDE DEF before, P
    <3> QED
      BY <1>3, <1>7, <1>8
  <2> HIDE DEF rank, P, h
  <2> QED
    BY <1>6, <2>1 DEF Injection, IsInjective
<1>10. IsFiniteSet(1..h) /\ Cardinality(1..h) = h
  <2> HIDE DEF h
  <2> QED
    BY <1>4, FS_Interval
<1> HIDE DEF rank, P, h
<1>11. Cardinality(P) <= Cardinality(1..h)
  BY <1>9, <1>10, FS_Injection
<1> QED
  BY <1>10, <1>11 DEF P, h

-----------------------------------------------------------------------------
(* The invariant.                                                          *)

LEMMA ThreadsInitOK == ThreadsInit => ThreadsInv
<1> SUFFICES ASSUME ThreadsInit PROVE ThreadsInv
  OBVIOUS
<1>1. WritingOK
  BY DEF ThreadsInit, WritingOK
<1>2. NotesOK
  <2>1. IsABag(EmptyBag)
    BY DEF EmptyBag, SetToBag, IsABag
  <2> QED
    BY <2>1, ThreadsAssumption DEF ThreadsInit, NotesOK
<1>3. ReadingOK
  BY DEF ThreadsInit, ReadingOK
<1>4. InOrder
  <2>1. Rises(<<>>)
    BY DEF Rises
  <2> QED
    BY <2>1 DEF ThreadsInit, InOrder, Sent
<1>5. ChecksOK
  <2> SUFFICES ASSUME NEW u \in Users PROVE CheckOK(u)
    BY DEF ChecksOK
  <2>1. receipts[u] = {} /\ check[u] = "over" /\ ~stale[u]
    BY DEF ThreadsInit
  <2>2. \A a : Ticked(u, a) = {} /\ Held(a, notes[u]) \in Nat
    BY <1>2, <2>1, HeldNat DEF Ticked, NotesOK
  <2>3. \A a \in Amounts : Cardinality(Ticked(u, a)) <= Held(a, notes[u])
    BY <2>2, FS_EmptySet
  <2> QED
    BY <2>1, <2>3 DEF CheckOK
<1>6. SentOK
  BY DEF ThreadsInit, SentOK, Sent
<1> QED
  BY <1>1, <1>2, <1>3, <1>4, <1>5, <1>6 DEF ThreadsInv

\* What is added to a lane changes no thread before it is read.
LEMMA ThreadsKept ==
  ASSUME ThreadsInv, seen' = seen,
         \A v \in Users : \A i \in 1..Len(lane[v]) : lane'[v][i] = lane[v][i]
  PROVE  \A w \in Users : Incoming(w)' = Incoming(w)
<1> SUFFICES ASSUME NEW w \in Users PROVE Incoming(w)' = Incoming(w)
  OBVIOUS
<1>1. \A v \in Users : \A i \in 1..seen[w][v] : Entry(v, i)' = Entry(v, i)
  <2>1. \A v \in Users : seen[w][v] \in Nat /\ seen[w][v] <= Len(lane[v]) /\ Len(lane[v]) \in Nat
    BY DEF ThreadsInv, ReadingOK, WritingOK
  <2> QED
    BY <2>1 DEF Entry
<1>2. Thread(w)' = Thread(w)
  BY <1>1 DEF Thread
<1> QED
  BY <1>2 DEF Incoming, Kind

\* Ticks and checks that nothing touched are still covered, by notes no fewer.
LEMMA CheckKept ==
  ASSUME ThreadsInv, NEW w \in Users, stale'[w] = stale[w], confirmed'[w] => confirmed[w],
         check'[w] = check[w], read'[w] = read[w], receipts'[w] = receipts[w],
         Incoming(w)' = Incoming(w),
         IsABag(notes'[w]), \A a \in Amounts : Held(a, notes[w]) <= Held(a, notes'[w])
  PROVE  CheckOK(w)'
<1>1. CheckOK(w)
  BY DEF ThreadsInv, ChecksOK
<1>2. \A a : /\ Held(a, notes[w]) \in Nat /\ Held(a, notes'[w]) \in Nat
             /\ Held(a, read[w]) \in Nat
  BY HeldNat DEF ThreadsInv, NotesOK
<1>3. \A a : Ticked(w, a)' = Ticked(w, a) /\ Cardinality(Ticked(w, a)) \in Nat
  <2>1. \A a : Ticked(w, a) \in SUBSET Thread(w)
    BY <1>1 DEF CheckOK, Ticked, Incoming, Kind
  <2>2. \A a : IsFiniteSet(Ticked(w, a))
    BY <2>1, ThreadPlaced, FS_Subset
  <2> QED
    BY <2>2, FS_CardinalityType DEF Ticked
<1>4. receipts'[w] \subseteq Incoming(w)'
  BY <1>1 DEF CheckOK
<1>5. ASSUME ~stale'[w], check'[w] = "over", NEW a \in Amounts
      PROVE  Cardinality(Ticked(w, a)') <= Held(a, notes'[w])
  BY <1>1, <1>2, <1>3, <1>5 DEF CheckOK
<1>6. ASSUME ~stale'[w], check'[w] = "read", NEW a \in Amounts
      PROVE  Held(a, read'[w]) <= Held(a, notes'[w])
  BY <1>1, <1>2, <1>6 DEF CheckOK
<1>7. stale'[w] /\ confirmed'[w] => \/ check'[w] = "asked" \/ Incoming(w)' = {}
                                    \/ check'[w] = "over" /\ receipts'[w] = {}
  BY <1>1 DEF CheckOK
<1> QED
  BY <1>3, <1>4, <1>5, <1>6, <1>7 DEF CheckOK

\* So they are, too, when a check is begun.
LEMMA CheckAsked ==
  ASSUME ThreadsInv, NEW w \in Users, receipts'[w] = receipts[w],
         Incoming(w) \subseteq Incoming(w)', check'[w] = "asked"
  PROVE  CheckOK(w)'
BY DEF ThreadsInv, ChecksOK, CheckOK

\* A message of the time of now comes after all of its lane.
LEMMA RisesAtTheEnd ==
  ASSUME NEW s \in Seq(Rec), Rises(s), NEW t \in Seq(Rec), NEW ts \in Nat,
         \A i \in 1..Len(t) : t[i].ts = ts,
         s = <<>> \/ Last(s).ts <= ts
  PROVE  Rises(s \o t)
<1>1. \A i \in 1..Len(s) : s[i].ts \in Nat
  <2>1. \A i \in 1..Len(s) : s[i] \in Rec
    OBVIOUS
  <2> QED
    BY <2>1 DEF Rec
<1>2. \A i \in 1..Len(s) : s[i].ts <= ts
  BY <1>1 DEF Rises, Last
<1> SUFFICES ASSUME NEW i \in 1..Len(s \o t), NEW j \in 1..Len(s \o t), i < j
             PROVE  (s \o t)[i].ts <= (s \o t)[j].ts
  BY DEF Rises
<1>3. CASE j <= Len(s)
  <2>1. (s \o t)[i] = s[i] /\ (s \o t)[j] = s[j] /\ i \in 1..Len(s) /\ j \in 1..Len(s)
    BY <1>3
  <2> QED
    BY <2>1 DEF Rises
<1>4. CASE j > Len(s)
  <2>1. (s \o t)[j] = t[j - Len(s)] /\ j - Len(s) \in 1..Len(t)
    BY <1>4
  <2>2. CASE i <= Len(s)
    BY <1>2, <2>1, <2>2
  <2>3. CASE i > Len(s)
    <3>1. (s \o t)[i] = t[i - Len(s)] /\ i - Len(s) \in 1..Len(t)
      BY <2>3
    <3> QED
      BY <2>1, <3>1
  <2> QED
    BY <2>2, <2>3
<1> QED
  BY <1>3, <1>4

\* The requests and the payment of an operation get their time and place.
LEMMA StartOK ==
  ASSUME ThreadsInv, NEW u \in Users, NEW kind \in {"req", "pay"},
         NEW amounts \in Seq(Amounts), amounts # <<>>, Start(u, kind, amounts)
  PROVE  ThreadsInv'
<1>1. PICK ts \in Now(u) :
         op' = [op EXCEPT ![u] = [at |-> Len(lane[u]),
                  recs |-> [i \in DOMAIN amounts |->
                              [kind |-> kind, amount |-> amounts[i], ts |-> ts]]]]
  BY DEF Start
<1> DEFINE recs == [i \in DOMAIN amounts |-> [kind |-> kind, amount |-> amounts[i], ts |-> ts]]
<1>2. lane[u] \in Seq(Rec) /\ op[u] = None
      /\ UNCHANGED <<lane, notes, late, seen, read, receipts, stale>>
  BY DEF Start, chain, ThreadsInv, WritingOK
<1>3. ts \in Nat /\ (lane[u] = <<>> \/ Last(lane[u]).ts <= ts)
  <2>1. lane[u] # <<>> => Last(lane[u]) \in Rec
    BY <1>2 DEF Last
  <2> QED
    BY <2>1, ThreadsAssumption DEF Now, Rec
<1>4. recs \in Seq(Rec) /\ recs # <<>> /\ \A i \in 1..Len(recs) : recs[i].ts = ts
  <2>1. DOMAIN amounts = 1..Len(amounts) /\ Len(amounts) \in Nat \ {0}
        /\ \A i \in DOMAIN amounts : amounts[i] \in Amounts
    OBVIOUS
  <2>2. recs \in [1..Len(amounts) -> Rec]
    BY <1>3, <2>1 DEF Rec
  <2>3. Len(recs) = Len(amounts)
    BY <2>1, <2>2
  <2> QED
    BY <2>1, <2>2, <2>3
<1>5. op' = [op EXCEPT ![u] = [at |-> Len(lane[u]), recs |-> recs]]
  BY <1>1
<1> HIDE DEF recs
<1>6. WritingOK'
  <2>1. [at |-> Len(lane[u]), recs |-> recs] \in Operation
    BY <1>2, <1>4 DEF Operation
  <2> QED
    BY <1>2, <1>5, <2>1 DEF Start, ThreadsInv, WritingOK
<1>7. check'[u] \in {"asked", check[u]} /\ \A v \in Users \ {u} : check'[v] = check[v]
  BY DEF Start, AskAgain, ThreadsInv, ReadingOK
<1>8. ReadingOK'
  BY <1>2, <1>7 DEF Start, ThreadsInv, ReadingOK
<1>9. InOrder'
  <2> SUFFICES ASSUME NEW v \in Users
               PROVE  /\ Rises(lane[v])
                      /\ \A tx \in Sent(v)' : Len(lane[v]) = tx.at => Rises(lane[v] \o tx.recs)
    BY <1>2 DEF InOrder
  <2>1. Rises(lane[v]) /\ \A tx \in Sent(v) : Len(lane[v]) = tx.at => Rises(lane[v] \o tx.recs)
    BY DEF ThreadsInv, InOrder
  <2>2. CASE v # u
    <3>1. op'[v] = op[v]
      BY <1>5, <2>2 DEF ThreadsInv, WritingOK
    <3> QED
      BY <1>2, <2>1, <3>1 DEF Sent
  <2>3. CASE v = u
    <3>1. op'[v].recs = recs
      BY <1>5, <2>3 DEF ThreadsInv, WritingOK
    <3>2. Rises(lane[u] \o recs)
      BY <1>2, <1>3, <1>4, <2>1, <2>3, RisesAtTheEnd
    <3>3. \A tx \in Sent(v)' : tx \in Sent(v) \/ tx.recs = recs
      BY <1>2, <3>1 DEF Sent
    <3> QED
      BY <2>1, <2>3, <3>2, <3>3
  <2> QED
    BY <2>2, <2>3
<1>10. ASSUME NEW v \in Users PROVE CheckOK(v)'
  <2>1. Incoming(v)' = Incoming(v)
    BY <1>2, ThreadsKept
  <2>2. stale'[v] = stale[v] /\ (confirmed'[v] => confirmed[v])
    BY <1>2 DEF Start, ThreadsInv, WritingOK
  <2>3. \A a : Held(a, notes[v]) <= Held(a, notes[v]) /\ IsABag(notes[v])
    BY HeldNat DEF ThreadsInv, NotesOK
  <2>4. CASE check'[v] = check[v]
    BY <1>2, <2>1, <2>2, <2>3, <2>4, CheckKept
  <2>5. CASE check'[v] = "asked"
    BY <1>2, <2>1, <2>5, CheckAsked
  <2> QED
    BY <1>7, <2>4, <2>5
<1>11. SentOK'
  <2> SUFFICES ASSUME NEW v \in Users
               PROVE  /\ op'[v] # None => op'[v].at <= Len(lane[v])
                      /\ \A tx \in late[v] : tx.at = Len(lane[v])
                      /\ confirmed'[v] => Sent(v)' = {}
                      /\ op'[v] # None /\ Len(lane[v]) > op'[v].at => late[v] = {}
    BY <1>2 DEF SentOK, Sent
  <2>1. CASE v # u
    <3>1. op'[v] = op[v] /\ confirmed'[v] = confirmed[v]
      BY <1>5, <2>1 DEF Start, ThreadsInv, WritingOK
    <3> QED
      BY <1>2, <3>1 DEF ThreadsInv, SentOK, Sent
  <2>2. CASE v = u
    <3>1. op'[v].at = Len(lane[v]) /\ ~confirmed'[v]
      BY <1>5, <2>2 DEF Start, ThreadsInv, WritingOK
    <3> QED
      BY <1>2, <2>2, <3>1 DEF ThreadsInv, SentOK
  <2> QED
    BY <2>1, <2>2
<1> QED
  BY <1>2, <1>6, <1>8, <1>9, <1>10, <1>11 DEF ThreadsInv, NotesOK, ChecksOK

\* What was sent lands, in time or late: the bar shows no confirmed transaction.
LEMMA LandsOK ==
  ASSUME ThreadsInv, NEW u \in Users, NEW tx \in Sent(u),
         NEW spent \in Spendable(notes[u]), Lands(u, tx, spent)
  PROVE  ThreadsInv'
<1>1. /\ tx \in Operation /\ Len(lane[u]) = tx.at /\ ~confirmed[u]
      /\ UNCHANGED <<op, confirmed, seen, check, read, receipts>>
      /\ lane' = [lane EXCEPT ![u] = @ \o tx.recs]
      /\ late' = [late EXCEPT ![u] = {}] /\ stale' = [stale EXCEPT ![u] = TRUE]
  BY DEF Lands, ThreadsInv, WritingOK, SentOK, Sent
<1>2. tx.recs \in Seq(Rec) /\ Len(tx.recs) > 0 /\ lane[u] \in Seq(Rec)
  BY <1>1 DEF Operation, ThreadsInv, WritingOK
<1>3. lane' \in [Users -> Seq(Rec)]
  BY <1>1, <1>2 DEF ThreadsInv, WritingOK
<1>4. /\ \A v \in Users \ {u} : lane'[v] = lane[v] /\ late'[v] = late[v] /\ stale'[v] = stale[v]
      /\ lane'[u] = lane[u] \o tx.recs /\ late'[u] = {} /\ stale'[u]
      /\ Len(lane'[u]) > Len(lane[u])
      /\ \A i \in 1..Len(lane[u]) : lane'[u][i] = lane[u][i]
  BY <1>1, <1>2 DEF ThreadsInv, WritingOK, ReadingOK
<1>5. \A t \in Sent(u)' : t.at < Len(lane'[u]) /\ Len(lane'[u]) # t.at
  <2>1. Len(lane[u]) \in Nat /\ Len(lane'[u]) \in Nat
    BY <1>2, <1>3
  <2>2. \A t \in Sent(u)' : t \in Sent(u) /\ t \in Operation
    BY <1>1, <1>4 DEF Sent, ThreadsInv, WritingOK
  <2>3. \A t \in Sent(u)' : t.at \in Nat /\ t.at <= Len(lane[u])
    BY <2>2 DEF ThreadsInv, SentOK, Operation
  <2>4. Len(lane[u]) < Len(lane'[u])
    BY <1>4, <2>1
  <2>5. ASSUME NEW t \in Sent(u)'
        PROVE  t.at < Len(lane'[u]) /\ Len(lane'[u]) # t.at
    <3>1. t.at \in Nat /\ t.at <= Len(lane[u])
      BY <2>3
    <3> QED
      BY <2>1, <2>4, <3>1
  <2> QED
    BY <2>5
<1>6. \A v \in Users \ {u} : Sent(v)' = Sent(v)
  BY <1>1, <1>4 DEF Sent
<1>7. NotesOK' /\ \A v \in Users \ {u} : \A a : Held(a, notes[v]) <= Held(a, notes'[v])
  <2>1. \A v \in Users : IsABag(notes[v]) /\ DOMAIN notes = Users
    BY DEF ThreadsInv, NotesOK
  <2>2. PICK due, back :
           notes' = [notes EXCEPT ![u] = (@ (-) spent) (+) Change(back),
                                  ![Peer(u)] = @ (+) Change(due)]
    BY DEF Lands
  <2>3. DOMAIN notes' = Users /\ Peer(u) # u /\ \A v \in Users : v = u \/ v = Peer(u)
    BY <2>1, <2>2, TwoUsers
  <2>4. notes'[u] = (notes[u] (-) spent) (+) Change(back)
        /\ notes'[Peer(u)] = notes[Peer(u)] (+) Change(due)
    BY <2>1, <2>2, TwoUsers
  <2>5. IsABag(notes'[u])
    BY <2>1, <2>4, BagsTaken, ChangeIsBag, BagsAdded
  <2>6. IsABag(notes'[Peer(u)])
        /\ \A a : Held(a, notes[Peer(u)]) <= Held(a, notes'[Peer(u)])
    BY <2>1, <2>4, TwoUsers, ChangeIsBag, BagsAdded
  <2> QED
    BY <1>1, <2>3, <2>5, <2>6 DEF ThreadsInv, NotesOK
<1>8. ReadingOK'
  BY <1>1, <1>2, <1>3, <1>4 DEF ThreadsInv, ReadingOK, WritingOK
<1>9. InOrder'
  <2> SUFFICES ASSUME NEW v \in Users
               PROVE  /\ Rises(lane'[v])
                      /\ \A t \in Sent(v)' : Len(lane'[v]) = t.at => Rises(lane'[v] \o t.recs)
    BY DEF InOrder
  <2>1. Rises(lane[v]) /\ \A t \in Sent(v) : Len(lane[v]) = t.at => Rises(lane[v] \o t.recs)
    BY DEF ThreadsInv, InOrder
  <2>2. CASE v = u
    <3>1. Rises(lane'[u])
      BY <1>1, <1>4, <2>1, <2>2
    <3> QED
      BY <1>5, <2>2, <3>1
  <2>3. CASE v # u
    BY <1>4, <1>6, <2>1, <2>3
  <2> QED
    BY <2>2, <2>3
<1>10. ASSUME NEW v \in Users PROVE CheckOK(v)'
  <2>1. Incoming(v)' = Incoming(v)
    BY <1>1, <1>4, ThreadsKept
  <2>2. CASE v = u
    BY <1>1, <1>4, <2>1, <2>2 DEF ThreadsInv, ChecksOK, CheckOK
  <2>3. CASE v # u
    BY <1>1, <1>4, <1>7, <2>1, <2>3, CheckKept DEF NotesOK
  <2> QED
    BY <2>2, <2>3
<1>11. SentOK'
  <2> SUFFICES ASSUME NEW v \in Users
               PROVE  /\ \A t \in Sent(v)' : t.at <= Len(lane'[v])
                      /\ \A t \in late'[v] : t.at = Len(lane'[v])
                      /\ confirmed'[v] => Sent(v)' = {}
                      /\ op'[v] # None /\ Len(lane'[v]) > op'[v].at => late'[v] = {}
    BY DEF SentOK
  <2>1. CASE v = u
    <3>1. \A t \in Sent(v)' : t.at \in Nat /\ Len(lane'[v]) \in Nat
      BY <1>1, <1>3, <1>4, <2>1 DEF Sent, ThreadsInv, WritingOK, Operation
    <3>2. \A t \in Sent(v)' : t.at <= Len(lane'[v])
      BY <1>5, <2>1, <3>1
    <3> QED
      BY <1>1, <1>4, <2>1, <3>2
  <2>2. CASE v # u
    BY <1>1, <1>4, <1>6, <2>2 DEF ThreadsInv, SentOK
  <2> QED
    BY <2>1, <2>2
<1> QED
  BY <1>1, <1>3, <1>7, <1>8, <1>9, <1>10, <1>11 DEF ThreadsInv, WritingOK, ChecksOK

\* A confirmed transaction has spent notes: the checks begin again.  Nothing
\* is left to land: its slot is taken.
LEMMA ResolveOK ==
  ASSUME ThreadsInv, NEW u \in Users, Resolve(u)
  PROVE  ThreadsInv'
<1>1. /\ op' = [op EXCEPT ![u] = None]
      /\ confirmed' = [confirmed EXCEPT ![u] = TRUE]
      /\ UNCHANGED <<lane, notes, late, seen, read, receipts, stale>>
  BY DEF Resolve, chain
<1>2. WritingOK'
  BY <1>1 DEF Resolve, ThreadsInv, WritingOK
<1>3. check' = [check EXCEPT ![u] = IF Incoming(u) # {} THEN "asked" ELSE check[u]]
  BY DEF Resolve, AskAgain, Incoming
<1>4. ReadingOK'
  BY <1>1, <1>3 DEF ThreadsInv, ReadingOK
<1>5. \A v \in Users : v # u => op'[v] = op[v] /\ check'[v] = check[v] /\ confirmed'[v] = confirmed[v]
  BY <1>1, <1>3 DEF ThreadsInv, WritingOK, ReadingOK
<1>6. op'[u] = None /\ (check'[u] = "asked" \/ Incoming(u) = {})
  BY <1>1, <1>3 DEF ThreadsInv, WritingOK, ReadingOK
<1>7. InOrder'
  <2>1. \A v \in Users : Sent(v)' \subseteq Sent(v)
    BY <1>1, <1>5, <1>6 DEF Sent
  <2> QED
    BY <1>1, <2>1 DEF ThreadsInv, InOrder
<1>8. ASSUME NEW v \in Users PROVE CheckOK(v)'
  <2>1. Incoming(v)' = Incoming(v)
    BY <1>1, ThreadsKept
  <2>2. CASE check'[v] = "asked"
    BY <1>1, <2>1, <2>2, CheckAsked
  <2>3. CASE v = u /\ check'[v] # "asked"
    <3>1. Incoming(v) = {} /\ check'[v] = check[v]
      BY <1>3, <1>6, <2>3 DEF ThreadsInv, ReadingOK
    <3> QED
      BY <1>1, <2>1, <3>1 DEF ThreadsInv, ChecksOK, CheckOK, Ticked
  <2>4. CASE v # u
    <3>1. \A a : Held(a, notes[v]) <= Held(a, notes[v]) /\ IsABag(notes[v])
      BY HeldNat DEF ThreadsInv, NotesOK
    <3> QED
      BY <1>1, <1>5, <2>1, <2>4, <3>1, CheckKept
  <2> QED
    BY <2>2, <2>3, <2>4
<1>9. SentOK'
  <2>1. late[u] = {}
    BY DEF Resolve, ThreadsInv, SentOK
  <2>2. Sent(u)' = {} /\ \A v \in Users \ {u} : Sent(v)' = Sent(v)
    BY <1>1, <1>5, <1>6, <2>1 DEF Sent
  <2> QED
    BY <1>1, <1>5, <1>6, <2>1, <2>2 DEF ThreadsInv, SentOK
<1> QED
  BY <1>1, <1>2, <1>4, <1>7, <1>8, <1>9 DEF ThreadsInv, NotesOK, ChecksOK

\* What failed may land as long as its slot is free, like what failed before.
LEMMA ThreadFailsOK ==
  ASSUME ThreadsInv, NEW u \in Users, Fails(u)
  PROVE  ThreadsInv'
<1>1. /\ op' = [op EXCEPT ![u] = None]
      /\ late' = [late EXCEPT ![u] = {tx \in Sent(u) : tx.at = Len(lane[u])}]
      /\ op[u] # None
      /\ UNCHANGED <<lane, notes, confirmed, seen, check, read, receipts, stale>>
  BY DEF Fails, chain, checking
<1>2. /\ op' \in [Users -> {None} \cup Operation] /\ op'[u] = None
      /\ \A v \in Users : v # u => op'[v] = op[v] /\ late'[v] = late[v]
      /\ late' \in [Users -> SUBSET Operation]
      /\ late'[u] = {tx \in Sent(u) : tx.at = Len(lane[u])}
  <2>1. Sent(u) \subseteq Operation
    BY DEF ThreadsInv, WritingOK, Sent
  <2> QED
    BY <1>1, <2>1 DEF ThreadsInv, WritingOK
<1>3. /\ \A v \in Users \ {u} : Sent(v)' = Sent(v)
      /\ Sent(u)' = late'[u]
  BY <1>2 DEF Sent
<1>4. InOrder'
  <2>1. \A v \in Users : Sent(v)' \subseteq Sent(v)
    BY <1>2, <1>3
  <2> QED
    BY <1>1, <2>1 DEF ThreadsInv, InOrder
<1>5. ASSUME NEW v \in Users PROVE CheckOK(v)'
  <2>1. Incoming(v)' = Incoming(v)
    BY <1>1, ThreadsKept
  <2>2. \A a : Held(a, notes[v]) <= Held(a, notes[v]) /\ IsABag(notes[v])
    BY HeldNat DEF ThreadsInv, NotesOK
  <2> QED
    BY <1>1, <2>1, <2>2, CheckKept
<1>6. SentOK'
  <2>1. ~confirmed[u]
    BY <1>1 DEF ThreadsInv, SentOK, Sent
  <2>2. \A tx \in Sent(u)' : tx.at <= Len(lane[u])
    BY <1>2, <1>3 DEF ThreadsInv, SentOK
  <2>3. \A v \in Users : v # u => /\ \A tx \in Sent(v)' : tx.at <= Len(lane[v])
                                  /\ \A tx \in late'[v] : tx.at = Len(lane[v])
                                  /\ confirmed[v] => Sent(v)' = {}
                                  /\ op'[v] # None /\ Len(lane[v]) > op'[v].at => late'[v] = {}
    BY <1>2, <1>3 DEF ThreadsInv, SentOK
  <2> QED
    BY <1>1, <1>2, <2>1, <2>2, <2>3 DEF SentOK
<1> QED
  BY <1>1, <1>2, <1>4, <1>5, <1>6 DEF ThreadsInv, WritingOK, NotesOK, ReadingOK, ChecksOK

\* A lane read further: new messages join the thread, and new payments start
\* the check.
LEMMA ThreadGrows ==
  ASSUME ThreadsInv, NEW u \in Users, NEW v \in Users, NEW n \in 1..Len(lane[v]), Sync(u, v, n)
  PROVE  /\ n \in Nat /\ n <= Len(lane[v]) /\ seen[u][v] < n /\ lane' = lane
         /\ seen'[u][v] = n
         /\ \A w \in Users : w # v => seen'[u][w] = seen[u][w]
         /\ \A w \in Users : w # u => seen'[w] = seen[w]
         /\ Thread(u)' = Thread(u) \cup {Entry(v, i) : i \in seen[u][v] + 1 .. n}
         /\ \A w \in Users : w # u => Thread(w)' = Thread(w)
<1>1. /\ seen' = [seen EXCEPT ![u][v] = n] /\ lane' = lane /\ n \in seen[u][v] + 1 .. Len(lane[v])
  BY DEF Sync, chain
<1>2. /\ seen \in [Users -> [Users -> Nat]] /\ lane[v] \in Seq(Rec)
      /\ Len(lane[v]) \in Nat /\ seen[u][v] \in Nat
  BY DEF ThreadsInv, ReadingOK, WritingOK
<1>3. /\ n \in Nat /\ n <= Len(lane[v]) /\ seen[u][v] < n
      /\ seen'[u][v] = n
      /\ \A w \in Users : w # v => seen'[u][w] = seen[u][w]
      /\ \A w \in Users : w # u => seen'[w] = seen[w]
  BY <1>1, <1>2
<1>4. \A w \in Users : \A i : Entry(w, i)' = Entry(w, i)
  BY <1>1 DEF Entry
<1>5. \A w \in Users : w # u => Thread(w)' = Thread(w)
  BY <1>3, <1>4 DEF Thread
<1>6. Thread(u)' = Thread(u) \cup {Entry(v, i) : i \in seen[u][v] + 1 .. n}
  <2>1. 1..n = 1..seen[u][v] \cup seen[u][v] + 1 .. n
    BY <1>2, <1>3
  <2>2. Thread(u)' = UNION {{Entry(w, i) : i \in 1..seen'[u][w]} : w \in Users}
    BY <1>4 DEF Thread
  <2>3. ASSUME NEW m PROVE m \in Thread(u)' <=>
                 m \in Thread(u) \cup {Entry(v, i) : i \in seen[u][v] + 1 .. n}
    <3>1. m \in Thread(u)' <=> \E w \in Users : \E i \in 1..seen'[u][w] : m = Entry(w, i)
      BY <2>2
    <3>2. m \in Thread(u) <=> \E w \in Users : \E i \in 1..seen[u][w] : m = Entry(w, i)
      BY DEF Thread
    <3>3. (\E i \in 1..n : m = Entry(v, i)) <=>
             \/ \E i \in 1..seen[u][v] : m = Entry(v, i)
             \/ \E i \in seen[u][v] + 1 .. n : m = Entry(v, i)
      BY <2>1
    <3> QED
      BY <1>3, <3>1, <3>2, <3>3
  <2> QED
    BY <2>3
<1> QED
  BY <1>1, <1>3, <1>5, <1>6

LEMMA ThreadSyncOK ==
  ASSUME ThreadsInv, NEW u \in Users, NEW v \in Users, NEW n \in 1..Len(lane[v]), Sync(u, v, n)
  PROVE  ThreadsInv'
<1>1. /\ UNCHANGED <<lane, notes, op, late, confirmed, read, receipts, stale>>
      /\ check' = IF v # u /\ \E i \in seen[u][v] + 1 .. n : lane[v][i].kind = "pay"
                  THEN [check EXCEPT ![u] = "asked"] ELSE check
  BY DEF Sync, chain, browser
<1>2. WritingOK' /\ NotesOK' /\ InOrder' /\ SentOK'
  BY <1>1 DEF ThreadsInv, WritingOK, NotesOK, InOrder, SentOK, Sent
<1>3. ReadingOK'
  <2>1. seen' \in [Users -> [Users -> Nat]]
    BY DEF Sync, ThreadsInv, ReadingOK
  <2>2. \A w, x \in Users : seen'[w][x] <= Len(lane'[x])
    <3> SUFFICES ASSUME NEW w \in Users, NEW x \in Users
                 PROVE  seen'[w][x] <= Len(lane[x])
      BY <1>1
    <3>1. seen[w][x] <= Len(lane[x])
      BY DEF ThreadsInv, ReadingOK
    <3>2. seen'[w][x] = seen[w][x] \/ (x = v /\ seen'[w][x] = n)
      BY ThreadGrows
    <3>3. n <= Len(lane[v])
      BY ThreadGrows
    <3> QED
      BY <3>1, <3>2, <3>3
  <2> QED
    BY <1>1, <2>1, <2>2 DEF ThreadsInv, ReadingOK
<1>4. \A w \in Users : check'[w] = check[w] \/ check'[w] = "asked"
  BY <1>1 DEF ThreadsInv, ReadingOK
<1>5. \A w \in Users : Incoming(w) \subseteq Incoming(w)'
  BY ThreadGrows DEF Incoming, Kind
<1>6. \A w \in Users : check'[w] # "asked" => Incoming(w)' = Incoming(w)
  <2>1. ASSUME NEW w \in Users, w # u PROVE Incoming(w)' = Incoming(w)
    BY <2>1, ThreadGrows DEF Incoming, Kind
  <2>2. ASSUME check'[u] # "asked" PROVE Incoming(u)' = Incoming(u)
    <3>1. v = u \/ \A i \in seen[u][v] + 1 .. n : lane[v][i].kind # "pay"
      BY <1>1, <2>2 DEF ThreadsInv, ReadingOK
    <3>2. \A i \in seen[u][v] + 1 .. n : Entry(v, i).by = u \/ Entry(v, i).kind # "pay"
      BY <3>1 DEF Entry
    <3> QED
      BY <3>2, ThreadGrows DEF Incoming, Kind
  <2> QED
    BY <2>1, <2>2
<1>7. ASSUME NEW w \in Users PROVE CheckOK(w)'
  <2>1. CASE check'[w] = "asked"
    BY <1>1, <1>5, <2>1, CheckAsked
  <2>2. CASE check'[w] # "asked"
    <3>1. \A a : Held(a, notes[w]) <= Held(a, notes[w]) /\ IsABag(notes[w])
      BY HeldNat DEF ThreadsInv, NotesOK
    <3> QED
      BY <1>1, <1>4, <1>6, <2>2, <3>1, CheckKept
  <2> QED
    BY <2>1, <2>2
<1> QED
  BY <1>2, <1>3, <1>7 DEF ThreadsInv, ChecksOK

\* The steps of a check touch neither a lane nor a note.
LEMMA CheckStepsOK ==
  ASSUME ThreadsInv, NEW u \in Users, NotesRead(u) \/ ShowReceipts(u) \/ CheckFails(u)
  PROVE  ThreadsInv'
<1>1. /\ UNCHANGED <<lane, notes, op, late, confirmed, seen>>
      /\ check' \in [Users -> {"asked", "read", "over"}]
      /\ \A w \in Users : w # u => /\ check'[w] = check[w] /\ read'[w] = read[w]
                               /\ receipts'[w] = receipts[w] /\ stale'[w] = stale[w]
      /\ stale' \in [Users -> BOOLEAN]
      /\ DOMAIN read' = Users /\ DOMAIN receipts' = Users
      /\ read'[u] = read[u] \/ read'[u] = notes[u]
  BY DEF NotesRead, ShowReceipts, CheckFails, chain, browser, ThreadsInv, ReadingOK, NotesOK
<1>2. WritingOK' /\ NotesOK' /\ ReadingOK' /\ InOrder' /\ SentOK'
  <2>1. NotesOK'
    BY <1>1 DEF ThreadsInv, NotesOK
  <2> QED
    BY <1>1, <2>1 DEF ThreadsInv, WritingOK, ReadingOK, InOrder, SentOK, Sent
<1>3. \A w \in Users : Incoming(w)' = Incoming(w)
  BY <1>1, ThreadsKept
<1>4. \A a : Held(a, notes[u]) \in Nat /\ Held(a, read[u]) \in Nat
  BY HeldNat DEF ThreadsInv, NotesOK
<1>5. CheckOK(u)
  BY DEF ThreadsInv, ChecksOK
<1>6. CheckOK(u)'
  <2>1. CASE NotesRead(u)
    <3>1. /\ check'[u] = "read" /\ read'[u] = notes[u] /\ receipts'[u] = receipts[u]
          /\ ~stale'[u]
      BY <2>1 DEF NotesRead, ThreadsInv, ReadingOK, NotesOK
    <3> QED
      BY <1>1, <1>3, <1>4, <1>5, <3>1 DEF CheckOK
  <2>2. CASE ShowReceipts(u)
    <3>1. /\ check[u] = "read" /\ check'[u] = "over" /\ read' = read /\ stale' = stale
          /\ receipts'[u] = UNION {Paired(u, a) : a \in Amounts}
      BY <2>2 DEF ShowReceipts, ThreadsInv, ReadingOK
    <3>2. receipts'[u] \subseteq Incoming(u)
      BY <3>1 DEF Paired, Received, Incoming
    <3>3. ASSUME NEW a \in Amounts
          PROVE  Ticked(u, a)' = Paired(u, a)
      <4>1. \A b \in Amounts : \A m \in Paired(u, b) : m.amount = b
        BY DEF Paired, Received
      <4>2. Ticked(u, a)' = {m \in receipts'[u] : m.amount = a}
        BY DEF Ticked
      <4> QED
        BY <3>1, <4>1, <4>2
    <3>4. ASSUME NEW a \in Amounts, ~stale[u]
          PROVE  Cardinality(Paired(u, a)) <= Held(a, notes[u])
      <4>1. Held(a, read[u]) <= Held(a, notes[u])
        BY <1>5, <3>1, <3>4 DEF CheckOK
      <4>2. Cardinality(Paired(u, a)) <= Held(a, read[u])
        BY PairedFew
      <4>3. Cardinality(Paired(u, a)) \in Nat
        <5>1. Paired(u, a) \in SUBSET Thread(u)
          BY DEF Paired, Received, Kind
        <5> QED
          BY <5>1, ThreadPlaced, FS_Subset, FS_CardinalityType
      <4> QED
        BY <1>4, <4>1, <4>2, <4>3
    <3>5. stale[u] /\ confirmed[u] => Incoming(u) = {}
      BY <1>5, <3>1 DEF CheckOK
    <3> QED
      BY <1>1, <1>3, <3>1, <3>2, <3>3, <3>4, <3>5 DEF CheckOK
  <2>3. CASE CheckFails(u)
    <3>1. check'[u] = "over" /\ receipts'[u] = {}
      BY <2>3 DEF CheckFails, ThreadsInv, ReadingOK
    <3>2. \A a : Ticked(u, a)' = {}
      BY <3>1 DEF Ticked
    <3>3. \A a : Cardinality(Ticked(u, a)') <= Held(a, notes'[u])
      BY <1>1, <1>4, <3>2, FS_EmptySet
    <3> QED
      BY <3>1, <3>3 DEF CheckOK
  <2> QED
    BY <2>1, <2>2, <2>3
<1>7. ASSUME NEW w \in Users, w # u PROVE CheckOK(w)'
  <2>1. \A a : Held(a, notes[w]) <= Held(a, notes[w]) /\ IsABag(notes[w])
    BY HeldNat DEF ThreadsInv, NotesOK
  <2> QED
    BY <1>1, <1>3, <1>7, <2>1, CheckKept
<1> QED
  BY <1>2, <1>6, <1>7 DEF ThreadsInv, ChecksOK

LEMMA ThreadsNextOK == ThreadsInv /\ [ThreadsNext]_threadsVars => ThreadsInv'
<1> SUFFICES ASSUME ThreadsInv, [ThreadsNext]_threadsVars PROVE ThreadsInv'
  OBVIOUS
<1>1. CASE UNCHANGED threadsVars
  <2>1. UNCHANGED <<lane, notes, op, late, confirmed, seen, check, read, receipts, stale>>
    BY <1>1 DEF threadsVars, chain, browser, checking
  <2>2. \A w \in Users : Incoming(w)' = Incoming(w)
    BY <2>1, ThreadsKept
  <2>3. \A w \in Users : CheckOK(w)'
    BY <2>1, <2>2 DEF ThreadsInv, ChecksOK, CheckOK, Ticked
  <2> QED
    BY <2>1, <2>3 DEF ThreadsInv, WritingOK, NotesOK, ReadingOK, InOrder, SentOK, Sent, ChecksOK
<1>2. ASSUME NEW u \in Users, Resolve(u) PROVE ThreadsInv'
  BY <1>2, ResolveOK
<1>3. ASSUME NEW u \in Users, Fails(u) PROVE ThreadsInv'
  BY <1>3, ThreadFailsOK
<1>4. ASSUME NEW u \in Users, NEW tx \in Sent(u), NEW spent \in Spendable(notes[u]),
             Lands(u, tx, spent)
      PROVE  ThreadsInv'
  BY <1>4, LandsOK
<1>5. ASSUME NEW u \in Users, NotesRead(u) \/ ShowReceipts(u) \/ CheckFails(u) PROVE ThreadsInv'
  BY <1>5, CheckStepsOK
<1>6. ASSUME NEW u \in Users, NEW a \in Amounts, NEW b \in Amounts,
             SendBatch(u, <<a>>) \/ SendBatch(u, <<a, b>>)
      PROVE  ThreadsInv'
  <2>1. <<a>> \in Seq(Amounts) /\ <<a>> # <<>> /\ <<a, b>> \in Seq(Amounts) /\ <<a, b>> # <<>>
    OBVIOUS
  <2> QED
    BY <1>6, <2>1, StartOK DEF SendBatch
<1>7. ASSUME NEW u \in Users, NEW a \in Amounts, Pay(u, a) PROVE ThreadsInv'
  <2>1. <<a>> \in Seq(Amounts) /\ <<a>> # <<>>
    OBVIOUS
  <2> QED
    BY <1>7, <2>1, StartOK DEF Pay
<1>8. ASSUME NEW u \in Users, NEW r \in Open(u), PayRequest(u, r) PROVE ThreadsInv'
  <2>1. r.amount \in Amounts
    BY ThreadPlaced DEF Open, Kind, Placed, Message
  <2>2. <<r.amount>> \in Seq(Amounts) /\ <<r.amount>> # <<>>
    BY <2>1
  <2> QED
    BY <1>8, <2>2, StartOK DEF PayRequest
<1>9. ASSUME NEW u \in Users, NEW v \in Users, NEW n \in 1..Len(lane[v]), Sync(u, v, n)
      PROVE  ThreadsInv'
  BY <1>9, ThreadSyncOK
<1>10. CASE ThreadsNext
  <2>1. PICK u \in Users : UserNext(u)
    BY <1>10 DEF ThreadsNext
  <2> QED
    BY <1>2, <1>3, <1>4, <1>5, <1>6, <1>7, <1>8, <1>9, <2>1 DEF UserNext
<1> QED
  BY <1>1, <1>10

-----------------------------------------------------------------------------
\* The invariant of two users' conversation (settleRequests, ThreadView).
THEOREM ThreadsInvariant == ThreadsSpec => []ThreadsInv
<1>1. ThreadsInit => ThreadsInv
  BY ThreadsInitOK
<1>2. ThreadsInv /\ [ThreadsNext]_threadsVars => ThreadsInv'
  BY ThreadsNextOK
<1> QED
  BY <1>1, <1>2, PTL DEF ThreadsSpec

\* In no thread does a payment settle two requests (settleRequests).
THEOREM PaymentsSettleOnce == ThreadsSpec => []OnePaymentEach
<1>1. ThreadsInv => OnePaymentEach
  BY OnePaymentHolds
<1> QED
  BY <1>1, ThreadsInvariant, PTL

\* Two browsers that have read the same, without two messages of one second
\* from both, show the same requests as paid, by the same payments
\* (stitchThread, settleRequests).
THEOREM ClientsAgree == ThreadsSpec => []Agree
<1>1. ThreadsInv => Agree
  BY AgreeHolds
<1> QED
  BY <1>1, ThreadsInvariant, PTL

\* With no transaction under way, the ticks next to received memos stand for
\* as many notes that the user still holds, unless a transaction reported as
\* failed has landed since the notes were last read (ThreadView's receipt check).
THEOREM TicksAreHonest == ThreadsSpec => []ReceiptsHonest
<1>1. ThreadsInv => ReceiptsHonest
  <2> SUFFICES ASSUME ThreadsInv, NEW u \in Users, check[u] = "over", stale[u] => confirmed[u],
                      NEW a \in Amounts
               PROVE  Cardinality(Ticked(u, a)) <= Held(a, notes[u])
    BY DEF ReceiptsHonest, Ticked
  <2>1. CheckOK(u)
    BY DEF ThreadsInv, ChecksOK
  <2>2. CASE ~stale[u]
    BY <2>1, <2>2 DEF CheckOK
  <2>3. CASE stale[u]
    <3>1. Ticked(u, a) = {}
      BY <2>1, <2>3 DEF CheckOK, Ticked
    <3>2. Held(a, notes[u]) \in Nat
      BY HeldNat DEF ThreadsInv, NotesOK
    <3> QED
      BY <3>1, <3>2, FS_EmptySet
  <2> QED
    BY <2>2, <2>3
<1> QED
  BY <1>1, ThreadsInvariant, PTL

ThreadsPlaced == \A u \in Users : Placed(Thread(u)) /\ IsFiniteSet(Thread(u))

\* A request shown as paid stays so, by the same payment, whatever the lanes
\* bring later (settleRequests over a thread that grows).
THEOREM PaidForGood == ThreadsSpec => PaidStaysPaid
<1>1. ASSUME ThreadsInv, ThreadsPlaced', ThreadsNext, NEW u \in Users, seen'[u] # seen[u]
      PROVE  Settled(u) \subseteq Settled(u)'
  <2>1. PICK v \in Users : \E n \in 1..Len(lane[v]) : Sync(u, v, n)
    <3>1. PICK w \in Users : UserNext(w)
      BY <1>1 DEF ThreadsNext
    <3>2. \/ seen' = seen
          \/ \E v \in Users : \E n \in 1..Len(lane[v]) : Sync(w, v, n)
      BY <3>1 DEF UserNext, Resolve, Fails, Lands, NotesRead, ShowReceipts, CheckFails,
                  SendBatch, Pay, PayRequest, Start
    <3>3. PICK v \in Users : \E n \in 1..Len(lane[v]) : Sync(w, v, n)
      BY <1>1, <3>2
    <3>4. w = u
      BY <1>1, <3>3, ThreadGrows
    <3> QED
      BY <3>3, <3>4
  <2> PICK n \in 1..Len(lane[v]) : Sync(u, v, n)
    BY <2>1
  <2>2. /\ n \in Nat /\ n <= Len(lane[v]) /\ seen[u][v] < n /\ lane' = lane
        /\ Thread(u)' = Thread(u) \cup {Entry(v, i) : i \in seen[u][v] + 1 .. n}
    BY <1>1, ThreadGrows
  <2>3. PICK T : T = Thread(u)'
    OBVIOUS
  <2>4. Placed(T) /\ IsFiniteSet(T)
    <3>1. Placed(Thread(u)') /\ IsFiniteSet(Thread(u)')
      BY <1>1 DEF ThreadsPlaced, Placed
    <3> QED
      BY <2>3, <3>1
  <2>5. PICK R, P, f : R = Kind(u, "req") /\ P = Kind(u, "pay") /\ f = PaidBy(u, R, P)
    OBVIOUS
  <2>6. PICK R2, P2, g : R2 = Kind(u, "req")' /\ P2 = Kind(u, "pay")' /\ g = PaidBy(u, R2, P2)
    OBVIOUS
  <2>7. /\ Settled(u) = {x \in R \X P : x[2] \in f[x[1]]}
        /\ \A r \in R : f[r] = Takes(u, R, P, f, r)
    BY <1>1, <2>5, SettledRule
  <2>8. /\ Settled(u)' = {x \in R2 \X P2 : x[2] \in g[x[1]]}
        /\ \A r \in R2 : g[r] = Takes(u, R2, P2, g, r)
    <3>1. /\ Placed(R2) /\ IsFiniteSet(R2)
      <4>1. R2 \in SUBSET T
        BY <2>3, <2>6 DEF Kind
      <4> QED
        BY <2>4, <4>1, FS_Subset DEF Placed
    <3>2. \A r \in R2 : g[r] = Takes(u, R2, P2, g, r)
      BY <2>6, <3>1, PaidByRule
    <3>3. \A r \in R2 : g[r] \subseteq P2
      BY <3>2, TakesSome
    <3>4. Settled(u)' = UNION {{r} \X g[r] : r \in R2}
      BY <2>6 DEF Settled
    <3> QED
      BY <3>2, <3>3, <3>4
  <2>9. R2 \subseteq T /\ P2 \subseteq T /\ R \subseteq R2 /\ P \subseteq P2
    BY <2>2, <2>3, <2>5, <2>6 DEF Kind
  <2>10. ASSUME NEW a \in R \cup P, NEW b \in (R2 \ R) \cup (P2 \ P), a.by = b.by
         PROVE  Before(u, a, b)
    <3>1. a \in Thread(u) /\ b \in T /\ b \notin Thread(u)
      BY <2>2, <2>3, <2>5, <2>6 DEF Kind
    <3>2. PICK j \in seen[u][v] + 1 .. n : b = Entry(v, j)
      BY <2>2, <2>3, <3>1
    <3>3. PICK w \in Users : \E i \in 1..seen[u][w] : a = Entry(w, i)
      BY <3>1 DEF Thread
    <3> PICK i \in 1..seen[u][w] : a = Entry(w, i)
      BY <3>3
    <3>4. w = v
      BY <2>10, <3>2 DEF Entry
    <3>5. lane[v] \in Seq(Rec) /\ seen[u][v] \in Nat /\ Rises(lane[v])
      BY <1>1 DEF ThreadsInv, WritingOK, ReadingOK, InOrder
    <3>6. i \in 1..Len(lane[v]) /\ j \in 1..Len(lane[v]) /\ i < j
      BY <2>2, <3>2, <3>4, <3>5
    <3>7. lane[v][i] \in Rec /\ lane[v][j] \in Rec /\ lane[v][i].ts <= lane[v][j].ts
      BY <3>5, <3>6 DEF Rises
    <3>8. lane[v][i].ts \in Nat /\ lane[v][j].ts \in Nat
      BY <3>7 DEF Rec
    <3>9. a.by = b.by /\ a.index < b.index /\ a.ts = lane[v][i].ts /\ b.ts = lane[v][j].ts
      BY <3>2, <3>4, <3>6 DEF Entry
    <3> QED
      BY <3>7, <3>8, <3>9 DEF Before
  <2>11. \A r \in R : f[r] \subseteq g[r]
    <3>1. \A a \in R \cup P, b \in (R2 \ R) \cup (P2 \ P) : a.by = b.by => Before(u, a, b)
      BY <2>10
    <3>2. Placed(R2 \cup P2) /\ IsFiniteSet(R2)
      BY <2>4, <2>9, FS_Subset DEF Placed
    <3>3. \A r \in R : PaidBy(u, R, P)[r] \subseteq PaidBy(u, R2, P2)[r]
      BY <2>9, <3>1, <3>2, SettledStays
    <3> QED
      BY <2>5, <2>6, <3>3
  <2>12. PICK S2 : S2 = Settled(u)'
    OBVIOUS
  <2>13. Settled(u) \subseteq S2
    BY <2>7, <2>8, <2>9, <2>11, <2>12
  <2> QED
    BY <2>12, <2>13
<1>2. ThreadsInv => ThreadsPlaced
  BY ThreadPlaced DEF ThreadsPlaced
<1>3. ThreadsInv /\ ThreadsPlaced' /\ [ThreadsNext]_threadsVars =>
         [\A u \in Users : UNCHANGED seen[u] \/ Settled(u) \subseteq Settled(u)']_seen
  <2> SUFFICES ASSUME ThreadsInv, ThreadsPlaced', [ThreadsNext]_threadsVars, seen' # seen,
                      NEW u \in Users, seen'[u] # seen[u]
               PROVE  Settled(u) \subseteq Settled(u)'
    OBVIOUS
  <2>1. ThreadsNext
    BY DEF threadsVars
  <2> QED
    BY <1>1, <2>1
<1> QED
  BY <1>2, <1>3, ThreadsInvariant, PTL DEF ThreadsSpec, PaidStaysPaid
=============================================================================
