--------------------------- MODULE CliFlushProofs ---------------------------
(***************************************************************************)
(* Proofs that the lanes stay dense and the cursors sound, for any number  *)
(* of homes, processes, lanes, messages, attempts and commands.            *)
(***************************************************************************)
EXTENDS CliFlushDelivery, LaneProofs

-----------------------------------------------------------------------------
(* What the operators on indices and batches return.                       *)

\* Concatenation by index.
LEMMA ConcatItems ==
  ASSUME NEW batch \in Seq(Item), NEW rest \in Seq(Item)
  PROVE  /\ batch \o rest \in Seq(Item)
         /\ DOMAIN (batch \o rest) = 1..(Len(batch) + Len(rest))
         /\ DOMAIN batch = 1..Len(batch) /\ Len(batch) \in Nat
         /\ DOMAIN rest = 1..Len(rest) /\ Len(rest) \in Nat
         /\ \A k \in 1..Len(batch) : (batch \o rest)[k] = batch[k]
         /\ \A k \in 1..Len(rest) : (batch \o rest)[Len(batch) + k] = rest[k]
         /\ \A k \in DOMAIN batch : batch[k].index \in Nat /\ batch[k].msg \in Payloads
         /\ \A k \in DOMAIN rest : rest[k].index \in Nat /\ rest[k].msg \in Payloads
<1>1. \A k \in 1..Len(rest) : (batch \o rest)[Len(batch) + k] = rest[k]
  BY ConcatProperties
<1>2. /\ batch \o rest \in Seq(Item)
      /\ Len(batch \o rest) = Len(batch) + Len(rest)
      /\ \A k \in 1..Len(batch) : (batch \o rest)[k] = batch[k]
  BY ConcatProperties
<1>3. DOMAIN (batch \o rest) = 1..(Len(batch) + Len(rest))
  BY <1>2
<1>4. QED
  BY <1>1, <1>2, <1>3, ItemFacts

\* The current batch is covered on its own.
LEMMA BatchCovered ==
  ASSUME NEW batch \in Seq(Item), NEW rest \in Seq(Item), NEW occupied, NEW lane,
         Covered(occupied, lane, batch \o rest), Climbs(batch \o rest)
  PROVE  Covered(occupied, lane, batch) /\ Climbs(batch)
<1> DEFINE both == batch \o rest
<1>1. /\ DOMAIN batch \subseteq DOMAIN both
      /\ \A k \in DOMAIN batch : both[k] = batch[k]
      /\ DOMAIN batch = 1..Len(batch) /\ Len(batch) \in Nat
  BY ConcatItems
<1>2. Covered(occupied, lane, both) /\ Climbs(both)
  OBVIOUS
<1> HIDE DEF both
<1>3. Climbs(batch)
  BY <1>1, <1>2 DEF Climbs
<1>4. Covered(occupied, lane, batch)
  <2> SUFFICES ASSUME NEW k \in DOMAIN batch, NEW j \in 0..batch[k].index-1,
                      <<lane, j>> \notin occupied
               PROVE  \E i \in 1..k-1 : batch[i].index = j
    BY DEF Covered
  <2>1. PICK i \in 1..k-1 : both[i].index = j
    BY <1>1, <1>2 DEF Covered
  <2>2. i \in DOMAIN batch
    BY <1>1
  <2>3. QED
    BY <1>1, <2>1, <2>2
<1>5. QED
  BY <1>3, <1>4

\* What was cut off is covered once the part before it is stored.
LEMMA RestCovered ==
  ASSUME NEW batch \in Seq(Item), NEW rest \in Seq(Item), NEW occupied, NEW lane,
         Covered(occupied, lane, batch \o rest), Climbs(batch \o rest),
         Stored(occupied, lane, batch)
  PROVE  Covered(occupied, lane, rest) /\ Climbs(rest)
<1> DEFINE both == batch \o rest
           n == Len(batch)
<1>1. /\ DOMAIN both = 1..(n + Len(rest)) /\ n \in Nat
      /\ DOMAIN rest = 1..Len(rest) /\ Len(rest) \in Nat
      /\ DOMAIN batch = 1..n
      /\ \A k \in 1..n : both[k] = batch[k]
      /\ \A k \in 1..Len(rest) : both[n + k] = rest[k] /\ rest[k].index \in Nat
  BY ConcatItems
<1>2. Covered(occupied, lane, both) /\ Climbs(both)
  OBVIOUS
<1> HIDE DEF both, n
<1>3. Climbs(rest)
  <2> SUFFICES ASSUME NEW k \in 1..Len(rest), NEW i \in 1..k
               PROVE  rest[k].index <= rest[i].index + (k - i)
    BY <1>1 DEF Climbs
  <2>1. n + k \in DOMAIN both /\ n + i \in 1..(n + k)
    BY <1>1
  <2>2. both[n + k].index <= both[n + i].index + ((n + k) - (n + i))
    BY <1>2, <2>1 DEF Climbs
  <2>3. both[n + k] = rest[k] /\ both[n + i] = rest[i]
    BY <1>1
  <2>4. QED
    BY <1>1, <2>2, <2>3
<1>4. Covered(occupied, lane, rest)
  <2> SUFFICES ASSUME NEW k \in 1..Len(rest), NEW j \in 0..rest[k].index-1,
                      <<lane, j>> \notin occupied
               PROVE  \E i \in 1..k-1 : rest[i].index = j
    BY <1>1 DEF Covered
  <2>1. n + k \in DOMAIN both /\ both[n + k] = rest[k]
    BY <1>1
  <2>2. PICK i \in 1..(n + k)-1 : both[i].index = j
    BY <1>2, <2>1 DEF Covered
  <2>3. ~ (i <= n)
    <3> SUFFICES ASSUME i <= n
                 PROVE  FALSE
      OBVIOUS
    <3>1. i \in DOMAIN batch /\ both[i] = batch[i]
      BY <1>1
    <3>2. <<lane, batch[i].index>> \in occupied
      BY <3>1 DEF Stored
    <3>3. QED
      BY <2>2, <3>1, <3>2
  <2>4. i - n \in 1..k-1 /\ rest[i - n] = both[i]
    <3>1. i - n \in 1..k-1 /\ n + (i - n) = i
      BY <1>1, <2>3
    <3>2. QED
      BY <1>1, <3>1
  <2>5. QED
    BY <2>2, <2>4
<1>5. QED
  BY <1>3, <1>4

\* A batch that is sealed again keeps what was cut off before covered: the new
\* indices start no lower, and reach at least as far, as the old ones.
LEMMA ResealCovered ==
  ASSUME NEW batch \in Seq(Item), NEW rest \in Seq(Item), NEW occupied, NEW lane,
         Covered(occupied, lane, batch \o rest), Climbs(batch \o rest), batch # <<>>,
         NEW start \in Nat, <<lane, start>> \notin occupied, Reaches(occupied, lane, start),
         NEW again \in Seq(Item), Len(again) = Len(batch),
         \A k \in 1..Len(batch) : again[k].index = start + k - 1
  PROVE  /\ Covered(occupied, lane, again \o rest)
         /\ Climbs(again \o rest)
<1> DEFINE old == batch \o rest
           new == again \o rest
           n == Len(batch)
           m == n + Len(rest)
<1>1. /\ n \in Nat \ {0} /\ m \in Nat /\ n <= m
      /\ DOMAIN old = 1..m /\ DOMAIN new = 1..m
  <2>1. n # 0
    BY EmptySeq
  <2>2. n \in Nat /\ Len(rest) \in Nat
    BY ItemFacts
  <2>3. DOMAIN old = 1..m /\ DOMAIN new = 1..m
    BY ConcatItems
  <2>4. QED
    BY <2>1, <2>2, <2>3
<1>2. \A k \in 1..n : new[k].index = start + k - 1
  BY ConcatItems
<1>3. \A k \in 1..m : k > n => new[k] = old[k]
  <2> SUFFICES ASSUME NEW k \in 1..m, k > n
               PROVE  new[k] = old[k]
    OBVIOUS
  <2>1. k - n \in 1..Len(rest) /\ n + (k - n) = k
    BY ConcatItems
  <2>2. QED
    BY <2>1, ConcatItems
<1>4. \A k \in 1..m : old[k].index \in Nat /\ new[k].index \in Nat
  BY <1>1, ConcatItems, ItemFacts
<1>5. Covered(occupied, lane, old) /\ Climbs(old)
  OBVIOUS
<1> HIDE DEF old, new, n, m
<1>6. \A k \in 1..m : \A i \in 1..k : old[k].index <= old[i].index + (k - i)
  BY <1>1, <1>5 DEF Climbs
<1>7. \A k \in 1..m : old[k].index <= start + k - 1
  <2>1. old[1].index <= start
    <3>1. 1 \in DOMAIN old /\ 1 \in 1..m
      BY <1>1
    <3>2. start \notin 0..old[1].index-1
      BY <1>5, <3>1 DEF Covered
    <3>3. QED
      BY <1>4, <3>1, <3>2
  <2>2. QED
    BY <1>1, <1>4, <1>6, <2>1
<1>8. Climbs(new)
  <2> SUFFICES ASSUME NEW k \in 1..m, NEW i \in 1..k
               PROVE  new[k].index <= new[i].index + (k - i)
    BY <1>1 DEF Climbs
  <2>1. CASE k <= n
    BY <1>1, <1>2, <2>1
  <2>2. CASE k > n /\ i <= n
    <3>1. new[k].index <= start + k - 1
      BY <1>1, <1>3, <1>7, <2>2
    <3>2. new[i].index = start + i - 1
      BY <1>1, <1>2, <2>2
    <3>3. QED
      BY <1>1, <1>4, <3>1, <3>2
  <2>3. CASE i > n
    <3>1. i \in 1..m /\ k > n
      BY <1>1, <2>3
    <3>2. new[k] = old[k] /\ new[i] = old[i]
      BY <1>3, <2>3, <3>1
    <3>3. QED
      BY <1>6, <3>2
  <2>4. QED
    BY <1>1, <2>1, <2>2, <2>3
<1>9. Covered(occupied, lane, new)
  <2> SUFFICES ASSUME NEW k \in 1..m, NEW j \in 0..new[k].index-1,
                      <<lane, j>> \notin occupied
               PROVE  \E i \in 1..k-1 : new[i].index = j
    BY <1>1 DEF Covered
  <2>1. j >= start /\ j \in Nat
    BY <1>4 DEF Reaches
  <2>2. CASE j <= start + n - 1 /\ j - start + 1 < k
    <3>1. j - start + 1 \in 1..n /\ j - start + 1 \in 1..k-1
      BY <1>1, <2>1, <2>2
    <3>2. new[j - start + 1].index = j
      BY <1>1, <1>2, <2>1, <3>1
    <3>3. QED
      BY <3>1, <3>2
  <2>3. CASE k <= n
    BY <1>1, <1>2, <2>1, <2>2, <2>3
  <2>4. CASE k > n /\ j > start + n - 1
    <3>1. PICK i \in 1..k-1 : old[i].index = j
      <4>1. j \in 0..old[k].index-1 /\ k \in DOMAIN old
        BY <1>1, <1>3, <2>4
      <4>2. QED
        BY <1>5, <4>1 DEF Covered
    <3>2. i > n
      BY <1>1, <1>7, <2>1, <2>4, <3>1
    <3>3. QED
      BY <1>1, <1>3, <3>1, <3>2
  <2>5. QED
    BY <1>1, <2>1, <2>2, <2>3, <2>4
<1>10. QED
  BY <1>8, <1>9 DEF new

\* A batch has a last index: Math.max over the items that were sent.
LEMMA LastIndexProperty ==
  ASSUME NEW items \in Seq(Item), items # <<>>, Climbs(items)
  PROVE  /\ LastIndex(items) \in Nat
         /\ \E k \in DOMAIN items : items[k].index = LastIndex(items)
         /\ \A k \in DOMAIN items : items[k].index <= LastIndex(items)
<1> DEFINE U == {n \in Nat : \A k \in DOMAIN items : items[k].index <= n}
           IsLast(i) == /\ i \in {items[k].index : k \in DOMAIN items}
                        /\ \A k \in DOMAIN items : items[k].index <= i
<1>1. /\ DOMAIN items = 1..Len(items) /\ Len(items) \in Nat \ {0}
      /\ \A k \in DOMAIN items : items[k].index \in Nat
  BY ItemFacts, EmptySeq
<1>2. items[1].index + Len(items) \in U
  <2>1. \A k \in DOMAIN items : items[k].index <= items[1].index + (k - 1)
    BY <1>1 DEF Climbs
  <2>2. QED
    BY <1>1, <2>1
<1>3. PICK n \in U : \A m \in U : ~ (m < n)
  <2>1. PICK n \in U : \A m \in U : ~ (<<m, n>> \in OpToRel(<, Nat))
    BY <1>2, WFMin, NatLessThanWellFounded, Zenon
  <2>2. QED
    BY <2>1, Zenon DEF OpToRel
<1>4. \A m \in U : n <= m
  BY <1>3
<1>5. \E k \in DOMAIN items : items[k].index = n
  <2> SUFFICES ASSUME \A k \in DOMAIN items : items[k].index # n
               PROVE  FALSE
    OBVIOUS
  <2>1. \A k \in DOMAIN items : items[k].index < n
    BY <1>1
  <2>2. n - 1 \in Nat
    BY <1>1, <2>1
  <2>3. n - 1 \in U
    BY <1>1, <2>1, <2>2
  <2>4. QED
    BY <1>4, <2>3
<1>6. IsLast(n)
  BY <1>5
<1>7. IsLast(LastIndex(items))
  <2>1. LastIndex(items) = CHOOSE i : IsLast(i)
    BY DEF LastIndex
  <2>2. QED
    BY <1>6, <2>1
<1>8. QED
  BY <1>1, <1>7

\* Halving only moves the cut: front and back still make up the batch.
LEMMA HalvesProperty ==
  ASSUME NEW batch \in Seq(Item), NEW rest \in Seq(Item), Len(batch) > 1
  PROVE  /\ FrontHalf(batch) \in Seq(Item) /\ FrontHalf(batch) # <<>>
         /\ BackHalf(batch) \in Seq(Item)
         /\ FrontHalf(batch) \o (BackHalf(batch) \o rest) = batch \o rest
<1> DEFINE n == Len(batch)
           cut == HalfLen(batch)
<1>1. n \in Nat /\ cut \in 1..n
  BY DEF HalfLen
<1>2. \A k \in 1..n : batch[k] \in Item
  OBVIOUS
<1> HIDE DEF cut
<1>3. /\ SubSeq(batch, 1, cut) \in Seq(Item)
      /\ Len(SubSeq(batch, 1, cut)) = cut
  BY <1>1, <1>2, SubSeqProperties
<1>4. SubSeq(batch, cut + 1, n) \in Seq(Item)
  BY <1>1, <1>2, SubSeqProperties
<1>5. SubSeq(batch, 1, cut) \o SubSeq(batch, cut + 1, n) = batch
  <2>1. SubSeq(batch, 1, cut) \o SubSeq(batch, cut + 1, n) = SubSeq(batch, 1, n)
    BY <1>1, ConcatAdjacentSubSeq
  <2>2. QED
    BY <2>1, SubSeqFull
<1>6. SubSeq(batch, 1, cut) # <<>>
  BY <1>1, <1>3, EmptySeq
<1>7. SubSeq(batch, 1, cut) \o (SubSeq(batch, cut + 1, n) \o rest) = batch \o rest
  <2>1. ASSUME NEW front \in Seq(Item), NEW back \in Seq(Item)
        PROVE  front \o (back \o rest) = (front \o back) \o rest
    <3> DEFINE lhs == front \o (back \o rest)
               rhs == (front \o back) \o rest
    <3>1. lhs \in Seq(Item) /\ rhs \in Seq(Item)
      OBVIOUS
    <3>2. Len(lhs) = Len(rhs) /\ \A i \in 1..Len(lhs) : lhs[i] = rhs[i]
      OBVIOUS
    <3> HIDE DEF lhs, rhs
    <3>3. QED
      BY <3>1, <3>2, SeqEqual DEF lhs, rhs
  <2> HIDE DEF n
  <2>2. QED
    BY <1>3, <1>4, <1>5, <2>1, Zenon
<1>8. QED
  BY <1>3, <1>4, <1>6, <1>7 DEF FrontHalf, BackHalf, cut

-----------------------------------------------------------------------------
(* The invariant by parts, and what leaves each part alone.                *)

OutboxOK == outbox \in [Homes -> [Payloads -> Entry]]
CursorOK == /\ cursor \in [Homes -> [Lanes -> Nat]]
            /\ \A h \in Homes, l \in Lanes : Reaches(DOMAIN slot, l, cursor[h][l])
ProcOK == /\ proc \in [Procs -> Memory]
          /\ \A p \in Procs : MemoryCovered(DOMAIN slot, proc[p])
LostOK == /\ lost \subseteq Tx
          /\ \A t \in lost : Covered(DOMAIN slot, t.lane, t.batch)
CountsOK == fresh \subseteq Payloads /\ doubt \subseteq Payloads /\ runs \in 0..MaxRuns

LEMMA Parts ==
  IInv <=> ChainOK /\ OutboxOK /\ CursorOK /\ ProcOK /\ LostOK /\ CountsOK
BY DEF IInv, TypeOK, ChainOK, OutboxOK, CursorOK, ProcOK, LostOK, CountsOK

LEMMA PartsNext ==
  ChainOK' /\ OutboxOK' /\ CursorOK' /\ ProcOK' /\ LostOK' /\ CountsOK' => IInv'
BY DEF IInv, TypeOK, ChainOK, OutboxOK, CursorOK, ProcOK, LostOK, CountsOK

\* More occupied slots keep a process's memory covered.
LEMMA MemoryGrows ==
  ASSUME NEW occupied, NEW later, occupied \subseteq later, NEW me,
         MemoryCovered(occupied, me)
  PROVE  MemoryCovered(later, me)
<1>1. Covered(later, me.lane, me.batch \o me.rest)
  BY CoveredGrows DEF MemoryCovered
<1>2. QED
  BY <1>1 DEF MemoryCovered, Stored, Reaches

LEMMA CursorSame ==
  ASSUME CursorOK, DOMAIN slot \subseteq DOMAIN slot', UNCHANGED cursor
  PROVE  CursorOK'
BY DEF CursorOK, Reaches

LEMMA LostSame ==
  ASSUME LostOK, DOMAIN slot \subseteq DOMAIN slot', lost' \subseteq lost
  PROVE  LostOK'
BY CoveredGrows DEF LostOK

LEMMA ProcSame ==
  ASSUME ProcOK, DOMAIN slot \subseteq DOMAIN slot', UNCHANGED proc
  PROVE  ProcOK'
BY MemoryGrows DEF ProcOK

\* One process goes on with a covered memory; the others do not move.
LEMMA ProcBecomes ==
  ASSUME ProcOK, DOMAIN slot \subseteq DOMAIN slot',
         NEW p \in Procs, NEW me \in Memory, Becomes(p, me),
         MemoryCovered(DOMAIN slot', me)
  PROVE  ProcOK'
<1>1. proc' \in [Procs -> Memory]
  BY DEF Becomes, ProcOK
<1>2. ASSUME NEW q \in Procs
      PROVE  MemoryCovered(DOMAIN slot', proc'[q])
  <2>1. CASE q = p
    BY <2>1 DEF Becomes, ProcOK
  <2>2. CASE q # p
    <3>1. proc'[q] = proc[q]
      BY <2>2 DEF Becomes, ProcOK
    <3>2. MemoryCovered(DOMAIN slot, proc[q])
      BY DEF ProcOK
    <3>3. QED
      BY <3>1, <3>2, MemoryGrows
  <2>3. QED
    BY <2>1, <2>2
<1>3. QED
  BY <1>1, <1>2 DEF ProcOK

LEMMA OutboxSaved ==
  ASSUME OutboxOK, NEW p \in Procs, NEW box \in [Payloads -> Entry], SaveOutbox(p, box)
  PROVE  OutboxOK'
BY TopologyAssumption DEF OutboxOK, SaveOutbox

\* A process that has ended keeps no promise open.
LEMMA NoProcessCovered ==
  /\ NoProcess \in Memory
  /\ \A occupied : MemoryCovered(occupied, NoProcess)
<1>1. (CHOOSE l \in Lanes : TRUE) \in Lanes
  BY PayloadsAssumption
<1>2. NoProcess \in Memory
  BY <1>1, LimitsAssumption DEF NoProcess, Memory, Absent, Entry, Status
<1>3. ASSUME NEW occupied
      PROVE  MemoryCovered(occupied, NoProcess)
  <2>1. <<>> \o <<>> = <<>> /\ DOMAIN <<>> = {}
    OBVIOUS
  <2>2. Covered(occupied, NoProcess.lane, <<>> \o <<>>) /\ Climbs(<<>> \o <<>>)
    BY <2>1 DEF Covered, Climbs
  <2>3. \A l \in Lanes : Reaches(occupied, l, 0)
    BY DEF Reaches
  <2>4. QED
    BY <2>2, <2>3 DEF MemoryCovered, NoProcess
<1>4. QED
  BY <1>2, <1>3

-----------------------------------------------------------------------------
(* What the marks write, and what a process goes on with.                  *)

\* The top of the loop begins a transaction with a covered batch.
LEMMA NextTransactionCovered ==
  ASSUME NEW me \in Memory, NEW batch \in Seq(Item), NEW rest \in Seq(Item), NEW occupied,
         batch # <<>>, Covered(occupied, me.lane, batch \o rest), Climbs(batch \o rest),
         \A l \in Lanes : Reaches(occupied, l, me.cursors[l])
  PROVE  /\ NextTransaction(me, batch, rest) \in Memory
         /\ MemoryCovered(occupied, NextTransaction(me, batch, rest))
<1> DEFINE box == IF PoolMode /\ me.cmd = "flush" THEN Mark(me.box, batch, "proving") ELSE me.box
           next == [me EXCEPT !.pc = "submit", !.batch = batch, !.rest = rest, !.attempt = 1,
                              !.tx = "none", !.box = box]
<1>1. box \in [Payloads -> Entry]
  BY MarkType DEF Memory, Status
<1>2. NextTransaction(me, batch, rest) = next
  BY DEF NextTransaction
<1> HIDE DEF box
<1>3. next \in Memory
  <2>1. 1 \in 0..MaxAttempts
    BY LimitsAssumption
  <2>2. QED
    BY <1>1, <2>1, Zenon DEF Memory
<1>4. /\ next.pc = "submit" /\ next.tx = "none" /\ next.lane = me.lane
      /\ next.batch = batch /\ next.rest = rest /\ next.cursors = me.cursors
  BY DEF Memory
<1>5. MemoryCovered(occupied, next)
  BY <1>4 DEF MemoryCovered
<1>6. QED
  BY <1>2, <1>3, <1>5

\* A retry keeps the lane and the cursors, and starts without a transaction.
LEMMA RetryCovered ==
  ASSUME NEW p \in Procs, ProcOK, UNCHANGED slot, MayRetry(p),
         NEW pc \in {"submit", "reseal"}, NEW batch \in Seq(Item), NEW rest \in Seq(Item),
         batch # <<>>, batch \o rest = proc[p].batch \o proc[p].rest,
         NEW me, me = [proc[p] EXCEPT !.pc = pc, !.batch = batch, !.rest = rest],
         Retry(p, me)
  PROVE  ProcOK'
<1> DEFINE old == proc[p]
           next == [old EXCEPT !.pc = pc, !.batch = batch, !.rest = rest,
                               !.attempt = @ + 1, !.tx = "none"]
<1>1. old \in Memory /\ MemoryCovered(DOMAIN slot, old)
  BY DEF ProcOK
<1>2. Becomes(p, next)
  BY <1>1 DEF Retry, Memory
<1>3. old.attempt + 1 \in 0..MaxAttempts
  BY <1>1, LimitsAssumption DEF MayRetry, Memory
<1> HIDE DEF old
<1>4. next \in Memory
  <2>1. old \in Memory /\ old.attempt + 1 \in 0..MaxAttempts
    BY <1>1, <1>3
  <2>2. pc \in {"idle", "seal", "submit", "await", "reseal"}
    OBVIOUS
  <2>3. QED
    BY <2>1, <2>2, Zenon DEF Memory
<1>5. /\ next.pc = pc /\ next.tx = "none" /\ next.lane = old.lane
      /\ next.batch = batch /\ next.rest = rest /\ next.cursors = old.cursors
  BY <1>1 DEF Memory
<1>6. MemoryCovered(DOMAIN slot, next)
  BY <1>1, <1>5 DEF MemoryCovered, old
<1>7. QED
  BY <1>2, <1>4, <1>6, ProcBecomes

\* The catch block leaves a covered batch, or no process.
LEMMA FailCovered ==
  ASSUME NEW p \in Procs, NEW kind, ProcOK, UNCHANGED slot,
         proc[p].pc \in {"submit", "await"}, Fail(p, kind)
  PROVE  ProcOK'
<1> DEFINE batch == proc[p].batch
           rest == proc[p].rest
<1>1. proc[p] \in Memory /\ batch \in Seq(Item) /\ rest \in Seq(Item) /\ batch # <<>>
  BY DEF ProcOK, Memory, MemoryCovered
<1>2. CASE GiveUp(p)
  BY <1>2, NoProcessCovered, ProcBecomes DEF GiveUp
<1>3. CASE MayRetry(p) /\ Len(batch) > 1 /\ Halve(p)
  <2> DEFINE me == [proc[p] EXCEPT !.pc = "submit", !.batch = FrontHalf(@),
                                   !.rest = BackHalf(batch) \o @]
  <2>1. /\ FrontHalf(batch) \in Seq(Item) /\ FrontHalf(batch) # <<>>
        /\ BackHalf(batch) \o rest \in Seq(Item)
        /\ FrontHalf(batch) \o (BackHalf(batch) \o rest) = batch \o rest
    <3>1. BackHalf(batch) \in Seq(Item)
      BY <1>1, <1>3, HalvesProperty
    <3>2. BackHalf(batch) \o rest \in Seq(Item)
      BY <1>1, <3>1, ConcatProperties
    <3>3. QED
      BY <1>1, <1>3, <3>2, HalvesProperty
  <2>2. me = [proc[p] EXCEPT !.pc = "submit", !.batch = FrontHalf(batch),
                             !.rest = BackHalf(batch) \o rest]
    BY <1>1 DEF Memory
  <2>3. Retry(p, me)
    BY <1>3 DEF Halve
  <2>4. QED
    BY <1>3, <2>1, <2>2, <2>3, RetryCovered
<1>4. CASE MayRetry(p) /\ (Again(p) \/ Retry(p, [proc[p] EXCEPT !.pc = "reseal"]))
  <2>1. PICK pc \in {"submit", "reseal"} : Retry(p, [proc[p] EXCEPT !.pc = pc])
    BY <1>4 DEF Again
  <2>2. [proc[p] EXCEPT !.pc = pc] = [proc[p] EXCEPT !.pc = pc, !.batch = batch, !.rest = rest]
    BY <1>1 DEF Memory
  <2>3. QED
    BY <1>1, <1>4, <2>1, <2>2, RetryCovered
<1>5. QED
  BY <1>2, <1>3, <1>4 DEF Fail

-----------------------------------------------------------------------------
(* One step of each action.                                                *)

LEMMA Batch ==
  ASSUME ProcOK, NEW p \in Procs
  PROVE  /\ proc[p] \in Memory
         /\ proc[p].lane \in Lanes
         /\ proc[p].batch \in Seq(Item) /\ proc[p].rest \in Seq(Item)
         /\ Covered(DOMAIN slot, proc[p].lane, proc[p].batch)
         /\ Msgs(proc[p].batch) \subseteq Payloads
<1>1. proc[p] \in Memory /\ MemoryCovered(DOMAIN slot, proc[p])
  BY DEF ProcOK
<1>2. proc[p].lane \in Lanes /\ proc[p].batch \in Seq(Item) /\ proc[p].rest \in Seq(Item)
  BY <1>1 DEF Memory
<1>3. Covered(DOMAIN slot, proc[p].lane, proc[p].batch)
  BY <1>1, <1>2, BatchCovered DEF MemoryCovered
<1>4. Msgs(proc[p].batch) \subseteq Payloads
  BY <1>2, ItemFacts DEF Msgs
<1>5. QED
  BY <1>1, <1>2, <1>3, <1>4

LEMMA AbandonKeeps ==
  ASSUME IInv, NEW p \in Procs, Abandon(p), UNCHANGED <<slot, fresh, runs>>
  PROVE  LostOK' /\ CountsOK'
<1>1. TheTx(proc[p]) \in Tx
  BY Parts, Batch DEF TheTx, Tx
<1>2. Covered(DOMAIN slot, TheTx(proc[p]).lane, TheTx(proc[p]).batch)
  BY Parts, Batch DEF TheTx
<1>3. lost' \subseteq lost \cup {TheTx(proc[p])}
  BY DEF Abandon
<1>4. LostOK'
  BY <1>1, <1>2, <1>3, Parts DEF LostOK
<1>5. CountsOK'
  BY Parts, Batch DEF CountsOK, Abandon
<1>6. QED
  BY <1>4, <1>5

LEMMA QueueStep ==
  ASSUME IInv, NEW m \in Payloads, Queue(m)
  PROVE  IInv'
<1>1. OutboxOK'
  BY Parts, TopologyAssumption DEF Queue, OutboxOK, Queued, Entry, Status
<1>2. ChainOK' /\ CursorOK' /\ ProcOK' /\ LostOK'
  BY Parts, ChainSame, CursorSame, ProcSame, LostSame DEF Queue
<1>3. CountsOK'
  BY Parts DEF Queue, CountsOK
<1>4. QED
  BY <1>1, <1>2, <1>3, PartsNext

\* A command starts with nothing sealed and with the cursors it has read.
LEMMA StartCovered ==
  ASSUME IInv, NEW p \in Procs, NEW cmd \in {"flush", "send"},
         NEW box \in [Payloads -> Entry], NEW taken \in SUBSET Payloads,
         NEW me, me = [NoProcess EXCEPT !.pc = "seal", !.cmd = cmd, !.box = box,
                                        !.cursors = cursor[HomeOf[p]],
                                        !.taken = taken, !.todo = taken]
  PROVE  me \in Memory /\ MemoryCovered(DOMAIN slot, me)
<1>1. cursor[HomeOf[p]] \in [Lanes -> Nat]
  BY Parts, TopologyAssumption DEF CursorOK
<1>2. me \in Memory
  BY <1>1, NoProcessCovered, Zenon DEF Memory
<1>3. /\ me.pc = "seal" /\ me.tx = "none" /\ me.batch = <<>> /\ me.rest = <<>>
      /\ me.cursors = cursor[HomeOf[p]]
  BY DEF NoProcess
<1>4. \A l \in Lanes : Reaches(DOMAIN slot, l, me.cursors[l])
  BY <1>3, Parts, TopologyAssumption DEF CursorOK
<1>5. Covered(DOMAIN slot, me.lane, <<>> \o <<>>) /\ Climbs(<<>> \o <<>>)
  <2>1. <<>> \o <<>> = <<>> /\ DOMAIN <<>> = {}
    OBVIOUS
  <2>2. QED
    BY <2>1 DEF Covered, Climbs
<1>6. QED
  BY <1>2, <1>3, <1>4, <1>5 DEF MemoryCovered

LEMMA StartStep ==
  ASSUME IInv, NEW p \in Procs, StartFlush(p) \/ StartSend(p)
  PROVE  IInv'
<1>1. ProcOK'
  <2>1. CASE StartFlush(p)
    <3>1. PICK max \in Caps :
            Becomes(p, [NoProcess EXCEPT !.pc = "seal", !.cmd = "flush",
                                         !.box = outbox[HomeOf[p]],
                                         !.cursors = cursor[HomeOf[p]],
                                         !.taken = Take(outbox[HomeOf[p]], max),
                                         !.todo = Take(outbox[HomeOf[p]], max)])
      BY <2>1 DEF StartFlush
    <3>2. outbox[HomeOf[p]] \in [Payloads -> Entry]
      BY Parts, TopologyAssumption DEF OutboxOK
    <3>3. Take(outbox[HomeOf[p]], max) \in SUBSET Payloads
      BY DEF Take
    <3>4. QED
      BY <2>1, <3>1, <3>2, <3>3, Parts, StartCovered, ProcBecomes DEF StartFlush
  <2>2. CASE StartSend(p)
    <3>1. PICK m \in Written(HomeOf[p]) :
            Becomes(p, [NoProcess EXCEPT !.pc = "seal", !.cmd = "send",
                                         !.cursors = cursor[HomeOf[p]],
                                         !.taken = {m}, !.todo = {m}])
      BY <2>2 DEF StartSend
    <3>2. {m} \in SUBSET Payloads
      BY Parts DEF Written, Oldest, CountsOK
    <3>3. /\ NoProcess.box \in [Payloads -> Entry]
          /\ [NoProcess EXCEPT !.pc = "seal", !.cmd = "send",
                               !.cursors = cursor[HomeOf[p]],
                               !.taken = {m}, !.todo = {m}]
             = [NoProcess EXCEPT !.pc = "seal", !.cmd = "send", !.box = NoProcess.box,
                                 !.cursors = cursor[HomeOf[p]],
                                 !.taken = {m}, !.todo = {m}]
      BY NoProcessCovered DEF Memory, NoProcess
    <3>4. QED
      BY <2>2, <3>1, <3>2, <3>3, Parts, StartCovered, ProcBecomes DEF StartSend
  <2>3. QED
    BY <2>1, <2>2
<1>2. ChainOK' /\ CursorOK' /\ LostOK'
  BY Parts, ChainSame, CursorSame, LostSame DEF StartFlush, StartSend
<1>3. OutboxOK'
  BY Parts DEF OutboxOK, StartFlush, StartSend
<1>4. CountsOK'
  <2>1. runs < MaxRuns /\ runs' = runs + 1 /\ fresh' \subseteq fresh /\ doubt' = doubt
    BY Zenon DEF StartFlush, StartSend
  <2>2. QED
    BY <2>1, Parts, LimitsAssumption DEF CountsOK
<1>5. QED
  BY <1>1, <1>2, <1>3, <1>4, PartsNext

LEMMA SealLaneStep ==
  ASSUME IInv, NEW p \in Procs, SealLane(p)
  PROVE  IInv'
<1> DEFINE me == proc[p]
<1>1. PICK first \in Oldest(me.todo) :
        LET lane == LaneOf[first]
            entries == {m \in me.todo : LaneOf[m] = lane}
        IN  \E msgs \in OldestFirst(entries), start \in NextFree(lane, me.cursors[lane]) :
              LET next == NextTransaction([me EXCEPT !.lane = lane, !.todo = @ \ entries],
                                          Sealed(msgs, start), <<>>)
              IN  /\ Becomes(p, next)
                  /\ IF PoolMode THEN SaveOutbox(p, next.box) ELSE UNCHANGED outbox
  BY DEF SealLane
<1> DEFINE lane == LaneOf[first]
           entries == {m \in me.todo : LaneOf[m] = lane}
           turned == [me EXCEPT !.lane = lane, !.todo = @ \ entries]
<1>2. PICK msgs \in OldestFirst(entries), start \in NextFree(lane, me.cursors[lane]) :
        /\ Becomes(p, NextTransaction(turned, Sealed(msgs, start), <<>>))
        /\ IF PoolMode THEN SaveOutbox(p, NextTransaction(turned, Sealed(msgs, start), <<>>).box)
                       ELSE UNCHANGED outbox
  BY <1>1
<1> DEFINE next == NextTransaction(turned, Sealed(msgs, start), <<>>)
<1>3. me \in Memory /\ MemoryCovered(DOMAIN slot, me)
  BY Parts DEF ProcOK
<1>4. first \in me.todo /\ me.todo \subseteq Payloads /\ me.cursors \in [Lanes -> Nat]
  BY <1>3 DEF Oldest, Memory
<1>5. lane \in Lanes
  BY <1>4, TopologyAssumption
<1>6. msgs \in Seq(Payloads) /\ msgs # <<>>
  <2>1. entries \in SUBSET Payloads /\ entries # {}
    BY <1>4
  <2> HIDE DEF entries
  <2>2. QED
    BY <2>1, PayloadsAssumption, OldestFirstProperty
<1>7. start \in Nat /\ Reaches(DOMAIN slot, lane, start)
  <2>1. /\ start \in Nat
        /\ \A j \in me.cursors[lane]..start-1 : <<lane, j>> \in DOMAIN slot
    BY <1>4, <1>5, Parts, WalkProperty DEF ChainOK
  <2>2. Reaches(DOMAIN slot, lane, me.cursors[lane])
    BY <1>3, <1>5 DEF MemoryCovered
  <2>3. QED
    BY <1>4, <1>5, <2>1, <2>2 DEF Reaches
<1>8. turned \in Memory /\ turned.lane = lane /\ turned.cursors = me.cursors
  <2>1. me.todo \ entries \in SUBSET Payloads
    BY <1>4
  <2>2. turned \in Memory
    BY <1>3, <1>5, <2>1, Zenon DEF Memory
  <2>3. QED
    BY <1>3, <2>2 DEF Memory
<1> HIDE DEF turned, entries, lane
<1>9. /\ Sealed(msgs, start) \in Seq(Item) /\ Sealed(msgs, start) # <<>>
      /\ Covered(DOMAIN slot, lane, Sealed(msgs, start) \o <<>>)
      /\ Climbs(Sealed(msgs, start) \o <<>>)
  <2>1. /\ Sealed(msgs, start) \in Seq(Item) /\ Len(Sealed(msgs, start)) = Len(msgs)
        /\ Covered(DOMAIN slot, lane, Sealed(msgs, start)) /\ Climbs(Sealed(msgs, start))
    BY <1>5, <1>6, <1>7, SealedProperty
  <2>2. Sealed(msgs, start) \o <<>> = Sealed(msgs, start)
    BY <2>1, ConcatEmptySeq
  <2>3. Len(msgs) # 0
    BY <1>6, EmptySeq
  <2>4. QED
    BY <2>1, <2>2, <2>3, EmptySeq
<1>10. /\ next \in Memory
       /\ MemoryCovered(DOMAIN slot, next)
  <2>1. \A l \in Lanes : Reaches(DOMAIN slot, l, turned.cursors[l])
    BY <1>3, <1>8 DEF MemoryCovered
  <2>2. <<>> \in Seq(Item)
    OBVIOUS
  <2>3. QED
    BY <1>8, <1>9, <2>1, <2>2, NextTransactionCovered
<1> HIDE DEF next
<1>11. UNCHANGED <<slot, cursor, fresh, lost, doubt, runs>>
  BY DEF SealLane
<1>12. ProcOK'
  BY <1>2, <1>10, <1>11, Parts, ProcBecomes DEF next
<1>13. OutboxOK'
  <2>1. next.box \in [Payloads -> Entry]
    BY <1>10 DEF Memory
  <2>2. CASE PoolMode
    BY <1>2, <2>1, <2>2, Parts, OutboxSaved DEF next
  <2>3. CASE ~ PoolMode
    BY <1>2, <2>3, Parts DEF OutboxOK
  <2>4. QED
    BY <2>2, <2>3
<1>14. ChainOK' /\ CursorOK' /\ LostOK' /\ CountsOK'
  BY <1>11, Parts, ChainSame, CursorSame, LostSame DEF CountsOK
<1>15. QED
  BY <1>12, <1>13, <1>14, PartsNext

LEMMA BroadcastStep ==
  ASSUME IInv, NEW p \in Procs, Broadcast(p)
  PROVE  IInv'
<1> DEFINE me == proc[p]
           box == IF me.cmd = "flush" THEN Mark(me.box, me.batch, "submitted") ELSE me.box
           next == [me EXCEPT !.pc = "await", !.tx = "pending", !.box = box]
<1>1. /\ me.pc = "submit" /\ Becomes(p, next) /\ SaveOutbox(p, box)
      /\ UNCHANGED <<slot, cursor, fresh, lost, doubt, runs>>
  BY DEF Broadcast
<1>2. me \in Memory /\ MemoryCovered(DOMAIN slot, me)
  BY Parts DEF ProcOK
<1>3. box \in [Payloads -> Entry]
  BY <1>2, MarkType DEF Memory, Status
<1> HIDE DEF box
<1>4. next \in Memory
  BY <1>2, <1>3, Zenon DEF Memory
<1>5. MemoryCovered(DOMAIN slot, next)
  <2>1. /\ next.pc = "await" /\ next.tx = "pending" /\ next.lane = me.lane
        /\ next.batch = me.batch /\ next.rest = me.rest /\ next.cursors = me.cursors
    BY <1>2 DEF Memory
  <2>2. QED
    BY <1>1, <1>2, <2>1 DEF MemoryCovered
<1>6. ProcOK'
  BY <1>1, <1>4, <1>5, Parts, ProcBecomes
<1>7. OutboxOK'
  BY <1>1, <1>3, Parts, OutboxSaved
<1>8. ChainOK' /\ CursorOK' /\ LostOK' /\ CountsOK'
  BY <1>1, Parts, ChainSame, CursorSame, LostSame DEF CountsOK
<1>9. QED
  BY <1>6, <1>7, <1>8, PartsNext

LEMMA IncludeStep ==
  ASSUME IInv, NEW p \in Procs, Include(p)
  PROVE  IInv'
<1> DEFINE me == proc[p]
           items == Calldata(me.lane, me.batch)
           next == [me EXCEPT !.tx = IF Accepts(Pool, items) THEN "landed" ELSE "reverted"]
<1>1. /\ me.pc = "await" /\ PrivacyInvoke(Pool, items) /\ Becomes(p, next)
      /\ UNCHANGED <<outbox, cursor, fresh, lost, doubt, runs>>
  BY DEF Include, Call, TheTx
<1>2. me \in Memory /\ MemoryCovered(DOMAIN slot, me)
  BY Parts DEF ProcOK
<1>3. next \in Memory
  BY <1>2, Zenon DEF Memory
<1>4. /\ next.pc = "await" /\ next.lane = me.lane /\ next.batch = me.batch
      /\ next.rest = me.rest /\ next.cursors = me.cursors
      /\ next.tx = "landed" => Accepts(Pool, items)
  BY <1>1, <1>2 DEF Memory
<1>5. /\ ChainOK' /\ DOMAIN slot \subseteq DOMAIN slot'
      /\ next.tx = "landed" => Stored(DOMAIN slot', me.lane, me.batch)
  <2>1. CASE Accepts(Pool, items)
    BY <1>1, <2>1, Parts, Batch, LandDense DEF PrivacyInvoke
  <2>2. CASE ~ Accepts(Pool, items)
    BY <1>1, <1>4, <2>2, Parts, ChainSame DEF PrivacyInvoke
  <2>3. QED
    BY <2>1, <2>2
<1>6. MemoryCovered(DOMAIN slot', next)
  <2>1. MemoryCovered(DOMAIN slot', me)
    BY <1>2, <1>5, MemoryGrows
  <2> HIDE DEF next, me
  <2>2. QED
    BY <1>1, <1>4, <1>5, <2>1 DEF MemoryCovered
<1>7. ProcOK'
  BY <1>1, <1>3, <1>5, <1>6, Parts, ProcBecomes
<1>8. OutboxOK' /\ CursorOK' /\ LostOK' /\ CountsOK'
  BY <1>1, <1>5, Parts, CursorSame, LostSame DEF OutboxOK, CountsOK
<1>9. QED
  BY <1>5, <1>7, <1>8, PartsNext

LEMMA RevertsOutsideStep ==
  ASSUME IInv, NEW p \in Procs, RevertsOutside(p)
  PROVE  IInv'
<1> DEFINE me == proc[p]
           next == [me EXCEPT !.tx = "reverted"]
<1>1. /\ me.pc = "await" /\ Becomes(p, next)
      /\ UNCHANGED <<slot, outbox, cursor, fresh, lost, doubt, runs>>
  BY DEF RevertsOutside
<1>2. me \in Memory /\ MemoryCovered(DOMAIN slot, me)
  BY Parts DEF ProcOK
<1>3. next \in Memory
  BY <1>2, Zenon DEF Memory
<1>4. MemoryCovered(DOMAIN slot, next)
  <2>1. /\ next.pc = "await" /\ next.tx = "reverted" /\ next.lane = me.lane
        /\ next.batch = me.batch /\ next.rest = me.rest /\ next.cursors = me.cursors
    BY <1>1, <1>2 DEF Memory
  <2>2. QED
    BY <1>1, <1>2, <2>1 DEF MemoryCovered
<1>5. ProcOK'
  BY <1>1, <1>3, <1>4, Parts, ProcBecomes
<1>6. OutboxOK' /\ ChainOK' /\ CursorOK' /\ LostOK' /\ CountsOK'
  BY <1>1, Parts, ChainSame, CursorSame, LostSame DEF OutboxOK, CountsOK
<1>7. QED
  BY <1>5, <1>6, PartsNext

LEMMA IncludeLostStep ==
  ASSUME IInv, NEW t \in lost, IncludeLost(t)
  PROVE  IInv'
<1>1. /\ PrivacyInvoke(Pool, Calldata(t.lane, t.batch))
      /\ lost' = lost \ {t}
      /\ UNCHANGED <<outbox, cursor, fresh, proc, doubt, runs>>
  BY DEF IncludeLost, Call
<1>2. t.lane \in Lanes /\ t.batch \in Seq(Item) /\ Covered(DOMAIN slot, t.lane, t.batch)
  BY Parts DEF LostOK, Tx
<1>3. ChainOK' /\ DOMAIN slot \subseteq DOMAIN slot'
  BY <1>1, <1>2, Parts, ChainSame, LandDense DEF PrivacyInvoke
<1>4. OutboxOK' /\ CursorOK' /\ ProcOK' /\ LostOK' /\ CountsOK'
  BY <1>1, <1>3, Parts, CursorSame, ProcSame, LostSame DEF OutboxOK, CountsOK
<1>5. QED
  BY <1>3, <1>4, PartsNext

\* The three ways a submission fails.
LEMMA FailureStep ==
  ASSUME IInv, NEW p \in Procs,
         (\E kind \in FailureKind : SubmitFails(p, kind) \/ Reverted(p, kind)) \/ AnswerLost(p)
  PROVE  IInv'
<1>1. PICK kind \in FailureKind :
        /\ proc[p].pc \in {"submit", "await"}
        /\ Fail(p, kind)
        /\ Abandon(p) \/ UNCHANGED <<lost, doubt>>
        /\ UNCHANGED <<slot, outbox, cursor, fresh, runs>>
  BY Zenon DEF SubmitFails, Reverted, AnswerLost, FailureKind
<1>2. ProcOK'
  BY <1>1, Parts, FailCovered
<1>3. LostOK' /\ CountsOK'
  <2>1. CASE Abandon(p)
    BY <1>1, <2>1, AbandonKeeps
  <2>2. CASE UNCHANGED <<lost, doubt>>
    BY <1>1, <2>2, Parts, LostSame DEF CountsOK
  <2>3. QED
    BY <1>1, <2>1, <2>2
<1>4. ChainOK' /\ CursorOK' /\ OutboxOK'
  BY <1>1, Parts, ChainSame, CursorSame DEF OutboxOK
<1>5. QED
  BY <1>2, <1>3, <1>4, PartsNext

LEMMA CrashStep ==
  ASSUME IInv, NEW p \in Procs, Crash(p) \/ CrashBetweenSaves(p)
  PROVE  IInv'
<1>1. /\ Becomes(p, NoProcess)
      /\ Abandon(p) \/ UNCHANGED <<lost, doubt>>
      /\ UNCHANGED <<slot, cursor, fresh, runs>>
  BY Zenon DEF Crash, CrashBetweenSaves
<1>2. ProcOK'
  BY <1>1, Parts, NoProcessCovered, ProcBecomes
<1>3. LostOK' /\ CountsOK'
  <2>1. CASE Abandon(p)
    BY <1>1, <2>1, AbandonKeeps
  <2>2. CASE UNCHANGED <<lost, doubt>>
    BY <1>1, <2>2, Parts, LostSame DEF CountsOK
  <2>3. QED
    BY <1>1, <2>1, <2>2
<1>4. OutboxOK'
  <2>1. CASE UNCHANGED outbox
    BY <2>1, Parts DEF OutboxOK
  <2>2. CASE SaveOutbox(p, MarkConfirmed(proc[p].box, proc[p].batch))
    <3>1. proc[p].box \in [Payloads -> Entry]
      BY Parts, Batch DEF Memory
    <3>2. MarkConfirmed(proc[p].box, proc[p].batch) \in [Payloads -> Entry]
      BY <3>1, Parts, Batch, MarkConfirmedType
    <3>3. QED
      BY <2>2, <3>2, Parts, OutboxSaved
  <2>3. QED
    BY <2>1, <2>2 DEF Crash, CrashBetweenSaves
<1>5. ChainOK' /\ CursorOK'
  BY <1>1, Parts, ChainSame, CursorSame
<1>6. QED
  BY <1>2, <1>3, <1>4, <1>5, PartsNext

LEMMA ResealStep ==
  ASSUME IInv, NEW p \in Procs, Reseal(p)
  PROVE  IInv'
<1> DEFINE me == proc[p]
<1>1. PICK start \in NextFree(me.lane, me.cursors[me.lane]) :
        Becomes(p, [me EXCEPT !.pc = "submit", !.batch = Sealed(Texts(me.batch), start)])
  BY DEF Reseal
<1>2. me.pc = "reseal" /\ UNCHANGED <<slot, outbox, cursor, fresh, lost, doubt, runs>>
  BY DEF Reseal
<1> DEFINE again == Sealed(Texts(me.batch), start)
           next == [me EXCEPT !.pc = "submit", !.batch = again]
<1>3. me \in Memory /\ MemoryCovered(DOMAIN slot, me)
  BY Parts DEF ProcOK
<1>4. /\ me.lane \in Lanes /\ me.cursors \in [Lanes -> Nat]
      /\ me.batch \in Seq(Item) /\ me.rest \in Seq(Item) /\ me.batch # <<>>
  BY <1>2, <1>3 DEF Memory, MemoryCovered
<1>5. /\ start \in Nat /\ <<me.lane, start>> \notin DOMAIN slot
      /\ Reaches(DOMAIN slot, me.lane, start)
  <2>1. /\ start \in Nat /\ <<me.lane, start>> \notin DOMAIN slot
        /\ \A j \in me.cursors[me.lane]..start-1 : <<me.lane, j>> \in DOMAIN slot
    BY <1>4, Parts, WalkProperty DEF ChainOK
  <2>2. Reaches(DOMAIN slot, me.lane, me.cursors[me.lane])
    BY <1>3, <1>4 DEF MemoryCovered
  <2>3. QED
    BY <1>4, <2>1, <2>2 DEF Reaches
<1>6. Texts(me.batch) \in Seq(Payloads) /\ Len(Texts(me.batch)) = Len(me.batch)
  <2>1. Texts(me.batch) = [k \in 1..Len(me.batch) |-> me.batch[k].msg]
    BY <1>4, ItemFacts DEF Texts
  <2>2. \A k \in 1..Len(me.batch) : me.batch[k].msg \in Payloads
    BY <1>4, ItemFacts
  <2> HIDE DEF me
  <2>3. Len(me.batch) \in Nat
    BY <1>4
  <2>4. QED
    BY <2>1, <2>2, <2>3
<1>7. /\ again \in Seq(Item) /\ Len(again) = Len(me.batch)
      /\ \A k \in 1..Len(me.batch) : again[k].index = start + k - 1
  <2>1. again \in Seq(Item) /\ Len(again) = Len(me.batch)
    BY <1>4, <1>5, <1>6, SealedProperty
  <2>2. DOMAIN Texts(me.batch) = 1..Len(me.batch)
    BY <1>6
  <2>3. QED
    BY <2>1, <2>2 DEF Sealed
<1> HIDE DEF again
<1>8. again # <<>>
  BY <1>4, <1>7, EmptySeq
<1>9. /\ Covered(DOMAIN slot, me.lane, again \o me.rest)
      /\ Climbs(again \o me.rest)
  BY <1>3, <1>4, <1>5, <1>7, ResealCovered DEF MemoryCovered
<1>10. next \in Memory
  BY <1>3, <1>7, Zenon DEF Memory
<1>11. MemoryCovered(DOMAIN slot, next)
  <2>1. /\ next.pc = "submit" /\ next.lane = me.lane /\ next.batch = again
        /\ next.rest = me.rest /\ next.cursors = me.cursors /\ next.tx = me.tx
    BY <1>3 DEF Memory
  <2>2. me.tx # "landed"
    BY <1>2, <1>3 DEF MemoryCovered
  <2>3. QED
    BY <1>3, <1>8, <1>9, <2>1, <2>2 DEF MemoryCovered
<1>12. ProcOK'
  BY <1>1, <1>2, <1>10, <1>11, Parts, ProcBecomes DEF again
<1>13. ChainOK' /\ CursorOK' /\ LostOK' /\ CountsOK' /\ OutboxOK'
  BY <1>2, Parts, ChainSame, CursorSame, LostSame DEF CountsOK, OutboxOK
<1>14. QED
  BY <1>12, <1>13, PartsNext

\* Everything up to the last index of a stored, covered batch is stored.
LEMMA CursorPastReached ==
  ASSUME NEW items \in Seq(Item), items # <<>>, Climbs(items), NEW occupied, NEW lane,
         Covered(occupied, lane, items), Stored(occupied, lane, items)
  PROVE  CursorPast(items) \in Nat /\ Reaches(occupied, lane, CursorPast(items))
<1>1. LastIndex(items) \in Nat
  BY LastIndexProperty
<1>2. PICK k \in DOMAIN items : items[k].index = LastIndex(items)
  BY LastIndexProperty
<1>3. ASSUME NEW j \in 0..LastIndex(items)
      PROVE  <<lane, j>> \in occupied
  <2>1. CASE j = LastIndex(items)
    BY <1>2, <2>1 DEF Stored
  <2>2. CASE j # LastIndex(items)
    <3>1. j \in 0..items[k].index-1
      BY <1>1, <1>2, <2>2
    <3>2. <<lane, j>> \in occupied \/ \E i \in 1..k-1 : items[i].index = j
      BY <3>1 DEF Covered
    <3>3. 1..k-1 \subseteq DOMAIN items
      BY ItemFacts
    <3>4. QED
      BY <3>2, <3>3 DEF Stored
  <2>3. QED
    BY <2>1, <2>2
<1>4. QED
  BY <1>1, <1>3 DEF CursorPast, Reaches

LEMMA ConfirmStep ==
  ASSUME IInv, NEW p \in Procs, Confirm(p)
  PROVE  IInv'
<1> DEFINE me == proc[p]
           box == IF me.cmd = "flush" THEN MarkConfirmed(me.box, me.batch) ELSE me.box
           past == CursorPast(me.batch)
           done == [me EXCEPT !.box = box, !.cursors[me.lane] = past]
           next == Continue(done)
<1>1. /\ me.pc = "await" /\ me.tx = "landed"
      /\ Becomes(p, next)
      /\ SaveOutbox(p, IF next.pc = "submit" THEN next.box ELSE box)
      /\ cursor' = [cursor EXCEPT ![HomeOf[p]] = done.cursors]
      /\ UNCHANGED <<slot, fresh, lost, doubt, runs>>
  BY DEF Confirm, Succeeded
<1>2. me \in Memory /\ MemoryCovered(DOMAIN slot, me)
  BY Parts DEF ProcOK
<1>3. /\ me.lane \in Lanes /\ me.cursors \in [Lanes -> Nat] /\ me.box \in [Payloads -> Entry]
      /\ me.batch \in Seq(Item) /\ me.rest \in Seq(Item) /\ me.batch # <<>>
      /\ Stored(DOMAIN slot, me.lane, me.batch)
  BY <1>1, <1>2 DEF Memory, MemoryCovered
<1>4. Covered(DOMAIN slot, me.lane, me.batch) /\ Climbs(me.batch)
  BY <1>2, <1>3, BatchCovered DEF MemoryCovered
<1>5. Covered(DOMAIN slot, me.lane, me.rest) /\ Climbs(me.rest)
  BY <1>2, <1>3, RestCovered DEF MemoryCovered
<1>6. past \in Nat /\ Reaches(DOMAIN slot, me.lane, past)
  BY <1>3, <1>4, CursorPastReached
<1>7. box \in [Payloads -> Entry]
  BY <1>3, MarkConfirmedType
<1> DEFINE cursors == [me.cursors EXCEPT ![me.lane] = past]
<1> HIDE DEF box, past
<1>8. /\ cursors \in [Lanes -> Nat]
      /\ \A l \in Lanes : Reaches(DOMAIN slot, l, cursors[l])
  BY <1>2, <1>3, <1>6 DEF MemoryCovered
<1>9. done = [me EXCEPT !.box = box, !.cursors = cursors]
  BY <1>2 DEF Memory
<1> HIDE DEF cursors
<1>10. done \in Memory
  <2>1. [me EXCEPT !.box = box, !.cursors = cursors] \in Memory
    BY <1>2, <1>7, <1>8, Zenon DEF Memory
  <2>2. QED
    BY <1>9, <2>1
<1>11. done.cursors = cursors /\ done.lane = me.lane /\ done.rest = me.rest /\ done.box = box
  BY <1>2, <1>9 DEF Memory
<1> HIDE DEF done
<1>12. next \in Memory /\ MemoryCovered(DOMAIN slot, next)
  <2>1. CASE done.rest # <<>>
    <3>1. next = NextTransaction(done, me.rest, <<>>)
      BY <1>11, <2>1 DEF Continue
    <3>2. me.rest \o <<>> = me.rest /\ <<>> \in Seq(Item)
      BY <1>3, ConcatEmptySeq
    <3>3. QED
      BY <1>3, <1>5, <1>8, <1>10, <1>11, <2>1, <3>1, <3>2, NextTransactionCovered
  <2>2. CASE done.rest = <<>> /\ done.todo # {}
    <3>1. next = [done EXCEPT !.pc = "seal", !.batch = <<>>, !.tx = "none"]
      BY <2>2 DEF Continue
    <3>2. <<>> \in Seq(Item)
      OBVIOUS
    <3>3. next \in Memory
      BY <1>10, <3>1, <3>2, Zenon DEF Memory
    <3>4. /\ next.pc = "seal" /\ next.tx = "none" /\ next.batch = <<>>
          /\ next.rest = <<>> /\ next.cursors = cursors
      BY <1>10, <1>11, <2>2, <3>1 DEF Memory
    <3>5. Covered(DOMAIN slot, next.lane, <<>> \o <<>>) /\ Climbs(<<>> \o <<>>)
      <4>1. <<>> \o <<>> = <<>> /\ DOMAIN <<>> = {}
        OBVIOUS
      <4>2. QED
        BY <4>1 DEF Covered, Climbs
    <3> HIDE DEF next
    <3>6. QED
      BY <1>8, <3>3, <3>4, <3>5 DEF MemoryCovered
  <2>3. CASE done.rest = <<>> /\ done.todo = {}
    BY <2>3, NoProcessCovered DEF Continue
  <2>4. QED
    BY <2>1, <2>2, <2>3
<1> HIDE DEF next
<1>13. ProcOK'
  BY <1>1, <1>12, Parts, ProcBecomes
<1>14. OutboxOK'
  <2>1. next.box \in [Payloads -> Entry]
    BY <1>12 DEF Memory
  <2>2. QED
    BY <1>1, <1>7, <2>1, Parts, OutboxSaved
<1>15. CursorOK'
  BY <1>1, <1>8, <1>11, Parts, TopologyAssumption DEF CursorOK, Reaches
<1>16. ChainOK' /\ LostOK' /\ CountsOK'
  BY <1>1, Parts, ChainSame, LostSame DEF CountsOK
<1>17. QED
  BY <1>13, <1>14, <1>15, <1>16, PartsNext

-----------------------------------------------------------------------------
(* The theorems.                                                           *)

LEMMA InitInvariant == Init => IInv
<1> SUFFICES ASSUME Init
             PROVE  IInv
  OBVIOUS
<1>1. DOMAIN slot = {}
  BY DEF Init, SlotInit
<1>2. ChainOK
  BY <1>1, FS_EmptySet DEF ChainOK, LaneDense
<1>3. OutboxOK
  BY DEF Init, OutboxOK, Absent, Entry, Status
<1>4. CursorOK
  BY DEF Init, CursorOK, Reaches
<1>5. ProcOK
  BY NoProcessCovered DEF Init, ProcOK
<1>6. LostOK /\ CountsOK
  BY LimitsAssumption DEF Init, LostOK, CountsOK
<1>7. QED
  BY <1>2, <1>3, <1>4, <1>5, <1>6, Parts

LEMMA NextInvariant == IInv /\ [Next]_vars => IInv'
<1> SUFFICES ASSUME IInv, [Next]_vars
             PROVE  IInv'
  OBVIOUS
<1>1. ASSUME NEW m \in Payloads, Queue(m)
      PROVE  IInv'
  BY <1>1, QueueStep
<1>2. ASSUME NEW p \in Procs, StartFlush(p) \/ StartSend(p)
      PROVE  IInv'
  BY <1>2, StartStep
<1>3. ASSUME NEW p \in Procs, Advance(p)
      PROVE  IInv'
  BY <1>3, SealLaneStep, BroadcastStep, IncludeStep, RevertsOutsideStep, ConfirmStep, FailureStep, ResealStep
     DEF Advance
<1>4. ASSUME NEW p \in Procs, Crash(p) \/ CrashBetweenSaves(p)
      PROVE  IInv'
  BY <1>4, CrashStep
<1>5. ASSUME NEW t \in lost, IncludeLost(t)
      PROVE  IInv'
  BY <1>5, IncludeLostStep
<1>6. CASE UNCHANGED vars
  BY <1>6, Parts, PartsNext, ChainSame, CursorSame, ProcSame, LostSame
     DEF vars, OutboxOK, CountsOK
<1>7. QED
  BY <1>1, <1>2, <1>3, <1>4, <1>5, <1>6 DEF Next

\* The inductive invariant holds in every reachable state.
THEOREM Invariant == Spec => []IInv
BY InitInvariant, NextInvariant, PTL DEF Spec

\* Every variable has its type in every reachable state: among others, no
\* command makes more than MaxAttempts attempts at one transaction.
THEOREM TypeCorrect == Spec => []TypeOK
<1>1. IInv => TypeOK
  BY DEF IInv
<1>2. QED
  BY <1>1, Invariant, PTL

\* A lane never has a gap, so a reader who stops at the first empty slot has
\* seen all there is.
THEOREM LanesStayDense == Spec => []LaneDense
<1>1. IInv => LaneDense
  BY DEF IInv
<1>2. QED
  BY <1>1, Invariant, PTL

\* No cursor, saved or in memory, ever points past the end of its lane.
THEOREM CursorsStaySound == Spec => []CursorSound
<1>1. IInv => CursorSound
  BY Parts DEF CursorOK, ProcOK, MemoryCovered, CursorSound, Reaches, Occupied
<1>2. QED
  BY <1>1, Invariant, PTL

-----------------------------------------------------------------------------
(* What the outboxes say, and what a running command still has to do.      *)

\* The messages of a batch and of what was cut off from it.
LEMMA MsgsConcat ==
  ASSUME NEW batch \in Seq(Item), NEW rest \in Seq(Item)
  PROVE  /\ Msgs(batch \o rest) = Msgs(batch) \cup Msgs(rest)
         /\ Msgs(batch) \subseteq Payloads /\ Msgs(rest) \subseteq Payloads
<1> DEFINE both == batch \o rest
           n == Len(batch)
<1>1. /\ DOMAIN both = 1..(n + Len(rest)) /\ n \in Nat
      /\ DOMAIN rest = 1..Len(rest) /\ Len(rest) \in Nat
      /\ DOMAIN batch = 1..n
      /\ \A k \in 1..n : both[k] = batch[k]
      /\ \A k \in 1..Len(rest) : both[n + k] = rest[k]
      /\ \A k \in DOMAIN batch : batch[k].msg \in Payloads
      /\ \A k \in DOMAIN rest : rest[k].msg \in Payloads
  BY ConcatItems
<1> HIDE DEF both, n
<1>2. ASSUME NEW k \in DOMAIN both
      PROVE  both[k].msg \in Msgs(batch) \cup Msgs(rest)
  <2>1. CASE k <= n
    BY <1>1, <2>1 DEF Msgs
  <2>2. CASE k > n
    <3>1. k - n \in DOMAIN rest /\ n + (k - n) = k
      BY <1>1, <2>2
    <3>2. both[k] = rest[k - n]
      BY <1>1, <3>1
    <3>3. QED
      BY <3>1, <3>2 DEF Msgs
  <2>3. QED
    BY <1>1, <2>1, <2>2
<1>3. ASSUME NEW k \in DOMAIN batch
      PROVE  batch[k].msg \in Msgs(both)
  BY <1>1 DEF Msgs
<1>4. ASSUME NEW k \in DOMAIN rest
      PROVE  rest[k].msg \in Msgs(both)
  <2>1. n + k \in DOMAIN both /\ both[n + k] = rest[k]
    BY <1>1
  <2>2. QED
    BY <2>1 DEF Msgs
<1>5. Msgs(both) = Msgs(batch) \cup Msgs(rest)
  BY <1>2, <1>3, <1>4 DEF Msgs
<1>6. QED
  BY <1>1, <1>5 DEF Msgs, both

\* What was cut off is younger than the current batch, and in order itself.
LEMMA OrderInParts ==
  ASSUME NEW batch \in Seq(Item), NEW rest \in Seq(Item), InOrderOfQueueing(batch \o rest)
  PROVE  /\ \A n \in Msgs(batch), m \in Msgs(rest) : n < m
         /\ InOrderOfQueueing(batch) /\ InOrderOfQueueing(rest)
<1> DEFINE both == batch \o rest
           n == Len(batch)
<1>1. /\ DOMAIN both = 1..(n + Len(rest)) /\ n \in Nat
      /\ DOMAIN rest = 1..Len(rest) /\ Len(rest) \in Nat
      /\ DOMAIN batch = 1..n
      /\ \A k \in 1..n : both[k] = batch[k]
      /\ \A k \in 1..Len(rest) : both[n + k] = rest[k]
  BY ConcatItems
<1>2. \A i, j \in DOMAIN both : i < j => both[i].msg < both[j].msg
  BY DEF InOrderOfQueueing
<1> HIDE DEF both, n
<1>3. ASSUME NEW i \in DOMAIN batch, NEW j \in DOMAIN rest
      PROVE  batch[i].msg < rest[j].msg
  <2>1. i \in DOMAIN both /\ n + j \in DOMAIN both /\ i < n + j
    BY <1>1
  <2>2. QED
    BY <1>1, <1>2, <2>1
<1>4. InOrderOfQueueing(batch)
  <2>1. \A i \in DOMAIN batch : i \in DOMAIN both /\ both[i] = batch[i]
    BY <1>1
  <2>2. QED
    BY <1>2, <2>1 DEF InOrderOfQueueing
<1>5. InOrderOfQueueing(rest)
  <2>1. \A i \in DOMAIN rest : n + i \in DOMAIN both /\ both[n + i] = rest[i]
    BY <1>1
  <2>2. \A i, j \in DOMAIN rest : i < j => n + i < n + j
    BY <1>1
  <2>3. QED
    BY <1>2, <2>1, <2>2 DEF InOrderOfQueueing
<1>6. QED
  BY <1>3, <1>4, <1>5 DEF Msgs

\* A message has one place in a batch, so one index.
LEMMA IndexOfItem ==
  ASSUME NEW items \in Seq(Item), InOrderOfQueueing(items), NEW k \in DOMAIN items
  PROVE  IndexOf(items, items[k].msg) = items[k].index
<1>1. PICK j \in DOMAIN items : /\ items[j].msg = items[k].msg
                                /\ items[j].index = IndexOf(items, items[k].msg)
  BY IndexOfProperty DEF Msgs
<1>2. /\ DOMAIN items = 1..Len(items) /\ Len(items) \in Nat
      /\ items[k].msg \in Nat
  BY ItemFacts, PayloadsAssumption
<1>3. ~ (j < k) /\ ~ (k < j)
  BY <1>1, <1>2 DEF InOrderOfQueueing
<1>4. QED
  BY <1>1, <1>2, <1>3

\* More is stored and less is unwritten: what an outbox says stays true.
LEMMA BoxKept ==
  ASSUME NEW storage, NEW later, Grows(storage, later),
         NEW unwritten, NEW less, less \subseteq unwritten,
         NEW h, NEW box, BoxOK(storage, unwritten, h, box)
  PROVE  BoxOK(later, less, h, box)
<1>1. ASSUME NEW m, NEW id, Holds(storage, id, m)
      PROVE  Holds(later, id, m)
  BY <1>1 DEF Holds, Grows
<1>2. \A m \in Payloads : box[m].status = "confirmed" => Holds(storage, <<LaneOf[m], box[m].index>>, m)
  BY DEF BoxOK
<1>3. \A m \in Payloads : box[m].status = "confirmed" => Holds(later, <<LaneOf[m], box[m].index>>, m)
  BY <1>1, <1>2
<1>4. QED
  BY <1>3 DEF BoxOK

LEMMA MemoryKept ==
  ASSUME NEW storage, NEW later, Grows(storage, later),
         NEW unwritten, NEW less, less \subseteq unwritten,
         NEW h, NEW me, MemoryOK(storage, unwritten, h, me)
  PROVE  MemoryOK(later, less, h, me)
<1>1. BoxOK(later, less, h, me.box)
  BY BoxKept DEF MemoryOK
<1>2. TakenOK(less, h, me)
  BY DEF MemoryOK, TakenOK
<1>3. LandedOK(later, me)
  BY DEF MemoryOK, LandedOK, Grows, Holds
<1>4. QED
  BY <1>1, <1>2, <1>3 DEF MemoryOK

\* Marking a batch keeps an outbox in order when no older message to its lane
\* is left behind in the queue (Outbox.mark).
LEMMA MarkKeeps ==
  ASSUME NEW storage, NEW unwritten, NEW h, NEW box \in [Payloads -> Entry],
         BoxOK(storage, unwritten, h, box),
         NEW items, NEW status \in {"proving", "submitted"},
         \A m \in Msgs(items) : m \notin unwritten /\ MsgHome[m] = h,
         \A m \in Payloads, n \in Msgs(items) :
           Earlier(m, n) /\ box[m].status = "queued" => m \in Msgs(items)
  PROVE  BoxOK(storage, unwritten, h, Mark(box, items, status))
<1> DEFINE new == Mark(box, items, status)
<1>1. \A m \in Payloads : m \notin Msgs(items) => new[m] = box[m]
  BY DEF Mark
<1>2. \A m \in Payloads : m \in Msgs(items) => new[m].status = status
  BY DEF Mark
<1>3. \A m \in Payloads : new[m].status \in {"confirmed", "queued"} => m \notin Msgs(items)
  BY <1>2
<1> HIDE DEF new
<1>4. \A m \in Payloads : new[m].status = "confirmed" => Holds(storage, <<LaneOf[m], new[m].index>>, m)
  BY <1>1, <1>3 DEF BoxOK
<1>5. \A m \in Payloads : new[m].status # "absent" => m \notin unwritten /\ MsgHome[m] = h
  BY <1>1 DEF BoxOK
<1>6. ASSUME NEW m \in Payloads, NEW n \in Payloads, Earlier(m, n)
      PROVE  /\ new[n].status \notin {"absent", "queued"} => new[m].status # "queued"
             /\ new[m].status = "confirmed" /\ new[n].status = "confirmed"
                  => new[m].index < new[n].index
  BY <1>1, <1>3, <1>6 DEF BoxOK
<1>7. QED
  BY <1>4, <1>5, <1>6 DEF BoxOK, new

\* The same of the mark that a success leaves.
LEMMA MarkConfirmedKeeps ==
  ASSUME NEW storage, NEW unwritten, NEW h, NEW box \in [Payloads -> Entry],
         BoxOK(storage, unwritten, h, box),
         NEW items, \A m \in Msgs(items) : m \notin unwritten /\ MsgHome[m] = h,
         \A m \in Payloads, n \in Msgs(items) :
           Earlier(m, n) /\ box[m].status = "queued" => m \in Msgs(items),
         \A m \in Msgs(items) : Holds(storage, <<LaneOf[m], IndexOf(items, m)>>, m),
         \A m, n \in Msgs(items) : Earlier(m, n) => IndexOf(items, m) < IndexOf(items, n),
         \A m \in Payloads, n \in Msgs(items) :
           Earlier(m, n) /\ box[m].status = "confirmed" => box[m].index < IndexOf(items, n),
         \A m \in Msgs(items), n \in Payloads :
           Earlier(m, n) => box[n].status # "confirmed"
  PROVE  BoxOK(storage, unwritten, h, MarkConfirmed(box, items))
<1> DEFINE new == MarkConfirmed(box, items)
<1>1. \A m \in Payloads : m \notin Msgs(items) => new[m] = box[m]
  BY DEF MarkConfirmed
<1>2. \A m \in Payloads : m \in Msgs(items) =>
        new[m].status = "confirmed" /\ new[m].index = IndexOf(items, m)
  BY DEF MarkConfirmed
<1> HIDE DEF new
<1>3. \A m \in Payloads : new[m].status = "confirmed" => Holds(storage, <<LaneOf[m], new[m].index>>, m)
  BY <1>1, <1>2 DEF BoxOK
<1>4. \A m \in Payloads : new[m].status # "absent" => m \notin unwritten /\ MsgHome[m] = h
  BY <1>1 DEF BoxOK
<1>5. ASSUME NEW m \in Payloads, NEW n \in Payloads, Earlier(m, n)
      PROVE  /\ new[n].status \notin {"absent", "queued"} => new[m].status # "queued"
             /\ new[m].status = "confirmed" /\ new[n].status = "confirmed"
                  => new[m].index < new[n].index
  <2>1. CASE m \in Msgs(items) /\ n \in Msgs(items)
    BY <1>2, <1>5, <2>1
  <2>2. CASE m \notin Msgs(items) /\ n \in Msgs(items)
    BY <1>1, <1>2, <1>5, <2>2
  <2>3. CASE m \in Msgs(items) /\ n \notin Msgs(items)
    BY <1>1, <1>2, <1>5, <2>3
  <2>4. CASE m \notin Msgs(items) /\ n \notin Msgs(items)
    BY <1>1, <1>5, <2>4 DEF BoxOK
  <2>5. QED
    BY <2>1, <2>2, <2>3, <2>4
<1>6. QED
  BY <1>3, <1>4, <1>5 DEF BoxOK, new

-----------------------------------------------------------------------------
(* What a process goes on with.                                            *)

\* No older message of its lane is left in the queue when a batch goes out.
LEMMA NoneLeftBehind ==
  ASSUME NEW me \in Memory, NEW storage, NEW unwritten, NEW h,
         MemoryOK(storage, unwritten, h, me), me.pc \in {"submit", "await", "reseal"},
         NEW m \in Payloads, NEW n \in Msgs(me.batch), Earlier(m, n),
         me.box[m].status = "queued"
  PROVE  m \in Msgs(me.batch)
<1>1. me.batch \in Seq(Item) /\ me.rest \in Seq(Item)
  BY DEF Memory
<1>2. n \in Payloads /\ n \in me.taken
  BY <1>1, MsgsConcat DEF MemoryOK, TakenOK, Pending
<1>3. m \in me.taken
  BY <1>2 DEF MemoryOK, OldestTaken
<1>4. m \in Pending(me)
  BY <1>3 DEF MemoryOK, Accounted
<1>5. m \notin me.todo
  BY DEF MemoryOK, Arranged, Earlier
<1>6. m \notin Msgs(me.rest)
  <2>1. \A k \in Msgs(me.rest) : n < k
    BY <1>1, OrderInParts DEF MemoryOK, Arranged
  <2>2. m < n /\ m \in Nat /\ n \in Nat
    BY <1>2, PayloadsAssumption DEF Earlier
  <2>3. QED
    BY <2>1, <2>2
<1>7. QED
  BY <1>4, <1>5, <1>6 DEF Pending

\* A process that has ended, or has not begun, promises nothing.
LEMMA NoProcessOK ==
  ASSUME NEW storage, NEW unwritten, NEW h
  PROVE  MemoryOK(storage, unwritten, h, NoProcess)
<1>1. /\ NoProcess.pc = "idle" /\ NoProcess.tx = "none"
      /\ NoProcess.taken = {} /\ NoProcess.todo = {}
      /\ NoProcess.batch = <<>> /\ NoProcess.rest = <<>>
      /\ \A m \in Payloads : NoProcess.box[m].status = "absent"
  BY DEF NoProcess, Absent
<1>2. Msgs(<<>>) = {} /\ <<>> \o <<>> = <<>>
  BY DEF Msgs
<1>3. Pending(NoProcess) = {}
  BY <1>1, <1>2 DEF Pending
<1>4. InOrderOfQueueing(<<>>)
  BY DEF InOrderOfQueueing
<1>5. BoxOK(storage, unwritten, h, NoProcess.box)
  BY <1>1 DEF BoxOK
<1>6. /\ TakenOK(unwritten, h, NoProcess) /\ Accounted(NoProcess)
      /\ OldestTaken(NoProcess) /\ SendsOne(NoProcess) /\ LandedOK(storage, NoProcess)
  BY <1>1, <1>3 DEF TakenOK, Accounted, OldestTaken, SendsOne, LandedOK
<1>7. Arranged(NoProcess)
  BY <1>1, <1>2, <1>4 DEF Arranged
<1>8. QED
  BY <1>5, <1>6, <1>7 DEF MemoryOK

\* A process goes on with the same messages in the same order, whatever indices
\* they are sealed at and wherever the cut is.
LEMMA MemoryStays ==
  ASSUME NEW storage, NEW unwritten, NEW h,
         NEW me, MemoryOK(storage, unwritten, h, me),
         NEW next,
         me.pc \in {"submit", "await", "reseal"}, next.pc \in {"submit", "await", "reseal"},
         next.cmd = me.cmd, next.taken = me.taken, next.todo = me.todo, next.lane = me.lane,
         Msgs(next.batch) \cup Msgs(next.rest) = Msgs(me.batch) \cup Msgs(me.rest),
         InOrderOfQueueing(next.batch \o next.rest),
         BoxOK(storage, unwritten, h, next.box),
         \A m \in Payloads : next.box[m].status = "queued" => me.box[m].status = "queued",
         \A m \in Payloads : next.box[m].status = "confirmed" => me.box[m].status = "confirmed",
         \A m \in Payloads \ Msgs(me.batch) : next.box[m] = me.box[m],
         me.taken \subseteq Payloads,
         me.cmd = "send" => next.rest = me.rest /\ next.box = me.box,
         LandedOK(storage, next)
  PROVE  MemoryOK(storage, unwritten, h, next)
<1>1. Pending(next) = Pending(me)
  BY DEF Pending
<1>2. TakenOK(unwritten, h, next)
  BY <1>1 DEF MemoryOK, TakenOK
<1>3. Accounted(next)
  <2> SUFFICES ASSUME NEW m \in me.taken, m \notin Pending(me)
               PROVE  next.box[m].status = "confirmed"
    BY <1>1 DEF Accounted
  <2>1. me.box[m].status = "confirmed"
    BY DEF MemoryOK, Accounted
  <2>2. m \in Payloads \ Msgs(me.batch)
    BY DEF Pending
  <2>3. QED
    BY <2>1, <2>2
<1>4. Arranged(next)
  BY DEF MemoryOK, Arranged
<1>5. OldestTaken(next)
  BY <1>1 DEF MemoryOK, OldestTaken
<1>6. SendsOne(next)
  BY DEF MemoryOK, SendsOne
<1>7. QED
  BY <1>2, <1>3, <1>4, <1>5, <1>6 DEF MemoryOK

\* The top of the loop: a batch in order, with everything of its lane that was
\* taken and not confirmed.
LEMMA NextTransactionOK ==
  ASSUME NEW storage, NEW unwritten, NEW h, NEW me \in Memory, NEW batch \in Seq(Item),
         BoxOK(storage, unwritten, h, me.box),
         InOrderOfQueueing(batch),
         \A m \in Msgs(batch) : LaneOf[m] = me.lane,
         \A m \in me.todo : LaneOf[m] # me.lane,
         me.todo \cup Msgs(batch) \subseteq me.taken,
         \A m \in me.taken : m \notin unwritten /\ MsgHome[m] = h,
         \A m \in me.taken : m \in me.todo \cup Msgs(batch) \/ me.box[m].status = "confirmed",
         \A m, n \in Payloads : Earlier(m, n) =>
           /\ m \in me.todo \cup Msgs(batch) => me.box[n].status # "confirmed"
           /\ n \in me.taken /\ me.box[m].status = "queued" => m \in me.taken,
         me.cmd = "send" => /\ me.todo = {}
                            /\ \E m \in Payloads : me.taken = {m}
                            /\ \A m \in Payloads : me.box[m].status = "absent"
  PROVE  MemoryOK(storage, unwritten, h, NextTransaction(me, batch, <<>>))
<1> DEFINE box == IF PoolMode /\ me.cmd = "flush" THEN Mark(me.box, batch, "proving") ELSE me.box
           next == [me EXCEPT !.pc = "submit", !.batch = batch, !.rest = <<>>, !.attempt = 1,
                              !.tx = "none", !.box = box]
<1>1. NextTransaction(me, batch, <<>>) = next
  BY DEF NextTransaction
<1>2. /\ next.pc = "submit" /\ next.tx = "none" /\ next.lane = me.lane /\ next.box = box
      /\ next.batch = batch /\ next.rest = <<>> /\ next.cmd = me.cmd
      /\ next.taken = me.taken /\ next.todo = me.todo
  BY DEF Memory
<1>3. /\ me.box \in [Payloads -> Entry] /\ me.taken \subseteq Payloads
      /\ me.cmd \in {"flush", "send"}
  BY DEF Memory
<1>4. Msgs(<<>>) = {} /\ batch \o <<>> = batch
  BY ConcatEmptySeq DEF Msgs
<1>5. \A m \in Payloads, n \in Msgs(batch) :
        Earlier(m, n) /\ me.box[m].status = "queued" => m \in Msgs(batch)
  <2> SUFFICES ASSUME NEW m \in Payloads, NEW n \in Msgs(batch), Earlier(m, n),
                      me.box[m].status = "queued"
               PROVE  m \in Msgs(batch)
    OBVIOUS
  <2>1. n \in me.taken /\ n \in Payloads
    BY <1>3
  <2>2. m \in me.taken
    BY <2>1
  <2>3. LaneOf[m] = me.lane
    BY DEF Earlier
  <2>4. QED
    BY <2>2, <2>3
<1>6. BoxOK(storage, unwritten, h, box)
  <2>1. \A m \in Msgs(batch) : m \notin unwritten /\ MsgHome[m] = h
    OBVIOUS
  <2>2. BoxOK(storage, unwritten, h, Mark(me.box, batch, "proving"))
    BY <1>3, <1>5, <2>1, MarkKeeps
  <2>3. QED
    BY <2>2
<1>7. /\ \A m \in Payloads : box[m].status = "queued" => me.box[m].status = "queued"
      /\ \A m \in Payloads : box[m].status = "confirmed" => me.box[m].status = "confirmed"
      /\ \A m \in Payloads \ Msgs(batch) : box[m] = me.box[m]
      /\ me.cmd = "send" => box = me.box
  BY DEF Mark
<1> HIDE DEF box, next
<1>8. Pending(next) = me.todo \cup Msgs(batch)
  BY <1>2, <1>4 DEF Pending
<1>9. TakenOK(unwritten, h, next)
  BY <1>2, <1>8 DEF TakenOK
<1>10. Accounted(next)
  BY <1>2, <1>3, <1>7, <1>8 DEF Accounted
<1>11. Arranged(next)
  BY <1>2, <1>4 DEF Arranged
<1>12. OldestTaken(next)
  BY <1>2, <1>7, <1>8 DEF OldestTaken
<1>13. SendsOne(next) /\ LandedOK(storage, next)
  BY <1>2, <1>7 DEF SendsOne, LandedOK
<1>14. QED
  BY <1>1, <1>2, <1>6, <1>9, <1>10, <1>11, <1>12, <1>13 DEF MemoryOK

-----------------------------------------------------------------------------
(* One step of each action: what the outboxes say stays true.              *)

LEMMA GrowsSame == UNCHANGED slot => Grows(slot, slot')
BY DEF Grows, Holds

\* One process goes on; the other processes, and the homes that it does not
\* write to, are not disturbed.
LEMMA DeliveryStep ==
  ASSUME DInv, ProcOK, Grows(slot, slot'), fresh' \subseteq fresh, FreshIsSuffix(fresh'),
         NEW p \in Procs, NEW me, Becomes(p, me), MemoryOK(slot', fresh', HomeOf[p], me),
         \A h \in Homes : BoxOK(slot', fresh', h, outbox'[h]),
         \A t \in lost' : InOrderOfQueueing(t.batch)
  PROVE  DInv'
<1>1. ASSUME NEW q \in Procs
      PROVE  MemoryOK(slot', fresh', HomeOf[q], proc'[q])
  <2>1. CASE q = p
    BY <2>1 DEF Becomes, ProcOK
  <2>2. CASE q # p
    <3>1. proc'[q] = proc[q]
      BY <2>2 DEF Becomes, ProcOK
    <3>2. MemoryOK(slot, fresh, HomeOf[q], proc[q])
      BY DEF DInv
    <3>3. QED
      BY <3>1, <3>2, MemoryKept
  <2>3. QED
    BY <2>1, <2>2
<1>2. QED
  BY <1>1 DEF DInv

LEMMA BoxesKept ==
  ASSUME DInv, Grows(slot, slot'), fresh' \subseteq fresh
  PROVE  \A h \in Homes : BoxOK(slot', fresh', h, outbox[h])
BY BoxKept DEF DInv

\* A mark saves a true outbox over the one of the process's home.
LEMMA BoxesSaved ==
  ASSUME DInv, OutboxOK, Grows(slot, slot'), fresh' \subseteq fresh, NEW p \in Procs, NEW box,
         SaveOutbox(p, box), BoxOK(slot', fresh', HomeOf[p], box)
  PROVE  \A h \in Homes : BoxOK(slot', fresh', h, outbox'[h])
<1>1. \A h \in Homes : BoxOK(slot', fresh', h, outbox[h])
  BY BoxesKept
<1>2. HomeOf[p] \in Homes
  BY TopologyAssumption
<1>3. CASE outbox' = outbox
  BY <1>1, <1>3
<1>4. CASE outbox' = [outbox EXCEPT ![HomeOf[p]] = box]
  BY <1>1, <1>2, <1>4 DEF OutboxOK
<1>5. QED
  BY <1>3, <1>4 DEF SaveOutbox

\* What is given up was in order.
LEMMA LostInOrder ==
  ASSUME IInv, DInv, NEW p \in Procs, Abandon(p) \/ UNCHANGED lost
  PROVE  \A t \in lost' : InOrderOfQueueing(t.batch)
<1>1. proc[p].batch \in Seq(Item) /\ proc[p].rest \in Seq(Item)
  BY Parts, Batch
<1>2. InOrderOfQueueing(proc[p].batch)
  BY <1>1, OrderInParts DEF DInv, MemoryOK, Arranged
<1>3. TheTx(proc[p]).batch = proc[p].batch
  BY DEF TheTx
<1>4. QED
  BY <1>2, <1>3 DEF Abandon, DInv

\* Messages are written in order, so what is unwritten stays a suffix.
LEMMA FreshShrinks ==
  ASSUME FreshIsSuffix(fresh), fresh \subseteq Payloads, NEW h, NEW m \in Written(h)
  PROVE  m \in fresh /\ MsgHome[m] = h /\ FreshIsSuffix(fresh \ {m})
<1>1. /\ m \in fresh /\ MsgHome[m] = h
      /\ \A n \in fresh : MsgHome[n] = h => m <= n
  BY DEF Written, Oldest
<1>2. ASSUME NEW k \in fresh \ {m}, NEW n \in Payloads, k < n, MsgHome[k] = MsgHome[n]
      PROVE  n \in fresh \ {m}
  <2>1. n \in fresh
    BY <1>2 DEF FreshIsSuffix
  <2>2. n # m
    BY <1>1, <1>2, PayloadsAssumption
  <2>3. QED
    BY <2>1, <2>2
<1>3. QED
  BY <1>1, <1>2 DEF FreshIsSuffix

LEMMA QueueDelivers ==
  ASSUME IInv, DInv, NEW m \in Payloads, Queue(m)
  PROVE  DInv'
<1> DEFINE home == MsgHome[m]
           box == [outbox[home] EXCEPT ![m] = Queued]
<1>1. /\ m \in Written(home) /\ fresh' = fresh \ {m}
      /\ outbox' = [outbox EXCEPT ![home][m] = Queued]
      /\ UNCHANGED <<slot, cursor, proc, lost, doubt, runs>>
  BY DEF Queue
<1>2. home \in Homes /\ fresh \subseteq Payloads /\ outbox[home] \in [Payloads -> Entry]
  BY Parts, TopologyAssumption DEF CountsOK, OutboxOK
<1>3. m \in fresh /\ FreshIsSuffix(fresh')
  BY <1>1, <1>2, FreshShrinks DEF DInv
<1>4. Grows(slot, slot') /\ fresh' \subseteq fresh
  BY <1>1, GrowsSame
<1>5. BoxOK(slot', fresh', home, outbox[home])
  BY <1>2, <1>4, BoxesKept
<1>6. BoxOK(slot', fresh', home, box)
  <2>1. box[m].status = "queued" /\ \A n \in Payloads \ {m} : box[n] = outbox[home][n]
    BY <1>2 DEF Queued
  <2> HIDE DEF box
  <2>2. \A n \in Payloads : m < n /\ outbox[home][n].status # "absent" => FALSE
    <3> SUFFICES ASSUME NEW n \in Payloads, m < n, outbox[home][n].status # "absent"
                 PROVE  FALSE
      OBVIOUS
    <3>1. n \notin fresh /\ MsgHome[n] = home
      BY <1>2 DEF DInv, BoxOK
    <3>2. QED
      BY <1>3, <3>1 DEF DInv, FreshIsSuffix
  <2>3. \A n \in Payloads : box[n].status = "confirmed" =>
          Holds(slot', <<LaneOf[n], box[n].index>>, n)
    BY <1>5, <2>1 DEF BoxOK
  <2>4. \A n \in Payloads : box[n].status # "absent" => n \notin fresh' /\ MsgHome[n] = home
    BY <1>1, <1>5, <2>1 DEF BoxOK
  <2>5. ASSUME NEW k \in Payloads, NEW n \in Payloads, Earlier(k, n)
        PROVE  /\ box[n].status \notin {"absent", "queued"} => box[k].status # "queued"
               /\ box[k].status = "confirmed" /\ box[n].status = "confirmed"
                    => box[k].index < box[n].index
    <3>1. CASE k = m
      <4>1. n # m
        BY <2>5, <3>1, PayloadsAssumption DEF Earlier
      <4>2. box[n].status = "absent"
        BY <2>1, <2>2, <2>5, <3>1, <4>1 DEF Earlier
      <4>3. QED
        BY <4>2
    <3>2. CASE n = m
      BY <2>1, <3>2
    <3>3. CASE k # m /\ n # m
      BY <1>5, <2>1, <2>5, <3>3 DEF BoxOK
    <3>4. QED
      BY <3>1, <3>2, <3>3
  <2>6. QED
    BY <2>3, <2>4, <2>5 DEF BoxOK
<1>7. \A h \in Homes : BoxOK(slot', fresh', h, outbox'[h])
  <2>1. ASSUME NEW h \in Homes
        PROVE  BoxOK(slot', fresh', h, outbox'[h])
    <3>1. CASE h = home
      <4>1. outbox'[h] = box
        BY <1>1, <1>2, <3>1, Parts DEF OutboxOK
      <4>2. QED
        BY <1>6, <3>1, <4>1
    <3>2. CASE h # home
      <4>1. outbox'[h] = outbox[h]
        BY <1>1, <1>2, <3>2, Parts DEF OutboxOK
      <4>2. QED
        BY <1>4, <4>1, BoxesKept
    <3>3. QED
      BY <3>1, <3>2
  <2>2. QED
    BY <2>1
<1>8. \A p \in Procs : MemoryOK(slot', fresh', HomeOf[p], proc'[p])
  BY <1>1, <1>4, MemoryKept DEF DInv
<1>9. QED
  BY <1>1, <1>3, <1>7, <1>8 DEF DInv

\* A command starts with nothing sealed, and with all it has taken to do.
LEMMA StartOK ==
  ASSUME NEW storage, NEW unwritten, NEW h,
         NEW cmd, NEW box, NEW cursors, NEW taken,
         BoxOK(storage, unwritten, h, box),
         \A m \in taken : m \notin unwritten /\ MsgHome[m] = h,
         \A m, n \in Payloads : Earlier(m, n) =>
           /\ m \in taken => box[n].status # "confirmed"
           /\ n \in taken /\ box[m].status = "queued" => m \in taken,
         cmd = "send" => /\ \E m \in Payloads : taken = {m}
                         /\ \A m \in Payloads : box[m].status = "absent",
         NEW me, me = [NoProcess EXCEPT !.pc = "seal", !.cmd = cmd, !.box = box,
                                        !.cursors = cursors,
                                        !.taken = taken, !.todo = taken]
  PROVE  MemoryOK(storage, unwritten, h, me)
<1>1. /\ me.pc = "seal" /\ me.tx = "none" /\ me.cmd = cmd /\ me.box = box
      /\ me.taken = taken /\ me.todo = taken /\ me.batch = <<>> /\ me.rest = <<>>
  BY DEF NoProcess
<1>2. Msgs(<<>>) = {} /\ <<>> \o <<>> = <<>>
  BY DEF Msgs
<1>3. Pending(me) = taken
  BY <1>1, <1>2 DEF Pending
<1>4. InOrderOfQueueing(<<>>)
  BY DEF InOrderOfQueueing
<1>5. /\ TakenOK(unwritten, h, me) /\ Accounted(me) /\ SendsOne(me) /\ LandedOK(storage, me)
      /\ OldestTaken(me)
  BY <1>1, <1>3 DEF TakenOK, Accounted, OldestTaken, SendsOne, LandedOK
<1>6. Arranged(me)
  BY <1>1, <1>2, <1>4 DEF Arranged
<1>7. QED
  BY <1>1, <1>5, <1>6 DEF MemoryOK

\* outbox.take returns the oldest of what is queued.
LEMMA TakeProperty ==
  ASSUME NEW box, NEW max \in Nat
  PROVE  /\ \A m \in Take(box, max) : m \in Payloads /\ box[m].status = "queued"
         /\ \A n \in Take(box, max), m \in Payloads :
              m < n /\ box[m].status = "queued" => m \in Take(box, max)
<1> DEFINE queued == {m \in Payloads : box[m].status = "queued"}
<1>1. Take(box, max) = {m \in queued : Cardinality({n \in queued : n < m}) < max}
  BY DEF Take
<1>2. IsFiniteSet(queued) /\ queued \subseteq Nat
  BY FS_Subset, PayloadsAssumption
<1>3. ASSUME NEW n \in Take(box, max), NEW m \in queued, m < n
      PROVE  m \in Take(box, max)
  <2> HIDE DEF queued
  <2> DEFINE before(x) == {k \in queued : k < x}
  <2>1. n \in Nat /\ m \in Nat /\ Cardinality(before(n)) < max
    BY <1>1, <1>2
  <2>2. ASSUME NEW k \in before(m)
        PROVE  k \in before(n)
    <3>1. k \in queued /\ k \in Nat /\ k < m
      BY <1>2
    <3>2. k < n
      BY <1>3, <2>1, <3>1
    <3>3. QED
      BY <3>1, <3>2
  <2>3. IsFiniteSet(before(n))
    BY <1>2, FS_Subset
  <2> HIDE DEF before
  <2>4. /\ Cardinality(before(m)) \in Nat /\ Cardinality(before(n)) \in Nat
        /\ Cardinality(before(m)) <= Cardinality(before(n))
    BY <2>2, <2>3, FS_Subset, FS_CardinalityType
  <2>5. Cardinality(before(m)) < max
    BY <2>1, <2>4
  <2>6. QED
    BY <1>1, <2>5 DEF before
<1>4. QED
  BY <1>1, <1>3

LEMMA StartDelivers ==
  ASSUME IInv, DInv, NEW p \in Procs, StartFlush(p) \/ StartSend(p)
  PROVE  DInv'
<1> DEFINE h == HomeOf[p]
           box == outbox[h]
<1>1. /\ h \in Homes /\ fresh \subseteq Payloads /\ box \in [Payloads -> Entry]
      /\ BoxOK(slot, fresh, h, box)
  BY Parts, TopologyAssumption DEF CountsOK, OutboxOK, DInv
<1>2. UNCHANGED <<slot, outbox, lost>> /\ Grows(slot, slot')
  <2>1. UNCHANGED <<slot, outbox, lost>>
    BY Zenon DEF StartFlush, StartSend
  <2>2. QED
    BY <2>1, GrowsSame
<1>3. fresh' \subseteq fresh /\ FreshIsSuffix(fresh') /\ \E me : Becomes(p, me) /\ MemoryOK(slot', fresh', h, me)
  <2>1. CASE StartFlush(p)
    <3>1. PICK max \in Caps :
            Becomes(p, [NoProcess EXCEPT !.pc = "seal", !.cmd = "flush", !.box = box,
                                         !.cursors = cursor[h],
                                         !.taken = Take(box, max), !.todo = Take(box, max)])
      BY <2>1, Zenon DEF StartFlush
    <3> DEFINE taken == Take(box, max)
               me == [NoProcess EXCEPT !.pc = "seal", !.cmd = "flush", !.box = box,
                                       !.cursors = cursor[h], !.taken = taken, !.todo = taken]
    <3>2. /\ \A m \in taken : m \in Payloads /\ box[m].status = "queued"
          /\ \A n \in taken, m \in Payloads : m < n /\ box[m].status = "queued" => m \in taken
      BY <3>1, TakeProperty, LimitsAssumption
    <3> HIDE DEF taken
    <3>3. \A m \in taken : m \notin fresh /\ MsgHome[m] = h
      BY <1>1, <3>2 DEF BoxOK
    <3>4. \A m, n \in Payloads : Earlier(m, n) =>
            /\ m \in taken => box[n].status # "confirmed"
            /\ n \in taken /\ box[m].status = "queued" => m \in taken
      <4> SUFFICES ASSUME NEW m \in Payloads, NEW n \in Payloads, Earlier(m, n)
                   PROVE  /\ m \in taken => box[n].status # "confirmed"
                          /\ n \in taken /\ box[m].status = "queued" => m \in taken
        OBVIOUS
      <4>1. m \in taken => box[n].status # "confirmed"
        BY <1>1, <3>2 DEF BoxOK
      <4>2. n \in taken /\ box[m].status = "queued" => m \in taken
        BY <3>2 DEF Earlier
      <4>3. QED
        BY <4>1, <4>2
    <3> HIDE DEF box, h
    <3>5. MemoryOK(slot, fresh, h, me)
      BY <1>1, <3>3, <3>4, StartOK, Zenon
    <3>6. fresh' = fresh /\ FreshIsSuffix(fresh')
      BY <2>1, Zenon DEF StartFlush, DInv
    <3>7. MemoryOK(slot', fresh', h, me)
      BY <1>2, <3>5, <3>6
    <3>8. QED
      BY <3>1, <3>6, <3>7 DEF taken
  <2>2. CASE StartSend(p)
    <3>1. PICK m \in Written(h) :
            /\ Becomes(p, [NoProcess EXCEPT !.pc = "seal", !.cmd = "send",
                                            !.cursors = cursor[h],
                                            !.taken = {m}, !.todo = {m}])
            /\ fresh' = fresh \ {m}
      BY <2>2, Zenon DEF StartSend
    <3> DEFINE me == [NoProcess EXCEPT !.pc = "seal", !.cmd = "send", !.box = NoProcess.box,
                                       !.cursors = cursor[h], !.taken = {m}, !.todo = {m}]
    <3>2. me = [NoProcess EXCEPT !.pc = "seal", !.cmd = "send", !.cursors = cursor[h],
                                 !.taken = {m}, !.todo = {m}]
      <4>1. ASSUME NEW cursors, NEW taken
            PROVE  [NoProcess EXCEPT !.pc = "seal", !.cmd = "send", !.box = NoProcess.box,
                                     !.cursors = cursors, !.taken = taken, !.todo = taken]
                   = [NoProcess EXCEPT !.pc = "seal", !.cmd = "send",
                                       !.cursors = cursors, !.taken = taken, !.todo = taken]
        BY NoProcessCovered DEF Memory
      <4>2. QED
        BY <4>1, Zenon
    <3>3. m \in fresh /\ MsgHome[m] = h /\ FreshIsSuffix(fresh') /\ m \in Payloads
      BY <1>1, <3>1, FreshShrinks DEF DInv
    <3>4. \A k \in Payloads : NoProcess.box[k].status = "absent"
      BY DEF NoProcess, Absent
    <3>5. BoxOK(slot', fresh', h, NoProcess.box)
      BY <3>4 DEF BoxOK
    <3>6. MemoryOK(slot', fresh', h, me)
      BY <3>1, <3>3, <3>4, <3>5, StartOK, Zenon
    <3>7. QED
      BY <3>1, <3>2, <3>3, <3>6
  <2>3. QED
    BY <2>1, <2>2
<1>4. \A k \in Homes : BoxOK(slot', fresh', k, outbox'[k])
  BY <1>2, <1>3, BoxesKept
<1>5. \A t \in lost' : InOrderOfQueueing(t.batch)
  BY <1>2 DEF DInv
<1>6. QED
  BY <1>2, <1>3, <1>4, <1>5, Parts, DeliveryStep

\* A lane is sealed whole: every message to it that was taken, in order.
LEMMA SealLaneDelivers ==
  ASSUME IInv, DInv, NEW p \in Procs, SealLane(p)
  PROVE  DInv'
<1> DEFINE me == proc[p]
<1>1. PICK first \in Oldest(me.todo) :
        LET lane == LaneOf[first]
            entries == {m \in me.todo : LaneOf[m] = lane}
        IN  \E msgs \in OldestFirst(entries), start \in NextFree(lane, me.cursors[lane]) :
              LET next == NextTransaction([me EXCEPT !.lane = lane, !.todo = @ \ entries],
                                          Sealed(msgs, start), <<>>)
              IN  /\ Becomes(p, next)
                  /\ IF PoolMode THEN SaveOutbox(p, next.box) ELSE UNCHANGED outbox
  BY DEF SealLane
<1> DEFINE lane == LaneOf[first]
           entries == {m \in me.todo : LaneOf[m] = lane}
           turned == [me EXCEPT !.lane = lane, !.todo = @ \ entries]
<1>2. PICK msgs \in OldestFirst(entries), start \in NextFree(lane, me.cursors[lane]) :
        /\ Becomes(p, NextTransaction(turned, Sealed(msgs, start), <<>>))
        /\ IF PoolMode THEN SaveOutbox(p, NextTransaction(turned, Sealed(msgs, start), <<>>).box)
                       ELSE UNCHANGED outbox
  BY <1>1
<1> DEFINE batch == Sealed(msgs, start)
           next == NextTransaction(turned, batch, <<>>)
<1>3. /\ me \in Memory /\ MemoryCovered(DOMAIN slot, me) /\ me.pc = "seal"
      /\ MemoryOK(slot, fresh, HomeOf[p], me)
      /\ UNCHANGED <<slot, cursor, fresh, lost, doubt, runs>>
  BY Parts DEF ProcOK, DInv, SealLane
<1>4. first \in me.todo /\ me.todo \subseteq Payloads /\ me.cursors \in [Lanes -> Nat]
  BY <1>3 DEF Oldest, Memory
<1>5. lane \in Lanes
  BY <1>4, TopologyAssumption
<1>6. entries \in SUBSET Payloads /\ entries # {} /\ entries \subseteq me.todo
  BY <1>4
<1> HIDE DEF entries
<1>7. /\ msgs \in Seq(Payloads)
      /\ \A k \in DOMAIN msgs : msgs[k] \in entries
      /\ \A i, j \in DOMAIN msgs : i < j => msgs[i] < msgs[j]
      /\ \A m \in entries : \E k \in DOMAIN msgs : msgs[k] = m
  BY <1>6, PayloadsAssumption, OldestFirstProperty, OldestFirstComplete
<1>8. start \in Nat
  BY <1>4, <1>5, Parts, WalkProperty DEF ChainOK
<1>9. /\ batch \in Seq(Item) /\ DOMAIN batch = DOMAIN msgs
      /\ \A k \in DOMAIN msgs : batch[k].msg = msgs[k]
  <2>1. \A k \in 1..Len(msgs) : [msg |-> msgs[k], index |-> start + k - 1] \in Item
    BY <1>7, <1>8 DEF Item
  <2>2. batch = [k \in 1..Len(msgs) |-> [msg |-> msgs[k], index |-> start + k - 1]]
    BY <1>7 DEF Sealed
  <2>3. batch \in Seq(Item)
    BY <1>7, <2>1, <2>2
  <2>4. QED
    BY <1>7, <2>2, <2>3
<1> HIDE DEF batch
<1>10. Msgs(batch) = entries /\ InOrderOfQueueing(batch)
  <2>1. Msgs(batch) = entries
    BY <1>7, <1>9 DEF Msgs
  <2>2. InOrderOfQueueing(batch)
    BY <1>7, <1>9 DEF InOrderOfQueueing
  <2>3. QED
    BY <2>1, <2>2
<1>11. /\ turned \in Memory /\ turned.lane = lane /\ turned.todo = me.todo \ entries
       /\ turned.box = me.box /\ turned.cmd = me.cmd /\ turned.taken = me.taken
  <2>1. me.todo \ entries \in SUBSET Payloads
    BY <1>4
  <2>2. turned \in Memory
    BY <1>3, <1>5, <2>1, Zenon DEF Memory
  <2>3. QED
    BY <1>3, <2>2 DEF Memory
<1> HIDE DEF turned, lane
<1>12. me.batch = <<>> /\ me.rest = <<>> /\ Pending(me) = me.todo
  <2>1. me.batch = <<>> /\ me.rest = <<>>
    BY <1>3 DEF MemoryCovered
  <2>2. Msgs(<<>>) = {}
    BY DEF Msgs
  <2>3. QED
    BY <2>1, <2>2 DEF Pending
<1>13. turned.todo \cup Msgs(batch) = me.todo
  BY <1>6, <1>10, <1>11
<1>14. MemoryOK(slot, fresh, HomeOf[p], next)
  <2>1. BoxOK(slot, fresh, HomeOf[p], turned.box)
    BY <1>3, <1>11 DEF MemoryOK
  <2>2. (\A m \in Msgs(batch) : LaneOf[m] = turned.lane) /\ (\A m \in turned.todo : LaneOf[m] # turned.lane)
    BY <1>10, <1>11 DEF entries
  <2>3. /\ turned.todo \cup Msgs(batch) \subseteq turned.taken
        /\ \A m \in turned.taken : m \notin fresh /\ MsgHome[m] = HomeOf[p]
    BY <1>3, <1>11, <1>12, <1>13 DEF MemoryOK, TakenOK
  <2>4. \A m \in turned.taken : m \in turned.todo \cup Msgs(batch) \/ turned.box[m].status = "confirmed"
    BY <1>3, <1>11, <1>12, <1>13 DEF MemoryOK, Accounted
  <2>5. \A m, n \in Payloads : Earlier(m, n) =>
          /\ m \in turned.todo \cup Msgs(batch) => turned.box[n].status # "confirmed"
          /\ n \in turned.taken /\ turned.box[m].status = "queued" => m \in turned.taken
    BY <1>3, <1>11, <1>12, <1>13 DEF MemoryOK, OldestTaken
  <2>6. turned.cmd = "send" => /\ turned.todo = {}
                               /\ \E m \in Payloads : turned.taken = {m}
                               /\ \A m \in Payloads : turned.box[m].status = "absent"
    <3> SUFFICES ASSUME me.cmd = "send"
                 PROVE  /\ turned.todo = {}
                        /\ \E m \in Payloads : turned.taken = {m}
                        /\ \A m \in Payloads : turned.box[m].status = "absent"
      BY <1>11
    <3>1. PICK m \in Payloads : me.taken = {m}
      BY <1>3 DEF MemoryOK, SendsOne
    <3>2. me.todo \subseteq {m}
      BY <1>3, <1>12, <3>1 DEF MemoryOK, TakenOK
    <3>3. entries = me.todo
      BY <1>6, <3>2
    <3>4. QED
      BY <1>3, <1>11, <3>1, <3>3 DEF MemoryOK, SendsOne
  <2> HIDE DEF me
  <2>7. QED
    BY <1>9, <1>10, <1>11, <2>1, <2>2, <2>3, <2>4, <2>5, <2>6, NextTransactionOK
<1> HIDE DEF next
<1>15. Grows(slot, slot') /\ fresh' \subseteq fresh /\ FreshIsSuffix(fresh')
  BY <1>3, GrowsSame DEF DInv
<1>16. MemoryOK(slot', fresh', HomeOf[p], next)
  BY <1>14, <1>15, MemoryKept
<1>17. \A h \in Homes : BoxOK(slot', fresh', h, outbox'[h])
  <2>1. CASE PoolMode
    <3>1. SaveOutbox(p, next.box)
      BY <1>2, <2>1 DEF next, batch
    <3>2. BoxOK(slot', fresh', HomeOf[p], next.box)
      BY <1>16 DEF MemoryOK
    <3>3. QED
      BY <1>15, <3>1, <3>2, Parts, BoxesSaved
  <2>2. CASE ~ PoolMode
    BY <1>2, <1>15, <2>2, BoxesKept
  <2>3. QED
    BY <2>1, <2>2
<1>18. Becomes(p, next) /\ \A t \in lost' : InOrderOfQueueing(t.batch)
  BY <1>2, <1>3 DEF next, batch, DInv
<1>19. QED
  BY <1>15, <1>16, <1>17, <1>18, Parts, DeliveryStep

\* A running process: what its parts say, for the steps below.
LEMMA Running ==
  ASSUME IInv, DInv, NEW p \in Procs, proc[p].pc \in {"submit", "await", "reseal"}
  PROVE  LET me == proc[p]
         IN  /\ me \in Memory /\ MemoryCovered(DOMAIN slot, me)
             /\ MemoryOK(slot, fresh, HomeOf[p], me)
             /\ me.box \in [Payloads -> Entry] /\ me.taken \subseteq Payloads
             /\ me.lane \in Lanes
             /\ me.batch \in Seq(Item) /\ me.rest \in Seq(Item) /\ me.batch # <<>>
             /\ Msgs(me.batch) \subseteq Payloads /\ Msgs(me.rest) \subseteq Payloads
             /\ InOrderOfQueueing(me.batch \o me.rest)
             /\ \A m \in Msgs(me.batch) : m \notin fresh /\ MsgHome[m] = HomeOf[p]
<1>1. /\ proc[p] \in Memory /\ MemoryCovered(DOMAIN slot, proc[p])
      /\ MemoryOK(slot, fresh, HomeOf[p], proc[p])
  BY Parts DEF ProcOK, DInv
<1>2. /\ proc[p].box \in [Payloads -> Entry] /\ proc[p].taken \subseteq Payloads
      /\ proc[p].lane \in Lanes
      /\ proc[p].batch \in Seq(Item) /\ proc[p].rest \in Seq(Item)
  BY <1>1 DEF Memory
<1>3. proc[p].batch # <<>>
  BY <1>1 DEF MemoryCovered
<1>4. Msgs(proc[p].batch) \subseteq Payloads /\ Msgs(proc[p].rest) \subseteq Payloads
  BY <1>2, MsgsConcat
<1>5. InOrderOfQueueing(proc[p].batch \o proc[p].rest)
  BY <1>1 DEF MemoryOK, Arranged
<1>6. \A m \in Msgs(proc[p].batch) : m \notin fresh /\ MsgHome[m] = HomeOf[p]
  BY <1>1 DEF MemoryOK, TakenOK, Pending
<1>7. QED
  BY <1>1, <1>2, <1>3, <1>4, <1>5, <1>6

\* A batch is marked and goes out, with the older messages of its lane.
LEMMA BroadcastDelivers ==
  ASSUME IInv, DInv, NEW p \in Procs, Broadcast(p)
  PROVE  DInv'
<1> DEFINE me == proc[p]
           box == IF me.cmd = "flush" THEN Mark(me.box, me.batch, "submitted") ELSE me.box
           next == [me EXCEPT !.pc = "await", !.tx = "pending", !.box = box]
<1>1. /\ me.pc = "submit" /\ Becomes(p, next) /\ SaveOutbox(p, box)
      /\ UNCHANGED <<slot, cursor, fresh, lost, doubt, runs>>
  BY DEF Broadcast
<1>2. /\ me \in Memory /\ MemoryOK(slot, fresh, HomeOf[p], me)
      /\ me.box \in [Payloads -> Entry] /\ me.taken \subseteq Payloads
      /\ Msgs(me.batch) \subseteq Payloads
      /\ InOrderOfQueueing(me.batch \o me.rest)
      /\ \A m \in Msgs(me.batch) : m \notin fresh /\ MsgHome[m] = HomeOf[p]
  BY <1>1, Running
<1>3. BoxOK(slot, fresh, HomeOf[p], box)
  <2>1. BoxOK(slot, fresh, HomeOf[p], me.box)
    BY <1>2 DEF MemoryOK
  <2>2. \A m \in Payloads, n \in Msgs(me.batch) :
          Earlier(m, n) /\ me.box[m].status = "queued" => m \in Msgs(me.batch)
    BY <1>1, <1>2, NoneLeftBehind
  <2> HIDE DEF me
  <2>3. BoxOK(slot, fresh, HomeOf[p], Mark(me.box, me.batch, "submitted"))
    BY <1>2, <2>1, <2>2, MarkKeeps
  <2>4. QED
    BY <2>1, <2>3
<1>4. /\ \A m \in Payloads : box[m].status = "queued" => me.box[m].status = "queued"
      /\ \A m \in Payloads : box[m].status = "confirmed" => me.box[m].status = "confirmed"
      /\ \A m \in Payloads \ Msgs(me.batch) : box[m] = me.box[m]
      /\ me.cmd = "send" => box = me.box
  BY <1>2 DEF Mark
<1>5. /\ next.pc = "await" /\ next.tx = "pending" /\ next.box = box /\ next.cmd = me.cmd
      /\ next.taken = me.taken /\ next.todo = me.todo /\ next.lane = me.lane
      /\ next.batch = me.batch /\ next.rest = me.rest
  BY <1>2 DEF Memory
<1> HIDE DEF box, next
<1>6. LandedOK(slot, next)
  BY <1>5 DEF LandedOK
<1>7. MemoryOK(slot, fresh, HomeOf[p], next)
  <2> HIDE DEF me
  <2>1. QED
    BY <1>1, <1>2, <1>3, <1>4, <1>5, <1>6, MemoryStays
<1>8. Grows(slot, slot') /\ fresh' \subseteq fresh /\ FreshIsSuffix(fresh')
  BY <1>1, GrowsSame DEF DInv
<1>9. MemoryOK(slot', fresh', HomeOf[p], next) /\ BoxOK(slot', fresh', HomeOf[p], box)
  BY <1>3, <1>7, <1>8, MemoryKept, BoxKept
<1>10. \A h \in Homes : BoxOK(slot', fresh', h, outbox'[h])
  BY <1>1, <1>8, <1>9, Parts, BoxesSaved
<1>11. \A t \in lost' : InOrderOfQueueing(t.batch)
  BY <1>1 DEF DInv
<1>12. QED
  BY <1>1, <1>8, <1>9, <1>10, <1>11, Parts, DeliveryStep

\* A landing stores: it replaces nothing.
LEMMA InvokeGrows ==
  ASSUME NEW lane \in Lanes, NEW items \in Seq(Item), PrivacyInvoke(Pool, Calldata(lane, items))
  PROVE  Grows(slot, slot')
<1>1. CASE Accepts(Pool, Calldata(lane, items))
  <2>1. /\ DOMAIN slot \subseteq DOMAIN slot'
        /\ \A id \in DOMAIN slot : slot'[id] = slot[id]
    BY <1>1, StoreProperty DEF PrivacyInvoke
  <2>2. QED
    BY <2>1 DEF Grows, Holds
<1>2. CASE ~ Accepts(Pool, Calldata(lane, items))
  BY <1>2, GrowsSame DEF PrivacyInvoke
<1>3. QED
  BY <1>1, <1>2

\* A batch that lands lies behind all that its outbox says is confirmed.
LEMMA IncludeDelivers ==
  ASSUME IInv, DInv, NEW p \in Procs, Include(p)
  PROVE  DInv'
<1> DEFINE me == proc[p]
           items == Calldata(me.lane, me.batch)
           next == [me EXCEPT !.tx = IF Accepts(Pool, items) THEN "landed" ELSE "reverted"]
<1>1. /\ me.pc = "await" /\ PrivacyInvoke(Pool, items) /\ Becomes(p, next)
      /\ UNCHANGED <<outbox, cursor, fresh, lost, doubt, runs>>
  BY DEF Include, Call, TheTx
<1>2. /\ me \in Memory /\ MemoryOK(slot, fresh, HomeOf[p], me) /\ me.taken \subseteq Payloads
      /\ me.lane \in Lanes /\ me.batch \in Seq(Item)
      /\ me.box \in [Payloads -> Entry]
      /\ InOrderOfQueueing(me.batch \o me.rest)
  BY <1>1, Running
<1>3. /\ next.pc = "await" /\ next.box = me.box /\ next.cmd = me.cmd
      /\ next.taken = me.taken /\ next.todo = me.todo /\ next.lane = me.lane
      /\ next.batch = me.batch /\ next.rest = me.rest
      /\ next.tx = "landed" => Accepts(Pool, items)
  BY <1>1, <1>2 DEF Memory
<1>4. Grows(slot, slot') /\ fresh' \subseteq fresh /\ FreshIsSuffix(fresh')
  BY <1>1, <1>2, InvokeGrows DEF DInv
<1>5. LandedOK(slot', next)
  <2> SUFFICES ASSUME next.tx = "landed"
               PROVE  /\ \A k \in DOMAIN me.batch :
                           Holds(slot', <<me.lane, me.batch[k].index>>, me.batch[k].msg)
                      /\ Ascending(me.batch)
                      /\ \A m \in Payloads, k \in DOMAIN me.batch :
                           me.box[m].status = "confirmed" /\ LaneOf[m] = me.lane
                             => me.box[m].index < me.batch[k].index
    BY <1>3 DEF LandedOK
  <2>1. Accepts(Pool, items) /\ Store(items) /\ Covered(DOMAIN slot, me.lane, me.batch) /\ ChainOK
    BY <1>1, <1>3, Parts, Batch DEF PrivacyInvoke
  <2>2. \A k \in DOMAIN me.batch : <<me.lane, me.batch[k].index>> \in DOMAIN slot'
    BY <1>2, <2>1, LandDense DEF Stored
  <2>3. \A k \in DOMAIN me.batch : slot'[<<me.lane, me.batch[k].index>>] = me.batch[k].msg
    BY <1>2, <2>1, StoredItems
  <2>4. /\ \A k \in DOMAIN me.batch : <<me.lane, me.batch[k].index>> \notin DOMAIN slot
        /\ Ascending(me.batch)
    BY <1>2, <2>1, AcceptedAscends
  <2>5. ASSUME NEW m \in Payloads, NEW k \in DOMAIN me.batch,
               me.box[m].status = "confirmed", LaneOf[m] = me.lane
        PROVE  me.box[m].index < me.batch[k].index
    <3>1. <<me.lane, me.box[m].index>> \in DOMAIN slot
      BY <1>2, <2>5 DEF MemoryOK, BoxOK, Holds
    <3>2. me.box[m].index \in Nat /\ me.batch[k].index \in Nat
      BY <1>2, ItemFacts DEF Entry
    <3>3. QED
      BY <1>2, <2>1, <2>4, <3>1, <3>2, EmptyIsLast
  <2>6. QED
    BY <2>2, <2>3, <2>4, <2>5 DEF Holds
<1> HIDE DEF next
<1>6. MemoryOK(slot', fresh', HomeOf[p], next)
  <2>1. MemoryOK(slot', fresh', HomeOf[p], me)
    BY <1>2, <1>4, MemoryKept
  <2>2. BoxOK(slot', fresh', HomeOf[p], me.box)
    BY <2>1 DEF MemoryOK
  <2> HIDE DEF me
  <2>3. QED
    BY <1>1, <1>2, <1>3, <1>5, <2>1, <2>2, MemoryStays
<1>7. \A h \in Homes : BoxOK(slot', fresh', h, outbox'[h])
  BY <1>1, <1>4, BoxesKept
<1>8. \A t \in lost' : InOrderOfQueueing(t.batch)
  BY <1>1 DEF DInv
<1>9. QED
  BY <1>1, <1>4, <1>6, <1>7, <1>8, Parts, DeliveryStep

\* A process goes on without a landed transaction: a revert, a retry.
LEMMA RetryDelivers ==
  ASSUME IInv, DInv, NEW p \in Procs, proc[p].pc \in {"submit", "await", "reseal"},
         UNCHANGED <<slot, outbox, fresh>>, Abandon(p) \/ UNCHANGED lost,
         NEW batch \in Seq(Item), NEW rest \in Seq(Item),
         Msgs(batch) \cup Msgs(rest) = Msgs(proc[p].batch) \cup Msgs(proc[p].rest),
         InOrderOfQueueing(batch \o rest),
         proc[p].cmd = "send" => rest = proc[p].rest,
         NEW next, Becomes(p, next),
         next.pc \in {"submit", "await", "reseal"}, next.tx # "landed",
         next.cmd = proc[p].cmd, next.taken = proc[p].taken, next.todo = proc[p].todo,
         next.lane = proc[p].lane, next.box = proc[p].box,
         next.batch = batch, next.rest = rest
  PROVE  DInv'
<1> DEFINE me == proc[p]
<1>1. MemoryOK(slot, fresh, HomeOf[p], me) /\ me.taken \subseteq Payloads
  BY Running
<1>2. BoxOK(slot, fresh, HomeOf[p], next.box) /\ LandedOK(slot, next)
  BY <1>1 DEF MemoryOK, LandedOK
<1>3. MemoryOK(slot, fresh, HomeOf[p], next)
  BY <1>1, <1>2, MemoryStays
<1>4. Grows(slot, slot') /\ fresh' \subseteq fresh /\ FreshIsSuffix(fresh')
  BY GrowsSame DEF DInv
<1>5. MemoryOK(slot', fresh', HomeOf[p], next)
  BY <1>3, <1>4, MemoryKept
<1>6. \A h \in Homes : BoxOK(slot', fresh', h, outbox'[h])
  BY <1>4, BoxesKept
<1>7. \A t \in lost' : InOrderOfQueueing(t.batch)
  BY LostInOrder
<1>8. QED
  BY <1>4, <1>5, <1>6, <1>7, Parts, DeliveryStep

LEMMA RevertsOutsideDelivers ==
  ASSUME IInv, DInv, NEW p \in Procs, RevertsOutside(p)
  PROVE  DInv'
<1> DEFINE me == proc[p]
           next == [me EXCEPT !.tx = "reverted"]
<1>1. /\ me.pc = "await" /\ Becomes(p, next)
      /\ UNCHANGED <<slot, outbox, cursor, fresh, lost, doubt, runs>>
  BY DEF RevertsOutside
<1>2. /\ me \in Memory /\ me.batch \in Seq(Item) /\ me.rest \in Seq(Item)
      /\ InOrderOfQueueing(me.batch \o me.rest)
  BY <1>1, Running
<1>3. /\ next.pc = "await" /\ next.box = me.box /\ next.cmd = me.cmd /\ next.tx # "landed"
      /\ next.taken = me.taken /\ next.todo = me.todo /\ next.lane = me.lane
      /\ next.batch = me.batch /\ next.rest = me.rest
  BY <1>1, <1>2 DEF Memory
<1> HIDE DEF next
<1>4. QED
  BY <1>1, <1>2, <1>3, RetryDelivers

\* The process ends, and leaves the outboxes as they are.
LEMMA EndDelivers ==
  ASSUME IInv, DInv, NEW p \in Procs, Becomes(p, NoProcess), UNCHANGED <<slot, fresh>>,
         Abandon(p) \/ UNCHANGED lost,
         \A h \in Homes : BoxOK(slot', fresh', h, outbox'[h])
  PROVE  DInv'
<1>1. Grows(slot, slot') /\ fresh' \subseteq fresh /\ FreshIsSuffix(fresh')
  BY GrowsSame DEF DInv
<1>2. QED
  BY <1>1, NoProcessOK, LostInOrder, Parts, DeliveryStep

LEMMA FailDelivers ==
  ASSUME IInv, DInv, NEW p \in Procs, NEW kind, proc[p].pc \in {"submit", "await"},
         UNCHANGED <<slot, outbox, fresh>>, Abandon(p) \/ UNCHANGED lost, Fail(p, kind)
  PROVE  DInv'
<1> DEFINE me == proc[p]
<1>1. /\ me \in Memory /\ me.batch \in Seq(Item) /\ me.rest \in Seq(Item)
      /\ InOrderOfQueueing(me.batch \o me.rest)
  BY Running
<1>2. CASE GiveUp(p)
  <2>1. \A h \in Homes : BoxOK(slot', fresh', h, outbox'[h])
    BY GrowsSame, BoxesKept
  <2>2. QED
    BY <1>2, <2>1, EndDelivers DEF GiveUp
<1>3. ASSUME NEW pc \in {"submit", "reseal"}, NEW batch \in Seq(Item), NEW rest \in Seq(Item),
             MayRetry(p), batch \o rest = me.batch \o me.rest,
             Retry(p, [me EXCEPT !.pc = pc, !.batch = batch, !.rest = rest])
      PROVE  DInv'
  <2> DEFINE next == [me EXCEPT !.pc = pc, !.batch = batch, !.rest = rest,
                                !.attempt = @ + 1, !.tx = "none"]
  <2>1. Becomes(p, next)
    BY <1>1, <1>3 DEF Retry, Memory
  <2>2. /\ next.pc = pc /\ next.box = me.box /\ next.cmd = me.cmd /\ next.tx = "none"
        /\ next.taken = me.taken /\ next.todo = me.todo /\ next.lane = me.lane
        /\ next.batch = batch /\ next.rest = rest
    BY <1>1 DEF Memory
  <2>3. Msgs(batch) \cup Msgs(rest) = Msgs(me.batch) \cup Msgs(me.rest)
    BY <1>1, <1>3, MsgsConcat
  <2>4. InOrderOfQueueing(batch \o rest) /\ me.cmd # "send"
    BY <1>1, <1>3 DEF MayRetry
  <2> HIDE DEF next
  <2>5. QED
    BY <2>1, <2>2, <2>3, <2>4, RetryDelivers
<1>4. CASE MayRetry(p) /\ Len(me.batch) > 1 /\ Halve(p)
  <2> DEFINE batch == FrontHalf(me.batch)
             rest == BackHalf(me.batch) \o me.rest
  <2>1. batch \in Seq(Item) /\ rest \in Seq(Item) /\ batch \o rest = me.batch \o me.rest
    <3>1. BackHalf(me.batch) \in Seq(Item)
      BY <1>1, <1>4, HalvesProperty
    <3>2. BackHalf(me.batch) \o me.rest \in Seq(Item)
      BY <1>1, <3>1, ConcatProperties
    <3>3. QED
      BY <1>1, <1>4, <3>2, HalvesProperty
  <2>2. Retry(p, [me EXCEPT !.pc = "submit", !.batch = FrontHalf(@), !.rest = BackHalf(me.batch) \o @])
    BY <1>4 DEF Halve
  <2>3. [me EXCEPT !.pc = "submit", !.batch = FrontHalf(@), !.rest = BackHalf(me.batch) \o @]
        = [me EXCEPT !.pc = "submit", !.batch = batch, !.rest = rest]
    BY <1>1 DEF Memory
  <2> HIDE DEF batch, rest
  <2>4. Retry(p, [me EXCEPT !.pc = "submit", !.batch = batch, !.rest = rest])
    BY <2>2, <2>3, Zenon
  <2>5. QED
    BY <1>3, <1>4, <2>1, <2>4
<1>5. CASE MayRetry(p) /\ (Again(p) \/ Retry(p, [me EXCEPT !.pc = "reseal"]))
  <2>1. PICK pc \in {"submit", "reseal"} : Retry(p, [me EXCEPT !.pc = pc])
    BY <1>5 DEF Again
  <2>2. [me EXCEPT !.pc = pc] = [me EXCEPT !.pc = pc, !.batch = me.batch, !.rest = me.rest]
    BY <1>1 DEF Memory
  <2>3. Retry(p, [me EXCEPT !.pc = pc, !.batch = me.batch, !.rest = me.rest])
    BY <2>1, <2>2, Zenon
  <2>4. QED
    BY <1>1, <1>3, <1>5, <2>3
<1>6. QED
  BY <1>2, <1>4, <1>5 DEF Fail

LEMMA FailureDelivers ==
  ASSUME IInv, DInv, NEW p \in Procs,
         (\E kind \in FailureKind : SubmitFails(p, kind) \/ Reverted(p, kind)) \/ AnswerLost(p)
  PROVE  DInv'
<1>1. PICK kind \in FailureKind :
        /\ proc[p].pc \in {"submit", "await"}
        /\ Fail(p, kind)
        /\ Abandon(p) \/ UNCHANGED lost
        /\ UNCHANGED <<slot, outbox, fresh>>
  BY Zenon DEF SubmitFails, Reverted, AnswerLost, FailureKind
<1>2. QED
  BY <1>1, FailDelivers

LEMMA IncludeLostDelivers ==
  ASSUME IInv, DInv, NEW t \in lost, IncludeLost(t)
  PROVE  DInv'
<1>1. /\ PrivacyInvoke(Pool, Calldata(t.lane, t.batch))
      /\ lost' = lost \ {t}
      /\ UNCHANGED <<outbox, cursor, fresh, proc, doubt, runs>>
  BY DEF IncludeLost, Call
<1>2. t.lane \in Lanes /\ t.batch \in Seq(Item)
  BY Parts DEF LostOK, Tx
<1>3. Grows(slot, slot') /\ fresh' \subseteq fresh
  BY <1>1, <1>2, InvokeGrows
<1>4. \A h \in Homes : BoxOK(slot', fresh', h, outbox'[h])
  BY <1>1, <1>3, BoxesKept
<1>5. \A p \in Procs : MemoryOK(slot', fresh', HomeOf[p], proc'[p])
  BY <1>1, <1>3, MemoryKept DEF DInv
<1>6. QED
  BY <1>1, <1>4, <1>5 DEF DInv

\* The order of a batch is that of its messages.
LEMMA SameTextsSameOrder ==
  ASSUME NEW batch \in Seq(Item), NEW rest \in Seq(Item), NEW again \in Seq(Item),
         Len(again) = Len(batch), \A k \in DOMAIN batch : again[k].msg = batch[k].msg,
         InOrderOfQueueing(batch \o rest)
  PROVE  Msgs(again) = Msgs(batch) /\ InOrderOfQueueing(again \o rest)
<1> DEFINE n == Len(batch)
           m == n + Len(rest)
           old == batch \o rest
           new == again \o rest
<1>1. /\ DOMAIN batch = 1..n /\ DOMAIN again = 1..n /\ n \in Nat
      /\ DOMAIN old = 1..m /\ DOMAIN new = 1..m /\ Len(rest) \in Nat
  BY ConcatItems
<1>2. \A k \in 1..n : old[k] = batch[k] /\ new[k] = again[k]
  BY ConcatItems
<1>3. \A k \in 1..Len(rest) : old[n + k] = rest[k] /\ new[n + k] = rest[k]
  BY ConcatItems
<1>4. Msgs(again) = Msgs(batch)
  BY <1>1 DEF Msgs
<1>5. \A i, j \in DOMAIN old : i < j => old[i].msg < old[j].msg
  BY DEF InOrderOfQueueing
<1> HIDE DEF old, new
<1>6. \A k \in 1..m : new[k].msg = old[k].msg
  <2> SUFFICES ASSUME NEW k \in 1..m
               PROVE  new[k].msg = old[k].msg
    OBVIOUS
  <2>1. CASE k \in 1..n
    BY <1>1, <1>2, <2>1
  <2>2. CASE k \notin 1..n
    <3>1. k - n \in 1..Len(rest) /\ n + (k - n) = k
      BY <1>1, <2>2
    <3>2. QED
      BY <1>3, <3>1
  <2>3. QED
    BY <2>1, <2>2
<1> HIDE DEF n, m
<1>7. InOrderOfQueueing(new)
  BY <1>1, <1>5, <1>6 DEF InOrderOfQueueing
<1>8. QED
  BY <1>4, <1>7 DEF new

\* A batch that is sealed again carries the same messages in the same order.
LEMMA ResealDelivers ==
  ASSUME IInv, DInv, NEW p \in Procs, Reseal(p)
  PROVE  DInv'
<1> DEFINE me == proc[p]
<1>1. PICK start \in NextFree(me.lane, me.cursors[me.lane]) :
        Becomes(p, [me EXCEPT !.pc = "submit", !.batch = Sealed(Texts(me.batch), start)])
  BY Zenon DEF Reseal
<1>2. me.pc = "reseal" /\ UNCHANGED <<slot, outbox, cursor, fresh, lost, doubt, runs>>
  BY Zenon DEF Reseal
<1> DEFINE again == Sealed(Texts(me.batch), start)
           next == [me EXCEPT !.pc = "submit", !.batch = again]
<1>3. /\ me \in Memory /\ MemoryCovered(DOMAIN slot, me)
      /\ me.lane \in Lanes /\ me.batch \in Seq(Item) /\ me.rest \in Seq(Item)
      /\ InOrderOfQueueing(me.batch \o me.rest)
  BY <1>2, Running
<1>4. start \in Nat
  <2>1. me.cursors[me.lane] \in Nat
    BY <1>3 DEF Memory
  <2>2. QED
    BY <1>3, <2>1, Parts, WalkProperty DEF ChainOK
<1>5. /\ again \in Seq(Item) /\ Len(again) = Len(me.batch)
      /\ \A k \in DOMAIN me.batch : again[k].msg = me.batch[k].msg
  <2>1. /\ DOMAIN me.batch = 1..Len(me.batch) /\ Len(me.batch) \in Nat
        /\ \A k \in DOMAIN me.batch : me.batch[k].msg \in Payloads
    BY <1>3, ItemFacts
  <2>2. again = [k \in DOMAIN me.batch |-> [msg |-> me.batch[k].msg, index |-> start + k - 1]]
    BY DEF Sealed, Texts
  <2>3. \A k \in DOMAIN me.batch : [msg |-> me.batch[k].msg, index |-> start + k - 1] \in Item
    BY <1>4, <2>1 DEF Item
  <2> HIDE DEF again, me
  <2>4. again \in Seq(Item) /\ Len(again) = Len(me.batch)
    BY <2>1, <2>2, <2>3
  <2>5. QED
    BY <2>2, <2>4
<1> HIDE DEF again
<1>6. /\ Msgs(again) = Msgs(me.batch)
      /\ InOrderOfQueueing(again \o me.rest)
  BY <1>3, <1>5, SameTextsSameOrder
<1>7. /\ next.pc = "submit" /\ next.box = me.box /\ next.cmd = me.cmd /\ next.tx = me.tx
      /\ next.taken = me.taken /\ next.todo = me.todo /\ next.lane = me.lane
      /\ next.batch = again /\ next.rest = me.rest
  BY <1>3 DEF Memory
<1>8. me.tx # "landed"
  BY <1>2, <1>3 DEF MemoryCovered
<1>9. Becomes(p, next)
  BY <1>1 DEF again
<1> HIDE DEF next
<1>10. QED
  BY <1>2, <1>3, <1>5, <1>6, <1>7, <1>8, <1>9, RetryDelivers

\* A success is recorded for what has landed, in its order, and behind what was
\* confirmed before.
LEMMA ConfirmedBox ==
  ASSUME IInv, DInv, NEW p \in Procs, Succeeded(p)
  PROVE  BoxOK(slot, fresh, HomeOf[p], MarkConfirmed(proc[p].box, proc[p].batch))
<1> DEFINE me == proc[p]
           items == me.batch
<1>1. me.pc = "await" /\ me.tx = "landed"
  BY DEF Succeeded
<1>2. /\ me \in Memory /\ MemoryOK(slot, fresh, HomeOf[p], me)
      /\ me.box \in [Payloads -> Entry] /\ items \in Seq(Item) /\ me.rest \in Seq(Item)
      /\ Msgs(items) \subseteq Payloads
      /\ \A m \in Msgs(items) : m \notin fresh /\ MsgHome[m] = HomeOf[p]
  BY <1>1, Running
<1>3. InOrderOfQueueing(items)
  BY <1>2, OrderInParts DEF MemoryOK, Arranged
<1>4. \A m \in Payloads, n \in Msgs(items) :
        Earlier(m, n) /\ me.box[m].status = "queued" => m \in Msgs(items)
  BY <1>1, <1>2, NoneLeftBehind
<1>5. \A m \in Msgs(items) : LaneOf[m] = me.lane
  BY <1>2 DEF MemoryOK, Arranged
<1>6. /\ \A k \in DOMAIN items : Holds(slot, <<me.lane, items[k].index>>, items[k].msg)
      /\ Ascending(items)
      /\ \A m \in Payloads, k \in DOMAIN items :
           me.box[m].status = "confirmed" /\ LaneOf[m] = me.lane
             => me.box[m].index < items[k].index
  BY <1>1, <1>2 DEF MemoryOK, LandedOK
<1>7. \A k \in DOMAIN items : IndexOf(items, items[k].msg) = items[k].index
  BY <1>2, <1>3, IndexOfItem
<1>8. \A m \in Msgs(items) : \E k \in DOMAIN items : m = items[k].msg /\ IndexOf(items, m) = items[k].index
  BY <1>7 DEF Msgs
<1>9. BoxOK(slot, fresh, HomeOf[p], me.box)
  BY <1>2 DEF MemoryOK
<1>10. \A m \in Msgs(items), n \in Payloads : Earlier(m, n) => me.box[n].status # "confirmed"
  BY <1>2 DEF MemoryOK, OldestTaken, Pending
<1>11. /\ DOMAIN items = 1..Len(items) /\ Len(items) \in Nat
       /\ \A k \in DOMAIN items : items[k].msg \in Nat
  BY <1>2, ItemFacts, PayloadsAssumption
<1> HIDE DEF me, items
<1>12. \A m \in Msgs(items) : Holds(slot, <<LaneOf[m], IndexOf(items, m)>>, m)
  BY <1>5, <1>6, <1>8
<1>13. ASSUME NEW m \in Msgs(items), NEW n \in Msgs(items), Earlier(m, n)
       PROVE  IndexOf(items, m) < IndexOf(items, n)
  <2>1. PICK i \in DOMAIN items : m = items[i].msg /\ IndexOf(items, m) = items[i].index
    BY <1>8
  <2>2. PICK j \in DOMAIN items : n = items[j].msg /\ IndexOf(items, n) = items[j].index
    BY <1>8
  <2>3. m < n
    BY <1>13 DEF Earlier
  <2>4. ~ (j < i) /\ i # j
    BY <1>3, <1>11, <2>1, <2>2, <2>3 DEF InOrderOfQueueing
  <2>5. i < j
    BY <1>11, <2>4
  <2>6. QED
    BY <1>6, <2>1, <2>2, <2>5 DEF Ascending
<1>14. ASSUME NEW m \in Payloads, NEW n \in Msgs(items), Earlier(m, n), me.box[m].status = "confirmed"
       PROVE  me.box[m].index < IndexOf(items, n)
  <2>1. PICK j \in DOMAIN items : n = items[j].msg /\ IndexOf(items, n) = items[j].index
    BY <1>8
  <2>2. LaneOf[m] = me.lane
    BY <1>5, <1>14 DEF Earlier
  <2>3. QED
    BY <1>6, <1>14, <2>1, <2>2
<1>15. QED
  BY <1>2, <1>4, <1>9, <1>10, <1>12, <1>13, <1>14, MarkConfirmedKeeps DEF me, items

\* After a success: what was cut off, the next lane, or the end.
LEMMA ContinueOK ==
  ASSUME IInv, DInv, NEW p \in Procs, Succeeded(p), NEW box,
         box = IF proc[p].cmd = "flush" THEN MarkConfirmed(proc[p].box, proc[p].batch)
                                        ELSE proc[p].box,
         BoxOK(slot, fresh, HomeOf[p], box),
         NEW done \in Memory,
         done.pc = "await", done.cmd = proc[p].cmd, done.box = box, done.taken = proc[p].taken,
         done.todo = proc[p].todo, done.lane = proc[p].lane,
         done.batch = proc[p].batch, done.rest = proc[p].rest
  PROVE  MemoryOK(slot, fresh, HomeOf[p], Continue(done))
<1> DEFINE me == proc[p]
           h == HomeOf[p]
<1>1. me.pc = "await"
  BY DEF Succeeded
<1>2. /\ me \in Memory /\ MemoryOK(slot, fresh, h, me)
      /\ me.batch \in Seq(Item) /\ me.rest \in Seq(Item)
      /\ Msgs(me.batch) \subseteq Payloads /\ Msgs(me.rest) \subseteq Payloads
      /\ me.taken \subseteq Payloads
      /\ InOrderOfQueueing(me.batch \o me.rest)
  BY <1>1, Running
<1>3. CASE me.cmd = "send"
  <2>1. Continue(done) = NoProcess
    BY <1>1, <1>2, <1>3 DEF MemoryOK, SendsOne, Continue
  <2>2. QED
    BY <2>1, NoProcessOK
<1>4. CASE me.cmd = "flush"
  <2>1. box = MarkConfirmed(me.box, me.batch)
    BY <1>4
  <2>2. /\ \A m \in Msgs(me.batch) : box[m].status = "confirmed"
        /\ \A m \in Payloads \ Msgs(me.batch) : box[m] = me.box[m]
    BY <1>2, <2>1 DEF MarkConfirmed
  <2>3. \A m \in Payloads : box[m].status = "queued" => me.box[m].status = "queued"
    BY <2>2
  <2>4. InOrderOfQueueing(me.rest) /\ \A n \in Msgs(me.batch), m \in Msgs(me.rest) : n < m
    BY <1>2, OrderInParts
  <2>5. /\ \A m \in Msgs(me.batch) \cup Msgs(me.rest) : LaneOf[m] = me.lane
        /\ \A m \in me.todo : LaneOf[m] # me.lane
    BY <1>1, <1>2 DEF MemoryOK, Arranged
  <2>6. /\ me.todo \cup Msgs(me.rest) \subseteq me.taken
        /\ \A m \in me.taken : m \notin fresh /\ MsgHome[m] = h
    BY <1>2 DEF MemoryOK, TakenOK, Pending
  <2>7. \A m \in me.taken : m \in me.todo \cup Msgs(me.rest) \/ box[m].status = "confirmed"
    <3> SUFFICES ASSUME NEW m \in me.taken, m \notin me.todo \cup Msgs(me.rest), m \notin Msgs(me.batch)
                 PROVE  box[m].status = "confirmed"
      BY <2>2
    <3>1. me.box[m].status = "confirmed"
      BY <1>1, <1>2 DEF MemoryOK, Accounted, Pending
    <3>2. QED
      BY <1>2, <2>2, <3>1
  <2>8. ASSUME NEW m \in Payloads, NEW n \in Payloads, Earlier(m, n)
        PROVE  /\ m \in me.todo \cup Msgs(me.rest) => box[n].status # "confirmed"
               /\ n \in me.taken /\ box[m].status = "queued" => m \in me.taken
    <3>1. n \in me.taken /\ box[m].status = "queued" => m \in me.taken
      BY <1>2, <2>3, <2>8 DEF MemoryOK, OldestTaken
    <3>2. ASSUME m \in me.todo \cup Msgs(me.rest)
          PROVE  box[n].status # "confirmed"
      <4>1. me.box[n].status # "confirmed"
        BY <1>2, <2>8, <3>2 DEF MemoryOK, OldestTaken, Pending
      <4>2. n \notin Msgs(me.batch)
        <5>1. CASE m \in me.todo
          BY <2>5, <2>8, <5>1 DEF Earlier
        <5>2. CASE m \in Msgs(me.rest)
          <6>1. m < n /\ m \in Nat /\ n \in Nat
            BY <2>8, PayloadsAssumption DEF Earlier
          <6>2. QED
            BY <2>4, <5>2, <6>1
        <5>3. QED
          BY <3>2, <5>1, <5>2
      <4>3. QED
        BY <2>2, <4>1, <4>2
    <3>3. QED
      BY <3>1, <3>2
  <2>9. CASE done.rest # <<>>
    <3>1. Continue(done) = NextTransaction(done, me.rest, <<>>)
      BY <2>9 DEF Continue
    <3> HIDE DEF me, h
    <3>2. MemoryOK(slot, fresh, h, NextTransaction(done, me.rest, <<>>))
      BY <1>2, <1>4, <2>4, <2>5, <2>6, <2>7, <2>8, NextTransactionOK DEF me, h
    <3>3. QED
      BY <3>1, <3>2 DEF h
  <2>10. CASE done.rest = <<>> /\ done.todo # {}
    <3> DEFINE next == [done EXCEPT !.pc = "seal", !.batch = <<>>, !.tx = "none"]
    <3>1. Continue(done) = next
      BY <2>10 DEF Continue
    <3>2. /\ next.pc = "seal" /\ next.tx = "none" /\ next.cmd = "flush" /\ next.box = box
          /\ next.taken = me.taken /\ next.todo = me.todo /\ next.lane = me.lane
          /\ next.batch = <<>> /\ next.rest = <<>>
      BY <1>4, <2>10 DEF Memory
    <3>3. Msgs(<<>>) = {} /\ <<>> \o <<>> = <<>> /\ InOrderOfQueueing(<<>>) /\ Msgs(me.rest) = {}
      BY <2>10 DEF Msgs, InOrderOfQueueing
    <3> HIDE DEF next, me, h
    <3>4. Pending(next) = me.todo
      BY <3>2, <3>3 DEF Pending
    <3>5. TakenOK(fresh, h, next) /\ Accounted(next)
      BY <2>6, <2>7, <3>2, <3>3, <3>4 DEF TakenOK, Accounted
    <3>6. OldestTaken(next)
      BY <2>8, <3>2, <3>4 DEF OldestTaken
    <3>7. Arranged(next) /\ SendsOne(next) /\ LandedOK(slot, next)
      BY <3>2, <3>3 DEF Arranged, SendsOne, LandedOK
    <3>8. BoxOK(slot, fresh, h, next.box)
      BY <3>2 DEF h
    <3>9. MemoryOK(slot, fresh, h, next)
      BY <3>5, <3>6, <3>7, <3>8 DEF MemoryOK
    <3>10. QED
      BY <3>1, <3>9 DEF h
  <2>11. CASE done.rest = <<>> /\ done.todo = {}
    <3>1. Continue(done) = NoProcess
      BY <2>11 DEF Continue
    <3>2. QED
      BY <3>1, NoProcessOK
  <2>12. QED
    BY <2>9, <2>10, <2>11
<1>5. QED
  BY <1>2, <1>3, <1>4 DEF Memory

\* What a success marks, and how the loop is left: the record of the process
\* with its outbox and its cursors saved.
MarksDone(done, me, box) ==
  /\ done \in Memory /\ done.pc = me.pc /\ done.cmd = me.cmd /\ done.box = box
  /\ done.taken = me.taken /\ done.todo = me.todo /\ done.lane = me.lane
  /\ done.batch = me.batch /\ done.rest = me.rest

LEMMA DoneFields ==
  ASSUME NEW me \in Memory, NEW box \in [Payloads -> Entry], NEW past \in Nat,
         NEW done, done = [me EXCEPT !.box = box, !.cursors[me.lane] = past]
  PROVE  MarksDone(done, me, box)
<1> DEFINE cursors == [me.cursors EXCEPT ![me.lane] = past]
<1>1. cursors \in [Lanes -> Nat]
  BY DEF Memory
<1>2. done = [me EXCEPT !.box = box, !.cursors = cursors]
  BY DEF Memory
<1> HIDE DEF cursors
<1>3. [me EXCEPT !.box = box, !.cursors = cursors] \in Memory
  BY <1>1, Zenon DEF Memory
<1>4. QED
  BY <1>2, <1>3 DEF Memory, MarksDone

LEMMA ConfirmDelivers ==
  ASSUME IInv, DInv, NEW p \in Procs, Confirm(p)
  PROVE  DInv'
<1> DEFINE me == proc[p]
           box == IF me.cmd = "flush" THEN MarkConfirmed(me.box, me.batch) ELSE me.box
           past == CursorPast(me.batch)
           done == [me EXCEPT !.box = box, !.cursors[me.lane] = past]
           next == Continue(done)
<1>1. /\ Succeeded(p) /\ me.pc = "await" /\ me.tx = "landed"
      /\ Becomes(p, next)
      /\ SaveOutbox(p, IF next.pc = "submit" THEN next.box ELSE box)
      /\ UNCHANGED <<slot, fresh, lost, doubt, runs>>
  BY DEF Confirm, Succeeded
<1>2. /\ me \in Memory /\ MemoryCovered(DOMAIN slot, me)
      /\ MemoryOK(slot, fresh, HomeOf[p], me)
      /\ me.box \in [Payloads -> Entry] /\ me.lane \in Lanes
      /\ me.batch \in Seq(Item) /\ me.rest \in Seq(Item) /\ me.batch # <<>>
  BY <1>1, Running
<1>3. past \in Nat
  <2>1. Climbs(me.batch)
    BY <1>2, BatchCovered DEF MemoryCovered
  <2>2. QED
    BY <1>2, <2>1, LastIndexProperty DEF CursorPast
<1>4. box \in [Payloads -> Entry]
  BY <1>2, MarkConfirmedType
<1>5. BoxOK(slot, fresh, HomeOf[p], box)
  BY <1>1, <1>2, ConfirmedBox DEF MemoryOK
<1>6. box = IF me.cmd = "flush" THEN MarkConfirmed(me.box, me.batch) ELSE me.box
  OBVIOUS
<1>a. done = [me EXCEPT !.box = box, !.cursors[me.lane] = past]
  OBVIOUS
<1> HIDE DEF box, past, done, next
<1>b. me \in Memory
  BY <1>2
<1> HIDE DEF me
<1>7. MarksDone(done, me, box)
  BY <1>a, <1>b, <1>3, <1>4, DoneFields, Zenon
<1> USE DEF me
<1>8. MemoryOK(slot, fresh, HomeOf[p], next)
  BY <1>1, <1>5, <1>6, <1>7, ContinueOK DEF next, MarksDone
<1>9. Grows(slot, slot') /\ fresh' \subseteq fresh /\ FreshIsSuffix(fresh')
  BY <1>1, GrowsSame DEF DInv
<1>10. MemoryOK(slot', fresh', HomeOf[p], next) /\ BoxOK(slot', fresh', HomeOf[p], box)
  BY <1>5, <1>8, <1>9, MemoryKept, BoxKept
<1>11. \A h \in Homes : BoxOK(slot', fresh', h, outbox'[h])
  <2>1. BoxOK(slot', fresh', HomeOf[p], next.box)
    BY <1>10 DEF MemoryOK
  <2>2. QED
    BY <1>1, <1>9, <1>10, <2>1, Parts, BoxesSaved
<1>12. \A t \in lost' : InOrderOfQueueing(t.batch)
  BY <1>1 DEF DInv
<1>13. QED
  BY <1>1, <1>9, <1>10, <1>11, <1>12, Parts, DeliveryStep

LEMMA CrashDelivers ==
  ASSUME IInv, DInv, NEW p \in Procs, Crash(p) \/ CrashBetweenSaves(p)
  PROVE  DInv'
<1>1. /\ Becomes(p, NoProcess) /\ UNCHANGED <<slot, fresh>>
      /\ Abandon(p) \/ UNCHANGED lost
  BY Zenon DEF Crash, CrashBetweenSaves
<1>2. Grows(slot, slot') /\ fresh' \subseteq fresh
  BY <1>1, GrowsSame
<1>3. \A h \in Homes : BoxOK(slot', fresh', h, outbox'[h])
  <2>1. CASE Crash(p)
    <3>1. UNCHANGED outbox
      BY <2>1, Zenon DEF Crash
    <3>2. QED
      BY <1>2, <3>1, BoxesKept
  <2>2. CASE CrashBetweenSaves(p)
    <3> DEFINE box == MarkConfirmed(proc[p].box, proc[p].batch)
    <3>1. SaveOutbox(p, box) /\ Succeeded(p)
      BY <2>2, Zenon DEF CrashBetweenSaves
    <3>2. BoxOK(slot, fresh, HomeOf[p], box)
      BY <3>1, ConfirmedBox
    <3> HIDE DEF box
    <3>3. BoxOK(slot', fresh', HomeOf[p], box)
      BY <1>2, <3>2, BoxKept
    <3>4. QED
      BY <1>2, <3>1, <3>3, Parts, BoxesSaved
  <2>3. QED
    BY <2>1, <2>2
<1>4. QED
  BY <1>1, <1>3, EndDelivers

-----------------------------------------------------------------------------
LEMMA InitDelivers == Init => DInv
<1> SUFFICES ASSUME Init
             PROVE  DInv
  OBVIOUS
<1>1. \A h \in Homes : BoxOK(slot, fresh, h, outbox[h])
  BY DEF Init, BoxOK, Absent
<1>2. \A p \in Procs : MemoryOK(slot, fresh, HomeOf[p], proc[p])
  BY NoProcessOK DEF Init
<1>3. QED
  BY <1>1, <1>2 DEF Init, DInv, FreshIsSuffix

LEMMA NextDelivers == IInv /\ DInv /\ [Next]_vars => DInv'
<1> SUFFICES ASSUME IInv, DInv, [Next]_vars
             PROVE  DInv'
  OBVIOUS
<1>1. ASSUME NEW m \in Payloads, Queue(m)
      PROVE  DInv'
  BY <1>1, QueueDelivers
<1>2. ASSUME NEW p \in Procs, StartFlush(p) \/ StartSend(p)
      PROVE  DInv'
  BY <1>2, StartDelivers
<1>3. ASSUME NEW p \in Procs, Advance(p)
      PROVE  DInv'
  BY <1>3, SealLaneDelivers, BroadcastDelivers, IncludeDelivers, RevertsOutsideDelivers,
     ConfirmDelivers, FailureDelivers, ResealDelivers
     DEF Advance
<1>4. ASSUME NEW p \in Procs, Crash(p) \/ CrashBetweenSaves(p)
      PROVE  DInv'
  BY <1>4, CrashDelivers
<1>5. ASSUME NEW t \in lost, IncludeLost(t)
      PROVE  DInv'
  BY <1>5, IncludeLostDelivers
<1>6. CASE UNCHANGED vars
  BY <1>6 DEF vars, DInv
<1>7. QED
  BY <1>1, <1>2, <1>3, <1>4, <1>5, <1>6 DEF Next

\* The second inductive invariant, on top of the first.
THEOREM DeliveryInvariant == Spec => []DInv
BY Invariant, InitDelivers, NextDelivers, PTL DEF Spec

\* An entry that says "confirmed" names the slot in which its message is stored.
THEOREM ConfirmedIsStored == Spec => []ConfirmedOnChain
<1>1. DInv => ConfirmedOnChain
  BY DEF DInv, BoxOK, Holds, ConfirmedOnChain
<1>2. QED
  BY <1>1, DeliveryInvariant, PTL

\* Messages to one lane are confirmed at indices in the order of queueing.
THEOREM OrderIsKept == Spec => []OrderKept
<1>1. DInv => OrderKept
  BY DEF DInv, BoxOK, Earlier, OrderKept
<1>2. QED
  BY <1>1, DeliveryInvariant, PTL

\* A flush forgets none of the entries it took, through reseals and halves.
THEOREM NothingIsDropped == Spec => []NothingDropped
<1>1. DInv => NothingDropped
  BY DEF DInv, MemoryOK, Accounted, Pending, NothingDropped
<1>2. QED
  BY <1>1, DeliveryInvariant, PTL

-----------------------------------------------------------------------------
(* At most once, where one command at a time runs over a home.             *)

LEMMA OnceStep ==
  ASSUME IInv, OnceInv, OneCommandPerHome, UNCHANGED slot,
         fresh' \subseteq fresh, doubt \subseteq doubt',
         NEW p \in Procs, NEW me, Becomes(p, me), NEW box,
         outbox' = [outbox EXCEPT ![HomeOf[p]] = box],
         QueuedNotStored(slot, doubt', box), ProcOnce(slot, doubt', me, box),
         \A t \in lost' : Msgs(t.batch) \subseteq doubt'
  PROVE  OnceInv'
<1>1. HomeOf \in [Procs -> Homes] /\ DOMAIN outbox = Homes /\ DOMAIN proc = Procs
  BY Parts, TopologyAssumption DEF OutboxOK, ProcOK
<1>2. \A m \in Payloads \ doubt' : StoredOnce(slot', m)
  BY DEF OnceInv, StoredOnce
<1>3. \A m \in fresh' \ doubt' : ~ Stores(slot', m)
  BY DEF OnceInv, Stores
<1>4. \A h \in Homes : QueuedNotStored(slot', doubt', outbox'[h])
  BY <1>1 DEF OnceInv, QueuedNotStored, Stores
<1>5. ASSUME NEW q \in Procs
      PROVE  ProcOnce(slot', doubt', proc'[q], outbox'[HomeOf[q]])
  <2>1. CASE q = p
    BY <1>1, <2>1 DEF Becomes
  <2>2. CASE q # p
    <3>1. proc'[q] = proc[q] /\ outbox'[HomeOf[q]] = outbox[HomeOf[q]]
      BY <1>1, <2>2 DEF Becomes, OneCommandPerHome
    <3>2. ProcOnce(slot, doubt, proc[q], outbox[HomeOf[q]])
      BY DEF OnceInv
    <3>3. QED
      BY <3>1, <3>2 DEF ProcOnce, QueuedNotStored, Stores
  <2>3. QED
    BY <2>1, <2>2
<1>6. QED
  BY <1>2, <1>3, <1>4, <1>5 DEF OnceInv

\* What a step that stores nothing writes into the outbox of its home.
Saves(p) ==
  \/ UNCHANGED outbox
  \/ \E box : /\ SaveOutbox(p, box)
              /\ \A m \in Payloads : box[m].status = "queued" => proc[p].box[m].status = "queued"

LEMMA SavedOnce ==
  ASSUME IInv, OnceInv, NEW p \in Procs, Saves(p), doubt \subseteq doubt'
  PROVE  \E box : /\ outbox' = [outbox EXCEPT ![HomeOf[p]] = box]
                  /\ box = outbox'[HomeOf[p]]
                  /\ QueuedNotStored(slot, doubt', box)
                  /\ proc[p].cmd = "send" => box = outbox[HomeOf[p]]
<1>1. HomeOf[p] \in Homes /\ outbox \in [Homes -> [Payloads -> Entry]]
  BY Parts, TopologyAssumption DEF OutboxOK
<1>2. QueuedNotStored(slot, doubt, outbox[HomeOf[p]]) /\ QueuedNotStored(slot, doubt, proc[p].box)
  BY <1>1 DEF OnceInv, ProcOnce
<1>3. CASE UNCHANGED outbox
  <2>1. outbox' = [outbox EXCEPT ![HomeOf[p]] = outbox[HomeOf[p]]]
    BY <1>1, <1>3
  <2>2. QueuedNotStored(slot, doubt', outbox[HomeOf[p]])
    BY <1>2 DEF QueuedNotStored
  <2>3. QED
    BY <1>3, <2>1, <2>2
<1>4. ASSUME NEW box, SaveOutbox(p, box), proc[p].cmd = "flush",
             \A m \in Payloads : box[m].status = "queued" => proc[p].box[m].status = "queued"
      PROVE  /\ outbox' = [outbox EXCEPT ![HomeOf[p]] = box]
             /\ box = outbox'[HomeOf[p]]
             /\ QueuedNotStored(slot, doubt', box)
  BY <1>1, <1>2, <1>4 DEF SaveOutbox, QueuedNotStored
<1>5. QED
  BY <1>3, <1>4 DEF Saves, SaveOutbox

\* A process goes on, or ends, with no more to do than it had: it has let go of
\* what it was told has landed, or nobody knows any more.
LEMMA OnceGoesOn ==
  ASSUME IInv, OnceInv, OneCommandPerHome, UNCHANGED slot, fresh' \subseteq fresh,
         NEW p \in Procs, NEW next, Becomes(p, next), Saves(p),
         Abandon(p) \/ UNCHANGED <<lost, doubt>>,
         Pending(next) \subseteq Pending(proc[p]),
         \A m \in Pending(next) : m \in Landed(proc[p]) => m \in doubt' \cup Landed(next),
         \A m \in Payloads : next.box[m].status = "queued" => proc[p].box[m].status = "queued",
         next.pc = "await" => /\ Unqueued(next.box, next.batch)
                              /\ Unqueued(outbox'[HomeOf[p]], next.batch),
         next.cmd = "send" => proc[p].cmd = "send"
  PROVE  OnceInv'
<1>1. doubt \subseteq doubt' /\ \A t \in lost' : Msgs(t.batch) \subseteq doubt'
  BY DEF Abandon, TheTx, OnceInv
<1>2. PICK box : /\ outbox' = [outbox EXCEPT ![HomeOf[p]] = box]
                 /\ box = outbox'[HomeOf[p]]
                 /\ QueuedNotStored(slot, doubt', box)
                 /\ proc[p].cmd = "send" => box = outbox[HomeOf[p]]
  BY <1>1, SavedOnce
<1>3. ProcOnce(slot, doubt, proc[p], outbox[HomeOf[p]])
  BY DEF OnceInv
<1>4. ProcOnce(slot, doubt', next, box)
  <2>1. \A m \in Pending(next) \ (doubt' \cup Landed(next)) : ~ Stores(slot, m)
    BY <1>1, <1>3 DEF ProcOnce
  <2>2. QueuedNotStored(slot, doubt', next.box)
    BY <1>1, <1>3 DEF ProcOnce, QueuedNotStored
  <2>3. next.cmd = "send" => \A m \in Pending(next) : box[m].status = "absent"
    BY <1>2, <1>3 DEF ProcOnce
  <2>4. QED
    BY <1>2, <2>1, <2>2, <2>3 DEF ProcOnce
<1>5. QED
  BY <1>1, <1>2, <1>4, OnceStep

\* A message that is written is new to the chain.
LEMMA QueueOnce ==
  ASSUME IInv, DInv, OnceInv, NEW m \in Payloads, Queue(m)
  PROVE  OnceInv'
<1> DEFINE h == MsgHome[m]
<1>1. /\ outbox' = [outbox EXCEPT ![h][m] = Queued] /\ fresh' = fresh \ {m}
      /\ UNCHANGED <<slot, proc, lost, doubt>> /\ m \in fresh
  BY DEF Queue, Written, Oldest
<1>2. h \in Homes /\ outbox \in [Homes -> [Payloads -> Entry]]
  BY Parts, TopologyAssumption DEF OutboxOK
<1>3. \A k \in Homes, n \in Payloads : k # h \/ n # m => outbox'[k][n] = outbox[k][n]
  BY <1>1, <1>2
<1>4. ASSUME NEW k \in Homes
      PROVE  QueuedNotStored(slot', doubt', outbox'[k])
  <2> SUFFICES ASSUME NEW n \in Payloads \ doubt, outbox'[k][n].status = "queued"
               PROVE  ~ Stores(slot, n)
    BY <1>1 DEF QueuedNotStored, Stores
  <2>1. CASE n = m
    BY <1>1, <2>1 DEF OnceInv
  <2>2. CASE n # m
    BY <1>3, <2>2 DEF OnceInv, QueuedNotStored
  <2>3. QED
    BY <2>1, <2>2
<1>5. ASSUME NEW p \in Procs
      PROVE  ProcOnce(slot', doubt', proc'[p], outbox'[HomeOf[p]])
  <2>1. ProcOnce(slot, doubt, proc[p], outbox[HomeOf[p]]) /\ HomeOf[p] \in Homes
    BY TopologyAssumption DEF OnceInv
  <2>2. m \notin Pending(proc[p]) /\ Pending(proc[p]) \subseteq Payloads
    <3>1. m \notin Pending(proc[p])
      BY <1>1 DEF DInv, MemoryOK, TakenOK
    <3>2. Pending(proc[p]) \subseteq proc[p].taken /\ proc[p].taken \subseteq Payloads
      BY Parts DEF DInv, MemoryOK, TakenOK, ProcOK, Memory
    <3>3. QED
      BY <3>1, <3>2
  <2>3. \A n \in Pending(proc[p]) : outbox'[HomeOf[p]][n] = outbox[HomeOf[p]][n]
    BY <1>3, <2>1, <2>2
  <2>4. Msgs(proc[p].batch) \subseteq Pending(proc[p])
    BY DEF Pending
  <2>5. QED
    BY <1>1, <2>1, <2>3, <2>4 DEF ProcOnce, Unqueued, QueuedNotStored, Stores
<1>6. \A n \in fresh' \ doubt' : ~ Stores(slot', n)
  BY <1>1 DEF OnceInv, Stores
<1>7. \A n \in Payloads \ doubt' : StoredOnce(slot', n)
  BY <1>1 DEF OnceInv, StoredOnce
<1>8. QED
  BY <1>1, <1>4, <1>5, <1>6, <1>7 DEF OnceInv

\* What a command starts with was queued, or is new.
LEMMA StartOnce ==
  ASSUME IInv, DInv, OnceInv, OneCommandPerHome, NEW p \in Procs, StartFlush(p) \/ StartSend(p)
  PROVE  OnceInv'
<1> DEFINE h == HomeOf[p]
           box == outbox[h]
<1>1. /\ h \in Homes /\ fresh \subseteq Payloads /\ outbox \in [Homes -> [Payloads -> Entry]]
      /\ BoxOK(slot, fresh, h, box) /\ QueuedNotStored(slot, doubt, box)
      /\ outbox = [outbox EXCEPT ![h] = box]
  BY Parts, TopologyAssumption DEF CountsOK, OutboxOK, DInv, OnceInv
<1>2. UNCHANGED <<slot, outbox, lost, doubt>> /\ \A t \in lost : Msgs(t.batch) \subseteq doubt
  <2>1. UNCHANGED <<slot, outbox, lost, doubt>>
    BY Zenon DEF StartFlush, StartSend
  <2>2. QED
    BY <2>1 DEF OnceInv
<1>3. fresh' \subseteq fresh /\ \E me : Becomes(p, me) /\ ProcOnce(slot, doubt, me, box)
  <2>0. /\ NoProcess.batch = <<>> /\ NoProcess.rest = <<>> /\ NoProcess.tx = "none"
        /\ \A m \in Payloads : NoProcess.box[m].status = "absent"
    BY DEF NoProcess, Absent
  <2>1. CASE StartFlush(p)
    <3>1. PICK max \in Caps :
            Becomes(p, [NoProcess EXCEPT !.pc = "seal", !.cmd = "flush", !.box = box,
                                         !.cursors = cursor[h],
                                         !.taken = Take(box, max), !.todo = Take(box, max)])
      BY <2>1, Zenon DEF StartFlush
    <3> DEFINE taken == Take(box, max)
               me == [NoProcess EXCEPT !.pc = "seal", !.cmd = "flush", !.box = box,
                                       !.cursors = cursor[h], !.taken = taken, !.todo = taken]
    <3>2. \A m \in taken : m \in Payloads /\ box[m].status = "queued"
      BY <3>1, TakeProperty, LimitsAssumption
    <3>3. Becomes(p, me)
      BY <3>1
    <3> HIDE DEF taken
    <3>4. /\ me.pc = "seal" /\ me.cmd = "flush" /\ me.box = box /\ me.todo = taken
          /\ me.batch = NoProcess.batch /\ me.rest = NoProcess.rest /\ me.tx = NoProcess.tx
      BY NoProcessCovered DEF Memory
    <3> HIDE DEF me, box
    <3>5. Pending(me) = taken
      BY <2>0, <3>4 DEF Pending, Msgs
    <3>6. ProcOnce(slot, doubt, me, box)
      BY <1>1, <3>2, <3>4, <3>5 DEF ProcOnce, QueuedNotStored
    <3>7. fresh' = fresh
      BY <2>1, Zenon DEF StartFlush
    <3>8. QED
      BY <3>3, <3>6, <3>7
  <2>2. CASE StartSend(p)
    <3>1. PICK m \in Written(h) :
            /\ Becomes(p, [NoProcess EXCEPT !.pc = "seal", !.cmd = "send",
                                            !.cursors = cursor[h],
                                            !.taken = {m}, !.todo = {m}])
            /\ fresh' = fresh \ {m}
      BY <2>2, Zenon DEF StartSend
    <3> DEFINE me == [NoProcess EXCEPT !.pc = "seal", !.cmd = "send",
                                       !.cursors = cursor[h], !.taken = {m}, !.todo = {m}]
    <3>2. m \in fresh /\ m \in Payloads
      BY <1>1, <3>1, FreshShrinks DEF DInv
    <3>3. Becomes(p, me)
      BY <3>1
    <3>4. /\ me.pc = "seal" /\ me.cmd = "send" /\ me.todo = {m} /\ me.box = NoProcess.box
          /\ me.batch = NoProcess.batch /\ me.rest = NoProcess.rest /\ me.tx = NoProcess.tx
      BY NoProcessCovered DEF Memory
    <3> HIDE DEF me
    <3>5. Pending(me) = {m}
      BY <2>0, <3>4 DEF Pending, Msgs
    <3>6. box[m].status = "absent"
      BY <1>1, <3>2 DEF BoxOK
    <3>7. m \notin doubt => ~ Stores(slot, m)
      BY <3>2 DEF OnceInv
    <3> HIDE DEF box
    <3>8. ProcOnce(slot, doubt, me, box)
      BY <2>0, <3>4, <3>5, <3>6, <3>7 DEF ProcOnce, QueuedNotStored
    <3>9. QED
      BY <3>1, <3>3, <3>8
  <2>3. QED
    BY <2>1, <2>2
<1>4. outbox' = [outbox EXCEPT ![HomeOf[p]] = box]
  BY <1>1, <1>2
<1> HIDE DEF box
<1>5. QED
  BY <1>1, <1>2, <1>3, <1>4, OnceStep

\* The next transaction of a process: nothing of it is out yet.
OnlySubmits(me, batch, rest, next) ==
  /\ next.pc = "submit" /\ next.tx = "none" /\ next.cmd = me.cmd
  /\ next.batch = batch /\ next.rest = rest /\ next.todo = me.todo
  /\ \A m \in Payloads : next.box[m].status = "queued" => me.box[m].status = "queued"

LEMMA NextTransactionFields ==
  ASSUME NEW me \in Memory, NEW batch \in Seq(Item), NEW rest \in Seq(Item)
  PROVE  OnlySubmits(me, batch, rest, NextTransaction(me, batch, rest))
<1> DEFINE box == IF PoolMode /\ me.cmd = "flush" THEN Mark(me.box, batch, "proving") ELSE me.box
           next == [me EXCEPT !.pc = "submit", !.batch = batch, !.rest = rest, !.attempt = 1,
                              !.tx = "none", !.box = box]
<1>1. NextTransaction(me, batch, rest) = next
  BY DEF NextTransaction
<1>2. \A m \in Payloads : box[m].status = "queued" => me.box[m].status = "queued"
  BY DEF Mark
<1> HIDE DEF box
<1>3. /\ next.pc = "submit" /\ next.tx = "none" /\ next.cmd = me.cmd /\ next.box = box
      /\ next.batch = batch /\ next.rest = rest /\ next.todo = me.todo
  BY DEF Memory
<1> HIDE DEF next
<1>4. QED
  BY <1>1, <1>2, <1>3 DEF OnlySubmits

LEMMA SealLaneOnce ==
  ASSUME IInv, DInv, OnceInv, OneCommandPerHome, NEW p \in Procs, SealLane(p)
  PROVE  OnceInv'
<1> DEFINE me == proc[p]
<1>1. PICK first \in Oldest(me.todo) :
        LET lane == LaneOf[first]
            entries == {m \in me.todo : LaneOf[m] = lane}
        IN  \E msgs \in OldestFirst(entries), start \in NextFree(lane, me.cursors[lane]) :
              LET next == NextTransaction([me EXCEPT !.lane = lane, !.todo = @ \ entries],
                                          Sealed(msgs, start), <<>>)
              IN  /\ Becomes(p, next)
                  /\ IF PoolMode THEN SaveOutbox(p, next.box) ELSE UNCHANGED outbox
  BY DEF SealLane
<1> DEFINE lane == LaneOf[first]
           entries == {m \in me.todo : LaneOf[m] = lane}
           turned == [me EXCEPT !.lane = lane, !.todo = @ \ entries]
<1>2. PICK msgs \in OldestFirst(entries), start \in NextFree(lane, me.cursors[lane]) :
        /\ Becomes(p, NextTransaction(turned, Sealed(msgs, start), <<>>))
        /\ IF PoolMode THEN SaveOutbox(p, NextTransaction(turned, Sealed(msgs, start), <<>>).box)
                       ELSE UNCHANGED outbox
  BY <1>1
<1> DEFINE batch == Sealed(msgs, start)
           next == NextTransaction(turned, batch, <<>>)
<1>3. /\ me \in Memory /\ MemoryCovered(DOMAIN slot, me) /\ me.pc = "seal"
      /\ UNCHANGED <<slot, cursor, fresh, lost, doubt, runs>>
  BY Parts DEF ProcOK, SealLane
<1>4. first \in me.todo /\ me.todo \subseteq Payloads /\ me.cursors \in [Lanes -> Nat]
  BY <1>3 DEF Oldest, Memory
<1>5. lane \in Lanes
  BY <1>4, TopologyAssumption
<1>6. entries \in SUBSET Payloads /\ entries # {} /\ entries \subseteq me.todo
  BY <1>4
<1> HIDE DEF entries
<1>7. msgs \in Seq(Payloads) /\ \A k \in DOMAIN msgs : msgs[k] \in entries
  BY <1>6, PayloadsAssumption, OldestFirstProperty
<1>8. start \in Nat
  BY <1>4, <1>5, Parts, WalkProperty DEF ChainOK
<1>9. batch \in Seq(Item) /\ Msgs(batch) \subseteq entries
  <2>1. \A k \in 1..Len(msgs) : [msg |-> msgs[k], index |-> start + k - 1] \in Item
    BY <1>7, <1>8 DEF Item
  <2>2. batch = [k \in 1..Len(msgs) |-> [msg |-> msgs[k], index |-> start + k - 1]]
    BY <1>7 DEF Sealed
  <2>3. QED
    BY <1>7, <2>1, <2>2 DEF Msgs
<1> HIDE DEF batch
<1>10. turned \in Memory /\ turned.todo \subseteq me.todo /\ turned.box = me.box /\ turned.cmd = me.cmd
  <2>1. me.todo \ entries \in SUBSET Payloads
    BY <1>4
  <2>2. turned \in Memory
    BY <1>3, <1>5, <2>1, Zenon DEF Memory
  <2>3. QED
    BY <1>3, <2>2 DEF Memory
<1> HIDE DEF turned, lane
<1>11. /\ next.pc = "submit" /\ next.tx = "none" /\ next.cmd = me.cmd
       /\ next.batch = batch /\ next.rest = <<>> /\ next.todo = turned.todo
       /\ \A m \in Payloads : next.box[m].status = "queued" => me.box[m].status = "queued"
  <2>1. <<>> \in Seq(Item)
    OBVIOUS
  <2>2. OnlySubmits(turned, batch, <<>>, next)
    BY <1>9, <1>10, <2>1, NextTransactionFields, Zenon
  <2> HIDE DEF next
  <2>3. QED
    BY <1>10, <2>2 DEF OnlySubmits
<1>12. Becomes(p, next) /\ IF PoolMode THEN SaveOutbox(p, next.box) ELSE UNCHANGED outbox
  BY <1>2 DEF next, batch
<1> HIDE DEF next
<1>13. Saves(p)
  BY <1>11, <1>12 DEF Saves
<1>14. Pending(next) \subseteq Pending(me) /\ Landed(me) = {}
  <2>1. Msgs(<<>>) = {}
    BY DEF Msgs
  <2>2. me.tx # "landed"
    BY <1>3 DEF MemoryCovered
  <2>3. QED
    BY <1>6, <1>9, <1>10, <1>11, <2>1, <2>2 DEF Pending, Landed
<1>15. QED
  BY <1>3, <1>11, <1>12, <1>13, <1>14, OnceGoesOn

\* What goes out is not queued any more, in memory and in the saved outbox.
LEMMA BroadcastOnce ==
  ASSUME IInv, DInv, OnceInv, OneCommandPerHome, NEW p \in Procs, Broadcast(p)
  PROVE  OnceInv'
<1> DEFINE me == proc[p]
           box == IF me.cmd = "flush" THEN Mark(me.box, me.batch, "submitted") ELSE me.box
           next == [me EXCEPT !.pc = "await", !.tx = "pending", !.box = box]
<1>1. /\ me.pc = "submit" /\ Becomes(p, next) /\ SaveOutbox(p, box)
      /\ UNCHANGED <<slot, cursor, fresh, lost, doubt, runs>>
  BY DEF Broadcast
<1>2. /\ me \in Memory /\ MemoryCovered(DOMAIN slot, me) /\ MemoryOK(slot, fresh, HomeOf[p], me)
      /\ Msgs(me.batch) \subseteq Payloads /\ me.cmd \in {"flush", "send"}
  BY <1>1, Running DEF Memory
<1>3. /\ next.pc = "await" /\ next.tx = "pending" /\ next.box = box /\ next.cmd = me.cmd
      /\ next.todo = me.todo /\ next.batch = me.batch /\ next.rest = me.rest
  BY <1>2 DEF Memory
<1>4. \A m \in Payloads : box[m].status = "queued" => me.box[m].status = "queued"
  BY DEF Mark
<1>5. Pending(next) = Pending(me) /\ Landed(me) = {}
  <2>1. me.tx # "landed"
    BY <1>1, <1>2 DEF MemoryCovered
  <2>2. QED
    BY <1>3, <2>1 DEF Pending, Landed
<1>6. Unqueued(box, me.batch) /\ Unqueued(outbox'[HomeOf[p]], me.batch)
  <2>1. CASE me.cmd = "flush"
    <3>1. outbox'[HomeOf[p]] = box
      BY <1>1, <2>1, Parts, TopologyAssumption DEF SaveOutbox, OutboxOK
    <3>2. Unqueued(box, me.batch)
      BY <1>2, <2>1 DEF Unqueued, Mark
    <3>3. QED
      BY <3>1, <3>2
  <2>2. CASE me.cmd = "send"
    <3>1. Unqueued(box, me.batch)
      BY <1>1, <1>2, <2>2 DEF MemoryOK, SendsOne, Unqueued
    <3>2. \A m \in Msgs(me.batch) : outbox[HomeOf[p]][m].status = "absent"
      BY <2>2 DEF OnceInv, ProcOnce, Pending
    <3>3. QED
      BY <1>1, <2>2, <3>1, <3>2 DEF SaveOutbox, Unqueued
  <2>3. QED
    BY <1>2, <2>1, <2>2
<1> HIDE DEF box, next
<1>7. Saves(p)
  BY <1>1, <1>4 DEF Saves
<1>8. QED
  BY <1>1, <1>3, <1>4, <1>5, <1>6, <1>7, OnceGoesOn

\* A home's messages are pending, or in an outbox, of that home only.
LEMMA HomesApart ==
  ASSUME IInv, DInv, OneCommandPerHome, NEW p \in Procs, NEW m \in Payloads,
         MsgHome[m] = HomeOf[p], m \notin fresh
  PROVE  /\ \A q \in Procs : q # p => /\ m \notin Pending(proc[q])
                                      /\ proc[q].box[m].status = "absent"
         /\ \A h \in Homes : h # HomeOf[p] => outbox[h][m].status = "absent"
<1>1. ASSUME NEW q \in Procs, q # p
      PROVE  m \notin Pending(proc[q]) /\ proc[q].box[m].status = "absent"
  <2>1. HomeOf[q] # HomeOf[p]
    BY <1>1 DEF OneCommandPerHome
  <2>2. MemoryOK(slot, fresh, HomeOf[q], proc[q])
    BY DEF DInv
  <2>3. QED
    BY <2>1, <2>2 DEF MemoryOK, TakenOK, BoxOK
<1>2. \A h \in Homes : h # HomeOf[p] => outbox[h][m].status = "absent"
  BY DEF DInv, BoxOK
<1>3. QED
  BY <1>1, <1>2

\* A batch lands once: nothing of it was stored, and nobody else is to send it.
LEMMA IncludeOnce ==
  ASSUME IInv, DInv, OnceInv, OneCommandPerHome, NEW p \in Procs, Include(p)
  PROVE  OnceInv'
<1> DEFINE me == proc[p]
           items == Calldata(me.lane, me.batch)
           next == [me EXCEPT !.tx = IF Accepts(Pool, items) THEN "landed" ELSE "reverted"]
<1>1. /\ me.pc = "await" /\ me.tx = "pending" /\ PrivacyInvoke(Pool, items) /\ Becomes(p, next)
      /\ UNCHANGED <<outbox, cursor, fresh, lost, doubt, runs>>
  BY DEF Include, Call, TheTx
<1>2. /\ me \in Memory /\ me.lane \in Lanes /\ me.batch \in Seq(Item) /\ me.rest \in Seq(Item)
      /\ InOrderOfQueueing(me.batch \o me.rest)
      /\ Msgs(me.batch) \subseteq Payloads
      /\ \A m \in Msgs(me.batch) : m \notin fresh /\ MsgHome[m] = HomeOf[p]
  BY <1>1, Running
<1>3. /\ next.pc = "await" /\ next.box = me.box /\ next.cmd = me.cmd /\ next.todo = me.todo
      /\ next.batch = me.batch /\ next.rest = me.rest
      /\ next.tx = IF Accepts(Pool, items) THEN "landed" ELSE "reverted"
  BY <1>1, <1>2 DEF Memory
<1>4. ProcOnce(slot, doubt, me, outbox[HomeOf[p]])
  BY DEF OnceInv
<1>5. CASE ~ Accepts(Pool, items)
  <2>1. UNCHANGED slot
    BY <1>1, <1>5 DEF PrivacyInvoke
  <2>2. Pending(next) = Pending(me) /\ Landed(me) = {}
    BY <1>1, <1>3 DEF Pending, Landed
  <2>3. Unqueued(next.box, next.batch) /\ Unqueued(outbox'[HomeOf[p]], next.batch)
    BY <1>1, <1>3, <1>4 DEF ProcOnce
  <2> HIDE DEF next
  <2>4. Saves(p)
    BY <1>1 DEF Saves
  <2>5. QED
    BY <1>1, <1>3, <2>1, <2>2, <2>3, <2>4, OnceGoesOn
<1>6. CASE Accepts(Pool, items)
  <2>1. \A m \in Payloads \ Msgs(me.batch) :
          /\ Stores(slot', m) => Stores(slot, m)
          /\ StoredOnce(slot, m) => StoredOnce(slot', m)
    BY <1>1, <1>2, StoresOnly
  <2>2. \A i, j \in DOMAIN me.batch : i # j => me.batch[i].msg # me.batch[j].msg
    <3>1. InOrderOfQueueing(me.batch)
      BY <1>2, OrderInParts
    <3>2. DOMAIN me.batch \subseteq Nat /\ \A k \in DOMAIN me.batch : me.batch[k].msg \in Nat
      BY <1>2, ItemFacts, PayloadsAssumption
    <3>3. QED
      BY <3>1, <3>2 DEF InOrderOfQueueing
  <2>3. \A m \in Msgs(me.batch) \ doubt : StoredOnce(slot', m)
    <3>1. \A m \in Msgs(me.batch) \ doubt : ~ Stores(slot, m)
      BY <1>1, <1>4 DEF ProcOnce, Pending, Landed
    <3>2. Store(items)
      BY <1>1, <1>6 DEF PrivacyInvoke
    <3>3. QED
      BY <1>2, <1>6, <2>2, <3>1, <3>2, LandsOnce
  <2>4. /\ Unqueued(me.box, me.batch) /\ Unqueued(outbox[HomeOf[p]], me.batch)
    BY <1>1, <1>4 DEF ProcOnce
  <2>5. \A m \in Payloads \ doubt' : StoredOnce(slot', m)
    BY <1>1, <2>1, <2>3 DEF OnceInv
  <2>6. \A m \in fresh' \ doubt' : ~ Stores(slot', m)
    <3>1. fresh \subseteq Payloads
      BY Parts DEF CountsOK
    <3>2. QED
      BY <1>1, <1>2, <2>1, <3>1 DEF OnceInv
  <2>7. ASSUME NEW h \in Homes
        PROVE  QueuedNotStored(slot', doubt', outbox'[h])
    <3>1. \A m \in Msgs(me.batch) : outbox[h][m].status # "queued"
      BY <1>2, <2>4, HomesApart DEF Unqueued
    <3>2. QED
      BY <1>1, <2>1, <3>1 DEF OnceInv, QueuedNotStored
  <2>8. ASSUME NEW q \in Procs
        PROVE  ProcOnce(slot', doubt', proc'[q], outbox'[HomeOf[q]])
    <3>1. DOMAIN proc = Procs /\ ProcOnce(slot, doubt, proc[q], outbox[HomeOf[q]])
      BY Parts DEF ProcOK, OnceInv
    <3>2. Pending(proc[q]) \subseteq Payloads
      BY Parts DEF DInv, MemoryOK, TakenOK, ProcOK, Memory
    <3>3. CASE q = p
      <4>1. proc'[q] = next
        BY <1>1, <3>1, <3>3 DEF Becomes
      <4>2. Pending(next) = Pending(me) /\ Landed(next) = Msgs(me.batch)
        BY <1>3, <1>6 DEF Pending, Landed
      <4>3. \A m \in Pending(next) \ (doubt \cup Landed(next)) : ~ Stores(slot', m)
        BY <1>1, <1>4, <2>1, <3>2, <3>3, <4>2 DEF ProcOnce, Landed
      <4>4. QueuedNotStored(slot', doubt, next.box)
        BY <1>3, <1>4, <2>1, <2>4 DEF ProcOnce, QueuedNotStored, Unqueued
      <4> HIDE DEF next
      <4>5. QED
        BY <1>1, <1>3, <1>4, <2>4, <3>3, <4>1, <4>2, <4>3, <4>4 DEF ProcOnce
    <3>4. CASE q # p
      <4>1. proc'[q] = proc[q]
        BY <1>1, <3>1, <3>4 DEF Becomes
      <4>2. \A m \in Msgs(me.batch) : m \notin Pending(proc[q]) /\ proc[q].box[m].status # "queued"
        BY <1>2, <3>4, HomesApart
      <4>3. QED
        BY <1>1, <2>1, <3>1, <3>2, <4>1, <4>2 DEF ProcOnce, QueuedNotStored
    <3>5. QED
      BY <3>3, <3>4
  <2>9. QED
    BY <1>1, <2>5, <2>6, <2>7, <2>8 DEF OnceInv
<1>7. QED
  BY <1>5, <1>6

\* A lost transaction stores only what is in doubt.
LEMMA IncludeLostOnce ==
  ASSUME IInv, DInv, OnceInv, NEW t \in lost, IncludeLost(t)
  PROVE  OnceInv'
<1>1. /\ PrivacyInvoke(Pool, Calldata(t.lane, t.batch))
      /\ lost' = lost \ {t}
      /\ UNCHANGED <<outbox, cursor, fresh, proc, doubt, runs>>
  BY DEF IncludeLost, Call
<1>2. t.lane \in Lanes /\ t.batch \in Seq(Item) /\ Msgs(t.batch) \subseteq doubt
  BY Parts DEF LostOK, Tx, OnceInv
<1>3. \A m \in Payloads \ doubt : /\ Stores(slot', m) => Stores(slot, m)
                                  /\ StoredOnce(slot, m) => StoredOnce(slot', m)
  BY <1>1, <1>2, StoresOnly
<1>4. \A h \in Homes : QueuedNotStored(slot', doubt', outbox'[h])
  BY <1>1, <1>3 DEF OnceInv, QueuedNotStored
<1>5. ASSUME NEW p \in Procs
      PROVE  ProcOnce(slot', doubt', proc'[p], outbox'[HomeOf[p]])
  <2>1. ProcOnce(slot, doubt, proc[p], outbox[HomeOf[p]])
    BY DEF OnceInv
  <2>2. Pending(proc[p]) \subseteq Payloads
    BY Parts DEF DInv, MemoryOK, TakenOK, ProcOK, Memory
  <2>3. QED
    BY <1>1, <1>3, <2>1, <2>2 DEF ProcOnce, QueuedNotStored
<1>6. \A m \in fresh' \ doubt' : ~ Stores(slot', m)
  BY <1>1, <1>3, Parts DEF OnceInv, CountsOK
<1>7. \A m \in Payloads \ doubt' : StoredOnce(slot', m)
  BY <1>1, <1>3 DEF OnceInv
<1>8. QED
  BY <1>1, <1>4, <1>5, <1>6, <1>7 DEF OnceInv

LEMMA RevertsOutsideOnce ==
  ASSUME IInv, DInv, OnceInv, OneCommandPerHome, NEW p \in Procs, RevertsOutside(p)
  PROVE  OnceInv'
<1> DEFINE me == proc[p]
           next == [me EXCEPT !.tx = "reverted"]
<1>1. /\ me.pc = "await" /\ me.tx = "pending" /\ Becomes(p, next)
      /\ UNCHANGED <<slot, outbox, cursor, fresh, lost, doubt, runs>>
  BY DEF RevertsOutside
<1>2. me \in Memory
  BY Parts DEF ProcOK
<1>3. /\ next.pc = "await" /\ next.box = me.box /\ next.cmd = me.cmd /\ next.tx = "reverted"
      /\ next.todo = me.todo /\ next.batch = me.batch /\ next.rest = me.rest
  BY <1>1, <1>2 DEF Memory
<1>4. Pending(next) = Pending(me) /\ Landed(me) = {}
  BY <1>1, <1>3 DEF Pending, Landed
<1>5. Unqueued(next.box, next.batch) /\ Unqueued(outbox'[HomeOf[p]], next.batch)
  BY <1>1, <1>3 DEF OnceInv, ProcOnce
<1> HIDE DEF next
<1>6. Saves(p)
  BY <1>1 DEF Saves
<1>7. QED
  BY <1>1, <1>3, <1>4, <1>5, <1>6, OnceGoesOn

\* A process ends: it has nothing pending any more.
LEMMA EndOnce ==
  ASSUME IInv, OnceInv, OneCommandPerHome, NEW p \in Procs, Becomes(p, NoProcess),
         UNCHANGED <<slot, fresh>>, Saves(p), Abandon(p) \/ UNCHANGED <<lost, doubt>>
  PROVE  OnceInv'
<1>1. /\ NoProcess.pc = "idle" /\ NoProcess.cmd = "flush"
      /\ \A m \in Payloads : NoProcess.box[m].status = "absent"
  BY DEF NoProcess, Absent
<1>2. Pending(NoProcess) = {}
  BY DEF NoProcess, Pending, Msgs
<1>3. QED
  BY <1>1, <1>2, OnceGoesOn

\* A failure: what the process tries again has not landed, or is in doubt.
LEMMA FailOnce ==
  ASSUME IInv, DInv, OnceInv, OneCommandPerHome, NEW p \in Procs, NEW kind,
         proc[p].pc \in {"submit", "await"}, UNCHANGED <<slot, outbox, fresh>>,
         Abandon(p) \/ UNCHANGED <<lost, doubt>>, Landed(proc[p]) \subseteq doubt', Fail(p, kind)
  PROVE  OnceInv'
<1> DEFINE me == proc[p]
<1>1. /\ me \in Memory /\ me.batch \in Seq(Item) /\ me.rest \in Seq(Item)
  BY Running
<1>2. Saves(p)
  BY DEF Saves
<1>3. CASE GiveUp(p)
  BY <1>2, <1>3, EndOnce DEF GiveUp
<1>4. ASSUME NEW pc \in {"submit", "reseal"}, NEW batch \in Seq(Item), NEW rest \in Seq(Item),
             MayRetry(p), batch \o rest = me.batch \o me.rest,
             Retry(p, [me EXCEPT !.pc = pc, !.batch = batch, !.rest = rest])
      PROVE  OnceInv'
  <2> DEFINE next == [me EXCEPT !.pc = pc, !.batch = batch, !.rest = rest,
                                !.attempt = @ + 1, !.tx = "none"]
  <2>1. Becomes(p, next)
    BY <1>1, <1>4 DEF Retry, Memory
  <2>2. /\ next.pc = pc /\ next.box = me.box /\ next.cmd = me.cmd /\ next.tx = "none"
        /\ next.todo = me.todo /\ next.batch = batch /\ next.rest = rest
    BY <1>1 DEF Memory
  <2>3. Msgs(batch) \cup Msgs(rest) = Msgs(me.batch) \cup Msgs(me.rest)
    BY <1>1, <1>4, MsgsConcat
  <2> HIDE DEF next
  <2>4. Pending(next) = Pending(me)
    BY <2>2, <2>3 DEF Pending
  <2>5. QED
    BY <1>2, <2>1, <2>2, <2>4, OnceGoesOn
<1>5. CASE MayRetry(p) /\ Len(me.batch) > 1 /\ Halve(p)
  <2> DEFINE batch == FrontHalf(me.batch)
             rest == BackHalf(me.batch) \o me.rest
  <2>1. batch \in Seq(Item) /\ rest \in Seq(Item) /\ batch \o rest = me.batch \o me.rest
    <3>1. BackHalf(me.batch) \in Seq(Item)
      BY <1>1, <1>5, HalvesProperty
    <3>2. BackHalf(me.batch) \o me.rest \in Seq(Item)
      BY <1>1, <3>1, ConcatProperties
    <3>3. QED
      BY <1>1, <1>5, <3>2, HalvesProperty
  <2>2. Retry(p, [me EXCEPT !.pc = "submit", !.batch = FrontHalf(@), !.rest = BackHalf(me.batch) \o @])
    BY <1>5 DEF Halve
  <2>3. [me EXCEPT !.pc = "submit", !.batch = FrontHalf(@), !.rest = BackHalf(me.batch) \o @]
        = [me EXCEPT !.pc = "submit", !.batch = batch, !.rest = rest]
    BY <1>1 DEF Memory
  <2> HIDE DEF batch, rest
  <2>4. Retry(p, [me EXCEPT !.pc = "submit", !.batch = batch, !.rest = rest])
    BY <2>2, <2>3, Zenon
  <2>5. QED
    BY <1>4, <1>5, <2>1, <2>4
<1>6. CASE MayRetry(p) /\ (Again(p) \/ Retry(p, [me EXCEPT !.pc = "reseal"]))
  <2>1. PICK pc \in {"submit", "reseal"} : Retry(p, [me EXCEPT !.pc = pc])
    BY <1>6 DEF Again
  <2>2. [me EXCEPT !.pc = pc] = [me EXCEPT !.pc = pc, !.batch = me.batch, !.rest = me.rest]
    BY <1>1 DEF Memory
  <2>3. Retry(p, [me EXCEPT !.pc = pc, !.batch = me.batch, !.rest = me.rest])
    BY <2>1, <2>2, Zenon
  <2>4. QED
    BY <1>1, <1>4, <1>6, <2>3
<1>7. QED
  BY <1>3, <1>5, <1>6 DEF Fail

LEMMA FailureOnce ==
  ASSUME IInv, DInv, OnceInv, OneCommandPerHome, NEW p \in Procs,
         (\E kind \in FailureKind : SubmitFails(p, kind) \/ Reverted(p, kind)) \/ AnswerLost(p)
  PROVE  OnceInv'
<1>1. PICK kind \in FailureKind :
        /\ proc[p].pc \in {"submit", "await"}
        /\ Fail(p, kind)
        /\ Abandon(p) \/ UNCHANGED <<lost, doubt>>
        /\ UNCHANGED <<slot, outbox, fresh>>
        /\ Abandon(p) \/ proc[p].pc = "submit" \/ proc[p].tx = "reverted"
  BY Zenon DEF SubmitFails, Reverted, AnswerLost, FailureKind
<1>2. proc[p].pc = "submit" => proc[p].tx # "landed"
  BY Parts DEF ProcOK, MemoryCovered
<1>3. Landed(proc[p]) \subseteq doubt'
  BY <1>1, <1>2 DEF Landed, Abandon
<1>4. QED
  BY <1>1, <1>3, FailOnce

LEMMA ResealOnce ==
  ASSUME IInv, DInv, OnceInv, OneCommandPerHome, NEW p \in Procs, Reseal(p)
  PROVE  OnceInv'
<1> DEFINE me == proc[p]
<1>1. PICK start \in NextFree(me.lane, me.cursors[me.lane]) :
        Becomes(p, [me EXCEPT !.pc = "submit", !.batch = Sealed(Texts(me.batch), start)])
  BY Zenon DEF Reseal
<1>2. me.pc = "reseal" /\ UNCHANGED <<slot, outbox, cursor, fresh, lost, doubt, runs>>
  BY Zenon DEF Reseal
<1> DEFINE again == Sealed(Texts(me.batch), start)
           next == [me EXCEPT !.pc = "submit", !.batch = again]
<1>3. me \in Memory /\ MemoryCovered(DOMAIN slot, me)
  BY <1>2, Running
<1>4. Msgs(again) = Msgs(me.batch)
  BY DEF Sealed, Texts, Msgs
<1> HIDE DEF again
<1>5. /\ next.pc = "submit" /\ next.box = me.box /\ next.cmd = me.cmd /\ next.tx = me.tx
      /\ next.todo = me.todo /\ next.batch = again /\ next.rest = me.rest
  BY <1>3 DEF Memory
<1>6. Becomes(p, next)
  BY <1>1 DEF again
<1> HIDE DEF next
<1>7. Pending(next) = Pending(me) /\ Landed(me) = {}
  BY <1>2, <1>3, <1>4, <1>5 DEF Pending, Landed, MemoryCovered
<1>8. Saves(p)
  BY <1>2 DEF Saves
<1>9. QED
  BY <1>2, <1>5, <1>6, <1>7, <1>8, OnceGoesOn

LEMMA CrashOnce ==
  ASSUME IInv, DInv, OnceInv, OneCommandPerHome, NEW p \in Procs,
         Crash(p) \/ CrashBetweenSaves(p)
  PROVE  OnceInv'
<1>1. /\ Becomes(p, NoProcess) /\ UNCHANGED <<slot, fresh>>
      /\ Abandon(p) \/ UNCHANGED <<lost, doubt>>
  BY Zenon DEF Crash, CrashBetweenSaves
<1>2. Saves(p)
  <2>1. CASE Crash(p)
    BY <2>1, Zenon DEF Crash, Saves
  <2>2. CASE CrashBetweenSaves(p)
    <3>1. SaveOutbox(p, MarkConfirmed(proc[p].box, proc[p].batch))
      BY <2>2, Zenon DEF CrashBetweenSaves
    <3>2. \A m \in Payloads : MarkConfirmed(proc[p].box, proc[p].batch)[m].status = "queued"
            => proc[p].box[m].status = "queued"
      BY DEF MarkConfirmed
    <3>3. QED
      BY <3>1, <3>2 DEF Saves
  <2>3. QED
    BY <2>1, <2>2
<1>3. QED
  BY <1>1, <1>2, EndOnce

\* After a success the process has left what landed behind.
LEMMA ConfirmOnce ==
  ASSUME IInv, DInv, OnceInv, OneCommandPerHome, NEW p \in Procs, Confirm(p)
  PROVE  OnceInv'
<1> DEFINE me == proc[p]
           box == IF me.cmd = "flush" THEN MarkConfirmed(me.box, me.batch) ELSE me.box
           past == CursorPast(me.batch)
           done == [me EXCEPT !.box = box, !.cursors[me.lane] = past]
           next == Continue(done)
<1>1. /\ Succeeded(p) /\ me.pc = "await" /\ me.tx = "landed"
      /\ Becomes(p, next)
      /\ SaveOutbox(p, IF next.pc = "submit" THEN next.box ELSE box)
      /\ UNCHANGED <<slot, fresh, lost, doubt, runs>>
  BY DEF Confirm, Succeeded
<1>2. /\ me \in Memory /\ MemoryCovered(DOMAIN slot, me)
      /\ MemoryOK(slot, fresh, HomeOf[p], me)
      /\ me.box \in [Payloads -> Entry] /\ me.lane \in Lanes
      /\ me.batch \in Seq(Item) /\ me.rest \in Seq(Item) /\ me.batch # <<>>
  BY <1>1, Running
<1>3. past \in Nat
  <2>1. Climbs(me.batch)
    BY <1>2, BatchCovered DEF MemoryCovered
  <2>2. QED
    BY <1>2, <2>1, LastIndexProperty DEF CursorPast
<1>4. box \in [Payloads -> Entry]
  BY <1>2, MarkConfirmedType
<1>5. \A m \in Payloads : box[m].status = "queued" => me.box[m].status = "queued"
  BY DEF MarkConfirmed
<1>a. done = [me EXCEPT !.box = box, !.cursors[me.lane] = past]
  OBVIOUS
<1> HIDE DEF box, past, done, next
<1>b. me \in Memory
  BY <1>2
<1> HIDE DEF me
<1>6. MarksDone(done, me, box)
  BY <1>a, <1>b, <1>3, <1>4, DoneFields, Zenon
<1>7. /\ \A m \in Pending(next) : m \in me.todo \cup Msgs(me.rest)
      /\ next.pc # "await"
      /\ \A m \in Payloads : next.box[m].status = "queued" => box[m].status = "queued"
      /\ next.cmd = "send" => me.cmd = "send"
  <2>0. Msgs(<<>>) = {} /\ <<>> \in Seq(Item)
    BY DEF Msgs
  <2>1. CASE me.rest # <<>>
    <3>1. next = NextTransaction(done, me.rest, <<>>)
      BY <1>6, <2>1 DEF next, Continue, MarksDone
    <3>2. OnlySubmits(done, me.rest, <<>>, next)
      BY <1>2, <1>6, <2>0, <3>1, NextTransactionFields, Zenon DEF MarksDone
    <3>3. QED
      BY <1>6, <2>0, <3>2 DEF OnlySubmits, MarksDone, Pending
  <2>2. CASE me.rest = <<>> /\ me.todo # {}
    <3>1. next = [done EXCEPT !.pc = "seal", !.batch = <<>>, !.tx = "none"]
      BY <1>6, <2>2 DEF next, Continue, MarksDone
    <3>2. /\ next.pc = "seal" /\ next.batch = <<>> /\ next.rest = done.rest /\ next.cmd = done.cmd
          /\ next.todo = done.todo /\ next.box = done.box
      BY <1>6, <3>1 DEF MarksDone, Memory
    <3>3. QED
      BY <1>6, <2>0, <3>2 DEF MarksDone, Pending
  <2>3. CASE me.rest = <<>> /\ me.todo = {}
    <3>1. next = NoProcess
      BY <1>6, <2>3 DEF next, Continue, MarksDone
    <3>2. QED
      BY <2>0, <3>1 DEF NoProcess, Pending, Absent
  <2>4. QED
    BY <2>1, <2>2, <2>3
<1>8. \A m \in me.todo \cup Msgs(me.rest) : m \notin Msgs(me.batch)
  <2>1. \A m \in me.todo : m \notin Msgs(me.batch)
    BY <1>1, <1>2 DEF MemoryOK, Arranged
  <2>2. \A n \in Msgs(me.batch), m \in Msgs(me.rest) : n < m
    BY <1>2, OrderInParts DEF MemoryOK, Arranged
  <2>3. Msgs(me.batch) \subseteq Nat
    BY <1>2, MsgsConcat, PayloadsAssumption
  <2>4. QED
    BY <2>1, <2>2, <2>3
<1>9. Pending(next) \subseteq Pending(me) /\ \A m \in Pending(next) : m \notin Landed(me)
  BY <1>7, <1>8 DEF Pending, Landed
<1>10. Saves(p)
  BY <1>1, <1>5, <1>7 DEF Saves, me
<1>11. QED
  BY <1>1, <1>5, <1>7, <1>9, <1>10, OnceGoesOn DEF me

LEMMA InitOnce == Init => OnceInv
<1> SUFFICES ASSUME Init
             PROVE  OnceInv
  OBVIOUS
<1>1. slot = [id \in {} |-> EmptyPayload]
  BY DEF Init, SlotInit
<1>2. \A p \in Procs : proc[p] = NoProcess
  BY DEF Init
<1>3. NoProcess.pc = "idle" /\ NoProcess.cmd = "flush"
  BY DEF NoProcess
<1>4. QED
  BY <1>1, <1>2, <1>3 DEF Init, OnceInv, Stores, StoredOnce, QueuedNotStored, ProcOnce

LEMMA NextOnce == OneCommandPerHome /\ IInv /\ DInv /\ OnceInv /\ [Next]_vars => OnceInv'
<1> SUFFICES ASSUME OneCommandPerHome, IInv, DInv, OnceInv, [Next]_vars
             PROVE  OnceInv'
  OBVIOUS
<1>1. ASSUME NEW m \in Payloads, Queue(m)
      PROVE  OnceInv'
  BY <1>1, QueueOnce
<1>2. ASSUME NEW p \in Procs, StartFlush(p) \/ StartSend(p)
      PROVE  OnceInv'
  BY <1>2, StartOnce
<1>3. ASSUME NEW p \in Procs, Advance(p)
      PROVE  OnceInv'
  BY <1>3, SealLaneOnce, BroadcastOnce, IncludeOnce, RevertsOutsideOnce,
     ConfirmOnce, FailureOnce, ResealOnce
     DEF Advance
<1>4. ASSUME NEW p \in Procs, Crash(p) \/ CrashBetweenSaves(p)
      PROVE  OnceInv'
  BY <1>4, CrashOnce
<1>5. ASSUME NEW t \in lost, IncludeLost(t)
      PROVE  OnceInv'
  BY <1>5, IncludeLostOnce
<1>6. CASE UNCHANGED vars
  BY <1>6 DEF vars, OnceInv, StoredOnce, Stores, QueuedNotStored, ProcOnce
<1>7. QED
  BY <1>1, <1>2, <1>3, <1>4, <1>5, <1>6 DEF Next

\* Where one command at a time runs over a home, the retry loop never stores a
\* message twice, unless the outcome of one of its transactions went unread.
THEOREM StoredAtMostOnce == OneCommandPerHome /\ Spec => []AtMostOnce
<1> SUFFICES ASSUME OneCommandPerHome
             PROVE  Spec => []AtMostOnce
  OBVIOUS
<1>1. IInv /\ OnceInv => AtMostOnce
  BY Parts, StoredOnceCounts DEF OnceInv, AtMostOnce, ChainOK
<1>2. IInv /\ DInv /\ OnceInv /\ [Next]_vars => OnceInv'
  BY NextOnce
<1>3. QED
  BY <1>1, <1>2, Invariant, DeliveryInvariant, InitOnce, PTL DEF Spec

-----------------------------------------------------------------------------
(* The lanes implement the abstract logs.                                  *)

LEMMA DistinctInOrder ==
  ASSUME NEW items \in Seq(Item), InOrderOfQueueing(items)
  PROVE  \A i, j \in DOMAIN items : i # j => items[i].msg # items[j].msg
<1>1. DOMAIN items = 1..Len(items) /\ Len(items) \in Nat
  BY ItemFacts
<1>2. \A k \in DOMAIN items : items[k].msg \in Nat
  BY ItemFacts, PayloadsAssumption
<1>3. QED
  BY <1>1, <1>2 DEF InOrderOfQueueing

LEMMA NextLogs == IInv /\ DInv /\ [Next]_vars => Log!LogNext \/ UNCHANGED slot
<1> SUFFICES ASSUME IInv, DInv, [Next]_vars
             PROVE  Log!LogNext \/ UNCHANGED slot
  OBVIOUS
<1>1. ASSUME NEW p \in Procs, Include(p)
      PROVE  Log!LogNext \/ UNCHANGED slot
  <2>1. proc[p].pc = "await" /\ PrivacyInvoke(Pool, Calldata(proc[p].lane, proc[p].batch))
    BY <1>1 DEF Include, Call, TheTx
  <2>2. /\ proc[p].lane \in Lanes /\ proc[p].batch \in Seq(Item) /\ proc[p].rest \in Seq(Item)
        /\ InOrderOfQueueing(proc[p].batch \o proc[p].rest)
    BY <2>1, Running
  <2>3. InOrderOfQueueing(proc[p].batch)
    BY <2>2, OrderInParts
  <2>4. ChainOK /\ Covered(DOMAIN slot, proc[p].lane, proc[p].batch)
    BY Parts, Batch
  <2>5. QED
    BY <2>1, <2>2, <2>3, <2>4, DistinctInOrder, InvokeLogs
<1>2. ASSUME NEW t \in lost, IncludeLost(t)
      PROVE  Log!LogNext \/ UNCHANGED slot
  <2>1. PrivacyInvoke(Pool, Calldata(t.lane, t.batch))
    BY <1>2 DEF IncludeLost, Call
  <2>2. t.lane \in Lanes /\ t.batch \in Seq(Item) /\ InOrderOfQueueing(t.batch)
    BY Parts DEF LostOK, Tx, DInv
  <2>3. ChainOK /\ Covered(DOMAIN slot, t.lane, t.batch)
    BY Parts DEF LostOK
  <2>4. QED
    BY <2>1, <2>2, <2>3, DistinctInOrder, InvokeLogs
<1>3. ASSUME NEW m \in Payloads, Queue(m)
      PROVE  UNCHANGED slot
  BY <1>3 DEF Queue
<1>4. ASSUME NEW p \in Procs, StartFlush(p) \/ StartSend(p) \/ Crash(p) \/ CrashBetweenSaves(p)
      PROVE  UNCHANGED slot
  BY <1>4, Zenon DEF StartFlush, StartSend, Crash, CrashBetweenSaves
<1>5. ASSUME NEW p \in Procs, Advance(p), ~ Include(p)
      PROVE  UNCHANGED slot
  BY <1>5, Zenon DEF Advance, SealLane, Broadcast, RevertsOutside, Confirm, SubmitFails, Reverted,
                     AnswerLost, Reseal
<1>6. CASE UNCHANGED vars
  BY <1>6 DEF vars
<1>7. QED
  BY <1>1, <1>2, <1>3, <1>4, <1>5, <1>6 DEF Next

\* Seen from the chain, every step of every command, its crashes and its lost
\* transactions included, appends one batch of distinct messages to one lane,
\* or changes none.
THEOREM LanesImplementLogs == Spec => LanesAreLogs
<1> DEFINE log == [l \in Lanes |-> [i \in 1..LaneLength(l) |-> slot[<<l, i-1>>]]]
<1>1. Init => Log!LogInit
  BY LogStarts DEF Init
<1>2. IInv /\ DInv /\ [Next]_vars => [Log!LogNext]_log
  BY NextLogs, LogSame
<1>3. QED
  BY <1>1, <1>2, Invariant, DeliveryInvariant, PTL DEF Spec, LanesAreLogs, Log!LogSpec
=============================================================================
