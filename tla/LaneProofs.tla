----------------------------- MODULE LaneProofs -----------------------------
(***************************************************************************)
(* What is proved of lanes and slots whoever writes them.  First the       *)
(* lemmas that the proofs about the two writers share: what the operators  *)
(* on outboxes, indices and batches return, and what a landing does.  Then *)
(* the contents of a slot: what goes into it comes out of it again.        *)
(***************************************************************************)
EXTENDS LaneDensity, Wire, FiniteSetTheorems, SequenceTheorems, NaturalsInduction,
        WellFoundedInduction, TLAPS

\* The items of a batch by index.
LEMMA ItemFacts ==
  ASSUME NEW items \in Seq(Item)
  PROVE  /\ DOMAIN items = 1..Len(items) /\ Len(items) \in Nat
         /\ \A k \in DOMAIN items : /\ items[k] \in Item
                                    /\ items[k].index \in Nat
                                    /\ items[k].msg \in Payloads
<1>1. DOMAIN items = 1..Len(items) /\ Len(items) \in Nat
  OBVIOUS
<1>2. \A k \in DOMAIN items : items[k] \in Item
  OBVIOUS
<1>3. QED
  BY <1>1, <1>2 DEF Item

\* The walk from a cursor returns an empty slot that everything from the
\* cursor up to it precedes (nextFreeIndex).
LEMMA WalkProperty ==
  ASSUME NEW lane \in Lanes, NEW from \in Nat, IsFiniteSet(DOMAIN slot),
         NEW i \in NextFree(lane, from)
  PROVE  /\ i \in Nat
         /\ <<lane, i>> \notin DOMAIN slot
         /\ \A j \in from..i-1 : <<lane, j>> \in DOMAIN slot
<1>1. Cardinality(DOMAIN slot) \in Nat
  BY FS_CardinalityType
<1>2. QED
  BY <1>1 DEF NextFree, Occupied

\* The order in which entries are sealed lists them all (Outbox.take).
LEMMA OldestFirstProperty ==
  ASSUME IsFiniteSet(Payloads), NEW entries \in SUBSET Payloads, entries # {},
         NEW msgs \in OldestFirst(entries)
  PROVE  /\ msgs \in Seq(Payloads)
         /\ msgs # <<>>
         /\ \A k \in DOMAIN msgs : msgs[k] \in entries
<1>1. IsFiniteSet(entries)
  BY FS_Subset
<1>2. Cardinality(entries) \in Nat \ {0}
  BY <1>1, FS_CardinalityType, FS_EmptySet
<1>3. msgs \in [1..Cardinality(entries) -> entries]
  BY DEF OldestFirst
<1>4. msgs \in Seq(Payloads) /\ Len(msgs) = Cardinality(entries)
  BY <1>2, <1>3
<1>5. QED
  BY <1>2, <1>3, <1>4, EmptySeq

\* A batch sealed at the end of a dense part of the lane is covered, and its
\* indices rise by one (sealBatch).
LEMMA SealedProperty ==
  ASSUME NEW lane \in Lanes, NEW msgs \in Seq(Payloads), NEW start \in Nat,
         NEW occupied, Reaches(occupied, lane, start)
  PROVE  /\ Sealed(msgs, start) \in Seq(Item)
         /\ Len(Sealed(msgs, start)) = Len(msgs)
         /\ Covered(occupied, lane, Sealed(msgs, start))
         /\ Climbs(Sealed(msgs, start))
<1> DEFINE items == Sealed(msgs, start)
<1>1. items = [k \in 1..Len(msgs) |-> [msg |-> msgs[k], index |-> start + k - 1]]
  BY DEF Sealed
<1>2. /\ items \in Seq(Item)
      /\ Len(items) = Len(msgs)
      /\ DOMAIN items = 1..Len(msgs)
      /\ \A k \in 1..Len(msgs) : items[k].index = start + k - 1
  <2>1. \A k \in 1..Len(msgs) : [msg |-> msgs[k], index |-> start + k - 1] \in Item
    BY DEF Item
  <2>2. QED
    BY <1>1, <2>1
<1> HIDE DEF items
<1>3. Climbs(items)
  BY <1>2 DEF Climbs
<1>4. Covered(occupied, lane, items)
  <2> SUFFICES ASSUME NEW k \in 1..Len(msgs), NEW j \in 0..(start + k - 1)-1,
                      <<lane, j>> \notin occupied
               PROVE  \E i \in 1..k-1 : items[i].index = j
    BY <1>2 DEF Covered
  <2>1. j >= start
    BY DEF Reaches
  <2>2. j - start + 1 \in 1..k-1
    BY <2>1
  <2>3. items[j - start + 1].index = j
    BY <1>2, <2>2
  <2>4. QED
    BY <2>2, <2>3
<1>5. QED
  BY <1>2, <1>3, <1>4 DEF items

\* More occupied slots keep a batch covered.
LEMMA CoveredGrows ==
  ASSUME NEW occupied, NEW later, occupied \subseteq later, NEW lane, NEW items,
         Covered(occupied, lane, items)
  PROVE  Covered(later, lane, items)
BY DEF Covered

-----------------------------------------------------------------------------
(* Marks.                                                                  *)

\* A marked outbox is an outbox (Outbox.mark).
LEMMA MarkType ==
  ASSUME NEW box \in [Payloads -> Entry], NEW items, NEW status \in Status
  PROVE  Mark(box, items, status) \in [Payloads -> Entry]
BY DEF Mark, Entry

\* The index that goes with "confirmed" is one that the message was sealed at.
LEMMA IndexOfProperty ==
  ASSUME NEW items \in Seq(Item), NEW m \in Msgs(items)
  PROVE  \E k \in DOMAIN items : items[k].msg = m /\ items[k].index = IndexOf(items, m)
<1> DEFINE Names(i) == /\ i \in {items[k].index : k \in DOMAIN items}
                       /\ \E k \in DOMAIN items : items[k] = [msg |-> m, index |-> i]
<1>1. PICK k \in DOMAIN items : items[k].msg = m
  BY DEF Msgs
<1>2. items[k] = [msg |-> m, index |-> items[k].index]
  BY <1>1, ItemFacts DEF Item
<1>3. Names(items[k].index)
  BY <1>2
<1>4. Names(CHOOSE i : Names(i))
  BY <1>3
<1>5. IndexOf(items, m) = CHOOSE i : Names(i)
  BY DEF IndexOf
<1>6. QED
  BY <1>4, <1>5

LEMMA MarkConfirmedType ==
  ASSUME NEW box \in [Payloads -> Entry], NEW items \in Seq(Item)
  PROVE  MarkConfirmed(box, items) \in [Payloads -> Entry]
<1>1. \A m \in Msgs(items) : IndexOf(items, m) \in Nat
  BY IndexOfProperty, ItemFacts
<1>2. QED
  BY <1>1 DEF MarkConfirmed, Entry, Status

-----------------------------------------------------------------------------
(* Landing.                                                                *)

\* A transaction that the helper accepts adds its slots, replaces none, and,
\* when its batch is covered, leaves every lane dense (privacy_invoke).
LEMMA StoreProperty ==
  ASSUME NEW lane \in Lanes, NEW items \in Seq(Item),
         Accepts(Pool, Calldata(lane, items)), Store(Calldata(lane, items))
  PROVE  /\ DOMAIN slot' = DOMAIN slot \cup {<<lane, items[k].index>> : k \in DOMAIN items}
         /\ \A id \in DOMAIN slot : slot'[id] = slot[id]
         /\ \A id \in DOMAIN slot' \ DOMAIN slot : slot'[id] \in Payloads
         /\ IsFiniteSet(DOMAIN slot) => IsFiniteSet(DOMAIN slot')
<1> DEFINE messages == Calldata(lane, items)
           ids == {messages[k].msg_id : k \in DOMAIN messages}
<1>1. /\ DOMAIN messages = DOMAIN items
      /\ \A k \in DOMAIN items : messages[k] = [msg_id |-> <<lane, items[k].index>>,
                                                ciphertext |-> items[k].msg]
  BY DEF Calldata
<1>2. ids = {<<lane, items[k].index>> : k \in DOMAIN items}
  <2>1. \A k \in DOMAIN items : messages[k].msg_id = <<lane, items[k].index>>
    BY <1>1
  <2> HIDE DEF messages
  <2>2. QED
    BY <1>1, <2>1
<1>3. slot' = [id \in DOMAIN slot \cup ids |->
                 IF id \in ids THEN CiphertextFor(messages, id) ELSE slot[id]]
  BY DEF Store
<1>4. ids \cap DOMAIN slot = {}
  <2>1. \A k \in DOMAIN messages : messages[k].msg_id \notin DOMAIN slot
    BY DEF Accepts
  <2>2. QED
    BY <2>1
<1>5. \A id \in ids : CiphertextFor(messages, id) \in Payloads
  <2> SUFFICES ASSUME NEW id \in ids
               PROVE  CiphertextFor(messages, id) \in Payloads
    OBVIOUS
  <2>1. \E k \in DOMAIN messages : messages[k].msg_id = id
    OBVIOUS
  <2>2. PICK k \in DOMAIN messages : CiphertextFor(messages, id) = messages[k].ciphertext
    BY <2>1 DEF CiphertextFor
  <2>3. QED
    BY <1>1, <2>2, ItemFacts
<1>6. IsFiniteSet(DOMAIN slot) => IsFiniteSet(DOMAIN slot \cup ids)
  <2>1. IsFiniteSet(1..Len(items))
    BY ItemFacts, FS_Interval
  <2> DEFINE f == [k \in 1..Len(items) |-> <<lane, items[k].index>>]
  <2>2. f \in Surjection(1..Len(items), ids)
    BY <1>2, ItemFacts DEF Surjection
  <2>3. IsFiniteSet(ids)
    BY <2>1, <2>2, FS_Surjection DEF ExistsSurjection
  <2>4. QED
    BY <2>3, FS_Union
<1> HIDE DEF messages, ids
<1>7. QED
  BY <1>2, <1>3, <1>4, <1>5, <1>6

\* What landed is stored under the indices it was sealed at (privacy_invoke).
LEMMA StoredItems ==
  ASSUME NEW lane \in Lanes, NEW items \in Seq(Item),
         Accepts(Pool, Calldata(lane, items)), Store(Calldata(lane, items))
  PROVE  \A k \in DOMAIN items : slot'[<<lane, items[k].index>>] = items[k].msg
<1> DEFINE messages == Calldata(lane, items)
           ids == {messages[k].msg_id : k \in DOMAIN messages}
<1>1. /\ DOMAIN messages = 1..Len(items) /\ DOMAIN items = 1..Len(items) /\ Len(items) \in Nat
      /\ \A k \in DOMAIN items : messages[k] = [msg_id |-> <<lane, items[k].index>>,
                                                ciphertext |-> items[k].msg]
  BY ItemFacts DEF Calldata
<1>2. slot' = [id \in DOMAIN slot \cup ids |->
                 IF id \in ids THEN CiphertextFor(messages, id) ELSE slot[id]]
  BY DEF Store
<1>3. \A k \in DOMAIN messages : \A j \in 1..k-1 : messages[k].msg_id # messages[j].msg_id
  BY DEF Accepts
<1> HIDE DEF messages
<1>4. ASSUME NEW k \in DOMAIN items
      PROVE  CiphertextFor(messages, messages[k].msg_id) = items[k].msg
  <2> DEFINE Names(j) == j \in DOMAIN messages /\ messages[j].msg_id = messages[k].msg_id
  <2>1. Names(k)
    BY <1>1
  <2>2. Names(CHOOSE j : Names(j))
    BY <2>1
  <2>3. CiphertextFor(messages, messages[k].msg_id) = messages[CHOOSE j : Names(j)].ciphertext
    BY DEF CiphertextFor
  <2>4. ASSUME NEW j, Names(j)
        PROVE  j = k
    <3>1. ~ (j \in 1..k-1) /\ ~ (k \in 1..j-1)
      BY <1>1, <1>3, <2>1, <2>4
    <3>2. QED
      BY <1>1, <2>4, <3>1
  <2> HIDE DEF Names
  <2>5. (CHOOSE j : Names(j)) = k
    BY <2>2, <2>4
  <2>6. messages[k].ciphertext = items[k].msg
    BY <1>1
  <2>7. QED
    BY <2>3, <2>5, <2>6, Zenon
<1>5. \A k \in DOMAIN items : messages[k].msg_id = <<lane, items[k].index>> /\ messages[k].msg_id \in ids
  BY <1>1
<1> HIDE DEF ids
<1>6. QED
  BY <1>2, <1>4, <1>5

LEMMA ChainSame ==
  ASSUME ChainOK, UNCHANGED slot
  PROVE  ChainOK'
BY DEF ChainOK, LaneDense, Occupied

\* A landing batch that is covered leaves the chain dense.
LEMMA LandDense ==
  ASSUME ChainOK, NEW lane \in Lanes, NEW items \in Seq(Item),
         Covered(DOMAIN slot, lane, items),
         Accepts(Pool, Calldata(lane, items)), Store(Calldata(lane, items))
  PROVE  /\ ChainOK'
         /\ DOMAIN slot \subseteq DOMAIN slot'
         /\ Stored(DOMAIN slot', lane, items)
<1>1. /\ DOMAIN slot' = DOMAIN slot \cup {<<lane, items[k].index>> : k \in DOMAIN items}
      /\ \A id \in DOMAIN slot : slot'[id] = slot[id]
      /\ \A id \in DOMAIN slot' \ DOMAIN slot : slot'[id] \in Payloads
      /\ IsFiniteSet(DOMAIN slot')
  BY StoreProperty DEF ChainOK
<1>2. \A k \in DOMAIN items : items[k].index \in Nat
  BY ItemFacts
<1>3. Stored(DOMAIN slot', lane, items)
  BY <1>1 DEF Stored
<1>4. DOMAIN slot' \subseteq MsgId /\ \A id \in DOMAIN slot' : slot'[id] \in Payloads
  BY <1>1, <1>2 DEF ChainOK, MsgId
<1>5. LaneDense'
  <2> SUFFICES ASSUME NEW id \in DOMAIN slot', NEW i \in 0..id[2]-1
               PROVE  <<id[1], i>> \in DOMAIN slot'
    BY DEF LaneDense, Occupied
  <2>1. CASE id \in DOMAIN slot
    BY <1>1, <2>1 DEF ChainOK, LaneDense, Occupied
  <2>2. CASE id \notin DOMAIN slot
    <3>1. PICK k \in DOMAIN items : id = <<lane, items[k].index>>
      BY <1>1, <2>2
    <3>2. <<lane, i>> \in DOMAIN slot \/ \E j \in 1..k-1 : items[j].index = i
      BY <3>1 DEF Covered
    <3>3. 1..k-1 \subseteq DOMAIN items
      BY <3>1, ItemFacts
    <3>4. QED
      BY <1>1, <3>1, <3>2, <3>3
  <2>3. QED
    BY <2>1, <2>2
<1>6. QED
  BY <1>1, <1>3, <1>4, <1>5 DEF ChainOK

\* An empty slot lies behind everything that is stored in its lane.
LEMMA EmptyIsLast ==
  ASSUME ChainOK, NEW lane \in Lanes, NEW i \in Nat, NEW j \in Nat,
         <<lane, i>> \notin DOMAIN slot, <<lane, j>> \in DOMAIN slot
  PROVE  j < i
<1> SUFFICES ASSUME ~ (j < i)
             PROVE  FALSE
  OBVIOUS
<1>1. CASE i = j
  BY <1>1
<1>2. CASE i # j
  <2>1. i \in 0..j-1
    BY <1>2
  <2>2. \A k \in 0..<<lane, j>>[2]-1 : <<<<lane, j>>[1], k>> \in DOMAIN slot
    BY DEF ChainOK, LaneDense, Occupied
  <2>3. QED
    BY <2>1, <2>2
<1>3. QED
  BY <1>1, <1>2

\* A covered batch that the helper accepts lies in order behind everything that
\* is stored in its lane, whatever resealing has done to its indices.
LEMMA AcceptedAscends ==
  ASSUME ChainOK, NEW lane \in Lanes, NEW items \in Seq(Item),
         Covered(DOMAIN slot, lane, items), Accepts(Pool, Calldata(lane, items))
  PROVE  /\ \A k \in DOMAIN items : <<lane, items[k].index>> \notin DOMAIN slot
         /\ Ascending(items)
<1> DEFINE messages == Calldata(lane, items)
<1>1. /\ DOMAIN messages = DOMAIN items
      /\ \A k \in DOMAIN items : messages[k].msg_id = <<lane, items[k].index>>
  BY DEF Calldata
<1>2. \A k \in DOMAIN messages :
        messages[k].msg_id \notin DOMAIN slot \cup {messages[j].msg_id : j \in 1..k-1}
  BY DEF Accepts
<1> HIDE DEF messages
<1>3. \A k \in DOMAIN items : <<lane, items[k].index>> \notin DOMAIN slot
  BY <1>1, <1>2
<1>4. /\ DOMAIN items = 1..Len(items) /\ Len(items) \in Nat
      /\ \A k \in DOMAIN items : items[k].index \in Nat
  BY ItemFacts
<1>5. \A i, k \in DOMAIN items : i < k => items[i].index # items[k].index
  <2> SUFFICES ASSUME NEW i \in DOMAIN items, NEW k \in DOMAIN items, i < k
               PROVE  items[i].index # items[k].index
    OBVIOUS
  <2>1. i \in 1..k-1
    BY <1>4
  <2>2. messages[k].msg_id # messages[i].msg_id
    BY <1>1, <1>2, <2>1
  <2>3. QED
    BY <1>1, <2>2
<1>6. ASSUME NEW i \in DOMAIN items, NEW k \in DOMAIN items, i < k,
             ~ (items[i].index < items[k].index)
      PROVE  FALSE
  <2>1. items[k].index \in 0..items[i].index-1
    BY <1>4, <1>5, <1>6
  <2>2. PICK e \in 1..i-1 : items[e].index = items[k].index
    BY <1>3, <2>1 DEF Covered
  <2>3. e \in DOMAIN items /\ e < k
    BY <1>4, <1>6, <2>2
  <2>4. QED
    BY <1>5, <2>2, <2>3
<1>7. QED
  BY <1>3, <1>6 DEF Ascending

\* The order in which entries are sealed is that of their numbers, and leaves
\* none of them out (Outbox.take).
LEMMA OldestFirstComplete ==
  ASSUME IsFiniteSet(Payloads), Payloads \subseteq Nat, NEW entries \in SUBSET Payloads,
         NEW msgs \in OldestFirst(entries)
  PROVE  /\ \A i, j \in DOMAIN msgs : i < j => msgs[i] < msgs[j]
         /\ \A m \in entries : \E k \in DOMAIN msgs : msgs[k] = m
<1> DEFINE n == Cardinality(entries)
<1>1. IsFiniteSet(entries) /\ n \in Nat
  BY FS_Subset, FS_CardinalityType
<1>2. /\ msgs \in [1..n -> entries]
      /\ \A i, j \in 1..n : i < j => msgs[i] < msgs[j]
  BY DEF OldestFirst
<1>3. msgs \in Injection(1..n, entries)
  <2> SUFFICES ASSUME NEW i \in 1..n, NEW j \in 1..n, msgs[i] = msgs[j], i # j
               PROVE  FALSE
    BY <1>2 DEF Injection, IsInjective
  <2>1. msgs[i] \in Nat
    BY <1>2
  <2> HIDE DEF n
  <2>2. i < j \/ j < i
    BY <1>1
  <2>3. QED
    BY <1>2, <2>1, <2>2
<1>4. IsFiniteSet(1..n) /\ Cardinality(1..n) = n
  BY <1>1, FS_Interval
<1>5. msgs \in Surjection(1..n, entries)
  BY <1>1, <1>3, <1>4, FS_Injection
<1>6. QED
  BY <1>2, <1>5 DEF Surjection

\* A transaction stores the messages of its batch and no others.
LEMMA StoresOnly ==
  ASSUME NEW lane \in Lanes, NEW items \in Seq(Item), PrivacyInvoke(Pool, Calldata(lane, items)),
         NEW m, m \notin Msgs(items)
  PROVE  /\ Stores(slot', m) => Stores(slot, m)
         /\ StoredOnce(slot, m) => StoredOnce(slot', m)
<1>1. CASE ~ Accepts(Pool, Calldata(lane, items))
  BY <1>1 DEF PrivacyInvoke
<1>2. CASE Accepts(Pool, Calldata(lane, items))
  <2>1. /\ DOMAIN slot' = DOMAIN slot \cup {<<lane, items[k].index>> : k \in DOMAIN items}
        /\ \A id \in DOMAIN slot : slot'[id] = slot[id]
        /\ \A k \in DOMAIN items : slot'[<<lane, items[k].index>>] = items[k].msg
    BY <1>2, StoreProperty, StoredItems DEF PrivacyInvoke
  <2>2. \A id \in DOMAIN slot' : slot'[id] = m => id \in DOMAIN slot /\ slot[id] = m
    BY <2>1 DEF Msgs
  <2>3. QED
    BY <2>1, <2>2 DEF Stores, StoredOnce
<1>3. QED
  BY <1>1, <1>2

\* It stores each of them in one slot.
LEMMA LandsOnce ==
  ASSUME NEW lane \in Lanes, NEW items \in Seq(Item),
         Accepts(Pool, Calldata(lane, items)), Store(Calldata(lane, items)),
         \A i, j \in DOMAIN items : i # j => items[i].msg # items[j].msg,
         NEW m, ~ Stores(slot, m)
  PROVE  StoredOnce(slot', m)
<1>1. /\ DOMAIN slot' = DOMAIN slot \cup {<<lane, items[k].index>> : k \in DOMAIN items}
      /\ \A id \in DOMAIN slot : slot'[id] = slot[id]
      /\ \A k \in DOMAIN items : slot'[<<lane, items[k].index>>] = items[k].msg
  BY StoreProperty, StoredItems
<1>2. \A id \in DOMAIN slot' : slot'[id] = m =>
        \E k \in DOMAIN items : id = <<lane, items[k].index>> /\ items[k].msg = m
  BY <1>1 DEF Stores
<1>3. QED
  BY <1>2 DEF StoredOnce

\* In terms of cardinality, where storage is finite.
LEMMA StoredOnceCounts ==
  ASSUME IsFiniteSet(DOMAIN slot), NEW m, StoredOnce(slot, m)
  PROVE  Cardinality({id \in DOMAIN slot : slot[id] = m}) <= 1
<1> DEFINE S == {id \in DOMAIN slot : slot[id] = m}
<1> SUFFICES Cardinality(S) <= 1
  OBVIOUS
<1>1. CASE S = {}
  BY <1>1, FS_EmptySet
<1>2. CASE S # {}
  <2>1. PICK id \in S : S = {id}
    BY <1>2 DEF StoredOnce
  <2> HIDE DEF S
  <2>2. Cardinality(S) = 1
    BY <2>1, FS_Singleton
  <2>3. QED
    BY <2>2
<1> HIDE DEF S
<1>3. QED
  BY <1>1, <1>2

-----------------------------------------------------------------------------
(* A lane is a log.                                                        *)

\* The occupied indices of a lane without gaps are those below its length.
LEMMA Lengths ==
  ASSUME NEW occupied, IsFiniteSet(occupied), occupied \subseteq MsgId,
         \A id \in occupied : \A i \in 0 .. id[2]-1 : <<id[1], i>> \in occupied,
         NEW l \in Lanes
  PROVE  /\ Cardinality({id \in occupied : id[1] = l}) \in Nat
         /\ \A i \in Nat : <<l, i>> \in occupied <=> i < Cardinality({id \in occupied : id[1] = l})
<1> DEFINE S == {id \in occupied : id[1] = l}
           c == Cardinality(S)
           Free == {i \in Nat : <<l, i>> \notin occupied}
<1>1. IsFiniteSet(S) /\ c \in Nat
  BY FS_Subset, FS_CardinalityType
<1>2. \A id \in S : id[2] \in Nat /\ id = <<l, id[2]>>
  BY DEF MsgId
<1>3. Free # {}
  <2> SUFFICES ASSUME \A i \in Nat : <<l, i>> \in occupied
               PROVE  FALSE
    OBVIOUS
  <2> DEFINE f == [i \in 0..c |-> <<l, i>>]
  <2>1. \A i \in 0..c : <<l, i>> \in S
    BY <1>1
  <2> HIDE DEF S, c
  <2>2. f \in Injection(0..c, S)
    BY <2>1 DEF Injection, IsInjective
  <2>3. Cardinality(0..c) <= c
    BY <1>1, <2>2, FS_Injection DEF c
  <2>4. Cardinality(0..c) = c + 1
    <3> HIDE DEF c
    <3>0. 0 \in Int /\ c \in Int
      BY <1>1
    <3>1. Cardinality(0..c) = IF 0 > c THEN 0 ELSE c - 0 + 1
      BY <3>0, FS_Interval, Zenon
    <3>2. QED
      BY <1>1, <3>1
  <2>5. QED
    BY <1>1, <2>3, <2>4
<1>4. PICK n \in Free : \A m \in Free : ~ (m < n)
  <2>1. PICK n \in Free : \A m \in Free : ~ (<<m, n>> \in OpToRel(<, Nat))
    BY <1>3, WFMin, NatLessThanWellFounded, Zenon
  <2>2. QED
    BY <2>1, Zenon DEF OpToRel
<1>5. \A i \in Nat : <<l, i>> \in occupied <=> i < n
  <2> SUFFICES ASSUME NEW i \in Nat
               PROVE  <<l, i>> \in occupied <=> i < n
    OBVIOUS
  <2>1. n \in Nat /\ <<l, n>> \notin occupied
    OBVIOUS
  <2>2. ASSUME i < n
        PROVE  <<l, i>> \in occupied
    BY <1>4, <2>1, <2>2
  <2>3. ASSUME <<l, i>> \in occupied, ~ (i < n)
        PROVE  FALSE
    <3>1. n # i
      BY <2>1, <2>3
    <3>2. n \in 0 .. <<l, i>>[2]-1
      BY <2>1, <2>3, <3>1
    <3>3. <<<<l, i>>[1], n>> \in occupied
      BY <2>3, <3>2
    <3>4. QED
      BY <2>1, <3>3
  <2>4. QED
    BY <2>2, <2>3
<1>6. c = n
  <2> DEFINE g == [k \in 1..n |-> <<l, k-1>>]
  <2>1. n \in Nat
    OBVIOUS
  <2>2. \A k \in 1..n : <<l, k-1>> \in S
    BY <1>5, <2>1
  <2>3. \A id \in S : id[2] + 1 \in 1..n /\ id = <<l, (id[2] + 1) - 1>>
    BY <1>2, <1>5, <2>1
  <2> HIDE DEF S, c, Free
  <2>4. g \in Bijection(1..n, S)
    <3>1. g \in Injection(1..n, S)
      BY <2>1, <2>2 DEF Injection, IsInjective
    <3>2. g \in Surjection(1..n, S)
      <4>1. g \in [1..n -> S]
        BY <2>2
      <4>2. \A id \in S : \E k \in 1..n : g[k] = id
        BY <2>3
      <4>3. QED
        BY <4>1, <4>2 DEF Surjection
    <3>3. QED
      BY <3>1, <3>2 DEF Bijection
  <2>5. ExistsBijection(1..n, S)
    BY <2>4 DEF ExistsBijection
  <2>6. QED
    BY <2>1, <2>5, FS_CountingElements DEF c
<1>7. QED
  BY <1>1, <1>5, <1>6

\* Two facts about sequences, the longer of which begins with the shorter.
LEMMA PrefixOf ==
  ASSUME NEW S, NEW was \in Seq(S), NEW is \in Seq(S), Len(was) <= Len(is),
         \A i \in 1..Len(was) : was[i] = is[i]
  PROVE  /\ SubSeq(is, 1, Len(was)) = was
         /\ DOMAIN SubSeq(is, Len(was) + 1, Len(is)) = 1..(Len(is) - Len(was))
         /\ \A i \in 1..(Len(is) - Len(was)) : SubSeq(is, Len(was) + 1, Len(is))[i] = is[Len(was) + i]
<1> DEFINE n == Len(was)
           m == Len(is)
<1>1. n \in Nat /\ m \in Nat /\ DOMAIN was = 1..n
  OBVIOUS
<1>2. SubSeq(is, 1, n) = was
  <2>1. SubSeq(is, 1, n) \in Seq(S) /\ Len(SubSeq(is, 1, n)) = n
    BY <1>1, SubSeqProperties
  <2>2. \A i \in 1..n : SubSeq(is, 1, n)[i] = was[i]
    BY <1>1, SubSeqProperties
  <2> HIDE DEF n, m
  <2>3. QED
    BY <1>1, <2>1, <2>2, SeqEqual DEF n
<1>3. /\ DOMAIN SubSeq(is, n + 1, m) = 1..(m - n)
      /\ \A i \in 1..(m - n) : SubSeq(is, n + 1, m)[i] = is[n + i]
  BY <1>1
<1>4. QED
  BY <1>2, <1>3

LEMMA NoItems ==
  ASSUME NEW f, DOMAIN f = 1..0, f = [i \in 1..0 |-> f[i]]
  PROVE  f = <<>>
<1>1. f \in Seq(Nat) /\ Len(f) = 0
  OBVIOUS
<1>2. QED
  BY <1>1, EmptySeq

\* A batch of distinct messages that lands appends itself to its lane.
LEMMA LandAppends ==
  ASSUME ChainOK, NEW lane \in Lanes, NEW items \in Seq(Item),
         Covered(DOMAIN slot, lane, items),
         Accepts(Pool, Calldata(lane, items)), Store(Calldata(lane, items)),
         \A i, j \in DOMAIN items : i # j => items[i].msg # items[j].msg
  PROVE  Log!LogNext
<1> DEFINE len == [l \in Lanes |-> LaneLength(l)]
           later == [l \in Lanes |-> LaneLength(l)']
           old == [l \in Lanes |-> [i \in 1..LaneLength(l) |-> slot[<<l, i-1>>]]]
           new == [l \in Lanes |-> [i \in 1..LaneLength(l)' |-> slot'[<<l, i-1>>]]]
<1>1. /\ DOMAIN slot' = DOMAIN slot \cup {<<lane, items[k].index>> : k \in DOMAIN items}
      /\ \A id \in DOMAIN slot : slot'[id] = slot[id]
      /\ \A k \in DOMAIN items : slot'[<<lane, items[k].index>>] = items[k].msg
      /\ \A k \in DOMAIN items : <<lane, items[k].index>> \notin DOMAIN slot
      /\ items # <<>>
  <2>1. items # <<>>
    BY DEF Accepts, Calldata
  <2>2. \A k \in DOMAIN items : <<lane, items[k].index>> \notin DOMAIN slot
    BY AcceptedAscends
  <2>3. \A k \in DOMAIN items : slot'[<<lane, items[k].index>>] = items[k].msg
    BY StoredItems
  <2>4. QED
    BY <2>1, <2>2, <2>3, StoreProperty
<1>2. ChainOK'
  BY LandDense
<1>3. \A l \in Lanes : /\ len[l] \in Nat
                       /\ \A i \in Nat : <<l, i>> \in DOMAIN slot <=> i < len[l]
  BY Lengths DEF LaneLength, ChainOK, LaneDense, Occupied
<1>4. \A l \in Lanes : /\ later[l] \in Nat
                       /\ \A i \in Nat : <<l, i>> \in DOMAIN slot' <=> i < later[l]
  BY <1>2, Lengths DEF LaneLength, ChainOK, LaneDense, Occupied
<1>5. \A l \in Lanes : old[l] = [i \in 1..len[l] |-> slot[<<l, i-1>>]]
  OBVIOUS
<1>6. \A l \in Lanes : new[l] = [i \in 1..later[l] |-> slot'[<<l, i-1>>]]
  OBVIOUS
<1>7. \A id \in DOMAIN slot' : slot'[id] \in Payloads
  BY <1>2 DEF ChainOK
<1>8. ChainOK
  OBVIOUS
<1>9. old = [l \in Lanes |-> old[l]] /\ new = [l \in Lanes |-> new[l]]
  OBVIOUS
<1> HIDE DEF len, later, old, new
<1>10. len[lane] < later[lane]
  <2>1. 1 \in DOMAIN items /\ items[1].index \in Nat
    BY <1>1, ItemFacts, EmptySeq
  <2>2. ~ (items[1].index < len[lane]) /\ items[1].index < later[lane]
    BY <1>1, <1>3, <1>4, <2>1
  <2>3. QED
    BY <1>3, <1>4, <2>1, <2>2
<1>11. ASSUME NEW l \in Lanes, l # lane
       PROVE  new[l] = old[l]
  <2>1. \A i \in Nat : <<l, i>> \in DOMAIN slot' <=> <<l, i>> \in DOMAIN slot
    BY <1>1, <1>11
  <2>2. ~ (len[l] < later[l]) /\ ~ (later[l] < len[l])
    <3>1. len[l] \in Nat /\ later[l] \in Nat
      BY <1>3, <1>4
    <3>2. /\ len[l] < len[l] <=> len[l] < later[l]
          /\ later[l] < len[l] <=> later[l] < later[l]
      BY <1>3, <1>4, <2>1, <3>1
    <3>3. QED
      BY <3>1, <3>2
  <2>3. later[l] = len[l]
    BY <1>3, <1>4, <2>2
  <2>4. \A i \in 1..len[l] : slot'[<<l, i-1>>] = slot[<<l, i-1>>]
    BY <1>1, <1>3
  <2>5. /\ new[l] = [i \in 1..len[l] |-> slot'[<<l, i-1>>]]
        /\ old[l] = [i \in 1..len[l] |-> slot[<<l, i-1>>]]
    BY <1>5, <1>6, <2>3
  <2>6. [i \in 1..len[l] |-> slot'[<<l, i-1>>]] = [i \in 1..len[l] |-> slot[<<l, i-1>>]]
    BY <2>4
  <2>7. QED
    BY <2>5, <2>6
<1>12. new = [old EXCEPT ![lane] = new[lane]]
  BY <1>9, <1>11
<1> DEFINE n == len[lane]
           m == later[lane]
           was == old[lane]
           is == new[lane]
<1>13. /\ n \in Nat /\ m \in Nat /\ n < m
       /\ was = [i \in 1..n |-> slot[<<lane, i-1>>]]
       /\ is = [i \in 1..m |-> slot'[<<lane, i-1>>]]
  BY <1>3, <1>4, <1>5, <1>6, <1>10
<1>14. \A i \in 1..m : slot'[<<lane, i-1>>] \in Payloads
  BY <1>4, <1>7
<1>15. \A i \in 1..n : slot'[<<lane, i-1>>] = slot[<<lane, i-1>>]
  BY <1>1, <1>3
<1>16. \A i, j \in (n+1)..m : i # j => slot'[<<lane, i-1>>] # slot'[<<lane, j-1>>]
  <2>1. ASSUME NEW i \in (n+1)..m
        PROVE  \E k \in DOMAIN items : i - 1 = items[k].index /\ slot'[<<lane, i-1>>] = items[k].msg
    <3>1. i - 1 \in Nat /\ i - 1 < m /\ ~ (i - 1 < n)
      BY <1>13
    <3>2. <<lane, i-1>> \in DOMAIN slot' /\ <<lane, i-1>> \notin DOMAIN slot
      BY <1>3, <1>4, <3>1
    <3>3. QED
      BY <1>1, <3>2
  <2> SUFFICES ASSUME NEW i \in (n+1)..m, NEW j \in (n+1)..m,
                      slot'[<<lane, i-1>>] = slot'[<<lane, j-1>>]
               PROVE  i = j
    OBVIOUS
  <2>2. PICK k \in DOMAIN items : i - 1 = items[k].index /\ slot'[<<lane, i-1>>] = items[k].msg
    BY <2>1
  <2>3. PICK h \in DOMAIN items : j - 1 = items[h].index /\ slot'[<<lane, j-1>>] = items[h].msg
    BY <2>1
  <2>4. k = h
    BY <2>2, <2>3
  <2>5. QED
    BY <1>13, <2>2, <2>3, <2>4
<1> HIDE DEF n, m, was, is
<1>17. /\ was \in Seq(Payloads) /\ Len(was) = n /\ is \in Seq(Payloads) /\ Len(is) = m
       /\ \A i \in 1..m : is[i] = slot'[<<lane, i-1>>]
       /\ \A i \in 1..n : was[i] = is[i]
  BY <1>13, <1>14, <1>15
<1>18. /\ SubSeq(is, 1, Len(was)) = was
       /\ DOMAIN SubSeq(is, n + 1, m) = 1..(m - n)
       /\ \A i \in 1..(m - n) : SubSeq(is, n + 1, m)[i] = is[n + i]
  <2>1. n <= m
    BY <1>13
  <2>2. Len(was) <= Len(is) /\ \A i \in 1..Len(was) : was[i] = is[i]
    BY <1>17, <2>1, Zenon
  <2>3. QED
    BY <1>17, <2>2, PrefixOf
<1>19. \A i, j \in DOMAIN SubSeq(is, Len(was) + 1, Len(is)) :
         i # j => SubSeq(is, Len(was) + 1, Len(is))[i] # SubSeq(is, Len(was) + 1, Len(is))[j]
  <2>1. \A i \in 1..(m - n) : n + i \in (n+1)..m /\ n + i \in 1..m
    BY <1>13
  <2>2. \A i, j \in 1..(m - n) : i # j => is[n + i] # is[n + j]
    BY <1>13, <1>16, <1>17, <2>1
  <2>3. QED
    BY <1>17, <1>18, <2>2
<1>20. /\ is \in Seq(Payloads) /\ Len(is) > Len(was) /\ SubSeq(is, 1, Len(was)) = was
       /\ \A i, j \in DOMAIN SubSeq(is, Len(was) + 1, Len(is)) :
            i # j => SubSeq(is, Len(was) + 1, Len(is))[i] # SubSeq(is, Len(was) + 1, Len(is))[j]
  BY <1>13, <1>17, <1>18, <1>19
<1>21. Log!Land(lane)
  BY <1>12, <1>20, Zenon DEF Log!Land, Log!Appended, was, is, old, new
<1>22. QED
  BY <1>21 DEF Log!LogNext

LEMMA LogSame ==
  ASSUME UNCHANGED slot
  PROVE  UNCHANGED [l \in Lanes |-> [i \in 1..LaneLength(l) |-> slot[<<l, i-1>>]]]
BY DEF LaneLength

LEMMA LogStarts ==
  ASSUME SlotInit
  PROVE  Log!LogInit
<1>1. \A l \in Lanes : LaneLength(l) = 0
  <2>1. \A l \in Lanes : {id \in DOMAIN slot : id[1] = l} = {}
    BY DEF SlotInit
  <2>2. QED
    BY <2>1, FS_EmptySet DEF LaneLength
<1>2. ASSUME NEW l \in Lanes
      PROVE  [i \in 1..LaneLength(l) |-> slot[<<l, i-1>>]] = <<>>
  <2> DEFINE f == [i \in 1..LaneLength(l) |-> slot[<<l, i-1>>]]
  <2>1. LaneLength(l) = 0
    BY <1>1
  <2>2. DOMAIN f = 1..0 /\ f = [i \in 1..0 |-> f[i]]
    BY <2>1
  <2> HIDE DEF f
  <2>3. f = <<>>
    BY <2>2, NoItems
  <2>4. QED
    BY <2>3 DEF f
<1>3. QED
  BY <1>2 DEF Log!LogInit

\* Whatever a transaction with distinct messages does, it does to one log.
LEMMA InvokeLogs ==
  ASSUME ChainOK, NEW lane \in Lanes, NEW items \in Seq(Item),
         Covered(DOMAIN slot, lane, items), PrivacyInvoke(Pool, Calldata(lane, items)),
         \A i, j \in DOMAIN items : i # j => items[i].msg # items[j].msg
  PROVE  Log!LogNext \/ UNCHANGED slot
BY LandAppends DEF PrivacyInvoke

-----------------------------------------------------------------------------
(***************************************************************************)
(* The contents of a slot.                                                 *)
(***************************************************************************)
\* BucketFor is the smallest bucket that holds the body: nothing smaller
\* does, and one does exactly when the body has at most MaxBody bytes.
THEOREM BucketSmallest ==
    ASSUME NEW len \in Nat
    PROVE  /\ len <= MaxBody <=> \E b \in Buckets : Fits(len, b)
           /\ len <= MaxBody => /\ BucketFor(len) \in Buckets
                                /\ Fits(len, BucketFor(len))
           /\ \A b \in Buckets : Fits(len, b) => BucketFor(len) <= b
BY DEF MaxBody, Buckets, Fits, BucketFor, HeaderLen

\* The length of a body survives its 4 bytes.
LEMMA LenRead ==
    ASSUME NEW len \in Nat, NEW bucket \in Buckets, Fits(len, bucket), NEW m
    PROVE  LenIn(Frame(m, len, bucket)) = len
<1> DEFINE p == Frame(m, len, bucket)
<1>1. len \in 0..4051 /\ bucket >= 256 /\ bucket \in Nat
  BY DEF Fits, Buckets, HeaderLen
<1>2. {41, 42, 43, 44} \subseteq 0..(bucket - 1)
  BY <1>1
<1>3. p[41] = 0 /\ p[42] = 0 /\ p[43] = len \div 256 /\ p[44] = len % 256
  BY <1>1, <1>2 DEF Frame, LenByte, HeaderLen
<1>4. len = 256 * (len \div 256) + (len % 256)
  BY <1>1
<1> QED
  BY <1>1, <1>3, <1>4 DEF LenIn

\* A frame is made of bytes.
LEMMA FrameBytes ==
    ASSUME NEW len \in Nat, NEW m \in Contents(len),
           NEW bucket \in Buckets, Fits(len, bucket)
    PROVE  Frame(m, len, bucket) \in Buffer(bucket)
<1>1. bucket \in Nat /\ HeaderLen + len <= bucket /\ len <= 4051
  BY DEF Buckets, Fits, HeaderLen
<1>2. /\ \A i \in 0..31 : m.sender[i] \in Byte
      /\ \A i \in 0..7 : m.time[i] \in Byte
      /\ \A i \in 0..(len - 1) : m.body[i] \in Byte
  <2>1. /\ m.sender \in [0..31 -> Byte] /\ m.time \in [0..7 -> Byte]
        /\ m.body \in [0..(len - 1) -> Byte]
    BY DEF Contents, Buffer
  <2> QED
    BY <2>1
<1>3. \A i \in Int : LenByte(len, i) \in Byte
  BY <1>1 DEF LenByte, Byte
<1>4. Version \in Byte /\ 0 \in Byte
  BY DEF Version, Byte
<1>5. ASSUME NEW i \in 0..(bucket - 1) PROVE Frame(m, len, bucket)[i] \in Byte
  <2>1. CASE i = 0
    BY <1>4, <2>1 DEF Frame
  <2>2. CASE 0 < i /\ i < 33
    <3>1. i - 1 \in 0..31 /\ Frame(m, len, bucket)[i] = m.sender[i - 1]
      BY <2>2 DEF Frame
    <3> QED
      BY <1>2, <3>1
  <2>3. CASE 33 <= i /\ i < 41
    <3>1. i - 33 \in 0..7 /\ Frame(m, len, bucket)[i] = m.time[i - 33]
      BY <2>3 DEF Frame
    <3> QED
      BY <1>2, <3>1
  <2>4. CASE 41 <= i /\ i < HeaderLen
    BY <1>3, <2>4 DEF Frame
  <2>5. CASE HeaderLen <= i /\ i < HeaderLen + len
    <3>1. /\ i - HeaderLen \in 0..(len - 1)
          /\ Frame(m, len, bucket)[i] = m.body[i - HeaderLen]
      BY <1>1, <2>5 DEF Frame, HeaderLen
    <3> QED
      BY <1>2, <3>1
  <2>6. CASE HeaderLen + len <= i
    BY <1>1, <1>4, <2>6 DEF Frame, HeaderLen
  <2> QED
    BY <2>1, <2>2, <2>3, <2>4, <2>5, <2>6, <1>1 DEF HeaderLen
<1>6. Frame(m, len, bucket) = [i \in 0..(bucket - 1) |-> Frame(m, len, bucket)[i]]
  BY DEF Frame
<1> QED
  BY <1>5, <1>6 DEF Buffer

\* A frame is accepted by unframe, which returns the message that was framed.
THEOREM FrameRoundTrip ==
    ASSUME NEW len \in Nat, NEW m \in Contents(len),
           NEW bucket \in Buckets, Fits(len, bucket)
    PROVE  /\ Framed(Frame(m, len, bucket), bucket)
           /\ Unframe(Frame(m, len, bucket)) = m
<1> DEFINE p == Frame(m, len, bucket)
<1>0. bucket \in Nat /\ HeaderLen + len <= bucket
  BY DEF Buckets, Fits, HeaderLen
<1>1. LenIn(p) = len
  BY LenRead
<1>2. ASSUME NEW i \in 0..(bucket - 1)
      PROVE  /\ i = 0 => p[i] = Version
             /\ 0 < i /\ i < 33 => p[i] = m.sender[i - 1]
             /\ 33 <= i /\ i < 41 => p[i] = m.time[i - 33]
             /\ HeaderLen <= i /\ i < HeaderLen + len => p[i] = m.body[i - HeaderLen]
             /\ HeaderLen + len <= i => p[i] = 0
  BY <1>0, <1>2 DEF Frame, HeaderLen
<1> HIDE DEF p
<1>3. Framed(p, bucket)
  BY <1>0, <1>1, <1>2 DEF Framed, HeaderLen
<1>4. [i \in 0..31 |-> p[i + 1]] = m.sender
  <2>1. \A i \in 0..31 : p[i + 1] = m.sender[i]
    BY <1>0, <1>2 DEF HeaderLen
  <2>2. m.sender \in [0..31 -> Byte]
    BY DEF Contents, Buffer
  <2> QED
    BY <2>1, <2>2
<1>5. [i \in 0..7 |-> p[i + 33]] = m.time
  <2>1. \A i \in 0..7 : p[i + 33] = m.time[i]
    BY <1>0, <1>2 DEF HeaderLen
  <2>2. m.time \in [0..7 -> Byte]
    BY DEF Contents, Buffer
  <2> QED
    BY <2>1, <2>2
<1>6. [i \in 0..(len - 1) |-> p[i + HeaderLen]] = m.body
  <2>1. \A i \in 0..(len - 1) : p[i + HeaderLen] = m.body[i]
    BY <1>0, <1>2 DEF HeaderLen
  <2> QED
    BY <2>1 DEF Contents, Buffer
<1>7. Unframe(p) = m
  BY <1>1, <1>4, <1>5, <1>6 DEF Unframe, Contents
<1> QED
  BY <1>3, <1>7 DEF p

\* The division by the size of a chunk.
LEMMA Divided ==
    ASSUME NEW k \in Nat
    PROVE  /\ k \div Chunk \in Nat /\ k % Chunk \in 0..(Chunk - 1)
           /\ k = Chunk * (k \div Chunk) + (k % Chunk)
BY DEF Chunk

\* A felt for every byte, and no felt without one.
LEMMA FeltOfByte ==
    ASSUME NEW n \in Nat, NEW k \in 0..(n - 1)
    PROVE  k \div Chunk \in 0..(FeltCount(n) - 1)
BY DEF FeltCount, Chunk

\* The bytes of a ciphertext of any length are packed into felts that
\* unpackFelts takes, and come back in their order.
THEOREM FeltRoundTrip ==
    ASSUME NEW n \in Nat, NEW c \in Buffer(n)
    PROVE  /\ \A f \in DOMAIN PackFelts(c, n) : PackFelts(c, n)[f] \in Felt
           /\ Unpackable(PackFelts(c, n), n)
           /\ UnpackFelts(PackFelts(c, n), n) = c
<1> DEFINE felts == PackFelts(c, n)
<1>1. FeltCount(n) \in Nat
  BY DEF FeltCount, Chunk
<1>2. ASSUME NEW f \in 0..(FeltCount(n) - 1), NEW j \in 0..(Chunk - 1)
      PROVE  felts[f][j] = IF Chunk * f + j < n THEN c[Chunk * f + j] ELSE 0
  BY <1>2 DEF PackFelts
<1>3. DOMAIN felts = 0..(FeltCount(n) - 1)
  BY DEF PackFelts
<1>4. ASSUME NEW f \in 0..(FeltCount(n) - 1) PROVE felts[f] \in Felt
  <2>1. \A j \in 0..(Chunk - 1) :
           (IF Chunk * f + j < n THEN c[Chunk * f + j] ELSE 0) \in Byte
    BY <1>1 DEF Buffer, Byte, Chunk
  <2> QED
    BY <2>1 DEF PackFelts, Felt, Buffer
<1>5. Unpackable(felts, n)
  <2>1. ASSUME NEW f \in 0..(FeltCount(n) - 1), NEW j \in 0..(Chunk - 1),
               Chunk * f + j >= n
        PROVE  felts[f][j] = 0
    BY <1>1, <1>2, <2>1 DEF Chunk
  <2> QED
    BY <1>3, <2>1 DEF Unpackable
<1>6. UnpackFelts(felts, n) = c
  <2>1. ASSUME NEW k \in 0..(n - 1)
        PROVE  felts[k \div Chunk][k % Chunk] = c[k]
    <3>1. k \in Nat /\ k < n
      OBVIOUS
    <3>2. k \div Chunk \in 0..(FeltCount(n) - 1)
      BY FeltOfByte
    <3>3. k % Chunk \in 0..(Chunk - 1) /\ Chunk * (k \div Chunk) + (k % Chunk) = k
      BY <3>1, Divided
    <3> QED
      BY <1>2, <3>1, <3>2, <3>3
  <2> QED
    BY <2>1 DEF UnpackFelts, Buffer
<1> QED
  BY <1>3, <1>4, <1>5, <1>6

\* The number of felts in a slot tells the length of the ciphertext, which the
\* slot does not hold: no two buckets take the same number of felts.
THEOREM LengthFromFelts ==
    ASSUME NEW bucket \in Buckets
    PROVE  /\ Openable(FeltCount(CtLen(bucket)))
           /\ CtLenByFelts(FeltCount(CtLen(bucket))) = CtLen(bucket)
<1>1. FeltCount(272) = 9 /\ FeltCount(1040) = 34 /\ FeltCount(4112) = 133
  BY DEF FeltCount, Chunk
<1>2. CtLen(bucket) \in {272, 1040, 4112}
  BY DEF Buckets, CtLen, TagLen
<1> QED
  BY <1>1, <1>2 DEF Openable, CtLenByFelts

\* What was sealed for a slot opens to the message that was sealed.
THEOREM SlotRoundTrip ==
    ASSUME NEW len \in Nat, NEW m \in Contents(len),
           NEW bucket \in Buckets, Fits(len, bucket),
           NEW enc \in [Buffer(bucket) -> Buffer(CtLen(bucket))], NEW dec,
           \A p \in Buffer(bucket) : dec[enc[p]] = p
    PROVE  LET felts == Seal(m, len, bucket, enc)
               count == FeltCount(CtLen(bucket))
           IN  /\ Opens(felts, count, dec, bucket)
               /\ Open(felts, count, dec) = m
<1> DEFINE p == Frame(m, len, bucket)
           n == CtLen(bucket)
           felts == Seal(m, len, bucket, enc)
           count == FeltCount(n)
<1>1. p \in Buffer(bucket)
  BY FrameBytes
<1>2. n \in Nat /\ enc[p] \in Buffer(n)
  BY <1>1 DEF CtLen, TagLen, Buckets
<1>3. Openable(count) /\ CtLenByFelts(count) = n
  BY LengthFromFelts
<1>4. Unpackable(felts, n) /\ UnpackFelts(felts, n) = enc[p]
  BY <1>2, FeltRoundTrip DEF Seal
<1>5. Plain(felts, count, dec) = p
  BY <1>1, <1>3, <1>4 DEF Plain
<1> QED
  BY <1>3, <1>4, <1>5, FrameRoundTrip DEF Opens, Open

\* A slot read through slots() comes back whole.
THEOREM SpanRoundTrip ==
    ASSUME NEW S, NEW felts \in Seq(S)
    PROVE  SpanWhole(Span(felts)) /\ ParseSpan(Span(felts)) = felts
<1> DEFINE res == Span(felts)
<1>1. Len(felts) \in Nat
  BY LenProperties
<1>2. res[1] = Len(felts) /\ Len(res) = 1 + Len(felts)
  BY <1>1 DEF Span
<1>3. \A i \in 1..Len(felts) : res[i + 1] = felts[i]
  BY <1>1 DEF Span
<1>4. /\ Len(ParseSpan(res)) = Len(felts)
      /\ \A i \in 1..Len(felts) : ParseSpan(res)[i] = res[i + 1]
  BY <1>1, <1>2 DEF ParseSpan
<1> QED
  BY <1>1, <1>2, <1>3, <1>4 DEF SpanWhole, ParseSpan, Span

\* The price shown is the price of the frame: the slots of a tier are the
\* felts of its ciphertext, its length and the carrier, and a longer body never
\* costs less.
THEOREM PricedAsSealed ==
    ASSUME NEW len \in Nat, ~TooLong(len)
    PROVE  /\ SlotsFor(BucketFor(len)) = FeltCount(CtLen(BucketFor(len))) + 4
           /\ \A n \in 0..len : SlotsFor(BucketFor(n)) <= SlotsFor(BucketFor(len))
BY DEF SlotsFor, FeltCount, CtLen, TagLen, Chunk, BucketFor, Fits, HeaderLen, TooLong, MaxBody

\* A warning at the boundary is of the bytes that are left: one more than those
\* and the frame is of the next tier.
THEOREM BoundaryExact ==
    ASSUME NEW len \in Nat, NEW within \in Nat, NearBoundary(len, within)
    PROVE  LET left == BucketFor(len) - (len + HeaderLen)
           IN  /\ left \in Nat /\ left < within
               /\ BucketFor(len + left) = BucketFor(len)
               /\ BucketFor(len + left + 1) = NextTier(BucketFor(len))
BY DEF NearBoundary, TooLong, MaxBody, BucketFor, NextTier, Fits, HeaderLen

\* A payment that was encoded is recognised, and is decoded to itself.
THEOREM PaymentRoundTrip ==
    ASSUME NEW len \in Nat, NEW p \in Payment(len)
    PROVE  LET n == PaymentHeaderLen + len
           IN  /\ IsPayment(EncodePayment(p, len), n)
               /\ DecodePayment(EncodePayment(p, len), n) = p
<1> DEFINE n == PaymentHeaderLen + len
           b == EncodePayment(p, len)
<1>0. n \in Nat /\ n >= 52 /\ PaymentHeaderLen = 52
  BY DEF PaymentHeaderLen
<1>1. ASSUME NEW i \in 0..(n - 1)
      PROVE  /\ i < 4 => b[i] = Magic[i + 1]
             /\ 4 <= i /\ i < 36 => b[i] = p.token[i - 4]
             /\ 36 <= i /\ i < 52 => b[i] = p.amount[i - 36]
             /\ 52 <= i => b[i] = p.text[i - 52]
  BY <1>0, <1>1 DEF EncodePayment
<1> HIDE DEF b
<1>2. IsPayment(b, n)
  BY <1>0, <1>1 DEF IsPayment
<1>3. [i \in 0..31 |-> b[i + 4]] = p.token
  <2>1. \A i \in 0..31 : b[i + 4] = p.token[i]
    BY <1>0, <1>1
  <2>2. p.token \in [0..31 -> Byte]
    BY DEF Payment, Buffer
  <2> QED
    BY <2>1, <2>2
<1>4. [i \in 0..15 |-> b[i + 36]] = p.amount
  <2>1. \A i \in 0..15 : b[i + 36] = p.amount[i]
    BY <1>0, <1>1
  <2>2. p.amount \in [0..15 -> Byte]
    BY DEF Payment, Buffer
  <2> QED
    BY <2>1, <2>2
<1>5. [i \in 0..(n - PaymentHeaderLen - 1) |-> b[i + PaymentHeaderLen]] = p.text
  <2>1. \A i \in 0..(len - 1) : b[i + 52] = p.text[i]
    BY <1>0, <1>1
  <2>2. n - PaymentHeaderLen - 1 = len - 1
    BY <1>0
  <2> QED
    BY <1>0, <2>1, <2>2 DEF Payment, Buffer
<1> QED
  BY <1>2, <1>3, <1>4, <1>5 DEF DecodePayment, Payment, b
=============================================================================
