---------------------------- MODULE StoreProofs ----------------------------
(***************************************************************************)
(* Proofs about WebStore: what the contact list and the syncs of the web   *)
(* application never lose, and where its messages land, for any number of  *)
(* connections, peers, suspended operations and steps.                     *)
(***************************************************************************)
EXTENDS WebStore, FiniteSetTheorems, SequenceTheorems, NaturalsInduction, WellFoundedInduction, TLAPS

-----------------------------------------------------------------------------
(***************************************************************************)
(* The inductive invariant.                                                *)
(***************************************************************************)

AllLabels == Labels \cup (Peers \X Nat)
LaneOf == [from : {"me", "peer"}, of : Connections, peer : Peers]
ContactOf ==
    [label : AllLabels, peer : Peers, outKey : LaneOf \cup {NoLane},
     inKey : LaneOf \cup {NoLane}, registered : BOOLEAN, setupDone : BOOLEAN,
     obj : Nat]
Operation ==
    [at : {"idle", "reconcile"} \cup Calls, via : Connections \cup {NoConnection},
     label : Labels \cup {NoLane}, peer : Peers \cup {NoLane},
     contact : ContactOf \cup {NoLane}, todo : Seq(ContactOf) \cup Seq(LaneOf),
     lanes : SUBSET LaneOf, changed : BOOLEAN, index : Nat, syncs : BOOLEAN]

SessionOK ==
    /\ config \in Connections \cup {NoConnection}
    /\ contacts \in Seq(ContactOf)
    /\ disk \in [config : Connections \cup {NoConnection},
                 contacts : Seq(ContactOf), history : SUBSET LaneOf]
    /\ syncing \in BOOLEAN /\ made \in Nat
WorldOK ==
    /\ registered \subseteq Connections \X Peers
    /\ opened \subseteq LaneOf /\ IsFiniteSet(opened)
    /\ slots \subseteq Connections \X LaneOf \X Nat /\ IsFiniteSet(slots)

\* What an operation holds depends on where it waits.
Holds(r) ==
    /\ r \in Operation
    /\ r.at # "idle" => r.via \in Connections
    /\ r.at \in {"add: registered?", "add: lane"} =>
          r.label \in Labels /\ r.peer \in Peers
    /\ r.at \in {"refresh: registered?", "refresh: lane"} => r.contact \in ContactOf
    /\ r.at \in {"walk", "submit"} => r.contact \in ContactOf /\ r.contact.outKey \in LaneOf
    /\ r.at = "reconcile" => r.todo \in Seq(ContactOf) /\ r.todo # <<>>
    /\ r.at \in {"found: registered?", "found: lane"} =>
          r.todo \in Seq(LaneOf) /\ r.todo # <<>>
    /\ r.at = "read" => r.syncs
    /\ r.syncs => r.at \in Scans \cup {"read"}
OpsOK == DOMAIN op = Ops /\ \A o \in Ops : Holds(op[o])

TypeOK == SessionOK /\ WorldOK /\ OpsOK

Unique(list) == \A i, j \in DOMAIN list : list[i].label = list[j].label => i = j
ListsOK == Unique(contacts) /\ Unique(disk.contacts) /\ NoContactLost

OneSender ==
    \A o, q \in Ops : op[o].at \in {"walk", "submit"} /\ op[q].at \in {"walk", "submit"}
                         => o = q

\* Shown as registered, and if so with the lane of this connection.
Derived(c) ==
    config \in PoolConnections =>
        Registered(config, c.peer) /\ c.outKey = Out(config, c.peer)
NoKey(c) == ~c.registered => c.outKey = NoLane

\* An operation is of this connection, and of what the chain says there.
Fits(r) ==
    /\ r.at # "idle" => r.via = config
    /\ r.at \in {"add: lane", "refresh: lane", "reconcile"} \cup Scans =>
          config \in PoolConnections
    /\ r.at = "add: lane" => Registered(config, r.peer)
    /\ r.at = "refresh: lane" => Registered(config, r.contact.peer)
    /\ r.at = "found: lane" => Registered(config, Head(r.todo).peer)
    /\ r.at = "refresh: registered?" =>
          /\ NoKey(r.contact)
          /\ r.contact.registered => Registered(config, r.contact.peer)
    /\ r.at = "reconcile" => \A c \in ToSet(r.todo) : c.registered
    /\ r.at \in {"walk", "submit"} /\ config \in PoolConnections =>
          r.contact.outKey = Out(config, r.contact.peer)
    /\ r.at = "submit" => r.index = NextEmpty(r.via, r.contact.outKey)
AllFit == \A o \in Ops, r \in Operation : op[o] = r => Fits(r)

\* A reconciliation is alone, and has the contacts it did not rederive to go.
Rederives(r) == \A c \in ToSet(contacts) :
    c.registered => Derived(c) \/ c \in ToSet(r.todo)
OneRederives == \A o \in Ops, r \in Operation : op[o] = r /\ r.at = "reconcile" =>
    Rederives(r) /\ \A q \in Ops \ {o} : op[q].at = "idle"

KeysOK ==
    /\ \A c \in ToSet(contacts) : NoKey(c)
    /\ \A c \in ToSet(disk.contacts) : NoKey(c)
    /\ Alone => \A c \in ToSet(contacts) : c.registered => Derived(c)

Dense ==
    \A k \in Connections, l \in LaneOf, n \in Nat :
        <<k, l, n>> \in slots <=> n < NextEmpty(k, l)
ConfirmedOK == \A m \in confirmed : m.index \in Nat /\ Readable(m)

AllFollow == AllFit /\ OneRederives /\ KeysOK /\ Dense /\ ConfirmedOK
Quiet == disturbed = {} => AllFollow

IInv ==
    /\ TypeOK /\ ListsOK /\ NeverSyncLocked /\ OneSender /\ Quiet

-----------------------------------------------------------------------------
(***************************************************************************)
(* The operators.                                                          *)
(***************************************************************************)

\* How many positions lie below one: a bijection between positions and 1..n.
LEMMA Below ==
  ASSUME NEW at \in SUBSET Nat, IsFiniteSet(at)
  PROVE  /\ Cardinality(at) \in Nat
         /\ \A n \in 1..Cardinality(at) : \E i \in at :
                Cardinality({j \in at : j < i}) = n - 1
         /\ \A i \in at : Cardinality({j \in at : j < i}) + 1 \in 1..Cardinality(at)
         /\ \A i, k \in at : i # k =>
                Cardinality({j \in at : j < i}) # Cardinality({j \in at : j < k})
<1> DEFINE c == Cardinality(at)
           below(i) == {j \in at : j < i}
           f == [i \in at |-> Cardinality(below(i)) + 1]
<1>1. c \in Nat
  BY FS_CardinalityType
<1>2. ASSUME NEW S \in SUBSET at PROVE IsFiniteSet(S) /\ Cardinality(S) \in Nat
  BY FS_Subset, FS_CardinalityType
<1>3. ASSUME NEW i \in at PROVE Cardinality(below(i)) < c
  <2>1. IsFiniteSet(at \ {i}) /\ Cardinality(at \ {i}) = c - 1
    BY FS_RemoveElement
  <2>2. below(i) \in SUBSET (at \ {i})
    OBVIOUS
  <2>3. Cardinality(below(i)) <= c - 1
    BY <2>1, <2>2, FS_Subset
  <2> QED
    BY <1>1, <1>2, <2>3
<1>4. ASSUME NEW i \in at, NEW k \in at, i < k
      PROVE  Cardinality(below(i)) < Cardinality(below(k))
  <2>1. i \in below(k)
    BY <1>4
  <2>2. /\ IsFiniteSet(below(k) \ {i})
        /\ Cardinality(below(k) \ {i}) = Cardinality(below(k)) - 1
    BY <1>2, <2>1, FS_RemoveElement
  <2>3. below(i) \in SUBSET (below(k) \ {i})
    <3>1. i \in Nat /\ k \in Nat /\ \A j \in at : j \in Nat
      OBVIOUS
    <3>2. \A j \in at : j < i => j < k /\ j # i
      BY <1>4, <3>1
    <3> QED
      BY <3>2
  <2>4. Cardinality(below(i)) <= Cardinality(below(k)) - 1
    BY <2>2, <2>3, FS_Subset
  <2>5. Cardinality(below(i)) \in Nat /\ Cardinality(below(k)) \in Nat
    BY <1>2
  <2> QED
    BY <2>4, <2>5
<1>5. ASSUME NEW i \in at PROVE Cardinality(below(i)) \in Nat
  BY <1>2
<1> HIDE DEF below
<1>6. \A i, k \in at : i # k => Cardinality(below(i)) # Cardinality(below(k))
  <2> SUFFICES ASSUME NEW i \in at, NEW k \in at, i # k,
                      Cardinality(below(i)) = Cardinality(below(k))
               PROVE  FALSE
    OBVIOUS
  <2>1. i \in Nat /\ k \in Nat
    OBVIOUS
  <2>2. i < k \/ k < i
    BY <2>1
  <2> QED
    BY <1>4, <1>5, <2>2
<1>7. f \in Injection(at, 1..c)
  <2>1. f \in [at -> 1..c]
    BY <1>1, <1>3, <1>5
  <2>2. IsInjective(f)
    BY <1>5, <1>6 DEF IsInjective
  <2> QED
    BY <2>1, <2>2 DEF Injection
<1>8. f \in Surjection(at, 1..c)
  <2>1. IsFiniteSet(1..c) /\ Cardinality(1..c) = c
    BY <1>1, FS_Interval
  <2> QED
    BY <1>7, <2>1, FS_Injection
<1>9. ASSUME NEW n \in 1..c PROVE \E i \in at : Cardinality(below(i)) = n - 1
  <2>1. PICK i \in at : f[i] = n
    BY <1>8 DEF Surjection
  <2> QED
    BY <1>5, <2>1
<1>10. \A i \in at : Cardinality(below(i)) + 1 \in 1..c
  BY <1>1, <1>3, <1>5
<1> QED
  BY <1>1, <1>6, <1>9, <1>10 DEF below

\* A filter returns what stands at the positions, and nothing else.
LEMMA PickFacts ==
  ASSUME NEW s, NEW at \in SUBSET Nat, IsFiniteSet(at)
  PROVE  /\ Cardinality(at) \in Nat
         /\ DOMAIN Pick(s, at) = 1..Cardinality(at)
         /\ \A n \in DOMAIN Pick(s, at) : \E i \in at : Pick(s, at)[n] = s[i]
         /\ \A i \in at : \E n \in DOMAIN Pick(s, at) : Pick(s, at)[n] = s[i]
         /\ (\A i, j \in at : s[i] = s[j] => i = j) =>
                \A m, n \in DOMAIN Pick(s, at) : Pick(s, at)[m] = Pick(s, at)[n] => m = n
         /\ \A T : (\A i \in at : s[i] \in T) => Pick(s, at) \in Seq(T)
<1> DEFINE b(i) == Cardinality({j \in at : j < i})
           pos(n) == CHOOSE i \in at : b(i) = n - 1
           c == Cardinality(at)
           P == Pick(s, at)
<1>1. /\ c \in Nat
      /\ \A n \in 1..c : \E i \in at : b(i) = n - 1
      /\ \A i \in at : b(i) + 1 \in 1..c
      /\ \A i, k \in at : i # k => b(i) # b(k)
  BY Below
<1>2. P = [n \in 1..c |-> s[pos(n)]]
  BY DEF Pick
<1>3. ASSUME NEW i \in at PROVE b(i) \in Nat
  BY FS_Subset, FS_CardinalityType
<1> HIDE DEF b, P, c
<1>4. ASSUME NEW n \in 1..c PROVE pos(n) \in at /\ b(pos(n)) = n - 1
  BY <1>1
<1> HIDE DEF pos
<1>5. DOMAIN P = 1..c /\ \A n \in 1..c : P[n] = s[pos(n)]
  BY <1>2
<1>6. \A i \in at : \E n \in DOMAIN P : P[n] = s[i]
  <2> TAKE i \in at
  <2>1. b(i) + 1 \in 1..c
    BY <1>1
  <2>2. pos(b(i) + 1) \in at /\ b(pos(b(i) + 1)) = b(i)
    BY <1>3, <1>4, <2>1
  <2>3. pos(b(i) + 1) = i
    BY <1>1, <2>2
  <2> QED
    BY <1>5, <2>1, <2>3
<1>7. ASSUME \A i, j \in at : s[i] = s[j] => i = j
      PROVE  \A m, n \in DOMAIN P : P[m] = P[n] => m = n
  <2> TAKE m, n \in DOMAIN P
  <2> HAVE P[m] = P[n]
  <2>1. pos(m) = pos(n)
    BY <1>4, <1>5, <1>7
  <2>2. m - 1 = n - 1 /\ m \in Int /\ n \in Int
    BY <1>1, <1>4, <1>5, <2>1
  <2> QED
    BY <2>2
<1>8. ASSUME NEW T, \A i \in at : s[i] \in T
      PROVE  P \in Seq(T)
  <2>1. P \in [1..c -> T]
    BY <1>2, <1>4, <1>5, <1>8
  <2> QED
    BY <1>1, <2>1
<1> QED
  BY <1>1, <1>4, <1>5, <1>6, <1>7, <1>8 DEF P, c

\* Every set of positions has a first one.
LEMMA FirstPosition ==
  ASSUME NEW I \in SUBSET Nat, I # {}
  PROVE  Min(I) \in I /\ \A i \in I : ~ (i < Min(I))
<1>1. PICK m \in I : \A i \in I : ~ (<<i, m>> \in OpToRel(<, Nat))
  BY WFMin, NatLessThanWellFounded, Zenon
<1>2. \A i \in I : ~ (i < m)
  BY <1>1, Zenon DEF OpToRel
<1>3. m \in Nat /\ \A i \in I : i \in Nat
  OBVIOUS
<1>4. \A i \in I : m <= i
  BY <1>2, <1>3
<1>5. Min(I) \in I /\ \A i \in I : Min(I) <= i
  BY <1>4 DEF Min
<1>6. Min(I) \in Nat
  BY <1>5
<1> QED
  BY <1>3, <1>5, <1>6

\* A filter of a contact list, by what it says of each contact.
LEMMA FilterOK ==
  ASSUME NEW list \in Seq(ContactOf), NEW at \in SUBSET DOMAIN list
  PROVE  /\ Pick(list, at) \in Seq(ContactOf)
         /\ \A n \in DOMAIN Pick(list, at) : \E i \in at : Pick(list, at)[n] = list[i]
         /\ \A i \in at : \E n \in DOMAIN Pick(list, at) : Pick(list, at)[n] = list[i]
         /\ Unique(list) => Unique(Pick(list, at))
<1>1. DOMAIN list = 1..Len(list) /\ Len(list) \in Nat
  OBVIOUS
<1>2. at \in SUBSET Nat /\ IsFiniteSet(at)
  <2>1. IsFiniteSet(1..Len(list))
    BY <1>1, FS_Interval
  <2> QED
    BY <1>1, <2>1, FS_Subset
<1>3. \A i \in at : list[i] \in ContactOf
  OBVIOUS
<1> DEFINE P == Pick(list, at)
<1>4. /\ P \in Seq(ContactOf)
      /\ \A n \in DOMAIN P : \E i \in at : P[n] = list[i]
      /\ \A i \in at : \E n \in DOMAIN P : P[n] = list[i]
      /\ (\A i, j \in at : list[i] = list[j] => i = j) =>
            \A m, n \in DOMAIN P : P[m] = P[n] => m = n
  BY <1>2, <1>3, PickFacts
<1> HIDE DEF P
<1>5. ASSUME Unique(list) PROVE Unique(P)
  <2>1. \A i, j \in at : list[i] = list[j] => i = j
    BY <1>5 DEF Unique
  <2> SUFFICES ASSUME NEW m \in DOMAIN P, NEW n \in DOMAIN P, P[m].label = P[n].label
               PROVE  m = n
    BY DEF Unique
  <2>2. PICK i \in at, j \in at : P[m] = list[i] /\ P[n] = list[j]
    BY <1>4
  <2>3. i = j
    BY <1>5, <2>2 DEF Unique
  <2> QED
    BY <1>4, <2>1, <2>2, <2>3
<1> QED
  BY <1>4, <1>5 DEF P

\* The position of the first contact with a peer.
LEMMA FirstWithOK ==
  ASSUME NEW list \in Seq(ContactOf), NEW p
  PROVE  FirstWith(list, p) \in {0} \cup DOMAIN list
<1> DEFINE I == {i \in 1..Len(list) : list[i].peer = p}
<1>1. I \in SUBSET Nat /\ I \subseteq DOMAIN list
  OBVIOUS
<1>2. FirstWith(list, p) = IF I # {} THEN Min(I) ELSE 0
  BY DEF FirstWith, SelectInSeq
<1> HIDE DEF I
<1> QED
  BY <1>1, <1>2, FirstPosition

\* A label nobody has yet can always be made.
LEMMA ShortLabelOK ==
  ASSUME NEW list \in Seq(ContactOf), NEW p \in Peers
  PROVE  /\ ShortLabel(list, p) \in AllLabels
         /\ \A i \in DOMAIN list : list[i].label # ShortLabel(list, p)
<1> DEFINE n == Len(list)
           S == {<<p, k>> : k \in 1..(n + 1)}
           Used(l) == \E i \in DOMAIN list : list[i].label = l
<1>1. n \in Nat /\ DOMAIN list = 1..n
  OBVIOUS
<1>2. \E k \in 1..(n + 1) : ~Used(<<p, k>>)
  <2> SUFFICES ASSUME \A k \in 1..(n + 1) : Used(<<p, k>>) PROVE FALSE
    OBVIOUS
  <2> DEFINE f == [k \in 1..(n + 1) |-> CHOOSE i \in 1..n : list[i].label = <<p, k>>]
  <2>1. \A k \in 1..(n + 1) : f[k] \in 1..n /\ list[f[k]].label = <<p, k>>
    BY <1>1
  <2>2. f \in [1..(n + 1) -> 1..n]
    BY <2>1
  <2>3. /\ IsFiniteSet(1..(n + 1)) /\ Cardinality(1..(n + 1)) = n + 1
        /\ IsFiniteSet(1..n) /\ Cardinality(1..n) = n
    <3> HIDE DEF f, n
    <3>1. 1 \in Int /\ n \in Int /\ n + 1 \in Int
      BY <1>1
    <3>2. \A b \in Int : IsFiniteSet(1..b) /\ Cardinality(1..b) = IF 1 > b THEN 0 ELSE b - 1 + 1
      BY <3>1, FS_Interval
    <3> QED
      BY <1>1, <3>1, <3>2
  <2> HIDE DEF f, n
  <2>4. PICK x \in 1..(n + 1), y \in 1..(n + 1) : x # y /\ f[x] = f[y]
    <3> DEFINE A == 1..(n + 1)
               B == 1..n
    <3>1. IsFiniteSet(A) /\ IsFiniteSet(B) /\ f \in [A -> B]
      BY <2>2, <2>3
    <3>2. Cardinality(B) < Cardinality(A)
      BY <1>1, <2>3
    <3> HIDE DEF A, B
    <3>3. \E x, y \in A : x # y /\ f[x] = f[y]
      BY <3>1, <3>2, FS_PigeonHole, Zenon
    <3> QED
      BY <3>3 DEF A
  <2>5. <<p, x>> = <<p, y>>
    BY <2>1, <2>4
  <2> QED
    BY <2>4, <2>5
<1>3. \E l \in S : \A i \in DOMAIN list : list[i].label # l
  BY <1>2
<1>4. ShortLabel(list, p) = CHOOSE l \in S : \A i \in DOMAIN list : list[i].label # l
  BY DEF ShortLabel
<1>5. \A l \in S : l \in AllLabels
  BY <1>1 DEF AllLabels
<1> HIDE DEF S
<1> QED
  BY <1>3, <1>4, <1>5

\* What a scan finds, as a sequence.
LEMMA SetToSeqOK ==
  ASSUME NEW S, IsFiniteSet(S)
  PROVE  SetToSeq(S) \in Seq(S)
<1>1. Cardinality(S) \in Nat /\ \E n \in Nat : ExistsBijection(1..n, S)
  BY FS_CardinalityType, FS_NatBijection
<1>2. ExistsBijection(1..Cardinality(S), S)
  BY <1>1, FS_CountingElements
<1>3. \E f \in [1..Cardinality(S) -> S] : IsInjective(f)
  BY <1>2 DEF ExistsBijection, Bijection, Injection, IsInjective
<1>4. SetToSeq(S) \in [1..Cardinality(S) -> S]
  BY <1>3, Zenon DEF SetToSeq
<1> QED
  BY <1>1, <1>4

LEMMA ScanOK ==
  ASSUME WorldOK, NEW k
  PROVE  Scan(k) \in Seq(LaneOf)
<1> DEFINE S(d) == {l \in opened : l.of = k /\ l.from = d}
<1>1. ASSUME NEW d PROVE IsFiniteSet(S(d)) /\ S(d) \subseteq LaneOf
  BY FS_Subset DEF WorldOK
<1>2. ASSUME NEW d PROVE SetToSeq(S(d)) \in Seq(LaneOf)
  <2> HIDE DEF S
  <2>1. SetToSeq(S(d)) \in Seq(S(d))
    BY <1>1, SetToSeqOK
  <2> QED
    BY <1>1, <2>1
<1>3. Scan(k) = SetToSeq(S("me")) \o SetToSeq(S("peer"))
  BY DEF Scan
<1> HIDE DEF S
<1> QED
  BY <1>2, <1>3

LEMMA LaneKeysOK ==
  ASSUME NEW list \in Seq(ContactOf)
  PROVE  LaneKeys(list) \in SUBSET LaneOf
<1>1. \A i \in DOMAIN list : list[i].outKey \in LaneOf \cup {NoLane}
                             /\ list[i].inKey \in LaneOf \cup {NoLane}
  <2> TAKE i \in DOMAIN list
  <2>1. list[i] \in ContactOf
    OBVIOUS
  <2> QED
    BY <2>1 DEF ContactOf
<1> DEFINE S == UNION {{list[i].outKey, list[i].inKey} : i \in DOMAIN list}
<1>2. \A l \in S : l \in LaneOf \cup {NoLane}
  BY <1>1
<1>3. LaneKeys(list) = S \ {NoLane}
  BY DEF LaneKeys
<1> HIDE DEF S
<1> QED
  BY <1>2, <1>3

LEMMA LanesOK ==
  ASSUME NEW k \in Connections, NEW p \in Peers
  PROVE  Out(k, p) \in LaneOf /\ In(k, p) \in LaneOf /\ Out(k, p) # NoLane
BY StoreAssumption DEF Out, In, LaneOf

\* A new contact.
LEMMA ContactOK ==
  ASSUME made \in Nat, NEW l \in AllLabels, NEW p \in Peers,
         NEW out \in LaneOf \cup {NoLane}, NEW in \in LaneOf \cup {NoLane}, NEW reg \in BOOLEAN
  PROVE  /\ Contact(l, p, out, in, reg) \in ContactOf
         /\ Contact(l, p, out, in, reg).label = l
         /\ Contact(l, p, out, in, reg).peer = p
         /\ Contact(l, p, out, in, reg).outKey = out
         /\ Contact(l, p, out, in, reg).registered = reg
BY DEF Contact, ContactOf

\* The same contacts, whatever else is known of them.
Kept(a, b) ==
    /\ DOMAIN b = DOMAIN a
    /\ \A i \in DOMAIN a : b[i].label = a[i].label /\ b[i].peer = a[i].peer

\* A merge looks for lanes only; it replaces no lane of ours.
LEMMA MergedOK ==
  ASSUME made \in Nat, NEW list \in Seq(ContactOf), NEW lanes \in SUBSET LaneOf
  PROVE  /\ Merged(list, lanes) \in Seq(ContactOf)
         /\ Kept(list, Merged(list, lanes))
         /\ \A i \in DOMAIN list :
               /\ Merged(list, lanes)[i].registered = list[i].registered
               /\ list[i].outKey # NoLane => Merged(list, lanes)[i].outKey = list[i].outKey
<1> DEFINE M == Merged(list, lanes)
           from(c, d) == {l \in lanes : l.from = d /\ l.peer = c.peer}
           in(c) == IF from(c, "peer") = {} THEN c.inKey
                    ELSE CHOOSE l \in from(c, "peer") : TRUE
           opens(c) == from(c, "me") # {} /\ ~(c.setupDone /\ c.outKey # NoLane)
           mine(c) == IF opens(c) /\ c.outKey = NoLane
                      THEN CHOOSE l \in from(c, "me") : TRUE ELSE c.outKey
           new(c) == [c EXCEPT !.inKey = in(c), !.setupDone = c.setupDone \/ opens(c),
                               !.outKey = mine(c), !.obj = made + 1]
<1>1. DOMAIN M = DOMAIN list /\ \A i \in DOMAIN list : M[i] \in {list[i], new(list[i])}
  BY DEF Merged
<1>2. ASSUME NEW c \in ContactOf, NEW d PROVE from(c, d) \in SUBSET LaneOf
  OBVIOUS
<1>3. ASSUME NEW c \in ContactOf
      PROVE  /\ in(c) \in LaneOf \cup {NoLane} /\ mine(c) \in LaneOf \cup {NoLane}
             /\ c.outKey # NoLane => mine(c) = c.outKey
             /\ (c.setupDone \/ opens(c)) \in BOOLEAN
  <2>1. c.inKey \in LaneOf \cup {NoLane} /\ c.outKey \in LaneOf \cup {NoLane} /\ c.setupDone \in BOOLEAN
    BY DEF ContactOf
  <2>2. from(c, "peer") \in SUBSET LaneOf /\ from(c, "me") \in SUBSET LaneOf
    BY <1>2
  <2> HIDE DEF from
  <2>3. in(c) \in LaneOf \cup {NoLane}
    BY <2>1, <2>2
  <2>4. mine(c) \in LaneOf \cup {NoLane}
    BY <2>1, <2>2
  <2> QED
    BY <2>1, <2>3, <2>4
<1> HIDE DEF M, from, in, opens, mine
<1>4. ASSUME NEW c \in ContactOf
      PROVE  /\ new(c) \in ContactOf /\ new(c).label = c.label /\ new(c).peer = c.peer
             /\ new(c).registered = c.registered
             /\ c.outKey # NoLane => new(c).outKey = c.outKey
  <2> DEFINE a == in(c)
             b == mine(c)
             d == c.setupDone \/ opens(c)
             n == made + 1
  <2>1. a \in LaneOf \cup {NoLane} /\ b \in LaneOf \cup {NoLane} /\ d \in BOOLEAN
    BY <1>3
  <2>2. new(c) = [c EXCEPT !.inKey = a, !.setupDone = d, !.outKey = b, !.obj = n]
    OBVIOUS
  <2>6. n \in Nat
    OBVIOUS
  <2>3. c.outKey # NoLane => b = c.outKey
    BY <1>3
  <2> HIDE DEF a, b, d, n, new
  <2>7. c = [label |-> c.label, peer |-> c.peer, outKey |-> c.outKey, inKey |-> c.inKey,
             registered |-> c.registered, setupDone |-> c.setupDone, obj |-> c.obj]
    BY DEF ContactOf
  <2>8. new(c) = [label |-> c.label, peer |-> c.peer, outKey |-> b, inKey |-> a,
                  registered |-> c.registered, setupDone |-> d, obj |-> n]
    BY <2>2, <2>7
  <2>9. c.label \in AllLabels /\ c.peer \in Peers /\ c.registered \in BOOLEAN
    BY DEF ContactOf
  <2>4. new(c) \in ContactOf
    BY <2>1, <2>6, <2>8, <2>9 DEF ContactOf
  <2>5. /\ new(c).label = c.label /\ new(c).peer = c.peer
        /\ new(c).registered = c.registered /\ new(c).outKey = b
    BY <2>2 DEF ContactOf
  <2> QED
    BY <2>3, <2>4, <2>5
<1> HIDE DEF new
<1>5. \A i \in DOMAIN list : list[i] \in ContactOf
  OBVIOUS
<1>6. \A i \in DOMAIN list :
         /\ M[i] \in ContactOf /\ M[i].label = list[i].label /\ M[i].peer = list[i].peer
         /\ M[i].registered = list[i].registered
         /\ list[i].outKey # NoLane => M[i].outKey = list[i].outKey
  BY <1>1, <1>4, <1>5
<1>7. M \in Seq(ContactOf)
  <2>1. M = [i \in DOMAIN list |-> M[i]]
    <3> DEFINE e(i) ==
                 LET c == list[i]
                     fr(d) == {l \in lanes : l.from = d /\ l.peer = c.peer}
                     inn == IF fr("peer") = {} THEN c.inKey
                            ELSE CHOOSE l \in fr("peer") : TRUE
                     ops == fr("me") # {} /\ ~(c.setupDone /\ c.outKey # NoLane)
                 IN  IF FirstWith(list, c.peer) # i \/ (inn = c.inKey /\ ~ops) THEN c
                     ELSE [c EXCEPT !.inKey = inn, !.setupDone = @ \/ ops,
                                    !.outKey = IF ops /\ @ = NoLane
                                               THEN CHOOSE l \in fr("me") : TRUE
                                               ELSE @,
                                    !.obj = made + 1]
    <3>1. M = [i \in DOMAIN list |-> e(i)]
      BY DEF M, Merged
    <3> HIDE DEF e
    <3> QED
      BY <3>1
  <2>2. Len(list) \in Nat /\ DOMAIN list = 1..Len(list)
    OBVIOUS
  <2>3. M \in [1..Len(list) -> ContactOf]
    BY <1>6, <2>1, <2>2
  <2> QED
    BY <2>2, <2>3
<1> QED
  BY <1>1, <1>6, <1>7 DEF M, Kept

-----------------------------------------------------------------------------
(***************************************************************************)
(* Types, and what an operation holds where it waits.                      *)
(***************************************************************************)

LEMMA IdleOK == Holds(Idle)
<1>1. <<>> \in Seq(ContactOf)
  OBVIOUS
<1>2. Idle \in Operation
  BY <1>1 DEF Operation, Idle, Calls, Scans
<1>3. Idle.at = "idle" /\ Idle.syncs = FALSE
  BY DEF Idle
<1> QED
  BY <1>2, <1>3 DEF Holds

LEMMA AwaitOK ==
  ASSUME OpsOK, NEW o \in Ops, NEW r, Holds(r), Await(o, r)
  PROVE  OpsOK'
BY DEF OpsOK, Await

LEMMA EndOK ==
  ASSUME OpsOK, NEW o \in Ops, End(o)
  PROVE  OpsOK'
BY IdleOK, AwaitOK DEF End

LEMMA ReconcileOK ==
  ASSUME NEW k \in Connections \cup {NoConnection}, NEW list \in Seq(ContactOf)
  PROVE  /\ Holds(Reconcile(k, list))
         /\ Reconcile(k, list).at \in {"idle", "reconcile"} /\ ~Reconcile(k, list).syncs
<1> DEFINE todo == ToReconcile(list)
           r == [Idle EXCEPT !.at = "reconcile", !.via = k, !.todo = todo]
<1>1. todo \in Seq(ContactOf)
  <2>1. {i \in DOMAIN list : list[i].registered} \in SUBSET DOMAIN list
    OBVIOUS
  <2> QED
    BY <2>1, FilterOK DEF ToReconcile
<1>2. k \in PoolConnections => k \in Connections
  BY StoreAssumption
<1> HIDE DEF todo
<1>3. ASSUME k \in Connections, todo # <<>> PROVE Holds(r)
  <2>1. <<>> \in Seq(ContactOf)
    OBVIOUS
  <2>2. r \in Operation
    BY <1>1, <1>3, <2>1 DEF Operation, Idle, Calls, Scans
  <2>3. r.at = "reconcile" /\ r.via = k /\ r.todo = todo /\ r.syncs = FALSE
    BY DEF Idle
  <2> HIDE DEF r
  <2> QED
    BY <1>1, <1>3, <2>2, <2>3 DEF Holds, Scans
<1>4. Idle.at = "idle" /\ ~Idle.syncs /\ r.at = "reconcile" /\ ~r.syncs
  BY DEF Idle
<1>5. Reconcile(k, list) = IF k \in PoolConnections /\ todo # <<>> THEN r ELSE Idle
  BY DEF Reconcile, todo
<1> QED
  BY <1>2, <1>3, <1>4, <1>5, IdleOK

LEMMA SyncingOK ==
  ASSUME config \in Connections, NEW list \in Seq(ContactOf)
  PROVE  /\ Holds(Syncing(list)) /\ Syncing(list).syncs
         /\ Holds([Syncing(list) EXCEPT !.at = "read", !.lanes = LaneKeys(list)])
<1>1. LaneKeys(list) \in SUBSET LaneOf
  BY LaneKeysOK
<1> QED
  <2> DEFINE S == Syncing(list)
             R == [Syncing(list) EXCEPT !.at = "read", !.lanes = LaneKeys(list)]
             keys == LaneKeys(list)
  <2>1. <<>> \in Seq(ContactOf)
    OBVIOUS
  <2> HIDE DEF keys
  <2>2. S \in Operation /\ R \in Operation
    BY <1>1, <2>1 DEF Syncing, Operation, Idle, keys, Calls, Scans
  <2>3. /\ S.at \in {"scan", "read"} /\ S.via = config /\ S.syncs = TRUE
        /\ R.at = "read" /\ R.via = config /\ R.syncs = TRUE
    BY DEF Syncing, Idle
  <2> HIDE DEF S, R
  <2>4. Holds(S) /\ Holds(R) /\ S.syncs
    BY <2>2, <2>3 DEF Holds, Scans
  <2> QED
    BY <2>4 DEF S, R

LEMMA SyncFromOK ==
  ASSUME OpsOK, config \in Connections \cup {NoConnection}, syncing \in BOOLEAN,
         NEW o \in Ops, NEW list \in Seq(ContactOf), SyncFrom(o, list)
  PROVE  OpsOK' /\ syncing' \in BOOLEAN
BY EndOK, AwaitOK, SyncingOK DEF SyncFrom, LoggedIn

LEMMA ScanOverOK ==
  ASSUME OpsOK, config \in Connections \cup {NoConnection}, syncing \in BOOLEAN,
         NEW o \in Ops, NEW threw, NEW list \in Seq(ContactOf), ScanOver(o, threw, list)
  PROVE  OpsOK' /\ syncing' \in BOOLEAN
BY EndOK, AwaitOK, SyncingOK, SyncFromOK DEF ScanOver, LoggedIn, SyncEnds

-----------------------------------------------------------------------------
(***************************************************************************)
(* What a step makes of the contact list and of local storage.             *)
(***************************************************************************)

Saves == disk'.contacts \in {disk.contacts, contacts'}

\* The same contacts.
Maps == Kept(contacts, contacts') /\ Saves /\ added' = added

\* A contact the user names, instead of those it displaces.
Stays(c) == {i \in DOMAIN contacts : ~Displaces(c, contacts[i].label, contacts[i].peer)}
Puts == \E c \in ContactOf :
    /\ contacts' = Append(Pick(contacts, Stays(c)), c)
    /\ disk'.contacts = contacts'
    /\ added' = {a \in added : ~Displaces(c, a[1], a[2])} \cup {<<c.label, c.peer>>}

\* A contact that a scan found, under a label of its own.
Finds == \E c \in ContactOf :
    /\ \A i \in DOMAIN contacts : contacts[i].label # c.label
    /\ Kept(Append(contacts, c), contacts') /\ Saves /\ added' = added

Clears == contacts' = <<>> /\ disk'.contacts = <<>> /\ added' = {}
Restores == contacts' = disk.contacts /\ disk'.contacts = disk.contacts /\ added' = added

ListStep == Maps \/ Puts \/ Finds \/ Clears \/ Restores

LEMMA MapOK ==
  ASSUME NEW list \in Seq(ContactOf), NEW f, f = [i \in DOMAIN list |-> f[i]],
         \A i \in DOMAIN list : f[i] \in ContactOf
  PROVE  f \in Seq(ContactOf)
<1>1. Len(list) \in Nat /\ DOMAIN list = 1..Len(list)
  OBVIOUS
<1>2. f \in [1..Len(list) -> ContactOf]
  BY <1>1
<1> QED
  BY <1>1, <1>2

LEMMA SavesOK ==
  ASSUME TypeOK, contacts' \in Seq(ContactOf), SaveContacts \/ UNCHANGED disk
  PROVE  /\ disk' \in [config : Connections \cup {NoConnection},
                       contacts : Seq(ContactOf), history : SUBSET LaneOf]
         /\ Saves
BY DEF TypeOK, SessionOK, SaveContacts, Saves

\* Steps that leave contacts and local storage alone.
LEMMA SameLists ==
  ASSUME UNCHANGED <<contacts, disk, added>>
  PROVE  ListStep
BY DEF ListStep, Maps, Kept, Saves

LEMMA StartsOK ==
  ASSUME TypeOK, NEW o \in Ops, NEW r, Starts(o, r), Holds([r EXCEPT !.via = config])
  PROVE  TypeOK' /\ ListStep
<1>1. OpsOK'
  BY AwaitOK DEF TypeOK, Starts
<1>2. UNCHANGED <<session, world>> /\ added' = added
  BY DEF Starts
<1> QED
  BY <1>1, <1>2, SameLists DEF TypeOK, SessionOK, WorldOK, session, world

LEMMA GoesOK ==
  ASSUME TypeOK, NEW o \in Ops, NEW r, Goes(o, r), Holds(r)
  PROVE  TypeOK' /\ ListStep
<1>1. OpsOK'
  BY AwaitOK DEF TypeOK, Goes
<1> QED
  BY <1>1, SameLists DEF Goes, TypeOK, SessionOK, WorldOK, session, world, ghosts

LEMMA InitOK == Init => TypeOK
<1> SUFFICES ASSUME Init PROVE TypeOK
  OBVIOUS
<1>1. <<>> \in Seq(ContactOf)
  OBVIOUS
<1>2. SessionOK
  BY <1>1 DEF Init, SessionOK
<1>3. WorldOK
  BY FS_EmptySet DEF Init, WorldOK
<1>4. OpsOK
  BY IdleOK DEF Init, OpsOK
<1> QED
  BY <1>2, <1>3, <1>4 DEF TypeOK

LEMMA OnboardingStep ==
  ASSUME TypeOK, NEW k \in Connections, CompleteOnboarding(k)
  PROVE  TypeOK' /\ ListStep
<1>1. <<>> \in Seq(ContactOf)
  OBVIOUS
<1>2. SessionOK'
  BY <1>1 DEF TypeOK, SessionOK, CompleteOnboarding
<1>3. Clears
  BY DEF TypeOK, SessionOK, CompleteOnboarding, Clears
<1> QED
  BY <1>2, <1>3 DEF TypeOK, WorldOK, OpsOK, world, CompleteOnboarding, ListStep

LEMMA DisconnectStep ==
  ASSUME TypeOK, Disconnect
  PROVE  TypeOK' /\ ListStep
<1>1. <<>> \in Seq(ContactOf)
  OBVIOUS
<1>2. SessionOK'
  BY <1>1 DEF TypeOK, SessionOK, Disconnect
<1>3. Clears
  BY DEF TypeOK, SessionOK, Disconnect, Clears
<1> QED
  BY <1>2, <1>3 DEF TypeOK, WorldOK, OpsOK, world, Disconnect, ListStep

LEMMA UpdateStep ==
  ASSUME TypeOK, NEW o \in Ops, NEW k \in Connections, UpdateConnection(o, k)
  PROVE  TypeOK' /\ ListStep
<1>1. OpsOK'
  BY ReconcileOK, AwaitOK DEF TypeOK, SessionOK, UpdateConnection
<1>2. SessionOK'
  BY DEF TypeOK, SessionOK, UpdateConnection
<1>3. contacts' = contacts /\ disk'.contacts = disk.contacts /\ added' = added
  BY DEF TypeOK, SessionOK, UpdateConnection
<1>4. Kept(contacts, contacts') /\ disk'.contacts \in {disk.contacts, contacts'}
  BY <1>3 DEF Kept
<1> QED
  BY <1>1, <1>2, <1>3, <1>4 DEF TypeOK, WorldOK, world, UpdateConnection, ListStep, Maps, Saves

LEMMA ReloadStep ==
  ASSUME TypeOK, NEW o \in Ops, Reload(o)
  PROVE  TypeOK' /\ ListStep
<1>1. OpsOK'
  <2>1. Holds(Reconcile(disk.config, disk.contacts))
    BY ReconcileOK DEF TypeOK, SessionOK
  <2> QED
    BY <2>1, IdleOK DEF Reload, OpsOK
<1>2. SessionOK'
  BY DEF TypeOK, SessionOK, Reload
<1>3. Restores
  BY DEF Reload, Restores, ghosts
<1> QED
  BY <1>1, <1>2, <1>3 DEF TypeOK, WorldOK, world, Reload, ListStep

\* What an operation that goes on holds.
LEMMA GoesHolds ==
  ASSUME OpsOK, NEW o \in Ops, config \in Connections
  PROVE  /\ At(o, "add: registered?") => Holds([op[o] EXCEPT !.at = "add: lane", !.via = config])
         /\ At(o, "refresh: registered?") =>
               Holds([op[o] EXCEPT !.at = "refresh: lane", !.via = config])
         /\ At(o, "found: registered?") =>
               Holds([op[o] EXCEPT !.at = "found: lane", !.via = config])
         /\ At(o, "walk") => \A n \in Nat, p \in Peers \cup {NoLane} :
               Holds([op[o] EXCEPT !.at = "submit", !.via = config, !.index = n, !.peer = p])
<1>1. Holds(op[o]) /\ op[o] \in Operation
  BY DEF OpsOK, Holds
<1> DEFINE Next1(a) == [op[o] EXCEPT !.at = a, !.via = config]
<1>2. ASSUME NEW a \in Calls
      PROVE  /\ Next1(a) \in Operation
             /\ Next1(a).at = a /\ Next1(a).via = config
             /\ Next1(a).label = op[o].label /\ Next1(a).peer = op[o].peer
             /\ Next1(a).contact = op[o].contact /\ Next1(a).todo = op[o].todo
             /\ Next1(a).syncs = op[o].syncs
  BY <1>1 DEF Operation
<1> HIDE DEF Next1
<1>3. ASSUME At(o, "add: registered?") PROVE Holds(Next1("add: lane"))
  BY <1>1, <1>2, <1>3 DEF At, Holds, Calls, Scans
<1>4. ASSUME At(o, "refresh: registered?") PROVE Holds(Next1("refresh: lane"))
  BY <1>1, <1>2, <1>4 DEF At, Holds, Calls, Scans
<1>5. ASSUME At(o, "found: registered?") PROVE Holds(Next1("found: lane"))
  BY <1>1, <1>2, <1>5 DEF At, Holds, Calls, Scans
<1>6. ASSUME At(o, "walk"), NEW n \in Nat, NEW p \in Peers \cup {NoLane}
      PROVE  Holds([op[o] EXCEPT !.at = "submit", !.via = config, !.index = n, !.peer = p])
  <2> DEFINE r == [op[o] EXCEPT !.at = "submit", !.via = config, !.index = n, !.peer = p]
  <2>1. /\ r \in Operation /\ r.at = "submit" /\ r.via = config
        /\ r.contact = op[o].contact /\ r.syncs = op[o].syncs
    BY <1>1 DEF Operation, Calls
  <2> HIDE DEF r
  <2>2. Holds(r)
    BY <1>1, <1>6, <2>1 DEF At, Holds, Scans
  <2> QED
    BY <2>2 DEF r
<1> QED
  BY <1>3, <1>4, <1>5, <1>6 DEF Next1

LEMMA RederivedStep ==
  ASSUME TypeOK, NEW o \in Ops, Rederived(o)
  PROVE  TypeOK' /\ ListStep
<1> DEFINE c == Head(op[o].todo)
           fresh == Out(op[o].via, c.peer)
           rest == Tail(op[o].todo)
<1>1. /\ Holds(op[o]) /\ op[o].at = "reconcile" /\ op[o].todo \in Seq(ContactOf)
      /\ op[o].todo # <<>> /\ op[o].via \in Connections /\ op[o].syncs = FALSE
  BY DEF TypeOK, OpsOK, Holds, Rederived, At, Operation, Scans
<1>2. c \in ContactOf /\ rest \in Seq(ContactOf)
  BY <1>1
<1>3. fresh \in LaneOf
  BY <1>1, <1>2, LanesOK DEF ContactOf
<1>4. PICK answered \in BOOLEAN :
        LET differs == answered /\ fresh # c.outKey
            changed == op[o].changed \/ differs
        IN  /\ contacts' =
                  [i \in DOMAIN contacts |->
                      IF differs /\ contacts[i] = c
                      THEN [c EXCEPT !.outKey = fresh, !.obj = made + 1]
                      ELSE contacts[i]]
            /\ made' = IF differs THEN made + 1 ELSE made
            /\ IF rest # <<>> /\ IsPool
               THEN /\ Await(o, [op[o] EXCEPT !.todo = rest,
                                   !.via = config, !.changed = changed])
                    /\ UNCHANGED disk
               ELSE /\ End(o)
                    /\ IF changed THEN SaveContacts ELSE UNCHANGED disk
  BY DEF Rederived, Registered
<1> DEFINE differs == answered /\ fresh # c.outKey
           changed == op[o].changed \/ differs
           new == [c EXCEPT !.outKey = fresh, !.obj = made + 1]
<1>5. new \in ContactOf /\ new.label = c.label /\ new.peer = c.peer
  <2>1. made + 1 \in Nat
    BY DEF TypeOK, SessionOK
  <2> HIDE DEF c, fresh
  <2> QED
    BY <1>2, <1>3, <2>1 DEF ContactOf
<1>6. contacts \in Seq(ContactOf) /\ made \in Nat /\ config \in Connections \cup {NoConnection}
  BY DEF TypeOK, SessionOK
<1>7. contacts' \in Seq(ContactOf) /\ Kept(contacts, contacts')
  <2>1. contacts' = [i \in DOMAIN contacts |->
                        IF differs /\ contacts[i] = c THEN new ELSE contacts[i]]
    BY <1>4
  <2> HIDE DEF differs, c, new
  <2>2. \A i \in DOMAIN contacts :
            /\ contacts'[i] \in ContactOf
            /\ contacts'[i].label = contacts[i].label /\ contacts'[i].peer = contacts[i].peer
    BY <1>5, <1>6, <2>1
  <2>3. contacts' = [i \in DOMAIN contacts |-> contacts'[i]]
    BY <2>1
  <2>4. contacts' \in Seq(ContactOf)
    BY <1>6, <2>2, <2>3, MapOK
  <2> QED
    BY <2>1, <2>2, <2>4 DEF Kept
<1>8. SaveContacts \/ UNCHANGED disk
  BY <1>4
<1>9. OpsOK'
  <2>1. CASE rest # <<>> /\ IsPool
    <3> DEFINE r == [op[o] EXCEPT !.todo = rest, !.via = config, !.changed = changed]
    <3>1. changed \in BOOLEAN
      BY <1>1 DEF Holds, Operation
    <3> HIDE DEF rest, changed
    <3>2. config \in Connections
      BY <2>1, StoreAssumption DEF IsPool
    <3>3. /\ r \in Operation /\ r.at = "reconcile" /\ r.todo = rest /\ r.via = config
          /\ r.syncs = FALSE
      BY <1>1, <1>2, <3>1, <3>2 DEF Holds, Operation
    <3>4. Await(o, r)
      BY <1>4, <2>1 DEF rest, changed
    <3> HIDE DEF r
    <3>5. Holds(r)
      BY <1>2, <2>1, <3>2, <3>3 DEF Holds, Scans
    <3> QED
      BY <3>4, <3>5, AwaitOK DEF TypeOK
  <2>2. CASE ~(rest # <<>> /\ IsPool)
    <3>1. End(o)
      BY <1>4, <2>2
    <3> QED
      BY <3>1, EndOK DEF TypeOK
  <2> QED
    BY <2>1, <2>2
<1>10. SessionOK'
  <2>1. made' \in Nat
    BY <1>4, <1>6
  <2>2. config' = config /\ syncing' = syncing
    BY DEF Rederived
  <2> QED
    BY <1>7, <1>8, <2>1, <2>2, SavesOK DEF TypeOK, SessionOK
<1>11. UNCHANGED world /\ added' = added
  BY DEF Rederived
<1> QED
  BY <1>7, <1>8, <1>9, <1>10, <1>11, SavesOK DEF TypeOK, WorldOK, world, ListStep, Maps

LEMMA PutStep ==
  ASSUME TypeOK, NEW o \in Ops, NEW c \in ContactOf, PutContact(o, c)
  PROVE  TypeOK' /\ ListStep
<1> DEFINE kept == Pick(contacts, Stays(c))
<1>1. kept \in Seq(ContactOf)
  <2>1. Stays(c) \in SUBSET DOMAIN contacts
    BY DEF Stays
  <2> QED
    BY <2>1, FilterOK DEF TypeOK, SessionOK
<1>2. contacts' = Append(kept, c) /\ SaveContacts
  BY DEF PutContact, Stays
<1> HIDE DEF kept
<1>3. contacts' \in Seq(ContactOf)
  BY <1>1, <1>2
<1>4. disk'.contacts = contacts'
  BY <1>2 DEF TypeOK, SessionOK, SaveContacts
<1>5. Puts
  BY <1>2, <1>4 DEF Puts, PutContact, kept
<1>6. OpsOK'
  BY EndOK DEF TypeOK, PutContact
<1>7. SessionOK'
  BY <1>2, <1>3, SavesOK DEF TypeOK, SessionOK, PutContact
<1> QED
  BY <1>5, <1>6, <1>7 DEF TypeOK, WorldOK, world, PutContact, ListStep

LEMMA PoolContactOK ==
  ASSUME TypeOK, NEW l \in Labels, NEW p \in Peers,
         NEW out \in LaneOf \cup {NoLane}, NEW reg \in BOOLEAN
  PROVE  /\ PoolContact(l, p, out, reg) \in ContactOf
         /\ PoolContact(l, p, out, reg).outKey = out
         /\ PoolContact(l, p, out, reg).registered = reg
         /\ PoolContact(l, p, out, reg).peer = p
<1> DEFINE i == FirstWith(contacts, p)
<1>1. contacts \in Seq(ContactOf) /\ made \in Nat /\ l \in AllLabels
  BY DEF TypeOK, SessionOK, AllLabels
<1>2. i \in {0} \cup DOMAIN contacts
  BY <1>1, FirstWithOK
<1>3. PoolContact(l, p, out, reg) =
         IF i = 0 THEN Contact(l, p, out, NoLane, reg)
         ELSE [Contact(l, p, out, contacts[i].inKey, reg)
                 EXCEPT !.setupDone = contacts[i].setupDone]
  BY DEF PoolContact
<1> HIDE DEF i
<1>6. \A k \in LaneOf \cup {NoLane} :
         /\ Contact(l, p, out, k, reg) \in ContactOf
         /\ Contact(l, p, out, k, reg).outKey = out
         /\ Contact(l, p, out, k, reg).registered = reg
         /\ Contact(l, p, out, k, reg).peer = p
  <2> TAKE k \in LaneOf \cup {NoLane}
  <2> QED
    BY <1>1 DEF Contact, ContactOf
<1>4. CASE i = 0
  BY <1>3, <1>4, <1>6
<1>5. CASE i # 0
  <2>1. contacts[i] \in ContactOf
    BY <1>1, <1>2, <1>5
  <2>2. contacts[i].inKey \in LaneOf \cup {NoLane} /\ contacts[i].setupDone \in BOOLEAN
    BY <2>1 DEF ContactOf
  <2> DEFINE c == Contact(l, p, out, contacts[i].inKey, reg)
             s == contacts[i].setupDone
  <2>3. c \in ContactOf /\ c.outKey = out /\ c.registered = reg /\ c.peer = p
    BY <1>6, <2>2
  <2>4. PoolContact(l, p, out, reg) = [c EXCEPT !.setupDone = s]
    BY <1>3, <1>5
  <2>5. s \in BOOLEAN
    BY <2>2
  <2> HIDE DEF c, s
  <2> QED
    BY <2>3, <2>4, <2>5 DEF ContactOf
<1> QED
  BY <1>4, <1>5

LEMMA AddRegisteredStep ==
  ASSUME TypeOK, NEW o \in Ops, AddRegistered(o)
  PROVE  TypeOK' /\ ListStep
<1> DEFINE l == op[o].label
           p == op[o].peer
           reg == Registered(op[o].via, p)
<1>1. /\ At(o, "add: registered?") /\ config \in Connections
      /\ l \in Labels /\ p \in Peers /\ reg \in BOOLEAN /\ made \in Nat
  BY DEF AddRegistered, At, TypeOK, SessionOK, OpsOK, Holds, LoggedIn, Registered
<1>2. l \in AllLabels
  BY <1>1 DEF AllLabels
<1>3. CASE IsPool /\ reg
  BY <1>1, <1>3, GoesHolds, GoesOK DEF TypeOK, AddRegistered
<1>4. CASE ~(IsPool /\ reg) /\ IsPool
  <2>1. PutContact(o, PoolContact(l, p, NoLane, FALSE))
    BY <1>4 DEF AddRegistered
  <2>2. PoolContact(l, p, NoLane, FALSE) \in ContactOf
    <3> HIDE DEF l, p
    <3> QED
      BY <1>1, PoolContactOK
  <2> QED
    BY <2>1, <2>2, PutStep
<1>5. CASE ~IsPool
  <2>1. PutContact(o, Contact(l, p, Out(config, p), In(config, p), reg))
    BY <1>5 DEF AddRegistered
  <2>2. Contact(l, p, Out(config, p), In(config, p), reg) \in ContactOf
    <3> HIDE DEF l, p, reg
    <3>1. Out(config, p) \in LaneOf /\ In(config, p) \in LaneOf
      BY <1>1, LanesOK
    <3> QED
      BY <1>1, <1>2, <3>1, ContactOK
  <2> QED
    BY <2>1, <2>2, PutStep
<1> QED
  BY <1>3, <1>4, <1>5

LEMMA AddLaneStep ==
  ASSUME TypeOK, NEW o \in Ops, AddLane(o)
  PROVE  TypeOK' /\ ListStep
<1> DEFINE l == op[o].label
           p == op[o].peer
           out == Out(op[o].via, p)
<1>1. l \in Labels /\ p \in Peers /\ op[o].via \in Connections
  BY DEF AddLane, At, TypeOK, OpsOK, Holds
<1>2. out \in LaneOf
  BY <1>1, LanesOK
<1>3. PutContact(o, PoolContact(l, p, out, TRUE))
  BY DEF AddLane
<1> HIDE DEF l, p, out
<1>4. PoolContact(l, p, out, TRUE) \in ContactOf
  BY <1>1, <1>2, PoolContactOK
<1> QED
  BY <1>3, <1>4, PutStep

\* A field of the contacts with a peer set anew.
LEMMA RefreshStep ==
  ASSUME TypeOK, NEW o \in Ops, NEW reg \in BOOLEAN, NEW out \in LaneOf \cup {NoLane},
         Refresh(o, reg, out)
  PROVE  TypeOK' /\ ListStep
<1>1. contacts \in Seq(ContactOf) /\ made \in Nat
  BY DEF TypeOK, SessionOK
<1> DEFINE n == made + 1
           new(c) == [c EXCEPT !.registered = reg, !.outKey = out, !.obj = n]
           q == op[o].contact.peer
<1>2. contacts' = [i \in DOMAIN contacts |->
                      IF contacts[i].peer = q THEN new(contacts[i]) ELSE contacts[i]]
  BY DEF Refresh
<1>3. n \in Nat
  BY <1>1
<1> HIDE DEF n, q
<1>4. ASSUME NEW c \in ContactOf
      PROVE  new(c) \in ContactOf /\ new(c).label = c.label /\ new(c).peer = c.peer
  BY <1>3 DEF ContactOf
<1> HIDE DEF new
<1>5. \A i \in DOMAIN contacts :
          /\ contacts'[i] \in ContactOf
          /\ contacts'[i].label = contacts[i].label /\ contacts'[i].peer = contacts[i].peer
  <2> TAKE i \in DOMAIN contacts
  <2>1. contacts[i] \in ContactOf
    BY <1>1
  <2> QED
    BY <1>2, <1>4, <2>1
<1>6. contacts' = [i \in DOMAIN contacts |-> contacts'[i]]
  BY <1>2
<1>7. contacts' \in Seq(ContactOf)
  BY <1>1, <1>5, <1>6, MapOK
<1>8. Kept(contacts, contacts')
  BY <1>2, <1>5 DEF Kept
<1>9. SessionOK' /\ Saves
  BY <1>7, <1>3, SavesOK DEF Refresh, TypeOK, SessionOK, n
<1>10. OpsOK'
  BY EndOK DEF TypeOK, Refresh
<1> QED
  BY <1>8, <1>9, <1>10 DEF TypeOK, WorldOK, world, ghosts, Refresh, ListStep, Maps

LEMMA RefreshedStep ==
  ASSUME TypeOK, NEW o \in Ops, Refreshed(o)
  PROVE  TypeOK' /\ ListStep
<1> DEFINE c == op[o].contact
           reg == Registered(op[o].via, c.peer)
<1>1. At(o, "refresh: registered?") /\ c \in ContactOf /\ reg \in BOOLEAN
  BY DEF Refreshed, At, TypeOK, OpsOK, Holds, Registered
<1>2. \/ Goes(o, Idle)
      \/ IsPool /\ Goes(o, [op[o] EXCEPT !.at = "refresh: lane", !.via = config])
      \/ Refresh(o, reg, c.outKey)
  BY DEF Refreshed
<1>3. CASE Goes(o, Idle)
  BY <1>3, IdleOK, GoesOK
<1>4. CASE IsPool /\ Goes(o, [op[o] EXCEPT !.at = "refresh: lane", !.via = config])
  BY <1>1, <1>4, StoreAssumption, GoesHolds, GoesOK DEF TypeOK, IsPool
<1>5. CASE Refresh(o, reg, c.outKey)
  <2>1. c.outKey \in LaneOf \cup {NoLane}
    BY <1>1 DEF ContactOf
  <2> HIDE DEF c, reg
  <2> QED
    BY <1>1, <1>5, <2>1, RefreshStep
<1> QED
  BY <1>2, <1>3, <1>4, <1>5

LEMMA RefreshLaneStep ==
  ASSUME TypeOK, NEW o \in Ops, RefreshLane(o)
  PROVE  TypeOK' /\ ListStep
<1> DEFINE p == op[o].contact.peer
           out == Out(op[o].via, p)
<1>1. op[o].contact \in ContactOf /\ op[o].via \in Connections
  BY DEF RefreshLane, At, TypeOK, OpsOK, Holds
<1>2. p \in Peers
  BY <1>1 DEF ContactOf
<1>3. out \in LaneOf
  BY <1>1, <1>2, LanesOK
<1>4. Refresh(o, TRUE, out)
  BY DEF RefreshLane
<1> HIDE DEF out
<1> QED
  BY <1>3, <1>4, RefreshStep

-----------------------------------------------------------------------------
\* The first of some positions, 0 if there are none.
LEMMA FirstOrNone ==
  ASSUME NEW n \in Nat, NEW I \in SUBSET (1..n), NEW stop,
         stop = IF I # {} THEN Min(I) ELSE 0
  PROVE  stop \in 0..n
<1>1. I \in SUBSET Nat
  OBVIOUS
<1>2. CASE I = {}
  BY <1>2
<1>3. CASE I # {}
  <2>1. Min(I) \in I
    BY <1>1, <1>3, FirstPosition
  <2>2. stop = Min(I)
    BY <1>3
  <2>3. stop \in 1..n
    BY <2>1, <2>2
  <2> QED
    BY <2>3
<1> QED
  BY <1>2, <1>3

\* A merge into the list, to which the discovery may have added a contact.
LEMMA MergeStep ==
  ASSUME TypeOK, NEW o \in Ops, NEW list \in Seq(ContactOf), NEW todo \in Seq(LaneOf),
         NEW changed \in BOOLEAN, Merge(o, list, todo, changed)
  PROVE  /\ TypeOK' /\ Saves /\ added' = added
         /\ Kept(list, contacts')
<1> DEFINE I == {n \in 1..Len(todo) : todo[n].from = "peer" /\ ~Knows(list, todo[n].peer)}
           stop == SelectInSeq(todo, LAMBDA l : l.from = "peer" /\ ~Knows(list, l.peer))
           known == IF stop = 0 THEN todo ELSE SubSeq(todo, 1, stop - 1)
           merged == Merged(list, ToSet(known))
           differs == changed \/ merged # list
           left == SubSeq(todo, stop, Len(todo))
           r == [op[o] EXCEPT !.at = "found: registered?", !.via = config,
                              !.changed = differs, !.todo = left]
<1>1. stop \in 0..Len(todo)
  <2>1. stop = IF I # {} THEN Min(I) ELSE 0
    BY DEF SelectInSeq
  <2>2. I \in SUBSET (1..Len(todo)) /\ Len(todo) \in Nat
    OBVIOUS
  <2> HIDE DEF I, stop
  <2> QED
    BY <2>1, <2>2, FirstOrNone
<1>2. /\ contacts' = merged
      /\ made' = IF merged = contacts THEN made ELSE made + 1
      /\ IF stop # 0 /\ LoggedIn
         THEN Await(o, r) /\ UNCHANGED <<disk, syncing>>
         ELSE /\ ScanOver(o, stop # 0, merged)
              /\ IF stop = 0 /\ differs THEN SaveContacts ELSE UNCHANGED disk
      /\ UNCHANGED <<config, world, runs, added, confirmed>>
  BY DEF Merge
<1> HIDE DEF stop, I
<1>3. ToSet(known) \in SUBSET LaneOf
  <2>1. known \in Seq(LaneOf)
    BY <1>1
  <2> HIDE DEF known
  <2> QED
    BY <2>1 DEF ToSet
<1> HIDE DEF known
<1>4. made \in Nat /\ config \in Connections \cup {NoConnection} /\ OpsOK /\ syncing \in BOOLEAN
  BY DEF TypeOK, SessionOK
<1>5. merged \in Seq(ContactOf) /\ Kept(list, merged)
  BY <1>3, <1>4, MergedOK
<1> HIDE DEF merged
<1>6. differs \in BOOLEAN
  OBVIOUS
<1> HIDE DEF differs
<1>7. OpsOK' /\ syncing' \in BOOLEAN
  <2>1. CASE stop # 0 /\ LoggedIn
    <3>1. left \in Seq(LaneOf) /\ left # <<>>
      <4>1. stop \in 1..Len(todo)
        BY <1>1, <2>1
      <4>2. left \in Seq(LaneOf) /\ Len(left) = Len(todo) - stop + 1
        BY <4>1
      <4> HIDE DEF left
      <4>3. Len(left) > 0
        BY <4>1, <4>2
      <4> QED
        BY <4>2, <4>3
    <3> HIDE DEF left
    <3>2. config \in Connections
      BY <1>4, <2>1 DEF LoggedIn
    <3>3. op[o] \in Operation /\ Await(o, r)
      BY <1>2, <1>4, <2>1 DEF OpsOK, Holds
    <3>4. /\ r \in Operation /\ r.at = "found: registered?" /\ r.via = config
          /\ r.todo = left /\ r.syncs = op[o].syncs
      BY <1>6, <3>1, <3>2, <3>3 DEF Operation, Calls, Scans
    <3> HIDE DEF r
    <3>5. Holds(r)
      BY <3>1, <3>2, <3>4 DEF Holds, Scans
    <3>6. syncing' = syncing
      BY <1>2, <2>1
    <3> QED
      BY <1>4, <3>3, <3>5, <3>6, AwaitOK
  <2>2. CASE ~(stop # 0 /\ LoggedIn)
    <3>1. ScanOver(o, stop # 0, merged)
      BY <1>2, <2>2
    <3> QED
      BY <1>4, <1>5, <3>1, ScanOverOK
  <2> QED
    BY <2>1, <2>2
<1>8. contacts' \in Seq(ContactOf) /\ (SaveContacts \/ UNCHANGED disk)
  BY <1>2, <1>5
<1>9. SessionOK'
  BY <1>2, <1>4, <1>7, <1>8, SavesOK DEF SessionOK
<1>10. WorldOK'
  BY <1>2 DEF TypeOK, WorldOK, world
<1> QED
  BY <1>2, <1>5, <1>7, <1>8, <1>9, <1>10, SavesOK DEF TypeOK

LEMMA ScannedStep ==
  ASSUME TypeOK, NEW o \in Ops, Scanned(o)
  PROVE  TypeOK' /\ ListStep
<1>1. contacts \in Seq(ContactOf) /\ Scan(op[o].via) \in Seq(LaneOf)
  BY ScanOK DEF TypeOK, SessionOK
<1>2. Merge(o, contacts, Scan(op[o].via), FALSE)
  BY DEF Scanned
<1> QED
  BY <1>1, <1>2, MergeStep DEF ListStep, Maps

LEMMA OneMore ==
  ASSUME NEW n \in Nat
  PROVE  n + 1 \in Nat
OBVIOUS

\* The contact a stranger becomes.
FoundOne(o, out, reg) ==
    Contact(ShortLabel(contacts, Head(op[o].todo).peer), Head(op[o].todo).peer,
            out, Head(op[o].todo), reg)

LEMMA FoundContact ==
  ASSUME TypeOK, NEW o \in Ops, op[o].at \in {"found: registered?", "found: lane"},
         NEW out \in LaneOf \cup {NoLane}, NEW reg \in BOOLEAN, Found(o, out, reg)
  PROVE  /\ FoundOne(o, out, reg) \in ContactOf
         /\ Append(contacts, FoundOne(o, out, reg)) \in Seq(ContactOf)
         /\ Tail(op[o].todo) \in Seq(LaneOf)
         /\ Merge(o, Append(contacts, FoundOne(o, out, reg)), Tail(op[o].todo), TRUE)
         /\ \A i \in DOMAIN contacts : contacts[i].label # FoundOne(o, out, reg).label
<1> DEFINE l == Head(op[o].todo)
           c == FoundOne(o, out, reg)
           list == Append(contacts, c)
           rest == Tail(op[o].todo)
<1>1. op[o].todo \in Seq(LaneOf) /\ op[o].todo # <<>>
  BY DEF TypeOK, OpsOK, Holds
<1>2. l \in LaneOf /\ rest \in Seq(LaneOf)
  BY <1>1, HeadTailProperties
<1>3. l.peer \in Peers
  BY <1>2 DEF LaneOf
<1>4. contacts \in Seq(ContactOf) /\ made \in Nat
  BY DEF TypeOK, SessionOK
<1>5. Merge(o, list, rest, TRUE)
  BY DEF Found, FoundOne
<1> HIDE DEF l, rest
<1>6. /\ ShortLabel(contacts, l.peer) \in AllLabels
      /\ \A i \in DOMAIN contacts : contacts[i].label # ShortLabel(contacts, l.peer)
  BY <1>3, <1>4, ShortLabelOK
<1>7. /\ c \in ContactOf /\ c.label = ShortLabel(contacts, l.peer)
      /\ c.peer = l.peer /\ c.outKey = out /\ c.registered = reg
  <2> DEFINE s == ShortLabel(contacts, l.peer)
             p == l.peer
  <2>1. s \in AllLabels /\ p \in Peers
    BY <1>3, <1>6
  <2>2. c = Contact(s, p, out, l, reg)
    BY DEF FoundOne, l
  <2> HIDE DEF s, p, c, list
  <2>4. /\ l \in LaneOf \cup {NoLane} /\ made + 1 \in Nat
        /\ out \in LaneOf \cup {NoLane} /\ reg \in BOOLEAN
    <3>1. l \in LaneOf \cup {NoLane}
      BY <1>2
    <3>2. made + 1 \in Nat
      BY <1>4, OneMore, Zenon
    <3>3. out \in LaneOf \cup {NoLane}
      OBVIOUS
    <3>4. reg \in BOOLEAN
      OBVIOUS
    <3> QED
      BY <3>1, <3>2, <3>3, <3>4
  <2>5. c = [label |-> s, peer |-> p, outKey |-> out, inKey |-> l, registered |-> reg,
             setupDone |-> FALSE, obj |-> made + 1]
    BY <2>2 DEF Contact
  <2>3. c \in ContactOf
    BY <2>1, <2>4, <2>5 DEF ContactOf
  <2>6. c.label = s /\ c.peer = p /\ c.outKey = out /\ c.registered = reg
    BY <2>5
  <2> QED
    BY <2>3, <2>6 DEF s, p
<1> HIDE DEF c
<1>8. list \in Seq(ContactOf)
  BY <1>4, <1>7, AppendProperties
<1> QED
  BY <1>2, <1>5, <1>6, <1>7, <1>8 DEF c, rest

LEMMA FoundStep ==
  ASSUME TypeOK, NEW o \in Ops, op[o].at \in {"found: registered?", "found: lane"},
         NEW out \in LaneOf \cup {NoLane}, NEW reg \in BOOLEAN, Found(o, out, reg)
  PROVE  TypeOK' /\ ListStep
<1> DEFINE c == FoundOne(o, out, reg)
           list == Append(contacts, c)
           rest == Tail(op[o].todo)
<1>1. c \in ContactOf /\ \A i \in DOMAIN contacts : contacts[i].label # c.label
  BY FoundContact
<1>2. list \in Seq(ContactOf) /\ rest \in Seq(LaneOf) /\ Merge(o, list, rest, TRUE)
  BY FoundContact
<1> HIDE DEF c, list, rest
<1>3. TypeOK' /\ Saves /\ added' = added /\ Kept(list, contacts')
  BY <1>2, MergeStep
<1>4. Finds
  BY <1>1, <1>3 DEF Finds, list
<1> QED
  BY <1>3, <1>4 DEF ListStep

LEMMA FoundRegisteredStep ==
  ASSUME TypeOK, NEW o \in Ops, FoundRegistered(o)
  PROVE  TypeOK' /\ ListStep
<1>1. At(o, "found: registered?") /\ op[o].at = "found: registered?"
  BY DEF FoundRegistered, At
<1>2. \/ Found(o, NoLane, FALSE)
      \/ IsPool /\ Goes(o, [op[o] EXCEPT !.at = "found: lane", !.via = config])
      \/ /\ UNCHANGED <<config, contacts, disk, made, world, runs, ghosts>>
         /\ ScanOver(o, TRUE, contacts)
  BY DEF FoundRegistered
<1>3. CASE Found(o, NoLane, FALSE)
  BY <1>1, <1>3, FoundStep
<1>4. CASE IsPool /\ Goes(o, [op[o] EXCEPT !.at = "found: lane", !.via = config])
  BY <1>1, <1>4, StoreAssumption, GoesHolds, GoesOK DEF TypeOK, IsPool
<1>5. CASE /\ UNCHANGED <<config, contacts, disk, made, world, runs, ghosts>>
           /\ ScanOver(o, TRUE, contacts)
  <2>1. OpsOK' /\ syncing' \in BOOLEAN
    BY <1>5, ScanOverOK DEF TypeOK, SessionOK
  <2> QED
    BY <1>5, <2>1, SameLists DEF TypeOK, SessionOK, WorldOK, world, ghosts
<1> QED
  BY <1>2, <1>3, <1>4, <1>5

LEMMA FoundLaneStep ==
  ASSUME TypeOK, NEW o \in Ops, FoundLane(o)
  PROVE  TypeOK' /\ ListStep
<1> DEFINE p == Head(op[o].todo).peer
           out == Out(op[o].via, p)
<1>1. /\ op[o].at = "found: lane" /\ op[o].via \in Connections
      /\ op[o].todo \in Seq(LaneOf) /\ op[o].todo # <<>>
  BY DEF FoundLane, At, TypeOK, OpsOK, Holds
<1>2. Head(op[o].todo) \in LaneOf
  BY <1>1, HeadTailProperties
<1>3. p \in Peers
  BY <1>2 DEF LaneOf
<1>4. out \in LaneOf
  BY <1>1, <1>3, LanesOK
<1>5. Found(o, out, TRUE)
  BY DEF FoundLane
<1> HIDE DEF out
<1> QED
  BY <1>1, <1>4, <1>5, FoundStep

LEMMA ReadStep ==
  ASSUME TypeOK, NEW o \in Ops, Read(o)
  PROVE  TypeOK' /\ ListStep
<1>1. op[o].lanes \in SUBSET LaneOf
  BY DEF TypeOK, OpsOK, Holds, Operation
<1>2. disk' = [disk EXCEPT !.history = disk.history \cup op[o].lanes]
  BY DEF Read
<1>3. /\ disk' \in [config : Connections \cup {NoConnection},
                    contacts : Seq(ContactOf), history : SUBSET LaneOf]
      /\ disk'.contacts = disk.contacts
  <2> DEFINE h == disk.history \cup op[o].lanes
  <2>1. h \in SUBSET LaneOf
    BY <1>1 DEF TypeOK, SessionOK
  <2>2. disk' = [disk EXCEPT !.history = h]
    BY <1>2
  <2> HIDE DEF h
  <2> QED
    BY <2>1, <2>2 DEF TypeOK, SessionOK
<1>4. OpsOK' /\ syncing' \in BOOLEAN
  BY EndOK DEF Read, SyncEnds, TypeOK
<1>5. contacts' = contacts /\ added' = added
  BY DEF Read, ghosts
<1>6. Maps
  BY <1>3, <1>5 DEF Maps, Kept, Saves
<1> QED
  BY <1>3, <1>4, <1>6 DEF Read, TypeOK, SessionOK, WorldOK, world, ListStep

LEMMA WalkedStep ==
  ASSUME TypeOK, NEW o \in Ops, Walked(o)
  PROVE  TypeOK' /\ ListStep
<1> DEFINE n == NextEmpty(op[o].via, op[o].contact.outKey)
           p == IF IsPool THEN op[o].contact.peer ELSE NoLane
           r == [op[o] EXCEPT !.at = "submit", !.via = config, !.index = n, !.peer = p]
<1>1. At(o, "walk") /\ LoggedIn /\ Goes(o, r)
  BY DEF Walked
<1>2. n \in Nat
  <2>1. IsFiniteSet({s \in slots : s[1] = op[o].via /\ s[2] = op[o].contact.outKey})
    BY FS_Subset DEF TypeOK, WorldOK
  <2> QED
    BY <2>1, FS_CardinalityType DEF NextEmpty
<1>3. p \in Peers \cup {NoLane}
  BY <1>1 DEF At, TypeOK, OpsOK, Holds, ContactOf
<1>4. config \in Connections
  BY <1>1 DEF LoggedIn, TypeOK, SessionOK
<1> HIDE DEF n, p
<1>5. Holds(r)
  BY <1>1, <1>2, <1>3, <1>4, GoesHolds DEF TypeOK
<1> QED
  BY <1>1, <1>5, GoesOK

LEMMA MarkOK ==
  ASSUME TypeOK, NEW p, MarkSetupDone(p)
  PROVE  /\ contacts' \in Seq(ContactOf) /\ Kept(contacts, contacts')
         /\ SaveContacts /\ made' \in Nat
<1>1. contacts \in Seq(ContactOf) /\ made \in Nat
  BY DEF TypeOK, SessionOK
<1> DEFINE n == made + 1
           new(c) == [c EXCEPT !.setupDone = TRUE, !.obj = n]
<1>2. contacts' = [i \in DOMAIN contacts |->
                      IF contacts[i].peer = p THEN new(contacts[i]) ELSE contacts[i]]
  BY DEF MarkSetupDone
<1>3. n \in Nat
  BY <1>1
<1> HIDE DEF n
<1>4. ASSUME NEW c \in ContactOf
      PROVE  new(c) \in ContactOf /\ new(c).label = c.label /\ new(c).peer = c.peer
  BY <1>3 DEF ContactOf
<1> HIDE DEF new
<1>5. \A i \in DOMAIN contacts :
          /\ contacts'[i] \in ContactOf
          /\ contacts'[i].label = contacts[i].label /\ contacts'[i].peer = contacts[i].peer
  <2> TAKE i \in DOMAIN contacts
  <2>1. contacts[i] \in ContactOf
    BY <1>1
  <2> QED
    BY <1>2, <1>4, <2>1
<1>6. contacts' = [i \in DOMAIN contacts |-> contacts'[i]]
  BY <1>2
<1>7. contacts' \in Seq(ContactOf)
  BY <1>1, <1>5, <1>6, MapOK
<1> QED
  BY <1>2, <1>3, <1>5, <1>7 DEF Kept, MarkSetupDone, n

\* The slot a message takes.
SlotOf(o) == <<op[o].via, op[o].contact.outKey, op[o].index>>

LEMMA SlotOK ==
  ASSUME TypeOK, NEW o \in Ops, At(o, "submit")
  PROVE  /\ SlotOf(o) \in Connections \X LaneOf \X Nat
         /\ op[o].via \in Connections /\ op[o].contact.peer \in Peers
         /\ op[o].contact.outKey \in LaneOf /\ op[o].index \in Nat
BY DEF SlotOf, At, TypeOK, OpsOK, Holds, Operation, ContactOf

LEMMA SubmittedStep ==
  ASSUME TypeOK, NEW o \in Ops, Submitted(o)
  PROVE  TypeOK' /\ ListStep
<1>1. /\ At(o, "submit") /\ slots' = slots \cup {SlotOf(o)}
      /\ \/ /\ MarkSetupDone(op[o].contact.peer)
            /\ opened' = opened \cup {Out(op[o].via, op[o].contact.peer)}
         \/ UNCHANGED <<opened, contacts, disk, made>>
      /\ SyncFrom(o, contacts')
      /\ UNCHANGED <<config, registered, runs, added, disturbed>>
  BY DEF Submitted, SlotOf
<1>2. WorldOK'
  <2>1. SlotOf(o) \in Connections \X LaneOf \X Nat
        /\ op[o].via \in Connections /\ op[o].contact.peer \in Peers
    BY <1>1, SlotOK
  <2>2. Out(op[o].via, op[o].contact.peer) \in LaneOf
    BY <2>1, LanesOK
  <2>3. slots' \subseteq Connections \X LaneOf \X Nat /\ IsFiniteSet(slots')
    BY <1>1, <2>1, FS_AddElement DEF TypeOK, WorldOK
  <2>4. opened' \subseteq LaneOf /\ IsFiniteSet(opened')
    BY <1>1, <2>2, FS_AddElement DEF TypeOK, WorldOK
  <2> QED
    BY <1>1, <2>3, <2>4 DEF TypeOK, WorldOK
<1>3. /\ contacts' \in Seq(ContactOf) /\ Kept(contacts, contacts')
      /\ (SaveContacts \/ UNCHANGED disk) /\ made' \in Nat
  <2>1. CASE MarkSetupDone(op[o].contact.peer)
    BY <2>1, MarkOK
  <2>2. CASE UNCHANGED <<opened, contacts, disk, made>>
    BY <2>2 DEF TypeOK, SessionOK, Kept
  <2> QED
    BY <1>1, <2>1, <2>2
<1>4. OpsOK' /\ syncing' \in BOOLEAN
  <2> DEFINE list == contacts'
  <2>1. list \in Seq(ContactOf) /\ SyncFrom(o, list)
    BY <1>1, <1>3
  <2> HIDE DEF list
  <2> QED
    BY <2>1, SyncFromOK DEF TypeOK, SessionOK
<1>5. SessionOK'
  BY <1>1, <1>3, <1>4, SavesOK DEF TypeOK, SessionOK
<1> QED
  BY <1>1, <1>2, <1>3, <1>4, <1>5, SavesOK DEF TypeOK, ListStep, Maps

LEMMA ThrowsStep ==
  ASSUME TypeOK, NEW o \in Ops, Throws(o)
  PROVE  TypeOK' /\ ListStep
<1>1. UNCHANGED <<config, contacts, disk, made, world, runs, ghosts>>
  BY DEF Throws
<1>2. \/ ScanOver(o, TRUE, contacts)
      \/ SyncEnds(o)
      \/ End(o) /\ UNCHANGED syncing
  BY DEF Throws
<1>3. OpsOK' /\ syncing' \in BOOLEAN
  BY <1>2, ScanOverOK, EndOK DEF TypeOK, SessionOK, SyncEnds
<1> QED
  BY <1>1, <1>3, SameLists DEF TypeOK, SessionOK, WorldOK, world, ghosts

LEMMA SyncStep ==
  ASSUME TypeOK, NEW o \in Ops, Sync(o)
  PROVE  TypeOK' /\ ListStep
<1>1. config \in Connections /\ contacts \in Seq(ContactOf)
  BY DEF Sync, LoggedIn, TypeOK, SessionOK
<1>2. OpsOK'
  BY <1>1, SyncingOK, AwaitOK DEF Sync, TypeOK
<1> QED
  BY <1>2, SameLists DEF Sync, TypeOK, SessionOK, WorldOK, world

\* What the user starts.
StartsWith(r) == [r EXCEPT !.via = config]
LEMMA UserHolds ==
  ASSUME TypeOK, config \in Connections
  PROVE  /\ \A l \in Labels, p \in Peers :
               Holds(StartsWith([Idle EXCEPT !.at = "add: registered?", !.label = l, !.peer = p]))
         /\ Holds(StartsWith([Idle EXCEPT !.at = "scan"]))
         /\ \A c \in ContactOf :
               /\ Holds(StartsWith([Idle EXCEPT !.at = "refresh: registered?", !.contact = c]))
               /\ c.outKey # NoLane =>
                     Holds(StartsWith([Idle EXCEPT !.at = "walk", !.contact = c]))
<1>1. <<>> \in Seq(ContactOf)
  OBVIOUS
<1>2. ASSUME NEW l \in Labels, NEW p \in Peers
      PROVE  Holds(StartsWith([Idle EXCEPT !.at = "add: registered?", !.label = l, !.peer = p]))
  <2> DEFINE r == StartsWith([Idle EXCEPT !.at = "add: registered?", !.label = l, !.peer = p])
  <2>1. r \in Operation
    BY <1>1 DEF StartsWith, Operation, Idle, Calls, Scans
  <2>2. r.at = "add: registered?" /\ r.label = l /\ r.peer = p /\ r.via = config /\ r.syncs = FALSE
    BY DEF StartsWith, Idle
  <2> HIDE DEF r
  <2>3. Holds(r)
    BY <2>1, <2>2 DEF Holds
  <2> QED
    BY <2>3 DEF r
<1>3. Holds(StartsWith([Idle EXCEPT !.at = "scan"]))
  <2> DEFINE r == StartsWith([Idle EXCEPT !.at = "scan"])
  <2>1. r \in Operation
    BY <1>1 DEF StartsWith, Operation, Idle, Calls, Scans
  <2>2. r.at = "scan" /\ r.via = config /\ r.syncs = FALSE
    BY DEF StartsWith, Idle
  <2> HIDE DEF r
  <2>3. Holds(r)
    BY <2>1, <2>2 DEF Holds
  <2> QED
    BY <2>3 DEF r
<1>4. ASSUME NEW c \in ContactOf, NEW a \in {"refresh: registered?", "walk"},
             a = "walk" => c.outKey # NoLane
      PROVE  Holds(StartsWith([Idle EXCEPT !.at = a, !.contact = c]))
  <2> DEFINE r == StartsWith([Idle EXCEPT !.at = a, !.contact = c])
  <2>1. r \in Operation
    BY <1>1 DEF StartsWith, Operation, Idle, Calls, Scans
  <2>2. r.at = a /\ r.contact = c /\ r.via = config /\ r.syncs = FALSE
    BY DEF StartsWith, Idle
  <2>3. c.outKey # NoLane => c.outKey \in LaneOf
    BY DEF ContactOf
  <2> HIDE DEF r
  <2>4. Holds(r)
    BY <1>4, <2>1, <2>2, <2>3 DEF Holds
  <2> QED
    BY <2>4 DEF r
<1> QED
  BY <1>2, <1>3, <1>4

LEMMA UserStep ==
  ASSUME TypeOK, NEW o \in Ops, User(o)
  PROVE  TypeOK' /\ ListStep
<1>1. ASSUME NEW r, Starts(o, r) PROVE config \in Connections
  BY <1>1 DEF Starts, LoggedIn, TypeOK, SessionOK
<1>2. ASSUME NEW l \in Labels, NEW p \in Peers, AddContact(o, l, p) PROVE TypeOK' /\ ListStep
  BY <1>1, <1>2, UserHolds, StartsOK DEF AddContact, StartsWith
<1>3. ASSUME NEW c \in ToSet(contacts), RefreshRegistration(o, c) \/ Send(o, c)
      PROVE  TypeOK' /\ ListStep
  <2>1. c \in ContactOf
    <3>1. contacts \in Seq(ContactOf)
      BY DEF TypeOK, SessionOK
    <3> QED
      BY <3>1 DEF ToSet
  <2>2. CASE RefreshRegistration(o, c)
    BY <1>1, <2>1, <2>2, UserHolds, StartsOK DEF RefreshRegistration, StartsWith
  <2>3. CASE Send(o, c)
    BY <1>1, <2>1, <2>3, UserHolds, StartsOK DEF Send, StartsWith
  <2> QED
    BY <1>3, <2>2, <2>3
<1>4. CASE ScanButton(o)
  BY <1>1, <1>4, UserHolds, StartsOK DEF ScanButton, StartsWith
<1>5. ASSUME NEW k \in Connections, UpdateConnection(o, k) PROVE TypeOK' /\ ListStep
  BY <1>5, UpdateStep
<1>6. CASE Reload(o)
  BY <1>6, ReloadStep
<1> QED
  BY <1>2, <1>3, <1>4, <1>5, <1>6 DEF User

LEMMA PeerStep ==
  ASSUME TypeOK, NEW k \in Connections, NEW p \in Peers, PeerRegisters(k, p) \/ PeerOpens(k, p)
  PROVE  TypeOK' /\ ListStep
<1>1. UNCHANGED <<session, op, slots, runs, ghosts>>
  BY DEF PeerRegisters, PeerOpens
<1>2. WorldOK'
  <2>1. In(k, p) \in LaneOf
    BY LanesOK
  <2>2. \/ registered' = registered \cup {<<k, p>>} /\ opened' = opened
        \/ registered' = registered /\ opened' = opened \cup {In(k, p)}
    BY DEF PeerRegisters, PeerOpens
  <2>3. IsFiniteSet(opened') /\ opened' \subseteq LaneOf
    BY <2>1, <2>2, FS_AddElement DEF TypeOK, WorldOK
  <2> QED
    BY <1>1, <2>2, <2>3 DEF TypeOK, WorldOK
<1> QED
  BY <1>1, <1>2, SameLists DEF session, ghosts, TypeOK, SessionOK, OpsOK

\* Every step keeps the types, and is one of the five steps of the list.
LEMMA NextTypes ==
  ASSUME TypeOK, [Next]_vars
  PROVE  TypeOK' /\ ListStep
<1>1. CASE UNCHANGED vars
  BY <1>1, SameLists DEF vars, session, world, ghosts, TypeOK, SessionOK, WorldOK, OpsOK
<1>2. ASSUME NEW o \in Ops, Step(o) PROVE TypeOK' /\ ListStep
  BY <1>2, RederivedStep, AddRegisteredStep, AddLaneStep, RefreshedStep, RefreshLaneStep,
     ScannedStep, FoundRegisteredStep, FoundLaneStep, ReadStep, WalkedStep, SubmittedStep
     DEF Step
<1> QED
  BY <1>1, <1>2, ThrowsStep, UserStep, SyncStep, DisconnectStep, OnboardingStep, PeerStep
     DEF Next

-----------------------------------------------------------------------------
(***************************************************************************)
(* The contacts.                                                           *)
(***************************************************************************)

Has(list, a) == \E i \in DOMAIN list : <<list[i].label, list[i].peer>> = a

LEMMA KeptFacts ==
  ASSUME NEW a, NEW b, Kept(a, b)
  PROVE  /\ Unique(a) => Unique(b)
         /\ \A x : Has(a, x) => Has(b, x)
<1>1. /\ DOMAIN b = DOMAIN a
      /\ \A i \in DOMAIN a : b[i].label = a[i].label /\ b[i].peer = a[i].peer
  BY DEF Kept
<1>2. Unique(a) => Unique(b)
  BY <1>1 DEF Unique
<1>3. ASSUME NEW x, Has(a, x) PROVE Has(b, x)
  BY <1>1, <1>3 DEF Has
<1> QED
  BY <1>2, <1>3

\* No contact is lost, as positions say it.
HasAll == \A a \in added : Has(contacts, a) /\ Has(disk.contacts, a)

LEMMA LostIsMissed == TypeOK => (NoContactLost <=> HasAll)
<1> SUFFICES ASSUME TypeOK PROVE NoContactLost <=> HasAll
  OBVIOUS
<1>1. ASSUME NEW list, NEW a
      PROVE  (\E c \in ToSet(list) : <<c.label, c.peer>> = a) <=> Has(list, a)
  BY DEF ToSet, Has
<1> QED
  BY <1>1 DEF NoContactLost, HasAll

\* An appended contact comes after all the others.
LEMMA AppendOK ==
  ASSUME NEW list \in Seq(ContactOf), NEW c \in ContactOf
  PROVE  /\ Append(list, c) \in Seq(ContactOf)
         /\ DOMAIN Append(list, c) = DOMAIN list \cup {Len(list) + 1}
         /\ Len(list) + 1 \notin DOMAIN list
         /\ \A i \in DOMAIN list : Append(list, c)[i] = list[i]
         /\ Append(list, c)[Len(list) + 1] = c
         /\ \A x : Has(list, x) => Has(Append(list, c), x)
         /\ Has(Append(list, c), <<c.label, c.peer>>)
         /\ Unique(list) /\ (\A i \in DOMAIN list : list[i].label # c.label)
               => Unique(Append(list, c))
<1> DEFINE A == Append(list, c)
           n == Len(list) + 1
<1>1. /\ A \in Seq(ContactOf) /\ DOMAIN A = DOMAIN list \cup {n} /\ n \notin DOMAIN list
      /\ (\A i \in DOMAIN list : A[i] = list[i]) /\ A[n] = c
  <2>1. A \in Seq(ContactOf) /\ Len(A) = n
    BY AppendProperties
  <2>2. (\A i \in 1..Len(list) : A[i] = list[i]) /\ A[n] = c
    BY AppendProperties
  <2>3. Len(list) \in Nat /\ DOMAIN list = 1..Len(list)
    OBVIOUS
  <2>4. DOMAIN A = 1..n
    BY <2>1
  <2> HIDE DEF A
  <2> QED
    BY <2>1, <2>2, <2>3, <2>4
<1> HIDE DEF A, n
<1>2. ASSUME NEW x, Has(list, x) PROVE Has(A, x)
  BY <1>1, <1>2 DEF Has
<1>3. Has(A, <<c.label, c.peer>>)
  BY <1>1 DEF Has
<1>4. ASSUME Unique(list), \A i \in DOMAIN list : list[i].label # c.label
      PROVE  Unique(A)
  BY <1>1, <1>4 DEF Unique
<1> QED
  BY <1>1, <1>2, <1>3, <1>4 DEF A, n

LEMMA ListsStep ==
  ASSUME TypeOK, ListsOK, [Next]_vars
  PROVE  ListsOK'
<1>1. TypeOK' /\ ListStep
  BY NextTypes
<1>2. contacts \in Seq(ContactOf) /\ contacts' \in Seq(ContactOf)
  BY <1>1 DEF TypeOK, SessionOK
<1>3. Unique(contacts) /\ Unique(disk.contacts) /\ HasAll
  BY LostIsMissed DEF ListsOK
<1> SUFFICES Unique(contacts') /\ Unique(disk'.contacts)
             /\ \A a \in added' : Has(contacts', a) /\ Has(disk'.contacts, a)
  <2>1. HasAll' => NoContactLost'
    <3>1. (TypeOK => (NoContactLost <=> HasAll))'
      BY LostIsMissed, PTL
    <3> QED
      BY <1>1, <3>1
  <2> QED
    BY <2>1 DEF ListsOK, HasAll
<1>4. CASE Maps
  BY <1>3, <1>4, KeptFacts DEF Maps, Saves, HasAll
<1>5. CASE Puts
  <2>1. PICK c \in ContactOf :
           /\ contacts' = Append(Pick(contacts, Stays(c)), c)
           /\ disk'.contacts = contacts'
           /\ added' = {a \in added : ~Displaces(c, a[1], a[2])} \cup {<<c.label, c.peer>>}
    BY <1>5 DEF Puts
  <2> DEFINE kept == Pick(contacts, Stays(c))
  <2>2. Stays(c) \in SUBSET DOMAIN contacts
    BY DEF Stays
  <2>3. /\ kept \in Seq(ContactOf) /\ Unique(kept)
        /\ \A n \in DOMAIN kept : \E i \in Stays(c) : kept[n] = contacts[i]
        /\ \A i \in Stays(c) : \E n \in DOMAIN kept : kept[n] = contacts[i]
    BY <1>2, <1>3, <2>2, FilterOK
  <2>4. contacts' = Append(kept, c)
    BY <2>1
  <2> HIDE DEF kept
  <2>5. \A n \in DOMAIN kept : kept[n].label # c.label
    BY <2>3 DEF Stays, Displaces
  <2>6. Unique(contacts')
    BY <2>3, <2>4, <2>5, AppendOK
  <2>7. ASSUME NEW a \in added' PROVE Has(contacts', a)
    <3>1. CASE a = <<c.label, c.peer>>
      BY <2>3, <2>4, <3>1, AppendOK
    <3>2. CASE a \in added /\ ~Displaces(c, a[1], a[2])
      <4>1. PICK i \in DOMAIN contacts : <<contacts[i].label, contacts[i].peer>> = a
        BY <1>3, <3>2 DEF HasAll, Has
      <4>2. i \in Stays(c)
        BY <3>2, <4>1 DEF Stays
      <4>3. Has(kept, a)
        BY <2>3, <4>1, <4>2 DEF Has
      <4> QED
        BY <2>3, <2>4, <4>3, AppendOK
    <3> QED
      BY <2>1, <2>7, <3>1, <3>2
  <2> QED
    BY <2>1, <2>6, <2>7
<1>6. CASE Finds
  <2>1. PICK c \in ContactOf :
           /\ \A i \in DOMAIN contacts : contacts[i].label # c.label
           /\ Kept(Append(contacts, c), contacts') /\ Saves /\ added' = added
    BY <1>6 DEF Finds
  <2>2. /\ Unique(Append(contacts, c))
        /\ \A x : Has(contacts, x) => Has(Append(contacts, c), x)
    BY <1>2, <1>3, <2>1, AppendOK
  <2>3. Unique(contacts') /\ \A x : Has(contacts, x) => Has(contacts', x)
    BY <2>1, <2>2, KeptFacts
  <2> QED
    BY <1>3, <2>1, <2>3 DEF Saves, HasAll
<1>7. CASE Clears
  BY <1>7 DEF Clears, Unique
<1>8. CASE Restores
  BY <1>3, <1>8 DEF Restores, HasAll
<1> QED
  BY <1>1, <1>4, <1>5, <1>6, <1>7, <1>8 DEF ListStep

-----------------------------------------------------------------------------
(***************************************************************************)
(* The operations: which of them sync, and which of them send.             *)
(***************************************************************************)

Sending == {"walk", "submit"}

\* What a step makes of the flag, by the slot it moves.
FlagFollows(o) ==
    \/ syncing' = FALSE
    \/ op'[o].syncs
    \/ syncing' = syncing /\ ~op[o].syncs
SendsAlone(o) ==
    op'[o].at \in Sending => op[o].at \in Sending \/ \A q \in Ops : op[q].at \notin Sending
Moves(o) ==
    /\ \A q \in Ops \ {o} : op'[q] = op[q]
    /\ FlagFollows(o) /\ SendsAlone(o)
OpStep ==
    \/ op' = op /\ syncing' \in {FALSE, syncing}
    \/ syncing' = FALSE /\ \A q \in Ops : op'[q].at \notin Sending
    \/ \E o \in Ops : Moves(o)

LEMMA AwaitFacts ==
  ASSUME OpsOK, NEW o \in Ops, NEW r, Await(o, r)
  PROVE  op'[o] = r /\ \A q \in Ops \ {o} : op'[q] = op[q]
BY DEF OpsOK, Await

LEMMA EndFacts ==
  ASSUME OpsOK, NEW o \in Ops, End(o)
  PROVE  /\ op'[o] = Idle /\ \A q \in Ops \ {o} : op'[q] = op[q]
         /\ op'[o].at = "idle" /\ op'[o].at \notin Sending
BY AwaitFacts DEF End, Idle, Sending

\* Only a scan or a reading is part of a sync.
LEMMA NotSyncing ==
  ASSUME OpsOK, NEW o \in Ops, op[o].at \notin Scans \cup {"read"}
  PROVE  ~op[o].syncs
BY DEF OpsOK, Holds

LEMMA GoesMoves ==
  ASSUME OpsOK, NEW o \in Ops, NEW r, Goes(o, r),
         r.syncs = op[o].syncs \/ ~op[o].syncs,
         r.at \in Sending => op[o].at \in Sending
  PROVE  Moves(o)
BY AwaitFacts DEF Goes, Moves, FlagFollows, SendsAlone, session

LEMMA SyncingFacts ==
  ASSUME NEW list
  PROVE  /\ Syncing(list).syncs /\ Syncing(list).at \notin Sending
         /\ [Syncing(list) EXCEPT !.at = "read", !.lanes = LaneKeys(list)].syncs
         /\ [Syncing(list) EXCEPT !.at = "read", !.lanes = LaneKeys(list)].at \notin Sending
BY DEF Syncing, Idle, Sending

LEMMA SyncFromMoves ==
  ASSUME OpsOK, NEW o \in Ops, NEW list, SyncFrom(o, list), ~op[o].syncs
  PROVE  Moves(o)
<1>1. CASE LoggedIn /\ ~syncing
  <2>1. Await(o, Syncing(list))
    BY <1>1 DEF SyncFrom
  <2> QED
    BY <2>1, SyncingFacts, AwaitFacts DEF Moves, FlagFollows, SendsAlone
<1>2. CASE ~(LoggedIn /\ ~syncing)
  <2>1. End(o) /\ syncing' = syncing
    BY <1>2 DEF SyncFrom
  <2> QED
    BY <2>1, EndFacts DEF Moves, FlagFollows, SendsAlone
<1> QED
  BY <1>1, <1>2

LEMMA ScanOverMoves ==
  ASSUME OpsOK, NEW o \in Ops, NEW threw, NEW list, ScanOver(o, threw, list)
  PROVE  Moves(o)
<1>1. CASE ~op[o].syncs
  <2>1. (End(o) /\ syncing' = syncing) \/ SyncFrom(o, list)
    BY <1>1 DEF ScanOver
  <2>2. CASE End(o) /\ syncing' = syncing
    BY <1>1, <2>2, EndFacts DEF Moves, FlagFollows, SendsAlone
  <2> QED
    BY <1>1, <2>1, <2>2, SyncFromMoves
<1>2. CASE op[o].syncs /\ LoggedIn
  <2>1. Await(o, [Syncing(list) EXCEPT !.at = "read", !.lanes = LaneKeys(list)])
    BY <1>2 DEF ScanOver
  <2> QED
    BY <2>1, SyncingFacts, AwaitFacts DEF Moves, FlagFollows, SendsAlone
<1>3. CASE op[o].syncs /\ ~LoggedIn
  <2>1. End(o) /\ syncing' = FALSE
    BY <1>3 DEF ScanOver, SyncEnds
  <2> QED
    BY <2>1, EndFacts DEF Moves, FlagFollows, SendsAlone
<1> QED
  BY <1>1, <1>2, <1>3

LEMMA MergeMoves ==
  ASSUME OpsOK, NEW o \in Ops, NEW list, NEW todo, NEW changed, Merge(o, list, todo, changed)
  PROVE  Moves(o)
<1>1. \/ UNCHANGED syncing /\ \E d, t :
            Await(o, [op[o] EXCEPT !.at = "found: registered?",
                               !.via = config, !.changed = d, !.todo = t])
      \/ \E threw, l : ScanOver(o, threw, l)
  BY DEF Merge
<1>2. ASSUME UNCHANGED syncing, NEW d, NEW t,
             Await(o, [op[o] EXCEPT !.at = "found: registered?",
                                !.via = config, !.changed = d, !.todo = t])
      PROVE  Moves(o)
  <2> DEFINE r == [op[o] EXCEPT !.at = "found: registered?",
                                !.via = config, !.changed = d, !.todo = t]
  <2>1. r.syncs = op[o].syncs /\ r.at \notin Sending
    BY DEF OpsOK, Holds, Operation, Sending
  <2>2. op'[o] = r /\ \A q \in Ops \ {o} : op'[q] = op[q]
    BY <1>2, AwaitFacts
  <2> HIDE DEF r
  <2> QED
    BY <1>2, <2>1, <2>2 DEF Moves, FlagFollows, SendsAlone
<1> QED
  BY <1>1, <1>2, ScanOverMoves

LEMMA EndMoves ==
  ASSUME OpsOK, NEW o \in Ops, End(o), UNCHANGED syncing, ~op[o].syncs
  PROVE  Moves(o)
BY EndFacts DEF Moves, FlagFollows, SendsAlone

LEMMA StepMoves ==
  ASSUME TypeOK, NEW o \in Ops, Step(o)
  PROVE  Moves(o)
<1>1. OpsOK /\ op[o] \in Operation
  BY DEF TypeOK, OpsOK, Holds
<1>2. CASE Rederived(o)
  <2>1. op[o].at = "reconcile" /\ syncing' = syncing
    BY <1>2 DEF Rederived, At
  <2>2. ~op[o].syncs
    BY <1>1, <2>1, NotSyncing DEF Scans
  <2>3. End(o) \/ \E t, c : Await(o, [op[o] EXCEPT !.todo = t, !.via = config, !.changed = c])
    BY <1>2 DEF Rederived
  <2>4. ASSUME NEW t, NEW c, Await(o, [op[o] EXCEPT !.todo = t, !.via = config, !.changed = c])
        PROVE  Moves(o)
    <3>1. [op[o] EXCEPT !.todo = t, !.via = config, !.changed = c].at = "reconcile"
      BY <1>1, <2>1 DEF Operation
    <3> QED
      BY <1>1, <2>1, <2>2, <2>4, <3>1, AwaitFacts DEF Moves, FlagFollows, SendsAlone, Sending
  <2> QED
    BY <1>1, <2>1, <2>2, <2>3, <2>4, EndMoves
<1>3. ASSUME NEW c, PutContact(o, c), op[o].at \in {"add: registered?", "add: lane"}
      PROVE  Moves(o)
  BY <1>1, <1>3, NotSyncing, EndMoves DEF PutContact, Scans
<1>4. CASE AddRegistered(o)
  <2>1. op[o].at = "add: registered?"
    BY <1>4 DEF AddRegistered, At
  <2>2. Goes(o, [op[o] EXCEPT !.at = "add: lane", !.via = config]) \/ \E c : PutContact(o, c)
    BY <1>4 DEF AddRegistered
  <2>3. [op[o] EXCEPT !.at = "add: lane", !.via = config].at \notin Sending
    BY <1>1 DEF Operation, Sending
  <2>4. ~op[o].syncs
    BY <1>1, <2>1, NotSyncing DEF Scans
  <2> QED
    BY <1>1, <1>3, <2>1, <2>2, <2>3, <2>4, GoesMoves
<1>5. CASE AddLane(o)
  <2>1. op[o].at = "add: lane" /\ \E c : PutContact(o, c)
    BY <1>5 DEF AddLane, At
  <2> QED
    BY <1>3, <2>1
<1>6. ASSUME NEW reg, NEW out, Refresh(o, reg, out),
             op[o].at \in {"refresh: registered?", "refresh: lane"}
      PROVE  Moves(o)
  BY <1>1, <1>6, NotSyncing, EndMoves DEF Refresh, Scans
<1>7. CASE Refreshed(o)
  <2>1. op[o].at = "refresh: registered?"
    BY <1>7 DEF Refreshed, At
  <2>2. \/ Goes(o, Idle)
        \/ Goes(o, [op[o] EXCEPT !.at = "refresh: lane", !.via = config])
        \/ \E reg, out : Refresh(o, reg, out)
    BY <1>7 DEF Refreshed
  <2>3. /\ [op[o] EXCEPT !.at = "refresh: lane", !.via = config].at \notin Sending
        /\ Idle.at \notin Sending
    BY <1>1 DEF Operation, Sending, Idle
  <2>4. ~op[o].syncs
    BY <1>1, <2>1, NotSyncing DEF Scans
  <2> QED
    BY <1>1, <1>6, <2>1, <2>2, <2>3, <2>4, GoesMoves
<1>8. CASE RefreshLane(o)
  <2>1. op[o].at = "refresh: lane" /\ \E reg, out : Refresh(o, reg, out)
    BY <1>8 DEF RefreshLane, At
  <2> QED
    BY <1>6, <2>1
<1>9. CASE Scanned(o)
  BY <1>1, <1>9, MergeMoves DEF Scanned
<1>10. ASSUME NEW out, NEW reg, Found(o, out, reg) PROVE Moves(o)
  BY <1>1, <1>10, MergeMoves DEF Found
<1>11. CASE FoundRegistered(o)
  <2>1. \/ \E out, reg : Found(o, out, reg)
        \/ Goes(o, [op[o] EXCEPT !.at = "found: lane", !.via = config])
        \/ ScanOver(o, TRUE, contacts)
    BY <1>11 DEF FoundRegistered
  <2>2. /\ [op[o] EXCEPT !.at = "found: lane", !.via = config].at \notin Sending
        /\ [op[o] EXCEPT !.at = "found: lane", !.via = config].syncs = op[o].syncs
    BY <1>1 DEF Operation, Sending
  <2> QED
    BY <1>1, <1>10, <2>1, <2>2, GoesMoves, ScanOverMoves
<1>12. CASE FoundLane(o)
  BY <1>10, <1>12 DEF FoundLane
<1>13. CASE Read(o)
  BY <1>1, <1>13, EndFacts DEF Read, SyncEnds, Moves, FlagFollows, SendsAlone
<1>14. CASE Walked(o)
  <2>1. op[o].at = "walk" /\ \E n, p :
          Goes(o, [op[o] EXCEPT !.at = "submit", !.via = config, !.index = n, !.peer = p])
    BY <1>14 DEF Walked, At
  <2>2. ~op[o].syncs /\ op[o].at \in Sending
    BY <1>1, <2>1, NotSyncing DEF Scans, Sending
  <2> QED
    BY <1>1, <2>1, <2>2, GoesMoves
<1>15. CASE Submitted(o)
  <2>1. op[o].at = "submit" /\ SyncFrom(o, contacts')
    BY <1>15 DEF Submitted, At
  <2>2. ~op[o].syncs
    BY <1>1, <2>1, NotSyncing DEF Scans
  <2> DEFINE list == contacts'
  <2>3. SyncFrom(o, list)
    BY <2>1
  <2> HIDE DEF list
  <2> QED
    BY <1>1, <2>2, <2>3, SyncFromMoves
<1> QED
  BY <1>2, <1>4, <1>5, <1>7, <1>8, <1>9, <1>11, <1>12, <1>13, <1>14, <1>15 DEF Step

LEMMA StartsMoves ==
  ASSUME TypeOK, NEW o \in Ops, NEW r, Starts(o, r),
         r.at \in Sending => \A q \in Ops : op[q].at \notin Sending,
         [r EXCEPT !.via = config].at = r.at
  PROVE  Moves(o)
<1>1. OpsOK /\ op[o].at = "idle" /\ syncing' = syncing /\ Await(o, [r EXCEPT !.via = config])
  BY DEF Starts, At, TypeOK, session
<1>2. ~op[o].syncs
  BY <1>1, NotSyncing DEF Scans
<1> QED
  BY <1>1, <1>2, AwaitFacts DEF Moves, FlagFollows, SendsAlone

LEMMA UserMoves ==
  ASSUME TypeOK, NEW o \in Ops, User(o)
  PROVE  OpStep
<1>1. OpsOK
  BY DEF TypeOK
<1>2. ASSUME NEW l, NEW p, AddContact(o, l, p) PROVE Moves(o)
  <2> DEFINE r == [Idle EXCEPT !.at = "add: registered?", !.label = l, !.peer = p]
  <2>1. r.at \notin Sending /\ [r EXCEPT !.via = config].at = r.at
    BY DEF Idle, Sending
  <2>2. Starts(o, r)
    BY <1>2 DEF AddContact
  <2> HIDE DEF r
  <2> QED
    BY <2>1, <2>2, StartsMoves
<1>3. ASSUME NEW c, NEW a \in {"refresh: registered?", "walk"},
             Starts(o, [Idle EXCEPT !.at = a, !.contact = c]),
             a = "walk" => \A q \in Ops : op[q].at \notin Sending
      PROVE  Moves(o)
  <2> DEFINE r == [Idle EXCEPT !.at = a, !.contact = c]
  <2>1. r.at = a /\ [r EXCEPT !.via = config].at = r.at
    BY DEF Idle
  <2>2. Starts(o, r)
    BY <1>3
  <2> HIDE DEF r
  <2> QED
    BY <1>3, <2>1, <2>2, StartsMoves DEF Sending
<1>4. ASSUME NEW c, RefreshRegistration(o, c) \/ Send(o, c) PROVE Moves(o)
  BY <1>3, <1>4 DEF RefreshRegistration, Send, Sending
<1>5. CASE ScanButton(o)
  <2> DEFINE r == [Idle EXCEPT !.at = "scan"]
  <2>1. r.at \notin Sending /\ [r EXCEPT !.via = config].at = r.at
    BY DEF Idle, Sending
  <2>2. Starts(o, r)
    BY <1>5 DEF ScanButton
  <2> HIDE DEF r
  <2> QED
    BY <2>1, <2>2, StartsMoves DEF OpStep
<1>6. ASSUME NEW k \in Connections, UpdateConnection(o, k) PROVE Moves(o)
  <2>1. op[o].at = "idle" /\ syncing' = syncing /\ Await(o, Reconcile(k, contacts))
    BY <1>6 DEF UpdateConnection, At
  <2>2. Reconcile(k, contacts).at \notin Sending
    BY ReconcileOK DEF TypeOK, SessionOK, Sending
  <2>3. ~op[o].syncs
    BY <1>1, <2>1, NotSyncing DEF Scans
  <2> QED
    BY <1>1, <2>1, <2>2, <2>3, AwaitFacts DEF Moves, FlagFollows, SendsAlone
<1>7. CASE Reload(o)
  <2>1. Reconcile(disk.config, disk.contacts).at \notin Sending
    BY ReconcileOK DEF TypeOK, SessionOK, Sending
  <2>2. \A q \in Ops : op'[q] \in {Idle, Reconcile(disk.config, disk.contacts)}
    BY <1>7 DEF Reload
  <2>3. Idle.at \notin Sending
    BY DEF Idle, Sending
  <2>4. \A q \in Ops : op'[q].at \notin Sending
    BY <2>1, <2>2, <2>3, Zenon
  <2>5. syncing' = FALSE
    BY <1>7 DEF Reload
  <2> QED
    BY <2>4, <2>5 DEF OpStep
<1> QED
  BY <1>2, <1>4, <1>5, <1>6, <1>7 DEF User, OpStep

LEMMA ThrowsMoves ==
  ASSUME TypeOK, NEW o \in Ops, Throws(o)
  PROVE  Moves(o)
<1>1. OpsOK
  BY DEF TypeOK
<1>2. \/ ScanOver(o, TRUE, contacts)
      \/ SyncEnds(o)
      \/ op[o].at \notin Scans \cup {"read"} /\ End(o) /\ UNCHANGED syncing
  BY DEF Throws, At
<1>3. CASE SyncEnds(o)
  BY <1>1, <1>3, EndFacts DEF SyncEnds, Moves, FlagFollows, SendsAlone
<1> QED
  BY <1>1, <1>2, <1>3, ScanOverMoves, EndMoves, NotSyncing

LEMMA NextMoves ==
  ASSUME TypeOK, [Next]_vars
  PROVE  OpStep
<1>1. OpsOK /\ syncing \in BOOLEAN
  BY DEF TypeOK, SessionOK
<1>2. CASE UNCHANGED vars
  BY <1>2 DEF vars, session, OpStep
<1>3. ASSUME NEW o \in Ops, Sync(o) PROVE Moves(o)
  BY <1>1, <1>3, SyncingFacts, AwaitFacts DEF Sync, Moves, FlagFollows, SendsAlone
<1>4. CASE Disconnect
  BY <1>4 DEF Disconnect, OpStep
<1>5. ASSUME NEW k \in Connections, NEW p \in Peers,
             CompleteOnboarding(k) \/ PeerRegisters(k, p) \/ PeerOpens(k, p)
      PROVE  OpStep
  BY <1>5 DEF CompleteOnboarding, PeerRegisters, PeerOpens, session, OpStep
<1>6. ASSUME NEW k \in Connections, CompleteOnboarding(k) PROVE OpStep
  BY <1>6 DEF CompleteOnboarding, OpStep
<1> QED
  BY <1>2, <1>3, <1>4, <1>5, <1>6, StepMoves, ThrowsMoves, UserMoves DEF Next, OpStep

LEMMA FlagStep ==
  ASSUME TypeOK, NeverSyncLocked, OneSender, [Next]_vars
  PROVE  NeverSyncLocked' /\ OneSender'
<1>1. OpStep
  BY NextMoves
<1>2. CASE op' = op /\ syncing' \in {FALSE, syncing}
  <2>1. OneSender'
    BY <1>2 DEF OneSender
  <2>2. syncing' => syncing
    BY <1>2 DEF TypeOK, SessionOK
  <2>3. NeverSyncLocked'
    BY <1>2, <2>2 DEF NeverSyncLocked
  <2> QED
    BY <2>1, <2>3
<1>3. CASE syncing' = FALSE /\ \A q \in Ops : op'[q].at \notin Sending
  BY <1>3 DEF NeverSyncLocked, OneSender, Sending
<1>4. ASSUME NEW o \in Ops, Moves(o) PROVE NeverSyncLocked' /\ OneSender'
  <2>1. NeverSyncLocked'
    BY <1>4 DEF NeverSyncLocked, Moves, FlagFollows
  <2>2. OneSender'
    BY <1>4 DEF OneSender, Moves, SendsAlone, Sending
  <2> QED
    BY <2>1, <2>2
<1> QED
  BY <1>1, <1>2, <1>3, <1>4 DEF OpStep

-----------------------------------------------------------------------------
(***************************************************************************)
(* Undisturbed, every lane follows the connection.                         *)
(***************************************************************************)

LEMMA IdleFits == ASSUME NEW r, r.at = "idle" PROVE Fits(r)'
BY DEF Fits, Scans

\* What a record says stays true while the connection is the same, more peers
\* register and, unless it is about to be submitted, messages are written.
LEMMA FitsFrame ==
  ASSUME NEW r, Fits(r), config' = config, registered \subseteq registered',
         slots' = slots \/ r.at # "submit"
  PROVE  Fits(r)'
BY DEF Fits, Registered, NextEmpty

\* Whoever waits for something else has no reconciliation beside it.
LEMMA AloneThere ==
  ASSUME OpsOK, OneRederives, NEW o \in Ops, op[o].at \notin {"idle", "reconcile"}
  PROVE  Alone
<1> SUFFICES ASSUME NEW q \in Ops, op[q].at = "reconcile" PROVE FALSE
  BY DEF Alone, At
<1>1. op[q] \in Operation
  BY DEF OpsOK, Holds
<1>2. q # o
  OBVIOUS
<1> QED
  BY <1>1, <1>2 DEF OneRederives

\* A contact that a reconciliation of this connection would not change.
Sound(c) == NoKey(c) /\ (c.registered => Derived(c))

\* A step of one operation, on this connection.
LEMMA MoveFollows ==
  ASSUME TypeOK, AllFit, OneRederives, KeysOK, Alone,
         NEW o \in Ops, NEW r, op'[o] = r, \A q \in Ops \ {o} : op'[q] = op[q],
         r.at # "reconcile", Fits(r)', config' = config, registered' = registered,
         slots' = slots \/ \A q \in Ops \ {o} : op[q].at # "submit",
         Saves, \A c \in ToSet(contacts') : c \in ToSet(contacts) \/ Sound(c)
  PROVE  (AllFit /\ OneRederives /\ KeysOK)'
<1>1. \A q \in Ops : op'[q].at # "reconcile"
  BY DEF Alone, At
<1>2. AllFit'
  <2> SUFFICES ASSUME NEW q \in Ops, NEW s \in Operation, op'[q] = s
               PROVE  Fits(s)'
    BY DEF AllFit
  <2>1. CASE q = o
    BY <2>1
  <2>2. CASE q # o
    <3>1. op[q] = s
      BY <2>2
    <3>2. Fits(s)
      BY <3>1 DEF AllFit
    <3> QED
      BY <2>2, <3>1, <3>2, FitsFrame
  <2> QED
    BY <2>1, <2>2
<1>3. OneRederives'
  BY <1>1 DEF OneRederives
<1>4. \A c \in ToSet(contacts') : Sound(c)
  BY DEF KeysOK, Sound
<1>5. KeysOK'
  <2>1. \A c \in ToSet(contacts') : NoKey(c)
    BY <1>4 DEF Sound
  <2>2. \A c \in ToSet(disk'.contacts) : NoKey(c)
    BY <2>1 DEF Saves, KeysOK
  <2>3. \A c : Derived(c)' <=> Derived(c)
    BY DEF Derived, Registered
  <2>4. \A c \in ToSet(contacts') : c.registered => Derived(c)'
    BY <1>4, <2>3 DEF Sound
  <2> QED
    BY <2>1, <2>2, <2>4 DEF KeysOK
<1> QED
  BY <1>2, <1>3, <1>5

LEMMA SlotsFrame ==
  ASSUME slots' = slots, confirmed' = confirmed, Dense, ConfirmedOK
  PROVE  (Dense /\ ConfirmedOK)'
BY DEF Dense, NextEmpty, ConfirmedOK, Readable

\* ... and with the messages as they were.
LEMMA MoveQuiet ==
  ASSUME TypeOK, AllFollow, Alone,
         NEW o \in Ops, NEW r, op'[o] = r, \A q \in Ops \ {o} : op'[q] = op[q],
         r.at # "reconcile", Fits(r)', config' = config, registered' = registered,
         slots' = slots, confirmed' = confirmed,
         Saves, \A c \in ToSet(contacts') : c \in ToSet(contacts) \/ Sound(c)
  PROVE  AllFollow'
<1>1. (AllFit /\ OneRederives /\ KeysOK)'
  BY MoveFollows DEF AllFollow
<1>2. (Dense /\ ConfirmedOK)'
  BY SlotsFrame DEF AllFollow
<1> QED
  BY <1>1, <1>2 DEF AllFollow

LEMMA StaysQuiet ==
  ASSUME TypeOK, AllFollow, NEW o \in Ops, NEW r, Await(o, r), op[o].at # "reconcile",
         op[o].at # "idle" \/ Alone,
         r.at # "reconcile", Fits(r)', config' = config, UNCHANGED world,
         confirmed' = confirmed, Saves,
         \A c \in ToSet(contacts') : c \in ToSet(contacts) \/ Sound(c)
  PROVE  AllFollow'
<1>1. Alone
  BY AloneThere DEF TypeOK, AllFollow
<1>2. op'[o] = r /\ \A q \in Ops \ {o} : op'[q] = op[q]
  BY AwaitFacts DEF TypeOK
<1> QED
  BY <1>1, <1>2, MoveQuiet DEF world

LEMMA EndQuiet ==
  ASSUME TypeOK, AllFollow, NEW o \in Ops, End(o), op[o].at \notin {"idle", "reconcile"},
         config' = config, UNCHANGED world, confirmed' = confirmed, Saves,
         \A c \in ToSet(contacts') : c \in ToSet(contacts) \/ Sound(c)
  PROVE  AllFollow'
<1>1. Await(o, Idle) /\ Idle.at = "idle"
  BY DEF End, Idle
<1>2. Fits(Idle)'
  BY <1>1, IdleFits
<1> QED
  BY <1>1, <1>2, StaysQuiet

LEMMA SameContacts ==
  ASSUME UNCHANGED <<contacts, disk>>
  PROVE  Saves /\ \A c \in ToSet(contacts') : c \in ToSet(contacts) \/ Sound(c)
BY DEF Saves

LEMMA GoesQuiet ==
  ASSUME TypeOK, AllFollow, NEW o \in Ops, NEW r, Goes(o, r),
         op[o].at \notin {"idle", "reconcile"}, r.at # "reconcile", Fits(r)'
  PROVE  AllFollow'
<1>1. Await(o, r) /\ UNCHANGED <<session, world>> /\ confirmed' = confirmed
  BY DEF Goes, ghosts
<1>2. UNCHANGED <<contacts, disk>> /\ config' = config
  BY <1>1 DEF session
<1> QED
  BY <1>1, <1>2, SameContacts, StaysQuiet

\* Where it is.
LEMMA Fitting ==
  ASSUME OpsOK, AllFit, NEW o \in Ops
  PROVE  Fits(op[o]) /\ op[o] \in Operation
BY DEF OpsOK, Holds, AllFit

LEMMA StartsQuiet ==
  ASSUME TypeOK, AllFollow, disturbed' = {}, NEW o \in Ops, NEW r, NEW s, Starts(o, r),
         s = [r EXCEPT !.via = config], s.at # "reconcile", Fits(s)'
  PROVE  AllFollow'
<1>1. /\ Await(o, s) /\ op[o].at = "idle" /\ Alone
      /\ UNCHANGED <<session, world>> /\ confirmed' = confirmed
  BY DEF Starts, At, Disturbs
<1>2. UNCHANGED <<contacts, disk>> /\ config' = config
  BY <1>1 DEF session
<1> QED
  BY <1>1, <1>2, SameContacts, StaysQuiet

-----------------------------------------------------------------------------
\* What the user starts is of this connection.
LEMMA UserQuiet ==
  ASSUME TypeOK, AllFollow, disturbed' = {}, NEW o \in Ops,
         \/ \E l \in Labels, p \in Peers : AddContact(o, l, p)
         \/ \E c \in ToSet(contacts) : RefreshRegistration(o, c) \/ Send(o, c)
         \/ ScanButton(o)
  PROVE  AllFollow'
<1>1. ASSUME NEW r, Starts(o, r)
      PROVE  /\ config' = config /\ registered' = registered /\ slots' = slots
             /\ Alone
  BY <1>1 DEF Starts, session, world, Disturbs
<1>2. ASSUME NEW l \in Labels, NEW p \in Peers, AddContact(o, l, p) PROVE AllFollow'
  <2> PICK r : r = [Idle EXCEPT !.at = "add: registered?", !.label = l, !.peer = p]
    OBVIOUS
  <2> PICK s : s = [r EXCEPT !.via = config]
    OBVIOUS
  <2>1. Starts(o, r)
    BY <1>2 DEF AddContact
  <2>2. s.at = "add: registered?" /\ s.via = config
    BY DEF Idle
  <2>3. Fits(s)'
    BY <1>1, <2>1, <2>2 DEF Fits, Scans
  <2> QED
    BY <2>1, <2>2, <2>3, StartsQuiet
<1>3. CASE ScanButton(o)
  <2> PICK r : r = [Idle EXCEPT !.at = "scan"]
    OBVIOUS
  <2> PICK s : s = [r EXCEPT !.via = config]
    OBVIOUS
  <2>1. Starts(o, r) /\ config \in PoolConnections
    BY <1>3 DEF ScanButton, IsPool
  <2>2. s.at = "scan" /\ s.via = config
    BY DEF Idle
  <2>3. Fits(s)'
    BY <1>1, <2>1, <2>2 DEF Fits, Scans
  <2> QED
    BY <2>1, <2>2, <2>3, StartsQuiet
<1>4. ASSUME NEW c \in ToSet(contacts), RefreshRegistration(o, c) PROVE AllFollow'
  <2> PICK r : r = [Idle EXCEPT !.at = "refresh: registered?", !.contact = c]
    OBVIOUS
  <2> PICK s : s = [r EXCEPT !.via = config]
    OBVIOUS
  <2>1. Starts(o, r)
    BY <1>4 DEF RefreshRegistration
  <2>2. s.at = "refresh: registered?" /\ s.via = config /\ s.contact = c
    BY DEF Idle
  <2>3. NoKey(c) /\ (c.registered => Registered(config, c.peer))
    BY <1>1, <2>1 DEF AllFollow, KeysOK, Derived, Registered
  <2>4. Fits(s)'
    BY <1>1, <2>1, <2>2, <2>3 DEF Fits, Scans, Registered
  <2> QED
    BY <2>1, <2>2, <2>4, StartsQuiet
<1>5. ASSUME NEW c \in ToSet(contacts), Send(o, c) PROVE AllFollow'
  <2> PICK r : r = [Idle EXCEPT !.at = "walk", !.contact = c]
    OBVIOUS
  <2> PICK s : s = [r EXCEPT !.via = config]
    OBVIOUS
  <2>1. Starts(o, r) /\ c.registered
    BY <1>5 DEF Send
  <2>2. s.at = "walk" /\ s.via = config /\ s.contact = c
    BY DEF Idle
  <2>3. config \in PoolConnections => c.outKey = Out(config, c.peer)
    BY <1>1, <2>1 DEF AllFollow, KeysOK, Derived
  <2>4. Fits(s)'
    BY <1>1, <2>1, <2>2, <2>3 DEF Fits, Scans
  <2> QED
    BY <2>1, <2>2, <2>4, StartsQuiet
<1> QED
  BY <1>2, <1>3, <1>4, <1>5

LEMMA SyncQuiet ==
  ASSUME TypeOK, AllFollow, disturbed' = {}, NEW o \in Ops, Sync(o)
  PROVE  AllFollow'
<1>1. /\ Await(o, Syncing(contacts)) /\ Alone /\ At(o, "idle")
      /\ UNCHANGED <<config, contacts, disk, world, confirmed>>
  BY DEF Sync, Disturbs
<1> PICK r : r = Syncing(contacts)
  OBVIOUS
<1>2. /\ r.at = IF IsPool THEN "scan" ELSE "read"
      /\ r.via = config
  BY DEF Syncing, Idle
<1>3. Fits(r)'
  BY <1>1, <1>2 DEF Fits, Scans, IsPool
<1>4. Await(o, r) /\ r.at # "reconcile" /\ op[o].at = "idle"
  BY <1>1, <1>2 DEF At
<1> QED
  BY <1>1, <1>3, <1>4, SameContacts, StaysQuiet

\* The slot of an operation that is over, with a sync or without.
LEMMA SyncFromQuiet ==
  ASSUME config' = config, NEW o \in Ops, NEW list, SyncFrom(o, list)
  PROVE  \E r : Await(o, r) /\ r.at # "reconcile" /\ Fits(r)'
<1>1. CASE Await(o, Syncing(list))
  <2> PICK r : r = Syncing(list)
    OBVIOUS
  <2>1. /\ r.at = IF IsPool THEN "scan" ELSE "read"
        /\ r.via = config
    BY DEF Syncing, Idle
  <2>2. Fits(r)'
    BY <2>1 DEF Fits, Scans, IsPool
  <2> QED
    BY <1>1, <2>1, <2>2
<1>2. CASE End(o)
  <2>1. Await(o, Idle) /\ Idle.at = "idle"
    BY <1>2 DEF End, Idle
  <2> QED
    BY <2>1, IdleFits
<1> QED
  BY <1>1, <1>2 DEF SyncFrom

LEMMA ScanOverQuiet ==
  ASSUME config' = config, NEW o \in Ops, NEW threw, NEW list, ScanOver(o, threw, list)
  PROVE  \E r : Await(o, r) /\ r.at # "reconcile" /\ Fits(r)'
<1>1. CASE Await(o, [Syncing(list) EXCEPT !.at = "read", !.lanes = LaneKeys(list)])
  <2> PICK r : r = [Syncing(list) EXCEPT !.at = "read", !.lanes = LaneKeys(list)]
    OBVIOUS
  <2>1. r.at = "read" /\ r.via = config
    BY DEF Syncing, Idle
  <2>2. Fits(r)'
    BY <2>1 DEF Fits, Scans
  <2> QED
    BY <1>1, <2>1, <2>2
<1>2. CASE End(o)
  <2>1. Await(o, Idle) /\ Idle.at = "idle"
    BY <1>2 DEF End, Idle
  <2> QED
    BY <2>1, IdleFits
<1> QED
  BY <1>1, <1>2, SyncFromQuiet DEF ScanOver, SyncEnds

LEMMA PutQuiet ==
  ASSUME TypeOK, AllFollow, NEW o \in Ops, NEW c \in ContactOf, PutContact(o, c),
         op[o].at \notin {"idle", "reconcile"}, Sound(c)
  PROVE  AllFollow'
<1> DEFINE kept == Pick(contacts, Stays(c))
<1>1. /\ contacts' = Append(kept, c) /\ SaveContacts /\ End(o)
      /\ config' = config /\ UNCHANGED world /\ confirmed' = confirmed
  BY DEF PutContact, Stays
<1>2. contacts \in Seq(ContactOf) /\ Stays(c) \in SUBSET DOMAIN contacts
  BY DEF TypeOK, SessionOK, Stays
<1>3. kept \in Seq(ContactOf) /\ \A n \in DOMAIN kept : \E i \in Stays(c) : kept[n] = contacts[i]
  BY <1>2, FilterOK
<1> HIDE DEF kept
<1>4. /\ DOMAIN contacts' = DOMAIN kept \cup {Len(kept) + 1}
      /\ \A i \in DOMAIN kept : contacts'[i] = kept[i]
      /\ contacts'[Len(kept) + 1] = c
  BY <1>1, <1>3, AppendOK
<1>5. ASSUME NEW x \in ToSet(contacts') PROVE x \in ToSet(contacts) \/ Sound(x)
  <2>1. PICK i \in DOMAIN contacts' : x = contacts'[i]
    BY <1>5 DEF ToSet
  <2>2. CASE i \in DOMAIN kept
    <3>1. PICK j \in Stays(c) : kept[i] = contacts[j]
      BY <1>3, <2>2
    <3> QED
      BY <1>2, <1>4, <2>1, <2>2, <3>1 DEF ToSet
  <2> QED
    BY <1>4, <2>1, <2>2
<1>6. Saves
  BY <1>1 DEF Saves, SaveContacts, TypeOK, SessionOK
<1> QED
  BY <1>1, <1>5, <1>6, EndQuiet

\* A new contact that says what is so on this connection.
LEMMA ContactSound ==
  ASSUME made \in Nat, NEW l \in AllLabels, NEW p \in Peers,
         NEW out \in LaneOf \cup {NoLane}, NEW in \in LaneOf \cup {NoLane}, NEW reg \in BOOLEAN,
         reg => (config \in PoolConnections => Registered(config, p) /\ out = Out(config, p)),
         reg \/ out = NoLane
  PROVE  Sound(Contact(l, p, out, in, reg))
<1> DEFINE c == Contact(l, p, out, in, reg)
<1>1. c.peer = p /\ c.outKey = out /\ c.registered = reg
  BY DEF Contact
<1> HIDE DEF c
<1>2. Sound(c)
  BY <1>1 DEF Sound, NoKey, Derived
<1> QED
  BY <1>2 DEF c

LEMMA PoolContactSound ==
  ASSUME TypeOK, NEW l \in Labels, NEW p \in Peers,
         NEW out \in LaneOf \cup {NoLane}, NEW reg \in BOOLEAN,
         reg => Registered(config, p) /\ out = Out(config, p), reg \/ out = NoLane
  PROVE  Sound(PoolContact(l, p, out, reg))
<1> DEFINE c == PoolContact(l, p, out, reg)
<1>1. c.peer = p /\ c.outKey = out /\ c.registered = reg
  BY PoolContactOK
<1> HIDE DEF c
<1>2. Sound(c)
  BY <1>1 DEF Sound, NoKey, Derived
<1> QED
  BY <1>2 DEF c

LEMMA AddRegisteredQuiet ==
  ASSUME TypeOK, AllFollow, NEW o \in Ops, AddRegistered(o)
  PROVE  AllFollow'
<1> DEFINE l == op[o].label
           p == op[o].peer
           reg == Registered(op[o].via, p)
<1>1. /\ op[o].at = "add: registered?" /\ config \in Connections
      /\ l \in Labels /\ p \in Peers /\ reg \in BOOLEAN /\ made \in Nat
  BY DEF AddRegistered, At, TypeOK, SessionOK, OpsOK, Holds, LoggedIn, Registered
<1>2. op[o].via = config /\ op[o] \in Operation
  BY <1>1, Fitting DEF Fits, TypeOK, AllFollow
<1>3. CASE IsPool /\ reg
  <2> PICK r : r = [op[o] EXCEPT !.at = "add: lane", !.via = config]
    OBVIOUS
  <2>1. Goes(o, r)
    BY <1>3 DEF AddRegistered
  <2>2. r.at = "add: lane" /\ r.via = config /\ r.peer = p
    BY <1>2 DEF Operation
  <2>3. config' = config /\ registered' = registered
    BY <2>1 DEF Goes, session, world
  <2>4. Fits(r)'
    BY <1>2, <1>3, <2>2, <2>3 DEF Fits, Scans, IsPool, Registered
  <2> QED
    BY <1>1, <2>1, <2>2, <2>4, GoesQuiet
<1>4. CASE ~(IsPool /\ reg) /\ IsPool
  <2>1. PutContact(o, PoolContact(l, p, NoLane, FALSE))
    BY <1>4 DEF AddRegistered
  <2> DEFINE c == PoolContact(l, p, NoLane, FALSE)
  <2>2. c \in ContactOf
    <3> HIDE DEF l, p
    <3> QED
      BY <1>1, PoolContactOK
  <2>3. Sound(c)
    <3> HIDE DEF l, p
    <3> QED
      BY <1>1, PoolContactSound
  <2> QED
    BY <1>1, <2>1, <2>2, <2>3, PutQuiet
<1>5. CASE ~IsPool
  <2> DEFINE c == Contact(l, p, Out(config, p), In(config, p), reg)
  <2>1. PutContact(o, c)
    BY <1>5 DEF AddRegistered
  <2>2. reg
    BY <1>2, <1>5 DEF Registered, IsPool
  <2>3. l \in AllLabels /\ Out(config, p) \in LaneOf /\ In(config, p) \in LaneOf
    BY <1>1, LanesOK DEF AllLabels
  <2>4. c \in ContactOf
    <3> HIDE DEF l, p, reg
    <3> QED
      BY <1>1, <2>3, ContactOK
  <2>5. Sound(c)
    <3> HIDE DEF l, p, reg
    <3>1. config \notin PoolConnections
      BY <1>5 DEF IsPool
    <3> QED
      BY <1>1, <2>2, <2>3, <3>1, ContactSound
  <2> QED
    BY <1>1, <2>1, <2>4, <2>5, PutQuiet
<1> QED
  BY <1>3, <1>4, <1>5

LEMMA AddLaneQuiet ==
  ASSUME TypeOK, AllFollow, NEW o \in Ops, AddLane(o)
  PROVE  AllFollow'
<1> DEFINE l == op[o].label
           p == op[o].peer
           out == Out(op[o].via, p)
           c == PoolContact(l, p, out, TRUE)
<1>1. op[o].at = "add: lane" /\ l \in Labels /\ p \in Peers /\ op[o].via \in Connections
  BY DEF AddLane, At, TypeOK, OpsOK, Holds
<1>2. op[o].via = config /\ Registered(config, p)
  BY <1>1, Fitting DEF Fits, TypeOK, AllFollow
<1>3. out \in LaneOf /\ out = Out(config, p)
  BY <1>1, <1>2, LanesOK
<1>4. PutContact(o, c)
  BY DEF AddLane
<1> HIDE DEF l, p, out
<1>5. c \in ContactOf
  BY <1>1, <1>3, PoolContactOK
<1>6. Sound(c)
  BY <1>1, <1>2, <1>3, PoolContactSound
<1> QED
  BY <1>1, <1>4, <1>5, <1>6, PutQuiet

\* A refresh sets what is so of a peer on this connection.
LEMMA RefreshQuiet ==
  ASSUME TypeOK, AllFollow, NEW o \in Ops, NEW reg \in BOOLEAN, NEW out \in LaneOf \cup {NoLane},
         Refresh(o, reg, out), op[o].at \notin {"idle", "reconcile"},
         \A c \in ContactOf : c.peer = op[o].contact.peer /\ c.registered = reg /\ c.outKey = out
            => Sound(c)
  PROVE  AllFollow'
<1>1. contacts \in Seq(ContactOf) /\ made \in Nat
  BY DEF TypeOK, SessionOK
<1> DEFINE n == made + 1
           new(c) == [c EXCEPT !.registered = reg, !.outKey = out, !.obj = n]
           q == op[o].contact.peer
<1>2. /\ contacts' = [i \in DOMAIN contacts |->
                         IF contacts[i].peer = q THEN new(contacts[i]) ELSE contacts[i]]
      /\ SaveContacts /\ End(o)
      /\ config' = config /\ UNCHANGED world /\ confirmed' = confirmed
  BY DEF Refresh, ghosts
<1>3. n \in Nat
  BY <1>1
<1> HIDE DEF n
<1>4. ASSUME NEW c \in ContactOf
      PROVE  /\ new(c) \in ContactOf /\ new(c).peer = c.peer
             /\ new(c).registered = reg /\ new(c).outKey = out
  BY <1>3 DEF ContactOf
<1> HIDE DEF new
<1>5. ASSUME NEW c \in ContactOf, c.peer = q PROVE Sound(new(c))
  BY <1>4, <1>5
<1> HIDE DEF q
<1>6. ASSUME NEW x \in ToSet(contacts') PROVE x \in ToSet(contacts) \/ Sound(x)
  <2>1. PICK i \in DOMAIN contacts : x = contacts'[i]
    BY <1>2, <1>6 DEF ToSet
  <2>2. contacts[i] \in ContactOf
    BY <1>1
  <2> QED
    BY <1>2, <1>5, <2>1, <2>2 DEF ToSet
<1>7. Saves
  BY <1>2 DEF Saves, SaveContacts, TypeOK, SessionOK
<1> QED
  BY <1>2, <1>6, <1>7, EndQuiet

LEMMA RefreshedQuiet ==
  ASSUME TypeOK, AllFollow, NEW o \in Ops, Refreshed(o)
  PROVE  AllFollow'
<1> DEFINE c == op[o].contact
           reg == Registered(op[o].via, c.peer)
<1>1. op[o].at = "refresh: registered?" /\ c \in ContactOf /\ reg \in BOOLEAN
  BY DEF Refreshed, At, TypeOK, OpsOK, Holds, Registered
<1>2. /\ op[o].via = config /\ op[o] \in Operation
      /\ NoKey(c) /\ (c.registered => Registered(config, c.peer))
  BY <1>1, Fitting DEF Fits, TypeOK, AllFollow
<1>3. CASE Goes(o, Idle)
  <2>1. Idle.at = "idle"
    BY DEF Idle
  <2> QED
    BY <1>1, <1>3, <2>1, IdleFits, GoesQuiet
<1>4. CASE /\ IsPool /\ reg
           /\ Goes(o, [op[o] EXCEPT !.at = "refresh: lane", !.via = config])
  <2> PICK r : r = [op[o] EXCEPT !.at = "refresh: lane", !.via = config]
    OBVIOUS
  <2>1. Goes(o, r)
    BY <1>4
  <2>2. r.at = "refresh: lane" /\ r.via = config /\ r.contact = c
    BY <1>2 DEF Operation
  <2>3. config' = config /\ registered' = registered
    BY <2>1 DEF Goes, session, world
  <2>4. Fits(r)'
    BY <1>2, <1>4, <2>2, <2>3 DEF Fits, Scans, IsPool, Registered
  <2> QED
    BY <1>1, <2>1, <2>2, <2>4, GoesQuiet
<1>5. CASE /\ ~(reg = c.registered /\ (~IsPool \/ c.outKey # NoLane))
           /\ ~(IsPool /\ reg /\ c.outKey = NoLane)
           /\ Refresh(o, reg, c.outKey)
  <2>1. c.outKey \in LaneOf \cup {NoLane} /\ c.registered \in BOOLEAN
    BY <1>1 DEF ContactOf
  <2>2. ~c.registered => c.outKey = NoLane
    BY <1>2 DEF NoKey
  <2>3. reg = Registered(config, c.peer)
    BY <1>2
  <2>4. reg => ~IsPool
    BY <1>1, <1>2, <1>5, <2>1, <2>2, <2>3
  <2>5. ~reg => c.outKey = NoLane
    BY <1>2, <2>1, <2>2, <2>3
  <2>6. ASSUME NEW x \in ContactOf, x.peer = c.peer, x.registered = reg, x.outKey = c.outKey
        PROVE  Sound(x)
    BY <2>4, <2>5, <2>6 DEF Sound, NoKey, Derived, IsPool
  <2>7. Refresh(o, reg, c.outKey) /\ reg \in BOOLEAN
    BY <1>1, <1>5
  <2> DEFINE out == c.outKey
  <2>8. /\ Refresh(o, reg, out) /\ reg \in BOOLEAN /\ out \in LaneOf \cup {NoLane}
        /\ \A x \in ContactOf : x.peer = op[o].contact.peer /\ x.registered = reg /\ x.outKey = out
              => Sound(x)
    BY <2>1, <2>6, <2>7
  <2>9. op[o].at \notin {"idle", "reconcile"}
    BY <1>1
  <2> HIDE DEF reg, out
  <2> QED
    BY <2>8, <2>9, RefreshQuiet
<1> QED
  BY <1>3, <1>4, <1>5 DEF Refreshed

LEMMA RefreshLaneQuiet ==
  ASSUME TypeOK, AllFollow, NEW o \in Ops, RefreshLane(o)
  PROVE  AllFollow'
<1> DEFINE p == op[o].contact.peer
           out == Out(op[o].via, p)
<1>1. op[o].at = "refresh: lane" /\ op[o].contact \in ContactOf /\ op[o].via \in Connections
  BY DEF RefreshLane, At, TypeOK, OpsOK, Holds
<1>2. p \in Peers
  BY <1>1 DEF ContactOf
<1>3. op[o].via = config /\ Registered(config, p)
  BY <1>1, Fitting DEF Fits, TypeOK, AllFollow
<1>4. out \in LaneOf /\ out = Out(config, p)
  BY <1>1, <1>2, <1>3, LanesOK
<1>5. Refresh(o, TRUE, out)
  BY DEF RefreshLane
<1> HIDE DEF out
<1>6. ASSUME NEW c \in ContactOf, c.peer = p, c.registered = TRUE, c.outKey = out
      PROVE  Sound(c)
  BY <1>3, <1>4, <1>6 DEF Sound, NoKey, Derived
<1> QED
  BY <1>1, <1>4, <1>5, <1>6, RefreshQuiet

\* A merge on this connection, which gives no lane to an unregistered contact.
LEMMA MergedSound ==
  ASSUME made \in Nat, config \in Connections, NEW list \in Seq(ContactOf),
         NEW lanes \in SUBSET LaneOf, \A i \in DOMAIN list : Sound(list[i]),
         ~Adopts(list, Merged(list, lanes)), config \in PoolConnections
  PROVE  \A i \in DOMAIN Merged(list, lanes) : Sound(Merged(list, lanes)[i])
<1> DEFINE M == Merged(list, lanes)
<1>1. /\ Kept(list, M) /\ M \in Seq(ContactOf)
      /\ \A i \in DOMAIN list :
            /\ M[i].registered = list[i].registered
            /\ list[i].outKey # NoLane => M[i].outKey = list[i].outKey
  BY MergedOK
<1>2. ~Adopts(list, M)
  OBVIOUS
<1> HIDE DEF M
<1>3. DOMAIN M = DOMAIN list /\ \A i \in DOMAIN list : M[i].peer = list[i].peer
  BY <1>1 DEF Kept
<1>4. ASSUME NEW i \in DOMAIN list PROVE Sound(M[i])
  <2> DEFINE a == list[i]
             b == M[i]
  <2>1. a \in ContactOf /\ Sound(a)
    OBVIOUS
  <2>2. b.registered = a.registered /\ b.peer = a.peer
    BY <1>1, <1>3
  <2>3. a.outKey # NoLane => b.outKey = a.outKey
    BY <1>1
  <2>4. ~a.registered => b.outKey = a.outKey
    BY <1>2 DEF Adopts
  <2> HIDE DEF a, b
  <2>5. a.peer \in Peers
    BY <2>1 DEF ContactOf
  <2>6. Out(config, a.peer) # NoLane
    BY <2>5, LanesOK
  <2>7. ASSUME a.registered PROVE Sound(b)
    BY <2>1, <2>2, <2>3, <2>6, <2>7 DEF Sound, NoKey, Derived
  <2>8. ASSUME ~a.registered PROVE Sound(b)
    BY <2>1, <2>2, <2>4, <2>8 DEF Sound, NoKey
  <2> QED
    BY <2>7, <2>8 DEF b
<1> QED
  BY <1>3, <1>4 DEF M

LEMMA MergeQuiet ==
  ASSUME TypeOK, AllFollow, disturbed' = {}, NEW o \in Ops, op[o].at \in Scans,
         config \in PoolConnections,
         NEW list \in Seq(ContactOf), NEW todo \in Seq(LaneOf),
         NEW changed \in BOOLEAN, Merge(o, list, todo, changed),
         \A i \in DOMAIN list : Sound(list[i])
  PROVE  AllFollow'
<1> DEFINE I == {n \in 1..Len(todo) : todo[n].from = "peer" /\ ~Knows(list, todo[n].peer)}
           stop == SelectInSeq(todo, LAMBDA l : l.from = "peer" /\ ~Knows(list, l.peer))
           known == IF stop = 0 THEN todo ELSE SubSeq(todo, 1, stop - 1)
           merged == Merged(list, ToSet(known))
           differs == changed \/ merged # list
           left == SubSeq(todo, stop, Len(todo))
           r == [op[o] EXCEPT !.at = "found: registered?", !.via = config,
                              !.changed = differs, !.todo = left]
<1>1. stop \in 0..Len(todo)
  <2>1. stop = IF I # {} THEN Min(I) ELSE 0
    BY DEF SelectInSeq
  <2>2. I \in SUBSET (1..Len(todo)) /\ Len(todo) \in Nat
    OBVIOUS
  <2> HIDE DEF I, stop
  <2> QED
    BY <2>1, <2>2, FirstOrNone
<1>2. /\ contacts' = merged
      /\ IF stop # 0 /\ LoggedIn
         THEN Await(o, r) /\ UNCHANGED <<disk, syncing>>
         ELSE /\ ScanOver(o, stop # 0, merged)
              /\ IF stop = 0 /\ differs THEN SaveContacts ELSE UNCHANGED disk
      /\ Disturbs("adopted", Adopts(list, merged))
      /\ UNCHANGED <<config, world, confirmed>>
  BY DEF Merge
<1> HIDE DEF stop, I
<1>3. ToSet(known) \in SUBSET LaneOf
  <2>1. known \in Seq(LaneOf)
    BY <1>1
  <2> HIDE DEF known
  <2> QED
    BY <2>1 DEF ToSet
<1>4. ~Adopts(list, merged)
  <2> HIDE DEF merged
  <2> QED
    BY <1>2 DEF Disturbs
<1> HIDE DEF known
<1>5. made \in Nat /\ config \in Connections /\ op[o] \in Operation
  BY StoreAssumption DEF TypeOK, SessionOK, OpsOK, Holds
<1>6. \A i \in DOMAIN merged : Sound(merged[i])
  BY <1>3, <1>4, <1>5, MergedSound
<1> HIDE DEF merged, differs, left
<1>7. \A c \in ToSet(contacts') : c \in ToSet(contacts) \/ Sound(c)
  BY <1>2, <1>6 DEF ToSet
<1>8. Saves
  BY <1>2 DEF Saves, SaveContacts, TypeOK, SessionOK
<1>9. \E s : Await(o, s) /\ s.at # "reconcile" /\ Fits(s)'
  <2>1. CASE Await(o, r)
    <3> PICK s : s = r
      OBVIOUS
    <3>1. s.at = "found: registered?" /\ s.via = config
      BY <1>5 DEF Operation
    <3>2. Await(o, s)
      BY <2>1
    <3> HIDE DEF r
    <3>3. Fits(s)'
      BY <1>2, <3>1 DEF Fits, Scans
    <3> QED
      BY <3>1, <3>2, <3>3
  <2>2. CASE ScanOver(o, stop # 0, merged)
    BY <1>2, <2>2, ScanOverQuiet
  <2> QED
    BY <1>2, <2>1, <2>2
<1>10. PICK s : Await(o, s) /\ s.at # "reconcile" /\ Fits(s)'
  BY <1>9
<1>11. op[o].at \notin {"idle", "reconcile"}
  BY DEF Scans
<1> QED
  BY <1>2, <1>7, <1>8, <1>10, <1>11, StaysQuiet

\* While a scan is under way, all contacts are sound.
LEMMA ScansSound ==
  ASSUME TypeOK, AllFollow, NEW o \in Ops, op[o].at \in Scans
  PROVE  /\ \A i \in DOMAIN contacts : Sound(contacts[i])
         /\ config \in PoolConnections /\ op[o].via = config
<1>1. op[o].at \notin {"idle", "reconcile"}
  BY DEF Scans
<1>2. Alone
  BY <1>1, AloneThere DEF TypeOK, AllFollow
<1>3. \A i \in DOMAIN contacts : contacts[i] \in ToSet(contacts)
  BY DEF ToSet
<1>4. \A i \in DOMAIN contacts : Sound(contacts[i])
  BY <1>2, <1>3 DEF AllFollow, KeysOK, Sound
<1>5. config \in PoolConnections /\ op[o].via = config
  BY <1>1, Fitting DEF TypeOK, AllFollow, Fits
<1> QED
  BY <1>4, <1>5

LEMMA ScannedQuiet ==
  ASSUME TypeOK, AllFollow, disturbed' = {}, NEW o \in Ops, Scanned(o)
  PROVE  AllFollow'
<1>1. op[o].at \in Scans /\ Merge(o, contacts, Scan(op[o].via), FALSE)
  BY DEF Scanned, At, Scans
<1>2. contacts \in Seq(ContactOf) /\ Scan(op[o].via) \in Seq(LaneOf)
  BY ScanOK DEF TypeOK, SessionOK
<1> QED
  BY <1>1, <1>2, ScansSound, MergeQuiet

LEMMA FoundQuiet ==
  ASSUME TypeOK, AllFollow, disturbed' = {},
         NEW o \in Ops, op[o].at \in {"found: registered?", "found: lane"},
         NEW out \in LaneOf \cup {NoLane}, NEW reg \in BOOLEAN, Found(o, out, reg),
         reg => /\ Registered(config, Head(op[o].todo).peer)
                /\ out = Out(config, Head(op[o].todo).peer),
         reg \/ out = NoLane
  PROVE  AllFollow'
<1> DEFINE c == FoundOne(o, out, reg)
           list == Append(contacts, c)
           rest == Tail(op[o].todo)
           l == Head(op[o].todo)
<1>1. c \in ContactOf
  BY FoundContact
<1>2. list \in Seq(ContactOf) /\ rest \in Seq(LaneOf) /\ Merge(o, list, rest, TRUE)
  BY FoundContact
<1>3. op[o].at \in Scans /\ contacts \in Seq(ContactOf) /\ made \in Nat
  BY DEF Scans, TypeOK, SessionOK
<1>4. Sound(c)
  <2>1. c.peer = l.peer /\ c.outKey = out /\ c.registered = reg
    BY DEF FoundOne, Contact
  <2> HIDE DEF c
  <2> QED
    BY <2>1 DEF Sound, NoKey, Derived
<1> HIDE DEF c, rest
<1>5. \A i \in DOMAIN list : Sound(list[i])
  <2>1. /\ DOMAIN list = DOMAIN contacts \cup {Len(contacts) + 1}
        /\ \A i \in DOMAIN contacts : list[i] = contacts[i]
        /\ list[Len(contacts) + 1] = c
    BY <1>1, <1>3, AppendOK
  <2> HIDE DEF list
  <2>2. \A i \in DOMAIN contacts : Sound(contacts[i])
    BY <1>3, ScansSound
  <2> QED
    BY <1>4, <2>1, <2>2
<1> HIDE DEF list
<1>6. config \in PoolConnections
  BY <1>3, ScansSound
<1> QED
  BY <1>2, <1>3, <1>5, <1>6, MergeQuiet

LEMMA FoundRegisteredQuiet ==
  ASSUME TypeOK, AllFollow, disturbed' = {}, NEW o \in Ops, FoundRegistered(o)
  PROVE  AllFollow'
<1>1. op[o].at = "found: registered?" /\ op[o].at \in Scans
  BY DEF FoundRegistered, At, Scans
<1>2. config \in PoolConnections /\ op[o].via = config /\ op[o] \in Operation
  BY <1>1, ScansSound, Fitting DEF TypeOK, AllFollow
<1>3. \/ Found(o, NoLane, FALSE)
      \/ /\ Registered(op[o].via, Head(op[o].todo).peer)
         /\ Goes(o, [op[o] EXCEPT !.at = "found: lane", !.via = config])
  BY <1>2 DEF FoundRegistered, IsPool
<1>4. CASE Found(o, NoLane, FALSE)
  BY <1>1, <1>4, FoundQuiet
<1>5. CASE /\ Registered(op[o].via, Head(op[o].todo).peer)
           /\ Goes(o, [op[o] EXCEPT !.at = "found: lane", !.via = config])
  <2> PICK r : r = [op[o] EXCEPT !.at = "found: lane", !.via = config]
    OBVIOUS
  <2>1. Goes(o, r)
    BY <1>5
  <2>2. r.at = "found: lane" /\ r.via = config /\ r.todo = op[o].todo
    BY <1>2 DEF Operation
  <2>3. config' = config /\ registered' = registered
    BY <2>1 DEF Goes, session, world
  <2>4. Fits(r)'
    BY <1>2, <1>5, <2>2, <2>3 DEF Fits, Scans, Registered
  <2> QED
    BY <1>1, <2>1, <2>2, <2>4, GoesQuiet
<1> QED
  BY <1>3, <1>4, <1>5

LEMMA FoundLaneQuiet ==
  ASSUME TypeOK, AllFollow, disturbed' = {}, NEW o \in Ops, FoundLane(o)
  PROVE  AllFollow'
<1> DEFINE p == Head(op[o].todo).peer
           out == Out(op[o].via, p)
<1>1. /\ op[o].at = "found: lane" /\ op[o].at \in Scans /\ op[o].via \in Connections
      /\ op[o].todo \in Seq(LaneOf) /\ op[o].todo # <<>>
  BY DEF FoundLane, At, TypeOK, OpsOK, Holds, Scans
<1>2. Head(op[o].todo) \in LaneOf
  BY <1>1, HeadTailProperties
<1>3. p \in Peers
  BY <1>2 DEF LaneOf
<1>4. op[o].via = config /\ Registered(config, p)
  BY <1>1, ScansSound, Fitting DEF TypeOK, AllFollow, Fits
<1>5. out \in LaneOf /\ out = Out(config, p)
  BY <1>1, <1>3, <1>4, LanesOK
<1>6. Found(o, out, TRUE)
  BY DEF FoundLane
<1> HIDE DEF out
<1> QED
  BY <1>1, <1>4, <1>5, <1>6, FoundQuiet

-----------------------------------------------------------------------------
LEMMA ReadQuiet ==
  ASSUME TypeOK, AllFollow, NEW o \in Ops, Read(o)
  PROVE  AllFollow'
<1>1. /\ op[o].at = "read" /\ End(o) /\ contacts' = contacts
      /\ config' = config /\ UNCHANGED world /\ confirmed' = confirmed
      /\ disk' = [disk EXCEPT !.history = disk.history \cup op[o].lanes]
  BY DEF Read, At, SyncEnds, ghosts
<1>2. Saves /\ \A c \in ToSet(contacts') : c \in ToSet(contacts) \/ Sound(c)
  BY <1>1 DEF Saves, TypeOK, SessionOK
<1> QED
  BY <1>1, <1>2, EndQuiet

LEMMA WalkedQuiet ==
  ASSUME TypeOK, AllFollow, NEW o \in Ops, Walked(o)
  PROVE  AllFollow'
<1> DEFINE n == NextEmpty(op[o].via, op[o].contact.outKey)
           p == IF IsPool THEN op[o].contact.peer ELSE NoLane
<1> PICK r : r = [op[o] EXCEPT !.at = "submit", !.via = config, !.index = n, !.peer = p]
  OBVIOUS
<1>1. op[o].at = "walk" /\ Goes(o, r)
  BY DEF Walked, At
<1>2. op[o] \in Operation /\ Fits(op[o])
  BY Fitting DEF TypeOK, AllFollow
<1>3. /\ r.at = "submit" /\ r.via = config /\ r.contact = op[o].contact
      /\ r.index = NextEmpty(op[o].via, op[o].contact.outKey)
  BY <1>2 DEF Operation
<1>4. config' = config /\ slots' = slots
  BY <1>1 DEF Goes, session, world
<1>5. op[o].via = config
  BY <1>1, <1>2 DEF Fits
<1>6. r.index = NextEmpty(r.via, r.contact.outKey)
  BY <1>3, <1>5
<1>7. NextEmpty(r.via, r.contact.outKey)' = NextEmpty(r.via, r.contact.outKey)
  BY <1>4 DEF NextEmpty
<1>8. Fits(r)'
  BY <1>1, <1>2, <1>3, <1>4, <1>6, <1>7 DEF Fits, Scans
<1> QED
  BY <1>1, <1>3, <1>8, GoesQuiet

\* The slot after the last of a lane is filled: the lane has no gap.
LEMMA DenseStep ==
  ASSUME WorldOK, Dense, NEW k \in Connections, NEW l \in LaneOf, NEW n \in Nat,
         n = NextEmpty(k, l), slots' = slots \cup {<<k, l, n>>}
  PROVE  Dense' /\ NextEmpty(k, l)' = n + 1
<1> DEFINE S(a, b) == {s \in slots : s[1] = a /\ s[2] = b}
           T(a, b) == {s \in slots' : s[1] = a /\ s[2] = b}
<1>1. ASSUME NEW a, NEW b
      PROVE  IsFiniteSet(S(a, b)) /\ NextEmpty(a, b) = Cardinality(S(a, b))
             /\ NextEmpty(a, b)' = Cardinality(T(a, b))
  BY FS_Subset DEF WorldOK, NextEmpty
<1>2. <<k, l, n>> \notin slots
  BY DEF Dense
<1>3. T(k, l) = S(k, l) \cup {<<k, l, n>>} /\ <<k, l, n>> \notin S(k, l)
  BY <1>2
<1>4. ASSUME NEW a \in Connections, NEW b \in LaneOf, <<a, b>> # <<k, l>>
      PROVE  T(a, b) = S(a, b)
  BY <1>4
<1> HIDE DEF S, T
<1>5. NextEmpty(k, l)' = n + 1
  BY <1>1, <1>3, FS_AddElement
<1>6. \A a \in Connections, b \in LaneOf : <<a, b>> # <<k, l>> =>
         NextEmpty(a, b)' = NextEmpty(a, b)
  BY <1>1, <1>4
<1>7. ASSUME NEW a \in Connections, NEW b \in LaneOf, NEW i \in Nat
      PROVE  <<a, b, i>> \in slots' <=> i < NextEmpty(a, b)'
  <2>1. <<a, b, i>> \in slots <=> i < NextEmpty(a, b)
    BY DEF Dense
  <2>2. CASE <<a, b>> # <<k, l>>
    BY <1>6, <2>1, <2>2
  <2>3. CASE a = k /\ b = l
    BY <1>5, <2>1, <2>3
  <2> QED
    BY <2>2, <2>3
<1>8. Dense'
  BY <1>7 DEF Dense
<1> QED
  BY <1>5, <1>8

\* A contact marked stays as it was, to a reconciliation.
LEMMA MarkSound ==
  ASSUME TypeOK, NEW p, MarkSetupDone(p), \A c \in ToSet(contacts) : Sound(c)
  PROVE  \A c \in ToSet(contacts') : Sound(c)
<1>1. contacts \in Seq(ContactOf) /\ made \in Nat
  BY DEF TypeOK, SessionOK
<1> DEFINE n == made + 1
           new(c) == [c EXCEPT !.setupDone = TRUE, !.obj = n]
<1>2. contacts' = [i \in DOMAIN contacts |->
                      IF contacts[i].peer = p THEN new(contacts[i]) ELSE contacts[i]]
  BY DEF MarkSetupDone
<1> HIDE DEF n
<1>3. ASSUME NEW c \in ContactOf, Sound(c) PROVE Sound(new(c))
  <2> DEFINE d == new(c)
  <2>1. d.peer = c.peer /\ d.outKey = c.outKey /\ d.registered = c.registered
    BY DEF ContactOf
  <2> HIDE DEF new, d
  <2>2. Sound(d)
    BY <1>3, <2>1 DEF Sound, NoKey, Derived
  <2> QED
    BY <2>2 DEF d
<1> HIDE DEF new
<1> SUFFICES ASSUME NEW x \in ToSet(contacts') PROVE Sound(x)
  OBVIOUS
<1>4. PICK i \in DOMAIN contacts : x = contacts'[i]
  BY <1>2 DEF ToSet
<1>5. contacts[i] \in ContactOf /\ Sound(contacts[i])
  BY <1>1 DEF ToSet
<1> QED
  BY <1>2, <1>3, <1>4, <1>5

LEMMA SubmittedQuiet ==
  ASSUME TypeOK, OneSender, AllFollow, NEW o \in Ops, Submitted(o)
  PROVE  AllFollow'
<1> PICK k, l, n : k = op[o].via /\ l = op[o].contact.outKey /\ n = op[o].index
  OBVIOUS
<1> PICK m : m = [peer |-> op[o].contact.peer, of |-> k, lane |-> l, index |-> n]
  OBVIOUS
<1>1. /\ At(o, "submit") /\ slots' = slots \cup {<<k, l, n>>}
      /\ confirmed' = confirmed \cup {m}
      /\ \/ MarkSetupDone(op[o].contact.peer)
         \/ UNCHANGED <<contacts, disk>>
      /\ SyncFrom(o, contacts')
      /\ UNCHANGED <<config, registered>>
  BY DEF Submitted
<1>2. k \in Connections /\ l \in LaneOf /\ n \in Nat
  BY <1>1, SlotOK
<1>3. Fits(op[o]) /\ op[o].at = "submit"
  BY <1>1, Fitting DEF At, TypeOK, AllFollow
<1>4. k = config /\ n = NextEmpty(k, l)
      /\ (config \in PoolConnections => l = Out(config, op[o].contact.peer))
  BY <1>3 DEF Fits
<1>5. Alone
  BY <1>3, AloneThere DEF TypeOK, AllFollow
<1>6. \A c \in ToSet(contacts) : Sound(c)
  BY <1>5 DEF AllFollow, KeysOK, Sound
<1>7. \A c \in ToSet(contacts') : c \in ToSet(contacts) \/ Sound(c)
  BY <1>1, <1>6, MarkSound
<1>8. Saves
  BY <1>1 DEF MarkSetupDone, Saves, SaveContacts, TypeOK, SessionOK
<1>9. \A q \in Ops \ {o} : op[q].at # "submit"
  BY <1>3 DEF OneSender
<1>10. \E r : Await(o, r) /\ r.at # "reconcile" /\ Fits(r)'
  <2> DEFINE list == contacts'
  <2>1. SyncFrom(o, list) /\ config' = config
    BY <1>1
  <2> HIDE DEF list
  <2> QED
    BY <2>1, SyncFromQuiet
<1>11. PICK r : Await(o, r) /\ r.at # "reconcile" /\ Fits(r)'
  BY <1>10
<1>12. op'[o] = r /\ \A q \in Ops \ {o} : op'[q] = op[q]
  BY <1>11, AwaitFacts DEF TypeOK
<1>13. (AllFit /\ OneRederives /\ KeysOK)'
  BY <1>1, <1>5, <1>7, <1>8, <1>9, <1>11, <1>12, MoveFollows DEF AllFollow
<1>14. m.index = n /\ m.of = k /\ m.lane = l /\ m.peer = op[o].contact.peer
  OBVIOUS
<1>15. slots' = slots \cup {<<k, l, n>>} /\ confirmed' = confirmed \cup {m}
  BY <1>1
<1>16. Dense' /\ NextEmpty(k, l)' = n + 1
  BY <1>2, <1>4, <1>15, DenseStep DEF TypeOK, AllFollow
<1>17. ASSUME NEW x \in confirmed' PROVE x.index \in Nat /\ Readable(x)'
  <2>1. CASE x \in confirmed
    BY <1>15, <2>1 DEF AllFollow, ConfirmedOK, Readable
  <2>2. CASE x = m
    <3>1. \A i \in Nat : i < n + 1 => <<k, l, i>> \in slots'
      BY <1>2, <1>16 DEF Dense
    <3>2. \A i \in 0..n : i \in Nat /\ i < n + 1
      BY <1>2
    <3>3. x.of \in PoolConnections => x.lane = Out(x.of, x.peer)
      BY <1>4, <1>14, <2>2
    <3> QED
      BY <1>2, <1>14, <2>2, <3>1, <3>2, <3>3 DEF Readable
  <2> QED
    BY <1>15, <2>1, <2>2
<1>18. ConfirmedOK'
  BY <1>17 DEF ConfirmedOK
<1> QED
  BY <1>13, <1>16, <1>18 DEF AllFollow

LEMMA ThrowsQuiet ==
  ASSUME TypeOK, AllFollow, NEW o \in Ops, Throws(o)
  PROVE  AllFollow'
<1>1. op[o].at \notin {"idle", "reconcile"}
  BY DEF Throws, Refused, At, Calls, Scans
<1>2. config' = config /\ UNCHANGED <<contacts, disk, world>> /\ confirmed' = confirmed
  BY DEF Throws, ghosts
<1>3. ScanOver(o, TRUE, contacts) \/ End(o)
  BY DEF Throws, SyncEnds
<1>4. CASE ScanOver(o, TRUE, contacts)
  <2>1. PICK r : Await(o, r) /\ r.at # "reconcile" /\ Fits(r)'
    BY <1>2, <1>4, ScanOverQuiet
  <2> QED
    BY <1>1, <1>2, <2>1, SameContacts, StaysQuiet
<1>5. CASE End(o)
  BY <1>1, <1>2, <1>5, SameContacts, EndQuiet
<1> QED
  BY <1>3, <1>4, <1>5

-----------------------------------------------------------------------------
\* A reconciliation, with nothing else under way: what it has passed is derived.
LEMMA ReconcilesOn ==
  ASSUME NEW o \in Ops, NEW r, op'[o] = r, \A q \in Ops \ {o} : op'[q].at = "idle",
         Fits(r)', r.at \in {"idle", "reconcile"},
         \A c \in ToSet(contacts') : c.registered => Derived(c)' \/ c \in ToSet(r.todo),
         r.at = "idle" => \A c \in ToSet(contacts') : c.registered => Derived(c)',
         \A c \in ToSet(contacts') : NoKey(c),
         \A c \in ToSet(disk'.contacts) : NoKey(c)
  PROVE  (AllFit /\ OneRederives /\ KeysOK)'
<1>1. ASSUME NEW q \in Ops, NEW s \in Operation, op'[q] = s PROVE Fits(s)'
  <2>1. CASE q = o
    BY <1>1, <2>1
  <2>2. CASE q # o
    BY <1>1, <2>2, IdleFits
  <2> QED
    BY <2>1, <2>2
<1>2. ASSUME NEW q \in Ops, NEW s \in Operation, op'[q] = s, s.at = "reconcile"
      PROVE  Rederives(s)' /\ \A p \in Ops \ {q} : op'[p].at = "idle"
  <2>1. q = o /\ s = r
    BY <1>2
  <2>2. Rederives(r)'
    BY DEF Rederives
  <2> QED
    BY <2>1, <2>2
<1>3. Alone' => r.at = "idle"
  BY DEF Alone, At
<1>4. KeysOK'
  BY <1>3 DEF KeysOK, NoKey
<1> QED
  BY <1>1, <1>2, <1>4 DEF AllFit, OneRederives

LEMMA RederivedQuiet ==
  ASSUME TypeOK, AllFollow, disturbed' = {}, NEW o \in Ops, Rederived(o)
  PROVE  AllFollow'
<1> PICK r0 : r0 = op[o]
  OBVIOUS
<1> PICK c, rest, k : c = Head(r0.todo) /\ rest = Tail(r0.todo) /\ k = r0.via
  OBVIOUS
<1> PICK fresh : fresh = Out(k, c.peer)
  OBVIOUS
<1>1. /\ r0 \in Operation /\ r0.at = "reconcile" /\ r0.todo \in Seq(ContactOf)
      /\ r0.todo # <<>> /\ Fits(r0)
  BY Fitting DEF Rederived, At, TypeOK, OpsOK, Holds, AllFollow
<1>2. /\ k = config /\ config \in PoolConnections /\ \A x \in ToSet(r0.todo) : x.registered
      /\ Rederives(r0) /\ \A q \in Ops \ {o} : op[q].at = "idle"
  BY <1>1 DEF Fits, AllFollow, OneRederives
<1>3. /\ c \in ContactOf /\ rest \in Seq(ContactOf)
      /\ ToSet(r0.todo) = {c} \cup ToSet(rest)
  <2>1. c \in ContactOf /\ rest \in Seq(ContactOf) /\ Len(rest) = Len(r0.todo) - 1
        /\ \A i \in 1..Len(rest) : rest[i] = r0.todo[i + 1]
    BY <1>1, HeadTailProperties
  <2>2. c = r0.todo[1] /\ Len(r0.todo) \in Nat /\ Len(r0.todo) > 0
    BY <1>1
  <2>3. DOMAIN r0.todo = 1..Len(r0.todo) /\ DOMAIN rest = 1..Len(rest)
    BY <1>1, <2>1
  <2>4. ASSUME NEW x PROVE x \in ToSet(r0.todo) <=> x \in {c} \cup ToSet(rest)
    <3>1. ASSUME NEW i \in 1..Len(r0.todo), x = r0.todo[i] PROVE x \in {c} \cup ToSet(rest)
      <4>1. CASE i = 1
        BY <2>2, <3>1, <4>1
      <4>2. CASE i # 1
        <5>1. i - 1 \in 1..Len(rest) /\ (i - 1) + 1 = i
          BY <2>1, <2>2, <4>2
        <5>2. rest[i - 1] = x
          BY <2>1, <3>1, <5>1
        <5> QED
          BY <2>3, <5>1, <5>2 DEF ToSet
      <4> QED
        BY <4>1, <4>2
    <3>2. ASSUME NEW i \in 1..Len(rest), x = rest[i] PROVE x \in ToSet(r0.todo)
      <4>1. i + 1 \in 1..Len(r0.todo) /\ x = r0.todo[i + 1]
        BY <2>1, <2>2, <3>2
      <4> QED
        BY <2>3, <4>1 DEF ToSet
    <3>3. c \in ToSet(r0.todo)
      BY <2>2, <2>3 DEF ToSet
    <3> QED
      BY <2>3, <3>1, <3>2, <3>3 DEF ToSet
  <2> QED
    BY <2>1, <2>4
<1>4. PICK answered \in {Registered(k, c.peer), Registered(k, c.peer) /\ ~Rejects} :
        /\ contacts' =
              [i \in DOMAIN contacts |->
                  IF (answered /\ fresh # c.outKey) /\ contacts[i] = c
                  THEN [c EXCEPT !.outKey = fresh, !.obj = made + 1]
                  ELSE contacts[i]]
        /\ IF rest # <<>> /\ IsPool
           THEN /\ Await(o, [op[o] EXCEPT !.todo = rest, !.via = config,
                               !.changed = op[o].changed \/ (answered /\ fresh # c.outKey)])
                /\ UNCHANGED disk
           ELSE /\ End(o)
                /\ SaveContacts \/ UNCHANGED disk
        /\ Disturbs(IF Registered(k, c.peer) THEN "rejected" ELSE "unregistered", ~answered)
  BY DEF Rederived
<1>5. answered /\ Registered(config, c.peer)
  BY <1>2, <1>4 DEF Disturbs
<1>6. UNCHANGED <<config, world, confirmed>>
  BY DEF Rederived
<1> PICK new : new = [c EXCEPT !.outKey = fresh, !.obj = made + 1]
  OBVIOUS
<1>7. c.registered
  BY <1>2, <1>3
<1>8. new.registered /\ new.peer = c.peer /\ new.outKey = fresh
  BY <1>3, <1>7 DEF ContactOf
<1>9. \A x : Derived(x)' <=> Derived(x)
  BY <1>6 DEF Derived, Registered, world
<1>10. Derived(new)
  BY <1>2, <1>5, <1>8 DEF Derived
<1>11. fresh = c.outKey => Derived(c)
  BY <1>2, <1>5 DEF Derived
<1>12. ASSUME NEW x \in ToSet(contacts')
       PROVE  NoKey(x) /\ (x.registered => Derived(x)' \/ x \in ToSet(rest))
  <2>1. PICK i \in DOMAIN contacts : x = contacts'[i]
    BY <1>4 DEF ToSet
  <2>2. x = IF fresh # c.outKey /\ contacts[i] = c THEN new ELSE contacts[i]
    BY <1>4, <1>5, <2>1
  <2>3. contacts[i] \in ToSet(contacts)
    BY DEF ToSet
  <2>4. CASE x = new
    BY <1>8, <1>9, <1>10, <2>4 DEF NoKey
  <2>5. CASE x = contacts[i] /\ ~(fresh # c.outKey /\ contacts[i] = c)
    <3>1. NoKey(x)
      BY <2>3, <2>5 DEF AllFollow, KeysOK
    <3>2. x.registered => Derived(x) \/ x \in {c} \cup ToSet(rest)
      BY <1>2, <1>3, <2>3, <2>5 DEF Rederives
    <3> QED
      BY <1>9, <1>11, <2>5, <3>1, <3>2
  <2> QED
    BY <2>2, <2>4, <2>5
<1>13. \A x \in ToSet(disk'.contacts) : NoKey(x)
  <2>1. disk'.contacts \in {disk.contacts, contacts'}
    BY <1>4 DEF SaveContacts, TypeOK, SessionOK
  <2> QED
    BY <1>12, <2>1 DEF AllFollow, KeysOK
<1>14. PICK r : /\ Await(o, r) /\ r.at \in {"idle", "reconcile"} /\ Fits(r)'
                /\ ToSet(rest) \subseteq ToSet(r.todo)
                /\ r.at = "idle" => ToSet(rest) = {}
  <2>1. CASE rest # <<>>
    <3> PICK d : d = (op[o].changed \/ (answered /\ fresh # c.outKey))
      OBVIOUS
    <3> PICK s : s = [r0 EXCEPT !.todo = rest, !.via = config, !.changed = d]
      OBVIOUS
    <3>1. Await(o, s)
      BY <1>2, <1>4, <2>1 DEF IsPool
    <3>2. s.at = "reconcile" /\ s.via = config /\ s.todo = rest
      BY <1>1 DEF Operation
    <3>3. \A x \in ToSet(rest) : x.registered
      BY <1>2, <1>3
    <3>4. Fits(s)'
      BY <1>2, <1>6, <3>2, <3>3 DEF Fits, Scans
    <3> QED
      BY <3>1, <3>2, <3>4
  <2>2. CASE rest = <<>>
    <3>1. Await(o, Idle) /\ Idle.at = "idle"
      BY <1>4, <2>2 DEF End, Idle
    <3>2. ToSet(rest) = {}
      BY <2>2 DEF ToSet
    <3> QED
      BY <3>1, <3>2, IdleFits
  <2> QED
    BY <2>1, <2>2
<1>15. op'[o] = r /\ \A q \in Ops \ {o} : op'[q].at = "idle"
  BY <1>2, <1>14, AwaitFacts DEF TypeOK
<1>16. (AllFit /\ OneRederives /\ KeysOK)'
  BY <1>12, <1>13, <1>14, <1>15, ReconcilesOn
<1>17. (Dense /\ ConfirmedOK)'
  BY <1>6, SlotsFrame DEF AllFollow, world
<1> QED
  BY <1>16, <1>17 DEF AllFollow

\* What a connection starts with: a reconciliation of all registered contacts.
LEMMA ReconcileFollows ==
  ASSUME NEW o \in Ops, NEW k, NEW list \in Seq(ContactOf), NEW r, r = Reconcile(k, list),
         op'[o] = r, \A q \in Ops \ {o} : op'[q].at = "idle",
         config' = k, contacts' = list,
         \A c \in ToSet(list) : NoKey(c), \A c \in ToSet(disk'.contacts) : NoKey(c)
  PROVE  (AllFit /\ OneRederives /\ KeysOK)'
<1> DEFINE todo == ToReconcile(list)
           at == {i \in DOMAIN list : list[i].registered}
<1>1. at \in SUBSET DOMAIN list /\ todo = Pick(list, at)
  BY DEF ToReconcile
<1>2. /\ \A n \in DOMAIN todo : todo[n].registered
      /\ \A i \in DOMAIN list : list[i].registered => \E n \in DOMAIN todo : todo[n] = list[i]
  <2> DEFINE P == Pick(list, at)
  <2>1. /\ \A n \in DOMAIN P : \E i \in at : P[n] = list[i]
        /\ \A i \in at : \E n \in DOMAIN P : P[n] = list[i]
    <3> HIDE DEF at
    <3> QED
      BY <1>1, FilterOK
  <2>2. todo = P
    BY <1>1
  <2> HIDE DEF P, todo
  <2> QED
    BY <2>1, <2>2
<1>3. r = IF k \in PoolConnections /\ todo # <<>>
          THEN [Idle EXCEPT !.at = "reconcile", !.via = k, !.todo = todo] ELSE Idle
  BY DEF Reconcile
<1> HIDE DEF todo
<1>4. \A c \in ToSet(todo) : c.registered
  BY <1>2 DEF ToSet
<1>5. \A c \in ToSet(list) : c.registered => c \in ToSet(todo)
  BY <1>2 DEF ToSet
<1>6. /\ r.at = IF k \in PoolConnections /\ todo # <<>> THEN "reconcile" ELSE "idle"
      /\ r.at = "reconcile" => r.via = k /\ r.todo = todo
  BY <1>3 DEF Idle
<1>7. Fits(r)'
  BY <1>4, <1>6 DEF Fits, Scans
<1>8. r.at = "idle" => k \notin PoolConnections \/ ToSet(todo) = {}
  BY <1>6 DEF ToSet
<1>9. r.at = "idle" => \A c \in ToSet(contacts') : c.registered => Derived(c)'
  BY <1>5, <1>8 DEF Derived
<1>10. \A c \in ToSet(contacts') : c.registered => Derived(c)' \/ c \in ToSet(r.todo)
  BY <1>5, <1>6, <1>9
<1> QED
  BY <1>6, <1>7, <1>9, <1>10, ReconcilesOn

LEMMA UpdateQuiet ==
  ASSUME TypeOK, AllFollow, disturbed' = {}, NEW o \in Ops, NEW k, UpdateConnection(o, k)
  PROVE  AllFollow'
<1>1. /\ config' = k /\ contacts' = contacts /\ disk' = [disk EXCEPT !.config = k]
      /\ Await(o, Reconcile(k, contacts))
      /\ \A q \in Ops : op[q].at = "idle"
      /\ UNCHANGED world /\ confirmed' = confirmed
  BY DEF UpdateConnection, Switches, Disturbs, At
<1> PICK r : r = Reconcile(k, contacts)
  OBVIOUS
<1>2. op'[o] = r /\ \A q \in Ops \ {o} : op'[q].at = "idle"
  BY <1>1, AwaitFacts DEF TypeOK
<1> PICK list : list = contacts
  OBVIOUS
<1>3. /\ list \in Seq(ContactOf) /\ contacts' = list /\ r = Reconcile(k, list)
      /\ \A c \in ToSet(list) : NoKey(c)
      /\ \A c \in ToSet(disk'.contacts) : NoKey(c)
  BY <1>1 DEF TypeOK, SessionOK, AllFollow, KeysOK
<1>4. (AllFit /\ OneRederives /\ KeysOK)'
  BY <1>1, <1>2, <1>3, ReconcileFollows
<1>5. (Dense /\ ConfirmedOK)'
  BY <1>1, SlotsFrame DEF AllFollow, world
<1> QED
  BY <1>4, <1>5 DEF AllFollow

LEMMA ReloadQuiet ==
  ASSUME TypeOK, AllFollow, NEW o \in Ops, Reload(o)
  PROVE  AllFollow'
<1>1. /\ config' = disk.config /\ contacts' = disk.contacts /\ disk' = disk
      /\ op' = [[q \in Ops |-> Idle] EXCEPT ![o] = Reconcile(disk.config, disk.contacts)]
      /\ UNCHANGED world /\ confirmed' = confirmed
  BY DEF Reload, ghosts
<1> PICK k, list : k = disk.config /\ list = disk.contacts
  OBVIOUS
<1> PICK r : r = Reconcile(k, list)
  OBVIOUS
<1>2. op'[o] = r /\ \A q \in Ops \ {o} : op'[q].at = "idle"
  BY <1>1 DEF Idle
<1>3. /\ list \in Seq(ContactOf) /\ contacts' = list /\ config' = k
      /\ \A c \in ToSet(list) : NoKey(c)
      /\ \A c \in ToSet(disk'.contacts) : NoKey(c)
  BY <1>1 DEF TypeOK, SessionOK, AllFollow, KeysOK
<1>4. (AllFit /\ OneRederives /\ KeysOK)'
  BY <1>2, <1>3, ReconcileFollows
<1>5. (Dense /\ ConfirmedOK)'
  BY <1>1, SlotsFrame DEF AllFollow, world
<1> QED
  BY <1>4, <1>5 DEF AllFollow

\* The session begins or ends with nothing under way and no contact.
LEMMA SwitchesQuiet ==
  ASSUME TypeOK, AllFollow, disturbed' = {},
         Disconnect \/ \E k \in Connections : CompleteOnboarding(k)
  PROVE  AllFollow'
<1>1. /\ contacts' = <<>> /\ disk'.contacts = <<>>
      /\ op' = op /\ UNCHANGED world /\ confirmed' = confirmed
      /\ \A q \in Ops : op[q].at = "idle"
  <2>1. CASE Disconnect
    BY <2>1 DEF Disconnect, Switches, Disturbs, At
  <2>2. ASSUME NEW k \in Connections, CompleteOnboarding(k)
        PROVE  /\ contacts' = <<>> /\ disk'.contacts = <<>>
               /\ op' = op /\ UNCHANGED world /\ confirmed' = confirmed
               /\ \A q \in Ops : op[q].at = "idle"
    BY <2>2 DEF CompleteOnboarding, Switches, Disturbs, At, TypeOK, SessionOK
  <2> QED
    BY <2>1, <2>2
<1>2. AllFit' /\ OneRederives'
  BY <1>1, IdleFits DEF AllFit, OneRederives
<1>3. ToSet(contacts') = {} /\ ToSet(disk'.contacts) = {}
  BY <1>1 DEF ToSet
<1>4. KeysOK'
  BY <1>3 DEF KeysOK
<1>5. (Dense /\ ConfirmedOK)'
  BY <1>1, SlotsFrame DEF AllFollow, world
<1> QED
  BY <1>2, <1>4, <1>5 DEF AllFollow

\* More peers register, or nothing happens.
LEMMA GrowsQuiet ==
  ASSUME AllFollow, UNCHANGED <<config, contacts, disk, op, slots, confirmed>>,
         registered \subseteq registered'
  PROVE  AllFollow'
<1>1. AllFit'
  <2> SUFFICES ASSUME NEW q \in Ops, NEW s \in Operation, op'[q] = s PROVE Fits(s)'
    BY DEF AllFit
  <2>1. Fits(s)
    BY DEF AllFollow, AllFit
  <2> QED
    BY <2>1, FitsFrame
<1>2. \A x : Derived(x) => Derived(x)'
  BY DEF Derived, Registered
<1>3. OneRederives'
  <2> SUFFICES ASSUME NEW q \in Ops, NEW s \in Operation, op'[q] = s, s.at = "reconcile"
               PROVE  Rederives(s)' /\ \A p \in Ops \ {q} : op'[p].at = "idle"
    BY DEF OneRederives
  <2>1. Rederives(s) /\ \A p \in Ops \ {q} : op[p].at = "idle"
    BY DEF AllFollow, OneRederives
  <2> QED
    BY <1>2, <2>1 DEF Rederives
<1>4. Alone' <=> Alone
  BY DEF Alone, At
<1>5. KeysOK'
  BY <1>2, <1>4 DEF AllFollow, KeysOK
<1>6. (Dense /\ ConfirmedOK)'
  BY SlotsFrame DEF AllFollow
<1> QED
  BY <1>1, <1>3, <1>5, <1>6 DEF AllFollow

-----------------------------------------------------------------------------
\* What disturbed a session stays known.
LEMMA Remembered ==
  ASSUME [Next]_vars
  PROVE  disturbed \subseteq disturbed'
<1>1. CASE UNCHANGED vars
  BY <1>1 DEF vars, ghosts
<1>2. ASSUME NEW what, NEW if, Disturbs(what, if) PROVE disturbed \subseteq disturbed'
  BY <1>2 DEF Disturbs
<1>3. ASSUME NEW o \in Ops, Step(o) PROVE disturbed \subseteq disturbed'
  <2>1. CASE Rederived(o)
    BY <1>2, <2>1 DEF Rederived
  <2>2. ASSUME NEW c, PutContact(o, c) PROVE disturbed' = disturbed
    BY <2>2 DEF PutContact
  <2>3. ASSUME NEW r, Goes(o, r) PROVE disturbed' = disturbed
    BY <2>3 DEF Goes, ghosts
  <2>4. CASE AddRegistered(o) \/ AddLane(o)
    BY <2>2, <2>3, <2>4 DEF AddRegistered, AddLane
  <2>5. CASE Refreshed(o) \/ RefreshLane(o)
    BY <2>3, <2>5 DEF Refreshed, RefreshLane, Refresh, ghosts
  <2>6. ASSUME NEW list, NEW todo, NEW changed, Merge(o, list, todo, changed)
        PROVE  disturbed \subseteq disturbed'
    BY <1>2, <2>6 DEF Merge
  <2>7. CASE Scanned(o) \/ FoundRegistered(o) \/ FoundLane(o)
    BY <2>3, <2>6, <2>7 DEF Scanned, FoundRegistered, FoundLane, Found, ghosts
  <2>8. CASE Read(o) \/ Walked(o) \/ Submitted(o)
    BY <2>3, <2>8 DEF Read, Walked, Submitted, ghosts
  <2> QED
    BY <1>3, <2>1, <2>4, <2>5, <2>7, <2>8 DEF Step
<1>4. ASSUME NEW o \in Ops, User(o) PROVE disturbed \subseteq disturbed'
  <2>1. ASSUME NEW r, Starts(o, r) PROVE disturbed \subseteq disturbed'
    BY <1>2, <2>1 DEF Starts
  <2>2. CASE Reload(o)
    BY <2>2 DEF Reload, ghosts
  <2>3. ASSUME NEW k, UpdateConnection(o, k) PROVE disturbed \subseteq disturbed'
    BY <1>2, <2>3 DEF UpdateConnection, Switches
  <2> QED
    BY <1>4, <2>1, <2>2, <2>3 DEF User, AddContact, RefreshRegistration, Send, ScanButton
<1>5. ASSUME NEW o \in Ops, Throws(o) \/ Sync(o) PROVE disturbed \subseteq disturbed'
  BY <1>2, <1>5 DEF Throws, Sync, ghosts
<1>6. CASE Disconnect
  BY <1>2, <1>6 DEF Disconnect, Switches
<1>7. ASSUME NEW k \in Connections, CompleteOnboarding(k) PROVE disturbed \subseteq disturbed'
  BY <1>2, <1>7 DEF CompleteOnboarding, Switches
<1>8. ASSUME NEW k \in Connections, NEW p \in Peers, PeerRegisters(k, p) \/ PeerOpens(k, p)
      PROVE  disturbed \subseteq disturbed'
  BY <1>8 DEF PeerRegisters, PeerOpens, ghosts
<1> QED
  BY <1>1, <1>3, <1>4, <1>5, <1>6, <1>7, <1>8 DEF Next

LEMMA QuietStep ==
  ASSUME TypeOK, OneSender, Quiet, [Next]_vars
  PROVE  Quiet'
<1> SUFFICES ASSUME disturbed' = {} PROVE AllFollow'
  BY DEF Quiet
<1>1. AllFollow
  BY Remembered DEF Quiet
<1>2. ASSUME NEW o \in Ops, Step(o) PROVE AllFollow'
  BY <1>1, <1>2, RederivedQuiet, AddRegisteredQuiet, AddLaneQuiet, RefreshedQuiet,
     RefreshLaneQuiet, ScannedQuiet, FoundRegisteredQuiet, FoundLaneQuiet, ReadQuiet,
     WalkedQuiet, SubmittedQuiet DEF Step
<1>3. ASSUME NEW o \in Ops, User(o) PROVE AllFollow'
  BY <1>1, <1>3, UserQuiet, UpdateQuiet, ReloadQuiet DEF User
<1>4. ASSUME NEW o \in Ops, Throws(o) \/ Sync(o) PROVE AllFollow'
  BY <1>1, <1>4, ThrowsQuiet, SyncQuiet
<1>5. CASE Disconnect \/ \E k \in Connections : CompleteOnboarding(k)
  BY <1>1, <1>5, SwitchesQuiet
<1>6. ASSUME NEW k \in Connections, NEW p \in Peers, PeerRegisters(k, p) \/ PeerOpens(k, p)
      PROVE  AllFollow'
  <2>1. /\ UNCHANGED <<config, contacts, disk, op, slots, confirmed>>
        /\ registered \subseteq registered'
    BY <1>6 DEF PeerRegisters, PeerOpens, session, ghosts
  <2> QED
    BY <1>1, <2>1, GrowsQuiet
<1>7. CASE UNCHANGED vars
  <2>1. /\ UNCHANGED <<config, contacts, disk, op, slots, confirmed>>
        /\ registered \subseteq registered'
    BY <1>7 DEF vars, session, world, ghosts
  <2> QED
    BY <1>1, <2>1, GrowsQuiet
<1> QED
  BY <1>2, <1>3, <1>4, <1>5, <1>6, <1>7 DEF Next

-----------------------------------------------------------------------------
(***************************************************************************)
(* The theorems.                                                           *)
(***************************************************************************)

LEMMA StartsInvariant == Init => IInv
<1> SUFFICES ASSUME Init PROVE IInv
  OBVIOUS
<1>1. TypeOK
  BY InitOK
<1>2. ListsOK
  BY DEF Init, ListsOK, Unique, NoContactLost
<1>3. NeverSyncLocked
  BY DEF Init, NeverSyncLocked
<1>4. \A o \in Ops : op[o].at = "idle"
  BY DEF Init, Idle
<1>5. OneSender
  BY <1>4 DEF OneSender
<1>6. ToSet(contacts) = {} /\ ToSet(disk.contacts) = {}
  BY DEF Init, ToSet
<1>7. AllFit
  BY <1>4 DEF AllFit, Fits, Scans
<1>8. OneRederives /\ KeysOK
  BY <1>4, <1>6 DEF OneRederives, KeysOK
<1>9. Dense
  <2> SUFFICES ASSUME NEW k \in Connections, NEW l \in LaneOf, NEW n \in Nat
               PROVE  <<k, l, n>> \in slots <=> n < NextEmpty(k, l)
    BY DEF Dense
  <2>1. slots = {}
    BY DEF Init
  <2>2. {s \in slots : s[1] = k /\ s[2] = l} = {}
    BY <2>1
  <2>3. NextEmpty(k, l) = 0
    BY <2>2, FS_EmptySet DEF NextEmpty
  <2> QED
    BY <2>1, <2>3
<1>10. ConfirmedOK
  BY DEF Init, ConfirmedOK
<1> QED
  BY <1>1, <1>2, <1>3, <1>5, <1>7, <1>8, <1>9, <1>10 DEF IInv, Quiet, AllFollow

\* Whatever the user, the peers and the backends do, in whatever order calls
\* come back: types, lists, flag, sends and lanes are as IInv says.
THEOREM Invariant == Spec => []IInv
<1>1. Init => IInv
  BY StartsInvariant
<1>2. IInv /\ [Next]_vars => IInv'
  <2> SUFFICES ASSUME IInv, [Next]_vars PROVE IInv'
    OBVIOUS
  <2> QED
    BY NextTypes, ListsStep, FlagStep, QuietStep DEF IInv
<1> QED
  BY <1>1, <1>2, PTL DEF Spec

\* No contact the user added is lost, from the list or from local storage, by
\* whatever addContact, refreshRegistration, reconcileLanes and discoverLanes
\* make of the list behind one another's awaits.
THEOREM ContactsKept == Spec => []NoContactLost
<1>1. IInv => NoContactLost
  BY DEF IInv, ListsOK
<1> QED
  BY <1>1, Invariant, PTL

\* No two contacts share a label: not a contact added over another, nor one a
\* scan found, which shortLabel names.
THEOREM LabelsDiffer == Spec => []LabelsUnique
<1>1. IInv => LabelsUnique
  BY DEF IInv, ListsOK, Unique, LabelsUnique
<1> QED
  BY <1>1, Invariant, PTL

\* The flag of syncNow is up only while a sync is under way, however its scan
\* and its reading end, and even if the session is closed under it.
THEOREM SyncsAgain == Spec => []NeverSyncLocked
<1>1. IInv => NeverSyncLocked
  BY DEF IInv
<1> QED
  BY <1>1, Invariant, PTL

\* Undisturbed, a message reported as confirmed lies where its peer reads it,
\* without a gap before it: every lane a send uses was derived on the
\* connection it goes to.
THEOREM SendsReadable == Spec => []ConfirmedIsReadable
<1>1. IInv => ConfirmedIsReadable
  BY DEF IInv, Quiet, AllFollow, ConfirmedOK, ConfirmedIsReadable
<1> QED
  BY <1>1, Invariant, PTL
=============================================================================
