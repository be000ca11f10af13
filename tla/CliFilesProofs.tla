---------------------------- MODULE CliFilesProofs ----------------------------
(***************************************************************************)
(* What the files of a configuration directory never lose, proved for any  *)
(* number of processes, peers, labels and commands.                        *)
(***************************************************************************)
EXTENDS CliFilesInvariant, FiniteSetTheorems, SequenceTheorems, NaturalsInduction, WellFoundedInduction, TLAPS

-----------------------------------------------------------------------------
(***************************************************************************)
(* The operators.                                                          *)
(***************************************************************************)

\* How many positions lie below one: a bijection between positions and 1..n.
LEMMA Below ==
  ASSUME NEW at \in SUBSET Nat, IsFiniteSet(at)
  PROVE  /\ Cardinality(at) \in Nat
         /\ \A n \in 1..Cardinality(at) : \E i \in at :
                Cardinality({j \in at : j < i}) = n - 1
         /\ \A i \in at : Cardinality({j \in at : j < i}) + 1 \in 1..Cardinality(at)
         /\ \A i, k \in at : i # k =>
                Cardinality({j \in at : j < i}) # Cardinality({j \in at : j < k})
<1> DEFINE c == Cardinality(at)
           below(i) == {j \in at : j < i}
           f == [i \in at |-> Cardinality(below(i)) + 1]
<1>1. c \in Nat
  BY FS_CardinalityType
<1>2. ASSUME NEW S \in SUBSET at PROVE IsFiniteSet(S) /\ Cardinality(S) \in Nat
  BY FS_Subset, FS_CardinalityType
<1>3. ASSUME NEW i \in at PROVE Cardinality(below(i)) < c
  <2>1. IsFiniteSet(at \ {i}) /\ Cardinality(at \ {i}) = c - 1
    BY FS_RemoveElement
  <2>2. below(i) \in SUBSET (at \ {i})
    OBVIOUS
  <2>3. Cardinality(below(i)) <= c - 1
    BY <2>1, <2>2, FS_Subset
  <2> QED
    BY <1>1, <1>2, <2>3
<1>4. ASSUME NEW i \in at, NEW k \in at, i < k
      PROVE  Cardinality(below(i)) < Cardinality(below(k))
  <2>1. i \in below(k)
    BY <1>4
  <2>2. /\ IsFiniteSet(below(k) \ {i})
        /\ Cardinality(below(k) \ {i}) = Cardinality(below(k)) - 1
    BY <1>2, <2>1, FS_RemoveElement
  <2>3. below(i) \in SUBSET (below(k) \ {i})
    <3>1. i \in Nat /\ k \in Nat /\ \A j \in at : j \in Nat
      OBVIOUS
    <3>2. \A j \in at : j < i => j < k /\ j # i
      BY <1>4, <3>1
    <3> QED
      BY <3>2
  <2>4. Cardinality(below(i)) <= Cardinality(below(k)) - 1
    BY <2>2, <2>3, FS_Subset
  <2>5. Cardinality(below(i)) \in Nat /\ Cardinality(below(k)) \in Nat
    BY <1>2
  <2> QED
    BY <2>4, <2>5
<1>5. ASSUME NEW i \in at PROVE Cardinality(below(i)) \in Nat
  BY <1>2
<1> HIDE DEF below
<1>6. \A i, k \in at : i # k => Cardinality(below(i)) # Cardinality(below(k))
  <2> SUFFICES ASSUME NEW i \in at, NEW k \in at, i # k,
                      Cardinality(below(i)) = Cardinality(below(k))
               PROVE  FALSE
    OBVIOUS
  <2>1. i \in Nat /\ k \in Nat
    OBVIOUS
  <2>2. i < k \/ k < i
    BY <2>1
  <2> QED
    BY <1>4, <1>5, <2>2
<1>7. f \in Injection(at, 1..c)
  <2>1. f \in [at -> 1..c]
    BY <1>1, <1>3, <1>5
  <2>2. IsInjective(f)
    BY <1>5, <1>6 DEF IsInjective
  <2> QED
    BY <2>1, <2>2 DEF Injection
<1>8. f \in Surjection(at, 1..c)
  <2>1. IsFiniteSet(1..c) /\ Cardinality(1..c) = c
    BY <1>1, FS_Interval
  <2> QED
    BY <1>7, <2>1, FS_Injection
<1>9. ASSUME NEW n \in 1..c PROVE \E i \in at : Cardinality(below(i)) = n - 1
  <2>1. PICK i \in at : f[i] = n
    BY <1>8 DEF Surjection
  <2> QED
    BY <1>5, <2>1
<1>10. \A i \in at : Cardinality(below(i)) + 1 \in 1..c
  BY <1>1, <1>3, <1>5
<1> QED
  BY <1>1, <1>6, <1>9, <1>10 DEF below

\* A filter returns what stands at the positions, and nothing else.
LEMMA PickFacts ==
  ASSUME NEW s, NEW at \in SUBSET Nat, IsFiniteSet(at)
  PROVE  /\ Cardinality(at) \in Nat
         /\ DOMAIN Pick(s, at) = 1..Cardinality(at)
         /\ \A n \in DOMAIN Pick(s, at) : \E i \in at : Pick(s, at)[n] = s[i]
         /\ \A i \in at : \E n \in DOMAIN Pick(s, at) : Pick(s, at)[n] = s[i]
         /\ (\A i, j \in at : s[i] = s[j] => i = j) =>
                \A m, n \in DOMAIN Pick(s, at) : Pick(s, at)[m] = Pick(s, at)[n] => m = n
         /\ \A T : (\A i \in at : s[i] \in T) => Pick(s, at) \in Seq(T)
<1> DEFINE b(i) == Cardinality({j \in at : j < i})
           pos(n) == CHOOSE i \in at : b(i) = n - 1
           c == Cardinality(at)
           P == Pick(s, at)
<1>1. /\ c \in Nat
      /\ \A n \in 1..c : \E i \in at : b(i) = n - 1
      /\ \A i \in at : b(i) + 1 \in 1..c
      /\ \A i, k \in at : i # k => b(i) # b(k)
  BY Below
<1>2. P = [n \in 1..c |-> s[pos(n)]]
  BY DEF Pick
<1>3. ASSUME NEW i \in at PROVE b(i) \in Nat
  BY FS_Subset, FS_CardinalityType
<1> HIDE DEF b, P, c
<1>4. ASSUME NEW n \in 1..c PROVE pos(n) \in at /\ b(pos(n)) = n - 1
  BY <1>1
<1> HIDE DEF pos
<1>5. DOMAIN P = 1..c /\ \A n \in 1..c : P[n] = s[pos(n)]
  BY <1>2
<1>6. \A i \in at : \E n \in DOMAIN P : P[n] = s[i]
  <2> TAKE i \in at
  <2>1. b(i) + 1 \in 1..c
    BY <1>1
  <2>2. pos(b(i) + 1) \in at /\ b(pos(b(i) + 1)) = b(i)
    BY <1>3, <1>4, <2>1
  <2>3. pos(b(i) + 1) = i
    BY <1>1, <2>2
  <2> QED
    BY <1>5, <2>1, <2>3
<1>7. ASSUME \A i, j \in at : s[i] = s[j] => i = j
      PROVE  \A m, n \in DOMAIN P : P[m] = P[n] => m = n
  <2> TAKE m, n \in DOMAIN P
  <2> HAVE P[m] = P[n]
  <2>1. pos(m) = pos(n)
    BY <1>4, <1>5, <1>7
  <2>2. m - 1 = n - 1 /\ m \in Int /\ n \in Int
    BY <1>1, <1>4, <1>5, <2>1
  <2> QED
    BY <2>2
<1>8. ASSUME NEW T, \A i \in at : s[i] \in T
      PROVE  P \in Seq(T)
  <2>1. P \in [1..c -> T]
    BY <1>2, <1>4, <1>5, <1>8
  <2> QED
    BY <1>1, <2>1
<1> QED
  BY <1>1, <1>4, <1>5, <1>6, <1>7, <1>8 DEF P, c

\* Every set of positions has a first one.
LEMMA FirstPosition ==
  ASSUME NEW I \in SUBSET Nat, I # {}
  PROVE  Min(I) \in I /\ \A i \in I : ~ (i < Min(I))
<1>1. PICK m \in I : \A i \in I : ~ (<<i, m>> \in OpToRel(<, Nat))
  BY WFMin, NatLessThanWellFounded, Zenon
<1>2. \A i \in I : ~ (i < m)
  BY <1>1, Zenon DEF OpToRel
<1>3. m \in Nat /\ \A i \in I : i \in Nat
  OBVIOUS
<1>4. \A i \in I : m <= i
  BY <1>2, <1>3
<1>5. Min(I) \in I /\ \A i \in I : Min(I) <= i
  BY <1>4 DEF Min
<1>6. Min(I) \in Nat
  BY <1>5
<1> QED
  BY <1>3, <1>5, <1>6

\* A configuration, channel by channel.
LEMMA ConfigFacts ==
  ASSUME NEW cfg \in Config
  PROVE  /\ Len(cfg) \in Nat /\ DOMAIN cfg = 1..Len(cfg)
         /\ \A i \in DOMAIN cfg :
                /\ cfg[i] \in Channels
                /\ cfg[i].label \in Names /\ cfg[i].peer \in Peers /\ cfg[i].key \in Keys
<1>1. Len(cfg) \in Nat /\ DOMAIN cfg = 1..Len(cfg)
  BY DEF Config
<1>2. \A i \in DOMAIN cfg : cfg[i] \in Channels
  BY DEF Config
<1> QED
  BY <1>1, <1>2 DEF Channels

\* An outbox, entry by entry.
LEMMA BoxFacts ==
  ASSUME NEW box \in Box
  PROVE  /\ Len(box) \in Nat /\ DOMAIN box = 1..Len(box)
         /\ \A i \in DOMAIN box :
                /\ box[i] \in Entries
                /\ box[i].id \in Ids /\ box[i].to \in Names
         /\ QueuedAt(box) \in SUBSET Nat /\ IsFiniteSet(QueuedAt(box))
         /\ QueuedAt(box) \subseteq DOMAIN box
<1>1. Len(box) \in Nat /\ DOMAIN box = 1..Len(box)
  BY DEF Box
<1>2. \A i \in DOMAIN box : box[i] \in Entries
  BY DEF Box
<1>3. IsFiniteSet(DOMAIN box)
  BY <1>1, FS_Interval
<1>4. QueuedAt(box) \subseteq DOMAIN box
  BY DEF QueuedAt
<1>5. IsFiniteSet(QueuedAt(box))
  BY <1>3, <1>4, FS_Subset
<1> QED
  BY <1>1, <1>2, <1>4, <1>5 DEF Entries

\* What a label or a peer resolves to is a channel of the configuration.
LEMMA ResolveFacts ==
  ASSUME NEW cfg \in Config, NEW to, Resolves(cfg, to)
  PROVE  Resolve(cfg, to) \in DOMAIN cfg /\ KeyOf(cfg, to) \in Keys
<1> DEFINE I == {i \in 1..Len(cfg) : to \in {cfg[i].label, cfg[i].peer}}
<1>1. I # {} /\ I \in SUBSET Nat
  BY ConfigFacts DEF Resolves
<1>2. Resolve(cfg, to) = Min(I)
  BY <1>1 DEF Resolve, SelectInSeq
<1>3. Resolve(cfg, to) \in 1..Len(cfg)
  BY <1>1, <1>2, FirstPosition
<1> QED
  BY <1>3, ConfigFacts DEF KeyOf

\* MarkSetup changes no label, peer or key.
LEMMA MarkSetupFacts ==
  ASSUME NEW cfg \in Config, NEW k
  PROVE  /\ MarkSetup(cfg, k) \in Config
         /\ Named(MarkSetup(cfg, k)) = Named(cfg)
         /\ \A to : /\ Resolves(MarkSetup(cfg, k), to) <=> Resolves(cfg, to)
                    /\ Resolves(cfg, to) => KeyOf(MarkSetup(cfg, k), to) = KeyOf(cfg, to)
<1> DEFINE new == MarkSetup(cfg, k)
<1>1. /\ DOMAIN new = DOMAIN cfg
      /\ \A i \in DOMAIN cfg :
             /\ new[i] \in Channels
             /\ new[i].label = cfg[i].label
             /\ new[i].peer = cfg[i].peer /\ new[i].key = cfg[i].key
  <2>1. DOMAIN new = DOMAIN cfg
    BY DEF MarkSetup
  <2>2. ASSUME NEW i \in DOMAIN cfg
        PROVE  new[i] = cfg[i] \/ new[i] = [cfg[i] EXCEPT !.setupDone = TRUE]
    BY DEF MarkSetup
  <2> HIDE DEF new
  <2>3. ASSUME NEW i \in DOMAIN cfg
        PROVE  /\ new[i] \in Channels
               /\ new[i].label = cfg[i].label
               /\ new[i].peer = cfg[i].peer /\ new[i].key = cfg[i].key
    <3>1. cfg[i] \in Channels
      BY ConfigFacts
    <3> QED
      BY <2>2, <3>1 DEF Channels
  <2> QED
    BY <2>1, <2>3
<1> HIDE DEF new
<1>2. new \in Config /\ Len(new) = Len(cfg)
  <2>1. new \in [1..Len(cfg) -> Channels]
    <3>1. new = [i \in 1..Len(cfg) |-> new[i]]
      BY ConfigFacts DEF new, MarkSetup
    <3> QED
      BY <1>1, <3>1, ConfigFacts
  <2> QED
    BY <2>1, ConfigFacts DEF Config
<1>3. Named(new) = Named(cfg)
  BY <1>1 DEF Named
<1>4. ASSUME NEW to PROVE /\ Resolves(new, to) <=> Resolves(cfg, to)
                          /\ Resolves(cfg, to) => KeyOf(new, to) = KeyOf(cfg, to)
  <2>1. Resolves(new, to) <=> Resolves(cfg, to)
    BY <1>1 DEF Resolves
  <2>2. {i \in 1..Len(new) : to \in {new[i].label, new[i].peer}}
        = {i \in 1..Len(cfg) : to \in {cfg[i].label, cfg[i].peer}}
    BY <1>1, <1>2, ConfigFacts
  <2>3. Resolve(new, to) = Resolve(cfg, to)
    BY <2>2 DEF Resolve, SelectInSeq
  <2> QED
    BY <1>1, <2>1, <2>3, ResolveFacts DEF KeyOf
<1> QED
  BY <1>2, <1>3, <1>4 DEF new

\* Marking entries changes their status only.
LEMMA MarkedFacts ==
  ASSUME NEW box \in Box, NEW ids,
         NEW status \in Statuses
  PROVE  /\ Marked(box, ids, status) \in Box
         /\ DOMAIN Marked(box, ids, status) = DOMAIN box
         /\ IdsOf(Marked(box, ids, status)) = IdsOf(box)
         /\ \A i \in DOMAIN box :
                /\ Marked(box, ids, status)[i].id = box[i].id
                /\ Marked(box, ids, status)[i].to = box[i].to
                /\ Marked(box, ids, status)[i].status =
                       IF box[i].id \in ids THEN status ELSE box[i].status
<1> DEFINE new == Marked(box, ids, status)
<1>1. /\ DOMAIN new = DOMAIN box
      /\ \A i \in DOMAIN box :
             /\ new[i] \in Entries
             /\ new[i].id = box[i].id /\ new[i].to = box[i].to
             /\ new[i].status = IF box[i].id \in ids THEN status ELSE box[i].status
  BY BoxFacts DEF Marked, Entries, Statuses
<1>2. new = [i \in 1..Len(box) |-> new[i]]
  BY BoxFacts DEF Marked
<1> HIDE DEF new
<1>3. new \in [1..Len(box) -> Entries]
  BY <1>1, <1>2, BoxFacts
<1>4. new \in Box
  BY <1>3, BoxFacts DEF Box
<1>5. IdsOf(new) = IdsOf(box)
  BY <1>1 DEF IdsOf
<1> QED
  BY <1>1, <1>4, <1>5 DEF new

\* The batch of a lane: the entries that wait for it, once each.
LEMMA BatchFacts ==
  ASSUME NEW me, me.box \in Box, NEW k
  PROVE  /\ BatchFor(me, k) \in Seq(0..MaxRuns)
         /\ \A n \in DOMAIN BatchFor(me, k) : \E i \in QueuedAt(me.box) :
                KeyOf(me.cfg, me.box[i].to) = k /\ BatchFor(me, k)[n] = me.box[i].id
         /\ \A i \in QueuedAt(me.box) : KeyOf(me.cfg, me.box[i].to) = k =>
                me.box[i].id \in Range(BatchFor(me, k))
         /\ (\A i, j \in DOMAIN me.box : me.box[i].id = me.box[j].id => i = j) =>
                \A m, n \in DOMAIN BatchFor(me, k) :
                    BatchFor(me, k)[m] = BatchFor(me, k)[n] => m = n
<1> DEFINE at == {i \in QueuedAt(me.box) : KeyOf(me.cfg, me.box[i].to) = k}
           ids == [i \in DOMAIN me.box |-> me.box[i].id]
<1>1. at \in SUBSET Nat /\ IsFiniteSet(at) /\ at \subseteq DOMAIN me.box
  BY BoxFacts, FS_Subset
<1>2. BatchFor(me, k) = Pick(ids, at)
  BY DEF BatchFor
<1>3. \A i \in at : ids[i] = me.box[i].id /\ ids[i] \in 0..MaxRuns
  BY <1>1, BoxFacts, FilesAssumption DEF Ids
<1>3a. at \in SUBSET Nat /\ IsFiniteSet(at)
  BY <1>1
<1> HIDE DEF ids, at
<1> DEFINE P == Pick(ids, at)
<1>4. /\ DOMAIN P = 1..Cardinality(at)
      /\ \A n \in DOMAIN P : \E i \in at : P[n] = ids[i]
      /\ \A i \in at : \E n \in DOMAIN P : P[n] = ids[i]
      /\ \A T : (\A i \in at : ids[i] \in T) => P \in Seq(T)
      /\ (\A i, j \in at : ids[i] = ids[j] => i = j) =>
             \A m, n \in DOMAIN P : P[m] = P[n] => m = n
  BY <1>3a, PickFacts
<1> HIDE DEF P
<1>5. /\ P \in Seq(0..MaxRuns)
      /\ \A n \in DOMAIN P : \E i \in at : P[n] = me.box[i].id
      /\ \A i \in at : \E n \in DOMAIN P : P[n] = me.box[i].id
  <2>1. P \in Seq(0..MaxRuns)
    BY <1>3, <1>4, Zenon
  <2>2. ASSUME NEW n \in DOMAIN P PROVE \E i \in at : P[n] = me.box[i].id
    <3>1. PICK i \in at : P[n] = ids[i]
      BY <1>4
    <3> QED
      BY <1>3, <3>1
  <2>3. ASSUME NEW i \in at PROVE \E n \in DOMAIN P : P[n] = me.box[i].id
    <3>1. PICK n \in DOMAIN P : P[n] = ids[i]
      BY <1>4
    <3>2. ids[i] = me.box[i].id
      BY <1>3
    <3> QED
      BY <3>1, <3>2
  <2> QED
    BY <2>1, <2>2, <2>3
<1>7. ASSUME \A i, j \in DOMAIN me.box : me.box[i].id = me.box[j].id => i = j
      PROVE  \A m, n \in DOMAIN P : P[m] = P[n] => m = n
  <2>1. \A i, j \in at : ids[i] = ids[j] => i = j
    BY <1>1, <1>3, <1>7
  <2> QED
    BY <1>4, <2>1
<1>8. \A i \in QueuedAt(me.box) : KeyOf(me.cfg, me.box[i].to) = k <=> i \in at
  BY DEF at
<1>9. at \subseteq QueuedAt(me.box) /\ BatchFor(me, k) = P
  BY <1>2 DEF at, P
<1> QED
  BY <1>5, <1>7, <1>8, <1>9 DEF Range

\* The label under which a discovered channel is filed.
LEMMA LabelFacts ==
  ASSUME NEW cfg \in Config, NEW p \in Peers
  PROVE  LabelForPeer(cfg, p) \in Names
<1>1. CASE \E i \in DOMAIN cfg : cfg[i].peer = p
  <2> DEFINE I == {i \in 1..Len(cfg) : cfg[i].peer = p}
  <2>1. I # {} /\ I \in SUBSET Nat
    BY <1>1, ConfigFacts
  <2>2. SelectInSeq(cfg, LAMBDA c : c.peer = p) = Min(I)
    BY <2>1 DEF SelectInSeq
  <2>3. Min(I) \in DOMAIN cfg
    BY <2>1, FirstPosition, ConfigFacts
  <2> QED
    BY <1>1, <2>2, <2>3, ConfigFacts DEF LabelForPeer
<1>2. CASE ~ \E i \in DOMAIN cfg : cfg[i].peer = p
  BY <1>2 DEF LabelForPeer, Names
<1> QED
  BY <1>1, <1>2

\* A scan returns the open channels.
LEMMA ScanFacts ==
  ASSUME opened \subseteq Keys, IsFiniteSet(opened)
  PROVE  Scan \in Seq(Keys)
<1>1. ASSUME NEW S \in SUBSET opened PROVE SetToSeq(S) \in Seq(Keys)
  <2>1. IsFiniteSet(S)
    BY FS_Subset
  <2>2. Cardinality(S) \in Nat /\ ExistsBijection(1..Cardinality(S), S)
    BY <2>1, FS_CardinalityType
  <2>3. \E f \in [1..Cardinality(S) -> S] : IsInjective(f)
    BY <2>2 DEF ExistsBijection, Bijection, Injection
  <2>4. SetToSeq(S) \in [1..Cardinality(S) -> S]
    BY <2>3 DEF SetToSeq
  <2> QED
    BY <2>2, <2>4
<1> QED
  BY <1>1 DEF Scan

\* The merge of a scan keeps every channel that is configured.
LEMMA MergedFacts ==
  ASSUME NEW cfg \in Config, NEW scan \in Seq(Keys)
  PROVE  Merged(cfg, scan) \in Config /\ Named(cfg) \subseteq Named(Merged(cfg, scan))
<1> DEFINE at == {n \in DOMAIN scan : \A i \in DOMAIN cfg : cfg[i].key # scan[n]}
           new == Pick(scan, at)
           more == [n \in DOMAIN new |->
                Channel(LabelForPeer(cfg, new[n][2]), new[n][2], new[n], "discovered")]
<1>1. at \in SUBSET Nat /\ IsFiniteSet(at)
  <2>1. IsFiniteSet(1..Len(scan)) /\ at \in SUBSET (1..Len(scan))
    BY FS_Interval
  <2> QED
    BY <2>1, FS_Subset
<1>2. \A n \in at : scan[n] \in Keys
  OBVIOUS
<1> HIDE DEF at
<1>3. new \in Seq(Keys)
  BY <1>1, <1>2, PickFacts
<1> HIDE DEF new
<1>4. ASSUME NEW k \in Keys, NEW l \in Names
      PROVE  Channel(l, k[2], k, "discovered") \in Channels
  BY DEF Channel, Channels, Keys, In, Out
<1>5. ASSUME NEW k \in Keys PROVE k[2] \in Peers
  BY DEF Keys, In, Out
<1>6. more \in Config
  <2>1. \A n \in DOMAIN new : new[n] \in Keys
    BY <1>3
  <2>2. \A n \in DOMAIN new :
            Channel(LabelForPeer(cfg, new[n][2]), new[n][2], new[n], "discovered") \in Channels
    BY <1>4, <1>5, <2>1, LabelFacts
  <2>3. DOMAIN new = 1..Len(new) /\ Len(new) \in Nat
    BY <1>3
  <2>4. more \in [1..Len(new) -> Channels]
    BY <2>2, <2>3
  <2> QED
    BY <2>3, <2>4 DEF Config
<1>7. Merged(cfg, scan) = cfg \o more
  BY DEF Merged, new, at
<1> HIDE DEF more
<1>8. cfg \o more \in Config
  BY <1>6 DEF Config
<1>9. \A i \in DOMAIN cfg : i \in DOMAIN (cfg \o more) /\ (cfg \o more)[i] = cfg[i]
  BY <1>6 DEF Config
<1> QED
  BY <1>7, <1>8, <1>9 DEF Named

\* `channel add' replaces the channels of its label only.
Adds(cfg, v) ==
    /\ v \in Config
    /\ \A c \in Named(cfg) : c[1] # Last(v).label => c \in Named(v)
LEMMA AddedFacts ==
  ASSUME NEW cfg \in Config, NEW l \in Labels, NEW q \in Peers, NEW k \in Keys,
         NEW v, v = Append(Pick(cfg, {i \in DOMAIN cfg : cfg[i].label # l}),
                           Channel(l, q, k, "manual"))
  PROVE  Adds(cfg, v)
<1> DEFINE at == {i \in DOMAIN cfg : cfg[i].label # l}
           old == Pick(cfg, at)
           ch == Channel(l, q, k, "manual")
<1>1. at \in SUBSET Nat /\ IsFiniteSet(at) /\ at \subseteq DOMAIN cfg
  <2>1. Len(cfg) \in Nat /\ DOMAIN cfg = 1..Len(cfg)
    BY ConfigFacts
  <2>2. IsFiniteSet(1..Len(cfg)) /\ at \in SUBSET (1..Len(cfg))
    BY <2>1, FS_Interval
  <2> QED
    BY <2>1, <2>2, FS_Subset
<1>2. \A i \in at : cfg[i] \in Channels
  BY <1>1, ConfigFacts
<1>3. ch \in Channels /\ ch.label = l
  BY DEF Channel, Channels, Names
<1>4. \A i \in DOMAIN cfg : cfg[i].label # l => i \in at
  OBVIOUS
<1>5. v = Append(old, ch)
  OBVIOUS
<1> HIDE DEF at, ch
<1>6. old \in Seq(Channels) /\ \A i \in at : \E n \in DOMAIN old : old[n] = cfg[i]
  BY <1>1, <1>2, PickFacts
<1> HIDE DEF old
<1>7. v \in Config /\ Last(v) = ch
  <2>1. ch \in Channels /\ old \in Seq(Channels) /\ Len(old) \in Nat
    BY <1>3, <1>6
  <2>2. v \in Seq(Channels)
    BY <1>5, <2>1, AppendProperties
  <2>3. Len(v) = Len(old) + 1
    BY <1>5, <2>1
  <2>4. v[Len(old) + 1] = ch
    BY <1>5, <2>1
  <2> QED
    BY <2>2, <2>3, <2>4 DEF Config, Last
<1>8. \A n \in DOMAIN old : n \in DOMAIN v /\ v[n] = old[n]
  BY <1>3, <1>5, <1>6
<1>9. ASSUME NEW i \in DOMAIN cfg, cfg[i].label # l
      PROVE  <<cfg[i].label, cfg[i].key>> \in Named(v)
  <2>1. PICK n \in DOMAIN old : old[n] = cfg[i]
    BY <1>4, <1>6, <1>9
  <2> QED
    BY <1>8, <2>1 DEF Named
<1>10. ASSUME NEW c \in Named(cfg), c[1] # Last(v).label PROVE c \in Named(v)
  <2>1. PICK i \in DOMAIN cfg : c = <<cfg[i].label, cfg[i].key>>
    BY DEF Named
  <2>2. cfg[i].label # l
    BY <1>3, <1>7, <1>10, <2>1
  <2> QED
    BY <1>9, <2>1, <2>2
<1> QED
  BY <1>7, <1>10 DEF Adds

\* The lanes of a flush: those of the entries that wait, once each.
Serves(taken, key, todo) ==
    /\ todo \in Seq(Keys) /\ todo # <<>>
    /\ \A n \in DOMAIN todo : \E i \in taken : key[i] = todo[n]
    /\ \A m, n \in DOMAIN todo : todo[m] = todo[n] => m = n
LEMMA LanesFacts ==
  ASSUME NEW taken \in SUBSET Nat, IsFiniteSet(taken), taken # {},
         NEW key, \A i \in taken : key[i] \in Keys,
         NEW todo, todo = Pick(key, {i \in taken : \A j \in taken : j < i => key[j] # key[i]})
  PROVE  Serves(taken, key, todo)
<1> DEFINE at == {i \in taken : \A j \in taken : j < i => key[j] # key[i]}
<1>1. at \in SUBSET Nat /\ IsFiniteSet(at) /\ at \subseteq taken
  BY FS_Subset
<1>2. \A i, j \in at : key[i] = key[j] => i = j
  <2> SUFFICES ASSUME NEW i \in at, NEW j \in at, key[i] = key[j], i # j
               PROVE  FALSE
    OBVIOUS
  <2>1. i \in Nat /\ j \in Nat
    OBVIOUS
  <2>2. i < j \/ j < i
    BY <2>1
  <2> QED
    BY <2>2
<1>3. Min(taken) \in at
  <2>1. Min(taken) \in taken /\ \A j \in taken : ~ (j < Min(taken))
    BY FirstPosition
  <2> QED
    BY <2>1
<1> HIDE DEF at
<1>4. todo = Pick(key, at)
  BY DEF at
<1>5. /\ todo \in Seq(Keys)
      /\ \A n \in DOMAIN todo : \E i \in at : todo[n] = key[i]
      /\ \A i \in at : \E n \in DOMAIN todo : todo[n] = key[i]
      /\ \A m, n \in DOMAIN todo : todo[m] = todo[n] => m = n
  <2> DEFINE P == Pick(key, at)
  <2>1. \A i \in at : key[i] \in Keys
    BY <1>1
  <2>2. /\ \A n \in DOMAIN P : \E i \in at : P[n] = key[i]
        /\ \A i \in at : \E n \in DOMAIN P : P[n] = key[i]
        /\ \A T : (\A i \in at : key[i] \in T) => P \in Seq(T)
        /\ (\A i, j \in at : key[i] = key[j] => i = j) =>
               \A m, n \in DOMAIN P : P[m] = P[n] => m = n
    BY <1>1, PickFacts
  <2> HIDE DEF P
  <2>3. P \in Seq(Keys)
    BY <2>1, <2>2, Zenon
  <2>4. todo = P
    BY <1>4 DEF P
  <2> QED
    BY <1>2, <2>2, <2>3, <2>4, Zenon
<1>6. todo # <<>>
  <2>1. PICK n \in DOMAIN todo : todo[n] = key[Min(taken)]
    BY <1>3, <1>5
  <2> QED
    BY <2>1
<1>7. ASSUME NEW n \in DOMAIN todo PROVE \E i \in taken : key[i] = todo[n]
  <2>1. PICK i \in at : todo[n] = key[i]
    BY <1>5
  <2> QED
    BY <1>1, <2>1
<1> QED
  BY <1>5, <1>6, <1>7 DEF Serves

-----------------------------------------------------------------------------
(***************************************************************************)
(* Types, and what a process has pending.                                  *)
(***************************************************************************)

USE DEF Underway

\* The fields of a process.
LEMMA ProcessFacts ==
  ASSUME TInv, NEW p \in Procs
  PROVE  /\ proc[p] \in Process /\ Control(proc[p])
         /\ proc[p].cfg \in Config /\ proc[p].cursors \in Cursors /\ proc[p].box \in Box
         /\ proc[p].writes \in Seq(Writes) /\ proc[p].todo \in Seq(Keys \cup {NoKey})
         /\ proc[p].batch \in Seq(0..MaxRuns) /\ proc[p].index \in Nat
         /\ proc[p].attempt \in Nat
         /\ proc[p].loaded \in SUBSET Files /\ proc[p].found \in SUBSET (Keys \X Nat)
<1>1. proc[p] \in Process /\ Control(proc[p])
  BY DEF TInv
<1> QED
  BY <1>1 DEF Process

LEMMA FieldsOfProcess ==
  ASSUME NEW me \in Process
  PROVE  DOMAIN me = {"at", "cmd", "cfg", "cursors", "box", "loaded", "writes", "todo",
                      "batch", "index", "attempt", "found", "fd"}
BY DEF Process

\* A file that is not torn can be loaded.
LEMMA DiskFacts ==
  ASSUME TInv
  PROVE  /\ disk.config # Torn => disk.config \in Config
         /\ disk.cursors # Torn => disk.cursors \in Cursors
         /\ disk.outbox # Torn => disk.outbox \in Box
BY DEF TInv, Disk

\* A process that waits for nothing has nothing to write.
LEMMA IdleOK == Idle \in Process /\ Control(Idle)
<1>1. <<>> \in Config /\ <<>> \in Box /\ <<>> \in Seq(Writes) /\ <<>> \in Seq(0..MaxRuns)
      /\ <<>> \in Seq(Keys \cup {NoKey}) /\ [k \in Keys |-> 0] \in Cursors
  BY DEF Config, Box, Cursors
<1>2. Idle \in Process
  BY <1>1 DEF Idle, Process
<1>3. Control(Idle)
  BY DEF Idle, Control, Sends
<1> QED
  BY <1>2, <1>3

\* A step of one process that leaves the rest typed.
LEMMA StepTyped ==
  ASSUME TInv, NEW p \in Procs, NEW r \in Process, Control(r), Becomes(p, r),
         disk' \in Disk, tmp' \in {"none", "partial", "whole"},
         lane' \in [Keys -> Seq(Posts)], opened' \subseteq Keys, IsFiniteSet(opened'),
         lost' \subseteq Transactions,
         runs' \in 0..MaxRuns, posts' \in Nat, tears' \in Nat,
         queued' \subseteq Ids, raced' \subseteq Files
  PROVE  TInv'
<1>1. proc' \in [Procs -> Process]
  BY DEF TInv, Becomes
<1>2. \A q \in Procs : Control(proc'[q])
  <2> TAKE q \in Procs
  <2>1. proc'[q] = r \/ proc'[q] = proc[q]
    BY DEF TInv, Becomes
  <2> QED
    BY <2>1, ProcessFacts
<1> QED
  BY <1>1, <1>2 DEF TInv

LEMMA GoesTyped ==
  ASSUME TInv, NEW p \in Procs, NEW r \in Process, Control(r), Goes(p, r)
  PROVE  TInv'
BY StepTyped DEF TInv, Goes, chain, bounds, ghosts

\* A command starts with a fresh copy of its files.
LEMMA StartsTyped ==
  ASSUME TInv, NEW p \in Procs, NEW r \in Process, Control(r), Starts(p, r)
  PROVE  TInv'
<1>1. runs' \in 0..MaxRuns
  BY FilesAssumption DEF TInv, Starts
<1> QED
  BY <1>1, StepTyped DEF TInv, Starts, chain, ghosts

LEMMA LoadsTyped ==
  ASSUME TInv, NEW p \in Procs, NEW files \in SUBSET Files, NEW r \in Process, Control(r),
         Loads(p, files, r)
  PROVE  TInv'
<1> DEFINE new == [r EXCEPT !.loaded = files]
<1>1. new \in Process
  BY DEF Process
<1>2. Control(new)
  <2>1. \A f \in {"at", "cmd", "cfg", "cursors", "box", "writes", "todo", "batch",
                  "index", "attempt", "found", "fd"} : new[f] = r[f]
    BY DEF Process
  <2> QED
    BY <2>1 DEF Control, WriteOK
<1>3. Starts(p, new)
  BY DEF Loads
<1> QED
  BY <1>1, <1>2, <1>3, StartsTyped

LEMMA InitTyped == Init => TInv
<1> SUFFICES ASSUME Init PROVE TInv
  OBVIOUS
<1>1. PICK cfg \in Setups : disk = [config |-> cfg, cursors |-> [k \in Keys |-> 0],
                                    outbox |-> <<>>, sync |-> "whole"]
  BY DEF Init
<1>2. cfg \in Config
  <2>1. CASE cfg = <<>>
    BY <2>1 DEF Config
  <2>2. ASSUME NEW l \in Labels, NEW p \in Peers, cfg = <<Channel(l, p, Out(p), "manual")>>
        PROVE  cfg \in Config
    <3>1. Channel(l, p, Out(p), "manual") \in Channels
      BY DEF Channel, Channels, Names, Keys
    <3> QED
      BY <2>2, <3>1 DEF Config
  <2> QED
    BY <2>1, <2>2 DEF Setups
<1>3. disk \in Disk
  BY <1>1, <1>2 DEF Disk, Cursors, Box
<1>4. proc \in [Procs -> Process] /\ \A p \in Procs : Control(proc[p])
  BY IdleOK DEF Init
<1>5. lane \in [Keys -> Seq(Posts)] /\ IsFiniteSet(opened)
  BY FS_EmptySet DEF Init
<1>6. /\ tmp = "none" /\ opened = {} /\ lost = {} /\ runs = 0 /\ posts = 0 /\ tears = 0
      /\ queued = {} /\ raced = {}
  BY DEF Init
<1>7. 0 \in 0..MaxRuns
  BY FilesAssumption
<1> QED
  BY <1>3, <1>4, <1>5, <1>6, <1>7 DEF TInv

\* The commands.
LEMMA CommandTyped ==
  ASSUME TInv, NEW p \in Procs, Commands(p)
  PROVE  TInv'
<1> USE IdleOK
<1>0. \A f, v : <<f, v>> \in Writes =>
          /\ <<<<f, v>>>> \in Seq(Writes)
          /\ DOMAIN <<<<f, v>>>> = {1} /\ <<<<f, v>>>>[1] = <<f, v>>
  OBVIOUS
<1>1. CASE InitConfig(p)
  <2> DEFINE r == [Idle EXCEPT !.at = "done", !.cmd = "init", !.loaded = {"config"},
                               !.writes = <<<<"config", <<>>>>>>]
  <2>0. <<>> \in Config
    BY DEF Config
  <2>1. <<"config", <<>>>> \in Writes
    BY <2>0 DEF Writes
  <2>2. r \in Process
    BY <1>0, <2>1 DEF Process, Files
  <2>3. Control(r)
    BY <1>0, <2>1 DEF Control, WriteOK, Idle, Sends
  <2> QED
    BY <1>1, <2>2, <2>3, StartsTyped DEF InitConfig
<1>2. CASE StartFlush(p)
  <2> DEFINE taken == QueuedAt(disk.outbox)
             key == [i \in taken |-> KeyOf(disk.config, disk.outbox[i].to)]
             todo == Pick(key, {i \in taken : \A j \in taken : j < i => key[j] # key[i]})
             r == [Idle EXCEPT !.at = "seal", !.cmd = "flush",
                       !.cfg = disk.config, !.cursors = disk.cursors,
                       !.box = disk.outbox, !.todo = todo]
  <2>1. /\ disk.config \in Config /\ disk.cursors \in Cursors /\ disk.outbox \in Box
        /\ taken # {} /\ \A i \in taken : Resolves(disk.config, disk.outbox[i].to)
        /\ Loads(p, {"config", "outbox", "cursors"}, r)
    BY <1>2, DiskFacts DEF StartFlush, Loads
  <2>2. todo \in Seq(Keys) /\ todo # <<>>
    <3>1. taken \in SUBSET Nat /\ IsFiniteSet(taken)
      BY <2>1, BoxFacts
    <3>2. \A i \in taken : key[i] \in Keys
      BY <2>1, ResolveFacts
    <3> HIDE DEF key, taken
    <3>3. Serves(taken, key, todo)
      BY <2>1, <3>1, <3>2, LanesFacts
    <3> QED
      BY <3>3 DEF Serves
  <2> HIDE DEF todo
  <2>3. todo \in Seq(Keys \cup {NoKey})
    BY <2>2
  <2>4. r \in Process
    BY <2>1, <2>3 DEF Process, Sends
  <2>5. Control(r)
    BY <2>1, <2>2 DEF Control, Idle, Sends
  <2> QED
    BY <2>1, <2>4, <2>5, LoadsTyped DEF Files
<1>3. CASE StartRead(p)
  <2> DEFINE todo == KeysOf(disk.config)
             r == [Idle EXCEPT !.at = "read", !.cmd = "read",
                       !.cursors = disk.cursors, !.todo = todo]
  <2>1. /\ disk.config \in Config /\ disk.cursors \in Cursors
        /\ Loads(p, {"config", "cursors"}, r)
    BY <1>3, DiskFacts DEF StartRead, Loads
  <2>2. todo \in Seq(Keys)
    <3>1. DOMAIN disk.config = 1..Len(disk.config) /\ Len(disk.config) \in Nat
      BY <2>1, ConfigFacts
    <3>2. todo \in [1..Len(disk.config) -> Keys]
      BY <2>1, <3>1, ConfigFacts DEF KeysOf
    <3> QED
      BY <3>1, <3>2
  <2> HIDE DEF todo
  <2>3. todo \in Seq(Keys \cup {NoKey})
    BY <2>2
  <2>4. r \in Process
    BY <2>1, <2>3 DEF Process
  <2>5. Control(r)
    BY <2>1, <2>2 DEF Control, Idle, Sends
  <2> QED
    BY <2>1, <2>4, <2>5, LoadsTyped DEF Files
<1>4. ASSUME NEW cmd \in {"discover", "sync"}, StartScan(p, cmd)
      PROVE  TInv'
  <2> DEFINE r == [Idle EXCEPT !.at = "scan", !.cmd = cmd, !.cfg = disk.config]
  <2>1. disk.config \in Config /\ Loads(p, {"config"}, r)
    BY <1>4, DiskFacts DEF StartScan, Loads
  <2>2. r \in Process
    BY <2>1 DEF Process
  <2>3. Control(r)
    BY <2>1 DEF Control, Idle, Sends
  <2> QED
    BY <2>1, <2>2, <2>3, LoadsTyped DEF Files
<1>5. ASSUME NEW l \in Labels, NEW q \in Peers, NEW k \in Keys, AddChannel(p, l, q, k)
      PROVE  TInv'
  <2> DEFINE v == Append(Pick(disk.config, {i \in DOMAIN disk.config :
                                                disk.config[i].label # l}),
                         Channel(l, q, k, "manual"))
             r == [Idle EXCEPT !.at = "done", !.cmd = "add",
                               !.writes = <<<<"config", v>>>>]
  <2>1. disk.config \in Config /\ Loads(p, {"config"}, r)
    BY <1>5, DiskFacts DEF AddChannel, Loads
  <2>2. v \in Config
    BY <2>1, AddedFacts DEF Adds
  <2> HIDE DEF v
  <2>3. <<"config", v>> \in Writes
    BY <2>2 DEF Writes
  <2>4. r \in Process
    BY <1>0, <2>3 DEF Process
  <2>5. Control(r)
    BY <1>0, <2>3 DEF Control, WriteOK, Idle, Sends
  <2> QED
    BY <2>1, <2>4, <2>5, LoadsTyped DEF Files
<1>6. ASSUME NEW to \in Labels \cup Peers, Queue(p, to)
      PROVE  TInv'
  <2> DEFINE v == Append(disk.outbox, [id |-> runs + 1, to |-> to, status |-> "queued"])
             r == [Idle EXCEPT !.at = "queued", !.index = runs + 1,
                               !.writes = <<<<"outbox", v>>>>]
  <2>1. /\ disk.outbox \in Box /\ Loads(p, {"config", "outbox"}, r)
        /\ runs + 1 \in Ids
    BY <1>6, DiskFacts, FilesAssumption DEF Queue, Loads, Starts, TInv, Ids
  <2>2. v \in Box
    <3>1. [id |-> runs + 1, to |-> to, status |-> "queued"] \in Entries
      BY <2>1 DEF Entries, Statuses, Names
    <3> QED
      BY <2>1, <3>1, AppendProperties DEF Box
  <2> HIDE DEF v
  <2>3. <<"outbox", v>> \in Writes
    BY <2>2 DEF Writes
  <2>4. r \in Process
    <3>1. runs + 1 \in Nat /\ <<<<"outbox", v>>>> \in Seq(Writes)
      BY <1>0, <2>1, <2>3 DEF Ids
    <3> QED
      BY <3>1 DEF Process
  <2>5. Control(r)
    BY <1>0, <2>1, <2>3 DEF Control, WriteOK, Idle, Sends
  <2> QED
    BY <2>1, <2>4, <2>5, LoadsTyped DEF Files
<1>7. ASSUME NEW to \in Labels \cup Peers, NEW cmd \in {"send", "pay"}, StartSend(p, cmd, to)
      PROVE  TInv'
  <2> DEFINE k == KeyOf(disk.config, to)
             r == [Idle EXCEPT !.at = "seal", !.cmd = cmd, !.cfg = disk.config,
                               !.cursors = disk.cursors, !.todo = <<k>>]
  <2>1. /\ disk.config \in Config /\ disk.cursors \in Cursors
        /\ Resolves(disk.config, to) /\ Loads(p, {"config", "cursors"}, r)
    BY <1>7, DiskFacts DEF StartSend, Loads
  <2>2. k \in Keys
    BY <2>1, ResolveFacts
  <2> HIDE DEF k
  <2>3. r \in Process
    <3>1. cmd \in Sends /\ <<k>> \in Seq(Keys \cup {NoKey})
      BY <2>2 DEF Sends
    <3> QED
      BY <2>1, <3>1 DEF Process
  <2>4. Control(r)
    BY <2>1, <2>2 DEF Control, Idle, Sends
  <2> QED
    BY <2>1, <2>3, <2>4, LoadsTyped DEF Files
<1> QED
  BY <1>1, <1>2, <1>3, <1>4, <1>5, <1>6, <1>7 DEF Commands

\* What is next to be written, and what is left after it.
LEMMA PendingFacts ==
  ASSUME TInv, NEW p \in Procs, proc[p].writes # <<>>
  PROVE  LET w == proc[p].writes
             f == Head(w)[1]
             v == Head(w)[2]
         IN  /\ 1 \in DOMAIN w /\ w[1] = Head(w) /\ Head(w) = <<f, v>>
             /\ WriteOK(proc[p], Head(w))
             /\ f \in {"config", "cursors", "outbox"}
             /\ f = "config" => v \in Config
             /\ f = "cursors" => v \in Cursors
             /\ f = "outbox" => v \in Box
             /\ Tail(w) \in Seq(Writes)
             /\ \A n \in DOMAIN Tail(w) : /\ n + 1 \in DOMAIN w /\ Tail(w)[n] = w[n + 1]
                                          /\ Tail(w)[n][1] # f
<1> DEFINE w == proc[p].writes
<1>1. w \in Seq(Writes) /\ w # <<>> /\ Control(proc[p])
  BY ProcessFacts
<1> HIDE DEF w
<1>2. 1 \in DOMAIN w /\ w[1] = Head(w) /\ Head(w) \in Writes
  BY <1>1
<1>3. /\ Head(w) = <<Head(w)[1], Head(w)[2]>>
      /\ Head(w)[1] \in {"config", "cursors", "outbox"}
      /\ Head(w)[1] = "config" => Head(w)[2] \in Config
      /\ Head(w)[1] = "cursors" => Head(w)[2] \in Cursors
      /\ Head(w)[1] = "outbox" => Head(w)[2] \in Box
  BY <1>2 DEF Writes
<1>4. Tail(w) \in Seq(Writes) /\ \A n \in DOMAIN Tail(w) :
          n \in Nat /\ n # 0 /\ n + 1 \in DOMAIN w /\ Tail(w)[n] = w[n + 1]
  BY <1>1, HeadTailProperties
<1>5. /\ \A n \in DOMAIN w : WriteOK(proc[p], w[n])
      /\ \A m, n \in DOMAIN w : w[m][1] = w[n][1] => m = n
  BY <1>1 DEF Control, w
<1>6. \A n \in DOMAIN Tail(w) : Tail(w)[n][1] # Head(w)[1]
  BY <1>2, <1>4, <1>5
<1>7. WriteOK(proc[p], Head(w))
  BY <1>2, <1>5
<1> QED
  BY <1>2, <1>3, <1>4, <1>6, <1>7 DEF w

\* One file written in place.
LEMMA WriteTyped ==
  ASSUME TInv, NEW p \in Procs, Write(p)
  PROVE  TInv'
<1> DEFINE w == proc[p].writes
           f == Head(w)[1]
           v == Head(w)[2]
           r == [proc[p] EXCEPT !.writes = Tail(@), !.loaded = @ \cup {f}]
<1>1. /\ w # <<>> /\ disk' = [disk EXCEPT ![f] = v] /\ proc' = Saved(p, f)
      /\ raced' = IF f \in proc[p].loaded THEN raced ELSE raced \cup {f}
      /\ UNCHANGED <<tmp, lane, opened, lost, runs, posts, tears, queued>>
  BY DEF Write, chain, bounds
<1>2. /\ f \in {"config", "cursors", "outbox"}
      /\ f = "config" => v \in Config
      /\ f = "cursors" => v \in Cursors
      /\ f = "outbox" => v \in Box
      /\ Tail(w) \in Seq(Writes)
      /\ \A n \in DOMAIN Tail(w) : n + 1 \in DOMAIN w /\ Tail(w)[n] = w[n + 1]
  BY <1>1, PendingFacts
<1>3. disk' \in Disk
  <2>1. disk \in Disk
    BY DEF TInv
  <2> QED
    BY <1>1, <1>2, <2>1 DEF Disk
<1>4. proc[p] \in Process /\ Control(proc[p])
  BY ProcessFacts
<1>5. r \in Process
  BY <1>2, <1>4 DEF Process, Files
<1>6. Control(r)
  <2>1. r.writes = Tail(w) /\ \A g \in {"at", "cmd", "cfg", "cursors", "box", "todo",
            "batch", "index", "attempt", "found", "fd"} : r[g] = proc[p][g]
    BY <1>4 DEF Process
  <2>2. \A n \in DOMAIN w : WriteOK(proc[p], w[n])
    BY <1>4 DEF Control
  <2>3. \A n \in DOMAIN Tail(w) : WriteOK(r, Tail(w)[n])
    BY <1>2, <2>1, <2>2 DEF WriteOK
  <2>4. \A m, n \in DOMAIN Tail(w) : Tail(w)[m][1] = Tail(w)[n][1] => m = n
    <3>1. \A m, n \in DOMAIN w : w[m][1] = w[n][1] => m = n
      BY <1>4 DEF Control
    <3> SUFFICES ASSUME NEW m \in DOMAIN Tail(w), NEW n \in DOMAIN Tail(w),
                        Tail(w)[m][1] = Tail(w)[n][1]
                 PROVE  m = n
      OBVIOUS
    <3>2. m \in Int /\ n \in Int
      BY <1>2
    <3>2a. /\ m + 1 \in DOMAIN w /\ Tail(w)[m] = w[m + 1]
           /\ n + 1 \in DOMAIN w /\ Tail(w)[n] = w[n + 1]
      BY <1>2
    <3>3. m + 1 = n + 1
      <4> HIDE DEF w
      <4> QED
        BY <3>1, <3>2a
    <3> QED
      BY <3>2, <3>3
  <2> QED
    BY <1>4, <2>1, <2>3, <2>4 DEF Control
<1>7. \A q \in Procs : proc'[q] = IF q = p THEN r
                                  ELSE [proc[q] EXCEPT !.loaded = @ \ {f}]
  BY <1>1 DEF Saved
<1>8. ASSUME NEW q \in Procs, q # p
      PROVE  /\ [proc[q] EXCEPT !.loaded = @ \ {f}] \in Process
             /\ Control([proc[q] EXCEPT !.loaded = @ \ {f}])
  <2>1. proc[q] \in Process /\ Control(proc[q])
    BY ProcessFacts
  <2>2. [proc[q] EXCEPT !.loaded = @ \ {f}] \in Process
    BY <2>1 DEF Process
  <2>3. \A g \in {"at", "cmd", "cfg", "cursors", "box", "writes", "todo", "batch",
                  "index", "attempt", "found", "fd"} :
            [proc[q] EXCEPT !.loaded = @ \ {f}][g] = proc[q][g]
    BY <2>1 DEF Process
  <2> QED
    BY <2>1, <2>2, <2>3 DEF Control, WriteOK
<1>9. proc' \in [Procs -> Process] /\ \A q \in Procs : Control(proc'[q])
  <2>1. DOMAIN proc' = Procs /\ proc' = [q \in Procs |-> proc'[q]]
    BY <1>1 DEF Saved
  <2>2. \A q \in Procs : proc'[q] \in Process /\ Control(proc'[q])
    BY <1>5, <1>6, <1>7, <1>8
  <2> HIDE DEF r
  <2> QED
    BY <2>1, <2>2
<1>10. raced' \subseteq Files
  BY <1>1, <1>2 DEF TInv, Files
<1> QED
  BY <1>1, <1>3, <1>9, <1>10 DEF TInv

\* The transaction of a command on its way to the chain.
LEMMA TxFacts ==
  ASSUME TInv, NEW p \in Procs, proc[p].at \in Underway
  PROVE  /\ Tx(proc[p]) \in Transactions
         /\ Tx(proc[p]).key = Head(proc[p].todo) /\ Tx(proc[p]).index = proc[p].index
         /\ Tx(proc[p]).batch = proc[p].batch
<1>1. proc[p].todo \in Seq(Keys) /\ proc[p].todo # <<>>
  BY ProcessFacts DEF Control
<1>2. Head(proc[p].todo) \in Keys
  BY <1>1
<1> QED
  BY <1>2, ProcessFacts DEF Tx, Transactions

\* The transaction that a process still waits for.
Own(p) == IF proc[p].at \in Underway THEN {Tx(proc[p])} ELSE {}

\* What a command that ends leaves out.
LEMMA MayBeLostFacts ==
  ASSUME TInv, NEW p \in Procs, MayBeLost(p)
  PROVE  /\ lost' \subseteq Transactions
         /\ lost' \subseteq lost \cup Own(p)
         /\ \/ lost' = lost
            \/ /\ proc[p].at \in Underway /\ (proc[p].at = "sent" \/ At(p, "submit"))
               /\ lost' = lost \cup {Tx(proc[p])}
<1>1. CASE lost' = lost
  BY <1>1 DEF TInv
<1>2. CASE lost' # lost
  <2>1. /\ proc[p].at = "sent" \/ At(p, "submit")
        /\ lost' = lost \cup {Tx(proc[p])}
    BY <1>2 DEF MayBeLost
  <2>2. proc[p].at \in Underway
    BY <2>1 DEF Underway, At
  <2>3. Tx(proc[p]) \in Transactions
    BY <2>2, TxFacts
  <2> QED
    BY <2>1, <2>2, <2>3 DEF TInv, Own
<1> QED
  BY <1>1, <1>2

\* A command ends, by itself or not.
LEMMA EndsTyped ==
  ASSUME TInv, NEW p \in Procs, Done(p) \/ Ends(p) \/ Tear(p) \/ Queued(p) \/ PrintFound(p)
  PROVE  TInv'
<1>1. CASE Done(p)
  BY <1>1, GoesTyped, IdleOK DEF Done
<1>2. CASE Ends(p)
  <2>1. lost' \subseteq Transactions
    BY <1>2, MayBeLostFacts DEF Ends
  <2> QED
    BY <1>2, <2>1, StepTyped, IdleOK DEF Ends, TInv, bounds
<1>3. CASE Tear(p)
  <2>1. PICK f \in {"config", "cursors", "outbox", "sync"} : disk' = [disk EXCEPT ![f] = Torn]
    <3>1. CASE proc[p].fd = "sync"
      BY <1>3, <3>1 DEF Tear
    <3>2. CASE proc[p].fd # "sync"
      BY <1>3, <3>2, PendingFacts DEF Tear
    <3> QED
      BY <3>1, <3>2
  <2>2. disk' \in Disk
    BY <2>1 DEF TInv, Disk
  <2>3. tears' \in Nat
    BY <1>3 DEF Tear, TInv
  <2>4. lost' \subseteq Transactions
    BY <1>3, MayBeLostFacts DEF Tear
  <2> QED
    BY <1>3, <2>2, <2>3, <2>4, StepTyped, IdleOK DEF Tear, TInv, ghosts
<1>4. CASE Queued(p)
  <2>1. proc[p].index \in Ids
    BY <1>4, ProcessFacts DEF Queued, At, Control
  <2> QED
    BY <1>4, <2>1, StepTyped, IdleOK DEF Queued, TInv, chain, bounds
<1>5. CASE PrintFound(p)
  BY <1>5, StepTyped, IdleOK DEF PrintFound, TInv, chain, bounds
<1> QED
  BY <1>1, <1>2, <1>3, <1>4, <1>5

\* Discovery and sync.
LEMMA SyncTyped ==
  ASSUME TInv, NEW p \in Procs,
         \/ Discovered(p) \/ DiscoverySkipped(p) \/ \E full \in BOOLEAN : StartEngine(p, full)
         \/ OpenTmp(p) \/ FillTmp(p) \/ RenameTmp(p)
  PROVE  TInv'
<1> DEFINE me == proc[p]
<1>0. /\ me \in Process /\ Control(me)
      /\ me.cfg \in Config /\ me.todo \in Seq(Keys \cup {NoKey})
  BY ProcessFacts
<1>1. CASE Discovered(p)
  <2> DEFINE cfg == Merged(me.cfg, Scan)
             at == IF me.cmd # "sync" THEN "done"
                   ELSE IF cfg # me.cfg THEN "reload" ELSE "engine"
             ws == IF cfg # me.cfg THEN <<<<"config", cfg>>>> ELSE <<>>
             r == [me EXCEPT !.at = at, !.writes = ws]
  <2>1. cfg \in Config
    BY <1>0, MergedFacts, ScanFacts DEF TInv
  <2>2. /\ At(p, "scan") /\ Goes(p, r)
        /\ me.cmd \in {"discover", "sync"} /\ me.fd = "none" /\ me.found = {}
        /\ me.box = <<>>
    BY <1>0, <1>1 DEF Discovered, At, Control, Process
  <2> HIDE DEF cfg
  <2>3. ws \in Seq(Writes)
    <3>1. <<"config", cfg>> \in Writes
      BY <2>1 DEF Writes
    <3> QED
      BY <3>1
  <2>4. /\ ws # <<>> => at \in {"done", "reload"} /\ ws = <<<<"config", cfg>>>>
        /\ at \in {"done", "reload", "engine"}
    OBVIOUS
  <2> HIDE DEF at, ws
  <2>5. r \in Process
    BY <1>0, <2>3, <2>4 DEF Process
  <2>6. Control(r)
    <3>1. /\ r.at = at /\ r.writes = ws /\ r.cmd \in {"discover", "sync"}
          /\ r.fd = "none" /\ r.found = {} /\ r.box = <<>>
      BY <1>0, <2>2 DEF Process
    <3>2. \A n \in DOMAIN ws : n = 1 /\ ws[1] = <<"config", cfg>> /\ at \in {"done", "reload"}
      BY <2>4
    <3> QED
      BY <2>4, <3>1, <3>2 DEF Control, WriteOK, Sends
  <2> QED
    BY <2>2, <2>5, <2>6, GoesTyped
<1>2. CASE DiscoverySkipped(p)
  <2> DEFINE r == [me EXCEPT !.at = "engine"]
  <2>1. At(p, "scan") /\ Goes(p, r)
    BY <1>2 DEF DiscoverySkipped
  <2>2. r \in Process
    BY <1>0 DEF Process
  <2>2a. Control(r)
    BY <1>0, <2>1 DEF Process, Control, At
  <2> QED
    BY <2>1, <2>2, <2>2a, GoesTyped
<1>3. ASSUME NEW full \in BOOLEAN, StartEngine(p, full)
      PROVE  TInv'
  <2>1. PICK cfg \in Config : /\ me.at \in {"engine", "reload"} /\ me.writes = <<>>
                              /\ LanesOf(p, cfg, full)
    BY <1>0, <1>3, DiskFacts DEF StartEngine, At
  <2> DEFINE todo == (IF full THEN <<NoKey>> ELSE <<>>) \o Append(KeysOf(cfg), NoKey)
             r == [me EXCEPT !.at = "window", !.todo = todo]
  <2>2. KeysOf(cfg) \in Seq(Keys \cup {NoKey})
    <3>1. DOMAIN cfg = 1..Len(cfg) /\ Len(cfg) \in Nat
      BY ConfigFacts
    <3>2. KeysOf(cfg) \in [1..Len(cfg) -> Keys \cup {NoKey}]
      BY <3>1, ConfigFacts DEF KeysOf
    <3> QED
      BY <3>1, <3>2
  <2>3. /\ Append(KeysOf(cfg), NoKey) \in Seq(Keys \cup {NoKey})
        /\ Len(Append(KeysOf(cfg), NoKey)) > 0
    BY <2>2, AppendProperties, LenProperties
  <2>4. todo \in Seq(Keys \cup {NoKey}) /\ todo # <<>>
    <3> DEFINE a == IF full THEN <<NoKey>> ELSE <<>>
               b == Append(KeysOf(cfg), NoKey)
    <3>0. a = <<NoKey>> \/ a = <<>>
      OBVIOUS
    <3>1. a \in Seq(Keys \cup {NoKey}) /\ b \in Seq(Keys \cup {NoKey}) /\ Len(b) > 0
      <4> HIDE DEF a
      <4>1. a \in Seq(Keys \cup {NoKey})
        <5> DEFINE S == Keys \cup {NoKey}
        <5>1. NoKey \in S
          OBVIOUS
        <5> HIDE DEF S
        <5>2. <<>> \in Seq(S) /\ <<NoKey>> \in Seq(S)
          BY <5>1
        <5> QED
          BY <3>0, <5>2 DEF S
      <4> QED
        BY <2>3, <4>1
    <3> HIDE DEF a, b
    <3>2. a \o b \in Seq(Keys \cup {NoKey}) /\ Len(a \o b) = Len(a) + Len(b) /\ Len(a) \in Nat
      BY <3>1, ConcatProperties, LenProperties
    <3>3. a \o b # <<>>
      BY <3>1, <3>2
    <3> QED
      BY <3>2, <3>3 DEF a, b
  <2> HIDE DEF todo
  <2>5. r \in Process
    BY <1>0, <2>4 DEF Process
  <2>6. Control(r)
    BY <1>0, <2>1, <2>4 DEF Process, Control
  <2>7. Goes(p, r)
    BY <2>1 DEF LanesOf, todo
  <2> QED
    BY <2>5, <2>6, <2>7, GoesTyped
<1>4. CASE OpenTmp(p)
  <2> DEFINE r == [me EXCEPT !.at = "fill", !.fd = "tmp"]
  <2>1. At(p, "window") /\ Becomes(p, r)
    BY <1>4 DEF OpenTmp
  <2>2. r \in Process
    BY <1>0 DEF Process
  <2>2a. Control(r)
    BY <1>0, <2>1 DEF Process, Control, At
  <2>3. raced' \subseteq Files /\ tmp' = "partial"
    BY <1>4 DEF OpenTmp, TInv, Files
  <2> QED
    BY <1>4, <2>1, <2>2, <2>2a, <2>3, StepTyped DEF OpenTmp, TInv, chain, bounds
<1>5. CASE FillTmp(p)
  <2> DEFINE r == [me EXCEPT !.at = "rename", !.fd = "none"]
  <2>1. At(p, "fill") /\ Becomes(p, r)
    BY <1>5 DEF FillTmp
  <2>2. r \in Process
    BY <1>0 DEF Process
  <2>2a. Control(r)
    BY <1>0, <2>1 DEF Process, Control, At
  <2>3. disk' \in Disk /\ tmp' \in {"none", "partial", "whole"}
    BY <1>5 DEF FillTmp, TInv, Disk
  <2> QED
    BY <1>5, <2>1, <2>2, <2>2a, <2>3, StepTyped DEF FillTmp, TInv, chain, bounds, ghosts
<1>6. CASE RenameTmp(p)
  <2> DEFINE r == [me EXCEPT !.todo = Tail(@),
                             !.at = IF Len(me.todo) = 1 THEN "done" ELSE "window"]
  <2>1. At(p, "rename") /\ \A q \in Procs :
            proc'[q] = IF q = p THEN r
                       ELSE IF proc[q].fd = "tmp" THEN [proc[q] EXCEPT !.fd = "sync"]
                       ELSE proc[q]
    BY <1>6 DEF RenameTmp
  <2>2. me.todo # <<>> /\ me.fd = "none" /\ me.found = {} /\ me.at = "rename" /\ me.writes = <<>>
    BY <1>0, <2>1 DEF Control, At, Process
  <2>3. /\ Tail(me.todo) \in Seq(Keys \cup {NoKey})
        /\ Len(me.todo) # 1 => Tail(me.todo) # <<>>
    <3>1. Tail(me.todo) \in Seq(Keys \cup {NoKey}) /\ Len(Tail(me.todo)) = Len(me.todo) - 1
      BY <1>0, <2>2, HeadTailProperties, Zenon
    <3>2. Len(me.todo) \in Nat
      BY <1>0
    <3>3. Len(me.todo) # 1 => Len(Tail(me.todo)) # 0
      BY <3>1, <3>2
    <3>4. Len(Tail(me.todo)) # 0 => Tail(me.todo) # <<>>
      BY EmptySeq, Zenon
    <3> QED
      BY <3>1, <3>3, <3>4, Zenon
  <2>4. r \in Process
    BY <1>0, <2>3 DEF Process
  <2>5. Control(r)
    <3>1. /\ r.todo = Tail(me.todo) /\ r.at = IF Len(me.todo) = 1 THEN "done" ELSE "window"
          /\ r.fd = "none" /\ r.found = {} /\ r.writes = <<>>
          /\ r.cmd = me.cmd /\ r.box = me.box
      BY <1>0, <2>2 DEF Process
    <3> QED
      BY <1>0, <2>3, <3>1 DEF Control
  <2>6. ASSUME NEW q \in Procs, q # p
        PROVE  proc'[q] \in Process /\ Control(proc'[q])
    <3>1. proc[q] \in Process /\ Control(proc[q])
      BY ProcessFacts
    <3>2. CASE proc[q].fd = "tmp"
      <4>1. proc'[q] = [proc[q] EXCEPT !.fd = "sync"]
        BY <2>1, <2>6, <3>2
      <4>2. proc[q].at = "fill"
        BY <3>1, <3>2 DEF Control
      <4> QED
        BY <3>1, <4>1, <4>2 DEF Process, Control, WriteOK
    <3>3. CASE proc[q].fd # "tmp"
      BY <2>1, <2>6, <3>1, <3>3
    <3> QED
      BY <3>2, <3>3
  <2>7. proc' \in [Procs -> Process] /\ \A q \in Procs : Control(proc'[q])
    <3>1. proc' = [q \in Procs |-> proc'[q]]
      BY <1>6 DEF RenameTmp
    <3>2. \A q \in Procs : proc'[q] \in Process /\ Control(proc'[q])
      BY <2>1, <2>4, <2>5, <2>6
    <3> HIDE DEF r
    <3> QED
      BY <3>1, <3>2
  <2>8. disk' \in Disk /\ tmp' = "none"
    BY <1>6 DEF RenameTmp, TInv, Disk
  <2> QED
    BY <1>6, <2>7, <2>8 DEF RenameTmp, TInv, chain, bounds, ghosts
<1> QED
  BY <1>1, <1>2, <1>3, <1>4, <1>5, <1>6

\* What is left to be written after a confirmation: outbox, configuration and
\* cursors, each at most once.
Left(box, cfg, cursors, a, b, ws) ==
    /\ ws \in Seq(Writes)
    /\ \A n \in DOMAIN ws : \/ a # <<>> /\ ws[n] = <<"outbox", box>>
                            \/ b # <<>> /\ ws[n] = <<"config", cfg>>
                            \/ ws[n] = <<"cursors", cursors>>
    /\ \A m, n \in DOMAIN ws : ws[m][1] = ws[n][1] => m = n
LEMMA ConfirmWrites ==
  ASSUME NEW box \in Box, NEW cfg \in Config, NEW cursors \in Cursors,
         NEW a \in {<<>>, <<<<"outbox", box>>>>}, NEW b \in {<<>>, <<<<"config", cfg>>>>},
         NEW ws, ws = a \o b \o <<<<"cursors", cursors>>>>
  PROVE  Left(box, cfg, cursors, a, b, ws)
<1> DEFINE x == <<"outbox", box>>
           y == <<"config", cfg>>
           z == <<"cursors", cursors>>
<1>0. ws = a \o b \o <<z>>
  OBVIOUS
<1>1. x \in Writes /\ y \in Writes /\ z \in Writes
  BY DEF Writes
<1>2. x[1] = "outbox" /\ y[1] = "config" /\ z[1] = "cursors"
  OBVIOUS
<1>3. a \in {<<>>, <<x>>} /\ b \in {<<>>, <<y>>}
  OBVIOUS
<1> HIDE DEF x, y, z
<1>4. a \in Seq(Writes) /\ b \in Seq(Writes) /\ <<z>> \in Seq(Writes)
  <2>1. <<>> \in Seq(Writes) /\ \A w \in Writes : <<w>> \in Seq(Writes)
    OBVIOUS
  <2> QED
    BY <1>1, <1>3, <2>1, Zenon
<1>5. a \o b \in Seq(Writes) /\ ws \in Seq(Writes)
  BY <1>0, <1>4, ConcatProperties
<1>6. /\ Len(a \o b) = Len(a) + Len(b)
      /\ \A i \in 1..(Len(a) + Len(b)) :
             (a \o b)[i] = IF i <= Len(a) THEN a[i] ELSE b[i - Len(a)]
  BY <1>4, ConcatProperties
<1>7. /\ Len(ws) = Len(a \o b) + Len(<<z>>)
      /\ \A i \in 1..(Len(a \o b) + Len(<<z>>)) :
             ws[i] = IF i <= Len(a \o b) THEN (a \o b)[i] ELSE <<z>>[i - Len(a \o b)]
  <2> DEFINE c == a \o b
             d == <<z>>
  <2>1. ws = c \o d /\ c \in Seq(Writes) /\ d \in Seq(Writes)
    BY <1>0, <1>4, <1>5
  <2> HIDE DEF c, d
  <2>2. /\ Len(c \o d) = Len(c) + Len(d)
        /\ \A i \in 1..(Len(c) + Len(d)) :
               (c \o d)[i] = IF i <= Len(c) THEN c[i] ELSE d[i - Len(c)]
    BY <2>1, ConcatProperties
  <2> QED
    BY <2>1, <2>2 DEF c, d
<1>8. Len(<<z>>) = 1 /\ <<z>>[1] = z
  OBVIOUS
<1>9. /\ a = <<>> => Len(a) = 0
      /\ a # <<>> => Len(a) = 1 /\ a[1] = x
      /\ b = <<>> => Len(b) = 0
      /\ b # <<>> => Len(b) = 1 /\ b[1] = y
  BY <1>3
<1>10. DOMAIN ws = 1..Len(ws)
  BY <1>5
<1>11. ASSUME NEW n \in DOMAIN ws
       PROVE  \/ a # <<>> /\ ws[n] = x /\ n = 1
              \/ b # <<>> /\ ws[n] = y /\ n = Len(a) + 1
              \/ ws[n] = z /\ n = Len(a) + Len(b) + 1
  <2>1. Len(a) \in {0, 1} /\ Len(b) \in {0, 1}
    BY <1>9
  <2>2. n \in Int /\ 1 <= n /\ n <= Len(a) + Len(b) + 1
    BY <1>6, <1>7, <1>8, <1>10, <2>1
  <2>3. CASE n = Len(a) + Len(b) + 1
    <3>1. ws[n] = <<z>>[n - Len(a \o b)]
      BY <1>6, <1>7, <1>8, <2>1, <2>2, <2>3
    <3> QED
      BY <1>6, <1>8, <2>1, <2>3, <3>1
  <2>4. CASE n # Len(a) + Len(b) + 1
    <3>1. ws[n] = IF n <= Len(a) THEN a[n] ELSE b[n - Len(a)]
      BY <1>6, <1>7, <1>8, <2>1, <2>2, <2>4
    <3>2. CASE n <= Len(a)
      <4>1. Len(a) = 1 /\ n = 1 /\ ws[n] = a[1]
        BY <2>1, <2>2, <3>1, <3>2
      <4> QED
        BY <1>9, <4>1
    <3>3. CASE ~ (n <= Len(a))
      <4>1. Len(b) = 1 /\ n = Len(a) + 1 /\ ws[n] = b[1]
        BY <2>1, <2>2, <2>4, <3>1, <3>3
      <4> QED
        BY <1>9, <4>1
    <3> QED
      BY <3>2, <3>3
  <2> QED
    BY <2>3, <2>4
<1>12. \A m, n \in DOMAIN ws : ws[m][1] = ws[n][1] => m = n
  <2> SUFFICES ASSUME NEW m \in DOMAIN ws, NEW n \in DOMAIN ws, ws[m][1] = ws[n][1]
               PROVE  m = n
    OBVIOUS
  <2> QED
    BY <1>2, <1>11
<1> QED
  BY <1>5, <1>11, <1>12 DEF Left, x, y, z

\* What a process that sends works on.
LEMMA SenderFacts ==
  ASSUME TInv, NEW p \in Procs, proc[p].at \in {"seal", "submit", "sent", "landed"}
  PROVE  LET me == proc[p] IN
         /\ me.cmd \in Sends /\ me.found = {} /\ me.fd = "none"
         /\ me.todo \in Seq(Keys) /\ me.todo # <<>>
         /\ Head(me.todo) \in Keys /\ 1 \in DOMAIN me.todo /\ me.todo[1] = Head(me.todo)
         /\ Tail(me.todo) \in Seq(Keys) /\ Len(Tail(me.todo)) = Len(me.todo) - 1
         /\ \A n \in DOMAIN Tail(me.todo) : n \in Nat /\ n + 1 \in DOMAIN me.todo
                                            /\ n + 1 # 1 /\ Tail(me.todo)[n] = me.todo[n + 1]
         /\ \A ids, status : me.cmd # "flush" => Marked(me.box, ids, status) = <<>>
<1> DEFINE me == proc[p]
           todo == me.todo
<1>1. /\ me.cmd \in Sends /\ me.found = {} /\ me.fd = "none"
      /\ todo \in Seq(Keys) /\ todo # <<>>
      /\ me.cmd # "flush" => me.box = <<>>
  BY ProcessFacts DEF Control
<1>2. \A ids, status : me.cmd # "flush" => Marked(me.box, ids, status) = <<>>
  BY <1>1 DEF Marked
<1> HIDE DEF todo
<1>3. Head(todo) \in Keys /\ 1 \in DOMAIN todo /\ todo[1] = Head(todo)
  BY <1>1
<1>4. /\ Tail(todo) \in Seq(Keys) /\ Len(Tail(todo)) = Len(todo) - 1
      /\ \A n \in 1..Len(Tail(todo)) : Tail(todo)[n] = todo[n + 1]
  BY <1>1, HeadTailProperties, Zenon
<1>5. \A n \in DOMAIN Tail(todo) : n \in Nat /\ n + 1 \in DOMAIN todo
                                   /\ n + 1 # 1 /\ Tail(todo)[n] = todo[n + 1]
  BY <1>1, <1>4
<1> QED
  BY <1>1, <1>2, <1>3, <1>4, <1>5 DEF todo

\* What a process has left to write after it confirmed.
LEMMA ConfirmLeft ==
  ASSUME TInv, NEW p \in Procs, Confirm(p)
  PROVE  LET me == proc[p]
             k == Head(me.todo)
             box == Marked(me.box, Range(me.batch), "confirmed")
             cfg == IF me.cmd = "pay" THEN me.cfg ELSE MarkSetup(me.cfg, k)
             cursors == [me.cursors EXCEPT ![k] = me.index + Len(me.batch)]
             a == IF me.cmd = "flush" THEN <<<<"outbox", box>>>> ELSE <<>>
             b == IF cfg # me.cfg THEN <<<<"config", cfg>>>> ELSE <<>>
         IN  /\ box \in Box /\ cfg \in Config /\ cursors \in Cursors
             /\ Left(box, cfg, cursors, a, b, a \o b \o <<<<"cursors", cursors>>>>)
<1> DEFINE me == proc[p]
           k == Head(me.todo)
           box == Marked(me.box, Range(me.batch), "confirmed")
           cfg == IF me.cmd = "pay" THEN me.cfg ELSE MarkSetup(me.cfg, k)
           cursors == [me.cursors EXCEPT ![k] = me.index + Len(me.batch)]
<1>0. /\ me.cfg \in Config /\ me.cursors \in Cursors /\ me.box \in Box
      /\ me.index \in Nat /\ me.batch \in Seq(0..MaxRuns) /\ k \in Keys
  BY ProcessFacts, SenderFacts DEF Confirm, At
<1>1. box \in Box /\ cfg \in Config
  BY <1>0, MarkedFacts, MarkSetupFacts DEF Statuses
<1>2. cursors \in Cursors
  BY <1>0 DEF Cursors
<1> HIDE DEF box, cfg, cursors
<1> DEFINE a == IF me.cmd = "flush" THEN <<<<"outbox", box>>>> ELSE <<>>
           b == IF cfg # me.cfg THEN <<<<"config", cfg>>>> ELSE <<>>
           ws == a \o b \o <<<<"cursors", cursors>>>>
<1>3. a \in {<<>>, <<<<"outbox", box>>>>} /\ b \in {<<>>, <<<<"config", cfg>>>>}
  OBVIOUS
<1>4. ws = a \o b \o <<<<"cursors", cursors>>>>
  OBVIOUS
<1> HIDE DEF a, b, ws
<1>5. Left(box, cfg, cursors, a, b, ws)
  BY <1>1, <1>2, <1>3, <1>4, ConfirmWrites, Zenon
<1> QED
  BY <1>1, <1>2, <1>5 DEF box, cfg, cursors, a, b, ws

\* Sending.
LEMMA LandsTyped ==
  ASSUME TInv, NEW t \in Transactions, Lands(t)
  PROVE  lane' \in [Keys -> Seq(Posts)] /\ opened' \subseteq Keys /\ IsFiniteSet(opened')
<1>1. t.key \in Keys /\ t.batch \in Seq(0..MaxRuns)
  BY DEF Transactions
<1>2. lane' \in [Keys -> Seq(Posts)]
  <2>1. t.batch \in Seq(Posts)
    <3>1. t.batch \in [1..Len(t.batch) -> 0..MaxRuns] /\ Len(t.batch) \in Nat
      BY <1>1, LenProperties
    <3>2. t.batch \in [1..Len(t.batch) -> Posts]
      BY <3>1 DEF Posts
    <3> QED
      BY <3>1, <3>2
  <2>2. lane[t.key] \in Seq(Posts)
    BY <1>1 DEF TInv
  <2>3. lane[t.key] \o t.batch \in Seq(Posts)
    BY <2>1, <2>2, ConcatProperties
  <2> QED
    BY <1>1, <2>3 DEF Lands, TInv
<1>3. opened' \subseteq Keys /\ IsFiniteSet(opened')
  <2>1. Out(t.key[2]) \in Keys
    BY <1>1 DEF Keys, In, Out
  <2> QED
    BY <2>1, FS_AddElement DEF Lands, TInv
<1> QED
  BY <1>2, <1>3

LEMMA LostTyped ==
  ASSUME TInv, NEW t \in lost, IncludeLost(t)
  PROVE  TInv'
<1>1. t \in Transactions /\ Lands(t)
  BY DEF TInv, IncludeLost
<1>2. lane' \in [Keys -> Seq(Posts)] /\ opened' \subseteq Keys /\ IsFiniteSet(opened')
  BY <1>1, LandsTyped
<1> QED
  BY <1>2 DEF TInv, IncludeLost, bounds, ghosts

\* A flush that tries again.
LEMMA RetryTyped ==
  ASSUME TInv, NEW p \in Procs, Refused(p) \/ Reseal(p) \/ AnswerLost(p)
  PROVE  TInv'
<1> DEFINE me == proc[p]
           k == Head(me.todo)
<1>0. me \in Process /\ Control(me) /\ me.index \in Nat /\ me.attempt \in Nat
      /\ me.cursors \in Cursors
  BY ProcessFacts
<1>1. me.at \in Underway /\ me.writes = <<>>
  BY DEF Refused, Reseal, AnswerLost, At
<1>2. PICK index \in Nat : Retries(p, index)
  <2>1. k \in Keys
    BY <1>1, SenderFacts
  <2>2. Len(lane[k]) \in Nat /\ me.cursors[k] \in Nat
    BY <1>0, <2>1 DEF TInv, Cursors
  <2>3. Walked(k, me.cursors[k]) \in Nat
    BY <2>2 DEF Walked
  <2> QED
    BY <1>0, <2>3 DEF Refused, Reseal, AnswerLost
<1> DEFINE r == [me EXCEPT !.at = "submit", !.index = index, !.attempt = @ + 1]
<1>3. Becomes(p, r) /\ me.cmd = "flush"
      /\ UNCHANGED <<disk, tmp, lane, opened, runs, posts, tears, queued, raced>>
  BY <1>2 DEF Retries, bounds
<1>4. r \in Process
  <2>1. me.attempt + 1 \in Nat
    BY <1>0
  <2> QED
    BY <1>0, <2>1 DEF Process
<1>5. Control(r)
  <2>1. r.at = "submit" /\ \A f \in {"cmd", "cfg", "cursors", "box", "loaded", "writes",
            "todo", "batch", "found", "fd"} : r[f] = me[f]
    BY <1>0 DEF Process
  <2>2. me.fd = "none" /\ me.found = {}
    BY <1>1, SenderFacts
  <2> QED
    BY <1>0, <1>1, <1>3, <2>1, <2>2 DEF Control
<1>6. lost' \subseteq Transactions
  BY <1>1, TxFacts DEF Refused, Reseal, AnswerLost, TInv
<1> QED
  BY <1>3, <1>4, <1>5, <1>6, StepTyped DEF TInv

LEMMA SendTyped ==
  ASSUME TInv, NEW p \in Procs, Seal(p) \/ Broadcast(p) \/ Include(p) \/ Confirm(p)
  PROVE  TInv'
<1> DEFINE me == proc[p]
           k == Head(me.todo)
<1>0. /\ me \in Process /\ Control(me)
      /\ me.cfg \in Config /\ me.cursors \in Cursors /\ me.box \in Box
      /\ me.todo \in Seq(Keys \cup {NoKey}) /\ me.index \in Nat
      /\ me.batch \in Seq(0..MaxRuns)
  BY ProcessFacts
<1>1. CASE Seal(p)
  <2> DEFINE flush == me.cmd = "flush"
             ids == IF flush THEN BatchFor(me, k) ELSE <<0>>
             box == Marked(me.box, Range(ids), "proving")
             ws == IF flush THEN <<<<"outbox", box>>>> ELSE <<>>
             index == Walked(k, me.cursors[k])
             r == [me EXCEPT !.at = "submit", !.batch = ids, !.box = box,
                             !.attempt = 1, !.index = index, !.writes = ws]
  <2>1. At(p, "seal") /\ Goes(p, r)
    BY <1>1 DEF Seal
  <2>2. /\ me.cmd \in Sends /\ k \in Keys /\ me.todo \in Seq(Keys) /\ me.todo # <<>>
        /\ me.found = {} /\ me.fd = "none"
        /\ ~flush => box = <<>>
    BY <2>1, SenderFacts DEF At
  <2>3. ids \in Seq(0..MaxRuns)
    <3>1. CASE flush
      BY <1>0, <3>1, BatchFacts
    <3>2. CASE ~flush
      BY <3>2, FilesAssumption
    <3> QED
      BY <3>1, <3>2
  <2>4. box \in Box
    BY <1>0, MarkedFacts DEF Statuses
  <2>5. index \in Nat
    <3>1. Len(lane[k]) \in Nat
      BY <2>2 DEF TInv
    <3> QED
      BY <1>0, <2>2, <3>1 DEF Walked, Cursors
  <2>6. ~flush => ids = <<0>>
    OBVIOUS
  <2> HIDE DEF ids, box, index, k
  <2>7. ws \in Seq(Writes) /\ \A n \in DOMAIN ws : flush /\ n = 1 /\ ws[n] = <<"outbox", box>>
    <3>1. <<"outbox", box>> \in Writes
      BY <2>4 DEF Writes
    <3> QED
      BY <3>1
  <2> HIDE DEF ws
  <2>8. r \in Process
    BY <1>0, <2>3, <2>4, <2>5, <2>7 DEF Process
  <2>9. Control(r)
    <3>1. /\ r.at = "submit" /\ r.batch = ids /\ r.box = box /\ r.writes = ws
          /\ r.cmd = me.cmd /\ r.todo = me.todo /\ r.found = {} /\ r.fd = "none"
      BY <1>0, <2>2, FieldsOfProcess
    <3>2. \A n \in DOMAIN ws : WriteOK(r, ws[n])
      BY <2>7, <3>1 DEF WriteOK
    <3> QED
      BY <2>2, <2>6, <2>7, <3>1, <3>2 DEF Control
  <2> QED
    BY <2>1, <2>8, <2>9, GoesTyped
<1>2. CASE Broadcast(p)
  <2> DEFINE flush == me.cmd = "flush"
             box == Marked(me.box, Range(me.batch), "submitted")
             ws == IF flush THEN <<<<"outbox", box>>>> ELSE <<>>
             r == [me EXCEPT !.at = "sent", !.box = box, !.writes = ws]
  <2>1. At(p, "submit") /\ Goes(p, r)
    BY <1>2 DEF Broadcast
  <2>2. /\ me.cmd \in Sends /\ me.todo \in Seq(Keys) /\ me.todo # <<>>
        /\ me.found = {} /\ me.fd = "none"
        /\ ~flush => box = <<>>
    BY <2>1, SenderFacts DEF At
  <2>3. box \in Box
    BY <1>0, MarkedFacts DEF Statuses
  <2> HIDE DEF box
  <2>4. ws \in Seq(Writes) /\ \A n \in DOMAIN ws : flush /\ n = 1 /\ ws[n] = <<"outbox", box>>
    <3>1. <<"outbox", box>> \in Writes
      BY <2>3 DEF Writes
    <3> QED
      BY <3>1
  <2> HIDE DEF ws
  <2>5. r \in Process
    BY <1>0, <2>3, <2>4 DEF Process
  <2>6. Control(r)
    <3>1. /\ r.at = "sent" /\ r.batch = me.batch /\ r.box = box /\ r.writes = ws
          /\ r.cmd = me.cmd /\ r.todo = me.todo /\ r.found = {} /\ r.fd = "none"
      BY <1>0, <2>2, FieldsOfProcess
    <3>2. \A n \in DOMAIN ws : WriteOK(r, ws[n])
      BY <2>4, <3>1 DEF WriteOK
    <3>3. me.cmd # "flush" => me.batch = <<0>>
      BY <1>0, <2>1 DEF Control, At
    <3> QED
      BY <2>2, <2>4, <3>1, <3>2, <3>3 DEF Control
  <2> QED
    BY <2>1, <2>5, <2>6, GoesTyped
<1>2a. CASE Include(p)
  <2> DEFINE r == [me EXCEPT !.at = "landed"]
  <2>1. /\ At(p, "sent") /\ Becomes(p, r) /\ Lands(Tx(me))
        /\ UNCHANGED <<disk, tmp, lost, runs, posts, tears, queued, raced>>
    BY <1>2a DEF Include, bounds, ghosts
  <2>2. Tx(me) \in Transactions
    BY <2>1, TxFacts DEF At
  <2>3. lane' \in [Keys -> Seq(Posts)] /\ opened' \subseteq Keys /\ IsFiniteSet(opened')
    BY <2>1, <2>2, LandsTyped
  <2>4. r \in Process
    BY <1>0 DEF Process
  <2>5. Control(r)
    BY <1>0, <2>1 DEF Process, Control, At
  <2> QED
    BY <2>1, <2>3, <2>4, <2>5, StepTyped DEF TInv
<1>3. CASE Confirm(p)
  <2> DEFINE flush == me.cmd = "flush"
             box == Marked(me.box, Range(me.batch), "confirmed")
             cfg == IF me.cmd = "pay" THEN me.cfg ELSE MarkSetup(me.cfg, k)
             cursors == [me.cursors EXCEPT ![k] = me.index + Len(me.batch)]
             ws == (IF flush THEN <<<<"outbox", box>>>> ELSE <<>>)
                   \o (IF cfg # me.cfg THEN <<<<"config", cfg>>>> ELSE <<>>)
                   \o <<<<"cursors", cursors>>>>
             at == IF Len(me.todo) = 1 THEN "done" ELSE "seal"
             r == [me EXCEPT !.at = at, !.todo = Tail(@), !.box = box, !.cfg = cfg,
                             !.cursors = cursors, !.writes = ws]
  <2>1. At(p, "landed") /\ Goes(p, r)
    BY <1>3 DEF Confirm
  <2>2. /\ me.cmd \in Sends /\ k \in Keys /\ Tail(me.todo) \in Seq(Keys)
        /\ Len(Tail(me.todo)) = Len(me.todo) - 1
        /\ me.found = {} /\ me.fd = "none"
        /\ ~flush => box = <<>>
    BY <2>1, SenderFacts DEF At
  <2>3. box \in Box /\ cfg \in Config
    BY <1>0, MarkedFacts, MarkSetupFacts DEF Statuses
  <2>4. cursors \in Cursors
    BY <1>0, <2>2 DEF Cursors
  <2>5. /\ ws \in Seq(Writes)
        /\ \A n \in DOMAIN ws : \/ flush /\ ws[n] = <<"outbox", box>>
                                \/ ws[n] = <<"config", cfg>>
                                \/ ws[n] = <<"cursors", cursors>>
        /\ \A m, n \in DOMAIN ws : ws[m][1] = ws[n][1] => m = n
    <3> HIDE DEF box, cfg, cursors
    <3> DEFINE a == IF flush THEN <<<<"outbox", box>>>> ELSE <<>>
               b == IF cfg # me.cfg THEN <<<<"config", cfg>>>> ELSE <<>>
    <3>1. /\ a \in {<<>>, <<<<"outbox", box>>>>} /\ b \in {<<>>, <<<<"config", cfg>>>>}
          /\ a # <<>> => flush
      OBVIOUS
    <3>2. ws = a \o b \o <<<<"cursors", cursors>>>>
      OBVIOUS
    <3> HIDE DEF a, b, ws
    <3>3. Left(box, cfg, cursors, a, b, ws)
      BY <2>3, <2>4, <3>1, <3>2, ConfirmWrites, Zenon
    <3> QED
      BY <3>1, <3>3 DEF Left
  <2>6. at \in {"done", "seal"} /\ (at = "seal" => Tail(me.todo) # <<>>)
    <3>1. Len(me.todo) \in Nat
      BY <1>0
    <3>2. Len(me.todo) # 1 => Len(Tail(me.todo)) # 0
      BY <2>2, <3>1
    <3>3. Len(Tail(me.todo)) # 0 => Tail(me.todo) # <<>>
      BY EmptySeq, Zenon
    <3> QED
      BY <3>2, <3>3
  <2> HIDE DEF box, cfg, cursors, ws, at, k
  <2>7. Tail(me.todo) \in Seq(Keys \cup {NoKey})
    BY <2>2
  <2>8. r \in Process
    BY <1>0, <2>3, <2>4, <2>5, <2>6, <2>7 DEF Process
  <2>9. Control(r)
    <3>1. /\ r.at = at /\ r.todo = Tail(me.todo) /\ r.box = box /\ r.cfg = cfg
          /\ r.cursors = cursors /\ r.writes = ws
          /\ r.cmd = me.cmd /\ r.found = {} /\ r.fd = "none"
      BY <1>0, <2>2, FieldsOfProcess
    <3>2. \A n \in DOMAIN ws : WriteOK(r, ws[n])
      BY <2>5, <2>6, <3>1 DEF WriteOK
    <3> QED
      BY <2>2, <2>5, <2>6, <3>1, <3>2 DEF Control
  <2> QED
    BY <2>1, <2>8, <2>9, GoesTyped
<1> QED
  BY <1>1, <1>2, <1>2a, <1>3

\* Reading.
LEMMA ReadTyped ==
  ASSUME TInv, NEW p \in Procs, ReadLane(p) \/ ReadAll(p)
  PROVE  TInv'
<1> DEFINE me == proc[p]
<1>0. /\ me \in Process /\ Control(me) /\ me.cursors \in Cursors
      /\ me.found \in SUBSET (Keys \X Nat)
  BY ProcessFacts
<1>1. CASE ReadLane(p)
  <2> DEFINE k == Head(me.todo)
             r == [me EXCEPT !.todo = Tail(@), !.cursors[k] = Walked(k, @),
                             !.found = @ \cup Unread(k, me.cursors[k])]
             cursors == [me.cursors EXCEPT ![k] = Walked(k, @)]
  <2>1. At(p, "read") /\ me.todo # <<>> /\ Goes(p, r)
    BY <1>1 DEF ReadLane
  <2>2. me.todo \in Seq(Keys) /\ me.at = "read" /\ me.writes = <<>>
    BY <1>0, <2>1 DEF Control, At
  <2>3. k \in Keys /\ Tail(me.todo) \in Seq(Keys)
    BY <2>1, <2>2
  <2>4. Len(lane[k]) \in Nat /\ me.cursors[k] \in Nat
    BY <1>0, <2>3 DEF TInv, Cursors
  <2>5. cursors \in Cursors
    BY <1>0, <2>3, <2>4 DEF Cursors, Walked
  <2>6. Unread(k, me.cursors[k]) \in SUBSET (Keys \X Nat)
    BY <2>3, <2>4 DEF Unread
  <2>7. Tail(me.todo) \in Seq(Keys \cup {NoKey})
    BY <2>3
  <2>8. r = [me EXCEPT !.todo = Tail(@), !.cursors = cursors,
                       !.found = @ \cup Unread(k, me.cursors[k])]
    BY <1>0 DEF Process
  <2> HIDE DEF cursors, k
  <2>9. r \in Process
    BY <1>0, <2>5, <2>6, <2>7, <2>8 DEF Process
  <2>10. Control(r)
    <3>1. /\ r.at = "read" /\ r.todo = Tail(me.todo) /\ r.writes = <<>>
          /\ r.cmd = me.cmd /\ r.box = me.box /\ r.fd = me.fd
      BY <1>0, <2>2, <2>8 DEF Process
    <3> QED
      BY <1>0, <2>2, <2>3, <3>1 DEF Control
  <2> QED
    BY <2>1, <2>9, <2>10, GoesTyped
<1>2. CASE ReadAll(p)
  <2> DEFINE r == [me EXCEPT !.at = "print", !.writes = <<<<"cursors", me.cursors>>>>]
  <2>1. At(p, "read") /\ Goes(p, r)
    BY <1>2 DEF ReadAll
  <2>2. <<"cursors", me.cursors>> \in Writes
    BY <1>0 DEF Writes
  <2>3. r \in Process
    <3>1. <<<<"cursors", me.cursors>>>> \in Seq(Writes)
      BY <2>2
    <3> QED
      BY <1>0, <3>1 DEF Process
  <2>4. Control(r)
    <3>1. /\ r.at = "print" /\ r.writes = <<<<"cursors", me.cursors>>>>
          /\ r.cmd = me.cmd /\ r.box = me.box /\ r.fd = me.fd /\ r.cursors = me.cursors
      BY <1>0 DEF Process
    <3>2. me.fd = "none"
      BY <1>0, <2>1 DEF Control, At, Process
    <3> QED
      BY <1>0, <3>1, <3>2 DEF Control, WriteOK
  <2> QED
    BY <2>1, <2>3, <2>4, GoesTyped
<1> QED
  BY <1>1, <1>2

LEMMA PostTyped ==
  ASSUME TInv, NEW q \in Peers, NEW m \in PeerPost, PeerPosts(q, m)
  PROVE  TInv'
<1>1. /\ lane' = [lane EXCEPT ![In(q)] = Append(@, m)] /\ opened' = opened \cup {In(q)}
      /\ posts' = posts + 1 /\ UNCHANGED <<disk, tmp, proc, lost, runs, tears, queued, raced>>
  BY DEF PeerPosts, ghosts
<1>2. In(q) \in Keys /\ m \in Posts
  BY DEF Keys, Posts
<1>3. lane' \in [Keys -> Seq(Posts)]
  BY <1>1, <1>2 DEF TInv
<1>4. opened' \subseteq Keys /\ IsFiniteSet(opened')
  BY <1>1, <1>2, FS_AddElement DEF TInv
<1> QED
  BY <1>1, <1>3, <1>4 DEF TInv

LEMMA NextTyped == TInv /\ [Next]_vars => TInv'
<1> SUFFICES ASSUME TInv, [Next]_vars PROVE TInv'
  OBVIOUS
<1>1. ASSUME NEW p \in Procs, Commands(p) PROVE TInv'
  BY <1>1, CommandTyped
<1>2. ASSUME NEW p \in Procs, Steps(p) PROVE TInv'
  BY <1>2, WriteTyped, EndsTyped, SyncTyped, SendTyped, RetryTyped, ReadTyped DEF Steps
<1>3. ASSUME NEW q \in Peers, NEW m \in PeerPost, PeerPosts(q, m) PROVE TInv'
  BY <1>3, PostTyped
<1>3a. ASSUME NEW t \in lost, IncludeLost(t) PROVE TInv'
  BY <1>3a, LostTyped
<1>4. CASE UNCHANGED vars
  BY <1>4 DEF vars, chain, bounds, ghosts, TInv
<1> QED
  BY <1>1, <1>2, <1>3, <1>3a, <1>4 DEF Next

\* The types, for every reachable state.
THEOREM TypesHold == Spec => []TInv
<1>1. Init => TInv
  BY InitTyped
<1>2. TInv /\ [Next]_vars => TInv'
  BY NextTyped
<1> QED
  BY <1>1, <1>2, PTL DEF Spec

-----------------------------------------------------------------------------
(***************************************************************************)
(* What a step does, for all the invariants below.                         *)
(***************************************************************************)

\* A process changes nothing of the others.
LEMMA Others ==
  ASSUME TInv, NEW p \in Procs, NEW r, Becomes(p, r)
  PROVE  proc'[p] = r /\ \A q \in Procs : q # p => proc'[q] = proc[q]
BY DEF TInv, Becomes

\* One file written: its writer has one write less, and what it wrote loaded;
\* nobody else has it loaded.
LEMMA Written ==
  ASSUME TInv, NEW p \in Procs, Write(p)
  PROVE  LET w == proc[p].writes
             f == Head(w)[1]
             v == Head(w)[2]
         IN  /\ w # <<>> /\ f \in {"config", "cursors", "outbox"}
             /\ disk' = [disk EXCEPT ![f] = v]
             /\ raced' = IF f \in proc[p].loaded THEN raced ELSE raced \cup {f}
             /\ proc'[p].writes = Tail(w) /\ proc'[p].loaded = proc[p].loaded \cup {f}
             /\ \A q \in Procs :
                    /\ proc'[q].at = proc[q].at /\ proc'[q].cmd = proc[q].cmd
                    /\ proc'[q].cfg = proc[q].cfg /\ proc'[q].cursors = proc[q].cursors
                    /\ proc'[q].box = proc[q].box /\ proc'[q].todo = proc[q].todo
                    /\ proc'[q].batch = proc[q].batch /\ proc'[q].index = proc[q].index
                    /\ proc'[q].found = proc[q].found /\ proc'[q].fd = proc[q].fd
                    /\ q # p => /\ proc'[q].writes = proc[q].writes
                                /\ proc'[q].loaded = proc[q].loaded \ {f}
<1> DEFINE w == proc[p].writes
           f == Head(w)[1]
           v == Head(w)[2]
<1>1. /\ w # <<>> /\ disk' = [disk EXCEPT ![f] = v] /\ proc' = Saved(p, f)
      /\ raced' = IF f \in proc[p].loaded THEN raced ELSE raced \cup {f}
  BY DEF Write
<1>2. f \in {"config", "cursors", "outbox"}
  BY <1>1, PendingFacts
<1> HIDE DEF f
<1>3. \A q \in Procs : proc'[q] = IF q = p THEN [proc[p] EXCEPT !.writes = Tail(@), !.loaded = @ \cup {f}]
                                  ELSE [proc[q] EXCEPT !.loaded = @ \ {f}]
  BY <1>1 DEF Saved
<1>4. \A q \in Procs : proc[q] \in Process
  BY ProcessFacts
<1> HIDE DEF w
<1>5. proc'[p] = [proc[p] EXCEPT !.writes = Tail(w), !.loaded = @ \cup {f}]
  BY <1>3, <1>4 DEF w, Process
<1>6. proc'[p].writes = Tail(w) /\ proc'[p].loaded = proc[p].loaded \cup {f}
  BY <1>4, <1>5 DEF Process
<1>7. ASSUME NEW q \in Procs
      PROVE  /\ proc'[q].at = proc[q].at /\ proc'[q].cmd = proc[q].cmd
             /\ proc'[q].cfg = proc[q].cfg /\ proc'[q].cursors = proc[q].cursors
             /\ proc'[q].box = proc[q].box /\ proc'[q].todo = proc[q].todo
             /\ proc'[q].batch = proc[q].batch /\ proc'[q].index = proc[q].index
             /\ proc'[q].found = proc[q].found /\ proc'[q].fd = proc[q].fd
             /\ q # p => /\ proc'[q].writes = proc[q].writes
                         /\ proc'[q].loaded = proc[q].loaded \ {f}
  <2>1. CASE q = p
    BY <1>4, <1>5, <2>1 DEF Process
  <2>2. CASE q # p
    <3>1. proc'[q] = [proc[q] EXCEPT !.loaded = @ \ {f}] /\ proc[q] \in Process
      BY <1>3, <1>4, <2>2
    <3> QED
      BY <2>2, <3>1 DEF Process
  <2> QED
    BY <2>1, <2>2
<1> QED
  BY <1>1, <1>2, <1>6, <1>7 DEF f, w

\* A process that has just started: the copies it holds are those on disk.
Fresh(r) ==
    /\ r \in Process /\ r.found = {} /\ r.batch = <<>>
    /\ \/ r.at = "done" /\ r.cmd \in {"init", "add"}
       \/ r.at = "scan" /\ r.cmd \in {"discover", "sync"}
       \/ r.at = "read" /\ r.cmd = "read"
       \/ r.at = "queued" /\ r.cmd = "none"
       \/ r.at = "seal" /\ r.cmd \in Sends
    /\ r.cursors = Idle.cursors \/ (r.cursors = disk.cursors /\ disk.cursors # Torn)
    /\ r.at \in {"scan", "seal"} => r.cfg = disk.config /\ disk.config # Torn
    /\ IF r.cmd # "flush" THEN r.box = <<>>
       ELSE /\ disk.outbox # Torn /\ r.box = disk.outbox /\ r.writes = <<>>
            /\ \A n \in DOMAIN r.todo : Waits(r, r.todo[n])
            /\ \A m, n \in DOMAIN r.todo : r.todo[m] = r.todo[n] => m = n
    /\ r.writes # <<>> => Len(r.writes) = 1
    /\ \A n \in DOMAIN r.writes :
           /\ r.at \in {"done", "queued"}
           /\ r.writes[n][1] = IF r.at = "done" THEN "config" ELSE "outbox"
           /\ r.cmd = "add" =>
                  /\ disk.config # Torn
                  /\ \A c \in Named(disk.config) :
                         c[1] # Last(r.writes[n][2]).label => c \in Named(r.writes[n][2])
           /\ r.at = "queued" => \E to \in Names :
                  r.writes[n][2] = Append(disk.outbox, [id |-> r.index, to |-> to, status |-> "queued"])
    /\ r.at = "queued" => disk.outbox # Torn /\ r.index = runs + 1 /\ r.writes # <<>>

LEMMA Started ==
  ASSUME TInv, NEW p \in Procs, Commands(p)
  PROVE  /\ proc[p].at = "idle" /\ runs' = runs + 1
         /\ UNCHANGED <<disk, tmp, lane, opened, lost, printed, queued, kept, raced, missed, doubt>>
         /\ \E r : Becomes(p, r) /\ Fresh(r)
<1> DEFINE Ok == /\ proc[p].at = "idle" /\ runs' = runs + 1
                 /\ UNCHANGED <<disk, tmp, lane, opened, lost, printed, queued, kept, raced, missed, doubt>>
                 /\ \E r : Becomes(p, r) /\ Fresh(r)
<1>a. ASSUME NEW r, Starts(p, r), Fresh(r) PROVE Ok
  BY <1>a DEF Starts, chain, ghosts
<1>b. ASSUME NEW r, NEW files \in SUBSET Files, Loads(p, files, r), Fresh(r) PROVE Ok
  <2> DEFINE new == [r EXCEPT !.loaded = files]
  <2>1. Starts(p, new)
    BY <1>b DEF Loads
  <2>2. /\ new \in Process /\ new.at = r.at /\ new.cmd = r.cmd /\ new.cfg = r.cfg
        /\ new.cursors = r.cursors /\ new.box = r.box /\ new.writes = r.writes
        /\ new.todo = r.todo /\ new.batch = r.batch /\ new.index = r.index
        /\ new.found = r.found
    BY <1>b DEF Fresh, Process
  <2> HIDE DEF new
  <2>3. \A k : Waits(new, k) <=> Waits(r, k)
    BY <2>2 DEF Waits
  <2>4. Fresh(new)
    <3>1. IF new.cmd # "flush" THEN new.box = <<>>
          ELSE /\ disk.outbox # Torn /\ new.box = disk.outbox /\ new.writes = <<>>
               /\ \A n \in DOMAIN new.todo : Waits(new, new.todo[n])
               /\ \A m, n \in DOMAIN new.todo : new.todo[m] = new.todo[n] => m = n
      BY <1>b, <2>2, <2>3 DEF Fresh
    <3> QED
      BY <1>b, <2>2, <3>1 DEF Fresh
  <2> QED
    BY <1>a, <2>1, <2>4
<1> SUFFICES Ok
  OBVIOUS
<1> HIDE DEF Ok
<1>i. /\ Idle \in Process
      /\ Idle.cfg = <<>> /\ Idle.box = <<>> /\ Idle.writes = <<>> /\ Idle.todo = <<>>
      /\ Idle.batch = <<>> /\ Idle.found = {} /\ Idle.cmd = "none" /\ Idle.index = 0
      /\ Idle.cursors \in Cursors
  <2>1. Idle \in Process
    BY IdleOK
  <2> QED
    BY <2>1 DEF Idle, Process
<1>c. \A S, x : x \in S => /\ <<x>> \in Seq(S) /\ DOMAIN <<x>> = {1} /\ <<x>>[1] = x
                           /\ Len(<<x>>) = 1 /\ <<x>> # <<>>
  OBVIOUS
<1>1. CASE InitConfig(p)
  <2> DEFINE ws == <<<<"config", <<>>>>>>
             r == [Idle EXCEPT !.at = "done", !.cmd = "init", !.loaded = {"config"},
                               !.writes = ws]
  <2>0. <<"config", <<>>>> \in Writes
    <3>1. <<>> \in Config
      BY DEF Config
    <3> QED
      BY <3>1 DEF Writes
  <2>1. ws \in Seq(Writes) /\ DOMAIN ws = {1} /\ ws[1] = <<"config", <<>>>> /\ Len(ws) = 1
    BY <1>c, <2>0
  <2>2. Starts(p, r)
    BY <1>1 DEF InitConfig
  <2> HIDE DEF ws
  <2>3. /\ r \in Process /\ r.at = "done" /\ r.cmd = "init" /\ r.writes = ws
        /\ r.cursors = Idle.cursors /\ r.box = <<>> /\ r.batch = <<>> /\ r.found = {}
    BY <1>i, <2>1 DEF Process, Files
  <2> HIDE DEF r
  <2>4. Fresh(r)
    BY <2>1, <2>3 DEF Fresh
  <2> QED
    BY <1>a, <2>2, <2>4
<1>2. CASE StartFlush(p)
  <2> DEFINE taken == QueuedAt(disk.outbox)
             key == [i \in taken |-> KeyOf(disk.config, disk.outbox[i].to)]
             todo == Pick(key, {i \in taken : \A j \in taken : j < i => key[j] # key[i]})
             r == [Idle EXCEPT !.at = "seal", !.cmd = "flush",
                       !.cfg = disk.config, !.cursors = disk.cursors,
                       !.box = disk.outbox, !.todo = todo]
  <2>1. /\ disk.config \in Config /\ disk.cursors \in Cursors /\ disk.outbox \in Box
        /\ disk.config # Torn /\ disk.cursors # Torn /\ disk.outbox # Torn
        /\ taken # {} /\ \A i \in taken : Resolves(disk.config, disk.outbox[i].to)
        /\ Loads(p, {"config", "outbox", "cursors"}, r)
    BY <1>2, DiskFacts DEF StartFlush, Loads
  <2>2. taken \in SUBSET Nat /\ IsFiniteSet(taken)
    BY <2>1, BoxFacts
  <2>3. \A i \in taken : key[i] \in Keys /\ key[i] = KeyOf(disk.config, disk.outbox[i].to)
    BY <2>1, ResolveFacts
  <2>4. /\ todo \in Seq(Keys) /\ todo # <<>>
        /\ \A n \in DOMAIN todo : \E i \in taken : key[i] = todo[n]
        /\ \A m, n \in DOMAIN todo : todo[m] = todo[n] => m = n
    <3>1. todo = Pick(key, {i \in taken : \A j \in taken : j < i => key[j] # key[i]})
      OBVIOUS
    <3> HIDE DEF todo, key, taken
    <3>2. Serves(taken, key, todo)
      BY <2>1, <2>2, <2>3, <3>1, LanesFacts, Zenon
    <3> QED
      BY <3>2 DEF Serves
  <2> HIDE DEF todo, key
  <2>5. /\ r \in Process /\ r.at = "seal" /\ r.cmd = "flush" /\ r.writes = <<>>
        /\ r.cursors = disk.cursors /\ r.cfg = disk.config /\ r.box = disk.outbox
        /\ r.todo = todo /\ r.batch = <<>> /\ r.found = {}
    <3>1. todo \in Seq(Keys \cup {NoKey})
      BY <2>4
    <3> QED
      BY <1>i, <2>1, <3>1 DEF Process, Sends
  <2> HIDE DEF r
  <2>6. \A n \in DOMAIN todo : Waits(r, todo[n])
    <3> TAKE n \in DOMAIN todo
    <3>1. PICK i \in taken : key[i] = todo[n]
      BY <2>4
    <3> QED
      BY <2>1, <2>3, <2>5, <3>1 DEF Waits
  <2>7. Fresh(r)
    BY <2>1, <2>4, <2>5, <2>6 DEF Fresh, Sends
  <2> QED
    BY <1>b, <2>1, <2>7 DEF Files
<1>3. CASE StartRead(p)
  <2> DEFINE todo == KeysOf(disk.config)
             r == [Idle EXCEPT !.at = "read", !.cmd = "read",
                       !.cursors = disk.cursors, !.todo = todo]
  <2>1. /\ disk.config \in Config /\ disk.cursors \in Cursors /\ disk.cursors # Torn
        /\ Loads(p, {"config", "cursors"}, r)
    BY <1>3, DiskFacts DEF StartRead, Loads
  <2>2. todo \in Seq(Keys \cup {NoKey})
    <3>1. DOMAIN disk.config = 1..Len(disk.config) /\ Len(disk.config) \in Nat
      BY <2>1, ConfigFacts
    <3>2. todo \in [1..Len(disk.config) -> Keys]
      BY <2>1, <3>1, ConfigFacts DEF KeysOf
    <3> QED
      BY <3>1, <3>2
  <2> HIDE DEF todo
  <2>3. /\ r \in Process /\ r.at = "read" /\ r.cmd = "read" /\ r.writes = <<>>
        /\ r.cursors = disk.cursors /\ r.box = <<>> /\ r.batch = <<>> /\ r.found = {}
    BY <1>i, <2>1, <2>2 DEF Process
  <2> HIDE DEF r
  <2>4. Fresh(r)
    BY <2>1, <2>3 DEF Fresh
  <2> QED
    BY <1>b, <2>1, <2>4 DEF Files
<1>4. ASSUME NEW cmd \in {"discover", "sync"}, StartScan(p, cmd)
      PROVE  Ok
  <2> DEFINE r == [Idle EXCEPT !.at = "scan", !.cmd = cmd, !.cfg = disk.config]
  <2>1. disk.config \in Config /\ disk.config # Torn /\ Loads(p, {"config"}, r)
    BY <1>4, DiskFacts DEF StartScan, Loads
  <2>2. /\ r \in Process /\ r.at = "scan" /\ r.cmd = cmd /\ r.writes = <<>>
        /\ r.cursors = Idle.cursors /\ r.cfg = disk.config /\ r.box = <<>>
        /\ r.batch = <<>> /\ r.found = {}
    BY <1>i, <2>1 DEF Process
  <2> HIDE DEF r
  <2>3. Fresh(r)
    BY <2>1, <2>2 DEF Fresh
  <2> QED
    BY <1>b, <2>1, <2>3 DEF Files
<1>5. ASSUME NEW l \in Labels, NEW q \in Peers, NEW k \in Keys, AddChannel(p, l, q, k)
      PROVE  Ok
  <2> DEFINE v == Append(Pick(disk.config, {i \in DOMAIN disk.config :
                                                disk.config[i].label # l}),
                         Channel(l, q, k, "manual"))
             ws == <<<<"config", v>>>>
             r == [Idle EXCEPT !.at = "done", !.cmd = "add", !.writes = ws]
  <2>1. disk.config \in Config /\ disk.config # Torn /\ Loads(p, {"config"}, r)
    BY <1>5, DiskFacts DEF AddChannel, Loads
  <2>2. /\ v \in Config
        /\ \A c \in Named(disk.config) : c[1] # Last(v).label => c \in Named(v)
    <3>1. v = Append(Pick(disk.config, {i \in DOMAIN disk.config :
                                            disk.config[i].label # l}),
                     Channel(l, q, k, "manual"))
      OBVIOUS
    <3> HIDE DEF v
    <3>2. Adds(disk.config, v)
      BY <2>1, <3>1, AddedFacts
    <3> QED
      BY <3>2 DEF Adds
  <2> HIDE DEF v
  <2>3. ws \in Seq(Writes) /\ DOMAIN ws = {1} /\ ws[1] = <<"config", v>> /\ Len(ws) = 1
    <3>1. <<"config", v>> \in Writes
      BY <2>2 DEF Writes
    <3> QED
      BY <1>c, <3>1
  <2> HIDE DEF ws
  <2>4. /\ r \in Process /\ r.at = "done" /\ r.cmd = "add" /\ r.writes = ws
        /\ r.cursors = Idle.cursors /\ r.box = <<>> /\ r.batch = <<>> /\ r.found = {}
    BY <1>i, <2>3 DEF Process
  <2> HIDE DEF r
  <2>5. Fresh(r)
    BY <2>1, <2>2, <2>3, <2>4 DEF Fresh
  <2> QED
    BY <1>b, <2>1, <2>5 DEF Files
<1>6. ASSUME NEW to \in Labels \cup Peers, Queue(p, to)
      PROVE  Ok
  <2> DEFINE v == Append(disk.outbox, [id |-> runs + 1, to |-> to, status |-> "queued"])
             ws == <<<<"outbox", v>>>>
             r == [Idle EXCEPT !.at = "queued", !.index = runs + 1, !.writes = ws]
  <2>1. /\ disk.outbox \in Box /\ disk.outbox # Torn
        /\ Loads(p, {"config", "outbox"}, r) /\ runs + 1 \in Ids /\ runs + 1 \in Nat
    BY <1>6, DiskFacts, FilesAssumption DEF Queue, Loads, Starts, TInv, Ids
  <2>2. v \in Box
    <3>1. [id |-> runs + 1, to |-> to, status |-> "queued"] \in Entries
      BY <2>1 DEF Entries, Statuses, Names
    <3> QED
      BY <2>1, <3>1, AppendProperties DEF Box
  <2>2a. v = Append(disk.outbox, [id |-> runs + 1, to |-> to, status |-> "queued"])
    OBVIOUS
  <2> HIDE DEF v
  <2>3. ws \in Seq(Writes) /\ DOMAIN ws = {1} /\ ws[1] = <<"outbox", v>>
        /\ Len(ws) = 1 /\ ws # <<>>
    <3>1. <<"outbox", v>> \in Writes
      BY <2>2 DEF Writes
    <3> QED
      BY <1>c, <3>1
  <2> HIDE DEF ws
  <2>4. /\ r \in Process /\ r.at = "queued" /\ r.cmd = "none" /\ r.writes = ws
        /\ r.cursors = Idle.cursors /\ r.box = <<>> /\ r.batch = <<>> /\ r.found = {}
        /\ r.index = runs + 1
    BY <1>i, <2>1, <2>3 DEF Process
  <2> HIDE DEF r
  <2>5. Fresh(r)
    BY <2>1, <2>2a, <2>3, <2>4 DEF Fresh, Names
  <2> QED
    BY <1>b, <2>1, <2>5 DEF Files
<1>7. ASSUME NEW to \in Labels \cup Peers, NEW cmd \in {"send", "pay"}, StartSend(p, cmd, to)
      PROVE  Ok
  <2> DEFINE ws == <<KeyOf(disk.config, to)>>
             r == [Idle EXCEPT !.at = "seal", !.cmd = cmd, !.cfg = disk.config,
                               !.cursors = disk.cursors, !.todo = ws]
  <2>1. /\ disk.config \in Config /\ disk.cursors \in Cursors
        /\ disk.config # Torn /\ disk.cursors # Torn
        /\ Resolves(disk.config, to) /\ Loads(p, {"config", "cursors"}, r)
    BY <1>7, DiskFacts DEF StartSend, Loads
  <2>2. ws \in Seq(Keys \cup {NoKey})
    <3>1. KeyOf(disk.config, to) \in Keys \cup {NoKey}
      BY <2>1, ResolveFacts
    <3> QED
      BY <1>c, <3>1
  <2> HIDE DEF ws
  <2>3. /\ r \in Process /\ r.at = "seal" /\ r.cmd = cmd /\ r.writes = <<>>
        /\ r.cursors = disk.cursors /\ r.cfg = disk.config /\ r.box = <<>>
        /\ r.batch = <<>> /\ r.found = {}
    BY <1>i, <2>1, <2>2 DEF Process, Sends
  <2> HIDE DEF r
  <2>4. Fresh(r)
    BY <2>1, <2>3 DEF Fresh, Sends
  <2> QED
    BY <1>b, <2>1, <2>4 DEF Files
<1> QED
  BY <1>1, <1>2, <1>3, <1>4, <1>5, <1>6, <1>7 DEF Commands

\* The steps of discoveries, syncs and reads: they leave the outbox alone.
Aside(p, r) ==
    /\ Becomes(p, r)
    /\ r.box = proc[p].box /\ r.loaded = proc[p].loaded /\ r.cmd = proc[p].cmd
    /\ r.batch = proc[p].batch
    /\ r.at \notin {"queued", "seal"} \cup Underway
    /\ \A n \in DOMAIN r.writes : r.writes[n][1] # "outbox"
    /\ disk'.outbox = disk.outbox /\ UNCHANGED <<lane, lost, runs, queued, doubt>>
    /\ "outbox" \in raced <=> "outbox" \in raced'
LEMMA AsideSteps ==
  ASSUME TInv, NEW p \in Procs,
         \/ Discovered(p) \/ DiscoverySkipped(p) \/ \E full \in BOOLEAN : StartEngine(p, full)
         \/ ReadLane(p) \/ ReadAll(p) \/ OpenTmp(p) \/ FillTmp(p)
  PROVE  \E r : Aside(p, r)
<1> DEFINE me == proc[p]
           k == Head(me.todo)
<1>0. me \in Process
  BY ProcessFacts
<1>a. /\ \A b : \A n \in DOMAIN <<<<"cursors", b>>>> : <<<<"cursors", b>>>>[n][1] # "outbox"
      /\ \A b : \A n \in DOMAIN <<<<"config", b>>>> : <<<<"config", b>>>>[n][1] # "outbox"
  OBVIOUS
<1>b. ASSUME NEW r, Goes(p, r), r.box = me.box, r.loaded = me.loaded, r.cmd = me.cmd,
             r.batch = me.batch, r.at \notin {"queued", "seal"} \cup Underway,
             \A n \in DOMAIN r.writes : r.writes[n][1] # "outbox"
      PROVE  Aside(p, r)
  BY <1>b DEF Aside, Goes, chain, bounds, ghosts
<1>1. CASE Discovered(p)
  <2> DEFINE cfg == Merged(me.cfg, Scan)
             at == IF me.cmd # "sync" THEN "done"
                   ELSE IF cfg # me.cfg THEN "reload" ELSE "engine"
             ws == IF cfg # me.cfg THEN <<<<"config", cfg>>>> ELSE <<>>
             r == [me EXCEPT !.at = at, !.writes = ws]
  <2>1. Goes(p, r)
    BY <1>1 DEF Discovered
  <2>2. at \in {"done", "reload", "engine"}
    OBVIOUS
  <2> HIDE DEF cfg, at
  <2>3. \A n \in DOMAIN ws : ws[n][1] # "outbox"
    BY <1>a
  <2> HIDE DEF ws
  <2>4. /\ r.box = me.box /\ r.loaded = me.loaded /\ r.cmd = me.cmd
        /\ r.batch = me.batch /\ r.at = at /\ r.writes = ws
    BY <1>0 DEF Process
  <2> HIDE DEF r
  <2> QED
    BY <1>b, <2>1, <2>2, <2>3, <2>4
<1>2. CASE DiscoverySkipped(p)
  <2> DEFINE r == [me EXCEPT !.at = "engine"]
  <2>1. Goes(p, r) /\ me.writes = <<>>
    BY <1>2 DEF DiscoverySkipped, At
  <2>2. /\ r.box = me.box /\ r.loaded = me.loaded /\ r.cmd = me.cmd
        /\ r.batch = me.batch /\ r.at = "engine" /\ r.writes = <<>>
    BY <1>0, <2>1 DEF Process
  <2> HIDE DEF r
  <2> QED
    BY <1>b, <2>1, <2>2
<1>3. CASE \E full \in BOOLEAN : StartEngine(p, full)
  <2>1. PICK full, cfg : LanesOf(p, cfg, full) /\ me.writes = <<>>
    BY <1>3 DEF StartEngine, At
  <2> DEFINE todo == (IF full THEN <<NoKey>> ELSE <<>>) \o Append(KeysOf(cfg), NoKey)
             r == [me EXCEPT !.at = "window", !.todo = todo]
  <2>2. /\ Goes(p, r)
        /\ r.box = me.box /\ r.loaded = me.loaded /\ r.cmd = me.cmd
        /\ r.batch = me.batch /\ r.at = "window" /\ r.writes = <<>>
    BY <1>0, <2>1 DEF LanesOf, Process
  <2> HIDE DEF r
  <2> QED
    BY <1>b, <2>2
<1>4. CASE ReadLane(p)
  <2> DEFINE r == [me EXCEPT !.todo = Tail(@), !.cursors[k] = Walked(k, @),
                             !.found = @ \cup Unread(k, me.cursors[k])]
  <2>1. Goes(p, r) /\ me.at = "read" /\ me.writes = <<>>
    BY <1>4 DEF ReadLane, At
  <2>2. /\ r.box = me.box /\ r.loaded = me.loaded /\ r.cmd = me.cmd
        /\ r.batch = me.batch /\ r.at = "read" /\ r.writes = <<>>
    BY <1>0, <2>1 DEF Process
  <2> HIDE DEF r
  <2> QED
    BY <1>b, <2>1, <2>2
<1>5. CASE ReadAll(p)
  <2> DEFINE ws == <<<<"cursors", me.cursors>>>>
             r == [me EXCEPT !.at = "print", !.writes = ws]
  <2>1. Goes(p, r)
    BY <1>5 DEF ReadAll
  <2>2. \A n \in DOMAIN ws : ws[n][1] # "outbox"
    BY <1>a
  <2> HIDE DEF ws
  <2>3. /\ r.box = me.box /\ r.loaded = me.loaded /\ r.cmd = me.cmd
        /\ r.batch = me.batch /\ r.at = "print" /\ r.writes = ws
    BY <1>0 DEF Process
  <2> HIDE DEF r
  <2> QED
    BY <1>b, <2>1, <2>2, <2>3
<1>6. CASE OpenTmp(p)
  <2> DEFINE r == [me EXCEPT !.at = "fill", !.fd = "tmp"]
  <2>1. /\ Becomes(p, r) /\ me.writes = <<>> /\ disk' = disk
        /\ UNCHANGED <<lane, lost, runs, queued, doubt>>
        /\ "outbox" \in raced <=> "outbox" \in raced'
    BY <1>6 DEF OpenTmp, At, chain, bounds
  <2>2. /\ r.box = me.box /\ r.loaded = me.loaded /\ r.cmd = me.cmd
        /\ r.batch = me.batch /\ r.at = "fill" /\ r.writes = <<>>
    BY <1>0, <2>1 DEF Process
  <2> HIDE DEF r
  <2>3. Aside(p, r)
    BY <2>1, <2>2 DEF Aside
  <2> QED
    BY <2>3
<1>7. CASE FillTmp(p)
  <2> DEFINE r == [me EXCEPT !.at = "rename", !.fd = "none"]
  <2>1. /\ Becomes(p, r) /\ me.writes = <<>> /\ disk'.outbox = disk.outbox
        /\ UNCHANGED <<lane, lost, runs, queued, raced, doubt>>
    BY <1>7 DEF FillTmp, At, chain, bounds, ghosts, TInv, Disk
  <2>2. /\ r.box = me.box /\ r.loaded = me.loaded /\ r.cmd = me.cmd
        /\ r.batch = me.batch /\ r.at = "rename" /\ r.writes = <<>>
    BY <1>0, <2>1 DEF Process
  <2> HIDE DEF r
  <2>3. Aside(p, r)
    BY <2>1, <2>2 DEF Aside
  <2> QED
    BY <2>3
<1> QED
  BY <1>b, <1>1, <1>2, <1>3, <1>4, <1>5, <1>6, <1>7

\* The steps of a sender.
Sealed(p, r, ids, box) ==
    LET me == proc[p] IN
    /\ me.at = "seal" /\ me.writes = <<>> /\ me.cmd \in Sends /\ Goes(p, r)
    /\ ids = IF me.cmd = "flush" THEN BatchFor(me, Head(me.todo)) ELSE <<0>>
    /\ box = Marked(me.box, Range(ids), "proving")
    /\ r.at = "submit" /\ r.batch = ids /\ r.box = box
    /\ r.index = Walked(Head(me.todo), me.cursors[Head(me.todo)])
    /\ r.writes = IF me.cmd = "flush" THEN <<<<"outbox", box>>>> ELSE <<>>
    /\ r.cmd = me.cmd /\ r.cfg = me.cfg /\ r.cursors = me.cursors
    /\ r.loaded = me.loaded /\ r.todo = me.todo /\ r.found = me.found
LEMMA SealStep ==
  ASSUME TInv, NEW p \in Procs, Seal(p)
  PROVE  \E r, ids, box : Sealed(p, r, ids, box)
<1> DEFINE me == proc[p]
           k == Head(me.todo)
           ids == IF me.cmd = "flush" THEN BatchFor(me, k) ELSE <<0>>
           box == Marked(me.box, Range(ids), "proving")
           ws == IF me.cmd = "flush" THEN <<<<"outbox", box>>>> ELSE <<>>
           index == Walked(k, me.cursors[k])
           r == [me EXCEPT !.at = "submit", !.batch = ids, !.box = box, !.attempt = 1,
                           !.index = index, !.writes = ws]
<1>1. me \in Process /\ Control(me)
  BY ProcessFacts
<1>2. At(p, "seal") /\ Goes(p, r)
  BY DEF Seal
<1>3. /\ ids = IF me.cmd = "flush" THEN BatchFor(me, k) ELSE <<0>>
      /\ box = Marked(me.box, Range(ids), "proving")
      /\ ws = IF me.cmd = "flush" THEN <<<<"outbox", box>>>> ELSE <<>>
      /\ index = Walked(k, me.cursors[k])
  OBVIOUS
<1> HIDE DEF ids, box, ws, index
<1>4. /\ r.at = "submit" /\ r.batch = ids /\ r.box = box /\ r.index = index /\ r.writes = ws
      /\ r.cmd = me.cmd /\ r.cfg = me.cfg /\ r.cursors = me.cursors
      /\ r.loaded = me.loaded /\ r.todo = me.todo /\ r.found = me.found
  BY <1>1 DEF Process
<1> HIDE DEF r
<1>5. Sealed(p, r, ids, box)
  BY <1>1, <1>2, <1>3, <1>4 DEF Sealed, At, Control
<1> QED
  BY <1>5

Broadcasted(p, r, box) ==
    LET me == proc[p] IN
    /\ me.at = "submit" /\ me.writes = <<>> /\ me.cmd \in Sends /\ Goes(p, r)
    /\ box = Marked(me.box, Range(me.batch), "submitted")
    /\ r.at = "sent" /\ r.batch = me.batch /\ r.box = box /\ r.index = me.index
    /\ r.writes = IF me.cmd = "flush" THEN <<<<"outbox", box>>>> ELSE <<>>
    /\ r.cmd = me.cmd /\ r.cfg = me.cfg /\ r.cursors = me.cursors
    /\ r.loaded = me.loaded /\ r.todo = me.todo /\ r.found = me.found
LEMMA BroadcastStep ==
  ASSUME TInv, NEW p \in Procs, Broadcast(p)
  PROVE  \E r, box : Broadcasted(p, r, box)
<1> DEFINE me == proc[p]
           box == Marked(me.box, Range(me.batch), "submitted")
           ws == IF me.cmd = "flush" THEN <<<<"outbox", box>>>> ELSE <<>>
           r == [me EXCEPT !.at = "sent", !.box = box, !.writes = ws]
<1>1. me \in Process /\ Control(me)
  BY ProcessFacts
<1>2. At(p, "submit") /\ Goes(p, r)
  BY DEF Broadcast
<1>3. /\ box = Marked(me.box, Range(me.batch), "submitted")
      /\ ws = IF me.cmd = "flush" THEN <<<<"outbox", box>>>> ELSE <<>>
  OBVIOUS
<1> HIDE DEF box, ws
<1>4. /\ r.at = "sent" /\ r.batch = me.batch /\ r.box = box /\ r.index = me.index
      /\ r.writes = ws /\ r.cmd = me.cmd /\ r.cfg = me.cfg /\ r.cursors = me.cursors
      /\ r.loaded = me.loaded /\ r.todo = me.todo /\ r.found = me.found
  BY <1>1 DEF Process
<1> HIDE DEF r
<1>5. Broadcasted(p, r, box)
  BY <1>1, <1>2, <1>3, <1>4 DEF Broadcasted, At, Control
<1> QED
  BY <1>5

\* The batch of a process lands at its index, whoever still waits for it.
Grows(k, index, batch) ==
    /\ Len(lane[k]) = index
    /\ lane' = [lane EXCEPT ![k] = @ \o batch]

Included(p, r) ==
    LET me == proc[p] IN
    /\ me.at = "sent" /\ me.writes = <<>> /\ me.cmd \in Sends /\ Becomes(p, r)
    /\ Grows(Head(me.todo), me.index, me.batch)
    /\ UNCHANGED <<disk, lost, runs, ghosts>>
    /\ r.at = "landed" /\ r.batch = me.batch /\ r.box = me.box /\ r.index = me.index
    /\ r.writes = <<>>
    /\ r.cmd = me.cmd /\ r.cfg = me.cfg /\ r.cursors = me.cursors
    /\ r.loaded = me.loaded /\ r.todo = me.todo /\ r.found = me.found
LEMMA IncludeStep ==
  ASSUME TInv, NEW p \in Procs, Include(p)
  PROVE  \E r : Included(p, r)
<1> DEFINE me == proc[p]
           r == [me EXCEPT !.at = "landed"]
<1>1. me \in Process /\ Control(me)
  BY ProcessFacts
<1>2. /\ At(p, "sent") /\ Becomes(p, r)
      /\ Grows(Head(me.todo), me.index, me.batch)
      /\ UNCHANGED <<disk, lost, runs, ghosts>>
  BY DEF Include, Lands, Tx, Grows, bounds
<1>3. /\ r.at = "landed" /\ r.batch = me.batch /\ r.box = me.box /\ r.index = me.index
      /\ r.writes = me.writes /\ r.cmd = me.cmd /\ r.cfg = me.cfg /\ r.cursors = me.cursors
      /\ r.loaded = me.loaded /\ r.todo = me.todo /\ r.found = me.found
  BY <1>1 DEF Process
<1> HIDE DEF r
<1>4. Included(p, r)
  BY <1>1, <1>2, <1>3 DEF Included, At, Control
<1> QED
  BY <1>4

Retried(p, r) ==
    LET me == proc[p] IN
    /\ me.at \in Underway /\ me.writes = <<>> /\ me.cmd = "flush" /\ Becomes(p, r)
    /\ UNCHANGED <<disk, tmp, lane, runs, printed, queued, kept, raced, missed>>
    /\ \/ me.at # "landed" /\ lost' = lost /\ doubt' = doubt
       \/ /\ lost' = IF me.at = "landed" THEN lost ELSE lost \cup {Tx(me)}
          /\ doubt' = doubt \cup Range(me.batch)
    /\ r.at = "submit" /\ r.batch = me.batch /\ r.box = me.box /\ r.writes = <<>>
    /\ r.cmd = me.cmd /\ r.cfg = me.cfg /\ r.cursors = me.cursors
    /\ r.loaded = me.loaded /\ r.todo = me.todo /\ r.found = me.found
LEMMA RetryStep ==
  ASSUME TInv, NEW p \in Procs, Refused(p) \/ Reseal(p) \/ AnswerLost(p)
  PROVE  \E r : Retried(p, r)
<1> DEFINE me == proc[p]
<1>1. me \in Process
  BY ProcessFacts
<1>2. PICK index : Retries(p, index)
  BY DEF Refused, Reseal, AnswerLost
<1> DEFINE r == [me EXCEPT !.at = "submit", !.index = index, !.attempt = @ + 1]
<1>3. /\ me.cmd = "flush" /\ Becomes(p, r)
      /\ UNCHANGED <<disk, tmp, lane, runs, printed, queued, kept, raced, missed>>
  BY <1>2 DEF Retries, bounds
<1>4. /\ me.at \in Underway /\ me.writes = <<>>
      /\ \/ me.at # "landed" /\ lost' = lost /\ doubt' = doubt
         \/ /\ lost' = IF me.at = "landed" THEN lost ELSE lost \cup {Tx(me)}
            /\ doubt' = doubt \cup Range(me.batch)
  BY DEF Refused, Reseal, AnswerLost, At
<1>5. /\ r.at = "submit" /\ r.batch = me.batch /\ r.box = me.box
      /\ r.writes = me.writes /\ r.cmd = me.cmd /\ r.cfg = me.cfg /\ r.cursors = me.cursors
      /\ r.loaded = me.loaded /\ r.todo = me.todo /\ r.found = me.found
  BY <1>1 DEF Process
<1> HIDE DEF r
<1>6. Retried(p, r)
  BY <1>3, <1>4, <1>5 DEF Retried
<1> QED
  BY <1>6

Confirmed(p, r, box, cfg, cursors) ==
    LET me == proc[p]
        k == Head(me.todo)
    IN
    /\ me.at = "landed" /\ me.writes = <<>> /\ me.cmd \in Sends /\ Goes(p, r)
    /\ box = Marked(me.box, Range(me.batch), "confirmed")
    /\ cfg = IF me.cmd = "pay" THEN me.cfg ELSE MarkSetup(me.cfg, k)
    /\ cursors = [me.cursors EXCEPT ![k] = me.index + Len(me.batch)]
    /\ \A n \in DOMAIN r.writes : \/ me.cmd = "flush" /\ r.writes[n] = <<"outbox", box>>
                                  \/ r.writes[n] = <<"config", cfg>>
                                  \/ r.writes[n] = <<"cursors", cursors>>
    /\ r.at = IF Len(me.todo) = 1 THEN "done" ELSE "seal"
    /\ r.todo = Tail(me.todo) /\ r.box = box /\ r.cfg = cfg /\ r.cursors = cursors
    /\ r.cmd = me.cmd /\ r.batch = me.batch /\ r.index = me.index
    /\ r.loaded = me.loaded /\ r.found = me.found
LEMMA ConfirmStep ==
  ASSUME TInv, NEW p \in Procs, Confirm(p)
  PROVE  \E r, box, cfg, cursors : Confirmed(p, r, box, cfg, cursors)
<1> DEFINE me == proc[p]
           k == Head(me.todo)
           box == Marked(me.box, Range(me.batch), "confirmed")
           cfg == IF me.cmd = "pay" THEN me.cfg ELSE MarkSetup(me.cfg, k)
           cursors == [me.cursors EXCEPT ![k] = me.index + Len(me.batch)]
           a == IF me.cmd = "flush" THEN <<<<"outbox", box>>>> ELSE <<>>
           b == IF cfg # me.cfg THEN <<<<"config", cfg>>>> ELSE <<>>
           ws == a \o b \o <<<<"cursors", cursors>>>>
           at == IF Len(me.todo) = 1 THEN "done" ELSE "seal"
           r == [me EXCEPT !.at = at, !.todo = Tail(@), !.box = box, !.cfg = cfg,
                           !.cursors = cursors, !.writes = ws]
<1>1. me \in Process /\ Control(me)
  BY ProcessFacts
<1>2. At(p, "landed") /\ Goes(p, r)
  BY DEF Confirm
<1>3. Left(box, cfg, cursors, a, b, ws)
  BY ConfirmLeft
<1>4. /\ box = Marked(me.box, Range(me.batch), "confirmed")
      /\ cfg = IF me.cmd = "pay" THEN me.cfg ELSE MarkSetup(me.cfg, k)
      /\ cursors = [me.cursors EXCEPT ![k] = me.index + Len(me.batch)]
      /\ at = IF Len(me.todo) = 1 THEN "done" ELSE "seal"
  OBVIOUS
<1> HIDE DEF box, cfg, cursors, at
<1>5. a # <<>> => me.cmd = "flush"
  OBVIOUS
<1> HIDE DEF a, b, ws
<1>6. \A n \in DOMAIN ws : \/ me.cmd = "flush" /\ ws[n] = <<"outbox", box>>
                           \/ ws[n] = <<"config", cfg>>
                           \/ ws[n] = <<"cursors", cursors>>
  BY <1>3, <1>5 DEF Left
<1>7. /\ r.at = at /\ r.todo = Tail(me.todo) /\ r.box = box /\ r.cfg = cfg
      /\ r.cursors = cursors /\ r.writes = ws
      /\ r.cmd = me.cmd /\ r.batch = me.batch /\ r.index = me.index
      /\ r.loaded = me.loaded /\ r.found = me.found
  BY <1>1 DEF Process
<1> HIDE DEF r
<1>8. Confirmed(p, r, box, cfg, cursors)
  BY <1>1, <1>2, <1>4, <1>6, <1>7 DEF Confirmed, At, Control
<1> QED
  BY <1>8

-----------------------------------------------------------------------------
(***************************************************************************)
(* The history is never torn.                                              *)
(***************************************************************************)

\* A step that stays clear of the temporary file.
LEMMA SyncClear ==
  ASSUME SyncInv, disk'.sync = disk.sync, tmp' = tmp, "sync" \in raced => "sync" \in raced',
         \A q \in Procs : proc'[q].at \in {"fill", "rename"} =>
             proc'[q].at = proc[q].at /\ proc'[q].fd = proc[q].fd
  PROVE  SyncInv'
BY DEF SyncInv

\* The same, for a process that goes on elsewhere.
LEMMA SyncElsewhere ==
  ASSUME TInv, SyncInv, NEW p \in Procs, NEW r, Becomes(p, r), r.at \notin {"fill", "rename"},
         disk'.sync = disk.sync, tmp' = tmp, "sync" \in raced => "sync" \in raced'
  PROVE  SyncInv'
<1>1. proc'[p] = r /\ \A q \in Procs : q # p => proc'[q] = proc[q]
  BY Others
<1>2. \A q \in Procs : proc'[q].at \in {"fill", "rename"} =>
          proc'[q].at = proc[q].at /\ proc'[q].fd = proc[q].fd
  BY <1>1
<1> QED
  BY <1>2, SyncClear

LEMMA SyncGoes ==
  ASSUME TInv, SyncInv, NEW p \in Procs, NEW r, Goes(p, r), r.at \notin {"fill", "rename"}
  PROVE  SyncInv'
BY SyncElsewhere DEF Goes, ghosts

\* The rename: every process keeps its copies, and whoever has the temporary
\* file open has the history open from now on.
LEMMA Renamed ==
  ASSUME TInv, NEW p \in Procs, RenameTmp(p), NEW q \in Procs
  PROVE  /\ proc'[q].writes = proc[q].writes /\ proc'[q].loaded = proc[q].loaded
         /\ proc'[q].cfg = proc[q].cfg /\ proc'[q].cmd = proc[q].cmd
         /\ proc'[q].box = proc[q].box /\ proc'[q].cursors = proc[q].cursors
         /\ proc'[q].index = proc[q].index /\ proc'[q].batch = proc[q].batch
         /\ proc'[q].found = proc[q].found
         /\ proc'[q].at = proc[q].at \/ (proc[q].at = "rename" /\ proc'[q].at \in {"done", "window"})
         /\ q # p => proc'[q].todo = proc[q].todo /\ proc'[q].at = proc[q].at
<1>0. proc[q] \in Process
  BY ProcessFacts
<1>1. CASE q = p
  <2> DEFINE at == IF Len(proc[p].todo) = 1 THEN "done" ELSE "window"
  <2>1. /\ proc'[p] = [proc[p] EXCEPT !.todo = Tail(@), !.at = at]
        /\ proc[p].at = "rename"
    BY <1>1 DEF RenameTmp, At
  <2>2. at \in {"done", "window"}
    OBVIOUS
  <2> HIDE DEF at
  <2> QED
    BY <1>0, <1>1, <2>1, <2>2 DEF Process
<1>2. CASE q # p
  <2>1. proc'[q] = proc[q] \/ proc'[q] = [proc[q] EXCEPT !.fd = "sync"]
    BY <1>2 DEF RenameTmp
  <2> QED
    BY <1>0, <1>2, <2>1 DEF Process
<1> QED
  BY <1>1, <1>2

\* The steps in which a process goes on with its own copies only.
LEMMA GoesOn ==
  ASSUME TInv, NEW p \in Procs,
         \/ Discovered(p) \/ DiscoverySkipped(p) \/ \E full \in BOOLEAN : StartEngine(p, full)
         \/ Seal(p) \/ Broadcast(p) \/ Confirm(p) \/ ReadLane(p) \/ ReadAll(p)
  PROVE  \E r : Goes(p, r) /\ r.at \notin {"fill", "rename"}
<1> DEFINE me == proc[p]
<1>0. me \in Process
  BY ProcessFacts
<1>1. ASSUME NEW a, a \notin {"fill", "rename"}, NEW r, Goes(p, r), r.at = a
      PROVE  \E x : Goes(p, x) /\ x.at \notin {"fill", "rename"}
  BY <1>1
<1>2. CASE Discovered(p)
  <2> DEFINE cfg == Merged(me.cfg, Scan)
             at == IF me.cmd # "sync" THEN "done"
                   ELSE IF cfg # me.cfg THEN "reload" ELSE "engine"
             r == [me EXCEPT !.at = at, !.writes = IF cfg # me.cfg THEN <<<<"config", cfg>>>> ELSE <<>>]
  <2>1. Goes(p, r)
    BY <1>2 DEF Discovered
  <2>2. r.at = at
    BY <1>0 DEF Process
  <2>3. at \notin {"fill", "rename"}
    OBVIOUS
  <2> HIDE DEF r, at
  <2> QED
    BY <2>1, <2>2, <2>3
<1>3. CASE DiscoverySkipped(p)
  <2> DEFINE r == [me EXCEPT !.at = "engine"]
  <2>1. Goes(p, r) /\ r.at = "engine"
    BY <1>0, <1>3 DEF DiscoverySkipped, Process
  <2> HIDE DEF r
  <2> QED
    BY <2>1
<1>4. CASE \E full \in BOOLEAN : StartEngine(p, full)
  <2>1. PICK full, cfg : LanesOf(p, cfg, full)
    BY <1>4 DEF StartEngine
  <2> DEFINE todo == (IF full THEN <<NoKey>> ELSE <<>>) \o Append(KeysOf(cfg), NoKey)
             r == [me EXCEPT !.at = "window", !.todo = todo]
  <2>2. Goes(p, r) /\ r.at = "window"
    BY <1>0, <2>1 DEF LanesOf, Process
  <2> HIDE DEF r
  <2> QED
    BY <2>2
<1>5. CASE Seal(p)
  BY <1>5, SealStep DEF Sealed
<1>5a. CASE Broadcast(p)
  BY <1>5a, BroadcastStep DEF Broadcasted
<1>6. CASE Confirm(p)
  <2> DEFINE k == Head(me.todo)
             box == Marked(me.box, Range(me.batch), "confirmed")
             cfg == IF me.cmd = "pay" THEN me.cfg ELSE MarkSetup(me.cfg, k)
             cursors == [me.cursors EXCEPT ![k] = me.index + Len(me.batch)]
             at == IF Len(me.todo) = 1 THEN "done" ELSE "seal"
             ws == (IF me.cmd = "flush" THEN <<<<"outbox", box>>>> ELSE <<>>)
                   \o (IF cfg # me.cfg THEN <<<<"config", cfg>>>> ELSE <<>>)
                   \o <<<<"cursors", cursors>>>>
             r == [me EXCEPT !.at = at, !.todo = Tail(@), !.box = box, !.cfg = cfg,
                             !.cursors = cursors, !.writes = ws]
  <2>1. Goes(p, r)
    BY <1>6 DEF Confirm
  <2>2. r.at = at
    BY <1>0 DEF Process
  <2>3. at \notin {"fill", "rename"}
    OBVIOUS
  <2> HIDE DEF r, at
  <2> QED
    BY <2>1, <2>2, <2>3
<1>7. CASE ReadLane(p)
  <2> DEFINE k == Head(me.todo)
             r == [me EXCEPT !.todo = Tail(@), !.cursors[k] = Walked(k, @),
                             !.found = @ \cup Unread(k, me.cursors[k])]
  <2>1. Goes(p, r) /\ me.at = "read"
    BY <1>7 DEF ReadLane, At
  <2>2. r.at = me.at
    BY <1>0 DEF Process
  <2> HIDE DEF r
  <2> QED
    BY <2>1, <2>2
<1>8. CASE ReadAll(p)
  <2> DEFINE r == [me EXCEPT !.at = "print", !.writes = <<<<"cursors", me.cursors>>>>]
  <2>1. Goes(p, r) /\ r.at = "print"
    BY <1>0, <1>8 DEF ReadAll, Process
  <2> HIDE DEF r
  <2> QED
    BY <2>1
<1> QED
  BY <1>2, <1>3, <1>4, <1>5, <1>5a, <1>6, <1>7, <1>8

LEMMA SyncSteps ==
  ASSUME TInv, SyncInv, NEW p \in Procs, Steps(p)
  PROVE  SyncInv'
<1> DEFINE me == proc[p]
<1>0. me \in Process /\ Control(me)
  BY ProcessFacts
<1>1. CASE Write(p)
  <2>1. disk'.sync = disk.sync /\ tmp' = tmp /\ ("sync" \in raced => "sync" \in raced')
    BY <1>1, Written DEF TInv, Disk, Write
  <2> QED
    BY <1>1, <2>1, Written, SyncClear
<1>2. CASE Done(p) \/ Ends(p) \/ Queued(p) \/ PrintFound(p)
  <2>1. Becomes(p, Idle) /\ disk' = disk /\ tmp' = tmp /\ raced' = raced
    BY <1>2 DEF Done, Ends, Queued, PrintFound, Goes, ghosts
  <2> QED
    BY <2>1, SyncElsewhere DEF Idle
<1>3. CASE Tear(p)
  <2>1. CASE "sync" \in raced
    BY <1>3, <2>1 DEF SyncInv, Tear, ghosts
  <2>2. CASE "sync" \notin raced
    <3>1. me.fd # "sync"
      BY <1>0, <2>2 DEF SyncInv, Control
    <3>2. disk'.sync = disk.sync
      BY <1>3, <3>1, PendingFacts DEF Tear, TInv, Disk
    <3> QED
      BY <1>3, <3>2, SyncElsewhere DEF Tear, ghosts, Idle
  <2> QED
    BY <2>1, <2>2
<1>4. CASE \/ Discovered(p) \/ DiscoverySkipped(p) \/ \E full \in BOOLEAN : StartEngine(p, full)
           \/ Seal(p) \/ Broadcast(p) \/ Confirm(p) \/ ReadLane(p) \/ ReadAll(p)
  <2>1. \E r : Goes(p, r) /\ r.at \notin {"fill", "rename"}
    BY <1>4, GoesOn
  <2> QED
    BY <2>1, SyncGoes
<1>5. CASE Include(p)
  <2>1. PICK r : Included(p, r)
    BY <1>5, IncludeStep
  <2> QED
    BY <1>5, <2>1, SyncElsewhere DEF Included, Include, ghosts
<1>5a. CASE Refused(p) \/ Reseal(p) \/ AnswerLost(p)
  <2>1. PICK r : Retried(p, r)
    BY <1>5a, RetryStep
  <2> QED
    BY <2>1, SyncElsewhere DEF Retried
<1>6. CASE OpenTmp(p)
  <2>1. CASE "sync" \in raced'
    BY <2>1 DEF SyncInv
  <2>2. CASE "sync" \notin raced'
    <3>1. \A q \in Procs \ {p} : proc[q].at \notin {"fill", "rename"}
      BY <1>6, <2>2 DEF OpenTmp
    <3>2. "sync" \notin raced /\ disk' = disk
      BY <1>6, <2>2 DEF OpenTmp
    <3>3. proc'[p] = [me EXCEPT !.at = "fill", !.fd = "tmp"]
          /\ \A q \in Procs : q # p => proc'[q] = proc[q]
      BY <1>6, Others DEF OpenTmp
    <3>4. proc'[p].at = "fill" /\ proc'[p].fd = "tmp"
      BY <1>0, <3>3 DEF Process
    <3> QED
      BY <3>1, <3>2, <3>3, <3>4 DEF SyncInv
  <2> QED
    BY <2>1, <2>2
<1>7. CASE FillTmp(p)
  <2>1. CASE "sync" \in raced
    BY <1>7, <2>1 DEF SyncInv, FillTmp, ghosts
  <2>2. CASE "sync" \notin raced
    <3>1. me.at = "fill" /\ me.fd = "tmp" /\ disk' = disk /\ tmp' = "whole" /\ raced' = raced
      BY <1>7, <2>2 DEF SyncInv, FillTmp, At, ghosts
    <3>2. proc'[p] = [me EXCEPT !.at = "rename", !.fd = "none"]
          /\ \A q \in Procs : q # p => proc'[q] = proc[q]
      BY <1>7, Others DEF FillTmp
    <3>3. proc'[p].at = "rename"
      BY <1>0, <3>2 DEF Process
    <3>4. \A q \in Procs : q # p => proc[q].at \notin {"fill", "rename"}
      BY <2>2, <3>1 DEF SyncInv
    <3> QED
      BY <2>2, <3>1, <3>2, <3>3, <3>4 DEF SyncInv
  <2> QED
    BY <2>1, <2>2
<1>8. CASE RenameTmp(p)
  <2>1. CASE "sync" \in raced
    BY <1>8, <2>1 DEF SyncInv, RenameTmp, ghosts
  <2>2. CASE "sync" \notin raced
    <3>1. me.at = "rename" /\ tmp = "whole" /\ raced' = raced
      BY <1>8, <2>2 DEF SyncInv, RenameTmp, At, ghosts
    <3>2. disk'.sync # Torn
      BY <1>8, <3>1, FilesAssumption DEF RenameTmp, TInv, Disk
    <3>3. \A q \in Procs : q # p => proc[q].at \notin {"fill", "rename"}
      BY <2>2, <3>1 DEF SyncInv
    <3>4. \A q \in Procs : proc'[q].at \notin {"fill", "rename"}
      <4> TAKE q \in Procs
      <4>1. CASE q = p
        <5>1. proc'[p] = [me EXCEPT !.todo = Tail(@),
                              !.at = IF Len(me.todo) = 1 THEN "done" ELSE "window"]
          BY <1>8 DEF RenameTmp
        <5> QED
          BY <1>0, <4>1, <5>1 DEF Process
      <4>2. CASE q # p
        <5>1. proc[q].fd # "tmp"
          BY <3>3, <4>2, ProcessFacts DEF Control
        <5>2. proc'[q] = proc[q]
          BY <1>8, <4>2, <5>1 DEF RenameTmp
        <5> QED
          BY <3>3, <4>2, <5>2
      <4> QED
        BY <4>1, <4>2
    <3> QED
      BY <3>1, <3>2, <3>4 DEF SyncInv
  <2> QED
    BY <2>1, <2>2
<1> QED
  BY <1>1, <1>2, <1>3, <1>4, <1>5, <1>5a, <1>6, <1>7, <1>8 DEF Steps

LEMMA SyncNext == TInv /\ SyncInv /\ [Next]_vars => SyncInv'
<1> SUFFICES ASSUME TInv, SyncInv, [Next]_vars PROVE SyncInv'
  OBVIOUS
<1>1. ASSUME NEW p \in Procs, Commands(p) PROVE SyncInv'
  BY <1>1, Started, SyncElsewhere DEF Fresh
<1>2. ASSUME NEW p \in Procs, Steps(p) PROVE SyncInv'
  BY <1>2, SyncSteps
<1>3. ASSUME NEW q \in Peers, NEW m \in PeerPost, PeerPosts(q, m) PROVE SyncInv'
  BY <1>3 DEF PeerPosts, ghosts, SyncInv
<1>3a. ASSUME NEW t \in lost, IncludeLost(t) PROVE SyncInv'
  BY <1>3a DEF IncludeLost, ghosts, SyncInv
<1>4. CASE UNCHANGED vars
  BY <1>4 DEF vars, ghosts, SyncInv
<1> QED
  BY <1>1, <1>2, <1>3, <1>3a, <1>4 DEF Next

\* A sync that is killed tears sync.json never: it is renamed into place when
\* it is whole, unless two syncs share the one temporary file (saveSnapshot).
THEOREM HistoryIsWhole == Spec => []SnapshotWhole
<1>1. Init => TInv /\ SyncInv
  <2> SUFFICES ASSUME Init PROVE SyncInv
    BY InitTyped
  <2>1. disk.sync = "whole" /\ proc = [p \in Procs |-> Idle]
    BY DEF Init
  <2> QED
    BY <2>1, FilesAssumption DEF SyncInv, Idle
<1>2. TInv /\ SyncInv /\ [Next]_vars => (TInv /\ SyncInv)'
  BY NextTyped, SyncNext
<1>3. SyncInv => SnapshotWhole
  BY DEF SyncInv, SnapshotWhole
<1> QED
  BY <1>1, <1>2, <1>3, PTL DEF Spec

-----------------------------------------------------------------------------
(***************************************************************************)
(* The channels that are configured stay.                                  *)
(***************************************************************************)

\* A step that writes no configuration: what the process has pending still
\* holds the channels that are kept.
LEMMA ConfigElsewhere ==
  ASSUME TInv, ConfigInv, NEW p \in Procs, NEW r, Becomes(p, r), kept' = kept,
         disk'.config = disk.config \/ disk'.config = Torn,
         "config" \in raced => "config" \in raced',
         "config" \notin raced => KeepsChannels(r)
  PROVE  ConfigInv'
<1>1. proc'[p] = r /\ \A q \in Procs : q # p => proc'[q] = proc[q]
  BY Others
<1>2. ASSUME NEW q \in Procs, "config" \notin raced PROVE KeepsChannels(proc'[q])
  BY <1>1, <1>2 DEF ConfigInv
<1>3. ASSUME NEW q \in Procs, "config" \notin raced PROVE KeepsChannels(proc[q])'
  BY <1>2, <1>3 DEF KeepsChannels, WillKeep
<1> QED
  BY <1>3 DEF ConfigInv

LEMMA ConfigGoes ==
  ASSUME TInv, ConfigInv, NEW p \in Procs, NEW r, Goes(p, r),
         "config" \notin raced => KeepsChannels(r)
  PROVE  ConfigInv'
BY ConfigElsewhere DEF Goes, ghosts

\* A step of the same command that leaves its configuration alone.
LEMMA ConfigSame ==
  ASSUME TInv, ConfigInv, NEW p \in Procs, NEW r,
         r.loaded = proc[p].loaded, r.cfg = proc[p].cfg, r.cmd = proc[p].cmd,
         r.at \in {"scan", "seal"} \cup Underway =>
             proc[p].at \in {"scan", "seal"} \cup Underway,
         \A n \in DOMAIN r.writes : r.writes[n][1] # "config"
  PROVE  "config" \notin raced => KeepsChannels(r)
BY DEF ConfigInv, KeepsChannels

LEMMA ConfigWrite ==
  ASSUME TInv, ConfigInv, NEW p \in Procs, Write(p)
  PROVE  ConfigInv'
<1> DEFINE me == proc[p]
           w == me.writes
           f == Head(w)[1]
           v == Head(w)[2]
<1>1. /\ 1 \in DOMAIN w /\ w[1] = Head(w) /\ Head(w) = <<f, v>>
      /\ WriteOK(me, Head(w))
      /\ \A n \in DOMAIN Tail(w) : /\ n + 1 \in DOMAIN w /\ Tail(w)[n] = w[n + 1]
                                   /\ Tail(w)[n][1] # f
  BY PendingFacts DEF Write
<1>2. /\ w # <<>> /\ f \in {"config", "cursors", "outbox"}
      /\ disk' = [disk EXCEPT ![f] = v]
      /\ raced' = IF f \in me.loaded THEN raced ELSE raced \cup {f}
      /\ proc'[p].writes = Tail(w) /\ proc'[p].loaded = me.loaded \cup {f}
      /\ \A q \in Procs :
             /\ proc'[q].at = proc[q].at /\ proc'[q].cmd = proc[q].cmd
             /\ proc'[q].cfg = proc[q].cfg
             /\ q # p => /\ proc'[q].writes = proc[q].writes
                         /\ proc'[q].loaded = proc[q].loaded \ {f}
  BY Written
<1>3. Keeps(p, f, v) /\ disk \in Disk
  BY DEF Write, TInv
<1> HIDE DEF f, v, w
<1>4. CASE "config" \in raced'
  BY <1>4 DEF ConfigInv
<1>5. CASE "config" \notin raced' /\ f = "config"
  <2>1. "config" \notin raced /\ "config" \in me.loaded /\ disk'.config = v
    BY <1>2, <1>3, <1>5 DEF Disk
  <2>2. WillKeep(me, v)
    BY <1>1, <1>5, <2>1 DEF ConfigInv, KeepsChannels, w
  <2>3. kept' \subseteq Named(v)
    BY <1>3, <1>5, <2>2 DEF Keeps, WillKeep
  <2>4. ASSUME NEW q \in Procs PROVE KeepsChannels(proc[q])'
    <3>1. CASE q # p
      BY <1>2, <1>5, <3>1 DEF KeepsChannels
    <3>2. CASE q = p
      <4>1. me.at \in {"done", "reload", "seal"} /\ (me.cmd \in Sends => v = me.cfg)
        BY <1>1, <1>5 DEF WriteOK
      <4>2. me.at = "seal" => kept' \subseteq Named(me.cfg)
        BY <2>3, <4>1, ProcessFacts DEF Control
      <4>3. \A n \in DOMAIN Tail(w) : Tail(w)[n][1] # "config"
        BY <1>1, <1>5
      <4> QED
        BY <1>2, <3>2, <4>1, <4>2, <4>3 DEF KeepsChannels
    <3> QED
      BY <3>1, <3>2
  <2> QED
    BY <2>1, <2>3, <2>4 DEF ConfigInv
<1>6. CASE "config" \notin raced' /\ f # "config"
  <2>1. "config" \notin raced /\ disk'.config = disk.config /\ kept' = kept
    <3>1. "config" \notin raced
      BY <1>2, <1>6
    <3>2. disk'.config = disk.config
      BY <1>2, <1>3, <1>6 DEF Disk
    <3>3. kept' = kept
      BY <1>3, <1>6 DEF Keeps
    <3> QED
      BY <3>1, <3>2, <3>3
  <2>2. ASSUME NEW q \in Procs PROVE KeepsChannels(proc[q])'
    <3>1. "config" \in proc'[q].loaded => "config" \in proc[q].loaded
      BY <1>2, <1>6
    <3>2. \A n \in DOMAIN proc'[q].writes : \E m \in DOMAIN proc[q].writes :
              proc'[q].writes[n] = proc[q].writes[m]
      <4>1. CASE q # p
        BY <1>2, <4>1
      <4>2. CASE q = p
        <5>1. \A n \in DOMAIN Tail(w) : Tail(w)[n] = w[n + 1] /\ n + 1 \in DOMAIN w
          BY <1>1
        <5>2. proc'[q].writes = Tail(w) /\ proc[q].writes = w
          BY <1>2, <4>2 DEF w
        <5> QED
          BY <5>1, <5>2
      <4> QED
        BY <4>1, <4>2
    <3>3. KeepsChannels(proc[q])
      BY <2>1 DEF ConfigInv
    <3> QED
      BY <1>2, <2>1, <3>1, <3>2, <3>3 DEF KeepsChannels, WillKeep
  <2> QED
    BY <2>1, <2>2 DEF ConfigInv
<1> QED
  BY <1>4, <1>5, <1>6

LEMMA ConfigSteps ==
  ASSUME TInv, ConfigInv, NEW p \in Procs, Steps(p)
  PROVE  ConfigInv'
<1> DEFINE me == proc[p]
           k == Head(me.todo)
<1>0. /\ me \in Process /\ Control(me) /\ me.cfg \in Config
  BY ProcessFacts
<1>a. /\ \A b : \A n \in DOMAIN <<<<"outbox", b>>>> : <<<<"outbox", b>>>>[n][1] = "outbox"
      /\ \A b : \A n \in DOMAIN <<<<"cursors", b>>>> : <<<<"cursors", b>>>>[n][1] = "cursors"
      /\ \A b : \A n \in DOMAIN <<<<"config", b>>>> : <<<<"config", b>>>>[n] = <<"config", b>>
  OBVIOUS
<1>1. CASE Done(p) \/ Ends(p) \/ Queued(p) \/ PrintFound(p) \/ Tear(p)
  <2>1. Becomes(p, Idle) /\ kept' = kept /\ raced' = raced
    BY <1>1 DEF Done, Ends, Queued, PrintFound, Tear, Goes, ghosts
  <2>2. disk'.config = disk.config \/ disk'.config = Torn
    <3>1. CASE Tear(p)
      <4>1. \E f : disk' = [disk EXCEPT ![f] = Torn]
        BY <3>1 DEF Tear
      <4> QED
        BY <4>1 DEF TInv, Disk
    <3>2. CASE ~ Tear(p)
      BY <1>1, <3>2 DEF Done, Ends, Queued, PrintFound, Goes
    <3> QED
      BY <3>1, <3>2
  <2>3. KeepsChannels(Idle)
    BY DEF KeepsChannels, Idle
  <2> QED
    BY <2>1, <2>2, <2>3, ConfigElsewhere
<1>2. CASE Discovered(p)
  <2> DEFINE cfg == Merged(me.cfg, Scan)
             at == IF me.cmd # "sync" THEN "done"
                   ELSE IF cfg # me.cfg THEN "reload" ELSE "engine"
             ws == IF cfg # me.cfg THEN <<<<"config", cfg>>>> ELSE <<>>
             r == [me EXCEPT !.at = at, !.writes = ws]
  <2>1. At(p, "scan") /\ Goes(p, r)
    BY <1>2 DEF Discovered
  <2>2. Named(me.cfg) \subseteq Named(cfg)
    BY <1>0, MergedFacts, ScanFacts DEF TInv
  <2>3. me.cmd \in {"discover", "sync"} /\ me.at = "scan"
    BY <1>0, <2>1 DEF At, Control
  <2>4. at \in {"done", "reload", "engine"}
    OBVIOUS
  <2> HIDE DEF cfg, at
  <2>5. \A n \in DOMAIN ws : ws[n] = <<"config", cfg>>
    BY <1>a
  <2> HIDE DEF ws
  <2>6. r.at = at /\ r.cmd = me.cmd /\ r.loaded = me.loaded /\ r.writes = ws
    BY <1>0 DEF Process
  <2> HIDE DEF r
  <2>7. "config" \notin raced => KeepsChannels(r)
    BY <2>2, <2>3, <2>4, <2>5, <2>6 DEF ConfigInv, KeepsChannels, WillKeep
  <2> QED
    BY <2>1, <2>7, ConfigGoes
<1>3. CASE DiscoverySkipped(p)
  <2> DEFINE r == [me EXCEPT !.at = "engine"]
  <2>1. Goes(p, r) /\ me.writes = <<>>
    BY <1>3 DEF DiscoverySkipped, At
  <2>2. r.at = "engine" /\ r.writes = <<>> /\ r.loaded = me.loaded /\ r.cfg = me.cfg /\ r.cmd = me.cmd
    BY <1>0, <2>1 DEF Process
  <2> HIDE DEF r
  <2> QED
    BY <2>1, <2>2, ConfigSame, ConfigGoes
<1>4. CASE \E full \in BOOLEAN : StartEngine(p, full)
  <2>1. PICK full, cfg : LanesOf(p, cfg, full) /\ me.writes = <<>>
    BY <1>4 DEF StartEngine, At
  <2> DEFINE todo == (IF full THEN <<NoKey>> ELSE <<>>) \o Append(KeysOf(cfg), NoKey)
             r == [me EXCEPT !.at = "window", !.todo = todo]
  <2>2. /\ Goes(p, r) /\ r.at = "window" /\ r.writes = <<>>
        /\ r.loaded = me.loaded /\ r.cfg = me.cfg /\ r.cmd = me.cmd
    BY <1>0, <2>1 DEF LanesOf, Process
  <2> HIDE DEF r
  <2> QED
    BY <2>2, ConfigSame, ConfigGoes
<1>5. CASE Seal(p)
  <2>1. PICK r, ids, box : Sealed(p, r, ids, box)
    BY <1>5, SealStep
  <2>2. \A n \in DOMAIN r.writes : r.writes[n][1] # "config"
    BY <1>a, <2>1 DEF Sealed
  <2> QED
    BY <2>1, <2>2, ConfigSame, ConfigGoes DEF Sealed
<1>6. CASE Broadcast(p)
  <2>1. PICK r, box : Broadcasted(p, r, box)
    BY <1>6, BroadcastStep
  <2>2. \A n \in DOMAIN r.writes : r.writes[n][1] # "config"
    BY <1>a, <2>1 DEF Broadcasted
  <2> QED
    BY <2>1, <2>2, ConfigSame, ConfigGoes DEF Broadcasted
<1>6a. CASE Include(p)
  <2>1. PICK r : Included(p, r)
    BY <1>6a, IncludeStep
  <2>2. "config" \notin raced => KeepsChannels(r)
    BY <2>1, ConfigSame DEF Included
  <2> QED
    BY <2>1, <2>2, ConfigElsewhere DEF Included, ghosts
<1>6b. CASE Refused(p) \/ Reseal(p) \/ AnswerLost(p)
  <2>1. PICK r : Retried(p, r)
    BY <1>6b, RetryStep
  <2>2. "config" \notin raced => KeepsChannels(r)
    BY <2>1, ConfigSame DEF Retried
  <2> QED
    BY <2>1, <2>2, ConfigElsewhere DEF Retried
<1>7. CASE Confirm(p)
  <2> DEFINE box == Marked(me.box, Range(me.batch), "confirmed")
             cfg == IF me.cmd = "pay" THEN me.cfg ELSE MarkSetup(me.cfg, k)
             cursors == [me.cursors EXCEPT ![k] = me.index + Len(me.batch)]
             a == IF me.cmd = "flush" THEN <<<<"outbox", box>>>> ELSE <<>>
             b == IF cfg # me.cfg THEN <<<<"config", cfg>>>> ELSE <<>>
             ws == a \o b \o <<<<"cursors", cursors>>>>
             at == IF Len(me.todo) = 1 THEN "done" ELSE "seal"
             r == [me EXCEPT !.at = at, !.todo = Tail(@), !.box = box, !.cfg = cfg,
                             !.cursors = cursors, !.writes = ws]
  <2>1. Goes(p, r) /\ me.at = "landed" /\ me.cmd \in Sends
    BY <1>0, <1>7 DEF Confirm, At, Control
  <2>2. Named(cfg) = Named(me.cfg)
    BY <1>0, MarkSetupFacts
  <2>3. Left(box, cfg, cursors, a, b, ws)
    BY <1>0, <1>7, ConfirmLeft
  <2> HIDE DEF box, cfg, cursors, a, b, ws, at
  <2>4. \A n \in DOMAIN ws : ws[n][1] = "config" => ws[n] = <<"config", cfg>>
    BY <2>3 DEF Left
  <2>5. r.writes = ws /\ r.loaded = me.loaded /\ r.cfg = cfg /\ r.cmd = me.cmd
    BY <1>0 DEF Process
  <2> HIDE DEF r
  <2>6. "config" \notin raced => KeepsChannels(r)
    BY <2>1, <2>2, <2>4, <2>5 DEF ConfigInv, KeepsChannels, WillKeep, Sends
  <2> QED
    BY <2>1, <2>6, ConfigGoes
<1>8. CASE ReadLane(p)
  <2> DEFINE r == [me EXCEPT !.todo = Tail(@), !.cursors[k] = Walked(k, @),
                             !.found = @ \cup Unread(k, me.cursors[k])]
  <2>1. Goes(p, r) /\ me.at = "read" /\ me.writes = <<>>
    BY <1>8 DEF ReadLane, At
  <2>2. r.at = me.at /\ r.writes = <<>> /\ r.loaded = me.loaded /\ r.cfg = me.cfg /\ r.cmd = me.cmd
    BY <1>0, <2>1 DEF Process
  <2> HIDE DEF r
  <2> QED
    BY <2>1, <2>2, ConfigSame, ConfigGoes
<1>9. CASE ReadAll(p)
  <2> DEFINE ws == <<<<"cursors", me.cursors>>>>
             r == [me EXCEPT !.at = "print", !.writes = ws]
  <2>1. Goes(p, r)
    BY <1>9 DEF ReadAll
  <2>2. \A n \in DOMAIN ws : ws[n][1] # "config"
    BY <1>a
  <2> HIDE DEF ws
  <2>3. r.at = "print" /\ r.writes = ws /\ r.loaded = me.loaded /\ r.cfg = me.cfg /\ r.cmd = me.cmd
    BY <1>0 DEF Process
  <2> HIDE DEF r
  <2> QED
    BY <2>1, <2>2, <2>3, ConfigSame, ConfigGoes
<1>10. CASE OpenTmp(p)
  <2> DEFINE r == [me EXCEPT !.at = "fill", !.fd = "tmp"]
  <2>1. /\ Becomes(p, r) /\ me.writes = <<>> /\ disk' = disk /\ kept' = kept
        /\ "config" \in raced => "config" \in raced'
    BY <1>10 DEF OpenTmp, At
  <2>2. r.at = "fill" /\ r.writes = <<>> /\ r.loaded = me.loaded /\ r.cfg = me.cfg /\ r.cmd = me.cmd
    BY <1>0, <2>1 DEF Process
  <2> HIDE DEF r
  <2> QED
    BY <2>1, <2>2, ConfigSame, ConfigElsewhere
<1>11. CASE FillTmp(p)
  <2> DEFINE r == [me EXCEPT !.at = "rename", !.fd = "none"]
  <2>1. /\ Becomes(p, r) /\ me.writes = <<>> /\ kept' = kept /\ raced' = raced
        /\ disk'.config = disk.config
    BY <1>11 DEF FillTmp, At, ghosts, TInv, Disk
  <2>2. r.at = "rename" /\ r.writes = <<>> /\ r.loaded = me.loaded /\ r.cfg = me.cfg /\ r.cmd = me.cmd
    BY <1>0, <2>1 DEF Process
  <2> HIDE DEF r
  <2> QED
    BY <2>1, <2>2, ConfigSame, ConfigElsewhere
<1>12. CASE RenameTmp(p)
  <2>1. kept' = kept /\ raced' = raced /\ disk'.config = disk.config
    BY <1>12 DEF RenameTmp, ghosts, TInv, Disk
  <2>2. ASSUME NEW q \in Procs, "config" \notin raced PROVE KeepsChannels(proc[q])'
    <3>1. /\ proc'[q].writes = proc[q].writes /\ proc'[q].loaded = proc[q].loaded
          /\ proc'[q].cfg = proc[q].cfg /\ proc'[q].cmd = proc[q].cmd
          /\ proc'[q].at = proc[q].at \/ proc'[q].at \in {"done", "window"}
      BY <1>12, Renamed
    <3>2. KeepsChannels(proc[q])
      BY <2>2 DEF ConfigInv
    <3> QED
      BY <2>1, <3>1, <3>2 DEF KeepsChannels, WillKeep
  <2> QED
    BY <2>1, <2>2 DEF ConfigInv
<1> QED
  BY <1>1, <1>2, <1>3, <1>4, <1>5, <1>6, <1>6a, <1>6b, <1>7, <1>8, <1>9, <1>10, <1>11, <1>12,
     ConfigWrite DEF Steps

LEMMA ConfigNext == TInv /\ ConfigInv /\ [Next]_vars => ConfigInv'
<1> SUFFICES ASSUME TInv, ConfigInv, [Next]_vars PROVE ConfigInv'
  OBVIOUS
<1>1. ASSUME NEW p \in Procs, Commands(p) PROVE ConfigInv'
  <2>1. PICK r : Becomes(p, r) /\ Fresh(r)
    BY <1>1, Started
  <2>2. disk' = disk /\ kept' = kept /\ raced' = raced
    BY <1>1, Started
  <2>3. "config" \notin raced => KeepsChannels(r)
    BY <2>1 DEF Fresh, ConfigInv, KeepsChannels, WillKeep
  <2> QED
    BY <2>1, <2>2, <2>3, ConfigElsewhere
<1>2. ASSUME NEW p \in Procs, Steps(p) PROVE ConfigInv'
  BY <1>2, ConfigSteps
<1>3. ASSUME NEW q \in Peers, NEW m \in PeerPost, PeerPosts(q, m) PROVE ConfigInv'
  BY <1>3 DEF PeerPosts, ghosts, ConfigInv, KeepsChannels, WillKeep
<1>3a. ASSUME NEW t \in lost, IncludeLost(t) PROVE ConfigInv'
  BY <1>3a DEF IncludeLost, ghosts, ConfigInv, KeepsChannels, WillKeep
<1>4. CASE UNCHANGED vars
  BY <1>4 DEF vars, ghosts, ConfigInv, KeepsChannels, WillKeep
<1> QED
  BY <1>1, <1>2, <1>3, <1>3a, <1>4 DEF Next

\* No channel is lost: what `channel add' and `channel discover' configured is
\* still in config.json, in whatever order scans, sends and flushes write
\* their copies back, unless two processes wrote it over each other.
THEOREM ChannelsStay == Spec => []ChannelsKept
<1>1. Init => TInv /\ ConfigInv
  <2> SUFFICES ASSUME Init PROVE ConfigInv
    BY InitTyped
  <2>1. PICK cfg \in Setups : /\ kept = Named(cfg)
                              /\ disk = [config |-> cfg, cursors |-> [k \in Keys |-> 0],
                                         outbox |-> <<>>, sync |-> "whole"]
    BY DEF Init
  <2>2. disk.config = cfg
    BY <2>1
  <2>3. \A p \in Procs : KeepsChannels(proc[p])
    BY DEF Init, KeepsChannels, Idle
  <2> QED
    BY <2>1, <2>2, <2>3 DEF ConfigInv
<1>2. TInv /\ ConfigInv /\ [Next]_vars => (TInv /\ ConfigInv)'
  BY NextTyped, ConfigNext
<1>3. ConfigInv => ChannelsKept
  BY DEF ConfigInv, ChannelsKept
<1> QED
  BY <1>1, <1>2, <1>3, PTL DEF Spec

-----------------------------------------------------------------------------
(***************************************************************************)
(* The outbox: nothing reported is lost.                                   *)
(***************************************************************************)

\* A sequence that got longer, position by position.
LEMMA Longer ==
  ASSUME NEW s \in Seq(Posts), NEW more \in Seq(Posts), NEW t, t = s \o more
  PROVE  /\ Len(s) \in Nat /\ Len(more) \in Nat /\ Len(t) = Len(s) + Len(more)
         /\ DOMAIN s = 1..Len(s) /\ DOMAIN more = 1..Len(more) /\ DOMAIN t = 1..Len(t)
         /\ \A i \in DOMAIN s : i \in DOMAIN t /\ t[i] = s[i]
         /\ \A i \in DOMAIN more : Len(s) + i \in DOMAIN t /\ t[Len(s) + i] = more[i]
         /\ \A i \in DOMAIN t : \/ i \in DOMAIN s /\ t[i] = s[i]
                                \/ i - Len(s) \in DOMAIN more /\ t[i] = more[i - Len(s)]
<1>1. /\ t \in Seq(Posts) /\ Len(t) = Len(s) + Len(more)
      /\ \A i \in 1..(Len(s) + Len(more)) :
             t[i] = IF i <= Len(s) THEN s[i] ELSE more[i - Len(s)]
  BY ConcatProperties
<1>2. /\ DOMAIN s = 1..Len(s) /\ DOMAIN more = 1..Len(more) /\ DOMAIN t = 1..Len(t)
      /\ Len(s) \in Nat /\ Len(more) \in Nat
  BY <1>1
<1> QED
  BY <1>1, <1>2

\* What was on the chain stays there when a lane gets longer.
LEMMA ChainGrows ==
  ASSUME TInv, NEW k \in Keys, NEW more \in Seq(Posts), lane' = [lane EXCEPT ![k] = @ \o more]
  PROVE  /\ \A n : OnChain(n) => OnChain(n)'
         /\ \A n \in DOMAIN more : OnChain(more[n])'
         /\ \A n : OnChain(n)' => OnChain(n) \/ \E i \in DOMAIN more : more[i] = n
<1>1. /\ lane[k] \in Seq(Posts) /\ lane'[k] = lane[k] \o more
      /\ \A l \in Keys : l # k => lane'[l] = lane[l]
  BY DEF TInv
<1> DEFINE s == lane[k]
           t == lane'[k]
<1>2. \A l \in Keys : \A n : Contains(lane[l], n) <=> \E i \in DOMAIN lane[l] : lane[l][i] = n
  BY DEF Contains
<1>3. \A l \in Keys : \A n : Contains(lane'[l], n) <=> \E i \in DOMAIN lane'[l] : lane'[l][i] = n
  BY DEF Contains
<1>4. /\ \A i \in DOMAIN s : i \in DOMAIN t /\ t[i] = s[i]
      /\ \A i \in DOMAIN more : Len(s) + i \in DOMAIN t /\ t[Len(s) + i] = more[i]
      /\ \A i \in DOMAIN t : \/ i \in DOMAIN s /\ t[i] = s[i]
                             \/ i - Len(s) \in DOMAIN more /\ t[i] = more[i - Len(s)]
  <2>1. s \in Seq(Posts) /\ t = s \o more
    BY <1>1
  <2> HIDE DEF s, t
  <2> QED
    BY <2>1, Longer
<1> HIDE DEF s, t
<1>5. /\ \A n : Contains(s, n) <=> \E i \in DOMAIN s : s[i] = n
      /\ \A n : Contains(t, n) <=> \E i \in DOMAIN t : t[i] = n
  BY <1>2, <1>3 DEF s, t
<1>6. \A n : Contains(s, n) => Contains(t, n)
  BY <1>4, <1>5
<1>7. \A n \in DOMAIN more : Contains(t, more[n])
  BY <1>4, <1>5
<1>8. \A n : Contains(t, n) => Contains(s, n) \/ \E i \in DOMAIN more : more[i] = n
  BY <1>4, <1>5
<1>9. \A n : OnChain(n) => OnChain(n)'
  BY <1>1, <1>6 DEF OnChain, s, t
<1>10. \A n \in DOMAIN more : OnChain(more[n])'
  BY <1>7 DEF OnChain, t
<1>11. \A n : OnChain(n)' => OnChain(n) \/ \E i \in DOMAIN more : more[i] = n
  BY <1>1, <1>8 DEF OnChain, s, t
<1> QED
  BY <1>9, <1>10, <1>11

\* A batch is made of posts.
LEMMA BatchPosts ==
  ASSUME TInv, NEW p \in Procs
  PROVE  proc[p].batch \in Seq(Posts)
<1> DEFINE b == proc[p].batch
<1>1. b \in [1..Len(b) -> 0..MaxRuns] /\ Len(b) \in Nat
  BY ProcessFacts, LenProperties
<1>2. b \in [1..Len(b) -> Posts]
  BY <1>1 DEF Posts
<1> QED
  BY <1>1, <1>2

\* A transaction that nobody waits for lands.
LEMMA LostFacts ==
  ASSUME TInv, NEW t \in lost, IncludeLost(t)
  PROVE  /\ t.key \in Keys /\ t.batch \in Seq(Posts)
         /\ Grows(t.key, t.index, t.batch) /\ lost' = lost \ {t}
<1>1. t.key \in Keys /\ t.batch \in Seq(0..MaxRuns)
  BY DEF TInv, Transactions
<1>2. t.batch \in [1..Len(t.batch) -> Posts] /\ Len(t.batch) \in Nat
  BY <1>1, LenProperties DEF Posts
<1>3. t.batch \in Seq(Posts)
  BY <1>2
<1> QED
  BY <1>1, <1>3 DEF IncludeLost, Lands, Grows

\* What `msg queue' adds to the outbox comes last.
LEMMA Added ==
  ASSUME TInv, disk.outbox # Torn, NEW e
  PROVE  LET v == Append(disk.outbox, e) IN
         /\ DOMAIN disk.outbox \subseteq DOMAIN v
         /\ \A i \in DOMAIN v : (i \in DOMAIN disk.outbox /\ v[i] = disk.outbox[i]) \/ v[i] = e
         /\ \A i \in DOMAIN disk.outbox : v[i] = disk.outbox[i]
         /\ \E i \in DOMAIN v : v[i] = e
         /\ \A i \in DOMAIN v : i \in DOMAIN disk.outbox \/ i = Len(disk.outbox) + 1
<1> DEFINE s == disk.outbox
           v == Append(s, e)
<1>1. Len(s) \in Nat /\ DOMAIN s = 1..Len(s)
  BY DiskFacts, BoxFacts
<1>2. s \in Seq(Entries \cup {e})
  <2>1. s \in Seq(Entries)
    BY DiskFacts DEF Box
  <2>2. s \in [1..Len(s) -> Entries \cup {e}]
    BY <1>1, <2>1
  <2> QED
    BY <1>1, <2>2
<1> HIDE DEF s
<1>3. /\ Len(v) = Len(s) + 1 /\ DOMAIN v = 1..(Len(s) + 1) /\ v[Len(s) + 1] = e
      /\ \A i \in 1..Len(s) : v[i] = s[i]
  <2>1. e \in Entries \cup {e}
    OBVIOUS
  <2>2. v \in Seq(Entries \cup {e}) /\ Len(v) = Len(s) + 1
        /\ v[Len(s) + 1] = e /\ \A i \in 1..Len(s) : v[i] = s[i]
    BY <1>2, <2>1, AppendProperties
  <2> QED
    BY <2>2
<1> HIDE DEF v
<1>4. Len(s) + 1 \in DOMAIN v /\ \A i \in DOMAIN v : i \in DOMAIN s \/ i = Len(s) + 1
  BY <1>1, <1>3
<1> QED
  BY <1>1, <1>3, <1>4 DEF s, v

\* A step of one process that does not write the outbox.
LEMMA QueueStep ==
  ASSUME TInv, QueueInv, NEW p \in Procs, NEW r, Becomes(p, r),
         \A n : OnChain(n) => OnChain(n)',
         disk'.outbox = disk.outbox \/ disk'.outbox = Torn,
         "outbox" \in raced => "outbox" \in raced',
         queued' \subseteq Reported,
         r.at = "queued" => r.writes # <<>>,
         Truthful(proc[p])',
         "outbox" \notin raced => KeepsEntries(r)
  PROVE  QueueInv'
<1>1. proc'[p] = r /\ \A q \in Procs : q # p => proc'[q] = proc[q]
  BY Others
<1>2. Reported' \subseteq Reported
  BY <1>1 DEF Reported, At
<1>3. ASSUME NEW box, Honest(box) PROVE \A i \in DOMAIN box :
          box[i].status = "confirmed" => OnChain(box[i].id)'
  BY <1>3 DEF Honest
<1>4. disk'.outbox # Torn => Honest(disk.outbox)'
  BY <1>3 DEF QueueInv, Honest
<1>5. ASSUME NEW q \in Procs PROVE Truthful(proc[q])'
  <2>1. CASE q = p
    BY <2>1
  <2>2. CASE q # p
    <3>1. Truthful(proc[q]) /\ proc'[q] = proc[q]
      BY <1>1, <2>2 DEF QueueInv
    <3>2. Honest(proc[q].box)'
      BY <1>3, <3>1 DEF Truthful, Honest
    <3>3. \A n \in DOMAIN proc[q].writes : proc[q].writes[n][1] = "outbox" =>
              Honest(proc[q].writes[n][2])'
      BY <1>3, <3>1 DEF Truthful, Honest
    <3> QED
      BY <3>1, <3>2, <3>3 DEF Truthful
  <2> QED
    BY <2>1, <2>2
<1>6. ASSUME "outbox" \notin raced'
      PROVE  /\ disk'.outbox = Torn \/ Reported' \subseteq IdsOf(disk'.outbox)
             /\ \A q \in Procs : KeepsEntries(proc[q])'
  <2>1. disk'.outbox = Torn \/ Reported' \subseteq IdsOf(disk'.outbox)
    BY <1>2, <1>6 DEF QueueInv
  <2>2. ASSUME NEW q \in Procs PROVE KeepsEntries(proc[q])'
    <3>1. KeepsEntries(proc'[q])
      BY <1>1, <1>6 DEF QueueInv
    <3> QED
      BY <1>2, <3>1 DEF KeepsEntries, IdsOf
  <2> QED
    BY <2>1, <2>2
<1> QED
  BY <1>4, <1>5, <1>6 DEF QueueInv, IdsOf

\* A step of the same command that leaves its outbox alone.
LEMMA QueueSame ==
  ASSUME TInv, QueueInv, NEW p \in Procs, NEW r, Becomes(p, r), UNCHANGED <<lane, queued>>,
         disk'.outbox = disk.outbox \/ disk'.outbox = Torn,
         "outbox" \in raced => "outbox" \in raced',
         r.box = proc[p].box, r.loaded = proc[p].loaded, r.cmd = proc[p].cmd,
         r.at \notin {"queued", "landed"},
         \A n \in DOMAIN r.writes : r.writes[n][1] # "outbox"
  PROVE  QueueInv'
<1>1. proc'[p] = r
  BY Others
<1>2. \A n : OnChain(n) => OnChain(n)'
  BY DEF OnChain
<1>3. Honest(proc[p].box)'
  BY <1>1, <1>2 DEF QueueInv, Truthful, Honest
<1>4. Truthful(proc[p])'
  BY <1>1, <1>3 DEF Truthful
<1>5. "outbox" \notin raced => KeepsEntries(r)
  BY DEF QueueInv, KeepsEntries
<1>6. queued' \subseteq Reported
  BY DEF Reported
<1> QED
  BY <1>2, <1>4, <1>5, <1>6, QueueStep

LEMMA QueueWrite ==
  ASSUME TInv, QueueInv, NEW p \in Procs, Write(p)
  PROVE  QueueInv'
<1> DEFINE me == proc[p]
           w == me.writes
           f == Head(w)[1]
           v == Head(w)[2]
<1>1. /\ 1 \in DOMAIN w /\ w[1] = Head(w) /\ Head(w) = <<f, v>>
      /\ WriteOK(me, Head(w))
      /\ f = "outbox" => v \in Box
      /\ \A n \in DOMAIN Tail(w) : /\ n + 1 \in DOMAIN w /\ Tail(w)[n] = w[n + 1]
                                   /\ Tail(w)[n][1] # f
  BY PendingFacts DEF Write
<1>2. /\ w # <<>> /\ f \in {"config", "cursors", "outbox"}
      /\ disk' = [disk EXCEPT ![f] = v]
      /\ raced' = IF f \in me.loaded THEN raced ELSE raced \cup {f}
      /\ proc'[p].writes = Tail(w) /\ proc'[p].loaded = me.loaded \cup {f}
      /\ \A q \in Procs :
             /\ proc'[q].at = proc[q].at /\ proc'[q].cmd = proc[q].cmd
             /\ proc'[q].box = proc[q].box /\ proc'[q].batch = proc[q].batch
             /\ proc'[q].index = proc[q].index
             /\ q # p => /\ proc'[q].writes = proc[q].writes
                         /\ proc'[q].loaded = proc[q].loaded \ {f}
  BY Written
<1>3. disk \in Disk /\ lane' = lane /\ queued' = queued
  BY DEF Write, TInv, chain
<1>4. me.at = "queued" => f = "outbox"
  BY <1>1 DEF WriteOK
<1>c. \A n : OnChain(n)' <=> OnChain(n)
  BY <1>3 DEF OnChain
<1>p. w = proc[p].writes
  OBVIOUS
<1> HIDE DEF f, v, w
<1>5. \A q \in Procs : \A n \in DOMAIN proc'[q].writes : \E m \in DOMAIN proc[q].writes :
          /\ proc'[q].writes[n] = proc[q].writes[m]
          /\ q = p => proc'[q].writes[n][1] # f
  <2> TAKE q \in Procs
  <2>1. CASE q # p
    BY <1>2, <2>1
  <2>2. CASE q = p
    <3>1. \A n \in DOMAIN Tail(w) : Tail(w)[n] = w[n + 1] /\ n + 1 \in DOMAIN w /\ Tail(w)[n][1] # f
      BY <1>1
    <3>2. proc'[q].writes = Tail(w) /\ proc[q].writes = w
      BY <1>2, <1>p, <2>2
    <3> QED
      BY <3>1, <3>2
  <2> QED
    BY <2>1, <2>2
<1>6. ASSUME NEW q \in Procs PROVE Truthful(proc[q])'
  <2>1. Truthful(proc[q])
    BY DEF QueueInv
  <2>2. \A box : Honest(box)' <=> Honest(box)
    BY <1>c DEF Honest
  <2> QED
    BY <1>2, <1>5, <1>c, <2>1 DEF Truthful, Honest
<1>7. CASE f = "outbox"
  <2>1. disk'.outbox = v
    BY <1>2, <1>3, <1>7 DEF Disk
  <2>2. Honest(v) /\ (me.at = "queued" => me.index \in IdsOf(v))
    BY <1>1, <1>7, <1>p DEF QueueInv, Truthful
  <2>3. ASSUME "outbox" \notin raced'
        PROVE  /\ Reported' \subseteq IdsOf(v)
               /\ \A q \in Procs : KeepsEntries(proc[q])'
    <3>1. "outbox" \notin raced /\ "outbox" \in me.loaded
      BY <1>2, <1>7, <2>3
    <3>2. Reported \subseteq IdsOf(v)
      BY <1>1, <1>7, <1>p, <3>1 DEF QueueInv, KeepsEntries
    <3>3. \A q \in Procs : At(q, "queued")' => At(q, "queued") \/ (q = p /\ me.at = "queued")
      BY <1>2 DEF At
    <3>4. Reported' \subseteq IdsOf(v)
      BY <1>2, <1>3, <2>2, <3>2, <3>3 DEF Reported
    <3>5. ASSUME NEW q \in Procs PROVE KeepsEntries(proc[q])'
      <4>1. CASE q # p
        BY <1>2, <1>7, <4>1 DEF KeepsEntries
      <4>2. CASE q = p
        <5>1. me.cmd = "flush" => v = me.box
          BY <1>1, <1>7 DEF WriteOK
        <5>2. \A n \in DOMAIN proc'[p].writes : proc'[p].writes[n][1] # "outbox"
          BY <1>5, <1>7
        <5>3. proc'[p].cmd = me.cmd /\ proc'[p].box = me.box
          BY <1>2
        <5> HIDE DEF me
        <5> QED
          BY <3>4, <4>2, <5>1, <5>2, <5>3 DEF KeepsEntries, IdsOf
      <4> QED
        BY <4>1, <4>2
    <3> QED
      BY <3>4, <3>5
  <2> QED
    BY <1>6, <1>c, <2>1, <2>2, <2>3 DEF QueueInv, Honest, IdsOf
<1>8. CASE f # "outbox"
  <2>1. disk'.outbox = disk.outbox
    BY <1>2, <1>3, <1>8 DEF Disk
  <2>2. \A q \in Procs : At(q, "queued")' => At(q, "queued")
    BY <1>2, <1>4, <1>8 DEF At
  <2>3. Reported' \subseteq Reported
    BY <1>2, <1>3, <2>2 DEF Reported
  <2>4. ASSUME "outbox" \notin raced', NEW q \in Procs PROVE KeepsEntries(proc[q])'
    <3>1. "outbox" \notin raced
      BY <1>2, <2>4
    <3>2. KeepsEntries(proc[q])
      BY <3>1 DEF QueueInv
    <3>3. "outbox" \in proc'[q].loaded => "outbox" \in proc[q].loaded
      BY <1>2, <1>8
    <3> QED
      BY <1>2, <1>5, <2>3, <3>2, <3>3 DEF KeepsEntries, IdsOf
  <2>5. "outbox" \notin raced' => "outbox" \notin raced
    BY <1>2
  <2> QED
    BY <1>6, <1>c, <2>1, <2>3, <2>4, <2>5 DEF QueueInv, Honest, IdsOf
<1> QED
  BY <1>7, <1>8

LEMMA QueueSteps ==
  ASSUME TInv, QueueInv, NEW p \in Procs, Steps(p)
  PROVE  QueueInv'
<1> DEFINE me == proc[p]
<1>0. /\ me \in Process /\ Control(me) /\ me.box \in Box /\ Truthful(me)
      /\ "outbox" \notin raced => KeepsEntries(me)
  BY ProcessFacts DEF QueueInv
<1>a. \A b : /\ \A n \in DOMAIN <<<<"outbox", b>>>> : <<<<"outbox", b>>>>[n] = <<"outbox", b>>
             /\ <<<<"outbox", b>>>> # <<>>
  OBVIOUS
<1>c. lane' = lane => \A n : OnChain(n)' <=> OnChain(n)
  BY DEF OnChain
<1>1. CASE Done(p) \/ Ends(p) \/ Queued(p) \/ PrintFound(p) \/ Tear(p)
  <2>1. Becomes(p, Idle) /\ lane' = lane /\ raced' = raced
    BY <1>1 DEF Done, Ends, Queued, PrintFound, Tear, Goes, chain, ghosts
  <2>2. disk'.outbox = disk.outbox \/ disk'.outbox = Torn
    <3>1. CASE Tear(p)
      <4>1. \E f : disk' = [disk EXCEPT ![f] = Torn]
        BY <3>1 DEF Tear
      <4> QED
        BY <4>1 DEF TInv, Disk
    <3>2. CASE ~ Tear(p)
      BY <1>1, <3>2 DEF Done, Ends, Queued, PrintFound, Goes
    <3> QED
      BY <3>1, <3>2
  <2>3. queued' \subseteq Reported
    <3>1. CASE Queued(p)
      BY <3>1 DEF Queued, Reported
    <3>2. CASE ~ Queued(p)
      BY <1>1, <3>2 DEF Done, Ends, PrintFound, Tear, Goes, ghosts, Reported
    <3> QED
      BY <3>1, <3>2
  <2>4. Idle.box = <<>> /\ Idle.writes = <<>> /\ Idle.at = "idle" /\ Idle.cmd = "none"
        /\ Idle.loaded = {}
    BY DEF Idle
  <2>5. Truthful(proc[p])'
    BY <2>1, <2>4, Others DEF Truthful, Honest
  <2>6. KeepsEntries(Idle)
    BY <2>4 DEF KeepsEntries
  <2> QED
    BY <1>c, <2>1, <2>2, <2>3, <2>4, <2>5, <2>6, QueueStep
<1>2. CASE \E r : Aside(p, r)
  BY <1>2, QueueSame DEF Aside
<1>3. CASE Seal(p)
  <2>1. PICK r, ids, box : Sealed(p, r, ids, box)
    BY <1>3, SealStep
  <2>2. /\ Becomes(p, r) /\ UNCHANGED <<disk, lane, raced, queued>> /\ proc'[p] = r
    BY <2>1, Others DEF Sealed, Goes, chain, ghosts
  <2>3. /\ DOMAIN box = DOMAIN me.box /\ IdsOf(box) = IdsOf(me.box)
        /\ \A i \in DOMAIN me.box : /\ box[i].id = me.box[i].id
                                    /\ box[i].status = "confirmed" => me.box[i].status = "confirmed"
    BY <1>0, <2>1, MarkedFacts DEF Sealed, Statuses
  <2>4. Honest(box)
    BY <1>0, <2>3 DEF Truthful, Honest
  <2>5. \A n \in DOMAIN r.writes : me.cmd = "flush" /\ r.writes[n] = <<"outbox", box>>
    BY <1>a, <2>1 DEF Sealed
  <2>6. r.at = "submit" /\ r.box = box /\ r.cmd = me.cmd /\ r.loaded = me.loaded
    BY <2>1 DEF Sealed
  <2>7. Honest(box)'
    BY <1>c, <2>2, <2>4 DEF Honest
  <2>8. Truthful(proc[p])'
    BY <2>2, <2>5, <2>6, <2>7 DEF Truthful, Honest
  <2>9. "outbox" \notin raced => KeepsEntries(r)
    BY <1>0, <2>3, <2>5, <2>6 DEF KeepsEntries
  <2>10. queued' \subseteq Reported
    BY <2>2 DEF Reported
  <2> QED
    BY <1>c, <2>2, <2>6, <2>8, <2>9, <2>10, QueueStep
<1>4. CASE Broadcast(p)
  <2>1. PICK r, box : Broadcasted(p, r, box)
    BY <1>4, BroadcastStep
  <2>2. /\ Becomes(p, r) /\ UNCHANGED <<disk, lane, raced, queued>> /\ proc'[p] = r
    BY <2>1, Others DEF Broadcasted, Goes, chain, ghosts
  <2>3. /\ DOMAIN box = DOMAIN me.box /\ IdsOf(box) = IdsOf(me.box)
        /\ \A i \in DOMAIN me.box : /\ box[i].id = me.box[i].id
                                    /\ box[i].status = "confirmed" => me.box[i].status = "confirmed"
    BY <1>0, <2>1, MarkedFacts DEF Broadcasted, Statuses
  <2>4. Honest(box)
    BY <1>0, <2>3 DEF Truthful, Honest
  <2>5. \A n \in DOMAIN r.writes : me.cmd = "flush" /\ r.writes[n] = <<"outbox", box>>
    BY <1>a, <2>1 DEF Broadcasted
  <2>6. r.at = "sent" /\ r.box = box /\ r.cmd = me.cmd /\ r.loaded = me.loaded
    BY <2>1 DEF Broadcasted
  <2>7. Honest(box)'
    BY <1>c, <2>2, <2>4 DEF Honest
  <2>8. Truthful(proc[p])'
    BY <2>2, <2>5, <2>6, <2>7 DEF Truthful, Honest
  <2>9. "outbox" \notin raced => KeepsEntries(r)
    BY <1>0, <2>3, <2>5, <2>6 DEF KeepsEntries
  <2>10. queued' \subseteq Reported
    BY <2>2 DEF Reported
  <2> QED
    BY <1>c, <2>2, <2>6, <2>8, <2>9, <2>10, QueueStep
<1>4a. CASE Include(p)
  <2>1. PICK r : Included(p, r)
    BY <1>4a, IncludeStep
  <2>2. /\ Becomes(p, r) /\ UNCHANGED <<disk, raced, queued>> /\ proc'[p] = r
    BY <2>1, Others DEF Included, ghosts
  <2>3. /\ \A n : OnChain(n) => OnChain(n)'
        /\ \A n \in DOMAIN r.batch : OnChain(r.batch[n])'
    <3>1. /\ Head(me.todo) \in Keys /\ r.batch \in Seq(Posts)
          /\ lane' = [lane EXCEPT ![Head(me.todo)] = @ \o r.batch]
      BY <2>1, SenderFacts, BatchPosts DEF Included, Grows
    <3> QED
      BY <3>1, ChainGrows
  <2>5. /\ r.at = "landed" /\ r.box = me.box /\ r.cmd = me.cmd /\ r.loaded = me.loaded
        /\ r.writes = <<>>
    BY <2>1 DEF Included
  <2>4. Honest(me.box)'
    BY <1>0, <2>2, <2>3, <2>5 DEF Truthful, Honest
  <2>6. Truthful(proc[p])'
    BY <2>2, <2>3, <2>4, <2>5 DEF Truthful, Honest
  <2>7. "outbox" \notin raced => KeepsEntries(r)
    BY <1>0, <2>5 DEF KeepsEntries
  <2>8. queued' \subseteq Reported
    BY <2>2 DEF Reported
  <2> QED
    BY <2>2, <2>3, <2>5, <2>6, <2>7, <2>8, QueueStep
<1>4b. CASE Refused(p) \/ Reseal(p) \/ AnswerLost(p)
  <2>1. PICK r : Retried(p, r)
    BY <1>4b, RetryStep
  <2> QED
    BY <2>1, QueueSame DEF Retried
<1>5. CASE Confirm(p)
  <2>1. PICK r, box, cfg, cursors : Confirmed(p, r, box, cfg, cursors)
    BY <1>5, ConfirmStep
  <2>2. /\ Becomes(p, r) /\ UNCHANGED <<disk, lane, raced, queued>> /\ proc'[p] = r
    BY <2>1, Others DEF Confirmed, Goes, chain, ghosts
  <2>3. /\ DOMAIN box = DOMAIN me.box /\ IdsOf(box) = IdsOf(me.box)
        /\ \A i \in DOMAIN me.box :
               /\ box[i].id = me.box[i].id
               /\ box[i].status = "confirmed" =>
                      me.box[i].status = "confirmed" \/ me.box[i].id \in Range(me.batch)
    BY <1>0, <2>1, MarkedFacts DEF Confirmed, Statuses
  <2>4. \A i \in DOMAIN me.box : me.cmd = "flush" /\ me.box[i].id \in Range(me.batch)
                                     => OnChain(me.box[i].id)
    BY <1>0, <2>1 DEF Truthful, Confirmed, Range
  <2>5. me.cmd # "flush" => me.box = <<>>
    BY <1>0 DEF Control
  <2>6. Honest(box)
    BY <1>0, <2>3, <2>4, <2>5 DEF Truthful, Honest
  <2>7. \A n \in DOMAIN r.writes : r.writes[n][1] = "outbox" =>
            me.cmd = "flush" /\ r.writes[n] = <<"outbox", box>>
    BY <2>1 DEF Confirmed
  <2>8. r.at \in {"done", "seal"} /\ r.box = box /\ r.cmd = me.cmd /\ r.loaded = me.loaded
    BY <2>1 DEF Confirmed
  <2>9. Honest(box)'
    BY <1>c, <2>2, <2>6 DEF Honest
  <2>10. Truthful(proc[p])'
    BY <2>2, <2>7, <2>8, <2>9 DEF Truthful, Honest
  <2>11. "outbox" \notin raced => KeepsEntries(r)
    BY <1>0, <2>3, <2>7, <2>8 DEF KeepsEntries
  <2>12. queued' \subseteq Reported
    BY <2>2 DEF Reported
  <2> QED
    BY <1>c, <2>2, <2>8, <2>10, <2>11, <2>12, QueueStep
<1>6. CASE RenameTmp(p)
  <2>1. UNCHANGED <<lane, queued, raced>> /\ disk'.outbox = disk.outbox
    BY <1>6 DEF RenameTmp, chain, ghosts, TInv, Disk
  <2>2. \A q \in Procs : /\ proc'[q].writes = proc[q].writes /\ proc'[q].loaded = proc[q].loaded
                         /\ proc'[q].cmd = proc[q].cmd /\ proc'[q].box = proc[q].box
                         /\ proc'[q].index = proc[q].index /\ proc'[q].batch = proc[q].batch
                         /\ proc'[q].at = proc[q].at \/ proc'[q].at \in {"done", "window"}
    BY <1>6, Renamed
  <2>3. Reported' \subseteq Reported
    BY <2>1, <2>2 DEF Reported, At
  <2>4. ASSUME NEW q \in Procs PROVE Truthful(proc[q])'
    <3>1. Truthful(proc[q])
      BY DEF QueueInv
    <3>2. \A b : Honest(b)' <=> Honest(b)
      BY <1>c, <2>1 DEF Honest
    <3> QED
      BY <1>c, <2>1, <2>2, <3>1, <3>2 DEF Truthful, Honest
  <2>5. ASSUME NEW q \in Procs, "outbox" \notin raced PROVE KeepsEntries(proc[q])'
    <3>1. KeepsEntries(proc[q])
      BY <2>5 DEF QueueInv
    <3> QED
      BY <2>2, <2>3, <3>1 DEF KeepsEntries, IdsOf
  <2> QED
    BY <1>c, <2>1, <2>3, <2>4, <2>5 DEF QueueInv, Honest, IdsOf
<1> QED
  BY <1>1, <1>2, <1>3, <1>4, <1>4a, <1>4b, <1>5, <1>6, AsideSteps, QueueWrite DEF Steps

LEMMA QueueNext == TInv /\ QueueInv /\ [Next]_vars => QueueInv'
<1> SUFFICES ASSUME TInv, QueueInv, [Next]_vars PROVE QueueInv'
  OBVIOUS
<1>1. ASSUME NEW p \in Procs, Commands(p) PROVE QueueInv'
  <2>1. PICK r : Becomes(p, r) /\ Fresh(r)
    BY <1>1, Started
  <2>2. UNCHANGED <<disk, lane, raced, queued>> /\ proc'[p] = r
    BY <1>1, <2>1, Started, Others
  <2>3. ASSUME NEW n \in DOMAIN r.writes, r.writes[n][1] = "outbox"
        PROVE  \E to \in Names : /\ r.at = "queued" /\ disk.outbox # Torn
                 /\ r.writes[n][2] = Append(disk.outbox, [id |-> r.index, to |-> to, status |-> "queued"])
    BY <2>1, <2>3 DEF Fresh
  <2>4. ASSUME disk.outbox # Torn, NEW e, e.status = "queued"
        PROVE  LET v == Append(disk.outbox, e) IN
               Honest(v) /\ IdsOf(disk.outbox) \subseteq IdsOf(v) /\ e.id \in IdsOf(v)
    <3> DEFINE v == Append(disk.outbox, e)
    <3>1. /\ DOMAIN disk.outbox \subseteq DOMAIN v
          /\ \A i \in DOMAIN v : (i \in DOMAIN disk.outbox /\ v[i] = disk.outbox[i]) \/ v[i] = e
          /\ \A i \in DOMAIN disk.outbox : v[i] = disk.outbox[i]
          /\ \E i \in DOMAIN v : v[i] = e
      BY <2>4, Added
    <3>2. Honest(disk.outbox)
      BY <2>4 DEF QueueInv
    <3> HIDE DEF v
    <3>3. Honest(v) /\ IdsOf(disk.outbox) \subseteq IdsOf(v) /\ e.id \in IdsOf(v)
      BY <2>4, <3>1, <3>2 DEF Honest, IdsOf
    <3> QED
      BY <3>3 DEF v
  <2>5. ASSUME NEW n \in DOMAIN r.writes, r.writes[n][1] = "outbox"
        PROVE  /\ Honest(r.writes[n][2]) /\ r.index \in IdsOf(r.writes[n][2])
               /\ disk.outbox # Torn
               /\ IdsOf(disk.outbox) \subseteq IdsOf(r.writes[n][2])
    BY <2>3, <2>4, <2>5
  <2>6. Honest(r.box)
    BY <2>1 DEF Fresh, QueueInv, Honest
  <2>7. \A b : Honest(b)' <=> Honest(b)
    BY <2>2 DEF Honest, OnChain
  <2>8. Truthful(proc[p])'
    <3>1. r.at # "landed"
      BY <2>1 DEF Fresh
    <3> QED
      BY <2>2, <2>5, <2>6, <2>7, <3>1 DEF Truthful, Honest, IdsOf
  <2>9. "outbox" \notin raced => KeepsEntries(r)
    <3>1. r.cmd = "flush" => disk.outbox # Torn /\ r.box = disk.outbox
      BY <2>1 DEF Fresh
    <3> QED
      BY <2>5, <3>1 DEF KeepsEntries, QueueInv
  <2>10. queued' \subseteq Reported /\ (r.at = "queued" => r.writes # <<>>)
    BY <2>1, <2>2 DEF Reported, Fresh
  <2>11. \A n : OnChain(n) => OnChain(n)'
    BY <2>2 DEF OnChain
  <2> QED
    BY <2>1, <2>2, <2>8, <2>9, <2>10, <2>11, QueueStep
<1>2. ASSUME NEW p \in Procs, Steps(p) PROVE QueueInv'
  BY <1>2, QueueSteps
<1>3. ASSUME NEW q \in Peers, NEW m \in PeerPost, PeerPosts(q, m) PROVE QueueInv'
  <2>1. UNCHANGED <<disk, proc, queued, raced>>
    BY <1>3 DEF PeerPosts, ghosts
  <2>2. lane' = [lane EXCEPT ![In(q)] = @ \o <<m>>]
    <3>1. In(q) \in Keys
      BY DEF Keys
    <3>2. lane[In(q)] \in Seq(Posts)
      BY <3>1 DEF TInv
    <3>3. Append(lane[In(q)], m) = lane[In(q)] \o <<m>>
      BY <3>2
    <3> QED
      BY <1>3, <3>3 DEF PeerPosts
  <2>3. In(q) \in Keys /\ <<m>> \in Seq(Posts)
    BY DEF Keys, Posts
  <2>4. \A n : OnChain(n) => OnChain(n)'
    BY <2>2, <2>3, ChainGrows
  <2>5. \A b : Honest(b) => Honest(b)'
    BY <2>4 DEF Honest
  <2>6. \A r \in Procs : Truthful(proc[r])'
    BY <2>1, <2>4, <2>5 DEF QueueInv, Truthful, Honest, IdsOf
  <2>7. Reported' = Reported
    BY <2>1 DEF Reported, At
  <2> QED
    BY <2>1, <2>5, <2>6, <2>7 DEF QueueInv, KeepsEntries, Honest, IdsOf
<1>3a. ASSUME NEW t \in lost, IncludeLost(t) PROVE QueueInv'
  <2>1. UNCHANGED <<disk, proc, queued, raced>>
    BY <1>3a DEF IncludeLost, ghosts
  <2>2. \A n : OnChain(n) => OnChain(n)'
    BY <1>3a, LostFacts, ChainGrows DEF Grows
  <2>3. \A b : Honest(b) => Honest(b)'
    BY <2>2 DEF Honest
  <2>4. \A r \in Procs : Truthful(proc[r])'
    BY <2>1, <2>2, <2>3 DEF QueueInv, Truthful, Honest, IdsOf
  <2>5. Reported' = Reported
    BY <2>1 DEF Reported, At
  <2> QED
    BY <2>1, <2>3, <2>4, <2>5 DEF QueueInv, KeepsEntries, Honest, IdsOf
<1>4. CASE UNCHANGED vars
  <2>1. UNCHANGED <<disk, proc, lane, queued, raced>>
    BY <1>4 DEF vars, chain, ghosts
  <2>2. Reported' = Reported /\ \A n : OnChain(n)' <=> OnChain(n)
    BY <2>1 DEF Reported, At, OnChain
  <2>3. \A b : Honest(b)' <=> Honest(b)
    BY <2>2 DEF Honest
  <2>4. \A r \in Procs : Truthful(proc[r])'
    BY <2>1, <2>2, <2>3 DEF QueueInv, Truthful, Honest, IdsOf
  <2> QED
    BY <2>1, <2>2, <2>3, <2>4 DEF QueueInv, KeepsEntries, Honest, IdsOf
<1> QED
  BY <1>1, <1>2, <1>3, <1>3a, <1>4 DEF Next

\* Nothing that `msg queue' reported is lost: it is in outbox.json until it is
\* on the chain, through failing and killed flushes, unless two processes
\* wrote the file over each other or a kill tore it.
THEOREM ReportedIsKept == Spec => []QueuedKept
<1>1. Init => TInv /\ QueueInv
  <2> SUFFICES ASSUME Init PROVE QueueInv
    BY InitTyped
  <2>1. disk.outbox = <<>> /\ queued = {} /\ proc = [p \in Procs |-> Idle]
    BY DEF Init
  <2>2. \A p \in Procs : proc[p].at = "idle" /\ proc[p].cmd = "none" /\ proc[p].box = <<>>
                         /\ proc[p].writes = <<>> /\ proc[p].loaded = {}
    BY <2>1 DEF Idle
  <2>3. Reported = {}
    BY <2>1, <2>2 DEF Reported, At
  <2>4. Honest(<<>>)
    BY DEF Honest
  <2>5. \A p \in Procs : Truthful(proc[p]) /\ KeepsEntries(proc[p])
    BY <2>2, <2>4 DEF Truthful, KeepsEntries
  <2> QED
    BY <2>1, <2>3, <2>4, <2>5 DEF QueueInv
<1>2. TInv /\ QueueInv /\ [Next]_vars => (TInv /\ QueueInv)'
  BY NextTyped, QueueNext
<1>3. TInv /\ QueueInv => QueuedKept
  BY DEF QueueInv, QueuedKept, Reported, IdsOf, Honest, OnChain
<1> QED
  BY <1>1, <1>2, <1>3, PTL DEF Spec

-----------------------------------------------------------------------------
(***************************************************************************)
(* The outbox: nothing is sent twice.                                      *)
(***************************************************************************)

\* Marking leaves the numbers alone.
LEMMA MarkedNumbers ==
  ASSUME NEW box \in Box, NEW ids, NEW status \in Statuses, Numbered(box)
  PROVE  Numbered(Marked(box, ids, status))
BY MarkedFacts DEF Numbered

\* What is to be written to the outbox is an outbox.
LEMMA OutboxWrites ==
  ASSUME NEW ws \in Seq(Writes)
  PROVE  \A n \in DOMAIN ws : ws[n][1] = "outbox" => ws[n][2] \in Box
<1>1. \A n \in DOMAIN ws : ws[n] \in Writes
  OBVIOUS
<1> QED
  BY <1>1 DEF Writes

\* What is on its way has numbers that were given.
LEMMA BatchIds ==
  ASSUME TInv, NumberInv, NEW p \in Procs, proc[p].at \in Underway
  PROVE  BatchNumbered(proc[p].batch)
<1> DEFINE me == proc[p]
<1>1. /\ Control(me) /\ WellNumbered(me)
  BY ProcessFacts DEF NumberInv
<1>2. CASE me.cmd = "flush"
  <2>1. /\ \A n \in DOMAIN me.batch : \E i \in DOMAIN me.box : me.box[i].id = me.batch[n]
        /\ \A m, n \in DOMAIN me.batch : me.batch[m] = me.batch[n] => m = n
        /\ \A i \in DOMAIN me.box : me.box[i].id <= runs
    BY <1>1, <1>2 DEF WellNumbered, BatchOK, Numbered
  <2> QED
    BY <2>1 DEF BatchNumbered
<1>3. CASE me.cmd # "flush"
  <2>1. me.batch = <<0>> /\ 0 \notin Ids
    BY <1>1, <1>3, FilesAssumption DEF Control, Ids
  <2> QED
    BY <2>1 DEF BatchNumbered
<1> QED
  BY <1>2, <1>3

\* Lanes that get longer by what has numbers.
LEMMA GrownIds ==
  ASSUME TInv, NumberInv, NEW k \in Keys, NEW b \in Seq(Posts), BatchNumbered(b),
         NEW index, Grows(k, index, b), runs' = runs
  PROVE  LaneNumbered'
<1> DEFINE s == lane[k]
           t == lane'[k]
<1>1. s \in Seq(Posts) /\ t = s \o b /\ \A l \in Keys : l # k => lane'[l] = lane[l]
  BY DEF Grows, TInv
<1> HIDE DEF s, t
<1>2. \A i \in DOMAIN t : \/ i \in DOMAIN s /\ t[i] = s[i]
                          \/ i - Len(s) \in DOMAIN b /\ t[i] = b[i - Len(s)]
  BY <1>1, Longer
<1>3. \A i \in DOMAIN s : s[i] \in Ids => s[i] <= runs
  BY DEF NumberInv, LaneNumbered, s
<1>4. \A i \in DOMAIN b : b[i] \in Ids => b[i] <= runs
  BY DEF BatchNumbered
<1>5. \A i \in DOMAIN t : t[i] \in Ids => t[i] <= runs
  BY <1>2, <1>3, <1>4
<1>6. ASSUME NEW l \in Keys, NEW i \in DOMAIN lane'[l], lane'[l][i] \in Ids
      PROVE  lane'[l][i] <= runs'
  <2>1. CASE l = k
    BY <1>5, <1>6, <2>1 DEF t
  <2>2. CASE l # k
    BY <1>1, <1>6, <2>2 DEF NumberInv, LaneNumbered
  <2> QED
    BY <2>1, <2>2
<1> QED
  BY <1>6 DEF LaneNumbered

\* A step of one process that does not write the outbox.
LEMMA NumberStep ==
  ASSUME TInv, NumberInv, NEW p \in Procs, NEW r, Becomes(p, r), runs' \in Nat, runs <= runs',
         disk'.outbox = disk.outbox \/ disk'.outbox = Torn,
         LaneNumbered', lost' \subseteq lost \cup Own(p), WellNumbered(proc[p])'
  PROVE  NumberInv'
<1>1. proc'[p] = r /\ \A q \in Procs : q # p => proc'[q] = proc[q]
  BY Others
<1>2. ASSUME NEW box \in Box, Numbered(box) PROVE Numbered(box)'
  <2>1. runs \in Nat /\ \A i \in DOMAIN box : box[i].id \in Nat
    BY BoxFacts, FilesAssumption DEF TInv, Ids
  <2> QED
    BY <1>2, <2>1 DEF Numbered
<1>3. disk'.outbox # Torn => Numbered(disk.outbox)'
  <2> SUFFICES ASSUME disk'.outbox # Torn PROVE Numbered(disk.outbox)'
    OBVIOUS
  <2>1. disk.outbox \in Box /\ disk'.outbox = disk.outbox
    BY DiskFacts
  <2>2. Numbered(disk.outbox)
    BY <2>1 DEF NumberInv
  <2> QED
    BY <1>2, <2>1, <2>2 DEF Numbered
<1>4. ASSUME NEW q \in Procs, q # p PROVE WellNumbered(proc[q])'
  <2>1. /\ proc'[q] = proc[q] /\ WellNumbered(proc[q]) /\ proc[q].box \in Box
        /\ proc[q].writes \in Seq(Writes)
    BY <1>1, <1>4, ProcessFacts DEF NumberInv
  <2>2. \A n \in DOMAIN proc[q].writes :
            proc[q].writes[n][1] = "outbox" => proc[q].writes[n][2] \in Box
    BY <2>1, OutboxWrites
  <2>3. Numbered(proc[q].box)'
    BY <1>2, <2>1 DEF WellNumbered, Numbered
  <2>4. \A n \in DOMAIN proc[q].writes :
            proc[q].writes[n][1] = "outbox" => Numbered(proc[q].writes[n][2])'
    BY <1>2, <2>1, <2>2 DEF WellNumbered, Numbered
  <2> QED
    BY <2>1, <2>3, <2>4 DEF WellNumbered, BatchOK
<1>5. ASSUME NEW b \in Seq(0..MaxRuns), BatchNumbered(b) PROVE BatchNumbered(b)'
  <2>1. runs \in Nat /\ \A i \in DOMAIN b : b[i] \in Nat
    BY FilesAssumption DEF TInv
  <2> QED
    BY <1>5, <2>1 DEF BatchNumbered
<1>6. LostNumbered'
  <2> SUFFICES ASSUME NEW t \in lost' PROVE BatchNumbered(t.batch)'
    BY DEF LostNumbered
  <2>1. CASE t \in lost
    <3>1. t.batch \in Seq(0..MaxRuns) /\ BatchNumbered(t.batch)
      BY <2>1 DEF TInv, Transactions, NumberInv, LostNumbered
    <3>2. PICK b : b = t.batch
      OBVIOUS
    <3>3. BatchNumbered(b)'
      BY <1>5, <3>1, <3>2
    <3> QED
      BY <3>2, <3>3 DEF BatchNumbered
  <2>2. CASE t \in Own(p)
    <3>1. PICK b : b = proc[p].batch
      OBVIOUS
    <3>2. t.batch = b /\ BatchNumbered(b) /\ b \in Seq(0..MaxRuns)
      BY <2>2, <3>1, TxFacts, BatchIds, ProcessFacts DEF Own
    <3>3. BatchNumbered(b)'
      BY <1>5, <3>2
    <3> QED
      BY <3>2, <3>3 DEF BatchNumbered
  <2> QED
    BY <2>1, <2>2
<1> QED
  BY <1>3, <1>4, <1>6 DEF NumberInv

LEMMA NumberWrite ==
  ASSUME TInv, NumberInv, NEW p \in Procs, Write(p)
  PROVE  NumberInv'
<1> DEFINE me == proc[p]
           w == me.writes
           f == Head(w)[1]
           v == Head(w)[2]
<1>1. /\ 1 \in DOMAIN w /\ w[1] = Head(w) /\ Head(w) = <<f, v>>
      /\ \A n \in DOMAIN Tail(w) : /\ n + 1 \in DOMAIN w /\ Tail(w)[n] = w[n + 1]
  BY PendingFacts DEF Write
<1>2. /\ disk' = [disk EXCEPT ![f] = v]
      /\ proc'[p].writes = Tail(w)
      /\ \A q \in Procs :
             /\ proc'[q].at = proc[q].at /\ proc'[q].cmd = proc[q].cmd
             /\ proc'[q].box = proc[q].box /\ proc'[q].batch = proc[q].batch
             /\ q # p => proc'[q].writes = proc[q].writes
  BY Written
<1>3. disk \in Disk /\ UNCHANGED <<lane, lost, runs>>
  BY DEF Write, TInv, chain, bounds
<1>p. w = proc[p].writes
  OBVIOUS
<1> HIDE DEF f, v, w
<1>4. \A q \in Procs : \A n \in DOMAIN proc'[q].writes : \E m \in DOMAIN proc[q].writes :
          proc'[q].writes[n] = proc[q].writes[m]
  <2> TAKE q \in Procs
  <2>1. CASE q # p
    BY <1>2, <2>1
  <2>2. CASE q = p
    <3>1. \A n \in DOMAIN Tail(w) : Tail(w)[n] = w[n + 1] /\ n + 1 \in DOMAIN w
      BY <1>1
    <3>2. proc'[q].writes = Tail(w) /\ proc[q].writes = w
      BY <1>2, <1>p, <2>2
    <3> QED
      BY <3>1, <3>2
  <2> QED
    BY <2>1, <2>2
<1>5. \A box : Numbered(box)' <=> Numbered(box)
  BY <1>3 DEF Numbered
<1>6. ASSUME NEW q \in Procs PROVE WellNumbered(proc[q])'
  <2>1. WellNumbered(proc[q])
    BY DEF NumberInv
  <2>2. BatchOK(proc[q])'
    BY <1>2, <2>1 DEF WellNumbered, BatchOK
  <2>3. Numbered(proc[q].box)'
    BY <1>2, <1>5, <2>1 DEF WellNumbered, Numbered
  <2>4. \A n \in DOMAIN proc'[q].writes :
            proc'[q].writes[n][1] = "outbox" => Numbered(proc'[q].writes[n][2])
    BY <1>4, <2>1 DEF WellNumbered
  <2> QED
    BY <1>3, <2>2, <2>3, <2>4 DEF WellNumbered, Numbered
<1>7. disk'.outbox # Torn => Numbered(disk'.outbox)
  <2>1. CASE f = "outbox"
    <3>1. disk'.outbox = v
      BY <1>2, <1>3, <2>1 DEF Disk
    <3>2. Numbered(v)
      BY <1>1, <1>p, <2>1 DEF NumberInv, WellNumbered
    <3> QED
      BY <3>1, <3>2
  <2>2. CASE f # "outbox"
    <3>1. disk'.outbox = disk.outbox
      BY <1>2, <1>3, <2>2 DEF Disk
    <3> QED
      BY <3>1 DEF NumberInv
  <2> QED
    BY <2>1, <2>2
<1>8. LaneNumbered' /\ LostNumbered'
  BY <1>3 DEF NumberInv, LaneNumbered, LostNumbered, BatchNumbered
<1> QED
  BY <1>3, <1>6, <1>7, <1>8 DEF NumberInv, Numbered

\* What a peer posts has no number.
LEMMA PostsNoId == \A m \in PeerPost : m \notin Ids
<1>1. \A n \in Ids : n \in 0..MaxRuns
  BY FilesAssumption DEF Ids
<1> QED
  BY <1>1, FilesAssumption DEF PeerPost

LEMMA NumberSteps ==
  ASSUME TInv, NumberInv, NEW p \in Procs, Steps(p)
  PROVE  NumberInv'
<1> DEFINE me == proc[p]
<1>0. /\ me \in Process /\ Control(me) /\ me.box \in Box /\ WellNumbered(me) /\ Numbered(me.box)
      /\ runs \in Nat /\ runs <= runs
  BY ProcessFacts, FilesAssumption DEF NumberInv, WellNumbered, TInv
<1>a. \A b : \A n \in DOMAIN <<<<"outbox", b>>>> : <<<<"outbox", b>>>>[n] = <<"outbox", b>>
  OBVIOUS
<1>l. lane' = lane /\ runs' = runs => LaneNumbered'
  BY DEF NumberInv, LaneNumbered
<1>n. runs' = runs => \A box : Numbered(box)' <=> Numbered(box)
  BY DEF Numbered
<1>1. CASE Done(p) \/ Ends(p) \/ Queued(p) \/ PrintFound(p) \/ Tear(p)
  <2>1. Becomes(p, Idle) /\ UNCHANGED <<lane, runs>> /\ lost' \subseteq lost \cup Own(p)
    BY <1>1, MayBeLostFacts DEF Done, Ends, Queued, PrintFound, Tear, Goes, chain, bounds
  <2>2. disk'.outbox = disk.outbox \/ disk'.outbox = Torn
    <3>1. CASE Tear(p)
      <4>1. \E f : disk' = [disk EXCEPT ![f] = Torn]
        BY <3>1 DEF Tear
      <4> QED
        BY <4>1 DEF TInv, Disk
    <3>2. CASE ~ Tear(p)
      BY <1>1, <3>2 DEF Done, Ends, Queued, PrintFound, Goes
    <3> QED
      BY <3>1, <3>2
  <2>3. Idle.box = <<>> /\ Idle.writes = <<>> /\ Idle.at = "idle"
    BY DEF Idle
  <2>4. WellNumbered(proc[p])'
    BY <2>1, <2>3, Others DEF WellNumbered, Numbered, BatchOK
  <2> QED
    BY <1>0, <1>l, <2>1, <2>2, <2>4, NumberStep
<1>2. ASSUME NEW r, Aside(p, r) PROVE NumberInv'
  <2>1. /\ Becomes(p, r) /\ proc'[p] = r /\ UNCHANGED <<lane, lost, runs>> /\ disk'.outbox = disk.outbox
        /\ r.box = me.box /\ r.at \notin Underway
        /\ \A n \in DOMAIN r.writes : r.writes[n][1] # "outbox"
    BY <1>2, Others DEF Aside
  <2>2. Numbered(me.box)'
    BY <1>0, <2>1 DEF Numbered
  <2>3. WellNumbered(proc[p])'
    BY <2>1, <2>2 DEF WellNumbered, Numbered, BatchOK
  <2> QED
    BY <1>0, <1>l, <2>1, <2>3, NumberStep
<1>3. CASE Seal(p)
  <2>1. PICK r, ids, box : Sealed(p, r, ids, box)
    BY <1>3, SealStep
  <2>2. Becomes(p, r) /\ UNCHANGED <<disk, lane, lost, runs>> /\ proc'[p] = r
    BY <2>1, Others DEF Sealed, Goes, chain, bounds
  <2>3. /\ box \in Box /\ DOMAIN box = DOMAIN me.box /\ Numbered(box)
        /\ \A i \in DOMAIN me.box :
               /\ box[i].id = me.box[i].id
               /\ me.box[i].id \in Range(ids) => box[i].status = "proving"
    BY <1>0, <2>1, MarkedFacts, MarkedNumbers DEF Sealed, Statuses
  <2>4. ASSUME me.cmd = "flush"
        PROVE  /\ \A n \in DOMAIN ids : \E i \in DOMAIN box :
                      box[i].id = ids[n] /\ box[i].status # "queued"
               /\ \A m, n \in DOMAIN ids : ids[m] = ids[n] => m = n
    <3>1. ids = BatchFor(me, Head(me.todo))
      BY <2>1, <2>4 DEF Sealed
    <3>2. /\ \A n \in DOMAIN ids : \E i \in QueuedAt(me.box) : ids[n] = me.box[i].id
          /\ \A m, n \in DOMAIN ids : ids[m] = ids[n] => m = n
      BY <1>0, <3>1, BatchFacts DEF Numbered
    <3>3. QueuedAt(me.box) \subseteq DOMAIN me.box
      BY <1>0, BoxFacts
    <3> QED
      BY <2>3, <3>2, <3>3 DEF Range
  <2>5. /\ r.at = "submit" /\ r.box = box /\ r.batch = ids /\ r.cmd = me.cmd
        /\ \A n \in DOMAIN r.writes : r.writes[n] = <<"outbox", box>>
    BY <1>a, <2>1 DEF Sealed
  <2>6. BatchOK(proc[p])'
    BY <2>2, <2>4, <2>5 DEF BatchOK
  <2>7. Numbered(box)'
    BY <1>n, <2>2, <2>3 DEF Numbered
  <2>8. WellNumbered(proc[p])'
    BY <2>2, <2>5, <2>6, <2>7 DEF WellNumbered, Numbered
  <2> QED
    BY <1>0, <1>l, <2>2, <2>8, NumberStep
<1>4. CASE Broadcast(p)
  <2>1. PICK r, box : Broadcasted(p, r, box)
    BY <1>4, BroadcastStep
  <2>2. Becomes(p, r) /\ UNCHANGED <<disk, lane, lost, runs>> /\ proc'[p] = r
    BY <2>1, Others DEF Broadcasted, Goes, chain, bounds
  <2>3. /\ box \in Box /\ DOMAIN box = DOMAIN me.box /\ Numbered(box)
        /\ \A i \in DOMAIN me.box :
               /\ box[i].id = me.box[i].id
               /\ me.box[i].id \in Range(me.batch) => box[i].status = "submitted"
    BY <1>0, <2>1, MarkedFacts, MarkedNumbers DEF Broadcasted, Statuses
  <2>4. /\ r.at = "sent" /\ r.box = box /\ r.batch = me.batch /\ r.cmd = me.cmd
        /\ \A n \in DOMAIN r.writes : r.writes[n] = <<"outbox", box>>
        /\ me.at = "submit"
    BY <1>a, <2>1 DEF Broadcasted
  <2>5. BatchOK(proc[p])'
    <3>1. BatchOK(me)
      BY <1>0 DEF WellNumbered
    <3>2. ASSUME me.cmd = "flush", NEW n \in DOMAIN me.batch
          PROVE  \E i \in DOMAIN box : box[i].id = me.batch[n] /\ box[i].status # "queued"
      <4>1. PICK i \in DOMAIN me.box : me.box[i].id = me.batch[n]
        BY <2>4, <3>1, <3>2 DEF BatchOK
      <4>2. box[i].id = me.batch[n] /\ box[i].status = "submitted"
        BY <2>3, <3>2, <4>1 DEF Range
      <4> QED
        BY <2>3, <4>2
    <3> QED
      BY <2>2, <2>4, <3>1, <3>2 DEF BatchOK
  <2>6. Numbered(box)'
    BY <1>n, <2>2, <2>3 DEF Numbered
  <2>7. WellNumbered(proc[p])'
    BY <2>2, <2>4, <2>5, <2>6 DEF WellNumbered, Numbered
  <2> QED
    BY <1>0, <1>l, <2>2, <2>7, NumberStep
<1>4a. CASE Include(p)
  <2>1. PICK r : Included(p, r)
    BY <1>4a, IncludeStep
  <2>2. /\ Becomes(p, r) /\ UNCHANGED <<disk, lost, runs>> /\ proc'[p] = r
        /\ me.at \in Underway /\ Grows(Head(me.todo), me.index, me.batch)
    BY <2>1, Others DEF Included
  <2>3. LaneNumbered'
    BY <2>1, <2>2, SenderFacts, BatchPosts, BatchIds, GrownIds DEF Included
  <2>4. Numbered(me.box)'
    BY <1>n, <1>0, <2>1, <2>2 DEF Included, Numbered
  <2>5. WellNumbered(proc[p])'
    BY <1>0, <2>1, <2>2, <2>4 DEF Included, WellNumbered, Numbered, BatchOK
  <2> QED
    BY <1>0, <2>2, <2>3, <2>5, NumberStep
<1>4b. CASE Refused(p) \/ Reseal(p) \/ AnswerLost(p)
  <2>1. PICK r : Retried(p, r)
    BY <1>4b, RetryStep
  <2>2. /\ Becomes(p, r) /\ UNCHANGED <<disk, lane, runs>> /\ proc'[p] = r
        /\ lost' \subseteq lost \cup Own(p)
    BY <2>1, Others DEF Retried, Own
  <2>3. Numbered(me.box)'
    BY <1>n, <1>0, <2>1, <2>2 DEF Retried, Numbered
  <2>4. WellNumbered(proc[p])'
    BY <1>0, <2>1, <2>2, <2>3 DEF Retried, WellNumbered, Numbered, BatchOK
  <2> QED
    BY <1>0, <1>l, <2>2, <2>4, NumberStep
<1>5. CASE Confirm(p)
  <2>1. PICK r, box, cfg, cursors : Confirmed(p, r, box, cfg, cursors)
    BY <1>5, ConfirmStep
  <2>2. Becomes(p, r) /\ UNCHANGED <<disk, lane, lost, runs>> /\ proc'[p] = r
    BY <2>1, Others DEF Confirmed, Goes, chain, bounds
  <2>3. Numbered(box)
    BY <1>0, <2>1, MarkedNumbers DEF Confirmed, Statuses
  <2>4. /\ r.at \in {"done", "seal"} /\ r.box = box
        /\ \A n \in DOMAIN r.writes : r.writes[n][1] = "outbox" => r.writes[n] = <<"outbox", box>>
    BY <2>1 DEF Confirmed
  <2>5. Numbered(box)'
    BY <1>n, <2>2, <2>3 DEF Numbered
  <2>6. WellNumbered(proc[p])'
    BY <2>2, <2>4, <2>5 DEF WellNumbered, BatchOK, Numbered
  <2> QED
    BY <1>0, <1>l, <2>2, <2>6, NumberStep
<1>6. CASE RenameTmp(p)
  <2>1. UNCHANGED <<lane, lost, runs>> /\ disk'.outbox = disk.outbox
    BY <1>6 DEF RenameTmp, chain, bounds, TInv, Disk
  <2>2. \A q \in Procs : /\ proc'[q].writes = proc[q].writes
                         /\ proc'[q].cmd = proc[q].cmd /\ proc'[q].box = proc[q].box
                         /\ proc'[q].batch = proc[q].batch
                         /\ proc'[q].at = proc[q].at \/ proc'[q].at \in {"done", "window"}
    BY <1>6, Renamed
  <2>3. ASSUME NEW q \in Procs PROVE WellNumbered(proc[q])'
    <3>1. WellNumbered(proc[q])
      BY DEF NumberInv
    <3> QED
      BY <2>1, <2>2, <3>1 DEF WellNumbered, Numbered, BatchOK
  <2>4. LostNumbered'
    BY <2>1 DEF NumberInv, LostNumbered, BatchNumbered
  <2> QED
    BY <1>l, <2>1, <2>3, <2>4 DEF NumberInv, Numbered
<1> QED
  BY <1>1, <1>2, <1>3, <1>4, <1>4a, <1>4b, <1>5, <1>6, AsideSteps, NumberWrite DEF Steps

LEMMA NumberNext == TInv /\ NumberInv /\ [Next]_vars => NumberInv'
<1> SUFFICES ASSUME TInv, NumberInv, [Next]_vars PROVE NumberInv'
  OBVIOUS
<1>0. runs \in Nat
  BY FilesAssumption DEF TInv
<1>1. ASSUME NEW p \in Procs, Commands(p) PROVE NumberInv'
  <2>1. PICK r : Becomes(p, r) /\ Fresh(r)
    BY <1>1, Started
  <2>2. UNCHANGED <<disk, lane, lost>> /\ proc'[p] = r /\ runs' = runs + 1
    BY <1>1, <2>1, Started, Others
  <2>3. ASSUME NEW n \in DOMAIN r.writes, r.writes[n][1] = "outbox"
        PROVE  \E to \in Names : /\ disk.outbox # Torn
                 /\ r.writes[n][2] = Append(disk.outbox, [id |-> runs + 1, to |-> to, status |-> "queued"])
    BY <2>1, <2>3 DEF Fresh
  <2>4. ASSUME NEW box \in Box, Numbered(box)
        PROVE  /\ \A i \in DOMAIN box : box[i].id <= runs + 1 /\ box[i].id # runs + 1
               /\ \A i, j \in DOMAIN box : box[i].id = box[j].id => i = j
    <3>1. \A i \in DOMAIN box : box[i].id \in Nat /\ box[i].id <= runs
      BY <2>4, BoxFacts, FilesAssumption DEF Numbered, Ids
    <3>2. \A n \in Nat : n <= runs => n <= runs + 1 /\ n # runs + 1
      BY <1>0
    <3> QED
      BY <2>4, <3>1, <3>2 DEF Numbered
  <2>5. ASSUME disk.outbox # Torn, NEW e, e.id = runs + 1
        PROVE  LET v == Append(disk.outbox, e) IN
               /\ \A i \in DOMAIN v : v[i].id <= runs + 1
               /\ \A i, j \in DOMAIN v : v[i].id = v[j].id => i = j
    <3> DEFINE s == disk.outbox
               v == Append(s, e)
    <3>1. /\ \A i \in DOMAIN v : i \in DOMAIN s \/ i = Len(s) + 1
          /\ \A i \in DOMAIN s : v[i] = s[i]
          /\ \A i \in DOMAIN v : (i \in DOMAIN s /\ v[i] = s[i]) \/ v[i] = e
      BY <2>5, Added
    <3>2. /\ \A i \in DOMAIN s : s[i].id <= runs + 1 /\ s[i].id # runs + 1
          /\ \A i, j \in DOMAIN s : s[i].id = s[j].id => i = j
      <4>1. s \in Box /\ Numbered(s)
        BY <2>5, DiskFacts DEF NumberInv
      <4> QED
        BY <2>4, <4>1
    <3>3. runs + 1 <= runs + 1
      BY <1>0
    <3> HIDE DEF v, s
    <3>4. \A i \in DOMAIN v : v[i].id <= runs + 1
      BY <2>5, <3>1, <3>2, <3>3
    <3>5. \A i, j \in DOMAIN v : v[i].id = v[j].id => i = j
      <4> SUFFICES ASSUME NEW i \in DOMAIN v, NEW j \in DOMAIN v, v[i].id = v[j].id PROVE i = j
        OBVIOUS
      <4> QED
        BY <2>5, <3>1, <3>2
    <3> QED
      BY <3>4, <3>5 DEF v, s
  <2>6. ASSUME NEW n \in DOMAIN r.writes, r.writes[n][1] = "outbox"
        PROVE  LET v == r.writes[n][2] IN
               /\ \A i \in DOMAIN v : v[i].id <= runs + 1
               /\ \A i, j \in DOMAIN v : v[i].id = v[j].id => i = j
    <3>1. PICK to \in Names : /\ disk.outbox # Torn
            /\ r.writes[n][2] = Append(disk.outbox, [id |-> runs + 1, to |-> to, status |-> "queued"])
      BY <2>3, <2>6
    <3> DEFINE e == [id |-> runs + 1, to |-> to, status |-> "queued"]
    <3>2. e.id = runs + 1
      OBVIOUS
    <3> HIDE DEF e
    <3> QED
      BY <2>5, <3>1, <3>2 DEF e
  <2>7. /\ \A i \in DOMAIN r.box : r.box[i].id <= runs + 1
        /\ \A i, j \in DOMAIN r.box : r.box[i].id = r.box[j].id => i = j
    <3>1. r.box = <<>> \/ (r.box = disk.outbox /\ disk.outbox # Torn)
      BY <2>1 DEF Fresh
    <3>2. CASE r.box = <<>>
      BY <3>2
    <3>3. CASE r.box = disk.outbox /\ disk.outbox # Torn
      <4>1. r.box \in Box /\ Numbered(r.box)
        BY <3>3, DiskFacts DEF NumberInv
      <4> QED
        BY <2>4, <4>1
    <3> QED
      BY <3>1, <3>2, <3>3
  <2>8. WellNumbered(proc[p])'
    <3>1. r.at \notin Underway
      BY <2>1 DEF Fresh
    <3> QED
      BY <2>2, <2>6, <2>7, <3>1 DEF WellNumbered, Numbered, BatchOK
  <2>9. LaneNumbered'
    BY <1>0, <2>2, FilesAssumption DEF NumberInv, LaneNumbered, Ids
  <2>10. runs' \in Nat /\ runs <= runs'
    BY <1>0, <2>2
  <2> QED
    BY <2>1, <2>2, <2>8, <2>9, <2>10, NumberStep
<1>2. ASSUME NEW p \in Procs, Steps(p) PROVE NumberInv'
  BY <1>2, NumberSteps
<1>3. ASSUME NEW q \in Peers, NEW m \in PeerPost, PeerPosts(q, m) PROVE NumberInv'
  <2>1. UNCHANGED <<disk, proc, lost, runs>>
    BY <1>3 DEF PeerPosts
  <2>2. ASSUME NEW k \in Keys, NEW i \in DOMAIN lane'[k], lane'[k][i] \in Ids
        PROVE  lane'[k][i] <= runs'
    <3>1. m \notin Ids
      BY PostsNoId
    <3>2. lane[k] \in Seq(Posts)
      BY DEF TInv
    <3>3. lane'[k] = lane[k] \/ (lane'[k] = Append(lane[k], m))
      BY <1>3 DEF PeerPosts, TInv
    <3>4. i \in DOMAIN lane[k] /\ lane'[k][i] = lane[k][i]
      BY <2>2, <3>1, <3>2, <3>3
    <3> QED
      BY <2>1, <2>2, <3>4 DEF NumberInv, LaneNumbered
  <2>3. \A r \in Procs : WellNumbered(proc[r])'
    BY <2>1 DEF NumberInv, WellNumbered, Numbered, BatchOK
  <2>4. LostNumbered'
    BY <2>1 DEF NumberInv, LostNumbered, BatchNumbered
  <2> QED
    BY <2>1, <2>2, <2>3, <2>4 DEF NumberInv, LaneNumbered, Numbered
<1>3a. ASSUME NEW t \in lost, IncludeLost(t) PROVE NumberInv'
  <2>1. UNCHANGED <<disk, proc, runs>> /\ lost' \subseteq lost
    BY <1>3a DEF IncludeLost, bounds
  <2>2. LaneNumbered'
    BY <1>3a, <2>1, LostFacts, GrownIds DEF NumberInv, LostNumbered
  <2>3. \A r \in Procs : WellNumbered(proc[r])'
    BY <2>1 DEF NumberInv, WellNumbered, Numbered, BatchOK
  <2>4. LostNumbered'
    BY <2>1 DEF NumberInv, LostNumbered, BatchNumbered
  <2> QED
    BY <2>1, <2>2, <2>3, <2>4 DEF NumberInv, Numbered
<1>4. CASE UNCHANGED vars
  <2>1. UNCHANGED <<disk, proc, lane, lost, runs>>
    BY <1>4 DEF vars, chain, bounds
  <2>2. \A r \in Procs : WellNumbered(proc[r])'
    BY <2>1 DEF NumberInv, WellNumbered, Numbered, BatchOK
  <2>3. LaneNumbered' /\ LostNumbered'
    BY <2>1 DEF NumberInv, LaneNumbered, LostNumbered, BatchNumbered
  <2> QED
    BY <2>1, <2>2, <2>3 DEF NumberInv, Numbered
<1> QED
  BY <1>1, <1>2, <1>3, <1>3a, <1>4 DEF Next

LEMMA InitNumbered == Init => NumberInv
<1> SUFFICES ASSUME Init PROVE NumberInv
  OBVIOUS
<1>1. /\ disk.outbox = <<>> /\ lane = [k \in Keys |-> <<>>] /\ lost = {}
      /\ proc = [p \in Procs |-> Idle]
  BY DEF Init
<1>2. \A p \in Procs : proc[p].at = "idle" /\ proc[p].box = <<>> /\ proc[p].writes = <<>>
  BY <1>1 DEF Idle
<1>3. Numbered(<<>>)
  BY DEF Numbered
<1> QED
  BY <1>1, <1>2, <1>3 DEF NumberInv, LaneNumbered, LostNumbered, WellNumbered, BatchOK

\* What is on its way has a number that was given.
LEMMA SendingIds ==
  ASSUME TInv, NumberInv, NEW p \in Procs
  PROVE  /\ \A n \in Sending(p) : n \in Ids /\ n <= runs
         /\ proc[p].cmd = "flush" /\ proc[p].at \in Underway =>
                \A n \in DOMAIN proc[p].batch : proc[p].batch[n] \in Ids
<1> DEFINE me == proc[p]
<1>1. me.box \in Box /\ BatchOK(me) /\ Numbered(me.box)
  BY ProcessFacts DEF NumberInv, WellNumbered
<1>2. ASSUME me.cmd = "flush", me.at \in Underway, NEW n \in DOMAIN me.batch
      PROVE  me.batch[n] \in Ids /\ me.batch[n] <= runs
  <2>1. PICK i \in DOMAIN me.box : me.box[i].id = me.batch[n]
    BY <1>1, <1>2 DEF BatchOK
  <2>2. me.box[i].id \in Ids
    BY <1>1, BoxFacts
  <2> QED
    BY <1>1, <2>1, <2>2 DEF Numbered
<1>3. ASSUME NEW n \in Sending(p) PROVE n \in Ids /\ n <= runs
  <2>1. me.cmd = "flush" /\ me.at \in Underway /\ n \in Range(me.batch)
    BY <1>3 DEF Sending, At
  <2>2. PICK i \in DOMAIN me.batch : me.batch[i] = n
    BY <2>1 DEF Range
  <2> QED
    BY <1>2, <2>1, <2>2
<1> QED
  BY <1>2, <1>3

\* What a transaction carries of the ids, when it is that of a process.
LEMMA OwnIds ==
  ASSUME TInv, NEW p \in Procs, proc[p].at \in Underway,
         proc[p].at # "submit" \/ proc[p].writes = <<>>
  PROVE  /\ \A n \in Ids : Contains(Tx(proc[p]).batch, n) => n \in Sending(p)
         /\ proc[p].cmd = "flush" => Sending(p) = Range(proc[p].batch)
<1> DEFINE me == proc[p]
<1>1. me.cmd = "flush" => Sending(p) = Range(me.batch)
  BY DEF Sending, At
<1>2. ASSUME NEW n \in Ids, Contains(Tx(me).batch, n) PROVE n \in Sending(p)
  <2>1. PICK i \in DOMAIN me.batch : me.batch[i] = n
    BY <1>2, TxFacts DEF Contains
  <2>2. CASE me.cmd = "flush"
    BY <1>1, <2>1, <2>2 DEF Range
  <2>3. CASE me.cmd # "flush"
    <3>1. me.batch = <<0>> /\ 0 \notin Ids
      BY <2>3, ProcessFacts, FilesAssumption DEF Control, Ids
    <3> QED
      BY <2>1, <3>1
  <2> QED
    BY <2>2, <2>3
<1> QED
  BY <1>1, <1>2

\* What was not sent is still not sent, when only what was on its way landed
\* or lost its sender, and nothing else set out.
LEMMA UnsentStays ==
  ASSUME \A n \in Ids : OnChain(n)' => \/ OnChain(n) \/ InLost(n)
                                       \/ \E p \in Procs : n \in Sending(p),
         \A n \in Ids : InLost(n)' => InLost(n) \/ \E p \in Procs : n \in Sending(p),
         \A p \in Procs : \A n \in Sending(p)' : n \in Sending(p)
  PROVE  /\ \A n \in Ids : Unsent(n) => Unsent(n)'
         /\ \A box \in Box : WaitingUnsent(box) => WaitingUnsent(box)'
<1>1. \A n \in Ids : Unsent(n) => Unsent(n)'
  BY DEF Unsent
<1>2. ASSUME NEW box \in Box, WaitingUnsent(box) PROVE WaitingUnsent(box)'
  <2>1. \A i \in QueuedAt(box) : box[i].id \in Ids
    BY BoxFacts
  <2> QED
    BY <1>1, <1>2, <2>1 DEF WaitingUnsent
<1> QED
  BY <1>1, <1>2

\* The same for all that a process may send.
LEMMA SendsStay ==
  ASSUME TInv, NumberInv, NEW q \in Procs, SendsOnce(proc[q]),
         \A n \in Ids : Unsent(n) => Unsent(n)',
         \A box \in Box : WaitingUnsent(box) => WaitingUnsent(box)',
         proc'[q].box = proc[q].box, proc'[q].batch = proc[q].batch,
         proc'[q].cmd = proc[q].cmd,
         "outbox" \in proc'[q].loaded => "outbox" \in proc[q].loaded,
         proc'[q].at = "submit" => proc[q].at = "submit",
         proc'[q].writes # <<>> => proc[q].writes # <<>>,
         \A n \in DOMAIN proc'[q].writes : \E m \in DOMAIN proc[q].writes :
             proc'[q].writes[n] = proc[q].writes[m]
  PROVE  SendsOnce(proc[q])'
<1>1. proc[q].box \in Box /\ proc[q].writes \in Seq(Writes)
  BY ProcessFacts
<1>2. \A n \in DOMAIN proc[q].writes :
          proc[q].writes[n][1] = "outbox" => proc[q].writes[n][2] \in Box
  BY <1>1, OutboxWrites
<1>3. ASSUME "outbox" \in proc'[q].loaded PROVE WaitingUnsent(proc[q].box)'
  <2>1. WaitingUnsent(proc[q].box)
    BY <1>3 DEF SendsOnce
  <2> QED
    BY <1>1, <2>1 DEF WaitingUnsent
<1>4. ASSUME "outbox" \in proc'[q].loaded, NEW n \in DOMAIN proc'[q].writes,
             proc'[q].writes[n][1] = "outbox"
      PROVE  WaitingUnsent(proc[q].writes[n][2])'
  <2>1. PICK m \in DOMAIN proc[q].writes : proc'[q].writes[n] = proc[q].writes[m]
    OBVIOUS
  <2>2. WaitingUnsent(proc[q].writes[m][2]) /\ proc[q].writes[m][2] \in Box
    BY <1>2, <1>4, <2>1 DEF SendsOnce
  <2> QED
    BY <2>1, <2>2 DEF WaitingUnsent
<1>5. ASSUME "outbox" \in proc'[q].loaded, proc'[q].cmd = "flush", proc'[q].at = "submit",
             proc'[q].writes # <<>>, NEW n \in DOMAIN proc'[q].batch
      PROVE  Unsent(proc[q].batch[n])'
  <2>1. Unsent(proc[q].batch[n]) /\ proc[q].batch[n] \in Ids
    BY <1>5, SendingIds DEF SendsOnce
  <2> QED
    BY <2>1 DEF Unsent
<1> QED
  BY <1>3, <1>4, <1>5 DEF SendsOnce

\* What is on its way, if it is not in doubt, is there once.
OnItsWay(p) == \A n \in Sending(p) \ doubt :
    ~ InLost(n) /\ (proc[p].at # "landed" => ~ OnChain(n))

\* A step of one process that does not write the outbox.
LEMMA SentStep ==
  ASSUME TInv, NumberInv, SentInv, NEW p \in Procs, NEW r, Becomes(p, r),
         Sending(p)' \subseteq Sending(p), doubt \subseteq doubt',
         disk'.outbox = disk.outbox \/ disk'.outbox = Torn,
         "outbox" \in raced => "outbox" \in raced',
         \A n \in Ids : OnChain(n)' => OnChain(n) \/ n \in Sending(p),
         \A n \in Ids : InLost(n)' => InLost(n) \/ n \in Sending(p),
         "outbox" \notin raced => OnChainOnce' /\ LostOnce' /\ OnItsWay(p)',
         "outbox" \notin raced => SendsOnce(proc[p])'
  PROVE  SentInv'
<1> SUFFICES ASSUME "outbox" \notin raced'
             PROVE  /\ OnChainOnce' /\ LostOnce'
                    /\ disk'.outbox # Torn => WaitingUnsent(disk.outbox)'
                    /\ \A q \in Procs : SendsOnce(proc[q])'
                    /\ \A q \in Procs : OnItsWay(q)'
                    /\ \A q, s \in Procs : Sending(q)' \cap Sending(s)' # {} => q = s
  BY DEF SentInv, OnItsWay
<1>1. "outbox" \notin raced
  OBVIOUS
<1>2. proc'[p] = r /\ \A q \in Procs : q # p => proc'[q] = proc[q]
  BY Others
<1>3. \A q \in Procs : q # p => Sending(q)' = Sending(q)
  BY <1>2 DEF Sending, At
<1>4. \A q \in Procs : \A n \in Sending(q)' : n \in Sending(q)
  BY <1>3
<1>5. /\ \A n \in Ids : Unsent(n) => Unsent(n)'
      /\ \A box \in Box : WaitingUnsent(box) => WaitingUnsent(box)'
  BY <1>4, UnsentStays
<1>6. disk'.outbox # Torn => WaitingUnsent(disk.outbox)'
  <2> SUFFICES ASSUME disk'.outbox # Torn PROVE WaitingUnsent(disk.outbox)'
    OBVIOUS
  <2>1. disk'.outbox = disk.outbox /\ disk.outbox \in Box
    BY DiskFacts
  <2>2. WaitingUnsent(disk.outbox)
    BY <1>1, <2>1 DEF SentInv
  <2> QED
    BY <1>5, <2>1, <2>2 DEF WaitingUnsent
<1>7. ASSUME NEW q \in Procs PROVE SendsOnce(proc[q])'
  <2>1. CASE q = p
    BY <1>1, <2>1
  <2>2. CASE q # p
    <3>1. SendsOnce(proc[q]) /\ proc'[q] = proc[q]
      BY <1>1, <1>2, <2>2 DEF SentInv
    <3> QED
      BY <1>5, <3>1, SendsStay
  <2> QED
    BY <2>1, <2>2
<1>8. ASSUME NEW q \in Procs PROVE OnItsWay(q)'
  <2>1. CASE q = p
    BY <1>1, <2>1
  <2>2. CASE q # p
    <3> SUFFICES ASSUME NEW n \in Sending(q)', n \notin doubt'
                 PROVE  ~ InLost(n)' /\ (proc'[q].at # "landed" => ~ OnChain(n)')
      BY DEF OnItsWay
    <3>1. n \in Sending(q) /\ n \notin doubt /\ proc'[q] = proc[q]
      BY <1>2, <1>4, <2>2
    <3>2. n \in Ids
      BY <3>1, SendingIds
    <3>3. n \notin Sending(p)
      BY <1>1, <2>2, <3>1 DEF SentInv
    <3>4. ~ InLost(n) /\ (proc[q].at # "landed" => ~ OnChain(n))
      BY <1>1, <3>1 DEF SentInv
    <3> QED
      BY <3>1, <3>2, <3>3, <3>4
  <2> QED
    BY <2>1, <2>2
<1>9. ASSUME NEW q \in Procs, NEW s \in Procs, Sending(q)' \cap Sending(s)' # {} PROVE q = s
  BY <1>1, <1>4, <1>9 DEF SentInv
<1> QED
  BY <1>1, <1>6, <1>7, <1>8, <1>9

LEMMA SentWrite ==
  ASSUME TInv, NumberInv, SentInv, NEW p \in Procs, Write(p)
  PROVE  SentInv'
<1> DEFINE me == proc[p]
           w == me.writes
           f == Head(w)[1]
           v == Head(w)[2]
<1>1. /\ 1 \in DOMAIN w /\ w[1] = Head(w) /\ Head(w) = <<f, v>>
      /\ WriteOK(me, Head(w))
      /\ f = "outbox" => v \in Box
      /\ \A n \in DOMAIN Tail(w) : /\ n + 1 \in DOMAIN w /\ Tail(w)[n] = w[n + 1]
                                   /\ Tail(w)[n][1] # f
      /\ Tail(w) \in Seq(Writes)
  BY PendingFacts DEF Write
<1>2. /\ w # <<>> /\ f \in {"config", "cursors", "outbox"}
      /\ disk' = [disk EXCEPT ![f] = v]
      /\ raced' = IF f \in me.loaded THEN raced ELSE raced \cup {f}
      /\ proc'[p].writes = Tail(w) /\ proc'[p].loaded = me.loaded \cup {f}
      /\ \A q \in Procs :
             /\ proc'[q].at = proc[q].at /\ proc'[q].cmd = proc[q].cmd
             /\ proc'[q].box = proc[q].box /\ proc'[q].batch = proc[q].batch
             /\ q # p => /\ proc'[q].writes = proc[q].writes
                         /\ proc'[q].loaded = proc[q].loaded \ {f}
  BY Written
<1>3. disk \in Disk /\ UNCHANGED <<lane, lost, doubt>>
  BY DEF Write, TInv, chain
<1>4. /\ me \in Process /\ Control(me) /\ me.box \in Box
      /\ me.writes \in Seq(Writes)
  BY ProcessFacts
<1>c. \A n : (OnChain(n)' <=> OnChain(n)) /\ (InLost(n)' <=> InLost(n))
  BY <1>3 DEF OnChain, InLost
<1>p. w = proc[p].writes
  OBVIOUS
<1>o. \A n \in DOMAIN w : WriteOK(me, w[n])
  BY <1>4 DEF Control
<1> HIDE DEF f, v, w
<1>5. \A q \in Procs : \A n \in DOMAIN proc'[q].writes : \E m \in DOMAIN proc[q].writes :
          /\ proc'[q].writes[n] = proc[q].writes[m]
          /\ q = p => proc'[q].writes[n][1] # f
  <2> TAKE q \in Procs
  <2>1. CASE q # p
    BY <1>2, <2>1
  <2>2. CASE q = p
    <3>1. \A n \in DOMAIN Tail(w) : Tail(w)[n] = w[n + 1] /\ n + 1 \in DOMAIN w /\ Tail(w)[n][1] # f
      BY <1>1
    <3>2. proc'[q].writes = Tail(w) /\ proc[q].writes = w
      BY <1>2, <1>p, <2>2
    <3> QED
      BY <3>1, <3>2
  <2> QED
    BY <2>1, <2>2
<1>6. \A q \in Procs : q # p => Sending(q)' = Sending(q)
  BY <1>2 DEF Sending, At
<1>7. (OnChainOnce' <=> OnChainOnce) /\ (LostOnce' <=> LostOnce)
  BY <1>3, <1>c DEF OnChainOnce, LostOnce
<1>8. CASE f # "outbox"
  <2>1. me.at \notin Underway
    BY <1>1, <1>8 DEF WriteOK
  <2>2. Sending(p)' = {}
    BY <1>2, <2>1 DEF Sending, At
  <2>3. \A q \in Procs : \A n \in Sending(q)' : n \in Sending(q) /\ q # p
    BY <1>6, <2>2
  <2>4. /\ \A n \in Ids : Unsent(n) => Unsent(n)'
        /\ \A box \in Box : WaitingUnsent(box) => WaitingUnsent(box)'
    BY <1>c, <2>3, UnsentStays
  <2> SUFFICES ASSUME "outbox" \notin raced'
               PROVE  /\ OnChainOnce' /\ LostOnce'
                      /\ disk'.outbox # Torn => WaitingUnsent(disk.outbox)'
                      /\ \A q \in Procs : SendsOnce(proc[q])'
                      /\ \A q \in Procs : OnItsWay(q)'
                      /\ \A q, s \in Procs : Sending(q)' \cap Sending(s)' # {} => q = s
    BY DEF SentInv, OnItsWay
  <2>5. "outbox" \notin raced
    BY <1>2
  <2>6. disk'.outbox # Torn => WaitingUnsent(disk.outbox)'
    <3> SUFFICES ASSUME disk'.outbox # Torn PROVE WaitingUnsent(disk.outbox)'
      OBVIOUS
    <3>1. disk'.outbox = disk.outbox
      BY <1>2, <1>3, <1>8 DEF Disk
    <3>2. disk.outbox \in Box
      BY <3>1, DiskFacts
    <3>3. WaitingUnsent(disk.outbox)
      BY <2>5, <3>1 DEF SentInv
    <3> QED
      BY <2>4, <3>1, <3>2, <3>3 DEF WaitingUnsent
  <2>7. ASSUME NEW q \in Procs PROVE SendsOnce(proc[q])'
    <3>1. SendsOnce(proc[q])
      BY <2>5 DEF SentInv
    <3>2. "outbox" \in proc'[q].loaded => "outbox" \in proc[q].loaded
      BY <1>2, <1>8
    <3>3. proc'[q].writes # <<>> => proc[q].writes # <<>>
      BY <1>2, <1>p
    <3> QED
      BY <1>2, <1>5, <2>4, <3>1, <3>2, <3>3, SendsStay
  <2>8. \A q \in Procs : OnItsWay(q)'
    BY <1>2, <1>3, <1>c, <2>3, <2>5 DEF SentInv, OnItsWay
  <2> QED
    BY <1>7, <2>3, <2>5, <2>6, <2>7, <2>8 DEF SentInv
<1>9. CASE f = "outbox"
  <2> SUFFICES ASSUME "outbox" \notin raced'
               PROVE  /\ OnChainOnce' /\ LostOnce'
                      /\ disk'.outbox # Torn => WaitingUnsent(disk.outbox)'
                      /\ \A q \in Procs : SendsOnce(proc[q])'
                      /\ \A q \in Procs : OnItsWay(q)'
                      /\ \A q, s \in Procs : Sending(q)' \cap Sending(s)' # {} => q = s
    BY DEF SentInv, OnItsWay
  <2>1. "outbox" \notin raced /\ "outbox" \in me.loaded
    BY <1>2, <1>9
  <2>2. SendsOnce(me)
    BY <2>1 DEF SentInv
  <2>3. WaitingUnsent(v) /\ WaitingUnsent(me.box)
    BY <1>1, <1>9, <1>p, <2>1, <2>2 DEF SendsOnce
  <2>4. me.cmd = "flush" /\ me.at = "submit" => v = me.box
    BY <1>1, <1>9 DEF WriteOK
  <2>5. ASSUME me.cmd = "flush", me.at = "submit", NEW n \in Range(me.batch)
        PROVE  Unsent(n) /\ \A i \in QueuedAt(me.box) : me.box[i].id # n
    <3>1. PICK m \in DOMAIN me.batch : me.batch[m] = n
      BY DEF Range
    <3>2. Unsent(n)
      BY <1>2, <1>p, <2>1, <2>2, <2>5, <3>1 DEF SendsOnce
    <3>3. BatchOK(me) /\ Numbered(me.box)
      BY DEF NumberInv, WellNumbered
    <3>4. PICK i \in DOMAIN me.box : me.box[i].id = n /\ me.box[i].status # "queued"
      BY <2>5, <3>1, <3>3 DEF BatchOK
    <3> QED
      BY <3>2, <3>3, <3>4 DEF Numbered, QueuedAt
  <2>6. \A n \in Sending(p)' : \/ n \in Sending(p)
                               \/ me.cmd = "flush" /\ me.at = "submit" /\ n \in Range(me.batch)
    BY <1>2 DEF Sending, At
  <2>7. \A n : Unsent(n) /\ ~ (me.cmd = "flush" /\ me.at = "submit" /\ n \in Range(me.batch))
             => Unsent(n)'
    BY <1>6, <1>c, <2>6 DEF Unsent
  <2>8. ASSUME NEW box, WaitingUnsent(box), me.cmd = "flush" /\ me.at = "submit" => box = me.box
        PROVE  WaitingUnsent(box)'
    <3> SUFFICES ASSUME NEW i \in QueuedAt(box) PROVE Unsent(box[i].id)'
      BY DEF WaitingUnsent
    <3>1. Unsent(box[i].id)
      BY <2>8 DEF WaitingUnsent
    <3>2. ~ (me.cmd = "flush" /\ me.at = "submit" /\ box[i].id \in Range(me.batch))
      BY <2>5, <2>8
    <3> QED
      BY <2>7, <3>1, <3>2
  <2>9. disk'.outbox = v
    BY <1>2, <1>3, <1>9 DEF Disk
  <2>10. WaitingUnsent(disk.outbox)'
    BY <2>3, <2>4, <2>8, <2>9 DEF WaitingUnsent
  <2>11. ASSUME NEW q \in Procs PROVE SendsOnce(proc[q])'
    <3>1. CASE q # p
      BY <1>2, <1>9, <3>1 DEF SendsOnce
    <3>2. CASE q = p
      <4>1. WaitingUnsent(me.box)'
        BY <1>2, <2>3, <2>8 DEF WaitingUnsent
      <4>2. \A n \in DOMAIN proc'[p].writes : proc'[p].writes[n][1] # "outbox"
        BY <1>5, <1>9
      <4>3. me.at = "submit" => Tail(w) = <<>>
        <5> SUFFICES ASSUME me.at = "submit", Tail(w) # <<>> PROVE FALSE
          OBVIOUS
        <5>1. 1 \in DOMAIN Tail(w)
          BY <1>1
        <5>2. WriteOK(me, Tail(w)[1]) /\ Tail(w)[1][1] # "outbox"
          BY <1>1, <1>9, <1>o, <5>1
        <5> QED
          BY <5>2 DEF WriteOK
      <4>4. proc'[p].at = me.at /\ proc'[p].writes = Tail(w)
        BY <1>2
      <4> HIDE DEF me
      <4> QED
        BY <3>2, <4>1, <4>2, <4>3, <4>4 DEF SendsOnce, me
    <3> QED
      BY <3>1, <3>2
  <2>12. ASSUME NEW q \in Procs PROVE OnItsWay(q)'
    <3> SUFFICES ASSUME NEW n \in Sending(q)', n \notin doubt'
                 PROVE  ~ InLost(n)' /\ (proc'[q].at # "landed" => ~ OnChain(n)')
      BY DEF OnItsWay
    <3>0. n \notin doubt /\ proc'[q].at = proc[q].at
      BY <1>2, <1>3
    <3>1. CASE n \in Sending(q)
      BY <1>c, <2>1, <3>0, <3>1 DEF SentInv
    <3>2. CASE n \notin Sending(q)
      <4>1. me.cmd = "flush" /\ me.at = "submit" /\ n \in Range(me.batch)
        BY <1>6, <2>6, <3>2
      <4> QED
        BY <1>c, <2>5, <4>1 DEF Unsent
    <3> QED
      BY <3>1, <3>2
  <2>13. ASSUME NEW q \in Procs, NEW s \in Procs, NEW n,
                n \in Sending(q)', n \in Sending(s)'
         PROVE  q = s
    <3>1. \A u \in Procs : u # p /\ n \in Sending(u)' => n \in Sending(u)
      BY <1>6
    <3>2. n \in Sending(p)' => n \in Sending(p) \/ \A u \in Procs : n \notin Sending(u)
      BY <2>5, <2>6 DEF Unsent
    <3>3. \A u, t \in Procs : n \in Sending(u) /\ n \in Sending(t) => u = t
      BY <2>1 DEF SentInv
    <3> QED
      BY <2>13, <3>1, <3>2, <3>3
  <2>14. \A q, s \in Procs : Sending(q)' \cap Sending(s)' # {} => q = s
    BY <2>13
  <2> QED
    BY <1>7, <2>1, <2>10, <2>11, <2>12, <2>14 DEF SentInv
<1> QED
  BY <1>8, <1>9

\* Marking what is under way lets nothing wait that did not.
LEMMA MarkedWaits ==
  ASSUME NEW box \in Box, NEW ids, NEW status \in Statuses, status # "queued",
         WaitingUnsent(box)
  PROVE  WaitingUnsent(Marked(box, ids, status))
<1> DEFINE new == Marked(box, ids, status)
<1>1. /\ DOMAIN new = DOMAIN box
      /\ \A i \in DOMAIN box :
             /\ new[i].id = box[i].id
             /\ new[i].status = IF box[i].id \in ids THEN status ELSE box[i].status
  BY MarkedFacts
<1> HIDE DEF new
<1>2. \A i \in QueuedAt(new) : i \in QueuedAt(box) /\ new[i].id = box[i].id
  BY <1>1 DEF QueuedAt
<1>3. WaitingUnsent(new)
  BY <1>2 DEF WaitingUnsent
<1> QED
  BY <1>3 DEF new

\* A batch of what was not sent, or is in doubt, appears once when it lands.
LEMMA LandsOnce ==
  ASSUME TInv, NumberInv, SentInv, "outbox" \notin raced, NEW l \in Keys,
         NEW b \in Seq(Posts), BatchNumbered(b), NEW index, Grows(l, index, b),
         doubt \subseteq doubt',
         \A n \in DOMAIN b : b[n] \in Ids \ doubt => ~ OnChain(b[n])
  PROVE  OnChainOnce'
<1> DEFINE s == lane[l]
           t == lane'[l]
<1>1. s \in Seq(Posts)
  BY DEF TInv
<1>2. t = s \o b /\ \A k \in Keys : k # l => lane'[k] = lane[k]
  BY DEF Grows, TInv
<1>4. \A m, n \in DOMAIN b : b[m] = b[n] /\ b[m] \in Ids => m = n
  BY DEF BatchNumbered
<1> HIDE DEF s, t
<1>6. /\ \A i \in DOMAIN t : \/ i \in DOMAIN s /\ t[i] = s[i]
                             \/ i - Len(s) \in DOMAIN b /\ t[i] = b[i - Len(s)]
      /\ Len(s) \in Nat /\ DOMAIN t = 1..Len(t)
  BY <1>1, <1>2, Longer
<1>6n. Len(s) \in Nat /\ \A i \in DOMAIN t : i \in Int
  BY <1>6
<1>7. \A k \in Keys : \A i \in DOMAIN lane[k] : OnChain(lane[k][i])
  BY DEF OnChain, Contains
\* Where a number stands: in what was there, or in what landed.
<1>9. ASSUME NEW k \in Keys, NEW i \in DOMAIN lane'[k], lane'[k][i] \in Ids \ doubt
      PROVE  \/ i \in DOMAIN lane[k] /\ lane'[k][i] = lane[k][i] /\ OnChain(lane'[k][i])
             \/ /\ k = l /\ i - Len(s) \in DOMAIN b /\ lane'[k][i] = b[i - Len(s)]
                /\ ~ OnChain(lane'[k][i]) /\ i \in Int
  <2>1. CASE k # l
    BY <1>2, <1>7, <1>9, <2>1
  <2>2. CASE k = l
    <3>0. i \in DOMAIN t /\ lane'[k][i] = t[i]
      BY <1>9, <2>2 DEF t
    <3>1. i \in DOMAIN t /\ lane'[k][i] = t[i] /\ i \in Int
      BY <1>6n, <3>0
    <3>2. CASE i \in DOMAIN s /\ t[i] = s[i]
      BY <1>7, <2>2, <3>1, <3>2 DEF s
    <3>3. CASE i - Len(s) \in DOMAIN b /\ t[i] = b[i - Len(s)]
      BY <1>9, <2>2, <3>1, <3>3
    <3> QED
      BY <1>6, <3>1, <3>2, <3>3
  <2> QED
    BY <2>1, <2>2
<1>10. \A k, m \in Keys : \A i \in DOMAIN lane'[k], j \in DOMAIN lane'[m] :
           lane'[k][i] = lane'[m][j] /\ lane'[k][i] \in Ids \ doubt => k = m /\ i = j
  <2> TAKE k, m \in Keys
  <2> TAKE i \in DOMAIN lane'[k], j \in DOMAIN lane'[m]
  <2> HAVE lane'[k][i] = lane'[m][j] /\ lane'[k][i] \in Ids \ doubt
  <2>0. lane'[m][j] \in Ids \ doubt
    OBVIOUS
  <2>1. CASE OnChain(lane'[k][i])
    <3>1. /\ i \in DOMAIN lane[k] /\ lane'[k][i] = lane[k][i]
          /\ j \in DOMAIN lane[m] /\ lane'[m][j] = lane[m][j]
      BY <1>9, <2>0, <2>1
    <3>2. OnChainOnce
      BY DEF SentInv
    <3>3. lane[k][i] = lane[m][j] /\ lane[k][i] \in Ids \ doubt
      BY <3>1
    <3> QED
      BY <3>1, <3>2, <3>3 DEF OnChainOnce
  <2>2. CASE ~ OnChain(lane'[k][i])
    <3>1. k = l /\ i - Len(s) \in DOMAIN b /\ lane'[k][i] = b[i - Len(s)] /\ i \in Int
      BY <1>9, <2>2
    <3>2. m = l /\ j - Len(s) \in DOMAIN b /\ lane'[m][j] = b[j - Len(s)] /\ j \in Int
      BY <1>9, <2>0, <2>2
    <3>3. b[i - Len(s)] = b[j - Len(s)] /\ b[i - Len(s)] \in Ids
      BY <3>1, <3>2
    <3>4. i - Len(s) = j - Len(s)
      BY <1>4, <3>1, <3>2, <3>3
    <3>5. i \in Int /\ j \in Int /\ k = m
      BY <3>1, <3>2
    <3>6. \A x, y \in Int : x - Len(s) = y - Len(s) => x = y
      BY <1>6n
    <3> QED
      BY <3>4, <3>5, <3>6
  <2> QED
    BY <2>1, <2>2
<1>11. OnChainOnce'
  BY <1>10 DEF OnChainOnce
<1> QED
  BY <1>11


\* A transaction that loses its sender, of what is nowhere else or in doubt.
LEMMA DropsOnce ==
  ASSUME SentInv, "outbox" \notin raced, NEW t, UNCHANGED lane,
         lost' = lost \/ lost' = lost \cup {t}, doubt \subseteq doubt',
         lost' # lost => \A n \in Ids \ doubt' : Contains(t.batch, n) => ~ InLost(n) /\ ~ OnChain(n)
  PROVE  OnChainOnce' /\ LostOnce'
<1>1. OnChainOnce /\ LostOnce
  BY DEF SentInv
<1>2. OnChainOnce'
  BY <1>1 DEF OnChainOnce
<1>3. \A n : OnChain(n)' <=> OnChain(n)
  BY DEF OnChain
<1>4. ASSUME NEW n \in Ids \ doubt'
      PROVE  /\ InLost(n)' => ~ OnChain(n)'
             /\ \A v, u \in lost' : Contains(v.batch, n) /\ Contains(u.batch, n) => v = u
  <2>1. /\ InLost(n) => ~ OnChain(n)
        /\ \A v, u \in lost : Contains(v.batch, n) /\ Contains(u.batch, n) => v = u
    BY <1>1 DEF LostOnce
  <2>2. CASE lost' = lost
    BY <1>3, <2>1, <2>2 DEF InLost
  <2>3. CASE lost' # lost
    <3>1. lost' = lost \cup {t} /\ (Contains(t.batch, n) => ~ InLost(n) /\ ~ OnChain(n))
      BY <2>3
    <3>2. InLost(n)' <=> InLost(n) \/ Contains(t.batch, n)
      BY <3>1 DEF InLost
    <3>3. \A v \in lost : Contains(v.batch, n) => InLost(n)
      BY DEF InLost
    <3> QED
      BY <1>3, <2>1, <3>1, <3>2, <3>3
  <2> QED
    BY <2>2, <2>3
<1> QED
  BY <1>2, <1>4 DEF LostOnce

LEMMA SentSteps ==
  ASSUME TInv, NumberInv, SentInv, NEW p \in Procs, Steps(p)
  PROVE  SentInv'
<1> DEFINE me == proc[p]
<1>0. /\ me \in Process /\ Control(me) /\ me.box \in Box /\ WellNumbered(me)
      /\ "outbox" \notin raced => SendsOnce(me)
  BY ProcessFacts DEF NumberInv, SentInv
<1>a. \A b : \A n \in DOMAIN <<<<"outbox", b>>>> : <<<<"outbox", b>>>>[n] = <<"outbox", b>>
  OBVIOUS
<1>c. lane' = lane => \A n : OnChain(n)' <=> OnChain(n)
  BY DEF OnChain
<1>k. lost' = lost => \A n : InLost(n)' <=> InLost(n)
  BY DEF InLost
<1>d. UNCHANGED <<lane, lost>> /\ doubt \subseteq doubt' /\ "outbox" \notin raced
          => OnChainOnce' /\ LostOnce'
  BY DropsOnce
<1>e. Sending(p)' = {} => OnItsWay(p)' /\ Sending(p)' \subseteq Sending(p)
  BY DEF OnItsWay
\* What was not sent is not sent by a process that sends nothing new.
<1>u. ASSUME UNCHANGED <<lane, lost>>, NEW r, Becomes(p, r), Sending(p)' \subseteq Sending(p)
      PROVE  /\ \A n \in Ids : Unsent(n) => Unsent(n)'
             /\ \A box \in Box : WaitingUnsent(box) => WaitingUnsent(box)'
  <2>1. \A q \in Procs : \A n \in Sending(q)' : n \in Sending(q)
    BY <1>u, Others DEF Sending, At
  <2> QED
    BY <1>c, <1>k, <1>u, <2>1, UnsentStays
<1>1. CASE Done(p) \/ Ends(p) \/ Queued(p) \/ PrintFound(p) \/ Tear(p)
  <2>1. Becomes(p, Idle) /\ UNCHANGED <<lane, raced, doubt>>
    BY <1>1 DEF Done, Ends, Queued, PrintFound, Tear, Goes, chain, ghosts
  <2>1l. \/ lost' = lost
         \/ /\ me.at \in Underway /\ (me.at = "sent" \/ At(p, "submit"))
            /\ lost' = lost \cup {Tx(me)}
    BY <1>1, MayBeLostFacts DEF Done, Ends, Queued, PrintFound, Tear, Goes, chain
  <2>2. disk'.outbox = disk.outbox \/ disk'.outbox = Torn
    <3>1. CASE Tear(p)
      <4>1. \E f : disk' = [disk EXCEPT ![f] = Torn]
        BY <3>1 DEF Tear
      <4> QED
        BY <4>1 DEF TInv, Disk
    <3>2. CASE ~ Tear(p)
      BY <1>1, <3>2 DEF Done, Ends, Queued, PrintFound, Goes
    <3> QED
      BY <3>1, <3>2
  <2>3. Idle.cmd = "none" /\ Idle.loaded = {}
    BY DEF Idle
  <2>4. proc'[p] = Idle
    BY <2>1, Others
  <2>5. Sending(p)' = {} /\ SendsOnce(proc[p])'
    BY <2>3, <2>4 DEF Sending, SendsOnce
  <2>6. lost' # lost =>
            /\ me.at # "landed"
            /\ \A n \in Ids : Contains(Tx(me).batch, n) => n \in Sending(p)
    BY <2>1l, OwnIds DEF At
  <2>7. \A n \in Ids : InLost(n)' => InLost(n) \/ n \in Sending(p)
    BY <2>1l, <2>6 DEF InLost
  <2>8. "outbox" \notin raced => OnChainOnce' /\ LostOnce'
    BY <2>1, <2>1l, <2>6, DropsOnce DEF SentInv
  <2> QED
    BY <1>c, <1>e, <2>1, <2>2, <2>5, <2>7, <2>8, SentStep
<1>2. ASSUME NEW r, Aside(p, r) PROVE SentInv'
  <2>1. /\ Becomes(p, r) /\ proc'[p] = r /\ UNCHANGED <<lane, lost, doubt>> /\ disk'.outbox = disk.outbox
        /\ "outbox" \in raced <=> "outbox" \in raced'
        /\ r.box = me.box /\ r.loaded = me.loaded /\ r.at \notin Underway
        /\ \A n \in DOMAIN r.writes : r.writes[n][1] # "outbox"
    BY <1>2, Others DEF Aside
  <2>2. Sending(p)' = {}
    BY <2>1 DEF Sending, At
  <2>3. ASSUME "outbox" \notin raced PROVE SendsOnce(proc[p])'
    <3>1. "outbox" \in r.loaded => WaitingUnsent(me.box)
      BY <1>0, <2>1, <2>3 DEF SendsOnce
    <3>2. "outbox" \in r.loaded => WaitingUnsent(r.box)'
      BY <1>0, <1>u, <2>1, <2>2, <3>1 DEF WaitingUnsent
    <3> QED
      BY <2>1, <3>2 DEF SendsOnce, WaitingUnsent
  <2> QED
    BY <1>c, <1>d, <1>e, <1>k, <2>1, <2>2, <2>3, SentStep
<1>3. CASE Seal(p)
  <2>1. PICK r, ids, box : Sealed(p, r, ids, box)
    BY <1>3, SealStep
  <2>2. Becomes(p, r) /\ UNCHANGED <<disk, lane, lost, raced, doubt>> /\ proc'[p] = r
    BY <2>1, Others DEF Sealed, Goes, chain, ghosts
  <2>3. box \in Box /\ box = Marked(me.box, Range(ids), "proving")
    BY <1>0, <2>1, MarkedFacts DEF Sealed, Statuses
  <2>4. /\ r.at = "submit" /\ r.box = box /\ r.batch = ids /\ r.cmd = me.cmd
        /\ r.loaded = me.loaded
        /\ r.writes = IF me.cmd = "flush" THEN <<<<"outbox", box>>>> ELSE <<>>
        /\ \A n \in DOMAIN r.writes : r.writes[n] = <<"outbox", box>>
    BY <1>a, <2>1 DEF Sealed
  <2>5. Sending(p)' = {}
    <3>1. r.cmd = "flush" => r.writes # <<>>
      BY <2>4
    <3> QED
      BY <2>2, <2>4, <3>1 DEF Sending, At
  <2>6. ASSUME "outbox" \notin raced, "outbox" \in me.loaded, me.cmd = "flush",
               NEW n \in DOMAIN ids
        PROVE  Unsent(ids[n])'
    <3>1. ids = BatchFor(me, Head(me.todo))
      BY <2>1, <2>6 DEF Sealed
    <3>2. PICK i \in QueuedAt(me.box) : ids[n] = me.box[i].id
      BY <1>0, <2>6, <3>1, BatchFacts
    <3>3. Unsent(ids[n])
      BY <1>0, <2>6, <3>2 DEF SendsOnce, WaitingUnsent
    <3>4. ids[n] \in Ids
      BY <1>0, <3>2, BoxFacts
    <3> QED
      BY <1>u, <2>2, <2>5, <3>3, <3>4
  <2>7. ASSUME "outbox" \notin raced PROVE SendsOnce(proc[p])'
    <3>1. "outbox" \in me.loaded => WaitingUnsent(box)
      BY <1>0, <2>3, <2>7, MarkedWaits DEF SendsOnce, Statuses
    <3>2. "outbox" \in me.loaded => WaitingUnsent(box)'
      BY <1>u, <2>2, <2>3, <2>5, <3>1
    <3> QED
      BY <2>2, <2>4, <2>6, <2>7, <3>2 DEF SendsOnce, WaitingUnsent
  <2> QED
    BY <1>c, <1>d, <1>e, <1>k, <2>2, <2>5, <2>7, SentStep
<1>4. CASE Broadcast(p)
  <2>1. PICK r, box : Broadcasted(p, r, box)
    BY <1>4, BroadcastStep
  <2>2. /\ Becomes(p, r) /\ UNCHANGED <<disk, lane, lost, raced, doubt>> /\ proc'[p] = r
        /\ me.at = "submit" /\ me.writes = <<>>
    BY <2>1, Others DEF Broadcasted, Goes, chain, ghosts
  <2>3. box \in Box /\ box = Marked(me.box, Range(me.batch), "submitted")
    BY <1>0, <2>1, MarkedFacts DEF Broadcasted, Statuses
  <2>4. /\ r.at = "sent" /\ r.box = box /\ r.batch = me.batch /\ r.cmd = me.cmd
        /\ r.loaded = me.loaded
        /\ \A n \in DOMAIN r.writes : r.writes[n] = <<"outbox", box>>
    BY <1>a, <2>1 DEF Broadcasted
  <2>5. Sending(p)' = Sending(p)
    BY <2>2, <2>4 DEF Sending, At
  <2>6. ASSUME "outbox" \notin raced PROVE OnItsWay(p)'
    BY <1>c, <1>k, <2>2, <2>4, <2>5, <2>6 DEF SentInv, OnItsWay
  <2>7. ASSUME "outbox" \notin raced PROVE SendsOnce(proc[p])'
    <3>1. "outbox" \in me.loaded => WaitingUnsent(box)
      BY <1>0, <2>3, <2>7, MarkedWaits DEF SendsOnce, Statuses
    <3>2. "outbox" \in me.loaded => WaitingUnsent(box)'
      BY <1>u, <2>2, <2>3, <2>5, <3>1
    <3> QED
      BY <2>2, <2>4, <3>2 DEF SendsOnce, WaitingUnsent
  <2> QED
    BY <1>c, <1>d, <1>k, <2>2, <2>5, <2>6, <2>7, SentStep
<1>4a. CASE Include(p)
  <2>1. PICK r : Included(p, r)
    BY <1>4a, IncludeStep
  <2> DEFINE l == Head(me.todo)
  <2>2. /\ Becomes(p, r) /\ UNCHANGED <<disk, lost, raced, doubt>> /\ proc'[p] = r
        /\ me.at = "sent" /\ Grows(l, me.index, me.batch)
    BY <2>1, Others DEF Included, ghosts
  <2>3. /\ r.at = "landed" /\ r.box = me.box /\ r.batch = me.batch /\ r.cmd = me.cmd
        /\ r.loaded = me.loaded /\ r.writes = <<>>
    BY <2>1 DEF Included
  <2>4. Sending(p)' = Sending(p)
    BY <2>2, <2>3 DEF Sending, At
  <2>5. l \in Keys /\ me.batch \in Seq(Posts) /\ BatchNumbered(me.batch)
    BY <2>2, SenderFacts, BatchPosts, BatchIds
  <2>6. \A n \in Ids : (\E m \in DOMAIN me.batch : me.batch[m] = n) => n \in Sending(p)
    BY <2>2, TxFacts, OwnIds DEF Contains
  <2>7. \A n \in Ids : OnChain(n)' => OnChain(n) \/ n \in Sending(p)
    BY <2>2, <2>5, <2>6, ChainGrows DEF Grows
  <2>8. ASSUME "outbox" \notin raced
        PROVE  /\ OnChainOnce' /\ LostOnce' /\ OnItsWay(p)'
               /\ SendsOnce(proc[p])'
    <3>1. \A n \in Sending(p) \ doubt : ~ InLost(n) /\ ~ OnChain(n)
      BY <2>2, <2>8 DEF SentInv
    <3>2. \A n \in DOMAIN me.batch : me.batch[n] \in Ids \ doubt => ~ OnChain(me.batch[n])
      BY <2>6, <3>1
    <3>3. OnChainOnce'
      BY <2>2, <2>5, <2>8, <3>2, LandsOnce
    <3>4. LostOnce'
      BY <1>k, <2>2, <2>7, <2>8, <3>1 DEF SentInv, LostOnce
    <3>5. OnItsWay(p)'
      BY <1>k, <2>2, <2>3, <2>4, <3>1 DEF OnItsWay
    <3>6. \A q \in Procs : \A n \in Sending(q)' : n \in Sending(q)
      BY <2>2, <2>4, Others DEF Sending, At
    <3>7. \A b \in Box : WaitingUnsent(b) => WaitingUnsent(b)'
      BY <1>k, <2>2, <2>7, <3>6, UnsentStays
    <3>8. "outbox" \in me.loaded => WaitingUnsent(me.box)
      BY <1>0, <2>8 DEF SendsOnce
    <3>9. PICK b \in Box : b = me.box
      BY <1>0
    <3>10. "outbox" \in me.loaded => WaitingUnsent(b)'
      BY <3>7, <3>8, <3>9
    <3>11. SendsOnce(proc[p])'
      BY <2>2, <2>3, <3>9, <3>10 DEF SendsOnce, WaitingUnsent
    <3> QED
      BY <3>3, <3>4, <3>5, <3>11
  <2> QED
    BY <1>k, <2>2, <2>4, <2>7, <2>8, SentStep
<1>4b. CASE Refused(p) \/ Reseal(p) \/ AnswerLost(p)
  <2>1. PICK r : Retried(p, r)
    BY <1>4b, RetryStep
  <2>2. /\ Becomes(p, r) /\ UNCHANGED <<disk, lane, raced>> /\ proc'[p] = r
        /\ me.at \in Underway /\ me.writes = <<>> /\ me.cmd = "flush"
        /\ doubt \subseteq doubt'
        /\ lost' = lost \/ lost' = lost \cup {Tx(me)}
        /\ lost' # lost \/ me.at = "landed" => Range(me.batch) \subseteq doubt'
    BY <2>1, Others DEF Retried
  <2>3. /\ r.at = "submit" /\ r.box = me.box /\ r.batch = me.batch /\ r.cmd = me.cmd
        /\ r.loaded = me.loaded /\ r.writes = <<>>
    BY <2>1 DEF Retried
  <2>4. Sending(p)' = Sending(p) /\ Sending(p) = Range(me.batch)
    BY <2>2, <2>3 DEF Sending, At
  <2>5. \A n \in Ids : Contains(Tx(me).batch, n) => n \in Sending(p)
    BY <2>2, OwnIds
  <2>6. \A n \in Ids : InLost(n)' => InLost(n) \/ n \in Sending(p)
    BY <2>2, <2>5 DEF InLost
  <2>7. ASSUME "outbox" \notin raced
        PROVE  /\ OnChainOnce' /\ LostOnce' /\ OnItsWay(p)'
               /\ SendsOnce(proc[p])'
    <3>1. OnChainOnce' /\ LostOnce'
      BY <2>2, <2>4, <2>5, <2>7, DropsOnce
    <3>2. ASSUME lost' # lost \/ me.at = "landed" PROVE OnItsWay(p)'
      BY <2>2, <2>4, <3>2 DEF OnItsWay
    <3>3. ASSUME lost' = lost, me.at # "landed" PROVE OnItsWay(p)'
      BY <1>c, <1>k, <2>2, <2>4, <2>7, <3>3 DEF SentInv, OnItsWay
    <3>4. \A q \in Procs : \A n \in Sending(q)' : n \in Sending(q)
      BY <2>2, <2>4, Others DEF Sending, At
    <3>5. \A b \in Box : WaitingUnsent(b) => WaitingUnsent(b)'
      BY <1>c, <2>2, <2>6, <3>4, UnsentStays
    <3>6. "outbox" \in me.loaded => WaitingUnsent(me.box)
      BY <1>0, <2>7 DEF SendsOnce
    <3>7. PICK b \in Box : b = me.box
      BY <1>0
    <3>8. "outbox" \in me.loaded => WaitingUnsent(b)'
      BY <3>5, <3>6, <3>7
    <3>9. SendsOnce(proc[p])'
      BY <2>2, <2>3, <3>7, <3>8 DEF SendsOnce, WaitingUnsent
    <3> QED
      BY <3>1, <3>2, <3>3, <3>9
  <2> QED
    BY <1>c, <2>2, <2>4, <2>6, <2>7, SentStep
<1>5. CASE Confirm(p)
  <2>1. PICK r, box, cfg, cursors : Confirmed(p, r, box, cfg, cursors)
    BY <1>5, ConfirmStep
  <2>2. Becomes(p, r) /\ UNCHANGED <<disk, lane, lost, raced, doubt>> /\ proc'[p] = r
    BY <2>1, Others DEF Confirmed, Goes, chain, ghosts
  <2>3. box \in Box /\ box = Marked(me.box, Range(me.batch), "confirmed")
    BY <1>0, <2>1, MarkedFacts DEF Confirmed, Statuses
  <2>4. /\ r.at \in {"done", "seal"} /\ r.box = box /\ r.loaded = me.loaded
        /\ \A n \in DOMAIN r.writes : r.writes[n][1] = "outbox" => r.writes[n] = <<"outbox", box>>
    BY <2>1 DEF Confirmed
  <2>5. Sending(p)' = {}
    BY <2>2, <2>4 DEF Sending, At
  <2>6. ASSUME "outbox" \notin raced PROVE SendsOnce(proc[p])'
    <3>1. "outbox" \in me.loaded => WaitingUnsent(box)
      BY <1>0, <2>3, <2>6, MarkedWaits DEF SendsOnce, Statuses
    <3>2. "outbox" \in me.loaded => WaitingUnsent(box)'
      BY <1>u, <2>2, <2>3, <2>5, <3>1
    <3> QED
      BY <2>2, <2>4, <3>2 DEF SendsOnce, WaitingUnsent
  <2> QED
    BY <1>c, <1>d, <1>e, <1>k, <2>2, <2>5, <2>6, SentStep
<1>6. CASE RenameTmp(p)
  <2>1. UNCHANGED <<lane, lost, raced, doubt>> /\ disk'.outbox = disk.outbox
    BY <1>6 DEF RenameTmp, chain, ghosts, TInv, Disk
  <2>2. \A q \in Procs : /\ proc'[q].writes = proc[q].writes
                         /\ proc'[q].loaded = proc[q].loaded
                         /\ proc'[q].cmd = proc[q].cmd /\ proc'[q].box = proc[q].box
                         /\ proc'[q].batch = proc[q].batch
                         /\ proc'[q].at = proc[q].at \/ {proc'[q].at, proc[q].at} \cap Underway = {}
    BY <1>6, Renamed
  <2>3. \A q \in Procs : Sending(q)' = Sending(q)
    BY <2>2 DEF Sending, At
  <2>4. \A n : Unsent(n)' <=> Unsent(n)
    BY <1>c, <1>k, <2>1, <2>3 DEF Unsent
  <2>5. \A b : WaitingUnsent(b)' <=> WaitingUnsent(b)
    BY <2>4 DEF WaitingUnsent
  <2>6. ASSUME NEW q \in Procs, "outbox" \notin raced PROVE SendsOnce(proc[q])'
    <3>1. SendsOnce(proc[q])
      BY <2>6 DEF SentInv
    <3> QED
      BY <2>2, <2>4, <2>5, <3>1, SendsStay
  <2>7. disk.outbox # Torn /\ "outbox" \notin raced => WaitingUnsent(disk.outbox)'
    BY <2>1, <2>5 DEF SentInv, WaitingUnsent
  <2>8. ASSUME NEW q \in Procs, "outbox" \notin raced PROVE OnItsWay(q)'
    BY <1>c, <1>k, <2>1, <2>2, <2>3, <2>8 DEF SentInv, OnItsWay, Sending
  <2> QED
    BY <1>d, <2>1, <2>3, <2>6, <2>7, <2>8 DEF SentInv, WaitingUnsent, OnItsWay
<1> QED
  BY <1>1, <1>2, <1>3, <1>4, <1>4a, <1>4b, <1>5, <1>6, AsideSteps, SentWrite DEF Steps

LEMMA SentNext == TInv /\ NumberInv /\ SentInv /\ [Next]_vars => SentInv'
<1> SUFFICES ASSUME TInv, NumberInv, SentInv, [Next]_vars PROVE SentInv'
  OBVIOUS
<1>1. ASSUME NEW p \in Procs, Commands(p) PROVE SentInv'
  <2>1. PICK r : Becomes(p, r) /\ Fresh(r)
    BY <1>1, Started
  <2>2. UNCHANGED <<disk, lane, lost, raced, doubt>> /\ proc'[p] = r
    BY <1>1, <2>1, Started, Others
  <2>3. Sending(p)' = {}
    <3>1. r.at \notin Underway
      BY <2>1 DEF Fresh
    <3> QED
      BY <2>2, <3>1 DEF Sending, At
  <2>4. \A n : (OnChain(n)' <=> OnChain(n)) /\ (InLost(n)' <=> InLost(n))
    BY <2>2 DEF OnChain, InLost
  <2>5. \A q \in Procs : \A n \in Sending(q)' : n \in Sending(q)
    BY <2>1, <2>3, Others DEF Sending, At
  <2>6. \A n : Unsent(n) => Unsent(n)'
    BY <2>4, <2>5 DEF Unsent
  <2>7. \A box : WaitingUnsent(box) => WaitingUnsent(box)'
    BY <2>6 DEF WaitingUnsent
  <2>8. Unsent(runs + 1)
    <3>1. runs \in Nat /\ runs \in Int
      BY FilesAssumption DEF TInv
    <3>2. runs + 1 # 0 /\ \A n \in Nat : n <= runs => n # runs + 1
      BY <3>1
    <3>3. runs + 1 \in Ids
      <4>1. TInv' /\ runs' = runs + 1
        BY <1>1, NextTyped, Started
      <4>2. runs + 1 \in 0..MaxRuns
        BY <4>1 DEF TInv
      <4> QED
        BY <3>1, <4>2, FilesAssumption DEF Ids
    <3>3c. ~ OnChain(runs + 1)
      <4> SUFFICES ASSUME OnChain(runs + 1) PROVE FALSE
        OBVIOUS
      <4>1. PICK k \in Keys : \E i \in DOMAIN lane[k] : lane[k][i] = runs + 1
        BY DEF OnChain, Contains
      <4>2. PICK i \in DOMAIN lane[k] : lane[k][i] = runs + 1
        BY <4>1
      <4>4. lane[k][i] <= runs
        BY <3>3, <4>2 DEF NumberInv, LaneNumbered
      <4> QED
        BY <3>1, <4>2, <4>4
    <3>4. ASSUME NEW q \in Procs PROVE runs + 1 \notin Sending(q)
      <4> SUFFICES ASSUME runs + 1 \in Sending(q) PROVE FALSE
        OBVIOUS
      <4>1. runs + 1 <= runs
        BY SendingIds
      <4> QED
        BY <3>1, <4>1
    <3>5. ~ InLost(runs + 1)
      <4> SUFFICES ASSUME NEW t \in lost, NEW i \in DOMAIN t.batch, t.batch[i] = runs + 1
                   PROVE  FALSE
        BY DEF InLost, Contains
      <4>1. t.batch[i] <= runs
        BY <3>3 DEF NumberInv, LostNumbered, BatchNumbered
      <4> QED
        BY <3>1, <4>1
    <3> QED
      BY <3>3c, <3>4, <3>5 DEF Unsent
  <2>9. ASSUME "outbox" \notin raced, disk.outbox # Torn, NEW e, e.id = runs + 1
        PROVE  WaitingUnsent(Append(disk.outbox, e))
    <3> DEFINE v == Append(disk.outbox, e)
    <3>1. \A i \in DOMAIN v : (i \in DOMAIN disk.outbox /\ v[i] = disk.outbox[i]) \/ v[i] = e
      BY <2>9, Added
    <3>2. WaitingUnsent(disk.outbox)
      BY <2>9 DEF SentInv
    <3> HIDE DEF v
    <3>3. ASSUME NEW i \in QueuedAt(v) PROVE Unsent(v[i].id)
      <4>1. i \in DOMAIN v /\ v[i].status = "queued"
        BY <3>3 DEF QueuedAt
      <4>2. CASE i \in DOMAIN disk.outbox /\ v[i] = disk.outbox[i]
        BY <3>2, <4>1, <4>2 DEF WaitingUnsent, QueuedAt
      <4>3. CASE v[i] = e
        BY <2>8, <2>9, <4>3
      <4> QED
        BY <3>1, <4>1, <4>2, <4>3
    <3>4. WaitingUnsent(v)
      BY <3>3 DEF WaitingUnsent
    <3> QED
      BY <3>4 DEF v
  <2>10. ASSUME "outbox" \notin raced, NEW n \in DOMAIN r.writes, r.writes[n][1] = "outbox"
         PROVE  WaitingUnsent(r.writes[n][2])
    <3>1. PICK to \in Names : /\ disk.outbox # Torn
            /\ r.writes[n][2] = Append(disk.outbox, [id |-> r.index, to |-> to, status |-> "queued"])
      BY <2>1, <2>10 DEF Fresh
    <3>2. r.index = runs + 1
      BY <2>1, <2>10 DEF Fresh
    <3> DEFINE e == [id |-> r.index, to |-> to, status |-> "queued"]
    <3>3. e.id = runs + 1
      BY <3>2
    <3> HIDE DEF e
    <3> QED
      BY <2>9, <2>10, <3>1, <3>3 DEF e
  <2>11. "outbox" \notin raced => WaitingUnsent(r.box)
    <3>1. r.box = <<>> \/ (r.box = disk.outbox /\ disk.outbox # Torn)
      BY <2>1 DEF Fresh
    <3>2. WaitingUnsent(<<>>)
      BY DEF WaitingUnsent, QueuedAt
    <3> QED
      BY <3>1, <3>2 DEF SentInv
  <2>12. ASSUME "outbox" \notin raced PROVE SendsOnce(proc[p])'
    <3>1. r.at \notin Underway
      BY <2>1 DEF Fresh
    <3>2. WaitingUnsent(r.box)'
      BY <2>7, <2>11, <2>12
    <3>3. \A n \in DOMAIN r.writes : r.writes[n][1] = "outbox" => WaitingUnsent(r.writes[n][2])'
      BY <2>7, <2>10, <2>12
    <3> QED
      BY <2>2, <3>1, <3>2, <3>3 DEF SendsOnce, WaitingUnsent
  <2>13. "outbox" \notin raced => OnChainOnce' /\ LostOnce' /\ OnItsWay(p)'
    BY <2>2, <2>3, DropsOnce DEF OnItsWay
  <2> QED
    BY <2>1, <2>2, <2>3, <2>4, <2>12, <2>13, SentStep
<1>2. ASSUME NEW p \in Procs, Steps(p) PROVE SentInv'
  BY <1>2, SentSteps
<1>3. ASSUME NEW q \in Peers, NEW m \in PeerPost, PeerPosts(q, m) PROVE SentInv'
  <2>1. UNCHANGED <<disk, proc, lost, raced, doubt>>
    BY <1>3 DEF PeerPosts, ghosts
  <2>2. m \notin Ids
    BY PostsNoId
  <2>3. ASSUME NEW k \in Keys, NEW i \in DOMAIN lane'[k], lane'[k][i] \in Ids
        PROVE  i \in DOMAIN lane[k] /\ lane'[k][i] = lane[k][i]
    <3>1. lane[k] \in Seq(Posts)
      BY DEF TInv
    <3>2. lane'[k] = lane[k] \/ (lane'[k] = Append(lane[k], m))
      BY <1>3 DEF PeerPosts, TInv
    <3> QED
      BY <2>2, <2>3, <3>1, <3>2
  <2>4. \A n \in Ids : OnChain(n)' => OnChain(n)
    BY <2>3 DEF OnChain, Contains
  <2>5. OnChainOnce => OnChainOnce'
    <3> SUFFICES ASSUME OnChainOnce
                 PROVE  \A k, l \in Keys : \A i \in DOMAIN lane'[k], j \in DOMAIN lane'[l] :
                            lane'[k][i] = lane'[l][j] /\ lane'[k][i] \in Ids \ doubt => k = l /\ i = j
      BY <2>1 DEF OnChainOnce
    <3> TAKE k, l \in Keys
    <3> TAKE i \in DOMAIN lane'[k], j \in DOMAIN lane'[l]
    <3> HAVE lane'[k][i] = lane'[l][j] /\ lane'[k][i] \in Ids \ doubt
    <3>1. i \in DOMAIN lane[k] /\ lane'[k][i] = lane[k][i]
      BY <2>3
    <3>2. j \in DOMAIN lane[l] /\ lane'[l][j] = lane[l][j]
      BY <2>3
    <3>3. lane[k][i] = lane[l][j] /\ lane[k][i] \in Ids \ doubt
      BY <3>1, <3>2
    <3> QED
      BY <3>1, <3>2, <3>3 DEF OnChainOnce
  <2>6. /\ \A p \in Procs : Sending(p)' = Sending(p)
        /\ \A n : InLost(n)' <=> InLost(n)
    BY <2>1 DEF Sending, At, InLost
  <2>7. /\ \A n \in Ids : Unsent(n) => Unsent(n)'
        /\ \A box \in Box : WaitingUnsent(box) => WaitingUnsent(box)'
    BY <2>4, <2>6, UnsentStays
  <2>8. ASSUME NEW p \in Procs, "outbox" \notin raced PROVE SendsOnce(proc[p])'
    <3>1. SendsOnce(proc[p])
      BY <2>8 DEF SentInv
    <3> QED
      BY <2>1, <2>7, <3>1, SendsStay
  <2>9. disk.outbox # Torn /\ "outbox" \notin raced => WaitingUnsent(disk.outbox)'
    <3> SUFFICES ASSUME disk.outbox # Torn, "outbox" \notin raced PROVE WaitingUnsent(disk.outbox)'
      OBVIOUS
    <3>1. disk.outbox \in Box /\ WaitingUnsent(disk.outbox)
      BY DiskFacts DEF SentInv
    <3> QED
      BY <2>1, <2>7, <3>1 DEF WaitingUnsent
  <2>10. ASSUME NEW p \in Procs, "outbox" \notin raced PROVE OnItsWay(p)'
    <3> SUFFICES ASSUME NEW n \in Sending(p), n \notin doubt
                 PROVE  ~ InLost(n)' /\ (proc[p].at # "landed" => ~ OnChain(n)')
      BY <2>1, <2>6 DEF OnItsWay
    <3>1. n \in Ids
      BY SendingIds
    <3> QED
      BY <2>4, <2>6, <2>10, <3>1 DEF SentInv
  <2>11. LostOnce => LostOnce'
    BY <2>1, <2>4, <2>6 DEF LostOnce
  <2> QED
    BY <2>1, <2>5, <2>6, <2>8, <2>9, <2>10, <2>11 DEF SentInv, OnItsWay
<1>3a. ASSUME NEW t \in lost, IncludeLost(t) PROVE SentInv'
  <2>1. UNCHANGED <<disk, proc, raced, doubt>> /\ lost' = lost \ {t}
    BY <1>3a DEF IncludeLost, ghosts
  <2>2. /\ t.key \in Keys /\ t.batch \in Seq(Posts) /\ BatchNumbered(t.batch)
        /\ Grows(t.key, t.index, t.batch)
    BY <1>3a, LostFacts DEF NumberInv, LostNumbered
  <2>3. /\ \A n : OnChain(n)' => OnChain(n) \/ Contains(t.batch, n)
        /\ \A n : InLost(n)' => InLost(n)
        /\ \A n : Contains(t.batch, n) => InLost(n)
    <3>1. \A n : OnChain(n)' => OnChain(n) \/ \E i \in DOMAIN t.batch : t.batch[i] = n
      BY <2>2, ChainGrows DEF Grows
    <3> QED
      BY <2>1, <3>1 DEF InLost, Contains
  <2>4. \A p \in Procs : Sending(p)' = Sending(p)
    BY <2>1 DEF Sending, At
  <2>5. /\ \A n \in Ids : Unsent(n) => Unsent(n)'
        /\ \A box \in Box : WaitingUnsent(box) => WaitingUnsent(box)'
    BY <2>3, <2>4, UnsentStays
  <2>6. ASSUME NEW p \in Procs, "outbox" \notin raced PROVE SendsOnce(proc[p])'
    <3>1. SendsOnce(proc[p])
      BY <2>6 DEF SentInv
    <3> QED
      BY <2>1, <2>5, <3>1, SendsStay
  <2>7. disk.outbox # Torn /\ "outbox" \notin raced => WaitingUnsent(disk.outbox)'
    <3> SUFFICES ASSUME disk.outbox # Torn, "outbox" \notin raced PROVE WaitingUnsent(disk.outbox)'
      OBVIOUS
    <3>1. disk.outbox \in Box /\ WaitingUnsent(disk.outbox)
      BY DiskFacts DEF SentInv
    <3> QED
      BY <2>1, <2>5, <3>1 DEF WaitingUnsent
  <2>8. ASSUME "outbox" \notin raced PROVE OnChainOnce' /\ LostOnce'
    <3>1. \A n \in Ids \ doubt : /\ InLost(n) => ~ OnChain(n)
            /\ \A v, u \in lost : Contains(v.batch, n) /\ Contains(u.batch, n) => v = u
      BY <2>8 DEF SentInv, LostOnce
    <3>2. \A n \in DOMAIN t.batch : Contains(t.batch, t.batch[n])
      BY DEF Contains
    <3>3. OnChainOnce'
      BY <2>1, <2>2, <2>3, <2>8, <3>1, <3>2, LandsOnce
    <3>4. ASSUME NEW n \in Ids \ doubt, InLost(n)' PROVE ~ OnChain(n)'
      <4>1. PICK u \in lost : u # t /\ Contains(u.batch, n)
        BY <2>1, <3>4 DEF InLost
      <4>2. ~ Contains(t.batch, n) /\ ~ OnChain(n)
        BY <3>1, <4>1 DEF InLost
      <4> QED
        BY <2>3, <4>2
    <3> QED
      BY <2>1, <3>1, <3>3, <3>4 DEF LostOnce
  <2>9. ASSUME NEW p \in Procs, "outbox" \notin raced PROVE OnItsWay(p)'
    <3> SUFFICES ASSUME NEW n \in Sending(p), n \notin doubt
                 PROVE  ~ InLost(n)' /\ (proc[p].at # "landed" => ~ OnChain(n)')
      BY <2>1, <2>4 DEF OnItsWay
    <3> QED
      BY <2>3, <2>9 DEF SentInv
  <2> QED
    BY <2>1, <2>4, <2>6, <2>7, <2>8, <2>9 DEF SentInv, OnItsWay
<1>4. CASE UNCHANGED vars
  <2>1. UNCHANGED <<disk, proc, lane, lost, raced, doubt>>
    BY <1>4 DEF vars, chain, ghosts
  <2>2. \A p \in Procs : Sending(p)' = Sending(p)
    BY <2>1 DEF Sending, At
  <2>3. \A n : (OnChain(n)' <=> OnChain(n)) /\ (InLost(n)' <=> InLost(n))
    BY <2>1 DEF OnChain, InLost
  <2>4. \A n : Unsent(n)' <=> Unsent(n)
    BY <2>2, <2>3 DEF Unsent
  <2>5. \A b : WaitingUnsent(b)' <=> WaitingUnsent(b)
    BY <2>4 DEF WaitingUnsent
  <2>6. ASSUME NEW p \in Procs, "outbox" \notin raced PROVE SendsOnce(proc[p])'
    <3>1. SendsOnce(proc[p])
      BY <2>6 DEF SentInv
    <3> QED
      BY <2>1, <2>4, <2>5, <3>1, SendsStay
  <2>7. (OnChainOnce' <=> OnChainOnce) /\ (LostOnce' <=> LostOnce)
    BY <2>1, <2>3 DEF OnChainOnce, LostOnce
  <2>8. disk.outbox # Torn /\ "outbox" \notin raced => WaitingUnsent(disk.outbox)'
    BY <2>1, <2>5 DEF SentInv, WaitingUnsent
  <2> QED
    BY <2>1, <2>2, <2>3, <2>6, <2>7, <2>8 DEF SentInv
<1> QED
  BY <1>1, <1>2, <1>3, <1>3a, <1>4 DEF Next

\* A message goes to the chain once, wherever the flush that took it is killed,
\* whatever runs later and however late its transaction lands, unless two
\* processes wrote the outbox over each other, or its own flush sent it again
\* without having read what became of it: what waits in a copy of the file that
\* is current was not sent, what a process is sending is marked in the file
\* before, and of what is not in doubt there is one copy, on the chain, with its
\* flush, or in a transaction that nobody waits for.
THEOREM QueuedIsSentOnce == Spec => []SentOnce
<1>1. Init => TInv /\ NumberInv /\ SentInv
  <2> SUFFICES ASSUME Init PROVE SentInv
    BY InitTyped, InitNumbered
  <2>1. /\ disk.outbox = <<>> /\ lane = [k \in Keys |-> <<>>] /\ lost = {}
        /\ proc = [p \in Procs |-> Idle]
    BY DEF Init
  <2>2. \A p \in Procs : proc[p].cmd = "none" /\ proc[p].loaded = {}
    BY <2>1 DEF Idle
  <2>3. WaitingUnsent(<<>>)
    BY DEF WaitingUnsent, QueuedAt
  <2>4. \A p \in Procs : Sending(p) = {} /\ SendsOnce(proc[p])
    BY <2>2 DEF Sending, SendsOnce
  <2>5. OnChainOnce /\ LostOnce
    BY <2>1 DEF OnChainOnce, LostOnce, InLost
  <2> QED
    BY <2>1, <2>3, <2>4, <2>5 DEF SentInv
<1>2. TInv /\ NumberInv /\ SentInv /\ [Next]_vars => (TInv /\ NumberInv /\ SentInv)'
  BY NextTyped, NumberNext, SentNext
<1>3. SentInv => SentOnce
  <2> SUFFICES ASSUME OnChainOnce, NEW n \in 1..MaxRuns \ doubt
               PROVE  Cardinality(UNION {{<<k, i>> : i \in {j \in DOMAIN lane[k] : lane[k][j] = n}}
                                             : k \in Keys}) <= 1
    BY DEF SentInv, SentOnce
  <2> DEFINE At0(k) == {<<k, i>> : i \in {j \in DOMAIN lane[k] : lane[k][j] = n}}
             S == UNION {At0(k) : k \in Keys}
  <2>1. \A u \in S : \E k \in Keys : \E i \in DOMAIN lane[k] : u = <<k, i>> /\ lane[k][i] = n
    OBVIOUS
  <2>2. \A k, l \in Keys : \A i \in DOMAIN lane[k], j \in DOMAIN lane[l] :
            lane[k][i] = n /\ lane[l][j] = n => k = l /\ i = j
    BY DEF OnChainOnce, Ids
  <2> HIDE DEF S
  <2>3. \A u, v \in S : u = v
    BY <2>1, <2>2
  <2>4. CASE S = {}
    <3>1. Cardinality(S) = 0
      BY <2>4, FS_EmptySet
    <3> QED
      BY <3>1 DEF S
  <2>5. CASE S # {}
    <3>1. PICK u : u \in S
      BY <2>5
    <3>2. S = {u}
      BY <2>3, <3>1
    <3>3. Cardinality(S) = 1
      BY <3>2, FS_Singleton
    <3> QED
      BY <3>3 DEF S
  <2> QED
    BY <2>4, <2>5
<1> QED
  BY <1>1, <1>2, <1>3, PTL DEF Spec

-----------------------------------------------------------------------------
(***************************************************************************)
(* The cursors.                                                            *)
(***************************************************************************)

\* A lane only gets longer, and what this client wrote on it stays; what was
\* shown stays shown.
LanesGrow == \A k \in Keys : Len(lane[k]) <= Len(lane'[k]) /\ (Mine(k) => Mine(k)')
ShownStays == \A u : Shown(u) => Shown(u)'

LEMMA PostGrows ==
  ASSUME TInv, NEW k \in Keys, NEW more \in Seq(Posts), lane' = [lane EXCEPT ![k] = @ \o more]
  PROVE  /\ LanesGrow
         /\ Len(lane'[k]) = Len(lane[k]) + Len(more)
         /\ (\E n \in DOMAIN more : more[n] \notin PeerPost) => Mine(k)'
<1>1. /\ lane[k] \in Seq(Posts) /\ lane'[k] = lane[k] \o more
      /\ \A l \in Keys : l # k => lane'[l] = lane[l]
  BY DEF TInv
<1> DEFINE s == lane[k]
           t == lane'[k]
<1>2. /\ Len(s) \in Nat /\ Len(more) \in Nat /\ Len(t) = Len(s) + Len(more)
      /\ \A i \in DOMAIN s : i \in DOMAIN t /\ t[i] = s[i]
      /\ \A i \in DOMAIN more : Len(s) + i \in DOMAIN t /\ t[Len(s) + i] = more[i]
  <2>1. s \in Seq(Posts) /\ t = s \o more
    BY <1>1
  <2> HIDE DEF s, t
  <2> QED
    BY <2>1, Longer
<1> HIDE DEF s, t
<1>3. (\E i \in DOMAIN s : s[i] \notin PeerPost) => \E i \in DOMAIN t : t[i] \notin PeerPost
  BY <1>2
<1>4. (\E n \in DOMAIN more : more[n] \notin PeerPost) => \E i \in DOMAIN t : t[i] \notin PeerPost
  BY <1>2
<1>5. Len(s) <= Len(t)
  BY <1>2
<1>6. \A l \in Keys : lane[l] \in Seq(Posts)
  BY DEF TInv
<1>7. ASSUME NEW l \in Keys PROVE Len(lane[l]) <= Len(lane'[l]) /\ (Mine(l) => Mine(l)')
  <2>1. CASE l = k
    BY <1>3, <1>5, <2>1 DEF Mine, s, t
  <2>2. CASE l # k
    <3>1. lane'[l] = lane[l] /\ Len(lane[l]) \in Nat
      BY <1>1, <1>6, <2>2
    <3>2. Mine(l) => Mine(l)'
      BY <3>1 DEF Mine
    <3>3. Len(lane[l]) <= Len(lane'[l])
      BY <3>1
    <3> QED
      BY <3>2, <3>3
  <2> QED
    BY <2>1, <2>2
<1>8. LanesGrow
  BY <1>7 DEF LanesGrow
<1>9. (\E n \in DOMAIN more : more[n] \notin PeerPost) => Mine(k)'
  BY <1>4 DEF Mine, t
<1> QED
  BY <1>2, <1>8, <1>9 DEF s, t

LEMMA LanesStay == TInv /\ UNCHANGED lane => LanesGrow
<1> SUFFICES ASSUME TInv, UNCHANGED lane, NEW k \in Keys
             PROVE  Len(lane[k]) <= Len(lane'[k]) /\ (Mine(k) => Mine(k)')
  BY DEF LanesGrow
<1>1. lane[k] \in Seq(Posts)
  BY DEF TInv
<1>2. Len(lane[k]) \in Nat
  BY <1>1
<1> QED
  BY <1>2 DEF Mine

\* A process that is not printing hides nothing.
LEMMA ShownAside ==
  ASSUME TInv, NEW p \in Procs, NEW r, Becomes(p, r), ~ At(p, "print"),
         printed \subseteq printed', missed \subseteq missed'
  PROVE  ShownStays
<1> SUFFICES ASSUME NEW u, Shown(u) PROVE Shown(u)'
  BY DEF ShownStays
<1>1. CASE u \in printed \cup missed
  BY <1>1 DEF Shown
<1>2. CASE \E q \in Procs : At(q, "print") /\ u \in proc[q].found
  <2>1. PICK q \in Procs : At(q, "print") /\ u \in proc[q].found
    BY <1>2
  <2>2. q # p
    BY <2>1
  <2>3. proc'[q] = proc[q]
    BY <2>2, Others
  <2> QED
    BY <2>1, <2>3 DEF Shown, At
<1> QED
  BY <1>1, <1>2 DEF Shown

\* Cursors that stood behind what was shown still do.
LEMMA BehindStays ==
  ASSUME TInv, TInv', LanesGrow, ShownStays
  PROVE  \A cursors \in Cursors : \A found :
             Behind(cursors, found) => Behind(cursors, found)'
<1> SUFFICES ASSUME NEW cursors \in Cursors, NEW found, Behind(cursors, found), NEW k \in Keys
             PROVE  /\ cursors[k] <= Len(lane'[k])
                    /\ Mine(k)' \/ \A i \in 1..cursors[k] : Shown(<<k, i>>)' \/ <<k, i>> \in found
  BY DEF Behind
<1>1. cursors[k] \in Nat /\ lane[k] \in Seq(Posts) /\ lane'[k] \in Seq(Posts)
  BY DEF Cursors, TInv
<1>2. Len(lane[k]) \in Nat /\ Len(lane'[k]) \in Nat
  BY <1>1
<1>3. cursors[k] <= Len(lane[k]) /\ Len(lane[k]) <= Len(lane'[k])
  BY DEF Behind, LanesGrow
<1>4. cursors[k] <= Len(lane'[k])
  BY <1>1, <1>2, <1>3
<1>5. Mine(k) => Mine(k)'
  BY DEF LanesGrow
<1>6. Mine(k) \/ \A i \in 1..cursors[k] : Shown(<<k, i>>) \/ <<k, i>> \in found
  BY DEF Behind
<1>7. \A i : Shown(<<k, i>>) => Shown(<<k, i>>)'
  BY DEF ShownStays
<1> QED
  BY <1>4, <1>5, <1>6, <1>7

\* What landed stays.
LEMMA LandedStays ==
  ASSUME TInv, TInv', LanesGrow, NEW q \in Procs, Landed(proc[q]),
         proc'[q].at = "landed" => /\ proc[q].at = "landed" /\ proc'[q].todo = proc[q].todo
                                   /\ proc'[q].index = proc[q].index
                                   /\ proc'[q].batch = proc[q].batch
  PROVE  Landed(proc[q])'
<1>1. CASE proc'[q].at # "landed"
  BY <1>1 DEF Landed
<1>2. CASE proc'[q].at = "landed"
  <2>1. PICK k : k = Head(proc[q].todo)
    OBVIOUS
  <2>2. PICK n : n = proc[q].index + Len(proc[q].batch)
    OBVIOUS
  <2>3. /\ proc[q].at = "landed" /\ k \in Keys
        /\ proc[q].index \in Nat /\ proc[q].batch \in Seq(0..MaxRuns)
    BY <1>2, <2>1, SenderFacts, ProcessFacts
  <2>4. n \in Nat
    BY <2>2, <2>3
  <2>5. n <= Len(lane[k]) /\ Mine(k)
    BY <2>1, <2>2, <2>3 DEF Landed
  <2>6. lane[k] \in Seq(Posts) /\ lane'[k] \in Seq(Posts)
    BY <2>3 DEF TInv
  <2>7. Len(lane[k]) \in Nat /\ Len(lane'[k]) \in Nat
    BY <2>6
  <2>8. Len(lane[k]) <= Len(lane'[k]) /\ Mine(k)'
    BY <2>3, <2>5 DEF LanesGrow
  <2>9. n <= Len(lane'[k])
    BY <2>4, <2>5, <2>7, <2>8
  <2>10. proc'[q].index + Len(proc'[q].batch) = n /\ Head(proc'[q].todo) = k
    BY <1>2, <2>1, <2>2
  <2> QED
    BY <2>8, <2>9, <2>10 DEF Landed, Mine
<1> QED
  BY <1>1, <1>2

\* The lanes still to be served depend on the copies of a process only.
LEMMA ServedSame ==
  ASSUME NEW a, NEW b, Served(a),
         b.cmd = "flush" /\ b.at \in {"seal"} \cup Underway =>
             /\ b.at = a.at /\ b.cmd = a.cmd /\ b.todo = a.todo /\ b.batch = a.batch
             /\ b.box = a.box /\ b.cfg = a.cfg
  PROVE  Served(b)
<1> SUFFICES ASSUME b.cmd = "flush", b.at \in {"seal"} \cup Underway PROVE Served(b)
  BY DEF Served
<1>1. \A k : Waits(b, k) <=> Waits(a, k)
  BY DEF Waits
<1> QED
  BY <1>1 DEF Served

\* A step of one process that does not write the cursors.
LEMMA CursorStep ==
  ASSUME TInv, TInv', CursorInv, NEW p \in Procs, NEW r, Becomes(p, r),
         LanesGrow, ShownStays,
         disk'.cursors = disk.cursors \/ disk'.cursors = Torn,
         Behind(r.cursors, r.found), Landed(proc[p])', Served(r)
  PROVE  CursorInv'
<1>1. proc'[p] = r /\ \A q \in Procs : q # p => proc'[q] = proc[q]
  BY Others
<1>2. \A cursors \in Cursors : \A found : Behind(cursors, found) => Behind(cursors, found)'
  BY BehindStays
<1>3. disk'.cursors # Torn => Behind(disk.cursors, {})'
  <2> SUFFICES ASSUME disk'.cursors # Torn PROVE Behind(disk.cursors, {})'
    OBVIOUS
  <2>1. PICK c : c = disk.cursors
    OBVIOUS
  <2>2. disk'.cursors = c /\ c \in Cursors
    BY <2>1, DiskFacts
  <2>3. Behind(c, {})
    BY <2>1, <2>2 DEF CursorInv
  <2>4. Behind(c, {})'
    BY <1>2, <2>2, <2>3
  <2> QED
    BY <2>2, <2>4 DEF Behind
<1>4. ASSUME NEW q \in Procs
      PROVE  Behind(proc[q].cursors, proc[q].found)' /\ Landed(proc[q])' /\ Served(proc'[q])
  <2>1. CASE q = p
    <3>1. r.cursors \in Cursors
      BY <1>1 DEF TInv, Process
    <3>2. Behind(r.cursors, r.found)'
      BY <1>2, <3>1
    <3> QED
      BY <1>1, <2>1, <3>2 DEF Behind
  <2>2. CASE q # p
    <3>1. proc'[q] = proc[q] /\ proc[q].cursors \in Cursors
      BY <1>1, <2>2, ProcessFacts
    <3>2. Behind(proc[q].cursors, proc[q].found) /\ Landed(proc[q]) /\ Served(proc[q])
      BY DEF CursorInv
    <3>3. Behind(proc[q].cursors, proc[q].found)'
      BY <1>2, <3>1, <3>2 DEF Behind
    <3>4. Landed(proc[q])'
      BY <3>1, <3>2, LandedStays
    <3> QED
      BY <3>1, <3>2, <3>3, <3>4
  <2> QED
    BY <2>1, <2>2
<1>5. \A q \in Procs : Served(proc[q])'
  BY <1>4 DEF Served, Waits
<1> QED
  BY <1>3, <1>4, <1>5 DEF CursorInv

LEMMA CursorWrite ==
  ASSUME TInv, TInv', CursorInv, NEW p \in Procs, Write(p)
  PROVE  CursorInv'
<1> DEFINE me == proc[p]
           w == me.writes
           f == Head(w)[1]
           v == Head(w)[2]
<1>1. /\ Head(w) = <<f, v>> /\ WriteOK(me, Head(w))
      /\ \A n \in DOMAIN Tail(w) : /\ n + 1 \in DOMAIN w /\ Tail(w)[n] = w[n + 1]
                                   /\ Tail(w)[n][1] # f
      /\ Tail(w) \in Seq(Writes)
  BY PendingFacts DEF Write
<1>2. /\ w # <<>> /\ disk' = [disk EXCEPT ![f] = v]
      /\ proc'[p].writes = Tail(w)
      /\ \A q \in Procs :
             /\ proc'[q].at = proc[q].at /\ proc'[q].cmd = proc[q].cmd
             /\ proc'[q].cfg = proc[q].cfg /\ proc'[q].cursors = proc[q].cursors
             /\ proc'[q].box = proc[q].box /\ proc'[q].todo = proc[q].todo
             /\ proc'[q].batch = proc[q].batch /\ proc'[q].index = proc[q].index
             /\ proc'[q].found = proc[q].found
             /\ q # p => proc'[q].writes = proc[q].writes
  BY Written
<1>3. disk \in Disk /\ UNCHANGED <<lane, printed, missed>>
  BY DEF Write, TInv, chain
<1>4. me \in Process /\ Control(me)
  BY ProcessFacts
<1>o. \A n \in DOMAIN w : WriteOK(me, w[n])
  BY <1>4 DEF Control
<1>p. w = proc[p].writes
  OBVIOUS
<1> HIDE DEF f, v, w
<1>5. LanesGrow
  BY <1>3, LanesStay
<1>6. ShownStays
  <2> SUFFICES ASSUME NEW u, Shown(u) PROVE Shown(u)'
    BY DEF ShownStays
  <2>1. CASE u \in printed \cup missed
    BY <1>3, <2>1 DEF Shown
  <2>2. CASE \E q \in Procs : At(q, "print") /\ u \in proc[q].found
    <3>1. PICK q \in Procs : At(q, "print") /\ u \in proc[q].found
      BY <2>2
    <3>2. q # p
      BY <1>2, <1>p, <3>1 DEF At
    <3>3. At(q, "print")' /\ u \in proc'[q].found
      BY <1>2, <3>1, <3>2 DEF At
    <3> QED
      BY <3>3 DEF Shown
  <2> QED
    BY <2>1, <2>2 DEF Shown
<1>7. \A cursors \in Cursors : \A found : Behind(cursors, found) => Behind(cursors, found)'
  BY <1>5, <1>6, BehindStays
<1>8. ASSUME NEW q \in Procs
      PROVE  Behind(proc[q].cursors, proc[q].found)' /\ Landed(proc[q])' /\ Served(proc'[q])
  <2>1. Behind(proc[q].cursors, proc[q].found) /\ Landed(proc[q]) /\ Served(proc[q])
    BY DEF CursorInv
  <2>2. PICK c, found : c = proc[q].cursors /\ found = proc[q].found
    OBVIOUS
  <2>3. Behind(c, found)'
    BY <1>7, <2>1, <2>2, ProcessFacts
  <2>4. c = proc'[q].cursors /\ found = proc'[q].found
    BY <1>2, <2>2
  <2>5. Behind(proc[q].cursors, proc[q].found)'
    BY <2>3, <2>4 DEF Behind
  <2>6. Landed(proc[q])'
    BY <1>2, <1>5, <2>1, LandedStays
  <2>7. Served(proc'[q])
    BY <1>2, <2>1, ServedSame
  <2> QED
    BY <2>5, <2>6, <2>7
<1>9. \A q \in Procs : Served(proc[q])'
  BY <1>8 DEF Served, Waits
<1>10. disk'.cursors # Torn => Behind(disk.cursors, {})'
  <2> SUFFICES ASSUME disk'.cursors # Torn PROVE Behind(disk.cursors, {})'
    OBVIOUS
  <2>1. CASE f # "cursors"
    <3>1. PICK c : c = disk.cursors
      OBVIOUS
    <3>2. disk'.cursors = c
      BY <1>2, <1>3, <2>1, <3>1 DEF Disk
    <3>3. c \in Cursors /\ Behind(c, {})
      BY <3>1, <3>2, DiskFacts DEF CursorInv
    <3>4. Behind(c, {})'
      BY <1>7, <3>3
    <3> QED
      BY <3>2, <3>4 DEF Behind
  <2>2. CASE f = "cursors"
    <3>1. PICK c, found : c = me.cursors /\ found = me.found
      OBVIOUS
    <3>2. v = c /\ me.at \in {"done", "seal", "print"}
      BY <1>1, <2>2, <3>1 DEF WriteOK
    <3>3. disk'.cursors = c
      BY <1>2, <1>3, <2>2, <3>2 DEF Disk
    <3>4. Behind(c, found) /\ c \in Cursors
      BY <3>1, ProcessFacts DEF CursorInv
    <3>5. Behind(c, found)'
      BY <1>7, <3>4
    <3>6. ASSUME NEW u \in found PROVE Shown(u)'
      <4>1. me.at = "print"
        BY <1>4, <3>1, <3>2, <3>6 DEF Control
      <4>2. Tail(w) = <<>>
        <5> SUFFICES ASSUME Tail(w) # <<>> PROVE FALSE
          OBVIOUS
        <5>1. 1 \in DOMAIN Tail(w)
          BY <1>1
        <5>2. WriteOK(me, Tail(w)[1]) /\ Tail(w)[1][1] # "cursors"
          BY <1>1, <1>o, <2>2, <5>1
        <5> QED
          BY <4>1, <5>2 DEF WriteOK
      <4>3. At(p, "print")' /\ u \in proc'[p].found
        BY <1>2, <3>1, <3>6, <4>1, <4>2 DEF At
      <4> QED
        BY <4>3 DEF Shown
    <3>7. Behind(c, {})'
      BY <3>5, <3>6 DEF Behind
    <3> QED
      BY <3>3, <3>7 DEF Behind
  <2> QED
    BY <2>1, <2>2
<1> QED
  BY <1>8, <1>9, <1>10 DEF CursorInv

\* The steps that leave the cursors and the findings of a process alone, and
\* that neither print nor send.
Keeping(p, r) ==
    /\ Becomes(p, r) /\ proc[p].at # "print"
    /\ r.cursors = proc[p].cursors /\ r.found = proc[p].found
    /\ r.at \notin {"seal"} \cup Underway
    /\ disk'.cursors = disk.cursors /\ UNCHANGED <<lane, printed, missed>>
LEMMA KeepingSteps ==
  ASSUME TInv, NEW p \in Procs,
         \/ Discovered(p) \/ DiscoverySkipped(p) \/ \E full \in BOOLEAN : StartEngine(p, full)
         \/ ReadAll(p) \/ OpenTmp(p) \/ FillTmp(p)
  PROVE  \E r : Keeping(p, r)
<1> DEFINE me == proc[p]
<1>0. me \in Process
  BY ProcessFacts
<1>b. ASSUME NEW r, Goes(p, r), me.at # "print", r.cursors = me.cursors, r.found = me.found,
             r.at \notin {"seal"} \cup Underway
      PROVE  Keeping(p, r)
  BY <1>b DEF Keeping, Goes, chain, ghosts
<1>1. CASE Discovered(p)
  <2> DEFINE cfg == Merged(me.cfg, Scan)
             at == IF me.cmd # "sync" THEN "done"
                   ELSE IF cfg # me.cfg THEN "reload" ELSE "engine"
             ws == IF cfg # me.cfg THEN <<<<"config", cfg>>>> ELSE <<>>
             r == [me EXCEPT !.at = at, !.writes = ws]
  <2>1. Goes(p, r) /\ me.at = "scan"
    BY <1>1 DEF Discovered, At
  <2>2. at \in {"done", "reload", "engine"}
    OBVIOUS
  <2> HIDE DEF cfg, at, ws
  <2>3. r.cursors = me.cursors /\ r.found = me.found /\ r.at = at
    BY <1>0 DEF Process
  <2> HIDE DEF r
  <2> QED
    BY <1>b, <2>1, <2>2, <2>3
<1>2. CASE DiscoverySkipped(p)
  <2> DEFINE r == [me EXCEPT !.at = "engine"]
  <2>1. Goes(p, r) /\ me.at = "scan"
    BY <1>2 DEF DiscoverySkipped, At
  <2>2. r.cursors = me.cursors /\ r.found = me.found /\ r.at = "engine"
    BY <1>0 DEF Process
  <2> HIDE DEF r
  <2> QED
    BY <1>b, <2>1, <2>2
<1>3. CASE \E full \in BOOLEAN : StartEngine(p, full)
  <2>1. PICK full, cfg : LanesOf(p, cfg, full) /\ me.at \in {"engine", "reload"}
    BY <1>3 DEF StartEngine, At
  <2> DEFINE todo == (IF full THEN <<NoKey>> ELSE <<>>) \o Append(KeysOf(cfg), NoKey)
             r == [me EXCEPT !.at = "window", !.todo = todo]
  <2>2. Goes(p, r) /\ r.cursors = me.cursors /\ r.found = me.found /\ r.at = "window"
    BY <1>0, <2>1 DEF LanesOf, Process
  <2> HIDE DEF r
  <2> QED
    BY <1>b, <2>1, <2>2
<1>4. CASE ReadAll(p)
  <2> DEFINE ws == <<<<"cursors", me.cursors>>>>
             r == [me EXCEPT !.at = "print", !.writes = ws]
  <2>1. Goes(p, r) /\ me.at = "read"
    BY <1>4 DEF ReadAll, At
  <2> HIDE DEF ws
  <2>2. r.cursors = me.cursors /\ r.found = me.found /\ r.at = "print"
    BY <1>0 DEF Process
  <2> HIDE DEF r
  <2> QED
    BY <1>b, <2>1, <2>2
<1>5. CASE OpenTmp(p)
  <2> DEFINE r == [me EXCEPT !.at = "fill", !.fd = "tmp"]
  <2>1. /\ Becomes(p, r) /\ me.at = "window" /\ disk' = disk
        /\ UNCHANGED <<lane, printed, missed>>
    BY <1>5 DEF OpenTmp, At, chain
  <2>2. r.cursors = me.cursors /\ r.found = me.found /\ r.at = "fill"
    BY <1>0 DEF Process
  <2> HIDE DEF r
  <2>3. Keeping(p, r)
    BY <2>1, <2>2 DEF Keeping
  <2> QED
    BY <2>3
<1>6. CASE FillTmp(p)
  <2> DEFINE r == [me EXCEPT !.at = "rename", !.fd = "none"]
  <2>1. /\ Becomes(p, r) /\ me.at = "fill" /\ disk'.cursors = disk.cursors
        /\ UNCHANGED <<lane, printed, missed>>
    BY <1>6 DEF FillTmp, At, chain, ghosts, TInv, Disk
  <2>2. r.cursors = me.cursors /\ r.found = me.found /\ r.at = "rename"
    BY <1>0 DEF Process
  <2> HIDE DEF r
  <2>3. Keeping(p, r)
    BY <2>1, <2>2 DEF Keeping
  <2> QED
    BY <2>3
<1> QED
  BY <1>1, <1>2, <1>3, <1>4, <1>5, <1>6

\* A lane still waits after the entries of another were marked.
LEMMA WaitsStay ==
  ASSUME NEW me, me.box \in Box, NEW k, Waits(me, k), NEW ids, NEW status \in Statuses,
         \A i \in QueuedAt(me.box) :
             Resolves(me.cfg, me.box[i].to) /\ KeyOf(me.cfg, me.box[i].to) = k
                 => me.box[i].id \notin ids,
         NEW r, r.box = Marked(me.box, ids, status),
         \A to : Resolves(me.cfg, to) => /\ Resolves(r.cfg, to)
                                         /\ KeyOf(r.cfg, to) = KeyOf(me.cfg, to)
  PROVE  Waits(r, k)
<1>1. PICK i \in QueuedAt(me.box) :
          Resolves(me.cfg, me.box[i].to) /\ KeyOf(me.cfg, me.box[i].to) = k
  BY DEF Waits
<1>2. /\ DOMAIN r.box = DOMAIN me.box
      /\ \A j \in DOMAIN me.box :
             /\ r.box[j].to = me.box[j].to
             /\ r.box[j].status = IF me.box[j].id \in ids THEN status ELSE me.box[j].status
  BY MarkedFacts
<1>3. i \in DOMAIN me.box /\ me.box[i].status = "queued" /\ me.box[i].id \notin ids
  BY <1>1 DEF QueuedAt
<1>4. i \in QueuedAt(r.box) /\ r.box[i].to = me.box[i].to
  BY <1>2, <1>3 DEF QueuedAt
<1> QED
  BY <1>1, <1>4 DEF Waits

\* Sealing the first lane.
LEMMA SealServed ==
  ASSUME TInv, NumberInv, NEW p \in Procs, Served(proc[p]),
         NEW r, NEW ids, NEW box, Sealed(p, r, ids, box)
  PROVE  Served(r)
<1> DEFINE me == proc[p]
<1>1. /\ me.box \in Box /\ me.at = "seal" /\ Numbered(me.box)
      /\ r.at = "submit" /\ r.batch = ids /\ r.box = box /\ r.todo = me.todo
      /\ r.cmd = me.cmd /\ r.cfg = me.cfg
      /\ box = Marked(me.box, Range(ids), "proving")
  BY ProcessFacts DEF Sealed, NumberInv, WellNumbered
<1> SUFFICES ASSUME me.cmd = "flush" PROVE Served(r)
  BY <1>1 DEF Served
<1>2. ids = BatchFor(me, Head(me.todo))
  BY DEF Sealed
<1>3. /\ 1 \in DOMAIN me.todo /\ me.todo[1] = Head(me.todo)
      /\ \A m \in DOMAIN me.todo : Waits(me, me.todo[m])
      /\ \A m, n \in DOMAIN me.todo : me.todo[m] = me.todo[n] => m = n
  BY <1>1, SenderFacts DEF Served
<1>4. /\ \A n \in DOMAIN ids : \E i \in QueuedAt(me.box) :
             KeyOf(me.cfg, me.box[i].to) = Head(me.todo) /\ ids[n] = me.box[i].id
      /\ \A i \in QueuedAt(me.box) : KeyOf(me.cfg, me.box[i].to) = Head(me.todo) =>
             me.box[i].id \in Range(ids)
  BY <1>1, <1>2, BatchFacts
<1>5. ids # <<>>
  <2>1. PICK i \in QueuedAt(me.box) : KeyOf(me.cfg, me.box[i].to) = Head(me.todo)
    BY <1>3 DEF Waits
  <2>2. me.box[i].id \in Range(ids)
    BY <1>4, <2>1
  <2>3. DOMAIN ids # {}
    BY <2>2 DEF Range
  <2> QED
    BY <2>3
<1>6. ASSUME NEW m \in DOMAIN me.todo, m # 1 PROVE Waits(r, me.todo[m])
  <2>1. me.todo[m] # Head(me.todo) /\ Waits(me, me.todo[m])
    BY <1>3, <1>6
  <2>2. ASSUME NEW i \in QueuedAt(me.box), KeyOf(me.cfg, me.box[i].to) = me.todo[m]
        PROVE  me.box[i].id \notin Range(ids)
    <3> SUFFICES ASSUME me.box[i].id \in Range(ids) PROVE FALSE
      OBVIOUS
    <3>1. PICK n \in DOMAIN ids : ids[n] = me.box[i].id
      BY DEF Range
    <3>2. PICK j \in QueuedAt(me.box) :
              KeyOf(me.cfg, me.box[j].to) = Head(me.todo) /\ ids[n] = me.box[j].id
      BY <1>4
    <3>3. i = j
      BY <1>1, <3>1, <3>2, BoxFacts DEF Numbered
    <3> QED
      BY <2>1, <2>2, <3>2, <3>3
  <2>3. \A to : Resolves(me.cfg, to) => Resolves(r.cfg, to) /\ KeyOf(r.cfg, to) = KeyOf(me.cfg, to)
    BY <1>1
  <2>4. "proving" \in Statuses
    BY DEF Statuses
  <2> QED
    BY <1>1, <2>1, <2>2, <2>3, <2>4, WaitsStay
<1> QED
  BY <1>1, <1>3, <1>5, <1>6 DEF Served

\* Marking what is under way leaves the other lanes waiting.
LEMMA BatchWaits ==
  ASSUME TInv, NumberInv, NEW p \in Procs, proc[p].cmd = "flush",
         proc[p].at \in Underway
  PROVE  \A i \in QueuedAt(proc[p].box) : proc[p].box[i].id \notin Range(proc[p].batch)
<1> DEFINE me == proc[p]
<1>1. me.box \in Box /\ Numbered(me.box) /\ BatchOK(me)
  BY ProcessFacts DEF NumberInv, WellNumbered
<1> SUFFICES ASSUME NEW i \in QueuedAt(me.box), NEW n \in DOMAIN me.batch,
                    me.batch[n] = me.box[i].id
             PROVE  FALSE
  BY DEF Range
<1>2. i \in DOMAIN me.box /\ me.box[i].status = "queued"
  BY DEF QueuedAt
<1>3. PICK j \in DOMAIN me.box : me.box[j].id = me.batch[n] /\ me.box[j].status # "queued"
  BY <1>1 DEF BatchOK
<1> QED
  BY <1>1, <1>2, <1>3 DEF Numbered

LEMMA BroadcastServed ==
  ASSUME TInv, NumberInv, NEW p \in Procs, Served(proc[p]),
         NEW r, NEW box, Broadcasted(p, r, box)
  PROVE  Served(r)
<1> DEFINE me == proc[p]
<1>1. /\ me.box \in Box /\ me.at = "submit"
      /\ r.at = "sent" /\ r.batch = me.batch /\ r.box = box /\ r.todo = me.todo
      /\ r.cmd = me.cmd /\ r.cfg = me.cfg
      /\ box = Marked(me.box, Range(me.batch), "submitted")
  BY ProcessFacts DEF Broadcasted
<1> SUFFICES ASSUME me.cmd = "flush" PROVE Served(r)
  BY <1>1 DEF Served
<1>2. /\ me.batch # <<>>
      /\ \A m \in DOMAIN me.todo : m # 1 => Waits(me, me.todo[m])
      /\ \A m, n \in DOMAIN me.todo : me.todo[m] = me.todo[n] => m = n
  BY <1>1 DEF Served
<1>3. ASSUME NEW k, Waits(me, k) PROVE Waits(r, k)
  <2>1. \A i \in QueuedAt(me.box) : me.box[i].id \notin Range(me.batch)
    BY <1>1, BatchWaits
  <2>2. \A to : Resolves(me.cfg, to) => Resolves(r.cfg, to) /\ KeyOf(r.cfg, to) = KeyOf(me.cfg, to)
    BY <1>1
  <2>3. "submitted" \in Statuses
    BY DEF Statuses
  <2> QED
    BY <1>1, <1>3, <2>1, <2>2, <2>3, WaitsStay
<1> QED
  BY <1>1, <1>2, <1>3 DEF Served

LEMMA ConfirmServed ==
  ASSUME TInv, NumberInv, NEW p \in Procs, Served(proc[p]),
         NEW r, NEW box, NEW cfg, NEW cursors, Confirmed(p, r, box, cfg, cursors)
  PROVE  Served(r)
<1> DEFINE me == proc[p]
<1>1. /\ me.box \in Box /\ me.at = "landed" /\ me.cfg \in Config
      /\ r.at \in {"done", "seal"} /\ r.box = box /\ r.todo = Tail(me.todo)
      /\ r.cmd = me.cmd /\ r.cfg = cfg
      /\ box = Marked(me.box, Range(me.batch), "confirmed")
  BY ProcessFacts DEF Confirmed
<1> SUFFICES ASSUME me.cmd = "flush" PROVE Served(r)
  BY <1>1 DEF Served
<1>2. /\ \A m \in DOMAIN me.todo : m # 1 => Waits(me, me.todo[m])
      /\ \A m, n \in DOMAIN me.todo : me.todo[m] = me.todo[n] => m = n
  BY <1>1 DEF Served
<1>3. ASSUME NEW k, Waits(me, k) PROVE Waits(r, k)
  <2>1. \A i \in QueuedAt(me.box) : me.box[i].id \notin Range(me.batch)
    BY <1>1, BatchWaits
  <2>2. cfg = MarkSetup(me.cfg, Head(me.todo))
    BY DEF Confirmed
  <2>3. \A to : Resolves(me.cfg, to) => Resolves(r.cfg, to) /\ KeyOf(r.cfg, to) = KeyOf(me.cfg, to)
    BY <1>1, <2>2, MarkSetupFacts
  <2>4. "confirmed" \in Statuses
    BY DEF Statuses
  <2> QED
    BY <1>1, <1>3, <2>1, <2>3, <2>4, WaitsStay
<1>4. \A n \in DOMAIN Tail(me.todo) : n \in Nat /\ n + 1 \in DOMAIN me.todo
                                      /\ n + 1 # 1 /\ Tail(me.todo)[n] = me.todo[n + 1]
  BY <1>1, SenderFacts
<1>5. \A n \in DOMAIN r.todo : Waits(r, r.todo[n])
  BY <1>1, <1>2, <1>3, <1>4
<1>6. \A m, n \in DOMAIN r.todo : r.todo[m] = r.todo[n] => m = n
  <2> SUFFICES ASSUME NEW m \in DOMAIN r.todo, NEW n \in DOMAIN r.todo, r.todo[m] = r.todo[n]
               PROVE  m = n
    OBVIOUS
  <2>1. m + 1 = n + 1 /\ m \in Nat /\ n \in Nat
    BY <1>1, <1>2, <1>4
  <2> QED
    BY <2>1
<1> QED
  BY <1>1, <1>5, <1>6 DEF Served

LEMMA CursorSteps ==
  ASSUME TInv, TInv', NumberInv, CursorInv, NEW p \in Procs, Steps(p)
  PROVE  CursorInv'
<1> DEFINE me == proc[p]
<1>0. /\ me \in Process /\ Control(me) /\ me.cursors \in Cursors
      /\ Behind(me.cursors, me.found) /\ Landed(me) /\ Served(me)
  BY ProcessFacts DEF CursorInv
<1>a. ASSUME NEW r, Becomes(p, r), r.at # "landed" PROVE Landed(proc[p])'
  <2>1. proc'[p].at # "landed"
    BY <1>a, Others
  <2> QED
    BY <2>1 DEF Landed
<1>1. CASE Done(p) \/ Ends(p) \/ Queued(p) \/ PrintFound(p) \/ Tear(p)
  <2>1. Becomes(p, Idle) /\ UNCHANGED lane
    BY <1>1 DEF Done, Ends, Queued, PrintFound, Tear, Goes, chain
  <2>2. disk'.cursors = disk.cursors \/ disk'.cursors = Torn
    <3>1. CASE Tear(p)
      <4>1. \E f : disk' = [disk EXCEPT ![f] = Torn]
        BY <3>1 DEF Tear
      <4> QED
        BY <4>1 DEF TInv, Disk
    <3>2. CASE ~ Tear(p)
      BY <1>1, <3>2 DEF Done, Ends, Queued, PrintFound, Goes
    <3> QED
      BY <3>1, <3>2
  <2>3. /\ Idle.at = "idle" /\ Idle.cmd = "none" /\ Idle.found = {}
        /\ \A k \in Keys : Idle.cursors[k] = 0
    BY DEF Idle
  <2>4. printed \subseteq printed' /\ missed \subseteq missed'
    BY <1>1 DEF Done, Ends, Queued, PrintFound, Tear, Goes, ghosts
  <2>5. At(p, "print") => me.found \subseteq printed' \cup missed'
    <3>1. At(p, "print") => ~ Done(p) /\ ~ Queued(p) /\ ~ Tear(p)
      BY <1>0 DEF At, Done, Queued, Tear, Control
    <3>2. CASE Ends(p)
      BY <3>2 DEF Ends, At
    <3>3. CASE PrintFound(p)
      BY <3>3 DEF PrintFound
    <3> QED
      BY <1>1, <3>1, <3>2, <3>3
  <2>6. ShownStays
    <3> SUFFICES ASSUME NEW u, Shown(u) PROVE Shown(u)'
      BY DEF ShownStays
    <3>1. CASE u \in printed \cup missed
      BY <2>4, <3>1 DEF Shown
    <3>2. CASE \E q \in Procs : At(q, "print") /\ u \in proc[q].found
      <4>1. PICK q \in Procs : At(q, "print") /\ u \in proc[q].found
        BY <3>2
      <4>2. CASE q = p
        BY <2>5, <4>1, <4>2 DEF Shown
      <4>3. CASE q # p
        <5>1. proc'[q] = proc[q]
          BY <2>1, <4>3, Others
        <5> QED
          BY <4>1, <5>1 DEF Shown, At
      <4> QED
        BY <4>2, <4>3
    <3> QED
      BY <3>1, <3>2 DEF Shown
  <2>7. Behind(Idle.cursors, Idle.found)
    <3>1. \A k \in Keys : Len(lane[k]) \in Nat
      <4> TAKE k \in Keys
      <4>1. lane[k] \in Seq(Posts)
        BY DEF TInv
      <4> QED
        BY <4>1
    <3>2. \A k \in Keys : Idle.cursors[k] <= Len(lane[k]) /\ 1..Idle.cursors[k] = {}
      BY <2>3, <3>1
    <3> QED
      BY <3>2 DEF Behind
  <2>8. Served(Idle)
    BY <2>3 DEF Served
  <2>9. LanesGrow
    BY <2>1, LanesStay
  <2>10. Landed(proc[p])'
    BY <1>a, <2>1, <2>3
  <2> QED
    BY <2>1, <2>2, <2>6, <2>7, <2>8, <2>9, <2>10, CursorStep
<1>2. ASSUME NEW r, Keeping(p, r) PROVE CursorInv'
  <2>1. /\ Becomes(p, r) /\ r.cursors = me.cursors /\ r.found = me.found
        /\ r.at \notin {"seal"} \cup Underway /\ disk'.cursors = disk.cursors
    BY <1>2 DEF Keeping
  <2>2. LanesGrow
    BY <1>2, LanesStay DEF Keeping
  <2>3. ShownStays
    BY <1>2, ShownAside DEF Keeping, At
  <2>4. Landed(proc[p])' /\ Served(r)
    BY <1>a, <2>1 DEF Served
  <2> QED
    BY <1>0, <2>1, <2>2, <2>3, <2>4, CursorStep
<1>3. CASE ReadLane(p)
  <2> DEFINE k == Head(me.todo)
             n == me.cursors[k]
             more == Unread(k, n)
             r == [me EXCEPT !.todo = Tail(@), !.cursors[k] = Walked(k, @),
                             !.found = @ \cup more]
  <2>1. Goes(p, r) /\ me.at = "read" /\ me.todo # <<>>
    BY <1>3 DEF ReadLane, At
  <2>2. k \in Keys
    BY <1>0, <2>1 DEF Control
  <2>3. n \in Nat /\ Len(lane[k]) \in Nat /\ n <= Len(lane[k])
    <3>1. n \in Nat /\ lane[k] \in Seq(Posts)
      BY <1>0, <2>2 DEF Cursors, TInv
    <3> QED
      BY <1>0, <2>2, <3>1 DEF Behind
  <2>4. Walked(k, n) = Len(lane[k])
    BY <2>3 DEF Walked
  <2>5. \A i \in 1..Len(lane[k]) : i \in 1..n \/ <<k, i>> \in more
    BY <2>3 DEF Unread
  <2>6. /\ Becomes(p, r) /\ disk'.cursors = disk.cursors /\ UNCHANGED <<lane, printed, missed>>
    BY <2>1 DEF Goes, chain, ghosts
  <2> HIDE DEF more
  <2>7. /\ r.cursors[k] = Len(lane[k])
        /\ \A l \in Keys : l # k => r.cursors[l] = me.cursors[l]
        /\ r.found = me.found \cup more /\ r.at = "read"
    <3>1. /\ r.cursors = [me.cursors EXCEPT ![k] = Walked(k, n)]
          /\ r.found = me.found \cup more /\ r.at = me.at
      BY <1>0 DEF Process
    <3> QED
      BY <1>0, <2>1, <2>2, <2>4, <3>1 DEF Cursors
  <2> HIDE DEF r
  <2>8. Behind(r.cursors, r.found)
    <3> SUFFICES ASSUME NEW l \in Keys
                 PROVE  /\ r.cursors[l] <= Len(lane[l])
                        /\ Mine(l) \/ \A i \in 1..r.cursors[l] :
                                          Shown(<<l, i>>) \/ <<l, i>> \in r.found
      BY DEF Behind
    <3>1. /\ me.cursors[l] <= Len(lane[l])
          /\ Mine(l) \/ \A i \in 1..me.cursors[l] : Shown(<<l, i>>) \/ <<l, i>> \in me.found
      BY <1>0 DEF Behind
    <3>2. CASE l # k
      BY <2>7, <3>1, <3>2
    <3>3. CASE l = k
      <4>1. r.cursors[l] <= Len(lane[l])
        BY <2>3, <2>7, <3>3
      <4>2. Mine(l) \/ \A i \in 1..r.cursors[l] : Shown(<<l, i>>) \/ <<l, i>> \in r.found
        BY <2>5, <2>7, <3>1, <3>3
      <4> QED
        BY <4>1, <4>2
    <3> QED
      BY <3>2, <3>3
  <2>9. Landed(proc[p])' /\ Served(r)
    BY <1>a, <2>6, <2>7 DEF Served
  <2>10. LanesGrow /\ ShownStays
    BY <2>1, <2>6, LanesStay, ShownAside DEF At
  <2> QED
    BY <2>6, <2>8, <2>9, <2>10, CursorStep
<1>4. CASE Seal(p)
  <2>1. PICK r, ids, box : Sealed(p, r, ids, box)
    BY <1>4, SealStep
  <2>2. /\ Becomes(p, r) /\ UNCHANGED <<disk, lane, printed, missed>> /\ me.at = "seal"
        /\ r.cursors = me.cursors /\ r.found = me.found /\ r.at = "submit"
    BY <2>1 DEF Sealed, Goes, chain, ghosts
  <2>3. Served(r)
    BY <1>0, <2>1, SealServed
  <2>4. Landed(proc[p])'
    BY <1>a, <2>2
  <2>5. LanesGrow /\ ShownStays
    BY <2>2, LanesStay, ShownAside DEF At
  <2> QED
    BY <1>0, <2>2, <2>3, <2>4, <2>5, CursorStep
<1>5. CASE Broadcast(p)
  <2>1. PICK r, box : Broadcasted(p, r, box)
    BY <1>5, BroadcastStep
  <2>2. /\ Becomes(p, r) /\ UNCHANGED <<disk, lane, printed, missed>> /\ me.at = "submit"
        /\ r.cursors = me.cursors /\ r.found = me.found /\ r.at = "sent"
    BY <2>1 DEF Broadcasted, Goes, chain, ghosts
  <2>3. Served(r)
    BY <1>0, <2>1, BroadcastServed
  <2>4. Landed(proc[p])'
    BY <1>a, <2>2
  <2>5. LanesGrow /\ ShownStays
    BY <2>2, LanesStay, ShownAside DEF At
  <2> QED
    BY <1>0, <2>2, <2>3, <2>4, <2>5, CursorStep
<1>5a. CASE Refused(p) \/ Reseal(p) \/ AnswerLost(p)
  <2>1. PICK r : Retried(p, r)
    BY <1>5a, RetryStep
  <2>2. /\ Becomes(p, r) /\ UNCHANGED <<disk, lane, printed, missed>> /\ me.at \in Underway
        /\ r.cursors = me.cursors /\ r.found = me.found /\ r.at = "submit"
        /\ r.todo = me.todo /\ r.batch = me.batch /\ r.box = me.box /\ r.cfg = me.cfg
        /\ r.cmd = me.cmd /\ me.cmd = "flush"
    BY <2>1 DEF Retried
  <2>3. Served(r)
    <3>1. \A k : Waits(r, k) <=> Waits(me, k)
      BY <2>2 DEF Waits
    <3> QED
      BY <1>0, <2>2, <3>1 DEF Served
  <2>4. Landed(proc[p])'
    BY <1>a, <2>2
  <2>5. LanesGrow /\ ShownStays
    BY <2>2, LanesStay, ShownAside DEF At
  <2> QED
    BY <1>0, <2>2, <2>3, <2>4, <2>5, CursorStep
<1>5b. CASE Include(p)
  <2>1. PICK r : Included(p, r)
    BY <1>5b, IncludeStep
  <2>2. PICK k : k = Head(me.todo)
    OBVIOUS
  <2>3. /\ Becomes(p, r) /\ UNCHANGED <<disk, printed, missed>> /\ proc'[p] = r
        /\ me.at = "sent" /\ Len(lane[k]) = me.index
        /\ lane' = [lane EXCEPT ![k] = @ \o me.batch]
        /\ r.cursors = me.cursors /\ r.found = me.found /\ r.at = "landed"
        /\ r.todo = me.todo /\ r.index = me.index /\ r.batch = me.batch
    BY <2>1, <2>2, Others DEF Included, Grows, ghosts
  <2>4. k \in Keys /\ me.batch \in Seq(Posts)
    BY <2>2, <2>3, SenderFacts, BatchPosts
  <2>5. \E n \in DOMAIN me.batch : me.batch[n] \notin PeerPost
    <3>0. PICK batch : batch = me.batch
      OBVIOUS
    <3>1. batch \in Seq(0..MaxRuns)
      BY <1>0, <3>0 DEF Process
    <3>a. batch # <<>>
      <4>1. CASE me.cmd = "flush"
        BY <1>0, <2>3, <3>0, <4>1 DEF Served
      <4>2. CASE me.cmd # "flush"
        <5>1. batch = <<0>>
          BY <1>0, <2>3, <3>0, <4>2 DEF Control
        <5> QED
          BY <5>1
      <4> QED
        BY <4>1, <4>2
    <3>b. 1 \in DOMAIN batch /\ batch[1] \in 0..MaxRuns
      <4>1. Len(batch) \in Nat /\ DOMAIN batch = 1..Len(batch) /\ Len(batch) # 0
        BY <3>1, <3>a, EmptySeq
      <4>2. 1 \in DOMAIN batch
        BY <4>1
      <4>3. 1 \in 1..Len(batch)
        BY <4>1
      <4>4. \A n \in 1..Len(batch) : batch[n] \in 0..MaxRuns
        BY <3>1, ElementOfSeq
      <4> QED
        BY <4>2, <4>3, <4>4
    <3>2. 1 \in DOMAIN me.batch /\ me.batch[1] \in 0..MaxRuns
      BY <3>0, <3>b
    <3>3. me.batch[1] \notin PeerPost
      BY <3>2, FilesAssumption DEF PeerPost
    <3> QED
      BY <3>2, <3>3
  <2>6. LanesGrow /\ Len(lane'[k]) = Len(lane[k]) + Len(me.batch) /\ Mine(k)'
    BY <2>3, <2>4, <2>5, PostGrows
  <2>7. Landed(proc[p])'
    <3>1. /\ proc'[p].index = Len(lane[k]) /\ proc'[p].batch = me.batch
          /\ Head(proc'[p].todo) = k
      BY <2>2, <2>3
    <3>2. lane'[k] \in Seq(Posts)
      BY <2>4 DEF TInv
    <3>3. Len(lane'[k]) \in Nat
      BY <3>2
    <3>4. PICK batch, end : batch = me.batch /\ end = Len(lane[k])
      OBVIOUS
    <3>5. proc'[p].index = end /\ proc'[p].batch = batch /\ Len(lane'[k]) = end + Len(batch)
      BY <2>6, <3>1, <3>4
    <3>6. end + Len(batch) <= Len(lane'[k])
      BY <3>3, <3>5
    <3>7. proc'[p].index + Len(proc'[p].batch) <= Len(lane'[Head(proc'[p].todo)])
      BY <3>1, <3>5, <3>6
    <3> QED
      BY <2>6, <3>1, <3>7 DEF Landed, Mine
  <2>8. Served(r)
    <3>1. r.cmd = me.cmd /\ r.box = me.box /\ r.cfg = me.cfg
      BY <2>1 DEF Included
    <3>2. \A l : Waits(r, l) <=> Waits(me, l)
      BY <3>1 DEF Waits
    <3> QED
      BY <1>0, <2>3, <3>1, <3>2 DEF Served
  <2>9. ShownStays
    BY <2>3, ShownAside DEF At
  <2> QED
    BY <1>0, <2>3, <2>6, <2>7, <2>8, <2>9, CursorStep
<1>6. CASE Confirm(p)
  <2>1. PICK r, box, cfg, cursors : Confirmed(p, r, box, cfg, cursors)
    BY <1>6, ConfirmStep
  <2> DEFINE k == Head(me.todo)
             n == me.index + Len(me.batch)
  <2>2. /\ Becomes(p, r) /\ UNCHANGED <<disk, lane, printed, missed>> /\ me.at = "landed"
        /\ cursors = [me.cursors EXCEPT ![k] = n]
        /\ r.cursors = cursors /\ r.found = me.found /\ r.at \in {"done", "seal"}
    BY <2>1 DEF Confirmed, Goes, chain, ghosts
  <2>3. k \in Keys /\ n <= Len(lane[k]) /\ Mine(k)
    BY <1>0, <2>2, SenderFacts DEF Landed
  <2> HIDE DEF n, k
  <2>4. r.cursors[k] = n /\ \A l \in Keys : l # k => r.cursors[l] = me.cursors[l]
    BY <1>0, <2>2, <2>3 DEF Cursors
  <2>5. Behind(r.cursors, r.found)
    <3> SUFFICES ASSUME NEW l \in Keys
                 PROVE  /\ r.cursors[l] <= Len(lane[l])
                        /\ Mine(l) \/ \A i \in 1..r.cursors[l] :
                                          Shown(<<l, i>>) \/ <<l, i>> \in r.found
      BY DEF Behind
    <3>1. CASE l # k
      BY <1>0, <2>2, <2>4, <3>1 DEF Behind
    <3>2. CASE l = k
      BY <2>3, <2>4, <3>2
    <3> QED
      BY <3>1, <3>2
  <2>6. Served(r)
    BY <1>0, <2>1, ConfirmServed
  <2>7. Landed(proc[p])'
    BY <1>a, <2>2
  <2>8. LanesGrow /\ ShownStays
    BY <2>2, LanesStay, ShownAside DEF At
  <2> QED
    BY <2>2, <2>5, <2>6, <2>7, <2>8, CursorStep
<1>7. CASE RenameTmp(p)
  <2>1. UNCHANGED <<lane, printed, missed>> /\ disk'.cursors = disk.cursors
    BY <1>7 DEF RenameTmp, chain, ghosts, TInv, Disk
  <2>2. \A q \in Procs :
            /\ proc'[q].writes = proc[q].writes /\ proc'[q].found = proc[q].found
            /\ proc'[q].cfg = proc[q].cfg /\ proc'[q].cmd = proc[q].cmd
            /\ proc'[q].box = proc[q].box /\ proc'[q].cursors = proc[q].cursors
            /\ proc'[q].index = proc[q].index /\ proc'[q].batch = proc[q].batch
            /\ proc'[q].at = proc[q].at \/ (proc[q].at = "rename" /\ proc'[q].at \in {"done", "window"})
            /\ q # p => proc'[q].todo = proc[q].todo /\ proc'[q].at = proc[q].at
    BY <1>7, Renamed
  <2>3. me.at = "rename"
    BY <1>7 DEF RenameTmp, At
  <2>4. LanesGrow
    BY <2>1, LanesStay
  <2>5. ShownStays
    <3> SUFFICES ASSUME NEW u, Shown(u) PROVE Shown(u)'
      BY DEF ShownStays
    <3>1. \A q \in Procs : At(q, "print") => At(q, "print")' /\ proc'[q].found = proc[q].found
      BY <2>2 DEF At
    <3> QED
      BY <2>1, <3>1 DEF Shown
  <2>6. \A c \in Cursors : \A found : Behind(c, found) => Behind(c, found)'
    BY <2>4, <2>5, BehindStays
  <2>7. ASSUME NEW q \in Procs
        PROVE  Behind(proc[q].cursors, proc[q].found)' /\ Landed(proc[q])' /\ Served(proc'[q])
    <3>1. Behind(proc[q].cursors, proc[q].found) /\ Landed(proc[q]) /\ Served(proc[q])
      BY DEF CursorInv
    <3>2. PICK c, found : c = proc[q].cursors /\ found = proc[q].found
      OBVIOUS
    <3>3. Behind(c, found)'
      BY <2>6, <3>1, <3>2, ProcessFacts
    <3>4. c = proc'[q].cursors /\ found = proc'[q].found
      BY <2>2, <3>2
    <3>5. Behind(proc[q].cursors, proc[q].found)'
      BY <3>3, <3>4 DEF Behind
    <3>6. proc'[q].at \in {"seal"} \cup Underway =>
              proc'[q].at = proc[q].at /\ proc'[q].todo = proc[q].todo
      BY <2>2, <2>3
    <3>7. Landed(proc[q])'
      BY <2>2, <2>4, <3>1, <3>6, LandedStays
    <3>8. Served(proc'[q])
      BY <2>2, <3>1, <3>6, ServedSame
    <3> QED
      BY <3>5, <3>7, <3>8
  <2>8. \A q \in Procs : Served(proc[q])'
    BY <2>7 DEF Served, Waits
  <2>9. disk'.cursors # Torn => Behind(disk.cursors, {})'
    <3> SUFFICES ASSUME disk'.cursors # Torn PROVE Behind(disk.cursors, {})'
      OBVIOUS
    <3>1. PICK c : c = disk.cursors
      OBVIOUS
    <3>2. disk'.cursors = c /\ c \in Cursors /\ Behind(c, {})
      BY <2>1, <3>1, DiskFacts DEF CursorInv
    <3>3. Behind(c, {})'
      BY <2>6, <3>2
    <3> QED
      BY <3>2, <3>3 DEF Behind
  <2> QED
    BY <2>7, <2>8, <2>9 DEF CursorInv
<1>8. CASE Write(p)
  BY <1>8, CursorWrite
<1> QED
  BY <1>1, <1>2, <1>3, <1>4, <1>5, <1>5a, <1>5b, <1>6, <1>7, <1>8, KeepingSteps DEF Steps

LEMMA CursorNext == TInv /\ NumberInv /\ CursorInv /\ [Next]_vars => CursorInv'
<1> SUFFICES ASSUME TInv, NumberInv, CursorInv, [Next]_vars PROVE CursorInv'
  OBVIOUS
<1>0. TInv'
  BY NextTyped
<1>1. ASSUME NEW p \in Procs, Commands(p) PROVE CursorInv'
  <2>1. PICK r : Becomes(p, r) /\ Fresh(r)
    BY <1>1, Started
  <2>2. UNCHANGED <<disk, lane, printed, missed>> /\ proc[p].at = "idle" /\ proc'[p] = r
    BY <1>1, <2>1, Started, Others
  <2>3. Behind(r.cursors, r.found)
    <3>1. CASE r.cursors = Idle.cursors
      <4>1. \A k \in Keys : r.cursors[k] = 0
        BY <3>1 DEF Idle
      <4>2. ASSUME NEW k \in Keys PROVE Len(lane[k]) \in Nat
        <5>1. lane[k] \in Seq(Posts)
          BY DEF TInv
        <5> QED
          BY <5>1
      <4>3. \A k \in Keys : r.cursors[k] <= Len(lane[k]) /\ 1..r.cursors[k] = {}
        BY <4>1, <4>2
      <4> QED
        BY <4>3 DEF Behind
    <3>2. CASE r.cursors = disk.cursors /\ disk.cursors # Torn
      <4>1. r.found = {} /\ Behind(disk.cursors, {})
        BY <2>1, <3>2 DEF Fresh, CursorInv
      <4> QED
        BY <3>2, <4>1
    <3> QED
      BY <2>1, <3>1, <3>2 DEF Fresh
  <2>4. r.at \notin Underway
    BY <2>1 DEF Fresh
  <2>5. Landed(proc[p])'
    BY <2>2, <2>4 DEF Landed
  <2>6. Served(r)
    BY <2>1, <2>4 DEF Served, Fresh
  <2>7. LanesGrow /\ ShownStays
    BY <2>1, <2>2, LanesStay, ShownAside DEF At
  <2> QED
    BY <1>0, <2>1, <2>2, <2>3, <2>5, <2>6, <2>7, CursorStep
<1>2. ASSUME NEW p \in Procs, Steps(p) PROVE CursorInv'
  BY <1>0, <1>2, CursorSteps
<1>3. CASE UNCHANGED <<disk, proc, printed, missed>> /\ LanesGrow
  <2>1. ShownStays
    BY <1>3 DEF ShownStays, Shown, At
  <2>2. \A c \in Cursors : \A found : Behind(c, found) => Behind(c, found)'
    BY <1>0, <1>3, <2>1, BehindStays
  <2>3. ASSUME NEW p \in Procs
        PROVE  Behind(proc[p].cursors, proc[p].found)' /\ Landed(proc[p])' /\ Served(proc[p])'
    <3>1. Behind(proc[p].cursors, proc[p].found) /\ Landed(proc[p]) /\ Served(proc[p])
      BY DEF CursorInv
    <3>2. proc'[p] = proc[p] /\ proc[p].cursors \in Cursors
      BY <1>3, ProcessFacts
    <3>3. Behind(proc[p].cursors, proc[p].found)'
      BY <2>2, <3>1, <3>2 DEF Behind
    <3>4. Landed(proc[p])'
      BY <1>0, <1>3, <3>1, <3>2, LandedStays
    <3>5. Served(proc[p])'
      BY <3>1, <3>2 DEF Served, Waits
    <3> QED
      BY <3>3, <3>4, <3>5
  <2>4. disk'.cursors # Torn => Behind(disk.cursors, {})'
    <3> SUFFICES ASSUME disk.cursors # Torn PROVE Behind(disk.cursors, {})'
      BY <1>3
    <3>1. PICK c : c = disk.cursors
      OBVIOUS
    <3>2. disk'.cursors = c /\ c \in Cursors /\ Behind(c, {})
      BY <1>3, <3>1, DiskFacts DEF CursorInv
    <3>3. Behind(c, {})'
      BY <2>2, <3>2
    <3> QED
      BY <3>2, <3>3 DEF Behind
  <2> QED
    BY <2>3, <2>4 DEF CursorInv
<1>4. ASSUME NEW q \in Peers, NEW m \in PeerPost, PeerPosts(q, m) PROVE CursorInv'
  <2> DEFINE k == In(q)
  <2>1. k \in Keys /\ m \in Posts
    BY DEF Keys, Posts
  <2>2. lane' = [lane EXCEPT ![k] = Append(@, m)] /\ UNCHANGED <<disk, proc, printed, missed>>
    BY <1>4 DEF PeerPosts, ghosts
  <2> HIDE DEF k
  <2>3. lane[k] \in Seq(Posts)
    BY <2>1 DEF TInv
  <2>4. Append(lane[k], m) = lane[k] \o <<m>> /\ <<m>> \in Seq(Posts)
    BY <2>1, <2>3
  <2>5. lane' = [lane EXCEPT ![k] = @ \o <<m>>]
    BY <2>2, <2>4
  <2>6. LanesGrow
    BY <2>1, <2>4, <2>5, PostGrows
  <2> QED
    BY <1>3, <2>2, <2>6
<1>4a. ASSUME NEW t \in lost, IncludeLost(t) PROVE CursorInv'
  <2>1. UNCHANGED <<disk, proc, printed, missed>>
    BY <1>4a DEF IncludeLost, ghosts
  <2>2. LanesGrow
    BY <1>4a, LostFacts, PostGrows DEF Grows
  <2> QED
    BY <1>3, <2>1, <2>2
<1>5. CASE UNCHANGED vars
  <2>1. UNCHANGED <<disk, proc, lane, printed, missed>>
    BY <1>5 DEF vars, chain, ghosts
  <2> QED
    BY <1>3, <2>1, LanesStay
<1> QED
  BY <1>1, <1>2, <1>4, <1>4a, <1>5 DEF Next

\* The cursor that reads share with sends never stands beyond the end of a
\* lane, and on a lane that only the peer writes it stands behind no message
\* that was never printed: so does every copy of it that a process holds,
\* counting what this process found itself.
THEOREM UnreadStaysUnread == Spec => []UnreadKept
<1>1. Init => TInv /\ NumberInv /\ CursorInv
  <2> SUFFICES ASSUME Init PROVE CursorInv
    BY InitTyped, InitNumbered
  <2>1. /\ disk.cursors = [k \in Keys |-> 0] /\ lane = [k \in Keys |-> <<>>]
        /\ proc = [p \in Procs |-> Idle]
    BY DEF Init
  <2>2. \A p \in Procs : /\ proc[p].at = "idle" /\ proc[p].cmd = "none" /\ proc[p].found = {}
                         /\ proc[p].cursors = [k \in Keys |-> 0]
    BY <2>1 DEF Idle
  <2>3. Behind([k \in Keys |-> 0], {})
    BY <2>1 DEF Behind
  <2>4. \A p \in Procs : Landed(proc[p]) /\ Served(proc[p])
    BY <2>2 DEF Landed, Served
  <2> QED
    BY <2>1, <2>2, <2>3, <2>4 DEF CursorInv
<1>2. TInv /\ NumberInv /\ CursorInv /\ [Next]_vars => (TInv /\ NumberInv /\ CursorInv)'
  BY NextTyped, NumberNext, CursorNext
<1>3. CursorInv => UnreadKept
  <2> SUFFICES ASSUME disk.cursors # Torn, Behind(disk.cursors, {}), NEW k \in Keys
               PROVE  /\ disk.cursors[k] <= Len(lane[k])
                      /\ Mine(k) \/ \A u \in {<<k, i>> : i \in 1..disk.cursors[k]} :
                             u \in printed \cup missed \/ Printing(u)
    BY DEF CursorInv, UnreadKept
  <2>1. \A u : Shown(u) => u \in printed \cup missed \/ Printing(u)
    BY DEF Shown, Printing, At
  <2> QED
    BY <2>1 DEF Behind
<1> QED
  BY <1>1, <1>2, <1>3, PTL DEF Spec
=============================================================================
