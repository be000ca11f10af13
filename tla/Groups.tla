------------------------------- MODULE Groups -------------------------------
(***************************************************************************)
(* Groups of the web application: several browsers, each with its own list *)
(* of groups, lanes derived from a group's key and a member's address,     *)
(* messages queued by the group's name, splits posted as a memo, and the   *)
(* thread each browser stitches from the lanes it reads.                   *)
(*                                                                         *)
(* An invite, once copied, may be pasted by anyone at any time.  A browser *)
(* runs one batch and one split at a time; more of them, and answers that  *)
(* are lost, are WebFlush's.  The order within a thread is left out: it is *)
(* total and the same for every reader (time, lane, index), and so are the *)
(* amounts of a split, which go out with its memo in one transaction.      *)
(***************************************************************************)
EXTENDS Naturals, FiniteSets, Sequences, Functions

CONSTANTS
    Users,       \* browsers, each with an address of its own
    Names,       \* names of groups
    Keys,        \* random group keys
    NoWork,
    Founders,    \* bound: browsers that create groups
    Circles,     \* bound: the other members they declare
    MaxMsgs      \* bound: messages written

ASSUME GroupsAssumption ==
    /\ Founders \subseteq Users /\ Circles \subseteq SUBSET Users
    /\ MaxMsgs \in Nat

VARIABLES
    groups,      \* groups[u]: the groups u's browser keeps
    invites,     \* every group that can be pasted
    outbox,      \* outbox[u]: entries waiting or under way
    batch,       \* batch[u]: the lanes a sendBatch has yet to serve
    split,       \* split[u]: a payGroup that looks for its slot, or NoWork
    tx,          \* tx[u][w]: transaction of the batch or of the split, or NoWork
    phase,       \* phase[u]: the progress bar; "idle" is every phase that is not busy
    lane,        \* lane[l]: what is stored on lane l
    read,        \* read[u][l]: how much of it u's history holds
    written,     \* messages written so far
    moved        \* messages whose name passed to another group while they waited

lists == <<groups, invites>>
sending == <<outbox, batch, split, tx, phase>>
groupsVars == <<lists, sending, lane, read, written, moved>>

-----------------------------------------------------------------------------
Group == [name : Names, key : Keys, members : SUBSET Users]

LaneShared(k, a) == <<k, CHOOSE b \in Users : TRUE>>   \* copy: the member left out
LaneKey(k, a) == <<k, a>>
Lane == Keys \X Users

\* The declared members and, declared or not, oneself.
ReadersDeclared(g, a) == g.members   \* copy: a joiner's own lane forgotten
Readers(g, a) == g.members \cup {a}
GroupLanes(u) == UNION {{LaneKey(g.key, a) : a \in Readers(g, u)} : g \in groups[u]}

\* A new group takes the name from one that has it.
PutByKey(list, g) == {h \in list : h.key # g.key} \cup {g}   \* copy
Put(list, g) == {h \in list : h.name # g.name} \cup {g}
Named(u, name) == CHOOSE g \in groups[u] : g.name = name

Busy == {"proving", "submitted"}
Works == {"batch", "split"}

GroupsInit ==
    /\ groups = [u \in Users |-> {}] /\ invites = {}
    /\ outbox = [u \in Users |-> {}] /\ batch = [u \in Users |-> {}]
    /\ split = [u \in Users |-> NoWork]
    /\ tx = [u \in Users |-> [w \in Works |-> NoWork]]
    /\ phase = [u \in Users |-> "idle"]
    /\ lane = [l \in Lane |-> <<>>]
    /\ read = [u \in Users |-> [l \in Lane |-> 0]]
    /\ written = 0 /\ moved = {}

-----------------------------------------------------------------------------
(* Making and joining groups.                                              *)

Keep(u, g) ==
    /\ groups' = [groups EXCEPT ![u] = Put(@, g)]
    /\ invites' = invites \cup {g}
    /\ moved' = moved \cup {e.n : e \in {f \in outbox[u] : f.to = g.name /\ f.view # g.key}}
    /\ UNCHANGED <<sending, lane, read, written>>

CreateGroup(u, name, others) ==
    /\ u \in Founders
    /\ \E key \in Keys \ {g.key : g \in invites} :
        Keep(u, [name |-> name, key |-> key, members |-> {u} \cup others])

JoinGroup(u, g) == g \in invites /\ Keep(u, g)

-----------------------------------------------------------------------------
(* Writing: a message goes to the name of the group it is typed in.        *)

\* The entry that waits, or the memo of a split.
Entry(u, g) == [n |-> written + 1, to |-> g.name, view |-> g.key, by |-> u]

QueueToGroup(u, g) ==
    /\ written < MaxMsgs /\ written' = written + 1
    /\ outbox' = [outbox EXCEPT ![u] = @ \cup {Entry(u, g)}]
    /\ UNCHANGED <<lists, batch, split, tx, phase, lane, read, moved>>

\* The names are resolved when the batch starts, one transaction for each.
Pieces(u) ==
    {[lane |-> LaneKey(Named(u, name).key, u),
      msgs |-> {e \in outbox[u] : e.to = name}] : name \in {e.to : e \in outbox[u]}}

SendBatch(u) ==
    /\ outbox[u] # {} /\ batch[u] = {} /\ phase[u] # "proving"
    /\ batch' = [batch EXCEPT ![u] = Pieces(u)]
    /\ UNCHANGED <<lists, outbox, split, tx, phase, lane, read, written, moved>>

\* The lane is walked to its next free slot; the transaction is being proved.
Seals(u, w, l, msgs) ==
    /\ tx[u][w] = NoWork
    /\ tx' = [tx EXCEPT ![u][w] =
                [lane |-> l, at |-> Len(lane[l]), msgs |-> msgs, state |-> "proving"]]
    /\ phase' = [phase EXCEPT ![u] = "proving"]
    /\ UNCHANGED <<lists, outbox, lane, read, written, moved>>

OldestFirst(S) == {s \in [1..Cardinality(S) -> S] : \A i, j \in DOMAIN s : i < j => s[i].n < s[j].n}

\* The lane of the oldest message first, its messages in the order of writing.
SealBatch(u) ==
    /\ \E p \in batch[u] :
          /\ \E m \in p.msgs : \A q \in batch[u] : \A n \in q.msgs : m.n <= n.n
          /\ \E msgs \in OldestFirst(p.msgs) : Seals(u, "batch", p.lane, msgs)
    /\ UNCHANGED <<batch, split>>

\* A split posts its memo on the group it was started from.
PayGroup(u, g) ==
    /\ written < MaxMsgs /\ written' = written + 1
    /\ split[u] = NoWork /\ tx[u]["split"] = NoWork /\ phase[u] \notin Busy
    /\ split' = [split EXCEPT ![u] = [lane |-> LaneKey(g.key, u), memo |-> Entry(u, g)]]
    /\ UNCHANGED <<lists, outbox, batch, tx, phase, lane, read, moved>>

SealSplit(u) ==
    /\ split[u] # NoWork
    /\ Seals(u, "split", split[u].lane, <<split[u].memo>>)
    /\ split' = [split EXCEPT ![u] = NoWork]
    /\ UNCHANGED batch

SplitRefused(u) ==   \* a member is not registered, or the walk fails
    /\ split[u] # NoWork
    /\ split' = [split EXCEPT ![u] = NoWork]
    /\ phase' = [phase EXCEPT ![u] = "idle"]
    /\ UNCHANGED <<lists, outbox, batch, tx, lane, read, written, moved>>

-----------------------------------------------------------------------------
(* A transaction on its way.                                               *)

In(u, w, states) == tx[u][w] # NoWork /\ tx[u][w].state \in states

Submitted(u, w) ==
    /\ In(u, w, {"proving"})
    /\ tx' = [tx EXCEPT ![u][w].state = "submitted"]
    /\ phase' = [phase EXCEPT ![u] = "submitted"]
    /\ UNCHANGED <<lists, outbox, batch, split, lane, read, written, moved>>

\* The contract takes it if its first slot is still the lane's next.
Land(u, w) ==
    LET t == tx[u][w] IN
    /\ In(u, w, {"submitted"})
    /\ IF Len(lane[t.lane]) = t.at
       THEN /\ lane' = [lane EXCEPT ![t.lane] = @ \o t.msgs]
            /\ tx' = [tx EXCEPT ![u][w].state = "landed"]
       ELSE /\ tx' = [tx EXCEPT ![u][w].state = "reverted"]
            /\ UNCHANGED lane
    /\ UNCHANGED <<lists, outbox, batch, split, phase, read, written, moved>>

Ends(u, w) ==
    /\ tx' = [tx EXCEPT ![u][w] = NoWork]
    /\ phase' = [phase EXCEPT ![u] = "idle"]
    /\ UNCHANGED <<lists, split, lane, read, written, moved>>

Confirm(u, w) ==
    /\ In(u, w, {"landed"})
    /\ Ends(u, w)
    /\ IF w = "batch"
       THEN /\ outbox' = [outbox EXCEPT ![u] = @ \ Range(tx[u][w].msgs)]
            /\ batch' = [batch EXCEPT ![u] = {p \in @ : p.lane # tx[u][w].lane}]
       ELSE UNCHANGED <<outbox, batch>>

\* Refused or reverted: what is left of a batch goes back to the queue.
Fails(u, w) ==
    /\ In(u, w, {"proving", "submitted", "reverted"})
    /\ Ends(u, w)
    /\ batch' = IF w = "batch" THEN [batch EXCEPT ![u] = {}] ELSE batch
    /\ UNCHANGED outbox

-----------------------------------------------------------------------------
\* A sync reads the lanes of the groups the browser has, one after another.
Sync(u, l) ==
    /\ l \in GroupLanes(u) /\ read[u][l] < Len(lane[l])
    /\ read' = [read EXCEPT ![u][l] = Len(lane[l])]
    /\ UNCHANGED <<lists, sending, lane, written, moved>>

GroupsNext == \E u \in Users :
    \/ \E name \in Names, others \in Circles : CreateGroup(u, name, others)
    \/ \E g \in invites : JoinGroup(u, g)
    \/ \E g \in groups[u] : QueueToGroup(u, g) \/ PayGroup(u, g)
    \/ SendBatch(u) \/ SealBatch(u) \/ SealSplit(u) \/ SplitRefused(u)
    \/ \E w \in Works : Submitted(u, w) \/ Land(u, w) \/ Confirm(u, w) \/ Fails(u, w)
    \/ \E l \in Lane : Sync(u, l)

GroupsSpec == GroupsInit /\ [][GroupsNext]_groupsVars

\* The shell syncs every 15 seconds, and goes on where a sync was cut short.
GroupsFairSpec == GroupsSpec /\ \A u \in Users, l \in Lane : WF_groupsVars(Sync(u, l))

-----------------------------------------------------------------------------
\* What a thread shows is shown under whoever wrote it: as single-writer
\* lanes promise, no other member ever takes a slot of one's own lane,
\* whatever groups share a name and whoever joined undeclared.
Thread(u, g, a) ==
    {lane[LaneKey(g.key, a)][i] : i \in 1..read[u][LaneKey(g.key, a)]}
SenderShown ==
    \A u \in Users : \A g \in groups[u] : \A a \in Readers(g, u) :
        \A m \in Thread(u, g, a) : m.by = a

\* A message goes to the group it was typed in, through failed batches and
\* groups that come and go under its name, unless the name passed to another
\* group while the message waited.
RightGroup ==
    \A l \in Lane : \A m \in Range(lane[l]) : m.n \in moved \/ m.view = l[1]

\* A browser that keeps a group reads, in the end, all that its declared
\* members and it itself write there: also what was written before it joined.
\* (What an undeclared member writes, only that member reads.)
MembersHear ==
    \A u \in Users, k \in Keys, a \in Users :
        <>[](\E g \in groups[u] : g.key = k /\ a \in g.members \cup {u})
            => <>[](read[u][LaneKey(k, a)] = Len(lane[LaneKey(k, a)]))
=============================================================================
