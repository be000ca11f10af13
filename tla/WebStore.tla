------------------------------ MODULE WebStore ------------------------------
(***************************************************************************)
(* The session of the web application (apps/web/src/lib/store.ts): its     *)
(* connection, its contact list and its syncs, with the copy of them in    *)
(* the browser's local storage.  Every operation is cut at its awaits; an  *)
(* operation that was suspended goes on with what it captured before, over *)
(* whatever the others made of the list meanwhile.                         *)
(*                                                                         *)
(* A connection stands for a pool (or a helper) together with the account  *)
(* and the viewing key used on it.  The lanes between two parties are a    *)
(* function of the connection, and so is what the chain answers.           *)
(* Sending is reduced to one message per operation: WebFlush models the    *)
(* batches, the progress bar and the failures of a submission.             *)
(***************************************************************************)
EXTENDS Naturals, FiniteSets, SequencesExt

CONSTANTS
    Connections,      \* connections the user switches between
    PoolConnections,  \* those in pool mode
    Peers, Labels,
    Ops,              \* slots for suspended operations
    NoConnection, NoLane,
    Rejects,          \* whether the calls of a backend may be rejected
    MaxRuns           \* bound: operations started by the user

ASSUME StoreAssumption ==
    /\ PoolConnections \subseteq Connections /\ NoConnection \notin Connections
    /\ Rejects \in BOOLEAN /\ MaxRuns \in Nat
    /\ NoLane \notin [from : {"me", "peer"}, of : Connections, peer : Peers]

VARIABLES
    config,      \* the connection, NoConnection when logged out
    contacts,    \* the contact list in memory
    disk,        \* local storage: config, contacts, history
    syncing,     \* the flag that keeps syncs apart
    op,          \* the suspended operations
    registered,  \* chain: <<connection, peer>> that registered
    opened,      \* chain: lanes opened, which the pool's channel scan finds
    slots,       \* chain: <<connection, lane, index>> that hold a message
    made,        \* identities given to contact objects so far
    runs,        \* operations started so far
    added,       \* ghost: contacts the user added, <<label, peer>>
    confirmed,   \* ghost: messages reported as confirmed
    disturbed    \* ghost: what kept lanes from following the connection

session == <<config, contacts, disk, syncing, made>>
world == <<registered, opened, slots>>
ghosts == <<added, confirmed, disturbed>>
vars == <<session, op, world, runs, ghosts>>

-----------------------------------------------------------------------------
(* Lanes, and what the chain of a connection answers.                      *)

Out(k, p) == [from |-> "me", of |-> k, peer |-> p]
In(k, p) == [from |-> "peer", of |-> k, peer |-> p]

\* Outside pool mode (direct mode) everybody counts as registered.
Registered(k, p) == k \notin PoolConnections \/ <<k, p>> \in registered
NextEmpty(k, lane) == Cardinality({s \in slots : s[1] = k /\ s[2] = lane})
Scan(k) ==
    LET lanes(d) == SetToSeq({l \in opened : l.of = k /\ l.from = d})
    IN  lanes("me") \o lanes("peer")

(* The contact list.  A contact is an immutable object; `obj' is its       *)
(* identity, which reconcileLanes compares with ===.                       *)

Contact(l, p, out, in, reg) ==
    [label |-> l, peer |-> p, outKey |-> out, inKey |-> in,
     registered |-> reg, setupDone |-> FALSE, obj |-> made + 1]

IsPool == config \in PoolConnections
LoggedIn == config # NoConnection

Knows(list, p) == \E i \in DOMAIN list : list[i].peer = p
FirstWith(list, p) == SelectInSeq(list, LAMBDA c : c.peer = p)

\* The elements of s at some positions, in their order (Array.filter).
Pick(s, at) == [n \in 1..Cardinality(at) |->
    s[CHOOSE i \in at : Cardinality({j \in at : j < i}) = n - 1]]

ShortLabel(list, p) ==   \* labels of contacts the user never named
    CHOOSE l \in {<<p, n>> : n \in 1..(Len(list) + 1)} :
        \A i \in DOMAIN list : list[i].label # l

\* A copy of SaveContacts that saves before the list is replaced.
SaveContactsEarly == disk' = [disk EXCEPT !.contacts = contacts]
SaveContacts == disk' = [disk EXCEPT !.contacts = contacts']

-----------------------------------------------------------------------------
(* Suspended operations.  `at' is the await, `via' the connection whose    *)
(* backend was asked; the rest is what the operation captured.             *)

Idle == [at |-> "idle", via |-> NoConnection, label |-> NoLane,
         peer |-> NoLane, contact |-> NoLane, todo |-> <<>>, lanes |-> {},
         changed |-> FALSE, index |-> 0, syncs |-> FALSE]

At(o, a) == op[o].at = a
Await(o, r) == op' = [op EXCEPT ![o] = r]
End(o) == Await(o, Idle)
Goes(o, r) == Await(o, r) /\ UNCHANGED <<session, world, runs, ghosts>>

Disturbs(what, if) ==
    disturbed' = IF if THEN disturbed \cup {what} ELSE disturbed

Counted == runs < MaxRuns /\ runs' = runs + 1
Alone == \A o \in Ops : ~At(o, "reconcile")
Starts(o, r) ==
    /\ LoggedIn /\ At(o, "idle") /\ Counted
    /\ Await(o, [r EXCEPT !.via = config])
    /\ Disturbs("raced", ~Alone)
    /\ UNCHANGED <<session, world, added, confirmed>>

-----------------------------------------------------------------------------
(* The connection.  What is suspended is not told when it changes.         *)

\* First, a copy that rederives no lane that is there already.
ToReconcileMissing(list) ==
    Pick(list, {i \in DOMAIN list : list[i].registered /\ list[i].outKey = NoLane})
ToReconcile(list) == Pick(list, {i \in DOMAIN list : list[i].registered})
Reconcile(k, list) ==
    IF k \in PoolConnections /\ ToReconcile(list) # <<>>
    THEN [Idle EXCEPT !.at = "reconcile", !.via = k,
                      !.todo = ToReconcile(list)]
    ELSE Idle

Switches == Disturbs("raced", \E o \in Ops : ~At(o, "idle"))

Init ==
    /\ config = NoConnection /\ contacts = <<>>
    /\ disk = [config |-> NoConnection, contacts |-> <<>>, history |-> {}]
    /\ syncing = FALSE
    /\ op = [o \in Ops |-> Idle]
    /\ registered = {} /\ opened = {} /\ slots = {}
    /\ made = 0 /\ runs = 0
    /\ added = {} /\ confirmed = {} /\ disturbed = {}

CompleteOnboarding(k) ==   \* without a backup: no contacts to reconcile
    /\ ~LoggedIn
    /\ config' = k /\ contacts' = <<>> /\ added' = {}
    /\ disk' = [disk EXCEPT !.config = k, !.contacts = <<>>]
    /\ Switches
    /\ UNCHANGED <<syncing, made, op, world, runs, confirmed>>

UpdateConnection(o, k) ==
    /\ config \notin {NoConnection, k}
    /\ At(o, "idle") /\ Counted
    /\ config' = k
    /\ disk' = [disk EXCEPT !.config = k]
    /\ Await(o, Reconcile(k, contacts))
    /\ Switches
    /\ UNCHANGED <<contacts, syncing, made, world, added, confirmed>>

Disconnect ==
    /\ LoggedIn /\ Counted
    /\ config' = NoConnection /\ contacts' = <<>> /\ added' = {}
    /\ disk' = [config |-> NoConnection, contacts |-> <<>>, history |-> {}]
    /\ syncing' = FALSE
    /\ Switches
    /\ UNCHANGED <<made, op, world, confirmed>>

\* The page is loaded again: whatever was suspended is gone.
Reload(o) ==
    /\ Counted
    /\ config' = disk.config /\ contacts' = disk.contacts
    /\ syncing' = FALSE
    /\ op' = [[q \in Ops |-> Idle] EXCEPT
                ![o] = Reconcile(disk.config, disk.contacts)]
    /\ UNCHANGED <<disk, made, world, ghosts>>

\* reconcileLanes: the lane of the first contact that is left arrives, or its
\* call is rejected.  Without a pool all the calls that remain throw.
Rederived(o) ==
    LET c == Head(op[o].todo)
        fresh == Out(op[o].via, c.peer)
        rest == Tail(op[o].todo)
        known == Registered(op[o].via, c.peer)
    IN  /\ At(o, "reconcile")
        /\ \E answered \in {known, known /\ ~Rejects} :
              LET differs == answered /\ fresh # c.outKey
                  changed == op[o].changed \/ differs
              IN  /\ contacts' =
                        [i \in DOMAIN contacts |->
                            IF differs /\ contacts[i] = c
                            THEN [c EXCEPT !.outKey = fresh, !.obj = made + 1]
                            ELSE contacts[i]]
                  /\ made' = IF differs THEN made + 1 ELSE made
                  /\ IF rest # <<>> /\ IsPool
                     THEN /\ Await(o, [op[o] EXCEPT !.todo = rest,
                                         !.via = config, !.changed = changed])
                          /\ UNCHANGED disk
                     ELSE /\ End(o)
                          /\ IF changed THEN SaveContacts ELSE UNCHANGED disk
                  /\ Disturbs(IF known THEN "rejected" ELSE "unregistered",
                              ~answered)
        /\ UNCHANGED <<config, syncing, world, runs, added, confirmed>>

-----------------------------------------------------------------------------
(* addContact: a question about the registration, one for the lane.        *)

AddContact(o, l, p) ==
    Starts(o, [Idle EXCEPT !.at = "add: registered?", !.label = l, !.peer = p])

\* The list loses whoever has the label or, in pool mode, the address.
\* First, a copy that looks at the address only.
DisplacesByPeer(c, l, p) == IsPool /\ p = c.peer
Displaces(c, l, p) == l = c.label \/ (IsPool /\ p = c.peer)

PutContact(o, c) ==
    /\ contacts' = Append(Pick(contacts, {i \in DOMAIN contacts :
                         ~Displaces(c, contacts[i].label, contacts[i].peer)}), c)
    /\ SaveContacts
    /\ made' = made + 1
    /\ added' = {a \in added : ~Displaces(c, a[1], a[2])}
                   \cup {<<c.label, c.peer>>}
    /\ End(o)
    /\ UNCHANGED <<config, syncing, world, runs, confirmed, disturbed>>

\* Pool mode: what is known of the peer is kept.
PoolContact(l, p, out, reg) ==
    LET i == FirstWith(contacts, p)
    IN  IF i = 0 THEN Contact(l, p, out, NoLane, reg)
        ELSE [Contact(l, p, out, contacts[i].inKey, reg)
                EXCEPT !.setupDone = contacts[i].setupDone]

AddRegistered(o) ==
    LET l == op[o].label
        p == op[o].peer
        reg == Registered(op[o].via, p)
    IN  /\ At(o, "add: registered?") /\ LoggedIn
        /\ IF IsPool /\ reg
           THEN Goes(o, [op[o] EXCEPT !.at = "add: lane", !.via = config])
           ELSE PutContact(o, IF IsPool THEN PoolContact(l, p, NoLane, FALSE)
                              ELSE Contact(l, p, Out(config, p),
                                           In(config, p), reg))

AddLane(o) ==
    /\ At(o, "add: lane")
    /\ PutContact(o, PoolContact(op[o].label, op[o].peer,
                                 Out(op[o].via, op[o].peer), TRUE))

-----------------------------------------------------------------------------
(* refreshRegistration of a contact as the screen showed it.               *)

RefreshRegistration(o, c) ==
    Starts(o, [Idle EXCEPT !.at = "refresh: registered?", !.contact = c])

Refresh(o, reg, out) ==
    /\ contacts' = [i \in DOMAIN contacts |->
                      IF contacts[i].peer = op[o].contact.peer
                      THEN [contacts[i] EXCEPT !.registered = reg,
                              !.outKey = out, !.obj = made + 1]
                      ELSE contacts[i]]
    /\ SaveContacts
    /\ made' = made + 1
    /\ End(o)
    /\ UNCHANGED <<config, syncing, world, runs, ghosts>>

Refreshed(o) ==
    LET c == op[o].contact
        reg == Registered(op[o].via, c.peer)
    IN  /\ At(o, "refresh: registered?")
        /\ IF reg = c.registered /\ (~IsPool \/ c.outKey # NoLane)
           THEN Goes(o, Idle)
           ELSE IF IsPool /\ reg /\ c.outKey = NoLane
           THEN Goes(o, [op[o] EXCEPT !.at = "refresh: lane", !.via = config])
           ELSE Refresh(o, reg, c.outKey)

RefreshLane(o) ==
    /\ At(o, "refresh: lane")
    /\ Refresh(o, TRUE, Out(op[o].via, op[o].contact.peer))

-----------------------------------------------------------------------------
(* discoverLanes, behind the scan button or at the head of a sync, and the *)
(* rest of syncNow.                                                        *)

\* What engine.sync is asked to read.
LaneKeys(list) ==
    (UNION {{list[i].outKey, list[i].inKey} : i \in DOMAIN list}) \ {NoLane}

\* A sync as it begins, with the lanes it reads if it need not scan first.
Syncing(list) ==
    [Idle EXCEPT !.at = IF IsPool THEN "scan" ELSE "read", !.via = config,
                 !.syncs = TRUE, !.lanes = IF IsPool THEN {} ELSE LaneKeys(list)]

\* First, a copy that leaves the flag up.
SyncEndsLocked(o) == End(o) /\ UNCHANGED syncing
SyncEnds(o) == End(o) /\ syncing' = FALSE

\* syncNow in the slot of an operation: the flag keeps two syncs apart.
SyncFrom(o, list) ==
    IF LoggedIn /\ ~syncing
    THEN Await(o, Syncing(list)) /\ syncing' = TRUE
    ELSE End(o) /\ UNCHANGED syncing

\* discoverLanes is over.  A sync reads next even if the scan threw, unless
\* there is no identity any more; the button starts a sync if it did not.
ScanOver(o, threw, list) ==
    IF ~op[o].syncs
    THEN IF threw THEN End(o) /\ UNCHANGED syncing ELSE SyncFrom(o, list)
    ELSE IF LoggedIn
         THEN /\ Await(o, [Syncing(list) EXCEPT !.at = "read",
                             !.lanes = LaneKeys(list)])
              /\ UNCHANGED syncing
         ELSE SyncEnds(o)

\* The lanes of a scan merged into the contacts they belong to.
Merged(list, lanes) ==
    [i \in DOMAIN list |->
        LET c == list[i]
            from(d) == {l \in lanes : l.from = d /\ l.peer = c.peer}
            in == IF from("peer") = {} THEN c.inKey
                  ELSE CHOOSE l \in from("peer") : TRUE
            opens == from("me") # {} /\ ~(c.setupDone /\ c.outKey # NoLane)
        IN  IF FirstWith(list, c.peer) # i \/ (in = c.inKey /\ ~opens) THEN c
            ELSE [c EXCEPT !.inKey = in, !.setupDone = @ \/ opens,
                           !.outKey = IF opens /\ @ = NoLane
                                      THEN CHOOSE l \in from("me") : TRUE
                                      ELSE @,
                           !.obj = made + 1]]

\* A contact not shown as registered, which no reconciliation looks at, takes
\* the lane the scan found for it.
Adopts(list, merged) == \E i \in DOMAIN list :
    ~list[i].registered /\ merged[i].outKey # list[i].outKey

\* From `todo' on: known peers are merged without an await; the first unknown
\* one that writes to us is asked for.
Merge(o, list, todo, changed) ==
    LET stop == SelectInSeq(todo, LAMBDA l : l.from = "peer"
                                             /\ ~Knows(list, l.peer))
        known == IF stop = 0 THEN todo ELSE SubSeq(todo, 1, stop - 1)
        merged == Merged(list, ToSet(known))
        differs == changed \/ merged # list
    IN  /\ contacts' = merged
        /\ made' = IF merged = contacts THEN made ELSE made + 1
        /\ IF stop # 0 /\ LoggedIn
           THEN /\ Await(o, [op[o] EXCEPT !.at = "found: registered?",
                               !.via = config, !.changed = differs,
                               !.todo = SubSeq(todo, stop, Len(todo))])
                /\ UNCHANGED <<disk, syncing>>
           ELSE /\ ScanOver(o, stop # 0, merged)
                /\ IF stop = 0 /\ differs THEN SaveContacts
                   ELSE UNCHANGED disk
        /\ Disturbs("adopted", Adopts(list, merged))
        /\ UNCHANGED <<config, world, runs, added, confirmed>>

ScanButton(o) == IsPool /\ Starts(o, [Idle EXCEPT !.at = "scan"])

Sync(o) ==
    /\ LoggedIn /\ ~syncing /\ At(o, "idle")
    /\ Await(o, Syncing(contacts)) /\ syncing' = TRUE
    /\ Disturbs("raced", ~Alone)
    /\ UNCHANGED <<config, contacts, disk, made, world, runs, added, confirmed>>

Scanned(o) == At(o, "scan") /\ Merge(o, contacts, Scan(op[o].via), FALSE)

\* A stranger becomes a contact, and the merge goes on behind its lane.
Found(o, out, reg) ==
    LET lane == Head(op[o].todo)
        label == ShortLabel(contacts, lane.peer)
    IN  Merge(o, Append(contacts, Contact(label, lane.peer, out, lane, reg)),
              Tail(op[o].todo), TRUE)

FoundRegistered(o) ==
    /\ At(o, "found: registered?")
    /\ IF ~Registered(op[o].via, Head(op[o].todo).peer)
       THEN Found(o, NoLane, FALSE)
       ELSE IF IsPool
       THEN Goes(o, [op[o] EXCEPT !.at = "found: lane", !.via = config])
       ELSE /\ UNCHANGED <<config, contacts, disk, made, world, runs, ghosts>>
            /\ ScanOver(o, TRUE, contacts)

FoundLane(o) ==
    At(o, "found: lane") /\ Found(o, Out(op[o].via, Head(op[o].todo).peer), TRUE)

\* engine.sync has read the lanes; SyncEngine models what happens inside.
Read(o) ==
    /\ At(o, "read")
    /\ disk' = [disk EXCEPT !.history = @ \cup op[o].lanes]
    /\ SyncEnds(o)
    /\ UNCHANGED <<config, contacts, made, world, runs, ghosts>>

-----------------------------------------------------------------------------
(* One message: the walk of its lane, the transaction, and a sync.         *)

Send(o, c) ==
    /\ \A q \in Ops : op[q].at \notin {"walk", "submit"}
    /\ c.registered /\ c.outKey # NoLane
    /\ Starts(o, [Idle EXCEPT !.at = "walk", !.contact = c])

\* The batch goes to the backend of that moment.
Walked(o) ==
    /\ At(o, "walk") /\ LoggedIn
    /\ Goes(o, [op[o] EXCEPT !.at = "submit", !.via = config,
                  !.index = NextEmpty(op[o].via, op[o].contact.outKey),
                  !.peer = IF IsPool THEN op[o].contact.peer ELSE NoLane])

MarkSetupDone(p) ==
    /\ contacts' = [i \in DOMAIN contacts |->
                      IF contacts[i].peer = p
                      THEN [contacts[i] EXCEPT !.setupDone = TRUE,
                                               !.obj = made + 1]
                      ELSE contacts[i]]
    /\ SaveContacts
    /\ made' = made + 1

\* The pool has no note for a peer without a key.
Refused(o) ==
    At(o, "submit") /\ op[o].peer # NoLane /\ ~Registered(op[o].via, op[o].peer)

Submitted(o) ==
    LET m == [peer |-> op[o].contact.peer, of |-> op[o].via,
              lane |-> op[o].contact.outKey, index |-> op[o].index]
    IN  /\ At(o, "submit") /\ ~Refused(o)
        /\ <<m.of, m.lane, m.index>> \notin slots
        /\ slots' = slots \cup {<<m.of, m.lane, m.index>>}
        /\ confirmed' = confirmed \cup {m}
        /\ IF op[o].peer # NoLane
           THEN MarkSetupDone(m.peer) /\ opened' = opened \cup {Out(m.of, m.peer)}
           ELSE UNCHANGED <<opened, contacts, disk, made>>
        /\ SyncFrom(o, contacts')
        /\ UNCHANGED <<config, registered, runs, added, disturbed>>

-----------------------------------------------------------------------------
(* A call throws, or the session is gone where the code needs one.         *)

Scans == {"scan", "found: registered?", "found: lane"}
Calls == {"add: registered?", "add: lane", "refresh: registered?",
          "refresh: lane", "read", "walk", "submit"} \cup Scans

Throws(o) ==
    /\ \/ Rejects /\ op[o].at \in Calls
       \/ op[o].at \in {"add: registered?", "walk"} /\ ~LoggedIn
       \/ Refused(o)
    /\ CASE op[o].at \in Scans -> ScanOver(o, TRUE, contacts)
         [] At(o, "read") -> SyncEnds(o)
         [] OTHER -> End(o) /\ UNCHANGED syncing
    /\ UNCHANGED <<config, contacts, disk, made, world, runs, ghosts>>

-----------------------------------------------------------------------------
(* The others.                                                             *)

PeerRegisters(k, p) ==
    /\ k \in PoolConnections /\ ~Registered(k, p)
    /\ registered' = registered \cup {<<k, p>>}
    /\ UNCHANGED <<session, op, opened, slots, runs, ghosts>>

PeerOpens(k, p) ==
    /\ <<k, p>> \in registered /\ In(k, p) \notin opened
    /\ opened' = opened \cup {In(k, p)}
    /\ UNCHANGED <<session, op, registered, slots, runs, ghosts>>

-----------------------------------------------------------------------------
Step(o) ==
    \/ Rederived(o)
    \/ AddRegistered(o) \/ AddLane(o)
    \/ Refreshed(o) \/ RefreshLane(o)
    \/ Scanned(o) \/ FoundRegistered(o) \/ FoundLane(o) \/ Read(o)
    \/ Walked(o) \/ Submitted(o)

User(o) ==
    \/ \E l \in Labels, p \in Peers : AddContact(o, l, p)
    \/ \E c \in ToSet(contacts) : RefreshRegistration(o, c) \/ Send(o, c)
    \/ ScanButton(o)
    \/ \E k \in Connections : UpdateConnection(o, k)
    \/ Reload(o)

Next ==
    \/ \E o \in Ops : Step(o) \/ Throws(o) \/ User(o) \/ Sync(o)
    \/ Disconnect
    \/ \E k \in Connections :
          \/ CompleteOnboarding(k)
          \/ \E p \in Peers : PeerRegisters(k, p) \/ PeerOpens(k, p)

Spec == Init /\ [][Next]_vars

\* The shell starts a sync every 15 seconds; what is awaited comes or throws,
\* and a scan that is made again and again does not throw every time.
Fairness ==
    /\ WF_vars(\E o \in Ops : Sync(o))
    /\ \A o \in Ops :
          /\ WF_vars(Throws(o) \/ Step(o))
          /\ SF_vars(Scanned(o)) /\ SF_vars(FoundRegistered(o))
          /\ SF_vars(FoundLane(o))

FairSpec == Spec /\ Fairness

-----------------------------------------------------------------------------
(* Properties.                                                             *)

\* No contact the user added is lost, neither from the list nor from local
\* storage, whatever else replaced the list while the operations that add,
\* refresh, rederive and discover were suspended.
NoContactLost ==
    \A a \in added : \A list \in {contacts, disk.contacts} :
        \E c \in ToSet(list) : <<c.label, c.peer>> = a

\* Messages are queued by label: no two contacts share one.
LabelsUnique ==
    \A i, j \in DOMAIN contacts :
        contacts[i].label = contacts[j].label => i = j

\* The flag that stops other syncs is up only while a sync is under way, so
\* the application never stops syncing for good.
NeverSyncLocked == syncing => \E o \in Ops : op[o].syncs

\* A message reported as confirmed is readable: it lies on the lane its peer
\* derives from the key the user has on that pool, and no earlier index of
\* the lane is empty.
Readable(m) ==
    /\ m.of \in PoolConnections => m.lane = Out(m.of, m.peer)
    /\ \A i \in 0..m.index : <<m.of, m.lane, i>> \in slots

\* So it is as long as no connection changed under a suspended operation,
\* every reconciliation, left alone, rederived the lanes of all contacts, and
\* every contact with a lane was one that a reconciliation looks at.
ConfirmedIsReadable == disturbed = {} => \A m \in confirmed : Readable(m)

\* Once a peer has opened its lane to us on the pool we stay connected to,
\* some contact comes to have that lane and keeps it, to be read at every sync.
LanesGetFound ==
    \A k \in PoolConnections, p \in Peers :
        <>[](config = k /\ In(k, p) \in opened)
            => <>[](\E c \in ToSet(contacts) : c.inKey = In(k, p))

\* What the comment of reconcileLanes says: with the lanes rederived whenever
\* the connection connects, no send lands where nobody will ever read it.
NothingInTheVoid ==
    disturbed \subseteq {"unregistered"} => \A m \in confirmed : Readable(m)
=============================================================================
