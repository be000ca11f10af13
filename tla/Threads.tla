------------------------------ MODULE Threads ------------------------------
(***************************************************************************)
(* The conversation of two users of the web application, as each of them   *)
(* sees it: requests for money, payments, and what the thread says of      *)
(* them.  The chain knows neither that a request is settled nor which note *)
(* a memo speaks of: contacts.ts and ThreadView.tsx conclude both from the *)
(* part of the lanes and from the notes this browser has read.             *)
(*                                                                         *)
(* A body is its kind and its amount; one token.  Times are the sender's   *)
(* clock, which may be behind the other's.  How a transaction gets through *)
(* is Backends; here it lands or not, and its sender is told so or not: of *)
(* a call that failed the transaction may land later.                      *)
(***************************************************************************)
EXTENDS Naturals, FiniteSets, Sequences, SequencesExt

CONSTANTS
    Users,
    Genesis,         \* Genesis[u]: the bag of notes u starts with
    Amounts,         \* amounts asked for and paid
    Askers, Payers,  \* bound: the users who ask, and who pay
    None,
    MaxClock,        \* bound: time
    MaxLane          \* bound: messages in a lane

ASSUME ThreadsAssumption ==
    /\ \E u, v \in Users : u # v /\ Users = {u, v}
    /\ DOMAIN Genesis = Users /\ \A u \in Users : IsABag(Genesis[u])
    /\ Amounts \subseteq Nat \ {0}
    /\ Askers \subseteq Users /\ Payers \subseteq Users
    /\ {MaxClock, MaxLane} \subseteq Nat

VARIABLES
    lane,      \* lane[u]: what u wrote, in the order of the slots
    notes,     \* notes[u]: the bag of u's unspent notes
    op,        \* op[u]: the operation of u's browser under way, or None
    late,      \* late[u]: what failed for u's browser, and may land yet
    confirmed, \* confirmed[u]: the flush bar shows a confirmed transaction
    seen,      \* seen[u][v]: how much of v's lane u's browser has read
    check,     \* check[u]: the receipt check: "asked", "read" or "over"
    read,      \* read[u]: the notes the check was told of
    receipts,  \* receipts[u]: the memos shown with a tick
    stale      \* ghost: a transaction of u's landed since notes were last read

chain == <<lane, notes>>
browser == <<op, late, confirmed>>
checking == <<check, read, receipts, stale>>
threadsVars == <<chain, browser, seen, checking>>

Peer(u) == CHOOSE v \in Users : v # u

ThreadsInit ==
    /\ lane = [u \in Users |-> <<>>] /\ notes = Genesis
    /\ op = [u \in Users |-> None] /\ late = [u \in Users |-> {}]
    /\ confirmed = [u \in Users |-> FALSE]
    /\ seen = [u \in Users |-> [v \in Users |-> 0]]
    /\ check = [u \in Users |-> "over"]
    /\ read = [u \in Users |-> EmptyBag] /\ receipts = [u \in Users |-> {}]
    /\ stale = [u \in Users |-> FALSE]

-----------------------------------------------------------------------------
(* The thread: both lanes as far as read, by time; a tie puts the received *)
(* message first.                                                          *)

Entry(v, i) == [by |-> v, index |-> i, kind |-> lane[v][i].kind,
                amount |-> lane[v][i].amount, ts |-> lane[v][i].ts]
Thread(u) == UNION {{Entry(v, i) : i \in 1..seen[u][v]} : v \in Users}

BeforeByLane(u, a, b) ==   \* copy: the received lane first, whatever the times
    IF a.by = b.by THEN a.index < b.index ELSE a.by # u
Before(u, a, b) ==
    \/ a.ts < b.ts
    \/ a.ts = b.ts /\ IF a.by = b.by THEN a.index < b.index ELSE a.by # u

Kind(u, kind) == {m \in Thread(u) : m.kind = kind}

LeftAll(pays, taken) == pays   \* copy: a payment counts again
Left(pays, taken) == pays \ taken
Answers(u, r, pays) ==
    {p \in pays : p.by # r.by /\ p.amount = r.amount /\ Before(u, r, p)}

NewestOf(u, S) == {m \in S : \A n \in S \ {m} : Before(u, n, m)}   \* copy
OldestOf(u, S) == {m \in S : \A n \in S \ {m} : Before(u, m, n)}

\* What settles each request, one payment or none: the oldest that answers it
\* and that no earlier request took.
PaidBy(u, reqs, pays) ==
    LET paid[r \in reqs] ==
          LET taken == UNION {paid[q] : q \in {q \in reqs : Before(u, q, r)}}
          IN OldestOf(u, Answers(u, r, Left(pays, taken)))
    IN paid

\* The pairs of a request and the payment that settles it.
Settled(u) ==
    LET reqs == Kind(u, "req")
        paid == PaidBy(u, reqs, Kind(u, "pay"))
    IN UNION {{r} \X paid[r] : r \in reqs}

IsPaid(u, r) == \E pair \in Settled(u) : pair[1] = r

-----------------------------------------------------------------------------
(* Requests, batches and payments.                                         *)

Open(u) == {r \in Kind(u, "req") : r.by # u /\ ~IsPaid(u, r)}

\* A check begun for another state of the bar is cancelled and begins anew.
AskAgainNever(u, when) == check[u]   \* copy: lastTx not among what it depends on
AskAgain(u, when) ==
    IF when /\ \E m \in Kind(u, "pay") : m.by # u THEN "asked" ELSE check[u]

Now(u) ==   \* u's clock does not go back
    (IF lane[u] = <<>> THEN 0 ELSE Last(lane[u]).ts) .. MaxClock

\* The lane is walked to its next free slot, and the bodies are sealed with
\* the time of now.  The bar is busy from here on, and offers nothing else.
Start(u, kind, amounts) ==
    /\ op[u] = None /\ Len(lane[u]) + Len(amounts) <= MaxLane
    /\ \E ts \in Now(u) :
          op' = [op EXCEPT ![u] =
                   [at |-> Len(lane[u]),
                    recs |-> [i \in DOMAIN amounts |->
                                [kind |-> kind, amount |-> amounts[i], ts |-> ts]]]]
    /\ confirmed' = [confirmed EXCEPT ![u] = FALSE]
    /\ check' = [check EXCEPT ![u] = AskAgain(u, confirmed[u])]
    /\ UNCHANGED <<chain, late, seen, read, receipts, stale>>

\* The requests in the outbox, as one batch.
SendBatch(u, amounts) == Start(u, "req", amounts)
\* "Pay" at a request fills the form with its amount; any other may be typed.
PayRequest(u, r) == Start(u, "pay", <<r.amount>>)
Pay(u, a) == Start(u, "pay", <<a>>)

Held(n, bag) == IF BagIn(n, bag) THEN bag[n] ELSE 0   \* notes of amount n
\* The bags that can be taken out of it.
Spendable(bag) == UNION {
    {part \in [S -> UNION {1..bag[n] : n \in S}] : \A n \in S : part[n] <= bag[n]}
    : S \in SUBSET DOMAIN bag}
Worth(bag) == MapThenSumSet(LAMBDA n : n * bag[n], DOMAIN bag)
Change(n) == IF n = 0 THEN EmptyBag ELSE SetToBag({n})

\* What u's browser sent: under way, or given up.
Sent(u) == late[u] \cup {tx \in {op[u]} : tx # None}

\* A payment and its memo in one transaction.  Any notes that cover it may be
\* spent, for a batch too, whose carrier comes from them; the rest comes back.
\* Its slot is then taken, and nothing else sent for it can land.
Lands(u, tx, spent) ==
    /\ tx \in Sent(u) /\ Len(lane[u]) = tx.at
    /\ LET due == IF tx.recs[1].kind = "pay" THEN tx.recs[1].amount ELSE 0
           back == Worth(spent) - due
       IN /\ Worth(spent) >= due
          /\ notes' = [notes EXCEPT ![u] = (@ (-) spent) (+) Change(back),
                                    ![Peer(u)] = @ (+) Change(due)]
    /\ lane' = [lane EXCEPT ![u] = @ \o tx.recs]
    /\ late' = [late EXCEPT ![u] = {}]
    /\ stale' = [stale EXCEPT ![u] = TRUE]
    /\ UNCHANGED <<op, confirmed, seen, check, read, receipts>>

\* The bar is told of its transaction, or that its slot is taken.
Resolve(u) ==
    /\ op[u] # None /\ Len(lane[u]) > op[u].at
    /\ op' = [op EXCEPT ![u] = None]
    /\ confirmed' = [confirmed EXCEPT ![u] = TRUE]
    /\ check' = [check EXCEPT ![u] = AskAgain(u, TRUE)]
    /\ UNCHANGED <<chain, late, seen, read, receipts, stale>>

\* It is refused, times out, or its answer is lost: lastTx is as it was, and
\* no check begins.  It may have landed, or land as long as its slot is free.
Fails(u) ==
    /\ op[u] # None
    /\ op' = [op EXCEPT ![u] = None]
    /\ late' = [late EXCEPT ![u] = {tx \in Sent(u) : tx.at = Len(lane[u])}]
    /\ UNCHANGED <<chain, confirmed, seen, checking>>

-----------------------------------------------------------------------------
(* Sync, and the receipt check it starts when there are new payments.      *)

Sync(u, v, n) ==
    /\ n \in seen[u][v] + 1 .. Len(lane[v])
    /\ seen' = [seen EXCEPT ![u][v] = n]
    /\ check' = IF v # u /\ \E i \in seen[u][v] + 1 .. n : lane[v][i].kind = "pay"
                THEN [check EXCEPT ![u] = "asked"] ELSE check
    /\ UNCHANGED <<chain, browser, read, receipts, stale>>

NotesRead(u) ==
    /\ check[u] = "asked"
    /\ check' = [check EXCEPT ![u] = "read"]
    /\ read' = [read EXCEPT ![u] = notes[u]] /\ stale' = [stale EXCEPT ![u] = FALSE]
    /\ UNCHANGED <<chain, browser, seen, receipts>>

Received(u, a) == {m \in Kind(u, "pay") : m.by # u /\ m.amount = a}
\* Oldest memo first, each with a note of its own.
Paired(u, a) ==
    {m \in Received(u, a) :
       Cardinality({n \in Received(u, a) : Before(u, n, m)}) < Held(a, read[u])}

ShowReceipts(u) ==
    /\ check[u] = "read"
    /\ check' = [check EXCEPT ![u] = "over"]
    /\ receipts' = [receipts EXCEPT ![u] = UNION {Paired(u, a) : a \in Amounts}]
    /\ UNCHANGED <<chain, browser, seen, read, stale>>

CheckFails(u) ==   \* the notes could not be read: nothing is shown
    /\ check[u] = "asked"
    /\ check' = [check EXCEPT ![u] = "over"]
    /\ receipts' = [receipts EXCEPT ![u] = {}]
    /\ UNCHANGED <<chain, browser, seen, read, stale>>

-----------------------------------------------------------------------------
UserNext(u) ==
    \/ Resolve(u) \/ Fails(u)
    \/ \E tx \in Sent(u), spent \in Spendable(notes[u]) : Lands(u, tx, spent)
    \/ NotesRead(u) \/ ShowReceipts(u) \/ CheckFails(u)
    \/ u \in Askers /\ \E a, b \in Amounts : SendBatch(u, <<a>>) \/ SendBatch(u, <<a, b>>)
    \/ u \in Payers /\ \E a \in Amounts : Pay(u, a)
    \/ u \in Payers /\ \E r \in Open(u) : PayRequest(u, r)
    \/ \E v \in Users : \E n \in 1..Len(lane[v]) : Sync(u, v, n)

ThreadsNext == \E u \in Users : UserNext(u)

ThreadsSpec == ThreadsInit /\ [][ThreadsNext]_threadsVars

-----------------------------------------------------------------------------
\* A request shown as paid stays so, by the same payment, whatever either
\* lane brings later and in whichever order the two are read.
PaidStaysPaid ==
    [][\A u \in Users : UNCHANGED seen[u] \/ Settled(u) \subseteq Settled(u)']_seen

\* No payment counts for two requests.
OnePaymentEach ==
    \A u \in Users : \A x, y \in Settled(u) : x[2] = y[2] => x = y

Tied(u) == \E a, b \in Thread(u) : a.by # b.by /\ a.ts = b.ts
\* The two clients, of the same messages, agree on what is settled, unless
\* two messages bear the same second.
Agree ==
    \A u \in Users : seen[u] = seen[Peer(u)] /\ ~Tied(u) =>
        Settled(u) = Settled(Peer(u))

\* With no transaction under way, the ticks are of notes the user holds, one
\* note for each: also after notes of theirs are spent.  One case is left out:
\* a transaction that the flush bar reported as failed landed after the notes
\* were last read.  No check follows it, and ticks may stay on notes it spent.
ReceiptsHonest ==
    \A u \in Users :
       op[u] = None /\ check[u] = "over" /\ (stale[u] => confirmed[u]) =>
          \A a \in Amounts :
             Cardinality({m \in receipts[u] : m.amount = a}) <= Held(a, notes[u])
=============================================================================
