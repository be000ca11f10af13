------------------------------- MODULE Outbox -------------------------------
(***************************************************************************)
(* The outbox: the messages a user has queued, with their send states.     *)
(* Both clients use the SDK's class, over a file or over the browser's     *)
(* local storage; both save it whole after every change.                   *)
(*                                                                         *)
(* An outbox is a function from messages to entries.  Messages are         *)
(* numbers, in the order their user writes them (queuedAt).  Left out:     *)
(* the transaction hash and the error of an entry, its padding, the status *)
(* "failed" (nothing assigns it) and clearConfirmed.                       *)
(***************************************************************************)
EXTENDS LaneClient

Status == {"absent", "queued", "proving", "submitted", "confirmed"}
Entry == [status : Status, index : Nat]
Absent == [status |-> "absent", index |-> 0]
Queued == [status |-> "queued", index |-> 0]

Msgs(items) == {items[k].msg : k \in DOMAIN items}
Texts(items) == [k \in DOMAIN items |-> items[k].msg]

Mark(box, items, status) ==
  [m \in Payloads |-> IF m \in Msgs(items)
                        THEN [status |-> status, index |-> box[m].index]
                        ELSE box[m]]

\* The index written with "confirmed".
IndexOf(items, m) == CHOOSE i \in {items[k].index : k \in DOMAIN items} :
                       \E k \in DOMAIN items : items[k] = [msg |-> m, index |-> i]

MarkConfirmed(box, items) ==
  [m \in Payloads |-> IF m \in Msgs(items)
                        THEN [status |-> "confirmed", index |-> IndexOf(items, m)]
                        ELSE box[m]]

\* Outbox.take: the queued entries, oldest first, at most max of them.
Take(box, max) ==
  LET queued == {m \in Payloads : box[m].status = "queued"}
  IN  {m \in queued : Cardinality({n \in queued : n < m}) < max}

\* A copy of OldestFirst that sorts the other way round.
NewestFirst(S) ==
  {q \in [1..Cardinality(S) -> S] : \A i, j \in 1..Cardinality(S) : i < j => q[i] > q[j]}

\* The order in which take returns the entries of S: a singleton set.
OldestFirst(S) ==
  {q \in [1..Cardinality(S) -> S] : \A i, j \in 1..Cardinality(S) : i < j => q[i] < q[j]}

Oldest(S) == {m \in S : \A n \in S : m <= n}
=============================================================================
