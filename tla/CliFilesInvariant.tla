-------------------------- MODULE CliFilesInvariant --------------------------
(***************************************************************************)
(* The inductive invariants of CliFiles, one for each thing that the files *)
(* must not lose, over a common one of types and of what a process may     *)
(* have pending.  They speak of three kinds of copies of a file: the one   *)
(* on disk, the one a process loaded, and the one it is about to write.  A *)
(* copy is fresh while nobody else has written the file.                   *)
(***************************************************************************)
EXTENDS CliFiles

Files == {"config", "cursors", "outbox", "sync"}
Ids == 1..MaxRuns
Posts == PeerPost \cup 0..MaxRuns
Names == Labels \cup Peers

Channels == [label: Names, peer: Peers, key: Keys,
             how: {"manual", "discovered"}, setupDone: BOOLEAN]
Statuses == {"queued", "proving", "submitted", "confirmed"}
Entries == [id: Ids, to: Names, status: Statuses]
Config == Seq(Channels)
Cursors == [Keys -> Nat]
Box == Seq(Entries)
Writes == ({"config"} \X Config) \cup ({"cursors"} \X Cursors) \cup ({"outbox"} \X Box)

Disk == [config: {Torn} \cup Config, cursors: {Torn} \cup Cursors,
         outbox: {Torn} \cup Box, sync: {"whole", Torn}]

Sends == {"flush", "send", "pay"}
Process == [at: {"idle", "done", "scan", "reload", "engine", "window", "fill", "rename",
                 "queued", "seal", "submit", "sent", "landed", "read", "print"},
            cmd: {"none", "init", "add", "discover", "sync", "read"} \cup Sends,
            cfg: Config, cursors: Cursors, box: Box,
            loaded: SUBSET Files, writes: Seq(Writes),
            todo: Seq(Keys \cup {NoKey}), batch: Seq(0..MaxRuns),
            index: Nat, attempt: Nat, found: SUBSET (Keys \X Nat), fd: {"none", "tmp", "sync"}]

\* A transaction on its way, and those that nobody waits for.
Underway == {"submit", "sent", "landed"}
Transactions == [key: Keys, index: Nat, batch: Seq(0..MaxRuns)]

\* What a process may still have to write, and when.
WriteOK(me, w) ==
    \/ /\ w[1] = "config"
       /\ me.at \in {"done", "reload", "seal"}
       /\ me.cmd \in Sends => w[2] = me.cfg
    \/ /\ w[1] = "cursors" /\ w[2] = me.cursors
       /\ me.at \in {"done", "seal", "print"}
    \/ /\ w[1] = "outbox"
       /\ IF me.cmd = "flush" THEN w[2] = me.box /\ me.at # "queued"
                              ELSE me.at = "queued"
       /\ me.at \in {"done", "queued", "seal", "submit", "sent"}

Control(me) ==
    /\ me.at \in {"seal"} \cup Underway =>
           me.cmd \in Sends /\ me.todo \in Seq(Keys) /\ me.todo # <<>>
    /\ me.at = "read" => me.todo \in Seq(Keys)
    /\ me.at \in {"window", "fill", "rename"} => me.todo # <<>>
    /\ me.at = "scan" => me.cmd \in {"discover", "sync"}
    /\ me.at = "queued" => me.cmd = "none" /\ me.index \in Ids
    /\ me.at \in Underway /\ me.cmd # "flush" => me.batch = <<0>>
    /\ me.fd # "none" => me.at = "fill"
    /\ me.found # {} => me.at \in {"read", "print"}
    /\ me.cmd # "flush" => me.box = <<>>
    /\ \A n \in DOMAIN me.writes : WriteOK(me, me.writes[n])
    /\ \A m, n \in DOMAIN me.writes : me.writes[m][1] = me.writes[n][1] => m = n

\* The lanes that a flush still has to serve: each has an entry that waits.
Waits(me, k) == \E i \in QueuedAt(me.box) :
    Resolves(me.cfg, me.box[i].to) /\ KeyOf(me.cfg, me.box[i].to) = k
Served(me) ==
    me.cmd = "flush" /\ me.at \in {"seal"} \cup Underway =>
        /\ me.at # "seal" => me.batch # <<>>
        /\ \A m \in DOMAIN me.todo : (me.at = "seal" \/ m # 1) => Waits(me, me.todo[m])
        /\ \A m, n \in DOMAIN me.todo : me.todo[m] = me.todo[n] => m = n

\* Ids are given once.
IdsOf(box) == {box[i].id : i \in DOMAIN box}
Numbered(box) ==
    /\ \A i \in DOMAIN box : box[i].id <= runs
    /\ \A i, j \in DOMAIN box : box[i].id = box[j].id => i = j

TInv ==
    /\ disk \in Disk
    /\ tmp \in {"none", "partial", "whole"}
    /\ proc \in [Procs -> Process]
    /\ lane \in [Keys -> Seq(Posts)]
    /\ opened \subseteq Keys /\ IsFiniteSet(opened)
    /\ lost \subseteq Transactions
    /\ runs \in 0..MaxRuns /\ posts \in Nat /\ tears \in Nat
    /\ queued \subseteq Ids /\ raced \subseteq Files
    /\ \A p \in Procs : Control(proc[p])

-----------------------------------------------------------------------------
(* The history.                                                            *)

SyncInv ==
    "sync" \notin raced =>
        /\ disk.sync # Torn
        /\ \A p \in Procs : /\ proc[p].at = "fill" => proc[p].fd = "tmp"
                            /\ proc[p].at = "rename" => tmp = "whole"
        /\ \A p, q \in Procs :
               {proc[p].at, proc[q].at} \subseteq {"fill", "rename"} => p = q

-----------------------------------------------------------------------------
(* The configuration.                                                      *)

\* What is written will hold the channels that are kept then.
WillKeep(me, v) ==
    CASE me.cmd = "init" -> TRUE
      [] me.cmd = "add" -> {c \in kept : c[1] # Last(v).label} \subseteq Named(v)
      [] OTHER -> kept \subseteq Named(v)
KeepsChannels(me) ==
    "config" \in me.loaded =>
        /\ me.at \in {"scan", "seal"} \cup Underway => kept \subseteq Named(me.cfg)
        /\ \A n \in DOMAIN me.writes :
               me.writes[n][1] = "config" => WillKeep(me, me.writes[n][2])
ConfigInv ==
    "config" \notin raced =>
        /\ disk.config = Torn \/ kept \subseteq Named(disk.config)
        /\ \A p \in Procs : KeepsChannels(proc[p])

-----------------------------------------------------------------------------
(* The outbox: nothing reported is lost.                                   *)

OnChain(n) == \E k \in Keys : Contains(lane[k], n)
Honest(box) == \A i \in DOMAIN box : box[i].status = "confirmed" => OnChain(box[i].id)

\* Reported to the user, or about to be: it is in the file already.
Reported == queued \cup {proc[p].index : p \in {q \in Procs : At(q, "queued")}}

KeepsEntries(me) ==
    "outbox" \in me.loaded =>
        /\ me.cmd = "flush" => Reported \subseteq IdsOf(me.box)
        /\ \A n \in DOMAIN me.writes :
               me.writes[n][1] = "outbox" => Reported \subseteq IdsOf(me.writes[n][2])
Truthful(me) ==
    /\ Honest(me.box)
    /\ me.cmd = "flush" /\ me.at = "landed" =>
           \A n \in DOMAIN me.batch : OnChain(me.batch[n])
    /\ \A n \in DOMAIN me.writes : me.writes[n][1] = "outbox" =>
           /\ Honest(me.writes[n][2])
           /\ me.at = "queued" => me.index \in IdsOf(me.writes[n][2])
QueueInv ==
    /\ disk.outbox # Torn => Honest(disk.outbox)
    /\ \A p \in Procs : Truthful(proc[p])
    /\ "outbox" \notin raced =>
           /\ disk.outbox = Torn \/ Reported \subseteq IdsOf(disk.outbox)
           /\ \A p \in Procs : KeepsEntries(proc[p])

-----------------------------------------------------------------------------
(* The outbox: nothing is sent twice.                                      *)

\* The file says that these are under way, and they may land any time.
Sending(p) ==
    IF proc[p].cmd = "flush" /\ (At(p, "submit") \/ proc[p].at \in {"sent", "landed"})
    THEN Range(proc[p].batch) ELSE {}
InLost(n) == \E t \in lost : Contains(t.batch, n)
Unsent(n) == ~OnChain(n) /\ ~InLost(n) /\ \A p \in Procs : n \notin Sending(p)
WaitingUnsent(box) == \A i \in QueuedAt(box) : Unsent(box[i].id)

BatchOK(me) ==
    me.cmd = "flush" /\ me.at \in Underway =>
        /\ \A n \in DOMAIN me.batch : \E i \in DOMAIN me.box :
               me.box[i].id = me.batch[n] /\ me.box[i].status # "queued"
        /\ \A m, n \in DOMAIN me.batch : me.batch[m] = me.batch[n] => m = n
SendsOnce(me) ==
    "outbox" \in me.loaded =>
        /\ WaitingUnsent(me.box)
        /\ \A n \in DOMAIN me.writes :
               me.writes[n][1] = "outbox" => WaitingUnsent(me.writes[n][2])
        /\ me.cmd = "flush" /\ me.at = "submit" /\ me.writes # <<>> =>
               \A n \in DOMAIN me.batch : Unsent(me.batch[n])
WellNumbered(me) ==
    /\ Numbered(me.box) /\ BatchOK(me)
    /\ \A n \in DOMAIN me.writes :
           me.writes[n][1] = "outbox" => Numbered(me.writes[n][2])
BatchNumbered(batch) == \A m, n \in DOMAIN batch :
    batch[m] \in Ids => batch[m] <= runs /\ (batch[m] = batch[n] => m = n)
LaneNumbered == \A k \in Keys : \A i \in DOMAIN lane[k] :
    lane[k][i] \in Ids => lane[k][i] <= runs
LostNumbered == \A t \in lost : BatchNumbered(t.batch)
NumberInv ==
    /\ disk.outbox # Torn => Numbered(disk.outbox)
    /\ LaneNumbered /\ LostNumbered
    /\ \A p \in Procs : WellNumbered(proc[p])
\* Of what is not in doubt there is one copy: on the chain, or on its way.
OnChainOnce ==
    \A k, l \in Keys : \A i \in DOMAIN lane[k], j \in DOMAIN lane[l] :
        lane[k][i] = lane[l][j] /\ lane[k][i] \in Ids \ doubt => k = l /\ i = j
LostOnce == \A n \in Ids \ doubt :
    /\ InLost(n) => ~OnChain(n)
    /\ \A t, u \in lost : Contains(t.batch, n) /\ Contains(u.batch, n) => t = u
SentInv ==
    "outbox" \notin raced =>
        /\ OnChainOnce /\ LostOnce
        /\ disk.outbox # Torn => WaitingUnsent(disk.outbox)
        /\ \A p \in Procs : SendsOnce(proc[p])
        /\ \A p \in Procs : \A n \in Sending(p) \ doubt :
               ~InLost(n) /\ (proc[p].at # "landed" => ~OnChain(n))
        /\ \A p, q \in Procs : Sending(p) \cap Sending(q) # {} => p = q

-----------------------------------------------------------------------------
(* The cursors.                                                            *)

Shown(u) ==
    u \in printed \cup missed \/ \E p \in Procs : At(p, "print") /\ u \in proc[p].found

\* A copy of the cursors, of a process that has found these messages itself.
Behind(cursors, found) == \A k \in Keys :
    /\ cursors[k] <= Len(lane[k])
    /\ Mine(k) \/ \A i \in 1..cursors[k] : Shown(<<k, i>>) \/ <<k, i>> \in found

Landed(me) ==
    me.at = "landed" => LET k == Head(me.todo) IN
        me.index + Len(me.batch) <= Len(lane[k]) /\ Mine(k)

CursorInv ==
    /\ disk.cursors # Torn => Behind(disk.cursors, {})
    /\ \A p \in Procs :
           LET me == proc[p] IN
           Behind(me.cursors, me.found) /\ Landed(me) /\ Served(me)

IInv == TInv /\ SyncInv /\ ConfigInv /\ QueueInv /\ NumberInv /\ SentInv /\ CursorInv
=============================================================================
