------------------------------ MODULE CliFiles ------------------------------
(***************************************************************************)
(* The configuration directory of the command line client (apps/cli) and   *)
(* every command that works on it: `msg init', `channel add', `channel     *)
(* discover', `queue', `flush', `send', `pay', `read' and `sync', run by   *)
(* processes that overlap and may be killed anywhere, in pool mode.        *)
(*                                                                         *)
(* A command loads whole files, works on its copies across its awaits, and *)
(* writes whole files back.  The writes of one turn are a queue in the     *)
(* process: another process may run, or a kill come, between two of them.  *)
(* A kill in the middle of a write tears the file, and a command that      *)
(* finds a torn file throws before it does anything.                       *)
(*                                                                         *)
(* A flush tries a failed submission again, also one whose transaction is  *)
(* out, and a transaction that nobody waits for any more may still land.   *)
(* CliFlush has the chained batches besides, and SyncEngine what a sync    *)
(* reads; here a walk answers with the state at its last read, and the     *)
(* contents of sync.json are left out.                                     *)
(***************************************************************************)
EXTENDS Naturals, FiniteSets, SequencesExt

CONSTANTS Procs, Peers,
          Labels,     \* labels the user gives to channels
          NoKey, Torn,
          Text, Broken,   \* what a peer posts
          MaxAttempts, \* maxAttempts of submitWithResilience
          MaxRuns,    \* bound: commands started
          MaxPosts,   \* bound: messages the peers post
          MaxTears    \* bound: writes cut by a kill

ASSUME FilesAssumption ==
    /\ MaxRuns \in Nat /\ MaxPosts \in Nat /\ MaxTears \in Nat
    /\ MaxAttempts \in Nat \ {0}
    /\ Torn # "whole" /\ \A n \in 0..MaxRuns : n \notin {Text, Broken}

VARIABLES
    disk,      \* config.json, state.json, outbox.json and sync.json
    tmp,       \* sync.json.tmp: "none", "partial" or "whole"
    proc,      \* the processes
    lane,      \* chain: the messages of each lane
    opened,    \* chain: the channels that are open
    lost,      \* chain: transactions out that nobody waits for any more
    runs, posts, tears,
    printed,   \* ghost: <<key, position>> that msg read printed
    queued,    \* ghost: ids of the messages reported as queued
    kept,      \* ghost: <<label, key>> of the channels configured
    raced,     \* ghost: files written over a version never loaded
    missed,    \* ghost: <<key, position>> whose reader died before printing
    doubt      \* ghost: ids sent again after an outcome that went unread

chain == <<lane, opened, lost>>
bounds == <<runs, posts, tears>>
ghosts == <<printed, queued, kept, raced, missed, doubt>>
vars == <<disk, tmp, proc, chain, bounds, ghosts>>

-----------------------------------------------------------------------------
(* Channels.  The directional keys of a peer; a lane is a sequence of what *)
(* was posted: by the peer (a readable message or one that does not open), *)
(* or by this client (the id of a queued message, 0 for the others).       *)

Out(p) == <<"out", p>>
In(p) == <<"in", p>>
Keys == {Out(p) : p \in Peers} \cup {In(p) : p \in Peers}
PeerPost == {Text, Broken}

Channel(l, p, k, how) ==
    [label |-> l, peer |-> p, key |-> k, how |-> how, setupDone |-> FALSE]

\* The elements of s at some positions, in their order (Array.filter).
Pick(s, at) == [n \in 1..Cardinality(at) |->
    s[CHOOSE i \in at : Cardinality({j \in at : j < i}) = n - 1]]

Resolves(cfg, to) == \E i \in DOMAIN cfg : to \in {cfg[i].label, cfg[i].peer}
Resolve(cfg, to) ==   \* the first channel of that label or peer
    SelectInSeq(cfg, LAMBDA c : to \in {c.label, c.peer})
KeyOf(cfg, to) == cfg[Resolve(cfg, to)].key
KeysOf(cfg) == [i \in DOMAIN cfg |-> cfg[i].key]

\* A peer nobody named goes by his shortened address, which is himself here.
LabelForPeer(cfg, p) ==
    IF \E i \in DOMAIN cfg : cfg[i].peer = p
    THEN cfg[SelectInSeq(cfg, LAMBDA c : c.peer = p)].label ELSE p

MarkSetup(cfg, k) ==
    [i \in DOMAIN cfg |-> IF i = SelectInSeq(cfg, LAMBDA c : c.key = k)
                          THEN [cfg[i] EXCEPT !.setupDone = TRUE] ELSE cfg[i]]

\* First, two copies: one takes the entries out of the file while they are
\* under way, one leaves them queued until the transaction is out.
MarkedGone(box, ids, status) ==
    IF status = "proving" THEN SelectSeq(box, LAMBDA e : e.id \notin ids) ELSE box
MarkedLate(box, ids, status) ==
    [i \in DOMAIN box |-> IF box[i].id \in ids /\ status # "proving"
                          THEN [box[i] EXCEPT !.status = status] ELSE box[i]]
Marked(box, ids, status) ==
    [i \in DOMAIN box |->
        IF box[i].id \in ids THEN [box[i] EXCEPT !.status = status] ELSE box[i]]
QueuedAt(box) == {i \in DOMAIN box : box[i].status = "queued"}

-----------------------------------------------------------------------------
(* Processes.                                                              *)

Idle == [at |-> "idle", cmd |-> "none",
         cfg |-> <<>>, cursors |-> [k \in Keys |-> 0], box |-> <<>>,
         loaded |-> {},      \* files nobody else wrote since it loaded them
         writes |-> <<>>,    \* <<file, contents>> still to be written
         todo |-> <<>>,      \* channels still to be served
         batch |-> <<>>,     \* ids being sent
         index |-> 0, attempt |-> 1, found |-> {}, fd |-> "none"]

At(p, a) == proc[p].at = a /\ proc[p].writes = <<>>
Becomes(p, r) == proc' = [proc EXCEPT ![p] = r]
Goes(p, r) == Becomes(p, r) /\ UNCHANGED <<disk, tmp, chain, bounds, ghosts>>

Named(cfg) == {<<cfg[i].label, cfg[i].key>> : i \in DOMAIN cfg}

\* A directory fresh from `msg init', or with the channels added by hand.
Setups == {<<>>} \cup {<<Channel(l, p, Out(p), "manual")>> : l \in Labels, p \in Peers}
Init ==
    /\ \E cfg \in Setups :
       /\ kept = Named(cfg)
       /\ disk = [config |-> cfg, cursors |-> [k \in Keys |-> 0],
                  outbox |-> <<>>, sync |-> "whole"]
    /\ tmp = "none"
    /\ proc = [p \in Procs |-> Idle]
    /\ lane = [k \in Keys |-> <<>>] /\ opened = {} /\ lost = {}
    /\ runs = 0 /\ posts = 0 /\ tears = 0
    /\ printed = {} /\ queued = {} /\ raced = {} /\ missed = {} /\ doubt = {}

Starts(p, r) ==
    /\ proc[p].at = "idle" /\ runs < MaxRuns /\ runs' = runs + 1
    /\ Becomes(p, r)
    /\ UNCHANGED <<disk, tmp, chain, posts, tears, ghosts>>
Loads(p, files, r) ==   \* a torn file ends the command right there
    /\ \A f \in files : disk[f] # Torn
    /\ Starts(p, [r EXCEPT !.loaded = files])

\* One file written in place, over whatever is there now.
Saved(p, f) == [q \in Procs |->
    IF q = p THEN [proc[p] EXCEPT !.writes = Tail(@), !.loaded = @ \cup {f}]
             ELSE [proc[q] EXCEPT !.loaded = @ \ {f}]]

Keeps(p, f, v) ==   \* `channel add' takes a label over, `init' starts anew
    kept' = IF f # "config" THEN kept
            ELSE CASE proc[p].cmd = "init" -> {}
                   [] proc[p].cmd = "add" ->
                          {c \in kept : c[1] # Last(v).label} \cup Named(v)
                   [] OTHER -> kept \cup Named(v)

Write(p) ==
    /\ proc[p].writes # <<>>
    /\ LET f == Head(proc[p].writes)[1]
           v == Head(proc[p].writes)[2]
       IN  /\ disk' = [disk EXCEPT ![f] = v]
           /\ proc' = Saved(p, f)
           /\ Keeps(p, f, v)
           /\ raced' = IF f \in proc[p].loaded THEN raced ELSE raced \cup {f}
    /\ UNCHANGED <<tmp, chain, bounds, printed, queued, missed, doubt>>

Tx(me) == [key |-> Head(me.todo), index |-> me.index, batch |-> me.batch]

\* What the command has submitted, or is submitting, may be out.
MayBeLost(p) ==
    lost' \in {lost} \cup (IF proc[p].at = "sent" \/ At(p, "submit")
                          THEN {lost \cup {Tx(proc[p])}} ELSE {})

\* A command throws at an await, or is killed between two steps; a reader
\* that saved its cursors has not printed yet.
Ends(p) ==
    /\ proc[p].at # "idle" /\ Becomes(p, Idle)
    /\ missed' = IF proc[p].at = "print" THEN missed \cup proc[p].found ELSE missed
    /\ MayBeLost(p)
    /\ UNCHANGED <<disk, tmp, lane, opened, bounds, printed, queued, kept, raced, doubt>>

Done(p) == At(p, "done") /\ Goes(p, Idle)

Tear(p) ==   \* killed in the middle of a write
    /\ proc[p].writes # <<>> \/ proc[p].fd = "sync"
    /\ tears < MaxTears /\ tears' = tears + 1
    /\ LET f == IF proc[p].fd = "sync" THEN "sync" ELSE Head(proc[p].writes)[1]
       IN disk' = [disk EXCEPT ![f] = Torn]
    /\ Becomes(p, Idle) /\ MayBeLost(p)
    /\ UNCHANGED <<tmp, lane, opened, runs, posts, ghosts>>

-----------------------------------------------------------------------------
(* The configuration: `msg init', `channel add' and `channel discover'.    *)

InitConfig(p) ==   \* the outbox, the cursors and the history stay
    Starts(p, [Idle EXCEPT !.at = "done", !.cmd = "init",
                           !.loaded = {"config"},
                           !.writes = <<<<"config", <<>>>>>>])

AddChannel(p, l, q, k) ==
    Loads(p, {"config"}, [Idle EXCEPT !.at = "done", !.cmd = "add",
        !.writes = <<<<"config",
            Append(Pick(disk.config, {i \in DOMAIN disk.config : disk.config[i].label # l}),
                   Channel(l, q, k, "manual"))>>>>])

StartScan(p, cmd) ==
    Loads(p, {"config"}, [Idle EXCEPT !.at = "scan", !.cmd = cmd,
                                      !.cfg = disk.config])

\* What the pool's scan answers: outgoing channels, then incoming ones.
Scan == SetToSeq({k \in opened : k[1] = "out"})
        \o SetToSeq({k \in opened : k[1] = "in"})

\* A copy that replaces what the user configured for the same peer.
MergedOver(cfg, scan) == FoldLeft(LAMBDA c, k :
    IF \E i \in DOMAIN c : c[i].key = k THEN c
    ELSE Append(SelectSeq(c, LAMBDA e : e.peer # k[2] \/ e.how = "discovered"),
                Channel(LabelForPeer(c, k[2]), k[2], k, "discovered")), cfg, scan)
Merged(cfg, scan) ==
    LET new == Pick(scan, {n \in DOMAIN scan :
                               \A i \in DOMAIN cfg : cfg[i].key # scan[n]})
    IN  cfg \o [n \in DOMAIN new |->
            Channel(LabelForPeer(cfg, new[n][2]), new[n][2], new[n], "discovered")]

Discovered(p) ==
    /\ At(p, "scan")
    /\ LET cfg == Merged(proc[p].cfg, Scan)
           new == cfg # proc[p].cfg
       IN  Goes(p, [proc[p] EXCEPT
               !.at = IF proc[p].cmd # "sync" THEN "done"
                      ELSE IF new THEN "reload" ELSE "engine",
               !.writes = IF new THEN <<<<"config", cfg>>>> ELSE <<>>])

-----------------------------------------------------------------------------
(* `msg sync'.  An outage of the discovery does not stop it.               *)

DiscoverySkipped(p) ==
    /\ At(p, "scan") /\ proc[p].cmd = "sync"
    /\ Goes(p, [proc[p] EXCEPT !.at = "engine"])

\* One save per lane; NoKey stands for the saves that follow no lane: the
\* reset of a full scan, and the watermark at the end.
LanesOf(p, cfg, full) ==
    Goes(p, [proc[p] EXCEPT !.at = "window",
        !.todo = (IF full THEN <<NoKey>> ELSE <<>>) \o Append(KeysOf(cfg), NoKey)])
StartEngine(p, full) ==
    /\ disk.sync # Torn
    /\ \/ At(p, "engine") /\ LanesOf(p, proc[p].cfg, full)
       \/ At(p, "reload") /\ disk.config # Torn /\ LanesOf(p, disk.config, full)

Opens(k) == k # NoKey => \A i \in DOMAIN lane[k] : lane[k][i] # Broken

\* A copy that writes sync.json in place.
OpenInPlace(p) ==
    /\ At(p, "window") /\ disk.sync # Torn
    /\ Opens(Head(proc[p].todo))
    /\ tmp' = "partial"
    /\ Becomes(p, [proc[p] EXCEPT !.at = "fill", !.fd = "sync"])
    /\ UNCHANGED <<disk, chain, bounds, ghosts>>
\* The window is read; the save opens (and empties) the temporary file.
OpenTmp(p) ==
    /\ At(p, "window") /\ disk.sync # Torn
    /\ Opens(Head(proc[p].todo))
    /\ tmp' = "partial"
    /\ Becomes(p, [proc[p] EXCEPT !.at = "fill", !.fd = "tmp"])
    /\ raced' = IF \E q \in Procs \ {p} : proc[q].at \in {"fill", "rename"}
                THEN raced \cup {"sync"} ELSE raced
    /\ UNCHANGED <<disk, chain, bounds, printed, queued, kept, missed, doubt>>

\* The contents go to the file that was opened, under whichever name.
FillTmp(p) ==
    /\ At(p, "fill")
    /\ IF proc[p].fd = "tmp" THEN tmp' = "whole" /\ UNCHANGED disk
       ELSE disk' = [disk EXCEPT !.sync = "whole"] /\ UNCHANGED tmp
    /\ Becomes(p, [proc[p] EXCEPT !.at = "rename", !.fd = "none"])
    /\ UNCHANGED <<chain, bounds, ghosts>>

\* Without a temporary file (another process renamed it) the command throws.
RenameTmp(p) ==
    /\ At(p, "rename") /\ tmp # "none"
    /\ disk' = [disk EXCEPT !.sync = IF tmp = "whole" THEN tmp ELSE Torn]
    /\ tmp' = "none"
    /\ proc' = [q \in Procs |->
           IF q = p THEN [proc[p] EXCEPT !.todo = Tail(@),
                              !.at = IF Len(proc[p].todo) = 1 THEN "done" ELSE "window"]
           ELSE IF proc[q].fd = "tmp" THEN [proc[q] EXCEPT !.fd = "sync"]
           ELSE proc[q]]
    /\ UNCHANGED <<chain, bounds, ghosts>>

-----------------------------------------------------------------------------
(* `msg queue' and `msg flush'.                                            *)

Queue(p, to) ==
    /\ disk.config # Torn /\ disk.outbox # Torn
    /\ Resolves(disk.config, to)
    /\ Loads(p, {"config", "outbox"},
             [Idle EXCEPT !.at = "queued", !.index = runs + 1,
                  !.writes = <<<<"outbox", Append(disk.outbox,
                      [id |-> runs + 1, to |-> to, status |-> "queued"])>>>>])

Queued(p) ==
    /\ At(p, "queued")
    /\ queued' = queued \cup {proc[p].index} /\ Becomes(p, Idle)
    /\ UNCHANGED <<disk, tmp, chain, bounds, printed, kept, raced, missed, doubt>>

\* What was taken must resolve, or the command throws.
StartFlush(p) ==
    /\ disk.config # Torn /\ disk.outbox # Torn
    /\ LET taken == QueuedAt(disk.outbox)
           key == [i \in taken |-> KeyOf(disk.config, disk.outbox[i].to)]
       IN
       /\ taken # {}
       /\ \A i \in taken : Resolves(disk.config, disk.outbox[i].to)
       /\ Loads(p, {"config", "outbox", "cursors"},
              [Idle EXCEPT !.at = "seal", !.cmd = "flush",
                   !.cfg = disk.config, !.cursors = disk.cursors,
                   !.box = disk.outbox,
                   !.todo = Pick(key, {i \in taken :
                                  \A j \in taken : j < i => key[j] # key[i]})])

BatchFor(me, k) ==
    Pick([i \in DOMAIN me.box |-> me.box[i].id],
         {i \in QueuedAt(me.box) : KeyOf(me.cfg, me.box[i].to) = k})

-----------------------------------------------------------------------------
(* `msg send' and `msg pay', and the way to the chain they share with      *)
(* `msg flush'.                                                            *)

StartSend(p, cmd, to) ==
    /\ disk.config # Torn /\ Resolves(disk.config, to)
    /\ Loads(p, {"config", "cursors"},
             [Idle EXCEPT !.at = "seal", !.cmd = cmd,
                  !.cfg = disk.config, !.cursors = disk.cursors,
                  !.todo = <<KeyOf(disk.config, to)>>])

Walked(k, from) == IF Len(lane[k]) > from THEN Len(lane[k]) ELSE from

Seal(p) ==
    /\ At(p, "seal")
    /\ LET k == Head(proc[p].todo)
           flush == proc[p].cmd = "flush"
           ids == IF flush THEN BatchFor(proc[p], k) ELSE <<0>>
           box == Marked(proc[p].box, Range(ids), "proving")
       IN  Goes(p, [proc[p] EXCEPT !.at = "submit", !.batch = ids, !.box = box,
                        !.attempt = 1,
                        !.index = Walked(k, proc[p].cursors[k]),
                        !.writes = IF flush THEN <<<<"outbox", box>>>> ELSE <<>>])

\* The transaction is out.
Broadcast(p) ==
    /\ At(p, "submit")
    /\ LET box == Marked(proc[p].box, Range(proc[p].batch), "submitted")
       IN  Goes(p, [proc[p] EXCEPT !.at = "sent", !.box = box,
               !.writes = IF proc[p].cmd = "flush" THEN <<<<"outbox", box>>>> ELSE <<>>])

\* A transaction lands if its first slot is still free.  All of them pay or
\* write to the peer, which opens the channel.
Lands(t) ==
    /\ Len(lane[t.key]) = t.index
    /\ lane' = [lane EXCEPT ![t.key] = @ \o t.batch]
    /\ opened' = opened \cup {Out(t.key[2])}

Include(p) ==
    /\ At(p, "sent") /\ Lands(Tx(proc[p]))
    /\ Becomes(p, [proc[p] EXCEPT !.at = "landed"])
    /\ UNCHANGED <<disk, tmp, lost, bounds, ghosts>>

IncludeLost(t) ==
    /\ t \in lost /\ Lands(t) /\ lost' = lost \ {t}
    /\ UNCHANGED <<disk, tmp, proc, bounds, ghosts>>

\* The catch block of submitWithResilience.  `msg send' and `msg pay' have
\* one attempt, and out of attempts the error is thrown.
Retries(p, index) ==
    /\ proc[p].cmd = "flush" /\ proc[p].attempt < MaxAttempts
    /\ Becomes(p, [proc[p] EXCEPT !.at = "submit", !.index = index, !.attempt = @ + 1])
    /\ UNCHANGED <<disk, tmp, lane, opened, bounds, printed, queued, kept, raced, missed>>

\* It is refused, or reverts, and not because of its slots.
Refused(p) ==
    /\ At(p, "submit") \/ At(p, "sent")
    /\ Retries(p, proc[p].index)
    /\ UNCHANGED <<lost, doubt>>

\* Its slots are taken, by whomever: the batch is sealed again behind them.
Reseal(p) ==
    /\ At(p, "submit") \/ At(p, "sent")
    /\ LET k == Head(proc[p].todo)
       IN  Len(lane[k]) > proc[p].index /\ Retries(p, Walked(k, proc[p].cursors[k]))
    /\ UNCHANGED <<lost, doubt>>

\* No answer, or no receipt, of a transaction that is out and may have landed.
AnswerLost(p) ==
    /\ At(p, "submit") \/ At(p, "sent") \/ At(p, "landed")
    /\ Retries(p, proc[p].index)
    /\ lost' = IF proc[p].at = "landed" THEN lost ELSE lost \cup {Tx(proc[p])}
    /\ doubt' = doubt \cup Range(proc[p].batch)

Confirm(p) ==
    /\ At(p, "landed")
    /\ LET me == proc[p]
           k == Head(me.todo)
           box == Marked(me.box, Range(me.batch), "confirmed")
           cfg == IF me.cmd = "pay" THEN me.cfg ELSE MarkSetup(me.cfg, k)
           cursors == [me.cursors EXCEPT ![k] = me.index + Len(me.batch)]
       IN  Goes(p, [me EXCEPT
               !.at = IF Len(me.todo) = 1 THEN "done" ELSE "seal",
               !.todo = Tail(@), !.box = box, !.cfg = cfg, !.cursors = cursors,
               !.writes = (IF me.cmd = "flush" THEN <<<<"outbox", box>>>> ELSE <<>>)
                          \o (IF cfg # me.cfg THEN <<<<"config", cfg>>>> ELSE <<>>)
                          \o <<<<"cursors", cursors>>>>])

-----------------------------------------------------------------------------
(* `msg read' walks every channel from its cursor, saves the cursors, and  *)
(* prints last.                                                            *)

StartRead(p) ==
    Loads(p, {"config", "cursors"},
          [Idle EXCEPT !.at = "read", !.cmd = "read", !.cursors = disk.cursors,
                       !.todo = KeysOf(disk.config)])

Unread(k, from) == {<<k, i>> : i \in (from + 1)..Len(lane[k])}

\* A copy that goes over what does not open.
ReadLaneOver(p) ==
    /\ At(p, "read") /\ proc[p].todo # <<>>
    /\ LET k == Head(proc[p].todo) IN
       Goes(p, [proc[p] EXCEPT !.todo = Tail(@),
           !.cursors[k] = Walked(k, @),
           !.found = @ \cup {u \in Unread(k, proc[p].cursors[k]) :
                                 lane[k][u[2]] # Broken}])
\* A message that does not open makes the command throw.
ReadLane(p) ==
    /\ At(p, "read") /\ proc[p].todo # <<>>
    /\ LET k == Head(proc[p].todo)
           new == Unread(k, proc[p].cursors[k])
       IN  /\ \A u \in new : lane[k][u[2]] # Broken
           /\ Goes(p, [proc[p] EXCEPT !.todo = Tail(@),
                  !.cursors[k] = Walked(k, @), !.found = @ \cup new])

ReadAll(p) ==
    /\ At(p, "read") /\ proc[p].todo = <<>>
    /\ Goes(p, [proc[p] EXCEPT !.at = "print",
                    !.writes = <<<<"cursors", proc[p].cursors>>>>])

PrintFound(p) ==
    /\ At(p, "print")
    /\ printed' = printed \cup proc[p].found /\ Becomes(p, Idle)
    /\ UNCHANGED <<disk, tmp, chain, bounds, queued, kept, raced, missed, doubt>>

-----------------------------------------------------------------------------
(* The peers, and the system.                                              *)

PeerPosts(q, m) ==
    /\ posts < MaxPosts /\ posts' = posts + 1
    /\ lane' = [lane EXCEPT ![In(q)] = Append(@, m)]
    /\ opened' = opened \cup {In(q)}
    /\ UNCHANGED <<disk, tmp, proc, lost, runs, tears, ghosts>>

Commands(p) ==
    \/ InitConfig(p) \/ StartFlush(p) \/ StartRead(p)
    \/ \E cmd \in {"discover", "sync"} : StartScan(p, cmd)
    \/ \E l \in Labels, q \in Peers, k \in Keys :
           k[2] = q /\ AddChannel(p, l, q, k)
    \/ \E to \in Labels \cup Peers :
           Queue(p, to) \/ \E cmd \in {"send", "pay"} : StartSend(p, cmd, to)

Steps(p) ==
    \/ Write(p) \/ Done(p) \/ Ends(p) \/ Tear(p)
    \/ Discovered(p) \/ DiscoverySkipped(p)
    \/ \E full \in BOOLEAN : StartEngine(p, full)
    \/ OpenTmp(p) \/ FillTmp(p) \/ RenameTmp(p)
    \/ Queued(p) \/ Seal(p) \/ Broadcast(p) \/ Include(p) \/ Confirm(p)
    \/ Refused(p) \/ Reseal(p) \/ AnswerLost(p)
    \/ ReadLane(p) \/ ReadAll(p) \/ PrintFound(p)

Next ==
    \/ \E p \in Procs : Commands(p) \/ Steps(p)
    \/ \E q \in Peers, m \in PeerPost : PeerPosts(q, m)
    \/ \E t \in lost : IncludeLost(t)

Spec == Init /\ [][Next]_vars

-----------------------------------------------------------------------------
(* Properties.                                                             *)

Mine(k) == \E i \in DOMAIN lane[k] : lane[k][i] \notin PeerPost
Printing(u) == \E p \in Procs : proc[p].at = "print" /\ u \in proc[p].found

\* The cursor that reads share with sends never stands beyond the end of a
\* lane, and on a lane that only the peer writes it stands behind no message
\* that was never printed, however reads, sends and flushes overlap and
\* whatever fails: except when a reader dies between its save and its output.
UnreadKept ==
    disk.cursors # Torn => \A k \in Keys :
        /\ disk.cursors[k] <= Len(lane[k])
        /\ Mine(k) \/ \A u \in {<<k, i>> : i \in 1..disk.cursors[k]} :
                         u \in printed \cup missed \/ Printing(u)

\* In pool mode a message goes to the chain once, wherever the flush that
\* took it is killed, whatever runs later and however late its transaction
\* lands, unless two processes wrote the outbox over each other, or its own
\* flush sent it again without having read what became of it.
SentOnce ==
    "outbox" \in raced \/
    \A n \in 1..MaxRuns \ doubt :
        Cardinality(UNION {{<<k, i>> : i \in {j \in DOMAIN lane[k] : lane[k][j] = n}}
                               : k \in Keys}) <= 1

\* A message reported as queued stays in the outbox until it is on the chain,
\* through failing and killed flushes, unless two processes wrote the outbox
\* over each other or a kill tore it.
QueuedKept ==
    disk.outbox = Torn \/ "outbox" \in raced \/
    \A n \in queued : \E i \in DOMAIN disk.outbox :
        /\ disk.outbox[i].id = n
        /\ disk.outbox[i].status = "confirmed" =>
               \E k \in Keys : Contains(lane[k], n)

\* A channel that was added or discovered stays configured under its label
\* through scans, sends and flushes, until the user gives the label away or
\* starts anew, unless two processes wrote the configuration over each other.
ChannelsKept ==
    disk.config = Torn \/ "config" \in raced \/ kept \subseteq Named(disk.config)

\* A kill never tears the synced history, which is renamed into place, unless
\* two syncs used the one temporary file at the same time.
SnapshotWhole == disk.sync = Torn => "sync" \in raced

=============================================================================
