# Models and proofs of the STRK20 messenger

This directory specifies the messenger of this repository in TLA+: how messages
are composed, sealed and sent by the command line client and by the web
application, how they get into the slots of the helper contract, how readers get
them back, and what the two applications keep and show of them meanwhile. TLC
checks the models on small instances, and TLAPS proves the most important
properties for every instance.

Paths below are relative to the repository's root (`src/` is left out).

## 1. The system

Messages are written to *lanes*. A lane is a key; the slots of a lane are
numbered from 0, and the storage address of slot *i* is a hash of the key and
*i*. The helper contract stores a ciphertext once and never changes it. A writer
walks a lane to its first empty slot, seals its messages for the slots from
there, and submits one transaction, which takes tens of seconds (it carries a
proof) and in which all messages are stored or none. A reader walks the same
lane until it meets an empty slot. Nothing locks a lane: devices of one user,
commands run side by side, the web application and transactions that somebody
gave up waiting for all race for the same slots.

### Inventory

| Component | State it keeps | Operations | Hard behaviour | What makes it correct |
|---|---|---|---|---|
| Helper contract, `contracts/src/message_anonymizer.cairo` | slots, written once | `privacy_invoke`, `slot_len(s)`, `slot(s)` | atomicity of a batch in which a later slot is taken | all or nothing; nothing overwritten |
| CLI outbox, flush, send: `apps/cli/src/commands.ts`, `resilience.ts`, `tail.ts`, `walk.ts`, `sdk/src/outbox.ts`, `calldata.ts` | its copies of the outbox and the cursors | `msg queue`, `msg flush`, `msg send` | slot conflicts, re-sealing, halving of a batch whose proof is too large, chained transactions, lost answers, crashes | lanes without gaps, sound cursors, truthful "confirmed", order, nothing dropped or doubled |
| CLI files: `outboxStore.ts`, `config.ts`, `syncStore.ts`, `channels.ts`, `commands.ts` | `config.json`, `state.json`, `outbox.json`, `sync.json` | every command | commands that overlap over whole files; kills between two writes and in the middle of one; read and send move one cursor | nothing unread is skipped, nothing queued or configured lost, nothing sent twice |
| Sync engine, `sdk/src/sync.ts` | the snapshot: history, `scannedTo` of each lane, watermark | `sync`, `sync --full` | lanes grow while they are read; kill and resume; two syncs over one snapshot | history without gaps, duplicates or wrong indices; a watermark that does not overstate |
| Web store, send path, `apps/web/src/lib/store.ts` | outbox in local storage, one `flush` (progress bar), one `AbortController` | `queue`, `sendBatch`, `cancelFlush`, `pay`, `shield`, `registerSelf` | operations suspended at their awaits share all of it; failures re-queue the entries of all of them | no entry or button locked for ever, truthful "confirmed" |
| Web store, contacts, session: `store.ts`, `contacts.ts` | connection, contacts, history; a copy in local storage | `addContact`, `reconcileLanes`, `refreshRegistration`, `discoverLanes`, `syncNow`, `updateConnection`, `disconnect`, reload | read the list, await, write the list back; the connection changes meanwhile | no contact or lane lost; what is confirmed can be read |
| Web store, groups: `groups.ts`, `sdk/src/group.ts`, `ui/GroupView.tsx` | groups, their lanes | `createGroup`, `joinGroup`, `payGroup`, the stitched thread | messages wait under a name that another group takes; members who joined undeclared | each message in its group, under its writer, heard by the members |
| Web backends: `backend.ts`, `poolBackend.ts`, `walletBackend.ts`, `wallet.ts` | the demo's notes; allowances, a request at the wallet | `submitBatch`, `pay`, `shield`, `register` | a wallet that answers late, wrongly or never; a second attempt after an unknown error; approvals, fee and gas ceiling | one effect, no success without it, an end |
| Threads: `contacts.ts`, `ui/ThreadView.tsx`, `sdk/src/payment.ts` | none of their own: concluded from what has been read | request, pay, receipts | two lanes read at different times, two clocks | paid stays paid, both sides agree, honest ticks |
| Session and screens: `ui/Onboarding.tsx`, `ui/Settings.tsx`, `backup.ts`, `presets.ts` | the steps, the form, the configuration | onboarding, connection form, backup, wallet requests | answers of the wallet continue on what they captured | disclosures never skipped, one network |
| Framing, felts, encryption, payment bodies: `sdk/src/framing.ts`, `felts.ts`, `aead.ts`, `payment.ts`, `apps/web/src/lib/costs.ts` | none | pure functions | bucket boundaries | inverse; priced as sealed |
| Pool client, gateways: `pool.ts`, `poolClient.ts`, `gateway.ts`, `helper.ts` | none | build and post one transaction | errors and lost answers | seen by the callers |
| Derivations, pairing keys, argument parsing, scripts | none | | | |

Components call each other directly; they meet in the slots (writers and
readers), in the files of a configuration directory or the browser's local
storage (commands, operations), and in the callbacks by which a backend reports
progress to the store.

`PROJECT.json` lists every component with its status, and the hazards with the
line at which each one bites and the properties that watch it.

## 2. The modules

| Module | Models | Extends |
|---|---|---|
| `MessageAnonymizer` | the contract: `Accepts` is the asserts of `privacy_invoke`, `PrivacyInvoke` the whole call | |
| `LaneClient` | what every writer does: the walk (`NextFree`), sealing, calldata, `splitBatch` | `MessageAnonymizer` |
| `Outbox` | the SDK's outbox: `take`, `mark`, entries | `LaneClient` |
| `LaneDensity` | what a writer keeps of a sealed batch so that no lane gets a gap; the log that a lane is | `Outbox`, `LaneLog` |
| `LaneProofs` | lemmas shared by the proofs about writers; theorems about `Wire` | `LaneDensity`, `Wire` |
| `LaneLog` | **abstract**: a lane is an append-only log without gaps to which one transaction at a time appends all its messages | |
| `CliFlush`, `CliFlushInvariant`, `CliFlushDelivery`, `CliFlushProofs` | the send path of the command line client in several processes over several directories; its inductive invariants, of the lanes and of what is delivered; theorems | `Outbox`, `LaneDensity` |
| `CliFiles`, `CliFilesInvariant`, `CliFilesProofs` | every command over the files of one directory; an inductive invariant for each file; theorems | |
| `WebFlush`, `WebFlushInvariant`, `WebFlushProofs` | the send path of one tab; its inductive invariants; theorems | `Outbox`, `LaneDensity` |
| `WebStore`, `StoreProofs` | the web application's connection, contacts and syncs; theorems | |
| `Groups` | groups in several browsers (theorems in `SessionProofs`) | |
| `Submission` | **abstract**: what a backend promises to the flush that calls it | |
| `Backends`, `BackendsProofs` | one call of any backend, from the request to the end of its promise; theorems | |
| `Threads` | requests, payments and receipts as two users see them (theorems in `SyncEngineProofs`) | |
| `Session`, `SessionProofs` | onboarding, connection form, backup; theorems about `Session` and `Groups` | |
| `SyncEngine`, `SyncEngineProofs` | `sync` in several processes over one snapshot; theorems about `SyncEngine` and `Threads` | `LaneLog` |
| `Wire` | frames, padding, felts, slots and payment bodies as operators | |
| `MCBackends`, `MCCliFiles`, `MCCliFlush`, `MCGroups`, `MCSession`, `MCSyncEngine`, `MCThreads`, `MCWebFlush`, `MCWebStore` | instances for TLC | |

`Groups` and `Threads` name their `Init`, `Next` and `Spec` after themselves
(`GroupsSpec`, `ThreadsSpec`), because the module with their proofs extends a second
module that has the plain names.

The composition is by two contracts.

* `LaneLog` states what a lane promises. `CliFlush` and `WebFlush`, with all their
  failures, implement it (`LaneDensity!LanesAreLogs`, a refinement mapping from slots
  to logs): it is proved of both, and TLC checks it of the first. `SyncEngine` is
  written against it, and its steps are proved to be steps of `LaneLog`
  (`SyncEngineProofs!LanesAreLogs`).
* `Submission` states what a call of a backend promises: it is announced at most
  once, it resolves only when its effect is on the chain (or another writer holds
  the slot), and it may be rejected at any time, also when its effect is or will
  be there. `Backends` is proved to implement it (`BackendsProofs!KeepsPromise`).
  The flushes, `CliFiles` and `Threads` assume no more than this of a submission;
  `WebStore` and `Groups` besides that what was rejected does not land later.

Each of `CliFiles`, `WebStore`, `Groups` and `Threads` looks at one other kind of
shared state (files, the contact list, the list of groups, the two lanes of a
conversation) and reduces what another module has in detail; the comment at its
head says what.

### Step atomicity

A step is the code between two awaits. JavaScript runs it without interruption
within a process or a tab; processes and the network interleave between steps. In
`CliFlush` a save of a file is one step; in `CliFiles` it is opened, filled and
renamed in steps of their own. A walk is one step that answers with the first
empty slot: slots are never emptied, so what it read of earlier windows stays
true, and its answer is the answer of its last read. A channel scan
(`WebStore!Scan`) is one step in which both directions are read.

### `CliFlush`

`proc[p]` is the memory of a process: the `Outbox` object and the cursors it
loaded (`box`, `cursors`), the entries it took, the batch in hand (`current`),
what was cut off (`remaining`), the attempt, and the fate of its transaction.
`outbox[h]` and `cursor[h]` are the files. `lost` holds transactions that were
broadcast and that nobody awaits: they land at any later time, or never. `fresh`
and `doubt` are ghosts (messages not written yet; messages of transactions whose
outcome went unread).

| Action | Code |
|---|---|
| `Queue`, `StartFlush`, `StartSend` | `queueMessage`, the head of `flushOutbox`, `sendMessage` |
| `SealLane` | the walk, `sealBatch`, mark "proving" |
| `Broadcast`, `Include`, `RevertsOutside`, `IncludeLost` | `submit` and the network |
| `Confirm`, `CrashBetweenSaves` | marks, the cursor, the next transaction or lane; a death between the two saves |
| `SubmitFails`, `Reverted`, `AnswerLost` | `classifyFailure` and the four ways out of `submitWithResilience`: retry, re-seal, halve, give up |
| `Reseal`, `Crash` | the walk and seal after a conflict; death at any await |

### `CliFiles`

`disk` is the four files, each a value or `Torn`; `proc[p]` a command with its
copies of the files it loaded, the await it is at, and `writes`, the writes of
this turn that have not been made yet. Loading a torn file ends the command.
`lost` holds transactions that are out and that nobody awaits. Of the ghosts, `raced`
records a file that was written over a version the writer never loaded, `missed` what
a reader found that died before it printed, and `doubt` the entries that a flush sent
again without having read what became of them.

| Action | Code |
|---|---|
| `InitConfig`, `AddChannel` | `msg init`, `channel add` |
| `StartScan`, `Discovered`, `DiscoverySkipped` | `channel discover` and the discovery before a sync |
| `Queue`, `Queued` | `queueMessage`: load, append, write |
| `StartFlush`, `StartSend`, `Seal`, `Broadcast`, `Confirm` | `flushOutbox`, `sendMessage`, `pay`: mark, submit, mark again, confirm |
| `Include`, `IncludeLost` | the network: a transaction lands if its first slot is free, awaited or not |
| `Refused`, `Reseal`, `AnswerLost` | the catch block of `submitWithResilience` (`resilience.ts:63-77`): a plain retry, the batch sealed again after `SLOT_OCCUPIED`, a retry of what may be out already |
| `StartRead`, `ReadLane`, `ReadAll`, `PrintFound` | `readMessages`: the walks, the one save at the end, the output after it |
| `StartEngine`, `OpenInPlace`, `OpenTmp`, `FillTmp`, `RenameTmp` | `sync` and the writes of its snapshot |
| `Write`, `Tear`, `Ends`, `Done` | one whole write; a kill in the middle of it; a kill or an error anywhere |
| `PeerPosts` | the other side writes, also what cannot be opened |

### `WebFlush`

`op[o]` is one invocation of an operation, with the await it is suspended at;
`phase` is the progress bar, whose value locks the buttons; `outbox` is the one
object of the tab. `Compose`, `StartBatch`, `StartPay`, `StartPlain` and
`CancelFlush` are the user; `SealLane` to `Synced` are the pieces of the
operations; `Catch` with `Fails` and `Unanswered` are the catch blocks;
`Elsewhere` is another device and `IncludeLost` a transaction nobody awaits.
`mode` chooses the backend, which decides what can be cancelled, refused, timed
out or watched.

### `WebStore`

`contacts` is the list in memory, `disk` what local storage has of it, `op[o]` an
operation with what it captured before its await (the connection in `via`, the
list or the rest of a list it still has to go through). `opened` and `registered`
are the pool. `disturbed` is a ghost that names what kept the lanes from following
the connection: an operation that was suspended when it changed, a peer that
had not registered on it yet, or a scan that gave a lane to a contact that is shown as
not registered (`Adopts`; `store.ts:451-453`), which `reconcileLanes` then passes over
(`store.ts:182`).

| Action | Code |
|---|---|
| `CompleteOnboarding`, `UpdateConnection`, `Disconnect`, `Reload` | the functions of those names; a reload of the page |
| `Rederived` | one turn of the loop of `reconcileLanes` |
| `AddContact`, `AddRegistered`, `AddLane` | `addContact` between its awaits |
| `RefreshRegistration`, `Refreshed`, `RefreshLane` | `refreshRegistration` |
| `Sync`, `ScanButton`, `Scanned`, `FoundRegistered`, `FoundLane`, `Read` | `syncNow` and `discoverLanes` |
| `Send`, `Walked`, `Submitted` | a batch of one message |
| `Throws` | whatever is awaited is rejected |
| `PeerRegisters`, `PeerOpens` | the peer, on the pool |

### `Groups`

`groups[u]` is the list of `u`'s browser, keyed by name; a group has a key, its
declared members and a name. `outbox[u]` holds entries by the group's name;
`batch[u]` and `split[u]` are a `sendBatch` and a `payGroup` under way, `tx` their
transactions. `CreateGroup`, `JoinGroup`, `QueueToGroup` and `PayGroup` are the
user, `SendBatch`, `SealBatch`, `SealSplit`, `SplitRefused`, `Submitted`, `Confirm`
and `Fails` the pieces of the operations, `Land` the network, and `Sync` the walk of
one lane, by the readers that `groupMembers` gives a browser (`Readers`). `moved` is
a ghost: messages whose name passed to another group while they waited.

### `Backends` and `Submission`

`call` is the call in progress with its stage; `w` is `strk20Submit`'s request at
the wallet or its outcome; `prompts` the requests a wallet may still act on, also
after the application gave up; `txs`, `slot`, `allowance` and `landed` are the
chain, `notes` and `replies` the demo.

| Action | Code |
|---|---|
| `Call`, `Cancel` | a call of one of the kinds the mode has; the signal of `submitBatch` |
| `Prove`, `Apply`, `Reply` | the demo |
| `Execute`, `Receipt` | the direct backend |
| `ShieldApprove`, `EnsureFeeAllowance`, `Build`, `ProofInvoke`, `Bounds` | the pool backend, the pool client of the command line, `proofTxResourceBounds` |
| `WalletSubmits`, `WalletAnswers`, `WalletFails`, `Prepared`, `PrepareFails` | the wallet; `strk20Submit` and its second attempt |
| `Ask`, `SlotSeen`, `WatchOver`, `AnswerSeen`, `FailureSeen`, `Look`, `ProbeOver` | `submit` of the wallet backend: the race of the answer, the time-out and the slot watch, and what follows it |
| `Include`, `OtherDevice` | the network; another writer of the lane |

### `Threads`

`lane[u]` is what `u` wrote, `seen[u][v]` how much of `v`'s lane `u`'s
browser has read, `Settled`
the pairs of request and payment that `settleRequests` finds, by way of `PaidBy`, which
follows its loop over the requests from the first to the last. `SendBatch`, `PayRequest`,
`Pay`, `Lands`, `Resolve` and `Fails` are a transaction: what `Fails` reported as
failed stays in `late[u]` and may land as long as its slot is free, as `Submission`
allows. `Sync` reads a part of a lane; `NotesRead`, `ShowReceipts` and `CheckFails` are
the receipt check of `ThreadView`. `stale[u]` is a ghost: notes of `u`'s were spent
since they were last read.

### `Session`

`ob` is the onboarding screen, `form` the mounted connection form, `open` the
requests that await the wallet or a node, with what their continuations captured,
`chain` the network the wallet is on and `config` what the store keeps.

| Action | Code |
|---|---|
| `Scroll`, `Tick`, `Continue`, `Back`, `NewKey`, `OpenRestore`, `Restore`, `ToCompliance`, ... | the steps of `Onboarding.tsx` and its routes |
| `Connect`, `Shield`, `Sign`, `CheckAgain`, `SwitchOnboarding`, `Unpick` | the wallet step |
| `Connected`, `Probed`, `Rechecked`, `Signed`, `Switched`, `Failed` | the continuations, at any later click |
| `FinishDemo`, `FinishWithWallet` | `completeOnboarding` |
| `OpenForm`, `Preset`, `ApplyWalletPreset`, `Reconnect`, `SwitchForm`, `Save`, `Close` | the connection form of `Settings.tsx` |
| `Backup`, `Disconnect`, `AddContact`, `WalletMoves` | the rest of the session; the wallet's own network switch |

### `SyncEngine`

`eng[p]` is a running `sync`: the keys it was given, the lane and window it is at,
the block it observed first, and its copy of the snapshot; `store` is the file.
`BlockNumber`, `SlotLens`, `StoreWindow` and `Reload` are the pieces between its
awaits, `Interrupt` ends it at any of them, `Arrive` lets a lane grow. `covers`
(which lanes the sync walked that set the watermark) is a ghost.

### `Wire`

Pure operators: `Frame` and its parser, `BucketFor`, the packing of bytes in felts,
the slot with its length felt, the payment body, and the two costs the composer
shows. A buffer is a function from offsets to bytes, so that the inverses can be
proved for every input.

## 3. The runs

| Run | Instance | What it checks |
|---|---|---|
| `flush_devices` | two directories write one lane; 4 messages (3 + 1), 3 attempts, pool mode, 2 commands | no gaps, sound cursors, truthful "confirmed", order, nothing dropped, at most once, refinement of `LaneLog` |
| `cli_files` | two processes over one directory, one peer, 3 commands, 3 attempts, 1 message of the peer, 1 torn write | what is read, sent, queued, configured and synced is kept |
| `sync_overlap` | two processes over one snapshot, windows of 2, 3 blocks of 1 or 2 messages, from scratch or not | sound history, whoever saves last; no deadlock |
| `sync_restart` | one process, two lanes, 2 blocks, interrupted without bound, with fairness | honest watermark, nothing forgotten, everything caught up with in the end |
| `web_overlap` | two lanes, 2 messages, a payment's memo and a message from elsewhere, 3 operations of which 2 overlap, every mode | never stuck, never locked, truthful "confirmed", at most once |
| `web_store` | two connections, one of them in pool mode, one peer, one label, 2 suspended operations, 3 started ones, rejected calls, with fairness | no contact lost, labels unique, syncs never locked out, confirmed is readable, lanes get found |
| `groups` | two browsers, two keys under one name, with and without a declared member, 2 messages, with fairness | writers shown rightly, messages in their group, members hear |
| `backends` | every mode and kind of call, two fees, amounts, prices, four balances, 2 calls, with fairness | one effect, fee and gas backed, refinement of `Submission`, an end |
| `session` | one account, one contact, two networks, 2 open requests | disclosures never skipped, one network |
| `threads` | one user asks and one pays, clocks 0 and 1, 2 messages in a lane, transactions that land after they were reported as failed | paid stays paid, once; both agree; honest ticks |
| `web_void`, `shield_fee` | two pool connections; the instance of `backends` | counterexamples, see section 6 |

**Bounds.** `MaxRuns` and `MaxCalls` bound what the user starts, `MaxBlocks`,
`MaxPosts`, `MaxMsgs` and `MaxLane` what is written, so models of bounded runs stop:
that is why deadlock is not checked in them (in `sync_overlap` and `sync_restart`
it is). The bounds are chosen so that every branch is taken: a batch of three
splits into two and one and the two split again; three attempts allow a re-seal
after a halving; two lanes are the least for which the way from lane to lane
matters, two writers the least for a race, and three commands or operations the
least for a race followed by a repair. Windows of two slots make a lane of three
messages take two windows, and one of two messages end exactly at a window's end.
Two calls are the least in which an approval is left over by one and spent by the
other; a fee of 2 with approvals for two times makes the allowance run out; the
four balances are refused, just suffice, are fitted in between, and afford the largest
ceiling.
Two keys under one name are the least for a name to pass from one group to
another. Payloads are numbers where their order matters (`queuedAt`) and model
values otherwise. Symmetry is used over processes and operations only, in runs
without liveness properties.

**Fairness.** No run assumes it of a user, of a wallet, or of the inclusion of a
transaction that nobody awaits.

* `SyncEngine!FairSpec`: syncs are started again and again (the workspace does so
  every 15 s, `apps/web/src/ui/WorkspaceShell.tsx:231-233`), and a read that is
  repeated often enough is answered (strong fairness, since an interruption
  disables it).
* `WebStore!Fairness`: the same timer; what is awaited comes or throws, because the
  RPC client has time-outs; and a scan that is made again and again does not throw
  every time.
* `Groups!GroupsFairSpec`: every lane a browser reads is walked again by a later sync.
* `Backends!Fairness`: waits of the application's own end, a node, a prover and a
  gateway answer or reject, a transaction that was accepted is included or reverts,
  and steps that need a signature are taken when the application holds the key.
  `Settles` therefore promises an end to calls signed with that key; of calls that a
  wallet signs it says only what the deadlines of `walletBackend.ts` give.

## 4. Properties

The comment above each definition says what it means. The ones to read first:

* `LaneDense` – no lane has a gap. A reader stops at the first empty slot, so a
  message behind a gap is lost although it is on the chain. What can break it is a
  batch sealed long ago that lands after others did or did not.
* `CursorSound` – cursors are overwritten with stale copies by overlapping
  commands; they never point past the end of a lane, so that a walk that starts at
  one leaves no gap.
* `ConfirmedOnChain`, `OrderKept`, `NothingDropped`, `AtMostOnce` – what the
  outbox says is true, across re-sealing, halving, chaining and lost answers.
  `AtMostOnce` names its exceptions: a message can be stored twice only if an
  outcome went unread, or (in the web application) if two batches held it.
* `UnreadKept`, `SentOnce`, `QueuedKept`, `ChannelsKept`, `SnapshotWhole` – what the
  files keep across overlapping and killed commands. Each names the ways in which the
  code does lose it (`raced`, `Torn`, `missed`; for `SentOnce` also `doubt`: a lost
  answer, a retry, a refusal as occupied and a re-seal store a batch twice without any
  race on the outbox), and says that there is no other.
* `HistorySound`, `WatermarkHonest`, `HistoryGrows`, `CatchesUp` – what a reader gets.
* `NeverStuck`, `NeverLocked` – no entry stays in "proving" or "submitted", and
  the progress bar does not stay busy, unless an operation is waiting for an
  outcome, although every failure rewrites the entries of all operations and late
  callbacks rewrite them again.
* `NoContactLost`, `LabelsUnique`, `NeverSyncLocked`, `ConfirmedIsReadable`,
  `LanesGetFound` – the contact list under operations that each replace it from what
  they read before their await.
* `LandsOnce`, `Promise`, `FeeCovered`, `CeilingBacked`, `Settles` – a call of a
  backend; `Promise` is the refinement of `Submission`.
* `SenderShown`, `RightGroup`, `MembersHear` – groups that replace each other under
  one name.
* `PaidStaysPaid`, `OnePaymentEach`, `Agree`, `ReceiptsHonest` – conclusions drawn
  from a part of the lanes stay true when the rest is read, and are the same on
  both sides. `ReceiptsHonest` names its exception: what was reported as failed
  landed after the notes were last read.
* `Acknowledged`, `RpcServesPool`, `SavesWhereConnected` – late answers of the wallet
  neither skip a disclosure nor mix two networks.

## 5. Proofs

| Theorem | Says |
|---|---|
| `CliFlushProofs!Invariant`, `TypeCorrect`, `LanesStayDense`, `CursorsStaySound` | the inductive invariant of the lanes; `TypeOK`, `LaneDense`, `CursorSound` always hold |
| `CliFlushProofs!DeliveryInvariant`, `ConfirmedIsStored`, `OrderIsKept`, `NothingIsDropped` | the inductive invariant of what is delivered; `ConfirmedOnChain`, `OrderKept`, `NothingDropped` always hold |
| `CliFlushProofs!StoredAtMostOnce` | with one command at a time in a directory, `AtMostOnce` always holds |
| `CliFlushProofs!LanesImplementLogs`, `WebFlushProofs!LanesImplementLogs` | both flushes implement `LaneLog` |
| `CliFilesProofs!TypesHold` | the types of the files, and of what each command has pending |
| `CliFilesProofs!HistoryIsWhole`, `ChannelsStay`, `ReportedIsKept`, `QueuedIsSentOnce`, `UnreadStaysUnread` | `SnapshotWhole`, `ChannelsKept`, `QueuedKept`, `SentOnce`, `UnreadKept` always hold |
| `WebFlushProofs!Invariant`, `TypeCorrect`, `LanesStayDense` | the same of the web application |
| `WebFlushProofs!NothingIsStuck`, `NothingIsLocked` | `NeverStuck`, `NeverLocked` always hold |
| `WebFlushProofs!ConfirmedIsTrue` | outside wallet mode, a confirmed entry is stored where it says |
| `WebFlushProofs!StoredAtMostOnce` | `AtMostOnce` always holds |
| `SyncEngineProofs!Invariant`, `TypeCorrect`, `HistoryStaysSound` | the history is always sound, with any number of processes, windows and blocks |
| `SyncEngineProofs!WatermarkStaysHonest`, `HistoryOnlyGrows` | with one process and no rescan from scratch the watermark never overstates, and no step forgets a message that was read |
| `SyncEngineProofs!LanesAreLogs` | the lanes of the sync engine are logs in the sense of `LaneLog` |
| `SyncEngineProofs!ThreadsInvariant`, `PaymentsSettleOnce`, `ClientsAgree`, `TicksAreHonest` | of `Threads`: the inductive invariant; `OnePaymentEach`, `Agree`, `ReceiptsHonest` |
| `SyncEngineProofs!PaidForGood` | of `Threads`: `PaidStaysPaid`, a settlement that is shown is never taken back |
| `StoreProofs!Invariant`, `ContactsKept`, `LabelsDiffer`, `SyncsAgain` | the inductive invariant; `NoContactLost`, `LabelsUnique`, `NeverSyncLocked` |
| `StoreProofs!SendsReadable` | `ConfirmedIsReadable`: what was confirmed on a lane of this connection, its peer can read |
| `SessionProofs!GroupsInvariant`, `SendersAreShown`, `MessagesGoRight` | of `Groups`: the inductive invariant; `SenderShown`, `RightGroup` |
| `SessionProofs!Invariant`, `NoneUnacknowledged`, `NodeServesPool`, `SavesItsNetwork` | the inductive invariant; `Acknowledged`, `RpcServesPool`, `SavesWhereConnected` |
| `BackendsProofs!Invariant`, `EffectOnce`, `FeeIsCovered`, `CeilingsAreBacked` | the inductive invariant; `LandsOnce`, `FeeCovered`, `CeilingBacked` |
| `BackendsProofs!KeepsPromise` | `Backends` implements `Submission` |
| `LaneProofs!BucketSmallest`, `BoundaryExact` | a body gets the smallest bucket it fits in, also at the exact capacity of one |
| `LaneProofs!FrameRoundTrip`, `FeltRoundTrip`, `LengthFromFelts`, `SlotRoundTrip`, `PaymentRoundTrip` | what is framed, packed, stored or encoded is read back as it was, and `slot_len` can be told from the felts |
| `LaneProofs!SpanRoundTrip`, `PricedAsSealed` | the span the helper returns for a slot parses to the felts that are stored there; the cost shown is that of the bucket that is sealed |

They hold for every value of the constants that satisfies the named assumptions
(`PayloadsAssumption`, `EmptyPayloadAssumption`, `TopologyAssumption`,
`LimitsAssumption`, `WebPayloadsAssumption`, `WebAssumption`, `FilesAssumption`,
`BatchesAssumption`, `SyncAssumption`, `StoreAssumption`, `GroupsAssumption`,
`ThreadsAssumption`, `SessionAssumption`, `BackendsAssumption`): finitely many messages, two users of a thread, a positive number of attempts and a
positive window, connections, peers, lanes, directories, users, groups and accounts as many as one likes,
and no bound on what is started or written but constants that may be any number.
`FilesAssumption` also keeps apart what the files keep apart: a torn file from a whole
one, and what a peer posts from the numbers of one's own messages. The one
assumption on magnitudes is `0 < MinL2 /\ MinL2 <= MaxL2`, which the code's 120 and 250
million satisfy.

**The argument for `LaneDense`.** The invariant itself is not inductive: whether a
landing leaves a gap depends on indices chosen before, maybe by a process that is
dead. `IInv` therefore says of every sealed batch, in a memory or among the lost
ones, that it is *covered*: below each of its indices, everything is stored or is
the index of an earlier item of the same batch. Slots are never emptied, so a
covered batch stays covered whatever others do, and landing a covered batch keeps
a lane dense. Halving is the delicate step: the part that was cut off keeps its
old indices while the part in front may be sealed again further up, so `Covered`
is stated for batch and rest together, and `Climbs` (indices rise by at most one
per item) makes the cut-off part remain covered after the front was sealed again.
Cursors go to the index after the last item of a batch that landed.

**The argument for delivery.** That a copy of an outbox is true depends on the
process that marked it and on what this process still has to do. `DInv` therefore
says three things of each process: what it took and has not confirmed is *pending*
(waiting for its lane, in the batch, or cut off from it), and this accounts for all
it took (`NothingDropped`); what is pending is arranged as it was queued, and nothing
in it is older than a confirmed message to the same lane (`OldestTaken`, for
`OrderKept`); and a batch that landed is stored where it was sealed
(`ConfirmedOnChain`). The files are as old copies of such a memory: what they say of
the chain stays true, because slots are written once. That order is kept needs no
memory of old indices: in a dense lane a free slot lies above every stored message, so
that what lands, lands above all that was confirmed before.

**At most once.** For the command line client `OnceInv` follows a message that is not
in doubt: while it is queued in an outbox that may be loaded, or pending in a process
whose transaction has not landed, it is not stored; and what is being sent is not
queued in the file any more. It needs `OneCommandPerHome`: two commands over one
outbox write it over each other (section 6) and may send a message twice. The theorem
has it as its hypothesis, and the instance of the run satisfies it. In the web application every
operation shares one outbox, so that the invariant can say more: such a message is in
*one* place from which it can still be stored (the outbox, one operation, one
transaction that nobody awaits), and in none once it is stored.

**The argument for `LaneLog`.** The log of a lane is its slots below its length, and
its length the number of them. A transaction stores all its items or none, and a
batch is sealed upwards from the first empty slot without a gap (`Climbs`), so if it
lands on a dense lane it stores exactly the next indices, which is an append. The
lemma is about density and not about who wrote: it serves both flushes.

**The argument for the web application's send path.** Its batches are never sealed
again, so `Covered` alone keeps lanes dense. `ConfirmedOnChain` needs that a batch
whose transaction landed is stored item by item as the operation remembers it
(`HasItems`), and that all of it belongs to one lane. `NeverStuck` and `NeverLocked`
are inductive together with the types: every step that marks an entry or the bar
leaves its own invocation waiting for an outcome, and every step that ends an
invocation confirms or re-queues what it carried. The theorem about "confirmed"
excludes wallet mode because there it is false (section 6).

**The argument for the files.** A command works on copies, so that each invariant
of `CliFilesInvariant` speaks of a file three times: on disk, as a process loaded it,
and as it is about to be written. A copy is *fresh* while nobody else has written the
file (`loaded`), and outside `raced` every write is of a fresh copy.

* `SyncInv`: outside `raced` one sync at a time is between the opening and the
  renaming of the temporary file, which is whole when it is renamed.
* `ConfigInv`: a fresh copy names every channel that was kept, and what a process is
  about to write will; `channel add` takes one label over and `init` all of them.
* `QueueInv`: what was reported as queued, or is about to be, is in the file and in
  every fresh copy; an entry that any copy calls confirmed is on the chain.
* `NumberInv` and `SentInv`: ids are given once; an entry that waits in a fresh copy is
  neither on the chain nor in a batch that may land any time, whether a process has it
  in hand, marked in the file, or nobody awaits it. This is the order of the code:
  mark, save, submit. Outside `doubt` an entry is in one such batch at most, and in none
  once it is stored: only a retry after an outcome that went unread makes a second one.
* `CursorInv`: every copy of the cursors, fresh or not, stands behind what was shown or
  is about to be printed, counting what its own process has found; a sender moves only
  the cursor of a lane it has itself written. No copy needs to be current, which is why
  `UnreadKept` has no exception for races. That a flush always sends something, so that
  the lane it moves the cursor of is its own, needs that the lanes it still has to serve
  are distinct and that each has an entry that waits (`Served`).

What `filter` and the order of a scan compute is proved from `Pick`, the elements at
given positions: that it is a bijection between the positions and 1..n takes an
induction over sets of numbers, done as a least counterexample (`Below`).

**The argument for the sync engine.** `IInv` says that every snapshot, saved or in
a memory, is sound; a window extends it at `scannedTo` with what the lane holds
there, and lanes only grow, so it does not matter which of two snapshots is saved
last. The watermark needs `WInv`: a running sync's snapshot is the saved one, and
every lane it is done with has been walked at least to where it ended at the block
the sync observed first.

**The argument for the contact list and the lanes of `WebStore`.** `IInv` of
`StoreProofs` has four parts that hold always, and one that holds while nothing was
`disturbed`.

* `ListsOK`: labels are distinct in memory and in local storage, and what the user
  added is in both. Every step replaces the list in one of five ways (`ListStep`): it
  changes contacts in place, puts one under its label, finds one, clears the list, or
  restores it from storage; each keeps the labels apart, although the contact that is
  put or found was put together before an await. A scan names what it found by a label
  no contact has; that there is one among the numbered ones is the pigeonhole
  principle.
* `NeverSyncLocked`, and `OneSender`, one batch at a time.
* `Quiet`: if no connection changed under an operation that was suspended, no
  reconciliation passed a contact over and no scan gave a lane to a contact shown as
  not registered, then every operation is of this connection (`AllFit`), a
  reconciliation is alone and holds every contact it has not rederived yet
  (`OneRederives`), a contact that is shown as registered has the lane of this
  connection and one that is not has none (`KeysOK`), and lanes have no gap (`Dense`).
  Hence what is sent goes to the lane its peer derives (`ConfirmedOK`).

The last cause of disturbance was found by the proof. Without it `KeysOK` is not
preserved: a scan stores the lane it found with a contact that stays "not registered"
(`store.ts:451-453`). With more started operations than the run has (`MaxRuns`
8), TLC showed where that leads, in 26 steps: the next connection skips the contact,
`refreshRegistration` keeps the lane it has (`store.ts:420-426`), and a message is
confirmed on a lane nobody reads. Recorded as a disturbance, TLC agrees with
`MaxRuns` 8 (7 million states), and the proof goes through.

**The argument for groups.** A message changes hands four times before it is
stored: outbox, batch or split, transaction, lane. `For(u, l, m)` says that lane `l`
is `u`'s own in the group in which `m` was typed, or that the message is counted as
moved; the invariant says it at each of the four places, and in the outbox says
that the name the entry waits under is still that of its group.

**The argument for threads.** The times of a lane rise, also with what waits to be
added to it (`InOrder`), and a browser has read a beginning of each lane, so that its
thread is finite and totally ordered by `Before`. That the recursive definition of
`PaidBy` has a solution is proved once (if not, take a smallest set of requests, with
all that come before each, that has none: without its last request it has one, which
extends to it); the rest reasons
about its one equation, a request takes the oldest payment which answers it and which no
earlier request took.

* `OnePaymentEach`: of two requests one is earlier, and the later one does not take
  what it took.
* `Agree`: without ties both browsers have one order; take the first request on which
  they differ.
* `PaidStaysPaid`: what is read later of a lane comes after what was read of it, so a
  payment that is new is later than every payment of its sender that was known, and the
  payments that answer one request are all of one sender. A new request may come before
  old ones of the *other* user only, and those are answered by other payments. Again by
  the first request that would change its payment.
* `ReceiptsHonest`: notes are spent only by a transaction of one's own, in time or
  late, and `stale` remembers it until they are read again. While it is not set, ticks
  and what a check was told are covered by the notes; when it is set and the bar shows
  a confirmed transaction, a check is due or there is nothing to tick (`ChecksOK`). That
  nothing spends notes while the bar says "confirmed" needs `SentOK`: all that may still
  land was sent for the lane's next slot, and a transaction that lands takes it, so
  nothing is left over when the bar is told.

**The argument for the session.** Whatever is beyond the disclosures (a later step,
keys, a session, a signature under way) has all of them acknowledged behind it
(`Behind`). Requests are of a screen that is there: those of onboarding
are forgotten, but for a signature, when a session begins, so only the form's own
requests move its network, and they set the node, the pool and the account
together.

**The argument for the backends.** Effects are counted by transactions: a route has
one, a request leaves `prompts` when the wallet submits it, and the second attempt
is not asked for before the first was answered; of two transactions that carry one
message the slot accepts one. `Promise` needs that the slot is "mine" exactly when
the call took effect, and that what was announced was submitted. The fee is in the
allowance from the moment it is approved or found there to the transaction, since
nothing else pulls from it in between. `CeilingBacked` is arithmetic: the amount of
gas is the budget divided by its price, rounded down, and the check that refuses
less than the minimum needs that minimum to be positive.

**Only model-checked.** Liveness: `CatchesUp`, `LanesGetFound`, `Settles`,
`MembersHear`. Fairness and `ENABLED` are outside what the provers handle. Every
safety property of a run that passes is also a theorem; three of them under a
hypothesis that the table states (`StoredAtMostOnce` of the command line client,
`WatermarkStaysHonest`, `HistoryOnlyGrows`). Of induction over data
the provers do what can be put as a least counterexample; what a fold computes over a
sequence of any length is left to TLC, and `PaidBy` is a recursive function for that
reason.

## 6. Where code and comments disagree

Two runs are counterexamples:

* `web_void`: a contact whose peer had not registered on the pool that
  `updateConnection` goes to keeps its lane of the old one
  (`apps/web/src/lib/store.ts:188`), and a message to it is confirmed on a lane nobody
  reads, against the comment at lines 170-177. A lane that a
  scan gives to such a contact (`store.ts:451-453`) is kept in the same way.
* `shield_fee`: in pool mode the shield of STRK approves the deposit alone, and
  the fee check takes that allowance for its own
  (`apps/web/src/lib/poolBackend.ts:325`): the pool pulls more than was approved,
  against the comment at lines 401-405.

The rest was seen in counterexamples while the models were written, and is part of
them: the properties above name it as their exception, or are weak enough to allow
it.

Command line client:

* Two overlapping flushes write the outbox over each other; entries go from
  "submitted" back to "queued", against the progression `sdk/src/outbox.ts:6`
  documents, and what `msg queue` added in between is gone.
* A flush whose answer was lost (`tail.ts:59`, `:67`) tries again; if its first
  transaction has landed, the second is refused as occupied, sealed behind it and
  stored, so that the batch is on the chain twice (`resilience.ts:60-77`).
* `msg sync --full` erases the history but keeps the watermark
  (`sdk/src/sync.ts:97-105`); interrupted, it leaves a watermark that overstates what
  has been seen, against `sdk/src/sync.ts:13-15`.
* A configuration saved from a copy of before the chain was asked loses a channel
  that another process added by hand, against `apps/cli/src/commands.ts:388`.
* `msg init` starts the configuration anew and keeps the cursors, the outbox and
  the history. `resolveChannel` takes the first channel of a label, whatever its
  direction. Direct mode never marks an entry "proving". A read saves its cursors
  before it prints, so one killed in between has shown nothing and skips it next
  time.

Web application, sending:

* `sendBatch` fails, its transaction lands later, and the next batch walks past it:
  the message is stored twice, against `apps/web/src/lib/store.ts:636-637`.
* The watch that confirms a wallet's submission asks whether the slots are
  occupied, and another writer's message confirms the batch
  (`apps/web/src/lib/walletBackend.ts:282`), against lines 176-177. A message that
  lands between two polls, before the wallet answers UNKNOWN, is reported as
  rejected though stored.
* A wallet may submit after the application has called it unreachable. The wallet's
  shield carries no message, so that its second attempt may deposit twice, against
  `apps/web/src/lib/wallet.ts:431`. `isolateActions` may wait on a silent wallet
  for ever. `shield` does not look at the receipt of its approval.
* A reload of the page leaves entries in "proving" or "submitted".
* A payment that is reported as failed may land later (`poolBackend.ts:479-494`,
  `store.ts:686-689`). Nothing starts a receipt check then (`ui/ThreadView.tsx:105`):
  ticks may stay on notes that it spent, until a memo or a confirmation comes.

Web application, contacts, groups, threads and session:

* `disconnect` wipes the storage, and an operation that was suspended saves into it
  again (`store.ts:342-346`). Two scans at once may add a peer twice. A label that is
  given to another contact takes the messages that wait under it along; so does the
  name of a group.
* Someone who joined a group by its invite without being declared is heard by
  nobody else (`apps/web/src/lib/groups.ts:54-63`), against
  `ui/GroupView.tsx:74` and `:76`.
* With equal time stamps the clients of two users settle requests differently,
  against `apps/web/src/lib/contacts.ts:129-131`; with the payer's clock behind, a
  request is never shown as paid. The split of a group pays without a memo on the
  pairwise lane, so that its receipts have none to tick.
* A signature that arrives late (`ui/Onboarding.tsx:266`) replaces a running session
  and its contacts; the continuation of a shield or a probe brings back the wallet
  that was unpicked (`:215`, `:240`). Acknowledgements can be unticked after they
  were passed.
* Saving the form of a mainnet session stores the Sepolia helper
  (`ui/Settings.tsx:56`, against the label at `:466`), and a pool session on mainnet
  is shown as Sepolia. The backup of a wallet session has no viewing key, and
  `parseBackup` refuses it, against `Settings.tsx:966-967` and `:989`; a restored
  backup always gives a demo session, without its groups. The timer that closes the
  form 900 ms after a save may close one opened since.

Pure functions:

* The price shown while a payment is composed counts the draft and a header of 52
  bytes; the body of a request is longer than that. A plain text of 52 bytes or
  more that begins with `PAY1` is read as a payment.

## 7. What is not modelled

* Keys and hashes: a ciphertext opens under its own key and index only, and the
  hash behind a slot's address, the derivations and the pairing keys are injective.
* Which notes the privacy SDK selects, how it builds a proof, and the calls by which
  the pool client and the gateways build one transaction: they keep no state.
* Writes below the opening and the filling of a file. A second tab of the web
  application.
* A reload of the page during a batch of several messages (`WebStore` reloads with
  one), two calls of one backend at a time (the flushes have them), so that a call
  begins in `Backends` only when the last one's transactions are settled; more than one
  operation of a user at a time, or another device of theirs, in `Threads`, and more
  than two in `Groups`.
* Submissions that land after they were reported as failed, in `WebStore` and
  `Groups`: they are in `WebFlush`, `CliFlush`, `CliFiles`, `Threads` and `Backends`.
* Chained and halved batches in `CliFiles`; they are in `CliFlush`, whose run has one
  command at a time in a directory. That cursors stay sound when commands overlap in one
  directory is the theorem `CursorsStaySound`, which holds for any number of them.
* The change of one's own identity, a reload and `disconnect` in a browser with
  groups; the order inside a group's thread, which is total and the same for all;
  the amounts of a split.
* Parsing of arguments and of what is typed into a field, the pool and direct forms
  of `Settings.tsx`, which no button of this build opens, the discovery of wallets, the
  wording of errors, the formatting of amounts and links, and everything that only
  shows state.
* Scripts, deployment and tables of test vectors: run by hand, and not part of the
  running system.

## 8. Plan

1. `WatermarkHonest` with two processes over one snapshot, which is open.
2. `WebFlush` across a reload, with the outbox of local storage as a second copy.
3. Groups whose browsers change identity and reconnect.
4. `Threads` with more than one operation of a user at a time.

## 9. Running

    tlc -config flush_devices.cfg MCCliFlush
    tlapm CliFlushProofs.tla

Each run takes one or two minutes at most on a laptop; the proofs take a few
minutes each, those of `CliFilesProofs` a quarter of an hour. Definitions whose comment
calls them a *copy* of another one hold a plausible mistake; replacing the original by its copy makes the property that
`PROJECT.json` pairs with it fail.
