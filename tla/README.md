# sky10 in TLA+

sky10 keeps an encrypted key-value store, file drives, agent mailboxes and
messaging adapters in step across the devices of one user, over libp2p and,
optionally, S3. Agents send each other messages across identities and pay for
services. This directory holds TLA+ models of four of its parts - the
replicated key-value store, the file drive daemon, the delivery of agent
messages, and the x402 budget - with TLC runs on small instances and TLAPS
proofs. All paths are relative to the repository.

## 1. The system

| component | state | operations | hard parts |
|---|---|---|---|
| KV merge rule (`pkg/kv/{causal,entry,snapshot}.go`) | version vectors, entries with a causal context, registers | `Observe`, `Merge`, `Dominates`, `compareCausal`, `buildSnapshot`, `DeltaSince` | order of merging, clocks of one-second resolution |
| KV local log (`pkg/kv/local.go`) | `kv-ops.jsonl`, cached snapshot, `seq` | `Append`, `AppendLocal`, `Snapshot`, `Compact`, `InvalidateCache`, rebuild | partial writes, restarts, counters after a failed append |
| KV store and P2P anti-entropy (`store.go`, `p2p.go`, `diffAndMerge` in `poller.go`) | push loop flags, streams, merges under way | `Set`, `Delete`, `PushToAll`, `syncWithPeer`, `handleSummary`, `mergeSnapshotMessage`, ticker | rounds and merges interleave, stale summaries, lost messages, restarts in the middle of a merge |
| KV S3 path (`poller.go`, `uploader.go`, `baseline.go`) | baselines per device, uploaded snapshots | poll, upload, legacy delete inference | deletes inferred with made-up counters |
| KV collections (`collections/`) | leases, append logs as keys | `Claim`, `Renew`, `Release` | check-then-act over a replicated store |
| FS ops log (`pkg/fs/opslog`) | file, directory and tombstone maps | append, `buildSnapshot`, compaction | `prev_checksum` supersession against clocks |
| FS watcher, outbox, reconciler (`pkg/fs`) | disk, pending events, `outbox.jsonl`, `local-disk-state.json`, ops log | watch, queue, drain, upload, scan, reconcile | the user edits files meanwhile; events get lost; an entry is removed by path and second |
| FS snapshot exchange and transfer workspace | baselines, staged chunks | push, poll, stage, publish, recover | crashes between staging and publishing |
| Agent mailbox (`pkg/agent/mailbox`) | items, events, claims, relay dropbox | create, append, reload, sweep, hand off, claim | a state derived from the last event, appended by several goroutines; sweep on a record read earlier |
| Agent router, registry, job store (`pkg/agent`) | agents, deliveries under way, jobs | send, drain outbox, live call, ingest, local drain, retry | late answers, lost receipts, items stored twice |
| x402 budget (`pkg/x402`) | catalog, approvals and pins, caps, today's spend, receipts | `Approve`, `StreamCall`, `Authorize`, `Charge` | authorize and charge are not atomic; midnight; restart |
| Messaging runtime and broker | adapter processes, drafts, approvals | start, restart with backoff, close | failures against close |
| Sandbox, update, apps, join, link, secrets, RPC, CLI, web | mostly external programs and I/O | | |

How they interact: every replicated component writes through the KV store
(mailbox items, leases, drive metadata), which appends to the local log and
pokes the push loop. Push rounds talk to the peers that `pkg/link` reports as
connected. A received delta is appended to the local log, and pokes the push
loop in turn. The FS daemon keeps a log of the same shape: watcher and scan
queue what they see on disk, the outbox worker uploads and then records it, an
exchange merges the entries of peers into the log, and the reconciler makes the
disk what the log says. The agent router reads and appends mailbox records from
several goroutines at once; between identities messages travel by a libp2p call
or, when it fails, through Nostr relays with receipts coming back. The x402
backend asks registry and budget one after the other before a paid call, and
charges the budget after it.

What makes each correct, in short: a write is never lost or undone by an older
one; two writes never share an identity; a summary never hides a write from a
device that lacks it; devices that have seen the same writes agree; after the
last write they come to agree; a restart gives back what was acknowledged;
what a drive offers can be downloaded, no deletion is made up, and the disk
comes to show what the log says; what a sender's mailbox says of a message is
true, and it comes to say something final; leases exclude; a budget is kept, and
nothing is paid without consent.

`PROJECT.json` lists the hazards of this code line by line, with the properties
that cover them.

## 2. Modules

* **KVCausal** - data types and the merge rule: vectors, entries,
  `HappenedAfter` (compareCausal), `Beats` (the four `*Beats` functions),
  `ApplyRegister` and `ApplyVector` (one iteration of `buildSnapshot`),
  `DeltaSince`. The maps `entries` and `deleted` of a Go snapshot are one
  register per key, since the code never lets both hold a key. Value bytes are
  left out: a write is identified by its dot <<device, counter>>. An entry's
  actor is its device (`NewLocalLog`), its counter is its `Seq`.
* **KVReplica** - the abstract specification. Each device has `log`, `reg` and
  `vec`; a step is one critical section of `LocalLog.mu`: `AppendLocal` on a
  device, or `Append` of an entry some device wrote, in any order and any
  number of times. No transport.
* **KVReplicaProofs** - the theorems about KVReplica.
* **KVSync** - the protocol in P2P-only mode (no S3), for one namespace:

  | action | code |
  |---|---|
  | `Write`, `WriteFails` | `Store.Set`, `Store.Delete`, `AppendLocal`, `pokeSync` |
  | `PushToAll`, `EndRound`, `Tick` | `PushToAll`, `runPushLoop`, `runPushRound`, the ticker |
  | `SendSummary`, `GiveUp` | `requestSummary`, its error and timeout |
  | `HandleSummary` | `handleSummary` with its follow-up delta |
  | `HandleAnswer` | the rest of `syncWithPeer` |
  | `StartMerge`, `MergeEntry`, `SkipEntry` | `mergeSnapshotMessage`, `diffAndMerge` entry by entry |
  | `Lose` | a broken stream |
  | `Restart` | the daemon stops and starts: `rebuildLocked`, `RegisterProtocol` |

  A message is read by `handleStream` in the step that handles it. Answers that
  arrive carry no data (`len(msg.Data) == 0`), so merging them does nothing. A
  write and its `pokeSync` are one step; `DeleteMany` is one write per key
  whose rounds are coalesced. The second a write carries is any of `Writes`, the
  next one's may be earlier: `AppendLocal` takes `time.Now().Unix()` as it is.
* **KVSyncProofs** - the theorems about KVSync: it implements KVReplica.
* **KVPairProofs** - two devices under KVSync agree when nothing is left to send.
* **KVLog** - the log of one device: the lines of the file, whether the last one
  is terminated, the cache, `seq`. `AppendLocalFails`, `AppendLocalStops` and
  `AppendRemoteFails` write nothing, a part of the line, or all but the newline.
  It justifies the one step in which KVSync rebuilds a device's snapshot and
  counter, and shows where that is not so (`log_torn`). `Replay` is the loop of
  `buildSnapshot` over the lines of a file, as a function of how many lines have
  been read.
* **KVLogProofs** - the theorems about KVLog.
* **MailboxRecord** - one record of an addressed item without a claim. The
  events of a record are kept as what the code asks of them: the last one (it
  decides the state, `deriveState`), which marks are among them, how many
  deliveries failed. The code counts failures without a limit and compares the
  count with the retry budget only, so the model counts up to the budget.
  `OutboxPending` and `InboxPending` are the two lists the drains work on: a
  failed record is in the first and not in the second. `Append`, `Create`,
  `Reload`, and `SweepRecord`, the decision of the lifecycle policy. `Create` writes its event to the backend
  only, so the index shows it after the next `Reload` (`unread`).
* **NetDelivery** - one message between agents of two identities:

  | action | code |
  |---|---|
  | `DrainNetworkOutbox`, `Retry` | the outbox drains, `mailbox.send`; `mailbox.retry` |
  | `Attempt`, `Delivered`, `LiveFails`, `HandoffItem`, `HandoffFails`, `CheckCurrent`, `HandedOff`, `DeliveryFailed` | `deliverNetworkMailbox`, one critical section of the store or one call at a time |
  | `HandlerGet`, `HandlerCreate`, `TooLate` | `agentMailboxDeliverHandler`, also after the caller timed out |
  | `ReadItem`, `IngestCreate`, `PublishReceipt`, `IngestReceipt` | `ingestNetworkRelayItem`, `publishNetworkDeliveryReceipt`, `ingestNetworkRelayReceipt` |
  | `Register`, `DrainList`, `DrainEmit`, `DrainDelivered` | `rpcRegister`, `DrainLocalPending` |
  | `SweepList`, `SweepAct` | `Store.Sweep`: decide on the record listed, act on the one there by then |
  | `Crash` | a daemon stops and starts |

  Relays are external: they keep what they acknowledged, and may keep what they
  did not. Left out: the second call of `sendNetworkMailboxLive` after a failed
  first, items without a route address, claims and queues, workflow items, and
  delivery between devices of one identity.
* **FSOpsLog** - the ops log for one path: `Beats` (the clock), `EntryDescends`
  and `ValueDescends` (`prev_checksum`), and `Apply`, one iteration of
  `buildSnapshot`.
* **FSDrive** - the daemon of one device, for one path of one drive:

  | action | code |
  |---|---|
  | `UserChange`, `MergeRemote`, `Tick` | the user, a peer's entry merged, the clock in seconds |
  | `FlushPending`, `HandleModified`, `HandleQueue`, `HandleDeleted` | `Watcher.flushPending`, `WatcherHandler.HandleEvents` |
  | `Drain`, `RecordGone`, `Refresh`, `Upload`, `UploadFails`, `RecordPut`, `RecordDelete`, `RemoveEntry` | `OutboxWorker.drain` and what it calls, `SyncLog.Remove` |
  | `ScanDirectory`, `ScanSnapshot`, `ScanPut`, `ScanDelete` | `seedStateFromDisk`, at the start and from `localScanLoop` |
  | `ReconSnapshot`, `ReconPlan`, `Download`, `DownloadFails`, `Publish`, `DeleteFile` | `Reconciler.reconcile`, `publishStagedFile` |
  | `Crash`, `Start`, `Drained` | a stop anywhere, also within the rewrite of the outbox file; `recoverTransferWorkspace`; the order of `Run` |

  A content is its checksum, and `Empty` the one of the empty file: `Download`
  does not put it over a file that has content
  (`TestReconcilerSkipsEmptyOverNonEmpty`), and where there is no file it writes
  one in place, without staging. Left out: directories, symlinks, tombstones of
  directories and drives, conflict copies, the Windows path policy, a peer's
  copies of this device's own entries, and the deletes a peer infers from a
  baseline.
* **X402Budget** - catalog, approvals and pins of all agents, and the budget and
  concurrent calls of one of them:

  | action | code |
  |---|---|
  | `AddManifest`, `Approve`, `Revoke`, `SetUserEnabled`, `SetUserDisabled` | `Registry` |
  | `ReadManifest`, `Resolve`, `Authorize`, `Answer`, `NoReceipt`, `Charge` | `Backend.StreamCall`, one lock at a time; `Budget.Authorize`, `Budget.Charge` |
  | `Midnight`, `Restart` | `dayLocked` finds a new date; `NewBudget`, `ensureBudget` and `NewRegistry` |

  The transport pays what the live challenge asks and compares it with nothing;
  `Asked` says what a service with a given manifest may ask. `ReloadedPins` is
  what `NewRegistry` makes of the saved pins, which do not say whose they are:
  those of a service all go to the first agent that has an approval of it. Caps
  do not change while calls run.
* **NetDeliveryProofs, FSDriveProofs, X402BudgetProofs** - the theorems about
  these three.
* **MCKVReplica, MCKVSync, MCKVLog, MCNetDelivery, MCFSDrive, MCX402Budget** -
  the instances for TLC.

Definitions called "Mutant of ..." are small wrong variants of the definition
below them; replacing the definition by its mutant must break a property.

## 3. Runs

| run | result | question |
|---|---|---|
| `replica_safety` | holds | three devices, one key, all writes in one second: unique dots, causally closed vectors, exact causality, read-your-writes |
| `replica_order` | **violated** | does the order of merging matter? (finding 1) |
| `sync_pair` | holds | two writers, one key, one fault of any kind: does the protocol implement KVReplica, are counters never reused, does quiet mean equal, and does the ticker alone make the devices agree? |
| `sync_relay` | **violated** | does a device that hears of writes through another one converge? (finding 2) |
| `log_rebuild` | holds | does a rebuild give the cached snapshot back, also after a compaction; does what a key shows give way only to an entry that beats it; are counters unique? |
| `log_torn` | **violated** | do acknowledged writes survive corrupt lines? (finding 3) |
| `mailbox_delivery` | holds | calls, late answers, handoffs, receipts, drains, sweep, one restart and one retry interleave: is what the sender's record says true, is it forgotten only when accounted for, does the sender learn the outcome? |
| `mailbox_at_least_once` | **violated** | is a received message kept for its agent until the agent has been given it? (finding 4) |
| `fs_drive` | holds | user, watcher, outbox worker, scan, reconciler, a peer and one stop on one file: is what is recorded uploaded, is every deletion real, does the disk follow the log? |
| `fs_revert` | **violated** | does a direct successor replace what the log holds? (finding 5) |
| `x402_consent` | holds | two calls at once, changes of manifest and of two agents' approvals, one midnight, one restart, a service that asks too much: is every payment consented to? |
| `x402_cap` | **violated** | do the receipts of a day stay within the caps? (finding 6) |

Bounds. Three devices are needed for a write to arrive through another device
and for a cycle of the merge rule among writes of one second; two for every race
between two push loops. Two writes on one device give a causal pair, one write
elsewhere a concurrent one. One second for all clocks (`Times = {1}`) makes every
comparison go down to the tie-breakers; in `sync_pair` the device that deletes is
a second behind the one that sets, so that a causally later delete is the older
one by clock. KVReplica's theorems cover all clocks. One fault is enough to cut
any exchange or merge anywhere. In the log, three lines hold two writes of the
device and one of a peer, with one partial write and one compaction; two keys
(1.3 million states) were checked by hand.
`CHECK_DEADLOCK FALSE` stands where the model may stop: KVReplica, once the
quotas are used up and everything is merged, and NetDelivery, where the life of
the one item ends.

In `sync_pair` only device 1 runs rounds: `Links` says whom a device counts among
its connected peers, which depends on its own manifest
(`ConnectedPrivateNetworkPeers`), so one that does not list the other yet is a
real state. Three more instances of KVSync were checked by hand. With rounds in
both directions, one write each and no fault, four deltas and two merges can
overlap (66,747 states). With two keys, set and deleted by one device, and one
fault, a delta has two entries and a merge can be cut between them. With device
1 writing at second 3 and then at second 1 and device 2 at second 2, the devices
end up quiet and different without any fault: that is what the exception
`ClocksRunForward` of `QuietMeansEqual` and `Convergence` is for, and with it the
same instance holds, one fault included (914,833 states).

In `mailbox_delivery` one deliverer, one relay reader and one local drain give
every race between a live call and the relay; `MaxAttempts = 1` makes a dead
letter and its retry happen. A deliverer on the recipient's side, the
recipient's sweep (`Sweeps`) or expiry (`Expires`) are too many states together
for a run; the theorems cover them, `mailbox_at_least_once` has the recipient's
deliverer, and the invariants of the run were checked with expiry by hand (1.5
million states).

In `fs_drive` the user has a content and the empty one, the remote entries put
the same content, put the empty one on top of it, or delete it, the two seconds
make the checksum and the clock rules disagree, and one stop reaches every step.
Larger instances were checked by hand (two merges without a stop, 1.2 million
states; two edits with a stop and no merge, 507 thousand; a drive that starts
with a file, 803 thousand). In `x402_cap` two calls of price 2 against a cap of
2 for the service and 3 for the day can be authorised together; by hand, one
call at a time breaks the caps with one restart, and keeps them without. In
`x402_consent` two agents and three changes let a pin go astray in the restart;
two services with a cap each (357 thousand states) were checked by hand.

Fairness (`KVSync!Fairness`): the ticker fires, a running push loop and a
running merge go on, a stream that does not break delivers, and the wait for an
answer that cannot come ends (`summaryExchangeTimeout`). Goroutines and timers
give that as long as the daemon runs. Nothing is assumed of writes or faults,
and faults are bounded, as "the network works again at some point".

`NetDelivery!Fairness`: the outbox safety sweep, the relay poller and the
lifecycle sweep come again with their timers, and every goroutine goes on. The
last holds as long as the sweep finds its store in order: `RunLifecycle` returns
at the first error of `Sweep` and is not started again (`lifecycle.go:205-207`).
No call has to get through and no relay has to take a handoff: the retry budget
ends such an item. Strong fairness stands for the two things that are tried
again and again: reading a stored handoff, and publishing its receipt.

`FSDrive!Fairness`: every goroutine goes on, scan and reconciliation come again
with their tickers, and an upload or download that is retried for ever succeeds
at some time (strong fairness). `DiskFollowsLog` is stated for a log that
settles, because watcher and reconciler can chase each other for ever: the
watcher queues what the reconciler has just published while the reconciler
undoes what the watcher has just recorded. What it shows is that the log cannot
settle on something else than the disk, with one exception that the reconciler
makes on purpose: where the log has the empty file on top of the content that is
on disk, it is never downloaded, and the put that the scan then queues is dropped
as an ancestor. X402Budget has no liveness property.

### Findings

1. `replica_order`: `buildSnapshot` says "Processing order is irrelevant
   (commutative)". A causal pair and a third write concurrent with both can form
   a cycle; three devices with the same log then hold different values, for good.
   Two devices are enough if a clock is set back between two writes of one device,
   which `AppendLocal` does not guard against.
2. `sync_relay`: `mergeSnapshotMessage` re-broadcasts "so other connected peers
   converge too". A push in the middle of a merge sends the later of two writes,
   whose context covers the earlier one; the third device's vector then claims
   the earlier write and no one ever sends it. The same happens on two devices
   when one append of a merge fails or the daemon stops in the middle of it:
   `QuietMeansEqual` and `Convergence` except merges cut short (`skipped`).
3. `log_torn`: `readAllLocked` skips corrupt lines "for crash tolerance", but
   the append after a partial write is joined to the partial line and lost.
4. `mailbox_at_least_once`: the mailbox design says "**delivery**: at-least-once"
   (`docs/work/past/2026/04/11-Mailbox.md:111`). `DrainNetworkOutbox` lists
   `ListOutbox("")`, which on the recipient's device also returns received items
   that wait for their agent. The device hands such an item to its own dropbox,
   reads it back, sends itself a receipt, and the receipt marks the item
   delivered: the agent is never given it.

5. `fs_revert`: `buildSnapshot` says "a direct causal successor (prev_checksum
   matches the current checksum) beats its ancestor even if wall-clock ordering
   disagrees" (`opslog.go:942-943`), and "Causality beats clocks" is a required
   invariant of the drive (`docs/work/current/fs-sync-model-and-invariants.md:97`).
   It asks first whether what it holds descends from the entry: after a, b and a
   again both descend from each other, and the successor is dropped.
6. `x402_cap`: "the budget caps ensure no single bad service can do more than the
   cap's worth of damage in a day" (`docs/work/current/x402/threat-model.md:143-145`).
   `Authorize` reserves nothing and `Charge` comes after the paid call, so calls
   that are authorised together exceed service and daily cap; and a restart
   forgets the day's spend although the receipts are loaded.
7. "Transport refuses to sign if the live quote exceeds the caller's
   `max_price_usdc`" (`threat-model.md:42-43`). `StreamCall` gives `Authorize` the
   manifest's price as the quote, and `Transport.Stream` compares the challenge
   with nothing. `WithinCallersMax` is violated in the instance of `x402_consent`,
   where a service asks more than its manifest says; it has no run of its own.

A theorem says how far each finding goes. With two devices whose clocks run
forward the order of merging is irrelevant (`PairOrderIsIrrelevant`) and nothing
is withheld (`PairAgrees`); a log loses acknowledged writes only to a line glued
to a partial one (`OnlyGluedLinesAreLost`); a received message is lost only to the
outbox drain of the recipient's own device (`OwnOutboxOnly`); a successor is
dropped only if it restores the content before the last edit
(`SuccessorsReplace`). If no service asks more than its manifest says, a single
call at a time keeps the caps until a restart (`CapsOfOneCall`), several exceed
them by what all but one of them may cost (`OvershootBound`), once for every
start of the daemon (`DayBound`), and each stays within its caller's maximum
(`CallersMax`).

Things met on the way that no run speaks of:

* KV log: what a key shows only ever gives way to an entry that beats it, and
  `ReadsNeverGoBack` says so step by step. It does not say that an entry that
  lost never returns: the merge rule has cycles (finding 1), so an entry can be
  beaten by one that is beaten by another that it beats itself, and a compacted
  log that is rebuilt has a smaller vector, so that an old entry is merged anew.
* Mailbox: an event appended after `delivered` makes the record queued again, so
  a message may be emitted twice, and one appended after `expired` leaves it
  queued; a compacted item is created again from a handoff the relays still
  hold; an item that is retried after it was dead-lettered is never
  dead-lettered again.
* Drive: the reconciler may overwrite an edit the watcher has not read ("Conflict
  preserves user data" is a required invariant of the drive, but the conflict
  copies that are the code's answer are not modelled); a file created again where the log has a
  tombstone is deleted if its event was lost; `Remove` drops every outbox entry
  of the path and second; a staged download is published at the next start over
  edits made while the daemon was down; while uploads fail every scan queues the
  same put again.
* x402: a call without a readable receipt is not charged;
  `Approval.MaxPriceUSDC` is stored and never enforced; a restart gives the pin of
  one agent to another or drops it, where "Pins are scoped per agent in this
  design" (`registry.go:100`), so that an approved call is refused or one agent
  pays for a manifest another one approved. Outside tests nobody calls `Approve`
  yet; the user-level enable keeps its pin.

## 4. Proofs

`KVReplicaProofs` proves, for any set of numbered devices, any keys, clocks and
quotas, that KVReplica always satisfies `Inv`, and from it `TypeOK`,
`DotsAreUnique`, `NothingFromTheFuture`, `CausallyClosed`, `VectorCoversHeld`,
`CausalityIsExact` and the action property `ReadYourWrites`.

`Inv` is the conjunction of the first five. None is inductive alone: that a new
dot is unique needs the author's own vector component to be the largest anywhere
(`NothingFromTheFuture`); that stays so when an entry is merged because its
context was its author's vector; that the merged vector is causally closed needs
contexts to be closed too (`CausallyClosed` speaks of both); and causality is
exact because a context that covers a dot covers that write's whole context,
while the author of a write can never appear in the context of one it had not
made. `ReadYourWrites` follows since a new write's context is the vector that
covers whatever the register holds.

`KVSyncProofs` proves, for any devices, keys, links, quotas and faults, that
KVSync implements KVReplica (`Implementation`), so that the theorems above hold
of devices that exchange summaries and deltas, lose messages, fail to append and
restart. Along the way it proves `TypeOK`, `SeqCoversVector` and
`SummariesAreStale`. The inductive invariant `SyncInv` joins KVReplica's `Inv`
with four facts about the protocol. A delta on the wire and a merge under way
hold only entries that are in some log (`EntriesAreIssued`): without it a merge
would not be a step `Append` of KVReplica. The own component of a device's
vector is the counter of an own entry in its log, no own entry has a larger one,
and `seq` is not below it (`LastOwnWriteIsLogged`): so the counter that a
restart rebuilds is fresh. That the own component does not move when the
device's own entries come back from a peer is `NothingFromTheFuture` of `Inv`,
which is why the two invariants are proved together.

`KVPairProofs` proves, for two devices (`TwoDevices`) and any keys, links, quotas
and faults, `QuietMeansEqual` (`PairAgrees`) and that the order of merging is
irrelevant (`PairOrderIsIrrelevant`), as long as no device's later write carries
an earlier second (`ClocksRunForward`, a state predicate over the logs that once
false stays false). Both hypotheses are needed: the runs `replica_order` and
`sync_relay` refute the two with three devices, and a clock that is set back
refutes them with two (section 3). The first half of the argument is about the
merge rule. While clocks run forward, causal order and clock order agree on the
writes of one device (`Ordered`); with two devices, two of any three writes have the same author, and
then `Beats` is transitive (`BeatsIsTransitive`). It is a strict total order, and
an append never loses what a register made up for (`AppendLosesNothing`). The
second half is the inductive invariant `PairInv`: a device's vector covers a
write only if the device holds that write, or one that beats it, or has one in a
merge that is under way (`CoveredIsPresent`). To survive the entries of a delta
one by one it needs that a delta, with what the receiver has, leaves no gap
before any of its entries (`DeltasAreComplete`, `MergesAreComplete`), which holds
because the author of a write always holds it or one that beats it
(`OwnWritesAreHeld`) and because a delta is computed against a vector that the
receiver has outgrown (`SummariesAreStale`). When nothing is left to send, each
device makes up for what the other holds, and of two entries that beat each
other there are none. A merge that was cut short (`skipped`) breaks
`CoveredIsPresent` for good, which is the exception of the property.

`KVLogProofs` proves, for any finite set of keys, any peers, counters and length
of file, `TypeOK`, `RebuildIsExact`, `CountersAreNotReused`, the action property
`ReadsNeverGoBack`, and that acknowledged appends are in the file until a line
is glued (`OnlyGluedLinesAreLost`). What `Replay` computes is shown by induction
over the lines of a file, from the least number of lines for which a statement
fails (`LeastNumber`): a snapshot shows for a key no entry but one of that key
(`ReplayType`); a line appended is one more step (`RebuiltAppend`); and a file of
entries with different keys, which is what `Compact` writes, gives these entries
back whatever their order (`RebuiltCompacted`). `LogInv` adds to the properties
that the cache holds under a key only entries of that key (`CacheIsKeyed`); that
a file without a final newline has a last line, and a warm cache was built with
this line or without it (`UnterminatedLineIsLast`); and that the device's
acknowledged writes are in the file and, while the cache is warm, `seq` is not
below any own write that the file holds (`OwnWritesAreInFile`).

`NetDeliveryProofs` proves, for any goroutines on either device, any retry
budget, and any sweeps, retries and restarts, with expiry or without, `TypeOK`,
`DeliveredMeansReceived`, `HandoffIsStored` and `ForgottenIsAccounted`. The
inductive invariant `DeliveryInv` adds what the goroutines carry from one
critical section to the next. An answer in flight (`handler = "answered"`) and a
receipt for the sender both mean that the recipient has stored the item; a
deliverer past a successful handoff means that the relays hold it; a sweep that
has decided to compact had seen a record whose item was received or that had been
closed, and neither is ever undone. So it does not matter that the record has
changed by the time the sweep acts.

`OwnOutboxOnly` proves `AtLeastOnce` if all deliverers run on the sender's device
(`OutboxIsSenders`), the case that finding 4 leaves. Nobody then hands off or
confirms the item in the recipient's name (`RelayInv`), so no sweep of the
recipient dead-letters it and only a local drain, which has emitted it before,
appends `delivered` (`PendingInv`).

`FSDriveProofs` proves, for any contents, remote entries, clocks and bounds,
`TypeOK`, `RecordedIsUploaded`, `NoPhantomDelete` and the action property
`OnlyARevertIsDropped` (`SuccessorsReplace`), which is what finding 5 leaves of
`SuccessorReplaces`. `DriveInv` says of each step of the worker, the scan and
the reconciler what it still relies on: an entry past `Upload` is in `store`,
which only grows; a put that is queued, planned or refreshed and a download under
way name a content; and while no file of this disk has ever been removed
(`PresenceInv`), no deletion is batched, queued or under way, and as long as
there is no file nothing is queued or pending at all and `local-disk-state.json`
names no file.

`X402BudgetProofs` proves, for any agents, calls, services, prices, caps and
amounts asked, `TypeOK` and `PaidAsConsented`: whatever pin a reload hands to
whom, it was made from a manifest that was consented to. If no service asks more
than its manifest says (`NoSurcharge`), it also proves `OvershootIsBounded`,
`ADayIsBounded` and `WithinCallersMax`, and `CapsAreKept` for a single call at a
time and no restart. The limits are not inductive: a call that was authorised
adds to the spend later. `BudgetInv` bounds the spend of a line together with
what the calls under way may still add; since `Authorize` compares with the
spend alone, the bound is by the number of calls, and the calls that run are
counted with the cardinality theorems (`Covered`). For a day's receipts it keeps
what the restarts have forgotten apart from what is on the spend record
(`TodayInv`), and accounts for receipts that are dated before midnight and
charged after it (`PastInv`).

Assumptions: devices of KV and drive are natural numbers in the order of their
IDs; `NoEntry`, `NoRecord`, `NoSum` and `NoPin` are none of the values they stand
beside; quotas, clocks, prices and caps are natural numbers; the two mailbox
devices differ, and readers and drainers are different goroutines; remote
entries of a drive are other devices' entries, and a remote put has a checksum;
the empty file has a checksum like any other; agents are natural numbers in the
order of their IDs, and a service may ask at least what its manifest says; the
calls that can run at one time are finitely many and at least one.

The keys in a log are finitely many, since a process holds them in memory, and
the marker of a corrupt line and that of a cold cache are no entry and no
snapshot.

Only model-checked: `Convergence`, `OutcomeIsLearned` and `DiskFollowsLog`,
which are liveness under fairness and out of the prover's reach.

## 5. Not modelled, and the plan

The models cover the protocols in which state is shared between devices,
goroutines and restarts; by lines they are a small part of a repository most of
which is commands, RPC plumbing, installers and front ends.

Worth modelling next, in this order:

1. *KVLease* and mailbox claims on top of KVReplica: two devices that claim
   before they have exchanged entries; the sweep against a renewal; public queue
   items that are claimed through the relay on two devices.
2. *KVBackup*: the S3 path with baselines and the legacy delete inference, which
   makes up an entry with another device's next counter; the FS exchange of
   snapshots, which does the same (`snapshot_poller.go:272`).
3. *FSDrive* for a directory with files: `RemoveAll` against a file that was just
   created, directory and drive tombstones, conflict copies.
4. *ManagedAdapter*: the messaging supervisor with backoff and close.
5. *X402Budget* with caps that change while calls run.

Left out for good: encryption and chunking (byte-level data), discovery and
libp2p internals, sandboxes, applications and installers (external programs),
signing and settlement of payments (an external service), front ends.
