------------------------------- MODULE FSDrive -------------------------------
(***************************************************************************)
(* The file drive daemon of one device (pkg/fs: DaemonV2_5, Watcher,       *)
(* WatcherHandler, OutboxWorker, Reconciler, transfer workspace), for one  *)
(* path: the watcher and the periodic scan queue what they see on disk,    *)
(* the outbox worker uploads it and then records it in the log, remote     *)
(* entries are merged into the log, and the reconciler makes the disk what *)
(* the log says.  None of them excludes another: each reads disk, log and  *)
(* outbox at different moments and acts on what it read.                   *)
(***************************************************************************)
EXTENDS FSOpsLog, FiniteSets, Sequences, SequencesExt

CONSTANTS Empty,       \* checksum of the empty file
          Initial,     \* bound: contents of the drive at the start
          Remote,      \* bound: entries other devices may send
          MaxTime,     \* bound: seconds that pass
          MaxEdits,    \* bound: changes by the user
          MaxMerges,   \* bound: deliveries of remote entries
          MaxQueue,    \* bound: entries in the outbox when the watcher queues or a
                       \* periodic scan begins
          MaxCrashes   \* bound: stops of the daemon

ASSUME EmptyIsContent == Empty \in Sums

ASSUME RemoteIsForeign ==
  /\ Remote \subseteq Entry
  /\ \A e \in Remote : e.dev # Self /\ (e.op = "put" => e.sum # NoSum)

ASSUME FSBoundsAreBounds ==
  /\ Initial \subseteq Sums \cup {NoSum}
  /\ {MaxTime, MaxEdits, MaxMerges, MaxQueue, MaxCrashes} \subseteq Nat

VARIABLES
  disk,      \* checksum of the file on disk, NoSum if there is none
  pending,   \* Watcher.pending holds the path
  batch,     \* first event of the watcherLoop's batch, or "none"
  handling,  \* what HandleEvents has read of a modified file, NoSum if idle
  outbox,    \* outbox.jsonl
  work,      \* the outbox worker: step, entry, prev checksum
  scan,      \* the local scan: step, what it read of disk and log
  local,     \* local-disk-state.json: the last scan saw the file
  recon,     \* the reconciler: step, snapshot, and then what to do
  log,       \* the snapshot's value for the path
  store,     \* contents whose blobs are uploaded
  boot,      \* where Run is: "down", "seed", "drain", "run"
  now, edits, merges, crashes,
  removed    \* history: the file was on disk and was removed

watch == <<pending, batch, handling>>
bounds == <<edits, merges, crashes>>
vars == <<disk, watch, outbox, work, scan, local, recon, log, store, boot,
          now, bounds, removed>>

Contents == Sums \cup {NoSum}
NoEntry == [op |-> "delete", sum |-> NoSum, ts |-> 0]
OutboxEntry == [op : {"put", "delete"}, sum : Contents, ts : Nat]
WorkIdle == [at |-> "idle", entry |-> NoEntry, sum |-> NoSum]
ScanIdle == [at |-> "idle", disk |-> NoSum, known |-> NoSum]
ReconIdle == [at |-> "idle", kind |-> "none", sum |-> NoSum]

\* The checksum Lookup finds in the log.
Lookup == IF log.kind = "file" THEN log.sum ELSE NoSum

\* AppendLocal.
AppendLocal(op, sum, prev, ts) ==
  log' = Apply(log, [op |-> op, sum |-> sum, prev |-> prev, ts |-> ts,
                     dev |-> Self, seq |-> 0])

Enqueue(op, sum) == outbox' = Append(outbox, [op |-> op, sum |-> sum, ts |-> now])

Queue(op, sum) == Len(outbox) < MaxQueue /\ Enqueue(op, sum)

\* Something changed the file: fsnotify tells a watcher that runs, unless the
\* event gets lost.
Changed(c) ==
  /\ disk' = c
  /\ removed' = (removed \/ (disk # NoSum /\ c = NoSum))

\* Nothing there, or a file that the drive has recorded and scanned.
Init ==
  /\ disk \in Initial
  /\ log = IF disk = NoSum THEN NoValue
           ELSE [NoValue EXCEPT !.kind = "file", !.sum = disk]
  /\ local = (disk # NoSum)
  /\ store = {disk} \cap Sums
  /\ pending = FALSE /\ batch = "none" /\ handling = NoSum
  /\ outbox = <<>> /\ work = WorkIdle /\ scan = ScanIdle /\ recon = ReconIdle
  /\ boot = "run"
  /\ now = 0 /\ edits = 0 /\ merges = 0 /\ crashes = 0
  /\ removed = FALSE

-----------------------------------------------------------------------------
(* The world around the daemon. *)

Tick ==
  /\ now < MaxTime
  /\ now' = now + 1
  /\ UNCHANGED <<disk, watch, outbox, work, scan, local, recon, log, store, boot,
                 bounds, removed>>

\* The user writes or deletes the file.
UserChange(c) ==
  /\ edits < MaxEdits /\ c # disk
  /\ edits' = edits + 1
  /\ Changed(c)
  /\ pending' \in {pending, boot # "down"}
  /\ UNCHANGED <<batch, handling, outbox, work, scan, local, recon, log, store,
                 boot, now, merges, crashes>>

\* mergePeerSnapshot or diffAndMerge appends an entry of another device, maybe
\* not for the first time.  The other device has uploaded what it records.
MergeRemote(e) ==
  /\ boot # "down" /\ merges < MaxMerges
  /\ merges' = merges + 1
  /\ log' = Apply(log, e)
  /\ store' = store \cup ({e.sum} \cap Sums)
  /\ UNCHANGED <<disk, watch, outbox, work, scan, local, recon, boot, now,
                 edits, crashes, removed>>

-----------------------------------------------------------------------------
(* Watcher and WatcherHandler. *)

\* flushPending looks at the disk to tell a change from a deletion.  HandleEvents
\* keeps the first event of a batch for a path.
FlushPending ==
  /\ boot # "down" /\ pending
  /\ pending' = FALSE
  /\ batch' = IF batch # "none" THEN batch
              ELSE IF disk = NoSum THEN "deleted" ELSE "modified"
  /\ UNCHANGED <<disk, handling, outbox, work, scan, local, recon, log, store,
                 boot, now, bounds, removed>>

\* HandleEvents for a modified file: its checksum; no file, no event.
HandleModified ==
  /\ boot = "run" /\ batch = "modified" /\ handling = NoSum
  /\ batch' = "none"
  /\ handling' = disk
  /\ UNCHANGED <<disk, pending, outbox, work, scan, local, recon, log, store,
                 boot, now, bounds, removed>>

\* Then it is queued unless the log knows it.
HandleQueue ==
  /\ handling # NoSum
  /\ handling' = NoSum
  /\ IF Lookup = handling \/ disk = NoSum THEN UNCHANGED outbox
     ELSE Queue("put", handling)
  /\ UNCHANGED <<disk, pending, batch, work, scan, local, recon, log, store,
                 boot, now, bounds, removed>>

\* A deletion is queued if the log has the file.
HandleDeleted ==
  /\ boot = "run" /\ batch = "deleted" /\ handling = NoSum
  /\ batch' = "none"
  /\ IF log.kind = "file" THEN Queue("delete", log.sum) ELSE UNCHANGED outbox
  /\ UNCHANGED <<disk, pending, handling, work, scan, local, recon, log, store,
                 boot, now, bounds, removed>>

-----------------------------------------------------------------------------
(* OutboxWorker. *)

Working(at, sum) == work' = [work EXCEPT !.at = at, !.sum = sum]

\* drain takes the first entry; uploadFile compares it with the disk, and looks
\* up the checksum it replaces.
Drain ==
  /\ boot \in {"drain", "run"} /\ work.at = "idle" /\ outbox # <<>>
  /\ LET e == Head(outbox) IN
     work' = [entry |-> e,
              at |-> CASE e.op = "delete" -> "deleting"
                       [] e.op = "put" /\ disk = NoSum -> "gone"
                       [] e.op = "put" /\ disk = e.sum -> "uploading"
                       [] OTHER -> "changed",
              sum |-> IF e.op = "put" /\ disk = e.sum THEN Lookup ELSE disk]
  /\ UNCHANGED <<disk, watch, outbox, scan, local, recon, log, store, boot, now,
                 bounds, removed>>

\* recordDeleteForMissingFile.
RecordGone ==
  /\ work.at = "gone"
  /\ AppendLocal("delete", NoSum, work.entry.sum, now)
  /\ Working("remove", NoSum)
  /\ UNCHANGED <<disk, watch, outbox, scan, local, recon, store, boot, now,
                 bounds, removed>>

\* refreshPutEntry.
Refresh ==
  /\ work.at = "changed"
  /\ Enqueue("put", work.sum)
  /\ Working("remove", NoSum)
  /\ UNCHANGED <<disk, watch, scan, local, recon, log, store, boot, now, bounds,
                 removed>>

\* Mutant of Upload: a file that is gone by then counts as an empty one.
UploadMissing ==
  /\ work.at = "uploading"
  /\ \/ /\ store' = store \cup {work.entry.sum}
        /\ Working("uploaded", work.sum)
     \/ /\ disk # work.entry.sum
        /\ store' = store \cup {disk}
        /\ work' = WorkIdle
  /\ UNCHANGED <<disk, watch, outbox, scan, local, recon, log, boot, now, bounds,
                 removed>>

\* Put: the content uploaded is the one that was opened, or the one a write in
\* place has made of it, which does not count.
Upload ==
  /\ work.at = "uploading"
  /\ \/ /\ store' = store \cup {work.entry.sum}
        /\ Working("uploaded", work.sum)
     \/ /\ disk \notin {NoSum, work.entry.sum}
        /\ store' = store \cup {disk}
        /\ work' = WorkIdle
  /\ UNCHANGED <<disk, watch, outbox, scan, local, recon, log, boot, now, bounds,
                 removed>>

\* Mutant of UploadFails: the error is dropped.
UploadFailsUnnoticed ==
  /\ work.at = "uploading"
  /\ Working("uploaded", work.sum)
  /\ UNCHANGED <<disk, watch, outbox, scan, local, recon, log, store, boot, now,
                 bounds, removed>>

\* It fails, and the entry is tried again after a pause.
UploadFails ==
  /\ work.at = "uploading"
  /\ work' = WorkIdle
  /\ UNCHANGED <<disk, watch, outbox, scan, local, recon, log, store, boot, now,
                 bounds, removed>>

\* Upload-then-record, with the time at which the entry was queued.
RecordPut ==
  /\ work.at = "uploaded"
  /\ AppendLocal("put", work.entry.sum, work.sum, work.entry.ts)
  /\ Working("remove", NoSum)
  /\ UNCHANGED <<disk, watch, outbox, scan, local, recon, store, boot, now,
                 bounds, removed>>

\* writeDeleteOp.
RecordDelete ==
  /\ work.at = "deleting"
  /\ AppendLocal("delete", NoSum, work.entry.sum, work.entry.ts)
  /\ Working("remove", NoSum)
  /\ UNCHANGED <<disk, watch, outbox, scan, local, recon, store, boot, now,
                 bounds, removed>>

\* Remove keeps what was not queued in the same second as the entry, in its order.
Kept ==
  LET kept == {i \in DOMAIN outbox : outbox[i].ts # work.entry.ts}
      Orders == {f \in [1..Cardinality(kept) -> kept] :
                   \A i, j \in DOMAIN f : i < j => f[i] < f[j]}
  IN {[i \in DOMAIN f |-> outbox[f[i]]] : f \in Orders}

RemoveEntry ==
  /\ work.at = "remove"
  /\ outbox' \in Kept
  /\ work' = WorkIdle
  /\ UNCHANGED <<disk, watch, scan, local, recon, log, store, boot, now, bounds,
                 removed>>

-----------------------------------------------------------------------------
(* seedStateFromDisk, at the start and then again and again. *)

ScanDirectory ==
  /\ scan.at = "idle"
  /\ boot = "seed" \/ (boot = "run" /\ Len(outbox) < MaxQueue)
  /\ scan' = [at |-> "scanned", disk |-> disk, known |-> NoSum]
  /\ UNCHANGED <<disk, watch, outbox, work, local, recon, log, store, boot, now,
                 bounds, removed>>

\* saveLocalDiskState ends a scan, and the first one lets Run go on.
ScanSaved ==
  /\ local' = (scan.disk # NoSum)
  /\ scan' = ScanIdle
  /\ boot' = IF boot = "seed" THEN "drain" ELSE boot

\* Mutant of ScanPlan: local-disk-state.json is not asked.
ScanPlanForgets ==
  CASE scan.disk # NoSum /\ log.kind # "deleted" /\ scan.disk # Lookup -> "put"
    [] scan.disk = NoSum /\ Lookup # NoSum -> "delete"
    [] OTHER -> "keep"

\* Mutant of ScanPlan: new files are left to the watcher.
ScanPlanKnownOnly ==
  CASE scan.disk # NoSum /\ Lookup # NoSum /\ scan.disk # Lookup -> "put"
    [] scan.disk = NoSum /\ Lookup # NoSum /\ local -> "delete"
    [] OTHER -> "keep"

\* What the snapshot makes of a file that is there and of one that is not.
ScanPlan ==
  CASE scan.disk # NoSum /\ log.kind # "deleted" /\ scan.disk # Lookup -> "put"
    [] scan.disk = NoSum /\ Lookup # NoSum /\ local -> "delete"
    [] OTHER -> "keep"

ScanSnapshot ==
  /\ scan.at = "scanned"
  /\ IF ScanPlan = "keep" THEN ScanSaved
     ELSE /\ scan' = [scan EXCEPT !.known = Lookup, !.at = ScanPlan]
          /\ UNCHANGED <<local, boot>>
  /\ UNCHANGED <<disk, watch, outbox, work, recon, log, store, now, bounds, removed>>

\* At the start what was scanned is queued, later what is there after the settle
\* window, if there is still something to queue.
ScanPut ==
  LET sum == IF boot = "seed" THEN scan.disk ELSE disk IN
  /\ scan.at = "put"
  /\ IF disk = NoSum \/ sum = scan.known THEN UNCHANGED outbox ELSE Enqueue("put", sum)
  /\ ScanSaved
  /\ UNCHANGED <<disk, watch, work, recon, log, store, now, bounds, removed>>

\* A deletion goes to the log directly, and names no predecessor.
ScanDelete ==
  /\ scan.at = "delete"
  /\ AppendLocal("delete", NoSum, NoSum, now)
  /\ ScanSaved
  /\ UNCHANGED <<disk, watch, outbox, work, recon, store, now, bounds, removed>>

-----------------------------------------------------------------------------
(* Reconciler. *)

ReconSnapshot ==
  /\ boot = "run" /\ recon.at = "idle"
  /\ recon' = [at |-> "snapshot", kind |-> log.kind, sum |-> Lookup]
  /\ UNCHANGED <<disk, watch, outbox, work, scan, local, log, store, boot, now,
                 bounds, removed>>

\* The directory and the outbox are read: a change that is queued is not undone.
ReconPlan ==
  LET queued(op) == \E i \in DOMAIN outbox : outbox[i].op = op IN
  /\ recon.at = "snapshot"
  /\ recon' =
       CASE recon.kind = "file" /\ disk # recon.sum
              /\ ~ queued("put") /\ ~ queued("delete") ->
              [recon EXCEPT !.at = "download"]
         [] recon.kind = "deleted" /\ disk # NoSum /\ ~ queued("put") ->
              [recon EXCEPT !.at = "delete"]
         [] OTHER -> ReconIdle
  /\ UNCHANGED <<disk, watch, outbox, work, scan, local, log, store, boot, now,
                 bounds, removed>>

\* downloadFile: nothing to do if the disk has it by now, or has something where
\* an empty file should go.  An empty file is created in place, any other staged.
Download ==
  /\ recon.at = "download"
  /\ recon' = IF disk = recon.sum \/ (recon.sum = Empty /\ disk # NoSum)
              THEN ReconIdle
              ELSE [recon EXCEPT !.at = IF recon.sum = Empty THEN "creating"
                                        ELSE "staged"]
  /\ UNCHANGED <<disk, watch, outbox, work, scan, local, log, store, boot, now,
                 bounds, removed>>

DownloadFails ==
  /\ recon.at = "download"
  /\ recon' = ReconIdle
  /\ UNCHANGED <<disk, watch, outbox, work, scan, local, log, store, boot, now,
                 bounds, removed>>

\* publishStagedFile renames it over whatever is there, and so does WriteFile
\* with an empty file.
Publish ==
  /\ boot = "run" /\ recon.at \in {"staged", "creating"}
  /\ Changed(recon.sum)
  /\ pending' = TRUE
  /\ recon' = ReconIdle
  /\ UNCHANGED <<batch, handling, outbox, work, scan, local, log, store, boot,
                 now, bounds>>

DeleteFile ==
  /\ recon.at = "delete"
  /\ Changed(NoSum)
  /\ pending' = (pending \/ disk # NoSum)
  /\ recon' = ReconIdle
  /\ UNCHANGED <<batch, handling, outbox, work, scan, local, log, store, boot,
                 now, bounds>>

-----------------------------------------------------------------------------
(* Stop and start. *)

\* A staged download is still there after a stop.  Remove creates the file again
\* and writes what it keeps: a stop in between leaves a part of that.
Crash ==
  /\ crashes < MaxCrashes /\ boot # "down"
  /\ crashes' = crashes + 1
  /\ boot' = "down"
  /\ pending' = FALSE /\ batch' = "none" /\ handling' = NoSum
  /\ \/ UNCHANGED outbox
     \/ work.at = "remove" /\ \E kept \in Kept : outbox' \in Prefixes(kept)
  /\ work' = WorkIdle /\ scan' = ScanIdle
  /\ recon' = IF recon.at = "staged" THEN recon ELSE ReconIdle
  /\ UNCHANGED <<disk, local, log, store, now, edits, merges, removed>>

\* Run: recoverTransferWorkspace publishes what was staged; then the seed.
Start ==
  /\ boot = "down"
  /\ boot' = "seed"
  /\ IF recon.at = "staged" THEN Changed(recon.sum) ELSE UNCHANGED <<disk, removed>>
  /\ recon' = ReconIdle
  /\ UNCHANGED <<watch, outbox, work, scan, local, log, store, now, bounds>>

\* The outbox is drained before anything is reconciled.
Drained ==
  /\ boot = "drain" /\ work.at = "idle" /\ outbox = <<>>
  /\ boot' = "run"
  /\ UNCHANGED <<disk, watch, outbox, work, scan, local, recon, log, store, now,
                 bounds, removed>>

-----------------------------------------------------------------------------
WatchStep == FlushPending \/ HandleModified \/ HandleQueue \/ HandleDeleted

WorkStep == Drain \/ RecordGone \/ Refresh \/ RecordPut \/ RecordDelete \/ RemoveEntry

ScanStep == ScanDirectory \/ ScanSnapshot \/ ScanPut \/ ScanDelete

ReconStep == ReconSnapshot \/ ReconPlan \/ Publish \/ DeleteFile

Next ==
  \/ Tick
  \/ \E c \in Contents : UserChange(c)
  \/ \E e \in Remote : MergeRemote(e)
  \/ WatchStep \/ WorkStep \/ Upload \/ UploadFails \/ ScanStep
  \/ ReconStep \/ Download \/ DownloadFails
  \/ Crash \/ Start \/ Drained

\* Every goroutine goes on, scan and reconciliation come again with their
\* timers, and a transfer that is tried again and again succeeds.  Nobody has to
\* edit, send, stop, or hear of an event.
Fairness ==
  /\ WF_vars(WatchStep) /\ WF_vars(WorkStep) /\ WF_vars(ScanStep)
  /\ WF_vars(ReconStep) /\ WF_vars(Start) /\ WF_vars(Drained)
  /\ SF_vars(Upload) /\ SF_vars(Download)

Spec == Init /\ [][Next]_vars /\ Fairness

-----------------------------------------------------------------------------
(* Properties. *)

\* Every part of the daemon keeps its type; only contents of files are uploaded
\* (Put).
TypeOK ==
  /\ disk \in Contents /\ pending \in BOOLEAN /\ handling \in Contents
  /\ batch \in {"none", "modified", "deleted"}
  /\ outbox \in Seq(OutboxEntry)
  /\ work \in [at : {"idle", "gone", "changed", "uploading", "uploaded",
                     "deleting", "remove"},
               entry : OutboxEntry, sum : Contents]
  /\ scan \in [at : {"idle", "scanned", "put", "delete"},
               disk : Contents, known : Contents]
  /\ local \in BOOLEAN
  /\ recon \in [at : {"idle", "snapshot", "download", "delete", "staged", "creating"},
                kind : {"none", "file", "deleted"}, sum : Contents]
  /\ log \in Value
  /\ store \subseteq Sums
  /\ boot \in {"down", "seed", "drain", "run"}
  /\ now \in Nat /\ edits \in Nat /\ merges \in Nat /\ crashes \in Nat
  /\ removed \in BOOLEAN

\* "Upload-then-record": what the log offers to other devices can be downloaded,
\* whatever is refreshed, retried or cut off in between (uploadFile).
RecordedIsUploaded == log.kind = "file" => log.sum \in store

\* A deletion in this device's name has a file of this disk that went away behind
\* it: a remote file that is not downloaded yet is never reported as deleted
\* (previousLocalFiles, flushPending, recordDeleteForMissingFile).
NoPhantomDelete == log.kind = "deleted" /\ log.dev = Self => removed

\* "A direct causal successor (prev_checksum matches the current checksum) beats
\* its ancestor": what is recorded on top of the content that the log still holds
\* replaces it (buildSnapshot, AppendLocal in uploadFile).
SuccessorReplaces ==
  [][RecordPut /\ log.kind = "file" /\ work.sum = log.sum
       => log'.sum = work.entry.sum]_vars

\* What remains of it in the code: the one successor that is dropped is the one
\* that restores the content before the last edit, since buildSnapshot asks
\* fileDescendsEntry before entryDescendsFile.
OnlyARevertIsDropped ==
  [][RecordPut /\ log.kind = "file" /\ work.sum = log.sum
       => log'.sum = work.entry.sum \/ log.prev = work.entry.sum]_vars

\* Nothing is recorded or merged any more, and again and again the reconciler
\* finds nothing queued.
Settles == <>[][log' = log]_vars /\ []<><<ReconPlan /\ outbox = <<>> >>_vars

\* Once the log settles the disk is what the log says, even when events get lost,
\* entries are dropped from the outbox, transfers fail and the daemon stops; a
\* log that misses a file of the disk does not settle (localScanLoop,
\* reconcileLoop).  The exception is an empty file that replaced what the disk
\* still has: downloadFile refuses it, and buildSnapshot takes the put of what the
\* disk has for its ancestor.
DiskFollowsLog ==
  Settles => <>[](disk = Lookup \/ (Lookup = Empty /\ disk = log.prev))
=============================================================================
