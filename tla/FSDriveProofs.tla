---------------------------- MODULE FSDriveProofs ----------------------------
(***************************************************************************)
(* Theorems about the file drive, for any contents, remote entries, queue  *)
(* lengths, seconds, changes and stops.                                    *)
(***************************************************************************)
EXTENDS FSDrive, FiniteSetTheorems, TLAPS

(***************************************************************************)
(* The inductive invariant.  Only files that are there are queued,         *)
(* uploaded, recorded and downloaded; and as long as no file has gone away *)
(* nobody has a deletion in hand, nor anything at all while there is no    *)
(* file.                                                                   *)
(***************************************************************************)
QueueInv == \A i \in DOMAIN outbox : outbox[i].op = "put" => outbox[i].sum # NoSum

WorkInv ==
  /\ work.at = "changed" => work.sum # NoSum
  /\ work.at = "uploading" => work.entry.sum # NoSum
  /\ work.at = "uploaded" => work.entry.sum \in store

ScanInv == scan.at = "put" => scan.disk # NoSum

ReconInv ==
  /\ recon.kind = "file" => recon.sum # NoSum
  /\ recon.at \in {"download", "staged", "creating"} => recon.kind = "file"

NoDeletion ==
  /\ ~ (log.kind = "deleted" /\ log.dev = Self)
  /\ batch # "deleted"
  /\ \A i \in DOMAIN outbox : outbox[i].op = "put"
  /\ work.at \notin {"gone", "deleting"}
  /\ scan.at # "delete"
  /\ scan.at = "scanned" /\ local => scan.disk # NoSum

Untouched ==
  /\ ~ pending /\ batch = "none" /\ handling = NoSum
  /\ outbox = <<>> /\ work.at = "idle"
  /\ scan.disk = NoSum /\ ~ local

PresenceInv == ~ removed => NoDeletion /\ (disk = NoSum => Untouched)

DriveInv ==
  TypeOK /\ QueueInv /\ WorkInv /\ ScanInv /\ ReconInv /\ RecordedIsUploaded
  /\ PresenceInv

(***************************************************************************)
(* The log, and what Remove keeps.                                         *)
(***************************************************************************)

\* An entry either replaces the value or leaves it alone (buildSnapshot).
LEMMA ApplyFacts ==
  ASSUME NEW v \in Value, NEW e \in Entry
  PROVE  /\ Apply(v, e) \in Value
         /\ Apply(v, e) = v \/ Apply(v, e) = ValueOf(e)
         /\ ValueOf(e) \in Value /\ ValueOf(e).dev = e.dev
         /\ e.op = "put" => ValueOf(e).kind = "file" /\ ValueOf(e).sum = e.sum
         /\ e.op = "delete" => ValueOf(e).kind = "deleted"
<1>1. ValueOf(e) \in Value
  <2>1. CASE e.op = "put"
    BY <2>1 DEF ValueOf, Value, Entry
  <2>2. CASE e.op = "delete"
    BY <2>2 DEF ValueOf, Value, Entry
  <2> QED BY <2>1, <2>2 DEF Entry
<1>2. ValueOf(e).dev = e.dev
  BY DEF ValueOf
<1>3. e.op = "put" => ValueOf(e).kind = "file" /\ ValueOf(e).sum = e.sum
  BY DEF ValueOf
<1>4. e.op = "delete" => ValueOf(e).kind = "deleted"
  BY DEF ValueOf
<1> QED BY <1>1, <1>2, <1>3, <1>4 DEF Apply

\* What a device records itself (AppendLocal).
LEMMA LocalFacts ==
  ASSUME log \in Value, NEW op \in {"put", "delete"}, NEW sum \in Contents,
         NEW prev \in Contents, NEW ts \in Nat, AppendLocal(op, sum, prev, ts)
  PROVE  /\ log' \in Value
         /\ \/ log' = log
            \/ op = "put" /\ log'.kind = "file" /\ log'.sum = sum
            \/ op = "delete" /\ log'.kind = "deleted"
<1> DEFINE e == [op |-> op, sum |-> sum, prev |-> prev, ts |-> ts, dev |-> Self,
                 seq |-> 0]
<1>1. e \in Entry /\ e.op = op /\ e.sum = sum
  BY DevicesAreOrdered DEF Entry, Contents
<1>2. log' = Apply(log, e)
  BY DEF AppendLocal
<1> HIDE DEF e
<1> QED BY <1>1, <1>2, ApplyFacts

\* Remove keeps entries of the outbox (synclog.go).
LEMMA KeptFacts ==
  ASSUME outbox \in Seq(OutboxEntry), NEW q \in Kept
  PROVE  /\ q \in Seq(OutboxEntry)
         /\ \A i \in DOMAIN q : \E j \in DOMAIN outbox : q[i] = outbox[j]
<1> DEFINE kept == {i \in DOMAIN outbox : outbox[i].ts # work.entry.ts}
<1>1. DOMAIN outbox = 1..Len(outbox) /\ Len(outbox) \in Nat
  OBVIOUS
<1>2. Cardinality(kept) \in Nat
  <2>1. IsFiniteSet(1..Len(outbox))
    BY <1>1, FS_Interval
  <2>2. IsFiniteSet(kept)
    BY <1>1, <2>1, FS_Subset
  <2> QED BY <2>2, FS_CardinalityType
<1>3. PICK f \in [1..Cardinality(kept) -> kept] : q = [i \in DOMAIN f |-> outbox[f[i]]]
  BY DEF Kept
<1>4. kept \subseteq DOMAIN outbox
  OBVIOUS
<1>5. \A i \in DOMAIN f : outbox[f[i]] \in OutboxEntry
  BY <1>3, <1>4, <1>1
<1> HIDE DEF kept
<1>6. DOMAIN f = 1..Cardinality(kept)
  BY <1>3
<1>7. q \in Seq(OutboxEntry) /\ DOMAIN q = DOMAIN f
  BY <1>2, <1>3, <1>5, <1>6
<1>8. ASSUME NEW i \in DOMAIN q PROVE \E j \in DOMAIN outbox : q[i] = outbox[j]
  <2>1. f[i] \in DOMAIN outbox
    BY <1>3, <1>4, <1>6, <1>7
  <2> QED BY <2>1, <1>3, <1>7
<1> QED BY <1>7, <1>8

\* So does every part of what it keeps (a stop while it writes).
LEMMA PrefixFacts ==
  ASSUME outbox \in Seq(OutboxEntry), NEW q \in Kept, NEW p \in Prefixes(q)
  PROVE  /\ p \in Seq(OutboxEntry)
         /\ \A i \in DOMAIN p : \E j \in DOMAIN outbox : p[i] = outbox[j]
<1>1. /\ q \in Seq(OutboxEntry)
      /\ \A i \in DOMAIN q : \E j \in DOMAIN outbox : q[i] = outbox[j]
  BY KeptFacts
<1>2. PICK l \in 0..Len(q) : p = SubSeq(q, 1, l)
  BY DEF Prefixes
<1>3. p \in Seq(OutboxEntry) /\ Len(p) = l
  BY <1>1, <1>2
<1>4. \A i \in DOMAIN p : i \in DOMAIN q /\ p[i] = q[i]
  BY <1>1, <1>2, <1>3
<1> QED BY <1>1, <1>3, <1>4

-----------------------------------------------------------------------------
(* One step. *)

\* What is queued is a file that is there, or a deletion (synclog.Append).
LEMMA EnqueueFacts ==
  ASSUME TypeOK, QueueInv, NEW op \in {"put", "delete"}, NEW sum \in Contents,
         op = "put" => sum # NoSum, Enqueue(op, sum)
  PROVE  /\ outbox' \in Seq(OutboxEntry) /\ QueueInv'
         /\ op = "put" /\ (\A i \in DOMAIN outbox : outbox[i].op = "put")
              => \A i \in DOMAIN outbox' : outbox'[i].op = "put"
<1> DEFINE e == [op |-> op, sum |-> sum, ts |-> now]
<1>1. outbox' = Append(outbox, e) /\ outbox \in Seq(OutboxEntry)
  BY DEF Enqueue, TypeOK
<1>2. e \in OutboxEntry /\ e.op = op /\ e.sum = sum
  BY DEF OutboxEntry, TypeOK
<1> HIDE DEF e
<1>3. outbox' \in Seq(OutboxEntry)
  BY <1>1, <1>2
<1>4. \A i \in DOMAIN outbox' : outbox'[i] = e \/ (i \in DOMAIN outbox /\ outbox'[i] = outbox[i])
  BY <1>1, <1>2
<1>5. QueueInv'
  BY <1>2, <1>4 DEF QueueInv
<1> QED BY <1>2, <1>3, <1>4, <1>5

\* The worker's next step.
LEMMA WorkingFacts ==
  ASSUME TypeOK, NEW sum \in Contents,
         NEW at \in {"idle", "gone", "changed", "uploading", "uploaded", "deleting",
                     "remove"},
         Working(at, sum)
  PROVE  /\ work' \in [at : {"idle", "gone", "changed", "uploading", "uploaded",
                              "deleting", "remove"},
                        entry : OutboxEntry, sum : Contents]
         /\ work'.at = at /\ work'.sum = sum /\ work'.entry = work.entry
BY DEF Working, TypeOK

\* So is an idle worker's state.
LEMMA IdleFacts ==
  /\ WorkIdle \in [at : {"idle", "gone", "changed", "uploading", "uploaded",
                         "deleting", "remove"},
                   entry : OutboxEntry, sum : Contents]
  /\ WorkIdle.at = "idle"
  /\ ReconIdle \in [at : {"idle", "snapshot", "download", "delete", "staged", "creating"},
                    kind : {"none", "file", "deleted"}, sum : Contents]
  /\ ReconIdle.at = "idle" /\ ReconIdle.kind = "none"
  /\ ScanIdle \in [at : {"idle", "scanned", "put", "delete"},
                   disk : Contents, known : Contents]
  /\ ScanIdle.at = "idle" /\ ScanIdle.disk = NoSum
BY DEF WorkIdle, NoEntry, ReconIdle, ScanIdle, OutboxEntry, Contents

\* What the log says is a content (Lookup).
LEMMA LookupFacts ==
  ASSUME DriveInv
  PROVE  Lookup \in Contents /\ (log.kind = "file" => Lookup \in Sums /\ Lookup = log.sum)
BY DEF DriveInv, TypeOK, RecordedIsUploaded, Lookup, Contents, Value

\* Time passes.
LEMMA TickInv ==
  ASSUME DriveInv, Tick
  PROVE  DriveInv'
<1> USE DEF DriveInv
<1>1. TypeOK'
  BY NoSumIsNoChecksum DEF TypeOK, Contents, OutboxEntry, Tick, watch, bounds
<1>2. PresenceInv'
  BY NoSumIsNoChecksum DEF TypeOK, PresenceInv, NoDeletion, Untouched, Tick,
     watch, bounds
<1>3. QueueInv' /\ WorkInv' /\ ScanInv' /\ ReconInv' /\ RecordedIsUploaded'
  BY DEF TypeOK, QueueInv, WorkInv, ScanInv, ReconInv, RecordedIsUploaded,
     Tick, watch, bounds
<1> QED BY <1>1, <1>2, <1>3

\* The user writes or deletes the file.
LEMMA UserChangeInv ==
  ASSUME DriveInv, NEW c \in Contents, UserChange(c)
  PROVE  DriveInv'
<1> USE DEF DriveInv
<1>b. pending' \in BOOLEAN /\ removed' \in BOOLEAN
  BY DEF TypeOK, UserChange, Changed
<1>1. TypeOK'
  BY <1>b, NoSumIsNoChecksum DEF TypeOK, Contents, OutboxEntry, UserChange,
     Changed
<1>2. PresenceInv'
  BY <1>b, NoSumIsNoChecksum DEF TypeOK, PresenceInv, NoDeletion, Untouched,
     UserChange, Changed
<1>3. QueueInv' /\ WorkInv' /\ ScanInv' /\ ReconInv' /\ RecordedIsUploaded'
  BY DEF TypeOK, QueueInv, WorkInv, ScanInv, ReconInv, RecordedIsUploaded,
     UserChange, Changed
<1> QED BY <1>1, <1>2, <1>3

\* An entry of another device is merged.
LEMMA MergeRemoteInv ==
  ASSUME DriveInv, NEW e \in Remote, MergeRemote(e)
  PROVE  DriveInv'
<1> USE DEF DriveInv
<1>a. e \in Entry /\ e.dev # Self /\ (e.op = "put" => e.sum \in Sums)
  BY RemoteIsForeign, NoSumIsNoChecksum DEF Entry
<1>b. /\ log' \in Value /\ (log' = log \/ log' = ValueOf(e))
      /\ log'.kind = "file" => log'.sum \in store'
      /\ ~ (log.kind = "deleted" /\ log.dev = Self)
           => ~ (log'.kind = "deleted" /\ log'.dev = Self)
  BY <1>a, ApplyFacts DEF MergeRemote, TypeOK, RecordedIsUploaded, Entry
<1>1. TypeOK'
  BY <1>a, <1>b, NoSumIsNoChecksum DEF TypeOK, Contents, OutboxEntry,
     MergeRemote, watch
<1>2. WorkInv'
  BY <1>a, <1>b, NoSumIsNoChecksum DEF TypeOK, WorkInv, MergeRemote, watch
<1>3. RecordedIsUploaded'
  BY <1>a, <1>b, NoSumIsNoChecksum DEF TypeOK, RecordedIsUploaded,
     MergeRemote, watch
<1>4. PresenceInv'
  BY <1>a, <1>b, NoSumIsNoChecksum DEF TypeOK, PresenceInv, NoDeletion,
     Untouched, MergeRemote, watch
<1>5. QueueInv' /\ ScanInv' /\ ReconInv'
  BY DEF TypeOK, QueueInv, ScanInv, ReconInv, MergeRemote, watch
<1> QED BY <1>1, <1>2, <1>3, <1>4, <1>5

\* The watcher looks at the disk.
LEMMA FlushPendingInv ==
  ASSUME DriveInv, FlushPending
  PROVE  DriveInv'
<1> USE DEF DriveInv
<1>a. /\ batch' \in {"none", "modified", "deleted"}
      /\ batch' = "deleted" => batch = "deleted" \/ disk = NoSum
  BY DEF FlushPending, TypeOK
<1>b. UNCHANGED <<disk, handling, outbox, work, scan, local, recon, log, store, boot,
                  now, edits, merges, crashes, removed>>
  BY DEF FlushPending, bounds
<1>c. pending /\ ~ pending'
  BY DEF FlushPending
<1>d. pending' \in BOOLEAN
  BY DEF FlushPending
<1>1. TypeOK'
  BY <1>a, <1>b, <1>d, NoSumIsNoChecksum DEF TypeOK, Contents, OutboxEntry,
     bounds
<1>2. PresenceInv'
  BY <1>a, <1>b, <1>c, NoSumIsNoChecksum DEF TypeOK, PresenceInv, NoDeletion,
     Untouched, bounds
<1>3. QueueInv' /\ WorkInv' /\ ScanInv' /\ ReconInv' /\ RecordedIsUploaded'
  BY <1>b DEF TypeOK, QueueInv, WorkInv, ScanInv, ReconInv,
     RecordedIsUploaded, bounds
<1> QED BY <1>1, <1>2, <1>3

\* HandleEvents reads a modified file.
LEMMA HandleModifiedInv ==
  ASSUME DriveInv, HandleModified
  PROVE  DriveInv'
<1> USE DEF DriveInv
<1>1. TypeOK'
  BY NoSumIsNoChecksum DEF TypeOK, Contents, OutboxEntry, HandleModified,
     bounds
<1>2. PresenceInv'
  BY NoSumIsNoChecksum DEF TypeOK, PresenceInv, NoDeletion, Untouched,
     HandleModified, bounds
<1>3. QueueInv' /\ WorkInv' /\ ScanInv' /\ ReconInv' /\ RecordedIsUploaded'
  BY DEF TypeOK, QueueInv, WorkInv, ScanInv, ReconInv, RecordedIsUploaded,
     HandleModified, bounds
<1> QED BY <1>1, <1>2, <1>3

\* HandleEvents queues it.
LEMMA HandleQueueInv ==
  ASSUME DriveInv, HandleQueue
  PROVE  DriveInv'
<1> USE DEF DriveInv
<1>a. \/ outbox' = outbox
      \/ /\ outbox' \in Seq(OutboxEntry) /\ QueueInv'
         /\ (\A i \in DOMAIN outbox : outbox[i].op = "put")
              => \A i \in DOMAIN outbox' : outbox'[i].op = "put"
  BY EnqueueFacts DEF HandleQueue, Queue, TypeOK
<1>1. TypeOK'
  BY <1>a, NoSumIsNoChecksum DEF TypeOK, Contents, OutboxEntry, HandleQueue,
     bounds
<1>2. QueueInv'
  BY <1>a, NoSumIsNoChecksum DEF TypeOK, QueueInv, HandleQueue, bounds
<1>3. PresenceInv'
  BY <1>a, NoSumIsNoChecksum DEF TypeOK, PresenceInv, NoDeletion, Untouched,
     HandleQueue, bounds
<1>4. WorkInv' /\ ScanInv' /\ ReconInv' /\ RecordedIsUploaded'
  BY DEF TypeOK, WorkInv, ScanInv, ReconInv, RecordedIsUploaded, HandleQueue,
     bounds
<1> QED BY <1>1, <1>2, <1>3, <1>4

\* HandleEvents queues a deletion.
LEMMA HandleDeletedInv ==
  ASSUME DriveInv, HandleDeleted
  PROVE  DriveInv'
<1> USE DEF DriveInv
<1>a. outbox' = outbox \/ (outbox' \in Seq(OutboxEntry) /\ QueueInv')
  <2>1. CASE log.kind = "file"
    <3>1. log.sum \in Contents
      BY <2>1, LookupFacts
    <3>2. Enqueue("delete", log.sum)
      BY <2>1 DEF HandleDeleted, Queue
    <3> QED BY <3>1, <3>2, EnqueueFacts
  <2>2. CASE log.kind # "file"
    BY <2>2 DEF HandleDeleted
  <2> QED BY <2>1, <2>2
<1>1. TypeOK'
  BY <1>a, NoSumIsNoChecksum DEF TypeOK, Contents, OutboxEntry, HandleDeleted,
     bounds
<1>2. QueueInv'
  BY <1>a, NoSumIsNoChecksum DEF TypeOK, QueueInv, HandleDeleted, bounds
<1>3. PresenceInv'
  BY <1>a, NoSumIsNoChecksum DEF TypeOK, PresenceInv, NoDeletion, Untouched,
     HandleDeleted, bounds
<1>4. WorkInv' /\ ScanInv' /\ ReconInv' /\ RecordedIsUploaded'
  BY DEF TypeOK, WorkInv, ScanInv, ReconInv, RecordedIsUploaded,
     HandleDeleted, bounds
<1> QED BY <1>1, <1>2, <1>3, <1>4

\* The worker takes the first entry.
LEMMA DrainInv ==
  ASSUME DriveInv, Drain
  PROVE  DriveInv'
<1> USE DEF DriveInv
<1> DEFINE e == Head(outbox)
<1>c. e \in OutboxEntry /\ e = outbox[1] /\ 1 \in DOMAIN outbox
  BY DEF Drain, TypeOK
<1>d. e.op \in {"put", "delete"} /\ (e.op = "put" => e.sum # NoSum)
  BY <1>c DEF QueueInv, OutboxEntry
<1> HIDE DEF e
<1>e. work' = [entry |-> e,
               at |-> CASE e.op = "delete" -> "deleting"
                        [] e.op = "put" /\ disk = NoSum -> "gone"
                        [] e.op = "put" /\ disk = e.sum -> "uploading"
                        [] OTHER -> "changed",
               sum |-> IF e.op = "put" /\ disk = e.sum THEN Lookup ELSE disk]
  BY DEF Drain, e
<1>f. Lookup \in Contents /\ disk \in Contents
  BY LookupFacts DEF TypeOK
<1>a. /\ work' \in [at : {"idle", "gone", "changed", "uploading", "uploaded",
                           "deleting", "remove"},
                     entry : OutboxEntry, sum : Contents]
      /\ work'.entry = e /\ work'.at \notin {"idle", "uploaded", "remove"}
      /\ work'.at = "gone" => disk = NoSum
      /\ work'.at = "changed" => work'.sum # NoSum
      /\ work'.at = "uploading" => e.sum # NoSum
      /\ work'.at = "deleting" => e.op = "delete"
  <2>1. CASE e.op = "delete"
    BY <2>1, <1>c, <1>e, <1>f
  <2>2. CASE e.op = "put" /\ disk = NoSum
    BY <2>2, <1>c, <1>d, <1>e, <1>f
  <2>3. CASE e.op = "put" /\ disk # NoSum /\ disk = e.sum
    BY <2>3, <1>c, <1>d, <1>e, <1>f
  <2>4. CASE e.op = "put" /\ disk # NoSum /\ disk # e.sum
    BY <2>4, <1>c, <1>d, <1>e, <1>f
  <2> QED BY <2>1, <2>2, <2>3, <2>4, <1>d
<1>1. TypeOK'
  BY <1>a, <1>c, <1>d, NoSumIsNoChecksum DEF TypeOK, Contents, OutboxEntry,
     Drain, watch, bounds
<1>2. WorkInv'
  BY <1>a, <1>c, <1>d, NoSumIsNoChecksum DEF TypeOK, WorkInv, Drain, watch,
     bounds
<1>3. PresenceInv'
  BY <1>a, <1>c, <1>d, NoSumIsNoChecksum DEF TypeOK, PresenceInv, NoDeletion,
     Untouched, Drain, watch, bounds
<1>4. QueueInv' /\ ScanInv' /\ ReconInv' /\ RecordedIsUploaded'
  BY DEF TypeOK, QueueInv, ScanInv, ReconInv, RecordedIsUploaded, Drain,
     watch, bounds
<1> QED BY <1>1, <1>2, <1>3, <1>4

\* A missing file is recorded as deleted.
LEMMA RecordGoneInv ==
  ASSUME DriveInv, RecordGone
  PROVE  DriveInv'
<1> USE DEF DriveInv
<1>a. /\ log' \in Value
      /\ log' = log \/ log'.kind = "deleted"
  BY LocalFacts, NoSumIsNoChecksum DEF RecordGone, TypeOK, Contents, OutboxEntry
<1>w. /\ work' \in [at : {"idle", "gone", "changed", "uploading", "uploaded",
                           "deleting", "remove"},
                     entry : OutboxEntry, sum : Contents]
      /\ work'.at = "remove"
  BY WorkingFacts DEF RecordGone, Contents
<1>1. TypeOK'
  BY <1>a, <1>w, NoSumIsNoChecksum DEF TypeOK, Contents, OutboxEntry,
     RecordGone, watch, bounds
<1>2. WorkInv'
  BY <1>a, <1>w, NoSumIsNoChecksum DEF TypeOK, WorkInv, RecordGone, watch,
     bounds
<1>3. RecordedIsUploaded'
  BY <1>a, <1>w, NoSumIsNoChecksum DEF TypeOK, RecordedIsUploaded, RecordGone,
     watch, bounds
<1>4. PresenceInv'
  BY <1>a, <1>w, NoSumIsNoChecksum DEF TypeOK, PresenceInv, NoDeletion,
     Untouched, RecordGone, watch, bounds
<1>5. QueueInv' /\ ScanInv' /\ ReconInv'
  BY DEF TypeOK, QueueInv, ScanInv, ReconInv, RecordGone, watch, bounds
<1> QED BY <1>1, <1>2, <1>3, <1>4, <1>5

\* A changed file is queued again.
LEMMA RefreshInv ==
  ASSUME DriveInv, Refresh
  PROVE  DriveInv'
<1> USE DEF DriveInv
<1>a. /\ outbox' \in Seq(OutboxEntry) /\ QueueInv'
      /\ (\A i \in DOMAIN outbox : outbox[i].op = "put")
           => \A i \in DOMAIN outbox' : outbox'[i].op = "put"
  BY EnqueueFacts DEF Refresh, TypeOK, WorkInv
<1>w. /\ work' \in [at : {"idle", "gone", "changed", "uploading", "uploaded",
                           "deleting", "remove"},
                     entry : OutboxEntry, sum : Contents]
      /\ work'.at = "remove"
  BY WorkingFacts DEF Refresh, Contents
<1>1. TypeOK'
  BY <1>a, <1>w, NoSumIsNoChecksum DEF TypeOK, Contents, OutboxEntry, Refresh,
     watch, bounds
<1>2. QueueInv'
  BY <1>a, <1>w, NoSumIsNoChecksum DEF TypeOK, QueueInv, Refresh, watch,
     bounds
<1>3. WorkInv'
  BY <1>a, <1>w, NoSumIsNoChecksum DEF TypeOK, WorkInv, Refresh, watch, bounds
<1>4. PresenceInv'
  BY <1>a, <1>w, NoSumIsNoChecksum DEF TypeOK, PresenceInv, NoDeletion,
     Untouched, Refresh, watch, bounds
<1>5. ScanInv' /\ ReconInv' /\ RecordedIsUploaded'
  BY DEF TypeOK, ScanInv, ReconInv, RecordedIsUploaded, Refresh, watch, bounds
<1> QED BY <1>1, <1>2, <1>3, <1>4, <1>5

\* Put stores a content.
LEMMA UploadInv ==
  ASSUME DriveInv, Upload
  PROVE  DriveInv'
<1> USE DEF DriveInv
<1>a. /\ work' \in [at : {"idle", "gone", "changed", "uploading", "uploaded",
                           "deleting", "remove"},
                     entry : OutboxEntry, sum : Contents]
      /\ \/ /\ work'.at = "uploaded" /\ work'.entry = work.entry
            /\ store' = store \cup {work.entry.sum}
         \/ work'.at = "idle" /\ store' = store \cup {disk} /\ disk # NoSum
  BY WorkingFacts, IdleFacts DEF Upload, TypeOK
<1>b. work.at = "uploading" /\ work.entry.sum \in Sums
  BY DEF Upload, WorkInv, TypeOK, OutboxEntry, Contents
<1>1. TypeOK'
  BY <1>a, <1>b, NoSumIsNoChecksum DEF TypeOK, Contents, OutboxEntry, Upload,
     watch, bounds
<1>2. WorkInv'
  BY <1>a, <1>b, NoSumIsNoChecksum DEF TypeOK, WorkInv, Upload, watch, bounds
<1>3. RecordedIsUploaded'
  BY <1>a, <1>b, NoSumIsNoChecksum DEF TypeOK, RecordedIsUploaded, Upload,
     watch, bounds
<1>4. PresenceInv'
  BY <1>a, <1>b, NoSumIsNoChecksum DEF TypeOK, PresenceInv, NoDeletion,
     Untouched, Upload, watch, bounds
<1>5. QueueInv' /\ ScanInv' /\ ReconInv'
  BY DEF TypeOK, QueueInv, ScanInv, ReconInv, Upload, watch, bounds
<1> QED BY <1>1, <1>2, <1>3, <1>4, <1>5

\* Put fails.
LEMMA UploadFailsInv ==
  ASSUME DriveInv, UploadFails
  PROVE  DriveInv'
<1> USE DEF DriveInv
<1>1. TypeOK'
  BY IdleFacts, NoSumIsNoChecksum DEF TypeOK, Contents, OutboxEntry,
     UploadFails, watch, bounds
<1>2. WorkInv'
  BY IdleFacts, NoSumIsNoChecksum DEF TypeOK, WorkInv, UploadFails, watch,
     bounds
<1>3. PresenceInv'
  BY IdleFacts, NoSumIsNoChecksum DEF TypeOK, PresenceInv, NoDeletion,
     Untouched, UploadFails, watch, bounds
<1>4. QueueInv' /\ ScanInv' /\ ReconInv' /\ RecordedIsUploaded'
  BY DEF TypeOK, QueueInv, ScanInv, ReconInv, RecordedIsUploaded, UploadFails,
     watch, bounds
<1> QED BY <1>1, <1>2, <1>3, <1>4

\* What was uploaded is recorded.
LEMMA RecordPutInv ==
  ASSUME DriveInv, RecordPut
  PROVE  DriveInv'
<1> USE DEF DriveInv
<1>a. /\ log' \in Value
      /\ log' = log \/ (log'.kind = "file" /\ log'.sum = work.entry.sum)
  BY LocalFacts, NoSumIsNoChecksum DEF RecordPut, TypeOK, Contents, OutboxEntry
<1>w. /\ work' \in [at : {"idle", "gone", "changed", "uploading", "uploaded",
                           "deleting", "remove"},
                     entry : OutboxEntry, sum : Contents]
      /\ work'.at = "remove"
  BY WorkingFacts DEF RecordPut, Contents
<1>b. work.entry.sum \in store
  BY DEF RecordPut, WorkInv
<1>1. TypeOK'
  BY <1>a, <1>b, <1>w, NoSumIsNoChecksum DEF TypeOK, Contents, OutboxEntry,
     RecordPut, watch, bounds
<1>2. WorkInv'
  BY <1>a, <1>b, <1>w, NoSumIsNoChecksum DEF TypeOK, WorkInv, RecordPut,
     watch, bounds
<1>3. RecordedIsUploaded'
  BY <1>a, <1>b, <1>w, NoSumIsNoChecksum DEF TypeOK, RecordedIsUploaded,
     RecordPut, watch, bounds
<1>4. PresenceInv'
  BY <1>a, <1>b, <1>w, NoSumIsNoChecksum DEF TypeOK, PresenceInv, NoDeletion,
     Untouched, RecordPut, watch, bounds
<1>5. QueueInv' /\ ScanInv' /\ ReconInv'
  BY DEF TypeOK, QueueInv, ScanInv, ReconInv, RecordPut, watch, bounds
<1> QED BY <1>1, <1>2, <1>3, <1>4, <1>5

\* A queued deletion is recorded.
LEMMA RecordDeleteInv ==
  ASSUME DriveInv, RecordDelete
  PROVE  DriveInv'
<1> USE DEF DriveInv
<1>a. /\ log' \in Value
      /\ log' = log \/ log'.kind = "deleted"
  BY LocalFacts, NoSumIsNoChecksum DEF RecordDelete, TypeOK, Contents, OutboxEntry
<1>w. /\ work' \in [at : {"idle", "gone", "changed", "uploading", "uploaded",
                           "deleting", "remove"},
                     entry : OutboxEntry, sum : Contents]
      /\ work'.at = "remove"
  BY WorkingFacts DEF RecordDelete, Contents
<1>1. TypeOK'
  BY <1>a, <1>w, NoSumIsNoChecksum DEF TypeOK, Contents, OutboxEntry,
     RecordDelete, watch, bounds
<1>2. WorkInv'
  BY <1>a, <1>w, NoSumIsNoChecksum DEF TypeOK, WorkInv, RecordDelete, watch,
     bounds
<1>3. RecordedIsUploaded'
  BY <1>a, <1>w, NoSumIsNoChecksum DEF TypeOK, RecordedIsUploaded,
     RecordDelete, watch, bounds
<1>4. PresenceInv'
  BY <1>a, <1>w, NoSumIsNoChecksum DEF TypeOK, PresenceInv, NoDeletion,
     Untouched, RecordDelete, watch, bounds
<1>5. QueueInv' /\ ScanInv' /\ ReconInv'
  BY DEF TypeOK, QueueInv, ScanInv, ReconInv, RecordDelete, watch, bounds
<1> QED BY <1>1, <1>2, <1>3, <1>4, <1>5

\* Remove.
LEMMA RemoveEntryInv ==
  ASSUME DriveInv, RemoveEntry
  PROVE  DriveInv'
<1> USE DEF DriveInv
<1>a. /\ outbox' \in Seq(OutboxEntry)
      /\ \A i \in DOMAIN outbox' : \E j \in DOMAIN outbox : outbox'[i] = outbox[j]
  BY KeptFacts DEF RemoveEntry, TypeOK
<1>1. TypeOK'
  BY <1>a, IdleFacts, NoSumIsNoChecksum DEF TypeOK, Contents, OutboxEntry,
     RemoveEntry, watch, bounds
<1>2. QueueInv'
  BY <1>a, IdleFacts, NoSumIsNoChecksum DEF TypeOK, QueueInv, RemoveEntry,
     watch, bounds
<1>3. WorkInv'
  BY <1>a, IdleFacts, NoSumIsNoChecksum DEF TypeOK, WorkInv, RemoveEntry,
     watch, bounds
<1>4. PresenceInv'
  BY <1>a, IdleFacts, NoSumIsNoChecksum DEF TypeOK, PresenceInv, NoDeletion,
     Untouched, RemoveEntry, watch, bounds
<1>5. ScanInv' /\ ReconInv' /\ RecordedIsUploaded'
  BY DEF TypeOK, ScanInv, ReconInv, RecordedIsUploaded, RemoveEntry, watch,
     bounds
<1> QED BY <1>1, <1>2, <1>3, <1>4, <1>5

\* The scan reads the directory.
LEMMA ScanDirectoryInv ==
  ASSUME DriveInv, ScanDirectory
  PROVE  DriveInv'
<1> USE DEF DriveInv
<1>1. TypeOK'
  BY NoSumIsNoChecksum DEF TypeOK, Contents, OutboxEntry, ScanDirectory,
     watch, bounds
<1>2. ScanInv'
  BY NoSumIsNoChecksum DEF TypeOK, ScanInv, ScanDirectory, watch, bounds
<1>3. PresenceInv'
  BY NoSumIsNoChecksum DEF TypeOK, PresenceInv, NoDeletion, Untouched,
     ScanDirectory, watch, bounds
<1>4. QueueInv' /\ WorkInv' /\ ReconInv' /\ RecordedIsUploaded'
  BY DEF TypeOK, QueueInv, WorkInv, ReconInv, RecordedIsUploaded,
     ScanDirectory, watch, bounds
<1> QED BY <1>1, <1>2, <1>3, <1>4

\* The scan compares with the log.
LEMMA ScanSnapshotInv ==
  ASSUME DriveInv, ScanSnapshot
  PROVE  DriveInv'
<1> USE DEF DriveInv
<1>a. Lookup \in Contents /\ scan \in [at : {"idle", "scanned", "put", "delete"},
                                             disk : Contents, known : Contents]
  BY LookupFacts DEF TypeOK
<1>b. /\ ScanPlan \in {"put", "delete", "keep"}
      /\ ScanPlan = "put" => scan.disk # NoSum
      /\ ScanPlan = "delete" => scan.disk = NoSum /\ local
  <2>1. CASE scan.disk # NoSum
    BY <2>1 DEF ScanPlan
  <2>2. CASE scan.disk = NoSum /\ Lookup # NoSum /\ local
    BY <2>2 DEF ScanPlan
  <2>3. CASE scan.disk = NoSum /\ ~ (Lookup # NoSum /\ local)
    BY <2>3 DEF ScanPlan
  <2> QED BY <2>1, <2>2, <2>3
<1>c. /\ scan.at = "scanned"
      /\ UNCHANGED <<disk, pending, batch, handling, outbox, work, recon, log, store,
                     now, edits, merges, crashes, removed>>
  BY DEF ScanSnapshot, watch, bounds
<1>d. /\ scan' \in [at : {"idle", "scanned", "put", "delete"},
                     disk : Contents, known : Contents]
      /\ local' \in BOOLEAN /\ boot' \in {"down", "seed", "drain", "run"}
      /\ \/ scan' = ScanIdle /\ (local' <=> scan.disk # NoSum)
         \/ /\ scan'.at = ScanPlan /\ scan'.disk = scan.disk /\ ScanPlan # "keep"
            /\ local' = local
  <2>1. CASE ScanPlan = "keep"
    BY <2>1, IdleFacts DEF ScanSnapshot, ScanSaved, TypeOK
  <2>2. CASE ScanPlan # "keep"
    BY <2>2, <1>a, <1>b DEF ScanSnapshot, TypeOK
  <2> QED BY <2>1, <2>2
<1>1. TypeOK'
  BY <1>b, <1>c, <1>d, IdleFacts, NoSumIsNoChecksum DEF TypeOK, Contents,
     OutboxEntry, watch, bounds
<1>2. ScanInv'
  BY <1>b, <1>c, <1>d, IdleFacts, NoSumIsNoChecksum DEF TypeOK, ScanInv,
     watch, bounds
<1>3. PresenceInv'
  BY <1>b, <1>c, <1>d, IdleFacts, NoSumIsNoChecksum DEF TypeOK, PresenceInv,
     NoDeletion, Untouched, watch, bounds
<1>4. QueueInv' /\ WorkInv' /\ ReconInv' /\ RecordedIsUploaded'
  BY <1>c DEF TypeOK, QueueInv, WorkInv, ReconInv, RecordedIsUploaded, watch,
     bounds
<1> QED BY <1>1, <1>2, <1>3, <1>4

\* The scan queues what it found.
LEMMA ScanPutInv ==
  ASSUME DriveInv, ScanPut
  PROVE  DriveInv'
<1> USE DEF DriveInv
<1>a. \/ outbox' = outbox
      \/ /\ outbox' \in Seq(OutboxEntry) /\ QueueInv'
         /\ disk # NoSum
         /\ (\A i \in DOMAIN outbox : outbox[i].op = "put")
              => \A i \in DOMAIN outbox' : outbox'[i].op = "put"
  BY EnqueueFacts DEF ScanPut, TypeOK, ScanInv
<1>1. TypeOK'
  BY <1>a, IdleFacts, NoSumIsNoChecksum DEF TypeOK, Contents, OutboxEntry,
     ScanPut, ScanSaved, watch, bounds
<1>2. QueueInv'
  BY <1>a, IdleFacts, NoSumIsNoChecksum DEF TypeOK, QueueInv, ScanPut,
     ScanSaved, watch, bounds
<1>3. ScanInv'
  BY <1>a, IdleFacts, NoSumIsNoChecksum DEF TypeOK, ScanInv, ScanPut,
     ScanSaved, watch, bounds
<1>4. PresenceInv'
  BY <1>a, IdleFacts, NoSumIsNoChecksum DEF TypeOK, PresenceInv, NoDeletion,
     Untouched, ScanPut, ScanSaved, watch, bounds
<1>5. WorkInv' /\ ReconInv' /\ RecordedIsUploaded'
  BY DEF TypeOK, WorkInv, ReconInv, RecordedIsUploaded, ScanPut, ScanSaved,
     watch, bounds
<1> QED BY <1>1, <1>2, <1>3, <1>4, <1>5

\* The scan records a deletion.
LEMMA ScanDeleteInv ==
  ASSUME DriveInv, ScanDelete
  PROVE  DriveInv'
<1> USE DEF DriveInv
<1>a. /\ log' \in Value
      /\ log' = log \/ log'.kind = "deleted"
  BY LocalFacts, NoSumIsNoChecksum DEF ScanDelete, TypeOK, Contents, OutboxEntry
<1>1. TypeOK'
  BY <1>a, IdleFacts, NoSumIsNoChecksum DEF TypeOK, Contents, OutboxEntry,
     ScanDelete, ScanSaved, watch, bounds
<1>2. ScanInv'
  BY <1>a, IdleFacts, NoSumIsNoChecksum DEF TypeOK, ScanInv, ScanDelete,
     ScanSaved, watch, bounds
<1>3. RecordedIsUploaded'
  BY <1>a, IdleFacts, NoSumIsNoChecksum DEF TypeOK, RecordedIsUploaded,
     ScanDelete, ScanSaved, watch, bounds
<1>4. PresenceInv'
  BY <1>a, IdleFacts, NoSumIsNoChecksum DEF TypeOK, PresenceInv, NoDeletion,
     Untouched, ScanDelete, ScanSaved, watch, bounds
<1>5. QueueInv' /\ WorkInv' /\ ReconInv'
  BY DEF TypeOK, QueueInv, WorkInv, ReconInv, ScanDelete, ScanSaved, watch,
     bounds
<1> QED BY <1>1, <1>2, <1>3, <1>4, <1>5

\* The reconciler reads the log.
LEMMA ReconSnapshotInv ==
  ASSUME DriveInv, ReconSnapshot
  PROVE  DriveInv'
<1> USE DEF DriveInv
<1>a. /\ Lookup \in Contents /\ (log.kind = "file" => Lookup \in Sums)
      /\ log.kind \in {"none", "file", "deleted"}
  BY LookupFacts DEF TypeOK, Value
<1>1. TypeOK'
  BY <1>a, NoSumIsNoChecksum DEF TypeOK, Contents, OutboxEntry, ReconSnapshot,
     watch, bounds
<1>2. ReconInv'
  BY <1>a, NoSumIsNoChecksum DEF TypeOK, ReconInv, ReconSnapshot, watch,
     bounds
<1>3. PresenceInv'
  BY <1>a, NoSumIsNoChecksum DEF TypeOK, PresenceInv, NoDeletion, Untouched,
     ReconSnapshot, watch, bounds
<1>4. QueueInv' /\ WorkInv' /\ ScanInv' /\ RecordedIsUploaded'
  BY DEF TypeOK, QueueInv, WorkInv, ScanInv, RecordedIsUploaded,
     ReconSnapshot, watch, bounds
<1> QED BY <1>1, <1>2, <1>3, <1>4

\* The reconciler makes its plan.
LEMMA ReconPlanInv ==
  ASSUME DriveInv, ReconPlan
  PROVE  DriveInv'
<1> USE DEF DriveInv
<1>a. \/ recon' = [recon EXCEPT !.at = "download"] /\ recon.kind = "file"
      \/ recon' = [recon EXCEPT !.at = "delete"]
      \/ recon' = ReconIdle
  BY DEF ReconPlan
<1>b. UNCHANGED <<disk, pending, batch, handling, outbox, work, scan, local, log, store,
                  boot, now, edits, merges, crashes, removed>>
  BY DEF ReconPlan, watch, bounds
<1>c. recon' \in [at : {"idle", "snapshot", "download", "delete", "staged", "creating"},
                  kind : {"none", "file", "deleted"}, sum : Contents]
  BY <1>a, IdleFacts DEF TypeOK
<1>1. TypeOK'
  BY <1>b, <1>c DEF TypeOK
<1>2. ReconInv'
  BY <1>a, <1>b, IdleFacts, NoSumIsNoChecksum DEF TypeOK, ReconInv, watch,
     bounds
<1>3. PresenceInv'
  BY <1>a, <1>b, IdleFacts, NoSumIsNoChecksum DEF TypeOK, PresenceInv,
     NoDeletion, Untouched, watch, bounds
<1>4. QueueInv' /\ WorkInv' /\ ScanInv' /\ RecordedIsUploaded'
  BY <1>b DEF TypeOK, QueueInv, WorkInv, ScanInv, RecordedIsUploaded, watch,
     bounds
<1> QED BY <1>1, <1>2, <1>3, <1>4

\* A download is staged.
LEMMA DownloadInv ==
  ASSUME DriveInv, Download
  PROVE  DriveInv'
<1> USE DEF DriveInv
<1>a. recon' \in [at : {"idle", "snapshot", "download", "delete", "staged", "creating"},
                  kind : {"none", "file", "deleted"}, sum : Contents]
  BY IdleFacts DEF TypeOK, Download
<1>b. UNCHANGED <<disk, pending, batch, handling, outbox, work, scan, local, log,
                  store, boot, now, edits, merges, crashes, removed>>
  BY DEF Download, watch, bounds
<1>1. TypeOK'
  BY <1>a, <1>b DEF TypeOK
<1>2. ReconInv'
  BY IdleFacts, NoSumIsNoChecksum DEF TypeOK, ReconInv, Download, watch,
     bounds
<1>3. PresenceInv'
  BY IdleFacts, NoSumIsNoChecksum DEF TypeOK, PresenceInv, NoDeletion,
     Untouched, Download, watch, bounds
<1>4. QueueInv' /\ WorkInv' /\ ScanInv' /\ RecordedIsUploaded'
  BY DEF TypeOK, QueueInv, WorkInv, ScanInv, RecordedIsUploaded, Download,
     watch, bounds
<1> QED BY <1>1, <1>2, <1>3, <1>4

\* A download fails.
LEMMA DownloadFailsInv ==
  ASSUME DriveInv, DownloadFails
  PROVE  DriveInv'
<1> USE DEF DriveInv
<1>1. TypeOK'
  BY IdleFacts, NoSumIsNoChecksum DEF TypeOK, Contents, OutboxEntry,
     DownloadFails, watch, bounds
<1>2. ReconInv'
  BY IdleFacts, NoSumIsNoChecksum DEF TypeOK, ReconInv, DownloadFails, watch,
     bounds
<1>3. PresenceInv'
  BY IdleFacts, NoSumIsNoChecksum DEF TypeOK, PresenceInv, NoDeletion,
     Untouched, DownloadFails, watch, bounds
<1>4. QueueInv' /\ WorkInv' /\ ScanInv' /\ RecordedIsUploaded'
  BY DEF TypeOK, QueueInv, WorkInv, ScanInv, RecordedIsUploaded,
     DownloadFails, watch, bounds
<1> QED BY <1>1, <1>2, <1>3, <1>4

\* A download is published.
LEMMA PublishInv ==
  ASSUME DriveInv, Publish
  PROVE  DriveInv'
<1> USE DEF DriveInv
<1>a. recon.sum # NoSum /\ recon.sum \in Contents
  BY DEF Publish, ReconInv, TypeOK
<1>1. TypeOK'
  BY <1>a, IdleFacts, NoSumIsNoChecksum DEF TypeOK, Contents, OutboxEntry,
     Publish, Changed, bounds
<1>2. ReconInv'
  BY <1>a, IdleFacts, NoSumIsNoChecksum DEF TypeOK, ReconInv, Publish,
     Changed, bounds
<1>3. PresenceInv'
  BY <1>a, IdleFacts, NoSumIsNoChecksum DEF TypeOK, PresenceInv, NoDeletion,
     Untouched, Publish, Changed, bounds
<1>4. QueueInv' /\ WorkInv' /\ ScanInv' /\ RecordedIsUploaded'
  BY DEF TypeOK, QueueInv, WorkInv, ScanInv, RecordedIsUploaded, Publish,
     Changed, bounds
<1> QED BY <1>1, <1>2, <1>3, <1>4

\* The reconciler deletes the file.
LEMMA DeleteFileInv ==
  ASSUME DriveInv, DeleteFile
  PROVE  DriveInv'
<1> USE DEF DriveInv
<1>1. TypeOK'
  BY IdleFacts, NoSumIsNoChecksum DEF TypeOK, Contents, OutboxEntry,
     DeleteFile, Changed, bounds
<1>2. ReconInv'
  BY IdleFacts, NoSumIsNoChecksum DEF TypeOK, ReconInv, DeleteFile, Changed,
     bounds
<1>3. PresenceInv'
  BY IdleFacts, NoSumIsNoChecksum DEF TypeOK, PresenceInv, NoDeletion,
     Untouched, DeleteFile, Changed, bounds
<1>4. QueueInv' /\ WorkInv' /\ ScanInv' /\ RecordedIsUploaded'
  BY DEF TypeOK, QueueInv, WorkInv, ScanInv, RecordedIsUploaded, DeleteFile,
     Changed, bounds
<1> QED BY <1>1, <1>2, <1>3, <1>4

\* The daemon stops.
LEMMA CrashInv ==
  ASSUME DriveInv, Crash
  PROVE  DriveInv'
<1> USE DEF DriveInv
<1>a. /\ outbox' \in Seq(OutboxEntry)
      /\ \/ outbox' = outbox
         \/ /\ work.at = "remove"
            /\ \A i \in DOMAIN outbox' : \E j \in DOMAIN outbox : outbox'[i] = outbox[j]
  BY PrefixFacts DEF Crash, TypeOK
<1>b. recon' = recon \/ recon' = ReconIdle
  BY DEF Crash
<1>d. pending' \in BOOLEAN
  BY DEF Crash
<1>e. ~ pending'
  BY DEF Crash
<1>c. /\ boot' = "down" /\ batch' = "none" /\ handling' = NoSum
      /\ work' = WorkIdle /\ scan' = ScanIdle /\ crashes' = crashes + 1
      /\ UNCHANGED <<disk, local, log, store, now, edits, merges, removed>>
  BY DEF Crash
<1>1. TypeOK'
  BY <1>a, <1>b, <1>c, <1>d, IdleFacts, NoSumIsNoChecksum DEF TypeOK,
     Contents, OutboxEntry, bounds
<1>2. QueueInv'
  BY <1>a, <1>b, <1>c, <1>e, IdleFacts, NoSumIsNoChecksum DEF TypeOK,
     QueueInv, bounds
<1>3. WorkInv'
  BY <1>a, <1>b, <1>c, <1>e, IdleFacts, NoSumIsNoChecksum DEF TypeOK, WorkInv,
     bounds
<1>4. ScanInv'
  BY <1>a, <1>b, <1>c, <1>e, IdleFacts, NoSumIsNoChecksum DEF TypeOK, ScanInv,
     bounds
<1>5. ReconInv'
  BY <1>a, <1>b, <1>c, <1>e, IdleFacts, NoSumIsNoChecksum DEF TypeOK,
     ReconInv, bounds
<1>6. PresenceInv'
  BY <1>a, <1>b, <1>c, <1>e, IdleFacts, NoSumIsNoChecksum DEF TypeOK,
     PresenceInv, NoDeletion, Untouched, bounds
<1>7. RecordedIsUploaded'
  BY <1>c DEF TypeOK, RecordedIsUploaded, bounds
<1> QED BY <1>1, <1>2, <1>3, <1>4, <1>5, <1>6, <1>7

\* The daemon starts.
LEMMA StartInv ==
  ASSUME DriveInv, Start
  PROVE  DriveInv'
<1> USE DEF DriveInv
<1>a. /\ removed' \in BOOLEAN /\ disk' \in Contents
      /\ (disk' = disk /\ removed' = removed) \/ disk' # NoSum
  BY DEF Start, Changed, ReconInv, TypeOK
<1>1. TypeOK'
  BY <1>a, IdleFacts, NoSumIsNoChecksum DEF TypeOK, Contents, OutboxEntry,
     Start, Changed, watch, bounds
<1>2. ReconInv'
  BY <1>a, IdleFacts, NoSumIsNoChecksum DEF TypeOK, ReconInv, Start, Changed,
     watch, bounds
<1>3. PresenceInv'
  BY <1>a, IdleFacts, NoSumIsNoChecksum DEF TypeOK, PresenceInv, NoDeletion,
     Untouched, Start, Changed, watch, bounds
<1>4. QueueInv' /\ WorkInv' /\ ScanInv' /\ RecordedIsUploaded'
  BY DEF TypeOK, QueueInv, WorkInv, ScanInv, RecordedIsUploaded, Start,
     Changed, watch, bounds
<1> QED BY <1>1, <1>2, <1>3, <1>4

\* Run goes on after the first drain.
LEMMA DrainedInv ==
  ASSUME DriveInv, Drained
  PROVE  DriveInv'
<1> USE DEF DriveInv
<1>1. TypeOK'
  BY NoSumIsNoChecksum DEF TypeOK, Contents, OutboxEntry, Drained, watch,
     bounds
<1>2. PresenceInv'
  BY NoSumIsNoChecksum DEF TypeOK, PresenceInv, NoDeletion, Untouched,
     Drained, watch, bounds
<1>3. QueueInv' /\ WorkInv' /\ ScanInv' /\ ReconInv' /\ RecordedIsUploaded'
  BY DEF TypeOK, QueueInv, WorkInv, ScanInv, ReconInv, RecordedIsUploaded,
     Drained, watch, bounds
<1> QED BY <1>1, <1>2, <1>3

-----------------------------------------------------------------------------
(* The theorems. *)

\* The drive starts empty, or with a file that is recorded and uploaded.
LEMMA DriveInitially == Init => DriveInv
<1> SUFFICES ASSUME Init PROVE DriveInv
  OBVIOUS
<1>1. disk \in Contents
  BY FSBoundsAreBounds DEF Init, Contents
<1>2. log \in Value /\ (log.kind = "file" => log.sum = disk /\ disk # NoSum)
      /\ log.kind # "deleted"
  <2>1. NoValue \in Value
    BY DevicesAreOrdered DEF NoValue, Value
  <2> QED BY <1>1, <2>1 DEF Init, NoValue, Value, Contents
<1>3. local \in BOOLEAN /\ pending \in BOOLEAN /\ removed \in BOOLEAN
  BY DEF Init
<1>4. outbox = <<>> /\ outbox \in Seq(OutboxEntry) /\ DOMAIN outbox = {}
  BY DEF Init
<1>5. TypeOK
  BY <1>1, <1>2, <1>3, <1>4, IdleFacts DEF Init, TypeOK, Contents
<1>6. QueueInv /\ WorkInv /\ ScanInv /\ ReconInv
  BY <1>4, IdleFacts DEF Init, QueueInv, WorkInv, ScanInv, ReconInv
<1>7. RecordedIsUploaded
  BY <1>1, <1>2 DEF Init, RecordedIsUploaded, Contents
<1>8. PresenceInv
  BY <1>2, <1>4, IdleFacts DEF Init, PresenceInv, NoDeletion, Untouched
<1> QED BY <1>5, <1>6, <1>7, <1>8 DEF DriveInv

\* Every step of user, peers, watcher, worker, scan, reconciler and Run keeps
\* the invariant.
LEMMA DriveStep == DriveInv /\ [Next]_vars => DriveInv'
<1> SUFFICES ASSUME DriveInv, [Next]_vars PROVE DriveInv'
  OBVIOUS
<1>1. CASE UNCHANGED vars
  BY <1>1 DEF DriveInv, TypeOK, QueueInv, WorkInv, ScanInv, ReconInv,
     RecordedIsUploaded, PresenceInv, NoDeletion, Untouched, vars, watch, bounds
<1>2. CASE \E c \in Contents : UserChange(c)
  BY <1>2, UserChangeInv
<1>3. CASE \E e \in Remote : MergeRemote(e)
  BY <1>3, MergeRemoteInv
<1>4. CASE WatchStep
  BY <1>4, FlushPendingInv, HandleModifiedInv, HandleQueueInv, HandleDeletedInv
     DEF WatchStep
<1>5. CASE WorkStep
  BY <1>5, DrainInv, RecordGoneInv, RefreshInv, RecordPutInv, RecordDeleteInv,
     RemoveEntryInv DEF WorkStep
<1>6. CASE ScanStep
  BY <1>6, ScanDirectoryInv, ScanSnapshotInv, ScanPutInv, ScanDeleteInv DEF ScanStep
<1>7. CASE ReconStep
  BY <1>7, ReconSnapshotInv, ReconPlanInv, PublishInv, DeleteFileInv DEF ReconStep
<1>8. CASE Tick \/ Upload \/ UploadFails \/ Download \/ DownloadFails
  BY <1>8, TickInv, UploadInv, UploadFailsInv, DownloadInv, DownloadFailsInv
<1>9. CASE Crash \/ Start \/ Drained
  BY <1>9, CrashInv, StartInv, DrainedInv
<1> QED BY <1>1, <1>2, <1>3, <1>4, <1>5, <1>6, <1>7, <1>8, <1>9 DEF Next

\* DriveInv holds in every state of the drive: what is queued, uploaded, recorded
\* or staged is a file, and no deletion is in hand before a file has gone.
THEOREM DriveInvariant == Spec => []DriveInv
<1> QED BY DriveInitially, DriveStep, PTL DEF Spec

\* Every part of the daemon keeps its type, and nothing but contents of files is
\* uploaded.
THEOREM DriveTypeCorrect == Spec => []TypeOK
<1>1. DriveInv => TypeOK
  BY DEF DriveInv
<1> QED BY <1>1, DriveInvariant, PTL

\* Upload-then-record (uploadFile): whatever the log offers can be downloaded.
THEOREM RecordedIsAvailable == Spec => []RecordedIsUploaded
<1>1. DriveInv => RecordedIsUploaded
  BY DEF DriveInv
<1> QED BY <1>1, DriveInvariant, PTL

\* No device reports the deletion of a file it never had (seedStateFromDisk,
\* flushPending, recordDeleteForMissingFile).
THEOREM DeletionsAreReal == Spec => []NoPhantomDelete
<1>1. DriveInv => NoPhantomDelete
  BY DEF DriveInv, PresenceInv, NoDeletion, NoPhantomDelete
<1> QED BY <1>1, DriveInvariant, PTL

\* Recording a successor of what the log holds replaces it, unless it restores
\* the content before (buildSnapshot).
LEMMA SuccessorWins ==
  ASSUME DriveInv, RecordPut, log.kind = "file", work.sum = log.sum
  PROVE  log'.sum = work.entry.sum \/ log.prev = work.entry.sum
<1> DEFINE e == [op |-> "put", sum |-> work.entry.sum, prev |-> work.sum,
                 ts |-> work.entry.ts, dev |-> Self, seq |-> 0]
<1>1. log' = Apply(log, e)
  BY DEF RecordPut, AppendLocal
<1>2. log.sum # NoSum
  BY LookupFacts, NoSumIsNoChecksum
<1>3. EntryDescends(e, log)
  BY <1>2 DEF EntryDescends
<1>4. CASE ValueDescends(log, e)
  BY <1>4 DEF ValueDescends
<1>5. CASE ~ ValueDescends(log, e)
  <2>1. Wins(e, log)
    BY <1>3, <1>5 DEF Wins
  <2> QED BY <1>1, <2>1 DEF Apply, ValueOf
<1> QED BY <1>4, <1>5

\* The successor of what the log holds replaces it whatever the clocks say, but
\* for a revert of the last edit (entryDescendsFile, fileDescendsEntry).
THEOREM SuccessorsReplace == Spec => OnlyARevertIsDropped
<1>1. DriveInv /\ [Next]_vars
        => [RecordPut /\ log.kind = "file" /\ work.sum = log.sum
              => log'.sum = work.entry.sum \/ log.prev = work.entry.sum]_vars
  BY SuccessorWins
<1> QED BY <1>1, DriveInvariant, PTL DEF Spec, OnlyARevertIsDropped
=============================================================================
