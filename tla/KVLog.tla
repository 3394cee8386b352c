------------------------------- MODULE KVLog -------------------------------
(***************************************************************************)
(* The append-only ops log of one device (pkg/kv LocalLog): the JSONL file *)
(* on disk, the snapshot cached from it, and the sequence counter.         *)
(*                                                                         *)
(* Every operation runs under LocalLog.mu and is one action.  What differs *)
(* from action to action is what reaches the disk: an append may write the *)
(* whole line, a part of it, or nothing, and the process may stop at that  *)
(* point.  KVSync relies on what this module shows: that a device which    *)
(* starts again rebuilds the snapshot and the counter it had.              *)
(***************************************************************************)
EXTENDS KVCausal, FiniteSetsExt, Functions, Sequences

CONSTANTS Self,         \* the device whose log this is
          Cold,         \* no cached snapshot
          Torn,         \* a line that json.Unmarshal rejects
          MaxCounter,   \* bound: MaxCounter[d] is the largest counter d assigns
          MaxLines      \* bound: how many lines the file holds

ASSUME SelfIsDevice == Self \in Devices

ASSUME BoundsAreNumbers == MaxCounter \in [Devices -> Nat] /\ MaxLines \in Nat

\* A process holds finitely many keys in memory.
ASSUME KeysAreFinite == IsFiniteSet(Keys)

VARIABLES
  file,       \* the lines of kv-ops.jsonl
  terminated, \* whether the last line ends in a newline
  cache,      \* the cached snapshot, or Cold
  seq,        \* LocalLog.seq
  acked,      \* entries whose append returned no error
  compacted,  \* whether the file has been compacted (bound: once)
  glued       \* whether a line was written after an unterminated one

vars == <<file, terminated, cache, seq, acked, compacted, glued>>

-----------------------------------------------------------------------------
(* Snapshots. *)

Snapshot == [reg : [Keys -> Entry \cup {NoEntry}], vec : Vector]

ASSUME MarkersAreDistinct == Torn \notin Entry /\ Cold \notin Snapshot

EmptySnapshot == [reg |-> [k \in Keys |-> NoEntry], vec |-> EmptyVector]

\* One iteration of buildSnapshot.
Apply(s, e) ==
  [reg |-> [s.reg EXCEPT ![e.key] = ApplyRegister(@, e)],
   vec |-> ApplyVector(s.vec, e)]

\* readAllLocked: a corrupt line is skipped.
ApplyLine(s, line) == IF line = Torn THEN s ELSE Apply(s, line)

\* buildSnapshot(nil, lines of f): the snapshot after each number of lines.
Replay(f) ==
  LET after[n \in 0 .. Len(f)] ==
        IF n = 0 THEN EmptySnapshot ELSE ApplyLine(after[n - 1], f[n])
  IN  after

Rebuilt(f) == Replay(f)[Len(f)]

\* The device's own entries in the file.
OwnLines(f) == {e \in Range(f) : e # Torn /\ e.device = Self}

\* The largest sequence number of the device's own entries in the file.
RebuiltSeq(f) == Max({0} \cup {e.counter : e \in OwnLines(f)})

\* Mutant of WarmSeq: the counter of the running process is kept, and the file
\* is not read for it.
WarmSeqOnly == seq

\* seq and cache after rebuildLocked, if the cache is cold.
WarmSeq == IF cache = Cold THEN Max({seq, RebuiltSeq(file)}) ELSE seq

Warm == IF cache = Cold THEN Rebuilt(file) ELSE cache

-----------------------------------------------------------------------------
(* Writing a line. *)

\* The file once bytes follow an unterminated line: both are one corrupt line.
Glued == [file EXCEPT ![Len(file)] = Torn]

\* The whole line is written.
WriteLine(e) ==
  /\ file' = IF terminated THEN Append(file, e) ELSE Glued
  /\ terminated' = TRUE
  /\ glued' = (glued \/ ~ terminated)

\* Bound: at most one write reaches the disk in part.
NoPartialWriteYet == terminated /\ ~ glued /\ Torn \notin Range(file)

\* The write stops early: nothing was written, or part of the line, or all of
\* it but the newline, which still parses.
WritePart(e) ==
  \/ UNCHANGED <<file, terminated, glued>>
  \/ /\ NoPartialWriteYet
     /\ file' \in {Append(file, e), Append(file, Torn)}
     /\ terminated' = FALSE
     /\ UNCHANGED glued

Init ==
  /\ file = <<>>
  /\ terminated = TRUE
  /\ cache = Cold
  /\ seq = 0
  /\ acked = {}
  /\ compacted = FALSE
  /\ glued = FALSE

\* Mutant of AppendCached: the cache is updated with the entry alone, without
\* the rule for conflicting entries.
AppendCachedBlindly(s, e) ==
  [reg |-> [s.reg EXCEPT ![e.key] = e], vec |-> ApplyVector(s.vec, e)]

\* The cached snapshot after an append.
AppendCached(s, e) == Apply(s, e)

\* Mutant of NewEntry: the sequence number is used before it is incremented.
NewEntryOldSeq(k, op, s, n) ==
  [op |-> op, key |-> k, device |-> Self, counter |-> n - 1, ts |-> 1, context |-> s.vec]

\* The entry AppendLocal completes from the snapshot s and the counter n.
NewEntry(k, op, s, n) ==
  [op |-> op, key |-> k, device |-> Self, counter |-> n, ts |-> 1, context |-> s.vec]

AppendLocal(k, op) ==
  LET e == NewEntry(k, op, Warm, WarmSeq + 1)
  IN  /\ e.counter <= MaxCounter[Self] /\ Len(file) < MaxLines
      /\ WriteLine(e)
      /\ cache' = AppendCached(Warm, e)
      /\ seq' = e.counter
      /\ acked' = acked \cup {e}
      /\ UNCHANGED compacted

\* appendToFile returns an error; the counter has moved on.
AppendLocalFails(k, op) ==
  LET e == NewEntry(k, op, Warm, WarmSeq + 1)
  IN  /\ e.counter <= MaxCounter[Self] /\ Len(file) < MaxLines
      /\ WritePart(e)
      /\ cache' = Warm
      /\ seq' = e.counter
      /\ UNCHANGED <<acked, compacted>>

\* The process stops during the write: the line may be there or not.
AppendLocalStops(k, op) ==
  LET e == NewEntry(k, op, Warm, WarmSeq + 1)
  IN  /\ e.counter <= MaxCounter[Self] /\ Len(file) < MaxLines
      /\ WriteLine(e) \/ WritePart(e)
      /\ cache' = Cold
      /\ seq' = 0
      /\ UNCHANGED <<acked, compacted>>

\* Peers know a device's writes from its acknowledged appends.
OwnCounters == {0} \cup {e.counter : e \in {x \in acked : x.device = Self}}

\* Entries that reach the device: those it knows already, its own included, and
\* in any order those of a peer p, each written after the peer's earlier ones
\* and after whatever the peer had seen of this device.
Incoming ==
  acked \cup
  UNION {{e \in [op : {"set"}, key : Keys, device : {p}, counter : 1 .. MaxCounter[p],
                 ts : {1}, context : {[EmptyVector EXCEPT ![p] = n - 1, ![Self] = c] :
                                        n \in 1 .. MaxCounter[p], c \in OwnCounters}] :
            /\ e.context[p] = e.counter - 1
            /\ \A f \in acked : f.device = p =>
                 /\ f.counter = e.counter => f = e
                 /\ f.counter < e.counter => f.context[Self] <= e.context[Self]
                 /\ f.counter > e.counter => f.context[Self] >= e.context[Self]}
         : p \in Devices \ {Self}}

\* LocalLog.Append.  A cold cache stays cold, and seq does not move.
AppendRemote(e) ==
  /\ Len(file) < MaxLines
  /\ WriteLine(e)
  /\ cache' = IF cache = Cold THEN Cold ELSE AppendCached(cache, e)
  /\ acked' = acked \cup {e}
  /\ UNCHANGED <<seq, compacted>>

AppendRemoteFails(e) ==
  /\ Len(file) < MaxLines
  /\ WritePart(e)
  /\ UNCHANGED <<cache, seq, acked, compacted>>

-----------------------------------------------------------------------------
\* Snapshot, Lookup: rebuild when the cache is cold.
ReadSnapshot ==
  /\ cache' = Warm
  /\ seq' = WarmSeq
  /\ UNCHANGED <<file, terminated, acked, compacted, glued>>

InvalidateCache ==
  /\ cache' = Cold
  /\ UNCHANGED <<file, terminated, seq, acked, compacted, glued>>

\* The process stops between two operations and a new one opens the log.
Restart ==
  /\ cache' = Cold
  /\ seq' = 0
  /\ UNCHANGED <<file, terminated, acked, compacted, glued>>

\* Mutant of CompactLines: tombstones are dropped.
CompactLinesLive(s) == {e \in Held(s.reg) : e.op = "set"}

\* The entries Compact writes: one per live key and one per tombstone.
CompactLines(s) == Held(s.reg)

\* Compact: the new file replaces the old one by a rename, the cache is
\* dropped, seq stays.
Compact ==
  /\ ~ compacted
  /\ file' \in {f \in [1 .. Cardinality(CompactLines(Warm)) -> CompactLines(Warm)] :
                  IsInjective(f)}
  /\ terminated' = TRUE
  /\ cache' = Cold
  /\ seq' = WarmSeq
  /\ compacted' = TRUE
  /\ UNCHANGED <<acked, glued>>

Next ==
  \/ \E k \in Keys, op \in {"set", "delete"} :
       \/ AppendLocal(k, op)
       \/ AppendLocalFails(k, op)
       \/ AppendLocalStops(k, op)
  \/ \E e \in Incoming : AppendRemote(e) \/ AppendRemoteFails(e)
  \/ ReadSnapshot
  \/ InvalidateCache
  \/ Restart
  \/ Compact

Spec == Init /\ [][Next]_vars

-----------------------------------------------------------------------------
TypeOK ==
  /\ file \in Seq(Entry \cup {Torn})
  /\ terminated \in BOOLEAN
  /\ cache \in Snapshot \cup {Cold}
  /\ seq \in Nat
  /\ acked \subseteq Entry
  /\ compacted \in BOOLEAN
  /\ glued \in BOOLEAN

\* A rebuild from the file gives the cached snapshot, whatever was appended,
\* failed or compacted since: registers and vector.  Excepted is a log with an
\* unterminated line, which may be an append that failed, or with a line written
\* after one (rebuildLocked).
RebuildIsExact ==
  cache # Cold /\ terminated /\ ~ glued => Rebuilt(file) = cache

\* What the log shows for a key never vanishes and never goes back: from one
\* state to the next it is kept or gives way to an entry that beats it, across
\* failed and partial appends, invalidation, compaction and restarts.  A
\* tombstone in particular is not forgotten by Compact, so that the value it
\* deleted stays deleted (buildSnapshot, rebuildLocked, Compact).
ReadsNeverGoBack ==
  [][~ glued' => \A k \in Keys :
       Warm.reg[k] # NoEntry /\ Warm'.reg[k] # Warm.reg[k] =>
         Warm'.reg[k] # NoEntry /\ Beats(Warm'.reg[k], Warm.reg[k])]_vars

\* A device never gives two writes the same counter, across failed appends,
\* partial writes and restarts, as long as the log was not compacted and no
\* line was written after an unterminated one (AppendLocal, seq).
CountersAreNotReused ==
  ~ compacted /\ ~ glued =>
    \A e, f \in acked : e.device = Self /\ f.device = Self /\ e.counter = f.counter => e = f

\* "Corrupt lines are silently skipped for crash tolerance" (readAllLocked): an
\* append that returned no error survives the corrupt lines around it.
AcknowledgedSurvives ==
  ~ compacted => acked \subseteq Range(file)
=============================================================================
