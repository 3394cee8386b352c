------------------------------ MODULE FSOpsLog ------------------------------
(***************************************************************************)
(* The file drive's operations log (pkg/fs/opslog), for one path: what the *)
(* snapshot says of the path, and how an appended entry changes it.  A     *)
(* direct successor, known by the checksum it replaces, beats its          *)
(* ancestor; for the rest the clock (timestamp, device, seq) decides.      *)
(* Directories and whole-drive tombstones are left out.                    *)
(***************************************************************************)
EXTENDS Naturals

CONSTANTS Sums,     \* checksums of contents
          NoSum,    \* the empty checksum
          Devices,  \* device ids, compared as the code compares strings
          Self      \* the device whose log this is

ASSUME DevicesAreOrdered == Devices \subseteq Nat /\ Self \in Devices

ASSUME NoSumIsNoChecksum == NoSum \notin Sums

\* A Put or Delete entry.  A device's own entries carry growing seqs, so theirs
\* is not kept: the one that is appended is the newest.
Entry == [op : {"put", "delete"}, sum : Sums \cup {NoSum},
          prev : Sums \cup {NoSum}, ts : Nat, dev : Devices, seq : Nat]

\* What the snapshot holds for the path: FileInfo, TombstoneInfo, or nothing.
Value == [kind : {"none", "file", "deleted"}, sum : Sums \cup {NoSum},
          prev : Sums \cup {NoSum}, ts : Nat, dev : Devices, seq : Nat]

NoValue == [kind |-> "none", sum |-> NoSum, prev |-> NoSum, ts |-> 0,
            dev |-> Self, seq |-> 0]

\* clockTuple.beats.
Beats(e, v) ==
  \/ e.ts > v.ts
  \/ e.ts = v.ts /\ e.dev > v.dev
  \/ e.ts = v.ts /\ e.dev = v.dev /\ (e.dev = Self \/ e.seq > v.seq)

\* entryDescendsFile; fileDescendsEntry and tombstoneDescendsEntry.
EntryDescends(e, v) == e.prev # NoSum /\ e.prev = v.sum
ValueDescends(v, e) == v.prev # NoSum /\ v.prev = e.sum

\* Whether buildSnapshot lets entry e replace value v.
Wins(e, v) ==
  \/ v.kind = "none"
  \/ v.kind = "file" /\ (EntryDescends(e, v) \/ Beats(e, v))
     /\ ~ (e.op = "put" /\ ValueDescends(v, e))
  \/ v.kind = "deleted" /\ Beats(e, v)
     /\ ~ (e.op = "put" /\ ValueDescends(v, e) /\ e.dev # v.dev)

ValueOf(e) == [kind |-> IF e.op = "put" THEN "file" ELSE "deleted",
               sum |-> IF e.op = "put" THEN e.sum ELSE NoSum,
               prev |-> e.prev, ts |-> e.ts, dev |-> e.dev, seq |-> e.seq]

\* buildSnapshot of a base and one entry.
Apply(v, e) == IF Wins(e, v) THEN ValueOf(e) ELSE v
=============================================================================
