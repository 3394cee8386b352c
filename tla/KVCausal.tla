------------------------------ MODULE KVCausal ------------------------------
(***************************************************************************)
(* The data types of the KV store (pkg/kv): version vectors, log entries,  *)
(* and the merge rule that decides which of two entries for a key wins.    *)
(*                                                                         *)
(* The two maps of a Go Snapshot (entries and deleted) are one register    *)
(* per key here: buildSnapshot removes the key from one map whenever it    *)
(* stores it in the other, and compares an incoming entry with both, so at *)
(* most one of them holds a key.  The value bytes of an entry are left     *)
(* out: its dot <<device, counter>> identifies the write.                  *)
(***************************************************************************)
EXTENDS Naturals

CONSTANTS Devices,  \* device IDs, numbered in their lexicographic order
          Keys,     \* the keys of one namespace
          NoEntry   \* a key with neither value nor tombstone

ASSUME DevicesAreNumbered == Devices \subseteq Nat

(***************************************************************************)
(* Version vectors.  An actor missing from the Go map reads as 0.          *)
(***************************************************************************)
Vector == [Devices -> Nat]

EmptyVector == [d \in Devices |-> 0]

Observe(v, actor, counter) ==
  [v EXCEPT ![actor] = IF counter > @ THEN counter ELSE @]

Merge(v, w) == [d \in Devices |-> IF w[d] > v[d] THEN w[d] ELSE v[d]]

Dominates(v, w) == \A d \in Devices : w[d] <= v[d]

(***************************************************************************)
(* Log entries.  The actor of an entry is the device that wrote it, and    *)
(* its counter is the sequence number of the write on that device.         *)
(***************************************************************************)
Entry == [op      : {"set", "delete"},
          key     : Keys,
          device  : Devices,
          counter : Nat \ {0},
          ts      : Nat,
          context : Vector]

ASSUME NoEntryIsNoEntry == NoEntry \notin Entry

CausalVersion(e) == Observe(e.context, e.device, e.counter)

\* compareCausal(a, b) = 1.
HappenedAfter(a, b) ==
  /\ Dominates(CausalVersion(a), CausalVersion(b))
  /\ ~ Dominates(CausalVersion(b), CausalVersion(a))

ClockBeats(a, b) ==
  \/ a.ts > b.ts
  \/ a.ts = b.ts /\ a.device > b.device
  \/ a.ts = b.ts /\ a.device = b.device /\ a.counter > b.counter

\* Mutant of Beats: wall clocks alone decide, as before entries carried
\* causal metadata.
BeatsByClock(a, b) == ClockBeats(a, b)

\* valueInfoBeats, valueBeatsTombstone, tombstoneBeatsValue and
\* tombstoneInfoBeats: the same rule for every pair of kinds.
Beats(a, b) ==
  \/ HappenedAfter(a, b)
  \/ ~ HappenedAfter(b, a) /\ ClockBeats(a, b)

(***************************************************************************)
(* One iteration of buildSnapshot: its effect on the register of the       *)
(* entry's key and on the snapshot's vector.                               *)
(***************************************************************************)
ApplyRegister(r, e) == IF r = NoEntry \/ Beats(e, r) THEN e ELSE r

\* Mutant of ApplyVector: the entry's context is not folded in.
ApplyVectorDotOnly(v, e) == Observe(v, e.device, e.counter)

ApplyVector(v, e) == Observe(Merge(v, e.context), e.device, e.counter)

Held(registers) == {registers[k] : k \in Keys} \ {NoEntry}

\* Mutant of DeltaSince: an entry is withheld as soon as its dot is covered,
\* or is older than the newest counter seen from anyone.
DeltaSinceAnyActor(registers, seen) ==
  {e \in Held(registers) : \A d \in Devices : e.counter > seen[d]}

\* Snapshot.DeltaSince: the held entries that the summary does not cover.
DeltaSince(registers, seen) ==
  {e \in Held(registers) : ~ Dominates(seen, CausalVersion(e))}
=============================================================================
