---------------------------- MODULE KVPairProofs ----------------------------
(***************************************************************************)
(* Two devices agree when nothing is left to send, for any keys, writes    *)
(* and faults, unless a merge was cut short or a clock was set back.       *)
(*                                                                         *)
(* With three devices neither half of the argument holds.  The merge rule  *)
(* has cycles among the writes of three devices (OrderIsIrrelevant in      *)
(* KVReplica), and a relay in the middle of a merge hands on a later write *)
(* of a device before an earlier one (RelayedPeersConverge in KVSync).     *)
(* Between two devices whose clocks run forward the merge rule is a strict *)
(* order, and a vector that covers a write stands for it: the device holds *)
(* that write or one that beats it, or is about to merge it.  A clock that *)
(* is set back between two writes of one device brings the cycle back.     *)
(***************************************************************************)
EXTENDS KVSyncProofs

\* A private network of at most two devices.
TwoDevices == \A x, y, z \in Devices : x = y \/ x = z \/ y = z

-----------------------------------------------------------------------------
(* The order of writes. *)

\* What holds of the writes S of devices whose clocks do not run backwards:
\* counters and causal contexts tell the order of one device's writes, and
\* contexts are causally closed.
Ordered(S) ==
  /\ S \subseteq Entry
  /\ \A e, f \in S :
       e.device = f.device =>
         /\ e.counter = f.counter => e = f
         /\ f.counter < e.counter => f.counter <= e.context[e.device] /\ f.ts <= e.ts
  /\ \A e \in S : e.context[e.device] < e.counter
  /\ \A e, f \in S : f.counter <= e.context[f.device] => Dominates(e.context, f.context)

\* The author of a had seen b.
Saw(a, b) == b.counter <= a.context[b.device]

LEMMA EntryFields ==
  ASSUME NEW S, Ordered(S), NEW e \in S
  PROVE  /\ e \in Entry /\ e.key \in Keys /\ e.device \in Devices /\ e.device \in Nat
         /\ e.counter \in Nat /\ e.ts \in Nat
         /\ e.context \in Vector /\ \A a \in Devices : e.context[a] \in Nat
  BY DevicesAreNumbered DEF Ordered, Entry, Vector

\* The causal version of a write: its context, with its own counter.
LEMMA CausalVersionOf ==
  ASSUME NEW S, Ordered(S), NEW e \in S
  PROVE  \A a \in Devices :
           CausalVersion(e)[a] = IF a = e.device THEN e.counter ELSE e.context[a]
  <1>1. e.context[e.device] < e.counter
    BY DEF Ordered
  <1> QED
    BY <1>1, EntryFields DEF CausalVersion, Observe, Vector

\* compareCausal decides whether the author of one write had seen the other.
LEMMA SawIsHappenedAfter ==
  ASSUME NEW S, Ordered(S), NEW e \in S, NEW f \in S, e # f
  PROVE  HappenedAfter(e, f) <=> Saw(e, f)
  <1>1. /\ e.device \in Devices /\ e.counter \in Nat /\ \A a \in Devices : e.context[a] \in Nat
        /\ f.device \in Devices /\ f.counter \in Nat /\ \A a \in Devices : f.context[a] \in Nat
    BY EntryFields
  <1>2. /\ \A a \in Devices : CausalVersion(e)[a] = IF a = e.device THEN e.counter ELSE e.context[a]
        /\ \A a \in Devices : CausalVersion(f)[a] = IF a = f.device THEN f.counter ELSE f.context[a]
    BY CausalVersionOf
  <1>3. e.context[e.device] < e.counter /\ f.context[f.device] < f.counter
    BY DEF Ordered
  <1>4. ASSUME HappenedAfter(e, f)
        PROVE  Saw(e, f)
    <2>1. CausalVersion(f)[f.device] <= CausalVersion(e)[f.device]
      BY <1>1, <1>4 DEF HappenedAfter, Dominates
    <2>2. CASE e.device = f.device
      <3>1. f.counter < e.counter
        BY <1>1, <1>2, <2>1, <2>2 DEF Ordered
      <3> QED
        BY <2>2, <3>1 DEF Ordered, Saw
    <2>3. CASE e.device # f.device
      BY <1>1, <1>2, <2>1, <2>3 DEF Saw
    <2> QED
      BY <2>2, <2>3
  <1>5. ASSUME Saw(e, f)
        PROVE  HappenedAfter(e, f)
    <2>1. \A a \in Devices : f.context[a] <= e.context[a]
      BY <1>5 DEF Saw, Ordered, Dominates
    <2>2. ASSUME NEW a \in Devices
          PROVE  CausalVersion(f)[a] <= CausalVersion(e)[a]
      <3>1. f.context[a] <= e.context[a] /\ e.context[a] \in Nat /\ f.context[a] \in Nat
        BY <1>1, <2>1
      <3>2. f.counter <= e.context[f.device]
        BY <1>5 DEF Saw
      <3>3. CausalVersion(f)[a] <= e.context[a]
        BY <1>1, <1>2, <3>1, <3>2
      <3>4. e.context[a] <= CausalVersion(e)[a]
        BY <1>1, <1>2, <1>3, <3>1
      <3> QED
        BY <1>1, <1>2, <3>1, <3>3, <3>4
    <2>3. ~ (CausalVersion(e)[e.device] <= CausalVersion(f)[e.device])
      <3>1. f.context[e.device] < e.counter
        BY <1>1, <1>3, <2>1
      <3>2. e.device = f.device => f.counter < e.counter
        BY <1>1, <1>3, <1>5 DEF Saw
      <3> QED
        BY <1>1, <1>2, <3>1, <3>2
    <2> QED
      BY <1>1, <2>2, <2>3 DEF HappenedAfter, Dominates
  <1> QED
    BY <1>4, <1>5

\* The merge rule between two writes, by what their authors had seen and by
\* their clocks.
LEMMA BeatsIs ==
  ASSUME NEW S, Ordered(S), NEW a \in S, NEW b \in S, a # b
  PROVE  Beats(a, b) <=> Saw(a, b) \/ (~ Saw(b, a) /\ ClockBeats(a, b))
  BY SawIsHappenedAfter DEF Beats

\* Nobody beats itself, and two writes do not have each other in their past.
LEMMA SawFacts ==
  ASSUME NEW S, Ordered(S), NEW a \in S, NEW b \in S
  PROVE  /\ ~ Saw(a, a)
         /\ ~ (Saw(a, b) /\ Saw(b, a))
         /\ a.device = b.device => (Saw(a, b) <=> b.counter < a.counter)
         /\ \A c \in S : Saw(a, b) /\ Saw(b, c) => Saw(a, c)
  <1>1. /\ a.device \in Devices /\ a.counter \in Nat /\ \A d \in Devices : a.context[d] \in Nat
        /\ b.device \in Devices /\ b.counter \in Nat /\ \A d \in Devices : b.context[d] \in Nat
    BY EntryFields
  <1>2. a.context[a.device] < a.counter /\ b.context[b.device] < b.counter
    BY DEF Ordered
  <1>3. ~ Saw(a, a)
    BY <1>1, <1>2 DEF Saw
  <1>4. ASSUME Saw(a, b), NEW c \in S, Saw(b, c)
        PROVE  Saw(a, c)
    <2>1. c.device \in Devices /\ c.counter \in Nat
      BY EntryFields
    <2>2. b.context[c.device] <= a.context[c.device]
      BY <1>4, <2>1 DEF Saw, Ordered, Dominates
    <2> QED
      BY <1>1, <1>4, <2>1, <2>2 DEF Saw
  <1>5. ~ (Saw(a, b) /\ Saw(b, a))
    BY <1>3, <1>4
  <1>6. a.device = b.device => (Saw(a, b) <=> b.counter < a.counter)
    BY <1>1, <1>2 DEF Saw, Ordered
  <1> QED
    BY <1>3, <1>4, <1>5, <1>6

LEMMA BeatsIsAsymmetric ==
  ASSUME NEW S, Ordered(S), NEW a \in S, NEW b \in S, Beats(a, b)
  PROVE  a # b /\ ~ Beats(b, a)
  <1>1. /\ a.device \in Nat /\ a.counter \in Nat /\ a.ts \in Nat
        /\ b.device \in Nat /\ b.counter \in Nat /\ b.ts \in Nat
    BY EntryFields
  <1>2. ~ (ClockBeats(a, b) /\ ClockBeats(b, a))
    BY <1>1 DEF ClockBeats
  <1>3. CASE a = b
    <2>1. ~ ClockBeats(a, b)
      BY <1>1, <1>3 DEF ClockBeats
    <2>2. ~ HappenedAfter(a, b)
      BY <1>3 DEF HappenedAfter
    <2> QED
      BY <2>1, <2>2 DEF Beats
  <1>4. CASE a # b
    BY <1>2, <1>4, BeatsIs, SawFacts
  <1> QED
    BY <1>3, <1>4

\* A later write of the same device beats an earlier one.
LEMMA BeatsOnOneDevice ==
  ASSUME NEW S, Ordered(S), NEW a \in S, NEW b \in S, a.device = b.device
  PROVE  /\ Beats(a, b) <=> b.counter < a.counter
         /\ Beats(a, b) => Saw(a, b) /\ b.ts <= a.ts
  <1>1. a.counter \in Nat /\ b.counter \in Nat /\ a.ts \in Nat /\ b.ts \in Nat
    BY EntryFields
  <1>2. a.counter = b.counter => a = b
    BY DEF Ordered
  <1>3. b.counter < a.counter => Saw(a, b) /\ b.ts <= a.ts
    BY DEF Ordered, Saw
  <1>4. a.counter < b.counter => Saw(b, a)
    BY DEF Ordered, Saw
  <1> QED
    BY <1>1, <1>2, <1>3, <1>4, BeatsIs, BeatsIsAsymmetric, SawFacts

\* The merge rule is transitive when two of the three writes that the cycle
\* would need are of the same device, next to each other.
LEMMA BeatsFromLater ==
  ASSUME NEW S, Ordered(S), NEW a \in S, NEW b \in S, NEW c \in S,
         a.device = b.device, b.device # c.device, Beats(a, b), Beats(b, c)
  PROVE  Beats(a, c)
  <1>1. /\ a.counter \in Nat /\ b.counter \in Nat /\ a.ts \in Nat /\ b.ts \in Nat /\ c.ts \in Nat
        /\ a.device \in Devices /\ c.context[a.device] \in Nat
        /\ a.device \in Nat /\ c.device \in Nat
    BY EntryFields
  <1>2. Saw(a, b) /\ b.ts <= a.ts /\ b.counter < a.counter
    BY BeatsOnOneDevice
  <1>3. a # c /\ b # c
    OBVIOUS
  <1>4. CASE Saw(b, c)
    BY <1>2, <1>3, <1>4, SawFacts, BeatsIs
  <1>5. CASE ~ Saw(c, b) /\ ClockBeats(b, c)
    <2>1. ~ Saw(c, a)
      BY <1>1, <1>2, <1>5 DEF Saw
    <2>2. ClockBeats(a, c)
      BY <1>1, <1>2, <1>5 DEF ClockBeats
    <2> QED
      BY <1>3, <2>1, <2>2, BeatsIs
  <1> QED
    BY <1>3, <1>4, <1>5, BeatsIs

LEMMA BeatsOverEarlier ==
  ASSUME NEW S, Ordered(S), NEW a \in S, NEW b \in S, NEW c \in S,
         b.device = c.device, a.device # b.device, Beats(a, b), Beats(b, c)
  PROVE  Beats(a, c)
  <1>1. /\ b.counter \in Nat /\ c.counter \in Nat /\ a.ts \in Nat /\ b.ts \in Nat /\ c.ts \in Nat
        /\ b.device \in Devices /\ a.context[b.device] \in Nat
        /\ a.device \in Nat /\ c.device \in Nat
    BY EntryFields
  <1>2. Saw(b, c) /\ c.ts <= b.ts /\ c.counter < b.counter
    BY BeatsOnOneDevice
  <1>3. a # c /\ a # b
    OBVIOUS
  <1>4. CASE Saw(a, b)
    BY <1>2, <1>3, <1>4, SawFacts, BeatsIs
  <1>5. CASE ~ Saw(b, a) /\ ClockBeats(a, b)
    <2>1. ~ Saw(c, a)
      BY <1>2, <1>5, SawFacts
    <2>2. ClockBeats(a, c)
      BY <1>1, <1>2, <1>5 DEF ClockBeats
    <2> QED
      BY <1>3, <2>1, <2>2, BeatsIs
  <1> QED
    BY <1>3, <1>4, <1>5, BeatsIs

\* Between two devices the merge rule is transitive (valueInfoBeats and its
\* variants).
LEMMA BeatsIsTransitive ==
  ASSUME TwoDevices, NEW S, Ordered(S), NEW a \in S, NEW b \in S, NEW c \in S,
         Beats(a, b), Beats(b, c)
  PROVE  Beats(a, c)
  <1>1. /\ a.counter \in Nat /\ b.counter \in Nat /\ c.counter \in Nat
        /\ a.device \in Devices /\ b.device \in Devices /\ c.device \in Devices
    BY EntryFields
  <1>2. CASE a.device = b.device /\ b.device = c.device
    BY <1>1, <1>2, BeatsOnOneDevice
  <1>3. CASE a.device = b.device /\ b.device # c.device
    BY <1>3, BeatsFromLater
  <1>4. CASE a.device # b.device /\ b.device = c.device
    BY <1>4, BeatsOverEarlier
  <1>5. CASE a.device # b.device /\ a.device = c.device
    <2>1. ~ Beats(c, b)
      BY BeatsIsAsymmetric
    <2>2. a # c
      BY <2>1
    <2>3. ~ Beats(c, a)
      BY <1>5, <2>1, BeatsFromLater
    <2>4. a.counter # c.counter
      BY <1>5, <2>2 DEF Ordered
    <2> QED
      BY <1>1, <1>5, <2>3, <2>4, BeatsOnOneDevice
  <1> QED
    BY <1>1, <1>2, <1>3, <1>4, <1>5 DEF TwoDevices

\* Of two writes one beats the other.
LEMMA BeatsIsTotal ==
  ASSUME NEW S, Ordered(S), NEW a \in S, NEW b \in S, a # b
  PROVE  Beats(a, b) \/ Beats(b, a)
  <1>1. /\ a.counter \in Nat /\ b.counter \in Nat /\ a.ts \in Nat /\ b.ts \in Nat
        /\ a.device \in Nat /\ b.device \in Nat
    BY EntryFields
  <1>2. ~ (a.device = b.device /\ a.counter = b.counter)
    BY DEF Ordered
  <1>3. ClockBeats(a, b) \/ ClockBeats(b, a)
    BY <1>1, <1>2 DEF ClockBeats
  <1> QED
    BY <1>3, BeatsIs

\* Some entry of X makes up for the write g: it is g, or an entry for the same
\* key that beats g.
Shows(X, g) == \E h \in X : h.key = g.key /\ (h = g \/ Beats(h, g))

LEMMA ShowsMore ==
  ASSUME NEW X, NEW Y, X \subseteq Y, NEW g, Shows(X, g)
  PROVE  Shows(Y, g)
  BY DEF Shows

\* What makes up for X makes up for whatever X makes up for.
LEMMA ShowsThrough ==
  ASSUME TwoDevices, NEW S, Ordered(S), NEW X, X \subseteq S, NEW Y, Y \subseteq S,
         \A h \in X : Shows(Y, h), NEW g \in S, Shows(X, g)
  PROVE  Shows(Y, g)
  <1>1. PICK h \in X : h.key = g.key /\ (h = g \/ Beats(h, g))
    BY DEF Shows
  <1>2. PICK i \in Y : i.key = h.key /\ (i = h \/ Beats(i, h))
    BY DEF Shows
  <1>3. i = g \/ Beats(i, g)
    BY <1>1, <1>2, BeatsIsTransitive
  <1> QED
    BY <1>1, <1>2, <1>3 DEF Shows

-----------------------------------------------------------------------------
(* The inductive invariant. *)

\* The entries that device d is still to merge.
Left(d) == UNION {j.left : j \in merging[d]}

\* The entries that d holds or is about to merge.
Present(d) == Held(reg[d]) \cup Left(d)

\* X makes up for the writes of the same device before each of E.
Complete(X, E) ==
  \A e \in E, g \in Replica!Issued : g.device = e.device /\ g.counter <= e.counter => Shows(X, g)

\* A device holds each of its own writes, or one that beats it.
OwnWritesAreHeld ==
  \A g \in Replica!Issued : Shows(Held(reg[g.device]), g)

\* A vector stands for what it covers: the device holds the write, or one that
\* beats it, or is about to merge such a one.
CoveredIsPresent ==
  \A d \in Devices, g \in Replica!Issued : g.counter <= vec[d][g.device] => Shows(Present(d), g)

\* A delta, with what the receiver has, leaves no gap before its entries.
DeltasAreComplete ==
  \A m \in net : m.type = "delta" => Complete(Present(m.to) \cup m.entries, m.entries)

MergesAreComplete ==
  \A d \in Devices : Complete(Present(d), Left(d))

PairInv ==
  /\ ClocksRunForward
  /\ OwnWritesAreHeld
  /\ ~ skipped => CoveredIsPresent /\ DeltasAreComplete /\ MergesAreComplete

LEMMA IssuedAreOrdered ==
  ASSUME SyncInv, ClocksRunForward
  PROVE  Ordered(Replica!Issued)
  <1>1. RP!Inv /\ RP!Issued = Replica!Issued /\ Replica!Issued \subseteq Entry
    BY SameTypes, ReplicaTypes DEF SyncInv
  <1>2. \A e, f \in Replica!Issued :
          e.device = f.device =>
            /\ e.counter = f.counter => e = f
            /\ f.counter < e.counter => f.counter <= e.context[e.device]
    BY <1>1 DEF RP!Inv, RP!DotsAreUnique
  <1>3. \A e \in Replica!Issued : e.context[e.device] < e.counter
    BY <1>1 DEF RP!Inv, RP!NothingFromTheFuture
  <1>4. \A e, f \in Replica!Issued : f.counter <= e.context[f.device] => Dominates(e.context, f.context)
    BY <1>1 DEF RP!Inv, RP!CausallyClosed, RP!Dominates, Dominates
  <1> QED
    BY <1>1, <1>2, <1>3, <1>4 DEF Ordered, ClocksRunForward

\* The same, after a step.
LEMMA IssuedStayOrdered ==
  ASSUME SyncInv', ClocksRunForward'
  PROVE  Ordered(Replica!Issued')
  <1>1. /\ RP!Inv' /\ RP!Issued' = Replica!Issued'
        /\ Replica!Issued' = UNION {log'[d] : d \in Devices}
    BY DEF SyncInv, RP!Issued, Replica!Issued
  <1>2. Replica!Issued' \subseteq Entry
    BY <1>1 DEF SyncInv, TypeOK
  <1>3. \A e, f \in Replica!Issued' :
          e.device = f.device =>
            /\ e.counter = f.counter => e = f
            /\ f.counter < e.counter => f.counter <= e.context[e.device]
    BY <1>1 DEF RP!Inv, RP!DotsAreUnique
  <1>4. \A e \in Replica!Issued' : e.context[e.device] < e.counter
    BY <1>1 DEF RP!Inv, RP!NothingFromTheFuture
  <1>5. \A e, f \in Replica!Issued' : f.counter <= e.context[f.device] => Dominates(e.context, f.context)
    BY <1>1 DEF RP!Inv, RP!CausallyClosed, RP!Dominates, Dominates
  <1>6. \A e, f \in Replica!Issued' : e.device = f.device /\ f.counter < e.counter => f.ts <= e.ts
    BY DEF ClocksRunForward
  <1> QED
    BY <1>2, <1>3, <1>4, <1>5, <1>6 DEF Ordered

\* What a device holds or merges was written by some device.
LEMMA PresentIsIssued ==
  ASSUME SyncInv, NEW d \in Devices
  PROVE  /\ Held(reg[d]) \subseteq Replica!Issued
         /\ Left(d) \subseteq Replica!Issued
         /\ Present(d) \subseteq Replica!Issued
         /\ \A k \in Keys : reg[d][k] # NoEntry => reg[d][k].key = k
  <1>1. \A k \in Keys : reg[d][k] # NoEntry => reg[d][k] \in log[d] /\ reg[d][k].key = k
    BY DEF SyncInv, RP!Inv, RP!VectorCoversHeld
  <1>2. Held(reg[d]) \subseteq Replica!Issued
    BY <1>1, SameTypes DEF Held
  <1>3. Left(d) \subseteq Replica!Issued
    BY DEF SyncInv, EntriesAreIssued, Left
  <1> QED
    BY <1>1, <1>2, <1>3 DEF Present

\* A delta that is computed against a vector the receiver has outgrown leaves
\* no gap at the receiver (sendSnapshotMessage, DeltaSince).
LEMMA DeltaIsComplete ==
  ASSUME TwoDevices, SyncInv, PairInv, ~ skipped,
         NEW d \in Devices, NEW p \in Devices, NEW v \in Vector, Dominates(vec[d], v)
  PROVE  Complete(Present(d) \cup DeltaSince(reg[p], v), DeltaSince(reg[p], v))
  <1> DEFINE E == DeltaSince(reg[p], v)
  <1> SUFFICES ASSUME NEW e \in E, NEW g \in Replica!Issued, g.device = e.device, g.counter <= e.counter
               PROVE  Shows(Present(d) \cup E, g)
    BY DEF Complete
  <1>0. CoveredIsPresent /\ OwnWritesAreHeld /\ Ordered(Replica!Issued)
    BY IssuedAreOrdered DEF PairInv
  <1>1. e \in Held(reg[p]) /\ e \in Replica!Issued
    BY PresentIsIssued DEF DeltaSince
  <1>2. /\ e.device \in Devices /\ e.counter \in Nat /\ g.counter \in Nat
        /\ vec[d] \in Vector /\ \A a \in Devices : vec[d][a] \in Nat /\ v[a] \in Nat
    BY <1>0, <1>1, EntryFields DEF SyncInv, TypeOK, Vector
  <1>3. CASE e.device = d
    BY <1>0, <1>3, ShowsMore DEF OwnWritesAreHeld, Present
  <1>4. CASE p = d
    <2>1. PICK k \in Keys : e = reg[d][k] /\ e # NoEntry
      BY <1>1, <1>4 DEF Held
    <2>2. RP!Dominates(vec[d], RP!CausalVersion(e))
      BY <2>1 DEF SyncInv, RP!Inv, RP!VectorCoversHeld
    <2>3. RP!CausalVersion(e) = CausalVersion(e)
      BY DEF RP!CausalVersion, CausalVersion, RP!Observe, Observe
    <2>4. CausalVersion(e)[e.device] = e.counter
      BY <1>0, <1>1, <1>2, CausalVersionOf
    <2>5. e.counter <= vec[d][e.device]
      BY <1>2, <2>2, <2>3, <2>4 DEF RP!Dominates
    <2>6. g.counter <= vec[d][g.device]
      BY <1>2, <2>5
    <2> QED
      BY <1>0, <2>6, ShowsMore DEF CoveredIsPresent
  <1>5. CASE e.device = p /\ p # d
    <2>1. PICK h \in Held(reg[p]) : h.key = g.key /\ (h = g \/ Beats(h, g))
      BY <1>0, <1>5 DEF OwnWritesAreHeld, Shows
    <2>2. CASE h \in E
      BY <2>1, <2>2 DEF Shows
    <2>3. CASE h \notin E
      <3>1. h \in Replica!Issued
        BY PresentIsIssued
      <3>2. Dominates(v, CausalVersion(h))
        BY <2>1, <2>3 DEF DeltaSince
      <3>3. h.device \in Devices /\ h.counter \in Nat /\ CausalVersion(h)[h.device] = h.counter
        BY <1>0, <3>1, EntryFields, CausalVersionOf
      <3>4. h.counter <= vec[d][h.device]
        BY <1>2, <3>2, <3>3 DEF Dominates
      <3>5. Shows(Present(d), h)
        BY <1>0, <3>1, <3>4 DEF CoveredIsPresent
      <3>6. Shows({h}, g)
        BY <2>1 DEF Shows
      <3>7. Shows(Present(d), g)
        BY <1>0, <3>1, <3>5, <3>6, PresentIsIssued, ShowsThrough
      <3> QED
        BY <3>7, ShowsMore
    <2> QED
      BY <2>2, <2>3
  <1> QED
    BY <1>2, <1>3, <1>4, <1>5 DEF TwoDevices

-----------------------------------------------------------------------------
(* Steps that leave the snapshots alone. *)

\* A step that changes neither snapshots nor merges keeps PairInv when the
\* deltas it sends are complete.
LEMMA QuietPairStep ==
  ASSUME SyncInv, PairInv, UNCHANGED <<log, reg, vec>>,
         ~ skipped' => /\ ~ skipped /\ merging' = merging
                       /\ \A m \in net' : m.type = "delta" =>
                            m \in net \/ Complete(Present(m.to) \cup m.entries, m.entries)
  PROVE  PairInv'
  <1>1. Replica!Issued' = Replica!Issued
    BY QuietStep DEF SyncInv
  <1>2. ClocksRunForward' /\ OwnWritesAreHeld'
    BY <1>1 DEF PairInv, ClocksRunForward, OwnWritesAreHeld
  <1>3. ASSUME ~ skipped'
        PROVE  CoveredIsPresent' /\ DeltasAreComplete' /\ MergesAreComplete'
    <2>1. \A d : Left(d)' = Left(d) /\ Present(d)' = Present(d)
      BY <1>3 DEF Left, Present
    <2>2. CoveredIsPresent /\ DeltasAreComplete /\ MergesAreComplete
      BY <1>3 DEF PairInv
    <2>3. CoveredIsPresent'
      BY <1>1, <2>1, <2>2 DEF CoveredIsPresent
    <2>4. MergesAreComplete'
      BY <1>1, <2>1, <2>2 DEF MergesAreComplete, Complete
    <2>5. DeltasAreComplete'
      <3> SUFFICES ASSUME NEW m \in net', m.type = "delta"
                   PROVE  Complete(Present(m.to) \cup m.entries, m.entries)'
        BY DEF DeltasAreComplete
      <3>1. Complete(Present(m.to) \cup m.entries, m.entries)
        BY <1>3, <2>2 DEF DeltasAreComplete
      <3>2. Present(m.to)' = Present(m.to)
        BY <2>1
      <3> QED
        BY <1>1, <3>1, <3>2 DEF Complete
    <2> QED
      BY <2>3, <2>4, <2>5
  <1> QED
    BY <1>2, <1>3 DEF PairInv

\* The push loop, asking and giving up, lost messages and failed writes send no
\* delta; handleSummary and syncWithPeer send complete ones.
LEMMA SendingKeepsPairInv ==
  ASSUME TwoDevices, SyncInv, PairInv, NEW m \in net, HandleSummary(m) \/ HandleAnswer(m)
  PROVE  PairInv'
  <1> DEFINE E == DeltaSince(reg[m.to], m.vector)
  <1>1. /\ m.from \in Devices /\ m.to \in Devices /\ m.vector \in Vector
        /\ Dominates(vec[m.from], m.vector)
    BY DEF HandleSummary, HandleAnswer, SyncInv, TypeOK, SummariesAreStale, Summary, Answer, Delta
  <1>2. UNCHANGED <<log, reg, vec, merging, skipped>>
    BY DEF HandleSummary, HandleAnswer, logVars, faultVars
  <1>3. \A x \in net' : x.type = "delta" => x \in net \/ (x.to = m.from /\ x.entries = E)
    <2> DEFINE a == [type |-> "answer", from |-> m.to, to |-> m.from, vector |-> AnswerVector(m)]
    <2>1. net' \subseteq net \cup {a} \cup DeltaTo(m.from, E)
      BY DEF HandleSummary, HandleAnswer, AnswerDelta
    <2>2. a.type # "delta"
      OBVIOUS
    <2>3. \A x \in DeltaTo(m.from, E) : x.to = m.from /\ x.entries = E
      <3> HIDE DEF E
      <3> QED
        BY DEF DeltaTo
    <2> HIDE DEF E, a
    <2> QED
      BY <2>1, <2>2, <2>3
  <1>4. ~ skipped => Complete(Present(m.from) \cup E, E)
    BY <1>1, DeltaIsComplete
  <1> HIDE DEF E
  <1>5. ~ skipped => \A x \in net' : x.type = "delta" =>
          x \in net \/ Complete(Present(x.to) \cup x.entries, x.entries)
    BY <1>3, <1>4
  <1> QED
    BY <1>2, <1>5, QuietPairStep

LEMMA QuietActionsKeepPairInv ==
  ASSUME SyncInv, PairInv,
         \/ \E d \in Devices : \/ WriteFails(d) \/ Tick(d) \/ EndRound(d) \/ Restart(d)
                               \/ \E p \in Peers(d) : SendSummary(d, p) \/ GiveUp(d, p)
                               \/ \E j \in merging[d] : \E e \in NextToMerge(j) : SkipEntry(d, j, e)
         \/ \E m \in net : Lose(m)
         \/ UNCHANGED vars
  PROVE  PairInv'
  <1> DEFINE Quiet == /\ UNCHANGED <<log, reg, vec>>
                      /\ ~ skipped' => /\ ~ skipped /\ merging' = merging
                                       /\ \A m \in net' : m.type = "delta" => m \in net
  <1>1. ASSUME NEW d \in Devices, WriteFails(d) \/ Tick(d) \/ EndRound(d)
        PROVE  Quiet
    BY <1>1 DEF WriteFails, Tick, EndRound, logVars, faultVars
  <1>2. ASSUME NEW d \in Devices, NEW p \in Peers(d), SendSummary(d, p) \/ GiveUp(d, p)
        PROVE  Quiet
    <2>1. CASE SendSummary(d, p)
      BY <2>1 DEF SendSummary, logVars, faultVars
    <2>2. CASE GiveUp(d, p)
      <3>1. UNCHANGED <<log, reg, vec, merging, skipped>> /\ net' = StreamClosed(d, p)
        BY <2>2 DEF GiveUp, logVars
      <3>2. \A x \in net' : x \in net \/ x.type # "delta"
        <4> SUFFICES ASSUME NEW x \in OnStream(d, p), x.type = "summary"
                     PROVE  [x EXCEPT !.open = FALSE].type # "delta"
          BY <3>1 DEF StreamClosed
        <4>1. x \in Summary
          BY DEF OnStream, SyncInv, TypeOK, Summary, Answer, Delta
        <4> QED
          BY <4>1 DEF Summary
      <3> QED
        BY <3>1, <3>2
    <2> QED
      BY <1>2, <2>1, <2>2
  <1>3. ASSUME NEW d \in Devices, NEW j \in merging[d], NEW e, SkipEntry(d, j, e)
        PROVE  Quiet
    BY <1>3 DEF SkipEntry, logVars
  <1>4. ASSUME NEW d \in Devices, Restart(d)
        PROVE  Quiet
    <2>1. UNCHANGED <<log, reg, vec>> /\ skipped' = (skipped \/ merging[d] # {})
      BY <1>4 DEF Restart
    <2>2. merging[d] = {} => merging' = merging
      BY <1>4 DEF Restart, SyncInv, TypeOK
    <2>3. \A x \in net' : x.type = "delta" => x \in net
      <3> SUFFICES ASSUME NEW x \in net, x.type = "summary"
                   PROVE  [x EXCEPT !.open = FALSE].type # "delta"
        BY <1>4 DEF Restart
      <3>1. x \in Summary
        BY DEF SyncInv, TypeOK, Summary, Answer, Delta
      <3> QED
        BY <3>1 DEF Summary
    <2>4. skipped \in BOOLEAN
      BY DEF SyncInv, TypeOK
    <2> QED
      BY <2>1, <2>2, <2>3, <2>4
  <1>5. ASSUME NEW m \in net, Lose(m)
        PROVE  Quiet
    BY <1>5 DEF Lose, logVars
  <1>6. ASSUME UNCHANGED vars
        PROVE  Quiet
    <2>1. UNCHANGED <<log, reg, vec, merging, net, skipped>>
      BY <1>6 DEF vars
    <2> QED
      BY <2>1
  <1>7. Quiet
    <2> HIDE DEF Quiet
    <2> QED
      BY <1>1, <1>2, <1>3, <1>4, <1>5, <1>6, Zenon
  <1> QED
    BY <1>7, QuietPairStep

\* A merge that starts takes its delta's place (mergeSnapshotMessage).
LEMMA StartMergeKeepsPairInv ==
  ASSUME SyncInv, PairInv, NEW m \in net, StartMerge(m)
  PROVE  PairInv'
  <1>1. /\ UNCHANGED <<log, reg, vec, skipped>> /\ m.type = "delta" /\ net' \subseteq net
        /\ merging' = [merging EXCEPT ![m.to] = @ \cup {[left |-> m.entries, merged |-> FALSE]}]
    BY DEF StartMerge, logVars, faultVars
  <1>2. m.to \in Devices
    BY <1>1 DEF SyncInv, TypeOK, Summary, Answer, Delta
  <1>3. Replica!Issued' = Replica!Issued
    BY <1>1, QuietStep DEF SyncInv
  <1>4. ClocksRunForward' /\ OwnWritesAreHeld'
    BY <1>1, <1>3 DEF PairInv, ClocksRunForward, OwnWritesAreHeld
  <1>5. ASSUME ~ skipped
        PROVE  CoveredIsPresent' /\ DeltasAreComplete' /\ MergesAreComplete'
    <2>1. merging \in [Devices -> SUBSET [left : SUBSET Entry, merged : BOOLEAN]]
      BY DEF SyncInv, TypeOK
    <2>2. \A d \in Devices : Left(d)' = IF d = m.to THEN Left(d) \cup m.entries ELSE Left(d)
      <3> SUFFICES ASSUME NEW d \in Devices
                   PROVE  Left(d)' = IF d = m.to THEN Left(d) \cup m.entries ELSE Left(d)
        OBVIOUS
      <3>1. CASE d # m.to
        BY <1>1, <1>2, <2>1, <3>1 DEF Left
      <3>2. CASE d = m.to
        <4> DEFINE job == [left |-> m.entries, merged |-> FALSE]
        <4>1. merging'[d] = merging[d] \cup {job}
          BY <1>1, <1>2, <2>1, <3>2
        <4>2. job.left = m.entries
          OBVIOUS
        <4> HIDE DEF job
        <4>3. Left(d)' = Left(d) \cup job.left
          BY <4>1 DEF Left
        <4> QED
          BY <3>2, <4>2, <4>3
      <3> QED
        BY <3>1, <3>2
    <2>3. \A d \in Devices : Present(d)' = IF d = m.to THEN Present(d) \cup m.entries ELSE Present(d)
      BY <1>1, <2>2 DEF Present
    <2>4. CoveredIsPresent /\ DeltasAreComplete /\ MergesAreComplete
      BY <1>5 DEF PairInv
    <2>5. ASSUME NEW d \in Devices, NEW g, Shows(Present(d), g)
          PROVE  Shows(Present(d)', g)
      BY <2>3, <2>5, ShowsMore
    <2>6. CoveredIsPresent'
      BY <1>1, <1>3, <2>4, <2>5 DEF CoveredIsPresent
    <2>7. DeltasAreComplete'
      <3> SUFFICES ASSUME NEW x \in net, x.type = "delta",
                          NEW e \in x.entries, NEW g \in Replica!Issued,
                          g.device = e.device, g.counter <= e.counter
                   PROVE  Shows(Present(x.to)' \cup x.entries, g)
        BY <1>1, <1>3 DEF DeltasAreComplete, Complete
      <3>1. x.to \in Devices
        BY DEF SyncInv, TypeOK, Summary, Answer, Delta
      <3>2. Shows(Present(x.to) \cup x.entries, g)
        BY <2>4 DEF DeltasAreComplete, Complete
      <3> QED
        BY <3>1, <3>2, <2>3, ShowsMore
    <2>8. MergesAreComplete'
      <3> SUFFICES ASSUME NEW d \in Devices, NEW e \in Left(d)', NEW g \in Replica!Issued,
                          g.device = e.device, g.counter <= e.counter
                   PROVE  Shows(Present(d)', g)
        BY <1>3 DEF MergesAreComplete, Complete
      <3>1. CASE e \in Left(d)
        <4>1. Shows(Present(d), g)
          BY <2>4, <3>1 DEF MergesAreComplete, Complete
        <4> QED
          BY <4>1, <2>5
      <3>2. CASE d = m.to /\ e \in m.entries
        <4>1. Shows(Present(d) \cup m.entries, g)
          BY <1>1, <2>4, <3>2 DEF DeltasAreComplete, Complete
        <4> QED
          BY <4>1, <3>2, <2>3
      <3> QED
        BY <2>2, <3>1, <3>2
    <2> QED
      BY <2>6, <2>7, <2>8
  <1> QED
    BY <1>1, <1>4, <1>5 DEF PairInv

-----------------------------------------------------------------------------
(* Steps that append an entry. *)

\* After an append the device makes up for the entry and for whatever it held.
LEMMA HeldAfter ==
  ASSUME SyncInv, NEW d \in Devices, NEW e \in Entry, AppendEntry(d, e),
         NEW S, Ordered(S), Held(reg[d]) \subseteq S, e \in S
  PROVE  /\ \A h \in Held(reg[d]) \cup {e} : Shows(Held(reg'[d]), h)
         /\ Held(reg'[d]) \subseteq Held(reg[d]) \cup {e}
         /\ \A p \in Devices : p # d => reg'[p] = reg[p]
  <1> DEFINE r == reg[d][e.key]
  <1>1. reg \in [Devices -> [Keys -> Entry \cup {NoEntry}]] /\ e.key \in Keys
    BY DEF SyncInv, TypeOK, Entry
  <1>2. /\ reg'[d] = [reg[d] EXCEPT ![e.key] = ApplyRegister(r, e)]
        /\ \A p \in Devices : p # d => reg'[p] = reg[p]
    BY <1>1 DEF AppendEntry
  <1>3. reg'[d][e.key] = ApplyRegister(r, e) /\ \A k \in Keys : k # e.key => reg'[d][k] = reg[d][k]
    BY <1>1, <1>2
  <1>4. e # NoEntry
    BY NoEntryIsNoEntry
  <1>5. r # NoEntry => r \in Held(reg[d]) /\ r \in S /\ r.key = e.key
    BY <1>1, PresentIsIssued DEF Held
  <1>6. ApplyRegister(r, e) = e \/ (r # NoEntry /\ ApplyRegister(r, e) = r)
    BY DEF ApplyRegister
  <1>7. ApplyRegister(r, e) # NoEntry /\ ApplyRegister(r, e) \in Held(reg'[d])
    BY <1>1, <1>3, <1>4, <1>6 DEF Held
  <1>8. Held(reg'[d]) \subseteq Held(reg[d]) \cup {e}
    BY <1>1, <1>3, <1>5, <1>6 DEF Held
  <1>9. Shows(Held(reg'[d]), e)
    <2>1. CASE ApplyRegister(r, e) = e
      BY <1>7, <2>1 DEF Shows
    <2>2. CASE r # NoEntry /\ ApplyRegister(r, e) = r /\ r # e
      <3>1. Beats(r, e)
        BY <1>5, <2>2, BeatsIsTotal DEF ApplyRegister
      <3> QED
        BY <1>5, <1>7, <2>2, <3>1 DEF Shows
    <2> QED
      BY <1>6, <2>1, <2>2
  <1>10. ASSUME NEW h \in Held(reg[d])
         PROVE  Shows(Held(reg'[d]), h)
    <2>1. PICK k \in Keys : h = reg[d][k] /\ h # NoEntry
      BY DEF Held
    <2>2. CASE k # e.key
      <3>1. h \in Held(reg'[d])
        BY <1>3, <2>1, <2>2 DEF Held
      <3> QED
        BY <3>1 DEF Shows
    <2>3. CASE k = e.key
      <3>1. h = r
        BY <2>1, <2>3
      <3>2. ApplyRegister(r, e) = h \/ (ApplyRegister(r, e) = e /\ Beats(e, h))
        BY <2>1, <3>1 DEF ApplyRegister
      <3> QED
        BY <1>5, <1>7, <2>1, <3>1, <3>2 DEF Shows
    <2> QED
      BY <2>2, <2>3
  <1> QED
    BY <1>2, <1>8, <1>9, <1>10

\* An append loses nothing: what a device made up for, with whatever is on its
\* way to it, it still makes up for.
LEMMA AppendLosesNothing ==
  ASSUME TwoDevices, SyncInv, NEW d \in Devices, NEW e \in Entry, AppendEntry(d, e),
         NEW S, Ordered(S), Replica!Issued \subseteq S, e \in S,
         \A p \in Devices : Left(p)' \subseteq Left(p),
         \A p \in Devices : Left(p) \subseteq Left(p)' \cup {x \in {e} : p = d}
  PROVE  \A p \in Devices : \A g \in S :
           /\ Shows(Held(reg[p]), g) => Shows(Held(reg'[p]), g)
           /\ \A E \in SUBSET S : Shows(Present(p) \cup E, g) => Shows(Present(p)' \cup E, g)
  <1> SUFFICES ASSUME NEW p \in Devices, NEW g \in S
               PROVE  /\ Shows(Held(reg[p]), g) => Shows(Held(reg'[p]), g)
                      /\ \A E \in SUBSET S :
                           Shows(Present(p) \cup E, g) => Shows(Present(p)' \cup E, g)
    OBVIOUS
  <1>1. /\ Held(reg[p]) \subseteq S /\ Left(p) \subseteq S /\ Left(p)' \subseteq S
        /\ Held(reg[d]) \subseteq S
    BY PresentIsIssued
  <1>2. /\ \A h \in Held(reg[d]) \cup {e} : Shows(Held(reg'[d]), h)
        /\ Held(reg'[d]) \subseteq Held(reg[d]) \cup {e}
        /\ p # d => reg'[p] = reg[p]
    BY <1>1, HeldAfter
  <1>3. Held(reg'[p]) \subseteq S /\ \A h \in Held(reg[p]) : Shows(Held(reg'[p]), h)
    <2>1. CASE p = d
      BY <1>1, <1>2, <2>1
    <2>2. CASE p # d
      BY <1>1, <1>2, <2>2 DEF Shows
    <2> QED
      BY <2>1, <2>2
  <1>4. Shows(Held(reg[p]), g) => Shows(Held(reg'[p]), g)
    BY <1>1, <1>3, ShowsThrough
  <1>5. ASSUME NEW E \in SUBSET S, Shows(Present(p) \cup E, g)
        PROVE  Shows(Present(p)' \cup E, g)
    <2> DEFINE X == Present(p) \cup E
               Y == Held(reg'[p]) \cup Left(p)' \cup E
    <2>1. X \subseteq S /\ Y \subseteq S
      BY <1>1, <1>3 DEF Present
    <2>2. ASSUME NEW h \in X
          PROVE  Shows(Y, h)
      <3>1. CASE h \in Held(reg[p])
        BY <1>3, <3>1, ShowsMore
      <3>2. CASE h \in Left(p)' \cup E
        BY <3>2 DEF Shows
      <3>3. CASE p = d /\ h = e
        BY <1>2, <3>3, ShowsMore
      <3> QED
        BY <3>1, <3>2, <3>3 DEF Present
    <2>3. Y = Present(p)' \cup E
      BY DEF Present
    <2> HIDE DEF X, Y
    <2>4. Shows(Y, g)
      BY <1>5, <2>1, <2>2, ShowsThrough DEF X
    <2> QED
      BY <2>3, <2>4
  <1> QED
    BY <1>4, <1>5

\* Appending an entry of a merge: its dot and its context stand for writes that
\* the merge makes up for (diffAndMerge).
LEMMA MergeEntryKeepsPairInv ==
  ASSUME TwoDevices, SyncInv, PairInv, NEW d \in Devices, NEW j \in merging[d], NEW e \in j.left,
         MergeEntry(d, j, e)
  PROVE  PairInv'
  <1> DEFINE I == Replica!Issued
             next == [left |-> j.left \ {e}, merged |-> TRUE]
  <1>1. /\ AppendEntry(d, e) /\ UNCHANGED <<net, skipped>>
        /\ merging' = [merging EXCEPT ![d] = (@ \ {j}) \cup {i \in {next} : i.left # {}}]
    BY DEF MergeEntry, AdvanceMerge, faultVars
  <1>2. e \in Replica!Issued /\ RP!Inv /\ Ordered(Replica!Issued)
    BY IssuedAreOrdered DEF SyncInv, EntriesAreIssued, PairInv
  <1>3. /\ e \in Entry /\ e.device \in Devices /\ e.counter \in Nat
        /\ \A a \in Devices : e.context[a] \in Nat /\ vec[d][a] \in Nat
    BY <1>2, EntryFields DEF SyncInv, TypeOK, Vector
  <1>4. /\ \A p \in Devices : p # d => vec'[p] = vec[p]
        /\ \A a \in Devices : \/ vec'[d][a] = vec[d][a]
                              \/ vec'[d][a] = e.context[a]
                              \/ a = e.device /\ vec'[d][a] = e.counter
        /\ Replica!Issued' = Replica!Issued \cup {e}
    <2>1. RP!Inv /\ e \in Entry /\ AppendEntry(d, e)
      BY <1>1, <1>2, <1>3
    <2> QED
      BY ZenonT(60), <2>1, AppendFacts
  <1>5. Replica!Issued' = Replica!Issued
    BY <1>2, <1>4
  <1>6. merging \in [Devices -> SUBSET [left : SUBSET Entry, merged : BOOLEAN]]
    BY DEF SyncInv, TypeOK
  <1>7. /\ \A p \in Devices : Left(p)' \subseteq Left(p)
        /\ \A p \in Devices : Left(p) \subseteq Left(p)' \cup {x \in {e} : p = d}
    <2> SUFFICES ASSUME NEW p \in Devices
                 PROVE  Left(p)' \subseteq Left(p) /\ Left(p) \subseteq Left(p)' \cup {x \in {e} : p = d}
      OBVIOUS
    <2>1. CASE p # d
      BY <1>1, <1>6, <2>1 DEF Left
    <2>2. CASE p = d
      <3>1. merging'[d] = (merging[d] \ {j}) \cup {i \in {next} : i.left # {}}
        BY <1>1, <1>6
      <3>2. next.left = j.left \ {e}
        OBVIOUS
      <3> HIDE DEF next
      <3>3. Left(d)' \subseteq Left(d)
        BY <3>1, <3>2 DEF Left
      <3>4. Left(d) \subseteq Left(d)' \cup {e}
        <4> SUFFICES ASSUME NEW i \in merging[d], NEW x \in i.left, x # e
                     PROVE  x \in Left(d)'
          BY DEF Left
        <4>1. CASE i # j
          BY <3>1, <4>1 DEF Left
        <4>2. CASE i = j
          <5>1. x \in next.left
            BY <3>2, <4>2
          <5>2. next \in merging'[d]
            BY <3>1, <5>1
          <5> QED
            BY <5>1, <5>2 DEF Left
        <4> QED
          BY <4>1, <4>2
      <3> QED
        BY <2>2, <3>3, <3>4
    <2> QED
      BY <2>1, <2>2
  <1>8. \A p \in Devices : \A g \in I :
          /\ Shows(Held(reg[p]), g) => Shows(Held(reg'[p]), g)
          /\ \A E \in SUBSET I : Shows(Present(p) \cup E, g) => Shows(Present(p)' \cup E, g)
    <2>1. e \in Entry /\ AppendEntry(d, e) /\ e \in I /\ Replica!Issued \subseteq I /\ Ordered(I)
      BY <1>1, <1>2, <1>3
    <2> HIDE DEF I, next
    <2> QED
      BY <1>7, <2>1, AppendLosesNothing
  <1>9. ASSUME NEW p \in Devices, NEW g \in I, Shows(Present(p), g)
        PROVE  Shows(Present(p)', g)
    <2>1. Present(p) \cup {} = Present(p) /\ Present(p)' \cup {} = Present(p)'
      OBVIOUS
    <2>2. Shows(Present(p) \cup {}, g) => Shows(Present(p)' \cup {}, g)
      BY <1>8
    <2> QED
      BY <1>9, <2>1, <2>2
  <1> HIDE DEF next
  <1>10. ClocksRunForward'
    BY <1>1, <1>5 DEF PairInv, ClocksRunForward
  <1>11. OwnWritesAreHeld'
    BY <1>2, <1>5, <1>8, EntryFields DEF PairInv, OwnWritesAreHeld
  <1>12. ASSUME ~ skipped
         PROVE  CoveredIsPresent' /\ DeltasAreComplete' /\ MergesAreComplete'
    <2>1. CoveredIsPresent /\ DeltasAreComplete /\ MergesAreComplete /\ OwnWritesAreHeld
      BY <1>12 DEF PairInv
    <2>2. e \in Left(d)
      BY DEF Left
    <2>3. CoveredIsPresent'
      <3> SUFFICES ASSUME NEW p \in Devices, NEW g \in Replica!Issued, g.counter <= vec'[p][g.device]
                   PROVE  Shows(Present(p), g)
        BY <1>5, <1>9 DEF CoveredIsPresent
      <3>1. g.device \in Devices /\ g.counter \in Nat
        BY <1>2, EntryFields
      <3>2. CASE g.counter <= vec[p][g.device]
        BY <2>1, <3>2 DEF CoveredIsPresent
      <3>3. CASE p = d /\ g.device = e.device /\ g.counter <= e.counter
        BY <2>1, <2>2, <3>3 DEF MergesAreComplete, Complete
      <3>4. CASE p = d /\ g.counter <= e.context[g.device]
        <4>1. CASE g.device = d
          BY <2>1, <3>4, <4>1, ShowsMore DEF OwnWritesAreHeld, Present
        <4>2. CASE g.device = e.device
          <5>1. e.context[e.device] < e.counter
            BY <1>2 DEF Ordered
          <5> QED
            BY <1>3, <3>1, <3>3, <3>4, <4>2, <5>1
        <4>3. CASE e.device = d
          <5>1. e.counter <= vec[d][e.device]
            BY <1>2, <4>3, SameTypes DEF RP!Inv, RP!NothingFromTheFuture
          <5>2. RP!Dominates(vec[d], e.context)
            BY <1>2, <5>1, SameTypes DEF RP!Inv, RP!CausallyClosed
          <5>3. g.counter <= vec[d][g.device]
            BY <1>3, <3>1, <3>4, <5>2 DEF RP!Dominates
          <5> QED
            BY <3>2, <3>4, <5>3
        <4> QED
          BY <1>3, <3>1, <4>1, <4>2, <4>3 DEF TwoDevices
      <3> QED
        BY <1>4, <3>1, <3>2, <3>3, <3>4
    <2>4. DeltasAreComplete'
      <3> SUFFICES ASSUME NEW x \in net, x.type = "delta",
                          NEW f \in x.entries, NEW g \in Replica!Issued,
                          g.device = f.device, g.counter <= f.counter
                   PROVE  Shows(Present(x.to)' \cup x.entries, g)
        BY <1>1, <1>5 DEF DeltasAreComplete, Complete
      <3>1. x.to \in Devices /\ x.entries \subseteq I
        BY DEF SyncInv, TypeOK, EntriesAreIssued, Summary, Answer, Delta
      <3>2. Shows(Present(x.to) \cup x.entries, g)
        BY <2>1 DEF DeltasAreComplete, Complete
      <3> QED
        BY <1>8, <3>1, <3>2
    <2>5. MergesAreComplete'
      <3> SUFFICES ASSUME NEW p \in Devices, NEW f \in Left(p)', NEW g \in Replica!Issued,
                          g.device = f.device, g.counter <= f.counter
                   PROVE  Shows(Present(p)', g)
        BY <1>5 DEF MergesAreComplete, Complete
      <3>1. Shows(Present(p), g)
        BY <1>7, <2>1 DEF MergesAreComplete, Complete
      <3> QED
        BY <1>9, <3>1
    <2> QED
      BY <2>3, <2>4, <2>5
  <1> QED
    BY <1>1, <1>10, <1>11, <1>12 DEF PairInv

\* A local write takes a counter that nobody's vector covers yet (Store.Set).
LEMMA WriteKeepsPairInv ==
  ASSUME TwoDevices, SyncInv, PairInv, NEW d \in Devices, WriteSome(d), ClocksRunForward'
  PROVE  PairInv'
  <1>0. PICK w \in Writes[d] : Write(d, w.key, w.op, w.ts)
    BY DEF WriteSome
  <1> DEFINE e == [op |-> w.op, key |-> w.key, device |-> d, counter |-> seq[d] + 1,
                   ts |-> w.ts, context |-> vec[d]]
             J == Replica!Issued'
  <1>1. AppendEntry(d, e) /\ UNCHANGED <<net, merging, skipped>>
    BY <1>0 DEF Write, faultVars
  <1>2. /\ seq[d] \in Nat /\ vec[d] \in Vector /\ \A p, a \in Devices : vec[p][a] \in Nat
        /\ w.key \in Keys /\ w.op \in {"set", "delete"} /\ w.ts \in Nat
    BY WritesAreWrites DEF SyncInv, TypeOK, Vector
  <1>3. e \in Entry /\ e.device = d /\ e.counter = seq[d] + 1 /\ e.context = vec[d]
    BY <1>2 DEF Entry
  <1> HIDE DEF e
  <1>4. RP!Inv /\ SyncInv' /\ Ordered(Replica!Issued)
    BY WriteKeepsSyncInv, IssuedAreOrdered DEF SyncInv, PairInv
  <1>5. /\ \A p \in Devices : p # d => vec'[p] = vec[p]
        /\ \A a \in Devices : \/ vec'[d][a] = vec[d][a]
                              \/ vec'[d][a] = e.context[a]
                              \/ a = e.device /\ vec'[d][a] = e.counter
        /\ Replica!Issued' = Replica!Issued \cup {e}
    <2>1. RP!Inv /\ e \in Entry /\ AppendEntry(d, e)
      BY <1>1, <1>3, <1>4
    <2> QED
      BY ZenonT(60), <2>1, AppendFacts
  <1>6. /\ \A g \in Replica!Issued : g.device = d => g.counter < e.counter
        /\ \A p \in Devices : vec[p][d] < e.counter
    <2>1. vec[d][d] <= seq[d]
      BY DEF SyncInv, LastOwnWriteIsLogged
    <2>2. \A p \in Devices : vec[p][d] <= vec[d][d]
      BY <1>4 DEF RP!Inv, RP!NothingFromTheFuture
    <2>3. \A g \in Replica!Issued : g.counter \in Nat /\ (g.device = d => g.counter <= vec[d][d])
      BY <1>4, SameTypes, EntryFields DEF RP!Inv, RP!NothingFromTheFuture
    <2> QED
      BY <1>2, <1>3, <2>1, <2>2, <2>3
  <1>8. Ordered(J) /\ Replica!Issued \subseteq J /\ e \in J
    BY <1>4, <1>5, IssuedStayOrdered
  <1>9. \A p \in Devices : Left(p)' = Left(p)
    BY <1>1 DEF Left
  <1>10. \A p \in Devices : \A g \in J :
           /\ Shows(Held(reg[p]), g) => Shows(Held(reg'[p]), g)
           /\ \A E \in SUBSET J : Shows(Present(p) \cup E, g) => Shows(Present(p)' \cup E, g)
    <2>1. /\ \A p \in Devices : Left(p)' \subseteq Left(p)
          /\ \A p \in Devices : Left(p) \subseteq Left(p)' \cup {x \in {e} : p = d}
      BY <1>9
    <2>2. e \in Entry /\ AppendEntry(d, e)
      BY <1>1, <1>3
    <2> HIDE DEF J
    <2> QED
      BY <1>8, <2>1, <2>2, AppendLosesNothing
  <1>11. ASSUME NEW p \in Devices, NEW g \in J, Shows(Present(p), g)
         PROVE  Shows(Present(p)', g)
    <2>1. Present(p) \cup {} = Present(p) /\ Present(p)' \cup {} = Present(p)'
      OBVIOUS
    <2>2. Shows(Present(p) \cup {}, g) => Shows(Present(p)' \cup {}, g)
      BY <1>10
    <2> QED
      BY <1>11, <2>1, <2>2
  <1>12. Shows(Held(reg'[d]), e)
    <2>1. Held(reg[d]) \subseteq J
      BY <1>8, PresentIsIssued
    <2> HIDE DEF J
    <2> QED
      BY <1>1, <1>3, <1>8, <2>1, HeldAfter
  <1>13. OwnWritesAreHeld'
    <2> SUFFICES ASSUME NEW g \in J
                 PROVE  Shows(Held(reg'[g.device]), g)
      BY DEF OwnWritesAreHeld
    <2>1. CASE g = e
      BY <1>3, <1>12, <2>1
    <2>2. CASE g \in Replica!Issued
      BY <1>4, <1>10, <2>2, EntryFields DEF PairInv, OwnWritesAreHeld
    <2> QED
      BY <1>5, <2>1, <2>2
  <1>14. ASSUME ~ skipped
         PROVE  CoveredIsPresent' /\ DeltasAreComplete' /\ MergesAreComplete'
    <2>1. CoveredIsPresent /\ DeltasAreComplete /\ MergesAreComplete
      BY <1>14 DEF PairInv
    <2>2. CoveredIsPresent'
      <3> SUFFICES ASSUME NEW p \in Devices, NEW g \in J, g.counter <= vec'[p][g.device]
                   PROVE  Shows(Present(p)', g)
        BY DEF CoveredIsPresent
      <3>1. g.device \in Devices /\ g.counter \in Nat
        BY <1>8, EntryFields
      <3>2. CASE p = d /\ g.device = d
        <4>1. Shows(Held(reg'[d]), g)
          BY <1>13, <3>2 DEF OwnWritesAreHeld
        <4> QED
          BY <3>2, <4>1, ShowsMore DEF Present
      <3>3. CASE ~ (p = d /\ g.device = d)
        <4>1. vec'[p][g.device] = vec[p][g.device]
          BY <1>3, <1>5, <3>1, <3>3
        <4>2. g \in Replica!Issued
          BY <1>2, <1>3, <1>5, <1>6, <3>1, <4>1
        <4>3. Shows(Present(p), g)
          BY <2>1, <4>1, <4>2 DEF CoveredIsPresent
        <4> QED
          BY <1>11, <4>3
      <3> QED
        BY <3>2, <3>3
    <2>3. ASSUME NEW f \in Replica!Issued, NEW g \in J, g.device = f.device, g.counter <= f.counter
          PROVE  g \in Replica!Issued
      <3>1. f.counter \in Nat /\ g.counter \in Nat
        BY <1>4, <1>8, EntryFields
      <3> QED
        BY <1>3, <1>5, <1>6, <2>3, <3>1
    <2>4. DeltasAreComplete'
      <3> SUFFICES ASSUME NEW x \in net, x.type = "delta",
                          NEW f \in x.entries, NEW g \in J,
                          g.device = f.device, g.counter <= f.counter
                   PROVE  Shows(Present(x.to)' \cup x.entries, g)
        BY <1>1 DEF DeltasAreComplete, Complete
      <3>1. x.to \in Devices /\ x.entries \subseteq Replica!Issued
        BY DEF SyncInv, TypeOK, EntriesAreIssued, Summary, Answer, Delta
      <3>2. g \in Replica!Issued
        BY <2>3, <3>1
      <3>3. Shows(Present(x.to) \cup x.entries, g)
        BY <2>1, <3>2 DEF DeltasAreComplete, Complete
      <3>4. x.entries \in SUBSET J
        BY <1>8, <3>1
      <3> HIDE DEF J
      <3> QED
        BY <1>10, <3>1, <3>3, <3>4
    <2>5. MergesAreComplete'
      <3> SUFFICES ASSUME NEW p \in Devices, NEW f \in Left(p), NEW g \in J,
                          g.device = f.device, g.counter <= f.counter
                   PROVE  Shows(Present(p)', g)
        BY <1>9 DEF MergesAreComplete, Complete
      <3>1. g \in Replica!Issued
        BY <2>3, PresentIsIssued
      <3>2. Shows(Present(p), g)
        BY <2>1, <3>1 DEF MergesAreComplete, Complete
      <3> QED
        BY <1>11, <3>2
    <2> QED
      BY <2>2, <2>4, <2>5
  <1> QED
    BY <1>1, <1>13, <1>14 DEF PairInv

-----------------------------------------------------------------------------
(* The theorems. *)

LEMMA InitPairInv ==
  ASSUME Init
  PROVE  PairInv
  <1>1. Replica!Issued = {}
    BY DEF Init, Replica!Issued
  <1>2. net = {} /\ \A d \in Devices : Left(d) = {}
    BY DEF Init, Left
  <1> QED
    BY <1>1, <1>2 DEF PairInv, ClocksRunForward, OwnWritesAreHeld, CoveredIsPresent,
         DeltasAreComplete, MergesAreComplete, Complete

\* A step of KVReplica appends one entry on one device.
LEMMA ReplicaStepAppends ==
  ASSUME TypeOK', Replica!Next
  PROVE  \E d \in Devices : \E e \in Entry : AppendEntry(d, e) /\ e \in log'[d]
  <1>1. PICK d \in Devices : \E e : Replica!AppendEntry(d, e)
    BY DEF Replica!Next, Replica!AppendLocal, Replica!Append
  <1>2. PICK e : Replica!AppendEntry(d, e)
    BY <1>1
  <1>3. AppendEntry(d, e)
    BY <1>2 DEF AppendEntry, ApplyRegister, ApplyVector, Beats, ClockBeats, HappenedAfter,
         CausalVersion, Dominates, Observe, Merge,
         Replica!AppendEntry, Replica!ApplyRegister, Replica!ApplyVector,
         Replica!Beats, Replica!ClockBeats, Replica!HappenedAfter,
         Replica!CausalVersion, Replica!Dominates, Replica!Observe, Replica!Merge
  <1> QED
    BY <1>3 DEF AppendEntry, TypeOK

\* A clock that was set back stays noticed: logs only grow.
LEMMA ClocksRanForward ==
  ASSUME SyncInv, [Next]_vars, ClocksRunForward'
  PROVE  ClocksRunForward
  <1>1. SyncInv' /\ [Replica!Next]_(Replica!vars)
    BY NextKeepsSyncInv
  <1>2. Replica!Issued \subseteq Replica!Issued'
    <2>1. CASE UNCHANGED Replica!vars
      BY <2>1 DEF Replica!vars, Replica!Issued
    <2>2. CASE Replica!Next
      <3>1. PICK d \in Devices, e \in Entry : AppendEntry(d, e)
        BY <1>1, <2>2, ReplicaStepAppends DEF SyncInv
      <3> QED
        BY <3>1 DEF AppendEntry, SyncInv, TypeOK, Replica!Issued
    <2> QED
      BY <1>1, <2>1, <2>2
  <1> QED
    BY <1>2 DEF ClocksRunForward

LEMMA NextKeepsPairInv ==
  ASSUME TwoDevices, SyncInv, PairInv, [Next]_vars, ClocksRunForward'
  PROVE  PairInv'
  <1> DEFINE Quiet ==
        \/ \E d \in Devices : \/ WriteFails(d) \/ Tick(d) \/ EndRound(d) \/ Restart(d)
                              \/ \E p \in Peers(d) : SendSummary(d, p) \/ GiveUp(d, p)
                              \/ \E j \in merging[d] : \E e \in NextToMerge(j) : SkipEntry(d, j, e)
        \/ \E m \in net : Lose(m)
        \/ UNCHANGED vars
  <1>1. CASE Quiet
    BY <1>1, QuietActionsKeepPairInv
  <1>2. ASSUME NEW d \in Devices, WriteSome(d)
        PROVE  PairInv'
    BY <1>2, WriteKeepsPairInv
  <1>3. ASSUME NEW d \in Devices, Merging(d)
        PROVE  PairInv'
    <2>1. PICK j \in merging[d] : \E e \in NextToMerge(j) : MergeEntry(d, j, e)
      BY <1>3 DEF Merging
    <2>2. PICK e \in j.left : MergeEntry(d, j, e)
      BY <2>1, NextToMergeIsLeft
    <2> QED
      BY <2>2, MergeEntryKeepsPairInv
  <1>4. ASSUME NEW m \in net, HandleSummary(m) \/ HandleAnswer(m)
        PROVE  PairInv'
    BY <1>4, SendingKeepsPairInv
  <1>5. ASSUME NEW m \in net, StartMerge(m)
        PROVE  PairInv'
    BY <1>5, StartMergeKeepsPairInv
  <1> QED
    BY <1>1, <1>2, <1>3, <1>4, <1>5, Zenon DEF Next

\* Between two devices, unless a merge was cut short and as long as no device
\* has written with a clock that was set back, the vector in a summary stands
\* for what it covers: the device holds each such write or one that beats it,
\* or is about to merge one, although messages are lost, late, or overtaken by
\* other deltas in the middle of a merge (sendSnapshotMessage, DeltaSince,
\* diffAndMerge).
THEOREM PairInvariance == TwoDevices => (Spec => [](ClocksRunForward => PairInv))
  <1> SUFFICES ASSUME TwoDevices
               PROVE  Spec => [](ClocksRunForward => PairInv)
    OBVIOUS
  <1>1. Init => (ClocksRunForward => PairInv)
    BY InitPairInv
  <1>2. SyncInv /\ (ClocksRunForward => PairInv) /\ [Next]_vars => (ClocksRunForward => PairInv)'
    BY NextKeepsPairInv, ClocksRanForward
  <1> QED
    BY <1>1, <1>2, SyncInvariance, PTL DEF Spec

\* Two devices that make up for what the other one holds hold the same.
LEMMA SameRegisters ==
  ASSUME SyncInv, Ordered(Replica!Issued), NEW d \in Devices, NEW p \in Devices,
         \A a \in Held(reg[d]) : Shows(Held(reg[p]), a),
         \A a \in Held(reg[p]) : Shows(Held(reg[d]), a)
  PROVE  reg[d] = reg[p]
  <1>1. ASSUME NEW x \in Devices, NEW y \in Devices, \A a \in Held(reg[x]) : Shows(Held(reg[y]), a),
               NEW k \in Keys, reg[x][k] # NoEntry
        PROVE  /\ reg[y][k] # NoEntry
               /\ reg[y][k] = reg[x][k] \/ Beats(reg[y][k], reg[x][k])
    <2> DEFINE a == reg[x][k]
    <2>1. a \in Held(reg[x]) /\ a.key = k
      BY <1>1, PresentIsIssued DEF Held
    <2> HIDE DEF a
    <2>2. PICK h \in Held(reg[y]) : h.key = k /\ (h = a \/ Beats(h, a))
      BY <1>1, <2>1 DEF Shows
    <2>3. PICK l \in Keys : h = reg[y][l] /\ h # NoEntry
      BY <2>2 DEF Held
    <2>4. l = k
      BY <2>2, <2>3, PresentIsIssued
    <2> QED
      BY <2>2, <2>3, <2>4 DEF a
  <1>2. ASSUME NEW k \in Keys
        PROVE  reg[d][k] = reg[p][k]
    <2>1. CASE reg[d][k] = NoEntry \/ reg[p][k] = NoEntry
      BY <1>1, <2>1
    <2>2. CASE reg[d][k] # NoEntry /\ reg[p][k] # NoEntry
      <3>1. reg[d][k] \in Replica!Issued /\ reg[p][k] \in Replica!Issued
        BY <2>2, PresentIsIssued DEF Held
      <3>2. reg[d][k] = reg[p][k] \/ (Beats(reg[d][k], reg[p][k]) /\ Beats(reg[p][k], reg[d][k]))
        BY <1>1, <2>2
      <3> QED
        BY <3>1, <3>2, BeatsIsAsymmetric
    <2> QED
      BY <2>1, <2>2
  <1> QED
    BY <1>2 DEF SyncInv, TypeOK

\* In a quiet state the vectors cover what the other device holds.
LEMMA QuietPairAgrees ==
  ASSUME SyncInv, PairInv
  PROVE  QuietMeansEqual
  <1> SUFFICES ASSUME ~ skipped, NothingToSend, NEW d \in Devices, NEW p \in Devices
               PROVE  reg[d] = reg[p]
    BY DEF QuietMeansEqual, Agree
  <1>1. Ordered(Replica!Issued) /\ CoveredIsPresent
    BY IssuedAreOrdered DEF PairInv
  <1>2. ASSUME NEW x \in Devices, NEW y \in Devices, NEW a \in Held(reg[x])
        PROVE  Shows(Held(reg[y]), a)
    <2>1. a \in Replica!Issued
      BY PresentIsIssued
    <2>2. Dominates(vec[y], CausalVersion(a))
      BY DEF NothingToSend, DeltaSince
    <2>3. a.device \in Devices /\ a.counter \in Nat /\ CausalVersion(a)[a.device] = a.counter
      BY <1>1, <2>1, EntryFields, CausalVersionOf
    <2>4. a.counter <= vec[y][a.device]
      BY <2>2, <2>3 DEF Dominates
    <2>5. Left(y) = {}
      BY DEF NothingToSend, Left
    <2> QED
      BY <1>1, <2>1, <2>4, <2>5 DEF CoveredIsPresent, Present
  <1> QED
    BY <1>1, <1>2, SameRegisters

\* Two devices that have nothing left to send each other hold the same
\* snapshot, whatever was lost, restarted or written meanwhile, unless a merge
\* was cut short or a clock set back: summaries hide no difference
\* (syncWithPeer, DeltaSince).
THEOREM PairAgrees == TwoDevices => (Spec => []QuietMeansEqual)
  <1> SUFFICES ASSUME TwoDevices
               PROVE  Spec => []QuietMeansEqual
    OBVIOUS
  <1>1. SyncInv /\ (ClocksRunForward => PairInv) => QuietMeansEqual
    BY QuietPairAgrees DEF QuietMeansEqual
  <1> QED
    BY <1>1, SyncInvariance, PairInvariance, PTL

-----------------------------------------------------------------------------
(* The order in which two devices merge. *)

\* A snapshot stands for the log: it makes up for every entry, and its vector
\* is the least one that covers them all.
LogIsShown == \A d \in Devices : \A g \in log[d] : Shows(Held(reg[d]), g)

VectorIsOfLog ==
  \A d, a \in Devices :
    /\ \A g \in log[d] : CausalVersion(g)[a] <= vec[d][a]
    /\ vec[d][a] = 0 \/ \E g \in log[d] : vec[d][a] = CausalVersion(g)[a]

LEMMA AppendKeepsLogShown ==
  ASSUME TwoDevices, SyncInv, LogIsShown, NEW d \in Devices, NEW e \in Entry, AppendEntry(d, e),
         NEW S, Ordered(S), Replica!Issued \subseteq S, e \in S
  PROVE  LogIsShown'
  <1>1. \A p \in Devices : Held(reg[p]) \subseteq S /\ log[p] \subseteq S
    BY PresentIsIssued, SameTypes
  <1>2. /\ \A h \in Held(reg[d]) \cup {e} : Shows(Held(reg'[d]), h)
        /\ Held(reg'[d]) \subseteq Held(reg[d]) \cup {e}
        /\ \A p \in Devices : p # d => reg'[p] = reg[p]
    BY <1>1, HeldAfter
  <1>3. \A p \in Devices : log'[p] = IF p = d THEN log[d] \cup {e} ELSE log[p]
    BY DEF AppendEntry, SyncInv, TypeOK
  <1> SUFFICES ASSUME NEW p \in Devices, NEW g \in log'[p]
               PROVE  Shows(Held(reg'[p]), g)
    BY DEF LogIsShown
  <1>4. CASE p # d
    BY <1>2, <1>3, <1>4 DEF LogIsShown
  <1>5. CASE p = d /\ g = e
    BY <1>2, <1>5
  <1>6. CASE p = d /\ g \in log[d]
    <2>1. Shows(Held(reg[d]), g)
      BY <1>6 DEF LogIsShown
    <2>2. Held(reg'[d]) \subseteq S /\ Held(reg[d]) \subseteq S /\ g \in S
      BY <1>1, <1>2, <1>6
    <2>3. \A h \in Held(reg[d]) : Shows(Held(reg'[d]), h)
      BY <1>2
    <2> QED
      BY <1>6, <2>1, <2>2, <2>3, ShowsThrough
  <1> QED
    BY <1>3, <1>4, <1>5, <1>6

LEMMA AppendKeepsVectorOfLog ==
  ASSUME SyncInv, VectorIsOfLog, NEW d \in Devices, NEW e \in Entry, AppendEntry(d, e)
  PROVE  VectorIsOfLog'
  <1>1. \A p \in Devices : log'[p] = IF p = d THEN log[d] \cup {e} ELSE log[p]
    BY DEF AppendEntry, SyncInv, TypeOK
  <1>2. \A p \in Devices : vec'[p] = IF p = d THEN ApplyVector(vec[d], e) ELSE vec[p]
    BY DEF AppendEntry, SyncInv, TypeOK
  <1>3. \A a \in Devices : /\ CausalVersion(e)[a] \in Nat /\ vec[d][a] \in Nat
                           /\ \A g \in log[d] : CausalVersion(g)[a] \in Nat
    <2>1. ASSUME NEW g \in Entry, NEW a \in Devices
          PROVE  CausalVersion(g)[a] \in Nat
      BY DEF CausalVersion, Observe, Entry, Vector
    <2>2. log[d] \subseteq Entry /\ \A a \in Devices : vec[d][a] \in Nat
      BY DEF SyncInv, TypeOK, Vector
    <2> QED
      BY <2>1, <2>2
  <1>4. \A a \in Devices :
          ApplyVector(vec[d], e)[a] =
            IF CausalVersion(e)[a] > vec[d][a] THEN CausalVersion(e)[a] ELSE vec[d][a]
    <2>1. /\ vec[d] \in Vector /\ e.context \in Vector /\ e.device \in Devices /\ e.counter \in Nat
          /\ \A a \in Devices : vec[d][a] \in Nat /\ e.context[a] \in Nat
      BY DEF SyncInv, TypeOK, Entry, Vector
    <2> DEFINE m == Merge(vec[d], e.context)
    <2>2. m \in Vector /\ \A a \in Devices : m[a] = IF e.context[a] > vec[d][a] THEN e.context[a] ELSE vec[d][a]
      BY <2>1 DEF Merge, Vector
    <2>3. ApplyVector(vec[d], e) = Observe(m, e.device, e.counter)
      BY DEF ApplyVector
    <2> HIDE DEF m
    <2>4. ASSUME NEW v \in Vector, NEW a \in Devices
          PROVE  Observe(v, e.device, e.counter)[a] =
                   IF a = e.device /\ e.counter > v[a] THEN e.counter ELSE v[a]
      BY <2>1 DEF Observe, Vector
    <2>5. CausalVersion(e) = Observe(e.context, e.device, e.counter)
      BY DEF CausalVersion
    <2> SUFFICES ASSUME NEW a \in Devices
                 PROVE  ApplyVector(vec[d], e)[a] =
                          IF CausalVersion(e)[a] > vec[d][a] THEN CausalVersion(e)[a] ELSE vec[d][a]
      OBVIOUS
    <2>6. /\ ApplyVector(vec[d], e)[a] = IF a = e.device /\ e.counter > m[a] THEN e.counter ELSE m[a]
          /\ CausalVersion(e)[a] =
               IF a = e.device /\ e.counter > e.context[a] THEN e.counter ELSE e.context[a]
      BY <2>1, <2>2, <2>3, <2>4, <2>5
    <2> QED
      BY <2>1, <2>2, <2>6
  <1> SUFFICES ASSUME NEW p \in Devices, NEW a \in Devices
               PROVE  /\ \A g \in log'[p] : CausalVersion(g)[a] <= vec'[p][a]
                      /\ vec'[p][a] = 0 \/ \E g \in log'[p] : vec'[p][a] = CausalVersion(g)[a]
    BY DEF VectorIsOfLog
  <1>5. CASE p # d
    BY <1>1, <1>2, <1>5 DEF VectorIsOfLog
  <1>6. CASE p = d
    <2>1. /\ vec'[d][a] = IF CausalVersion(e)[a] > vec[d][a] THEN CausalVersion(e)[a] ELSE vec[d][a]
          /\ log'[d] = log[d] \cup {e}
      BY <1>1, <1>2, <1>4
    <2>2. /\ \A g \in log[d] : CausalVersion(g)[a] <= vec[d][a]
          /\ vec[d][a] = 0 \/ \E g \in log[d] : vec[d][a] = CausalVersion(g)[a]
      BY DEF VectorIsOfLog
    <2>3. \A g \in log'[d] : CausalVersion(g)[a] <= vec'[d][a]
      BY <1>3, <2>1, <2>2
    <2>4. vec'[d][a] = 0 \/ \E g \in log'[d] : vec'[d][a] = CausalVersion(g)[a]
      BY <1>3, <2>1, <2>2
    <2> QED
      BY <1>6, <2>3, <2>4
  <1> QED
    BY <1>5, <1>6

LEMMA NextKeepsOrder ==
  ASSUME TwoDevices, SyncInv, PairInv, SyncInv', PairInv', LogIsShown, VectorIsOfLog,
         [Replica!Next]_(Replica!vars)
  PROVE  LogIsShown' /\ VectorIsOfLog'
  <1>1. CASE UNCHANGED Replica!vars
    BY <1>1 DEF Replica!vars, LogIsShown, VectorIsOfLog
  <1>2. CASE Replica!Next
    <2>1. PICK d \in Devices, e \in Entry : AppendEntry(d, e) /\ e \in log'[d]
      BY <1>2, ReplicaStepAppends DEF SyncInv
    <2>2. Ordered(Replica!Issued')
      BY IssuedStayOrdered DEF PairInv
    <2>3. Replica!Issued \subseteq Replica!Issued' /\ e \in Replica!Issued'
      BY <2>1 DEF AppendEntry, SyncInv, TypeOK, Replica!Issued
    <2> QED
      BY <2>1, <2>2, <2>3, AppendKeepsLogShown, AppendKeepsVectorOfLog
  <1> QED
    BY <1>1, <1>2

\* "Processing order is irrelevant (commutative)" (buildSnapshot) is true
\* between two devices as long as neither has written with a clock that was set
\* back: with the same entries in their logs they hold the same snapshot, values
\* and vector, in whatever order and however often they appended them.
THEOREM PairOrderIsIrrelevant ==
  TwoDevices => (Spec => [](ClocksRunForward => Replica!OrderIsIrrelevant))
  <1> DEFINE Kept == ClocksRunForward => PairInv /\ LogIsShown /\ VectorIsOfLog
  <1> SUFFICES ASSUME TwoDevices
               PROVE  Spec => [](ClocksRunForward => Replica!OrderIsIrrelevant)
    OBVIOUS
  <1>1. Init => Kept
    <2>1. Init => LogIsShown /\ VectorIsOfLog
      BY DEF Init, EmptyVector, LogIsShown, VectorIsOfLog
    <2> QED
      BY <2>1, InitPairInv
  <1>2. SyncInv /\ Kept /\ [Next]_vars => Kept'
    BY NextKeepsSyncInv, NextKeepsPairInv, ClocksRanForward, NextKeepsOrder
  <1>3. SyncInv /\ Kept => (ClocksRunForward => Replica!OrderIsIrrelevant)
    <2> SUFFICES ASSUME SyncInv, PairInv, LogIsShown, VectorIsOfLog,
                        NEW d \in Devices, NEW p \in Devices, log[d] = log[p]
                 PROVE  reg[d] = reg[p] /\ vec[d] = vec[p]
      BY DEF Replica!OrderIsIrrelevant
    <2>1. Ordered(Replica!Issued)
      BY IssuedAreOrdered DEF PairInv
    <2>2. ASSUME NEW x \in Devices, NEW y \in Devices, log[x] = log[y], NEW a \in Held(reg[x])
          PROVE  Shows(Held(reg[y]), a)
      <3>1. a \in log[y]
        BY <2>2 DEF Held, SyncInv, RP!Inv, RP!VectorCoversHeld
      <3> QED
        BY <3>1 DEF LogIsShown
    <2>3. reg[d] = reg[p]
      BY <2>1, <2>2, SameRegisters
    <2>4. vec[d] = vec[p]
      <3>1. vec[d] \in Vector /\ vec[p] \in Vector
        BY DEF SyncInv, TypeOK
      <3>2. ASSUME NEW a \in Devices
            PROVE  vec[d][a] = vec[p][a]
        <4>1. vec[d][a] \in Nat /\ vec[p][a] \in Nat
          BY <3>1 DEF Vector
        <4>2. vec[d][a] <= vec[p][a] /\ vec[p][a] <= vec[d][a]
          BY <4>1 DEF VectorIsOfLog
        <4> QED
          BY <4>1, <4>2
      <3> QED
        BY <3>1, <3>2 DEF Vector
    <2> QED
      BY <2>3, <2>4
  <1> QED
    BY <1>1, <1>2, <1>3, SyncInvariance, PTL DEF Spec
=============================================================================
