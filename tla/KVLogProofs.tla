---------------------------- MODULE KVLogProofs ----------------------------
(***************************************************************************)
(* Proofs about the log of one device, for any keys, peers and number of   *)
(* lines: a rebuild gives the cached snapshot, what the log shows for a    *)
(* key never goes back, and no counter is issued twice.                    *)
(*                                                                         *)
(* A rebuild folds the lines of the file.  What the fold computes is       *)
(* proved by induction on the number of lines: the set of the numbers for  *)
(* which the claim holds contains 0 and the successor of each of its       *)
(* members, and so every number, because a least number outside it would   *)
(* have a predecessor inside it.                                           *)
(***************************************************************************)
EXTENDS KVLog, FiniteSetTheorems, WellFoundedInduction, TLAPS

Line == Entry \cup {Torn}

-----------------------------------------------------------------------------
(* Natural numbers. *)

\* A nonempty set of natural numbers has a least member.
LEMMA LeastNumber ==
  ASSUME NEW T \in SUBSET Nat, T # {}
  PROVE  \E n \in T : \A m \in T : n <= m
  <1> DEFINE R == {ss \in Nat \X Nat : ss[1] < ss[2]}
  <1>1. IsWellFoundedOn(R, Nat)
    BY NatLessThanWellFounded, Zenon DEF OpToRel
  <1>2. PICK n \in T : \A m \in T : <<m, n>> \notin R
    <2> HIDE DEF R
    <2> QED
      BY <1>1, WFMin
  <1>3. \A m \in T : ~ (m < n)
    <2> SUFFICES ASSUME NEW m \in T, m < n
                 PROVE  FALSE
      OBVIOUS
    <2>1. <<m, n>> \in Nat \X Nat /\ <<m, n>>[1] = m /\ <<m, n>>[2] = n
      OBVIOUS
    <2> QED
      BY <1>2, <2>1
  <1> QED
    BY <1>3

\* Induction over the natural numbers, for a set instead of a predicate.
LEMMA SetInduction ==
  ASSUME NEW T, 0 \in T, \A n \in Nat : n \in T => n + 1 \in T
  PROVE  Nat \subseteq T
  <1> SUFFICES ASSUME Nat \ T # {}
               PROVE  FALSE
    OBVIOUS
  <1>1. PICK n \in Nat \ T : \A m \in Nat \ T : n <= m
    BY LeastNumber
  <1>2. n # 0 /\ n - 1 \in Nat /\ n - 1 \in T
    BY <1>1
  <1> QED
    BY <1>2

\* A bounded set of natural numbers that holds 0 has a largest member, and Max
\* returns it.
LEMMA LargestNumber ==
  ASSUME NEW T \in SUBSET Nat, 0 \in T, NEW b \in Nat, \A x \in T : x <= b
  PROVE  /\ Max(T) \in T
         /\ \A x \in T : x <= Max(T)
  <1> DEFINE U == {u \in Nat : \A x \in T : x <= u}
  <1>1. PICK u \in U : \A v \in U : u <= v
    BY LeastNumber
  <1>2. u \in T
    <2> SUFFICES ASSUME u \notin T
                 PROVE  FALSE
      OBVIOUS
    <2>1. u \in Nat /\ u # 0
      BY <1>1
    <2>2. u - 1 \in U
      BY <2>1, <1>1
    <2> QED
      BY <1>1, <2>1, <2>2
  <1>3. \A x \in T : x <= u
    BY <1>1
  <1>4. \A x \in T : u >= x
    BY <1>1, <1>2, <1>3
  <1> QED
    BY <1>2, <1>3, <1>4 DEF Max

-----------------------------------------------------------------------------
(* Snapshots and lines. *)

\* Every register of a snapshot holds an entry for its own key.
Keyed(s) ==
  \A k \in Keys : s.reg[k] # NoEntry => s.reg[k].key = k

\* The snapshots that lines build.
KeyedSnapshot == {s \in Snapshot : Keyed(s)}

\* An entry leaves a snapshot a snapshot (buildSnapshot).
LEMMA ApplyType ==
  ASSUME NEW s \in KeyedSnapshot, NEW e \in Entry
  PROVE  Apply(s, e) \in KeyedSnapshot
  <1>1. /\ s.vec \in Vector /\ e.context \in Vector /\ e.device \in Devices
        /\ e.counter \in Nat /\ e.key \in Keys
        /\ s.reg \in [Keys -> Entry \cup {NoEntry}]
    BY DEF KeyedSnapshot, Snapshot, Entry
  <1>2. ApplyVector(s.vec, e) \in Vector
    BY <1>1 DEF ApplyVector, Merge, Observe, Vector
  <1>3. ApplyRegister(s.reg[e.key], e) \in {e, s.reg[e.key]}
    BY DEF ApplyRegister
  <1>4. [s.reg EXCEPT ![e.key] = ApplyRegister(s.reg[e.key], e)] \in [Keys -> Entry \cup {NoEntry}]
    BY <1>1, <1>3
  <1>5. Apply(s, e) \in Snapshot
    BY <1>2, <1>4 DEF Apply, Snapshot
  <1>6. \A k \in Keys : Apply(s, e).reg[k] # NoEntry => Apply(s, e).reg[k].key = k
    BY <1>1, <1>3 DEF Apply, KeyedSnapshot, Keyed
  <1> QED
    BY <1>5, <1>6 DEF KeyedSnapshot, Keyed

LEMMA ApplyLineType ==
  ASSUME NEW s \in KeyedSnapshot, NEW line \in Line
  PROVE  ApplyLine(s, line) \in KeyedSnapshot
  BY ApplyType DEF ApplyLine, Line

LEMMA EmptySnapshotType == EmptySnapshot \in KeyedSnapshot
  BY DEF EmptySnapshot, KeyedSnapshot, Keyed, Snapshot, EmptyVector, Vector

\* From the snapshot s to t no key goes back: what t shows for it is what s
\* showed or beats it.
GoesForward(s, t) ==
  \A k \in Keys :
    s.reg[k] # NoEntry /\ t.reg[k] # s.reg[k] =>
      t.reg[k] # NoEntry /\ Beats(t.reg[k], s.reg[k])

\* A line never takes a key back (buildSnapshot).
LEMMA LineGoesForward ==
  ASSUME NEW s \in KeyedSnapshot, NEW line \in Line
  PROVE  GoesForward(s, ApplyLine(s, line))
  <1>1. CASE line = Torn
    BY <1>1 DEF ApplyLine, GoesForward
  <1>2. CASE line # Torn
    <2>1. line \in Entry /\ line # NoEntry
      BY <1>2, NoEntryIsNoEntry DEF Line
    <2>2. ApplyLine(s, line).reg = [s.reg EXCEPT ![line.key] = ApplyRegister(s.reg[line.key], line)]
      BY <1>2 DEF ApplyLine, Apply
    <2>3. s.reg \in [Keys -> Entry \cup {NoEntry}]
      BY DEF KeyedSnapshot, Snapshot
    <2>4. \A k \in Keys : \/ ApplyLine(s, line).reg[k] = s.reg[k]
                          \/ /\ ApplyLine(s, line).reg[k] = line
                             /\ s.reg[k] = NoEntry \/ Beats(line, s.reg[k])
      BY <2>2, <2>3 DEF ApplyRegister
    <2> QED
      BY <2>1, <2>4, Zenon DEF GoesForward
  <1> QED
    BY <1>1, <1>2

-----------------------------------------------------------------------------
(* Rebuilding. *)

\* Some function satisfies the recursion of Replay, for any number n of lines.
LEMMA ReplayExists ==
  ASSUME NEW f \in Seq(Line)
  PROVE  \E h : h = [i \in 0 .. Len(f) |->
                       IF i = 0 THEN EmptySnapshot ELSE ApplyLine(h[i - 1], f[i])]
  <1> DEFINE Solves(h, n) ==
               h = [i \in 0 .. n |-> IF i = 0 THEN EmptySnapshot ELSE ApplyLine(h[i - 1], f[i])]
             T == {n \in Nat : \E h : Solves(h, n)}
  <1>1. 0 \in T
    <2> DEFINE h == [i \in 0 .. 0 |-> EmptySnapshot]
    <2>1. Solves(h, 0)
      OBVIOUS
    <2> QED
      BY <2>1
  <1>2. ASSUME NEW n \in Nat, n \in T
        PROVE  n + 1 \in T
    <2>1. PICK h : Solves(h, n)
      BY <1>2
    <2> DEFINE g == [i \in 0 .. n + 1 |-> IF i = n + 1 THEN ApplyLine(h[n], f[n + 1]) ELSE h[i]]
    <2>2. \A i \in 0 .. n + 1 :
            g[i] = IF i = 0 THEN EmptySnapshot ELSE ApplyLine(g[i - 1], f[i])
      <3> SUFFICES ASSUME NEW i \in 0 .. n + 1
                   PROVE  g[i] = IF i = 0 THEN EmptySnapshot ELSE ApplyLine(g[i - 1], f[i])
        OBVIOUS
      <3>1. CASE i = 0
        BY <3>1, <2>1
      <3>2. CASE i \in 1 .. n
        <4>1. g[i] = h[i] /\ g[i - 1] = h[i - 1]
          BY <3>2
        <4>2. i \in 0 .. n /\ i # 0
          BY <3>2
        <4>3. h[i] = ApplyLine(h[i - 1], f[i])
          <5> HIDE DEF g
          <5> QED
            BY <4>2, <2>1, Zenon
        <4> QED
          BY <4>1, <4>2, <4>3
      <3>3. CASE i = n + 1
        <4>1. g[i] = ApplyLine(h[n], f[n + 1]) /\ g[n] = h[n] /\ i - 1 = n /\ i # 0
          BY <3>3
        <4> QED
          BY <3>3, <4>1
      <3> QED
        BY <3>1, <3>2, <3>3
    <2>3. Solves(g, n + 1)
      BY <2>2
    <2>4. n + 1 \in Nat
      OBVIOUS
    <2> HIDE DEF g, Solves
    <2> QED
      BY <2>3, <2>4, Zenon
  <1>3. Len(f) \in T
    <2> HIDE DEF T
    <2>1. Nat \subseteq T
      BY <1>1, <1>2, SetInduction
    <2> QED
      BY <2>1
  <1> QED
    BY <1>3

\* What Replay computes, line by line.
LEMMA ReplayStep ==
  ASSUME NEW f \in Seq(Line)
  PROVE  /\ Replay(f)[0] = EmptySnapshot
         /\ \A n \in 1 .. Len(f) : Replay(f)[n] = ApplyLine(Replay(f)[n - 1], f[n])
  <1>1. Replay(f) = [i \in 0 .. Len(f) |->
                       IF i = 0 THEN EmptySnapshot ELSE ApplyLine(Replay(f)[i - 1], f[i])]
    BY ReplayExists DEF Replay
  <1>2. Len(f) \in Nat
    OBVIOUS
  <1> HIDE DEF Replay
  <1>3. Replay(f)[0] = EmptySnapshot
    BY <1>1, <1>2
  <1>4. ASSUME NEW n \in 1 .. Len(f)
        PROVE  Replay(f)[n] = ApplyLine(Replay(f)[n - 1], f[n])
    BY <1>1, <1>2
  <1> QED
    BY <1>3, <1>4

\* Every prefix of the file builds a snapshot.
LEMMA ReplayType ==
  ASSUME NEW f \in Seq(Line)
  PROVE  \A n \in 0 .. Len(f) : Replay(f)[n] \in KeyedSnapshot
  <1> DEFINE T == {n \in Nat : n <= Len(f) => Replay(f)[n] \in KeyedSnapshot}
  <1>1. 0 \in T
    BY ReplayStep, EmptySnapshotType
  <1>2. ASSUME NEW n \in Nat, n \in T
        PROVE  n + 1 \in T
    <2> SUFFICES ASSUME n + 1 <= Len(f)
                 PROVE  Replay(f)[n + 1] \in KeyedSnapshot
      OBVIOUS
    <2>1. n + 1 \in 1 .. Len(f) /\ (n + 1) - 1 = n /\ f[n + 1] \in Line
      OBVIOUS
    <2>2. Replay(f)[n + 1] = ApplyLine(Replay(f)[n], f[n + 1])
      BY <2>1, ReplayStep
    <2>3. Replay(f)[n] \in KeyedSnapshot
      BY <1>2
    <2> QED
      BY <2>1, <2>2, <2>3, ApplyLineType
  <1>3. Nat \subseteq T
    <2> HIDE DEF T
    <2> QED
      BY <1>1, <1>2, SetInduction
  <1> QED
    BY <1>3

LEMMA RebuiltType ==
  ASSUME NEW f \in Seq(Line)
  PROVE  Rebuilt(f) \in KeyedSnapshot
  BY ReplayType DEF Rebuilt

\* Replay looks only at the lines before.
LEMMA ReplayPrefix ==
  ASSUME NEW f \in Seq(Line), NEW g \in Seq(Line), NEW m \in Nat, m <= Len(f), m <= Len(g),
         \A i \in 1 .. m : f[i] = g[i]
  PROVE  Replay(f)[m] = Replay(g)[m]
  <1> DEFINE T == {n \in Nat : n <= m => Replay(f)[n] = Replay(g)[n]}
  <1>1. 0 \in T
    BY ReplayStep
  <1>2. ASSUME NEW n \in Nat, n \in T
        PROVE  n + 1 \in T
    <2> SUFFICES ASSUME n + 1 <= m
                 PROVE  Replay(f)[n + 1] = Replay(g)[n + 1]
      OBVIOUS
    <2>1. /\ n + 1 \in 1 .. Len(f) /\ n + 1 \in 1 .. Len(g) /\ (n + 1) - 1 = n
          /\ f[n + 1] = g[n + 1]
      OBVIOUS
    <2>2. Replay(f)[n + 1] = ApplyLine(Replay(f)[n], f[n + 1])
      BY <2>1, ReplayStep
    <2>3. Replay(g)[n + 1] = ApplyLine(Replay(g)[n], g[n + 1])
      BY <2>1, ReplayStep
    <2>4. Replay(f)[n] = Replay(g)[n]
      BY <1>2
    <2> QED
      BY <2>1, <2>2, <2>3, <2>4
  <1>3. Nat \subseteq T
    <2> HIDE DEF T
    <2> QED
      BY <1>1, <1>2, SetInduction
  <1> QED
    BY <1>3

\* A line at the end of the file is applied last (rebuildLocked).
LEMMA RebuiltAppend ==
  ASSUME NEW f \in Seq(Line), NEW line \in Line
  PROVE  /\ Append(f, line) \in Seq(Line)
         /\ Rebuilt(Append(f, line)) = ApplyLine(Rebuilt(f), line)
         /\ Replay(Append(f, line))[Len(f)] = Rebuilt(f)
         /\ Range(Append(f, line)) = Range(f) \cup {line}
         /\ Len(Append(f, line)) = Len(f) + 1
  <1> DEFINE g == Append(f, line)
  <1>1. /\ g \in Seq(Line) /\ Len(g) = Len(f) + 1 /\ g[Len(f) + 1] = line
        /\ \A i \in 1 .. Len(f) : g[i] = f[i]
    OBVIOUS
  <1>2. DOMAIN g = 1 .. Len(f) + 1 /\ DOMAIN f = 1 .. Len(f)
    OBVIOUS
  <1>3. Len(f) \in Nat
    OBVIOUS
  <1> HIDE DEF g
  <1>4. Replay(g)[Len(f)] = Replay(f)[Len(f)]
    BY <1>1, <1>3, ReplayPrefix
  <1>5. Replay(g)[Len(g)] = ApplyLine(Replay(g)[Len(f)], line)
    <2>1. Len(g) \in 1 .. Len(g) /\ Len(g) - 1 = Len(f) /\ g[Len(g)] = line
      BY <1>1, <1>3
    <2> QED
      BY <2>1, <1>1, ReplayStep
  <1>6. Range(g) = Range(f) \cup {line}
    <2>1. \A i \in DOMAIN g : g[i] \in Range(f) \cup {line}
      <3> SUFFICES ASSUME NEW i \in DOMAIN g
                   PROVE  g[i] \in Range(f) \cup {line}
        OBVIOUS
      <3>1. CASE i \in 1 .. Len(f)
        BY <3>1, <1>1, <1>2 DEF Range
      <3>2. CASE i = Len(f) + 1
        BY <3>2, <1>1
      <3> QED
        BY <3>1, <3>2, <1>2, <1>3
    <2>2. \A i \in DOMAIN f : f[i] \in Range(g)
      <3> SUFFICES ASSUME NEW i \in DOMAIN f
                   PROVE  f[i] \in Range(g)
        OBVIOUS
      <3>1. i \in DOMAIN g /\ g[i] = f[i]
        BY <1>1, <1>2, <1>3
      <3> QED
        BY <3>1 DEF Range
    <2>3. line \in Range(g)
      <3>1. Len(f) + 1 \in DOMAIN g
        BY <1>2, <1>3
      <3> QED
        BY <3>1, <1>1 DEF Range
    <2> QED
      BY <2>1, <2>2, <2>3 DEF Range
  <1> QED
    BY <1>1, <1>4, <1>5, <1>6 DEF g, Rebuilt

LEMMA RebuiltEmpty ==
  Rebuilt(<<>>) = EmptySnapshot
  <1>1. <<>> \in Seq(Line) /\ Len(<<>>) = 0
    OBVIOUS
  <1> QED
    BY <1>1, ReplayStep DEF Rebuilt

-----------------------------------------------------------------------------
(* The counter. *)

\* A file holds finitely many lines, so the counters in it are bounded.
LEMMA CountersInFileAreBounded ==
  ASSUME NEW f \in Seq(Line)
  PROVE  \E b \in Nat : \A e \in OwnLines(f) : e.counter <= b
  <1> DEFINE Bounded(n) == \E b \in Nat : \A i \in 1 .. n : f[i] # Torn => f[i].counter <= b
             T == {n \in Nat : n <= Len(f) => Bounded(n)}
  <1>1. 0 \in T
    OBVIOUS
  <1>2. ASSUME NEW n \in Nat, n \in T
        PROVE  n + 1 \in T
    <2> SUFFICES ASSUME n + 1 <= Len(f)
                 PROVE  Bounded(n + 1)
      OBVIOUS
    <2>1. PICK b \in Nat : \A i \in 1 .. n : f[i] # Torn => f[i].counter <= b
      BY <1>2
    <2>2. f[n + 1] \in Line
      OBVIOUS
    <2>3. CASE f[n + 1] = Torn
      <3>1. \A i \in 1 .. n + 1 : f[i] # Torn => f[i].counter <= b
        BY <2>1, <2>3
      <3> QED
        BY <3>1
    <2>4. CASE f[n + 1] # Torn
      <3>1. f[n + 1].counter \in Nat
        BY <2>2, <2>4 DEF Line, Entry
      <3>2. \A i \in 1 .. n : f[i] # Torn => f[i].counter \in Nat
        BY DEF Line, Entry
      <3>3. \A i \in 1 .. n + 1 : f[i] # Torn => f[i].counter <= b + f[n + 1].counter
        <4> SUFFICES ASSUME NEW i \in 1 .. n + 1, f[i] # Torn
                     PROVE  f[i].counter <= b + f[n + 1].counter
          OBVIOUS
        <4>1. CASE i = n + 1
          BY <4>1, <3>1
        <4>2. CASE i \in 1 .. n
          BY <4>2, <2>1, <3>1, <3>2
        <4> QED
          BY <4>1, <4>2
      <3>4. b + f[n + 1].counter \in Nat
        BY <3>1
      <3> QED
        BY <3>3, <3>4
    <2> QED
      BY <2>3, <2>4
  <1>3. Len(f) \in T
    <2> HIDE DEF T
    <2>1. Nat \subseteq T
      BY <1>1, <1>2, SetInduction
    <2> QED
      BY <2>1
  <1>4. PICK b \in Nat : \A i \in 1 .. Len(f) : f[i] # Torn => f[i].counter <= b
    <2>1. Len(f) <= Len(f)
      OBVIOUS
    <2>2. Bounded(Len(f))
      <3> HIDE DEF Bounded
      <3> QED
        BY <1>3, <2>1
    <2> QED
      BY <2>2, Zenon
  <1>5. DOMAIN f = 1 .. Len(f)
    OBVIOUS
  <1>6. \A e \in OwnLines(f) : e.counter <= b
    BY <1>4, <1>5 DEF OwnLines, Range
  <1> QED
    BY <1>6

LEMMA LinesAreEntries ==
  ASSUME NEW f \in Seq(Line)
  PROVE  /\ Range(f) \subseteq Line
         /\ OwnLines(f) \subseteq Entry
  <1>1. Range(f) \subseteq Line
    BY DEF Range
  <1> QED
    BY <1>1 DEF OwnLines, Line

\* No entry of the device in the file has a counter above the one that a
\* rebuild finds (rebuildLocked).
LEMMA RebuiltSeqFacts ==
  ASSUME NEW f \in Seq(Line)
  PROVE  /\ RebuiltSeq(f) \in Nat
         /\ \A e \in OwnLines(f) : e.counter <= RebuiltSeq(f)
  <1> DEFINE T == {0} \cup {e.counter : e \in OwnLines(f)}
  <1>1. PICK b \in Nat : \A e \in OwnLines(f) : e.counter <= b
    BY CountersInFileAreBounded
  <1>2. T \in SUBSET Nat /\ 0 \in T /\ \A x \in T : x <= b
    BY <1>1, LinesAreEntries DEF Entry
  <1>3. Max(T) \in T /\ \A x \in T : x <= Max(T)
    <2> HIDE DEF T
    <2> QED
      BY <1>2, LargestNumber
  <1>4. Max(T) \in Nat /\ \A e \in OwnLines(f) : e.counter <= Max(T)
    BY <1>2, <1>3
  <1> QED
    BY <1>4 DEF RebuiltSeq

LEMMA LargerOfTwo ==
  ASSUME NEW a \in Nat, NEW b \in Nat
  PROVE  Max({a, b}) \in Nat /\ a <= Max({a, b}) /\ b <= Max({a, b})
  <1>1. \E x \in {a, b} : \A y \in {a, b} : x >= y
    OBVIOUS
  <1>2. Max({a, b}) \in {a, b} /\ \A y \in {a, b} : Max({a, b}) >= y
    BY <1>1, Zenon DEF Max
  <1> QED
    BY <1>2

-----------------------------------------------------------------------------
(* Compaction. *)

\* A snapshot holds finitely many entries, so Compact lists all of them, each
\* once.
LEMMA CompactedLines ==
  ASSUME NEW s \in KeyedSnapshot,
         NEW f \in [1 .. Cardinality(Held(s.reg)) -> Held(s.reg)], IsInjective(f)
  PROVE  /\ f \in Seq(Line)
         /\ Len(f) = Cardinality(Held(s.reg))
         /\ Range(f) = Held(s.reg)
  <1> DEFINE H == Held(s.reg)
             n == Cardinality(H)
             All == {s.reg[k] : k \in Keys}
  <1>1. s.reg \in [Keys -> Entry \cup {NoEntry}]
    BY DEF KeyedSnapshot, Snapshot
  <1>2. IsFiniteSet(All)
    <2>1. s.reg \in Surjection(Keys, All)
      BY <1>1 DEF Surjection
    <2> HIDE DEF All
    <2> QED
      BY <2>1, KeysAreFinite, FS_Surjection
  <1>3. IsFiniteSet(H) /\ H \subseteq Entry
    <2>1. H \in SUBSET All /\ H \subseteq Entry
      BY <1>1 DEF Held
    <2> HIDE DEF H, All
    <2> QED
      BY <1>2, <2>1, FS_Subset
  <1>4. n \in Nat
    BY <1>3, FS_CardinalityType
  <1>5. IsFiniteSet(1 .. n) /\ Cardinality(1 .. n) = n
    <2> HIDE DEF n
    <2>1. /\ IsFiniteSet(1 .. n)
          /\ Cardinality(1 .. n) = IF 1 > n THEN 0 ELSE n - 1 + 1
      BY <1>4, FS_Interval
    <2> QED
      BY <1>4, <2>1
  <1>6. f \in Injection(1 .. n, H)
    BY DEF Injection
  <1>7. f \in Surjection(1 .. n, H)
    <2> HIDE DEF H
    <2> QED
      BY <1>3, <1>5, <1>6, FS_Injection
  <1>8. Range(f) = H
    BY <1>7 DEF Surjection, Range
  <1>9. f \in Seq(Line) /\ Len(f) = n
    <2>1. f \in [1 .. n -> Line]
      BY <1>3 DEF Line
    <2> HIDE DEF n
    <2> QED
      BY <1>4, <2>1
  <1> QED
    BY <1>8, <1>9

\* A rebuild from the compacted file shows the registers that were compacted,
\* in whatever order Compact wrote them.
LEMMA RebuiltCompacted ==
  ASSUME NEW s \in KeyedSnapshot,
         NEW f \in [1 .. Cardinality(Held(s.reg)) -> Held(s.reg)], IsInjective(f)
  PROVE  Rebuilt(f).reg = s.reg
  <1> DEFINE Listed(k, n) == \E i \in 1 .. n : f[i].key = k
             Shown(k, n) == IF Listed(k, n) THEN s.reg[k] ELSE NoEntry
             T == {n \in Nat : n <= Len(f) =>
                     \A k \in Keys : Replay(f)[n].reg[k] = Shown(k, n)}
  <1>1. f \in Seq(Line) /\ Range(f) = Held(s.reg) /\ Len(f) \in Nat
    BY CompactedLines
  <1>2. DOMAIN f = 1 .. Len(f)
    BY <1>1
  <1>3. s.reg \in [Keys -> Entry \cup {NoEntry}]
    BY DEF KeyedSnapshot, Snapshot
  <1>4. ASSUME NEW i \in 1 .. Len(f)
        PROVE  /\ f[i] \in Entry /\ f[i] # Torn /\ f[i].key \in Keys
               /\ f[i] = s.reg[f[i].key]
    <2>1. f[i] \in Held(s.reg)
      BY <1>1, <1>2 DEF Range
    <2>2. PICK k \in Keys : f[i] = s.reg[k] /\ f[i] # NoEntry
      BY <2>1 DEF Held
    <2>3. f[i] \in Entry /\ f[i].key = k
      BY <2>2, <1>3 DEF KeyedSnapshot, Keyed
    <2> QED
      BY <2>2, <2>3, MarkersAreDistinct
  <1>5. 0 \in T
    <2>1. Replay(f)[0] = EmptySnapshot
      BY <1>1, ReplayStep
    <2> QED
      BY <2>1 DEF EmptySnapshot
  <1>6. ASSUME NEW n \in Nat, n \in T
        PROVE  n + 1 \in T
    <2> SUFFICES ASSUME n + 1 <= Len(f), NEW k \in Keys
                 PROVE  Replay(f)[n + 1].reg[k] = Shown(k, n + 1)
      OBVIOUS
    <2> DEFINE e == f[n + 1]
    <2>1. n + 1 \in 1 .. Len(f) /\ (n + 1) - 1 = n /\ n \in 0 .. Len(f) /\ n <= Len(f)
      BY <1>1
    <2>2. /\ e \in Entry /\ e # Torn /\ e.key \in Keys /\ e = s.reg[e.key]
      BY <1>4, <2>1
    <2>3. Replay(f)[n + 1] = ApplyLine(Replay(f)[n], e)
      BY <1>1, <2>1, ReplayStep
    <2>4. Replay(f)[n].reg \in [Keys -> Entry \cup {NoEntry}]
      BY <1>1, <2>1, ReplayType DEF KeyedSnapshot, Snapshot
    <2>5. Replay(f)[n].reg[k] = Shown(k, n)
      BY <1>6, <2>1
    <2>6. Replay(f)[n].reg[e.key] = Shown(e.key, n)
      BY <1>6, <2>1, <2>2
    <2>7. ~ Listed(e.key, n)
      <3> SUFFICES ASSUME NEW i \in 1 .. n, f[i].key = e.key
                   PROVE  FALSE
        OBVIOUS
      <3>1. i \in 1 .. Len(f) /\ i # n + 1
        BY <1>1, <2>1
      <3>2. f[i] = f[n + 1]
        BY <3>1, <1>4, <2>2
      <3> QED
        BY <3>1, <3>2, <1>2, <2>1 DEF IsInjective
    <2> HIDE DEF e
    <2>8. Replay(f)[n + 1].reg = [Replay(f)[n].reg EXCEPT ![e.key] = e]
      <3>1. Replay(f)[n].reg[e.key] = NoEntry
        BY <2>6, <2>7
      <3> QED
        BY <2>2, <2>3, <3>1 DEF ApplyLine, Apply, ApplyRegister
    <2>9. CASE k = e.key
      <3>1. Listed(k, n + 1)
        BY <2>9, <2>1 DEF e
      <3> QED
        BY <2>9, <3>1, <2>8, <2>4, <2>2
    <2>10. CASE k # e.key
      <3>1. Listed(k, n + 1) <=> Listed(k, n)
        BY <2>10, <2>1 DEF e
      <3> QED
        BY <2>10, <3>1, <2>8, <2>4, <2>5
    <2> QED
      BY <2>9, <2>10
  <1>7. Len(f) \in T
    <2> HIDE DEF T
    <2>1. Nat \subseteq T
      BY <1>5, <1>6, SetInduction
    <2> QED
      BY <2>1, <1>1
  <1>8. \A k \in Keys : Rebuilt(f).reg[k] = s.reg[k]
    <2> SUFFICES ASSUME NEW k \in Keys
                 PROVE  Rebuilt(f).reg[k] = s.reg[k]
      OBVIOUS
    <2>1. Rebuilt(f).reg[k] = Shown(k, Len(f))
      BY <1>7, <1>1 DEF Rebuilt
    <2>2. s.reg[k] # NoEntry => Listed(k, Len(f))
      <3> SUFFICES ASSUME s.reg[k] # NoEntry
                   PROVE  Listed(k, Len(f))
        OBVIOUS
      <3>1. s.reg[k] \in Range(f) /\ s.reg[k].key = k
        BY <1>1 DEF Held, KeyedSnapshot, Keyed
      <3>2. PICK i \in 1 .. Len(f) : f[i] = s.reg[k]
        BY <3>1, <1>2 DEF Range
      <3> QED
        BY <3>1, <3>2
    <2> QED
      BY <2>1, <2>2
  <1>9. Rebuilt(f).reg \in [Keys -> Entry \cup {NoEntry}]
    BY <1>1, RebuiltType DEF KeyedSnapshot, Snapshot
  <1> QED
    BY <1>3, <1>8, <1>9

-----------------------------------------------------------------------------
(* The inductive invariant. *)

CacheIsKeyed == cache # Cold => cache \in KeyedSnapshot

\* An unterminated line is the last one, and the cache was built with it or
\* without it.
UnterminatedLineIsLast ==
  ~ terminated =>
    /\ file # <<>>
    /\ cache # Cold /\ ~ glued => cache \in {Rebuilt(file), Replay(file)[Len(file) - 1]}

\* The device's acknowledged writes are in the file, and a warm counter covers
\* every write of the device that the file holds, acknowledged or not.
OwnWritesAreInFile ==
  ~ compacted /\ ~ glued =>
    /\ \A e \in acked : e.device = Self => e \in OwnLines(file)
    /\ cache # Cold => \A e \in OwnLines(file) : e.counter <= seq

LogInv ==
  /\ TypeOK
  /\ CacheIsKeyed
  /\ RebuildIsExact
  /\ UnterminatedLineIsLast
  /\ OwnWritesAreInFile
  /\ CountersAreNotReused

LEMMA LogTypes ==
  ASSUME TypeOK
  PROVE  /\ file \in Seq(Line) /\ seq \in Nat /\ acked \subseteq Entry
         /\ terminated \in BOOLEAN /\ compacted \in BOOLEAN /\ glued \in BOOLEAN
  BY DEF TypeOK, Line

\* What the next operation works with: the snapshot and the counter after
\* rebuildLocked, and how that snapshot relates to the file.
LEMMA WarmFacts ==
  ASSUME LogInv
  PROVE  /\ Warm \in KeyedSnapshot /\ Warm \in Snapshot /\ Warm # Cold
         /\ WarmSeq \in Nat
         /\ terminated /\ ~ glued => Warm = Rebuilt(file)
         /\ ~ glued => \/ Rebuilt(file) = Warm
                       \/ \E line \in Line : Rebuilt(file) = ApplyLine(Warm, line)
         /\ ~ glued /\ ~ terminated => Warm \in {Rebuilt(file), Replay(file)[Len(file) - 1]}
         /\ ~ compacted /\ ~ glued => \A e \in OwnLines(file) : e.counter <= WarmSeq
  <1> USE DEF LogInv
  <1>1. file \in Seq(Line) /\ seq \in Nat
    BY LogTypes
  <1>2. Rebuilt(file) \in KeyedSnapshot
    BY <1>1, RebuiltType
  <1>3. Warm \in KeyedSnapshot
    BY <1>2 DEF Warm, CacheIsKeyed
  <1>4. Warm \in Snapshot /\ Warm # Cold
    BY <1>3, MarkersAreDistinct DEF KeyedSnapshot
  <1>5. /\ RebuiltSeq(file) \in Nat
        /\ \A e \in OwnLines(file) : e.counter <= RebuiltSeq(file)
    BY <1>1, RebuiltSeqFacts
  <1>6. \A e \in OwnLines(file) : e.counter \in Nat
    BY <1>1, LinesAreEntries DEF Entry
  <1>7. /\ WarmSeq \in Nat
        /\ ~ compacted /\ ~ glued => \A e \in OwnLines(file) : e.counter <= WarmSeq
    <2>1. CASE cache = Cold
      <3>1. WarmSeq \in Nat /\ RebuiltSeq(file) <= WarmSeq
        BY <2>1, <1>1, <1>5, LargerOfTwo DEF WarmSeq
      <3> QED
        BY <3>1, <1>5, <1>6
    <2>2. CASE cache # Cold
      BY <2>2, <1>1 DEF WarmSeq, OwnWritesAreInFile
    <2> QED
      BY <2>1, <2>2
  <1>8. terminated /\ ~ glued => Warm = Rebuilt(file)
    BY DEF Warm, RebuildIsExact
  <1>9. ~ glued /\ ~ terminated => Warm \in {Rebuilt(file), Replay(file)[Len(file) - 1]}
    BY DEF Warm, UnterminatedLineIsLast
  <1>10. ~ terminated => \E line \in Line : Rebuilt(file) = ApplyLine(Replay(file)[Len(file) - 1], line)
    <2> SUFFICES ASSUME ~ terminated
                 PROVE  \E line \in Line : Rebuilt(file) = ApplyLine(Replay(file)[Len(file) - 1], line)
      OBVIOUS
    <2>1. Len(file) \in 1 .. Len(file) /\ file[Len(file)] \in Line
      BY <1>1 DEF UnterminatedLineIsLast
    <2>2. Rebuilt(file) = ApplyLine(Replay(file)[Len(file) - 1], file[Len(file)])
      BY <1>1, <2>1, ReplayStep DEF Rebuilt
    <2> QED
      BY <2>1, <2>2
  <1>11. ~ glued => \/ Rebuilt(file) = Warm
                    \/ \E line \in Line : Rebuilt(file) = ApplyLine(Warm, line)
    BY <1>8, <1>9, <1>10, <1>1, LogTypes
  <1> HIDE DEF LogInv
  <1> QED
    BY <1>3, <1>4, <1>7, <1>8, <1>9, <1>11

\* Dropping the cache does not take a read back: a line that was written by an
\* append that failed may only take it forward (rebuildLocked).
LEMMA RebuildGoesForward ==
  ASSUME LogInv, ~ glued
  PROVE  GoesForward(Warm, Rebuilt(file))
  <1>1. Warm \in KeyedSnapshot
    BY WarmFacts
  <1>2. CASE Rebuilt(file) = Warm
    BY <1>2 DEF GoesForward
  <1>3. CASE \E line \in Line : Rebuilt(file) = ApplyLine(Warm, line)
    BY <1>1, <1>3, LineGoesForward
  <1> QED
    BY <1>2, <1>3, WarmFacts

\* A line written in full (appendToFile).
LEMMA WriteLineFacts ==
  ASSUME LogInv, NEW e \in Entry, WriteLine(e)
  PROVE  /\ file' \in Seq(Line) /\ terminated' = TRUE /\ glued' \in BOOLEAN
         /\ ~ glued' => /\ ~ glued /\ terminated
                        /\ Rebuilt(file') = Apply(Warm, e)
                        /\ Range(file') = Range(file) \cup {e}
                        /\ Warm = Rebuilt(file)
  <1>1. /\ file \in Seq(Line) /\ terminated \in BOOLEAN /\ glued \in BOOLEAN
        /\ e \in Line /\ Torn \in Line /\ e # Torn
    BY LogTypes, MarkersAreDistinct DEF LogInv, Line
  <1>2. terminated' = TRUE /\ glued' \in BOOLEAN
    BY <1>1 DEF WriteLine
  <1>3. CASE terminated
    <2>1. file' = Append(file, e)
      BY <1>3 DEF WriteLine
    <2>2. /\ file' \in Seq(Line)
          /\ Rebuilt(file') = ApplyLine(Rebuilt(file), e)
          /\ Range(file') = Range(file) \cup {e}
      BY <2>1, <1>1, RebuiltAppend
    <2>3. ~ glued' => ~ glued /\ Warm = Rebuilt(file)
      BY <1>1, <1>3, WarmFacts DEF WriteLine
    <2> QED
      BY <1>1, <1>2, <1>3, <2>2, <2>3 DEF ApplyLine
  <1>4. CASE ~ terminated
    <2>1. file' = [file EXCEPT ![Len(file)] = Torn] /\ glued' = TRUE
      BY <1>1, <1>4 DEF WriteLine, Glued
    <2>2. file \in [1 .. Len(file) -> Line] /\ Len(file) \in Nat
      BY <1>1
    <2>3. file' \in [1 .. Len(file) -> Line]
      BY <1>1, <2>1, <2>2
    <2>4. file' \in Seq(Line)
      BY <2>2, <2>3
    <2> QED
      BY <1>2, <2>1, <2>4
  <1> QED
    BY <1>3, <1>4

\* A line that reached the disk in part, or not at all (appendToFile).
LEMMA WritePartFacts ==
  ASSUME LogInv, NEW e \in Entry, WritePart(e)
  PROVE  /\ file' \in Seq(Line) /\ terminated' \in BOOLEAN /\ glued' = glued
         /\ \/ file' = file /\ terminated' = terminated
            \/ /\ terminated /\ ~ glued /\ terminated' = FALSE /\ file' # <<>>
               /\ Warm = Rebuilt(file)
               /\ Replay(file')[Len(file') - 1] = Rebuilt(file)
               /\ \E line \in {e, Torn} : /\ Range(file') = Range(file) \cup {line}
                                          /\ Rebuilt(file') = ApplyLine(Rebuilt(file), line)
  <1>1. /\ file \in Seq(Line) /\ terminated \in BOOLEAN /\ glued \in BOOLEAN
        /\ e \in Line /\ Torn \in Line
    BY LogTypes DEF LogInv, Line
  <1>2. CASE UNCHANGED <<file, terminated, glued>>
    BY <1>1, <1>2
  <1>3. CASE /\ NoPartialWriteYet
             /\ file' \in {Append(file, e), Append(file, Torn)}
             /\ terminated' = FALSE
             /\ UNCHANGED glued
    <2>1. PICK line \in {e, Torn} : file' = Append(file, line)
      BY <1>3
    <2>2. /\ file' \in Seq(Line)
          /\ Rebuilt(file') = ApplyLine(Rebuilt(file), line)
          /\ Replay(file')[Len(file)] = Rebuilt(file)
          /\ Range(file') = Range(file) \cup {line}
          /\ Len(file') = Len(file) + 1
      BY <1>1, <2>1, RebuiltAppend
    <2>3. Len(file') - 1 = Len(file) /\ file' # <<>>
      BY <1>1, <2>2
    <2>4. terminated /\ ~ glued /\ Warm = Rebuilt(file)
      BY <1>3, WarmFacts DEF NoPartialWriteYet
    <2> QED
      BY <1>3, <2>1, <2>2, <2>3, <2>4
  <1> QED
    BY <1>2, <1>3 DEF WritePart

\* Every entry that reaches the device is an entry; one of the device's own is
\* one it has written.
LEMMA IncomingFacts ==
  ASSUME TypeOK, NEW e \in Incoming
  PROVE  e \in Entry /\ (e \in acked \/ e.device # Self)
  <1>1. CASE e \in acked
    BY <1>1, LogTypes
  <1>2. CASE e \notin acked
    <2>1. OwnCounters \subseteq Nat
      BY LogTypes DEF OwnCounters, Entry
    <2>2. PICK p \in Devices \ {Self} :
            e \in [op : {"set"}, key : Keys, device : {p}, counter : 1 .. MaxCounter[p],
                   ts : {1}, context : {[EmptyVector EXCEPT ![p] = n - 1, ![Self] = c] :
                                          n \in 1 .. MaxCounter[p], c \in OwnCounters}]
      BY <1>2 DEF Incoming
    <2>3. PICK n \in 1 .. MaxCounter[p], c \in OwnCounters :
            e.context = [EmptyVector EXCEPT ![p] = n - 1, ![Self] = c]
      BY <2>2
    <2>4. MaxCounter[p] \in Nat
      BY <2>2, BoundsAreNumbers
    <2>5. e.context \in Vector
      <3>1. EmptyVector \in Vector /\ n - 1 \in Nat /\ c \in Nat
        BY <2>1, <2>4 DEF EmptyVector, Vector
      <3> QED
        BY <2>3, <3>1 DEF Vector
    <2>6. e.counter \in Nat \ {0}
      BY <2>2, <2>4
    <2> QED
      BY <2>2, <2>5, <2>6 DEF Entry
  <1> QED
    BY <1>1, <1>2

\* A new entry is an entry, with a counter of its own.
LEMMA NewEntryFacts ==
  ASSUME LogInv, NEW k \in Keys, NEW op \in {"set", "delete"}
  PROVE  /\ NewEntry(k, op, Warm, WarmSeq + 1) \in Entry
         /\ NewEntry(k, op, Warm, WarmSeq + 1).device = Self
         /\ NewEntry(k, op, Warm, WarmSeq + 1).counter = WarmSeq + 1
         /\ WarmSeq + 1 \in Nat
  <1>1. Warm.vec \in Vector /\ WarmSeq \in Nat /\ WarmSeq + 1 \in Nat \ {0}
    BY WarmFacts DEF Snapshot
  <1> QED
    BY <1>1, SelfIsDevice DEF NewEntry, Entry

-----------------------------------------------------------------------------
(* The actions. *)

LEMMA OwnLinesAfter ==
  ASSUME NEW f, NEW g, NEW line, Range(g) = Range(f) \cup {line}
  PROVE  /\ OwnLines(f) \subseteq OwnLines(g)
         /\ \A e \in OwnLines(g) : e \in OwnLines(f) \/ e = line
         /\ line # Torn /\ line.device = Self => line \in OwnLines(g)
  BY DEF OwnLines

LEMMA AppendLocalKeepsLogInv ==
  ASSUME LogInv, NEW k \in Keys, NEW op \in {"set", "delete"}, AppendLocal(k, op)
  PROVE  LogInv' /\ (~ glued' => GoesForward(Warm, Warm'))
  <1> DEFINE e == NewEntry(k, op, Warm, WarmSeq + 1)
  <1>1. /\ e \in Entry /\ e.device = Self /\ e.counter = WarmSeq + 1 /\ e.counter \in Nat
        /\ e # Torn /\ e \in Line
    BY NewEntryFacts, MarkersAreDistinct DEF Line
  <1>2. /\ WriteLine(e) /\ cache' = Apply(Warm, e) /\ seq' = e.counter
        /\ acked' = acked \cup {e} /\ compacted' = compacted
    BY DEF AppendLocal, AppendCached
  <1>3. /\ Warm \in KeyedSnapshot /\ WarmSeq \in Nat
        /\ ~ compacted /\ ~ glued => \A x \in OwnLines(file) : x.counter <= WarmSeq
    BY WarmFacts
  <1> HIDE DEF e
  <1>4. /\ file' \in Seq(Line) /\ terminated' = TRUE /\ glued' \in BOOLEAN
        /\ ~ glued' => /\ ~ glued /\ terminated
                       /\ Rebuilt(file') = Apply(Warm, e)
                       /\ Range(file') = Range(file) \cup {e}
                       /\ Warm = Rebuilt(file)
    BY <1>1, <1>2, WriteLineFacts
  <1>5. cache' \in KeyedSnapshot /\ cache' \in Snapshot /\ cache' # Cold
    BY <1>1, <1>2, <1>3, ApplyType, MarkersAreDistinct DEF KeyedSnapshot
  <1>6. TypeOK'
    BY <1>1, <1>2, <1>4, <1>5, LogTypes DEF LogInv, TypeOK, Line
  <1>7. CacheIsKeyed' /\ RebuildIsExact' /\ UnterminatedLineIsLast'
    BY <1>2, <1>4, <1>5 DEF CacheIsKeyed, RebuildIsExact, UnterminatedLineIsLast
  <1>8. ASSUME ~ compacted', ~ glued'
        PROVE  /\ \A x \in acked' : x.device = Self => x \in OwnLines(file')
               /\ \A x \in OwnLines(file') : x.counter <= seq'
               /\ \A x, y \in acked' : x.device = Self /\ y.device = Self /\ x.counter = y.counter => x = y
    <2>1. /\ OwnLines(file) \subseteq OwnLines(file') /\ e \in OwnLines(file')
          /\ \A x \in OwnLines(file') : x \in OwnLines(file) \/ x = e
      BY <1>1, <1>4, <1>8, OwnLinesAfter
    <2>2. \A x \in acked : x.device = Self => x \in OwnLines(file)
      BY <1>2, <1>4, <1>8 DEF LogInv, OwnWritesAreInFile
    <2>3. \A x \in OwnLines(file) : x.counter \in Nat /\ x.counter <= WarmSeq
      BY <1>2, <1>3, <1>4, <1>8, LogTypes, LinesAreEntries DEF LogInv, Entry
    <2>4. \A x \in OwnLines(file) : x.counter < e.counter
      BY <2>3, <1>1, <1>3
    <2>5. \A x \in OwnLines(file') : x.counter <= seq'
      BY <2>1, <2>3, <2>4, <1>1, <1>2
    <2>6. \A x, y \in acked : x.device = Self /\ y.device = Self /\ x.counter = y.counter => x = y
      BY <1>2, <1>4, <1>8 DEF LogInv, CountersAreNotReused
    <2>7. \A x \in acked : x.device = Self => x.counter # e.counter
      BY <2>2, <2>3, <2>4, <1>1
    <2> QED
      BY <1>1, <1>2, <2>1, <2>2, <2>5, <2>6, <2>7
  <1>9. OwnWritesAreInFile' /\ CountersAreNotReused'
    BY <1>8 DEF OwnWritesAreInFile, CountersAreNotReused
  <1>10. ~ glued' => GoesForward(Warm, Warm')
    <2>1. Warm' = ApplyLine(Warm, e)
      BY <1>1, <1>2, <1>5 DEF Warm, ApplyLine
    <2> QED
      BY <2>1, <1>1, <1>3, LineGoesForward
  <1> QED
    BY <1>6, <1>7, <1>9, <1>10 DEF LogInv

\* The parts of the invariant about counters, after a step that acknowledges
\* nothing new of the device's own.
LEMMA CountersStay ==
  ASSUME LogInv, file' \in Seq(Line),
         \A x \in acked' : x \in acked \/ x.device # Self,
         compacted' \in BOOLEAN, glued' \in BOOLEAN,
         ~ compacted' /\ ~ glued' =>
           /\ ~ compacted /\ ~ glued
           /\ OwnLines(file) \subseteq OwnLines(file')
           /\ cache' # Cold => \A x \in OwnLines(file') : x.counter <= seq'
  PROVE  OwnWritesAreInFile' /\ CountersAreNotReused'
  <1>1. ASSUME ~ compacted', ~ glued'
        PROVE  /\ \A x \in acked' : x.device = Self => x \in OwnLines(file')
               /\ cache' # Cold => \A x \in OwnLines(file') : x.counter <= seq'
               /\ \A x, y \in acked' : x.device = Self /\ y.device = Self /\ x.counter = y.counter => x = y
    <2>1. \A x \in acked : x.device = Self => x \in OwnLines(file)
      BY <1>1 DEF LogInv, OwnWritesAreInFile
    <2>2. \A x, y \in acked : x.device = Self /\ y.device = Self /\ x.counter = y.counter => x = y
      BY <1>1 DEF LogInv, CountersAreNotReused
    <2> QED
      BY <1>1, <2>1, <2>2
  <1> QED
    BY <1>1 DEF OwnWritesAreInFile, CountersAreNotReused

\* The device's own lines after a partial write.
LEMMA OwnLinesAfterPart ==
  ASSUME LogInv, NEW e \in Entry, WritePart(e)
  PROVE  /\ OwnLines(file) \subseteq OwnLines(file')
         /\ \A x \in OwnLines(file') : x \in OwnLines(file) \/ x = e
  <1>1. CASE file' = file
    BY <1>1
  <1>2. CASE \E line \in {e, Torn} : Range(file') = Range(file) \cup {line}
    <2>1. PICK line \in {e, Torn} : Range(file') = Range(file) \cup {line}
      BY <1>2
    <2>2. /\ OwnLines(file) \subseteq OwnLines(file')
          /\ \A x \in OwnLines(file') : x \in OwnLines(file) \/ x = line
      BY <2>1, OwnLinesAfter
    <2>3. Torn \notin OwnLines(file')
      BY DEF OwnLines
    <2> QED
      BY <2>1, <2>2, <2>3
  <1> QED
    BY <1>1, <1>2, WritePartFacts

LEMMA AppendLocalFailsKeepsLogInv ==
  ASSUME LogInv, NEW k \in Keys, NEW op \in {"set", "delete"}, AppendLocalFails(k, op)
  PROVE  LogInv' /\ (~ glued' => GoesForward(Warm, Warm'))
  <1> DEFINE e == NewEntry(k, op, Warm, WarmSeq + 1)
  <1>1. /\ e \in Entry /\ e.counter = WarmSeq + 1 /\ e.counter \in Nat
    BY NewEntryFacts
  <1>2. /\ WritePart(e) /\ cache' = Warm /\ seq' = e.counter
        /\ acked' = acked /\ compacted' = compacted
    BY DEF AppendLocalFails
  <1>3. /\ Warm \in KeyedSnapshot /\ Warm \in Snapshot /\ Warm # Cold /\ WarmSeq \in Nat
        /\ terminated /\ ~ glued => Warm = Rebuilt(file)
        /\ ~ glued /\ ~ terminated => Warm \in {Rebuilt(file), Replay(file)[Len(file) - 1]}
        /\ ~ compacted /\ ~ glued => \A x \in OwnLines(file) : x.counter <= WarmSeq
    BY WarmFacts
  <1> HIDE DEF e
  <1>4. /\ file' \in Seq(Line) /\ terminated' \in BOOLEAN /\ glued' = glued
        /\ \/ file' = file /\ terminated' = terminated
           \/ /\ terminated /\ ~ glued /\ terminated' = FALSE /\ file' # <<>>
              /\ Warm = Rebuilt(file)
              /\ Replay(file')[Len(file') - 1] = Rebuilt(file)
    BY <1>1, <1>2, WritePartFacts
  <1>5. TypeOK'
    BY <1>1, <1>2, <1>3, <1>4, LogTypes DEF LogInv, TypeOK, Line
  <1>6. CacheIsKeyed' /\ RebuildIsExact'
    BY <1>2, <1>3, <1>4 DEF CacheIsKeyed, RebuildIsExact
  <1>7. UnterminatedLineIsLast'
    <2>1. ~ terminated => file # <<>>
      BY DEF LogInv, UnterminatedLineIsLast
    <2> QED
      BY <2>1, <1>2, <1>3, <1>4 DEF UnterminatedLineIsLast
  <1>8. OwnWritesAreInFile' /\ CountersAreNotReused'
    <2>1. /\ OwnLines(file) \subseteq OwnLines(file')
          /\ \A x \in OwnLines(file') : x \in OwnLines(file) \/ x = e
      BY <1>1, <1>2, OwnLinesAfterPart
    <2>2. \A x \in OwnLines(file) : x.counter \in Nat
      BY LogTypes, LinesAreEntries DEF LogInv, Entry
    <2>3. ~ compacted /\ ~ glued => \A x \in OwnLines(file') : x.counter <= seq'
      BY <1>1, <1>2, <1>3, <2>1, <2>2
    <2> QED
      BY <1>2, <1>4, <2>1, <2>3, LogTypes, CountersStay DEF LogInv
  <1>9. GoesForward(Warm, Warm')
    BY <1>2, <1>3 DEF Warm, GoesForward
  <1> QED
    BY <1>5, <1>6, <1>7, <1>8, <1>9 DEF LogInv

LEMMA AppendLocalStopsKeepsLogInv ==
  ASSUME LogInv, NEW k \in Keys, NEW op \in {"set", "delete"}, AppendLocalStops(k, op)
  PROVE  LogInv' /\ (~ glued' => GoesForward(Warm, Warm'))
  <1> DEFINE e == NewEntry(k, op, Warm, WarmSeq + 1)
  <1>1. e \in Entry /\ e \in Line /\ e # Torn /\ Torn \in Line
    BY NewEntryFacts, MarkersAreDistinct DEF Line
  <1>2. /\ WriteLine(e) \/ WritePart(e)
        /\ cache' = Cold /\ seq' = 0
        /\ acked' = acked /\ compacted' = compacted
    BY DEF AppendLocalStops
  <1> HIDE DEF e
  <1>3. /\ file' \in Seq(Line) /\ terminated' \in BOOLEAN /\ glued' \in BOOLEAN
        /\ ~ glued' => ~ glued /\ OwnLines(file) \subseteq OwnLines(file')
        /\ ~ terminated' => file' # <<>>
        /\ ~ glued' => GoesForward(Warm, Rebuilt(file'))
    <2>1. CASE WriteLine(e)
      <3>1. /\ file' \in Seq(Line) /\ terminated' = TRUE /\ glued' \in BOOLEAN
            /\ ~ glued' => /\ ~ glued
                           /\ Rebuilt(file') = ApplyLine(Warm, e)
                           /\ Range(file') = Range(file) \cup {e}
        BY <2>1, <1>1, WriteLineFacts DEF ApplyLine
      <3>2. ~ glued' => OwnLines(file) \subseteq OwnLines(file')
        BY <3>1, OwnLinesAfter
      <3>3. ~ glued' => GoesForward(Warm, Rebuilt(file'))
        BY <3>1, <1>1, WarmFacts, LineGoesForward
      <3> QED
        BY <3>1, <3>2, <3>3
    <2>2. CASE WritePart(e)
      <3>1. /\ file' \in Seq(Line) /\ terminated' \in BOOLEAN /\ glued' = glued
            /\ \/ file' = file /\ terminated' = terminated
               \/ /\ file' # <<>> /\ Warm = Rebuilt(file)
                  /\ \E line \in {e, Torn} : Rebuilt(file') = ApplyLine(Rebuilt(file), line)
        BY <2>2, <1>1, WritePartFacts
      <3>2. OwnLines(file) \subseteq OwnLines(file')
        BY <2>2, <1>1, OwnLinesAfterPart
      <3>3. ~ glued => GoesForward(Warm, Rebuilt(file))
        BY RebuildGoesForward
      <3>4. ~ terminated => file # <<>>
        BY DEF LogInv, UnterminatedLineIsLast
      <3>5. ~ glued' => GoesForward(Warm, Rebuilt(file'))
        <4>1. CASE file' = file
          BY <4>1, <3>1, <3>3
        <4>2. CASE Warm = Rebuilt(file) /\ \E line \in {e, Torn} : Rebuilt(file') = ApplyLine(Rebuilt(file), line)
          BY <4>2, <1>1, WarmFacts, LineGoesForward
        <4> QED
          BY <3>1, <4>1, <4>2
      <3>6. glued \in BOOLEAN
        BY LogTypes DEF LogInv
      <3> QED
        BY <3>1, <3>2, <3>4, <3>5, <3>6
    <2> QED
      BY <1>2, <2>1, <2>2
  <1>4. TypeOK'
    BY <1>2, <1>3, LogTypes DEF LogInv, TypeOK, Line
  <1>5. CacheIsKeyed' /\ RebuildIsExact' /\ UnterminatedLineIsLast'
    BY <1>2, <1>3 DEF CacheIsKeyed, RebuildIsExact, UnterminatedLineIsLast
  <1>6. OwnWritesAreInFile' /\ CountersAreNotReused'
    BY <1>2, <1>3, LogTypes, CountersStay DEF LogInv
  <1>7. ~ glued' => GoesForward(Warm, Warm')
    BY <1>2, <1>3 DEF Warm
  <1> QED
    BY <1>4, <1>5, <1>6, <1>7 DEF LogInv

LEMMA AppendRemoteKeepsLogInv ==
  ASSUME LogInv, NEW e \in Incoming, AppendRemote(e)
  PROVE  LogInv' /\ (~ glued' => GoesForward(Warm, Warm'))
  <1>1. e \in Entry /\ e \in Line /\ e # Torn /\ (e \in acked \/ e.device # Self)
    BY IncomingFacts, MarkersAreDistinct DEF LogInv, Line
  <1>2. /\ WriteLine(e) /\ cache' = (IF cache = Cold THEN Cold ELSE Apply(cache, e))
        /\ acked' = acked \cup {e} /\ seq' = seq /\ compacted' = compacted
    BY DEF AppendRemote, AppendCached
  <1>3. /\ file' \in Seq(Line) /\ terminated' = TRUE /\ glued' \in BOOLEAN
        /\ ~ glued' => /\ ~ glued /\ terminated
                       /\ Rebuilt(file') = Apply(Warm, e)
                       /\ Range(file') = Range(file) \cup {e}
                       /\ Warm = Rebuilt(file)
    BY <1>1, <1>2, WriteLineFacts
  <1>4. cache' # Cold => /\ cache # Cold /\ cache' = Apply(Warm, e)
                         /\ cache' \in KeyedSnapshot /\ cache' \in Snapshot
    BY <1>1, <1>2, WarmFacts, ApplyType DEF Warm, KeyedSnapshot
  <1>5. TypeOK'
    BY <1>1, <1>2, <1>3, <1>4, LogTypes DEF LogInv, TypeOK, Line
  <1>6. CacheIsKeyed' /\ RebuildIsExact' /\ UnterminatedLineIsLast'
    BY <1>3, <1>4 DEF CacheIsKeyed, RebuildIsExact, UnterminatedLineIsLast
  <1>7. OwnWritesAreInFile' /\ CountersAreNotReused'
    <2>1. ~ glued' => /\ OwnLines(file) \subseteq OwnLines(file')
                      /\ \A x \in OwnLines(file') : x \in OwnLines(file) \/ x = e
      BY <1>3, OwnLinesAfter
    <2>2. \A x \in OwnLines(file') : x.device = Self
      BY DEF OwnLines
    <2>3. ~ compacted' /\ ~ glued' /\ cache' # Cold => \A x \in OwnLines(file') : x.counter <= seq'
      <3> SUFFICES ASSUME ~ compacted', ~ glued', cache' # Cold
                   PROVE  \A x \in OwnLines(file') : x.counter <= seq'
        OBVIOUS
      <3>1. /\ \A x \in acked : x.device = Self => x \in OwnLines(file)
            /\ \A x \in OwnLines(file) : x.counter <= seq
        BY <1>2, <1>3, <1>4 DEF LogInv, OwnWritesAreInFile
      <3> QED
        BY <3>1, <2>1, <2>2, <1>1, <1>2
    <2>4. \A x \in acked' : x \in acked \/ x.device # Self
      BY <1>1, <1>2
    <2> QED
      BY <1>2, <1>3, <2>1, <2>3, <2>4, LogTypes, CountersStay DEF LogInv
  <1>8. ~ glued' => GoesForward(Warm, Warm')
    <2> SUFFICES ASSUME ~ glued'
                 PROVE  GoesForward(Warm, Warm')
      OBVIOUS
    <2>1. Warm' = ApplyLine(Warm, e)
      BY <1>1, <1>3, <1>4 DEF Warm, ApplyLine
    <2> QED
      BY <2>1, <1>1, WarmFacts, LineGoesForward
  <1> QED
    BY <1>5, <1>6, <1>7, <1>8 DEF LogInv

LEMMA AppendRemoteFailsKeepsLogInv ==
  ASSUME LogInv, NEW e \in Incoming, AppendRemoteFails(e)
  PROVE  LogInv' /\ (~ glued' => GoesForward(Warm, Warm'))
  <1>1. e \in Entry /\ e \in Line /\ Torn \in Line /\ (e \in acked \/ e.device # Self)
    BY IncomingFacts DEF LogInv, Line
  <1>2. /\ WritePart(e) /\ cache' = cache /\ acked' = acked /\ seq' = seq /\ compacted' = compacted
    BY DEF AppendRemoteFails
  <1>3. /\ file' \in Seq(Line) /\ terminated' \in BOOLEAN /\ glued' = glued
        /\ \/ file' = file /\ terminated' = terminated
           \/ /\ terminated /\ ~ glued /\ terminated' = FALSE /\ file' # <<>>
              /\ Warm = Rebuilt(file)
              /\ Replay(file')[Len(file') - 1] = Rebuilt(file)
              /\ \E line \in {e, Torn} : Rebuilt(file') = ApplyLine(Rebuilt(file), line)
    BY <1>1, <1>2, WritePartFacts
  <1>4. cache # Cold => cache = Warm
    BY DEF Warm
  <1>5. TypeOK'
    BY <1>2, <1>3, LogTypes DEF LogInv, TypeOK, Line
  <1>6. CacheIsKeyed' /\ RebuildIsExact' /\ UnterminatedLineIsLast'
    <2>1. CacheIsKeyed'
      BY <1>2 DEF LogInv, CacheIsKeyed
    <2>2. RebuildIsExact'
      BY <1>2, <1>3 DEF LogInv, RebuildIsExact
    <2>3. UnterminatedLineIsLast'
      BY <1>2, <1>3, <1>4 DEF LogInv, UnterminatedLineIsLast
    <2> QED
      BY <2>1, <2>2, <2>3
  <1>7. OwnWritesAreInFile' /\ CountersAreNotReused'
    <2>1. /\ OwnLines(file) \subseteq OwnLines(file')
          /\ \A x \in OwnLines(file') : x \in OwnLines(file) \/ x = e
      BY <1>1, <1>2, OwnLinesAfterPart
    <2>2. \A x \in OwnLines(file') : x.device = Self
      BY DEF OwnLines
    <2>3. ~ compacted' /\ ~ glued' /\ cache' # Cold => \A x \in OwnLines(file') : x.counter <= seq'
      <3> SUFFICES ASSUME ~ compacted', ~ glued', cache' # Cold
                   PROVE  \A x \in OwnLines(file') : x.counter <= seq'
        OBVIOUS
      <3>1. /\ \A x \in acked : x.device = Self => x \in OwnLines(file)
            /\ \A x \in OwnLines(file) : x.counter <= seq
        BY <1>2, <1>3 DEF LogInv, OwnWritesAreInFile
      <3> QED
        BY <3>1, <2>1, <2>2, <1>1, <1>2
    <2> QED
      BY <1>2, <1>3, <2>1, <2>3, LogTypes, CountersStay DEF LogInv
  <1>8. ~ glued' => GoesForward(Warm, Warm')
    <2>1. CASE cache # Cold \/ file' = file
      <3>1. Warm' = Warm
        BY <2>1, <1>2 DEF Warm
      <3> QED
        BY <3>1 DEF GoesForward
    <2>2. CASE cache = Cold /\ file' # file
      <3>1. \E line \in {e, Torn} : Warm' = ApplyLine(Warm, line)
        BY <2>2, <1>2, <1>3 DEF Warm
      <3> QED
        BY <3>1, <1>1, WarmFacts, LineGoesForward
    <2> QED
      BY <2>1, <2>2
  <1> QED
    BY <1>5, <1>6, <1>7, <1>8 DEF LogInv

LEMMA ReadSnapshotKeepsLogInv ==
  ASSUME LogInv, ReadSnapshot
  PROVE  LogInv' /\ (~ glued' => GoesForward(Warm, Warm'))
  <1>1. /\ cache' = Warm /\ seq' = WarmSeq /\ file' = file /\ terminated' = terminated
        /\ acked' = acked /\ compacted' = compacted /\ glued' = glued
    BY DEF ReadSnapshot
  <1>2. /\ Warm \in KeyedSnapshot /\ Warm \in Snapshot /\ Warm # Cold /\ WarmSeq \in Nat
        /\ terminated /\ ~ glued => Warm = Rebuilt(file)
        /\ ~ glued /\ ~ terminated => Warm \in {Rebuilt(file), Replay(file)[Len(file) - 1]}
        /\ ~ compacted /\ ~ glued => \A x \in OwnLines(file) : x.counter <= WarmSeq
    BY WarmFacts
  <1>3. TypeOK'
    BY <1>1, <1>2 DEF LogInv, TypeOK
  <1>4. CacheIsKeyed' /\ RebuildIsExact' /\ UnterminatedLineIsLast'
    BY <1>1, <1>2 DEF LogInv, CacheIsKeyed, RebuildIsExact, UnterminatedLineIsLast
  <1>5. OwnWritesAreInFile' /\ CountersAreNotReused'
    BY <1>1, <1>2, LogTypes, CountersStay DEF LogInv
  <1>6. GoesForward(Warm, Warm')
    BY <1>1, <1>2 DEF Warm, GoesForward
  <1> QED
    BY <1>3, <1>4, <1>5, <1>6 DEF LogInv

\* InvalidateCache and Restart: only the cache, and for a restart the counter,
\* are dropped.
LEMMA DropCacheKeepsLogInv ==
  ASSUME LogInv, InvalidateCache \/ Restart
  PROVE  LogInv' /\ (~ glued' => GoesForward(Warm, Warm'))
  <1>1. /\ cache' = Cold /\ seq' \in Nat /\ file' = file /\ terminated' = terminated
        /\ acked' = acked /\ compacted' = compacted /\ glued' = glued
    BY LogTypes DEF LogInv, InvalidateCache, Restart
  <1>2. TypeOK'
    BY <1>1 DEF LogInv, TypeOK
  <1>3. CacheIsKeyed' /\ RebuildIsExact' /\ UnterminatedLineIsLast'
    BY <1>1 DEF LogInv, CacheIsKeyed, RebuildIsExact, UnterminatedLineIsLast
  <1>4. OwnWritesAreInFile' /\ CountersAreNotReused'
    BY <1>1, LogTypes, CountersStay DEF LogInv
  <1>5. ~ glued' => GoesForward(Warm, Warm')
    BY <1>1, RebuildGoesForward DEF Warm
  <1> QED
    BY <1>2, <1>3, <1>4, <1>5 DEF LogInv

LEMMA CompactKeepsLogInv ==
  ASSUME LogInv, Compact
  PROVE  LogInv' /\ (~ glued' => GoesForward(Warm, Warm'))
  <1>1. /\ terminated' = TRUE /\ cache' = Cold /\ seq' = WarmSeq /\ compacted' = TRUE
        /\ acked' = acked /\ glued' = glued
        /\ file' \in [1 .. Cardinality(Held(Warm.reg)) -> Held(Warm.reg)] /\ IsInjective(file')
    BY DEF Compact, CompactLines
  <1>2. Warm \in KeyedSnapshot /\ WarmSeq \in Nat
    BY WarmFacts
  <1>3. file' \in Seq(Line)
    BY <1>1, <1>2, CompactedLines
  <1>4. Rebuilt(file').reg = Warm.reg
    BY <1>1, <1>2, RebuiltCompacted
  <1>5. TypeOK'
    BY <1>1, <1>2, <1>3, LogTypes DEF LogInv, TypeOK, Line
  <1>6. CacheIsKeyed' /\ RebuildIsExact' /\ UnterminatedLineIsLast'
    BY <1>1 DEF CacheIsKeyed, RebuildIsExact, UnterminatedLineIsLast
  <1>7. OwnWritesAreInFile' /\ CountersAreNotReused'
    BY <1>1 DEF OwnWritesAreInFile, CountersAreNotReused
  <1>8. GoesForward(Warm, Warm')
    <2>1. Warm'.reg = Warm.reg
      BY <1>1, <1>4 DEF Warm
    <2> QED
      BY <2>1 DEF GoesForward
  <1> QED
    BY <1>5, <1>6, <1>7, <1>8 DEF LogInv

LEMMA InitLogInv ==
  ASSUME Init
  PROVE  LogInv
  <1>1. TypeOK
    <2>1. <<>> \in Seq(Entry \cup {Torn}) /\ 0 \in Nat
      OBVIOUS
    <2> QED
      BY <2>1, Zenon DEF Init, TypeOK
  <1>2. CacheIsKeyed /\ RebuildIsExact /\ UnterminatedLineIsLast
    BY DEF Init, CacheIsKeyed, RebuildIsExact, UnterminatedLineIsLast
  <1>3. OwnWritesAreInFile /\ CountersAreNotReused
    BY DEF Init, OwnWritesAreInFile, CountersAreNotReused
  <1> QED
    BY <1>1, <1>2, <1>3 DEF LogInv

LEMMA NextKeepsLogInv ==
  ASSUME LogInv, [Next]_vars
  PROVE  LogInv' /\ (~ glued' => GoesForward(Warm, Warm'))
  <1>1. ASSUME NEW k \in Keys, NEW op \in {"set", "delete"}, AppendLocal(k, op)
        PROVE  LogInv' /\ (~ glued' => GoesForward(Warm, Warm'))
    BY <1>1, AppendLocalKeepsLogInv
  <1>2. ASSUME NEW k \in Keys, NEW op \in {"set", "delete"}, AppendLocalFails(k, op)
        PROVE  LogInv' /\ (~ glued' => GoesForward(Warm, Warm'))
    BY <1>2, AppendLocalFailsKeepsLogInv
  <1>3. ASSUME NEW k \in Keys, NEW op \in {"set", "delete"}, AppendLocalStops(k, op)
        PROVE  LogInv' /\ (~ glued' => GoesForward(Warm, Warm'))
    BY <1>3, AppendLocalStopsKeepsLogInv
  <1>4. ASSUME NEW e \in Incoming, AppendRemote(e)
        PROVE  LogInv' /\ (~ glued' => GoesForward(Warm, Warm'))
    BY <1>4, AppendRemoteKeepsLogInv
  <1>5. ASSUME NEW e \in Incoming, AppendRemoteFails(e)
        PROVE  LogInv' /\ (~ glued' => GoesForward(Warm, Warm'))
    BY <1>5, AppendRemoteFailsKeepsLogInv
  <1>6. CASE ReadSnapshot
    BY <1>6, ReadSnapshotKeepsLogInv
  <1>7. CASE InvalidateCache \/ Restart
    BY <1>7, DropCacheKeepsLogInv
  <1>8. CASE Compact
    BY <1>8, CompactKeepsLogInv
  <1>9. CASE UNCHANGED vars
    <2>1. LogInv'
      BY <1>9 DEF vars, LogInv, TypeOK, CacheIsKeyed, RebuildIsExact, UnterminatedLineIsLast,
                  OwnWritesAreInFile, CountersAreNotReused
    <2>2. Warm' = Warm
      BY <1>9 DEF vars, Warm
    <2> QED
      BY <2>1, <2>2 DEF GoesForward
  <1> QED
    BY <1>1, <1>2, <1>3, <1>4, <1>5, <1>6, <1>7, <1>8, <1>9 DEF Next

\* As long as no line was written after an unterminated one, a step loses no
\* acknowledged append.
LEMMA AcknowledgedStays ==
  ASSUME LogInv, [Next]_vars, ~ glued => AcknowledgedSurvives, ~ glued'
  PROVE  AcknowledgedSurvives'
  <1>1. ASSUME NEW e \in Entry, WriteLine(e), acked' \subseteq acked \cup {e}, compacted' = compacted
        PROVE  AcknowledgedSurvives'
    <2>1. ~ glued /\ Range(file') = Range(file) \cup {e}
      BY <1>1, WriteLineFacts
    <2> QED
      BY <1>1, <2>1 DEF AcknowledgedSurvives
  <1>2. ASSUME NEW e \in Entry, WritePart(e), acked' = acked, compacted' = compacted
        PROVE  AcknowledgedSurvives'
    <2>1. /\ glued' = glued
          /\ file' = file \/ \E line \in {e, Torn} : Range(file') = Range(file) \cup {line}
      BY <1>2, WritePartFacts
    <2> QED
      BY <1>2, <2>1 DEF AcknowledgedSurvives
  <1>3. CASE /\ file' = file /\ acked' = acked /\ compacted' = compacted /\ glued' = glued
    BY <1>3 DEF AcknowledgedSurvives
  <1>4. ASSUME NEW k \in Keys, NEW op \in {"set", "delete"},
               AppendLocal(k, op) \/ AppendLocalFails(k, op) \/ AppendLocalStops(k, op)
        PROVE  AcknowledgedSurvives'
    <2> DEFINE e == NewEntry(k, op, Warm, WarmSeq + 1)
    <2>1. /\ e \in Entry
          /\ \/ WriteLine(e) /\ acked' \subseteq acked \cup {e}
             \/ WritePart(e) /\ acked' = acked
          /\ compacted' = compacted
      BY <1>4, NewEntryFacts DEF AppendLocal, AppendLocalFails, AppendLocalStops
    <2> HIDE DEF e
    <2> QED
      BY <1>1, <1>2, <2>1
  <1>5. ASSUME NEW e \in Incoming, AppendRemote(e) \/ AppendRemoteFails(e)
        PROVE  AcknowledgedSurvives'
    <2>1. e \in Entry
      BY IncomingFacts DEF LogInv
    <2> QED
      BY <1>1, <1>2, <1>5, <2>1 DEF AppendRemote, AppendRemoteFails
  <1>6. CASE ReadSnapshot \/ InvalidateCache \/ Restart
    BY <1>3, <1>6 DEF ReadSnapshot, InvalidateCache, Restart
  <1>7. CASE Compact
    BY <1>7 DEF Compact, AcknowledgedSurvives
  <1>8. CASE UNCHANGED vars
    BY <1>3, <1>8 DEF vars
  <1> QED
    BY <1>4, <1>5, <1>6, <1>7, <1>8 DEF Next

-----------------------------------------------------------------------------
(* The theorems. *)

\* Whatever is appended, fails, is compacted or restarted, the log's file,
\* cache and counter stay related as LogInv says.
THEOREM LogInvariance == Spec => []LogInv
  <1>1. Init => LogInv
    BY InitLogInv
  <1>2. LogInv /\ [Next]_vars => LogInv'
    BY NextKeepsLogInv
  <1> QED
    BY <1>1, <1>2, PTL DEF Spec

\* The variables of the log keep their types.
THEOREM LogTypeCorrectness == Spec => []TypeOK
  <1>1. LogInv => TypeOK
    BY DEF LogInv
  <1> QED
    BY <1>1, LogInvariance, PTL

\* A rebuild gives exactly the snapshot that was cached (rebuildLocked).
THEOREM ExactRebuild == Spec => []RebuildIsExact
  <1>1. LogInv => RebuildIsExact
    BY DEF LogInv
  <1> QED
    BY <1>1, LogInvariance, PTL

\* A device gives no two writes the same counter, across failed and partial
\* appends and restarts (AppendLocal).
THEOREM NoCounterTwice == Spec => []CountersAreNotReused
  <1>1. LogInv => CountersAreNotReused
    BY DEF LogInv
  <1> QED
    BY <1>1, LogInvariance, PTL

\* What the log shows for a key never vanishes and never gives way to an entry
\* that does not beat it (buildSnapshot, rebuildLocked, Compact).
THEOREM NoReadGoesBack == Spec => ReadsNeverGoBack
  <1> DEFINE Forward == ~ glued' => \A k \in Keys :
               Warm.reg[k] # NoEntry /\ Warm'.reg[k] # Warm.reg[k] =>
                 Warm'.reg[k] # NoEntry /\ Beats(Warm'.reg[k], Warm.reg[k])
  <1>1. LogInv /\ [Next]_vars => [Forward]_vars
    <2> SUFFICES ASSUME LogInv, [Next]_vars
                 PROVE  Forward
      OBVIOUS
    <2> QED
      BY NextKeepsLogInv DEF GoesForward
  <1> QED
    BY <1>1, LogInvariance, PTL DEF Spec, ReadsNeverGoBack

\* An acknowledged append is lost in one way only: written behind a line that
\* an earlier write left unterminated (appendToFile, readAllLocked).  Partial
\* writes, failed appends and restarts alone lose none.
THEOREM OnlyGluedLinesAreLost == Spec => [](~ glued => AcknowledgedSurvives)
  <1>1. Init => (~ glued => AcknowledgedSurvives)
    BY DEF Init, AcknowledgedSurvives
  <1>2. LogInv /\ [Next]_vars /\ (~ glued => AcknowledgedSurvives) => (~ glued => AcknowledgedSurvives)'
    BY AcknowledgedStays
  <1> QED
    BY <1>1, <1>2, LogInvariance, PTL DEF Spec
=============================================================================
