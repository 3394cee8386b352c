-------------------------- MODULE KVReplicaProofs --------------------------
(***************************************************************************)
(* Proofs about KVReplica for any number of devices, keys and writes, and  *)
(* any clocks: the inductive invariant Inv, that compareCausal decides     *)
(* happens-before exactly, and that a device reads its own writes.         *)
(***************************************************************************)
EXTENDS KVReplica, TLAPS

\* Observe raises one component and leaves the others (VersionVector.Observe).
LEMMA ObserveFacts ==
  ASSUME NEW v \in Vector, NEW a \in Devices, NEW c \in Nat
  PROVE  /\ Observe(v, a, c) \in Vector
         /\ \A d \in Devices : v[d] <= Observe(v, a, c)[d]
         /\ c <= Observe(v, a, c)[a]
         /\ \A d \in Devices : Observe(v, a, c)[d] = v[d] \/ (d = a /\ Observe(v, a, c)[d] = c)
  BY DEF Observe, Vector

\* Merge is an upper bound, and takes each component from one of the two
\* (VersionVector.Merge).
LEMMA MergeFacts ==
  ASSUME NEW v \in Vector, NEW w \in Vector
  PROVE  /\ Merge(v, w) \in Vector
         /\ \A d \in Devices : v[d] <= Merge(v, w)[d] /\ w[d] <= Merge(v, w)[d]
         /\ \A d \in Devices : Merge(v, w)[d] = v[d] \/ Merge(v, w)[d] = w[d]
  BY DEF Merge, Vector

\* The vector after an entry covers the vector before, the entry's context and
\* its dot, and claims nothing beyond these (buildSnapshot).
LEMMA ApplyVectorFacts ==
  ASSUME NEW v \in Vector, NEW e \in Entry
  PROVE  /\ ApplyVector(v, e) \in Vector
         /\ \A d \in Devices : v[d] <= ApplyVector(v, e)[d]
         /\ \A d \in Devices : e.context[d] <= ApplyVector(v, e)[d]
         /\ e.counter <= ApplyVector(v, e)[e.device]
         /\ \A d \in Devices : \/ ApplyVector(v, e)[d] = v[d]
                               \/ ApplyVector(v, e)[d] = e.context[d]
                               \/ d = e.device /\ ApplyVector(v, e)[d] = e.counter
  <1> DEFINE m == Merge(v, e.context)
  <1>1. e.context \in Vector /\ e.device \in Devices /\ e.counter \in Nat
    BY DEF Entry
  <1>2. /\ m \in Vector
        /\ \A d \in Devices : v[d] <= m[d] /\ e.context[d] <= m[d]
        /\ \A d \in Devices : m[d] = v[d] \/ m[d] = e.context[d]
    BY <1>1, MergeFacts
  <1>3. /\ Observe(m, e.device, e.counter) \in Vector
        /\ \A d \in Devices : m[d] <= Observe(m, e.device, e.counter)[d]
        /\ e.counter <= Observe(m, e.device, e.counter)[e.device]
        /\ \A d \in Devices : \/ Observe(m, e.device, e.counter)[d] = m[d]
                              \/ d = e.device /\ Observe(m, e.device, e.counter)[d] = e.counter
    BY <1>1, <1>2, ObserveFacts
  <1>4. ApplyVector(v, e) = Observe(m, e.device, e.counter)
    BY DEF ApplyVector
  <1> HIDE DEF m
  <1> QED
    BY <1>1, <1>2, <1>3, <1>4 DEF Vector

\* The components of a causal version (CausalVersion).
LEMMA CausalVersionBounds ==
  ASSUME NEW e \in Entry
  PROVE  /\ CausalVersion(e) \in Vector
         /\ \A d \in Devices : CausalVersion(e)[d] \in Nat
         /\ \A d \in Devices : e.context[d] <= CausalVersion(e)[d]
         /\ e.counter <= CausalVersion(e)[e.device]
         /\ \A d \in Devices : \/ CausalVersion(e)[d] = e.context[d]
                               \/ d = e.device /\ CausalVersion(e)[d] = e.counter
  <1>1. e.context \in Vector /\ e.device \in Devices /\ e.counter \in Nat
    BY DEF Entry
  <1>2. /\ CausalVersion(e) \in Vector
        /\ \A d \in Devices : e.context[d] <= CausalVersion(e)[d]
        /\ e.counter <= CausalVersion(e)[e.device]
        /\ \A d \in Devices : \/ CausalVersion(e)[d] = e.context[d]
                              \/ d = e.device /\ CausalVersion(e)[d] = e.counter
    BY <1>1, ObserveFacts DEF CausalVersion
  <1> QED
    BY <1>2 DEF Vector

\* What the causal version of an entry covers: its context and its dot.
LEMMA CausalVersionFacts ==
  ASSUME NEW v \in Vector, NEW e \in Entry
  PROVE  /\ CausalVersion(e) \in Vector
         /\ Dominates(v, CausalVersion(e)) <=>
              (Dominates(v, e.context) /\ e.counter <= v[e.device])
  <1>1. e.context \in Vector /\ e.device \in Devices /\ e.counter \in Nat
    BY DEF Entry
  <1> QED
    BY <1>1, CausalVersionBounds DEF Dominates, Vector
-----------------------------------------------------------------------------
(* The inductive invariant. *)

\* An entry is issued when some device has it in its log.
LEMMA IssuedAfterAppend ==
  ASSUME TypeOK, NEW d \in Devices, NEW e \in Entry, AppendEntry(d, e)
  PROVE  Issued' = Issued \cup {e}
  BY DEF TypeOK, AppendEntry, Issued

\* Appending an entry keeps the types (LocalLog.Append, AppendLocal).
LEMMA AppendEntryTypes ==
  ASSUME TypeOK, NEW d \in Devices, NEW e \in Entry, AppendEntry(d, e)
  PROVE  TypeOK'
  <1>1. e.key \in Keys /\ ApplyVector(vec[d], e) \in Vector
    BY ApplyVectorFacts DEF TypeOK, Entry
  <1>2. ApplyRegister(reg[d][e.key], e) \in Entry \cup {NoEntry}
    BY <1>1 DEF ApplyRegister, TypeOK
  <1> QED
    BY <1>1, <1>2 DEF TypeOK, AppendEntry

\* How an append changes the vectors: those of other devices stay, that of d
\* grows to cover the entry and nothing else.
LEMMA VectorsAfterAppend ==
  ASSUME TypeOK, NEW d \in Devices, NEW e \in Entry, AppendEntry(d, e)
  PROVE  /\ \A p \in Devices, a \in Devices :
              /\ vec[p][a] \in Nat /\ vec'[p][a] \in Nat
              /\ vec[p][a] <= vec'[p][a]
              /\ p # d => vec'[p] = vec[p]
         /\ \A a \in Devices :
              /\ e.context[a] \in Nat
              /\ e.context[a] <= vec'[d][a]
              /\ \/ vec'[d][a] = vec[d][a]
                 \/ vec'[d][a] = e.context[a]
                 \/ a = e.device /\ vec'[d][a] = e.counter
         /\ e.device \in Devices /\ e.counter \in Nat /\ e.counter > 0
         /\ e.counter <= vec'[d][e.device]
  <1>1. /\ vec[d] \in Vector
        /\ vec' = [vec EXCEPT ![d] = ApplyVector(vec[d], e)]
        /\ vec \in [Devices -> Vector]
    BY DEF TypeOK, AppendEntry
  <1>2. vec'[d] = ApplyVector(vec[d], e) /\ \A p \in Devices : p # d => vec'[p] = vec[p]
    BY <1>1
  <1>3. e.device \in Devices /\ e.counter \in Nat /\ e.counter > 0 /\ e.context \in Vector
    BY DEF Entry
  <1>4. vec' \in [Devices -> Vector]
    BY AppendEntryTypes DEF TypeOK
  <1> QED
    BY <1>1, <1>2, <1>3, <1>4, ApplyVectorFacts DEF Vector

\* Everything that has been issued is an entry.
LEMMA IssuedAreEntries ==
  ASSUME TypeOK
  PROVE  \A e \in Issued :
           /\ e \in Entry /\ e.device \in Devices
           /\ e.counter \in Nat /\ e.counter > 0
           /\ e.context \in Vector /\ \A a \in Devices : e.context[a] \in Nat
  BY DEF TypeOK, Issued, Entry, Vector

\* Registers after an append of an entry that the log now holds.
LEMMA HeldAfterAppend ==
  ASSUME TypeOK, VectorCoversHeld,
         NEW d \in Devices, NEW e \in Entry, AppendEntry(d, e)
  PROVE  VectorCoversHeld'
  <1> USE DEF VectorCoversHeld
  <1> SUFFICES ASSUME NEW p \in Devices, NEW k \in Keys, reg'[p][k] # NoEntry
               PROVE  /\ reg'[p][k] \in log'[p]
                      /\ reg'[p][k].key = k
                      /\ Dominates(vec'[p], CausalVersion(reg'[p][k]))
    OBVIOUS
  <1>1. TypeOK'
    BY AppendEntryTypes
  <1>2. CASE reg'[p][k] = reg[p][k]
    <2>1. /\ reg[p][k] \in Entry /\ reg[p][k] \in log'[p] /\ reg[p][k].key = k
          /\ Dominates(vec[p], CausalVersion(reg[p][k]))
      BY <1>2 DEF TypeOK, AppendEntry
    <2>2. /\ vec[p] \in Vector /\ vec'[p] \in Vector
          /\ CausalVersion(reg[p][k]) \in Vector
          /\ \A a \in Devices : vec[p][a] <= vec'[p][a]
      BY <1>1, <2>1, VectorsAfterAppend, CausalVersionFacts DEF TypeOK
    <2> QED
      BY <1>2, <2>1, <2>2 DEF Dominates, Vector
  <1>3. CASE reg'[p][k] # reg[p][k]
    <2>1. p = d /\ k = e.key /\ reg'[p][k] = e /\ e \in log'[p]
      BY <1>3 DEF TypeOK, AppendEntry, ApplyRegister
    <2>2. Dominates(vec'[d], e.context) /\ e.counter <= vec'[d][e.device]
      BY VectorsAfterAppend DEF Dominates
    <2> QED
      BY <1>1, <2>1, <2>2, CausalVersionFacts DEF TypeOK
  <1> QED
    BY <1>2, <1>3

\* A local write keeps the invariant: its counter is new, and its context is
\* the causally closed vector of its author (LocalLog.AppendLocal).
LEMMA AppendLocalKeepsInv ==
  ASSUME Inv, NEW d \in Devices, NEW k \in Keys, NEW op \in {"set", "delete"},
         NEW ts \in Times, NEW c \in Counters(d), AppendLocal(d, k, op, ts, c)
  PROVE  Inv'
  <1> DEFINE e == NewEntry(d, k, op, ts, c)
  <1>0. TypeOK /\ DotsAreUnique /\ NothingFromTheFuture /\ CausallyClosed /\ VectorCoversHeld
    BY DEF Inv
  <1>1. /\ e \in Entry /\ e.device = d /\ e.counter = c /\ e.context = vec[d]
        /\ c \in Nat /\ c > vec[d][d] /\ vec[d] \in Vector
    <2>1. vec[d] \in Vector /\ vec[d][d] \in Nat /\ MaxCounter[d] \in Nat
      BY <1>0, CountersAreBounded DEF TypeOK, Vector
    <2>2. c \in Nat \ {0} /\ c > vec[d][d]
      BY <2>1 DEF Counters
    <2>3. ts \in Nat
      BY TimesAreNumbers
    <2> QED
      BY <2>1, <2>2, <2>3 DEF NewEntry, Entry
  <1>2. AppendEntry(d, e)
    BY DEF AppendLocal
  <1> HIDE DEF e
  <1>3. TypeOK' /\ VectorCoversHeld' /\ Issued' = Issued \cup {e}
    BY <1>0, <1>1, <1>2, AppendEntryTypes, HeldAfterAppend, IssuedAfterAppend
  <1>4. /\ \A p, a \in Devices : /\ vec[p][a] \in Nat /\ vec'[p][a] \in Nat
                                 /\ vec[p][a] <= vec'[p][a]
        /\ \A p \in Devices : p # d => vec'[p] = vec[p]
        /\ \A a \in Devices : a # d => vec'[d][a] = vec[d][a]
        /\ vec'[d][d] = c
    BY <1>0, <1>1, <1>2, VectorsAfterAppend
  <1>5. \A f \in Issued : /\ f.device \in Devices /\ f.counter \in Nat
                          /\ \A a \in Devices : f.context[a] \in Nat
    BY <1>0, IssuedAreEntries
  <1>6. DotsAreUnique'
    BY <1>0, <1>1, <1>3, <1>4, <1>5 DEF DotsAreUnique, NothingFromTheFuture
  <1>7. NothingFromTheFuture'
    BY <1>0, <1>1, <1>3, <1>4, <1>5 DEF NothingFromTheFuture
  <1>8. CausallyClosed'
    <2>1. \A f, g \in Issued' :
            f.counter <= g.context[f.device] => Dominates(g.context, f.context)
      BY <1>0, <1>1, <1>3, <1>4, <1>5 DEF CausallyClosed, NothingFromTheFuture
    <2>2. \A f \in Issued', p \in Devices :
            f.counter <= vec'[p][f.device] => Dominates(vec'[p], f.context)
      <3> SUFFICES ASSUME NEW f \in Issued', NEW p \in Devices,
                          f.counter <= vec'[p][f.device]
                   PROVE  Dominates(vec'[p], f.context)
        OBVIOUS
      <3>1. CASE f = e
        BY <3>1, <1>0, <1>1, <1>4 DEF Dominates, NothingFromTheFuture
      <3>2. CASE f \in Issued
        <4>1. f.counter <= vec[p][f.device]
          BY <3>2, <1>0, <1>4, <1>5 DEF NothingFromTheFuture
        <4> QED
          BY <3>2, <4>1, <1>0, <1>4, <1>5 DEF CausallyClosed, Dominates
      <3> QED
        BY <1>3, <3>1, <3>2
    <2> QED
      BY <2>1, <2>2 DEF CausallyClosed
  <1> QED
    BY <1>3, <1>6, <1>7, <1>8 DEF Inv

\* Merging an entry that some device wrote keeps the invariant: closure of the
\* entry's context makes the merged vector closed again (LocalLog.Append).
LEMMA AppendKeepsInv ==
  ASSUME Inv, NEW d \in Devices, NEW e \in Issued, Append(d, e)
  PROVE  Inv'
  <1>0. TypeOK /\ DotsAreUnique /\ NothingFromTheFuture /\ CausallyClosed /\ VectorCoversHeld
    BY DEF Inv
  <1>1. e \in Entry /\ AppendEntry(d, e)
    BY <1>0, IssuedAreEntries DEF Append
  <1>2. TypeOK' /\ VectorCoversHeld' /\ Issued' = Issued
    BY <1>0, <1>1, AppendEntryTypes, HeldAfterAppend, IssuedAfterAppend
  <1>3. /\ \A p, a \in Devices : /\ vec[p][a] \in Nat /\ vec'[p][a] \in Nat
                                 /\ vec[p][a] <= vec'[p][a]
        /\ \A p \in Devices : p # d => vec'[p] = vec[p]
        /\ \A a \in Devices : \/ vec'[d][a] = vec[d][a]
                              \/ vec'[d][a] = e.context[a]
                              \/ a = e.device /\ vec'[d][a] = e.counter
        /\ \A a \in Devices : e.context[a] <= vec'[d][a]
    BY <1>0, <1>1, VectorsAfterAppend
  <1>4. \A f \in Issued : /\ f.device \in Devices /\ f.counter \in Nat
                          /\ \A a \in Devices : f.context[a] \in Nat
    BY <1>0, IssuedAreEntries
  <1>5. DotsAreUnique'
    BY <1>0, <1>2 DEF DotsAreUnique
  <1>6. NothingFromTheFuture'
    <2>1. \A a \in Devices : vec'[a][a] = vec[a][a]
      BY <1>0, <1>3, <1>4 DEF NothingFromTheFuture
    <2> QED
      BY <1>0, <1>2, <1>3, <1>4, <2>1 DEF NothingFromTheFuture
  <1>7. \A f \in Issued, p \in Devices :
          f.counter <= vec'[p][f.device] => Dominates(vec'[p], f.context)
    <2> SUFFICES ASSUME NEW f \in Issued, NEW p \in Devices,
                        f.counter <= vec'[p][f.device]
                 PROVE  Dominates(vec'[p], f.context)
      OBVIOUS
    <2>1. CASE f.counter <= vec[p][f.device]
      BY <2>1, <1>0, <1>3, <1>4 DEF CausallyClosed, Dominates
    <2>2. CASE p = d /\ f.counter <= e.context[f.device]
      BY <2>2, <1>0, <1>3, <1>4 DEF CausallyClosed, Dominates
    <2>3. CASE p = d /\ f.device = e.device /\ f.counter <= e.counter
      <3>1. CASE f = e
        BY <2>3, <3>1, <1>3 DEF Dominates
      <3>2. CASE f # e
        <4>1. f.counter <= e.context[f.device]
          BY <2>3, <3>2, <1>0, <1>4 DEF DotsAreUnique
        <4> QED
          BY <4>1, <2>3, <2>2
      <3> QED
        BY <3>1, <3>2
    <2> QED
      BY <2>1, <2>2, <2>3, <1>3, <1>4
  <1>8. CausallyClosed'
    BY <1>0, <1>2, <1>7 DEF CausallyClosed
  <1> QED
    BY <1>2, <1>5, <1>6, <1>8 DEF Inv

\* Empty logs and snapshots satisfy the invariant (NewLocalLog).
LEMMA InitInv ==
  ASSUME Init
  PROVE  Inv
  BY DEF Init, Inv, TypeOK, DotsAreUnique, NothingFromTheFuture, CausallyClosed,
         VectorCoversHeld, Issued, EmptyVector, Vector

\* A step that leaves logs and snapshots alone keeps the invariant.
LEMMA StutterKeepsInv ==
  ASSUME Inv, UNCHANGED vars
  PROVE  Inv'
  <1>1. log' = log /\ reg' = reg /\ vec' = vec /\ Issued' = Issued
    BY DEF vars, Issued
  <1> QED
    BY <1>1 DEF Inv, TypeOK, DotsAreUnique, NothingFromTheFuture, CausallyClosed,
                VectorCoversHeld

\* Inv is an invariant: dots are unique, vectors and contexts are causally
\* closed and claim no future write, and a snapshot's vector covers what it
\* holds, for every set of devices and keys and all clocks.
THEOREM Invariance == Spec => []Inv
  <1>1. Init => Inv
    BY InitInv
  <1>2. Inv /\ [Next]_vars => Inv'
    <2>1. ASSUME Inv, Next PROVE Inv'
      BY <2>1, AppendLocalKeepsInv, AppendKeepsInv DEF Next
    <2>2. ASSUME Inv, UNCHANGED vars PROVE Inv'
      BY <2>2, StutterKeepsInv
    <2> QED
      BY <2>1, <2>2
  <1> QED
    BY <1>1, <1>2, PTL DEF Spec

-----------------------------------------------------------------------------
(* What follows from the invariant. *)

\* In every state of the invariant compareCausal decides happens-before.
LEMMA InvImpliesExact ==
  ASSUME Inv
  PROVE  CausalityIsExact
  <1> SUFFICES ASSUME NEW e \in Issued, NEW f \in Issued, e # f
               PROVE  HappenedAfter(e, f) <=> f.counter <= e.context[f.device]
    BY DEF CausalityIsExact
  <1>1. DotsAreUnique /\ NothingFromTheFuture /\ CausallyClosed
    BY DEF Inv
  <1>2. /\ e \in Entry /\ e.device \in Devices /\ e.counter \in Nat
        /\ e.context \in Vector /\ \A a \in Devices : e.context[a] \in Nat
        /\ f \in Entry /\ f.device \in Devices /\ f.counter \in Nat
        /\ f.context \in Vector /\ \A a \in Devices : f.context[a] \in Nat
    BY IssuedAreEntries DEF Inv
  <1>3. /\ \A a \in Devices : CausalVersion(e)[a] \in Nat /\ e.context[a] <= CausalVersion(e)[a]
        /\ \A a \in Devices : \/ CausalVersion(e)[a] = e.context[a]
                              \/ a = e.device /\ CausalVersion(e)[a] = e.counter
        /\ CausalVersion(e) \in Vector
    BY <1>2, CausalVersionBounds
  <1>4. /\ \A a \in Devices : CausalVersion(f)[a] \in Nat
        /\ \A a \in Devices : \/ CausalVersion(f)[a] = f.context[a]
                              \/ a = f.device /\ CausalVersion(f)[a] = f.counter
        /\ CausalVersion(f) \in Vector
    BY <1>2, CausalVersionBounds
  <1>5. /\ Dominates(CausalVersion(e), CausalVersion(f)) <=>
             Dominates(CausalVersion(e), f.context) /\ f.counter <= CausalVersion(e)[f.device]
        /\ Dominates(CausalVersion(f), CausalVersion(e)) <=>
             Dominates(CausalVersion(f), e.context) /\ e.counter <= CausalVersion(f)[e.device]
    BY <1>2, <1>3, <1>4, CausalVersionFacts
  <1>6. ASSUME HappenedAfter(e, f) PROVE f.counter <= e.context[f.device]
    <2>1. f.counter <= CausalVersion(e)[f.device]
      BY <1>5, <1>6 DEF HappenedAfter
    <2> QED
      BY <1>1, <1>2, <1>3, <2>1 DEF DotsAreUnique
  <1>7. ASSUME f.counter <= e.context[f.device] PROVE HappenedAfter(e, f)
    <2>1. Dominates(CausalVersion(e), CausalVersion(f))
      <3>1. Dominates(e.context, f.context)
        BY <1>1, <1>7 DEF CausallyClosed
      <3>2. Dominates(CausalVersion(e), f.context)
        <4> SUFFICES ASSUME NEW a \in Devices PROVE f.context[a] <= CausalVersion(e)[a]
          BY DEF Dominates
        <4>1. f.context[a] <= e.context[a]
          BY <3>1 DEF Dominates
        <4>2. /\ f.context[a] \in Nat /\ e.context[a] \in Nat /\ CausalVersion(e)[a] \in Nat
              /\ e.context[a] <= CausalVersion(e)[a]
          BY <1>2, <1>3
        <4> QED
          BY <4>1, <4>2
      <3>3. f.counter <= CausalVersion(e)[f.device]
        BY <1>2, <1>3, <1>7
      <3> QED
        BY <1>5, <3>2, <3>3
    <2>2. ~ (e.counter <= f.context[e.device])
      BY <1>1, <1>2, <1>7 DEF CausallyClosed, Dominates, NothingFromTheFuture
    <2>3. ~ (e.device = f.device /\ e.counter <= f.counter)
      BY <1>1, <1>2, <1>7 DEF NothingFromTheFuture
    <2>4. ~ (e.counter <= CausalVersion(f)[e.device])
      BY <1>2, <1>4, <2>2, <2>3
    <2> QED
      BY <2>1, <2>4, <1>5 DEF HappenedAfter
  <1> QED
    BY <1>6, <1>7

\* The types of the replicas' state never change, whatever they merge.
THEOREM TypeCorrectness == Spec => []TypeOK
  <1>1. Inv => TypeOK
    BY DEF Inv
  <1> QED
    BY <1>1, Invariance, PTL

\* No device issues the same dot twice.
THEOREM UniqueDots == Spec => []DotsAreUnique
  <1>1. Inv => DotsAreUnique
    BY DEF Inv
  <1> QED
    BY <1>1, Invariance, PTL

\* Vectors and causal contexts are always causally closed.
THEOREM CausalClosure == Spec => []CausallyClosed
  <1>1. Inv => CausallyClosed
    BY DEF Inv
  <1> QED
    BY <1>1, Invariance, PTL

\* No summary ever claims a write that its author has not made.
THEOREM NoFuture == Spec => []NothingFromTheFuture
  <1>1. Inv => NothingFromTheFuture
    BY DEF Inv
  <1> QED
    BY <1>1, Invariance, PTL

\* A snapshot's vector covers everything the snapshot holds.
THEOREM HeldIsCovered == Spec => []VectorCoversHeld
  <1>1. Inv => VectorCoversHeld
    BY DEF Inv
  <1> QED
    BY <1>1, Invariance, PTL

\* compareCausal decides happens-before exactly, in every reachable state.
THEOREM ExactCausality == Spec => []CausalityIsExact
  <1>1. Inv => CausalityIsExact
    BY InvImpliesExact
  <1> QED
    BY <1>1, Invariance, PTL

\* A local write always wins in its author's own snapshot.
THEOREM OwnWritesAreRead == Spec => ReadYourWrites
  <1>1. ASSUME Inv, Inv', [Next]_vars
        PROVE  \A e \in Issued' \ Issued : reg'[e.device][e.key] = e
    <2> SUFFICES ASSUME NEW e \in Issued' \ Issued
                 PROVE  reg'[e.device][e.key] = e
      OBVIOUS
    <2>0. TypeOK /\ VectorCoversHeld
      BY <1>1 DEF Inv
    <2>1. ~ UNCHANGED vars
      BY DEF vars, Issued
    <2>2. ASSUME NEW d \in Devices, NEW f \in Issued, Append(d, f)
          PROVE  FALSE
      BY <2>0, <2>2, IssuedAreEntries, IssuedAfterAppend DEF Append
    <2>a. PICK d \in Devices :
            \E k \in Keys, op \in {"set", "delete"}, ts \in Times, c \in Counters(d) :
              AppendLocal(d, k, op, ts, c)
      BY <1>1, <2>1, <2>2 DEF Next
    <2>3. PICK k \in Keys, op \in {"set", "delete"}, ts \in Times, c \in Counters(d) :
            AppendLocal(d, k, op, ts, c)
      BY <2>a
    <2> DEFINE w == NewEntry(d, k, op, ts, c)
    <2>4. w \in Entry /\ w.device = d /\ w.key = k /\ w.context = vec[d] /\ vec[d] \in Vector
      <3>1. vec[d] \in Vector /\ vec[d][d] \in Nat /\ MaxCounter[d] \in Nat
        BY <2>0, CountersAreBounded DEF TypeOK, Vector
      <3>2. c \in Nat \ {0}
        BY <3>1 DEF Counters
      <3> QED
        BY <3>1, <3>2, TimesAreNumbers DEF NewEntry, Entry
    <2>5. AppendEntry(d, w)
      BY <2>3 DEF AppendLocal
    <2> HIDE DEF w
    <2>6. w = e /\ w \in Issued' /\ Issued \subseteq Issued'
      BY <2>0, <2>4, <2>5, IssuedAfterAppend
    <2>7. reg'[d][k] = ApplyRegister(reg[d][k], w)
      BY <2>0, <2>4, <2>5 DEF TypeOK, AppendEntry
    <2>8. CASE reg[d][k] = NoEntry
      BY <2>4, <2>6, <2>7, <2>8 DEF ApplyRegister
    <2>9. CASE reg[d][k] # NoEntry
      <3> DEFINE r == reg[d][k]
      <3>1. r \in Issued /\ r \in Entry /\ Dominates(vec[d], CausalVersion(r))
        BY <2>0, <2>9 DEF VectorCoversHeld, Issued, TypeOK
      <3>2. r.counter <= w.context[r.device]
        BY <2>4, <3>1, CausalVersionFacts
      <3>3. CausalityIsExact'
        BY <1>1, InvImpliesExact, PTL
      <3>4. HappenedAfter(w, r)
        BY <2>6, <3>1, <3>2, <3>3 DEF CausalityIsExact
      <3> QED
        BY <2>4, <2>6, <2>7, <3>4 DEF ApplyRegister, Beats
    <2> QED
      BY <2>8, <2>9
  <1> QED
    BY <1>1, Invariance, PTL DEF Spec, ReadYourWrites
=============================================================================
