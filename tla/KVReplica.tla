----------------------------- MODULE KVReplica -----------------------------
(***************************************************************************)
(* What the KV store promises, with the transport abstracted away: every   *)
(* device holds one snapshot of a namespace, writes to it, and merges      *)
(* entries that some device wrote, in any order and any number of times.   *)
(* Each step is one critical section of LocalLog.mu.  KVSync implements    *)
(* this specification.                                                     *)
(***************************************************************************)
EXTENDS KVCausal

CONSTANTS MaxCounter,  \* bound: MaxCounter[d] is the largest counter d assigns
          Times        \* the Unix seconds a device's clock can show

ASSUME CountersAreBounded == MaxCounter \in [Devices -> Nat]

ASSUME TimesAreNumbers == Times \subseteq Nat

VARIABLES
  log,  \* log[d]: the entries in d's kv-ops.jsonl
  reg,  \* reg[d][k]: the entry d's cached snapshot holds for k, or NoEntry
  vec   \* vec[d]: the vector of d's cached snapshot

vars == <<log, reg, vec>>

\* Every write any device has made: a write is in its author's log.
Issued == UNION {log[d] : d \in Devices}

Init ==
  /\ log = [d \in Devices |-> {}]
  /\ reg = [d \in Devices |-> [k \in Keys |-> NoEntry]]
  /\ vec = [d \in Devices |-> EmptyVector]

\* appendToFile, then buildSnapshot(cache, {e}), on device d.
AppendEntry(d, e) ==
  /\ log' = [log EXCEPT ![d] = @ \cup {e}]
  /\ reg' = [reg EXCEPT ![d][e.key] = ApplyRegister(@, e)]
  /\ vec' = [vec EXCEPT ![d] = ApplyVector(@, e)]

\* Mutant of NewEntry: the context is read before an earlier write of the
\* same device reached the snapshot, so it misses the device's own counter.
NewEntryStaleContext(d, k, op, ts, counter) ==
  [op |-> op, key |-> k, device |-> d, counter |-> counter, ts |-> ts,
   context |-> [vec[d] EXCEPT ![d] = 0]]

\* The entry AppendLocal completes: the device, a counter above every one it
\* has used, and the vector of the cached snapshot as causal context.
NewEntry(d, k, op, ts, counter) ==
  [op |-> op, key |-> k, device |-> d, counter |-> counter, ts |-> ts,
   context |-> vec[d]]

\* Mutant of Counters: the counter restarts after the device's writes were
\* all superseded by other devices.
CountersFromHeld(d) ==
  {c \in 1 .. MaxCounter[d] :
     \A e \in Held(reg[d]) : e.device = d => c > e.counter}

\* Mutant of Counters: the counter is the sequence number before it is
\* incremented.
CountersFromLast(d) == vec[d][d] .. MaxCounter[d]

\* The counters the device may assign next.  A failed append uses one up.
Counters(d) == (vec[d][d] + 1) .. MaxCounter[d]

AppendLocal(d, k, op, ts, counter) ==
  AppendEntry(d, NewEntry(d, k, op, ts, counter))

\* LocalLog.Append of an entry that reached d from another device.
Append(d, e) == AppendEntry(d, e)

Next ==
  \E d \in Devices :
    \/ \E k \in Keys, op \in {"set", "delete"}, ts \in Times, c \in Counters(d) :
         AppendLocal(d, k, op, ts, c)
    \/ \E e \in Issued : Append(d, e)

Spec == Init /\ [][Next]_vars

-----------------------------------------------------------------------------
TypeOK ==
  /\ log \in [Devices -> SUBSET Entry]
  /\ reg \in [Devices -> [Keys -> Entry \cup {NoEntry}]]
  /\ vec \in [Devices -> Vector]

\* No two writes of a device share a counter, and a later one has the earlier
\* one in its causal context: counters never go backwards, whatever order the
\* device's own writes come back to it in (LocalLog.AppendLocal, seq).
DotsAreUnique ==
  \A e, f \in Issued :
    e.device = f.device =>
      /\ e.counter = f.counter => e = f
      /\ f.counter < e.counter => f.counter <= e.context[e.device]

\* A vector never claims a write its author has not made yet: the author's own
\* component is the largest anywhere, in snapshots and in causal contexts.
\* Otherwise DeltaSince would withhold the write when it is made.
NothingFromTheFuture ==
  /\ \A d, a \in Devices : vec[d][a] <= vec[a][a]
  /\ \A e \in Issued :
       /\ e.counter <= vec[e.device][e.device]
       /\ e.context[e.device] < e.counter
       /\ \A a \in Devices : e.context[a] <= vec[a][a]

\* Vectors and causal contexts are causally closed: one that covers the dot of
\* a write also covers everything its author had seen when writing it.
CausallyClosed ==
  \A f \in Issued :
    /\ \A e \in Issued :
         f.counter <= e.context[f.device] => Dominates(e.context, f.context)
    /\ \A d \in Devices :
         f.counter <= vec[d][f.device] => Dominates(vec[d], f.context)

\* What a snapshot holds was written by a device, for that key, and is covered
\* by the snapshot's own vector (the summary sent to peers).
VectorCoversHeld ==
  \A d \in Devices, k \in Keys :
    reg[d][k] # NoEntry =>
      /\ reg[d][k] \in log[d]
      /\ reg[d][k].key = k
      /\ Dominates(vec[d], CausalVersion(reg[d][k]))

\* compareCausal is exact: of two writes, one happened after the other just
\* when its author had the other's dot in its vector.
CausalityIsExact ==
  \A e, f \in Issued :
    e # f => (HappenedAfter(e, f) <=> f.counter <= e.context[f.device])

\* A device reads its own write back at once, however its clock compares with
\* the clocks of the devices whose writes it has merged (Store.Set, Store.Get).
ReadYourWrites ==
  [][\A e \in Issued' \ Issued : reg'[e.device][e.key] = e]_vars

\* The inductive invariant behind these properties.
Inv ==
  /\ TypeOK
  /\ DotsAreUnique
  /\ NothingFromTheFuture
  /\ CausallyClosed
  /\ VectorCoversHeld

\* "Processing order is irrelevant (commutative)" (buildSnapshot): two devices
\* with the same entries in their logs hold the same snapshot.
OrderIsIrrelevant ==
  \A d, p \in Devices : log[d] = log[p] => reg[d] = reg[p] /\ vec[d] = vec[p]
=============================================================================
