---------------------------- MODULE KVSyncProofs ----------------------------
(***************************************************************************)
(* The anti-entropy protocol implements the replicas of KVReplica, for any *)
(* devices, keys, links and faults: messages, merges that other steps      *)
(* interrupt, failed appends and restarts never append anything but        *)
(* entries that some device wrote, and never make a device issue a counter *)
(* twice.  KVReplicaProofs supplies what holds of the replicas.            *)
(***************************************************************************)
EXTENDS KVSync, TLAPS

RP == INSTANCE KVReplicaProofs WITH Times <- Seconds

\* The inductive invariant.
SyncInv ==
  /\ TypeOK
  /\ RP!Inv
  /\ EntriesAreIssued
  /\ LastOwnWriteIsLogged
  /\ SummariesAreStale

-----------------------------------------------------------------------------
(* The instance. *)

\* The assumptions of KVReplica hold of the instance.
LEMMA ReplicaAssumptions ==
  /\ Seconds \subseteq Nat
  /\ MaxCounter \in [Devices -> Nat]
  /\ NoEntry \notin RP!Entry
  /\ Devices \subseteq Nat
  BY DevicesAreNumbered, NoEntryIsNoEntry, CountersAreBounded, WritesAreWrites
     DEF Seconds, Entry, Vector, RP!Entry, RP!Vector

\* The data types are the same on both sides.
LEMMA SameTypes ==
  /\ RP!Entry = Entry
  /\ RP!Vector = Vector
  /\ RP!Issued = Replica!Issued
  /\ Replica!Issued = UNION {log[d] : d \in Devices}
  /\ \A v, w \in Vector : RP!Dominates(v, w) <=> Dominates(v, w)
  BY DEF Entry, Vector, Dominates, RP!Entry, RP!Vector, RP!Dominates, RP!Issued,
         Replica!Issued

\* LocalLog.Append is the same step on both sides.
LEMMA SameAppend ==
  ASSUME NEW d \in Devices, NEW e, AppendEntry(d, e)
  PROVE  RP!AppendEntry(d, e) /\ Replica!AppendEntry(d, e)
  BY DEF AppendEntry, ApplyRegister, ApplyVector, Beats, ClockBeats, HappenedAfter,
         CausalVersion, Dominates, Observe, Merge,
         RP!AppendEntry, RP!ApplyRegister, RP!ApplyVector, RP!Beats, RP!ClockBeats,
         RP!HappenedAfter, RP!CausalVersion, RP!Dominates, RP!Observe, RP!Merge,
         Replica!AppendEntry, Replica!ApplyRegister, Replica!ApplyVector,
         Replica!Beats, Replica!ClockBeats, Replica!HappenedAfter,
         Replica!CausalVersion, Replica!Dominates, Replica!Observe, Replica!Merge

\* Types of the replicas' state.
LEMMA ReplicaTypes ==
  ASSUME RP!Inv
  PROVE  /\ RP!TypeOK
         /\ log \in [Devices -> SUBSET Entry]
         /\ reg \in [Devices -> [Keys -> Entry \cup {NoEntry}]]
         /\ vec \in [Devices -> Vector]
         /\ \A d, a \in Devices : vec[d] \in Vector /\ vec[d][a] \in Nat
  BY SameTypes DEF RP!Inv, RP!TypeOK, Vector

\* What an append on d does to the vectors and to what has been issued.
LEMMA AppendFacts ==
  ASSUME RP!Inv, NEW d \in Devices, NEW e \in Entry, AppendEntry(d, e)
  PROVE  /\ \A p \in Devices : Dominates(vec'[p], vec[p])
         /\ \A p \in Devices : p # d => vec'[p] = vec[p]
         /\ \A a \in Devices : \/ vec'[d][a] = vec[d][a]
                               \/ vec'[d][a] = e.context[a]
                               \/ a = e.device /\ vec'[d][a] = e.counter
         /\ e.counter <= vec'[d][e.device]
         /\ \A p \in Devices : log'[p] = IF p = d THEN log[d] \cup {e} ELSE log[p]
         /\ Replica!Issued' = Replica!Issued \cup {e}
         /\ vec' \in [Devices -> Vector]
         /\ log' \in [Devices -> SUBSET Entry]
         /\ reg' \in [Devices -> [Keys -> Entry \cup {NoEntry}]]
  <1>1. RP!AppendEntry(d, e) /\ RP!TypeOK /\ e \in RP!Entry
    BY SameAppend, SameTypes, ReplicaTypes
  <1>2. RP!TypeOK'
    BY <1>1, ReplicaAssumptions, RP!AppendEntryTypes DEF RP!AppendEntryTypes
  <1>3. /\ vec' \in [Devices -> Vector]
        /\ log' \in [Devices -> SUBSET Entry]
        /\ reg' \in [Devices -> [Keys -> Entry \cup {NoEntry}]]
    BY <1>2, SameTypes DEF RP!TypeOK
  <1>4. /\ \A p, a \in Devices : vec[p][a] <= vec'[p][a]
        /\ \A p, a \in Devices : p # d => vec'[p] = vec[p]
        /\ \A a \in Devices : \/ vec'[d][a] = vec[d][a]
                              \/ vec'[d][a] = e.context[a]
                              \/ a = e.device /\ vec'[d][a] = e.counter
        /\ e.counter <= vec'[d][e.device]
    BY <1>1, ReplicaAssumptions, RP!VectorsAfterAppend DEF RP!VectorsAfterAppend
  <1>5. \A p \in Devices : log'[p] = IF p = d THEN log[d] \cup {e} ELSE log[p]
    BY ReplicaTypes DEF AppendEntry
  <1>6. Replica!Issued' = Replica!Issued \cup {e}
    BY <1>5 DEF Replica!Issued
  <1> QED
    BY <1>3, <1>4, <1>5, <1>6 DEF Dominates

\* Merging an entry that some device wrote is a step of KVReplica.
LEMMA MergeIsReplicaStep ==
  ASSUME RP!Inv, NEW d \in Devices, NEW e \in Replica!Issued, AppendEntry(d, e)
  PROVE  RP!Inv' /\ Replica!Next
  <1>1. RP!Append(d, e) /\ Replica!Append(d, e)
    BY SameAppend DEF RP!Append, Replica!Append
  <1>2. RP!Inv'
    BY <1>1, SameTypes, ReplicaAssumptions, RP!AppendKeepsInv DEF RP!AppendKeepsInv
  <1> QED
    BY <1>1, <1>2 DEF Replica!Next

\* A local write is a step of KVReplica: its counter is above every counter the
\* device has used.
LEMMA WriteIsReplicaStep ==
  ASSUME RP!Inv, LastOwnWriteIsLogged, NEW d \in Devices, NEW k \in Keys,
         NEW op \in {"set", "delete"}, NEW ts \in Seconds,
         seq[d] \in Nat, seq[d] < MaxCounter[d],
         AppendEntry(d, [op |-> op, key |-> k, device |-> d, counter |-> seq[d] + 1,
                         ts |-> ts, context |-> vec[d]])
  PROVE  RP!Inv' /\ Replica!Next
  <1> DEFINE c == seq[d] + 1
  <1>1. c \in RP!Counters(d) /\ c \in Replica!Counters(d)
    BY ReplicaTypes, CountersAreBounded
       DEF LastOwnWriteIsLogged, RP!Counters, Replica!Counters
  <1>2. RP!AppendLocal(d, k, op, ts, c) /\ Replica!AppendLocal(d, k, op, ts, c)
    BY SameAppend DEF RP!AppendLocal, Replica!AppendLocal, RP!NewEntry, Replica!NewEntry
  <1> HIDE DEF c
  <1>3. RP!Inv'
    BY <1>1, <1>2, ReplicaAssumptions, RP!AppendLocalKeepsInv DEF RP!AppendLocalKeepsInv
  <1>4. Replica!Next
    BY <1>1, <1>2 DEF Replica!Next
  <1> QED
    BY <1>3, <1>4

\* A step that leaves logs and snapshots alone keeps what holds of the replicas.
LEMMA QuietStep ==
  ASSUME RP!Inv, UNCHANGED <<log, reg, vec>>
  PROVE  RP!Inv' /\ Replica!Issued' = Replica!Issued
  <1>1. UNCHANGED RP!vars
    BY DEF RP!vars
  <1> QED
    BY <1>1, ReplicaAssumptions, RP!StutterKeepsInv DEF RP!StutterKeepsInv, Replica!Issued

-----------------------------------------------------------------------------
(* Steps that leave the logs alone. *)

\* PushToAll keeps the types of the push loop's state.
LEMMA PushToAllTypes ==
  ASSUME TypeOK, NEW d \in Devices, PushToAll(d)
  PROVE  /\ push' \in [Devices -> {"idle", "running", "pending"}]
         /\ exchange' = [q \in Devices |-> exchange'[q]]
         /\ \A q \in Devices : exchange'[q] \in [Peers(q) -> {"todo", "asked", "done"}]
  <1>1. CASE UNCHANGED exchange
    BY <1>1 DEF TypeOK, PushToAll, pushVars
  <1>2. CASE /\ push' = [push EXCEPT ![d] = "running"]
             /\ exchange' = [exchange EXCEPT ![d] = [p \in Peers(d) |-> "todo"]]
    BY <1>2 DEF TypeOK
  <1> QED
    BY <1>1, <1>2 DEF PushToAll, pushVars

\* What a snapshot holds is in a log (VectorCoversHeld), so a delta is, too.
LEMMA DeltasAreIssued ==
  ASSUME RP!Inv, NEW d \in Devices, NEW v \in Vector
  PROVE  /\ DeltaSince(reg[d], v) \subseteq Replica!Issued
         /\ DeltaSince(reg[d], v) \subseteq Entry
  <1>1. \A k \in Keys : reg[d][k] # NoEntry => reg[d][k] \in log[d]
    BY DEF RP!Inv, RP!VectorCoversHeld
  <1>2. log[d] \subseteq Replica!Issued /\ log[d] \subseteq Entry
    BY ReplicaTypes, SameTypes
  <1> QED
    BY <1>1, <1>2 DEF DeltaSince, Held

\* A message that SyncInv allows on the wire.
Fit(m) ==
  /\ m \in Summary \cup Answer \cup Delta
  /\ m.type = "delta" => m.entries \subseteq Replica!Issued
  /\ m.type # "delta" => Dominates(vec[m.from], m.vector)

\* sendSnapshotMessage sends deltas of issued entries.
LEMMA DeltasFit ==
  ASSUME NEW d \in Devices, NEW E \in SUBSET Entry, E \subseteq Replica!Issued
  PROVE  \A m \in DeltaTo(d, E) : Fit(m)
  BY DEF DeltaTo, Fit, Delta

\* A step that leaves logs and snapshots alone keeps SyncInv when it puts only
\* fit messages on the wire and starts only merges of issued entries.
LEMMA NetworkStep ==
  ASSUME SyncInv, UNCHANGED logVars,
         push' \in [Devices -> {"idle", "running", "pending"}],
         exchange' = [d \in Devices |-> exchange'[d]],
         \A d \in Devices : exchange'[d] \in [Peers(d) -> {"todo", "asked", "done"}],
         faults' \in Nat, skipped' \in BOOLEAN,
         merging' \in [Devices -> SUBSET [left : SUBSET Entry, merged : BOOLEAN]],
         \A d \in Devices : \A j \in merging'[d] : j.left \subseteq Replica!Issued,
         \A m \in net' : m \in net \/ Fit(m)
  PROVE  SyncInv'
  <1>1. RP!Inv' /\ Replica!Issued' = Replica!Issued
    BY QuietStep DEF SyncInv, logVars
  <1>2. \A m \in net' : Fit(m)
    BY DEF SyncInv, TypeOK, EntriesAreIssued, SummariesAreStale, Fit
  <1>3. TypeOK'
    BY <1>2 DEF SyncInv, TypeOK, logVars, Fit
  <1>4. EntriesAreIssued'
    BY <1>1, <1>2 DEF EntriesAreIssued, Fit
  <1>5. LastOwnWriteIsLogged'
    BY DEF SyncInv, LastOwnWriteIsLogged, logVars
  <1>6. SummariesAreStale'
    BY <1>2 DEF SummariesAreStale, Fit, logVars
  <1> QED
    BY <1>1, <1>3, <1>4, <1>5, <1>6 DEF SyncInv

\* The push loop's own steps keep SyncInv (runPushLoop, the ticker).
LEMMA RoundsKeepSyncInv ==
  ASSUME SyncInv, NEW d \in Devices, Tick(d) \/ EndRound(d)
  PROVE  SyncInv'
  <1>1. /\ UNCHANGED <<logVars, net, merging, faultVars>>
        /\ push' \in [Devices -> {"idle", "running", "pending"}]
        /\ exchange' = [q \in Devices |-> exchange'[q]]
        /\ \A q \in Devices : exchange'[q] \in [Peers(q) -> {"todo", "asked", "done"}]
    <2>1. CASE Tick(d)
      BY <2>1, PushToAllTypes DEF Tick, SyncInv
    <2>2. CASE EndRound(d)
      <3>1. CASE push[d] = "pending"
        <4>1. /\ push' = [push EXCEPT ![d] = "running"]
              /\ exchange' = [exchange EXCEPT ![d] = [p \in Peers(d) |-> "todo"]]
              /\ UNCHANGED <<logVars, net, merging, faultVars>>
          BY <2>2, <3>1 DEF EndRound
        <4>2. TypeOK
          BY DEF SyncInv
        <4> QED
          BY <4>1, <4>2 DEF TypeOK
      <3>2. CASE push[d] # "pending"
        BY <2>2, <3>2 DEF EndRound, SyncInv, TypeOK
      <3> QED
        BY <3>1, <3>2
    <2> QED
      BY <2>1, <2>2
  <1> QED
    BY <1>1, NetworkStep DEF SyncInv, TypeOK, EntriesAreIssued, faultVars

\* Asking a peer keeps SyncInv: the summary is d's own vector (requestSummary).
LEMMA SendSummaryKeepsSyncInv ==
  ASSUME SyncInv, NEW d \in Devices, NEW p \in Peers(d), SendSummary(d, p)
  PROVE  SyncInv'
  <1> DEFINE s == [type |-> "summary", from |-> d, to |-> p, vector |-> vec[d], open |-> TRUE]
  <1>1. vec[d] \in Vector /\ p \in Devices
    BY DEF SyncInv, TypeOK, Peers
  <1>2. Fit(s)
    BY <1>1 DEF Fit, Summary, Dominates, Vector
  <1>3. /\ exchange' = [q \in Devices |-> exchange'[q]]
        /\ \A q \in Devices : exchange'[q] \in [Peers(q) -> {"todo", "asked", "done"}]
    BY DEF SendSummary, SyncInv, TypeOK
  <1> QED
    BY <1>2, <1>3, NetworkStep DEF SendSummary, SyncInv, TypeOK, EntriesAreIssued, faultVars

\* Answering a summary keeps SyncInv (handleSummary).
LEMMA HandleSummaryKeepsSyncInv ==
  ASSUME SyncInv, NEW m \in net, HandleSummary(m)
  PROVE  SyncInv'
  <1> DEFINE a == [type |-> "answer", from |-> m.to, to |-> m.from, vector |-> AnswerVector(m)]
  <1>1. m \in Summary /\ m.from \in Devices /\ m.to \in Devices /\ m.vector \in Vector
    BY DEF HandleSummary, SyncInv, TypeOK, Summary, Answer, Delta
  <1>2. vec[m.to] \in Vector
    BY <1>1 DEF SyncInv, TypeOK
  <1>3. Fit(a)
    BY <1>1, <1>2 DEF Fit, Answer, AnswerVector, Dominates, Vector
  <1>4. \A x \in DeltaTo(m.from, DeltaSince(reg[m.to], m.vector)) : Fit(x)
    BY <1>1, DeltasAreIssued, DeltasFit DEF SyncInv
  <1>5. \A x \in net' : x \in net \/ Fit(x)
    BY <1>3, <1>4 DEF HandleSummary
  <1> QED
    BY <1>5, NetworkStep
       DEF HandleSummary, SyncInv, TypeOK, EntriesAreIssued, faultVars, pushVars

\* Using an answer keeps SyncInv (syncWithPeer).
LEMMA HandleAnswerKeepsSyncInv ==
  ASSUME SyncInv, NEW m \in net, HandleAnswer(m)
  PROVE  SyncInv'
  <1>1. m.from \in Devices /\ m.to \in Devices /\ m.vector \in Vector
    BY DEF HandleAnswer, SyncInv, TypeOK, Summary, Answer, Delta
  <1>2. \A x \in DeltaTo(m.from, AnswerDelta(m.to, m)) : Fit(x)
    BY <1>1, DeltasAreIssued, DeltasFit DEF SyncInv, AnswerDelta
  <1>3. /\ exchange' = [q \in Devices |-> exchange'[q]]
        /\ \A q \in Devices : exchange'[q] \in [Peers(q) -> {"todo", "asked", "done"}]
    BY <1>1 DEF HandleAnswer, SyncInv, TypeOK
  <1>4. \A x \in net' : x \in net \/ Fit(x)
    BY <1>2 DEF HandleAnswer
  <1> QED
    BY <1>3, <1>4, NetworkStep
       DEF HandleAnswer, SyncInv, TypeOK, EntriesAreIssued, faultVars

\* A summary whose stream was closed is still a fit message.
LEMMA ClosedSummariesFit ==
  ASSUME SyncInv, NEW m \in net, m.type = "summary"
  PROVE  Fit([m EXCEPT !.open = FALSE])
  <1>1. m \in Summary /\ Dominates(vec[m.from], m.vector)
    BY DEF SyncInv, TypeOK, SummariesAreStale, Summary, Answer, Delta
  <1> QED
    BY <1>1 DEF Fit, Summary

\* Giving up on an answer keeps SyncInv (requestSummary's error).
LEMMA GiveUpKeepsSyncInv ==
  ASSUME SyncInv, NEW d \in Devices, NEW p \in Peers(d), GiveUp(d, p)
  PROVE  SyncInv'
  <1>1. /\ exchange' = [q \in Devices |-> exchange'[q]]
        /\ \A q \in Devices : exchange'[q] \in [Peers(q) -> {"todo", "asked", "done"}]
    BY DEF GiveUp, SyncInv, TypeOK
  <1>2. \A x \in net' : x \in net \/ Fit(x)
    BY ClosedSummariesFit DEF GiveUp, StreamClosed, OnStream
  <1>3. faults' \in Nat
    BY DEF GiveUp, Fault, SyncInv, TypeOK
  <1> QED
    BY <1>1, <1>2, <1>3, NetworkStep DEF GiveUp, SyncInv, TypeOK, EntriesAreIssued

\* Losing a message keeps SyncInv.
LEMMA LoseKeepsSyncInv ==
  ASSUME SyncInv, NEW m \in net, Lose(m)
  PROVE  SyncInv'
  <1>1. faults' \in Nat
    BY DEF Lose, Fault, SyncInv, TypeOK
  <1> QED
    BY <1>1, NetworkStep DEF Lose, SyncInv, TypeOK, EntriesAreIssued, pushVars

\* Starting a merge keeps SyncInv: a delta holds issued entries
\* (mergeSnapshotMessage).
LEMMA StartMergeKeepsSyncInv ==
  ASSUME SyncInv, NEW m \in net, StartMerge(m)
  PROVE  SyncInv'
  <1>1. m.to \in Devices /\ m.entries \in SUBSET Entry /\ m.entries \subseteq Replica!Issued
    BY DEF StartMerge, SyncInv, TypeOK, EntriesAreIssued, Summary, Answer, Delta
  <1>2. /\ merging' \in [Devices -> SUBSET [left : SUBSET Entry, merged : BOOLEAN]]
        /\ \A d \in Devices : \A j \in merging'[d] : j.left \subseteq Replica!Issued
    <2> DEFINE job == [left |-> m.entries, merged |-> FALSE]
    <2>1. job \in [left : SUBSET Entry, merged : BOOLEAN] /\ job.left \subseteq Replica!Issued
      BY <1>1
    <2>2. merging' = [merging EXCEPT ![m.to] = @ \cup {job}]
      BY DEF StartMerge
    <2> HIDE DEF job
    <2>3. /\ merging \in [Devices -> SUBSET [left : SUBSET Entry, merged : BOOLEAN]]
          /\ \A d \in Devices : \A j \in merging[d] : j.left \subseteq Replica!Issued
      BY DEF SyncInv, TypeOK, EntriesAreIssued
    <2> QED
      BY <1>1, <2>1, <2>2, <2>3
  <1> QED
    BY <1>2, NetworkStep DEF StartMerge, SyncInv, TypeOK, pushVars, faultVars

\* Moving a merge on keeps the types and merges only what was left.
LEMMA AdvanceMergeFacts ==
  ASSUME SyncInv, NEW d \in Devices, NEW j \in merging[d], NEW e \in j.left,
         NEW b \in BOOLEAN, AdvanceMerge(d, j, e, b)
  PROVE  /\ push' \in [Devices -> {"idle", "running", "pending"}]
         /\ exchange' = [q \in Devices |-> exchange'[q]]
         /\ \A q \in Devices : exchange'[q] \in [Peers(q) -> {"todo", "asked", "done"}]
         /\ merging' \in [Devices -> SUBSET [left : SUBSET Entry, merged : BOOLEAN]]
         /\ \A q \in Devices : \A i \in merging'[q] : i.left \subseteq Replica!Issued
  <1> DEFINE next == [left |-> j.left \ {e}, merged |-> b]
  <1>1. j \in [left : SUBSET Entry, merged : BOOLEAN] /\ j.left \subseteq Replica!Issued
    BY DEF SyncInv, TypeOK, EntriesAreIssued
  <1>2. next \in [left : SUBSET Entry, merged : BOOLEAN] /\ next.left \subseteq Replica!Issued
    BY <1>1
  <1>3. merging' = [merging EXCEPT ![d] = (@ \ {j}) \cup {i \in {next} : i.left # {}}]
    BY DEF AdvanceMerge
  <1>4. PushToAll(d) \/ UNCHANGED pushVars
    BY DEF AdvanceMerge
  <1> HIDE DEF next
  <1>5. /\ merging' \in [Devices -> SUBSET [left : SUBSET Entry, merged : BOOLEAN]]
        /\ \A q \in Devices : \A i \in merging'[q] : i.left \subseteq Replica!Issued
    BY <1>2, <1>3 DEF SyncInv, TypeOK, EntriesAreIssued
  <1>6. /\ push' \in [Devices -> {"idle", "running", "pending"}]
        /\ exchange' = [q \in Devices |-> exchange'[q]]
        /\ \A q \in Devices : exchange'[q] \in [Peers(q) -> {"todo", "asked", "done"}]
    BY <1>4, PushToAllTypes DEF SyncInv, TypeOK, pushVars
  <1> QED
    BY <1>5, <1>6

\* Skipping an entry of a merge keeps SyncInv (diffAndMerge's error path).
LEMMA SkipEntryKeepsSyncInv ==
  ASSUME SyncInv, NEW d \in Devices, NEW j \in merging[d], NEW e \in j.left,
         SkipEntry(d, j, e)
  PROVE  SyncInv'
  <1>1. j.merged \in BOOLEAN /\ AdvanceMerge(d, j, e, j.merged)
    BY DEF SkipEntry, SyncInv, TypeOK
  <1>2. faults' \in Nat /\ skipped' \in BOOLEAN
    BY DEF SkipEntry, Fault, SyncInv, TypeOK
  <1>3. UNCHANGED logVars /\ net' = net
    BY DEF SkipEntry
  <1> QED
    BY <1>1, <1>2, <1>3, AdvanceMergeFacts, NetworkStep

-----------------------------------------------------------------------------
(* Steps that change logs or counters. *)

\* A step that appends e on d keeps SyncInv when it is a step of KVReplica and
\* the counters stay in order.
LEMMA AppendStep ==
  ASSUME SyncInv, NEW d \in Devices, NEW e \in Entry, AppendEntry(d, e), RP!Inv',
         seq' \in [Devices -> Nat],
         push' \in [Devices -> {"idle", "running", "pending"}],
         exchange' = [q \in Devices |-> exchange'[q]],
         \A q \in Devices : exchange'[q] \in [Peers(q) -> {"todo", "asked", "done"}],
         merging' \in [Devices -> SUBSET [left : SUBSET Entry, merged : BOOLEAN]],
         \A q \in Devices : \A i \in merging'[q] : i.left \subseteq Replica!Issued,
         net' = net, UNCHANGED faultVars, LastOwnWriteIsLogged'
  PROVE  SyncInv'
  <1>1. RP!Inv
    BY DEF SyncInv
  <1>2. /\ Replica!Issued \subseteq Replica!Issued'
        /\ \A q \in Devices : Dominates(vec'[q], vec[q])
        /\ log' \in [Devices -> SUBSET Entry]
        /\ reg' \in [Devices -> [Keys -> Entry \cup {NoEntry}]]
        /\ vec' \in [Devices -> Vector]
    BY <1>1, AppendFacts
  <1>3. TypeOK'
    BY <1>2 DEF SyncInv, TypeOK, faultVars
  <1>4. EntriesAreIssued'
    BY <1>2 DEF SyncInv, EntriesAreIssued
  <1>5. SummariesAreStale'
    <2> SUFFICES ASSUME NEW m \in net, m.type # "delta"
                 PROVE  Dominates(vec'[m.from], m.vector)
      BY DEF SummariesAreStale
    <2>1. m.from \in Devices /\ m.vector \in Vector /\ Dominates(vec[m.from], m.vector)
      BY DEF SyncInv, TypeOK, SummariesAreStale, Summary, Answer, Delta
    <2>2. vec[m.from] \in Vector /\ vec'[m.from] \in Vector /\ Dominates(vec'[m.from], vec[m.from])
      BY <1>2, <2>1 DEF SyncInv, TypeOK
    <2> QED
      BY <2>1, <2>2 DEF Dominates, Vector
  <1> QED
    BY <1>3, <1>4, <1>5 DEF SyncInv

\* A local write keeps SyncInv and is a step of KVReplica (Store.Set).
LEMMA WriteKeepsSyncInv ==
  ASSUME SyncInv, NEW d \in Devices, WriteSome(d)
  PROVE  SyncInv' /\ Replica!Next
  <1>0. PICK w \in Writes[d] : Write(d, w.key, w.op, w.ts)
    BY DEF WriteSome
  <1> DEFINE k == w.key op == w.op ts == w.ts
  <1> DEFINE e == [op |-> op, key |-> k, device |-> d, counter |-> seq[d] + 1,
                   ts |-> ts, context |-> vec[d]]
  <1>1. /\ RP!Inv /\ LastOwnWriteIsLogged /\ TypeOK
        /\ seq[d] \in Nat /\ vec[d] \in Vector /\ vec[d][d] \in Nat /\ vec[d][d] <= seq[d]
    BY DEF SyncInv, TypeOK, LastOwnWriteIsLogged, Vector
  <1>2. k \in Keys /\ op \in {"set", "delete"} /\ ts \in Seconds /\ ts \in Nat
    BY WritesAreWrites DEF Seconds
  <1>3. /\ AppendEntry(d, e) /\ seq[d] < MaxCounter[d] /\ PushToAll(d)
        /\ seq' = [seq EXCEPT ![d] = seq[d] + 1]
        /\ UNCHANGED <<net, merging, faultVars>>
    BY <1>0 DEF Write
  <1> HIDE DEF k, op, ts
  <1>4. RP!Inv' /\ Replica!Next
    BY <1>1, <1>2, <1>3, WriteIsReplicaStep
  <1>5. e \in Entry /\ e.device = d /\ e.counter = seq[d] + 1 /\ e.context = vec[d]
    BY <1>1, <1>2 DEF Entry
  <1> HIDE DEF e
  <1>6. seq' \in [Devices -> Nat]
    BY <1>1, <1>3 DEF TypeOK
  <1>7. LastOwnWriteIsLogged'
    <2>0. /\ \A p \in Devices : p # d => vec'[p] = vec[p]
          /\ \/ vec'[d][d] = vec[d][d]
             \/ vec'[d][d] = e.context[d]
             \/ d = e.device /\ vec'[d][d] = e.counter
          /\ e.counter <= vec'[d][e.device]
          /\ \A p \in Devices : log'[p] = IF p = d THEN log[d] \cup {e} ELSE log[p]
      BY ZenonT(60), <1>1, <1>3, <1>5, AppendFacts
    <2>1. /\ \A p \in Devices : p # d => vec'[p] = vec[p]
          /\ vec'[d][d] = vec[d][d] \/ vec'[d][d] = e.counter
          /\ e.counter <= vec'[d][d]
          /\ \A p \in Devices : log'[p] = IF p = d THEN log[d] \cup {e} ELSE log[p]
      BY <1>5, <2>0
    <2>2. vec'[d][d] = seq[d] + 1
      BY <1>1, <1>5, <2>1
    <2>3. log \in [Devices -> SUBSET Entry] /\ seq'[d] = seq[d] + 1
      BY <1>1, <1>3 DEF TypeOK
    <2>4. \A f \in log[d] : f.device = d => f.counter <= vec'[d][d]
      <3>1. \A f \in log[d] : f.counter \in Nat
        BY <2>3 DEF Entry
      <3> QED
        BY <1>1, <2>2, <3>1 DEF LastOwnWriteIsLogged
    <2> QED
      BY SMTT(30), <1>1, <1>3, <1>5, <2>1, <2>2, <2>3, <2>4 DEF LastOwnWriteIsLogged, TypeOK
  <1>8. /\ push' \in [Devices -> {"idle", "running", "pending"}]
        /\ exchange' = [q \in Devices |-> exchange'[q]]
        /\ \A q \in Devices : exchange'[q] \in [Peers(q) -> {"todo", "asked", "done"}]
    BY <1>1, <1>3, PushToAllTypes
  <1>9. SyncInv'
    BY <1>3, <1>4, <1>5, <1>6, <1>7, <1>8, AppendStep DEF SyncInv, TypeOK, EntriesAreIssued
  <1> QED
    BY <1>4, <1>9

\* A failed append keeps SyncInv: the counter it used up is skipped.
LEMMA WriteFailsKeepsSyncInv ==
  ASSUME SyncInv, NEW d \in Devices, WriteFails(d)
  PROVE  SyncInv'
  <1>1. RP!Inv' /\ Replica!Issued' = Replica!Issued
    BY QuietStep DEF WriteFails, SyncInv
  <1>2. seq \in [Devices -> Nat] /\ seq' = [seq EXCEPT ![d] = seq[d] + 1]
    BY DEF WriteFails, SyncInv, TypeOK
  <1>3. TypeOK'
    BY <1>2 DEF WriteFails, Fault, pushVars, SyncInv, TypeOK
  <1>4. EntriesAreIssued'
    BY <1>1 DEF WriteFails, SyncInv, EntriesAreIssued
  <1>5. LastOwnWriteIsLogged'
    <2>1. \A p \in Devices : vec[p][p] \in Nat
      BY DEF SyncInv, TypeOK, Vector
    <2>2. \A p \in Devices : vec[p][p] <= seq'[p]
      BY <1>2, <2>1 DEF SyncInv, LastOwnWriteIsLogged
    <2> QED
      BY <2>2 DEF WriteFails, SyncInv, LastOwnWriteIsLogged
  <1>6. SummariesAreStale'
    BY DEF WriteFails, SyncInv, SummariesAreStale
  <1> QED
    BY <1>1, <1>3, <1>4, <1>5, <1>6 DEF SyncInv

\* Merging one entry keeps SyncInv and is a step of KVReplica: an entry of d's
\* own that comes back is none of the future (diffAndMerge).
LEMMA MergeEntryKeepsSyncInv ==
  ASSUME SyncInv, NEW d \in Devices, NEW j \in merging[d], NEW e \in j.left,
         MergeEntry(d, j, e)
  PROVE  SyncInv' /\ Replica!Next
  <1>1. e \in Replica!Issued /\ RP!Inv /\ TypeOK /\ LastOwnWriteIsLogged
    BY DEF SyncInv, EntriesAreIssued
  <1>2. e \in Entry
    BY <1>1, ReplicaTypes, SameTypes
  <1>3. /\ AppendEntry(d, e) /\ AdvanceMerge(d, j, e, TRUE)
        /\ UNCHANGED <<seq, net, faultVars>>
    BY DEF MergeEntry
  <1>4. RP!Inv' /\ Replica!Next
    BY <1>1, <1>3, MergeIsReplicaStep
  <1>5. LastOwnWriteIsLogged'
    <2>1. /\ \A p \in Devices : p # d => vec'[p] = vec[p]
          /\ \/ vec'[d][d] = vec[d][d]
             \/ vec'[d][d] = e.context[d]
             \/ d = e.device /\ vec'[d][d] = e.counter
          /\ Dominates(vec'[d], vec[d])
          /\ \A p \in Devices : log'[p] = IF p = d THEN log[d] \cup {e} ELSE log[p]
          /\ vec' \in [Devices -> Vector]
      BY ZenonT(60), <1>1, <1>2, <1>3, AppendFacts
    <2>2. e.context[d] <= vec[d][d] /\ (e.device = d => e.counter <= vec[d][d])
      BY <1>1, SameTypes DEF RP!Inv, RP!NothingFromTheFuture
    <2>3. /\ vec[d][d] \in Nat /\ vec'[d][d] \in Nat /\ e.context[d] \in Nat
          /\ e.counter \in Nat /\ vec[d][d] <= vec'[d][d]
      BY <1>1, <1>2, <2>1 DEF TypeOK, Vector, Entry, Dominates
    <2>4. vec'[d][d] = vec[d][d]
      BY <2>1, <2>2, <2>3
    <2> QED
      BY <1>1, <1>3, <2>1, <2>2, <2>4 DEF LastOwnWriteIsLogged
  <1>6. SyncInv'
    BY <1>1, <1>2, <1>3, <1>4, <1>5, AdvanceMergeFacts, AppendStep DEF TypeOK
  <1> QED
    BY <1>4, <1>6

\* The counter a restart finds in the log is the one the vector shows
\* (rebuildLocked).
LEMMA RebuiltSeqIsLast ==
  ASSUME SyncInv, NEW d \in Devices
  PROVE  RebuiltSeq(d) = vec[d][d]
  <1> DEFINE S == {0} \cup {e.counter : e \in {f \in log[d] : f.device = d}}
  <1>1. vec[d][d] \in Nat /\ \A e \in log[d] : e.counter \in Nat
    BY DEF SyncInv, TypeOK, Vector, Entry
  <1>2. vec[d][d] \in S /\ \A y \in S : y \in Nat /\ vec[d][d] >= y
    BY <1>1 DEF SyncInv, LastOwnWriteIsLogged
  <1>3. \A x \in S : (\A y \in S : x >= y) => x = vec[d][d]
    BY <1>1, <1>2
  <1> HIDE DEF S
  <1>4. Max(S) = vec[d][d]
    BY <1>2, <1>3 DEF Max
  <1> QED
    BY <1>4 DEF RebuiltSeq, S

\* A restart keeps SyncInv (NewLocalLog, RegisterProtocol).
LEMMA RestartKeepsSyncInv ==
  ASSUME SyncInv, NEW d \in Devices, Restart(d)
  PROVE  SyncInv'
  <1>1. RP!Inv' /\ Replica!Issued' = Replica!Issued
    BY QuietStep DEF Restart, SyncInv
  <1>2. /\ seq \in [Devices -> Nat] /\ vec[d][d] \in Nat
        /\ seq' = [seq EXCEPT ![d] = vec[d][d]]
    BY RebuiltSeqIsLast DEF Restart, SyncInv, TypeOK, Vector
  <1>3. \A m \in net' : Fit(m)
    <2> SUFFICES ASSUME NEW m \in net
                 PROVE  Fit(IF m.type = "summary" /\ m.from = d THEN [m EXCEPT !.open = FALSE]
                            ELSE m)
      BY DEF Restart
    <2>1. Fit(m)
      BY DEF SyncInv, TypeOK, EntriesAreIssued, SummariesAreStale, Fit
    <2> QED
      BY <2>1, ClosedSummariesFit
  <1>4. /\ push' \in [Devices -> {"idle", "running", "pending"}]
        /\ exchange' = [q \in Devices |-> exchange'[q]]
        /\ \A q \in Devices : exchange'[q] \in [Peers(q) -> {"todo", "asked", "done"}]
    <2>1. TypeOK /\ exchange' = [exchange EXCEPT ![d] = [p \in Peers(d) |-> "todo"]]
      BY DEF Restart, SyncInv
    <2>2. push' \in [Devices -> {"idle", "running", "pending"}]
      BY DEF Restart, SyncInv, TypeOK
    <2> QED
      BY <2>1, <2>2 DEF TypeOK
  <1>5. merging' = [merging EXCEPT ![d] = {}]
    BY DEF Restart
  <1>6. TypeOK'
    BY <1>2, <1>3, <1>4, <1>5 DEF Restart, Fault, SyncInv, TypeOK, Fit
  <1>7. EntriesAreIssued'
    BY <1>1, <1>3, <1>5 DEF SyncInv, TypeOK, EntriesAreIssued, Fit
  <1>8. LastOwnWriteIsLogged'
    BY <1>2 DEF Restart, SyncInv, LastOwnWriteIsLogged
  <1>9. SummariesAreStale'
    BY <1>3 DEF Restart, SummariesAreStale, Fit
  <1> QED
    BY <1>1, <1>6, <1>7, <1>8, <1>9 DEF SyncInv
-----------------------------------------------------------------------------
(* The specification. *)

\* The initial states satisfy SyncInv and are initial states of KVReplica.
LEMMA InitSyncInv ==
  ASSUME Init
  PROVE  SyncInv /\ Replica!Init
  <1>1. RP!Init /\ Replica!Init
    BY DEF Init, EmptyVector, RP!Init, RP!EmptyVector, Replica!Init, Replica!EmptyVector
  <1>2. RP!Inv
    BY <1>1, ReplicaAssumptions, RP!InitInv DEF RP!InitInv
  <1>3. TypeOK
    <2>1. /\ push \in [Devices -> {"idle", "running", "pending"}]
          /\ seq \in [Devices -> Nat]
      BY DEF Init
    <2>2. /\ exchange = [d \in Devices |-> exchange[d]]
          /\ \A d \in Devices : exchange[d] \in [Peers(d) -> {"todo", "asked", "done"}]
      BY DEF Init
    <2>3. /\ merging \in [Devices -> SUBSET [left : SUBSET Entry, merged : BOOLEAN]]
          /\ net = {} /\ faults \in Nat /\ skipped \in BOOLEAN
      BY DEF Init
    <2> QED
      BY <1>2, <2>1, <2>2, <2>3, ReplicaTypes DEF TypeOK
  <1>4. EntriesAreIssued /\ SummariesAreStale
    BY DEF Init, EntriesAreIssued, SummariesAreStale
  <1>5. LastOwnWriteIsLogged
    <2> SUFFICES ASSUME NEW d \in Devices
                 PROVE  /\ vec[d][d] <= seq[d] /\ vec[d][d] = 0
                        /\ \A e \in log[d] : e.device = d => e.counter <= vec[d][d]
      BY DEF LastOwnWriteIsLogged
    <2>1. vec[d][d] = 0 /\ seq[d] = 0
      BY DEF Init, EmptyVector
    <2>2. log[d] = {}
      BY DEF Init
    <2> QED
      BY <2>1, <2>2
  <1> QED
    BY <1>1, <1>2, <1>3, <1>4, <1>5 DEF SyncInv

\* diffAndMerge takes its next entry from what is left.
LEMMA NextToMergeIsLeft ==
  ASSUME NEW j
  PROVE  NextToMerge(j) \subseteq j.left
  BY DEF NextToMerge

\* Every step keeps SyncInv, and is a step of KVReplica or none it sees.
LEMMA NextKeepsSyncInv ==
  ASSUME SyncInv, [Next]_vars
  PROVE  SyncInv' /\ [Replica!Next]_(Replica!vars)
  <1> USE DEF Replica!vars
  <1>1. ASSUME NEW d \in Devices, WriteSome(d)
        PROVE  SyncInv' /\ Replica!Next
    BY <1>1, WriteKeepsSyncInv
  <1>2. ASSUME NEW d \in Devices, WriteFails(d)
        PROVE  SyncInv' /\ UNCHANGED Replica!vars
    BY <1>2, WriteFailsKeepsSyncInv DEF WriteFails
  <1>3. ASSUME NEW d \in Devices, Tick(d) \/ EndRound(d)
        PROVE  SyncInv' /\ UNCHANGED Replica!vars
    BY <1>3, RoundsKeepSyncInv DEF Tick, EndRound, logVars
  <1>4. ASSUME NEW d \in Devices, NEW p \in Peers(d), SendSummary(d, p)
        PROVE  SyncInv' /\ UNCHANGED Replica!vars
    BY <1>4, SendSummaryKeepsSyncInv DEF SendSummary, logVars
  <1>5. ASSUME NEW d \in Devices, NEW p \in Peers(d), GiveUp(d, p)
        PROVE  SyncInv' /\ UNCHANGED Replica!vars
    BY <1>5, GiveUpKeepsSyncInv DEF GiveUp, logVars
  <1>6. ASSUME NEW d \in Devices, Merging(d)
        PROVE  SyncInv' /\ Replica!Next
    <2>1. PICK j \in merging[d] : \E e \in NextToMerge(j) : MergeEntry(d, j, e)
      BY <1>6 DEF Merging
    <2>2. PICK e \in j.left : MergeEntry(d, j, e)
      BY <2>1, NextToMergeIsLeft
    <2> QED
      BY <2>2, MergeEntryKeepsSyncInv
  <1>7. ASSUME NEW d \in Devices, NEW j \in merging[d], NEW e \in NextToMerge(j),
               SkipEntry(d, j, e)
        PROVE  SyncInv' /\ UNCHANGED Replica!vars
    <2>1. e \in j.left
      BY NextToMergeIsLeft
    <2> QED
      BY <1>7, <2>1, SkipEntryKeepsSyncInv DEF SkipEntry, logVars
  <1>8. ASSUME NEW d \in Devices, Restart(d)
        PROVE  SyncInv' /\ UNCHANGED Replica!vars
    BY <1>8, RestartKeepsSyncInv DEF Restart
  <1>9. ASSUME NEW m \in net, HandleSummary(m)
        PROVE  SyncInv' /\ UNCHANGED Replica!vars
    BY <1>9, HandleSummaryKeepsSyncInv DEF HandleSummary, logVars
  <1>10. ASSUME NEW m \in net, HandleAnswer(m)
         PROVE  SyncInv' /\ UNCHANGED Replica!vars
    BY <1>10, HandleAnswerKeepsSyncInv DEF HandleAnswer, logVars
  <1>11. ASSUME NEW m \in net, StartMerge(m)
         PROVE  SyncInv' /\ UNCHANGED Replica!vars
    BY <1>11, StartMergeKeepsSyncInv DEF StartMerge, logVars
  <1>12. ASSUME NEW m \in net, Lose(m)
         PROVE  SyncInv' /\ UNCHANGED Replica!vars
    BY <1>12, LoseKeepsSyncInv DEF Lose, logVars
  <1>13. CASE UNCHANGED vars
    <2>1. UNCHANGED Replica!vars
      BY <1>13 DEF vars
    <2>2. SyncInv'
      BY <1>13, NetworkStep
         DEF vars, logVars, SyncInv, TypeOK, EntriesAreIssued
    <2> QED
      BY <2>1, <2>2
  <1> QED
    BY <1>1, <1>2, <1>3, <1>4, <1>5, <1>6, <1>7, <1>8, <1>9, <1>10, <1>11, <1>12, <1>13
       DEF Next

\* SyncInv holds in every state of the protocol.
THEOREM SyncInvariance == Spec => []SyncInv
  <1>1. Init => SyncInv
    BY InitSyncInv
  <1>2. SyncInv /\ [Next]_vars => SyncInv'
    BY NextKeepsSyncInv
  <1> QED
    BY <1>1, <1>2, PTL DEF Spec

\* The state of every device keeps its types, whatever the peers send.
THEOREM SyncTypeCorrectness == Spec => []TypeOK
  <1>1. SyncInv => TypeOK
    BY DEF SyncInv
  <1> QED
    BY <1>1, SyncInvariance, PTL

\* The counter a restart finds in the log is the one the vector shows, and the
\* next write takes a larger one: no restart makes AppendLocal issue a counter
\* twice (rebuildLocked).
THEOREM CountersSurviveRestarts == Spec => []SeqCoversVector
  <1>1. SyncInv => SeqCoversVector
    BY RebuiltSeqIsLast DEF SyncInv, LastOwnWriteIsLogged, SeqCoversVector
  <1> QED
    BY <1>1, SyncInvariance, PTL

\* A summary on its way, however old, is never ahead of the device that sent it
\* (requestSummary, handleSummary).
THEOREM SummariesStayStale == Spec => []SummariesAreStale
  <1>1. SyncInv => SummariesAreStale
    BY DEF SyncInv
  <1> QED
    BY <1>1, SyncInvariance, PTL

\* The protocol implements KVReplica: on every device it only ever appends the
\* device's own new writes, with counters above all earlier ones, and entries
\* that another device wrote (P2PSync, diffAndMerge, LocalLog).  What
\* KVReplicaProofs shows of the replicas thus holds of the devices.
THEOREM Implementation == Spec => ImplementsReplica
  <1>1. Init => Replica!Init
    BY InitSyncInv
  <1>2. SyncInv /\ [Next]_vars => [Replica!Next]_(Replica!vars)
    BY NextKeepsSyncInv
  <1> QED
    BY <1>1, <1>2, SyncInvariance, PTL DEF Spec, ImplementsReplica, Replica!Spec
=============================================================================
