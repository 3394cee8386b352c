------------------------------- MODULE KVSync -------------------------------
(***************************************************************************)
(* Summary-first anti-entropy of a KV namespace between the devices of a   *)
(* private network (pkg/kv: Store, P2PSync, diffAndMerge), in P2P-only     *)
(* mode: no S3 backend, hence no uploader and no poller.                   *)
(*                                                                         *)
(* A device writes to its log and pokes the push loop.  A push round asks  *)
(* every peer for its summary; the peer answers with its vector and, in a  *)
(* goroutine of its own, sends what the asker's vector does not cover; the *)
(* asker then sends what the answer does not cover.  A received delta is   *)
(* appended to the log entry by entry, LocalLog.mu being released between  *)
(* two entries, so rounds, other deltas, writes and a restart can fall in  *)
(* the middle of a merge.                                                  *)
(***************************************************************************)
EXTENDS KVCausal, FiniteSetsExt

CONSTANTS Writes,      \* Writes[d]: what the users of d write, and at which second
          Links,       \* <<d, p>>: d counts p among its connected peers
          MaxCounter,  \* bound: MaxCounter[d] is the largest counter d assigns
          Faults,      \* the kinds of fault that happen
          MaxFaults    \* bound: how many faults happen

FaultKinds == {"loss",     \* a message, or the wait for an answer, is lost
               "append",   \* appendToFile returns an error
               "restart"}  \* the daemon stops and starts again

ASSUME WritesAreWrites ==
  Writes \in [Devices -> SUBSET [key : Keys, op : {"set", "delete"}, ts : Nat]]

ASSUME LinksAreLinks == Links \subseteq Devices \X Devices

ASSUME CountersAreBounded == MaxCounter \in [Devices -> Nat]

ASSUME FaultsAreBounded == Faults \subseteq FaultKinds /\ MaxFaults \in Nat

VARIABLES
  log,      \* log[d]: the entries in d's kv-ops.jsonl
  reg,      \* reg[d][k]: the entry d's snapshot holds for k, or NoEntry
  vec,      \* vec[d]: the vector of d's snapshot
  seq,      \* seq[d]: LocalLog.seq
  push,     \* push[d]: "idle", "running" or "pending" (pushRunning, pushPending)
  exchange, \* exchange[d][p]: how far d's round has come with peer p
  net,      \* messages on open streams
  merging,  \* merging[d]: the diffAndMerge loops running on d
  faults,   \* how many faults have happened
  skipped   \* a device skipped an entry of a merge, or stopped in the middle of one

logVars == <<log, reg, vec, seq>>
pushVars == <<push, exchange>>
faultVars == <<faults, skipped>>
vars == <<log, reg, vec, seq, push, exchange, net, merging, faults, skipped>>

\* ConnectedPrivateNetworkPeers of d.
Peers(d) == {p \in Devices \ {d} : <<d, p>> \in Links}

\* A summary whose asker has stopped waiting ("open" is FALSE) is still
\* answered with a delta, but not with a summary.
Summary == [type : {"summary"}, from : Devices, to : Devices, vector : Vector,
            open : BOOLEAN]
Answer == [type : {"answer"}, from : Devices, to : Devices, vector : Vector]
Delta == [type : {"delta"}, to : Devices, entries : SUBSET Entry]

Init ==
  /\ log = [d \in Devices |-> {}]
  /\ reg = [d \in Devices |-> [k \in Keys |-> NoEntry]]
  /\ vec = [d \in Devices |-> EmptyVector]
  /\ seq = [d \in Devices |-> 0]
  /\ push = [d \in Devices |-> "idle"]
  /\ exchange = [d \in Devices |-> [p \in Peers(d) |-> "done"]]
  /\ net = {}
  /\ merging = [d \in Devices |-> {}]
  /\ faults = 0
  /\ skipped = FALSE

Fault(kind) == kind \in Faults /\ faults < MaxFaults /\ faults' = faults + 1

-----------------------------------------------------------------------------
(* The push loop. *)

\* PushToAll: start a round with every peer, or ask for one more afterwards.
\* A round of a device without peers ends as it starts.
PushToAll(d) ==
  CASE push[d] # "idle" ->
         /\ push' = [push EXCEPT ![d] = "pending"]
         /\ UNCHANGED exchange
    [] push[d] = "idle" /\ Peers(d) # {} ->
         /\ push' = [push EXCEPT ![d] = "running"]
         /\ exchange' = [exchange EXCEPT ![d] = [p \in Peers(d) |-> "todo"]]
    [] OTHER -> UNCHANGED pushVars

\* The end of a round in runPushLoop.
EndRound(d) ==
  /\ push[d] # "idle"
  /\ \A p \in Peers(d) : exchange[d][p] = "done"
  /\ IF push[d] = "pending"
     THEN /\ push' = [push EXCEPT ![d] = "running"]
          /\ exchange' = [exchange EXCEPT ![d] = [p \in Peers(d) |-> "todo"]]
     ELSE /\ push' = [push EXCEPT ![d] = "idle"]
          /\ UNCHANGED exchange
  /\ UNCHANGED <<logVars, net, merging, faultVars>>

\* The ticker of startP2PAntiEntropyLocked.
Tick(d) ==
  /\ PushToAll(d)
  /\ UNCHANGED <<logVars, net, merging, faultVars>>

-----------------------------------------------------------------------------
(* Local writes. *)

\* appendToFile, then buildSnapshot(cache, {e}), on device d.
AppendEntry(d, e) ==
  /\ log' = [log EXCEPT ![d] = @ \cup {e}]
  /\ reg' = [reg EXCEPT ![d][e.key] = ApplyRegister(@, e)]
  /\ vec' = [vec EXCEPT ![d] = ApplyVector(@, e)]

\* Store.Set and Store.Delete: AppendLocal, then pokeSync.  The timestamp is
\* what the device's clock shows: it may lie before that of an earlier write.
Write(d, k, op, ts) ==
  /\ seq[d] < MaxCounter[d]
  /\ seq' = [seq EXCEPT ![d] = @ + 1]
  /\ AppendEntry(d, [op |-> op, key |-> k, device |-> d, counter |-> seq[d] + 1,
                     ts |-> ts, context |-> vec[d]])
  /\ PushToAll(d)
  /\ UNCHANGED <<net, merging, faultVars>>

\* AppendLocal when appendToFile fails: the sequence number is used up.
WriteFails(d) ==
  /\ seq[d] < MaxCounter[d]
  /\ Fault("append")
  /\ seq' = [seq EXCEPT ![d] = @ + 1]
  /\ UNCHANGED <<log, reg, vec, pushVars, net, merging, skipped>>

-----------------------------------------------------------------------------
(* One exchange of syncWithPeer with a peer. *)

\* Mutant of DeltaTo: the message keeps the legacy kind.
DeltaToLegacy(d, entries) ==
  IF entries = {} THEN {}
  ELSE {[type |-> "snapshot", to |-> d, entries |-> entries]}

\* sendSnapshotMessage, if the delta HasState.
DeltaTo(d, entries) ==
  IF entries = {} THEN {}
  ELSE {[type |-> "delta", to |-> d, entries |-> entries]}

\* requestSummary: open a stream to p and send d's summary.
SendSummary(d, p) ==
  /\ exchange[d][p] = "todo"
  /\ exchange' = [exchange EXCEPT ![d][p] = "asked"]
  /\ net' = net \cup {[type |-> "summary", from |-> d, to |-> p,
                       vector |-> vec[d], open |-> TRUE]}
  /\ UNCHANGED <<logVars, push, merging, faultVars>>

\* Mutant of AnswerVector: the answer claims what the asker announced, too.
AnswerVectorMerged(m) == Merge(vec[m.to], m.vector)

\* The summary in the answer: the peer's own snapshot.
AnswerVector(m) == vec[m.to]

\* handleSummary: answer with the local summary, then send the local entries
\* that the asker's summary does not cover.  When the asker has closed its
\* stream the answer reaches nobody, and writing it may fail: no delta then.
HandleSummary(m) ==
  /\ m.type = "summary"
  /\ \E written \in IF m.open THEN {TRUE} ELSE BOOLEAN :
       net' = (net \ {m})
         \cup {a \in {[type |-> "answer", from |-> m.to, to |-> m.from,
                       vector |-> AnswerVector(m)]} : m.open}
         \cup {a \in DeltaTo(m.from, DeltaSince(reg[m.to], m.vector)) : written}
  /\ UNCHANGED <<logVars, pushVars, merging, faultVars>>

\* Mutant of AnswerDelta: the delta is computed against the vector the asker
\* itself sent, not against the answer.
AnswerDeltaOwnVector(d, m) == DeltaSince(reg[d], vec[d])

\* What the rest of syncWithPeer sends once p's summary has come back: the
\* part of the latest local snapshot that p's summary does not cover.
AnswerDelta(d, m) == DeltaSince(reg[d], m.vector)

HandleAnswer(m) ==
  /\ m.type = "answer"
  /\ exchange' = [exchange EXCEPT ![m.to][m.from] = "done"]
  /\ net' = (net \ {m}) \cup DeltaTo(m.from, AnswerDelta(m.to, m))
  /\ UNCHANGED <<logVars, push, merging, faultVars>>

\* The messages on the stream d opened to p for the exchange under way.
OnStream(d, p) ==
  {m \in net : \/ m.type = "summary" /\ m.from = d /\ m.to = p /\ m.open
               \/ m.type = "answer" /\ m.from = p /\ m.to = d}

\* net after d has closed its stream to p: the answer is gone, a summary that
\* is still on its way is answered to nobody.
StreamClosed(d, p) ==
  (net \ OnStream(d, p))
    \cup {[m EXCEPT !.open = FALSE] : m \in {x \in OnStream(d, p) : x.type = "summary"}}

\* requestSummary fails: the stream broke, or summaryExchangeTimeout passed
\* while the summary or its answer was on the way.
GiveUp(d, p) ==
  /\ exchange[d][p] = "asked"
  /\ exchange' = [exchange EXCEPT ![d][p] = "done"]
  /\ IF OnStream(d, p) = {} THEN UNCHANGED faults ELSE Fault("loss")
  /\ net' = StreamClosed(d, p)
  /\ UNCHANGED <<logVars, push, merging, skipped>>

\* A stream breaks and takes its message with it.
Lose(m) ==
  /\ Fault("loss")
  /\ net' = net \ {m}
  /\ UNCHANGED <<logVars, pushVars, merging, skipped>>

-----------------------------------------------------------------------------
(* Merging a delta. *)

\* mergeSnapshotMessage: start diffAndMerge on the entries of the delta.
StartMerge(m) ==
  /\ m.type = "delta"
  /\ net' = net \ {m}
  /\ merging' = [merging EXCEPT ![m.to] =
                   @ \cup {[left |-> m.entries, merged |-> FALSE]}]
  /\ UNCHANGED <<logVars, pushVars, faultVars>>

\* Loop j of d moves past entry e.  Once no entry is left, and if one was
\* appended, mergeSnapshotMessage pokes the push loop.
AdvanceMerge(d, j, e, merged) ==
  LET next == [left |-> j.left \ {e}, merged |-> merged]
  IN  /\ merging' = [merging EXCEPT ![d] =
                       (@ \ {j}) \cup {i \in {next} : i.left # {}}]
      /\ IF next.left = {} /\ merged THEN PushToAll(d) ELSE UNCHANGED pushVars

\* diffAndMerge takes the values first, in the order of a map, then the
\* tombstones.
NextToMerge(j) ==
  LET sets == {e \in j.left : e.op = "set"} IN IF sets # {} THEN sets ELSE j.left

\* One iteration of diffAndMerge: LocalLog.Append.
MergeEntry(d, j, e) ==
  /\ AppendEntry(d, e)
  /\ AdvanceMerge(d, j, e, TRUE)
  /\ UNCHANGED <<seq, net, faultVars>>

\* The iteration when Append fails: the entry is logged and skipped.
SkipEntry(d, j, e) ==
  /\ Fault("append")
  /\ skipped' = TRUE
  /\ AdvanceMerge(d, j, e, j.merged)
  /\ UNCHANGED <<logVars, net>>

-----------------------------------------------------------------------------
\* Mutant of RebuiltSeq: the counter is taken from what the snapshot still
\* holds, as if the log had been compacted.
RebuiltSeqFromSnapshot(d) ==
  Max({0} \cup {e.counter : e \in {f \in Held(reg[d]) : f.device = d}})

\* rebuildLocked: the largest sequence number among d's own entries on file.
RebuiltSeq(d) ==
  Max({0} \cup {e.counter : e \in {f \in log[d] : f.device = d}})

\* The daemon of d stops and starts again.  Streams to it break, deltas it
\* sent may still arrive, its merges end where they are.  The snapshot is
\* rebuilt from the log, entry by entry in the order they were appended, which
\* gives the one d had.  RegisterProtocol starts a round.
Restart(d) ==
  /\ Fault("restart")
  /\ seq' = [seq EXCEPT ![d] = RebuiltSeq(d)]
  /\ skipped' = (skipped \/ merging[d] # {})
  /\ merging' = [merging EXCEPT ![d] = {}]
  /\ push' = [push EXCEPT ![d] = IF Peers(d) = {} THEN "idle" ELSE "running"]
  /\ exchange' = [exchange EXCEPT ![d] = [p \in Peers(d) |-> "todo"]]
  /\ net' = {IF m.type = "summary" /\ m.from = d THEN [m EXCEPT !.open = FALSE]
             ELSE m : m \in {x \in net : x.to # d}}
  /\ UNCHANGED <<log, reg, vec>>

WriteSome(d) == \E w \in Writes[d] : Write(d, w.key, w.op, w.ts)

Merging(d) == \E j \in merging[d] : \E e \in NextToMerge(j) : MergeEntry(d, j, e)

Next ==
  \/ \E d \in Devices :
       \/ WriteSome(d)
       \/ WriteFails(d)
       \/ Tick(d)
       \/ EndRound(d)
       \/ \E p \in Peers(d) : SendSummary(d, p) \/ GiveUp(d, p)
       \/ Merging(d)
       \/ \E j \in merging[d] : \E e \in NextToMerge(j) : SkipEntry(d, j, e)
       \/ Restart(d)
  \/ \E m \in net :
       \/ HandleSummary(m)
       \/ HandleAnswer(m)
       \/ StartMerge(m)
       \/ Lose(m)

\* The user may stop writing and faults may stop happening; tickers fire, the
\* push loop and merges go on, and streams that do not break deliver.
Fairness ==
  \A d \in Devices :
    /\ WF_vars(Tick(d))
    /\ WF_vars(EndRound(d))
    /\ WF_vars(Merging(d))
    /\ \A p \in Peers(d) :
         /\ WF_vars(SendSummary(d, p))
         /\ WF_vars(OnStream(d, p) = {} /\ GiveUp(d, p))
    /\ WF_vars(\E m \in net : m.to = d /\ HandleSummary(m))
    /\ WF_vars(\E m \in net : m.to = d /\ HandleAnswer(m))
    /\ WF_vars(\E m \in net : m.to = d /\ StartMerge(m))

Spec == Init /\ [][Next]_vars /\ Fairness

-----------------------------------------------------------------------------
TypeOK ==
  /\ log \in [Devices -> SUBSET Entry]
  /\ reg \in [Devices -> [Keys -> Entry \cup {NoEntry}]]
  /\ vec \in [Devices -> Vector]
  /\ seq \in [Devices -> Nat]
  /\ push \in [Devices -> {"idle", "running", "pending"}]
  /\ exchange = [d \in Devices |-> exchange[d]]
  /\ \A d \in Devices : exchange[d] \in [Peers(d) -> {"todo", "asked", "done"}]
  /\ net \subseteq Summary \cup Answer \cup Delta
  /\ merging \in [Devices -> SUBSET [left : SUBSET Entry, merged : BOOLEAN]]
  /\ faults \in Nat
  /\ skipped \in BOOLEAN

\* What the devices' clocks show when they write.
Seconds == UNION {{w.ts : w \in Writes[d]} : d \in Devices}

\* The replicas of the devices, and nothing else, as KVReplica describes them:
\* every step of the protocol writes one entry, or appends one entry that a
\* device wrote, or leaves logs and snapshots alone.
Replica == INSTANCE KVReplica WITH Times <- Seconds

ImplementsReplica == Replica!Spec

\* The last counter of the log is the one the vector shows, and the next write
\* takes a larger one: a restart, before or after a failed append, never makes
\* AppendLocal issue a dot twice (rebuildLocked, seq).
SeqCoversVector ==
  \A d \in Devices : RebuiltSeq(d) = vec[d][d] /\ vec[d][d] <= seq[d]

\* A summary on its way is never ahead of its sender: what DeltaSince withholds
\* because of it, the sender's log covers by the time it is used.
SummariesAreStale ==
  \A m \in net : m.type # "delta" => Dominates(vec[m.from], m.vector)

\* The parts of the inductive invariant that are not properties of their own:
\* whatever is on the wire or being merged is in some device's log, and the
\* vector's own component is the counter of the last own entry in the log.
EntriesAreIssued ==
  /\ \A m \in net : m.type = "delta" => m.entries \subseteq Replica!Issued
  /\ \A d \in Devices : \A j \in merging[d] : j.left \subseteq Replica!Issued

LastOwnWriteIsLogged ==
  \A d \in Devices :
    /\ vec[d][d] <= seq[d]
    /\ vec[d][d] # 0 => \E e \in log[d] : e.device = d /\ e.counter = vec[d][d]
    /\ \A e \in log[d] : e.device = d => e.counter <= vec[d][d]

Agree == \A d, p \in Devices : reg[d] = reg[p]

\* No message is on its way, no merge is running, and whatever round comes next
\* finds nothing to send.
NothingToSend ==
  /\ net = {}
  /\ \A d \in Devices : merging[d] = {}
  /\ \A d, p \in Devices : DeltaSince(reg[d], vec[p]) = {}

\* No device wrote with a clock that had been set back since its last write.
ClocksRunForward ==
  \A e, f \in Replica!Issued :
    e.device = f.device /\ f.counter < e.counter => f.ts <= e.ts

\* When there is nothing left to send, every device holds the same snapshot:
\* summaries do not hide differences.  Excepted are a merge that was cut short,
\* and a clock that was set back between two writes of a device: AppendLocal
\* takes time.Now as it is, and the three writes of a cycle of valueInfoBeats
\* can then be those of two devices.
QuietMeansEqual == ~ skipped /\ ClocksRunForward /\ NothingToSend => Agree

\* "Re-broadcast merged peer deltas so other connected peers converge too"
\* (mergeSnapshotMessage): also a device that hears of writes only through
\* another one ends with the same snapshot.
RelayedPeersConverge == NothingToSend => Agree

\* After the last write all devices come to hold the same snapshot for good,
\* although messages were lost and devices restarted, by the periodic rounds
\* alone (Store.startP2PAntiEntropyLocked), unless a merge was cut short or a
\* clock was set back.
Convergence == <>[](Agree \/ skipped \/ ~ ClocksRunForward)
=============================================================================
