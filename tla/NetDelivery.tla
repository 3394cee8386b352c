----------------------------- MODULE NetDelivery -----------------------------
(***************************************************************************)
(* Delivery of one addressed message from an agent of one sky10 identity   *)
(* to an agent of another (pkg/agent: Router; pkg/agent/mailbox:           *)
(* RelayDropbox): a live call over libp2p, and the Nostr dropbox with      *)
(* delivery receipts when the call fails.                                  *)
(*                                                                         *)
(* Each identity has one device, with goroutines that deliver (outbox      *)
(* drains, mailbox.send, mailbox.retry), that read the relay (poller and   *)
(* subscriber), and a lifecycle sweep.  Each goroutine reads the record    *)
(* and appends to it in separate critical sections of the store.           *)
(***************************************************************************)
EXTENDS MailboxRecord

CONSTANTS Sender, Recipient,  \* the two devices
          Deliverers,         \* goroutines in deliverNetworkMailbox ...
          Home,               \* ... and the device each runs on
          Readers,            \* goroutines of Recipient that ingest relay items
          Drainers,           \* goroutines of Recipient in DrainLocalPending
          Sweeps,             \* bound: the devices whose lifecycle sweep runs
          Expires,            \* whether the item's TTL may pass
          MaxRetries,         \* bound: operator retries of a terminal item
          MaxCrashes          \* bound: restarts of a daemon

Devices == {Sender, Recipient}

ASSUME HomeIsDevice == Sender # Recipient /\ Home \in [Deliverers -> Devices]

ASSUME BoundsAreBounds ==
  /\ Sweeps \subseteq Devices /\ Expires \in BOOLEAN
  /\ MaxRetries \in Nat /\ MaxCrashes \in Nat

ASSUME GoroutinesDiffer == Readers \cap Drainers = {}

VARIABLES
  rec,       \* rec[d]: d's record of the item, or NoRecord
  deliver,   \* deliver[p]: where deliverer p is, and what it knew at the start
  handler,   \* handler[p]: the remote handler of p's live call
  read,      \* read[q]: where reader q is, and whose handoff it read
  drain,     \* drain[q]: where reader or drainer q is in DrainLocalPending
  sweep,     \* sweep[d]: what the running sweep decided, or "none"
  dropbox,   \* the devices whose handoff of the item the relays hold
  receipts,  \* the devices for which the relays hold a delivery receipt
  online,    \* the addressed agent is registered on Recipient
  retries, crashes,
  received,  \* history: Recipient has stored the item
  emitted,   \* history: agent.message was emitted for the addressed agent
  closed     \* history: Sender's record was expired or dead-lettered once

goroutines == <<deliver, handler, read, drain, sweep>>
relay == <<dropbox, receipts>>
world == <<online, retries, crashes>>
history == <<received, emitted, closed>>
vars == <<rec, goroutines, relay, world, history>>

DeliverySteps == {"idle", "listed", "calling", "handing", "handed",
                  "recording", "undelivered"}
Idle == [at |-> "idle", handed |-> FALSE]
NotReading == [at |-> "idle", from |-> Sender]

\* AppendEvent by device d, whose caller p goes on at step "then"; when the item
\* is gone the caller returns the error.
AppendBy(d, p, e, then) ==
  IF rec[d] = NoRecord
  THEN deliver' = [deliver EXCEPT ![p] = Idle] /\ UNCHANGED rec
  ELSE /\ deliver' = [deliver EXCEPT ![p] = IF then = "idle" THEN Idle
                                            ELSE [@ EXCEPT !.at = then]]
       /\ rec' = [rec EXCEPT ![d] = Append(@, e)]

Goto(p, step) ==
  deliver' = [deliver EXCEPT ![p] = IF step = "idle" THEN Idle
                                    ELSE [@ EXCEPT !.at = step]]

\* mailbox.send has created the item at Sender.
Init ==
  /\ rec = [d \in Devices |-> IF d = Sender THEN NewRecord ELSE NoRecord]
  /\ deliver = [p \in Deliverers |-> Idle]
  /\ handler = [p \in Deliverers |-> "none"]
  /\ read = [q \in Readers |-> NotReading]
  /\ drain = [q \in Readers \cup Drainers |-> "none"]
  /\ sweep = [d \in Devices |-> "none"]
  /\ dropbox = {} /\ receipts = {}
  /\ online = FALSE /\ retries = 0 /\ crashes = 0
  /\ received = FALSE /\ emitted = FALSE /\ closed = FALSE

-----------------------------------------------------------------------------
(* Outbound: deliverNetworkMailbox. *)

\* DrainNetworkOutbox: every record of the device in a deliverable state, the
\* received ones too, since ListOutbox("") filters by nobody.  The record it
\* goes on with is the one it listed.
DrainNetworkOutbox(p) ==
  LET d == Home[p] IN
  /\ deliver[p].at = "idle"
  /\ OutboxPending(Reload(rec[d]))
  /\ rec' = [rec EXCEPT ![d] = Reload(@)]
  /\ deliver' = [deliver EXCEPT ![p] =
                   [at |-> "listed", handed |-> "handed_off" \in rec[d].has]]
  /\ UNCHANGED <<handler, read, drain, sweep, relay, world, history>>

\* mailbox.retry of an item that was expired or dead-lettered: nothing is done
\* about a delivered one, and of others it is a drain.
Retry(p) ==
  LET d == Home[p] IN
  /\ deliver[p].at = "idle"
  /\ rec[d] # NoRecord /\ Terminal(rec[d])
  /\ retries < MaxRetries
  /\ retries' = retries + 1
  /\ deliver' = [deliver EXCEPT ![p] =
                   [at |-> "listed", handed |-> "handed_off" \in rec[d].has]]
  /\ UNCHANGED <<rec, handler, read, drain, sweep, relay, online, crashes, history>>

\* delivery_attempted, and node.Call if there is a connection.  A device cannot
\* dial its own address.
Attempt(p) ==
  /\ deliver[p].at = "listed"
  /\ AppendBy(Home[p], p, "delivery_attempted", "calling")
  /\ \/ /\ rec[Home[p]] # NoRecord /\ Home[p] # Recipient /\ handler[p] = "none"
        /\ handler' = [handler EXCEPT ![p] = "called"]
     \/ UNCHANGED handler
  /\ UNCHANGED <<read, drain, sweep, relay, world, history>>

\* Mutant of HandlerGet: the item is accepted before it is stored.
HandlerGetAccepts(p) ==
  /\ handler[p] = "called"
  /\ handler' = [handler EXCEPT ![p] = "answered"]
  /\ UNCHANGED <<rec, deliver, read, drain, sweep, relay, world, history>>

\* agentMailboxDeliverHandler, first half: Get.
HandlerGet(p) ==
  /\ handler[p] = "called"
  /\ handler' = [handler EXCEPT ![p] =
                   IF rec[Recipient] = NoRecord THEN "creating" ELSE "answered"]
  /\ UNCHANGED <<rec, deliver, read, drain, sweep, relay, world, history>>

\* Second half: Create, and DrainLocalPending in a goroutine of its own.
HandlerCreate(p) ==
  /\ handler[p] = "creating"
  /\ handler' = [handler EXCEPT ![p] = "answered"]
  /\ rec' = [rec EXCEPT ![Recipient] = Create(@)]
  /\ received' = TRUE
  /\ \/ \E q \in Drainers : /\ drain[q] = "none"
                            /\ drain' = [drain EXCEPT ![q] = "start"]
     \/ /\ \A q \in Drainers : drain[q] # "none"
        /\ UNCHANGED drain
  /\ UNCHANGED <<deliver, read, sweep, relay, world, emitted, closed>>

\* The answer arrives in time, and "delivered" is appended.
Delivered(p) ==
  /\ deliver[p].at = "calling" /\ handler[p] = "answered"
  /\ handler' = [handler EXCEPT ![p] = "none"]
  /\ AppendBy(Home[p], p, "delivered", "idle")
  /\ UNCHANGED <<read, drain, sweep, relay, world, history>>

\* The answer finds that nobody waits for it any more.
TooLate(p) ==
  /\ deliver[p].at # "calling" /\ handler[p] = "answered"
  /\ handler' = [handler EXCEPT ![p] = "none"]
  /\ UNCHANGED <<rec, deliver, read, drain, sweep, relay, world, history>>

\* No connection, an error, or peerQueryTimeout, however far the handler is.
\* There is nothing more to do if the record that was listed had been handed
\* off; else the relay is tried.
LiveFails(p) ==
  /\ deliver[p].at = "calling"
  /\ IF deliver[p].handed
     THEN Goto(p, "idle") /\ UNCHANGED rec
     ELSE AppendBy(Home[p], p, "delivery_attempted", "handing")
  /\ UNCHANGED <<handler, read, drain, sweep, relay, world, history>>

\* HandoffItem: a parameterised event, so a second one replaces the first.
HandoffItem(p) ==
  /\ deliver[p].at = "handing"
  /\ dropbox' = dropbox \cup {Home[p]}
  /\ Goto(p, "handed")
  /\ UNCHANGED <<rec, handler, read, drain, sweep, receipts, world, history>>

\* Mutant of HandoffFails: the error of the publication is dropped.
HandoffFailsUnnoticed(p) ==
  /\ deliver[p].at = "handing"
  /\ dropbox' \in {dropbox, dropbox \cup {Home[p]}}
  /\ Goto(p, "handed")
  /\ UNCHANGED <<rec, handler, read, drain, sweep, receipts, world, history>>

\* No relay acknowledged it; one may have kept it nevertheless.
HandoffFails(p) ==
  /\ deliver[p].at = "handing"
  /\ dropbox' \in {dropbox, dropbox \cup {Home[p]}}
  /\ Goto(p, "undelivered")
  /\ UNCHANGED <<rec, handler, read, drain, sweep, receipts, world, history>>

\* The current record: is there still something to record?
CheckCurrent(p) ==
  LET r == rec[Home[p]] IN
  /\ deliver[p].at = "handed"
  /\ Goto(p, IF r # NoRecord /\ (State(r) = "delivered" \/ Terminal(r))
             THEN "idle" ELSE "recording")
  /\ UNCHANGED <<rec, handler, read, drain, sweep, relay, world, history>>

HandedOff(p) ==
  /\ deliver[p].at = "recording"
  /\ AppendBy(Home[p], p, "handed_off", "idle")
  /\ UNCHANGED <<handler, read, drain, sweep, relay, world, history>>

DeliveryFailed(p) ==
  /\ deliver[p].at = "undelivered"
  /\ AppendBy(Home[p], p, "delivery_failed", "idle")
  /\ UNCHANGED <<handler, read, drain, sweep, relay, world, history>>

-----------------------------------------------------------------------------
(* Inbound at Recipient: ingestNetworkRelayItem. *)

\* Mutant of ReadItem: an item that exists is skipped as a duplicate.
ReadItemOnce(q, from) ==
  /\ read[q].at = "idle" /\ from \in dropbox /\ rec[Recipient] = NoRecord
  /\ read' = [read EXCEPT ![q] = [at |-> "creating", from |-> from]]
  /\ UNCHANGED <<rec, deliver, handler, drain, sweep, relay, world, history>>

\* Get: an item that exists gets its receipt again.
ReadItem(q, from) ==
  /\ read[q].at = "idle" /\ from \in dropbox
  /\ read' = [read EXCEPT ![q] =
                [at |-> IF rec[Recipient] = NoRecord THEN "creating" ELSE "draining",
                 from |-> from]]
  /\ drain' = IF rec[Recipient] = NoRecord THEN drain
              ELSE [drain EXCEPT ![q] = "start"]
  /\ UNCHANGED <<rec, deliver, handler, sweep, relay, world, history>>

IngestCreate(q) ==
  /\ read[q].at = "creating"
  /\ rec' = [rec EXCEPT ![Recipient] = Create(@)]
  /\ received' = TRUE
  /\ read' = [read EXCEPT ![q].at = "draining"]
  /\ drain' = [drain EXCEPT ![q] = "start"]
  /\ UNCHANGED <<deliver, handler, sweep, relay, world, emitted, closed>>

\* publishNetworkDeliveryReceipt after its DrainLocalPending, to the device that
\* handed the item off; the publication may fail.
PublishReceipt(q) ==
  /\ read[q].at = "draining" /\ drain[q] = "none"
  /\ \/ receipts' = receipts \cup {read[q].from}
     \/ UNCHANGED receipts
  /\ read' = [read EXCEPT ![q] = NotReading]
  /\ UNCHANGED <<rec, deliver, handler, drain, sweep, dropbox, world, history>>

\* ingestNetworkRelayReceipt on d.
IngestReceipt(d) ==
  /\ d \in receipts
  /\ rec[d] # NoRecord /\ ~ rec[d].receipted
  /\ rec' = [rec EXCEPT ![d] = [Append(@, "delivered") EXCEPT !.receipted = TRUE]]
  /\ UNCHANGED <<goroutines, relay, world, history>>

-----------------------------------------------------------------------------
(* Local hand-over at Recipient: DrainLocalPending. *)

\* The agent registers: rpcRegister starts a drain.
Register ==
  /\ ~ online
  /\ online' = TRUE
  /\ \E q \in Drainers : /\ drain[q] = "none"
                         /\ drain' = [drain EXCEPT ![q] = "start"]
  /\ UNCHANGED <<rec, deliver, handler, read, sweep, relay, retries, crashes, history>>

DrainList(q) ==
  /\ drain[q] = "start"
  /\ rec' = [rec EXCEPT ![Recipient] = Reload(@)]
  /\ drain' = [drain EXCEPT ![q] =
                 IF InboxPending(rec'[Recipient]) /\ online THEN "listed" ELSE "none"]
  /\ UNCHANGED <<deliver, handler, read, sweep, relay, world, history>>

\* delivery_attempted is appended and agent.message emitted.
DrainEmit(q) ==
  /\ drain[q] = "listed"
  /\ IF rec[Recipient] = NoRecord
     THEN /\ drain' = [drain EXCEPT ![q] = "none"]
          /\ UNCHANGED <<rec, emitted>>
     ELSE /\ drain' = [drain EXCEPT ![q] = "emitted"]
          /\ rec' = [rec EXCEPT ![Recipient] = Append(@, "delivery_attempted")]
          /\ emitted' = TRUE
  /\ UNCHANGED <<deliver, handler, read, sweep, relay, world, received, closed>>

DrainDelivered(q) ==
  /\ drain[q] = "emitted"
  /\ drain' = [drain EXCEPT ![q] = "none"]
  /\ rec' = IF rec[Recipient] = NoRecord THEN rec
            ELSE [rec EXCEPT ![Recipient] = Append(@, "delivered")]
  /\ UNCHANGED <<deliver, handler, read, sweep, relay, world, history>>

-----------------------------------------------------------------------------
(* Lifecycle. *)

\* Whether ExpiresAt has passed when a sweep looks: later than any sweep of the
\* device that found it so.
TtlPassed(r) ==
  IF "expired" \in r.has THEN {TRUE} ELSE IF Expires THEN BOOLEAN ELSE {FALSE}

\* Mutant of SweepList: the sweep acts on records that the policy keeps, too.
SweepListAll(d) ==
  /\ d \in Sweeps /\ sweep[d] = "none" /\ rec[d] # NoRecord
  /\ \E ttl \in TtlPassed(rec[d]), aged \in BOOLEAN :
       sweep' = [sweep EXCEPT ![d] = SweepRecord(rec[d], ttl, aged)]
  /\ UNCHANGED <<rec, deliver, handler, read, drain, relay, world, history>>

\* Sweep decides on the record it listed ...
SweepList(d) ==
  /\ d \in Sweeps /\ sweep[d] = "none" /\ rec[d] # NoRecord
  /\ \E ttl \in TtlPassed(rec[d]), aged \in BOOLEAN :
       /\ SweepRecord(rec[d], ttl, aged) # "keep"
       /\ sweep' = [sweep EXCEPT ![d] = SweepRecord(rec[d], ttl, aged)]
  /\ UNCHANGED <<rec, deliver, handler, read, drain, relay, world, history>>

\* ... and acts on the one that is there by then.
SweepAct(d) ==
  /\ sweep[d] # "none"
  /\ sweep' = [sweep EXCEPT ![d] = "none"]
  /\ rec' = [rec EXCEPT ![d] = IF @ = NoRecord \/ sweep[d] = "compact" THEN NoRecord
                               ELSE Append(@, sweep[d])]
  /\ closed' = (closed \/ (d = Sender /\ sweep[d] # "compact"))
  /\ UNCHANGED <<deliver, handler, read, drain, relay, world, received, emitted>>

\* The daemon of d stops and starts again: its goroutines are gone, calls it
\* serves break, the index is read from the backend, agents have to register.
Crash(d) ==
  /\ crashes < MaxCrashes
  /\ crashes' = crashes + 1
  /\ rec' = [rec EXCEPT ![d] = Reload(@)]
  /\ deliver' = [p \in Deliverers |-> IF Home[p] = d THEN Idle ELSE deliver[p]]
  /\ handler' = [p \in Deliverers |-> IF d = Recipient THEN "none" ELSE handler[p]]
  /\ IF d = Recipient
     THEN /\ read' = [q \in Readers |-> NotReading]
          /\ drain' = [q \in Readers \cup Drainers |-> "none"]
          /\ online' = FALSE
     ELSE UNCHANGED <<read, drain, online>>
  /\ sweep' = [sweep EXCEPT ![d] = "none"]
  /\ UNCHANGED <<relay, retries, history>>

-----------------------------------------------------------------------------
DeliveryStep(p) ==
  \/ Attempt(p) \/ CheckCurrent(p) \/ HandedOff(p) \/ DeliveryFailed(p)

HandoffStep(p) == HandoffItem(p) \/ HandoffFails(p)

HandlerStep(p) == HandlerGet(p) \/ HandlerCreate(p) \/ TooLate(p)

DrainStep(q) == DrainList(q) \/ DrainEmit(q) \/ DrainDelivered(q)

Next ==
  \/ \E p \in Deliverers :
       \/ DrainNetworkOutbox(p) \/ Retry(p)
       \/ Delivered(p) \/ LiveFails(p) \/ HandlerStep(p)
       \/ DeliveryStep(p) \/ HandoffStep(p)
  \/ \E q \in Readers :
       \/ \E from \in Devices : ReadItem(q, from)
       \/ IngestCreate(q) \/ PublishReceipt(q)
  \/ \E q \in Readers \cup Drainers : DrainStep(q)
  \/ Register
  \/ \E d \in Devices : IngestReceipt(d) \/ SweepList(d) \/ SweepAct(d) \/ Crash(d)

\* Outbox drains (safety sweep), the relay poller and the lifecycle sweep run
\* again and again; a delivery, a call, a local drain goes on.  Whether a call
\* gets through, the user retries or a daemon stops is nobody's promise; a
\* relay that is tried again and again takes a receipt at some time, and the
\* agent registers.  The store itself does not fail: RunLifecycle would end
\* with the first sweep that returns an error.
Fairness ==
  /\ \A p \in Deliverers :
       /\ WF_vars(DrainNetworkOutbox(p))
       /\ WF_vars(Delivered(p) \/ LiveFails(p))
       /\ WF_vars(DeliveryStep(p))
       /\ WF_vars(HandoffStep(p))
       /\ WF_vars(HandlerStep(p))
  /\ \A q \in Readers :
       /\ \A from \in Devices : SF_vars(ReadItem(q, from))
       /\ WF_vars(IngestCreate(q))
       /\ WF_vars(PublishReceipt(q))
       /\ SF_vars(PublishReceipt(q) /\ read[q].from = Sender
                  /\ receipts' = receipts \cup {Sender})
  /\ \A q \in Readers \cup Drainers : WF_vars(DrainStep(q))
  /\ WF_vars(Register)
  /\ \A d \in Devices :
       WF_vars(IngestReceipt(d)) /\ SF_vars(SweepList(d)) /\ WF_vars(SweepAct(d))

Spec == Init /\ [][Next]_vars /\ Fairness

-----------------------------------------------------------------------------
(* Properties. *)

\* The types of the state: a record keeps the events and counts of Record, a
\* goroutine is at one of its steps.
TypeOK ==
  /\ rec \in [Devices -> Record \cup {NoRecord}]
  /\ deliver \in [Deliverers -> [at : DeliverySteps, handed : BOOLEAN]]
  /\ handler \in [Deliverers -> {"none", "called", "creating", "answered"}]
  /\ read \in [Readers -> [at : {"idle", "creating", "draining"}, from : Devices]]
  /\ drain \in [Readers \cup Drainers -> {"none", "start", "listed", "emitted"}]
  /\ sweep \in [Devices -> {"none", "compact", "expired", "dead_lettered"}]
  /\ dropbox \subseteq Devices /\ receipts \subseteq Devices
  /\ online \in BOOLEAN /\ retries \in Nat /\ crashes \in Nat
  /\ received \in BOOLEAN /\ emitted \in BOOLEAN /\ closed \in BOOLEAN

\* "delivered" in the sender's timeline, by an answer, by a receipt, late or
\* repeated, means that the recipient's mailbox stored the item
\* (deliverNetworkMailbox, ingestNetworkRelayReceipt).
DeliveredMeansReceived ==
  rec[Sender] # NoRecord /\ "delivered" \in rec[Sender].has => received

\* A record that says "handed_off" is never handed off again, so the relays must
\* hold the item whenever it says so (relayHandoffForRecord).
HandoffIsStored ==
  \A d \in Devices :
    /\ rec[d] # NoRecord /\ "handed_off" \in rec[d].has => d \in dropbox
    /\ \A p \in Deliverers : deliver[p].handed => Home[p] \in dropbox

\* The sender forgets an item only when the recipient has it or when it has been
\* expired or dead-lettered, whatever the sweep had read (compactRecord).
ForgottenIsAccounted == rec[Sender] = NoRecord => received \/ closed

\* The sender comes to know what became of the item: delivered, expired or
\* dead-lettered, whatever calls, answers, handoffs and receipts fail on the
\* way (publishNetworkDeliveryReceipt also for an item that exists, the retry
\* budget of sweepRecord).
OutcomeIsLearned ==
  <>(closed \/ rec[Sender] = NoRecord \/ "delivered" \in rec[Sender].has)

\* "delivery: at-least-once" (docs/work/past/2026/04/11-Mailbox.md): a message
\* in the recipient's mailbox that the agent has not been given can still be
\* given to it, unless it expires: it is queued for DrainLocalPending, or a
\* drain of the outbox will queue it again.
AtLeastOnce ==
  rec[Recipient] # NoRecord /\ ~ emitted
    => OutboxPending(rec[Recipient]) \/ "expired" \in rec[Recipient].has
=============================================================================
