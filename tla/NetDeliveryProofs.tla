------------------------- MODULE NetDeliveryProofs --------------------------
(***************************************************************************)
(* What the records of NetDelivery may say, for any number of delivering   *)
(* goroutines on either device, relay readers, local drains, sweeps with   *)
(* and without expiry, retries and restarts.                               *)
(*                                                                         *)
(* The argument: whatever tells the sender that the item arrived (an       *)
(* answer, a receipt) exists only after the recipient has stored it, and a *)
(* decision of the sweep to compact was made on a record that said so or   *)
(* was closed, however stale it is by the time it is carried out.          *)
(***************************************************************************)
EXTENDS NetDelivery, TLAPS

\* Every sign of an arrival.
ArrivalInv ==
  /\ \A p \in Deliverers : handler[p] = "answered" => received
  /\ \A q \in Readers : read[q].at = "draining" => received
  /\ rec[Recipient] # NoRecord => received
  /\ receipts # {} => received

\* What the sender's record says is so.
SenderInv ==
  /\ rec[Sender] = NoRecord => received \/ closed
  /\ rec[Sender] # NoRecord =>
       /\ "delivered" \in rec[Sender].has => received
       /\ rec[Sender].last = "delivered" => received
       /\ rec[Sender].last \in {"expired", "dead_lettered"} => closed

\* A decision to compact the sender's record outlives the record it was made on.
CompactInv == sweep[Sender] = "compact" => received \/ closed

\* A deliverer past HandoffItem has the item on the relays.
HandedInv ==
  \A p \in Deliverers :
    deliver[p].at \in {"handed", "recording"} => Home[p] \in dropbox

DeliveryInv ==
  TypeOK /\ ArrivalInv /\ SenderInv /\ CompactInv /\ HandoffIsStored /\ HandedInv

-----------------------------------------------------------------------------
(* Records. *)

LEMMA StateFacts ==
  ASSUME NEW r \in Record
  PROVE  /\ State(r) = "delivered" <=> r.last = "delivered"
         /\ Terminal(r) <=> r.last \in {"expired", "dead_lettered"}
  BY DEF Record, Events, State, StateForEvent, Terminal

LEMMA AppendFacts ==
  ASSUME NEW r \in Record, NEW e \in Events
  PROVE  /\ Append(r, e) \in Record
         /\ Append(r, e).last = e
         /\ Append(r, e).has = r.has \cup ({e} \cap Marks)
  <1>1. /\ r.has \cup ({e} \cap Marks) \in SUBSET Marks
        /\ (IF e = "delivery_failed" /\ r.fails < MaxAttempts
            THEN r.fails + 1 ELSE r.fails) \in 0 .. MaxAttempts
    BY AttemptsAreBounded DEF Record
  <1> QED BY <1>1 DEF Record, Append

LEMMA CreateFacts ==
  /\ NewRecord \in Record
  /\ \A r \in Record \cup {NoRecord} :
       /\ Create(r) \in Record
       /\ r # NoRecord => Create(r).last = r.last /\ Create(r).has = r.has
  <1>1. NewRecord \in Record
    BY AttemptsAreBounded DEF Record, NewRecord, Events
  <1>2. ASSUME NEW r \in Record
        PROVE  /\ [r EXCEPT !.unread = TRUE] \in Record
               /\ [r EXCEPT !.unread = TRUE].last = r.last
               /\ [r EXCEPT !.unread = TRUE].has = r.has
    BY DEF Record
  <1> QED BY <1>1, <1>2 DEF Create

LEMMA ReloadFacts ==
  ASSUME NEW r \in Record \cup {NoRecord}
  PROVE  /\ Reload(r) \in Record \cup {NoRecord}
         /\ Reload(r) = NoRecord <=> r = NoRecord
         /\ r # NoRecord => /\ Reload(r).has = r.has
                            /\ Reload(r).last \in {r.last, "created"}
  BY NoRecordIsNoRecord DEF Record, Reload, Events

\* The sweep compacts only what was delivered or is closed.
LEMMA SweepFacts ==
  ASSUME NEW r \in Record, NEW ttl \in BOOLEAN, NEW aged \in BOOLEAN
  PROVE  /\ SweepRecord(r, ttl, aged) \in {"keep", "compact", "expired", "dead_lettered"}
         /\ SweepRecord(r, ttl, aged) = "compact" =>
              r.last \in {"delivered", "expired", "dead_lettered"}
  BY StateFacts DEF SweepRecord

\* AppendBy: the record of d, and where its caller goes on.
LEMMA AppendByFacts ==
  ASSUME TypeOK, NEW d \in Devices, NEW p \in Deliverers, NEW e \in Events,
         NEW then \in DeliverySteps, AppendBy(d, p, e, then)
  PROVE  /\ rec' \in [Devices -> Record \cup {NoRecord}]
         /\ deliver' \in [Deliverers -> [at : DeliverySteps, handed : BOOLEAN]]
         /\ \A x \in Devices \ {d} : rec'[x] = rec[x]
         /\ rec[d] = NoRecord => rec'[d] = NoRecord
         /\ rec[d] # NoRecord => rec[d] \in Record /\ rec'[d] = Append(rec[d], e)
         /\ \A x \in Deliverers \ {p} : deliver'[x] = deliver[x]
         /\ deliver'[p].at \in {"idle", then}
         /\ deliver'[p].handed \in {deliver[p].handed, FALSE}
         /\ rec[d] # NoRecord => deliver'[p].at = then
  <1> DEFINE D == [at : DeliverySteps, handed : BOOLEAN]
             goes == IF then = "idle" THEN Idle ELSE [deliver[p] EXCEPT !.at = then]
  <1>0. /\ deliver \in [Deliverers -> D] /\ rec \in [Devices -> Record \cup {NoRecord}]
        /\ Idle \in D /\ Idle.at = "idle" /\ Idle.handed = FALSE
        /\ goes \in D /\ goes.at = then /\ goes.handed \in {deliver[p].handed, FALSE}
    BY DEF TypeOK, Idle, DeliverySteps
  <1>1. CASE rec[d] = NoRecord
    <2>1. rec' = rec /\ deliver' = [deliver EXCEPT ![p] = Idle]
      BY <1>1 DEF AppendBy
    <2> HIDE DEF D
    <2>2. deliver' \in [Deliverers -> D]
      BY <1>0, <2>1
    <2> QED BY <1>0, <1>1, <2>1, <2>2 DEF D
  <1>2. CASE rec[d] # NoRecord
    <2>1. rec[d] \in Record
      BY <1>2 DEF TypeOK
    <2>2. Append(rec[d], e) \in Record
      BY <2>1, AppendFacts
    <2>3. /\ deliver' = [deliver EXCEPT ![p] = goes]
          /\ rec' = [rec EXCEPT ![d] = Append(rec[d], e)]
      BY <1>2 DEF AppendBy
    <2> HIDE DEF D, goes
    <2>4. /\ deliver' \in [Deliverers -> D]
          /\ rec' \in [Devices -> Record \cup {NoRecord}]
      BY <1>0, <2>2, <2>3
    <2> QED BY <1>0, <1>2, <2>1, <2>3, <2>4 DEF D
  <1> QED BY <1>1, <1>2

LEMMA GotoFacts ==
  ASSUME TypeOK, NEW p \in Deliverers, NEW step \in DeliverySteps, Goto(p, step)
  PROVE  /\ deliver' \in [Deliverers -> [at : DeliverySteps, handed : BOOLEAN]]
         /\ \A x \in Deliverers \ {p} : deliver'[x] = deliver[x]
         /\ deliver'[p].at = step
         /\ deliver'[p].handed \in {deliver[p].handed, FALSE}
  BY DEF Goto, TypeOK, Idle, DeliverySteps

\* A goroutine of the outbound side starts with the record it listed.
LEMMA ListedFacts ==
  ASSUME TypeOK, NEW p \in Deliverers, rec[Home[p]] # NoRecord,
         deliver' = [deliver EXCEPT ![p] =
                       [at |-> "listed", handed |-> "handed_off" \in rec[Home[p]].has]]
  PROVE  /\ deliver' \in [Deliverers -> [at : DeliverySteps, handed : BOOLEAN]]
         /\ \A x \in Deliverers \ {p} : deliver'[x] = deliver[x]
         /\ deliver'[p].at = "listed"
         /\ deliver'[p].handed <=> "handed_off" \in rec[Home[p]].has
  <1>1. [at |-> "listed", handed |-> "handed_off" \in rec[Home[p]].has]
          \in [at : DeliverySteps, handed : BOOLEAN]
    BY DEF DeliverySteps
  <1> QED BY <1>1 DEF TypeOK

-----------------------------------------------------------------------------
(* Types. *)

LEMMA TypeInit == Init => TypeOK
  <1> SUFFICES ASSUME Init PROVE TypeOK
    OBVIOUS
  <1>1. rec \in [Devices -> Record \cup {NoRecord}]
    BY CreateFacts DEF Init
  <1>2. deliver \in [Deliverers -> [at : DeliverySteps, handed : BOOLEAN]]
    BY DEF Init, Idle, DeliverySteps
  <1>3. read \in [Readers -> [at : {"idle", "creating", "draining"}, from : Devices]]
    BY DEF Init, NotReading, Devices
  <1> QED BY <1>1, <1>2, <1>3 DEF Init, TypeOK

LEMMA TypeStep == TypeOK /\ [Next]_vars => TypeOK'
  <1> SUFFICES ASSUME TypeOK, [Next]_vars PROVE TypeOK'
    OBVIOUS
  <1> USE DEF goroutines, relay, world, history
  <1>0. /\ \A p \in Deliverers : Home[p] \in Devices
        /\ \A d \in Devices : rec[d] \in Record \cup {NoRecord}
        /\ \A x \in {"idle", "listed", "calling", "handing", "handed", "recording",
                     "undelivered"} : x \in DeliverySteps
        /\ Sender \in Devices /\ Recipient \in Devices
        /\ Events = {"created", "delivery_attempted", "delivery_failed", "handed_off",
                     "delivered", "expired", "dead_lettered"}
    BY HomeIsDevice DEF TypeOK, DeliverySteps, Devices, Events
  <1>1. ASSUME NEW p \in Deliverers, DrainNetworkOutbox(p) PROVE TypeOK'
    <2>1. rec' \in [Devices -> Record \cup {NoRecord}]
      BY <1>0, <1>1, ReloadFacts DEF DrainNetworkOutbox, TypeOK
    <2>2. rec[Home[p]] # NoRecord
      BY <1>0, <1>1, ReloadFacts DEF DrainNetworkOutbox, OutboxPending
    <2>3. deliver' \in [Deliverers -> [at : DeliverySteps, handed : BOOLEAN]]
      BY <1>1, <2>2, ListedFacts DEF DrainNetworkOutbox
    <2> QED BY <1>1, <2>1, <2>3 DEF DrainNetworkOutbox, TypeOK
  <1>2. ASSUME NEW p \in Deliverers, Retry(p) PROVE TypeOK'
    <2>1. deliver' \in [Deliverers -> [at : DeliverySteps, handed : BOOLEAN]]
      BY <1>2, ListedFacts DEF Retry
    <2> QED BY <1>2, <2>1 DEF Retry, TypeOK
  <1>3. ASSUME NEW p \in Deliverers, Attempt(p) PROVE TypeOK'
    <2>1. /\ rec' \in [Devices -> Record \cup {NoRecord}]
          /\ deliver' \in [Deliverers -> [at : DeliverySteps, handed : BOOLEAN]]
      BY <1>0, <1>3, AppendByFacts DEF Attempt
    <2> QED BY <1>3, <2>1 DEF Attempt, TypeOK
  <1>4. ASSUME NEW p \in Deliverers, HandlerGet(p) PROVE TypeOK'
    BY <1>4 DEF HandlerGet, TypeOK
  <1>5. ASSUME NEW p \in Deliverers, HandlerCreate(p) PROVE TypeOK'
    <2>1. rec' \in [Devices -> Record \cup {NoRecord}]
      BY <1>0, <1>5, CreateFacts DEF HandlerCreate, TypeOK
    <2> QED BY <1>5, <2>1 DEF HandlerCreate, TypeOK
  <1>6. ASSUME NEW p \in Deliverers, Delivered(p) PROVE TypeOK'
    <2>1. /\ rec' \in [Devices -> Record \cup {NoRecord}]
          /\ deliver' \in [Deliverers -> [at : DeliverySteps, handed : BOOLEAN]]
      BY <1>0, <1>6, AppendByFacts DEF Delivered
    <2> QED BY <1>6, <2>1 DEF Delivered, TypeOK
  <1>7. ASSUME NEW p \in Deliverers, TooLate(p) PROVE TypeOK'
    BY <1>7 DEF TooLate, TypeOK
  <1>8. ASSUME NEW p \in Deliverers, LiveFails(p) PROVE TypeOK'
    <2>1. /\ rec' \in [Devices -> Record \cup {NoRecord}]
          /\ deliver' \in [Deliverers -> [at : DeliverySteps, handed : BOOLEAN]]
      <3>1. CASE deliver[p].handed
        BY <1>0, <1>8, <3>1, GotoFacts DEF LiveFails, TypeOK
      <3>2. CASE ~ deliver[p].handed
        BY <1>0, <1>8, <3>2, AppendByFacts DEF LiveFails
      <3> QED BY <3>1, <3>2
    <2> QED BY <1>8, <2>1 DEF LiveFails, TypeOK
  <1>9. ASSUME NEW p \in Deliverers, HandoffItem(p) PROVE TypeOK'
    <2>1. deliver' \in [Deliverers -> [at : DeliverySteps, handed : BOOLEAN]]
      BY <1>0, <1>9, GotoFacts DEF HandoffItem
    <2> QED BY <1>0, <1>9, <2>1 DEF HandoffItem, TypeOK
  <1>10. ASSUME NEW p \in Deliverers, HandoffFails(p) PROVE TypeOK'
    <2>1. deliver' \in [Deliverers -> [at : DeliverySteps, handed : BOOLEAN]]
      BY <1>0, <1>10, GotoFacts DEF HandoffFails
    <2> QED BY <1>0, <1>10, <2>1 DEF HandoffFails, TypeOK
  <1>11. ASSUME NEW p \in Deliverers, CheckCurrent(p) PROVE TypeOK'
    <2>1. deliver' \in [Deliverers -> [at : DeliverySteps, handed : BOOLEAN]]
      BY <1>0, <1>11, GotoFacts DEF CheckCurrent
    <2> QED BY <1>11, <2>1 DEF CheckCurrent, TypeOK
  <1>12. ASSUME NEW p \in Deliverers, HandedOff(p) PROVE TypeOK'
    <2>1. /\ rec' \in [Devices -> Record \cup {NoRecord}]
          /\ deliver' \in [Deliverers -> [at : DeliverySteps, handed : BOOLEAN]]
      BY <1>0, <1>12, AppendByFacts DEF HandedOff
    <2> QED BY <1>12, <2>1 DEF HandedOff, TypeOK
  <1>13. ASSUME NEW p \in Deliverers, DeliveryFailed(p) PROVE TypeOK'
    <2>1. /\ rec' \in [Devices -> Record \cup {NoRecord}]
          /\ deliver' \in [Deliverers -> [at : DeliverySteps, handed : BOOLEAN]]
      BY <1>0, <1>13, AppendByFacts DEF DeliveryFailed
    <2> QED BY <1>13, <2>1 DEF DeliveryFailed, TypeOK
  <1>14. ASSUME NEW q \in Readers, NEW from \in Devices, ReadItem(q, from) PROVE TypeOK'
    BY <1>14 DEF ReadItem, TypeOK
  <1>15. ASSUME NEW q \in Readers, IngestCreate(q) PROVE TypeOK'
    <2>1. rec' \in [Devices -> Record \cup {NoRecord}]
      BY <1>0, <1>15, CreateFacts DEF IngestCreate, TypeOK
    <2> QED BY <1>15, <2>1 DEF IngestCreate, TypeOK
  <1>16. ASSUME NEW q \in Readers, PublishReceipt(q) PROVE TypeOK'
    BY <1>0, <1>16 DEF PublishReceipt, TypeOK, NotReading
  <1>17. ASSUME NEW d \in Devices, IngestReceipt(d) PROVE TypeOK'
    <2>1. rec[d] \in Record
      BY <1>0, <1>17 DEF IngestReceipt
    <2>2. Append(rec[d], "delivered") \in Record
      BY <1>0, <2>1, AppendFacts
    <2>3. [Append(rec[d], "delivered") EXCEPT !.receipted = TRUE] \in Record
      BY <2>2 DEF Record
    <2> QED BY <1>17, <2>3 DEF IngestReceipt, TypeOK
  <1>18. CASE Register
    BY <1>18 DEF Register, TypeOK
  <1>19. ASSUME NEW q \in Readers \cup Drainers, DrainList(q) PROVE TypeOK'
    <2>1. rec' \in [Devices -> Record \cup {NoRecord}]
      BY <1>0, <1>19, ReloadFacts DEF DrainList, TypeOK
    <2> QED BY <1>19, <2>1 DEF DrainList, TypeOK
  <1>20. ASSUME NEW q \in Readers \cup Drainers, DrainEmit(q) PROVE TypeOK'
    <2>1. rec' \in [Devices -> Record \cup {NoRecord}]
      BY <1>0, <1>20, AppendFacts DEF DrainEmit, TypeOK
    <2> QED BY <1>20, <2>1 DEF DrainEmit, TypeOK
  <1>21. ASSUME NEW q \in Readers \cup Drainers, DrainDelivered(q) PROVE TypeOK'
    <2>1. rec' \in [Devices -> Record \cup {NoRecord}]
      BY <1>0, <1>21, AppendFacts DEF DrainDelivered, TypeOK
    <2> QED BY <1>21, <2>1 DEF DrainDelivered, TypeOK
  <1>22. ASSUME NEW d \in Devices, SweepList(d) PROVE TypeOK'
    <2>1. PICK ttl \in TtlPassed(rec[d]), aged \in BOOLEAN :
            /\ SweepRecord(rec[d], ttl, aged) # "keep"
            /\ sweep' = [sweep EXCEPT ![d] = SweepRecord(rec[d], ttl, aged)]
      BY <1>22 DEF SweepList
    <2>2. rec[d] \in Record /\ ttl \in BOOLEAN
      BY <1>0, <1>22 DEF SweepList, TtlPassed
    <2>3. SweepRecord(rec[d], ttl, aged) \in {"compact", "expired", "dead_lettered"}
      BY <2>1, <2>2, SweepFacts
    <2> QED BY <1>22, <2>1, <2>3 DEF SweepList, TypeOK
  <1>23. ASSUME NEW d \in Devices, SweepAct(d) PROVE TypeOK'
    <2>1. sweep[d] # "compact" => sweep[d] \in Events
      BY <1>0, <1>23 DEF SweepAct, TypeOK
    <2>2. rec' \in [Devices -> Record \cup {NoRecord}]
      BY <1>0, <1>23, <2>1, AppendFacts DEF SweepAct, TypeOK
    <2> QED BY <1>23, <2>2 DEF SweepAct, TypeOK
  <1>24. ASSUME NEW d \in Devices, Crash(d) PROVE TypeOK'
    <2>1. rec' \in [Devices -> Record \cup {NoRecord}]
      BY <1>0, <1>24, ReloadFacts DEF Crash, TypeOK
    <2>2. deliver' \in [Deliverers -> [at : DeliverySteps, handed : BOOLEAN]]
      BY <1>0, <1>24 DEF Crash, TypeOK, Idle
    <2>3. /\ read' \in [Readers -> [at : {"idle", "creating", "draining"}, from : Devices]]
          /\ drain' \in [Readers \cup Drainers -> {"none", "start", "listed", "emitted"}]
          /\ online' \in BOOLEAN
      <3>1. NotReading \in [at : {"idle", "creating", "draining"}, from : Devices]
        BY <1>0 DEF NotReading
      <3>2. CASE d = Recipient
        BY <1>24, <3>1, <3>2 DEF Crash
      <3>3. CASE d # Recipient
        BY <1>24, <3>3 DEF Crash, TypeOK
      <3> QED BY <3>2, <3>3
    <2> QED BY <1>24, <2>1, <2>2, <2>3 DEF Crash, TypeOK
  <1>25. CASE UNCHANGED vars
    BY <1>25 DEF vars, TypeOK
  <1> QED
    BY <1>1, <1>2, <1>3, <1>4, <1>5, <1>6, <1>7, <1>8, <1>9, <1>10, <1>11, <1>12,
       <1>13, <1>14, <1>15, <1>16, <1>17, <1>18, <1>19, <1>20, <1>21, <1>22, <1>23,
       <1>24, <1>25 DEF Next, DeliveryStep, HandoffStep, HandlerStep, DrainStep

-----------------------------------------------------------------------------
(* What one step can do to a record. *)

\* Reload, or Create of an item that exists.
Touched(d) ==
  /\ rec[d] # NoRecord /\ rec'[d] \in Record
  /\ rec'[d].has = rec[d].has /\ rec'[d].last \in {rec[d].last, "created"}

Created(d) == d = Recipient /\ received' /\ rec'[d] = NewRecord

\* An event is appended, one that claims something only when it is so.
Appended(d, e) ==
  /\ rec[d] # NoRecord /\ rec'[d] \in Record
  /\ rec'[d].last = e /\ rec'[d].has = rec[d].has \cup ({e} \cap Marks)
  /\ d = Sender /\ e = "delivered" => received
  /\ d = Sender /\ e \in {"expired", "dead_lettered"} => closed'
  /\ e = "handed_off" => d \in dropbox

Removed(d) == rec'[d] = NoRecord /\ (d = Sender => received \/ closed)

RecordStep(d) ==
  \/ rec'[d] = rec[d] \/ Touched(d) \/ Created(d) \/ Removed(d)
  \/ \E e \in Events : Appended(d, e)

\* The history and the relays only grow.
HistoryGrows ==
  (received => received') /\ (closed => closed') /\ dropbox \subseteq dropbox'

LEMMA HistoryStep ==
  ASSUME TypeOK, [Next]_vars
  PROVE  HistoryGrows
  <1> USE DEF HistoryGrows, relay, history, vars
  <1>1. ASSUME NEW p \in Deliverers,
               \/ DrainNetworkOutbox(p) \/ Retry(p) \/ Delivered(p) \/ LiveFails(p)
               \/ HandlerStep(p) \/ DeliveryStep(p) \/ HandoffStep(p)
        PROVE  HistoryGrows
    BY <1>1 DEF DrainNetworkOutbox, Retry, Delivered, LiveFails, HandlerStep,
       HandlerGet, HandlerCreate, TooLate, DeliveryStep, Attempt, CheckCurrent,
       HandedOff, DeliveryFailed, HandoffStep, HandoffItem, HandoffFails
  <1>2. ASSUME NEW q \in Readers,
               \/ \E from \in Devices : ReadItem(q, from)
               \/ IngestCreate(q) \/ PublishReceipt(q)
        PROVE  HistoryGrows
    BY <1>2 DEF ReadItem, IngestCreate, PublishReceipt
  <1>3. ASSUME NEW q \in Readers \cup Drainers, DrainStep(q) PROVE HistoryGrows
    BY <1>3 DEF DrainStep, DrainList, DrainEmit, DrainDelivered
  <1>4. ASSUME NEW d \in Devices,
               IngestReceipt(d) \/ SweepList(d) \/ SweepAct(d) \/ Crash(d)
        PROVE  HistoryGrows
    <2>1. closed \in BOOLEAN
      BY DEF TypeOK
    <2>2. CASE SweepAct(d)
      BY <2>1, <2>2 DEF SweepAct
    <2>3. CASE IngestReceipt(d) \/ SweepList(d) \/ Crash(d)
      BY <2>3 DEF IngestReceipt, SweepList, Crash
    <2> QED BY <1>4, <2>2, <2>3
  <1>5. CASE Register \/ UNCHANGED vars
    BY <1>5 DEF Register
  <1> QED BY <1>1, <1>2, <1>3, <1>4, <1>5 DEF Next

\* The outbound side.
LEMMA OutboundRecords ==
  ASSUME DeliveryInv, NEW p \in Deliverers, NEW d \in Devices,
         \/ DrainNetworkOutbox(p) \/ Retry(p) \/ Delivered(p) \/ LiveFails(p)
         \/ HandlerStep(p) \/ DeliveryStep(p) \/ HandoffStep(p)
  PROVE  RecordStep(d)
  <1> USE DEF DeliveryInv, history
  <1>0. /\ Home[p] \in Devices /\ rec[d] \in Record \cup {NoRecord}
        /\ Events = {"created", "delivery_attempted", "delivery_failed", "handed_off",
                     "delivered", "expired", "dead_lettered"}
        /\ \A x \in {"idle", "listed", "calling", "handing", "handed", "recording",
                     "undelivered"} : x \in DeliverySteps
    BY HomeIsDevice DEF TypeOK, Events, DeliverySteps
  <1>1. ASSUME NEW e \in Events, NEW then \in DeliverySteps, AppendBy(Home[p], p, e, then),
               e = "delivered" => received,
               e = "handed_off" => Home[p] \in dropbox,
               e \notin {"expired", "dead_lettered"}
        PROVE  RecordStep(d)
    <2>0. /\ \A x \in Devices \ {Home[p]} : rec'[x] = rec[x]
          /\ rec[Home[p]] = NoRecord => rec'[Home[p]] = NoRecord
          /\ rec[Home[p]] # NoRecord =>
               rec[Home[p]] \in Record /\ rec'[Home[p]] = Append(rec[Home[p]], e)
      BY <1>0, <1>1 DEF AppendBy, TypeOK
    <2>1. CASE d = Home[p] /\ rec[d] # NoRecord
      <3>1. rec[d] \in Record /\ rec'[d] = Append(rec[d], e)
        BY <2>0, <2>1
      <3>2. /\ rec'[d] \in Record /\ rec'[d].last = e
            /\ rec'[d].has = rec[d].has \cup ({e} \cap Marks)
        BY <3>1, AppendFacts
      <3>3. Appended(d, e)
        BY <1>1, <2>1, <3>2 DEF Appended
      <3> QED BY <3>3 DEF RecordStep
    <2>2. CASE ~ (d = Home[p] /\ rec[d] # NoRecord)
      <3>1. rec'[d] = rec[d]
        BY <2>0, <2>2
      <3> QED BY <3>1 DEF RecordStep
    <2> QED BY <2>1, <2>2
  <1>2. CASE UNCHANGED rec
    BY <1>2 DEF RecordStep
  <1>3. CASE DrainNetworkOutbox(p)
    <2>1. rec'[d] = rec[d] \/ rec'[d] = Reload(rec[d])
      BY <1>0, <1>3 DEF DrainNetworkOutbox, TypeOK
    <2>2. rec'[d] = Reload(rec[d]) => rec'[d] = rec[d] \/ Touched(d)
      BY <1>0, ReloadFacts DEF Touched
    <2> QED BY <2>1, <2>2 DEF RecordStep
  <1>4. CASE Delivered(p)
    <2>1. received
      BY <1>4 DEF Delivered, ArrivalInv
    <2> QED BY <1>0, <1>1, <1>4, <2>1 DEF Delivered
  <1>5. CASE LiveFails(p)
    BY <1>0, <1>1, <1>2, <1>5 DEF LiveFails
  <1>6. CASE Attempt(p)
    BY <1>0, <1>1, <1>6 DEF Attempt
  <1>7. CASE HandedOff(p)
    <2>1. Home[p] \in dropbox
      BY <1>7 DEF HandedOff, HandedInv
    <2> QED BY <1>0, <1>1, <1>7, <2>1 DEF HandedOff
  <1>8. CASE DeliveryFailed(p)
    BY <1>0, <1>1, <1>8 DEF DeliveryFailed
  <1>9. CASE HandlerCreate(p)
    <2>1. received' /\ (rec'[d] = rec[d] \/ (d = Recipient /\ rec'[d] = Create(rec[d])))
      BY <1>9 DEF HandlerCreate, TypeOK
    <2>2. CASE rec'[d] = rec[d]
      BY <2>2 DEF RecordStep
    <2>3. CASE d = Recipient /\ rec'[d] = Create(rec[d])
      <3>1. Created(d) \/ Touched(d)
        BY <1>0, <2>1, <2>3, CreateFacts DEF Created, Touched, Create
      <3> QED BY <3>1 DEF RecordStep
    <2> QED BY <2>1, <2>2, <2>3
  <1>10. CASE Retry(p) \/ HandlerGet(p) \/ TooLate(p) \/ CheckCurrent(p)
              \/ HandoffItem(p) \/ HandoffFails(p)
    BY <1>2, <1>10 DEF Retry, HandlerGet, TooLate, CheckCurrent, HandoffItem, HandoffFails
  <1> QED BY <1>3, <1>4, <1>5, <1>6, <1>7, <1>8, <1>9, <1>10
          DEF HandlerStep, DeliveryStep, HandoffStep

\* The inbound side, the local drain and the lifecycle.
LEMMA OtherRecords ==
  ASSUME DeliveryInv, NEW d \in Devices,
         \/ \E q \in Readers :
              \/ \E from \in Devices : ReadItem(q, from)
              \/ IngestCreate(q) \/ PublishReceipt(q)
         \/ \E q \in Readers \cup Drainers : DrainStep(q)
         \/ Register
         \/ \E x \in Devices : IngestReceipt(x) \/ SweepList(x) \/ SweepAct(x) \/ Crash(x)
         \/ UNCHANGED vars
  PROVE  RecordStep(d)
  <1> USE DEF DeliveryInv
  <1>0. /\ rec[d] \in Record \cup {NoRecord} /\ Sender # Recipient
        /\ Recipient \in Devices
        /\ Events = {"created", "delivery_attempted", "delivery_failed", "handed_off",
                     "delivered", "expired", "dead_lettered"}
    BY HomeIsDevice DEF TypeOK, Events, Devices
  <1>1. CASE UNCHANGED rec
    BY <1>1 DEF RecordStep
  <1>2. ASSUME rec'[d] = Reload(rec[d]) PROVE RecordStep(d)
    BY <1>0, <1>2, ReloadFacts DEF RecordStep, Touched, Reload
  <1>3. ASSUME rec[d] \in Record, NEW e \in Events, rec'[d] = Append(rec[d], e),
               d = Sender /\ e = "delivered" => received,
               d = Sender /\ e \in {"expired", "dead_lettered"} => closed',
               e # "handed_off"
        PROVE  RecordStep(d)
    <2>1. Appended(d, e)
      BY <1>3, AppendFacts, NoRecordIsNoRecord DEF Appended
    <2> QED BY <2>1 DEF RecordStep
  <1>4. ASSUME NEW q \in Readers, IngestCreate(q) PROVE RecordStep(d)
    <2>1. received' /\ (rec'[d] = rec[d] \/ (d = Recipient /\ rec'[d] = Create(rec[d])))
      BY <1>4 DEF IngestCreate, TypeOK
    <2>2. CASE d = Recipient /\ rec'[d] = Create(rec[d])
      <3>1. Created(d) \/ Touched(d)
        BY <1>0, <2>1, <2>2, CreateFacts DEF Created, Touched, Create
      <3> QED BY <3>1 DEF RecordStep
    <2> QED BY <2>1, <2>2 DEF RecordStep
  <1>5. ASSUME NEW q \in Readers,
               (\E from \in Devices : ReadItem(q, from)) \/ PublishReceipt(q)
        PROVE  RecordStep(d)
    BY <1>1, <1>5 DEF ReadItem, PublishReceipt
  <1>6. ASSUME NEW q \in Readers \cup Drainers, DrainStep(q) PROVE RecordStep(d)
    <2>1. CASE d # Recipient
      <3>1. rec'[d] = rec[d]
        BY <1>6, <2>1 DEF DrainStep, DrainList, DrainEmit, DrainDelivered, TypeOK
      <3> QED BY <3>1 DEF RecordStep
    <2>2. CASE d = Recipient /\ DrainList(q)
      BY <1>0, <1>2, <2>2 DEF DrainList, TypeOK
    <2>3. CASE d = Recipient /\ rec[d] = NoRecord /\ (DrainEmit(q) \/ DrainDelivered(q))
      <3>1. UNCHANGED rec
        BY <2>3 DEF DrainEmit, DrainDelivered
      <3> QED BY <1>1, <3>1
    <2>4. CASE d = Recipient /\ rec[d] # NoRecord /\ DrainEmit(q)
      <3>1. rec[d] \in Record /\ rec'[d] = Append(rec[d], "delivery_attempted")
        BY <1>0, <2>4 DEF DrainEmit, TypeOK
      <3> QED BY <1>0, <1>3, <2>4, <3>1
    <2>5. CASE d = Recipient /\ rec[d] # NoRecord /\ DrainDelivered(q)
      <3>1. rec[d] \in Record /\ rec'[d] = Append(rec[d], "delivered")
        BY <1>0, <2>5 DEF DrainDelivered, TypeOK
      <3> QED BY <1>0, <1>3, <2>5, <3>1
    <2> QED BY <1>6, <2>1, <2>2, <2>3, <2>4, <2>5 DEF DrainStep
  <1>7. ASSUME NEW x \in Devices, IngestReceipt(x) PROVE RecordStep(d)
    <2>1. CASE d # x
      <3>1. rec'[d] = rec[d]
        BY <1>7, <2>1 DEF IngestReceipt, TypeOK
      <3> QED BY <3>1 DEF RecordStep
    <2>2. CASE d = x
      <3>1. received
        BY <1>7 DEF IngestReceipt, ArrivalInv
      <3>2. rec[d] \in Record /\ rec[d] # NoRecord
        BY <1>0, <1>7, <2>2 DEF IngestReceipt
      <3> DEFINE a == Append(rec[d], "delivered")
      <3>3. a \in Record /\ a.last = "delivered" /\ a.has = rec[d].has \cup ({"delivered"} \cap Marks)
        BY <1>0, <3>2, AppendFacts
      <3>4. rec'[d] = [a EXCEPT !.receipted = TRUE]
        BY <1>7, <2>2 DEF IngestReceipt, TypeOK
      <3> HIDE DEF a
      <3>5. rec'[d] \in Record /\ rec'[d].last = a.last /\ rec'[d].has = a.has
        BY <3>3, <3>4 DEF Record
      <3>6. Appended(d, "delivered")
        BY <3>1, <3>2, <3>3, <3>5 DEF Appended
      <3> QED BY <1>0, <3>6 DEF RecordStep
    <2> QED BY <2>1, <2>2
  <1>8. ASSUME NEW x \in Devices, SweepAct(x) PROVE RecordStep(d)
    <2>1. CASE d # x
      <3>1. rec'[d] = rec[d]
        BY <1>8, <2>1 DEF SweepAct, TypeOK
      <3> QED BY <3>1 DEF RecordStep
    <2>2. CASE d = x /\ sweep[d] = "compact"
      <3>1. rec'[d] = NoRecord
        BY <1>8, <2>2 DEF SweepAct, TypeOK
      <3>2. d = Sender => received \/ closed
        BY <2>2 DEF CompactInv
      <3> QED BY <3>1, <3>2 DEF RecordStep, Removed
    <2>3. CASE d = x /\ sweep[d] # "compact" /\ rec[d] = NoRecord
      <3>1. rec'[d] = rec[d]
        BY <1>8, <2>3 DEF SweepAct, TypeOK
      <3> QED BY <3>1 DEF RecordStep
    <2>4. CASE d = x /\ sweep[d] # "compact" /\ rec[d] # NoRecord
      <3>1. sweep[d] \in {"expired", "dead_lettered"}
        BY <1>8, <2>4 DEF SweepAct, TypeOK
      <3>2. rec[d] \in Record /\ rec'[d] = Append(rec[d], sweep[d])
        BY <1>0, <1>8, <2>4 DEF SweepAct, TypeOK
      <3>3. d = Sender => closed'
        BY <1>8, <2>4 DEF SweepAct
      <3> QED BY <1>0, <1>3, <3>1, <3>2, <3>3
    <2> QED BY <2>1, <2>2, <2>3, <2>4
  <1>9. ASSUME NEW x \in Devices, Crash(x) PROVE RecordStep(d)
    <2>1. rec'[d] = rec[d] \/ rec'[d] = Reload(rec[d])
      BY <1>9 DEF Crash, TypeOK
    <2> QED BY <1>2, <2>1 DEF RecordStep
  <1>10. ASSUME NEW x \in Devices, SweepList(x) PROVE RecordStep(d)
    BY <1>1, <1>10 DEF SweepList
  <1>11. CASE Register \/ UNCHANGED vars
    BY <1>1, <1>11 DEF Register, vars
  <1> QED BY <1>4, <1>5, <1>6, <1>7, <1>8, <1>9, <1>10, <1>11

LEMMA RecordSteps ==
  ASSUME DeliveryInv, [Next]_vars, NEW d \in Devices
  PROVE  RecordStep(d)
  BY OutboundRecords, OtherRecords DEF Next

-----------------------------------------------------------------------------
(* The steps. *)

LEMMA DeliveryInit == Init => DeliveryInv
  <1> SUFFICES ASSUME Init PROVE DeliveryInv
    OBVIOUS
  <1>1. rec[Sender] = NewRecord /\ rec[Recipient] = NoRecord /\ NewRecord # NoRecord
        /\ \A d \in Devices : rec[d] \in {NewRecord, NoRecord}
    BY HomeIsDevice, CreateFacts, NoRecordIsNoRecord DEF Init, Devices
  <1>2. NewRecord.has = {} /\ NewRecord.last = "created"
    BY DEF NewRecord
  <1>3. ArrivalInv
    BY <1>1 DEF Init, ArrivalInv, NotReading
  <1>4. SenderInv
    BY <1>1, <1>2 DEF SenderInv
  <1>5. CompactInv
    BY DEF Init, CompactInv, Devices
  <1>6. HandoffIsStored /\ HandedInv
    BY <1>1, <1>2 DEF Init, HandoffIsStored, HandedInv, Idle
  <1> QED BY <1>3, <1>4, <1>5, <1>6, TypeInit DEF DeliveryInv

\* What the sender's record says stays so.
LEMMA SenderStep ==
  ASSUME DeliveryInv, [Next]_vars
  PROVE  SenderInv'
  <1>1. RecordStep(Sender) /\ HistoryGrows
    BY RecordSteps, HistoryStep DEF DeliveryInv, Devices
  <1>2. SenderInv /\ Sender # Recipient
    BY HomeIsDevice DEF DeliveryInv
  <1>3. CASE rec'[Sender] = rec[Sender]
    BY <1>1, <1>2, <1>3 DEF SenderInv, HistoryGrows
  <1>4. CASE Touched(Sender)
    BY <1>1, <1>2, <1>4, NoRecordIsNoRecord DEF SenderInv, HistoryGrows, Touched
  <1>5. CASE Removed(Sender)
    BY <1>1, <1>5 DEF SenderInv, HistoryGrows, Removed
  <1>6. ASSUME NEW e \in Events, Appended(Sender, e) PROVE SenderInv'
    BY <1>1, <1>2, <1>6, NoRecordIsNoRecord DEF SenderInv, HistoryGrows, Appended
  <1> QED BY <1>1, <1>2, <1>3, <1>4, <1>5, <1>6 DEF RecordStep, Created

\* A sign of an arrival is given only by a step that found the item stored, or
\* stored it.
LEMMA ArrivalStep ==
  ASSUME DeliveryInv, [Next]_vars
  PROVE  ArrivalInv'
  <1> USE DEF DeliveryInv
  <1>0. RecordStep(Recipient) /\ HistoryGrows
    BY RecordSteps, HistoryStep DEF Devices
  <1>1. rec'[Recipient] # NoRecord => received'
    BY <1>0 DEF RecordStep, Touched, Created, Removed, Appended, HistoryGrows, ArrivalInv
  <1>2. (\A p \in Deliverers : handler'[p] = "answered" => received')
        /\ (\A q \in Readers : read'[q].at = "draining" => received')
        /\ (receipts' # {} => received')
    <2> DEFINE Goal == /\ \A p \in Deliverers : handler'[p] = "answered" => received'
                       /\ \A q \in Readers : read'[q].at = "draining" => received'
                       /\ receipts' # {} => received'
    <2> HIDE DEF Goal
    <2>1. ASSUME UNCHANGED <<handler, read, receipts>> PROVE Goal
      BY <1>0, <2>1 DEF Goal, HistoryGrows, ArrivalInv
    <2>2. ASSUME NEW p \in Deliverers, HandlerStep(p) \/ Attempt(p) \/ Delivered(p) PROVE Goal
      <3>1. UNCHANGED <<read, receipts>>
        BY <2>2 DEF HandlerStep, HandlerGet, HandlerCreate, TooLate, Attempt, Delivered, relay
      <3>2. ASSUME NEW x \in Deliverers, handler'[x] = "answered" PROVE received'
        <4>1. CASE handler[x] = "answered"
          BY <1>0, <4>1 DEF HistoryGrows, ArrivalInv
        <4>2. CASE handler[x] # "answered"
          <5>1. CASE HandlerGet(p)
            <6>1. x = p /\ rec[Recipient] # NoRecord
              BY <3>2, <4>2, <5>1 DEF HandlerGet, TypeOK
            <6> QED BY <1>0, <6>1 DEF HistoryGrows, ArrivalInv
          <5>2. CASE HandlerCreate(p)
            BY <5>2 DEF HandlerCreate
          <5>3. CASE TooLate(p) \/ Attempt(p) \/ Delivered(p)
            BY <3>2, <4>2, <5>3 DEF TooLate, Attempt, Delivered, TypeOK
          <5> QED BY <2>2, <5>1, <5>2, <5>3 DEF HandlerStep
        <4> QED BY <4>1, <4>2
      <3> QED BY <1>0, <3>1, <3>2 DEF Goal, HistoryGrows, ArrivalInv
    <2>3. ASSUME NEW p \in Deliverers,
                 \/ DrainNetworkOutbox(p) \/ Retry(p) \/ LiveFails(p) \/ CheckCurrent(p)
                 \/ HandedOff(p) \/ DeliveryFailed(p) \/ HandoffStep(p)
          PROVE  Goal
      BY <2>1, <2>3 DEF DrainNetworkOutbox, Retry, LiveFails, CheckCurrent, HandedOff,
         DeliveryFailed, HandoffStep, HandoffItem, HandoffFails, relay
    <2>4. ASSUME NEW q \in Readers, NEW from \in Devices, ReadItem(q, from) PROVE Goal
      <3>1. UNCHANGED <<handler, receipts>>
        BY <2>4 DEF ReadItem, relay
      <3>2. ASSUME NEW x \in Readers, read'[x].at = "draining"
            PROVE  read[x].at = "draining" \/ rec[Recipient] # NoRecord
        BY <2>4, <3>2 DEF ReadItem, TypeOK
      <3> QED BY <1>0, <3>1, <3>2 DEF Goal, HistoryGrows, ArrivalInv
    <2>5. ASSUME NEW q \in Readers, IngestCreate(q) PROVE Goal
      BY <2>5 DEF Goal, IngestCreate
    <2>6. ASSUME NEW q \in Readers, PublishReceipt(q) PROVE Goal
      <3>1. UNCHANGED handler /\ received
        BY <2>6 DEF PublishReceipt, ArrivalInv
      <3> QED BY <1>0, <3>1 DEF Goal, HistoryGrows
    <2>7. ASSUME NEW q \in Readers \cup Drainers, DrainStep(q) PROVE Goal
      BY <2>1, <2>7 DEF DrainStep, DrainList, DrainEmit, DrainDelivered, relay
    <2>8. ASSUME NEW d \in Devices, IngestReceipt(d) \/ SweepList(d) \/ SweepAct(d) PROVE Goal
      BY <2>1, <2>8 DEF IngestReceipt, SweepList, SweepAct, relay, goroutines
    <2>9. ASSUME NEW d \in Devices, Crash(d) PROVE Goal
      <3>1. /\ \A p \in Deliverers : handler'[p] \in {handler[p], "none"}
            /\ \A q \in Readers : read'[q] \in {read[q], NotReading}
            /\ UNCHANGED receipts
        BY <2>9 DEF Crash, TypeOK, relay
      <3>2. NotReading.at = "idle"
        BY DEF NotReading
      <3> QED BY <1>0, <3>1, <3>2 DEF Goal, HistoryGrows, ArrivalInv
    <2>10. ASSUME Register \/ UNCHANGED vars PROVE Goal
      BY <2>1, <2>10 DEF Register, vars, relay, goroutines
    <2>11. Goal
      BY <2>2, <2>3, <2>4, <2>5, <2>6, <2>7, <2>8, <2>9, <2>10
         DEF Next, DeliveryStep, HandlerStep
    <2> QED BY <2>11 DEF Goal
  <1> QED BY <1>1, <1>2 DEF ArrivalInv

LEMMA CompactStep ==
  ASSUME DeliveryInv, [Next]_vars
  PROVE  CompactInv'
  <1> USE DEF DeliveryInv
  <1>0. HistoryGrows /\ Sender \in Devices
    BY HistoryStep DEF Devices
  <1>1. ASSUME UNCHANGED sweep PROVE CompactInv'
    BY <1>0, <1>1 DEF CompactInv, HistoryGrows
  <1>2. ASSUME NEW p \in Deliverers,
               \/ DrainNetworkOutbox(p) \/ Retry(p) \/ Delivered(p) \/ LiveFails(p)
               \/ HandlerStep(p) \/ DeliveryStep(p) \/ HandoffStep(p)
        PROVE  CompactInv'
    BY <1>1, <1>2 DEF DrainNetworkOutbox, Retry, Delivered, LiveFails, HandlerStep,
       HandlerGet, HandlerCreate, TooLate, DeliveryStep, Attempt, CheckCurrent,
       HandedOff, DeliveryFailed, HandoffStep, HandoffItem, HandoffFails
  <1>3. ASSUME NEW q \in Readers,
               \/ \E from \in Devices : ReadItem(q, from)
               \/ IngestCreate(q) \/ PublishReceipt(q)
        PROVE  CompactInv'
    BY <1>1, <1>3 DEF ReadItem, IngestCreate, PublishReceipt
  <1>4. ASSUME NEW q \in Readers \cup Drainers, DrainStep(q) PROVE CompactInv'
    BY <1>1, <1>4 DEF DrainStep, DrainList, DrainEmit, DrainDelivered
  <1>5. ASSUME NEW d \in Devices, SweepList(d) PROVE CompactInv'
    <2>1. PICK ttl \in TtlPassed(rec[d]), aged \in BOOLEAN :
            sweep' = [sweep EXCEPT ![d] = SweepRecord(rec[d], ttl, aged)]
      BY <1>5 DEF SweepList
    <2>2. CASE d # Sender
      BY <1>0, <2>1, <2>2 DEF CompactInv, HistoryGrows, TypeOK
    <2>3. CASE d = Sender
      <3>1. rec[Sender] \in Record /\ rec[Sender] # NoRecord /\ ttl \in BOOLEAN
        BY <1>5, <2>3 DEF SweepList, TypeOK, TtlPassed
      <3>2. sweep'[Sender] = SweepRecord(rec[Sender], ttl, aged)
        BY <2>1, <2>3 DEF TypeOK
      <3>3. sweep'[Sender] = "compact" =>
              rec[Sender].last \in {"delivered", "expired", "dead_lettered"}
        BY <3>1, <3>2, SweepFacts
      <3> QED BY <1>0, <3>1, <3>3 DEF CompactInv, HistoryGrows, SenderInv
    <2> QED BY <2>2, <2>3
  <1>6. ASSUME NEW d \in Devices, SweepAct(d) \/ Crash(d) PROVE CompactInv'
    <2>1. sweep'[Sender] \in {sweep[Sender], "none"}
      BY <1>0, <1>6 DEF SweepAct, Crash, TypeOK
    <2> QED BY <1>0, <2>1 DEF CompactInv, HistoryGrows
  <1>7. ASSUME NEW d \in Devices, IngestReceipt(d) PROVE CompactInv'
    BY <1>1, <1>7 DEF IngestReceipt, goroutines
  <1>8. CASE Register \/ UNCHANGED vars
    BY <1>1, <1>8 DEF Register, vars, goroutines
  <1> QED BY <1>2, <1>3, <1>4, <1>5, <1>6, <1>7, <1>8 DEF Next

\* A record that says "handed_off" is one of a device whose handoff is stored.
LEMMA HandoffRecords ==
  ASSUME DeliveryInv, [Next]_vars, NEW d \in Devices,
         rec'[d] # NoRecord, "handed_off" \in rec'[d].has
  PROVE  d \in dropbox'
  <1>1. RecordStep(d) /\ HistoryGrows
    BY RecordSteps, HistoryStep DEF DeliveryInv
  <1>2. rec[d] # NoRecord /\ "handed_off" \in rec[d].has => d \in dropbox
    BY DEF DeliveryInv, HandoffIsStored
  <1>3. NewRecord.has = {}
    BY DEF NewRecord
  <1>4. ASSUME NEW e \in Events, Appended(d, e) PROVE d \in dropbox'
    BY <1>1, <1>2, <1>4 DEF Appended, HistoryGrows
  <1> QED BY <1>1, <1>2, <1>3, <1>4 DEF RecordStep, Touched, Created, Removed, HistoryGrows

LEMMA HandedStep ==
  ASSUME DeliveryInv, [Next]_vars
  PROVE  HandedInv' /\ HandoffIsStored'
  <1> USE DEF DeliveryInv
  <1> DEFINE Good(x) == /\ deliver[x].handed => Home[x] \in dropbox
                        /\ deliver[x].at \in {"handed", "recording"} => Home[x] \in dropbox
  <1>0. HistoryGrows /\ \A x \in Deliverers : Home[x] \in Devices /\ Good(x)
    BY HistoryStep, HomeIsDevice DEF HandoffIsStored, HandedInv
  <1>1. SUFFICES \A x \in Deliverers : Good(x)'
    BY HandoffRecords DEF HandoffIsStored, HandedInv
  <1>2. ASSUME UNCHANGED deliver PROVE \A x \in Deliverers : Good(x)'
    BY <1>0, <1>2 DEF HistoryGrows
  <1>3. ASSUME NEW p \in Deliverers, \A x \in Deliverers \ {p} : deliver'[x] = deliver[x],
               Good(p)'
        PROVE  \A x \in Deliverers : Good(x)'
    BY <1>0, <1>3 DEF HistoryGrows
  <1>4. ASSUME NEW p \in Deliverers, \A x \in Deliverers \ {p} : deliver'[x] = deliver[x],
               deliver'[p].handed \in {deliver[p].handed, FALSE},
               deliver'[p].at \in {"handed", "recording"} => Home[p] \in dropbox'
        PROVE  \A x \in Deliverers : Good(x)'
    <2>1. Good(p)'
      BY <1>0, <1>4 DEF HistoryGrows
    <2> QED BY <1>3, <1>4, <2>1
  <1>5. ASSUME NEW p \in Deliverers, DrainNetworkOutbox(p) \/ Retry(p)
        PROVE  \A x \in Deliverers : Good(x)'
    <2>1. rec[Home[p]] # NoRecord
      <3>1. rec[Home[p]] \in Record \cup {NoRecord}
        BY <1>0 DEF TypeOK
      <3> QED BY <1>5, <3>1, ReloadFacts DEF DrainNetworkOutbox, Retry, OutboxPending
    <2>2. deliver' = [deliver EXCEPT ![p] =
                        [at |-> "listed", handed |-> "handed_off" \in rec[Home[p]].has]]
      BY <1>5 DEF DrainNetworkOutbox, Retry
    <2>3. /\ \A x \in Deliverers \ {p} : deliver'[x] = deliver[x]
          /\ deliver'[p].at = "listed"
          /\ deliver'[p].handed <=> "handed_off" \in rec[Home[p]].has
      BY <2>1, <2>2, ListedFacts
    <2>4. Good(p)'
      BY <1>0, <2>1, <2>3 DEF HistoryGrows, HandoffIsStored
    <2> QED BY <1>3, <2>3, <2>4
  <1>6. ASSUME NEW p \in Deliverers,
               Attempt(p) \/ Delivered(p) \/ HandedOff(p) \/ DeliveryFailed(p)
        PROVE  \A x \in Deliverers : Good(x)'
    <2>1. /\ \A x \in Deliverers \ {p} : deliver'[x] = deliver[x]
          /\ deliver'[p].handed \in {deliver[p].handed, FALSE}
          /\ deliver'[p].at \in {"idle", "calling"}
      BY <1>0, <1>6, AppendByFacts
         DEF Attempt, Delivered, HandedOff, DeliveryFailed, Events, DeliverySteps
    <2> QED BY <1>4, <2>1
  <1>7. ASSUME NEW p \in Deliverers, LiveFails(p) PROVE \A x \in Deliverers : Good(x)'
    <2>1. /\ \A x \in Deliverers \ {p} : deliver'[x] = deliver[x]
          /\ deliver'[p].handed \in {deliver[p].handed, FALSE}
          /\ deliver'[p].at \in {"idle", "handing"}
      <3>1. CASE deliver[p].handed
        BY <1>7, <3>1, GotoFacts DEF LiveFails, DeliverySteps
      <3>2. CASE ~ deliver[p].handed
        BY <1>0, <1>7, <3>2, AppendByFacts DEF LiveFails, Events, DeliverySteps
      <3> QED BY <3>1, <3>2
    <2> QED BY <1>4, <2>1
  <1>8. ASSUME NEW p \in Deliverers, HandoffItem(p) PROVE \A x \in Deliverers : Good(x)'
    <2>1. /\ \A x \in Deliverers \ {p} : deliver'[x] = deliver[x]
          /\ deliver'[p].handed \in {deliver[p].handed, FALSE}
          /\ Home[p] \in dropbox'
      BY <1>8, GotoFacts DEF HandoffItem, DeliverySteps
    <2> QED BY <1>4, <2>1
  <1>9. ASSUME NEW p \in Deliverers, HandoffFails(p) PROVE \A x \in Deliverers : Good(x)'
    <2>1. /\ \A x \in Deliverers \ {p} : deliver'[x] = deliver[x]
          /\ deliver'[p].handed \in {deliver[p].handed, FALSE}
          /\ deliver'[p].at = "undelivered"
      BY <1>9, GotoFacts DEF HandoffFails, DeliverySteps
    <2> QED BY <1>4, <2>1
  <1>10. ASSUME NEW p \in Deliverers, CheckCurrent(p) PROVE \A x \in Deliverers : Good(x)'
    <2>1. /\ \A x \in Deliverers \ {p} : deliver'[x] = deliver[x]
          /\ deliver'[p].handed \in {deliver[p].handed, FALSE}
      BY <1>10, GotoFacts DEF CheckCurrent, DeliverySteps
    <2>2. Home[p] \in dropbox'
      BY <1>0, <1>10 DEF CheckCurrent, HistoryGrows
    <2> QED BY <1>4, <2>1, <2>2
  <1>11. ASSUME NEW p \in Deliverers, HandlerStep(p) PROVE \A x \in Deliverers : Good(x)'
    BY <1>2, <1>11 DEF HandlerStep, HandlerGet, HandlerCreate, TooLate
  <1>12. ASSUME NEW q \in Readers,
                \/ \E from \in Devices : ReadItem(q, from)
                \/ IngestCreate(q) \/ PublishReceipt(q)
         PROVE  \A x \in Deliverers : Good(x)'
    BY <1>2, <1>12 DEF ReadItem, IngestCreate, PublishReceipt
  <1>13. ASSUME NEW q \in Readers \cup Drainers, DrainStep(q)
         PROVE  \A x \in Deliverers : Good(x)'
    BY <1>2, <1>13 DEF DrainStep, DrainList, DrainEmit, DrainDelivered
  <1>14. ASSUME NEW d \in Devices, IngestReceipt(d) \/ SweepList(d) \/ SweepAct(d)
         PROVE  \A x \in Deliverers : Good(x)'
    BY <1>2, <1>14 DEF IngestReceipt, SweepList, SweepAct, goroutines
  <1>15. ASSUME NEW d \in Devices, Crash(d) PROVE \A x \in Deliverers : Good(x)'
    <2>1. \A x \in Deliverers : deliver'[x] = Idle \/ deliver'[x] = deliver[x]
      BY <1>15 DEF Crash
    <2>2. Idle.at = "idle" /\ Idle.handed = FALSE
      BY DEF Idle
    <2> QED BY <1>0, <2>1, <2>2 DEF HistoryGrows
  <1>16. CASE Register \/ UNCHANGED vars
    BY <1>2, <1>16 DEF Register, vars, goroutines
  <1> QED
    BY <1>5, <1>6, <1>7, <1>8, <1>9, <1>10, <1>11, <1>12, <1>13, <1>14, <1>15, <1>16
       DEF Next, DeliveryStep, HandoffStep

LEMMA DeliveryStepKeeps == DeliveryInv /\ [Next]_vars => DeliveryInv'
  BY TypeStep, SenderStep, ArrivalStep, CompactStep, HandedStep DEF DeliveryInv

\* DeliveryInv holds in every state.
THEOREM DeliveryInvariant == Spec => []DeliveryInv
  BY DeliveryInit, DeliveryStepKeeps, PTL DEF Spec

-----------------------------------------------------------------------------
(* The theorems. *)

\* The records and goroutines of NetDelivery keep their types: no append, sweep
\* or restart leaves a record, a delivery or a sweep in a state the code does
\* not know.
THEOREM DeliveryTypeCorrect == Spec => []TypeOK
  <1>1. DeliveryInv => TypeOK
    BY DEF DeliveryInv
  <1> QED BY <1>1, DeliveryInvariant, PTL

\* "delivered" in the sender's timeline means that the recipient's mailbox has
\* stored the item, however calls, answers, receipts, sweeps and restarts
\* interleave (deliverNetworkMailbox, ingestNetworkRelayReceipt).
THEOREM DeliveredIsTrue == Spec => []DeliveredMeansReceived
  <1>1. DeliveryInv => DeliveredMeansReceived
    BY DEF DeliveryInv, SenderInv, DeliveredMeansReceived
  <1> QED BY <1>1, DeliveryInvariant, PTL

\* A record that says "handed_off", and a deliverer that trusts it, has the item
\* on the relays (relayHandoffForRecord).
THEOREM HandoffIsTrue == Spec => []HandoffIsStored
  <1>1. DeliveryInv => HandoffIsStored
    BY DEF DeliveryInv
  <1> QED BY <1>1, DeliveryInvariant, PTL

\* The sender forgets an item only if the recipient has it or it was closed,
\* although a sweep acts on what it read before (compactRecord).
THEOREM ForgettingIsSafe == Spec => []ForgottenIsAccounted
  <1>1. DeliveryInv => ForgottenIsAccounted
    BY DEF DeliveryInv, SenderInv, ForgottenIsAccounted
  <1> QED BY <1>1, DeliveryInvariant, PTL

-----------------------------------------------------------------------------
(* When only the sender's device drains an outbox. *)

OutboxIsSenders == \A p \in Deliverers : Home[p] = Sender

\* What Recipient's record may be until its agent has been given the item.
Pending(r) ==
  \/ r.last \in {"created", "delivery_attempted"}
  \/ r.last = "delivered" /\ emitted
  \/ r.last = "expired" /\ "expired" \in r.has

\* Nobody hands off or confirms on Recipient's behalf ...
RelayInv ==
  /\ Recipient \notin dropbox /\ Recipient \notin receipts
  /\ \A q \in Readers : read[q].from = Sender

\* ... so its record is given up by no sweep, and delivered by local drains only.
PendingInv ==
  /\ sweep[Recipient] # "dead_lettered"
  /\ \A q \in Readers \cup Drainers : drain[q] = "emitted" => emitted
  /\ rec[Recipient] # NoRecord => Pending(rec[Recipient])

LEMMA RelayStep ==
  ASSUME OutboxIsSenders, TypeOK, RelayInv, [Next]_vars
  PROVE  RelayInv'
  <1>0. Sender # Recipient /\ NotReading.from = Sender
    BY HomeIsDevice DEF NotReading
  <1>1. ASSUME UNCHANGED <<dropbox, receipts, read>> PROVE RelayInv'
    BY <1>1 DEF RelayInv
  <1>2. ASSUME NEW p \in Deliverers,
               \/ DrainNetworkOutbox(p) \/ Retry(p) \/ Delivered(p) \/ LiveFails(p)
               \/ HandlerStep(p) \/ DeliveryStep(p)
        PROVE  RelayInv'
    BY <1>1, <1>2 DEF DrainNetworkOutbox, Retry, Delivered, LiveFails, HandlerStep,
       HandlerGet, HandlerCreate, TooLate, DeliveryStep, Attempt, CheckCurrent,
       HandedOff, DeliveryFailed, relay
  <1>3. ASSUME NEW p \in Deliverers, HandoffStep(p) PROVE RelayInv'
    <2>1. dropbox' \subseteq dropbox \cup {Sender} /\ UNCHANGED <<receipts, read>>
      BY <1>3 DEF HandoffStep, HandoffItem, HandoffFails, OutboxIsSenders
    <2> QED BY <1>0, <2>1 DEF RelayInv
  <1>4. ASSUME NEW q \in Readers, NEW from \in Devices, ReadItem(q, from) PROVE RelayInv'
    <2>1. from = Sender /\ UNCHANGED relay
      BY <1>4 DEF ReadItem, RelayInv, Devices
    <2>2. \A x \in Readers : read'[x].from \in {read[x].from, from}
      BY <1>4 DEF ReadItem, TypeOK
    <2> QED BY <2>1, <2>2 DEF RelayInv, relay
  <1>5. ASSUME NEW q \in Readers, IngestCreate(q) PROVE RelayInv'
    <2>1. UNCHANGED relay /\ \A x \in Readers : read'[x].from = read[x].from
      BY <1>5 DEF IngestCreate, TypeOK
    <2> QED BY <2>1 DEF RelayInv, relay
  <1>6. ASSUME NEW q \in Readers, PublishReceipt(q) PROVE RelayInv'
    <2>1. /\ UNCHANGED dropbox /\ receipts' \subseteq receipts \cup {read[q].from}
          /\ \A x \in Readers : read'[x] \in {read[x], NotReading}
      BY <1>6 DEF PublishReceipt, TypeOK
    <2> QED BY <1>0, <2>1 DEF RelayInv
  <1>7. ASSUME NEW q \in Readers \cup Drainers, DrainStep(q) PROVE RelayInv'
    BY <1>1, <1>7 DEF DrainStep, DrainList, DrainEmit, DrainDelivered, relay
  <1>8. ASSUME NEW d \in Devices, IngestReceipt(d) \/ SweepList(d) \/ SweepAct(d) PROVE RelayInv'
    BY <1>1, <1>8 DEF IngestReceipt, SweepList, SweepAct, relay, goroutines
  <1>9. ASSUME NEW d \in Devices, Crash(d) PROVE RelayInv'
    <2>1. UNCHANGED relay /\ \A x \in Readers : read'[x] \in {read[x], NotReading}
      BY <1>9 DEF Crash, TypeOK
    <2> QED BY <1>0, <2>1 DEF RelayInv, relay
  <1>10. CASE Register \/ UNCHANGED vars
    BY <1>1, <1>10 DEF Register, vars, relay, goroutines
  <1> QED BY <1>2, <1>3, <1>4, <1>5, <1>6, <1>7, <1>8, <1>9, <1>10 DEF Next

\* What Create, Reload and AppendEvent leave of a pending record.
LEMMA PendingRecords ==
  ASSUME NEW r \in Record, Pending(r)
  PROVE  /\ Pending(Create(r)) /\ Pending(Reload(r))
         /\ Pending(Append(r, "delivery_attempted")) /\ Pending(Append(r, "expired"))
         /\ emitted => Pending(Append(r, "delivered"))
  <1>1. r # NoRecord
    BY NoRecordIsNoRecord
  <1>2. Create(r).last = r.last /\ Create(r).has = r.has
    BY <1>1, CreateFacts
  <1>3. Reload(r).has = r.has /\ Reload(r).last \in {r.last, "created"}
    BY <1>1, ReloadFacts
  <1>4. ASSUME NEW e \in {"delivery_attempted", "expired", "delivered"}
        PROVE  Append(r, e).last = e /\ Append(r, e).has = r.has \cup ({e} \cap Marks)
    BY AppendFacts DEF Events
  <1>5. "expired" \in Marks
    BY DEF Marks
  <1> QED BY <1>2, <1>3, <1>4, <1>5 DEF Pending

LEMMA PendingStep ==
  ASSUME OutboxIsSenders, TypeOK, RelayInv, PendingInv, [Next]_vars
  PROVE  PendingInv'
  <1> DEFINE R == rec[Recipient]
  <1>0. /\ Sender # Recipient /\ Recipient \in Devices /\ Sender \in Devices
        /\ R \in Record \cup {NoRecord} /\ (R # NoRecord => R \in Record /\ Pending(R))
        /\ sweep[Recipient] # "dead_lettered" /\ emitted \in BOOLEAN
        /\ \A q \in Readers \cup Drainers : drain[q] = "emitted" => emitted
    BY HomeIsDevice DEF TypeOK, Devices, PendingInv
  <1>1. ASSUME rec'[Recipient] = R, UNCHANGED <<sweep, drain, emitted>> PROVE PendingInv'
    BY <1>0, <1>1 DEF PendingInv, Pending
  <1>2. ASSUME NEW p \in Deliverers,
               \/ DrainNetworkOutbox(p) \/ Retry(p) \/ Delivered(p) \/ LiveFails(p)
               \/ HandlerGet(p) \/ TooLate(p) \/ DeliveryStep(p) \/ HandoffStep(p)
        PROVE  PendingInv'
    <2>1. Home[p] = Sender
      BY DEF OutboxIsSenders
    <2>2. ASSUME NEW e, NEW then, AppendBy(Sender, p, e, then) PROVE rec'[Recipient] = R
      BY <1>0, <2>2 DEF AppendBy, TypeOK
    <2>3. rec'[Recipient] = R
      <3>1. CASE DrainNetworkOutbox(p)
        BY <1>0, <2>1, <3>1 DEF DrainNetworkOutbox, TypeOK
      <3>2. CASE Delivered(p) \/ LiveFails(p) \/ DeliveryStep(p)
        BY <2>1, <2>2, <3>2 DEF Delivered, LiveFails, DeliveryStep, Attempt, CheckCurrent,
           HandedOff, DeliveryFailed
      <3>3. CASE Retry(p) \/ HandlerGet(p) \/ TooLate(p) \/ HandoffStep(p)
        BY <3>3 DEF Retry, HandlerGet, TooLate, HandoffStep, HandoffItem, HandoffFails
      <3> QED BY <1>2, <3>1, <3>2, <3>3
    <2>4. UNCHANGED <<sweep, drain, emitted>>
      BY <1>2 DEF DrainNetworkOutbox, Retry, Delivered, LiveFails, HandlerGet, TooLate,
         DeliveryStep, Attempt, CheckCurrent, HandedOff, DeliveryFailed, HandoffStep,
         HandoffItem, HandoffFails, history
    <2> QED BY <1>1, <2>3, <2>4
  <1>3. Pending(NewRecord)
    BY DEF Pending, NewRecord
  <1>4. ASSUME rec'[Recipient] \in {R, Create(R), Reload(R)}, UNCHANGED <<sweep, emitted>>,
               \A q \in Readers \cup Drainers : drain'[q] = "emitted" => drain[q] = "emitted"
        PROVE  PendingInv'
    <2>1. Create(NoRecord) = NewRecord /\ Reload(NoRecord) = NoRecord
      BY DEF Create, Reload
    <2>2. rec'[Recipient] # NoRecord => Pending(rec'[Recipient])
      BY <1>0, <1>3, <1>4, <2>1, PendingRecords
    <2> QED BY <1>0, <1>4, <2>2 DEF PendingInv, Pending
  <1>5. ASSUME NEW p \in Deliverers, HandlerCreate(p) PROVE PendingInv'
    <2>1. /\ rec'[Recipient] = Create(R) /\ UNCHANGED <<sweep, emitted>>
          /\ \A q \in Readers \cup Drainers : drain'[q] = "emitted" => drain[q] = "emitted"
      BY <1>0, <1>5 DEF HandlerCreate, TypeOK
    <2> QED BY <1>4, <2>1
  <1>6. ASSUME NEW q \in Readers, (\E from \in Devices : ReadItem(q, from)) \/ IngestCreate(q)
        PROVE  PendingInv'
    <2>1. /\ rec'[Recipient] \in {R, Create(R)} /\ UNCHANGED <<sweep, emitted>>
          /\ drain' = drain \/ drain' = [drain EXCEPT ![q] = "start"]
      BY <1>0, <1>6 DEF ReadItem, IngestCreate, TypeOK, history
    <2>2. \A x \in Readers \cup Drainers : drain'[x] = "emitted" => drain[x] = "emitted"
      BY <2>1 DEF TypeOK
    <2> QED BY <1>4, <2>1, <2>2
  <1>7. ASSUME NEW q \in Readers, PublishReceipt(q) PROVE PendingInv'
    BY <1>1, <1>7 DEF PublishReceipt, history
  <1>8. ASSUME NEW q \in Readers \cup Drainers, DrainList(q) PROVE PendingInv'
    <2>1. /\ rec'[Recipient] = Reload(R) /\ UNCHANGED <<sweep, emitted>>
          /\ \A x \in Readers \cup Drainers : drain'[x] = "emitted" => drain[x] = "emitted"
      BY <1>0, <1>8 DEF DrainList, TypeOK, history
    <2> QED BY <1>4, <2>1
  <1>9. ASSUME NEW q \in Readers \cup Drainers, DrainEmit(q) PROVE PendingInv'
    <2>1. CASE R = NoRecord
      <3>1. /\ rec'[Recipient] = R /\ UNCHANGED <<sweep, emitted>>
            /\ \A x \in Readers \cup Drainers : drain'[x] = "emitted" => drain[x] = "emitted"
        BY <1>9, <2>1 DEF DrainEmit, TypeOK
      <3> QED BY <1>4, <3>1
    <2>2. CASE R # NoRecord
      <3>1. /\ rec'[Recipient] = Append(R, "delivery_attempted") /\ emitted' = TRUE
            /\ UNCHANGED sweep
        BY <1>0, <1>9, <2>2 DEF DrainEmit, TypeOK
      <3>2. Pending(Append(R, "delivery_attempted"))
        BY <1>0, <2>2, PendingRecords
      <3> QED BY <1>0, <3>1, <3>2 DEF PendingInv, Pending
    <2> QED BY <2>1, <2>2
  <1>10. ASSUME NEW q \in Readers \cup Drainers, DrainDelivered(q) PROVE PendingInv'
    <2>1. /\ UNCHANGED <<sweep, emitted>> /\ emitted
          /\ \A x \in Readers \cup Drainers : drain'[x] = "emitted" => drain[x] = "emitted"
      BY <1>0, <1>10 DEF DrainDelivered, TypeOK, history
    <2>2. CASE R = NoRecord
      BY <1>4, <1>10, <2>1, <2>2 DEF DrainDelivered
    <2>3. CASE R # NoRecord
      <3>1. rec'[Recipient] = Append(R, "delivered") /\ Pending(Append(R, "delivered"))
        BY <1>0, <1>10, <2>1, <2>3, PendingRecords DEF DrainDelivered, TypeOK
      <3> QED BY <1>0, <2>1, <3>1 DEF PendingInv, Pending
    <2> QED BY <2>2, <2>3
  <1>11. ASSUME NEW d \in Devices, IngestReceipt(d) PROVE PendingInv'
    <2>1. d = Sender
      BY <1>11 DEF IngestReceipt, RelayInv, Devices
    <2>2. rec'[Recipient] = R /\ UNCHANGED <<sweep, drain, emitted>>
      BY <1>0, <1>11, <2>1 DEF IngestReceipt, TypeOK, goroutines, history
    <2> QED BY <1>1, <2>2
  <1>12. ASSUME NEW d \in Devices, SweepList(d) PROVE PendingInv'
    <2>1. UNCHANGED <<rec, drain, emitted>> /\ rec[d] # NoRecord
      BY <1>12 DEF SweepList, history
    <2>2. PICK ttl \in TtlPassed(rec[d]), aged \in BOOLEAN :
            sweep' = [sweep EXCEPT ![d] = SweepRecord(rec[d], ttl, aged)]
      BY <1>12 DEF SweepList
    <2>3. sweep'[Recipient] # "dead_lettered"
      <3>1. CASE d # Recipient
        BY <1>0, <2>2, <3>1 DEF TypeOK
      <3>2. CASE d = Recipient
        <4>1. R.last # "delivery_failed" /\ R \in Record
          BY <1>0, <2>1, <3>2 DEF Pending
        <4>2. State(R) # "failed"
          BY <4>1 DEF State, StateForEvent, Record, Events
        <4>3. SweepRecord(R, ttl, aged) # "dead_lettered"
          BY <4>2 DEF SweepRecord
        <4> QED BY <1>0, <2>2, <3>2, <4>3 DEF TypeOK
      <3> QED BY <3>1, <3>2
    <2> QED BY <1>0, <2>1, <2>3 DEF PendingInv, Pending
  <1>13. ASSUME NEW d \in Devices, SweepAct(d) PROVE PendingInv'
    <2>1. UNCHANGED <<drain, emitted>> /\ sweep'[Recipient] # "dead_lettered"
      BY <1>0, <1>13 DEF SweepAct, TypeOK
    <2>2. rec'[Recipient] \in {R, NoRecord} \/ (R # NoRecord /\ rec'[Recipient] = Append(R, "expired"))
      <3>1. CASE d # Recipient
        BY <1>0, <1>13, <3>1 DEF SweepAct, TypeOK
      <3>2. CASE d = Recipient
        <4>1. sweep[Recipient] \in {"compact", "expired"}
          BY <1>0, <1>13, <3>2 DEF SweepAct, TypeOK
        <4>2. rec'[Recipient] = IF R = NoRecord \/ sweep[Recipient] = "compact" THEN NoRecord
                                ELSE Append(R, sweep[Recipient])
          BY <1>0, <1>13, <3>2 DEF SweepAct, TypeOK
        <4> QED BY <4>1, <4>2
      <3> QED BY <3>1, <3>2
    <2>3. rec'[Recipient] # NoRecord => Pending(rec'[Recipient])
      BY <1>0, <2>2, PendingRecords
    <2> QED BY <1>0, <2>1, <2>3 DEF PendingInv, Pending
  <1>14. ASSUME NEW d \in Devices, Crash(d) PROVE PendingInv'
    <2>1. /\ rec'[Recipient] \in {R, Reload(R)} /\ UNCHANGED emitted
          /\ sweep'[Recipient] \in {sweep[Recipient], "none"}
          /\ \A x \in Readers \cup Drainers : drain'[x] = "emitted" => drain[x] = "emitted"
      BY <1>0, <1>14 DEF Crash, TypeOK, history
    <2>2. Reload(NoRecord) = NoRecord
      BY DEF Reload
    <2>3. rec'[Recipient] # NoRecord => Pending(rec'[Recipient])
      BY <1>0, <2>1, <2>2, PendingRecords
    <2> QED BY <1>0, <2>1, <2>3 DEF PendingInv, Pending
  <1>15. ASSUME Register PROVE PendingInv'
    <2>1. /\ rec'[Recipient] = R /\ UNCHANGED <<sweep, emitted>>
          /\ \A x \in Readers \cup Drainers : drain'[x] = "emitted" => drain[x] = "emitted"
      BY <1>15 DEF Register, TypeOK, history
    <2> QED BY <1>4, <2>1
  <1>16. CASE UNCHANGED vars
    BY <1>1, <1>16 DEF vars, goroutines, history
  <1> QED BY <1>2, <1>5, <1>6, <1>7, <1>8, <1>9, <1>10, <1>11, <1>12, <1>13, <1>14, <1>15, <1>16
          DEF Next, HandlerStep, DrainStep

\* An item of the recipient's mailbox that the agent has not been given waits
\* where DrainLocalPending finds it, unless it expires.
WaitsInInbox ==
  rec[Recipient] # NoRecord /\ ~ emitted
    => InboxPending(rec[Recipient]) \/ "expired" \in rec[Recipient].has

\* "delivery: at-least-once" holds when no outbox drain of the recipient's own
\* device takes up what was received: an item in its mailbox stays in the inbox
\* until the agent has been given it, or expires, whatever calls, handoffs,
\* receipts, sweeps and restarts happen (DrainLocalPending, sweepRecord).
THEOREM OwnOutboxOnly == OutboxIsSenders => (Spec => [](WaitsInInbox /\ AtLeastOnce))
  <1> SUFFICES ASSUME OutboxIsSenders PROVE Spec => [](WaitsInInbox /\ AtLeastOnce)
    OBVIOUS
  <1>1. Init => RelayInv /\ PendingInv
    BY HomeIsDevice DEF Init, RelayInv, PendingInv, NotReading, Devices
  <1>2. TypeOK /\ RelayInv /\ PendingInv /\ [Next]_vars => RelayInv' /\ PendingInv'
    BY RelayStep, PendingStep
  <1>3. TypeOK /\ PendingInv => WaitsInInbox
    <2> SUFFICES ASSUME TypeOK, PendingInv, rec[Recipient] # NoRecord, ~ emitted,
                        "expired" \notin rec[Recipient].has
                 PROVE  InboxPending(rec[Recipient])
      BY DEF WaitsInInbox
    <2>1. rec[Recipient].last \in {"created", "delivery_attempted"}
      BY DEF PendingInv, Pending
    <2> QED BY <2>1 DEF InboxPending, State, StateForEvent
  <1>4. WaitsInInbox => AtLeastOnce
    BY DEF WaitsInInbox, AtLeastOnce, InboxPending, OutboxPending
  <1> QED BY <1>1, <1>2, <1>3, <1>4, DeliveryTypeCorrect, PTL DEF Spec
=============================================================================
