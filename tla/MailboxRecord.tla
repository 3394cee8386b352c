---------------------------- MODULE MailboxRecord ----------------------------
(***************************************************************************)
(* One durable mailbox record of the agent mailbox (pkg/agent/mailbox:     *)
(* Store, recordIndex, lifecycle policy): an addressed item without a      *)
(* claim, and the append-only events that derive its state.                *)
(*                                                                         *)
(* Of the events a record keeps, only the last decides its state; of the   *)
(* others the code asks only whether one of a kind is there, and how many  *)
(* deliveries failed.                                                      *)
(***************************************************************************)
EXTENDS Naturals

CONSTANTS NoRecord,     \* Get found no such item
          MaxAttempts   \* RetryPolicy.MaxAttempts

ASSUME AttemptsAreBounded == MaxAttempts \in Nat \ {0}

Events == {"created", "delivery_attempted", "delivery_failed", "handed_off",
           "delivered", "expired", "dead_lettered"}

\* The events the code looks for among all events of a record.
Marks == {"handed_off", "delivered", "expired", "dead_lettered"}

\* last: type of the latest event; has: marks among all events; fails: how many
\* deliveries failed, MaxAttempts standing for that many or more (the count of
\* the code is not bounded, and is compared with MaxAttempts only); receipted: a
\* relay receipt is among the delivered events; unread: Create's event is in
\* the backend and not yet in the index, which shows "last".
Record == [last : Events, has : SUBSET Marks, fails : 0 .. MaxAttempts,
           receipted : BOOLEAN, unread : BOOLEAN]

ASSUME NoRecordIsNoRecord == NoRecord \notin Record

NewRecord == [last |-> "created", has |-> {}, fails |-> 0,
              receipted |-> FALSE, unread |-> FALSE]

StateForEvent(e) ==
  CASE e = "delivered" -> "delivered"
    [] e = "delivery_failed" -> "failed"
    [] e = "expired" -> "expired"
    [] e = "dead_lettered" -> "dead_lettered"
    [] OTHER -> "queued"

\* deriveState of a record without a claim.
State(r) == StateForEvent(r.last)

Terminal(r) == State(r) \in {"expired", "dead_lettered"}

\* What ListOutbox and DrainNetworkOutbox leave for a network delivery.
OutboxPending(r) == r # NoRecord /\ State(r) \in {"queued", "failed"}

\* What ListInbox leaves for DrainLocalPending: no failed record, although the
\* drain itself would take one.
InboxPending(r) == r # NoRecord /\ State(r) = "queued"

\* AppendEvent on a record that exists.  deliveryFailureCount has no cap; the count
\* stops here where only the sweep's comparison with MaxAttempts can tell.
Append(r, e) ==
  [r EXCEPT !.last = e, !.has = @ \cup ({e} \cap Marks), !.unread = FALSE,
            !.fails = IF e = "delivery_failed" /\ @ < MaxAttempts THEN @ + 1 ELSE @]

\* Create: the item is written again if it is there already, and "created" goes
\* to the backend only.
Create(r) == IF r = NoRecord THEN NewRecord ELSE [r EXCEPT !.unread = TRUE]

\* Reload: the index is built again from the backend.
Reload(r) == IF r # NoRecord /\ r.unread
             THEN [r EXCEPT !.last = "created", !.unread = FALSE]
             ELSE r

\* Mutant of SweepRecord: Failed() is asked instead of Terminal(), so that the
\* retention also ends records that may still be retried.
SweepRecordFailed(r, ttl, aged) ==
  CASE State(r) = "delivered" /\ (ttl \/ aged) -> "compact"
    [] ~ Terminal(r) /\ State(r) # "delivered" /\ ttl /\ "expired" \notin r.has
         -> "expired"
    [] State(r) \in {"failed", "expired", "dead_lettered"} /\ aged -> "compact"
    [] OTHER -> "keep"

\* What a sweep does to a record: "keep" or "compact" it, or append an event.
\* ttl says that ExpiresAt has passed, aged that the retention that applies to
\* the record's state has.
SweepRecord(r, ttl, aged) ==
  CASE State(r) = "delivered" /\ (ttl \/ aged) -> "compact"
    [] ~ Terminal(r) /\ State(r) # "delivered" /\ ttl /\ "expired" \notin r.has
         -> "expired"
    [] State(r) = "failed" /\ ~ (ttl /\ "expired" \notin r.has)
         /\ r.fails >= MaxAttempts /\ "dead_lettered" \notin r.has
         -> "dead_lettered"
    [] Terminal(r) /\ aged -> "compact"
    [] OTHER -> "keep"
=============================================================================
