\* The sender's outbox drain against one relay reader and one local drain of the
\* recipient, the sender's sweep, one restart and one operator retry.
SPECIFICATION Spec
CONSTANTS
  NoRecord = NoRecord
  MaxAttempts = 1
  Sender = S
  Recipient = R
  s1 = s1
  r1 = r1
  Deliverers = {s1}
  Home <- OneEach
  Readers = {q1}
  Drainers = {l1}
  Sweeps = {S}
  Expires = FALSE
  MaxRetries = 1
  MaxCrashes = 1
INVARIANTS
  TypeOK
  DeliveredMeansReceived
  HandoffIsStored
  ForgottenIsAccounted
PROPERTY
  OutcomeIsLearned
CHECK_DEADLOCK FALSE
