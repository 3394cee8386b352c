\* The recipient's own outbox drain runs too; no sweep, no restart.
SPECIFICATION Spec
CONSTANTS
  NoRecord = NoRecord
  MaxAttempts = 1
  Sender = S
  Recipient = R
  s1 = s1
  r1 = r1
  Deliverers = {s1, r1}
  Home <- OneEach
  Readers = {q1}
  Drainers = {l1}
  Sweeps = {}
  Expires = FALSE
  MaxRetries = 0
  MaxCrashes = 0
INVARIANT
  AtLeastOnce
CHECK_DEADLOCK FALSE
