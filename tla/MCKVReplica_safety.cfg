\* Three devices, so that a write can reach a device through another one.
SPECIFICATION Spec
CONSTANTS
  Devices = {1, 2, 3}
  Keys = {k1}
  NoEntry = NoEntry
  MaxCounter <- WriteQuota
  Times = {1}
CHECK_DEADLOCK FALSE
INVARIANTS
  TypeOK
  DotsAreUnique
  NothingFromTheFuture
  CausallyClosed
  VectorCoversHeld
  CausalityIsExact
PROPERTIES
  ReadYourWrites
