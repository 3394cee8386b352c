SPECIFICATION Spec
CONSTANTS
  Devices = {1, 2}
  Keys = {k1}
  NoEntry = NoEntry
  Self = 1
  Cold = Cold
  Torn = Torn
  MaxCounter <- PeerWritesOnce
  MaxLines = 3
INVARIANT
  AcknowledgedSurvives
