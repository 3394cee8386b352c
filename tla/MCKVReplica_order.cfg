\* Three devices, one second, one key: a causal pair of writes and a third
\* write concurrent with both.
SPECIFICATION Spec
CONSTANTS
  Devices = {1, 2, 3}
  Keys = {k1}
  NoEntry = NoEntry
  MaxCounter <- OneWriteEach
  Times = {1}
CHECK_DEADLOCK FALSE
INVARIANT
  OrderIsIrrelevant
