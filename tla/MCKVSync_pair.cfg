\* Two devices that write to one key, and one fault of any kind.
SPECIFICATION Spec
CONSTANTS
  Devices = {1, 2}
  Keys = {k1}
  NoEntry = NoEntry
  Writes <- SetAndDelete
  Links <- OneDials
  MaxCounter <- FirstWritesTwice
  Faults = {"loss", "append", "restart"}
  MaxFaults = 1
INVARIANTS
  TypeOK
  SeqCoversVector
  SummariesAreStale
  QuietMeansEqual
PROPERTIES
  ImplementsReplica
  Convergence
