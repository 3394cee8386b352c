\* A chain of three devices, no faults: the third hears only from the second.
SPECIFICATION Spec
CONSTANTS
  Devices = {1, 2, 3}
  Keys = {k1, k2}
  NoEntry = NoEntry
  Writes <- SetWithinASecond
  Links <- Chain
  MaxCounter <- OnlyFirstWrites
  Faults = {}
  MaxFaults = 0
INVARIANT
  RelayedPeersConverge
