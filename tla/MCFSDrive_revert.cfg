\* Two changes by the user of a file that is there, no peer, no stop.
SPECIFICATION Spec
CONSTANTS
  a = a
  b = b
  empty = empty
  NoSum = NoSum
  Sums = {a, b, empty}
  Empty = empty
  Devices = {1, 2}
  Self = 1
  Initial = {a}
  Remote <- RemoteEntries
  MaxTime = 1
  MaxEdits = 2
  MaxMerges = 0
  MaxQueue = 2
  MaxCrashes = 0
PROPERTIES
  SuccessorReplaces
