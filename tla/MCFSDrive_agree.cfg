\* One change by the user, one remote entry, one stop, two seconds.
SPECIFICATION Spec
CONSTANTS
  a = a
  b = b
  empty = empty
  NoSum = NoSum
  Sums = {a, empty}
  Empty = empty
  Devices = {1, 2}
  Self = 1
  Initial = {NoSum}
  Remote <- RemoteEntries
  MaxTime = 1
  MaxEdits = 1
  MaxMerges = 1
  MaxQueue = 2
  MaxCrashes = 1
INVARIANTS
  TypeOK
  RecordedIsUploaded
  NoPhantomDelete
PROPERTIES
  DiskFollowsLog
