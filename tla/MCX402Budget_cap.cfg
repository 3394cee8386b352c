\* Two concurrent calls to one service; every service asks what its manifest says.
SPECIFICATION Spec
CONSTANTS
  Agents = {1}
  Caller = 1
  Calls = {c1, c2}
  Services = {s1}
  cheap = cheap
  dear = dear
  Manifests = {cheap, dear}
  Price <- TwoPrices
  Asked <- AsTheManifest
  NoPin = NoPin
  Daily = Daily
  Capped = {Daily, s1}
  Cap <- Caps
  PerCallMax = 2
  MaxPrices = {1, 2}
  MaxDay = 1
  MaxRestarts = 1
  MaxChanges = 1
INVARIANT
  CapsAreKept
