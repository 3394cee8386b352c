\* Two concurrent calls to one service, two agents with approvals, one midnight,
\* one restart; a service with the cheap manifest may ask too much.
SPECIFICATION Spec
CONSTANTS
  Agents = {1, 2}
  Caller = 1
  Calls = {c1, c2}
  Services = {s1}
  cheap = cheap
  dear = dear
  Manifests = {cheap, dear}
  Price <- TwoPrices
  Asked <- CheapAsksMore
  NoPin = NoPin
  Daily = Daily
  Capped = {Daily}
  Cap <- Caps
  PerCallMax = 2
  MaxPrices = {1, 2}
  MaxDay = 1
  MaxRestarts = 1
  MaxChanges = 3
SYMMETRY Interchangeable
INVARIANTS
  TypeOK
  PaidAsConsented
