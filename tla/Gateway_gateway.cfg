\* Two requests at a time of one customer from two addresses, two wallet addresses.
SPECIFICATION Spec
CONSTANTS
  Slot = {r1, r2}
  User = {u1}
  Nobody = nobody
  Ip = {i1, i2}
  Address = {a1, a2}
  Served <- SomeRoutes
  WindowMs = 2
  Max <- SmallLimits
INVARIANTS TypeOK TransfersAreLimited LateComersAreRefused
PROPERTY EveryRequestIsAnswered
