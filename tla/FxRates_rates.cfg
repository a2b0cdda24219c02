\* Calls and passes that overlap, with every failure; in units of time of which
\* a request to the provider, or a query, takes at most one.
SPECIFICATION Spec
CONSTANTS
  Caller = {c1}
  Refresh = {r1}
  Timeout = 1
  CacheTtl = 2
  FreshFor = 3
  Latency = 1
  MaxTime = 9
  Faults = {"redis", "database", "provider"}
INVARIANTS TypeOK ServedRateIsRecent
PROPERTY RowRegressesByLatencyOnly
