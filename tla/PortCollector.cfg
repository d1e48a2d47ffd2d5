CONSTANTS
  s1 = s1
  s2 = s2
  p1 = p1
  p2 = p2
  Scrapes = {s1}
  N = 3
  PortsOf <- MCPortsOf
  MaxConcurrent = 2
  MaxRetries = 0
  MaxParseErrors = 0
  CollectBase = TRUE
  CollectRcvErr = TRUE
SPECIFICATION FairSpec
INVARIANTS
  PoolTypeOK
  PerfqueryBudget
  QuietAfterWait
  NoLostSeries
  RcvErrGaugesExact
PROPERTIES
  ScrapeCompletes
