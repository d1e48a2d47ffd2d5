CONSTANTS
  s1 = s1
  s2 = s2
  p1 = p1
  p2 = p2
  Scrapes = {s1}
  N = 2
  PortsOf <- MCPortsOf
  MaxConcurrent = 2
  MaxRetries = 1
  MaxParseErrors = 0
  CollectBase = TRUE
  CollectRcvErr = FALSE
SPECIFICATION Spec
INVARIANTS
  UpReflectsQuery
