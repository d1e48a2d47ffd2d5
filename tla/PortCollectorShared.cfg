CONSTANTS
  s1 = s1
  s2 = s2
  p1 = p1
  p2 = p2
  Scrapes = {s1, s2}
  N = 2
  PortsOf <- MCOnePort
  MaxConcurrent = 2
  MaxRetries = 1
  MaxParseErrors = 1
  CollectBase = TRUE
  CollectRcvErr = TRUE
SPECIFICATION Spec
INVARIANTS
  SharedBudget
