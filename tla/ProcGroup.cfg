CONSTANTS
  x1 = x1
  x2 = x2
  k1 = k1
  k2 = k2
  Executions = {x1, x2}
  Kids = {k1, k2}
  KidsOf <- MCKidsOf
  Pids = {p1, p2}
  Refused = {x2}
SPECIFICATION FairSpec
INVARIANTS
  TypeOK
  GroupGone
  KilledIsTimeout
  OutputFinal
PROPERTIES
  ParkedKillsOwn
  ReturnsUnlessOutlived
