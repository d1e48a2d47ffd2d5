CONSTANTS
  Scrapes = {s1, s2, s3}
  TTL = 2
  RunTime = 1
  MaxTime = 5
SPECIFICATION FairSpec
INVARIANTS
  TypeOK
  WholeTopology
PROPERTIES
  PromiseKept
  Answered
