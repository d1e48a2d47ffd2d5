CONSTANTS
  s1 = s1
  s2 = s2
  g1 = g1
  g2 = g2
  lid1 = lid1
  lid2 = lid2
  Scrapes = {s1, s2}
  GUIDs = {g1, g2}
  DevicesOf <- MCDevicesOf
  MaxConcurrent = 1
  TTL = 2
  RunTime = 1
  MaxTime = 7
  TopologyAge = 1
  LIDs = {lid1, lid2}
  OldLID <- MCOldLID
  NewLID <- MCNewLID
  RenumberedAt = 2
SPECIFICATION ComposedFairSpec
INVARIANTS
  TypeOK
  ComposedTypeOK
  AppendedOrCounted
  NoLeak
  ForeignBounded
PROPERTIES
  PromiseKept
  EvictedOnlyUnlisted
  ScrapeCompletes
