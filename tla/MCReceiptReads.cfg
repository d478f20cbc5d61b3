\* Three calls of record() on two replicas, one key rotation, one reader.
SPECIFICATION ReadsSpec
CONSTANTS
  None = None
  r1 = r1
  r2 = r2
  r3 = r3
  p1 = p1
  p2 = p2
  Calls = {r1, r2, r3}
  Replicas = {p1, p2}
  Host <- MCHost
  MaxVersion = 2
  Filters <- MCFilters
  Limits = {0, 2}
  Verdict <- MCVerdict
  MostCommon = 1
INVARIANTS
  ChainIntact
  OneRowPerCall
  TamperEvident
  WalkMissesNothing
  FleetCountsHonest
PROPERTIES
  AppendOnly
  PortSpec
  EveryRecordEnds
CHECK_DEADLOCK FALSE
