SPECIFICATION Spec
CONSTANTS
  v1 = v1
  v2 = v2
  badEntry = badEntry
  garbage = garbage
  None = None
  Contents = {v1, v2, badEntry, garbage}
  Loadable = {v1, v2}
  Unparsable = {garbage}
  Settings <- MCSettings
  MaxTime = 2
  MaxWrites = 2
INVARIANTS
  LookupFollowsFile
  ReadyIsServing
PROPERTIES
  ReportsConverge
