\* Three records (active, suspended, not registered), two lookups at a time.
SPECIFICATION CacheSpec
CONSTANTS
  Readers = {l1, l2}
  Records = {active, suspended, missing}
  Absent = Absent
  TTL = 3
  MaxDelay = 2
INVARIANTS
  StaleReadBound
PROPERTY CacheConverges
