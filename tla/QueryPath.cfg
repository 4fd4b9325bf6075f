SPECIFICATION FairSpec
CONSTANTS
  Readers = {r1, r2}
  Writers = {w1}
  Keys = {k1, k2}
  Paged = paged
  MaxSize = 1
  Ttl = 1
  QueryTimeout = 1
  Attempts = 2
INVARIANTS
  WritesAsTold
  StalenessBounded
PROPERTIES
  EveryCallAnswered
CHECK_DEADLOCK FALSE
