SPECIFICATION Spec
CHECK_DEADLOCK FALSE
CONSTANTS
  Call = {c1, c2, c3}
  Key = {k1, k2}
  StoreType = {"InMemory", "Redis"}
INVARIANTS StagingTypeOK OneKeyCounts
