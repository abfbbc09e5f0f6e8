SPECIFICATION Spec
CHECK_DEADLOCK FALSE
CONSTANTS
  Call = {c1, c2}
  Key = {k1}
  StoreType = {"Redis"}
INVARIANT CountsEverySet
