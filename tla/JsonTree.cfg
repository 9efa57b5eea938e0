SPECIFICATION Spec
CONSTANTS
  Nodes = {a, b, c, d}
  NULL = NULL
  MaxKeys = 1
  MaxRefs = 1
SYMMETRY AnyNames
INVARIANTS ListsLinked OwnedOnce
PROPERTY ImplementsForest
CHECK_DEADLOCK FALSE
