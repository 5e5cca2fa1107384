SPECIFICATION Spec
CONSTANTS
  Requests = {r1, r2}
  Contexts = {dev, prod}
  MaxSets = 3
SYMMETRY Symmetry
CHECK_DEADLOCK FALSE
INVARIANTS TypeOK NothingOlder SignedWithLatest
