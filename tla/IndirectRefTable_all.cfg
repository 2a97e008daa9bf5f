SPECIFICATION Spec
CONSTANTS
  Objects = {o1, o2}
  Null = Null
  Cleared = Cleared
  Initial = 2
  MaxEntries = 4
  ReallocFails = TRUE
  Capacities = {2}
  MaxRefs = 4
  MaxDepth = 3
CHECK_DEADLOCK FALSE
INVARIANTS HolesCounted
PROPERTIES Implements CapacityKept
SYMMETRY MCSymmetry
