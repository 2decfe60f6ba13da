SPECIFICATION Spec
CONSTANTS
  j1 = j1
  j2 = j2
  Jobs = {j1, j2}
  Window = 3
  WriteTimeout = 1
  Retention = 6
  Interval = 2
  MaxTime = 10
  MaxEvents = 3
SYMMETRY Symmetry
INVARIANTS TypeOK OneRowPerWindow SeenWithinWindow RetentionHolds
