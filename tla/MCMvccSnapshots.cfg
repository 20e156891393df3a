\* Snapshots and savepoints of one row: two sessions at either level beside a VACUUM, or
\* one session with two levels of savepoints.
SPECIFICATION Spec
CONSTANTS
  k1 = k1
  Session = {s1, s2}
  Key = {k1}
  Unique = {}
  Loaded = {k1}
  NumSlots = 3
  MaxXid = 5
  MaxLevels = 2
  MaxVacuums = 1
  Scales <- Isolated
SYMMETRY Sessions
INVARIANTS
  TypeOK
  ReadsOwnWrites
PROPERTIES
  ImplementsSI
