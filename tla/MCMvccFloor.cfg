\* Whether a full VACUUM leaves no version that names an aborted transaction.
SPECIFICATION Spec
CONSTANTS
  k1 = k1
  Session = {s1, s2}
  Key = {k1}
  Unique = {}
  Loaded = {k1}
  NumSlots = 3
  MaxXid = 4
  MaxLevels = 0
  MaxVacuums = 1
  Scales <- Vacuumed
SYMMETRY Sessions
INVARIANTS
  FloorLicensed
