\* Versions that are reclaimed beside a reader, or that compete for a unique value.
SPECIFICATION Spec
CONSTANTS
  k1 = k1
  Session = {s1, s2}
  Key = {k1, k2}
  Unique = {u1}
  Loaded = {k1}
  NumSlots = 3
  MaxXid = 4
  MaxLevels = 0
  MaxVacuums = 1
  Scales <- Reclaimed
SYMMETRY Sessions
INVARIANTS
  
  AdvertisedExactly
  UniqueSettled
PROPERTIES
  NoLostUpdate
