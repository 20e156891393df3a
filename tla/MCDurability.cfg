\* One session with three events or two sessions with two; an event is a savepoint, a nextval, a
\* VACUUM, a checkpoint, a failing write or flush, or a crash.
SPECIFICATION Spec
CONSTANTS
  Session = {s1, s2}
  MaxXid = 4
  MaxLog = 2
  MaxCheckpoints = 1
  MaxVacuums = 1
  MaxNextvals = 1
  MaxFailures = 1
  MaxCrashes = 2
  Scales <- Wide
  Races = {}
SYMMETRY Sessions
CHECK_DEADLOCK FALSE
INVARIANTS
  CommitsDurable
  
  StartsUp
  SequenceNeverRepeats

  
