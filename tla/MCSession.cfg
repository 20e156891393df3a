\* The connections of the server and what goes on around their statements: one
\* client of the whole protocol with cancel requests and timeouts; clients and
\* a shutdown; commits that ask for checkpoints; commits that ask for VACUUM
\* and ANALYZE.  A client may fall silent, so the server may come to rest.
SPECIFICATION Spec
CONSTANTS
  c1 = c1
  c2 = c2
  Client = {c1, c2}
  None = None
  Scales <- All
CHECK_DEADLOCK FALSE
INVARIANTS
  CancelsOwnStatement
  
  CursorsCurrent
  DisconnectSettles
  DurableReported
  
  IdleNotMissed
  
PROPERTIES
  CancelAnswered
  DueCheckpointRuns
  AnalyzeGetsTurn
