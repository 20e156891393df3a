\* One session beside the checkpoint worker; two old pages and a new one in two
\* frames, so that every load may steal.  Sessions may block for ever (see
\* FenceServed), so deadlock is not an error.
CONSTANTS
  p1 = p1
  p2 = p2
  p3 = p3
  t1 = t1
  t2 = t2
  NoPage = NoPage
  Pages = {p1, p2, p3}
  OldPages = {p1, p2}
  Threads = {t1}
  FrameCount = 2
  MaxRecords = 3
  MaxCheckpoints = 1
  MaxCrashes = 1
SPECIFICATION Spec
INVARIANTS TypeOK  RedoFounded
CHECK_DEADLOCK FALSE
