\* One session that splits an index node beside one checkpoint.
CONSTANTS
  p1 = p1
  p2 = p2
  p3 = p3
  t1 = t1
  t2 = t2
  NoPage = NoPage
  Pages = {p1, p2}
  OldPages = {p1}
  Threads = {t1}
  FrameCount = 2
  MaxRecords = 2
  MaxCheckpoints = 1
  MaxCrashes = 0
SPECIFICATION FairSpec
PROPERTY FenceServed
CHECK_DEADLOCK FALSE
