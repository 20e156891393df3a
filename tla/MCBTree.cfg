\* An index file with its writer and a scan: trees of three levels with failing
\* writes, leaves emptied by VACUUM, scans among splits.  Operations are bounded.
SPECIFICATION Spec
CONSTANT Scales <- All
CHECK_DEADLOCK FALSE
INVARIANTS
  ScanComplete
  ChainExact
  EveryEntryReachable
