\* Two transactions, one table and one tuple of it, savepoints and row waits.
SPECIFICATION FairSpec
CONSTANTS
    t1 = t1
    t2 = t2
    s1 = s1
    s2 = s2
    Txn = {t1, t2}
    Stmt = {}
    Resource = {1, 2}
    KindOf <- RowsKind
    Menu <- RowsMenu
    MaxOps = 3
    MaxSave = 1
    MaxXid = 1
    NoSnap = NoSnap
INVARIANTS
    TypeOK
    GrantsCompatible
    EdgesComplete
    NoTraceAfterRelease
    SnapshotsRestorable
PROPERTIES
    
    NoStarvation
