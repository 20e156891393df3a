\* A transaction and two autocommit statements over two tables.
SPECIFICATION Spec
CONSTANTS
    t1 = t1
    t2 = t2
    s1 = s1
    s2 = s2
    Txn = {t1}
    Stmt = {s1, s2}
    Resource = {1, 2}
    KindOf <- TablesKind
    Menu <- TablesMenu
    MaxOps = 2
    MaxSave = 0
    MaxXid = 0
    NoSnap = NoSnap
INVARIANTS
    StatementsNeverDeadlock
SYMMETRY Sym
