\* Three serializable transactions over one table of two rows, with TRUNCATE,
\* a change of the primary key and tuple locks that collapse at the second.
SPECIFICATION Spec
CONSTANTS
  Table = {a}
  Row = {r1, r2}
  SSI_TUPLE_LOCK_CAP = 1
  MaxTxn = 3
  MaxOps = 4
  MaxDdl = 1
SYMMETRY RowSymmetry
CHECK_DEADLOCK FALSE
INVARIANTS
  TypeOK
  EdgesComplete
PROPERTIES
  PivotsStopped
