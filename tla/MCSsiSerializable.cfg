\* Whether three serializable transactions always have a serial order.
SPECIFICATION Spec
CONSTANTS
  Table = {a}
  Row = {r1, r2}
  SSI_TUPLE_LOCK_CAP = 1
  MaxTxn = 3
  MaxOps = 4
  MaxDdl = 0
SYMMETRY RowSymmetry
CHECK_DEADLOCK FALSE
INVARIANTS
  Serializable
