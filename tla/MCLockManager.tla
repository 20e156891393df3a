--------------------------- MODULE MCLockManager ---------------------------
(* Instances of LockManager for TLC.                                       *)
EXTENDS LockManager, TLC

CONSTANTS t1, t2, s1, s2

Sym == Permutations(Txn) \cup Permutations(Stmt)

(* Two tables.                                                             *)
TablesKind == [r \in 1 .. 2 |-> "relation"]
TablesMenu == [r \in 1 .. 2 |-> IF r = 1 THEN {AccessShare, AccessExclusive}
                                ELSE {AccessExclusive}]

(* A table, a tuple of it.                                                 *)
RowsKind == [r \in 1 .. 2 |-> IF r = 1 THEN "relation" ELSE "tuple"]
RowsMenu == [r \in 1 .. 2 |-> IF r = 1 THEN {RowExclusive, AccessExclusive}
                              ELSE {TupleShare, Update}]
=============================================================================
