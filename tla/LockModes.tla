----------------------------- MODULE LockModes -----------------------------
(***************************************************************************)
(* The lock modes of server/src/lock_manager.rs.  A mode is its position   *)
(* in the declaration order of its Rust enum, which derives Ord: `covers'  *)
(* and `strongest' are comparisons of positions.  NoMode stands for the    *)
(* absence of a grant.                                                     *)
(***************************************************************************)
EXTENDS Naturals

NoMode == 0

(* RelationLockMode *)
AccessShare == 1
RowShare == 2
RowExclusive == 3
Share == 4
AccessExclusive == 5

(* CatalogLockMode and SequenceLockMode *)
Access == 1
Exclusive == 2

(* TupleLockMode *)
KeyShare == 1
TupleShare == 2
NoKeyUpdate == 3
Update == 4

Kinds == {"catalog", "relation", "tuple", "sequence"}

ModesOf(kind) ==
    IF kind = "relation" THEN AccessShare .. AccessExclusive
    ELSE IF kind = "tuple" THEN KeyShare .. Update
    ELSE Access .. Exclusive

relation_compatible(left, right) ==
    \/ left \in {AccessShare, RowShare} /\ right # AccessExclusive
    \/ left = RowExclusive /\ right \in {AccessShare, RowShare, RowExclusive}
    \/ left = Share /\ right \in {AccessShare, RowShare}

tuple_compatible(left, right) ==
    \/ left = KeyShare /\ right # Update
    \/ left = TupleShare /\ right \in {KeyShare, TupleShare}
    \/ left = NoKeyUpdate /\ right = KeyShare

(* ObjectLockMode::compatible on two modes of one kind; a resource never   *)
(* carries modes of two kinds (validate_request).                          *)
compatible(kind, left, right) ==
    IF kind = "relation" THEN relation_compatible(left, right)
    ELSE IF kind = "tuple" THEN tuple_compatible(left, right)
    ELSE left = Access /\ right = Access

covers(held, requested) == held >= requested

(* Mutant: modes combined as if they were flags.                           *)
strongest_Sum(left, right) == left + right

strongest(left, right) == IF left >= right THEN left ELSE right

=============================================================================
