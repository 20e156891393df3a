------------------------------- MODULE MCMvcc -------------------------------
(* Instances of Mvcc for TLC.  Every set of work loads is closed under      *)
(* permutations of the sessions.                                           *)
EXTENDS Mvcc, TLC

CONSTANT k1

Sessions == Permutations(Session)

(* Writers at Read Committed over one row.                                 *)
Plain == [writers |-> Session, readers |-> {}, keys |-> {k1}, unique |-> {},
          isolation |-> {"ReadCommitted"}, max_xid |-> 3, max_levels |-> 0, max_vacuums |-> 0]

(* Two sessions at either isolation level, a savepoint and a VACUUM.       *)
Snapshots == {[Plain EXCEPT !.isolation = {"ReadCommitted", "RepeatableRead"},
                            !.max_levels = 1, !.max_vacuums = 1]}

(* One session with two levels of savepoints.                              *)
Savepoints == {[Plain EXCEPT !.writers = {w}, !.max_xid = 5, !.max_levels = 2] : w \in Session}

(* A writer, an autocommit reader and a VACUUM, with pruning on both paths.*)
Vacuumed == {[Plain EXCEPT !.writers = {w}, !.readers = Session \ {w},
                           !.max_xid = 4, !.max_vacuums = 1] : w \in Session}

(* Two writers, two keys and one value of the unique index.                *)
Uniques == {[Plain EXCEPT !.keys = Key, !.unique = Unique]}

Isolated == Snapshots \cup Savepoints
Reclaimed == Vacuumed \cup Uniques
=============================================================================
