------------------------- MODULE SnapshotIsolation -------------------------
(***************************************************************************)
(* What the transaction layer promises its clients, with no transaction    *)
(* ids, no tuple versions and no garbage collection (docs/specs/mvcc.md).  *)
(*                                                                         *)
(* The database maps every key to the set of committed versions of its     *)
(* row: the empty set when there is no row, a singleton otherwise.  A      *)
(* session reads from a view that is a copy of one whole database state,   *)
(* keeps its own uncommitted writes apart, and installs all of them in one *)
(* step when it commits.  A savepoint remembers the uncommitted writes, a  *)
(* rollback to it brings them back.                                        *)
(***************************************************************************)
EXTENDS Sequences, Naturals

CONSTANTS Session, Key, Version, NoView, Unwritten

VARIABLES
  db,     \* db[k]: the committed version of row k
  view,   \* view[s]: the database state s reads from, or NoView
  own,    \* own[s][k]: what s has written to k since it began, or Unwritten
  saved,  \* saved[s]: own[s] as it was at each open savepoint
  iso     \* iso[s]: the isolation level of the transaction s runs

siVars == <<db, view, own, saved, iso>>

Row == {{}} \cup {{v} : v \in Version}
Nothing == [k \in Key |-> Unwritten]
Levels == {"ReadCommitted", "RepeatableRead"}

SIInit ==
  /\ db \in [Key -> Row]
  /\ view = [s \in Session |-> NoView]
  /\ own = [s \in Session |-> Nothing]
  /\ saved = [s \in Session |-> <<>>]
  /\ iso = [s \in Session |-> "ReadCommitted"]

\* The version of k that s may replace: its own, or the committed one.
Latest(s, k) == IF own[s][k] = Unwritten THEN db[k] ELSE own[s][k]

Begin(s) ==
  /\ own[s] = Nothing /\ view[s] = NoView
  /\ \E l \in Levels : iso' = [iso EXCEPT ![s] = l]
  /\ UNCHANGED <<db, view, own, saved>>

\* A view is a whole committed state, never a mixture of two.  Read Committed
\* drops it after each statement, Repeatable Read keeps it to the end.
TakeView(s) ==
  /\ view[s] = NoView
  /\ view' = [view EXCEPT ![s] = db]
  /\ UNCHANGED <<db, own, saved, iso>>

DropView(s) ==
  /\ iso[s] = "ReadCommitted"
  /\ view' = [view EXCEPT ![s] = NoView]
  /\ UNCHANGED <<db, own, saved, iso>>

\* No two transactions have uncommitted writes of one row.
MayWrite(s, k) ==
  /\ view[s] # NoView
  /\ \A t \in Session \ {s} : own[t][k] = Unwritten

Put(s, k, rows) ==
  /\ UNCHANGED <<db, view, saved, iso>>
  /\ own'[s][k] \in rows
  /\ own' = [own EXCEPT ![s][k] = own'[s][k]]

\* An UPDATE or a DELETE replaces the latest version; Repeatable Read only
\* does so when the row has not changed since its view.
Replace(s, k) ==
  /\ MayWrite(s, k)
  /\ Latest(s, k) # {}
  /\ iso[s] = "RepeatableRead" => own[s][k] # Unwritten \/ view[s][k] = db[k]
  /\ Put(s, k, Row)

\* An INSERT needs a free key.
Insert(s, k) ==
  /\ MayWrite(s, k)
  /\ Latest(s, k) = {}
  /\ Put(s, k, Row \ {{}})

SetSavepoint(s) ==
  /\ saved' = [saved EXCEPT ![s] = Append(@, own[s])]
  /\ UNCHANGED <<db, view, own, iso>>

DropSavepoint(s, i) ==
  /\ saved' = [saved EXCEPT ![s] = SubSeq(@, 1, i - 1)]
  /\ UNCHANGED <<db, view, own, iso>>

BackTo(s, i) ==
  /\ own' = [own EXCEPT ![s] = saved[s][i]]
  /\ saved' = [saved EXCEPT ![s] = SubSeq(@, 1, i)]
  /\ UNCHANGED <<db, view, iso>>

\* Every write of the transaction becomes visible, in this one step.
Commit(s) ==
  /\ db' = [k \in Key |-> Latest(s, k)]
  /\ own' = [own EXCEPT ![s] = Nothing]
  /\ view' = [view EXCEPT ![s] = NoView]
  /\ saved' = [saved EXCEPT ![s] = <<>>]
  /\ iso' = [iso EXCEPT ![s] = "ReadCommitted"]

Abort(s) ==
  /\ own' = [own EXCEPT ![s] = Nothing]
  /\ view' = [view EXCEPT ![s] = NoView]
  /\ saved' = [saved EXCEPT ![s] = <<>>]
  /\ iso' = [iso EXCEPT ![s] = "ReadCommitted"]
  /\ UNCHANGED db

\* A step that changes nothing here comes first only because TLC then sees
\* at once that most steps of an implementation are stuttering.
SINext ==
  \/ UNCHANGED siVars
  \/ \E s \in Session :
       \/ Begin(s) \/ TakeView(s) \/ DropView(s)
       \/ SetSavepoint(s) \/ Commit(s) \/ Abort(s)
       \/ \E i \in 1..Len(saved[s]) : DropSavepoint(s, i) \/ BackTo(s, i)
       \/ \E k \in Key : Replace(s, k) \/ Insert(s, k)

SISpec == SIInit /\ [][SINext]_siVars
=============================================================================
