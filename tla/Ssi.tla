-------------------------------- MODULE Ssi ---------------------------------
(***************************************************************************)
(* Serializable Snapshot Isolation: the conflict manager of                *)
(* server/src/ssi_manager.rs, with the steps of the query service that     *)
(* drive it (server/src/query/{txn,truncate,alter}.rs) and the reads and   *)
(* writes that report to it (executor/src/query.rs, storage/src/engine).   *)
(*                                                                         *)
(* Every transaction is SERIALIZABLE.  It takes one snapshot, records what *)
(* it reads as SIREAD locks and what it writes, and the manager derives    *)
(* the rw-antidependencies between concurrent transactions.  A transaction *)
(* that completes a dangerous structure is aborted with 40001, either when *)
(* it writes or before its commit record is flushed.                       *)
(*                                                                         *)
(* Abstractions.  Ids are top-level ids, in the order of BEGIN.  The maps  *)
(* from items to readers and writers are the inverses of the per-          *)
(* transaction sets kept here, and in_edges and out_edges the two          *)
(* directions of one relation.  A statement that would wait for a row or   *)
(* table lock is not enabled.  An ALTER of the primary key gives every row *)
(* of a table a new SIREAD key; identity counts them.  The values read are *)
(* not modelled; which version a snapshot sees is Mvcc's subject.          *)
(***************************************************************************)
EXTENDS Naturals, Sequences, FiniteSets, FiniteSetsExt, SequencesExt

CONSTANTS
  Table, Row,          \* tables, and the rows of each
  SSI_TUPLE_LOCK_CAP,  \* tuple SIREAD locks of a transaction on one table
  MaxTxn,              \* bound: transactions begun
  MaxOps,              \* bound: reads, writes, TRUNCATEs and ALTERs
  MaxDdl               \* bound: TRUNCATEs and ALTERs of a primary key

ASSUME SsiAssumption ==
  /\ SSI_TUPLE_LOCK_CAP \in Nat \ {0} /\ MaxTxn \in Nat \ {0}
  /\ MaxOps \in Nat /\ MaxDdl \in Nat

Txn == 1..MaxTxn
Item == Table \X Row

VARIABLES
  pc, snap, next_txn_id,         \* the registry and the transactions
  ssi, edges,                    \* SsiState: TxnSsi of each id; <<r, w>> is r ->rw w
  identity,                      \* ALTERs of each table's primary key
  ops, ddl, reads, writes, order \* history: what was done, and order of commits

registry == <<pc, snap, next_txn_id>>
manager == <<ssi, edges>>
history == <<ops, ddl, reads, writes, order>>
vars == <<registry, manager, identity, history>>

NoSnapshot == [xmin |-> 0, xmax |-> 0, xip |-> {}]

\* "open" after BEGIN, "running" once the snapshot is taken, "checked" through
\* the commit check, "settled" durable and deregistered, "done" dropped.
Phase == {"none", "open", "running", "failed", "checked", "settled", "done"}

\* The SIREAD key of a row under the present primary key of its table.
KeyOf(i) == <<i[1], identity[i[1]], i[2]>>
SsiKey == Table \X (0..MaxDdl) \X Row
Rows(b) == {b} \X Row

\* TxnSsi.  Of commit_seq only whether it is set is ever read.  promoted: the
\* tables in whose promoted_tuple_writers the transaction is.
TxnSsi ==
  [tracked : BOOLEAN, commit_seq : BOOLEAN, finished : BOOLEAN,
   relation_locks : SUBSET Table, tuple_locks : SUBSET SsiKey,
   relation_writes : SUBSET Table, whole_relation_writes : SUBSET Table,
   tuple_writes : SUBSET SsiKey, promoted : SUBSET Table]
Untracked ==
  [tracked |-> FALSE, commit_seq |-> FALSE, finished |-> FALSE,
   relation_locks |-> {}, tuple_locks |-> {}, relation_writes |-> {},
   whole_relation_writes |-> {}, tuple_writes |-> {}, promoted |-> {}]

Init ==
  /\ pc = [t \in Txn |-> "none"]
  /\ snap = [t \in Txn |-> NoSnapshot]
  /\ next_txn_id = 1
  /\ ssi = [t \in Txn |-> Untracked]
  /\ edges = {}
  /\ identity = [b \in Table |-> 0]
  /\ ops = 0 /\ ddl = 0
  /\ reads = [t \in Txn |-> {}] /\ writes = [t \in Txn |-> {}]
  /\ order = <<>>

-----------------------------------------------------------------------------
(* The registry (Mvcc has it in detail) and the locks.                     *)

active == {t \in Txn : pc[t] \in {"open", "running", "failed", "checked"}}
advertised == {t \in Txn : snap[t] # NoSnapshot /\ pc[t] # "done"}

capture(t) == [xmin |-> Min(active), xmax |-> next_txn_id, xip |-> active \ {t}]

gc_horizon ==
  IF advertised = {} THEN next_txn_id ELSE Min({snap[t].xmin : t \in advertised})

\* Whether the snapshot does not see the writer.
concurrent(s, writer) == writer >= s.xmax \/ writer \in s.xip

\* Locks are kept until the Transaction is dropped: AccessShare or RowExclusive
\* on a table touched, AccessExclusive on one truncated, and row locks.
Holding == {t \in Txn : pc[t] \notin {"none", "done"}}
Touched(t) == {i[1] : i \in reads[t] \cup writes[t]}
CanTouch(t, b) == \A u \in Holding \ {t} : b \notin ssi[u].whole_relation_writes
CanExclude(t, b) == \A u \in Holding \ {t} : b \notin Touched(u)
CanWrite(t, i) == \A u \in Holding \ {t} : i \notin writes[u]

\* One more read or write of a running transaction.
Operation(t) ==
  /\ pc[t] = "running" /\ ops < MaxOps
  /\ ops' = ops + 1
Ddl ==
  /\ ddl < MaxDdl /\ ops < MaxOps
  /\ ddl' = ddl + 1

\* First updater wins: the item has a committed writer the snapshot misses.
WriteConflict(t, i) ==
  \E u \in Range(order) \ {t} : i \in writes[u] /\ concurrent(snap[t], u)

-----------------------------------------------------------------------------
(* The conflict graph, under the manager's lock.                           *)

txns == {t \in Txn : ssi[t].tracked}

\* The edges form_rw_edge adds between these readers and these writers.
form_rw_edge(readers, writers) ==
  {e \in (readers \cap txns) \X (writers \cap txns) :
     e[1] # e[2] /\ concurrent(snap[e[1]], e[2])}

\* A pivot whose outbound neighbour has already passed its commit check.
is_doomed_pivot(t, es) ==
  /\ \E e \in es : e[2] = t
  /\ \E e \in es : e[1] = t /\ ssi[e[2]].commit_seq

\* The commit of t would doom a pivot v that is still in progress.
dooms_in_neighbor(t) ==
  \E e \in edges : /\ e[2] = t /\ ~ ssi[e[1]].commit_seq
                   /\ \E f \in edges : f[2] = e[1]

\* Mutant: the neighbours keep their edges to a transaction that is dropped.
purge_KeepsEdges(ss, ts) ==
  /\ ssi' = [t \in Txn |-> IF t \in ts THEN Untracked ELSE ss[t]]
  /\ UNCHANGED edges

purge(ss, ts) ==
  /\ ssi' = [t \in Txn |-> IF t \in ts THEN Untracked ELSE ss[t]]
  /\ edges' = {e \in edges : e[1] \notin ts /\ e[2] \notin ts}

\* Mutant: a transaction's state goes when it has finished.
releasable_AtOnce(ss) == {t \in Txn : ss[t].finished}

\* release_up_to: finished, and every live snapshot began after its view.
releasable(ss) == {t \in Txn : ss[t].finished /\ snap[t].xmax <= gc_horizon}

-----------------------------------------------------------------------------
(* Transactions.                                                           *)

Begin ==
  /\ next_txn_id <= MaxTxn
  /\ pc' = [pc EXCEPT ![next_txn_id] = "open"]
  /\ next_txn_id' = next_txn_id + 1
  /\ UNCHANGED <<snap, manager, identity, history>>

\* The first statement captures the snapshot and registers with the manager.
register(t) ==
  /\ pc[t] = "open"
  /\ pc' = [pc EXCEPT ![t] = "running"]
  /\ snap' = [snap EXCEPT ![t] = capture(t)]
  /\ ssi' = [ssi EXCEPT ![t].tracked = TRUE]
  /\ UNCHANGED <<next_txn_id, edges, identity, history>>

\* A point read through the primary key, of a row that may not exist.
record_tuple_read(t, i) ==
  LET b == i[1]
      k == KeyOf(i)
      writers == {w \in Txn : \/ k \in ssi[w].tuple_writes
                              \/ b \in ssi[w].promoted \cup ssi[w].whole_relation_writes}
      locks == ssi[t].tuple_locks \cup {k}
      of_table == {l \in locks : l[1] = b}
  IN  /\ Operation(t) /\ CanTouch(t, b) /\ i \notin reads[t]
      /\ edges' = edges \cup form_rw_edge({t}, writers)
      /\ ssi' = IF Cardinality(of_table) > SSI_TUPLE_LOCK_CAP
                THEN [ssi EXCEPT ![t].tuple_locks = locks \ of_table,
                                 ![t].relation_locks = @ \cup {b}]
                ELSE [ssi EXCEPT ![t].tuple_locks = locks]
      /\ reads' = [reads EXCEPT ![t] = @ \cup {i}]
      /\ UNCHANGED <<registry, identity, ddl, writes, order>>

\* Any other scan.
record_relation_read(t, b) ==
  /\ Operation(t) /\ CanTouch(t, b) /\ ~ Rows(b) \subseteq reads[t]
  /\ edges' = edges \cup form_rw_edge({t}, {w \in Txn : b \in ssi[w].relation_writes})
  /\ ssi' = [ssi EXCEPT ![t].relation_locks = @ \cup {b}]
  /\ reads' = [reads EXCEPT ![t] = @ \cup Rows(b)]
  /\ UNCHANGED <<registry, identity, ddl, writes, order>>

\* INSERT, UPDATE or DELETE of a row: the version is written, then reported.
\* An SSI failure fails the statement, and so does a row changed since the
\* snapshot (40001), which is one of the causes of Abort.
note_write(t, i) ==
  LET readers == {r \in Txn : \/ i[1] \in ssi[r].relation_locks
                              \/ KeyOf(i) \in ssi[r].tuple_locks}
      es == edges \cup form_rw_edge(readers, {t})
  IN  /\ Operation(t) /\ CanTouch(t, i[1]) /\ CanWrite(t, i)
      /\ i \notin writes[t] /\ ~ WriteConflict(t, i)
      /\ edges' = es
      /\ ssi' = [ssi EXCEPT ![t].relation_writes = @ \cup {i[1]},
                            ![t].tuple_writes = @ \cup {KeyOf(i)}]
      /\ writes' = [writes EXCEPT ![t] = @ \cup {i}]
      /\ pc' = [pc EXCEPT ![t] = IF is_doomed_pivot(t, es) THEN "failed" ELSE @]
      /\ UNCHANGED <<snap, next_txn_id, identity, ddl, reads, order>>

\* TRUNCATE, under AccessExclusive.
note_relation_write(t, b) ==
  LET readers == {r \in Txn : \/ b \in ssi[r].relation_locks
                              \/ \E k \in ssi[r].tuple_locks : k[1] = b}
      es == edges \cup form_rw_edge(readers, {t})
  IN  /\ Operation(t) /\ Ddl /\ CanTouch(t, b) /\ CanExclude(t, b)
      /\ edges' = es
      /\ ssi' = [ssi EXCEPT ![t].relation_writes = @ \cup {b},
                            ![t].whole_relation_writes = @ \cup {b}]
      /\ writes' = [writes EXCEPT ![t] = @ \cup Rows(b)]
      /\ pc' = [pc EXCEPT ![t] = IF is_doomed_pivot(t, es) THEN "failed" ELSE @]
      /\ UNCHANGED <<snap, next_txn_id, identity, reads, order>>

\* Mutant: the tuple locks are promoted but the earlier writers are not.
promote_table_identity_locks_to_relation_ReadersOnly(b) ==
  LET readers == {r \in Txn : \E k \in ssi[r].tuple_locks : k[1] = b}
  IN  /\ Ddl /\ ops' = ops + 1 /\ \A u \in Holding : b \notin Touched(u)
      /\ identity' = [identity EXCEPT ![b] = @ + 1]
      /\ ssi' = [t \in Txn |-> IF t \notin readers THEN ssi[t] ELSE
                  [ssi[t] EXCEPT !.tuple_locks = {k \in @ : k[1] # b},
                                 !.relation_locks = @ \cup {b}]]
      /\ UNCHANGED <<registry, edges, reads, writes, order>>

\* ALTER TABLE ... ADD or DROP PRIMARY KEY has committed, under AccessExclusive.
promote_table_identity_locks_to_relation(b) ==
  LET readers == {r \in Txn : \E k \in ssi[r].tuple_locks : k[1] = b}
      writers == {w \in Txn : b \in ssi[w].relation_writes}
  IN  /\ Ddl /\ ops' = ops + 1 /\ \A u \in Holding : b \notin Touched(u)
      /\ identity' = [identity EXCEPT ![b] = @ + 1]
      /\ edges' = edges \cup form_rw_edge(readers, writers)
      /\ ssi' = [t \in Txn |->
           [ssi[t] EXCEPT
              !.tuple_locks = {k \in @ : k[1] # b},
              !.relation_locks = IF t \in readers THEN @ \cup {b} ELSE @,
              !.promoted = IF t \in writers THEN @ \cup {b} ELSE @]]
      /\ UNCHANGED <<registry, reads, writes, order>>

\* A read-only transaction has nothing to flush and skips the check.
CommitReadOnly(t) ==
  /\ pc[t] = "running" /\ writes[t] = {}
  /\ pc' = [pc EXCEPT ![t] = "settled"]
  /\ order' = Append(order, t)
  /\ UNCHANGED <<snap, next_txn_id, manager, identity, ops, ddl, reads, writes>>

\* Passed: the commit sequence is stamped before the commit record is flushed.
commit_check(t) ==
  /\ pc[t] = "running" /\ writes[t] # {}
  /\ IF is_doomed_pivot(t, edges) \/ dooms_in_neighbor(t)
     THEN /\ pc' = [pc EXCEPT ![t] = "failed"]
          /\ UNCHANGED manager
     ELSE /\ pc' = [pc EXCEPT ![t] = "checked"]
          /\ ssi' = [ssi EXCEPT ![t].commit_seq = TRUE]
          /\ UNCHANGED edges
  /\ UNCHANGED <<snap, next_txn_id, identity, history>>

\* The commit record is durable and the family is deregistered.
CommitDurable(t) ==
  /\ pc[t] = "checked"
  /\ pc' = [pc EXCEPT ![t] = "settled"]
  /\ order' = Append(order, t)
  /\ UNCHANGED <<snap, next_txn_id, manager, identity, ops, ddl, reads, writes>>

\* ssi_finish: finished, then release_up_to the horizon, which the own snapshot
\* still holds back; then the drop of the Transaction gives back its locks and
\* its advertised snapshot.
SsiFinish(t) ==
  /\ pc[t] = "settled"
  /\ LET ss == [ssi EXCEPT ![t].finished = TRUE]
     IN  purge(ss, releasable(ss))
  /\ pc' = [pc EXCEPT ![t] = "done"]
  /\ UNCHANGED <<snap, next_txn_id, identity, history>>

\* ROLLBACK, at will or after a failed statement or commit check, cancellation
\* at COMMIT, or a commit record that could not be flushed; or any end before
\* the first statement.
Abort(t) ==
  /\ pc[t] \in {"open", "running", "failed", "checked"}
  /\ purge(ssi, {t})
  /\ pc' = [pc EXCEPT ![t] = "done"]
  /\ snap' = [snap EXCEPT ![t] = NoSnapshot]
  /\ reads' = [reads EXCEPT ![t] = {}]
  /\ writes' = [writes EXCEPT ![t] = {}]
  /\ UNCHANGED <<next_txn_id, identity, ops, ddl, order>>

Statement(t) ==
  \/ register(t)
  \/ \E i \in Item : record_tuple_read(t, i) \/ note_write(t, i)
  \/ \E b \in Table : record_relation_read(t, b) \/ note_relation_write(t, b)

Ending(t) ==
  \/ CommitReadOnly(t) \/ commit_check(t) \/ CommitDurable(t)
  \/ SsiFinish(t) \/ Abort(t)

Next ==
  \/ Begin
  \/ \E t \in Txn : Statement(t) \/ Ending(t)
  \/ \E b \in Table : promote_table_identity_locks_to_relation(b)

Spec == Init /\ [][Next]_vars

-----------------------------------------------------------------------------
(* Properties.                                                             *)

TypeOK ==
  /\ pc \in [Txn -> Phase]
  /\ next_txn_id \in 1..(MaxTxn + 1)
  /\ DOMAIN ssi = Txn /\ \A t \in Txn : ssi[t] \in TxnSsi
  /\ edges \subseteq txns \X txns
  /\ identity \in [Table -> 0..MaxDdl]
  /\ ops \in 0..MaxOps /\ ddl \in 0..MaxDdl
  /\ reads \in [Txn -> SUBSET Item] /\ writes \in [Txn -> SUBSET Item]
  /\ IsInjective(order) /\ Range(order) \subseteq Txn

\* An rw-antidependency of the history: r read an item, w wrote it, and r's
\* snapshot does not show w's version.
Antidependency(r, w) ==
  r # w /\ reads[r] \cap writes[w] # {} /\ concurrent(snap[r], w)

\* The manager has an edge for every antidependency between two transactions
\* it tracks, whichever of the read and the write came first, and across the
\* collapse of tuple locks, TRUNCATE and changes of the primary key (ssi.md
\* section 6: "both must be caught").
EdgesComplete ==
  \A r, w \in txns : Antidependency(r, w) => <<r, w>> \in edges

\* a committed before b, or b has not committed.
CommittedBefore(a, b) ==
  a \in Range(order) /\ ~ \E i, j \in DOMAIN order : order[i] = b /\ order[j] = a /\ i < j

\* A transaction that passes its commit check leaves no dangerous structure in
\* which it is the pivot: v ->rw t ->rw w with w through its check, unless v
\* committed before w did (ssi.md section 7).  Write skew is the case v = w.
PivotsStopped ==
  [][\A t \in Txn :
       pc[t] = "running" /\ pc'[t] = "checked" =>
         \A v, w \in Txn :
           /\ Antidependency(v, t) /\ Antidependency(t, w)
           /\ pc[w] = "checked" \/ w \in Range(order)
           => v # w /\ CommittedBefore(v, w)]_vars

\* docs/specs/ssi.md: "any set of transactions that all run at `SERIALIZABLE`
\* executes with a serializable schedule": some order of the committed ones
\* agrees with all their dependencies.
DependsOn(a, b) ==
  \/ Antidependency(a, b)
  \/ a # b /\ ~ concurrent(snap[b], a) /\ writes[a] \cap (reads[b] \cup writes[b]) # {}
Serializable ==
  LET committed == Range(order)
  IN  \E at \in [committed -> 1..Len(order)] :
        \A a, b \in committed : DependsOn(a, b) => at[a] < at[b]
=============================================================================
