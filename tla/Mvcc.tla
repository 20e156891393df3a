-------------------------------- MODULE Mvcc --------------------------------
(***************************************************************************)
(* Transactions over multi-version rows: the active-transaction registry   *)
(* (server/registry.rs), the commit log, snapshots and tuple visibility    *)
(* (common/mvcc), the statement and transaction steps of the query service *)
(* (server/query/{txn,exec,vacuum}.rs) and the row writes of the storage   *)
(* engine (storage/engine).                                                *)
(*                                                                         *)
(* A commit is not one step: the CLOG says Committed as soon as the commit *)
(* record is flushed, the registry still lists the transaction until       *)
(* deregister_all, and its locks go last.  Snapshots are cut from the      *)
(* registry, while row-lock resolution, uniqueness and reclamation read    *)
(* the CLOG, so the order of those steps is what the properties are about. *)
(*                                                                         *)
(* Abstractions.  A row is a key, a value in one unique secondary index    *)
(* and its version; updates keep the key.  One table; its RowExclusive and *)
(* Share locks and the row locks are granted or not enabled (queues,       *)
(* deadlocks and lock snapshots are LockManager's).  Hint bits cache the   *)
(* CLOG and are left out.  WAL, pages and crashes are not in this module.  *)
(***************************************************************************)
EXTENDS Naturals, Sequences, FiniteSets, FiniteSetsExt, SequencesExt

CONSTANTS
  Session,   \* connections
  Key,       \* primary keys
  Unique,    \* non-NULL values of the unique secondary index
  Loaded,    \* keys that have a committed row at the start
  NumSlots,  \* bound: tuple slots of the heap
  MaxXid,    \* bound: last transaction id handed out
  MaxLevels, \* bound: open savepoints of a transaction
  MaxVacuums,\* bound: VACUUM runs
  Scales     \* the work loads, one of which a behaviour picks at its start

ASSUME MvccAssumption ==
  /\ IsFiniteSet(Session)
  /\ NumSlots \in Nat \ {0} /\ MaxXid \in Nat \ {0}
  /\ MaxLevels \in Nat /\ MaxVacuums \in Nat
  /\ Loaded \subseteq Key /\ Cardinality(Loaded) <= NumSlots
  /\ \A l \in Scales :
       /\ l.writers \subseteq Session /\ l.readers \subseteq Session
       /\ l.keys \subseteq Key /\ l.unique \subseteq Unique
       /\ l.isolation \subseteq {"ReadCommitted", "RepeatableRead"}
       /\ l.max_xid \in 1..MaxXid /\ l.max_levels \in 0..MaxLevels
       /\ l.max_vacuums \in 0..MaxVacuums

VARIABLES
  scale,                                 \* which sessions write or only read, which
                                         \* keys, values and levels they use, how far
  next_txn_id, active, subtrans, xmins,  \* the allocator and RegistryState
  clog,                                  \* TxnStatus of every id
  heap,                                  \* the version in each slot
  rowlock, writers,                      \* tuple-lock and RowExclusive holders
  pc, iso, txn_id, live_subxids, levels, wrote, \* a session and its Transaction
  snap, horizon, todo, target,           \* the statement it runs
  vac                                    \* the VACUUM thread

registry == <<next_txn_id, active, subtrans, xmins>>
locks == <<rowlock, writers>>
txn == <<iso, txn_id, live_subxids, levels, wrote>>
stmt == <<snap, horizon, todo, target>>
vars == <<scale, registry, clog, heap, locks, pc, txn, stmt, vac>>

Xid == 1..MaxXid
Slot == 1..NumSlots
NoXid == 0          \* INVALID_XID
NoSlot == 0         \* INVALID_TID
Null == "null"      \* a NULL indexed value
LoadXid == 1        \* the transaction that wrote the initial rows

NoSnapshot == [xmin |-> 0, xmax |-> 0, xip |-> {}]
NoTarget == [slot |-> NoSlot, xmin |-> NoXid, key |-> Null]

FreeSlot == [key |-> Null, u |-> Null, indexed |-> FALSE, xmin |-> NoXid,
             xmax |-> NoXid, ctid |-> NoSlot, heap_only |-> FALSE, hot_updated |-> FALSE]

MaxId == MaxXid + 1
SnapshotType == [xmin : 0..MaxId, xmax : 0..MaxId, xip : SUBSET Xid]
VersionType ==
  [key : Key \cup {Null}, u : Unique \cup {Null}, indexed : BOOLEAN,
   xmin : 0..MaxXid, xmax : 0..MaxXid, ctid : 0..NumSlots,
   heap_only : BOOLEAN, hot_updated : BOOLEAN]

\* A row as the loading transaction left it, with its index entries.
LoadedVersion(k, v) ==
  [FreeSlot EXCEPT !.key = k, !.indexed = TRUE, !.xmin = LoadXid, !.u = v]

LoadedSlot(h) == {sl \in Slot : h[sl].xmin = LoadXid}

Init ==
  /\ scale \in Scales
  /\ next_txn_id = LoadXid + 1
  /\ active = {}
  /\ subtrans = [x \in Xid |-> NoXid]
  /\ xmins = [x \in 1..MaxId |-> 0]
  /\ clog = [x \in Xid |-> IF x = LoadXid THEN "Committed" ELSE "InProgress"]
  /\ heap \in [Slot -> {FreeSlot} \cup
                 {LoadedVersion(k, v) : k \in Loaded, v \in scale.unique \cup {Null}}]
  /\ LoadedSlot(heap) = 1..Cardinality(Loaded)
  /\ \A k \in Loaded : \E sl \in LoadedSlot(heap) : heap[sl].key = k
  /\ \A a, b \in LoadedSlot(heap) : a # b /\ heap[a].u # Null => heap[a].u # heap[b].u
  /\ rowlock = [k \in Key |-> {}]
  /\ writers = {}
  /\ pc = [s \in Session |-> "idle"]
  /\ iso = [s \in Session |-> "ReadCommitted"]
  /\ txn_id = [s \in Session |-> NoXid]
  /\ live_subxids = [s \in Session |-> {}]
  /\ levels = [s \in Session |-> <<>>]
  /\ wrote = [s \in Session |-> FALSE]
  /\ snap = [s \in Session |-> NoSnapshot]
  /\ horizon = [s \in Session |-> 0]
  /\ todo = [s \in Session |-> {}]
  /\ target = [s \in Session |-> NoTarget]
  /\ vac = [pc |-> "idle", xid |-> NoXid, horizon |-> 0, boundary |-> 0,
            vacuum_floor |-> 0, left |-> scale.max_vacuums]

-----------------------------------------------------------------------------
(* Visibility, conflicts and reclaimability (common/src/mvcc).             *)

\* A line pointer is NORMAL (a tuple), REDIRECT (only ctid is set) or unused.
Used == {sl \in Slot : heap[sl].xmin # NoXid}
Redirects == {sl \in Slot : heap[sl].xmin = NoXid /\ heap[sl].ctid # NoSlot}
FreeSlots(h) == {sl \in Slot : h[sl] = FreeSlot}

\* live_txns: the top-level id and every subxid not rolled back.
live_txns(s) == ({txn_id[s]} \cup live_subxids[s]) \ {NoXid}
writing_xid(s) ==
  IF levels[s] = <<>> THEN txn_id[s] ELSE levels[s][Len(levels[s])].subxid

txn_effect_visible(x, sn, live) ==
  \/ x \in live
  \/ x < sn.xmax /\ x \notin sn.xip /\ clog[x] = "Committed"

is_visible(v, sn, live) ==
  /\ txn_effect_visible(v.xmin, sn, live)
  /\ v.xmax = NoXid \/ ~ txn_effect_visible(v.xmax, sn, live)

Visible(sn, live) == {sl \in Used : is_visible(heap[sl], sn, live)}

is_dead_to_all(v, hz) ==
  \/ v.xmax # NoXid /\ v.xmax < hz /\ clog[v.xmax] = "Committed"
  \/ clog[v.xmin] = "Aborted"

\* Mutant: a version whose creator is still running is taken for absent.
classify_unique_conflict_Settled(v, live) ==
  IF \/ v.xmin \notin live /\ clog[v.xmin] # "Committed"
     \/ v.xmax # NoXid /\ (v.xmax \in live \/ clog[v.xmax] = "Committed")
  THEN "None" ELSE "Violation"

\* UniqueConflict of one version, for a writer whose own ids are live.
classify_unique_conflict(v, live) ==
  LET creator == IF v.xmin \in live THEN "Committed" ELSE clog[v.xmin]
  IN  IF \/ creator = "Aborted"
         \/ v.xmax # NoXid /\ (v.xmax \in live \/ clog[v.xmax] = "Committed")
      THEN "None"
      ELSE IF creator = "Committed" THEN "Violation" ELSE "WouldBlock"

\* The strongest conflict among a set of versions.
unique_conflict_kind(vs, live) ==
  LET kinds == {classify_unique_conflict(heap[sl], live) : sl \in vs}
  IN  IF "Violation" \in kinds THEN "Violation"
      ELSE IF "WouldBlock" \in kinds THEN "WouldBlock" ELSE "None"

write_conflict(v, live) ==
  IF v.xmax = NoXid \/ v.xmax \in live \/ clog[v.xmax] = "Aborted" THEN "Proceed"
  ELSE IF clog[v.xmax] = "Committed" THEN "Conflict" ELSE "WouldBlock"

\* RowIdentity of the version in a slot.
identity(sl) == [slot |-> sl, xmin |-> heap[sl].xmin, key |-> heap[sl].key]

\* The deleter of v as row-lock resolution sees it.
deleter(v, live) ==
  IF v.xmax = NoXid THEN "Aborted"
  ELSE IF v.xmax \in live THEN "Committed" ELSE clog[v.xmax]

\* A slot, or what its REDIRECT points at.
redirected(sl) == IF sl \in Redirects THEN heap[sl].ctid ELSE sl

\* Follow the update chain from a scanned version while its deleter committed;
\* the answer is the last version reached.
chain_end(sl, live) ==
  LET step(p) == IF p \in Used /\ deleter(heap[p], live) = "Committed" /\ heap[p].ctid # NoSlot
                 THEN redirected(heap[p].ctid) ELSE p
      walk[n \in 0..NumSlots] == IF n = 0 THEN redirected(sl) ELSE step(walk[n - 1])
  IN  walk[NumSlots]

resolve_latest_row_version(t, live) ==
  LET sl == chain_end(t.slot, live)
      d == deleter(heap[sl], live)
  IN  IF identity(redirected(t.slot)) # [t EXCEPT !.slot = redirected(t.slot)]
           \/ sl \notin Used \/ d = "Committed"
      THEN [kind |-> "Deleted"]
      ELSE IF d = "InProgress" THEN [kind |-> "WouldBlock"]
      ELSE [kind |-> "Live", row |-> identity(sl)]

-----------------------------------------------------------------------------
(* The registry.  Every operator is one critical section of its latch.     *)

\* Ids that a session in the middle of ROLLBACK TO will still take.
Undoing == {s \in Session : pc[s] \in {"undo", "undone"}}
RoomForXid == next_txn_id + Cardinality(Undoing) <= scale.max_xid

register_allocated ==
  /\ active' = active \cup {next_txn_id}
  /\ next_txn_id' = next_txn_id + 1

register_subxid_allocated(t) ==
  /\ register_allocated
  /\ subtrans' = [subtrans EXCEPT ![next_txn_id] = t]

deregister_all(xs) ==
  /\ active' = active \ xs
  /\ subtrans' = [x \in Xid |-> IF x \in xs THEN NoXid ELSE subtrans[x]]

\* The snapshot a capture at this moment returns; own is filtered from xip.
capture(own) ==
  [xmin |-> IF active = {} THEN next_txn_id ELSE Min(active),
   xmax |-> next_txn_id, xip |-> active \ {own}]

advertise_xmin(sn) == xmins' = [xmins EXCEPT ![sn.xmin] = @ + 1]
\* Mutants: one release forgets every holder of that xmin; a release is done
\* by the end of the statement and once more by its guard.
release_advertised_All(sn) == xmins' = [xmins EXCEPT ![sn.xmin] = 0]
release_advertised_Twice(sn) == xmins' = [xmins EXCEPT ![sn.xmin] = @ - 2]
release_advertised(sn) == xmins' = [xmins EXCEPT ![sn.xmin] = @ - 1]

\* Mutant: the oldest running id, whatever the snapshots still in use.
gc_horizon_Running == IF active = {} THEN next_txn_id ELSE Min(active)

\* oldest_xmin, or the next id when no snapshot is advertised.
gc_horizon ==
  LET adv == {x \in 1..MaxId : xmins[x] > 0}
  IN  IF adv = {} THEN next_txn_id ELSE Min(adv)

-----------------------------------------------------------------------------
(* Transaction control (server/src/query/txn.rs).                          *)

Begin(s) ==
  /\ pc[s] = "idle" /\ s \in scale.writers /\ RoomForXid
  /\ register_allocated
  /\ txn_id' = [txn_id EXCEPT ![s] = next_txn_id]
  /\ \E l \in scale.isolation : iso' = [iso EXCEPT ![s] = l]
  /\ pc' = [pc EXCEPT ![s] = "open"]
  /\ UNCHANGED <<subtrans, xmins, clog, heap, locks, live_subxids, levels, wrote, stmt, vac>>

MyLocks(s) == {k \in Key : s \in rowlock[k]}

Savepoint(s) ==
  /\ pc[s] = "open" /\ RoomForXid /\ Len(levels[s]) < scale.max_levels
  /\ register_subxid_allocated(txn_id[s])
  /\ live_subxids' = [live_subxids EXCEPT ![s] = @ \cup {next_txn_id}]
  /\ levels' = [levels EXCEPT ![s] = Append(@,
       [subxid |-> next_txn_id, rows |-> MyLocks(s), writer |-> s \in writers])]
  /\ UNCHANGED <<xmins, clog, heap, locks, pc, iso, txn_id, wrote, stmt, vac>>

\* The popped subxids stay live and registered.
ReleaseSavepoint(s, i) ==
  /\ pc[s] = "open"
  /\ levels' = [levels EXCEPT ![s] = SubSeq(@, 1, i - 1)]
  /\ UNCHANGED <<registry, clog, heap, locks, pc, iso, txn_id, live_subxids, wrote, stmt, vac>>

SetClog(xs, status) ==
  clog' = [x \in Xid |-> IF x \in xs THEN status ELSE clog[x]]

\* Mutant: ROLLBACK TO by position in the stack of open savepoints.
RolledBack_Stack(s, i) == {levels[s][j].subxid : j \in i..Len(levels[s])}

\* ROLLBACK TO selects by id value, so a subxid that was released into an
\* outer level is rolled back with it.
RolledBack(s, i) == {x \in live_subxids[s] : x >= levels[s][i].subxid}

\* ROLLBACK TO also recovers a failed block.  It aborts the ids one latch and
\* one WAL append at a time: CLOG first, then the registry, then the locks.
RollbackTo(s, i) ==
  /\ pc[s] \in {"open", "failed"} /\ RoomForXid
  /\ SetClog(RolledBack(s, i), "Aborted")
  /\ live_subxids' = [live_subxids EXCEPT ![s] = @ \ RolledBack(s, i)]
  /\ levels' = [levels EXCEPT ![s] = SubSeq(@, 1, i)]
  /\ pc' = [pc EXCEPT ![s] = "undo"]
  /\ UNCHANGED <<registry, heap, locks, iso, txn_id, wrote, stmt, vac>>

UndoDeregister(s) ==
  /\ pc[s] = "undo"
  /\ deregister_all({x \in active : subtrans[x] = txn_id[s] /\ x \notin live_txns(s)})
  /\ pc' = [pc EXCEPT ![s] = "undone"]
  /\ UNCHANGED <<next_txn_id, xmins, clog, heap, locks, txn, stmt, vac>>

\* Restore the savepoint's locks and re-establish it under a fresh subxid.
UndoRestore(s) ==
  LET i == Len(levels[s])
      lv == levels[s][i]
  IN  /\ pc[s] = "undone"
      /\ rowlock' = [k \in Key |-> IF k \in lv.rows THEN rowlock[k] ELSE rowlock[k] \ {s}]
      /\ writers' = IF lv.writer THEN writers ELSE writers \ {s}
      /\ register_subxid_allocated(txn_id[s])
      /\ live_subxids' = [live_subxids EXCEPT ![s] = @ \cup {next_txn_id}]
      /\ levels' = [levels EXCEPT ![s][i].subxid = next_txn_id]
      /\ pc' = [pc EXCEPT ![s] = "open"]
      /\ UNCHANGED <<xmins, clog, heap, iso, txn_id, wrote, stmt, vac>>

\* Mutant: the locks are given up with the flush.
CommitFlush_Unlocked(s) ==
  /\ pc[s] = "open" /\ wrote[s]
  /\ SetClog(live_txns(s), "Committed")
  /\ rowlock' = [k \in Key |-> rowlock[k] \ {s}]
  /\ writers' = writers \ {s}
  /\ pc' = [pc EXCEPT ![s] = "flushed"]
  /\ UNCHANGED <<registry, heap, txn, stmt, vac>>

\* append_and_flush_commit: the flush sets the CLOG of the whole family.
CommitFlush(s) ==
  /\ pc[s] = "open" /\ wrote[s]
  /\ SetClog(live_txns(s), "Committed")
  /\ pc' = [pc EXCEPT ![s] = "flushed"]
  /\ UNCHANGED <<registry, heap, locks, txn, stmt, vac>>

\* Mutant: the family leaves the registry one id at a time.
CommitDeregister_PerId(s) ==
  /\ pc[s] = "flushed"
  /\ \E x \in live_txns(s) \cap active :
       /\ deregister_all({x})
       /\ pc' = [pc EXCEPT ![s] =
            IF live_txns(s) \cap active = {x} THEN "settled" ELSE "flushed"]
  /\ UNCHANGED <<next_txn_id, xmins, clog, heap, locks, txn, stmt, vac>>

CommitDeregister(s) ==
  /\ pc[s] = "flushed"
  /\ deregister_all(live_txns(s))
  /\ pc' = [pc EXCEPT ![s] = "settled"]
  /\ UNCHANGED <<next_txn_id, xmins, clog, heap, locks, txn, stmt, vac>>

\* A transaction that wrote nothing ends without a WAL record, however it ends.
EndReadOnly(s) ==
  /\ pc[s] \in {"open", "failed"} /\ ~ wrote[s]
  /\ deregister_all(live_txns(s))
  /\ pc' = [pc EXCEPT ![s] = "settled"]
  /\ UNCHANGED <<next_txn_id, xmins, clog, heap, locks, txn, stmt, vac>>

\* ROLLBACK, COMMIT of a failed block, or a COMMIT whose flush failed.
AbortSubxids(s) ==
  /\ pc[s] \in {"open", "failed"} /\ wrote[s]
  /\ SetClog(live_txns(s) \ {txn_id[s]}, "Aborted")
  /\ pc' = [pc EXCEPT ![s] = "abort_subxids"]
  /\ UNCHANGED <<registry, heap, locks, txn, stmt, vac>>

\* The subxids leave the registry, then the Abort record of the top is logged.
AbortTop(s) ==
  /\ pc[s] = "abort_subxids"
  /\ deregister_all(live_txns(s) \ {txn_id[s]})
  /\ SetClog({txn_id[s]}, "Aborted")
  /\ pc' = [pc EXCEPT ![s] = "abort_top"]
  /\ UNCHANGED <<next_txn_id, xmins, heap, locks, txn, stmt, vac>>

AbortDeregister(s) ==
  /\ pc[s] = "abort_top"
  /\ deregister_all({txn_id[s]})
  /\ pc' = [pc EXCEPT ![s] = "settled"]
  /\ UNCHANGED <<next_txn_id, xmins, clog, heap, locks, txn, stmt, vac>>

ReleaseSnapshot(s) ==
  /\ snap' = [snap EXCEPT ![s] = NoSnapshot]
  /\ IF snap[s] = NoSnapshot THEN UNCHANGED xmins ELSE release_advertised(snap[s])

\* Dropping the Transaction releases its locks and its advertised snapshot.
DropTransaction(s) ==
  /\ pc[s] = "settled"
  /\ rowlock' = [k \in Key |-> rowlock[k] \ {s}]
  /\ writers' = writers \ {s}
  /\ ReleaseSnapshot(s)
  /\ txn_id' = [txn_id EXCEPT ![s] = NoXid]
  /\ live_subxids' = [live_subxids EXCEPT ![s] = {}]
  /\ levels' = [levels EXCEPT ![s] = <<>>]
  /\ wrote' = [wrote EXCEPT ![s] = FALSE]
  /\ iso' = [iso EXCEPT ![s] = "ReadCommitted"]
  /\ pc' = [pc EXCEPT ![s] = "idle"]
  /\ UNCHANGED <<next_txn_id, active, subtrans, clog, heap, horizon, todo, target, vac>>

-----------------------------------------------------------------------------
(* Statements (server/src/query/exec.rs, executor/src/query.rs).           *)

\* Whether VACUUM holds its Share lock, which excludes RowExclusive.
ShareLocked == vac.pc \in {"locked", "horizon", "settled", "pruned"}

Capture(s, own) ==
  /\ snap' = [snap EXCEPT ![s] = capture(own)]
  /\ advertise_xmin(capture(own))

\* An autocommit SELECT reads without a transaction id.
StartRead(s) ==
  /\ pc[s] = "idle" /\ s \in scale.writers \cup scale.readers
  /\ Capture(s, NoXid)
  /\ pc' = [pc EXCEPT ![s] = "read"]
  /\ UNCHANGED <<next_txn_id, active, subtrans, clog, heap, locks, txn,
                 horizon, todo, target, vac>>

EndRead(s) ==
  /\ pc[s] = "read"
  /\ ReleaseSnapshot(s)
  /\ pc' = [pc EXCEPT ![s] = "idle"]
  /\ UNCHANGED <<next_txn_id, active, subtrans, clog, heap, locks, txn,
                 horizon, todo, target, vac>>

\* The table lock comes before the snapshot.  Read Committed captures one per
\* statement, Repeatable Read one per transaction.
StartStatement(s, write) ==
  /\ pc[s] = "open"
  /\ write => ~ ShareLocked
  /\ writers' = IF write THEN writers \cup {s} ELSE writers
  /\ wrote' = [wrote EXCEPT ![s] = @ \/ write]
  /\ IF snap[s] = NoSnapshot THEN Capture(s, txn_id[s]) ELSE UNCHANGED <<snap, xmins>>
  /\ pc' = [pc EXCEPT ![s] = IF write THEN "scan" ELSE "select"]
  /\ UNCHANGED <<next_txn_id, active, subtrans, clog, heap, rowlock, iso, txn_id,
                 live_subxids, levels, horizon, todo, target, vac>>

\* The source scan of an UPDATE or DELETE yields visible versions.  Before it
\* runs, with the snapshot already advertised, the statement reads the horizon
\* for its prunes.
Scan(s, found) ==
  /\ pc[s] = "scan"
  /\ todo' = [todo EXCEPT ![s] = {identity(sl) : sl \in found}]
  /\ horizon' = [horizon EXCEPT ![s] = gc_horizon]
  /\ pc' = [pc EXCEPT ![s] = "rows"]
  /\ UNCHANGED <<registry, clog, heap, locks, txn, snap, target, vac>>

Statement == {"select", "scan", "rows", "locked", "index"}

\* What every statement end drops: the Read Committed snapshot, the candidates.
CloseStatement(s, to) ==
  /\ IF iso[s] = "ReadCommitted" THEN ReleaseSnapshot(s) ELSE UNCHANGED <<snap, xmins>>
  /\ horizon' = [horizon EXCEPT ![s] = 0]
  /\ todo' = [todo EXCEPT ![s] = {}]
  /\ target' = [target EXCEPT ![s] = NoTarget]
  /\ pc' = [pc EXCEPT ![s] = to]

EndStatement(s) ==
  /\ \/ pc[s] = "select"
     \/ pc[s] = "rows" /\ todo[s] = {}
  /\ CloseStatement(s, "open")
  /\ UNCHANGED <<next_txn_id, active, subtrans, clog, heap, locks, txn, vac>>

\* A statement may fail anywhere: 40001, 23505, 40P01, a cancel.
FailStatement(s) ==
  /\ pc[s] \in Statement
  /\ CloseStatement(s, "failed")
  /\ UNCHANGED <<next_txn_id, active, subtrans, clog, heap, locks, txn, vac>>

\* lock_row and lock_dml_candidate: take the row's tuple lock, then look for
\* its latest version.  Read Committed goes on with that version or, when the
\* recheck rejects it or the row is gone, skips it; the lock of a deleted row
\* is given back.
LockRow(s, t) ==
  LET k == t.key
      latest == resolve_latest_row_version(t, live_txns(s))
      lock == rowlock' = [rowlock EXCEPT ![k] = @ \cup {s}]
  IN  /\ pc[s] = "rows"
      /\ rowlock[k] \subseteq {s}
      /\ todo' = [todo EXCEPT ![s] = @ \ {t}]
      /\ \/ /\ latest.kind = "Live"
            /\ latest.row = t \/ iso[s] = "ReadCommitted"
            /\ lock
            /\ target' = [target EXCEPT ![s] = latest.row]
            /\ pc' = [pc EXCEPT ![s] = "locked"]
         \/ /\ latest.kind = "Live" /\ latest.row # t /\ iso[s] = "ReadCommitted"
            /\ lock
            /\ UNCHANGED <<target, pc>>
         \/ /\ latest.kind = "Deleted" /\ iso[s] = "ReadCommitted"
            /\ UNCHANGED <<rowlock, target, pc>>
      /\ UNCHANGED <<registry, clog, heap, writers, txn, snap, horizon, vac>>

\* Repeatable Read accepts only the version it saw: a row that moved on is
\* 40001, with the tuple lock kept until the block ends.
LockRowConflict(s, t) ==
  LET k == t.key
      latest == resolve_latest_row_version(t, live_txns(s))
  IN  /\ pc[s] = "rows" /\ iso[s] = "RepeatableRead"
      /\ rowlock[k] \subseteq {s}
      /\ \/ /\ latest.kind = "Live" /\ latest.row # t
            /\ rowlock' = [rowlock EXCEPT ![k] = @ \cup {s}]
         \/ latest.kind = "Deleted" /\ UNCHANGED rowlock
      /\ CloseStatement(s, "failed")
      /\ UNCHANGED <<next_txn_id, active, subtrans, clog, heap, writers, txn, vac>>

-----------------------------------------------------------------------------
(* Row writes and pruning (storage/src/engine).                            *)

\* The H1 segment rule: a HOT_UPDATED tuple is followed into a HEAP_ONLY one.
hot_successor(sl) ==
  LET next == heap[sl].ctid
  IN  IF heap[sl].hot_updated /\ next \in Used /\ heap[next].heap_only
      THEN next ELSE NoSlot

\* The members of a HOT chain from its head on.
collect_prune_chain(head) ==
  LET grow(c) == IF hot_successor(Last(c)) = NoSlot THEN c
                 ELSE Append(c, hot_successor(Last(c)))
      walk[n \in 1..NumSlots] == IF n = 1 THEN <<head>> ELSE grow(walk[n - 1])
  IN  walk[NumSlots]

is_member(sl) ==
  (\E a \in Used : hot_successor(a) = sl) \/ (\E a \in Redirects : heap[a].ctid = sl)

ChainRoots == {sl \in Used \cup Redirects : ~ is_member(sl)}

\* Mutant: the root of a collapsed chain is freed like its other members.
plan_chain_inner_NoRedirect(root, hz) ==
  LET chain == collect_prune_chain(redirected(root))
      kept == {i \in 1..Len(chain) : ~ is_dead_to_all(heap[chain[i]], hz)}
      live == IF kept = {} THEN Len(chain) + 1 ELSE Min(kept)
  IN  [dead_root |-> kept = {}, redirect |-> NoSlot,
       free |-> {chain[i] : i \in 1..(live - 1)}, reset |-> {}]

\* What pruning makes of one chain.  First the aborted suffix goes and the
\* member before it is reset; of the rest, the dead prefix goes and the root
\* redirects to the first member that is not dead to all.
PlanOf(chain, len, live, root) ==
  LET undone == live <= len /\ heap[chain[live]].xmax # NoXid
                  /\ clog[heap[chain[live]].xmax] = "Aborted"
  IN  [dead_root |-> live > len,
       redirect |-> IF live \in 2..len THEN chain[live] ELSE NoSlot,
       free |-> {chain[i] : i \in (len + 1)..Len(chain) \cup 1..(live - 1)} \ {root},
       reset |-> (IF len = Len(chain) THEN {} ELSE {chain[len]})
                   \cup (IF undone THEN {chain[live]} ELSE {})]

\* The index before the aborted suffix, and the first member not dead to all.
BeforeAborted(chain) ==
  Min({i \in 1..Len(chain) :
         i = Len(chain) \/ clog[heap[chain[i + 1]].xmin] = "Aborted"})
FirstLive(chain, len, hz) ==
  Min({i \in 1..(len + 1) : i = len + 1 \/ ~ is_dead_to_all(heap[chain[i]], hz)})

PlanAfterCut(chain, len, root, hz) == PlanOf(chain, len, FirstLive(chain, len, hz), root)
PlanChain(chain, root, hz) == PlanAfterCut(chain, BeforeAborted(chain), root, hz)
plan_chain_inner(root, hz) == PlanChain(collect_prune_chain(redirected(root)), root, hz)

\* Apply the plans of the chains; the update path leaves a chain alone that
\* has no live member.
apply_prune_plan(plan, allow_dead_roots) ==
  LET roots == {r \in DOMAIN plan : allow_dead_roots \/ ~ plan[r].dead_root}
      free == (UNION {plan[r].free : r \in roots}) \cup {r \in roots : plan[r].dead_root}
      redirect == {r \in roots : plan[r].redirect # NoSlot}
      reset == UNION {plan[r].reset : r \in roots}
  IN  [sl \in Slot |->
        CASE sl \in free -> FreeSlot
          [] sl \in redirect \ free -> [FreeSlot EXCEPT !.ctid = plan[sl].redirect]
          [] sl \in reset \ (free \cup redirect) ->
               [heap[sl] EXCEPT !.xmax = NoXid, !.ctid = NoSlot, !.hot_updated = FALSE]
          [] sl \notin free \cup redirect \cup reset -> heap[sl]]

\* classify_page_for_prune, and for VACUUM the index cleanup and the reclaim
\* of the dead line pointers.
Pruned(hz, allow_dead_roots) ==
  apply_prune_plan([r \in ChainRoots |-> plan_chain_inner(r, hz)], allow_dead_roots)

NewVersion(s, k, u) ==
  [FreeSlot EXCEPT !.key = k, !.u = u, !.indexed = (u = Null), !.xmin = writing_xid(s)]

\* stamp_xmax_logged keeps the other flags of the header, HOT_UPDATED too.
StampXmax(s, h, t, ctid, hot) ==
  [h EXCEPT ![t.slot].xmax = writing_xid(s), ![t.slot].ctid = ctid,
            ![t.slot].hot_updated = @ \/ hot]

\* delete_locked
Delete(s) ==
  /\ pc[s] = "locked"
  /\ write_conflict(heap[target[s].slot], live_txns(s)) = "Proceed"
  /\ heap' = StampXmax(s, heap, target[s], NoSlot, FALSE)
  /\ pc' = [pc EXCEPT ![s] = "rows"]
  /\ target' = [target EXCEPT ![s] = NoTarget]
  /\ UNCHANGED <<registry, clog, locks, txn, snap, horizon, todo, vac>>

\* update_row_version: the new version is written first, then the old one is
\* stamped.  With the indexed value unchanged a HOT update is tried, which
\* prunes a full page first; without room the update is an ordinary one and,
\* like one that changes the value, still needs its index entries.
UpdateIn(h, s, u, hot) ==
  LET t == target[s]
      sl == Min(FreeSlots(h))
      fresh == NewVersion(s, heap[t.slot].key, u)
      new == IF hot THEN [fresh EXCEPT !.indexed = TRUE, !.heap_only = TRUE] ELSE fresh
  IN  /\ FreeSlots(h) # {}
      /\ heap' = StampXmax(s, [h EXCEPT ![sl] = new], t, sl, hot)
      /\ target' = [target EXCEPT ![s] =
           IF new.indexed THEN NoTarget ELSE [slot |-> sl, xmin |-> new.xmin, key |-> new.key]]
      /\ pc' = [pc EXCEPT ![s] = IF new.indexed THEN "rows" ELSE "index"]

Update(s, u, hot, prune) ==
  /\ pc[s] = "locked"
  /\ hot \/ prune => u = heap[target[s].slot].u
  /\ write_conflict(heap[target[s].slot], live_txns(s)) = "Proceed"
  /\ UpdateIn(IF prune THEN Pruned(horizon[s], FALSE) ELSE heap, s, u, hot)
  /\ UNCHANGED <<registry, clog, locks, txn, snap, horizon, todo, vac>>

\* insert: reserve_unique_key takes the tuple lock of the primary key, which
\* is kept; then heap tuple and identity entry under the uniqueness check.
\* (A violation fails the statement; its orphan tuple belongs to an id that
\* can only abort.)
Insert(s, k, u) ==
  LET new == NewVersion(s, k, u)
      sl == Min(FreeSlots(heap))
  IN  /\ pc[s] = "scan"
      /\ rowlock[k] \subseteq {s}
      /\ unique_conflict_kind({a \in Used : heap[a].key = k}, live_txns(s)) = "None"
      /\ FreeSlots(heap) # {}
      /\ rowlock' = [rowlock EXCEPT ![k] = @ \cup {s}]
      /\ heap' = [heap EXCEPT ![sl] = new]
      /\ target' = [target EXCEPT ![s] =
           IF new.indexed THEN NoTarget ELSE [slot |-> sl, xmin |-> new.xmin, key |-> new.key]]
      /\ pc' = [pc EXCEPT ![s] = IF new.indexed THEN "rows" ELSE "index"]
      /\ UNCHANGED <<registry, clog, writers, txn, snap, horizon, todo, vac>>

\* insert_secondary_entry: check and entry under one structural latch.
InsertSecondaryEntry(s) ==
  LET sl == target[s].slot
      same == {a \in Used : heap[a].indexed /\ heap[a].u = heap[sl].u}
  IN  /\ pc[s] = "index"
      /\ unique_conflict_kind(same, live_txns(s)) = "None"
      /\ heap' = [heap EXCEPT ![sl].indexed = TRUE]
      /\ target' = [target EXCEPT ![s] = NoTarget]
      /\ pc' = [pc EXCEPT ![s] = "rows"]
      /\ UNCHANGED <<registry, clog, locks, txn, snap, horizon, todo, vac>>

-----------------------------------------------------------------------------
(* VACUUM (server/src/query/vacuum.rs).                                    *)

VacuumBegin ==
  /\ vac.pc = "idle" /\ RoomForXid /\ vac.left > 0
  /\ register_allocated
  /\ vac' = [vac EXCEPT !.pc = "begun", !.xid = next_txn_id, !.left = @ - 1]
  /\ UNCHANGED <<subtrans, xmins, clog, heap, locks, pc, txn, stmt>>

VacuumLock ==
  /\ vac.pc = "begun" /\ writers = {}
  /\ vac' = [vac EXCEPT !.pc = "locked"]
  /\ UNCHANGED <<registry, clog, heap, locks, pc, txn, stmt>>

\* revalidate_vacuum_targets reads the horizon under the Share lock and, for a
\* VACUUM of every table, the oldest active id.
VacuumHorizon ==
  /\ vac.pc = "locked"
  /\ vac' = [vac EXCEPT !.pc = "horizon", !.horizon = gc_horizon, !.boundary = Min(active)]
  /\ UNCHANGED <<registry, clog, heap, locks, pc, txn, stmt>>

\* An error or a cancel before the maintenance commit aborts the id and drops
\* the lock.
VacuumFail ==
  /\ vac.pc \in {"begun", "locked", "horizon"}
  /\ SetClog({vac.xid}, "Aborted")
  /\ deregister_all({vac.xid})
  /\ vac' = [vac EXCEPT !.pc = "idle", !.xid = NoXid, !.horizon = 0, !.boundary = 0]
  /\ UNCHANGED <<next_txn_id, xmins, heap, locks, pc, txn, stmt>>

VacuumSettle ==
  /\ vac.pc = "horizon"
  /\ SetClog({vac.xid}, "Committed")
  /\ deregister_all({vac.xid})
  /\ vac' = [vac EXCEPT !.pc = "settled"]
  /\ UNCHANGED <<next_txn_id, xmins, heap, locks, pc, txn, stmt>>

VacuumPrune ==
  /\ vac.pc = "settled"
  /\ heap' = Pruned(vac.horizon, TRUE)
  /\ vac' = [vac EXCEPT !.pc = "pruned"]
  /\ UNCHANGED <<registry, clog, locks, pc, txn, stmt>>

\* set_vacuum_floor, then the locks go.
VacuumRelease ==
  /\ vac.pc = "pruned"
  /\ vac' = [vac EXCEPT !.pc = "idle", !.xid = NoXid, !.horizon = 0, !.boundary = 0,
                        !.vacuum_floor = Max({@, vac.boundary})]
  /\ UNCHANGED <<registry, clog, heap, locks, pc, txn, stmt>>

-----------------------------------------------------------------------------
TransactionControl(s) ==
  \/ Begin(s) \/ Savepoint(s)
  \/ \E i \in 1..Len(levels[s]) : ReleaseSavepoint(s, i) \/ RollbackTo(s, i)
  \/ UndoDeregister(s) \/ UndoRestore(s)
  \/ CommitFlush(s) \/ CommitDeregister(s) \/ EndReadOnly(s)
  \/ AbortSubxids(s) \/ AbortTop(s) \/ AbortDeregister(s) \/ DropTransaction(s)

StatementStep(s) ==
  \/ StartRead(s) \/ EndRead(s)
  \/ \E w \in BOOLEAN : StartStatement(s, w)
  \/ EndStatement(s) \/ FailStatement(s)
  \/ \E found \in SUBSET Visible(snap[s], live_txns(s)) : Scan(s, found)
  \/ \E t \in todo[s] : LockRow(s, t) \/ LockRowConflict(s, t)

RowWrite(s) ==
  \/ Delete(s) \/ InsertSecondaryEntry(s)
  \/ \E u \in scale.unique \cup {Null}, hot, prune \in BOOLEAN : Update(s, u, hot, prune)
  \/ \E k \in scale.keys, u \in scale.unique \cup {Null} : Insert(s, k, u)

Vacuum == \/ VacuumBegin \/ VacuumLock \/ VacuumHorizon \/ VacuumFail
          \/ VacuumSettle \/ VacuumPrune \/ VacuumRelease

Next == /\ \/ Vacuum
           \/ \E s \in Session : TransactionControl(s) \/ StatementStep(s) \/ RowWrite(s)
        /\ UNCHANGED scale

Spec == Init /\ [][Next]_vars

-----------------------------------------------------------------------------
(* Properties.                                                             *)

Pcs == {"idle", "read", "open", "failed", "undo", "undone", "flushed", "settled",
        "abort_subxids", "abort_top"} \cup Statement

TargetType == [slot : 0..NumSlots, xmin : 0..MaxXid, key : Key \cup {Null}]
LevelType == [subxid : Xid, rows : SUBSET Key, writer : BOOLEAN]

\* Every variable has the shape the code's types give it.
TypeOK ==
  /\ scale \in Scales
  /\ next_txn_id \in 1..MaxId /\ active \subseteq Xid
  /\ subtrans \in [Xid -> 0..MaxXid] /\ xmins \in [1..MaxId -> Nat]
  /\ clog \in [Xid -> {"InProgress", "Committed", "Aborted"}]
  /\ heap \in [Slot -> VersionType]
  /\ rowlock \in [Key -> SUBSET Session] /\ writers \subseteq Session
  /\ pc \in [Session -> Pcs] /\ iso \in [Session -> {"ReadCommitted", "RepeatableRead"}]
  /\ txn_id \in [Session -> 0..MaxXid] /\ live_subxids \in [Session -> SUBSET Xid]
  /\ levels \in [Session -> Seq(LevelType)]
  /\ wrote \in [Session -> BOOLEAN] /\ snap \in [Session -> SnapshotType]
  /\ horizon \in [Session -> 0..MaxId] /\ todo \in [Session -> SUBSET TargetType]
  /\ target \in [Session -> TargetType]
  /\ vac \in [pc : {"idle", "begun", "locked", "horizon", "settled", "pruned"},
              xid : 0..MaxXid, horizon : 0..MaxId, boundary : 0..MaxId,
              vacuum_floor : 0..MaxId, left : 0..MaxVacuums]

\* A session between BEGIN and the step that settles its transaction.
InTransaction(s) ==
  pc[s] \in {"open", "failed", "undo", "undone", "flushed"} \cup Statement

\* Stands for "no such row set" among the sets of versions.
NotSet == {<<NoSlot, NoXid>>}
Named(slots) == {<<sl, heap[sl].xmin>> : sl \in slots}
OfKey(k) == {sl \in Used : heap[sl].key = k}

\* What a snapshot taken now by an outsider would return for each key.
CommittedRows == [k \in Key |-> Named(OfKey(k) \cap Visible(capture(NoXid), {}))]

\* What the ids xs have made of each key, as far as the heap shows.
WrittenBy(xs) ==
  [k \in Key |->
     LET made == {sl \in OfKey(k) : heap[sl].xmin \in xs /\ heap[sl].xmax \notin xs}
     IN  IF made # {} THEN Named(made)
         ELSE IF \E sl \in OfKey(k) : heap[sl].xmax \in xs THEN {}
         ELSE NotSet]

\* The snapshot of s, its own ids counted as in progress.
SnapshotRows(s) ==
  LET sn == [snap[s] EXCEPT !.xip = @ \cup live_txns(s)]
  IN  [k \in Key |-> Named(OfKey(k) \cap Visible(sn, {}))]

OwnRows(s) == WrittenBy(IF InTransaction(s) THEN live_txns(s) ELSE {})

SI == INSTANCE SnapshotIsolation WITH
  Version <- Slot \X Xid, NoView <- [k \in Key |-> NotSet], Unwritten <- NotSet,
  db <- CommittedRows,
  view <- [s \in Session |->
             IF snap[s] # NoSnapshot /\ (InTransaction(s) \/ pc[s] = "read")
             THEN SnapshotRows(s) ELSE [k \in Key |-> NotSet]],
  own <- [s \in Session |-> OwnRows(s)],
  saved <- [s \in Session |->
              IF InTransaction(s)
              THEN [i \in 1..Len(levels[s]) |->
                      WrittenBy({x \in live_txns(s) : x < levels[s][i].subxid})]
              ELSE <<>>],
  iso <- [s \in Session |-> IF InTransaction(s) THEN iso[s] ELSE "ReadCommitted"]

\* The versions and the three-step commit implement snapshot isolation: every
\* snapshot is one committed state and stays what it was, through commits,
\* rollbacks, pruning and VACUUM by others; a transaction appears whole, its
\* savepoints included; no two transactions have uncommitted writes of a row;
\* Repeatable Read never overwrites a version it did not see.
ImplementsSI == SI!SISpec

\* What the rows of key k look like to a scan by s (is_visible, live_txns).
Seen(s, k) == Named(OfKey(k) \cap Visible(snap[s], live_txns(s)))

\* The row of k that s saw has been deleted or replaced by somebody else.
MovedOn(s, k) ==
  \E sl \in OfKey(k) \cap Visible(snap[s], live_txns(s)) :
    heap[sl].xmax # NoXid /\ clog[heap[sl].xmax] = "Committed"

\* A statement reads the snapshot with the transaction's own surviving writes
\* laid over it, work of released savepoints included and work rolled back
\* excluded, unless the row has moved on under a Repeatable Read snapshot.
ReadsOwnWrites ==
  \A s \in Session, k \in Key :
    pc[s] \in {"select", "scan"} /\ ~ MovedOn(s, k) =>
      Seen(s, k) = IF OwnRows(s)[k] = NotSet THEN SnapshotRows(s)[k]
                   ELSE OwnRows(s)[k]

\* Every version a snapshot in use can see is reached by a walk from an index
\* entry: its root is a tuple with entries of its own or a REDIRECT.
IndexReachesVisible ==
  LET entries == {sl \in Used : ~ heap[sl].heap_only} \cup Redirects
      reached == UNION {Range(collect_prune_chain(redirected(sl))) : sl \in entries}
  IN  \A s \in Session :
        snap[s] # NoSnapshot => Visible(snap[s], live_txns(s)) \subseteq reached

\* A step that deletes or replaces a version acts on the latest one: the row
\* a fresh snapshot would show, or the transaction's own write of it.  So an
\* update that waited for another transaction never overwrites its result.
NoLostUpdate ==
  [][\A s \in Session, sl \in Used :
       heap'[sl].xmin = heap[sl].xmin /\ heap'[sl].xmax # heap[sl].xmax
         /\ heap'[sl].xmax \in live_txns(s) =>
       LET k == heap[sl].key IN
       {<<sl, heap[sl].xmin>>} = IF OwnRows(s)[k] = NotSet THEN CommittedRows[k]
                                 ELSE OwnRows(s)[k]]_vars

\* xmins counts exactly the snapshots still in use, so the GC horizon is held
\* back by every one of them and by nothing else.
AdvertisedExactly ==
  \A x \in 1..MaxId :
    xmins[x] = Cardinality({s \in Session : snap[s] # NoSnapshot /\ snap[s].xmin = x})

\* Of the rows that stand once every running transaction is either committed
\* or aborted, whichever way each goes (one that has begun to abort has no choice
\* left), no two share a key or a unique value.
UniqueSettled ==
  \A won \in SUBSET {s \in Session : pc[s] \notin {"abort_subxids", "abort_top"}} :
    LET done(x) == \/ clog[x] = "Committed"
                   \/ clog[x] = "InProgress" /\ \E s \in won : x \in live_txns(s)
        rows == {sl \in Used : done(heap[sl].xmin)
                                 /\ (heap[sl].xmax # NoXid => ~ done(heap[sl].xmax))}
    IN  \A a, b \in rows : a # b =>
          /\ heap[a].key # heap[b].key
          /\ heap[a].indexed /\ heap[b].indexed /\ heap[a].u # Null => heap[a].u # heap[b].u

\* storage/src/engine/vacuum.rs: "a full pass leaves no surviving reference to
\* `T` (as deleter, mirroring the aborted-creator reclaim), licensing the F4c
\* floor-advance for ALL aborted UPDATE/DELETE": the commit log forgets an
\* aborted id below the vacuum floor and then reports it committed.
FloorLicensed ==
  \A sl \in Used : \A x \in {heap[sl].xmin, heap[sl].xmax} \ {NoXid} :
    clog[x] = "Aborted" => x >= vac.vacuum_floor
=============================================================================
