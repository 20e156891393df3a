----------------------------- MODULE Durability -----------------------------
(***************************************************************************)
(* What survives a crash: the write-ahead log and its durable end, the     *)
(* commit log and its snapshot file, the control record of the fuzzy       *)
(* checkpoint, transaction ids, sequences and one heap page                *)
(* (wal/src/file.rs, wal/src/clog.rs, server/src/checkpoint.rs,            *)
(* server/src/recovery.rs, server/src/query/txn.rs and vacuum.rs).         *)
(*                                                                         *)
(* An LSN is the number of records before it, as in BufferPool.  The page  *)
(* is the set of ids that have a version on it.  A file replaced by rename *)
(* is either the old or the new one after a crash.                         *)
(***************************************************************************)
EXTENDS Integers, Sequences, FiniteSets, FiniteSetsExt

CONSTANTS
  Session,        \* client sessions
  MaxXid,         \* bound: no id past this one is handed out
  MaxLog,         \* bound: sessions write no record past this many
  MaxCheckpoints, \* bound: checkpoints begun by the worker
  MaxVacuums,     \* bound: VACUUMs
  MaxNextvals,    \* bound: calls of nextval
  MaxFailures,    \* bound: failed writes of the log or of wal.meta
  MaxCrashes,     \* bound: crashes
  Scales,         \* bounds: how many sessions run at once and how many of the
                  \* events above, savepoints included, happen in a behaviour
  Races           \* the windows to explore, see ReissueWindow and FloorWindow

FIRST_NORMAL_XID == 3
VACUUM_TXN == 0
Xid == FIRST_NORMAL_XID .. MaxXid
NoXid == -1
NoLsn == -1

ASSUME DurabilityAssumption ==
  /\ MaxXid \in Nat /\ MaxXid >= FIRST_NORMAL_XID
  /\ Scales \subseteq [sessions : Nat, events : Nat] /\ Scales # {}
  /\ Races \subseteq {"reissue", "floor"}

VARIABLES
  wal,          \* the log
  meta,         \* wal.meta: replay_floor and durable_end; visible is the end in a
                \* replacement of the file that a crash may undo
  pending,      \* pending_commits: ids of commit records not yet flushed
  poisoned,     \* the log refuses every call after a failed write
  clog,         \* in-memory statuses and the implicit-committed floor
  vacuum_floor, \* below it aborted ids have no version left
  clog_file,    \* clog.dat
  control,      \* the durable control record
  page,         \* the heap page in the pool
  disk,         \* the heap page in its file
  next_xid,     \* the id allocator
  active,       \* the registry of running ids
  txn,          \* session -> its transaction
  vac,          \* the running VACUUM
  ckpt,         \* the checkpoint runner
  sequence,     \* last value of the sequence
  mode,         \* "up", "recovered" (checkpoint of recovery), "down", "failed"
  client,       \* what clients know: ids, sequence values
  bounds        \* how often each bounded event has happened

vars == <<wal, meta, pending, poisoned, clog, vacuum_floor, clog_file, control,
          page, disk, next_xid, active, txn, vac, ckpt, sequence, mode, client,
          bounds>>
log == <<wal, meta, pending, poisoned, clog>>
files == <<clog_file, control, disk>>

-----------------------------------------------------------------------------
(* State.                                                                  *)

\* ids: the subxids of a commit, the versions a prune removes; value: of a
\* sequence advance.
Record(xid, kind, ids, value) == [xid |-> xid, kind |-> kind, ids |-> ids, value |-> value]

Idle == [pc |-> "idle", xid |-> NoXid, sub |-> NoXid, wrote |-> FALSE]
NoVacuum == [pc |-> "idle", xid |-> NoXid, boundary |-> 0]
NoCheckpoint == [pc |-> "idle", active |-> {}, boundary |-> 0, end |-> 0, redo |-> 0,
                 sequence |-> 0, snapshot |-> <<>>]
NoClogFile == [lsn |-> 0, authorized |-> 0, floor |-> FIRST_NORMAL_XID,
               vacuum_floor |-> FIRST_NORMAL_XID, loaded |-> FALSE,
               st |-> [x \in Xid |-> "None"]]

Family(t) == {t.xid, t.sub} \ {NoXid}
Min0(S, default) == IF S = {} THEN default ELSE Min(S)
Max0(S, default) == IF S = {} THEN default ELSE Max(S)

Init ==
  /\ wal = <<>> /\ meta = [replay_floor |-> 0, durable_end |-> 0, visible |-> 0]
  /\ pending = {} /\ poisoned = FALSE
  /\ clog = [floor |-> FIRST_NORMAL_XID, st |-> [x \in Xid |-> "None"]]
  /\ vacuum_floor = FIRST_NORMAL_XID
  /\ clog_file = NoClogFile
  /\ control = [end |-> 0, redo |-> 0, sequence |-> 0]
  /\ page = [ids |-> {}, lsn |-> 0, rec |-> NoLsn]
  /\ disk = [ids |-> {}, lsn |-> 0]
  /\ next_xid = FIRST_NORMAL_XID /\ active = {}
  /\ txn = [s \in Session |-> Idle]
  /\ vac = NoVacuum /\ ckpt = NoCheckpoint
  /\ sequence = 0 /\ mode = "up"
  /\ client = [told |-> [x \in Xid |-> "none"], wrote |-> {}, asked |-> {}, served |-> {}]
  /\ \E scale \in Scales :
       bounds = [scale |-> scale, checkpoints |-> 0, vacuums |-> 0, nextvals |-> 0, failures |-> 0, crashes |-> 0,
                 savepoints |-> 0]

Events == bounds.checkpoints + bounds.vacuums + bounds.nextvals + bounds.failures
          + bounds.crashes + bounds.savepoints
Count(what) == Events < bounds.scale.events /\ bounds' = [bounds EXCEPT ![what] = @ + 1]

-----------------------------------------------------------------------------
(* The commit log.                                                         *)

\* Clog::status: reserved ids and unrecorded ids below the floor are committed.
status(c, x) == IF x < FIRST_NORMAL_XID THEN "Committed"
                ELSE IF c.st[x] # "None" THEN c.st[x]
                ELSE IF x < c.floor THEN "Committed" ELSE "InProgress"

SetStatus(c, S, new) == [c EXCEPT !.st = [x \in Xid |-> IF x \in S THEN new ELSE @[x]]]
Recorded(c) == {x \in Xid : c.st[x] # "None"}

\* Mutant: a running id does not hold the floor back.
snapshot_floor_Settled(c, vfloor, captured, boundary) ==
  LET explicit == {x \in Recorded(c) : c.st[x] = "Aborted" /\ x >= vfloor}
  IN  Max({Min({Min0(explicit, Max0(Recorded(c), c.floor - 1) + 1), boundary}),
           c.floor})

\* Clog::live_snapshot: the oldest id whose status must stay explicit.
snapshot_floor(c, vfloor, captured, boundary) ==
  LET explicit == {x \in Recorded(c) : \/ c.st[x] = "InProgress"
                                       \/ c.st[x] = "Aborted" /\ x >= vfloor}
      settled_boundary == Max0(Recorded(c), c.floor - 1) + 1
  IN  Max({Min({Min0(explicit \cup captured, settled_boundary), boundary}), c.floor})

live_snapshot(c, lsn, authorized, vfloor, captured, boundary) ==
  LET floor == snapshot_floor(c, vfloor, captured, boundary)
  IN  [lsn |-> lsn, authorized |-> authorized, floor |-> floor,
       vacuum_floor |-> vfloor, loaded |-> TRUE,
       st |-> [x \in Xid |-> IF x < floor THEN "None"
                             ELSE IF x \in captured /\ status(c, x) = "InProgress"
                             THEN "InProgress" ELSE c.st[x]]]

\* Clog::prune_to.
prune_to(c, floor) ==
  LET f == Max({c.floor, floor})
  IN  [floor |-> f, st |-> [x \in Xid |-> IF x < f THEN "None" ELSE c.st[x]]]

-----------------------------------------------------------------------------
(* The log.                                                                *)

Settles(r, x) == \/ r.kind = "commit" /\ x \in {r.xid} \cup r.ids
                 \/ r.kind = "abort" /\ x = r.xid
represents_transaction(r) == r.xid # VACUUM_TXN /\ r.kind # "checkpoint"

\* append_positioned: the status is set before the log is found poisoned; a
\* commit takes effect only when it is flushed.
AppendAll(rs) ==
  LET aborted == {rs[i].xid : i \in {j \in DOMAIN rs : rs[j].kind = "abort"}}
      running == {rs[i].xid : i \in {j \in DOMAIN rs : /\ represents_transaction(rs[j])
                                                        /\ rs[j].kind # "abort"}}
      commits == {i \in DOMAIN rs : rs[i].kind = "commit"}
  IN  /\ clog' = SetStatus(SetStatus(clog, running, "InProgress"), aborted, "Aborted")
      /\ IF poisoned
           THEN UNCHANGED <<wal, pending>>
           ELSE /\ wal' = wal \o rs
                /\ pending' = pending \cup UNION {{rs[i].xid} \cup rs[i].ids : i \in commits}
      /\ UNCHANGED <<meta, poisoned>>

AppendRecord(r) == AppendAll(<<r>>)

\* flush: the records and then wal.meta are synced, and the pending commits show.
FlushOk ==
  /\ ~ poisoned
  /\ meta' = [meta EXCEPT !.durable_end = Len(wal), !.visible = Len(wal)]
  /\ clog' = SetStatus(clog, pending, "Committed") /\ pending' = {}
  /\ UNCHANGED <<wal, poisoned>>

\* correct_failed_flush: fsync or the replacement of wal.meta failed; the suffix
\* is cut off, its commits are dropped and the log is poisoned.
FlushFails ==
  /\ ~ poisoned /\ bounds.failures < MaxFailures
  /\ wal' = SubSeq(wal, 1, meta.durable_end)
  /\ pending' = {} /\ poisoned' = TRUE
  /\ UNCHANGED <<meta, clog>>

\* The replacement of wal.meta is visible but its directory is not synced: nothing
\* is cut off, and whether the commits are durable is not known until a restart.
FlushUnknown ==
  /\ ~ poisoned /\ bounds.failures < MaxFailures /\ Len(wal) > meta.durable_end
  /\ meta' = [meta EXCEPT !.visible = Len(wal)] /\ poisoned' = TRUE
  /\ UNCHANGED <<wal, pending, clog>>

FlushRefused == poisoned /\ UNCHANGED log

\* What the calls that append or flush for a commit or an abort then get ends the
\* server, see ExitUnknown.
OutcomeUnknown == poisoned /\ meta.visible # meta.durable_end

\* A flush that returns an error.
FlushError == \/ FlushFails /\ Count("failures")
              \/ FlushRefused /\ UNCHANGED bounds

-----------------------------------------------------------------------------
(* Transactions.                                                           *)

\* The checkpoint fence: the checkpointer holds it exclusively while "bounded",
\* a call of nextval shares it while its record is flushed.
FenceOpen == ckpt.pc # "bounded"
FenceFree == \A s \in Session : txn[s].pc # "nextval"

\* An id handed out after the checkpoint read the allocator settles before the
\* checkpoint reads the end of the log.
ReissueWindow(S) == ckpt.pc = "bounded" /\ \E x \in S : x >= ckpt.boundary
\* VACUUM raises the floor between the flush and the snapshot of checkpoint_clog.
FloorWindow == ckpt.pc \in {"snapshot", "write"}

\* register_active_txn: allocate and register in one step.
Allocate ==
  /\ next_xid <= MaxXid
  /\ next_xid' = next_xid + 1 /\ active' = active \cup {next_xid}
  /\ client' = [client EXCEPT !.told[next_xid] = "none", !.wrote = @ \ {next_xid},
                              !.asked = @ \ {next_xid}]

Begin(s) ==
  /\ mode = "up" /\ txn[s].pc = "idle" /\ Allocate
  /\ Cardinality({r \in Session : txn[r].pc # "idle"}) < bounds.scale.sessions
  /\ txn' = [txn EXCEPT ![s] = [Idle EXCEPT !.pc = "open", !.xid = next_xid]]
  /\ UNCHANGED <<log, vacuum_floor, files, page, vac, ckpt, sequence, mode, bounds>>

Savepoint(s) ==
  /\ txn[s].pc = "open" /\ txn[s].sub = NoXid /\ Allocate
  /\ txn' = [txn EXCEPT ![s].sub = next_xid] /\ Count("savepoints")
  /\ UNCHANGED <<log, vacuum_floor, files, page, vac, ckpt, sequence, mode>>

\* A row version is logged and published on the page under a share of the fence.
Insert(s) ==
  LET x == Max(Family(txn[s])) IN
  /\ txn[s].pc = "open" /\ x \notin client.wrote /\ FenceOpen /\ Len(wal) < MaxLog
  /\ AppendRecord(Record(x, "insert", {}, 0))
  /\ IF poisoned
       THEN UNCHANGED <<page, txn, client>>
       ELSE /\ page' = [ids |-> page.ids \cup {x}, lsn |-> Len(wal'),
                        rec |-> IF page.rec = NoLsn THEN Len(wal) ELSE page.rec]
            /\ txn' = [txn EXCEPT ![s].wrote = TRUE]
            /\ client' = [client EXCEPT !.wrote = @ \cup {x}]
  /\ UNCHANGED <<vacuum_floor, files, next_xid, active, vac, ckpt, sequence, mode, bounds>>

\* abort_subxids: ROLLBACK TO SAVEPOINT.
RollbackTo(s) ==
  LET x == txn[s].sub IN
  /\ txn[s].pc = "open" /\ x # NoXid /\ ~ OutcomeUnknown
  /\ AppendRecord(Record(x, "abort", {}, 0))
  /\ active' = active \ {x}
  /\ txn' = [txn EXCEPT ![s].sub = NoXid]
  /\ client' = [client EXCEPT !.told[x] = "failed"]
  /\ UNCHANGED <<vacuum_floor, files, page, next_xid, vac, ckpt, sequence, mode, bounds>>

\* abort_subxids and rollback_pre_durable: the family is aborted, whether or not
\* its records reach the log, and the client is told.
AbortFamily(s) ==
  LET t == txn[s]
      sub == IF t.sub = NoXid THEN <<>> ELSE <<Record(t.sub, "abort", {}, 0)>>
  IN  /\ AppendAll(sub \o <<Record(t.xid, "abort", {}, 0)>>)
      /\ active' = active \ Family(t)
      /\ txn' = [txn EXCEPT ![s] = Idle]
      /\ client' = [client EXCEPT !.told = [x \in Xid |-> IF x \in Family(t)
                                                          THEN "failed" ELSE @[x]]]

Abort(s) ==
  /\ txn[s].pc \in {"open", "abort"} /\ ~ OutcomeUnknown /\ AbortFamily(s)
  /\ UNCHANGED <<vacuum_floor, files, page, next_xid, vac, ckpt, sequence, mode, bounds>>

\* commit_transaction: an explicit transaction without writes leaves no record.
EndReadOnly(s) ==
  /\ txn[s].pc = "open" /\ ~ txn[s].wrote
  /\ active' = active \ Family(txn[s])
  /\ txn' = [txn EXCEPT ![s] = Idle]
  /\ UNCHANGED <<log, vacuum_floor, files, page, next_xid, vac, ckpt, sequence,
                 mode, client, bounds>>

\* append_and_flush_commit, first half; an autocommit statement writes a commit
\* record even when it changed no row.
CommitAppend(s) ==
  LET t == txn[s] IN
  /\ t.pc = "open" /\ ~ poisoned
  /\ "reissue" \in Races \/ ~ ReissueWindow(Family(t))
  /\ AppendRecord(Record(t.xid, "commit", Family(t) \ {t.xid}, 0))
  /\ txn' = [txn EXCEPT ![s].pc = "flush"]
  /\ client' = [client EXCEPT !.asked = @ \cup Family(t)]
  /\ UNCHANGED <<vacuum_floor, files, page, next_xid, active, vac, ckpt, sequence,
                 mode, bounds>>

CommitFlush(s) ==
  /\ txn[s].pc = "flush" /\ FlushOk
  /\ txn' = [txn EXCEPT ![s].pc = "settle"]
  /\ UNCHANGED <<vacuum_floor, files, page, next_xid, active, vac, ckpt, sequence,
                 mode, client, bounds>>

CommitFlushFails(s) ==
  /\ txn[s].pc = "flush" /\ ~ OutcomeUnknown /\ FlushError
  /\ txn' = [txn EXCEPT ![s].pc = "abort"]
  /\ UNCHANGED <<vacuum_floor, files, page, next_xid, active, vac, ckpt, sequence,
                 mode, client>>

\* deregister_all, and the client is told.
CommitSettle(s) ==
  LET t == txn[s] IN
  /\ t.pc = "settle"
  /\ active' = active \ Family(t)
  /\ txn' = [txn EXCEPT ![s] = Idle]
  /\ client' = [client EXCEPT !.told = [x \in Xid |-> IF x \in Family(t)
                                                      THEN "committed" ELSE @[x]]]
  /\ UNCHANGED <<log, vacuum_floor, files, page, next_xid, vac, ckpt, sequence,
                 mode, bounds>>

-----------------------------------------------------------------------------
(* Sequences.                                                              *)

\* nextval: the record is appended and flushed under a share of the fence and
\* the latch of the sequence; only then is the value stored and returned.
NextvalAppend(s) ==
  /\ txn[s].pc = "open" /\ bounds.nextvals < MaxNextvals
  /\ FenceOpen /\ FenceFree /\ ~ poisoned
  /\ AppendRecord(Record(txn[s].xid, "advance", {}, sequence + 1))
  /\ txn' = [txn EXCEPT ![s].pc = "nextval", ![s].wrote = TRUE]
  /\ Count("nextvals")
  /\ UNCHANGED <<vacuum_floor, files, page, next_xid, active, vac, ckpt, sequence,
                 mode, client>>

\* Mutant: the value is returned without a flush.
NextvalReturn_NoFlush(s) ==
  /\ txn[s].pc = "nextval" /\ UNCHANGED log
  /\ sequence' = sequence + 1
  /\ client' = [client EXCEPT !.served = @ \cup {sequence + 1}]
  /\ txn' = [txn EXCEPT ![s].pc = "open"]
  /\ UNCHANGED <<vacuum_floor, files, page, next_xid, active, vac, ckpt, mode, bounds>>

NextvalReturn(s) ==
  /\ txn[s].pc = "nextval" /\ FlushOk
  /\ sequence' = sequence + 1
  /\ client' = [client EXCEPT !.served = @ \cup {sequence + 1}]
  /\ txn' = [txn EXCEPT ![s].pc = "open"]
  /\ UNCHANGED <<vacuum_floor, files, page, next_xid, active, vac, ckpt, mode, bounds>>

NextvalFails(s) ==
  /\ txn[s].pc = "nextval" /\ (FlushError \/ (FlushUnknown /\ Count("failures")))
  /\ txn' = [txn EXCEPT ![s].pc = "open"]
  /\ UNCHANGED <<vacuum_floor, files, page, next_xid, active, vac, ckpt, sequence,
                 mode, client>>

-----------------------------------------------------------------------------
(* VACUUM.                                                                 *)

\* The cleanup transaction of a full VACUUM: its id is registered, and the oldest
\* running id is read as the boundary of the new floor.
VacuumBegin ==
  /\ mode = "up" /\ vac.pc = "idle" /\ bounds.vacuums < MaxVacuums /\ Allocate
  /\ vac' = [pc |-> "commit", xid |-> next_xid, boundary |-> Min(active')]
  /\ Count("vacuums")
  /\ UNCHANGED <<log, vacuum_floor, files, page, txn, ckpt, sequence, mode>>

\* append_and_flush_maintenance_commit.
VacuumCommit ==
  /\ vac.pc = "commit" /\ ~ poisoned
  /\ "reissue" \in Races \/ ~ ReissueWindow({vac.xid})
  /\ AppendRecord(Record(vac.xid, "commit", {}, 0))
  /\ vac' = [vac EXCEPT !.pc = "flush"]
  /\ client' = [client EXCEPT !.asked = @ \cup {vac.xid}]
  /\ UNCHANGED <<vacuum_floor, files, page, next_xid, active, txn, ckpt, sequence,
                 mode, bounds>>

VacuumFlush ==
  /\ vac.pc = "flush" /\ FlushOk
  /\ vac' = [vac EXCEPT !.pc = "prune"]
  /\ active' = active \ {vac.xid}
  /\ UNCHANGED <<vacuum_floor, files, page, next_xid, txn, ckpt, sequence, mode,
                 client, bounds>>

\* rollback_pre_durable: an error or a cancel before the commit, or a commit that
\* cannot be flushed, aborts the cleanup transaction.
VacuumAbort ==
  /\ vac.pc \in {"commit", "abort"} /\ ~ OutcomeUnknown
  /\ AppendRecord(Record(vac.xid, "abort", {}, 0))
  /\ vac' = NoVacuum /\ active' = active \ {vac.xid}
  /\ UNCHANGED <<vacuum_floor, files, page, next_xid, txn, ckpt, sequence, mode,
                 client, bounds>>

VacuumFlushFails ==
  /\ vac.pc = "flush" /\ ~ OutcomeUnknown /\ FlushError
  /\ vac' = [vac EXCEPT !.pc = "abort"]
  /\ UNCHANGED <<vacuum_floor, files, page, next_xid, active, txn, ckpt, sequence,
                 mode, client>>

Dead == {x \in page.ids : status(clog, x) = "Aborted"}

\* prune_vacuum_tables: the prune record belongs to no transaction and is not flushed.
VacuumPrune ==
  /\ vac.pc = "prune"
  /\ IF Dead = {}
       THEN /\ vac' = [vac EXCEPT !.pc = "floor"]
            /\ UNCHANGED <<log, page>>
       ELSE /\ FenceOpen
            /\ AppendRecord(Record(VACUUM_TXN, "prune", Dead, 0))
            /\ IF poisoned
                 THEN vac' = NoVacuum /\ UNCHANGED page
                 ELSE /\ vac' = [vac EXCEPT !.pc = "floor"]
                      /\ page' = [ids |-> page.ids \ Dead, lsn |-> Len(wal'),
                                  rec |-> IF page.rec = NoLsn THEN Len(wal) ELSE page.rec]
  /\ UNCHANGED <<vacuum_floor, files, next_xid, active, txn, ckpt, sequence, mode,
                 client, bounds>>

\* set_vacuum_floor.
VacuumFloor ==
  /\ vac.pc = "floor"
  /\ "floor" \in Races \/ ~ FloorWindow
  /\ vacuum_floor' = IF poisoned THEN vacuum_floor ELSE Max({vacuum_floor, vac.boundary})
  /\ vac' = NoVacuum
  /\ UNCHANGED <<log, files, page, next_xid, active, txn, ckpt, sequence, mode,
                 client, bounds>>

-----------------------------------------------------------------------------
(* The fuzzy checkpoint.                                                   *)

\* A dirty page is written by a steal or by the checkpoint, after a flush.
WritePage ==
  /\ mode \in {"up", "recovered"} /\ page.rec # NoLsn /\ FlushOk
  /\ disk' = [ids |-> page.ids, lsn |-> page.lsn]
  /\ page' = [page EXCEPT !.rec = NoLsn]
  /\ UNCHANGED <<vacuum_floor, clog_file, control, next_xid, active, txn, vac, ckpt,
                 sequence, mode, client, bounds>>

WritePageFails ==
  /\ mode = "up" /\ page.rec # NoLsn /\ (FlushFails \/ FlushUnknown) /\ Count("failures")
  /\ UNCHANGED <<vacuum_floor, files, page, next_xid, active, txn, vac, ckpt,
                 sequence, mode, client>>

CkptMove(c) == ckpt' = c
CkptOnly == UNCHANGED <<vacuum_floor, page, next_xid, active, txn, vac, sequence, client>>

\* Under the exclusive fence the registry and the allocator are read together.
CkptBoundary ==
  /\ \/ mode = "up" /\ bounds.checkpoints < MaxCheckpoints /\ Count("checkpoints")
     \/ mode = "recovered" /\ UNCHANGED bounds
  /\ ckpt.pc = "idle" /\ FenceFree /\ ~ poisoned
  /\ CkptMove([NoCheckpoint EXCEPT !.pc = "bounded", !.active = active,
                                   !.boundary = next_xid])
  /\ UNCHANGED <<log, files, mode>> /\ CkptOnly

\* Mutant: redo starts at the end of the log although the page is dirty.
CkptEnd_IgnoresDirty ==
  /\ ckpt.pc = "bounded" /\ ~ poisoned
  /\ CkptMove([ckpt EXCEPT !.pc = "marker", !.end = Len(wal), !.redo = Len(wal),
                           !.sequence = sequence])
  /\ UNCHANGED <<log, files, mode, bounds>> /\ CkptOnly

\* The end of the log, the first record still to be redone, the sequence.
CkptEnd ==
  /\ ckpt.pc = "bounded" /\ ~ poisoned
  /\ CkptMove([ckpt EXCEPT !.pc = "marker", !.end = Len(wal),
                           !.redo = IF page.rec = NoLsn THEN Len(wal) ELSE page.rec,
                           !.sequence = sequence])
  /\ UNCHANGED <<log, files, mode, bounds>> /\ CkptOnly

\* The marker carries the ids handed out so far.
CkptMarker ==
  /\ ckpt.pc = "marker" /\ ~ poisoned
  /\ AppendRecord(Record(ckpt.boundary - 1, "checkpoint", {}, 0))
  /\ CkptMove([ckpt EXCEPT !.pc = "flush"])
  /\ UNCHANGED <<files, mode, bounds>> /\ CkptOnly

\* checkpoint_clog: flush, then under a new lock the snapshot, then the file.
CkptFlush ==
  /\ ckpt.pc = "flush" /\ FlushOk
  /\ CkptMove([ckpt EXCEPT !.pc = "snapshot"])
  /\ UNCHANGED <<files, mode, bounds>> /\ CkptOnly

\* Mutant: the snapshot claims the log up to its last record, flushed or not.
CkptSnapshot_Written ==
  /\ ckpt.pc = "snapshot" /\ ~ poisoned
  /\ CkptMove([ckpt EXCEPT !.pc = "write",
       !.snapshot = live_snapshot(clog, Len(wal), ckpt.redo, vacuum_floor,
                                  ckpt.active, ckpt.boundary)])
  /\ UNCHANGED <<log, files, mode, bounds>> /\ CkptOnly

CkptSnapshot ==
  /\ ckpt.pc = "snapshot" /\ ~ poisoned
  /\ CkptMove([ckpt EXCEPT !.pc = "write",
       !.snapshot = live_snapshot(clog, meta.durable_end, ckpt.redo, vacuum_floor,
                                  ckpt.active, ckpt.boundary)])
  /\ UNCHANGED <<log, files, mode, bounds>> /\ CkptOnly

CkptWriteClog ==
  /\ ckpt.pc = "write" /\ ~ poisoned
  /\ clog_file' = ckpt.snapshot
  /\ clog' = prune_to(clog, ckpt.snapshot.floor)
  /\ CkptMove([ckpt EXCEPT !.pc = "control", !.snapshot = <<>>])
  /\ UNCHANGED <<wal, meta, pending, poisoned, control, disk, mode, bounds>> /\ CkptOnly

CkptControl ==
  /\ ckpt.pc = "control"
  /\ control' = [end |-> ckpt.end, redo |-> ckpt.redo, sequence |-> ckpt.sequence]
  /\ CkptMove([ckpt EXCEPT !.pc = "recycle"])
  /\ UNCHANGED <<log, clog_file, disk, mode, bounds>> /\ CkptOnly

\* recycle_through; the checkpoint of recovery opens the server.
CkptRecycle ==
  /\ ckpt.pc = "recycle" /\ ~ poisoned
  /\ meta' = [meta EXCEPT !.replay_floor = ckpt.redo]
  /\ CkptMove(NoCheckpoint)
  /\ mode' = "up"
  /\ UNCHANGED <<wal, pending, poisoned, clog, files, bounds>> /\ CkptOnly

\* A checkpoint ends at the first call the log refuses; wal.meta may already be
\* replaced when recycle_through fails, which poisons the log.
CkptFails ==
  /\ mode = "up" /\ ckpt.pc # "idle"
  /\ \/ poisoned /\ ckpt.pc # "control" /\ UNCHANGED <<log, bounds>>
     \/ ckpt.pc = "flush" /\ (FlushFails \/ FlushUnknown) /\ Count("failures")
     \/ /\ ckpt.pc = "recycle" /\ ~ poisoned /\ bounds.failures < MaxFailures
        /\ poisoned' = TRUE /\ Count("failures")
        /\ \E floor \in {meta.replay_floor, ckpt.redo} :
             meta' = [meta EXCEPT !.replay_floor = floor]
        /\ UNCHANGED <<wal, pending, clog>>
  /\ CkptMove(NoCheckpoint)
  /\ UNCHANGED <<files, mode>> /\ CkptOnly

-----------------------------------------------------------------------------
(* Crash and recovery.                                                     *)

\* Memory is lost; the log is cut at the durable end when it is opened.
Down(end) ==
  /\ mode' = "down"
  /\ meta' = [meta EXCEPT !.durable_end = end, !.visible = end]
  /\ wal' = SubSeq(wal, 1, end)
  /\ pending' = {} /\ poisoned' = FALSE
  /\ active' = {} /\ txn' = [s \in Session |-> Idle]
  /\ vac' = NoVacuum /\ ckpt' = NoCheckpoint
  /\ page' = [ids |-> disk.ids, lsn |-> disk.lsn, rec |-> NoLsn]
  /\ UNCHANGED <<clog, vacuum_floor, files, next_xid, sequence, client>>

Crash ==
  /\ mode \in {"up", "recovered"} /\ bounds.crashes < MaxCrashes
  /\ Count("crashes")
  /\ \E end \in {meta.durable_end, meta.visible} : Down(end)

\* fatal_ambiguous_commit, of a session or of VACUUM: wal.meta was replaced but its
\* directory not synced, by this flush or by an earlier one of somebody else, and
\* the server exits; either file may be found.
ExitUnknown ==
  /\ mode = "up"
  /\ \/ /\ ~ poisoned /\ Len(wal) > meta.durable_end
        /\ vac.pc = "flush" \/ \E s \in Session : txn[s].pc = "flush"
        /\ bounds.failures < MaxFailures /\ Count("failures")
        /\ \E end \in {meta.durable_end, Len(wal)} : Down(end)
     \/ /\ OutcomeUnknown /\ UNCHANGED bounds
        /\ \/ vac.pc \in {"commit", "flush", "abort"}
           \/ \E s \in Session : txn[s].pc \in {"open", "flush", "abort"}
        /\ \E end \in {meta.durable_end, meta.visible} : Down(end)

Retained(from) == {i \in DOMAIN wal : i > from}

\* FileWalManager::open: the snapshot file, then the statuses of the records after it.
fold_status(base, from) ==
  LET settling(x) == {i \in Retained(from) : Settles(wal[i], x)}
      seen(x) == \E i \in Retained(from) : represents_transaction(wal[i]) /\ wal[i].xid = x
      folded(x) == IF settling(x) # {}
                     THEN IF wal[Max(settling(x))].kind = "commit" THEN "Committed" ELSE "Aborted"
                     ELSE IF seen(x) /\ status(base, x) = "InProgress" THEN "InProgress"
                     ELSE base.st[x]
  IN  [base EXCEPT !.st = [x \in Xid |-> folded(x)]]

\* open_app: redo of the page records after the redo position, gated by the page LSN.
redo_page ==
  LET applied == {i \in Retained(Max({control.redo, disk.lsn})) :
                    wal[i].kind \in {"insert", "prune"}}
      last(x) == {i \in applied : \/ wal[i].kind = "insert" /\ wal[i].xid = x
                                  \/ wal[i].kind = "prune" /\ x \in wal[i].ids}
      present(x) == IF last(x) = {} THEN x \in disk.ids ELSE wal[Max(last(x))].kind = "insert"
  IN  [ids |-> {x \in Xid : present(x)}, lsn |-> Max(applied \cup {disk.lsn}),
       rec |-> IF applied = {} THEN NoLsn ELSE Min(applied) - 1]

redo_sequence ==
  LET advances == {i \in Retained(control.end) : wal[i].kind = "advance"}
  IN  IF advances = {} THEN control.sequence ELSE wal[Max(advances)].value

\* Mutant: the ids in the payload of a commit are not looked at.
recovered_next_xid_HeadersOnly ==
  Max({wal[i].xid : i \in Retained(meta.replay_floor)} \cup {FIRST_NORMAL_XID - 1}) + 1

\* next_txn_id: one past every id of the retained log.
recovered_next_xid ==
  Max((UNION {{wal[i].xid} \cup (IF wal[i].kind = "commit" THEN wal[i].ids ELSE {})
              : i \in Retained(meta.replay_floor)}) \cup {FIRST_NORMAL_XID - 1}) + 1

\* Without a snapshot the floor is the oldest id of the log that did not commit.
recovered_floor(c) ==
  LET open == {wal[i].xid : i \in {j \in Retained(meta.replay_floor) :
                                     /\ represents_transaction(wal[j])
                                     /\ status(c, wal[j].xid) # "Committed"}}
  IN  Min(open \cup {recovered_next_xid})

\* resolve_all_in_flight_as_aborted.
resolve(c) == SetStatus(c, {x \in Xid : c.st[x] = "InProgress"}, "Aborted")

\* The errors of FileWalManager::open and validate_checkpoint_wal_range.
Refuses ==
  \/ meta.replay_floor > meta.durable_end
  \/ clog_file.loaded /\ \/ clog_file.lsn < meta.replay_floor
                         \/ clog_file.authorized < meta.replay_floor
                         \/ clog_file.lsn > meta.durable_end
  \/ ~ clog_file.loaded /\ meta.replay_floor # 0
  \/ meta.replay_floor > control.redo \/ control.redo > control.end
  \/ control.end > meta.durable_end

Restart ==
  LET base == [floor |-> clog_file.floor, st |-> clog_file.st]
      folded == fold_status(base, clog_file.lsn)
      floored == IF clog_file.loaded THEN folded
                 ELSE [folded EXCEPT !.floor = Max({@, recovered_floor(folded)})]
      replayed == \E i \in Retained(meta.replay_floor) :
                    \/ wal[i].kind \in {"insert", "prune"} /\ i > control.redo
                    \/ wal[i].kind = "advance" /\ i > control.end
  IN  /\ mode = "down"
      /\ IF Refuses
           THEN /\ mode' = "failed"
                /\ UNCHANGED <<clog, vacuum_floor, page, next_xid, sequence>>
           ELSE /\ mode' = IF replayed THEN "recovered" ELSE "up"
                /\ clog' = resolve(floored)
                /\ vacuum_floor' = clog_file.vacuum_floor
                /\ page' = redo_page
                /\ next_xid' = recovered_next_xid
                /\ sequence' = redo_sequence
      /\ UNCHANGED <<wal, meta, pending, poisoned, files, active, txn, vac, ckpt,
                     client, bounds>>

-----------------------------------------------------------------------------

Next ==
  \/ \E s \in Session :
       \/ Begin(s) \/ Savepoint(s) \/ Insert(s) \/ RollbackTo(s) \/ Abort(s)
       \/ EndReadOnly(s) \/ CommitAppend(s) \/ CommitFlush(s) \/ CommitFlushFails(s)
       \/ CommitSettle(s) \/ NextvalAppend(s) \/ NextvalReturn(s) \/ NextvalFails(s)
  \/ VacuumBegin \/ VacuumCommit \/ VacuumFlush \/ VacuumFlushFails \/ VacuumAbort
  \/ VacuumPrune \/ VacuumFloor
  \/ WritePage \/ WritePageFails
  \/ CkptBoundary \/ CkptEnd \/ CkptMarker \/ CkptFlush \/ CkptSnapshot
  \/ CkptWriteClog \/ CkptControl \/ CkptRecycle \/ CkptFails
  \/ Crash \/ ExitUnknown \/ Restart

Spec == Init /\ [][Next]_vars

-----------------------------------------------------------------------------
(* Properties.                                                             *)

\* A commit the client was told of is committed, and its row version is on the
\* page, whenever the server runs: across failed flushes, checkpoints that forget
\* statuses, crashes and recoveries.
CommitsDurable ==
  mode \in {"up", "recovered"} =>
    \A x \in Xid : client.told[x] = "committed" =>
      /\ status(clog, x) = "Committed"
      /\ x \in client.wrote => x \in page.ids

\* No row version reads as committed unless its client asked for the commit: the
\* floor of the commit log never passes a version of an aborted, a running or a
\* crashed transaction.
NoResurrection ==
  mode \in {"up", "recovered"} =>
    \A x \in page.ids : status(clog, x) = "Committed" => x \in client.asked

\* The files a crash leaves behind, between any two steps of a checkpoint, are
\* never refused by the next start.
StartsUp == mode # "failed"

\* An id handed out carries nothing of an earlier transaction: no row version in
\* the pool or in the page file, and no commit in the commit log.
IdsFresh ==
  [][\A x \in active' \ active :
       /\ x \notin page.ids /\ x \notin disk.ids
       /\ status(clog, x) # "Committed"]_vars

\* A value nextval returned is never returned again: the sequence never falls
\* behind a value a client has, whatever was lost in a crash.
SequenceNeverRepeats ==
  mode \in {"up", "recovered"} => \A v \in client.served : v <= sequence

\* A client that was told its transaction failed never finds it committed.
FailedStaysAborted ==
  mode \in {"up", "recovered"} =>
    \A x \in page.ids : client.told[x] = "failed" => status(clog, x) # "Committed"
=============================================================================
