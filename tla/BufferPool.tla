----------------------------- MODULE BufferPool -----------------------------
(***************************************************************************)
(* The buffer pool between sessions, the write-ahead log and the page      *)
(* files: loading and stealing of frames, page latches and the checkpoint  *)
(* fence, full-page images, the fuzzy checkpoint and redo after a crash    *)
(* (buffer/src/pool.rs, server/src/checkpoint.rs, server/src/recovery.rs,  *)
(* storage/src/redo.rs).                                                   *)
(*                                                                         *)
(* An LSN is the number of records before it: record i is wal[i], starts   *)
(* at i - 1 and ends at i.  A page is the set of the records applied to    *)
(* it, its PageLSN the largest of them.  Every page is a file of its own.  *)
(* A write to a page file is stable only after fsync: a crash before it    *)
(* leaves the old image, the new one, or a torn page.                      *)
(***************************************************************************)
EXTENDS Integers, Sequences, FiniteSets, FiniteSetsExt

CONSTANTS
  Pages,          \* page numbers
  OldPages,       \* the pages on disk when the server first starts
  Threads,        \* sessions
  FrameCount,     \* frames of the pool
  MaxRecords,     \* bound: no new page mutation past this many records
  MaxCheckpoints, \* bound: checkpoints begun by the worker
  MaxCrashes,     \* bound: crashes
  NoPage

ASSUME PoolAssumption ==
  /\ OldPages \subseteq Pages /\ NoPage \notin Pages
  /\ FrameCount \in Nat \ {0}

VARIABLES
  wal,          \* the log: records [page, kind, image]
  flushed_lsn,  \* end of the durable log
  replay_floor, \* start of the retained log
  control,      \* the durable checkpoint record
  disk,         \* page files: the stable image and the one the OS caches
  frames,       \* page -> frame or NoFrame
  guard,        \* thread -> what it does in the pool
  ckpt,         \* the checkpoint runner
  mode,         \* "up", "redo", "recovered" (checkpoint of recovery), "failed"
  cursor,       \* redo: the next record
  bounds        \* checkpoints and crashes so far

vars == <<wal, flushed_lsn, replay_floor, control, disk, frames, guard, ckpt,
          mode, cursor, bounds>>

-----------------------------------------------------------------------------
(* State.                                                                  *)

NoLsn == -1
NoImage == {0}        \* a torn page, or one past the end of its file
NoFrame == [resident |-> FALSE]

\* needs_fpi: the next change must log the whole page; rec_lsn: NoLsn when clean;
\* evict: "no", "reserved", "written"; flush: the checkpoint's reservation,
\* "no", "reserved", "captured"; redirty: first_redirty_lsn.
Frame(data, needs_fpi) ==
  [resident |-> TRUE, data |-> data, needs_fpi |-> needs_fpi, rec_lsn |-> NoLsn,
   evict |-> "no", flush |-> "no", redirty |-> NoLsn]

Resident == {p \in Pages : frames[p].resident}
Dirty == {p \in Resident : frames[p].rec_lsn # NoLsn}

\* lsn: the record appended and not yet published.
IdleGuard == [pc |-> "idle", page |-> NoPage, new |-> NoPage, data |-> {}, lsn |-> NoLsn]
IdleCkpt == [pc |-> "idle", image |-> <<>>, redo |-> 0, end |-> 0]

PageLsn(data) == Max(data \cup {0})

Init ==
  /\ wal = <<>> /\ flushed_lsn = 0 /\ replay_floor = 0
  /\ control = [redo |-> 0, end |-> 0]
  /\ disk = [p \in Pages |-> LET d == IF p \in OldPages THEN {} ELSE NoImage
                             IN  [stable |-> d, cached |-> d]]
  /\ frames = [p \in Pages |-> NoFrame]
  /\ guard = [t \in Threads |-> IdleGuard]
  /\ ckpt = IdleCkpt
  /\ mode = "up" /\ cursor = 1
  /\ bounds = [checkpoints |-> 0, crashes |-> 0]

-----------------------------------------------------------------------------
(* Pins, latches and the fence.                                            *)

\* Threads that hold the write latch of a page, and the shares of the fence
\* a thread holds: one for each completed PageWriteGuard.
HoldsPage == {"latched", "writing", "logged", "newroom", "newfence", "filling",
              "newlogged", "inserting", "leftover"}
HoldsNew == {"newfence", "filling", "newlogged"}
latched(p) == \E t \in Threads : \/ guard[t].page = p /\ guard[t].pc \in HoldsPage
                                 \/ guard[t].new = p /\ guard[t].pc \in HoldsNew
pinned(p) == \/ latched(p)
             \/ \E t \in Threads : guard[t].page = p /\ guard[t].pc = "pinned"
shared(t) == \/ guard[t].pc \in HoldsPage \ {"latched", "newroom", "newfence"}
             \/ guard[t].pc \in {"newroom", "newfence"} /\ guard[t].page # NoPage

\* parking_lot: a waiting writer holds off new readers, also those of a thread
\* that already reads.
FenceOpen == ckpt.pc # "fence"

\* Pages sessions can name: those on disk at first and those in the log.
Published == (OldPages \cup {wal[i].page : i \in 1..Len(wal)}) \ {NoPage}

Move(t, g) == guard' = [guard EXCEPT ![t] = g]

-----------------------------------------------------------------------------
(* Reading a page into the pool, and making room for it.                   *)

\* read_page / write_page: a resident frame that no steal has reserved is pinned.
LookupResident(t, p) ==
  /\ mode = "up" /\ guard[t].pc = "idle" /\ p \in Published
  /\ frames[p].resident /\ frames[p].evict = "no"
  /\ Move(t, [guard[t] EXCEPT !.pc = "pinned", !.page = p])
  /\ UNCHANGED <<wal, flushed_lsn, replay_floor, control, disk, frames, ckpt,
                 mode, cursor, bounds>>

\* The page is absent: its bytes are read from the store without the pool lock.
LoadPage(t, p) ==
  /\ mode = "up" /\ guard[t].pc = "idle" /\ p \in Published
  /\ ~ frames[p].resident
  /\ Move(t, [guard[t] EXCEPT !.pc = "loaded", !.page = p, !.data = disk[p].cached])
  /\ UNCHANGED <<wal, flushed_lsn, replay_floor, control, disk, frames, ckpt,
                 mode, cursor, bounds>>

\* Mutant: the frame is inserted whether or not there is room for it.
InsertLoaded_NoRoom(t) ==
  LET p == guard[t].page IN
  /\ guard[t].pc = "loaded"
  /\ IF frames[p].resident
       THEN frames[p].evict = "no" /\ UNCHANGED frames
       ELSE frames' = [frames EXCEPT ![p] = Frame(guard[t].data, TRUE)]
  /\ Move(t, [guard[t] EXCEPT !.pc = "pinned", !.data = {}])
  /\ UNCHANGED <<wal, flushed_lsn, replay_floor, control, disk, ckpt, mode,
                 cursor, bounds>>

\* get_or_insert_clean: the resident frame if there is one, else the bytes read.
InsertLoaded(t) ==
  LET p == guard[t].page IN
  /\ guard[t].pc = "loaded"
  /\ IF frames[p].resident
       THEN frames[p].evict = "no" /\ UNCHANGED frames
       ELSE /\ Cardinality(Resident) < FrameCount
            /\ frames' = [frames EXCEPT ![p] = Frame(guard[t].data, TRUE)]
  /\ Move(t, [guard[t] EXCEPT !.pc = "pinned", !.data = {}])
  /\ UNCHANGED <<wal, flushed_lsn, replay_floor, control, disk, ckpt, mode,
                 cursor, bounds>>

\* Somebody calls make_room because the pool is full.
redo_page == wal[cursor].page
NeedsRoom ==
  /\ Cardinality(Resident) >= FrameCount
  /\ \/ \E t \in Threads : \/ guard[t].pc = "loaded" /\ ~ frames[guard[t].page].resident
                           \/ guard[t].pc = "newroom"
     \/ /\ mode = "redo" /\ cursor <= Len(wal) /\ redo_page # NoPage
        /\ ~ frames[redo_page].resident

Evictable(p) == frames[p].resident /\ ~ pinned(p) /\ frames[p].flush = "no"
                /\ frames[p].evict = "no"

\* reclaim_victim: a clean frame is dropped at once.
EvictClean(p) ==
  /\ NeedsRoom /\ Evictable(p) /\ p \notin Dirty
  /\ frames' = [frames EXCEPT ![p] = NoFrame]
  /\ UNCHANGED <<wal, flushed_lsn, replay_floor, control, disk, guard, ckpt,
                 mode, cursor, bounds>>

\* A dirty one is reserved,
StealReserve(p) ==
  /\ NeedsRoom /\ Evictable(p) /\ p \in Dirty
  /\ frames' = [frames EXCEPT ![p].evict = "reserved"]
  /\ UNCHANGED <<wal, flushed_lsn, replay_floor, control, disk, guard, ckpt,
                 mode, cursor, bounds>>

\* written once the log is durable,
StealWrite(p) ==
  /\ frames[p].resident /\ frames[p].evict = "reserved"
  /\ flushed_lsn' = Len(wal)
  /\ disk' = [disk EXCEPT ![p].cached = frames[p].data]
  /\ frames' = [frames EXCEPT ![p].evict = "written"]
  /\ UNCHANGED <<wal, replay_floor, control, guard, ckpt, mode, cursor, bounds>>

\* and removed after the fsync of its file.
StealRemove(p) ==
  /\ frames[p].resident /\ frames[p].evict = "written"
  /\ disk' = [disk EXCEPT ![p].stable = disk[p].cached]
  /\ frames' = [frames EXCEPT ![p] = NoFrame]
  /\ UNCHANGED <<wal, flushed_lsn, replay_floor, control, guard, ckpt, mode,
                 cursor, bounds>>

\* Every frame is pinned or reserved by a checkpoint: the caller gets an error
\* and drops the guards it holds.
NoVictim(t) ==
  /\ NeedsRoom /\ guard[t].pc \in {"loaded", "newroom"}
  /\ \A p \in Resident : pinned(p) \/ frames[p].flush # "no" \/ frames[p].evict # "no"
  /\ Move(t, IdleGuard)
  /\ UNCHANGED <<wal, flushed_lsn, replay_floor, control, disk, frames, ckpt,
                 mode, cursor, bounds>>

-----------------------------------------------------------------------------
(* Page guards and changes.                                                *)

\* write_guard takes the latch and then a share of the fence.
TakeLatch(t) ==
  /\ guard[t].pc = "pinned" /\ ~ latched(guard[t].page)
  /\ Move(t, [guard[t] EXCEPT !.pc = "latched"])
  /\ UNCHANGED <<wal, flushed_lsn, replay_floor, control, disk, frames, ckpt,
                 mode, cursor, bounds>>

TakeShare(t) ==
  /\ guard[t].pc = "latched" /\ FenceOpen
  /\ Move(t, [guard[t] EXCEPT !.pc = "writing"])
  /\ UNCHANGED <<wal, flushed_lsn, replay_floor, control, disk, frames, ckpt,
                 mode, cursor, bounds>>

\* A reader, or a writer that finds nothing to do (no room, a conflict), drops
\* its guard.
DropGuard(t) ==
  /\ guard[t].pc \in {"pinned", "writing"}
  /\ Move(t, IdleGuard)
  /\ UNCHANGED <<wal, flushed_lsn, replay_floor, control, disk, frames, ckpt,
                 mode, cursor, bounds>>

\* publish_mutation: the first change of a clean page fixes rec_lsn, a change
\* while a checkpoint writes the page is remembered beside it.
publish_mutation(f, lsn, data) ==
  [f EXCEPT !.data = data,
            !.rec_lsn = IF f.rec_lsn = NoLsn THEN lsn - 1 ELSE f.rec_lsn,
            !.redirty = IF f.flush = "captured" /\ f.redirty = NoLsn
                          THEN lsn - 1 ELSE f.redirty]

\* A change is logged first and published to the frame after it, all under the
\* guard.  A heap change is a delta unless the page needs a full image
\* (take_needs_fpi); an index or VACUUM change always logs the image and leaves
\* the flag alone.
Append1(p, kind, data) == wal' = Append(wal, [page |-> p, kind |-> kind, image |-> data])

LogChange(t) ==
  LET p == guard[t].page
      f == frames[p]
      lsn == Len(wal) + 1
      data == f.data \cup {lsn}
  IN  /\ \/ guard[t].pc = "writing" /\ Len(wal) < MaxRecords
         \/ guard[t].pc = "inserting"
      /\ \/ /\ Append1(p, IF f.needs_fpi THEN "image" ELSE "delta", data)
            /\ frames' = [frames EXCEPT ![p].needs_fpi = FALSE]
         \/ /\ guard[t].pc = "writing"
            /\ Append1(p, "image", data)
            /\ UNCHANGED frames
      /\ Move(t, [guard[t] EXCEPT !.pc = "logged", !.lsn = lsn])
      /\ UNCHANGED <<flushed_lsn, replay_floor, control, disk, ckpt, mode, cursor,
                     bounds>>

Publish(t) ==
  LET p == guard[t].page
      lsn == guard[t].lsn
  IN  /\ guard[t].pc = "logged"
      /\ frames' = [frames EXCEPT ![p] = publish_mutation(@, lsn, wal[lsn].image)]
      /\ Move(t, IdleGuard)
      /\ UNCHANGED <<wal, flushed_lsn, replay_floor, control, disk, ckpt, mode, cursor,
                     bounds>>

-----------------------------------------------------------------------------
(* Allocation of a page: a table is extended, or a full index node is      *)
(* split under the guard of the node.                                      *)

Extend(t) ==
  /\ mode = "up" /\ guard[t].pc = "idle" /\ Len(wal) < MaxRecords
  /\ Move(t, [guard[t] EXCEPT !.pc = "newroom"])
  /\ UNCHANGED <<wal, flushed_lsn, replay_floor, control, disk, frames, ckpt,
                 mode, cursor, bounds>>

SplitNode(t) ==
  /\ guard[t].pc = "writing" /\ Len(wal) < MaxRecords
  /\ Move(t, [guard[t] EXCEPT !.pc = "newroom"])
  /\ UNCHANGED <<wal, flushed_lsn, replay_floor, control, disk, frames, ckpt,
                 mode, cursor, bounds>>

\* insert_fresh_frame; the page number is one never logged before.
NewPage(t, q) ==
  /\ guard[t].pc = "newroom" /\ Cardinality(Resident) < FrameCount
  /\ q \notin Published /\ ~ frames[q].resident
  /\ frames' = [frames EXCEPT ![q] = Frame({}, FALSE)]
  /\ Move(t, [guard[t] EXCEPT !.pc = "newfence", !.new = q])
  /\ UNCHANGED <<wal, flushed_lsn, replay_floor, control, disk, ckpt, mode,
                 cursor, bounds>>

\* new_page_write_guard: the share of the fence for the new page.
NewShare(t) ==
  /\ guard[t].pc = "newfence" /\ FenceOpen
  /\ Move(t, [guard[t] EXCEPT !.pc = "filling"])
  /\ UNCHANGED <<wal, flushed_lsn, replay_floor, control, disk, frames, ckpt,
                 mode, cursor, bounds>>

\* The new page is logged and published first: as HeapInit, or as the right half.
FillNewPage(t) ==
  /\ guard[t].pc = "filling"
  /\ Append1(guard[t].new, "image", {Len(wal) + 1})
  /\ Move(t, [guard[t] EXCEPT !.pc = "newlogged", !.lsn = Len(wal) + 1])
  /\ UNCHANGED <<flushed_lsn, replay_floor, control, disk, frames, ckpt, mode, cursor,
                 bounds>>

\* Then the row goes into the heap page under the same guard, or the guard of
\* the right half is dropped.
PublishNew(t) ==
  LET g == guard[t] IN
  /\ g.pc = "newlogged"
  /\ frames' = [frames EXCEPT ![g.new] = publish_mutation(@, g.lsn, wal[g.lsn].image)]
  /\ Move(t, IF g.page = NoPage
               THEN [g EXCEPT !.pc = "inserting", !.page = g.new, !.new = NoPage]
               ELSE [g EXCEPT !.pc = "leftover", !.new = NoPage])
  /\ UNCHANGED <<wal, flushed_lsn, replay_floor, control, disk, ckpt, mode, cursor,
                 bounds>>

\* The left half replaces the node.
FillLeftNode(t) ==
  LET p == guard[t].page
      lsn == Len(wal) + 1
  IN  /\ guard[t].pc = "leftover"
      /\ Append1(p, "image", frames[p].data \cup {lsn})
      /\ Move(t, [guard[t] EXCEPT !.pc = "logged", !.lsn = lsn])
      /\ UNCHANGED <<flushed_lsn, replay_floor, control, disk, frames, ckpt, mode,
                     cursor, bounds>>

\* A commit makes the log durable.
FlushLog ==
  /\ mode = "up" /\ flushed_lsn < Len(wal)
  /\ flushed_lsn' = Len(wal)
  /\ UNCHANGED <<wal, replay_floor, control, disk, frames, guard, ckpt, mode,
                 cursor, bounds>>

-----------------------------------------------------------------------------
(* The fuzzy checkpoint: run_checkpoint and flush_checkpoint_batch.        *)

\* Frames found dirty are reserved against eviction; a busy frame is skipped.
\* The checkpoint of recovery has the pool to itself.
CheckpointBegin ==
  /\ ckpt.pc = "idle"
  /\ \/ mode = "up" /\ bounds.checkpoints < MaxCheckpoints
     \/ mode = "recovered"
  /\ \E S \in SUBSET {p \in Dirty : frames[p].evict = "no"} :
       /\ mode = "recovered" => S = Dirty
       /\ frames' = [p \in Pages |-> IF p \in S THEN [frames[p] EXCEPT !.flush = "reserved"]
                                                ELSE frames[p]]
  /\ ckpt' = [IdleCkpt EXCEPT !.pc = "capture"]
  /\ bounds' = [bounds EXCEPT !.checkpoints = IF mode = "up" THEN @ + 1 ELSE @]
  /\ UNCHANGED <<wal, flushed_lsn, replay_floor, control, disk, guard, mode, cursor>>

\* Mutant: the next change after the copy is logged as a delta.
CaptureFrame_NoFpi(f) == [f EXCEPT !.flush = "captured", !.redirty = NoLsn]

\* Under the latch, if it is free: copy the bytes and ask for a full image
\* at the next change.
CaptureFrame(f) == [f EXCEPT !.flush = "captured", !.redirty = NoLsn, !.needs_fpi = TRUE]

CheckpointCapture(p) ==
  /\ ckpt.pc = "capture" /\ frames[p].resident /\ frames[p].flush = "reserved"
  /\ IF ~ latched(p) /\ p \in Dirty
       THEN /\ frames' = [frames EXCEPT ![p] = CaptureFrame(@)]
            /\ ckpt' = [ckpt EXCEPT !.image = [q \in DOMAIN @ \cup {p} |->
                                                IF q = p THEN frames[p].data ELSE @[q]]]
       ELSE /\ frames' = [frames EXCEPT ![p].flush = "no"]
            /\ UNCHANGED ckpt
  /\ UNCHANGED <<wal, flushed_lsn, replay_floor, control, disk, guard, mode,
                 cursor, bounds>>

\* Make the log durable, write the copies,
CheckpointWrite ==
  /\ ckpt.pc = "capture" /\ \A p \in Resident : frames[p].flush # "reserved"
  /\ flushed_lsn' = IF DOMAIN ckpt.image = {} THEN flushed_lsn ELSE Len(wal)
  /\ disk' = [p \in Pages |-> IF p \in DOMAIN ckpt.image
                                THEN [disk[p] EXCEPT !.cached = ckpt.image[p]]
                                ELSE disk[p]]
  /\ ckpt' = [ckpt EXCEPT !.pc = "sync"]
  /\ UNCHANGED <<wal, replay_floor, control, frames, guard, mode, cursor, bounds>>

\* fsync their files,
CheckpointSync ==
  /\ ckpt.pc = "sync"
  /\ disk' = [p \in Pages |-> IF p \in DOMAIN ckpt.image
                                THEN [disk[p] EXCEPT !.stable = disk[p].cached]
                                ELSE disk[p]]
  /\ ckpt' = [ckpt EXCEPT !.pc = "finish"]
  /\ UNCHANGED <<wal, flushed_lsn, replay_floor, control, frames, guard, mode,
                 cursor, bounds>>

\* Mutant: a change made while the copy was being written is forgotten.
FinishFrame_ClearsRedirty(f) ==
  [f EXCEPT !.flush = "no", !.redirty = NoLsn, !.rec_lsn = NoLsn]

\* and only then call a page clean that has not changed since its capture.
FinishFrame(f) == [f EXCEPT !.flush = "no", !.redirty = NoLsn, !.rec_lsn = f.redirty]

CheckpointFinish(p) ==
  /\ ckpt.pc = "finish" /\ frames[p].resident /\ frames[p].flush = "captured"
  /\ frames' = [frames EXCEPT ![p] = FinishFrame(@)]
  /\ UNCHANGED <<wal, flushed_lsn, replay_floor, control, disk, guard, ckpt, mode,
                 cursor, bounds>>

\* fence.exclusive() waits for the guards out and holds off new ones.
CheckpointFence ==
  /\ ckpt.pc = "finish" /\ \A p \in Resident : frames[p].flush = "no"
  /\ ckpt' = [ckpt EXCEPT !.pc = "fence"]
  /\ UNCHANGED <<wal, flushed_lsn, replay_floor, control, disk, frames, guard, mode,
                 cursor, bounds>>

\* Mutant: the tables are read although guards are still out.
CheckpointTables_NoFence ==
  /\ ckpt.pc = "fence"
  /\ ckpt' = [ckpt EXCEPT !.pc = "marker", !.end = Len(wal),
                !.redo = Min({frames[p].rec_lsn : p \in Dirty} \cup {Len(wal)})]
  /\ UNCHANGED <<wal, flushed_lsn, replay_floor, control, disk, frames, guard, mode,
                 cursor, bounds>>

\* dirty_page_table and written_lsn under the fence.
CheckpointTables ==
  /\ ckpt.pc = "fence" /\ \A t \in Threads : ~ shared(t)
  /\ ckpt' = [ckpt EXCEPT !.pc = "marker", !.end = Len(wal),
                !.redo = Min({frames[p].rec_lsn : p \in Dirty} \cup {Len(wal)})]
  /\ UNCHANGED <<wal, flushed_lsn, replay_floor, control, disk, frames, guard, mode,
                 cursor, bounds>>

\* Mutant: the marker is only logged.
CheckpointMarker_NotDurable ==
  /\ ckpt.pc = "marker"
  /\ Append1(NoPage, "marker", {})
  /\ ckpt' = [ckpt EXCEPT !.pc = "store"]
  /\ UNCHANGED <<flushed_lsn, replay_floor, control, disk, frames, guard, mode, cursor,
                 bounds>>

\* The marker is logged and made durable (checkpoint_clog),
CheckpointMarker ==
  /\ ckpt.pc = "marker"
  /\ Append1(NoPage, "marker", {})
  /\ flushed_lsn' = Len(wal) + 1
  /\ ckpt' = [ckpt EXCEPT !.pc = "store"]
  /\ UNCHANGED <<replay_floor, control, disk, frames, guard, mode, cursor, bounds>>

\* then the control record is replaced,
CheckpointStore ==
  /\ ckpt.pc = "store"
  /\ control' = [redo |-> ckpt.redo, end |-> ckpt.end]
  /\ ckpt' = [ckpt EXCEPT !.pc = "recycle"]
  /\ UNCHANGED <<wal, flushed_lsn, replay_floor, disk, frames, guard, mode, cursor,
                 bounds>>

\* and last the log below the redo point is given up.
CheckpointRecycle ==
  /\ ckpt.pc = "recycle"
  /\ replay_floor' = ckpt.redo
  /\ ckpt' = IdleCkpt
  /\ mode' = IF mode = "recovered" THEN "up" ELSE mode
  /\ UNCHANGED <<wal, flushed_lsn, control, disk, frames, guard, cursor, bounds>>

-----------------------------------------------------------------------------
(* Crash and redo: open_app.                                               *)

\* Memory is lost, the log ends where it was durable, and a page file that
\* was written but not synced has the old image, the new one or a torn page.
Crash ==
  /\ mode # "failed" /\ bounds.crashes < MaxCrashes
  /\ bounds' = [bounds EXCEPT !.crashes = @ + 1]
  /\ \E d \in [Pages -> {"stable", "cached", "torn"}] :
       /\ \A p \in Pages : disk[p].stable = disk[p].cached => d[p] = "stable"
       /\ disk' = [p \in Pages |->
            LET image == IF d[p] = "torn" THEN NoImage ELSE disk[p][d[p]]
            IN  [stable |-> image, cached |-> image]]
  /\ wal' = SubSeq(wal, 1, flushed_lsn)
  /\ frames' = [p \in Pages |-> NoFrame]
  /\ guard' = [t \in Threads |-> IdleGuard]
  /\ ckpt' = IdleCkpt
  /\ cursor' = control.redo + 1
  /\ mode' = IF /\ replay_floor <= control.redo /\ control.redo <= control.end
                /\ control.end <= flushed_lsn
               THEN "redo" ELSE "failed"
  /\ UNCHANGED <<flushed_lsn, replay_floor, control>>

\* The page as fetch_for_redo gives it: a resident frame, or the bytes on disk,
\* zeroed when they are no valid page.
apply_physical_redo(f, rec, lsn) ==
  IF f.data # NoImage /\ PageLsn(f.data) >= lsn THEN f
  ELSE publish_mutation(f, lsn, IF rec.kind = "image" THEN rec.image ELSE f.data \cup {lsn})

RedoRecord ==
  LET rec == wal[cursor]
      p == rec.page
      f == IF frames[p].resident THEN frames[p] ELSE Frame(disk[p].cached, TRUE)
  IN  /\ mode = "redo" /\ cursor <= Len(wal) /\ rec.page # NoPage
      /\ \/ frames[p].resident /\ frames[p].evict = "no"
         \/ ~ frames[p].resident /\ Cardinality(Resident) < FrameCount
      /\ IF f.data = NoImage /\ rec.kind = "delta"
           THEN mode' = "failed" /\ UNCHANGED <<frames, cursor>>
           ELSE /\ frames' = [frames EXCEPT ![p] = apply_physical_redo(f, rec, cursor)]
                /\ cursor' = cursor + 1 /\ UNCHANGED mode
      /\ UNCHANGED <<wal, flushed_lsn, replay_floor, control, disk, guard, ckpt, bounds>>

RedoMarker ==
  /\ mode = "redo" /\ cursor <= Len(wal) /\ wal[cursor].page = NoPage
  /\ cursor' = cursor + 1
  /\ UNCHANGED <<wal, flushed_lsn, replay_floor, control, disk, frames, guard, ckpt,
                 mode, bounds>>

\* A checkpoint follows when a page record was replayed.
RedoDone ==
  /\ mode = "redo" /\ cursor > Len(wal)
  /\ mode' = IF \E i \in (control.redo + 1)..Len(wal) : wal[i].page # NoPage
               THEN "recovered" ELSE "up"
  /\ UNCHANGED <<wal, flushed_lsn, replay_floor, control, disk, frames, guard, ckpt,
                 cursor, bounds>>

-----------------------------------------------------------------------------
Steal(p) == EvictClean(p) \/ StealReserve(p) \/ StealWrite(p) \/ StealRemove(p)

\* What a thread that has entered the pool goes on to do.
Proceed(t) ==
  \/ InsertLoaded(t) \/ NoVictim(t) \/ TakeLatch(t) \/ TakeShare(t)
  \/ LogChange(t) \/ Publish(t) \/ DropGuard(t) \/ NewShare(t)
  \/ FillNewPage(t) \/ PublishNew(t) \/ FillLeftNode(t)
  \/ \E q \in Pages : NewPage(t, q)

Checkpoint ==
  \/ CheckpointWrite \/ CheckpointSync \/ CheckpointFence \/ CheckpointTables
  \/ CheckpointMarker \/ CheckpointStore \/ CheckpointRecycle
  \/ \E p \in Pages : CheckpointCapture(p) \/ CheckpointFinish(p)

Next ==
  \/ \E t \in Threads, p \in Pages : LookupResident(t, p) \/ LoadPage(t, p)
  \/ \E t \in Threads : Proceed(t) \/ Extend(t) \/ SplitNode(t)
  \/ \E p \in Pages : Steal(p)
  \/ FlushLog \/ CheckpointBegin \/ Checkpoint
  \/ Crash \/ RedoRecord \/ RedoMarker \/ RedoDone

Spec == Init /\ [][Next]_vars

\* Threads in the pool, steals and a running checkpoint go on; nobody has to
\* start anything.
FairSpec ==
  /\ Spec
  /\ \A t \in Threads : WF_vars(Proceed(t))
  /\ \A p \in Pages : WF_vars(Steal(p))
  /\ WF_vars(Checkpoint)

-----------------------------------------------------------------------------
(* Properties.                                                             *)

TypeOK ==
  /\ \A i \in 1..Len(wal) : /\ wal[i].page \in Pages \cup {NoPage}
                            /\ wal[i].kind \in {"image", "delta", "marker"}
  /\ flushed_lsn \in 0..Len(wal) /\ replay_floor \in 0..flushed_lsn
  /\ \A p \in Resident : /\ frames[p].rec_lsn \in NoLsn..Len(wal)
                         /\ frames[p].flush = "captured" => frames[p].rec_lsn # NoLsn
  /\ Cardinality(Resident) <= FrameCount
  /\ mode \in {"up", "redo", "recovered", "failed"}

\* The page as the pool serves it, and as the log says it should be.
Served(p) == IF frames[p].resident THEN frames[p].data ELSE disk[p].cached
Logged(p) == LET recs == {i \in 1..Len(wal) : wal[i].page = p}
             IN  IF recs = {} THEN {} ELSE wal[Max(recs)].image

\* docs/specs/crates/buffer.md: "Accessors retry while `evicting`, so an evicted
\* snapshot cannot lose a concurrent mutation", and "A conditional-clean decision
\* cannot clear a concurrent redirty": whatever was loaded, stolen, written by
\* a checkpoint or lost in a crash, a page nobody holds for writing reads as
\* the last one logged.
PagesCurrent ==
  mode \in {"up", "recovered"} =>
    \A p \in Published : latched(p) \/ Served(p) = Logged(p)

\* Startup never refuses the durable checkpoint record (its boundaries lie in the
\* retained log, so no crash ends in "failed" at once), and a checkpoint never
\* gets a redo point below the log already given up, which checkpoint_clog refuses.
BoundariesRetained ==
  /\ replay_floor <= control.redo /\ control.redo <= control.end
  /\ control.end <= flushed_lsn
  /\ ckpt.pc \in {"marker", "store", "recycle"} => replay_floor <= ckpt.redo

\* docs/specs/compression.md: "a torn page was mid-write => it was dirty => its
\* first post-checkpoint modification logged an FPI that redo will replay": a page
\* whose file a crash may tear, or has torn, or that was never written has its
\* full image in the log that redo reads.
ImageRetained ==
  \A p \in Pages :
    \/ disk[p].stable # disk[p].cached
    \/ disk[p].cached = NoImage /\ p \in Published
    => \E i \in (control.redo + 1)..Len(wal) : wal[i].page = p /\ wal[i].kind = "image"

\* Whatever instant a crash picks, redo has a place to start and something to
\* rebuild every broken page from.
RedoFounded == BoundariesRetained /\ ImageRetained

\* docs/specs/overview.md: "Redo reinstalls the image (repairing any torn write)
\* before applying deltas": recovery always comes to its end.
RecoverySucceeds == mode # "failed"

\* server/src/checkpoint.rs: "Writers continue throughout page and metadata I/O;
\* only the final in-memory snapshot uses short publication read gates and the
\* buffer-owned checkpoint fence": a checkpoint that asks for the fence gets it.
FenceServed == (ckpt.pc = "fence") ~> (ckpt.pc # "fence")

=============================================================================
