-------------------------- MODULE BufferPoolProofs --------------------------
(***************************************************************************)
(* Proofs about BufferPool, for any pages, any number of sessions, frames, *)
(* records, checkpoints and crashes.                                       *)
(*                                                                         *)
(* A checkpoint may give up the log below its redo point because nothing   *)
(* that is still to be written starts below it: neither a dirty frame, nor *)
(* a change made while the frame was being written, nor a record appended  *)
(* but not yet published.  The invariant follows that from the moment the  *)
(* fence is held, through the marker, the control record and the recycling,*)
(* to the crash that begins at the redo point again.                       *)
(***************************************************************************)
EXTENDS BufferPool, FiniteSetTheorems, WellFoundedInduction, TLAPS

-----------------------------------------------------------------------------
(* Types.                                                                  *)

Lsns == Nat \cup {NoLsn}
Data == SUBSET Nat
Rec == [page : Pages \cup {NoPage}, kind : {"image", "delta", "marker"}, image : Data]
FrameRec == [resident : {TRUE}, data : Data, needs_fpi : BOOLEAN, rec_lsn : Lsns,
             evict : {"no", "reserved", "written"}, flush : {"no", "reserved", "captured"},
             redirty : Lsns]
GuardRec == [pc : {"idle", "loaded", "pinned"} \cup HoldsPage,
             page : Pages \cup {NoPage}, new : Pages \cup {NoPage}, data : Data, lsn : Lsns]
Images == UNION {[S -> Data] : S \in SUBSET Pages}
CkptRec == [pc : {"idle", "capture", "sync", "finish", "fence", "marker", "store", "recycle"},
            image : Images, redo : Nat, end : Nat]

LogTypes ==
  /\ wal \in Seq(Rec) /\ flushed_lsn \in Nat /\ replay_floor \in Nat
  /\ control \in [redo : Nat, end : Nat] /\ flushed_lsn <= Len(wal)
ActorTypes ==
  /\ guard \in [Threads -> GuardRec] /\ ckpt \in CkptRec
  /\ mode \in {"up", "redo", "recovered", "failed"} /\ cursor \in Nat \ {0}
PageTypes ==
  /\ disk \in [Pages -> [stable : Data, cached : Data]]
  /\ frames \in [Pages -> FrameRec \cup {NoFrame}]
Types == LogTypes /\ ActorTypes /\ PageTypes

-----------------------------------------------------------------------------
(* The invariant.                                                          *)

\* The log from x on is kept: by the checkpoint record that is durable and by the
\* one about to replace it.
Kept(x) == control.redo <= x /\ (ckpt.pc \in {"marker", "store"} => ckpt.redo <= x)

\* What a thread in the pool holds is in a frame no steal has chosen, and the
\* record it has yet to publish is kept.
Holding(g) ==
  /\ g.pc = "idle" => g.page = NoPage
  /\ g.pc \in ({"loaded", "pinned"} \cup HoldsPage) \ ({"newroom"} \cup HoldsNew) =>
       g.page \in Pages
  /\ g.pc \in HoldsPage \cup {"pinned"} /\ g.page # NoPage =>
       frames[g.page].resident /\ frames[g.page].evict = "no"
  /\ g.pc \in HoldsNew =>
       g.new \in Pages /\ frames[g.new].resident /\ frames[g.new].evict = "no"
  /\ g.pc \in {"logged", "newlogged"} => g.lsn \in 1..Len(wal) /\ Kept(g.lsn - 1)

\* A dirty frame starts at a record that is kept, and only a checkpoint that has
\* not come to its fence knows of a second such record.
Writing == ckpt.pc \in {"capture", "sync", "finish"}
Flushing(f) ==
  /\ f.flush = "captured" => f.rec_lsn # NoLsn
  /\ f.redirty # NoLsn => f.flush = "captured"
Starts(f) ==
  /\ f.rec_lsn # NoLsn => f.rec_lsn < Len(wal) /\ Kept(f.rec_lsn)
  /\ f.redirty # NoLsn => f.redirty < Len(wal) /\ Kept(f.redirty)
  /\ Flushing(f) /\ (~ Writing => f.flush = "no")

Boundaries ==
  /\ replay_floor <= control.redo /\ control.redo <= control.end
  /\ control.end <= flushed_lsn
  /\ ckpt.pc \in {"marker", "store", "recycle"} =>
       control.redo <= ckpt.redo /\ ckpt.redo <= ckpt.end /\ ckpt.end <= Len(wal)
  /\ ckpt.pc = "store" => ckpt.end <= flushed_lsn
  /\ ckpt.pc = "recycle" => control.redo = ckpt.redo
  /\ mode = "redo" => control.redo < cursor
  /\ mode \in {"redo", "failed"} => ckpt.pc = "idle"

Room == IsFiniteSet(Resident) /\ Cardinality(Resident) <= FrameCount

PoolInv ==
  /\ Types /\ Room /\ Boundaries
  /\ \A t \in Threads : Holding(guard[t])
  /\ \A p \in Resident : Starts(frames[p])

-----------------------------------------------------------------------------
(* Operators.                                                              *)

\* Min of a set of naturals that is not empty.
LEMMA MinFacts ==
  ASSUME NEW S, S \subseteq Nat, S # {}
  PROVE  Min(S) \in S /\ \A x \in S : Min(S) <= x
<1> DEFINE R == {ss \in Nat \X Nat : ss[1] < ss[2]}
<1>1. OpToRel(<, Nat) = R
  BY Zenon DEF OpToRel
<1>2. IsWellFoundedOn(R, Nat)
  BY <1>1, NatLessThanWellFounded, Zenon
<1> HIDE DEF R
<1>3. PICK m \in S : \A y \in S : ~ (<<y, m>> \in R)
  BY <1>2, WFMin, Zenon
<1>4. ASSUME NEW y \in S, ~ m <= y PROVE FALSE
  <2>1. y \in Nat /\ m \in Nat /\ y < m
    BY <1>4
  <2>2. <<y, m>> \in R
    BY <2>1 DEF R
  <2> QED  BY <2>2, <1>3
<1> QED  BY <1>4 DEF Min

\* What a checkpoint has copied is a partial function from pages to bytes.
LEMMA ImageFacts ==
  /\ <<>> \in Images
  /\ \A im \in Images : \A p \in DOMAIN im : p \in Pages /\ im[p] \in Data
  /\ \A im \in Images, p \in Pages, d \in Data :
       [q \in DOMAIN im \cup {p} |-> IF q = p THEN d ELSE im[q]] \in Images
<1>1. <<>> \in [{} -> Data]
  OBVIOUS
<1>2. ASSUME NEW im \in Images
      PROVE  \E S \in SUBSET Pages : im \in [S -> Data]
  BY DEF Images
<1>3. ASSUME NEW S \in SUBSET Pages, NEW im \in [S -> Data] PROVE im \in Images
  BY DEF Images
<1>4. ASSUME NEW im \in Images, NEW p \in Pages, NEW d \in Data
      PROVE  [q \in DOMAIN im \cup {p} |-> IF q = p THEN d ELSE im[q]] \in Images
  <2>1. PICK S \in SUBSET Pages : im \in [S -> Data]
    BY <1>2
  <2>2. [q \in DOMAIN im \cup {p} |-> IF q = p THEN d ELSE im[q]] \in [S \cup {p} -> Data]
    BY <2>1
  <2> QED  BY <2>2, <1>3
<1> QED  BY <1>1, <1>2, <1>3, <1>4

\* A record goes to the end of the log.
LEMMA AppendFacts ==
  ASSUME LogTypes, NEW p \in Pages \cup {NoPage}, NEW kind \in {"image", "delta", "marker"},
         NEW data \in Data, Append1(p, kind, data)
  PROVE  /\ wal' \in Seq(Rec) /\ Len(wal') = Len(wal) + 1 /\ Len(wal) \in Nat
         /\ wal'[Len(wal) + 1] = [page |-> p, kind |-> kind, image |-> data]
         /\ \A i \in 1..Len(wal) : wal'[i] = wal[i]
<1>1. [page |-> p, kind |-> kind, image |-> data] \in Rec
  BY DEF Rec
<1> QED  BY <1>1 DEF LogTypes, Append1

\* The pool shrinks, or grows by one frame if there was room.
LEMMA RoomKept ==
  ASSUME Room, Resident' \subseteq Resident
  PROVE  Room'
BY FS_Subset, FS_CardinalityType, PoolAssumption DEF Room

LEMMA RoomGrows ==
  ASSUME Room, NEW q, Resident' \subseteq Resident \cup {q}, Cardinality(Resident) < FrameCount
  PROVE  Room'
<1>1. /\ IsFiniteSet(Resident \cup {q})
      /\ Cardinality(Resident \cup {q}) \in Nat
      /\ Cardinality(Resident \cup {q}) <= Cardinality(Resident) + 1
  BY FS_AddElement, FS_CardinalityType DEF Room
<1>2. IsFiniteSet(Resident') /\ Cardinality(Resident') <= Cardinality(Resident \cup {q})
  BY <1>1, FS_Subset
<1>3. Cardinality(Resident') \in Nat /\ Cardinality(Resident) \in Nat
  BY <1>2, FS_CardinalityType DEF Room
<1> QED  BY <1>1, <1>2, <1>3, PoolAssumption DEF Room

\* The new state of a frame that is published to.
LEMMA PublishFacts ==
  ASSUME NEW f \in FrameRec, NEW lsn \in Nat \ {0}, NEW data \in Data
  PROVE  LET g == publish_mutation(f, lsn, data) IN
         /\ g \in FrameRec /\ g.resident /\ g.evict = f.evict /\ g.flush = f.flush
         /\ g.data = data /\ g.needs_fpi = f.needs_fpi
         /\ g.rec_lsn = IF f.rec_lsn = NoLsn THEN lsn - 1 ELSE f.rec_lsn
         /\ g.redirty = IF f.flush = "captured" /\ f.redirty = NoLsn
                          THEN lsn - 1 ELSE f.redirty
<1> DEFINE g == publish_mutation(f, lsn, data)
<1>1. lsn - 1 \in Lsns /\ f.rec_lsn \in Lsns /\ f.redirty \in Lsns
  BY DEF FrameRec, Lsns
<1>2. g = [f EXCEPT !.data = data,
                    !.rec_lsn = IF f.rec_lsn = NoLsn THEN lsn - 1 ELSE f.rec_lsn,
                    !.redirty = IF f.flush = "captured" /\ f.redirty = NoLsn
                                  THEN lsn - 1 ELSE f.redirty]
  BY DEF publish_mutation
<1>3. g \in FrameRec
  BY <1>1, <1>2 DEF FrameRec
<1>4. /\ g.evict = f.evict /\ g.flush = f.flush /\ g.data = data
      /\ g.needs_fpi = f.needs_fpi
      /\ g.rec_lsn = IF f.rec_lsn = NoLsn THEN lsn - 1 ELSE f.rec_lsn
      /\ g.redirty = IF f.flush = "captured" /\ f.redirty = NoLsn
                       THEN lsn - 1 ELSE f.redirty
  BY <1>2 DEF FrameRec
<1>5. g.resident
  BY <1>3 DEF FrameRec
<1> QED  BY <1>3, <1>4, <1>5

-----------------------------------------------------------------------------
(* Steps that leave the log from the redo points on.                       *)

Grows ==
  /\ Len(wal) <= Len(wal') /\ control' = control
  /\ ckpt'.pc \in {"marker", "store"} =>
       ckpt.pc \in {"marker", "store"} /\ ckpt'.redo = ckpt.redo
  /\ Writing' \/ ~ Writing \/ \A p \in Resident : frames[p].flush = "no"
Steady ==
  \A p \in Pages : frames[p].resident /\ frames[p].evict = "no" /\ pinned(p) =>
                     frames'[p].resident /\ frames'[p].evict = "no"

LEMMA StepKeeps ==
  ASSUME PoolInv, Types', Room', Boundaries', Grows, Steady,
         \A t \in Threads : guard'[t] = guard[t] \/ Holding(guard[t])',
         \A p \in Pages : frames'[p].resident =>
                            frames'[p] = frames[p] \/ Starts(frames[p])'
  PROVE  PoolInv'
<1>1. Len(wal) \in Nat /\ Len(wal') \in Nat
  BY DEF PoolInv, Types, LogTypes
<1>2. ASSUME NEW t \in Threads, guard'[t] = guard[t] PROVE Holding(guard[t])'
  <2>1. Holding(guard[t]) /\ guard[t] \in GuardRec
    BY DEF PoolInv, Types, ActorTypes
  <2>2. /\ guard[t].pc \in HoldsPage \cup {"pinned"} /\ guard[t].page # NoPage =>
             guard[t].page \in Pages /\ pinned(guard[t].page)
        /\ guard[t].pc \in HoldsNew => guard[t].new \in Pages /\ pinned(guard[t].new)
    BY <2>1 DEF pinned, latched, GuardRec, Holding
  <2>3. guard[t].pc \in {"logged", "newlogged"} =>
          guard[t].lsn \in 1..Len(wal') /\ Kept(guard[t].lsn - 1)'
    BY <2>1, <1>1, <1>2 DEF Holding, Kept, Grows
  <2> QED  BY <2>1, <2>2, <2>3, <1>2 DEF Holding, Steady
<1>3. ASSUME NEW p \in Pages, frames'[p].resident, frames'[p] = frames[p]
      PROVE  Starts(frames[p])'
  <2>1. Starts(frames[p]) /\ frames[p] \in FrameRec
    BY <1>3 DEF PoolInv, Types, PageTypes, Resident, NoFrame
  <2>2. frames[p].rec_lsn \in Lsns /\ frames[p].redirty \in Lsns
    BY <2>1 DEF FrameRec
  <2>3. \A x \in Lsns : x \in Int
    BY DEF Lsns, NoLsn
  <2>4. ~ Writing' => frames'[p].flush = "no"
    BY <2>1, <1>3 DEF Starts, Grows, Resident
  <2>5. Flushing(frames[p])'
    BY <2>1, <1>3 DEF Starts, Flushing
  <2> QED  BY <2>1, <2>2, <2>3, <2>4, <2>5, <1>1, <1>3 DEF Starts, Kept, Grows
<1> QED  BY <1>2, <1>3 DEF PoolInv, Resident

-----------------------------------------------------------------------------
(* Threads.                                                                *)

LEMMA GuardStep ==
  ASSUME PoolInv, NEW t \in Threads, NEW g \in GuardRec, Holding(g), Move(t, g),
         UNCHANGED <<wal, flushed_lsn, replay_floor, control, disk, frames, ckpt, mode,
                     cursor>>
  PROVE  PoolInv'
<1>1. guard \in [Threads -> GuardRec]
  BY DEF PoolInv, Types, ActorTypes
<1>2. Types'
  BY <1>1 DEF PoolInv, Types, LogTypes, ActorTypes, PageTypes, Move
<1>3. Room' /\ Boundaries'
  BY DEF PoolInv, Room, Boundaries, Resident
<1>4. Grows /\ Steady
  BY DEF Grows, Writing, Steady, PoolInv, Types, LogTypes
<1>5. guard'[t] = g /\ \A u \in Threads : u # t => guard'[u] = guard[u]
  BY <1>1 DEF Move
<1>6. Holding(guard[t])'
  BY <1>5 DEF Holding, Kept
<1> QED  BY <1>2, <1>3, <1>4, <1>5, <1>6, StepKeeps

\* A thread in the pool: the page it holds, and that its fields have their types.
LEMMA GuardFacts ==
  ASSUME PoolInv, NEW t \in Threads
  PROVE  /\ guard[t] \in GuardRec /\ Holding(guard[t]) /\ guard[t].data \in Data
         /\ guard[t].page \in Pages \cup {NoPage} /\ guard[t].new \in Pages \cup {NoPage}
         /\ guard[t].lsn \in Lsns
         /\ IdleGuard \in GuardRec /\ Holding(IdleGuard)
<1>1. guard[t] \in GuardRec /\ Holding(guard[t])
  BY DEF PoolInv, Types, ActorTypes
<1>2. /\ guard[t].data \in Data /\ guard[t].lsn \in Lsns
      /\ guard[t].page \in Pages \cup {NoPage} /\ guard[t].new \in Pages \cup {NoPage}
  BY <1>1 DEF GuardRec
<1>3. IdleGuard \in GuardRec
  BY DEF IdleGuard, GuardRec, HoldsPage, Data, Lsns
<1>4. Holding(IdleGuard)
  BY DEF IdleGuard, Holding, HoldsPage, HoldsNew
<1> QED  BY <1>1, <1>2, <1>3, <1>4

\* The steps of a thread that change nothing but what it holds.
LEMMA ThreadSteps ==
  ASSUME PoolInv, NEW t \in Threads,
         \/ \E p \in Pages : LookupResident(t, p) \/ LoadPage(t, p)
         \/ NoVictim(t) \/ TakeLatch(t) \/ TakeShare(t) \/ DropGuard(t)
         \/ Extend(t) \/ SplitNode(t) \/ NewShare(t)
  PROVE  PoolInv'
<1> USE GuardFacts
<1>1. ASSUME NEW p \in Pages, LookupResident(t, p) PROVE PoolInv'
  <2> DEFINE g == [guard[t] EXCEPT !.pc = "pinned", !.page = p]
  <2>1. g \in GuardRec /\ g.pc = "pinned" /\ g.page = p
    BY DEF GuardRec
  <2>2. Holding(g)
    BY <1>1, <2>1 DEF Holding, LookupResident, HoldsPage, HoldsNew
  <2> QED  BY <1>1, <2>1, <2>2, GuardStep DEF LookupResident
<1>2. ASSUME NEW p \in Pages, LoadPage(t, p) PROVE PoolInv'
  <2> DEFINE g == [guard[t] EXCEPT !.pc = "loaded", !.page = p, !.data = disk[p].cached]
  <2>1. disk[p].cached \in Data
    BY DEF PoolInv, Types, PageTypes
  <2>2. g \in GuardRec /\ g.pc = "loaded" /\ g.page = p
    BY <2>1 DEF GuardRec
  <2>3. Holding(g)
    BY <2>2 DEF Holding, HoldsPage, HoldsNew
  <2> QED  BY <1>2, <2>2, <2>3, GuardStep DEF LoadPage
<1>3. ASSUME NoVictim(t) \/ DropGuard(t) PROVE PoolInv'
  BY <1>3, GuardStep DEF NoVictim, DropGuard
<1>4. ASSUME TakeLatch(t) PROVE PoolInv'
  <2> DEFINE g == [guard[t] EXCEPT !.pc = "latched"]
  <2>1. g \in GuardRec /\ g.pc = "latched" /\ g.page = guard[t].page
    BY DEF GuardRec, HoldsPage
  <2>2. Holding(g)
    BY <1>4, <2>1 DEF Holding, TakeLatch, HoldsPage, HoldsNew
  <2> QED  BY <1>4, <2>1, <2>2, GuardStep DEF TakeLatch
<1>5. ASSUME TakeShare(t) PROVE PoolInv'
  <2> DEFINE g == [guard[t] EXCEPT !.pc = "writing"]
  <2>1. g \in GuardRec /\ g.pc = "writing" /\ g.page = guard[t].page
    BY DEF GuardRec, HoldsPage
  <2>2. Holding(g)
    BY <1>5, <2>1 DEF Holding, TakeShare, HoldsPage, HoldsNew
  <2> QED  BY <1>5, <2>1, <2>2, GuardStep DEF TakeShare
<1>6. ASSUME Extend(t) \/ SplitNode(t) PROVE PoolInv'
  <2> DEFINE g == [guard[t] EXCEPT !.pc = "newroom"]
  <2>1. g \in GuardRec /\ g.pc = "newroom" /\ g.page = guard[t].page
    BY DEF GuardRec, HoldsPage
  <2>2. Holding(g)
    BY <1>6, <2>1 DEF Holding, Extend, SplitNode, HoldsPage, HoldsNew
  <2> QED  BY <1>6, <2>1, <2>2, GuardStep DEF Extend, SplitNode
<1>7. ASSUME NewShare(t) PROVE PoolInv'
  <2> DEFINE g == [guard[t] EXCEPT !.pc = "filling"]
  <2>1. g \in GuardRec /\ g.pc = "filling" /\ g.page = guard[t].page /\ g.new = guard[t].new
    BY DEF GuardRec, HoldsPage
  <2>2. Holding(g)
    BY <1>7, <2>1 DEF Holding, NewShare, HoldsPage, HoldsNew
  <2> QED  BY <1>7, <2>1, <2>2, GuardStep DEF NewShare
<1> QED  BY <1>1, <1>2, <1>3, <1>4, <1>5, <1>6, <1>7


-----------------------------------------------------------------------------
(* Frames.                                                                 *)

\* One frame changes, and with it whatever else leaves the log it needs.
LEMMA FrameStep ==
  ASSUME PoolInv, NEW p \in Pages, NEW f \in FrameRec,
         frames' = [frames EXCEPT ![p] = f],
         f.evict = "no" \/ ~ pinned(p),
         frames[p].resident \/ Cardinality(Resident) < FrameCount,
         f.rec_lsn # NoLsn => f.rec_lsn < Len(wal') /\ Kept(f.rec_lsn),
         f.redirty # NoLsn => f.redirty < Len(wal') /\ Kept(f.redirty),
         Flushing(f), ~ Writing' => f.flush = "no",
         LogTypes', ActorTypes', Boundaries', Grows,
         disk' \in [Pages -> [stable : Data, cached : Data]],
         \A t \in Threads : guard'[t] = guard[t] \/ Holding(guard[t])'
  PROVE  PoolInv'
<1>1. frames \in [Pages -> FrameRec \cup {NoFrame}]
  BY DEF PoolInv, Types, PageTypes
<1>2. Types'
  BY <1>1 DEF Types, PageTypes
<1>3. frames'[p] = f /\ \A q \in Pages : q # p => frames'[q] = frames[q]
  BY <1>1
<1>4. f.resident
  BY DEF FrameRec
<1>5. Room'
  <2>1. frames[p].resident => Resident' \subseteq Resident
    BY <1>3 DEF Resident
  <2>2. Resident' \subseteq Resident \cup {p}
    BY <1>3 DEF Resident
  <2> QED  BY <2>1, <2>2, RoomKept, RoomGrows DEF PoolInv
<1>6. Steady
  BY <1>3, <1>4 DEF Steady
<1>7. Starts(frames[p])'
  BY <1>3 DEF Starts, Kept, Grows, Flushing
<1> QED  BY <1>2, <1>3, <1>5, <1>6, <1>7, StepKeeps

\* A frame that nobody has pinned leaves the pool.
LEMMA FrameGone ==
  ASSUME PoolInv, NEW p \in Pages, ~ pinned(p),
         frames' = [frames EXCEPT ![p] = NoFrame],
         disk' \in [Pages -> [stable : Data, cached : Data]],
         UNCHANGED <<wal, flushed_lsn, replay_floor, control, guard, ckpt, mode, cursor>>
  PROVE  PoolInv'
<1>1. frames \in [Pages -> FrameRec \cup {NoFrame}]
  BY DEF PoolInv, Types, PageTypes
<1>2. Types'
  BY <1>1 DEF PoolInv, Types, LogTypes, ActorTypes, PageTypes
<1>3. frames'[p] = NoFrame /\ \A q \in Pages : q # p => frames'[q] = frames[q]
  BY <1>1
<1>4. ~ NoFrame.resident
  BY DEF NoFrame
<1>5. Resident' \subseteq Resident
  BY <1>3, <1>4 DEF Resident
<1>6. Room' /\ Boundaries'
  BY <1>5, RoomKept DEF PoolInv, Boundaries
<1>7. Grows /\ Steady
  BY <1>3 DEF Grows, Writing, Steady, PoolInv, Types, LogTypes
<1> QED  BY <1>2, <1>3, <1>4, <1>6, <1>7, StepKeeps

\* A resident frame, and that no thread holds one chosen by a steal.
LEMMA FrameFacts ==
  ASSUME PoolInv, NEW p \in Pages, frames[p].resident
  PROVE  /\ frames[p] \in FrameRec /\ Starts(frames[p]) /\ frames[p].data \in Data
         /\ frames[p].rec_lsn \in Lsns /\ frames[p].redirty \in Lsns
         /\ frames[p].evict # "no" => ~ pinned(p)
<1>1. frames[p] \in FrameRec
  BY DEF PoolInv, Types, PageTypes, NoFrame
<1>2. Starts(frames[p])
  BY DEF PoolInv, Resident
<1>3. frames[p].data \in Data /\ frames[p].rec_lsn \in Lsns /\ frames[p].redirty \in Lsns
  BY <1>1 DEF FrameRec
<1>4. ASSUME pinned(p) PROVE frames[p].evict = "no"
  <2>1. \A t \in Threads : Holding(guard[t])
    BY DEF PoolInv
  <2> QED  BY <1>4, <2>1, PoolAssumption DEF pinned, latched, Holding
<1> QED  BY <1>1, <1>2, <1>3, <1>4

LEMMA StealSteps ==
  ASSUME PoolInv, NEW p \in Pages, Steal(p)
  PROVE  PoolInv'
<1>1. /\ frames \in [Pages -> FrameRec \cup {NoFrame}]
      /\ disk \in [Pages -> [stable : Data, cached : Data]]
      /\ LogTypes /\ ActorTypes /\ Boundaries
  BY DEF PoolInv, Types, PageTypes
<1>2. CASE EvictClean(p)
  BY <1>1, <1>2, FrameGone DEF EvictClean, Evictable
<1>3. CASE StealReserve(p)
  <2>1. frames[p].resident /\ ~ pinned(p)
    BY <1>3 DEF StealReserve, Evictable
  <2> DEFINE f == [frames[p] EXCEPT !.evict = "reserved"]
  <2>2. /\ f \in FrameRec /\ f.rec_lsn = frames[p].rec_lsn
        /\ f.redirty = frames[p].redirty /\ f.flush = frames[p].flush
    BY <2>1, FrameFacts DEF FrameRec
  <2>3. frames' = [frames EXCEPT ![p] = f]
    BY <1>3 DEF StealReserve
  <2>4. UNCHANGED <<wal, flushed_lsn, replay_floor, control, disk, guard, ckpt, mode, cursor>>
    BY <1>3 DEF StealReserve
  <2>5. Starts(frames[p])
    BY <2>1, FrameFacts
  <2>6. LogTypes' /\ ActorTypes' /\ Boundaries' /\ Grows /\ disk' = disk
    BY <1>1, <2>4 DEF LogTypes, ActorTypes, Boundaries, Grows, Writing
  <2>7. /\ f.rec_lsn # NoLsn => f.rec_lsn < Len(wal') /\ Kept(f.rec_lsn)
        /\ f.redirty # NoLsn => f.redirty < Len(wal') /\ Kept(f.redirty)
        /\ Flushing(f) /\ (~ Writing' => f.flush = "no")
    BY <2>2, <2>4, <2>5 DEF Starts, Flushing, Writing
  <2> HIDE DEF f
  <2> QED  BY <1>1, <2>1, <2>2, <2>3, <2>4, <2>6, <2>7, FrameStep
<1>4. CASE StealWrite(p)
  <2>1. frames[p].resident /\ frames[p].evict = "reserved"
    BY <1>4 DEF StealWrite
  <2> DEFINE f == [frames[p] EXCEPT !.evict = "written"]
  <2>2. /\ f \in FrameRec /\ f.rec_lsn = frames[p].rec_lsn
        /\ f.redirty = frames[p].redirty /\ f.flush = frames[p].flush
    BY <2>1, FrameFacts DEF FrameRec
  <2>3. frames' = [frames EXCEPT ![p] = f]
    BY <1>4 DEF StealWrite
  <2>4. /\ UNCHANGED <<wal, replay_floor, control, guard, ckpt, mode, cursor>>
        /\ flushed_lsn' = Len(wal) /\ disk' = [disk EXCEPT ![p].cached = frames[p].data]
    BY <1>4 DEF StealWrite
  <2>5. Starts(frames[p]) /\ frames[p].data \in Data /\ ~ pinned(p)
    BY <2>1, FrameFacts
  <2>6. LogTypes' /\ ActorTypes' /\ Boundaries' /\ Grows
    BY <1>1, <2>4 DEF LogTypes, ActorTypes, Boundaries, Grows, Writing, CkptRec
  <2>7. disk' \in [Pages -> [stable : Data, cached : Data]]
    BY <1>1, <2>4, <2>5
  <2>8. /\ f.rec_lsn # NoLsn => f.rec_lsn < Len(wal') /\ Kept(f.rec_lsn)
        /\ f.redirty # NoLsn => f.redirty < Len(wal') /\ Kept(f.redirty)
        /\ Flushing(f) /\ (~ Writing' => f.flush = "no")
    BY <2>2, <2>4, <2>5 DEF Starts, Flushing, Writing
  <2> HIDE DEF f
  <2> QED  BY <1>1, <2>1, <2>2, <2>3, <2>4, <2>5, <2>6, <2>7, <2>8, FrameStep
<1>5. CASE StealRemove(p)
  <2>1. ~ pinned(p)
    BY <1>5, FrameFacts DEF StealRemove
  <2>2. disk' \in [Pages -> [stable : Data, cached : Data]]
    BY <1>1, <1>5 DEF StealRemove
  <2> QED  BY <1>5, <2>1, <2>2, FrameGone DEF StealRemove
<1> QED  BY <1>2, <1>3, <1>4, <1>5 DEF Steal


-----------------------------------------------------------------------------
(* Threads that change frames and the log.                                 *)

\* A guard that has changed.
LEMMA MoveFacts ==
  ASSUME PoolInv, NEW t \in Threads, NEW g \in GuardRec, Move(t, g),
         UNCHANGED <<ckpt, mode, cursor>>
  PROVE  /\ ActorTypes' /\ guard'[t] = g
         /\ \A u \in Threads : u # t => guard'[u] = guard[u]
BY DEF PoolInv, Types, ActorTypes, Move

LEMMA InsertLoadedStep ==
  ASSUME PoolInv, NEW t \in Threads, InsertLoaded(t)
  PROVE  PoolInv'
<1> DEFINE p == guard[t].page
           g == [guard[t] EXCEPT !.pc = "pinned", !.data = {}]
<1>1. guard[t] \in GuardRec /\ guard[t].data \in Data /\ p \in Pages
  BY GuardFacts DEF InsertLoaded, Holding, HoldsPage, HoldsNew
<1>2. g \in GuardRec /\ g.pc = "pinned" /\ g.page = p
  BY <1>1 DEF GuardRec, Data
<1>3. Move(t, g) /\ UNCHANGED <<wal, flushed_lsn, replay_floor, control, disk, ckpt, mode, cursor>>
  BY DEF InsertLoaded
<1>4. ActorTypes' /\ guard'[t] = g /\ \A u \in Threads : u # t => guard'[u] = guard[u]
  <2> HIDE DEF g
  <2> QED  BY <1>2, <1>3, MoveFacts
<1>5. CASE frames[p].resident
  <2>1. frames[p].evict = "no" /\ frames' = frames
    BY <1>5 DEF InsertLoaded
  <2>2. Holding(g)
    BY <1>2, <1>1, <1>5, <2>1 DEF Holding, HoldsPage, HoldsNew
  <2> HIDE DEF g
  <2> QED  BY <1>2, <1>3, <2>1, <2>2, GuardStep
<1>6. CASE ~ frames[p].resident
  <2> DEFINE f == Frame(guard[t].data, TRUE)
  <2>1. Cardinality(Resident) < FrameCount /\ frames' = [frames EXCEPT ![p] = f]
    BY <1>6 DEF InsertLoaded
  <2>2. /\ f \in FrameRec /\ f.rec_lsn = NoLsn /\ f.redirty = NoLsn /\ f.evict = "no"
        /\ f.flush = "no" /\ f.resident /\ Flushing(f)
    BY <1>1 DEF Frame, FrameRec, Lsns, Flushing
  <2>3. LogTypes' /\ Boundaries' /\ Grows /\ disk' \in [Pages -> [stable : Data, cached : Data]]
    BY <1>3 DEF PoolInv, Types, LogTypes, PageTypes, Boundaries, Grows, Writing
  <2>4. frames'[p] = f
    BY <1>1, <2>1 DEF PoolInv, Types, PageTypes
  <2> HIDE DEF f, g, p
  <2>5. Holding(guard[t])'
    BY <1>1, <1>2, <1>4, <2>2, <2>4 DEF Holding, HoldsPage, HoldsNew
  <2> QED  BY <1>1, <1>4, <2>1, <2>2, <2>3, <2>5, FrameStep
<1> QED  BY <1>5, <1>6

LEMMA NewPageStep ==
  ASSUME PoolInv, NEW t \in Threads, NEW q \in Pages, NewPage(t, q)
  PROVE  PoolInv'
<1> DEFINE g == [guard[t] EXCEPT !.pc = "newfence", !.new = q]
           f == Frame({}, FALSE)
<1>1. guard[t] \in GuardRec /\ Holding(guard[t]) /\ guard[t].pc = "newroom"
  BY GuardFacts DEF NewPage
<1>2. g \in GuardRec /\ g.pc = "newfence" /\ g.page = guard[t].page /\ g.new = q
  BY <1>1 DEF GuardRec, HoldsPage
<1>3. /\ Move(t, g) /\ ~ frames[q].resident /\ Cardinality(Resident) < FrameCount
      /\ frames' = [frames EXCEPT ![q] = f]
      /\ UNCHANGED <<wal, flushed_lsn, replay_floor, control, disk, ckpt, mode, cursor>>
  BY DEF NewPage
<1>4. ActorTypes' /\ guard'[t] = g /\ \A u \in Threads : u # t => guard'[u] = guard[u]
  <2> HIDE DEF g
  <2> QED  BY <1>2, <1>3, MoveFacts
<1>5. /\ f \in FrameRec /\ f.rec_lsn = NoLsn /\ f.redirty = NoLsn /\ f.evict = "no"
      /\ f.flush = "no" /\ f.resident /\ Flushing(f)
  BY DEF Frame, FrameRec, Lsns, Data, Flushing
<1>6. LogTypes' /\ Boundaries' /\ Grows /\ disk' \in [Pages -> [stable : Data, cached : Data]]
  BY <1>3 DEF PoolInv, Types, LogTypes, PageTypes, Boundaries, Grows, Writing
<1>7. frames'[q] = f /\ \A r \in Pages : r # q => frames'[r] = frames[r]
  BY <1>3 DEF PoolInv, Types, PageTypes
<1>8. guard[t].page \in Pages \cup {NoPage}
  BY GuardFacts
<1>9. guard[t].page # NoPage => guard[t].page # q /\ frames[guard[t].page].resident
                                /\ frames[guard[t].page].evict = "no"
  BY <1>1, <1>3 DEF Holding, HoldsPage, HoldsNew
<1> HIDE DEF f, g
<1>10. Holding(guard[t])'
  BY <1>2, <1>4, <1>5, <1>7, <1>8, <1>9 DEF Holding, HoldsPage, HoldsNew
<1> QED  BY <1>3, <1>4, <1>5, <1>6, <1>10, FrameStep

\* The frame of the page a record is published to.
LEMMA PublishFrame ==
  ASSUME PoolInv, NEW p \in Pages, frames[p].resident, frames[p].evict = "no",
         NEW lsn \in 1..Len(wal), Kept(lsn - 1), NEW f,
         f = publish_mutation(frames[p], lsn, wal[lsn].image)
  PROVE  /\ f \in FrameRec /\ f.resident /\ f.evict = "no"
         /\ f.rec_lsn # NoLsn => f.rec_lsn < Len(wal) /\ Kept(f.rec_lsn)
         /\ f.redirty # NoLsn => f.redirty < Len(wal) /\ Kept(f.redirty)
         /\ Flushing(f) /\ (~ Writing => f.flush = "no")
<1>1. wal[lsn].image \in Data /\ Len(wal) \in Nat
  <2>1. wal \in Seq(Rec)
    BY DEF PoolInv, Types, LogTypes
  <2>2. wal[lsn] \in Rec
    BY <2>1
  <2> QED  BY <2>1, <2>2 DEF Rec
<1>2. lsn \in Nat \ {0} /\ lsn - 1 < Len(wal) /\ lsn - 1 # NoLsn
  BY <1>1 DEF NoLsn
<1>3. frames[p] \in FrameRec /\ Starts(frames[p])
  BY FrameFacts
<1>4. /\ f \in FrameRec /\ f.resident /\ f.evict = "no" /\ f.flush = frames[p].flush
      /\ f.rec_lsn = IF frames[p].rec_lsn = NoLsn THEN lsn - 1 ELSE frames[p].rec_lsn
      /\ f.redirty = IF frames[p].flush = "captured" /\ frames[p].redirty = NoLsn
                       THEN lsn - 1 ELSE frames[p].redirty
  BY <1>1, <1>2, <1>3, PublishFacts
<1> QED  BY <1>2, <1>3, <1>4 DEF Starts, Flushing

LEMMA PublishStep ==
  ASSUME PoolInv, NEW t \in Threads, Publish(t)
  PROVE  PoolInv'
<1> DEFINE p == guard[t].page
           lsn == guard[t].lsn
           f == publish_mutation(frames[p], lsn, wal[lsn].image)
<1>1. guard[t].pc = "logged" /\ Holding(guard[t]) /\ IdleGuard \in GuardRec /\ Holding(IdleGuard)
  BY GuardFacts DEF Publish
<1>2. /\ p \in Pages /\ frames[p].resident /\ frames[p].evict = "no"
      /\ lsn \in 1..Len(wal) /\ Kept(lsn - 1)
  BY <1>1, PoolAssumption DEF Holding, HoldsPage, HoldsNew
<1>3. /\ frames' = [frames EXCEPT ![p] = f] /\ Move(t, IdleGuard)
      /\ UNCHANGED <<wal, flushed_lsn, replay_floor, control, disk, ckpt, mode, cursor>>
  BY DEF Publish
<1>4. ActorTypes' /\ guard'[t] = IdleGuard /\ \A u \in Threads : u # t => guard'[u] = guard[u]
  BY <1>1, <1>3, MoveFacts
<1>5. LogTypes' /\ Boundaries' /\ Grows /\ disk' \in [Pages -> [stable : Data, cached : Data]]
  BY <1>3 DEF PoolInv, Types, LogTypes, PageTypes, Boundaries, Grows, Writing
<1>6. Holding(guard[t])'
  BY <1>4 DEF Holding, IdleGuard, HoldsPage, HoldsNew
<1> HIDE DEF f, p, lsn
<1>7. /\ f \in FrameRec /\ f.resident /\ f.evict = "no"
      /\ f.rec_lsn # NoLsn => f.rec_lsn < Len(wal) /\ Kept(f.rec_lsn)
      /\ f.redirty # NoLsn => f.redirty < Len(wal) /\ Kept(f.redirty)
      /\ Flushing(f) /\ (~ Writing' => f.flush = "no")
  BY <1>2, <1>3, PublishFrame DEF f, Writing
<1> QED  BY <1>2, <1>3, <1>4, <1>5, <1>6, <1>7, FrameStep

LEMMA PublishNewStep ==
  ASSUME PoolInv, NEW t \in Threads, PublishNew(t)
  PROVE  PoolInv'
<1> DEFINE q == guard[t].new
           lsn == guard[t].lsn
           f == publish_mutation(frames[q], lsn, wal[lsn].image)
           g == IF guard[t].page = NoPage
                  THEN [guard[t] EXCEPT !.pc = "inserting", !.page = q, !.new = NoPage]
                  ELSE [guard[t] EXCEPT !.pc = "leftover", !.new = NoPage]
<1>1. guard[t].pc = "newlogged" /\ Holding(guard[t]) /\ guard[t] \in GuardRec
      /\ guard[t].page \in Pages \cup {NoPage}
  BY GuardFacts DEF PublishNew
<1>2. /\ q \in Pages /\ frames[q].resident /\ frames[q].evict = "no"
      /\ lsn \in 1..Len(wal) /\ Kept(lsn - 1)
      /\ guard[t].page # NoPage =>
           frames[guard[t].page].resident /\ frames[guard[t].page].evict = "no"
  BY <1>1 DEF Holding, HoldsPage, HoldsNew
<1>3. /\ frames' = [frames EXCEPT ![q] = f] /\ Move(t, g)
      /\ UNCHANGED <<wal, flushed_lsn, replay_floor, control, disk, ckpt, mode, cursor>>
  BY DEF PublishNew
<1>4. /\ g \in GuardRec /\ g.pc \in {"inserting", "leftover"} /\ g.page \in Pages
      /\ g.page = IF guard[t].page = NoPage THEN q ELSE guard[t].page
  BY <1>1, <1>2 DEF GuardRec, HoldsPage
<1>5. ActorTypes' /\ guard'[t] = g /\ \A u \in Threads : u # t => guard'[u] = guard[u]
  <2> HIDE DEF g
  <2> QED  BY <1>3, <1>4, MoveFacts
<1>6. LogTypes' /\ Boundaries' /\ Grows /\ disk' \in [Pages -> [stable : Data, cached : Data]]
  BY <1>3 DEF PoolInv, Types, LogTypes, PageTypes, Boundaries, Grows, Writing
<1>7. /\ f \in FrameRec /\ f.resident /\ f.evict = "no"
      /\ f.rec_lsn # NoLsn => f.rec_lsn < Len(wal) /\ Kept(f.rec_lsn)
      /\ f.redirty # NoLsn => f.redirty < Len(wal) /\ Kept(f.redirty)
      /\ Flushing(f) /\ (~ Writing' => f.flush = "no")
  <2> HIDE DEF q, lsn, f
  <2> QED  BY <1>2, <1>3, PublishFrame DEF f, Writing
<1>8. frames'[q] = f /\ \A r \in Pages : r # q => frames'[r] = frames[r]
  <2> HIDE DEF q, f
  <2> QED  BY <1>3, <1>2 DEF PoolInv, Types, PageTypes
<1> HIDE DEF f, g, q, lsn
<1>9. Holding(guard[t])'
  BY <1>2, <1>4, <1>5, <1>7, <1>8 DEF Holding, HoldsPage, HoldsNew
<1> QED  BY <1>2, <1>3, <1>5, <1>6, <1>7, <1>9, FrameStep


\* The end of the log is never below a redo point.
LEMMA EndKept ==
  ASSUME PoolInv
  PROVE  Len(wal) \in Nat /\ Kept(Len(wal))
BY DEF PoolInv, Types, LogTypes, ActorTypes, CkptRec, Boundaries, Kept

\* A thread appends a record that it will publish later.
LEMMA LogStep ==
  ASSUME PoolInv, NEW t \in Threads, NEW g \in GuardRec, Move(t, g),
         NEW p \in Pages \cup {NoPage}, NEW kind \in {"image", "delta", "marker"},
         NEW data \in Data, Append1(p, kind, data),
         UNCHANGED <<flushed_lsn, replay_floor, control, ckpt, mode, cursor>>
  PROVE  /\ LogTypes' /\ ActorTypes' /\ Boundaries' /\ Grows
         /\ Len(wal) \in Nat /\ Len(wal') = Len(wal) + 1 /\ Kept(Len(wal))
         /\ guard'[t] = g /\ \A u \in Threads : u # t => guard'[u] = guard[u]
<1>1. LogTypes /\ ActorTypes /\ Boundaries
  BY DEF PoolInv, Types
<1>2. wal' \in Seq(Rec) /\ Len(wal') = Len(wal) + 1 /\ Len(wal) \in Nat
  BY <1>1, AppendFacts
<1>3. ckpt \in CkptRec /\ ckpt.end \in Nat
  BY <1>1 DEF ActorTypes, CkptRec
<1>4. LogTypes' /\ Boundaries' /\ Grows
  BY <1>1, <1>2, <1>3 DEF LogTypes, Boundaries, Grows, Writing
<1> QED  BY <1>2, <1>4, MoveFacts, EndKept

LEMMA LogChangeStep ==
  ASSUME PoolInv, NEW t \in Threads, LogChange(t)
  PROVE  PoolInv'
<1> DEFINE p == guard[t].page
           data == frames[p].data \cup {Len(wal) + 1}
           g == [guard[t] EXCEPT !.pc = "logged", !.lsn = Len(wal) + 1]
           f == [frames[p] EXCEPT !.needs_fpi = FALSE]
<1>1. /\ guard[t].pc \in {"writing", "inserting"} /\ Holding(guard[t])
      /\ guard[t] \in GuardRec /\ Len(wal) \in Nat
  BY GuardFacts, EndKept DEF LogChange
<1>2. p \in Pages /\ frames[p].resident /\ frames[p].evict = "no"
  BY <1>1, PoolAssumption DEF Holding, HoldsPage, HoldsNew
<1>3. g \in GuardRec /\ g.pc = "logged" /\ g.page = p /\ g.lsn = Len(wal) + 1
  <2>1. Len(wal) + 1 \in Lsns
    BY <1>1 DEF Lsns
  <2> QED  BY <1>1, <2>1 DEF GuardRec, HoldsPage
<1>4. frames[p] \in FrameRec /\ Starts(frames[p]) /\ data \in Data
  BY <1>1, <1>2, FrameFacts DEF Data
<1>5. PICK kind \in {"image", "delta", "marker"} : Append1(p, kind, data)
  BY DEF LogChange
<1>6. /\ Move(t, g) /\ UNCHANGED <<flushed_lsn, replay_floor, control, disk, ckpt, mode, cursor>>
      /\ frames' = [frames EXCEPT ![p].needs_fpi = FALSE] \/ frames' = frames
  BY DEF LogChange
<1>7. /\ f \in FrameRec /\ f.rec_lsn = frames[p].rec_lsn /\ f.resident /\ f.evict = "no"
      /\ f.redirty = frames[p].redirty /\ f.flush = frames[p].flush
  BY <1>2, <1>4 DEF FrameRec
<1>8. PICK h : /\ h \in FrameRec /\ h.rec_lsn = frames[p].rec_lsn /\ h.resident
               /\ h.redirty = frames[p].redirty /\ h.flush = frames[p].flush
               /\ h.evict = "no" /\ frames' = [frames EXCEPT ![p] = h]
  <2>1. frames' = frames => frames' = [frames EXCEPT ![p] = frames[p]]
    BY <1>2 DEF PoolInv, Types, PageTypes
  <2>2. frames' = [frames EXCEPT ![p].needs_fpi = FALSE] => frames' = [frames EXCEPT ![p] = f]
    OBVIOUS
  <2> HIDE DEF f, p
  <2> QED  BY <1>2, <1>4, <1>6, <1>7, <2>1, <2>2
<1> HIDE DEF p, g, f, data
<1>9. /\ LogTypes' /\ ActorTypes' /\ Boundaries' /\ Grows
      /\ Len(wal) \in Nat /\ Len(wal') = Len(wal) + 1 /\ Kept(Len(wal))
      /\ guard'[t] = g /\ \A u \in Threads : u # t => guard'[u] = guard[u]
  BY <1>2, <1>3, <1>4, <1>5, <1>6, LogStep
<1>10. frames'[p] = h
  BY <1>2, <1>8 DEF PoolInv, Types, PageTypes
<1>12. Holding(guard[t])'
  <2>1. guard'[t].lsn \in 1..Len(wal')
    BY <1>3, <1>9
  <2>2. guard'[t].lsn - 1 = Len(wal)
    BY <1>3, <1>9
  <2>3. Kept(guard[t].lsn - 1)'
    BY <1>9, <2>2 DEF Kept, Grows
  <2> QED  BY <1>2, <1>3, <1>8, <1>9, <1>10, <2>1, <2>3 DEF Holding, HoldsPage, HoldsNew
<1>13. /\ h.rec_lsn # NoLsn => h.rec_lsn < Len(wal') /\ Kept(h.rec_lsn)
       /\ h.redirty # NoLsn => h.redirty < Len(wal') /\ Kept(h.redirty)
       /\ Flushing(h) /\ (~ Writing' => h.flush = "no")
  <2>1. \A x \in Lsns : x \in Int
    BY DEF Lsns, NoLsn
  <2>2. frames[p].rec_lsn \in Int /\ frames[p].redirty \in Int
    BY <1>2, FrameFacts, <2>1
  <2> QED  BY <1>4, <1>6, <1>8, <1>9, <2>2 DEF Starts, Flushing, Writing
<1>14. disk' \in [Pages -> [stable : Data, cached : Data]]
  BY <1>6 DEF PoolInv, Types, PageTypes
<1> QED  BY <1>2, <1>8, <1>9, <1>12, <1>13, <1>14, FrameStep

\* The new page is logged, or the left half of a split node.
LEMMA FillSteps ==
  ASSUME PoolInv, NEW t \in Threads, FillNewPage(t) \/ FillLeftNode(t)
  PROVE  PoolInv'
<1> DEFINE g == [guard[t] EXCEPT !.pc = IF FillNewPage(t) THEN "newlogged" ELSE "logged",
                                 !.lsn = Len(wal) + 1]
<1>1. guard[t] \in GuardRec /\ Holding(guard[t]) /\ Len(wal) \in Nat
  BY GuardFacts, EndKept
<1>2. /\ FillNewPage(t) <=> guard[t].pc = "filling"
      /\ ~ FillNewPage(t) => FillLeftNode(t) /\ guard[t].pc = "leftover"
  BY DEF FillNewPage, FillLeftNode
<1>3. /\ g \in GuardRec /\ g.page = guard[t].page /\ g.new = guard[t].new
      /\ g.pc = IF FillNewPage(t) THEN "newlogged" ELSE "logged"
      /\ g.lsn = Len(wal) + 1
  <2>1. Len(wal) + 1 \in Lsns
    BY <1>1 DEF Lsns
  <2>2. PICK c \in {"newlogged", "logged"} : c = IF FillNewPage(t) THEN "newlogged" ELSE "logged"
    OBVIOUS
  <2>3. g = [guard[t] EXCEPT !.pc = c, !.lsn = Len(wal) + 1]
    BY <2>2
  <2> HIDE DEF g
  <2> QED  BY <1>1, <2>1, <2>2, <2>3 DEF GuardRec, HoldsPage
<1>4. /\ Move(t, g)
      /\ UNCHANGED <<flushed_lsn, replay_floor, control, disk, frames, ckpt, mode, cursor>>
  BY <1>2 DEF FillNewPage, FillLeftNode
<1>5. \E p \in Pages \cup {NoPage}, data \in Data : Append1(p, "image", data)
  <2>1. CASE FillNewPage(t)
    <3>1. {Len(wal) + 1} \in Data /\ guard[t].new \in Pages \cup {NoPage}
      BY <1>1, GuardFacts DEF Data
    <3> QED  BY <2>1, <3>1 DEF FillNewPage
  <2>2. CASE FillLeftNode(t)
    <3>1. guard[t].page \in Pages /\ frames[guard[t].page].resident
      BY <1>1, <2>2, PoolAssumption DEF FillLeftNode, Holding, HoldsPage, HoldsNew
    <3>2. frames[guard[t].page].data \cup {Len(wal) + 1} \in Data
      BY <1>1, <3>1, FrameFacts DEF Data
    <3> QED  BY <2>2, <3>1, <3>2 DEF FillLeftNode
  <2> QED  BY <2>1, <2>2
<1> HIDE DEF g
<1>6. /\ LogTypes' /\ ActorTypes' /\ Boundaries' /\ Grows
      /\ Len(wal) \in Nat /\ Len(wal') = Len(wal) + 1 /\ Kept(Len(wal))
      /\ guard'[t] = g /\ \A u \in Threads : u # t => guard'[u] = guard[u]
  BY <1>3, <1>4, <1>5, LogStep
<1>7. Types' /\ Room' /\ Steady
  BY <1>4, <1>6 DEF PoolInv, Types, PageTypes, Room, Resident, Steady
<1>8. Holding(guard[t])'
  <2>1. guard'[t].lsn \in 1..Len(wal') /\ guard'[t].lsn - 1 = Len(wal)
    BY <1>3, <1>6
  <2>2. Kept(guard[t].lsn - 1)'
    BY <1>6, <2>1 DEF Kept, Grows
  <2> QED  BY <1>1, <1>2, <1>3, <1>4, <1>6, <2>1, <2>2 DEF Holding, HoldsPage, HoldsNew
<1> QED  BY <1>4, <1>6, <1>7, <1>8, StepKeeps

LEMMA FlushLogStep ==
  ASSUME PoolInv, FlushLog
  PROVE  PoolInv'
<1>1. /\ flushed_lsn' = Len(wal)
      /\ UNCHANGED <<wal, replay_floor, control, disk, frames, guard, ckpt, mode, cursor>>
  BY DEF FlushLog
<1>2. LogTypes /\ Len(wal) \in Nat /\ ckpt.end \in Nat
  BY DEF PoolInv, Types, LogTypes, ActorTypes, CkptRec
<1>3. Types' /\ Boundaries' /\ Grows
  BY <1>1, <1>2 DEF PoolInv, Types, LogTypes, ActorTypes, PageTypes, Boundaries, Grows, Writing
<1>4. Room' /\ Steady
  BY <1>1 DEF PoolInv, Room, Resident, Steady
<1> QED  BY <1>1, <1>3, <1>4, StepKeeps


-----------------------------------------------------------------------------
(* The checkpoint.                                                         *)

LEMMA CkptFacts ==
  ASSUME PoolInv
  PROVE  /\ ckpt \in CkptRec /\ ckpt.image \in Images /\ ckpt.redo \in Nat /\ ckpt.end \in Nat
         /\ IdleCkpt \in CkptRec /\ IdleCkpt.pc = "idle"
         /\ LogTypes /\ ActorTypes /\ Boundaries /\ Len(wal) \in Nat
         /\ frames \in [Pages -> FrameRec \cup {NoFrame}]
         /\ disk \in [Pages -> [stable : Data, cached : Data]]
<1>1. ckpt \in CkptRec /\ LogTypes /\ ActorTypes /\ Boundaries /\ PageTypes
  BY DEF PoolInv, Types, ActorTypes
<1>2. ckpt.image \in Images /\ ckpt.redo \in Nat /\ ckpt.end \in Nat
  BY <1>1 DEF CkptRec
<1>3. IdleCkpt \in CkptRec /\ IdleCkpt.pc = "idle"
  BY ImageFacts DEF IdleCkpt, CkptRec
<1> QED  BY <1>1, <1>2, <1>3 DEF LogTypes, PageTypes

\* The checkpoint goes on and touches neither the log nor a frame; the log is
\* flushed to its end or not at all.
LEMMA CkptStep ==
  ASSUME PoolInv, NEW c \in CkptRec, ckpt' = c, c.pc \notin {"marker", "store", "recycle"},
         mode \notin {"redo", "failed"} \/ c.pc = "idle",
         flushed_lsn' \in {flushed_lsn, Len(wal)},
         disk' \in [Pages -> [stable : Data, cached : Data]],
         Writing' \/ ~ Writing \/ \A p \in Resident : frames[p].flush = "no",
         UNCHANGED <<wal, replay_floor, control, frames, guard, mode, cursor>>
  PROVE  PoolInv'
<1>1. LogTypes /\ ActorTypes /\ Boundaries /\ Len(wal) \in Nat
  BY CkptFacts
<1>2. Types'
  BY <1>1 DEF PoolInv, Types, LogTypes, ActorTypes, PageTypes
<1>3. Boundaries'
  BY <1>1 DEF LogTypes, Boundaries
<1>4. Grows
  BY <1>1 DEF Grows, Writing
<1>5. Room' /\ Steady
  BY DEF PoolInv, Room, Resident, Steady
<1> QED  BY <1>2, <1>3, <1>4, <1>5, StepKeeps

LEMMA BeginStep ==
  ASSUME PoolInv, CheckpointBegin
  PROVE  PoolInv'
<1>1. PICK S \in SUBSET {p \in Dirty : frames[p].evict = "no"} :
        frames' = [p \in Pages |-> IF p \in S THEN [frames[p] EXCEPT !.flush = "reserved"]
                                              ELSE frames[p]]
  BY DEF CheckpointBegin
<1>2. /\ ckpt' = [IdleCkpt EXCEPT !.pc = "capture"] /\ mode \in {"up", "recovered"}
      /\ UNCHANGED <<wal, flushed_lsn, replay_floor, control, disk, guard, mode, cursor>>
  BY DEF CheckpointBegin
<1>3. ckpt' \in CkptRec /\ ckpt'.pc = "capture"
  BY <1>2, CkptFacts DEF CkptRec
<1>4. ASSUME NEW p \in Pages
      PROVE  /\ frames'[p] \in FrameRec \cup {NoFrame}
             /\ frames'[p].resident => frames[p].resident
             /\ frames[p].resident => frames'[p].resident /\ frames'[p].evict = frames[p].evict
             /\ frames'[p] = frames[p] \/ Starts(frames[p])'
  <2>1. CASE p \in S
    <3>1. frames[p].resident
      BY <2>1 DEF Dirty, Resident
    <3>2. frames[p] \in FrameRec /\ Starts(frames[p])
      BY <3>1, FrameFacts
    <3>3. frames'[p] = [frames[p] EXCEPT !.flush = "reserved"]
      BY <1>1, <2>1
    <3>4. /\ frames'[p] \in FrameRec /\ frames'[p].flush = "reserved"
          /\ frames'[p].evict = frames[p].evict /\ frames'[p].resident
          /\ frames'[p].rec_lsn = frames[p].rec_lsn /\ frames'[p].redirty = frames[p].redirty
      BY <3>1, <3>2, <3>3 DEF FrameRec
    <3>5. frames[p].flush = "no"
      BY <3>2 DEF Starts, Writing, CheckpointBegin
    <3>6. Starts(frames[p])'
      BY <1>2, <1>3, <3>2, <3>4, <3>5 DEF Starts, Kept, Flushing, Writing
    <3> QED  BY <3>1, <3>4, <3>6
  <2>2. CASE p \notin S
    BY <1>1, <2>2, CkptFacts
  <2> QED  BY <2>1, <2>2
<1>5. Types'
  <2>1. frames' \in [Pages -> FrameRec \cup {NoFrame}]
    BY <1>1, <1>4
  <2> QED  BY <1>2, <1>3, <2>1 DEF PoolInv, Types, LogTypes, ActorTypes, PageTypes
<1>6. Room'
  BY <1>4, RoomKept DEF PoolInv, Resident
<1>7. Boundaries' /\ Grows
  BY <1>2, <1>3, CkptFacts DEF Boundaries, Grows, Writing
<1>8. Steady
  BY <1>4 DEF Steady
<1> QED  BY <1>2, <1>4, <1>5, <1>6, <1>7, <1>8, StepKeeps

LEMMA CaptureStep ==
  ASSUME PoolInv, NEW p \in Pages, CheckpointCapture(p)
  PROVE  PoolInv'
<1>1. /\ ckpt.pc = "capture" /\ frames[p].resident
      /\ UNCHANGED <<wal, flushed_lsn, replay_floor, control, disk, guard, mode, cursor>>
  BY DEF CheckpointCapture
<1>2. frames[p] \in FrameRec /\ Starts(frames[p]) /\ frames[p].data \in Data
  BY <1>1, FrameFacts
<1>3. ckpt' \in CkptRec /\ ckpt'.pc = "capture"
  <2>1. CASE ckpt' = ckpt
    BY <1>1, <2>1, CkptFacts
  <2>2. CASE ckpt' = [ckpt EXCEPT !.image = [q \in DOMAIN @ \cup {p} |->
                                               IF q = p THEN frames[p].data ELSE @[q]]]
    <3> DEFINE im == [q \in DOMAIN ckpt.image \cup {p} |->
                        IF q = p THEN frames[p].data ELSE ckpt.image[q]]
    <3>1. im \in Images
      BY <1>2, CkptFacts, ImageFacts
    <3>2. ckpt' = [ckpt EXCEPT !.image = im]
      BY <2>2
    <3> HIDE DEF im
    <3> QED  BY <1>1, <3>1, <3>2, CkptFacts DEF CkptRec
  <2> QED  BY <2>1, <2>2 DEF CheckpointCapture
<1>4. LogTypes' /\ ActorTypes' /\ Boundaries' /\ Grows
  BY <1>1, <1>3, CkptFacts DEF LogTypes, ActorTypes, Boundaries, Grows, Writing
<1>5. PICK f : /\ f \in FrameRec /\ frames' = [frames EXCEPT ![p] = f]
               /\ f.evict = frames[p].evict /\ f.rec_lsn = frames[p].rec_lsn
               /\ f.redirty = NoLsn \/ f.redirty = frames[p].redirty
               /\ Flushing(f)
  <2>1. CASE ~ latched(p) /\ p \in Dirty
    <3> DEFINE f == [frames[p] EXCEPT !.flush = "captured", !.redirty = NoLsn, !.needs_fpi = TRUE]
    <3>1. /\ f \in FrameRec /\ f.evict = frames[p].evict /\ f.rec_lsn = frames[p].rec_lsn
          /\ f.redirty = NoLsn
      BY <1>2 DEF FrameRec, Lsns
    <3>2. frames' = [frames EXCEPT ![p] = f]
      BY <2>1 DEF CheckpointCapture, CaptureFrame
    <3>3. f.rec_lsn # NoLsn
      BY <2>1, <3>1 DEF Dirty
    <3> HIDE DEF f
    <3> QED  BY <3>1, <3>2, <3>3 DEF Flushing
  <2>2. CASE ~ (~ latched(p) /\ p \in Dirty)
    <3> DEFINE f == [frames[p] EXCEPT !.flush = "no"]
    <3>1. /\ f \in FrameRec /\ f.evict = frames[p].evict /\ f.rec_lsn = frames[p].rec_lsn
          /\ f.redirty = frames[p].redirty /\ f.flush = "no"
      BY <1>2 DEF FrameRec
    <3>2. frames' = [frames EXCEPT ![p] = f]
      BY <2>2 DEF CheckpointCapture
    <3>3. frames[p].redirty = NoLsn
      BY <1>2 DEF Starts, Flushing, CheckpointCapture
    <3> HIDE DEF f
    <3> QED  BY <3>1, <3>2, <3>3 DEF Flushing
  <2> QED  BY <2>1, <2>2
<1>6. f.evict = "no" \/ ~ pinned(p)
  BY <1>1, <1>5, FrameFacts
<1>7. disk' \in [Pages -> [stable : Data, cached : Data]] /\ Writing'
  BY <1>1, <1>3, CkptFacts DEF Writing
<1>8. /\ f.rec_lsn # NoLsn => f.rec_lsn < Len(wal') /\ Kept(f.rec_lsn)
      /\ f.redirty # NoLsn => f.redirty < Len(wal') /\ Kept(f.redirty)
  BY <1>1, <1>2, <1>5 DEF Starts
<1> QED  BY <1>1, <1>4, <1>5, <1>6, <1>7, <1>8, FrameStep

LEMMA FinishStep ==
  ASSUME PoolInv, NEW p \in Pages, CheckpointFinish(p)
  PROVE  PoolInv'
<1>1. /\ frames[p].resident
      /\ UNCHANGED <<wal, flushed_lsn, replay_floor, control, disk, guard, ckpt, mode, cursor>>
  BY DEF CheckpointFinish
<1>2. /\ frames[p] \in FrameRec /\ Starts(frames[p]) /\ frames[p].redirty \in Lsns
      /\ frames[p].evict = "no" \/ ~ pinned(p)
  BY <1>1, FrameFacts
<1> DEFINE f == [frames[p] EXCEPT !.flush = "no", !.redirty = NoLsn,
                                  !.rec_lsn = frames[p].redirty]
<1>3. /\ f \in FrameRec /\ f.evict = frames[p].evict /\ f.rec_lsn = frames[p].redirty
      /\ f.redirty = NoLsn /\ f.flush = "no" /\ Flushing(f)
  BY <1>2 DEF FrameRec, Lsns, Flushing
<1>4. frames' = [frames EXCEPT ![p] = f]
  BY DEF CheckpointFinish, FinishFrame
<1> HIDE DEF f
<1>5. LogTypes' /\ ActorTypes' /\ Boundaries' /\ Grows
  BY <1>1, CkptFacts DEF LogTypes, ActorTypes, Boundaries, Grows, Writing
<1>6. disk' \in [Pages -> [stable : Data, cached : Data]]
  BY <1>1, CkptFacts
<1>7. f.rec_lsn # NoLsn => f.rec_lsn < Len(wal') /\ Kept(f.rec_lsn)
  BY <1>1, <1>2, <1>3 DEF Starts
<1> QED  BY <1>1, <1>2, <1>3, <1>4, <1>5, <1>6, <1>7, FrameStep


LEMMA WriteSteps ==
  ASSUME PoolInv, CheckpointWrite \/ CheckpointSync \/ CheckpointFence
  PROVE  PoolInv'
<1> DEFINE c == [ckpt EXCEPT !.pc = ckpt'.pc]
<1>1. /\ ckpt' = c /\ ckpt'.pc \in {"sync", "finish", "fence"} /\ ckpt.pc # "idle"
      /\ UNCHANGED <<wal, replay_floor, control, frames, guard, mode, cursor>>
      /\ flushed_lsn' \in {flushed_lsn, Len(wal)}
  BY CkptFacts DEF CheckpointWrite, CheckpointSync, CheckpointFence, CkptRec
<1>2. c \in CkptRec /\ c.pc = ckpt'.pc
  BY <1>1, CkptFacts DEF CkptRec
<1>3. disk' \in [Pages -> [stable : Data, cached : Data]]
  <2>1. CASE CheckpointWrite
    <3>1. \A p \in DOMAIN ckpt.image : ckpt.image[p] \in Data
      BY CkptFacts, ImageFacts
    <3>2. ASSUME NEW p \in Pages, p \in DOMAIN ckpt.image
          PROVE  [disk[p] EXCEPT !.cached = ckpt.image[p]] \in [stable : Data, cached : Data]
      BY <3>1, <3>2, CkptFacts
    <3> QED  BY <2>1, <3>2, CkptFacts DEF CheckpointWrite
  <2>2. CASE CheckpointSync
    <3>1. ASSUME NEW p \in Pages
          PROVE  [disk[p] EXCEPT !.stable = disk[p].cached] \in [stable : Data, cached : Data]
      BY CkptFacts
    <3> QED  BY <2>2, <3>1, CkptFacts DEF CheckpointSync
  <2>3. CASE CheckpointFence
    BY <2>3, CkptFacts DEF CheckpointFence
  <2> QED  BY <2>1, <2>2, <2>3
<1>4. mode \notin {"redo", "failed"}
  BY <1>1, CkptFacts DEF Boundaries
<1>5. ckpt'.pc \in {"sync", "finish"} \/ \A p \in Resident : frames[p].flush = "no"
  BY CkptFacts DEF CheckpointWrite, CheckpointSync, CheckpointFence, CkptRec
<1> HIDE DEF c
<1> QED  BY <1>1, <1>2, <1>3, <1>4, <1>5, CkptStep DEF Writing

\* Under the fence every record is published: the redo point is below whatever
\* has yet to be written, and the log that follows is above it.
LEMMA TablesStep ==
  ASSUME PoolInv, CheckpointTables
  PROVE  PoolInv'
<1> DEFINE S == {frames[p].rec_lsn : p \in Dirty} \cup {Len(wal)}
           r == Min(S)
           c == [ckpt EXCEPT !.pc = "marker", !.end = Len(wal), !.redo = r]
<1>1. /\ ckpt.pc = "fence" /\ \A t \in Threads : ~ shared(t)
      /\ ckpt' = c
      /\ UNCHANGED <<wal, flushed_lsn, replay_floor, control, disk, frames, guard, mode,
                     cursor>>
  BY DEF CheckpointTables
<1>2. Len(wal) \in Nat /\ control.redo \in Nat /\ control.redo <= Len(wal)
  BY CkptFacts DEF LogTypes, Boundaries
<1>3. ASSUME NEW p \in Dirty
      PROVE  /\ frames[p].rec_lsn \in Nat /\ frames[p].rec_lsn < Len(wal)
             /\ control.redo <= frames[p].rec_lsn
  <2>1. p \in Pages /\ frames[p].resident /\ frames[p].rec_lsn # NoLsn
    BY DEF Dirty, Resident
  <2>2. Starts(frames[p]) /\ frames[p].rec_lsn \in Lsns
    BY <2>1, FrameFacts
  <2> QED  BY <2>1, <2>2 DEF Starts, Kept, Lsns
<1>4. S \subseteq Nat /\ S # {} /\ Len(wal) \in S /\ \A x \in S : control.redo <= x /\ x <= Len(wal)
  BY <1>2, <1>3
<1>5. r \in S /\ \A x \in S : r <= x
  <2> HIDE DEF S
  <2> QED  BY <1>4, MinFacts
<1>6. r \in Nat /\ control.redo <= r /\ r <= Len(wal)
  BY <1>4, <1>5
<1>7. c \in CkptRec /\ c.pc = "marker" /\ c.end = Len(wal) /\ c.redo = r
  <2> HIDE DEF r
  <2> QED  BY <1>2, <1>6, CkptFacts DEF CkptRec
<1>8. \A p \in Dirty : frames[p].rec_lsn \in S
  OBVIOUS
<1> HIDE DEF S, r, c
<1>9. Types' /\ Room'
  BY <1>1, <1>7 DEF PoolInv, Types, LogTypes, ActorTypes, PageTypes, Room, Resident
<1>10. Boundaries'
  BY <1>1, <1>2, <1>6, <1>7, CkptFacts DEF Boundaries
<1>11. ASSUME NEW t \in Threads PROVE Holding(guard[t])'
  <2>1. Holding(guard[t]) /\ ~ shared(t)
    BY <1>1, GuardFacts
  <2>2. guard[t].pc \notin {"logged", "newlogged"}
    BY <2>1 DEF shared, HoldsPage
  <2> QED  BY <1>1, <2>1, <2>2 DEF Holding
<1>12. ASSUME NEW p \in Resident' PROVE Starts(frames[p])'
  <2>1. p \in Pages /\ frames[p].resident /\ p \in Resident
    BY <1>1, <1>12 DEF Resident
  <2>2. Starts(frames[p]) /\ frames[p].rec_lsn \in Lsns /\ frames[p].redirty \in Lsns
    BY <2>1, FrameFacts
  <2>3. frames[p].rec_lsn # NoLsn => r <= frames[p].rec_lsn
    BY <2>1, <1>5, <1>8 DEF Dirty
  <2>4. frames[p].redirty = NoLsn /\ frames[p].flush = "no"
    BY <1>1, <2>2 DEF Starts, Flushing, Writing
  <2> QED  BY <1>1, <1>7, <2>2, <2>3, <2>4 DEF Starts, Kept, Flushing
<1> QED  BY <1>9, <1>10, <1>11, <1>12 DEF PoolInv

LEMMA MarkerStep ==
  ASSUME PoolInv, CheckpointMarker
  PROVE  PoolInv'
<1> DEFINE c == [ckpt EXCEPT !.pc = "store"]
<1>1. /\ ckpt.pc = "marker" /\ Append1(NoPage, "marker", {}) /\ flushed_lsn' = Len(wal) + 1
      /\ ckpt' = c
      /\ UNCHANGED <<replay_floor, control, disk, frames, guard, mode, cursor>>
  BY DEF CheckpointMarker
<1>2. c \in CkptRec /\ c.pc = "store" /\ c.redo = ckpt.redo /\ c.end = ckpt.end
  BY CkptFacts DEF CkptRec
<1> HIDE DEF c
<1>3. wal' \in Seq(Rec) /\ Len(wal') = Len(wal) + 1 /\ Len(wal) \in Nat
  <2>1. {} \in Data
    BY DEF Data
  <2> QED  BY <1>1, <2>1, CkptFacts, AppendFacts
<1>4. Types' /\ Room' /\ Grows /\ Steady
  BY <1>1, <1>2, <1>3 DEF PoolInv, Types, LogTypes, ActorTypes, PageTypes, Room, Resident,
     Grows, Steady, Writing
<1>5. Boundaries'
  BY <1>1, <1>2, <1>3, CkptFacts DEF Boundaries, LogTypes
<1> QED  BY <1>1, <1>4, <1>5, StepKeeps

LEMMA StoreStep ==
  ASSUME PoolInv, CheckpointStore
  PROVE  PoolInv'
<1> DEFINE c == [ckpt EXCEPT !.pc = "recycle"]
<1>1. /\ ckpt.pc = "store" /\ control' = [redo |-> ckpt.redo, end |-> ckpt.end] /\ ckpt' = c
      /\ UNCHANGED <<wal, flushed_lsn, replay_floor, disk, frames, guard, mode, cursor>>
  BY DEF CheckpointStore
<1>2. c \in CkptRec /\ c.pc = "recycle" /\ c.redo = ckpt.redo /\ c.end = ckpt.end
  BY CkptFacts DEF CkptRec
<1> HIDE DEF c
<1>3. Types' /\ Room'
  BY <1>1, <1>2, CkptFacts DEF PoolInv, Types, LogTypes, ActorTypes, PageTypes, Room, Resident
<1>4. Boundaries'
  BY <1>1, <1>2, CkptFacts DEF Boundaries, LogTypes
<1>5. \A x \in Int : Kept(x) => Kept(x)'
  BY <1>1, <1>2 DEF Kept
<1>6. ASSUME NEW t \in Threads PROVE Holding(guard[t])'
  <2>1. Holding(guard[t]) /\ guard[t].lsn \in Lsns
    BY GuardFacts
  <2>2. guard[t].pc \in {"logged", "newlogged"} => ckpt.redo <= guard[t].lsn - 1
    BY <1>1, <2>1 DEF Holding, Kept
  <2> QED  BY <1>1, <1>2, <2>1, <2>2 DEF Holding, Kept
<1>7. ASSUME NEW p \in Resident' PROVE Starts(frames[p])'
  <2>1. Starts(frames[p])
    BY <1>1, <1>7 DEF PoolInv, Resident
  <2> QED  BY <1>1, <1>2, <2>1 DEF Starts, Kept, Flushing, Writing
<1> QED  BY <1>3, <1>4, <1>6, <1>7 DEF PoolInv

LEMMA RecycleStep ==
  ASSUME PoolInv, CheckpointRecycle
  PROVE  PoolInv'
<1>1. /\ ckpt.pc = "recycle" /\ replay_floor' = ckpt.redo /\ ckpt' = IdleCkpt
      /\ mode' = IF mode = "recovered" THEN "up" ELSE mode
      /\ UNCHANGED <<wal, flushed_lsn, control, disk, frames, guard, cursor>>
  BY DEF CheckpointRecycle
<1>2. mode \in {"up", "redo", "recovered", "failed"} /\ mode \notin {"redo", "failed"}
  BY <1>1, CkptFacts DEF ActorTypes, Boundaries
<1>3. Types' /\ Room' /\ Grows /\ Steady
  BY <1>1, <1>2, CkptFacts DEF PoolInv, Types, LogTypes, ActorTypes, PageTypes, Room, Resident,
     Grows, Steady, Writing
<1>4. Boundaries'
  BY <1>1, <1>2, CkptFacts DEF Boundaries, LogTypes
<1> QED  BY <1>1, <1>3, <1>4, StepKeeps


-----------------------------------------------------------------------------
(* Crash and redo.                                                         *)

LEMMA CrashStep ==
  ASSUME PoolInv, Crash
  PROVE  PoolInv'
<1>1. /\ wal' = SubSeq(wal, 1, flushed_lsn) /\ frames' = [p \in Pages |-> NoFrame]
      /\ guard' = [t \in Threads |-> IdleGuard] /\ ckpt' = IdleCkpt
      /\ cursor' = control.redo + 1 /\ mode' \in {"redo", "failed"}
      /\ UNCHANGED <<flushed_lsn, replay_floor, control>>
  BY DEF Crash
<1>2. wal' \in Seq(Rec) /\ Len(wal') = flushed_lsn
  BY <1>1, CkptFacts DEF LogTypes
<1>3. disk' \in [Pages -> [stable : Data, cached : Data]]
  <2>1. PICK d \in [Pages -> {"stable", "cached", "torn"}] :
          disk' = [p \in Pages |->
            LET image == IF d[p] = "torn" THEN NoImage ELSE disk[p][d[p]]
            IN  [stable |-> image, cached |-> image]]
    BY DEF Crash
  <2>2. ASSUME NEW p \in Pages
        PROVE  (IF d[p] = "torn" THEN NoImage ELSE disk[p][d[p]]) \in Data
    <3>1. disk[p].stable \in Data /\ disk[p].cached \in Data /\ NoImage \in Data
      BY CkptFacts DEF NoImage, Data
    <3>2. d[p] = "stable" \/ d[p] = "cached" \/ d[p] = "torn"
      BY <2>1
    <3> QED  BY <3>1, <3>2
  <2> QED  BY <2>1, <2>2
<1>4. Types'
  <2>1. Threads = {} \/ IdleGuard \in GuardRec
    BY GuardFacts
  <2>2. ActorTypes'
    BY <1>1, <2>1, CkptFacts DEF ActorTypes, LogTypes
  <2> QED  BY <1>1, <1>2, <1>3, <2>2, CkptFacts DEF Types, LogTypes, PageTypes
<1>5. Resident' = {}
  BY <1>1 DEF Resident, NoFrame
<1>6. Room'
  BY <1>5, FS_EmptySet, PoolAssumption DEF Room
<1>7. Boundaries'
  BY <1>1, CkptFacts DEF Boundaries, LogTypes
<1>8. \A t \in Threads : Holding(guard[t])'
  BY <1>1 DEF Holding, IdleGuard, HoldsPage, HoldsNew
<1> QED  BY <1>4, <1>5, <1>6, <1>7, <1>8 DEF PoolInv

LEMMA RedoRecordStep ==
  ASSUME PoolInv, RedoRecord
  PROVE  PoolInv'
<1> DEFINE rec == wal[cursor]
           p == rec.page
           f == IF frames[p].resident THEN frames[p] ELSE Frame(disk[p].cached, TRUE)
           g == apply_physical_redo(f, rec, cursor)
<1>1. /\ mode = "redo" /\ cursor \in 1..Len(wal) /\ p # NoPage
      /\ \/ frames[p].resident /\ frames[p].evict = "no"
         \/ ~ frames[p].resident /\ Cardinality(Resident) < FrameCount
      /\ UNCHANGED <<wal, flushed_lsn, replay_floor, control, disk, guard, ckpt>>
  BY CkptFacts DEF RedoRecord, ActorTypes
<1>2. rec \in Rec /\ p \in Pages /\ rec.image \in Data
  <2>1. rec \in Rec
    BY <1>1, CkptFacts DEF LogTypes
  <2> QED  BY <1>1, <2>1 DEF Rec
<1>3. ckpt.pc = "idle" /\ control.redo < cursor /\ cursor \in Nat \ {0} /\ Kept(cursor - 1)
      /\ control.redo \in Nat
  BY <1>1, CkptFacts DEF Boundaries, Kept, LogTypes, ActorTypes
<1>4. CASE mode' = "failed" /\ frames' = frames /\ cursor' = cursor
  <2>1. Types' /\ Room' /\ Grows /\ Steady
    BY <1>1, <1>4, CkptFacts DEF PoolInv, Types, LogTypes, ActorTypes, PageTypes, Room,
       Resident, Grows, Writing, Steady
  <2>2. Boundaries'
    BY <1>1, <1>3, <1>4, CkptFacts DEF Boundaries
  <2> QED  BY <1>1, <1>4, <2>1, <2>2, StepKeeps
<1>5. CASE frames' = [frames EXCEPT ![p] = g] /\ cursor' = cursor + 1 /\ mode' = mode
  <2>1. /\ f \in FrameRec /\ f.evict = "no" /\ f.data \in Data
        /\ f.rec_lsn # NoLsn => f.rec_lsn < Len(wal) /\ Kept(f.rec_lsn)
        /\ f.flush = "no" /\ f.redirty = NoLsn
    <3>1. CASE frames[p].resident
      BY <1>1, <1>2, <1>3, <3>1, FrameFacts DEF Starts, Flushing, Writing
    <3>2. CASE ~ frames[p].resident
      <4>1. disk[p].cached \in Data
        BY <1>2, CkptFacts
      <4>2. f = Frame(disk[p].cached, TRUE)
        BY <3>2
      <4> HIDE DEF f, p
      <4> QED  BY <4>1, <4>2 DEF Frame, FrameRec, Lsns
    <3> QED  BY <3>1, <3>2
  <2>2. /\ g \in FrameRec /\ g.evict = "no" /\ g.flush = "no" /\ g.redirty = NoLsn
        /\ g.rec_lsn # NoLsn => g.rec_lsn < Len(wal) /\ Kept(g.rec_lsn)
    <3> DEFINE d == IF rec.kind = "image" THEN rec.image ELSE f.data \cup {cursor}
    <3>1. d \in Data
      BY <1>2, <1>3, <2>1 DEF Data
    <3>2. g = f \/ g = publish_mutation(f, cursor, d)
      BY DEF apply_physical_redo
    <3> HIDE DEF f, d, rec, g
    <3>3. CASE g = publish_mutation(f, cursor, d)
      <4>1. /\ g \in FrameRec /\ g.evict = "no" /\ g.flush = "no" /\ g.redirty = NoLsn
            /\ g.rec_lsn = IF f.rec_lsn = NoLsn THEN cursor - 1 ELSE f.rec_lsn
        <5>1. cursor \in Nat \ {0} /\ f \in FrameRec /\ d \in Data
          BY <1>3, <2>1, <3>1
        <5>2. /\ g \in FrameRec /\ g.evict = f.evict /\ g.flush = f.flush
              /\ g.rec_lsn = IF f.rec_lsn = NoLsn THEN cursor - 1 ELSE f.rec_lsn
              /\ g.redirty = IF f.flush = "captured" /\ f.redirty = NoLsn
                               THEN cursor - 1 ELSE f.redirty
          BY <5>1, <3>3, PublishFacts
        <5> QED  BY <5>2, <2>1
      <4>2. cursor - 1 < Len(wal)
        BY <1>1, <1>3, CkptFacts
      <4> QED  BY <1>3, <2>1, <4>1, <4>2
    <3> QED  BY <2>1, <3>2, <3>3
  <2>3. LogTypes' /\ ActorTypes' /\ Boundaries' /\ Grows
    BY <1>1, <1>3, <1>5, CkptFacts DEF LogTypes, ActorTypes, Boundaries, Grows, Writing
  <2>4. disk' \in [Pages -> [stable : Data, cached : Data]]
    BY <1>1, CkptFacts
  <2>5. Flushing(g)
    BY <2>2 DEF Flushing
  <2> HIDE DEF f, g, p, rec
  <2> QED  BY <1>1, <1>2, <1>5, <2>2, <2>3, <2>4, <2>5, FrameStep
<1> QED  BY <1>4, <1>5 DEF RedoRecord

LEMMA RedoSteps ==
  ASSUME PoolInv, RedoMarker \/ RedoDone
  PROVE  PoolInv'
<1>1. /\ mode = "redo" /\ mode' \in {"redo", "recovered", "up"}
      /\ cursor' \in {cursor, cursor + 1}
      /\ UNCHANGED <<wal, flushed_lsn, replay_floor, control, disk, frames, guard, ckpt>>
  BY DEF RedoMarker, RedoDone
<1>2. Types' /\ Room' /\ Grows /\ Steady
  BY <1>1, CkptFacts DEF PoolInv, Types, LogTypes, ActorTypes, PageTypes, Room, Resident,
     Grows, Writing, Steady
<1>3. Boundaries'
  BY <1>1, CkptFacts DEF Boundaries, LogTypes, ActorTypes
<1> QED  BY <1>1, <1>2, <1>3, StepKeeps

-----------------------------------------------------------------------------
(* The theorems.                                                           *)

LEMMA PoolInit ==
  ASSUME Init
  PROVE  PoolInv
<1>1. LogTypes
  BY DEF Init, LogTypes
<1>2. ActorTypes
  <2>1. IdleGuard \in GuardRec
    BY DEF IdleGuard, GuardRec, HoldsPage, Data, Lsns
  <2>2. IdleCkpt \in CkptRec
    BY ImageFacts DEF IdleCkpt, CkptRec
  <2> QED  BY <2>1, <2>2 DEF Init, ActorTypes
<1>3. PageTypes
  <2>1. \A p \in Pages : (IF p \in OldPages THEN {} ELSE NoImage) \in Data
    BY DEF Data, NoImage
  <2> QED  BY <2>1 DEF Init, PageTypes
<1>4. Resident = {}
  BY DEF Init, Resident, NoFrame
<1>5. Room
  BY <1>4, FS_EmptySet, PoolAssumption DEF Room
<1>6. Boundaries
  BY DEF Init, Boundaries, IdleCkpt
<1>7. \A t \in Threads : Holding(guard[t])
  BY DEF Init, Holding, IdleGuard, HoldsPage, HoldsNew
<1> QED  BY <1>1, <1>2, <1>3, <1>4, <1>5, <1>6, <1>7 DEF PoolInv, Types

LEMMA PoolNext ==
  ASSUME PoolInv, [Next]_vars
  PROVE  PoolInv'
<1>1. CASE UNCHANGED vars
  <2>1. Types' /\ Room' /\ Boundaries' /\ Grows /\ Steady
    BY <1>1, CkptFacts DEF vars, PoolInv, Types, LogTypes, ActorTypes, PageTypes, Room,
       Resident, Boundaries, Grows, Writing, Steady
  <2> QED  BY <1>1, <2>1, StepKeeps DEF vars
<1>2. ASSUME NEW t \in Threads, NEW p \in Pages, LookupResident(t, p) \/ LoadPage(t, p)
      PROVE  PoolInv'
  BY <1>2, ThreadSteps
<1>3. ASSUME NEW t \in Threads, Proceed(t) \/ Extend(t) \/ SplitNode(t)
      PROVE  PoolInv'
  BY <1>3, ThreadSteps, InsertLoadedStep, LogChangeStep, PublishStep, FillSteps,
     PublishNewStep, NewPageStep DEF Proceed
<1>4. ASSUME NEW p \in Pages, Steal(p) PROVE PoolInv'
  BY <1>4, StealSteps
<1>5. CASE Checkpoint
  BY <1>5, WriteSteps, TablesStep, MarkerStep, StoreStep, RecycleStep, CaptureStep,
     FinishStep DEF Checkpoint
<1>6. CASE FlushLog \/ CheckpointBegin \/ Crash \/ RedoRecord \/ RedoMarker \/ RedoDone
  BY <1>6, FlushLogStep, BeginStep, CrashStep, RedoRecordStep, RedoSteps
<1> QED  BY <1>1, <1>2, <1>3, <1>4, <1>5, <1>6 DEF Next

\* In every reachable state the log, the frames and the boundaries have their
\* types, and the pool never has more frames than FrameCount: whoever inserts one
\* has found room for it under the lock (get_or_insert_clean, insert_fresh_frame).
THEOREM PoolWellTyped == Spec => []TypeOK
<1>1. PoolInv => TypeOK
  <2> SUFFICES ASSUME PoolInv PROVE TypeOK
    OBVIOUS
  <2>1. ASSUME NEW i \in 1..Len(wal)
        PROVE  wal[i].page \in Pages \cup {NoPage} /\ wal[i].kind \in {"image", "delta", "marker"}
    <3>1. wal[i] \in Rec
      BY CkptFacts DEF LogTypes
    <3> QED  BY <3>1 DEF Rec
  <2>2. ASSUME NEW p \in Resident
        PROVE  /\ frames[p].rec_lsn \in NoLsn..Len(wal)
               /\ frames[p].flush = "captured" => frames[p].rec_lsn # NoLsn
    <3>1. p \in Pages /\ frames[p].resident
      BY DEF Resident
    <3>2. Starts(frames[p]) /\ frames[p].rec_lsn \in Lsns
      BY <3>1, FrameFacts
    <3> QED  BY <3>2, CkptFacts DEF Starts, Flushing, Lsns, NoLsn
  <2>3. flushed_lsn \in 0..Len(wal) /\ replay_floor \in 0..flushed_lsn
    BY CkptFacts DEF LogTypes, Boundaries
  <2>4. Cardinality(Resident) <= FrameCount /\ mode \in {"up", "redo", "recovered", "failed"}
    BY DEF PoolInv, Types, ActorTypes, Room
  <2> QED  BY <2>1, <2>2, <2>3, <2>4 DEF TypeOK
<1> QED  BY <1>1, PoolInit, PoolNext, PTL DEF Spec

\* Startup never refuses the durable checkpoint record, and no checkpoint gets a
\* redo point below the log that was given up (validate_checkpoint_boundaries and
\* checkpoint_clog): whatever the sessions, the steals and the crashes do.
THEOREM BoundariesAlwaysRetained == Spec => []BoundariesRetained
<1>1. PoolInv => BoundariesRetained
  BY CkptFacts DEF Boundaries, BoundariesRetained, LogTypes
<1> QED  BY <1>1, PoolInit, PoolNext, PTL DEF Spec

-----------------------------------------------------------------------------
(***************************************************************************)
(* Redo always finds what it needs: the durable boundaries in the retained *)
(* log, and in the log from the redo point on a full image of              *)
(* every page that a crash may tear, has torn, or that was never written.  *)
(*                                                                         *)
(* The argument follows one page through the pool.  A record is settled    *)
(* once its thread has published it.  While the server is up, a settled    *)
(* record that the page file lacks lies beyond rec_lsn of a dirty frame,   *)
(* and the record at rec_lsn is a full image; a redo point is never beyond *)
(* rec_lsn.  Recovery differs from that in two ways: a file may be torn,   *)
(* and a frame may have become dirty by a delta; but then the image is     *)
(* somewhere above the redo point, which does not move before every frame  *)
(* is written.                                                             *)
(***************************************************************************)
-----------------------------------------------------------------------------
(* Records of a page.                                                      *)

Recs(p) == {i \in 1..Len(wal) : wal[i].page = p}
Image(p, i) == i \in Recs(p) /\ wal[i].kind = "image"
ImageIn(p, a, b) == \E i \in Recs(p) : a < i /\ i <= b /\ wal[i].kind = "image"
Known(p) == p \in OldPages \/ Recs(p) # {}
Covers(d, i) == PageLsn(d) >= i

\* Appended and not yet published.
PendingAt(t, p, i) ==
  /\ guard[t].lsn = i
  /\ \/ guard[t].pc = "logged" /\ guard[t].page = p
     \/ guard[t].pc = "newlogged" /\ guard[t].new = p
Pending(p, i) == \E t \in Threads : PendingAt(t, p, i)
Settled(p) == {i \in Recs(p) : ~ Pending(p, i)}

\* The redo points from which a crash now or soon may start.
RedoPoint(r) == r = control.redo \/ (ckpt.pc \in {"marker", "store"} /\ r = ckpt.redo)

Running == mode \in {"up", "recovered"}
DirtyFrame(p) == frames[p].resident /\ frames[p].rec_lsn # NoLsn
Captured(p) == frames[p].resident /\ frames[p].flush = "captured"
Written(p) == frames[p].resident /\ frames[p].evict = "written"
Copied(p) == p \in DOMAIN ckpt.image

-----------------------------------------------------------------------------
(* The invariant, for one page.                                            *)

\* Bytes name records that exist; those of a file, durable ones.
Contents(p) ==
  /\ frames[p].resident => frames[p].data \subseteq 1..Len(wal)
  /\ disk[p].stable = NoImage \/ disk[p].stable \subseteq 1..flushed_lsn
  /\ disk[p].cached = NoImage \/ disk[p].cached \subseteq 1..flushed_lsn
  /\ disk[p].cached = NoImage => disk[p].stable = NoImage
  /\ Copied(p) => ckpt.image[p] \subseteq 1..Len(wal)

\* A page begins with an image, unless it was there when the server first started.
Begins(p) == p \notin OldPages => \A i \in Recs(p) : ImageIn(p, 0, i)

\* What a steal or a checkpoint has written and not synced.
Writes(p) ==
  /\ frames[p].resident /\ frames[p].evict # "no" =>
       frames[p].flush = "no" /\ frames[p].rec_lsn # NoLsn
  /\ Written(p) => disk[p].cached = frames[p].data /\ frames[p].rec_lsn < flushed_lsn
  /\ disk[p].stable # disk[p].cached => Written(p) \/ (ckpt.pc = "sync" /\ Copied(p))
  /\ ckpt.pc \in {"capture", "sync"} /\ Copied(p) => Captured(p)
  /\ Captured(p) =>
       /\ Copied(p)
       /\ ckpt.pc = "sync" => disk[p].cached = ckpt.image[p]
       /\ ckpt.pc = "finish" => disk[p].stable = ckpt.image[p] /\ disk[p].cached = ckpt.image[p]

\* Which settled records the frame, the file and the copy have.
Coverage(p) ==
  /\ Running /\ DirtyFrame(p) => \A i \in Settled(p) : Covers(frames[p].data, i)
  /\ Running => \A i \in Settled(p) :
       \/ Covers(disk[p].stable, i)
       \/ DirtyFrame(p) /\ (mode = "up" => frames[p].rec_lsn < i)
  /\ Captured(p) => \A i \in Settled(p) :
       \/ Covers(ckpt.image[p], i)
       \/ frames[p].redirty # NoLsn /\ frames[p].redirty < i
  /\ mode # "failed" => \A i \in Recs(p), r \in Nat : RedoPoint(r) /\ i <= r =>
       /\ disk[p].stable = NoImage \/ Covers(disk[p].stable, i)
       /\ disk[p].cached = NoImage \/ Covers(disk[p].cached, i)

\* The first change of a page since it was written logs its image.
FirstImage(p) ==
  /\ mode = "up" /\ frames[p].resident =>
       /\ frames[p].rec_lsn # NoLsn => Image(p, frames[p].rec_lsn + 1)
       /\ frames[p].redirty # NoLsn =>
            Image(p, frames[p].redirty + 1) /\ frames[p].rec_lsn <= frames[p].redirty
  /\ frames[p].resident /\ ~ frames[p].needs_fpi /\ Known(p)
       /\ (\A i \in Recs(p) : ~ Pending(p, i)) =>
       frames[p].rec_lsn # NoLsn /\ (frames[p].flush = "captured" => frames[p].redirty # NoLsn)
  /\ \A i \in Nat : Pending(p, i) =>
       /\ i \in Recs(p) /\ (\A j \in Recs(p) : j <= i)
       /\ frames[p].rec_lsn < i /\ frames[p].redirty < i
       /\ wal[i].kind # "image" =>
            frames[p].rec_lsn # NoLsn
              /\ (frames[p].flush = "captured" => frames[p].redirty # NoLsn)

\* The images of broken pages.
Torn(p) ==
  /\ \A r \in Nat : RedoPoint(r) =>
       /\ disk[p].stable # disk[p].cached => ImageIn(p, r, flushed_lsn)
       /\ disk[p].cached = NoImage /\ Known(p) =>
            \/ ImageIn(p, r, flushed_lsn)
            \/ p \notin OldPages /\ \A i \in Recs(p) : r < i
  /\ mode = "up" /\ disk[p].cached = NoImage => p \notin OldPages

\* Redo, and the checkpoint at its end.
Redoing(p) ==
  /\ mode # "up" /\ frames[p].resident =>
       frames[p].needs_fpi /\ frames[p].redirty = NoLsn
  /\ mode # "up" /\ DirtyFrame(p) => ImageIn(p, control.redo, flushed_lsn)
  /\ mode = "redo" /\ frames[p].resident /\ frames[p].rec_lsn = NoLsn =>
       frames[p].data = disk[p].cached
  /\ mode = "redo" => \A i \in Recs(p) : i < cursor =>
       IF Served(p) = NoImage THEN i <= control.redo ELSE Covers(Served(p), i)
  /\ mode = "redo" => \A i \in Recs(p), d \in {disk[p].stable, disk[p].cached} :
       control.redo < i /\ wal[i].kind # "image" =>
         d = NoImage \/ Covers(d, i) \/ ImageIn(p, control.redo, flushed_lsn)
  /\ mode = "recovered" /\ disk[p].cached = NoImage /\ Known(p) => DirtyFrame(p)
  /\ mode = "recovered" /\ DirtyFrame(p) =>
       \/ ckpt.pc = "idle"
       \/ ckpt.pc = "capture" /\ frames[p].flush # "no"
       \/ ckpt.pc \in {"sync", "finish"} /\ Captured(p)

PageInv(p) ==
  /\ Contents(p) /\ Begins(p) /\ Writes(p) /\ Coverage(p) /\ FirstImage(p) /\ Torn(p)
  /\ Redoing(p)

-----------------------------------------------------------------------------
(* The invariant of the log and the threads.                               *)

LogContents ==
  /\ \A p \in Pages : \A i \in Recs(p) :
       wal[i].image \subseteq 1..i /\ i \in wal[i].image /\ wal[i].kind # "marker"
  /\ mode # "up" => flushed_lsn = Len(wal)

Latches(t, p) ==
  \/ guard[t].page = p /\ guard[t].pc \in HoldsPage
  \/ guard[t].new = p /\ guard[t].pc \in HoldsNew

\* What a thread knows of the page it has come for and of a new one.
Placed(t) ==
  /\ guard[t].pc # "idle" /\ guard[t].page # NoPage => Known(guard[t].page)
  /\ guard[t].pc \in HoldsNew => guard[t].new # guard[t].page
  /\ guard[t].pc \in {"newfence", "filling"} => ~ Known(guard[t].new)
  /\ guard[t].pc = "newlogged" => wal[guard[t].lsn].kind = "image"
  /\ guard[t].pc = "loaded" => guard[t].data \subseteq 1..Len(wal)

ThreadInv ==
  /\ mode # "up" => \A t \in Threads : guard[t].pc = "idle"
  /\ \A t, u \in Threads, p \in Pages : Latches(t, p) /\ Latches(u, p) => t = u
  /\ \A t \in Threads : Placed(t)

ImageInv == PoolInv /\ LogContents /\ ThreadInv /\ \A p \in Pages : PageInv(p)

-----------------------------------------------------------------------------
(* Page LSNs.                                                              *)

LEMMA PageLsnFacts ==
  ASSUME NEW n \in Nat, NEW d \in SUBSET (1..n)
  PROVE  /\ PageLsn(d) \in Nat /\ PageLsn(d) <= n
         /\ \A x \in d : x <= PageLsn(d)
<1> DEFINE S == d \cup {0}
           U == {u \in Nat : \A y \in S : y <= u}
<1>1. S \subseteq Nat /\ n \in U
  OBVIOUS
<1>2. U \subseteq Nat /\ U # {}
  BY <1>1
<1> HIDE DEF U
<1>3. Min(U) \in U /\ \A x \in U : Min(U) <= x
  BY <1>2, MinFacts
<1> DEFINE m == Min(U)
<1> HIDE DEF m
<1>4. m \in Nat /\ (\A y \in S : y <= m) /\ m <= n /\ \A x \in U : m <= x
  BY <1>1, <1>3 DEF m, U
<1>5. m \in S
  <2>1. CASE m = 0
    BY <2>1
  <2>2. CASE m # 0
    <3>1. m - 1 \in Nat /\ ~ m <= m - 1
      BY <2>2, <1>4
    <3>2. m - 1 \notin U
      BY <3>1, <1>4
    <3>3. PICK y \in S : ~ y <= m - 1
      BY <3>1, <3>2 DEF U
    <3>4. y \in Nat /\ y <= m
      BY <1>1, <1>4
    <3> QED  BY <3>3, <3>4, <1>4
  <2> QED  BY <2>1, <2>2
<1> HIDE DEF S
<1>6. Max(S) \in S /\ \A y \in S : Max(S) >= y
  <2>1. \A y \in S : m >= y
    BY <1>1, <1>4
  <2> QED  BY <1>5, <2>1, Zenon DEF Max
<1>7. PageLsn(d) = Max(S)
  BY DEF PageLsn, S
<1>8. Max(S) \in Nat /\ Max(S) <= n
  <2> DEFINE x == Max(S)
  <2>1. x \in S /\ S \subseteq Nat
    BY <1>1, <1>6
  <2> HIDE DEF x
  <2>2. x \in Nat /\ x <= m
    BY <2>1, <1>4
  <2>3. x <= n
    BY <2>2, <1>4
  <2> QED  BY <2>2, <2>3 DEF x
<1>9. \A x \in d : x \in S
  BY DEF S
<1> QED  BY <1>1, <1>6, <1>7, <1>8, <1>9

LEMMA NoImageFacts ==
  /\ PageLsn(NoImage) = 0
  /\ \A n : NoImage \notin SUBSET (1..n)
  /\ \A i \in Nat \ {0} : ~ Covers(NoImage, i)
<1>1. {0} \cup {0} = {0}
  OBVIOUS
<1>2. Max({0}) \in {0}
  <2>1. \A y \in {0} : 0 >= y
    OBVIOUS
  <2>2. 0 \in {0}
    OBVIOUS
  <2> QED  BY <2>1, <2>2, Zenon DEF Max
<1>3. PageLsn(NoImage) = 0
  BY <1>1, <1>2 DEF PageLsn, NoImage
<1> QED  BY <1>3 DEF NoImage, Covers

\* A page that has a record has those before it.
LEMMA CoversFacts ==
  ASSUME NEW n \in Nat, NEW d \in SUBSET (1..n), NEW i \in d, NEW j \in Nat, j <= i
  PROVE  Covers(d, j)
BY PageLsnFacts DEF Covers

LEMMA CoversDown ==
  ASSUME NEW n \in Nat, NEW d \in SUBSET (1..n), NEW i \in Nat, Covers(d, i),
         NEW j \in Nat, j <= i
  PROVE  Covers(d, j)
BY PageLsnFacts DEF Covers

-----------------------------------------------------------------------------
(* The log.                                                                *)

LEMMA RecsFacts ==
  ASSUME LogTypes, NEW p
  PROVE  /\ Len(wal) \in Nat /\ flushed_lsn \in Nat /\ flushed_lsn <= Len(wal)
         /\ \A i \in Recs(p) : i \in Nat /\ i # 0 /\ i <= Len(wal) /\ wal[i] \in Rec
                               /\ wal[i].page = p
BY DEF LogTypes, Recs

\* Published, as the actions name it.
LEMMA KnownFacts ==
  ASSUME NEW p \in Pages
  PROVE  p \in Published <=> Known(p)
BY PoolAssumption DEF Published, Known, Recs

\* A record of another page is appended, or one of this page.
LEMMA AppendOther ==
  ASSUME LogTypes, NEW q \in Pages \cup {NoPage}, NEW kind \in {"image", "delta", "marker"},
         NEW data \in Data, Append1(q, kind, data), NEW p, p # q
  PROVE  Recs(p)' = Recs(p) /\ \A i \in Recs(p) : wal'[i] = wal[i]
<1>1. /\ Len(wal') = Len(wal) + 1 /\ Len(wal) \in Nat
      /\ wal'[Len(wal) + 1] = [page |-> q, kind |-> kind, image |-> data]
      /\ \A i \in 1..Len(wal) : wal'[i] = wal[i]
  BY AppendFacts
<1>2. wal'[Len(wal) + 1].page = q
  BY <1>1
<1>3. \A i \in 1..Len(wal') : i \in 1..Len(wal) \/ i = Len(wal) + 1
  BY <1>1
<1>4. \A i \in 1..Len(wal) : i \in 1..Len(wal')
  BY <1>1
<1> QED  BY <1>1, <1>2, <1>3, <1>4 DEF Recs

LEMMA AppendOwn ==
  ASSUME LogTypes, NEW p \in Pages, NEW kind \in {"image", "delta", "marker"},
         NEW data \in Data, Append1(p, kind, data)
  PROVE  /\ Recs(p)' = Recs(p) \cup {Len(wal) + 1} /\ Len(wal) + 1 \notin Recs(p)
         /\ \A i \in Recs(p) : wal'[i] = wal[i]
         /\ wal'[Len(wal) + 1].kind = kind /\ wal'[Len(wal) + 1].image = data
<1>1. /\ Len(wal') = Len(wal) + 1 /\ Len(wal) \in Nat
      /\ wal'[Len(wal) + 1] = [page |-> p, kind |-> kind, image |-> data]
      /\ \A i \in 1..Len(wal) : wal'[i] = wal[i]
  BY AppendFacts
<1>2. /\ wal'[Len(wal) + 1].page = p /\ wal'[Len(wal) + 1].kind = kind
      /\ wal'[Len(wal) + 1].image = data
  BY <1>1
<1>3. \A i \in 1..Len(wal') : i \in 1..Len(wal) \/ i = Len(wal) + 1
  BY <1>1
<1>4. \A i \in 1..Len(wal) : i \in 1..Len(wal')
  BY <1>1
<1>5. Len(wal) + 1 \in 1..Len(wal') /\ Len(wal) + 1 \notin 1..Len(wal)
  BY <1>1
<1> QED  BY <1>1, <1>2, <1>3, <1>4, <1>5 DEF Recs

LEMMA RedoPointFacts ==
  ASSUME PoolInv, NEW r, RedoPoint(r)
  PROVE  /\ r \in Nat /\ r <= Len(wal) /\ (ckpt.pc \notin {"marker", "store"} => r = control.redo)
         /\ \A x : Kept(x) => r <= x
<1>1. /\ control.redo \in Nat /\ control.redo <= Len(wal)
      /\ ckpt.redo \in Nat /\ (ckpt.pc \in {"marker", "store"} => ckpt.redo <= Len(wal))
  BY DEF PoolInv, Types, LogTypes, ActorTypes, CkptRec, Boundaries
<1> QED  BY <1>1 DEF RedoPoint, Kept

-----------------------------------------------------------------------------
(* Pages that a step leaves alone.                                         *)

SameRecords(p) ==
  /\ Recs(p)' = Recs(p) /\ \A i \in Recs(p) : wal'[i] = wal[i]
  /\ Len(wal) <= Len(wal') /\ flushed_lsn <= flushed_lsn'
  /\ \A i \in Nat : Pending(p, i)' <=> Pending(p, i)

LEMMA SameFacts ==
  ASSUME LogTypes, LogTypes', NEW p \in Pages, SameRecords(p)
  PROVE  /\ Settled(p)' = Settled(p) /\ (Known(p)' <=> Known(p))
         /\ \A i : Image(p, i)' <=> Image(p, i)
         /\ \A a, b : ImageIn(p, a, b)' <=> ImageIn(p, a, b)
         /\ \A a \in Nat : ImageIn(p, a, flushed_lsn) => ImageIn(p, a, flushed_lsn)'
<1>1. /\ flushed_lsn \in Nat /\ flushed_lsn' \in Nat /\ flushed_lsn <= flushed_lsn'
      /\ \A i \in Recs(p) : i \in Nat
  BY RecsFacts DEF LogTypes, SameRecords
<1>2. Settled(p)' = Settled(p)
  BY <1>1 DEF Settled, SameRecords
<1>3. Known(p)' <=> Known(p)
  BY DEF Known, SameRecords
<1>4. \A i : Image(p, i)' <=> Image(p, i)
  BY DEF Image, SameRecords
<1>5. \A a, b : ImageIn(p, a, b)' <=> ImageIn(p, a, b)
  BY DEF ImageIn, SameRecords
<1>6. ASSUME NEW a \in Nat, ImageIn(p, a, flushed_lsn)
      PROVE  ImageIn(p, a, flushed_lsn)'
  <2>1. PICK i \in Recs(p) : a < i /\ i <= flushed_lsn /\ wal[i].kind = "image"
    BY <1>6 DEF ImageIn
  <2>2. i \in Recs(p)' /\ i <= flushed_lsn' /\ wal'[i].kind = "image"
    BY <2>1, <1>1 DEF SameRecords
  <2> QED  BY <2>1, <2>2 DEF ImageIn
<1> QED  BY <1>2, <1>3, <1>4, <1>5, <1>6

SameCkpt(p) ==
  /\ ckpt'.pc = ckpt.pc /\ ckpt'.redo = ckpt.redo /\ (Copied(p)' <=> Copied(p))
  /\ Copied(p) => ckpt'.image[p] = ckpt.image[p]

\* Records settled before a step are so after it.
Calm(p) ==
  /\ SameRecords(p) /\ frames'[p] = frames[p] /\ disk'[p] = disk[p]
  /\ control' = control /\ SameCkpt(p)
  /\ mode' = mode \/ (mode = "redo" /\ mode' = "failed")
  /\ cursor' = cursor \/ (cursor' = cursor + 1 /\ cursor \notin Recs(p))

LEMMA CalmPage ==
  ASSUME ImageInv, LogTypes', NEW p \in Pages, Calm(p)
  PROVE  PageInv(p)'
<1>1. LogTypes /\ SameRecords(p) /\ PageInv(p) /\ cursor \in Nat /\ control.redo \in Nat
  BY DEF ImageInv, PoolInv, Types, LogTypes, ActorTypes, Calm
<1>2. /\ Settled(p)' = Settled(p) /\ (Known(p)' <=> Known(p)) /\ Recs(p)' = Recs(p)
      /\ \A i : Image(p, i)' <=> Image(p, i)
      /\ \A a, b : ImageIn(p, a, b)' <=> ImageIn(p, a, b)
      /\ \A a \in Nat : ImageIn(p, a, flushed_lsn) => ImageIn(p, a, flushed_lsn)'
      /\ \A i \in Recs(p) : wal'[i] = wal[i] /\ i \in Nat
      /\ \A i \in Nat : Pending(p, i)' <=> Pending(p, i)
  BY <1>1, SameFacts, RecsFacts DEF SameRecords
<1>3. /\ frames'[p] = frames[p] /\ disk'[p] = disk[p] /\ control' = control
      /\ ckpt'.pc = ckpt.pc /\ (Copied(p)' <=> Copied(p))
      /\ Copied(p) => ckpt'.image[p] = ckpt.image[p]
      /\ mode' = mode \/ (mode = "redo" /\ mode' = "failed")
      /\ \A r : RedoPoint(r)' <=> RedoPoint(r)
  BY DEF Calm, SameCkpt, RedoPoint
<1>4. /\ Len(wal) \in Nat /\ Len(wal') \in Nat /\ flushed_lsn \in Nat /\ flushed_lsn' \in Nat
      /\ Len(wal) <= Len(wal') /\ flushed_lsn <= flushed_lsn'
  BY <1>1 DEF LogTypes, SameRecords
<1>5. 1..Len(wal) \subseteq 1..Len(wal') /\ 1..flushed_lsn \subseteq 1..flushed_lsn'
  BY <1>4
<1>6. Contents(p)'
  BY <1>1, <1>3, <1>5 DEF PageInv, Contents
<1>7. Begins(p)'
  BY <1>1, <1>2 DEF PageInv, Begins
<1>8. Writes(p)'
  <2>1. Written(p) => frames[p].rec_lsn \in Int
    <3>1. \A x \in Lsns : x \in Int
      BY DEF Lsns, NoLsn
    <3> QED  BY <3>1, FrameFacts DEF Written, ImageInv
  <2> QED  BY <1>1, <1>3, <1>4, <2>1 DEF PageInv, Writes, Written, Captured
<1>9. Coverage(p)'
  <2>1. Captured(p) => Copied(p)
    BY <1>1 DEF PageInv, Writes
  <2> QED  BY <1>1, <1>2, <1>3, <2>1 DEF PageInv, Coverage, Running, DirtyFrame, Captured
<1>10. FirstImage(p)'
  BY <1>1, <1>2, <1>3 DEF PageInv, FirstImage
<1>11. Torn(p)'
  BY <1>1, <1>2, <1>3 DEF PageInv, Torn
<1>12. Redoing(p)'
  <2>1. Served(p)' = Served(p)
    BY <1>3 DEF Served
  <2>2. \A i \in Recs(p) : i < cursor' => i < cursor
    BY <1>1, <1>2 DEF Calm
  <2> QED  BY <1>1, <1>2, <1>3, <2>1, <2>2 DEF PageInv, Redoing, DirtyFrame, Captured
<1> QED  BY <1>6, <1>7, <1>8, <1>9, <1>10, <1>11, <1>12 DEF PageInv

-----------------------------------------------------------------------------
(* Steps of one thread.                                                    *)

Others(t) == \A u \in Threads : u # t => guard'[u] = guard[u]

\* Nobody else has a latch that the thread takes.
TakesFree(t) ==
  \A q \in Pages : Latches(t, q)' => \/ Latches(t, q)
                                     \/ \A u \in Threads : u # t => ~ Latches(u, q)

\* The log grows, and a page becomes known only through the thread that allocates it.
LogGrows(t) ==
  /\ Len(wal) <= Len(wal') /\ \A i \in 1..Len(wal) : wal'[i] = wal[i]
  /\ \A q \in Pages : Known(q) => Known(q)'
  /\ \A q \in Pages : Known(q)' => Known(q) \/ Latches(t, q)

LEMMA ThreadMoves ==
  ASSUME ImageInv, LogTypes', NEW t \in Threads, Others(t), TakesFree(t), LogGrows(t),
         mode' = "up", Placed(t)'
  PROVE  ThreadInv'
<1>1. ThreadInv /\ PoolInv /\ Len(wal) \in Nat /\ Len(wal') \in Nat
  BY DEF ImageInv, PoolInv, Types, LogTypes
<1>2. ASSUME NEW u \in Threads, u # t, NEW q PROVE Latches(u, q)' <=> Latches(u, q)
  BY <1>2 DEF Others, Latches
<1>3. ASSUME NEW u \in Threads, NEW v \in Threads, NEW q \in Pages,
             Latches(u, q)', Latches(v, q)'
      PROVE  u = v
  BY <1>1, <1>2, <1>3 DEF ThreadInv, TakesFree
<1>4. ASSUME NEW u \in Threads, u # t PROVE Placed(u)'
  <2>1. guard'[u] = guard[u] /\ Placed(u) /\ guard[u] \in GuardRec /\ Holding(guard[u])
    BY <1>1, <1>4, GuardFacts DEF Others, ThreadInv
  <2>2. guard[u].page \in Pages \cup {NoPage}
    BY <2>1 DEF GuardRec
  <2>3. guard[u].pc \in HoldsNew => guard[u].new \in Pages /\ Latches(u, guard[u].new)
    BY <2>1 DEF Holding, Latches
  <2>4. guard[u].pc \in HoldsNew => ~ Latches(t, guard[u].new)
    BY <2>3, <1>1, <1>4 DEF ThreadInv
  <2>5. guard[u].pc = "newlogged" => guard[u].lsn \in 1..Len(wal)
    BY <2>1 DEF Holding
  <2>6. 1..Len(wal) \subseteq 1..Len(wal')
    BY <1>1 DEF LogGrows
  <2>7. guard[u].pc # "idle" /\ guard[u].page # NoPage => Known(guard[u].page)'
    BY <2>1, <2>2 DEF Placed, LogGrows
  <2>8. guard[u].pc \in {"newfence", "filling"} => ~ Known(guard[u].new)'
    BY <2>1, <2>3, <2>4 DEF Placed, LogGrows, HoldsNew
  <2>9. guard[u].pc = "newlogged" => wal'[guard[u].lsn].kind = "image"
    BY <2>1, <2>5 DEF Placed, LogGrows
  <2>10. guard[u].pc = "loaded" => guard[u].data \subseteq 1..Len(wal')
    BY <2>1, <2>6 DEF Placed
  <2>11. guard[u].pc \in HoldsNew => guard[u].new # guard[u].page
    BY <2>1 DEF Placed
  <2> QED  BY <2>1, <2>7, <2>8, <2>9, <2>10, <2>11 DEF Placed, Known, Recs
<1> QED  BY <1>3, <1>4 DEF ThreadInv

\* The records that wait to be published to a page.
LEMMA PendingElse ==
  ASSUME NEW t \in Threads, Others(t), NEW p,
         \A i : ~ PendingAt(t, p, i) /\ ~ PendingAt(t, p, i)'
  PROVE  \A i : Pending(p, i)' <=> Pending(p, i)
<1>1. ASSUME NEW u \in Threads, u # t, NEW i PROVE PendingAt(u, p, i)' <=> PendingAt(u, p, i)
  BY <1>1 DEF Others, PendingAt
<1> QED  BY <1>1 DEF Pending

\* A page under a latch: its records are this thread's to publish.
LEMMA LatchedFacts ==
  ASSUME ImageInv, NEW t \in Threads, NEW p \in Pages, Latches(t, p)
  PROVE  /\ mode = "up" /\ latched(p) /\ frames[p].resident /\ frames[p].evict = "no"
         /\ \A u \in Threads : Latches(u, p) => u = t
         /\ \A i : Pending(p, i) <=> PendingAt(t, p, i)
<1>1. ThreadInv /\ PoolInv /\ Holding(guard[t])
  BY GuardFacts DEF ImageInv
<1>2. mode = "up" /\ latched(p)
  BY <1>1 DEF ThreadInv, Latches, latched, HoldsPage, HoldsNew
<1>3. frames[p].resident /\ frames[p].evict = "no"
  BY <1>1, PoolAssumption DEF Holding, Latches
<1>4. \A u \in Threads : \A i : PendingAt(u, p, i) => Latches(u, p)
  BY DEF PendingAt, Latches, HoldsPage, HoldsNew
<1> QED  BY <1>1, <1>2, <1>3, <1>4 DEF ThreadInv, Pending

\* A page that is not latched has no record waiting.
LEMMA FreeFacts ==
  ASSUME NEW p, ~ latched(p)
  PROVE  /\ \A i : ~ Pending(p, i)
         /\ Settled(p) = Recs(p)
<1>1. \A u \in Threads : \A i : PendingAt(u, p, i) => latched(p)
  BY DEF PendingAt, latched, HoldsPage, HoldsNew
<1> QED  BY <1>1 DEF Pending, Settled

\* A thread changes nothing but what it holds, and has no record to publish.
LEMMA GuardImage ==
  ASSUME ImageInv, PoolInv', NEW t \in Threads, NEW g \in GuardRec, Move(t, g),
         UNCHANGED <<wal, flushed_lsn, control, disk, frames, ckpt, mode, cursor>>,
         mode = "up", guard[t].pc \notin {"logged", "newlogged"},
         g.pc \notin {"logged", "newlogged"}, TakesFree(t), Placed(t)'
  PROVE  ImageInv'
<1>1. guard'[t] = g /\ Others(t)
  BY DEF ImageInv, PoolInv, Types, ActorTypes, Move, Others
<1>2. LogTypes' /\ Len(wal) \in Nat /\ flushed_lsn \in Nat
  BY DEF PoolInv, Types, LogTypes
<1>3. \A q : Known(q)' <=> Known(q)
  BY DEF Known, Recs
<1>4. ThreadInv'
  <2>1. LogGrows(t)
    BY <1>2, <1>3 DEF LogGrows
  <2> QED  BY <1>1, <1>2, <2>1, ThreadMoves
<1>5. LogContents'
  BY DEF ImageInv, LogContents, Recs
<1>6. ASSUME NEW p \in Pages PROVE PageInv(p)'
  <2>1. \A i : ~ PendingAt(t, p, i) /\ ~ PendingAt(t, p, i)'
    BY <1>1 DEF PendingAt
  <2>2. \A i : Pending(p, i)' <=> Pending(p, i)
    BY <1>1, <2>1, PendingElse
  <2>3. SameRecords(p)
    BY <1>2, <2>2 DEF SameRecords, Recs
  <2>4. Calm(p)
    BY <2>3 DEF Calm, SameCkpt, Copied
  <2> QED  BY <1>2, <2>4, CalmPage
<1> QED  BY <1>4, <1>5, <1>6 DEF ImageInv

\* A page that is known and not in the pool is whole in its file.
LEMMA AbsentFacts ==
  ASSUME ImageInv, NEW p \in Pages, mode = "up", Known(p), ~ frames[p].resident
  PROVE  disk[p].cached \subseteq 1..Len(wal)
<1>1. PageInv(p) /\ PoolInv /\ LogTypes
  BY DEF ImageInv, PoolInv, Types
<1>2. ASSUME disk[p].cached = NoImage PROVE FALSE
  <2>1. p \notin OldPages /\ disk[p].stable = NoImage
    BY <1>1, <1>2 DEF PageInv, Torn, Contents
  <2>2. PICK i \in Recs(p) : TRUE
    BY <2>1 DEF Known
  <2>3. ~ latched(p)
    <3>1. \A u \in Threads : ~ Latches(u, p)
      BY LatchedFacts
    <3> QED  BY <3>1 DEF latched, Latches
  <2>4. i \in Settled(p) /\ i \in Nat \ {0}
    BY <1>1, <2>2, <2>3, FreeFacts, RecsFacts
  <2>5. Covers(disk[p].stable, i)
    BY <1>1, <2>4 DEF PageInv, Coverage, Running, DirtyFrame
  <2> QED  BY <2>1, <2>4, <2>5, NoImageFacts
<1>3. disk[p].cached \subseteq 1..flushed_lsn
  BY <1>1, <1>2 DEF PageInv, Contents
<1>4. 1..flushed_lsn \subseteq 1..Len(wal)
  BY <1>1, RecsFacts
<1> QED  BY <1>3, <1>4

LEMMA ThreadImages ==
  ASSUME ImageInv, NEW t \in Threads,
         \/ \E p \in Pages : LookupResident(t, p) \/ LoadPage(t, p)
         \/ NoVictim(t) \/ TakeLatch(t) \/ TakeShare(t) \/ DropGuard(t)
         \/ Extend(t) \/ SplitNode(t) \/ NewShare(t)
  PROVE  ImageInv'
<1>1. /\ PoolInv /\ PoolInv' /\ Placed(t) /\ Holding(guard[t]) /\ guard[t] \in GuardRec
      /\ IdleGuard \in GuardRec /\ guard[t].page \in Pages \cup {NoPage}
  <2>1. PoolInv /\ Placed(t)
    BY DEF ImageInv, ThreadInv
  <2> QED  BY <2>1, ThreadSteps, GuardFacts
<1>2. UNCHANGED <<wal, flushed_lsn, control, disk, frames, ckpt, mode, cursor>>
  BY DEF LookupResident, LoadPage, NoVictim, TakeLatch, TakeShare, DropGuard, Extend,
         SplitNode, NewShare
<1>3. \A q : Known(q)' <=> Known(q)
  BY <1>2 DEF Known, Recs
<1>4. guard[t].pc # "idle" => mode = "up"
  BY DEF ImageInv, ThreadInv
<1>5. \A g : Move(t, g) => guard'[t] = g
  BY <1>1 DEF PoolInv, Types, ActorTypes, Move
<1>6. ASSUME NEW p \in Pages, LookupResident(t, p) \/ LoadPage(t, p) PROVE ImageInv'
  <2>1. /\ mode = "up" /\ guard[t].pc = "idle" /\ Known(p)
        /\ LoadPage(t, p) => disk[p].cached \subseteq 1..Len(wal)
    BY <1>6, KnownFacts, AbsentFacts DEF LookupResident, LoadPage
  <2> DEFINE g == IF LookupResident(t, p)
                    THEN [guard[t] EXCEPT !.pc = "pinned", !.page = p]
                    ELSE [guard[t] EXCEPT !.pc = "loaded", !.page = p, !.data = disk[p].cached]
  <2>2. /\ Move(t, g)
    BY <1>6 DEF LookupResident, LoadPage
  <2>3. disk[p].cached \in Data
    BY <1>1 DEF PoolInv, Types, PageTypes
  <2>4. /\ g \in GuardRec /\ g.pc \in {"pinned", "loaded"} /\ g.page = p
        /\ g.pc = "loaded" => g.data \subseteq 1..Len(wal)
    BY <1>1, <1>6, <2>1, <2>3 DEF GuardRec
  <2> HIDE DEF g
  <2>5. guard'[t] = g
    BY <2>2, <1>5
  <2>6. TakesFree(t)
    BY <2>4, <2>5 DEF TakesFree, Latches, HoldsPage, HoldsNew
  <2>7. Placed(t)'
    BY <1>2, <2>1, <2>4, <2>5 DEF Placed, HoldsNew, Known, Recs
  <2> QED  BY <1>1, <1>2, <2>1, <2>2, <2>4, <2>6, <2>7, GuardImage
<1>7. ASSUME NoVictim(t) \/ DropGuard(t) PROVE ImageInv'
  <2>1. Move(t, IdleGuard) /\ guard'[t] = IdleGuard
        /\ guard[t].pc \in {"loaded", "newroom", "pinned", "writing"}
    BY <1>5, <1>7 DEF NoVictim, DropGuard
  <2>2. IdleGuard.pc = "idle"
    BY DEF IdleGuard
  <2>3. TakesFree(t) /\ Placed(t)'
    BY <2>1, <2>2 DEF TakesFree, Latches, HoldsPage, HoldsNew, Placed
  <2> QED  BY <1>1, <1>2, <1>4, <2>1, <2>2, <2>3, GuardImage
<1>8. ASSUME NEW c \in {"latched", "writing", "newroom", "filling"},
             Move(t, [guard[t] EXCEPT !.pc = c]), mode = "up",
             guard[t].pc \notin {"logged", "newlogged"},
             c = "latched" => ~ latched(guard[t].page),
             c \in {"writing", "newroom"} => guard[t].pc \in HoldsPage \/ guard[t].page = NoPage,
             c # "newroom" => guard[t].pc # "idle",
             c = "filling" => guard[t].pc = "newfence"
      PROVE  ImageInv'
  <2> DEFINE g == [guard[t] EXCEPT !.pc = c]
  <2>1. g \in GuardRec /\ g.pc = c /\ g.page = guard[t].page /\ g.new = guard[t].new
    BY <1>1 DEF GuardRec, HoldsPage
  <2>2. guard'[t] = g /\ Move(t, g)
    BY <1>5, <1>8
  <2> HIDE DEF g
  <2>3. guard[t].pc = "idle" => guard[t].page = NoPage
    BY <1>1 DEF Holding
  <2>4. TakesFree(t)
    <3>1. ASSUME NEW q \in Pages, Latches(t, q)', ~ Latches(t, q), NEW u \in Threads, Latches(u, q)
          PROVE  FALSE
      <4>1. c = "filling" => g.new # q
        BY <1>8, <2>1, <3>1 DEF Latches, HoldsPage, HoldsNew
      <4>2. q = guard[t].page /\ c # "filling"
        BY <1>8, <2>1, <2>2, <3>1, <4>1 DEF Latches, HoldsPage, HoldsNew
      <4>3. c = "latched"
        BY <1>8, <2>1, <3>1, <4>2, PoolAssumption DEF Latches
      <4>4. latched(q)
        BY <3>1 DEF latched, Latches
      <4> QED  BY <1>8, <4>2, <4>3, <4>4
    <3> QED  BY <3>1 DEF TakesFree
  <2>5. Placed(t)'
    BY <1>1, <1>2, <1>8, <2>1, <2>2, <2>3 DEF Placed, HoldsNew, Known, Recs
  <2> QED  BY <1>1, <1>2, <1>8, <2>1, <2>2, <2>4, <2>5, GuardImage
<1>9. ASSUME TakeLatch(t) \/ TakeShare(t) \/ Extend(t) \/ SplitNode(t) \/ NewShare(t)
      PROVE  ImageInv'
  <2>1. guard[t].pc = "idle" => guard[t].page = NoPage
    BY <1>1 DEF Holding
  <2>2. CASE TakeLatch(t)
    BY <1>4, <1>8, <2>2 DEF TakeLatch
  <2>3. CASE TakeShare(t)
    BY <1>4, <1>8, <2>3 DEF TakeShare, HoldsPage
  <2>4. CASE Extend(t)
    BY <1>4, <1>8, <2>1, <2>4 DEF Extend
  <2>5. CASE SplitNode(t)
    BY <1>4, <1>8, <2>5 DEF SplitNode, HoldsPage
  <2>6. CASE NewShare(t)
    BY <1>4, <1>8, <2>6 DEF NewShare
  <2> QED  BY <1>9, <2>2, <2>3, <2>4, <2>5, <2>6
<1> QED  BY <1>6, <1>7, <1>9

-----------------------------------------------------------------------------
(* A thread at one page.                                                   *)

LEMMA OnPage ==
  ASSUME ImageInv, PoolInv', NEW t \in Threads, Others(t), NEW p \in Pages,
         \A q \in Pages \ {p} : frames'[q] = frames[q],
         UNCHANGED <<flushed_lsn, control, disk, ckpt, mode, cursor>>, mode = "up",
         LogGrows(t), \A q \in Pages \ {p} : Recs(q)' = Recs(q),
         \A q \in Pages \ {p} : \A i : ~ PendingAt(t, q, i) /\ ~ PendingAt(t, q, i)',
         TakesFree(t), Placed(t)', LogContents', PageInv(p)'
  PROVE  ImageInv'
<1>1. LogTypes /\ LogTypes'
  BY DEF ImageInv, PoolInv, Types
<1>2. ThreadInv'
  BY <1>1, ThreadMoves
<1>3. ASSUME NEW q \in Pages \ {p} PROVE PageInv(q)'
  <2>1. \A i : Pending(q, i)' <=> Pending(q, i)
    BY <1>3, PendingElse
  <2>2. \A i \in Recs(q) : i \in 1..Len(wal)
    BY DEF Recs
  <2>3. SameRecords(q)
    BY <1>1, <1>3, <2>1, <2>2 DEF SameRecords, LogGrows, LogTypes
  <2>4. Calm(q)
    BY <1>3, <2>3 DEF Calm, SameCkpt, Copied
  <2> QED  BY <1>1, <2>4, CalmPage
<1> QED  BY <1>2, <1>3 DEF ImageInv

\* The page comes into the pool.
LEMMA PageArrives ==
  ASSUME ImageInv, LogTypes', NEW p \in Pages, mode = "up", ~ frames[p].resident,
         NEW data \in SUBSET (1..Len(wal)), NEW fpi \in BOOLEAN, ~ fpi => ~ Known(p),
         frames'[p] = Frame(data, fpi),
         \A i : Pending(p, i)' <=> Pending(p, i),
         UNCHANGED <<wal, flushed_lsn, control, disk, ckpt, mode, cursor>>
  PROVE  PageInv(p)'
<1>1. PageInv(p) /\ LogTypes
  BY DEF ImageInv, PoolInv, Types
<1>2. SameRecords(p)
  BY <1>1 DEF SameRecords, LogTypes, Recs
<1>3. /\ Settled(p)' = Settled(p) /\ (Known(p)' <=> Known(p)) /\ Recs(p)' = Recs(p)
      /\ \A a, b : ImageIn(p, a, b)' <=> ImageIn(p, a, b)
      /\ \A r : RedoPoint(r)' <=> RedoPoint(r)
  BY <1>1, <1>2, SameFacts DEF SameRecords, RedoPoint
<1>4. /\ frames'[p].resident /\ frames'[p].data = data /\ frames'[p].needs_fpi = fpi
      /\ frames'[p].rec_lsn = NoLsn /\ frames'[p].evict = "no" /\ frames'[p].flush = "no"
      /\ frames'[p].redirty = NoLsn
  BY DEF Frame
<1>5. \A i : ~ Pending(p, i)
  <2>1. \A u \in Threads : ~ Latches(u, p)
    BY LatchedFacts
  <2>2. ~ latched(p)
    BY <2>1 DEF latched, Latches
  <2> QED  BY <2>2, FreeFacts
<1>6. ~ Written(p) /\ ~ Captured(p) /\ ~ DirtyFrame(p)
  BY DEF Written, Captured, DirtyFrame
<1>7. ~ Written(p)' /\ ~ Captured(p)' /\ ~ DirtyFrame(p)' /\ (Copied(p)' <=> Copied(p))
  BY <1>4 DEF Written, Captured, DirtyFrame, Copied
<1>8. Contents(p)'
  BY <1>1, <1>4, <1>7 DEF PageInv, Contents
<1>9. Begins(p)'
  BY <1>1, <1>3 DEF PageInv, Begins
<1>10. Writes(p)'
  BY <1>1, <1>4, <1>6, <1>7 DEF PageInv, Writes
<1>11. Coverage(p)'
  BY <1>1, <1>3, <1>6, <1>7 DEF PageInv, Coverage, Running
<1>12. FirstImage(p)'
  BY <1>1, <1>3, <1>4, <1>5 DEF PageInv, FirstImage
<1>13. Torn(p)'
  BY <1>1, <1>3 DEF PageInv, Torn
<1>14. Redoing(p)'
  BY DEF Redoing
<1> QED  BY <1>8, <1>9, <1>10, <1>11, <1>12, <1>13, <1>14 DEF PageInv

LEMMA LogSame ==
  ASSUME LogContents, wal' = wal, mode' = "up"
  PROVE  LogContents'
BY DEF LogContents, Recs

LEMMA InsertLoadedImage ==
  ASSUME ImageInv, NEW t \in Threads, InsertLoaded(t)
  PROVE  ImageInv'
<1> DEFINE g == [guard[t] EXCEPT !.pc = "pinned", !.data = {}]
<1>1. /\ PoolInv /\ PoolInv' /\ Placed(t) /\ Holding(guard[t]) /\ guard[t] \in GuardRec
      /\ LogContents /\ mode = "up" /\ guard[t].pc = "loaded"
  <2>1. PoolInv /\ ThreadInv /\ LogContents
    BY DEF ImageInv
  <2> QED  BY <2>1, InsertLoadedStep, GuardFacts DEF ThreadInv, InsertLoaded
<1>2. /\ UNCHANGED <<wal, flushed_lsn, control, disk, ckpt, mode, cursor>> /\ Move(t, g)
  BY DEF InsertLoaded
<1>3. PICK p \in Pages : p = guard[t].page /\ Known(p) /\ guard[t].data \subseteq 1..Len(wal)
  BY <1>1, PoolAssumption DEF Holding, HoldsPage, HoldsNew, Placed
<1>4. g \in GuardRec /\ g.pc = "pinned" /\ g.page = p
  BY <1>1, <1>3 DEF GuardRec, Data
<1> HIDE DEF g
<1>5. guard'[t] = g /\ Others(t)
  BY <1>1, <1>2 DEF PoolInv, Types, ActorTypes, Move, Others
<1>6. TakesFree(t) /\ Placed(t)'
  <2>1. TakesFree(t)
    BY <1>4, <1>5 DEF TakesFree, Latches, HoldsPage, HoldsNew
  <2>2. Placed(t)'
    BY <1>2, <1>3, <1>4, <1>5 DEF Placed, HoldsNew, Known, Recs
  <2> QED  BY <2>1, <2>2
<1>7. CASE frames[p].resident
  <2>1. frames' = frames
    BY <1>3, <1>7 DEF InsertLoaded
  <2> QED  BY <1>1, <1>2, <1>4, <1>6, <2>1, GuardImage
<1>8. CASE ~ frames[p].resident
  <2>1. frames' = [frames EXCEPT ![p] = Frame(guard[t].data, TRUE)]
    BY <1>3, <1>8 DEF InsertLoaded
  <2>2. /\ frames'[p] = Frame(guard[t].data, TRUE)
        /\ \A q \in Pages \ {p} : frames'[q] = frames[q]
    BY <1>1, <1>3, <2>1 DEF PoolInv, Types, PageTypes
  <2>3. \A q, i : ~ PendingAt(t, q, i) /\ ~ PendingAt(t, q, i)'
    BY <1>1, <1>4, <1>5 DEF PendingAt
  <2>4. \A q, i : Pending(q, i)' <=> Pending(q, i)
    BY <1>5, <2>3, PendingElse
  <2>5. LogTypes' /\ LogContents' /\ LogGrows(t) /\ \A q \in Pages : Recs(q)' = Recs(q)
    <3>1. LogTypes' /\ Len(wal) <= Len(wal)
      BY <1>1 DEF PoolInv, Types, LogTypes
    <3> QED  BY <1>1, <1>2, <3>1, LogSame DEF LogGrows, Known, Recs
  <2>6. PageInv(p)'
    BY <1>1, <1>2, <1>3, <1>8, <2>2, <2>4, <2>5, PageArrives
  <2> QED  BY <1>1, <1>2, <1>3, <1>5, <1>6, <2>2, <2>3, <2>5, <2>6, OnPage
<1> QED  BY <1>7, <1>8

LEMMA NewPageImage ==
  ASSUME ImageInv, NEW t \in Threads, NEW p \in Pages, NewPage(t, p)
  PROVE  ImageInv'
<1> DEFINE g == [guard[t] EXCEPT !.pc = "newfence", !.new = p]
<1>1. /\ PoolInv /\ PoolInv' /\ Placed(t) /\ Holding(guard[t]) /\ guard[t] \in GuardRec
      /\ LogContents /\ mode = "up" /\ guard[t].pc = "newroom"
      /\ guard[t].page \in Pages \cup {NoPage}
  <2>1. PoolInv /\ ThreadInv /\ LogContents
    BY DEF ImageInv
  <2> QED  BY <2>1, NewPageStep, GuardFacts DEF ThreadInv, NewPage
<1>2. /\ UNCHANGED <<wal, flushed_lsn, control, disk, ckpt, mode, cursor>> /\ Move(t, g)
      /\ frames' = [frames EXCEPT ![p] = Frame({}, FALSE)] /\ ~ frames[p].resident
      /\ ~ Known(p)
  BY KnownFacts DEF NewPage
<1>3. g \in GuardRec /\ g.pc = "newfence" /\ g.page = guard[t].page /\ g.new = p
  BY <1>1 DEF GuardRec, HoldsPage
<1> HIDE DEF g
<1>4. guard'[t] = g /\ Others(t)
  BY <1>1, <1>2 DEF PoolInv, Types, ActorTypes, Move, Others
<1>5. TakesFree(t)
  <2>1. \A u \in Threads : ~ Latches(u, p)
    BY <1>2, LatchedFacts
  <2> QED  BY <1>1, <1>3, <1>4, <2>1 DEF TakesFree, Latches, HoldsPage, HoldsNew
<1>6. Placed(t)'
  <2>1. p # guard[t].page
    BY <1>1, <1>2, PoolAssumption DEF Placed
  <2> QED  BY <1>1, <1>2, <1>3, <1>4, <2>1 DEF Placed, HoldsNew, Known, Recs
<1>7. /\ frames'[p] = Frame({}, FALSE)
      /\ \A q \in Pages \ {p} : frames'[q] = frames[q]
  BY <1>1, <1>2 DEF PoolInv, Types, PageTypes
<1>8. \A q, i : ~ PendingAt(t, q, i) /\ ~ PendingAt(t, q, i)'
  BY <1>1, <1>3, <1>4 DEF PendingAt
<1>9. \A q, i : Pending(q, i)' <=> Pending(q, i)
  BY <1>4, <1>8, PendingElse
<1>10. LogTypes' /\ LogContents' /\ LogGrows(t) /\ \A q \in Pages : Recs(q)' = Recs(q)
  <2>1. LogTypes' /\ Len(wal) <= Len(wal)
    BY <1>1 DEF PoolInv, Types, LogTypes
  <2> QED  BY <1>1, <1>2, <2>1, LogSame DEF LogGrows, Known, Recs
<1>11. PageInv(p)'
  BY <1>1, <1>2, <1>7, <1>9, <1>10, PageArrives
<1> QED  BY <1>1, <1>2, <1>4, <1>5, <1>6, <1>7, <1>8, <1>10, <1>11, OnPage

\* A record of the page is appended and waits to be published.
LEMMA PageLogged ==
  ASSUME ImageInv, LogTypes', NEW p \in Pages, mode = "up", frames[p].resident,
         \A i : ~ Pending(p, i),
         NEW kind \in {"image", "delta"}, NEW data \in Data, Append1(p, kind, data),
         kind = "delta" => Known(p) /\ ~ frames[p].needs_fpi,
         \A i : Pending(p, i)' <=> i = Len(wal) + 1,
         frames'[p] = frames[p] \/ frames'[p] = [frames[p] EXCEPT !.needs_fpi = FALSE],
         UNCHANGED <<flushed_lsn, control, disk, ckpt, mode, cursor>>
  PROVE  PageInv(p)'
<1>0. PICK n : n = Len(wal) + 1
  OBVIOUS
<1>1. PageInv(p) /\ PoolInv /\ LogTypes /\ Len(wal) \in Nat /\ flushed_lsn \in Nat
  BY DEF ImageInv, PoolInv, Types, LogTypes
<1>2. /\ Recs(p)' = Recs(p) \cup {n} /\ n \notin Recs(p) /\ wal'[n].kind = kind
      /\ \A i \in Recs(p) : wal'[i] = wal[i]
  BY <1>0, <1>1, AppendOwn
<1>3. Len(wal') = n
  BY <1>0, <1>1 DEF Append1
<1>4. \A i \in Recs(p) : i \in Nat /\ i # 0 /\ i <= Len(wal) /\ i < n
  BY <1>0, <1>1, RecsFacts
<1>5. /\ frames'[p].resident /\ frames'[p].data = frames[p].data
      /\ frames'[p].rec_lsn = frames[p].rec_lsn /\ frames'[p].redirty = frames[p].redirty
      /\ frames'[p].evict = frames[p].evict /\ frames'[p].flush = frames[p].flush
  <2>1. frames[p] \in FrameRec
    BY <1>1, FrameFacts
  <2> QED  BY <2>1 DEF FrameRec
<1>6. frames[p].rec_lsn \in Int /\ frames[p].redirty \in Int
      /\ frames[p].rec_lsn < n /\ frames[p].redirty < n
  <2>1. frames[p].rec_lsn \in Lsns /\ frames[p].redirty \in Lsns /\ Starts(frames[p])
    BY <1>1, FrameFacts
  <2>2. \A x \in Lsns : x \in Int
    BY DEF Lsns, NoLsn
  <2>3. frames[p].rec_lsn \in Int /\ frames[p].redirty \in Int
    BY <2>1, <2>2
  <2> QED  BY <1>0, <1>1, <2>1, <2>3 DEF Starts, NoLsn
<1>7. Settled(p)' = Settled(p)
  BY <1>0, <1>2, <1>4 DEF Settled
<1>8. \A i : Image(p, i) => Image(p, i)'
  BY <1>2 DEF Image
<1>9. \A a, b : ImageIn(p, a, b) => ImageIn(p, a, b)'
  BY <1>2 DEF ImageIn
<1>10. \A r : RedoPoint(r)' <=> RedoPoint(r)
  BY DEF RedoPoint
<1>11. \A r : RedoPoint(r) => r \in Nat /\ r < n
  BY <1>0, <1>1, RedoPointFacts
<1>12. /\ Written(p)' <=> Written(p)
       /\ Captured(p)' <=> Captured(p)
       /\ DirtyFrame(p)' <=> DirtyFrame(p)
       /\ Copied(p)' <=> Copied(p)
  BY <1>5 DEF Written, Captured, DirtyFrame, Copied
<1>13. Contents(p)'
  <2>1. 1..Len(wal) \subseteq 1..Len(wal')
    BY <1>0, <1>1, <1>3
  <2> QED  BY <1>1, <1>5, <1>12, <2>1 DEF PageInv, Contents
<1>14. Begins(p)'
  <2>1. ASSUME p \notin OldPages PROVE ImageIn(p, 0, n)'
    <3>1. CASE Known(p)
      <4>1. PICK j \in Recs(p) : ImageIn(p, 0, j)
        BY <1>1, <2>1, <3>1 DEF PageInv, Begins, Known
      <4>2. PICK k \in Recs(p) : 0 < k /\ k <= j /\ wal[k].kind = "image"
        BY <4>1 DEF ImageIn
      <4>3. k \in Recs(p)' /\ 0 < k /\ k <= n /\ wal'[k].kind = "image"
        BY <1>0, <1>1, <4>2, <1>2, <1>4
      <4> QED  BY <4>3 DEF ImageIn
    <3>2. CASE ~ Known(p)
      <4>1. n \in Recs(p)' /\ 0 < n /\ n <= n /\ wal'[n].kind = "image"
        BY <1>0, <1>1, <1>2, <3>2
      <4> QED  BY <4>1 DEF ImageIn
    <3> QED  BY <3>1, <3>2
  <2>2. ASSUME p \notin OldPages, NEW i \in Recs(p) PROVE ImageIn(p, 0, i)'
    BY <1>1, <1>9, <2>2 DEF PageInv, Begins
  <2> QED  BY <1>2, <2>1, <2>2 DEF Begins
<1>15. Writes(p)'
  BY <1>1, <1>5, <1>12 DEF PageInv, Writes
<1>16. Coverage(p)'
  <2>1. \A i \in Recs(p)', r \in Nat : RedoPoint(r) /\ i <= r => i \in Recs(p)
    BY <1>0, <1>1, <1>2, <1>11
  <2> QED  BY <1>1, <1>5, <1>7, <1>10, <1>12, <2>1 DEF PageInv, Coverage, Running
<1>17. FirstImage(p)'
  <2>1. mode = "up" /\ frames[p].resident =>
          /\ frames[p].rec_lsn # NoLsn => Image(p, frames[p].rec_lsn + 1)
          /\ frames[p].redirty # NoLsn =>
               Image(p, frames[p].redirty + 1) /\ frames[p].rec_lsn <= frames[p].redirty
    BY <1>1 DEF PageInv, FirstImage
  <2>2. Pending(p, n)' /\ n \in Recs(p)'
    BY <1>0, <1>2
  <2>3. ASSUME NEW i \in Nat, Pending(p, i)'
        PROVE  /\ i \in Recs(p)' /\ (\A j \in Recs(p)' : j <= i)
               /\ frames'[p].rec_lsn < i /\ frames'[p].redirty < i
               /\ wal'[i].kind # "image" =>
                    frames'[p].rec_lsn # NoLsn
                      /\ (frames'[p].flush = "captured" => frames'[p].redirty # NoLsn)
    <3>1. i = n
      BY <1>0, <2>3
    <3>2. \A j \in Recs(p)' : j <= n
      BY <1>0, <1>1, <1>2, <1>4
    <3>3. wal'[n].kind # "image" =>
            frames[p].rec_lsn # NoLsn /\ (frames[p].flush = "captured" => frames[p].redirty # NoLsn)
      BY <1>1, <1>2 DEF PageInv, FirstImage
    <3> QED  BY <1>2, <1>5, <1>6, <3>1, <3>2, <3>3
  <2> QED  BY <1>5, <1>8, <2>1, <2>2, <2>3 DEF FirstImage
<1>18. Torn(p)'
  <2>1. ASSUME NEW r \in Nat, RedoPoint(r), disk[p].cached = NoImage
        PROVE  ImageIn(p, r, flushed_lsn)' \/ (p \notin OldPages /\ \A i \in Recs(p)' : r < i)
    <3>1. p \notin OldPages
      BY <1>1, <2>1 DEF PageInv, Torn
    <3>2. ImageIn(p, r, flushed_lsn) \/ (\A i \in Recs(p) : r < i)
      BY <1>1, <2>1 DEF PageInv, Torn, Known
    <3>3. ImageIn(p, r, flushed_lsn) => ImageIn(p, r, flushed_lsn)'
      BY <1>9
    <3> QED  BY <1>2, <1>11, <2>1, <3>1, <3>2, <3>3
  <2>2. \A a : ImageIn(p, a, flushed_lsn) => ImageIn(p, a, flushed_lsn)'
    BY <1>9
  <2> QED  BY <1>1, <1>10, <2>1, <2>2 DEF PageInv, Torn
<1>19. Redoing(p)'
  BY DEF Redoing
<1> QED  BY <1>13, <1>14, <1>15, <1>16, <1>17, <1>18, <1>19 DEF PageInv

\* A thread appends a record of a page it has latched.
LEMMA LogImage ==
  ASSUME ImageInv, PoolInv', NEW t \in Threads, NEW p \in Pages, Latches(t, p),
         NEW g \in GuardRec, Move(t, g), guard[t].pc \notin {"logged", "newlogged"},
         g.page = guard[t].page, g.new = guard[t].new, g.lsn = Len(wal) + 1,
         NEW kind \in {"image", "delta"}, NEW data \in SUBSET (1..Len(wal) + 1),
         Len(wal) + 1 \in data, Append1(p, kind, data),
         \/ g.pc = "logged" /\ g.page = p
         \/ g.pc = "newlogged" /\ g.new = p /\ guard[t].pc = "filling" /\ kind = "image",
         kind = "delta" => Known(p) /\ ~ frames[p].needs_fpi,
         \A q \in Pages \ {p} : frames'[q] = frames[q],
         frames'[p] = frames[p] \/ frames'[p] = [frames[p] EXCEPT !.needs_fpi = FALSE],
         UNCHANGED <<flushed_lsn, control, disk, ckpt, mode, cursor>>
  PROVE  ImageInv'
<1>0. PICK n : n = Len(wal) + 1
  OBVIOUS
<1>1. /\ PoolInv /\ LogTypes /\ LogTypes' /\ LogContents /\ Placed(t) /\ guard[t] \in GuardRec
      /\ Len(wal) \in Nat /\ guard[t].page \in Pages \cup {NoPage}
  <2>1. PoolInv /\ Placed(t) /\ LogContents
    BY DEF ImageInv, ThreadInv
  <2> QED  BY <2>1, GuardFacts DEF PoolInv, Types, LogTypes
<1>2. data \in Data /\ n \in Nat /\ n \in data /\ data \subseteq 1..n
  <2>1. 1..Len(wal) + 1 \subseteq Nat
    BY <1>1
  <2> QED  BY <1>0, <1>1, <2>1 DEF Data
<1>3. guard'[t] = g /\ Others(t)
  BY <1>1 DEF PoolInv, Types, ActorTypes, Move, Others
<1>4. /\ mode = "up" /\ frames[p].resident
      /\ \A u \in Threads : Latches(u, p) => u = t
      /\ \A i : ~ Pending(p, i)
  <2>1. \A i : ~ PendingAt(t, p, i)
    BY DEF PendingAt
  <2> QED  BY <2>1, LatchedFacts
<1>5. \A i : Pending(p, i)' <=> i = n
  <2>1. \A i : PendingAt(t, p, i)' <=> i = n
    BY <1>0, <1>3 DEF PendingAt
  <2>2. ASSUME NEW u \in Threads, u # t, NEW i PROVE ~ PendingAt(u, p, i)'
    <3>1. ~ PendingAt(u, p, i)
      BY <1>4 DEF Pending
    <3> QED  BY <1>3, <2>2, <3>1 DEF Others, PendingAt
  <2> QED  BY <2>1, <2>2 DEF Pending
<1>6. \A q \in Pages \ {p} : \A i : ~ PendingAt(t, q, i) /\ ~ PendingAt(t, q, i)'
  BY <1>3 DEF PendingAt
<1>7. /\ Recs(p)' = Recs(p) \cup {n} /\ wal'[n].kind = kind /\ wal'[n].image = data
      /\ \A i \in Recs(p) : wal'[i] = wal[i]
  BY <1>0, <1>1, <1>2, AppendOwn
<1>8. \A q \in Pages \ {p} : Recs(q)' = Recs(q) /\ \A i \in Recs(q) : wal'[i] = wal[i]
  BY <1>1, <1>2, AppendOther
<1>9. LogGrows(t)
  <2>1. Len(wal') = Len(wal) + 1 /\ \A i \in 1..Len(wal) : wal'[i] = wal[i]
    <3>1. p \in Pages \cup {NoPage} /\ kind \in {"image", "delta", "marker"}
      OBVIOUS
    <3> QED  BY <1>1, <1>2, <3>1, AppendFacts
  <2>2. Len(wal) <= Len(wal')
    BY <1>1, <2>1
  <2>3. \A q \in Pages : /\ Known(q) => Known(q)'
                         /\ Known(q)' => Known(q) \/ q = p
    BY <1>7, <1>8 DEF Known
  <2> QED  BY <2>1, <2>2, <2>3 DEF LogGrows
<1>10. TakesFree(t)
  BY <1>3 DEF TakesFree, Latches, HoldsPage, HoldsNew
<1>11. Placed(t)'
  <2>1. Known(p)'
    BY <1>7 DEF Known
  <2>2. guard[t].pc = "filling" /\ guard[t].page # NoPage => Known(guard[t].page)
    BY <1>1 DEF Placed
  <2>3. PICK pg \in Pages \cup {NoPage} : pg = guard[t].page
    BY <1>1
  <2>4. g.pc = "newlogged" /\ pg # NoPage => Known(pg)'
    BY <1>9, <2>2, <2>3 DEF LogGrows
  <2>5. guard'[t].page # NoPage => Known(guard[t].page)'
    BY <1>3, <2>1, <2>3, <2>4 DEF Known, Recs
  <2>6. g.pc = "newlogged" => g.new # g.page /\ wal'[g.lsn].kind = "image"
    BY <1>0, <1>1, <1>7 DEF Placed, HoldsNew
  <2> QED  BY <1>3, <2>5, <2>6 DEF Placed, HoldsNew
<1>12. LogContents'
  <2>1. ASSUME NEW q \in Pages, NEW i \in Recs(q)'
        PROVE  wal'[i].image \subseteq 1..i /\ i \in wal'[i].image /\ wal'[i].kind # "marker"
    BY <1>1, <1>2, <1>7, <1>8 DEF LogContents
  <2> QED  BY <1>4, <2>1 DEF LogContents
<1>13. PageInv(p)'
  BY <1>0, <1>1, <1>2, <1>4, <1>5, PageLogged
<1> QED  BY <1>3, <1>4, <1>6, <1>8, <1>9, <1>10, <1>11, <1>12, <1>13, OnPage

LEMMA LogChangeImage ==
  ASSUME ImageInv, NEW t \in Threads, LogChange(t)
  PROVE  ImageInv'
<1> DEFINE g == [guard[t] EXCEPT !.pc = "logged", !.lsn = Len(wal) + 1]
<1>1. /\ PoolInv /\ PoolInv' /\ Placed(t) /\ Holding(guard[t]) /\ guard[t] \in GuardRec
      /\ guard[t].pc \in {"writing", "inserting"} /\ Len(wal) \in Nat
  <2>1. PoolInv /\ Placed(t)
    BY DEF ImageInv, ThreadInv
  <2> QED  BY <2>1, LogChangeStep, GuardFacts, EndKept DEF LogChange
<1>2. PICK p \in Pages : p = guard[t].page /\ Known(p) /\ Latches(t, p)
  BY <1>1, PoolAssumption DEF Holding, HoldsPage, HoldsNew, Placed, Latches
<1>3. g \in GuardRec /\ g.pc = "logged" /\ g.page = p /\ g.new = guard[t].new /\ g.lsn = Len(wal) + 1
  <2>1. Len(wal) + 1 \in Lsns
    BY <1>1 DEF Lsns
  <2> QED  BY <1>1, <1>2, <2>1 DEF GuardRec, HoldsPage
<1> DEFINE data == frames[p].data \cup {Len(wal) + 1}
<1>4. data \in SUBSET (1..Len(wal) + 1) /\ Len(wal) + 1 \in data
  <2>1. frames[p].data \subseteq 1..Len(wal)
    BY <1>2, LatchedFacts DEF ImageInv, PageInv, Contents
  <2>2. 1..Len(wal) \subseteq 1..Len(wal) + 1 /\ Len(wal) + 1 \in 1..Len(wal) + 1
    BY <1>1
  <2> QED  BY <2>1, <2>2
<1>5. /\ Move(t, g) /\ UNCHANGED <<flushed_lsn, control, disk, ckpt, mode, cursor>>
      /\ frames' = [frames EXCEPT ![p].needs_fpi = FALSE] \/ frames' = frames
  BY <1>2 DEF LogChange
<1>6. PICK kind \in {"image", "delta"} : Append1(p, kind, data)
                                         /\ (kind = "delta" => ~ frames[p].needs_fpi)
  BY <1>2 DEF LogChange
<1>7. /\ \A q \in Pages \ {p} : frames'[q] = frames[q]
      /\ frames'[p] = frames[p] \/ frames'[p] = [frames[p] EXCEPT !.needs_fpi = FALSE]
  BY <1>1, <1>5 DEF PoolInv, Types, PageTypes
<1> HIDE DEF g, data
<1> QED  BY <1>1, <1>2, <1>3, <1>4, <1>5, <1>6, <1>7, LogImage

LEMMA FillImages ==
  ASSUME ImageInv, NEW t \in Threads, FillNewPage(t) \/ FillLeftNode(t)
  PROVE  ImageInv'
<1>1. /\ PoolInv /\ PoolInv' /\ Holding(guard[t]) /\ guard[t] \in GuardRec
      /\ Len(wal) \in Nat /\ Len(wal) + 1 \in Lsns
  <2>1. PoolInv
    BY DEF ImageInv
  <2> QED  BY <2>1, FillSteps, GuardFacts, EndKept DEF Lsns
<1>2. UNCHANGED <<flushed_lsn, control, disk, frames, ckpt, mode, cursor>>
  BY DEF FillNewPage, FillLeftNode
<1>3. CASE FillNewPage(t)
  <2> DEFINE g == [guard[t] EXCEPT !.pc = "newlogged", !.lsn = Len(wal) + 1]
  <2>1. guard[t].pc = "filling" /\ Move(t, g)
    BY <1>3 DEF FillNewPage
  <2>2. PICK p \in Pages : p = guard[t].new /\ Latches(t, p)
    BY <1>1, <2>1 DEF Holding, HoldsNew, Latches
  <2>3. g \in GuardRec /\ g.pc = "newlogged" /\ g.page = guard[t].page /\ g.new = p /\ g.lsn = Len(wal) + 1
    BY <1>1, <2>2 DEF GuardRec, HoldsPage
  <2>4. Append1(p, "image", {Len(wal) + 1})
    BY <1>3, <2>2 DEF FillNewPage
  <2>5. {Len(wal) + 1} \in SUBSET (1..Len(wal) + 1)
    BY <1>1
  <2> HIDE DEF g
  <2> QED  BY <1>1, <1>2, <2>1, <2>2, <2>3, <2>4, <2>5, LogImage
<1>4. CASE FillLeftNode(t)
  <2> DEFINE g == [guard[t] EXCEPT !.pc = "logged", !.lsn = Len(wal) + 1]
  <2>1. guard[t].pc = "leftover" /\ Move(t, g)
    BY <1>4 DEF FillLeftNode
  <2>2. PICK p \in Pages : p = guard[t].page /\ Latches(t, p)
    BY <1>1, <2>1, PoolAssumption DEF Holding, HoldsPage, HoldsNew, Latches
  <2>3. g \in GuardRec /\ g.pc = "logged" /\ g.page = p /\ g.new = guard[t].new /\ g.lsn = Len(wal) + 1
    BY <1>1, <2>2 DEF GuardRec, HoldsPage
  <2> DEFINE data == frames[p].data \cup {Len(wal) + 1}
  <2>4. data \in SUBSET (1..Len(wal) + 1) /\ Len(wal) + 1 \in data
    <3>1. frames[p].data \subseteq 1..Len(wal)
      BY <2>2, LatchedFacts DEF ImageInv, PageInv, Contents
    <3>2. 1..Len(wal) \subseteq 1..Len(wal) + 1 /\ Len(wal) + 1 \in 1..Len(wal) + 1
      BY <1>1
    <3> QED  BY <3>1, <3>2
  <2>5. Append1(p, "image", data)
    BY <1>4, <2>2 DEF FillLeftNode
  <2> HIDE DEF g, data
  <2> QED  BY <1>1, <1>2, <2>1, <2>2, <2>3, <2>4, <2>5, LogImage
<1> QED  BY <1>3, <1>4

\* The record is published.
LEMMA PagePublished ==
  ASSUME ImageInv, LogTypes', NEW t \in Threads, NEW p \in Pages, Latches(t, p),
         NEW lsn, PendingAt(t, p, lsn), \A i : ~ Pending(p, i)',
         frames'[p] = publish_mutation(frames[p], lsn, wal[lsn].image),
         UNCHANGED <<wal, flushed_lsn, control, disk, ckpt, mode, cursor>>
  PROVE  PageInv(p)'
<1>1. /\ PageInv(p) /\ PoolInv /\ LogContents /\ LogTypes /\ Len(wal) \in Nat
      /\ Holding(guard[t])
  BY GuardFacts DEF ImageInv, PoolInv, Types, LogTypes
<1>2. /\ mode = "up" /\ frames[p].resident /\ frames[p].evict = "no"
      /\ \A i : Pending(p, i) <=> i = lsn
  BY LatchedFacts DEF PendingAt
<1>3. lsn \in 1..Len(wal) /\ lsn \in Nat \ {0}
  BY <1>1 DEF Holding, PendingAt
<1>4. /\ lsn \in Recs(p) /\ (\A j \in Recs(p) : j <= lsn)
      /\ frames[p].rec_lsn < lsn /\ frames[p].redirty < lsn
      /\ wal[lsn].kind # "image" =>
           frames[p].rec_lsn # NoLsn
             /\ (frames[p].flush = "captured" => frames[p].redirty # NoLsn)
  BY <1>1, <1>2, <1>3 DEF PageInv, FirstImage
<1>5. wal[lsn].image \subseteq 1..lsn /\ lsn \in wal[lsn].image
  BY <1>1, <1>4 DEF LogContents
<1>6. wal[lsn].image \subseteq 1..Len(wal) /\ wal[lsn].image \in Data
  <2>1. 1..lsn \subseteq 1..Len(wal) /\ 1..lsn \subseteq Nat
    BY <1>1, <1>3
  <2> QED  BY <1>5, <2>1 DEF Data
<1>7. /\ frames[p] \in FrameRec /\ Starts(frames[p])
      /\ frames[p].rec_lsn \in Int /\ frames[p].redirty \in Int
  <2>1. /\ frames[p] \in FrameRec /\ Starts(frames[p])
        /\ frames[p].rec_lsn \in Lsns /\ frames[p].redirty \in Lsns
    BY <1>1, <1>2, FrameFacts
  <2>2. \A x \in Lsns : x \in Int
    BY DEF Lsns, NoLsn
  <2> QED  BY <2>1, <2>2
<1>8. /\ frames'[p].resident /\ frames'[p].data = wal[lsn].image
      /\ frames'[p].evict = "no" /\ frames'[p].flush = frames[p].flush
      /\ frames'[p].needs_fpi = frames[p].needs_fpi
      /\ frames'[p].rec_lsn = IF frames[p].rec_lsn = NoLsn THEN lsn - 1 ELSE frames[p].rec_lsn
      /\ frames'[p].redirty = IF frames[p].flush = "captured" /\ frames[p].redirty = NoLsn
                                THEN lsn - 1 ELSE frames[p].redirty
  BY <1>2, <1>3, <1>6, <1>7, PublishFacts
<1>9. /\ Recs(p)' = Recs(p) /\ Settled(p)' = Recs(p) /\ Settled(p) = Recs(p) \ {lsn}
      /\ (Known(p)' <=> Known(p)) /\ \A i \in Recs(p) : i \in Nat
  BY <1>1, <1>2, RecsFacts DEF Settled, Known, Recs
<1>10. /\ \A i : Image(p, i)' <=> Image(p, i)
       /\ \A a, b : ImageIn(p, a, b)' <=> ImageIn(p, a, b)
       /\ \A a : ImageIn(p, a, flushed_lsn)' <=> ImageIn(p, a, flushed_lsn)
       /\ \A r : RedoPoint(r)' <=> RedoPoint(r)
  BY DEF Image, ImageIn, RedoPoint, Recs
<1>11. /\ ~ Written(p)' /\ DirtyFrame(p)' /\ (Captured(p)' <=> Captured(p))
       /\ (Copied(p)' <=> Copied(p)) /\ ~ Written(p)
  BY <1>2, <1>3, <1>8 DEF Written, DirtyFrame, Captured, Copied, NoLsn
<1>12. \A i \in Recs(p) : Covers(wal[lsn].image, i)
  BY <1>3, <1>4, <1>5, <1>9, CoversFacts
<1>13. Contents(p)'
  BY <1>1, <1>6, <1>8, <1>11 DEF PageInv, Contents
<1>14. Begins(p)'
  BY <1>1, <1>9, <1>10 DEF PageInv, Begins
<1>15. Writes(p)'
  BY <1>1, <1>8, <1>11 DEF PageInv, Writes
<1>16. /\ frames'[p].rec_lsn < lsn
       /\ Captured(p) => frames'[p].redirty # NoLsn /\ frames'[p].redirty < lsn
       /\ frames[p].rec_lsn # NoLsn => frames'[p].rec_lsn = frames[p].rec_lsn
       /\ frames[p].redirty # NoLsn => frames'[p].redirty = frames[p].redirty
  BY <1>3, <1>4, <1>7, <1>8 DEF Captured, NoLsn
<1>17. Coverage(p)'
  <2>1. ASSUME NEW i \in Recs(p)
        PROVE  \/ Covers(disk[p].stable, i)
               \/ frames'[p].rec_lsn < i
    <3>1. CASE i = lsn
      BY <1>16, <3>1
    <3>2. CASE i # lsn
      <4>1. i \in Settled(p)
        BY <1>9, <3>2
      <4>2. Covers(disk[p].stable, i) \/ (DirtyFrame(p) /\ frames[p].rec_lsn < i)
        BY <1>1, <1>2, <4>1 DEF PageInv, Coverage, Running
      <4> QED  BY <4>2, <1>16 DEF DirtyFrame
    <3> QED  BY <3>1, <3>2
  <2>2. ASSUME Captured(p), NEW i \in Recs(p)
        PROVE  \/ Covers(ckpt.image[p], i)
               \/ frames'[p].redirty # NoLsn /\ frames'[p].redirty < i
    <3>1. CASE i = lsn
      BY <1>16, <2>2, <3>1
    <3>2. CASE i # lsn
      <4>1. i \in Settled(p)
        BY <1>9, <3>2
      <4> QED  BY <4>1, <1>1, <1>16, <2>2 DEF PageInv, Coverage
    <3> QED  BY <3>1, <3>2
  <2> QED  BY <1>1, <1>8, <1>9, <1>10, <1>11, <1>12, <2>1, <2>2 DEF PageInv, Coverage, Running
<1>18. FirstImage(p)'
  <2>1. frames[p].rec_lsn = NoLsn => Image(p, lsn)
    BY <1>4 DEF Image
  <2>2. frames[p].flush = "captured" /\ frames[p].redirty = NoLsn => Image(p, lsn)
    BY <1>4 DEF Image
  <2>3. /\ frames[p].rec_lsn # NoLsn => Image(p, frames[p].rec_lsn + 1)
        /\ frames[p].redirty # NoLsn =>
             Image(p, frames[p].redirty + 1) /\ frames[p].rec_lsn <= frames[p].redirty
    BY <1>1, <1>2 DEF PageInv, FirstImage
  <2>4. lsn - 1 + 1 = lsn
    BY <1>3
  <2>5. Image(p, frames'[p].rec_lsn + 1)
    BY <1>8, <2>1, <2>3, <2>4
  <2>6. frames'[p].redirty # NoLsn => Image(p, frames'[p].redirty + 1)
    BY <1>8, <2>2, <2>3, <2>4
  <2>7. frames'[p].redirty # NoLsn => frames'[p].rec_lsn <= frames'[p].redirty
    <3>1. frames[p].flush = "captured" => frames[p].rec_lsn # NoLsn
      BY <1>7 DEF Starts, Flushing
    <3>2. frames[p].redirty # NoLsn => frames[p].flush = "captured"
      BY <1>7 DEF Starts, Flushing
    <3> QED  BY <1>3, <1>4, <1>7, <1>8, <2>3, <3>1, <3>2
  <2>8. frames'[p].flush = "captured" => frames'[p].redirty # NoLsn
    BY <1>3, <1>8 DEF NoLsn
  <2>9. frames'[p].rec_lsn # NoLsn
    BY <1>3, <1>8 DEF NoLsn
  <2>10. PICK a, b : a = frames'[p].rec_lsn + 1 /\ b = frames'[p].redirty + 1
    OBVIOUS
  <2>11. Image(p, a)' /\ (frames'[p].redirty # NoLsn => Image(p, b)')
    BY <1>10, <2>5, <2>6, <2>10
  <2>12. Image(p, frames[p].rec_lsn + 1)'
         /\ (frames'[p].redirty # NoLsn => Image(p, frames[p].redirty + 1)')
    BY <2>10, <2>11 DEF Image
  <2> QED  BY <2>7, <2>8, <2>9, <2>12 DEF FirstImage
<1>19. Torn(p)'
  BY <1>1, <1>9, <1>10 DEF PageInv, Torn
<1>20. Redoing(p)'
  BY <1>2 DEF Redoing
<1> QED  BY <1>13, <1>14, <1>15, <1>17, <1>18, <1>19, <1>20 DEF PageInv

LEMMA PublishImages ==
  ASSUME ImageInv, NEW t \in Threads, Publish(t) \/ PublishNew(t)
  PROVE  ImageInv'
<1>1. /\ PoolInv /\ PoolInv' /\ Placed(t) /\ Holding(guard[t]) /\ guard[t] \in GuardRec
      /\ LogContents /\ guard[t].page \in Pages \cup {NoPage}
  <2>1. PoolInv /\ Placed(t) /\ LogContents
    BY DEF ImageInv, ThreadInv
  <2> QED  BY <2>1, PublishStep, PublishNewStep, GuardFacts
<1>2. UNCHANGED <<wal, flushed_lsn, control, disk, ckpt, mode, cursor>>
  BY DEF Publish, PublishNew
<1>3. PICK lsn : lsn = guard[t].lsn
  OBVIOUS
<1>4. PICK p \in Pages :
        /\ Latches(t, p) /\ PendingAt(t, p, lsn)
        /\ frames' = [frames EXCEPT ![p] = publish_mutation(frames[p], lsn, wal[lsn].image)]
        /\ Publish(t) => p = guard[t].page
        /\ PublishNew(t) => p = guard[t].new
  <2>1. CASE Publish(t)
    <3>1. /\ guard[t].pc = "logged" /\ guard[t].page \in Pages
      BY <1>1, <2>1, PoolAssumption DEF Publish, Holding, HoldsPage, HoldsNew
    <3> QED  BY <1>3, <2>1, <3>1 DEF Publish, PublishNew, PendingAt, Latches, HoldsPage
  <2>2. CASE PublishNew(t)
    <3>1. /\ guard[t].pc = "newlogged" /\ guard[t].new \in Pages
      BY <1>1, <2>2 DEF PublishNew, Holding, HoldsPage, HoldsNew
    <3> QED  BY <1>3, <2>2, <3>1 DEF Publish, PublishNew, PendingAt, Latches, HoldsNew
  <2> QED  BY <2>1, <2>2
<1>5. PICK g \in GuardRec :
        /\ Move(t, g) /\ g.pc \in {"idle", "inserting", "leftover"}
        /\ g.pc # "idle" => g.page = IF guard[t].page = NoPage THEN p ELSE guard[t].page
        /\ g.pc # "idle" => guard[t].pc = "newlogged"
  <2>1. CASE Publish(t)
    BY <1>1, <2>1, GuardFacts DEF Publish, IdleGuard
  <2>2. CASE PublishNew(t)
    <3> DEFINE g == IF guard[t].page = NoPage
                      THEN [guard[t] EXCEPT !.pc = "inserting", !.page = p, !.new = NoPage]
                      ELSE [guard[t] EXCEPT !.pc = "leftover", !.new = NoPage]
    <3>1. Move(t, g) /\ guard[t].pc = "newlogged"
      BY <1>4, <2>2 DEF PublishNew
    <3>2. /\ g \in GuardRec /\ g.pc \in {"inserting", "leftover"}
          /\ g.page = IF guard[t].page = NoPage THEN p ELSE guard[t].page
      BY <1>1 DEF GuardRec, HoldsPage
    <3> HIDE DEF g
    <3> QED  BY <3>1, <3>2
  <2> QED  BY <2>1, <2>2
<1>6. guard'[t] = g /\ Others(t)
  BY <1>1, <1>5 DEF PoolInv, Types, ActorTypes, Move, Others
<1>7. /\ frames'[p] = publish_mutation(frames[p], lsn, wal[lsn].image)
      /\ \A q \in Pages \ {p} : frames'[q] = frames[q]
  BY <1>1, <1>4 DEF PoolInv, Types, PageTypes
<1>8. mode = "up" /\ lsn \in 1..Len(wal)
  BY <1>1, <1>3, <1>4, LatchedFacts DEF Holding, PendingAt
<1>9. Known(p)
  <2>1. lsn \in Recs(p)
    BY <1>4, <1>8, <1>1 DEF ImageInv, PageInv, FirstImage, Pending
  <2> QED  BY <2>1 DEF Known
<1>10. /\ \A q \in Pages \ {p} : \A i : ~ PendingAt(t, q, i) /\ ~ PendingAt(t, q, i)'
       /\ \A i : ~ Pending(p, i)'
  <2>1. \A q, i : ~ PendingAt(t, q, i)'
    BY <1>5, <1>6 DEF PendingAt
  <2>2. \A q \in Pages \ {p} : \A i : ~ PendingAt(t, q, i)
    BY <1>4 DEF PendingAt
  <2>3. ASSUME NEW u \in Threads, u # t, NEW i PROVE ~ PendingAt(u, p, i)'
    <3>1. ~ Latches(u, p)
      BY <1>4, <2>3, LatchedFacts
    <3>2. ~ PendingAt(u, p, i)
      BY <3>1 DEF PendingAt, Latches, HoldsPage, HoldsNew
    <3> QED  BY <1>6, <2>3, <3>2 DEF Others, PendingAt
  <2> QED  BY <2>1, <2>2, <2>3 DEF Pending
<1>11. TakesFree(t)
  <2>1. ASSUME NEW q \in Pages, Latches(t, q)' PROVE Latches(t, q)
    <3>1. g.pc # "idle" /\ g.page = q
      BY <1>5, <1>6, <2>1 DEF Latches, HoldsPage, HoldsNew
    <3> QED  BY <1>4, <1>5, <3>1 DEF Latches, HoldsPage, HoldsNew
  <2> QED  BY <2>1 DEF TakesFree
<1>12. Placed(t)'
  <2>1. g.pc # "idle" => Known(g.page)
    BY <1>1, <1>5, <1>9 DEF Placed
  <2> QED  BY <1>2, <1>5, <1>6, <2>1 DEF Placed, HoldsNew, Known, Recs
<1>13. LogTypes' /\ LogContents' /\ LogGrows(t) /\ \A q \in Pages : Recs(q)' = Recs(q)
  <2>1. LogTypes' /\ Len(wal) <= Len(wal)
    BY <1>1 DEF PoolInv, Types, LogTypes
  <2> QED  BY <1>1, <1>2, <1>8, <2>1, LogSame DEF LogGrows, Known, Recs
<1>14. PageInv(p)'
  BY <1>2, <1>4, <1>7, <1>10, <1>13, PagePublished
<1> QED  BY <1>1, <1>2, <1>6, <1>7, <1>8, <1>10, <1>11, <1>12, <1>13, <1>14, OnPage

-----------------------------------------------------------------------------
(* Steps of nobody's thread.                                               *)

LEMMA ThreadsRest ==
  ASSUME ImageInv, LogTypes', guard' = guard, mode' # "up" => mode # "up",
         Len(wal) <= Len(wal'), \A i \in 1..Len(wal) : wal'[i] = wal[i],
         \A q \in Pages : Known(q)' <=> Known(q)
  PROVE  ThreadInv'
<1>1. ThreadInv /\ PoolInv /\ Len(wal) \in Nat /\ Len(wal') \in Nat
  BY DEF ImageInv, PoolInv, Types, LogTypes
<1>2. ASSUME NEW t \in Threads PROVE Placed(t)'
  <2>1. Placed(t) /\ Holding(guard[t]) /\ guard[t].page \in Pages \cup {NoPage}
    BY <1>1, GuardFacts DEF ThreadInv
  <2>2. guard[t].pc = "newlogged" => guard[t].lsn \in 1..Len(wal)
    BY <2>1 DEF Holding
  <2>3. 1..Len(wal) \subseteq 1..Len(wal')
    BY <1>1
  <2>4. PICK a, b : a = guard[t].page /\ b = guard[t].new
    OBVIOUS
  <2>5. guard[t].pc # "idle" /\ a # NoPage => Known(a)'
    BY <2>1, <2>4 DEF Placed
  <2>6. guard[t].pc \in {"newfence", "filling"} => ~ Known(b)'
    BY <2>1, <2>4 DEF Placed, Holding, HoldsNew
  <2> QED  BY <2>1, <2>2, <2>3, <2>4, <2>5, <2>6 DEF Placed, Known, Recs
<1> QED  BY <1>1, <1>2 DEF ThreadInv, Latches

\* One page changes.
LEMMA AtPage ==
  ASSUME ImageInv, PoolInv', NEW p \in Pages, \A q \in Pages \ {p} : frames'[q] = frames[q],
         \A q \in Pages \ {p} : disk'[q] = disk[q], flushed_lsn <= flushed_lsn',
         mode' # "up" => flushed_lsn' = Len(wal),
         mode' = mode \/ (mode = "redo" /\ mode' = "failed"),
         UNCHANGED <<wal, control, guard, ckpt>>,
         cursor' = cursor \/ (cursor' = cursor + 1 /\ cursor \in Recs(p)),
         PageInv(p)'
  PROVE  ImageInv'
<1>1. LogTypes /\ LogTypes' /\ LogContents /\ Len(wal) <= Len(wal)
  BY DEF ImageInv, PoolInv, Types, LogTypes
<1>2. /\ \A q : Recs(q)' = Recs(q)
      /\ \A q : Known(q)' <=> Known(q)
      /\ \A q, i : Pending(q, i)' <=> Pending(q, i)
  BY DEF Recs, Known, Pending, PendingAt
<1>3. ThreadInv'
  BY <1>1, <1>2, ThreadsRest
<1>4. LogContents'
  BY <1>1, <1>2 DEF LogContents
<1>5. ASSUME NEW q \in Pages \ {p} PROVE PageInv(q)'
  <2>1. SameRecords(q)
    BY <1>1, <1>2 DEF SameRecords
  <2>2. cursor \in Recs(p) => cursor \notin Recs(q)
    BY <1>5 DEF Recs
  <2>3. Calm(q)
    BY <1>5, <2>1, <2>2 DEF Calm, SameCkpt, Copied
  <2> QED  BY <1>1, <2>3, CalmPage
<1> QED  BY <1>3, <1>4, <1>5 DEF ImageInv

\* What stays the same of a page while its frame or file changes.
LEMMA Unlogged ==
  ASSUME ImageInv, NEW p \in Pages, UNCHANGED <<wal, control, guard, ckpt>>
  PROVE  /\ Recs(p)' = Recs(p) /\ Settled(p)' = Settled(p) /\ (Known(p)' <=> Known(p))
         /\ \A i : Pending(p, i)' <=> Pending(p, i)
         /\ \A i : Image(p, i)' <=> Image(p, i)
         /\ \A a, b : ImageIn(p, a, b)' <=> ImageIn(p, a, b)
         /\ \A r : RedoPoint(r)' <=> RedoPoint(r)
         /\ (Copied(p)' <=> Copied(p)) /\ \A i \in Recs(p) : i \in Nat \ {0}
         /\ LogTypes /\ Len(wal) \in Nat /\ flushed_lsn \in Nat /\ flushed_lsn <= Len(wal)
         /\ PoolInv /\ PageInv(p)
<1>1. PoolInv /\ LogTypes /\ PageInv(p)
  BY DEF ImageInv, PoolInv, Types
<1>2. \A i \in Recs(p) : i \in Nat \ {0}
  BY <1>1, RecsFacts
<1>3. Recs(p)' = Recs(p) /\ (\A i : Pending(p, i)' <=> Pending(p, i)) /\ (Known(p)' <=> Known(p))
  BY DEF Recs, Pending, PendingAt, Known
<1>4. Settled(p)' = Settled(p)
  BY <1>3 DEF Settled
<1> QED  BY <1>1, <1>2, <1>3, <1>4 DEF Image, ImageIn, RedoPoint, Recs, Copied, LogTypes

-----------------------------------------------------------------------------
(* Steals.                                                                 *)

\* A clean frame is dropped.
LEMMA PageDropped ==
  ASSUME ImageInv, NEW p \in Pages, EvictClean(p), frames'[p] = NoFrame
  PROVE  PageInv(p)'
<1>1. /\ frames[p].resident /\ ~ latched(p) /\ frames[p].flush = "no" /\ frames[p].evict = "no"
      /\ frames[p].rec_lsn = NoLsn
      /\ UNCHANGED <<wal, flushed_lsn, control, disk, guard, ckpt, mode, cursor>>
  BY DEF EvictClean, Evictable, pinned, Dirty, Resident
<1>2. /\ Recs(p)' = Recs(p) /\ Settled(p)' = Settled(p) /\ (Known(p)' <=> Known(p))
      /\ \A i : Pending(p, i)' <=> Pending(p, i)
      /\ \A a, b : ImageIn(p, a, b)' <=> ImageIn(p, a, b)
      /\ \A r : RedoPoint(r)' <=> RedoPoint(r)
      /\ (Copied(p)' <=> Copied(p)) /\ PageInv(p)
  BY <1>1, Unlogged
<1>3. ~ frames'[p].resident
  BY DEF NoFrame
<1>4. \A i : ~ Pending(p, i)
  BY <1>1, FreeFacts
<1>5. /\ ~ Written(p) /\ ~ Captured(p) /\ ~ DirtyFrame(p)
      /\ ~ Written(p)' /\ ~ Captured(p)' /\ ~ DirtyFrame(p)'
  BY <1>1, <1>3 DEF Written, Captured, DirtyFrame
<1>6. Contents(p)'
  BY <1>1, <1>2, <1>3 DEF PageInv, Contents
<1>7. Begins(p)'
  BY <1>2 DEF PageInv, Begins
<1>8. Writes(p)'
  BY <1>1, <1>2, <1>3, <1>5 DEF PageInv, Writes
<1>9. Coverage(p)'
  BY <1>1, <1>2, <1>5 DEF PageInv, Coverage, Running
<1>10. FirstImage(p)'
  BY <1>2, <1>3, <1>4 DEF FirstImage
<1>11. Torn(p)'
  BY <1>1, <1>2 DEF PageInv, Torn
<1>12. Redoing(p)'
  <2>1. mode = "redo" => Served(p)' = Served(p)
    BY <1>1, <1>2, <1>3 DEF PageInv, Redoing, Served
  <2> QED  BY <1>1, <1>2, <1>3, <1>5, <2>1 DEF PageInv, Redoing
<1> QED  BY <1>6, <1>7, <1>8, <1>9, <1>10, <1>11, <1>12 DEF PageInv

\* A dirty one is chosen.
LEMMA PageReserved ==
  ASSUME ImageInv, NEW p \in Pages, StealReserve(p),
         frames'[p] = [frames[p] EXCEPT !.evict = "reserved"]
  PROVE  PageInv(p)'
<1>1. /\ frames[p].resident /\ frames[p].flush = "no" /\ frames[p].evict = "no"
      /\ frames[p].rec_lsn # NoLsn
      /\ UNCHANGED <<wal, flushed_lsn, control, disk, guard, ckpt, mode, cursor>>
  BY DEF StealReserve, Evictable, Dirty, Resident
<1>2. /\ Recs(p)' = Recs(p) /\ Settled(p)' = Settled(p) /\ (Known(p)' <=> Known(p))
      /\ \A i : Pending(p, i)' <=> Pending(p, i)
      /\ \A i : Image(p, i)' <=> Image(p, i)
      /\ \A a, b : ImageIn(p, a, b)' <=> ImageIn(p, a, b)
      /\ \A r : RedoPoint(r)' <=> RedoPoint(r)
      /\ (Copied(p)' <=> Copied(p)) /\ PageInv(p) /\ PoolInv
  BY <1>1, Unlogged
<1>3. /\ frames'[p].resident /\ frames'[p].data = frames[p].data
      /\ frames'[p].rec_lsn = frames[p].rec_lsn /\ frames'[p].redirty = frames[p].redirty
      /\ frames'[p].evict = "reserved" /\ frames'[p].flush = frames[p].flush
      /\ frames'[p].needs_fpi = frames[p].needs_fpi
  <2>1. frames[p] \in FrameRec
    BY <1>1, <1>2, FrameFacts
  <2> QED  BY <1>1, <2>1 DEF FrameRec
<1>4. /\ ~ Written(p) /\ ~ Written(p)' /\ ~ Captured(p) /\ ~ Captured(p)'
      /\ DirtyFrame(p) /\ DirtyFrame(p)'
  BY <1>1, <1>3 DEF Written, Captured, DirtyFrame
<1>5. Contents(p)'
  BY <1>1, <1>2, <1>3 DEF PageInv, Contents
<1>6. Begins(p)'
  BY <1>2 DEF PageInv, Begins
<1>7. Writes(p)'
  BY <1>1, <1>2, <1>3, <1>4 DEF PageInv, Writes
<1>8. Coverage(p)'
  BY <1>1, <1>2, <1>3, <1>4 DEF PageInv, Coverage, Running
<1>9. FirstImage(p)'
  BY <1>1, <1>2, <1>3 DEF PageInv, FirstImage
<1>10. Torn(p)'
  BY <1>1, <1>2 DEF PageInv, Torn
<1>11. Redoing(p)'
  <2>1. Served(p)' = Served(p)
    BY <1>1, <1>3 DEF Served
  <2> QED  BY <1>1, <1>2, <1>3, <1>4, <2>1 DEF PageInv, Redoing
<1> QED  BY <1>5, <1>6, <1>7, <1>8, <1>9, <1>10, <1>11 DEF PageInv

\* Wherever redo may start, it meets an image of each dirty page.
LEMMA DirtyImage ==
  ASSUME ImageInv, NEW p \in Pages, DirtyFrame(p), NEW r, RedoPoint(r)
  PROVE  ImageIn(p, r, Len(wal))
<1>1. /\ PoolInv /\ PageInv(p) /\ LogContents /\ Boundaries /\ Len(wal) \in Nat
      /\ frames[p].resident /\ frames[p].rec_lsn # NoLsn /\ mode \in {"up", "redo", "recovered", "failed"}
  BY DEF ImageInv, PoolInv, Types, LogTypes, ActorTypes, DirtyFrame
<1>2. r \in Nat /\ (ckpt.pc \notin {"marker", "store"} => r = control.redo) /\ \A x : Kept(x) => r <= x
  BY <1>1, RedoPointFacts
<1>3. CASE mode = "up"
  <2>1. Image(p, frames[p].rec_lsn + 1)
    BY <1>1, <1>3 DEF PageInv, FirstImage
  <2>2. Kept(frames[p].rec_lsn) /\ frames[p].rec_lsn < Len(wal) /\ frames[p].rec_lsn \in Lsns
    BY <1>1, FrameFacts DEF Starts
  <2>3. frames[p].rec_lsn \in Nat
    BY <1>1, <2>2 DEF Lsns
  <2>4. PICK x \in Nat : x = frames[p].rec_lsn
    BY <2>3
  <2>5. r < x + 1 /\ x + 1 <= Len(wal) /\ x + 1 \in Recs(p) /\ wal[x + 1].kind = "image"
    BY <1>1, <1>2, <2>1, <2>2, <2>4 DEF Image
  <2> QED  BY <2>5 DEF ImageIn
<1>4. CASE mode # "up"
  <2>1. ckpt.pc \notin {"marker", "store"}
    BY <1>1, <1>4 DEF Boundaries, PageInv, Redoing
  <2>2. ImageIn(p, control.redo, flushed_lsn) /\ flushed_lsn = Len(wal)
    BY <1>1, <1>4 DEF PageInv, Redoing, LogContents
  <2> QED  BY <1>2, <2>1, <2>2
<1> QED  BY <1>3, <1>4

\* The frame is written,
LEMMA PageStolen ==
  ASSUME ImageInv, PoolInv', NEW p \in Pages, StealWrite(p),
         frames'[p] = [frames[p] EXCEPT !.evict = "written"],
         disk'[p] = [disk[p] EXCEPT !.cached = frames[p].data]
  PROVE  PageInv(p)'
<1>1. /\ frames[p].resident /\ frames[p].evict = "reserved" /\ flushed_lsn' = Len(wal)
      /\ UNCHANGED <<wal, control, guard, ckpt, mode, cursor>>
  BY DEF StealWrite
<1>2. /\ Recs(p)' = Recs(p) /\ Settled(p)' = Settled(p) /\ (Known(p)' <=> Known(p))
      /\ \A i : Pending(p, i)' <=> Pending(p, i)
      /\ \A i : Image(p, i)' <=> Image(p, i)
      /\ \A a, b : ImageIn(p, a, b)' <=> ImageIn(p, a, b)
      /\ \A r : RedoPoint(r)' <=> RedoPoint(r)
      /\ (Copied(p)' <=> Copied(p)) /\ PageInv(p) /\ PoolInv
      /\ Len(wal) \in Nat /\ flushed_lsn \in Nat /\ flushed_lsn <= Len(wal)
      /\ \A i \in Recs(p) : i \in Nat \ {0}
  BY <1>1, Unlogged
<1>3. /\ frames'[p].resident /\ frames'[p].data = frames[p].data
      /\ frames'[p].rec_lsn = frames[p].rec_lsn /\ frames'[p].redirty = frames[p].redirty
      /\ frames'[p].evict = "written" /\ frames'[p].flush = frames[p].flush
      /\ frames'[p].needs_fpi = frames[p].needs_fpi
      /\ ~ pinned(p) /\ frames[p].rec_lsn < Len(wal) /\ frames[p].rec_lsn # NoLsn
      /\ frames[p].flush = "no"
  <2>1. /\ frames[p] \in FrameRec /\ ~ pinned(p)
        /\ frames[p].rec_lsn # NoLsn => frames[p].rec_lsn < Len(wal)
    BY <1>1, <1>2, FrameFacts DEF Starts
  <2>2. frames[p].flush = "no" /\ frames[p].rec_lsn # NoLsn
    BY <1>1, <1>2 DEF PageInv, Writes
  <2> QED  BY <1>1, <2>1, <2>2 DEF FrameRec
<1>4. disk'[p].stable = disk[p].stable /\ disk'[p].cached = frames[p].data
  <2>1. disk[p] \in [stable : Data, cached : Data]
    BY <1>2 DEF PoolInv, Types, PageTypes
  <2> QED  BY <2>1
<1>5. /\ Written(p)' /\ ~ Captured(p) /\ ~ Captured(p)'
      /\ DirtyFrame(p) /\ DirtyFrame(p)'
  BY <1>3 DEF Written, Captured, DirtyFrame
<1>6. /\ frames[p].data \subseteq 1..Len(wal) /\ frames[p].data # NoImage
      /\ 1..flushed_lsn \subseteq 1..Len(wal)
  <2>1. frames[p].data \subseteq 1..Len(wal)
    BY <1>1, <1>2 DEF PageInv, Contents
  <2>2. frames[p].data # NoImage
    BY <2>1, NoImageFacts
  <2>3. 1..flushed_lsn \subseteq 1..Len(wal)
    BY <1>2
  <2> QED  BY <2>1, <2>2, <2>3
<1>7. Settled(p) = Recs(p) /\ \A i : ~ Pending(p, i)
  BY <1>3, FreeFacts DEF pinned
<1>8. \A a : ImageIn(p, a, flushed_lsn) => ImageIn(p, a, Len(wal))
  BY <1>2 DEF ImageIn
<1>9. \A a : ImageIn(p, a, Len(wal)) => ImageIn(p, a, flushed_lsn)'
  BY <1>1 DEF ImageIn, Recs
<1>10. Contents(p)'
  BY <1>1, <1>2, <1>3, <1>4, <1>6 DEF PageInv, Contents
<1>11. Begins(p)'
  BY <1>2 DEF PageInv, Begins
<1>12. Writes(p)'
  <2>1. ~ (ckpt.pc \in {"capture", "sync"} /\ Copied(p))
    BY <1>2, <1>5 DEF PageInv, Writes
  <2>2. Written(p)' => frames'[p].rec_lsn < flushed_lsn'
    BY <1>1, <1>3
  <2> QED  BY <1>1, <1>2, <1>3, <1>4, <1>5, <2>1, <2>2 DEF Writes
<1>13. Coverage(p)'
  <2>1. ASSUME mode # "failed", NEW i \in Recs(p), NEW r \in Nat, RedoPoint(r), i <= r
        PROVE  Covers(frames[p].data, i)
    <3>1. CASE mode \in {"up", "recovered"}
      BY <1>2, <1>5, <1>7, <3>1 DEF PageInv, Coverage, Running
    <3>2. CASE mode = "redo"
      <4>1. Boundaries /\ control.redo \in Nat /\ cursor \in Nat
        BY <1>2 DEF PoolInv, Types, LogTypes, ActorTypes
      <4>2. r = control.redo /\ control.redo < cursor
        BY <2>1, <3>2, <4>1 DEF Boundaries, RedoPoint
      <4>3. i < cursor
        BY <1>2, <2>1, <4>1, <4>2
      <4>4. Served(p) = frames[p].data
        BY <1>1 DEF Served
      <4> QED  BY <1>2, <1>6, <3>2, <4>3, <4>4 DEF PageInv, Redoing
    <3>3. mode \in {"up", "redo", "recovered", "failed"}
      BY <1>2 DEF PoolInv, Types, ActorTypes
    <3> QED  BY <2>1, <3>1, <3>2, <3>3
  <2> QED  BY <1>1, <1>2, <1>3, <1>4, <1>5, <2>1 DEF PageInv, Coverage, Running
<1>14. FirstImage(p)'
  BY <1>1, <1>2, <1>3, <1>7 DEF PageInv, FirstImage
<1>15. Torn(p)'
  <2>1. \A r : RedoPoint(r) => ImageIn(p, r, flushed_lsn)'
    BY <1>5, <1>9, DirtyImage
  <2> QED  BY <1>2, <1>4, <1>6, <2>1 DEF Torn
<1>16. Redoing(p)'
  <2>1. Served(p)' = Served(p)
    BY <1>1, <1>3 DEF Served
  <2>2. \A a : ImageIn(p, a, flushed_lsn) => ImageIn(p, a, flushed_lsn)'
    BY <1>8, <1>9
  <2>3. PICK x : x = control.redo
    OBVIOUS
  <2>4. mode # "up" => ImageIn(p, x, flushed_lsn)'
    BY <1>2, <1>5, <2>2, <2>3 DEF PageInv, Redoing
  <2>5. x = control'.redo
    BY <1>1, <2>3
  <2>6. mode # "up" => ImageIn(p, control.redo, flushed_lsn)'
    BY <2>4, <2>5
  <2> QED  BY <1>1, <1>2, <1>3, <1>4, <1>5, <1>6, <2>1, <2>6 DEF PageInv, Redoing
<1> QED  BY <1>10, <1>11, <1>12, <1>13, <1>14, <1>15, <1>16 DEF PageInv

\* and dropped after the fsync.
LEMMA PageRemoved ==
  ASSUME ImageInv, NEW p \in Pages, StealRemove(p), frames'[p] = NoFrame,
         disk'[p] = [disk[p] EXCEPT !.stable = disk[p].cached]
  PROVE  PageInv(p)'
<1>1. /\ frames[p].resident /\ frames[p].evict = "written"
      /\ UNCHANGED <<wal, flushed_lsn, control, guard, ckpt, mode, cursor>>
  BY DEF StealRemove
<1>2. /\ Recs(p)' = Recs(p) /\ Settled(p)' = Settled(p) /\ (Known(p)' <=> Known(p))
      /\ \A i : Pending(p, i)' <=> Pending(p, i)
      /\ \A a, b : ImageIn(p, a, b)' <=> ImageIn(p, a, b)
      /\ \A r : RedoPoint(r)' <=> RedoPoint(r)
      /\ (Copied(p)' <=> Copied(p)) /\ PageInv(p) /\ PoolInv
      /\ Len(wal) \in Nat /\ flushed_lsn \in Nat /\ flushed_lsn <= Len(wal)
  BY <1>1, Unlogged
<1>3. ~ frames'[p].resident
  BY DEF NoFrame
<1>4. disk'[p].stable = disk[p].cached /\ disk'[p].cached = disk[p].cached
  <2>1. disk[p] \in [stable : Data, cached : Data]
    BY <1>2 DEF PoolInv, Types, PageTypes
  <2> QED  BY <2>1
<1>5. ~ latched(p) /\ frames[p].flush = "no" /\ frames[p].rec_lsn # NoLsn
  BY <1>1, <1>2, FrameFacts DEF PageInv, Writes, pinned
<1>6. Settled(p) = Recs(p) /\ \A i : ~ Pending(p, i)
  BY <1>5, FreeFacts
<1>7. /\ Written(p) /\ ~ Captured(p) /\ DirtyFrame(p)
      /\ ~ Written(p)' /\ ~ Captured(p)' /\ ~ DirtyFrame(p)'
  BY <1>1, <1>3, <1>5 DEF Written, Captured, DirtyFrame
<1>8. disk[p].cached = frames[p].data /\ disk[p].cached # NoImage
  <2>1. disk[p].cached = frames[p].data /\ frames[p].data \subseteq 1..Len(wal)
    BY <1>1, <1>2, <1>7 DEF PageInv, Contents, Writes
  <2> QED  BY <2>1, NoImageFacts
<1>9. Contents(p)'
  BY <1>1, <1>2, <1>3, <1>4, <1>8 DEF PageInv, Contents
<1>10. Begins(p)'
  BY <1>2 DEF PageInv, Begins
<1>11. Writes(p)'
  BY <1>1, <1>2, <1>3, <1>4, <1>7 DEF PageInv, Writes
<1>12. Coverage(p)'
  BY <1>1, <1>2, <1>4, <1>7, <1>8 DEF PageInv, Coverage, Running
<1>13. FirstImage(p)'
  BY <1>2, <1>3, <1>6 DEF FirstImage
<1>14. Torn(p)'
  BY <1>4, <1>8 DEF Torn
<1>15. Redoing(p)'
  <2>1. Served(p)' = Served(p)
    BY <1>1, <1>3, <1>4, <1>8 DEF Served
  <2> QED  BY <1>1, <1>2, <1>3, <1>4, <1>7, <1>8, <2>1 DEF PageInv, Redoing
<1> QED  BY <1>9, <1>10, <1>11, <1>12, <1>13, <1>14, <1>15 DEF PageInv

LEMMA StealImages ==
  ASSUME ImageInv, NEW p \in Pages, Steal(p)
  PROVE  ImageInv'
<1>1. /\ PoolInv /\ PoolInv' /\ LogContents /\ disk \in [Pages -> [stable : Data, cached : Data]]
      /\ frames \in [Pages -> FrameRec \cup {NoFrame}]
      /\ Len(wal) \in Nat /\ flushed_lsn \in Nat /\ flushed_lsn <= Len(wal)
  <2>1. PoolInv /\ LogContents
    BY DEF ImageInv
  <2>2. PoolInv'
    BY <2>1, StealSteps
  <2> QED  BY <2>1, <2>2 DEF PoolInv, Types, PageTypes, LogTypes
<1>2. UNCHANGED <<wal, control, guard, ckpt, mode, cursor>>
  BY DEF Steal, EvictClean, StealReserve, StealWrite, StealRemove
<1>3. PICK f, d : /\ frames' = [frames EXCEPT ![p] = f] /\ disk' = [disk EXCEPT ![p] = d]
                  /\ EvictClean(p) => f = NoFrame
                  /\ StealReserve(p) => f = [frames[p] EXCEPT !.evict = "reserved"]
                  /\ StealWrite(p) => f = [frames[p] EXCEPT !.evict = "written"]
                                      /\ d = [disk[p] EXCEPT !.cached = frames[p].data]
                  /\ StealRemove(p) => f = NoFrame /\ d = [disk[p] EXCEPT !.stable = disk[p].cached]
  <2>1. disk = [disk EXCEPT ![p] = disk[p]]
    BY <1>1
  <2>2. /\ StealReserve(p) => Evictable(p) /\ p \in Dirty
        /\ EvictClean(p) => Evictable(p) /\ p \notin Dirty
        /\ StealWrite(p) => frames[p].evict = "reserved"
        /\ StealRemove(p) => frames[p].evict = "written"
    BY DEF EvictClean, StealReserve, StealWrite, StealRemove
  <2>3. CASE EvictClean(p)
    BY <2>1, <2>2, <2>3 DEF EvictClean, Evictable
  <2>4. CASE StealReserve(p)
    BY <2>1, <2>2, <2>4 DEF StealReserve, Evictable
  <2>5. CASE StealWrite(p)
    BY <2>2, <2>5 DEF StealWrite, Evictable
  <2>6. CASE StealRemove(p)
    BY <2>2, <2>6 DEF StealRemove, Evictable
  <2> QED  BY <2>3, <2>4, <2>5, <2>6 DEF Steal
<1>4. /\ frames'[p] = f /\ \A q \in Pages \ {p} : frames'[q] = frames[q]
      /\ disk'[p] = d /\ \A q \in Pages \ {p} : disk'[q] = disk[q]
  BY <1>1, <1>3
<1>5. flushed_lsn <= flushed_lsn' /\ (mode' # "up" => flushed_lsn' = Len(wal))
  BY <1>1, <1>2 DEF Steal, EvictClean, StealReserve, StealWrite, StealRemove, LogContents
<1>6. PageInv(p)'
  BY <1>1, <1>3, <1>4, PageDropped, PageReserved, PageStolen, PageRemoved DEF Steal
<1> QED  BY <1>1, <1>2, <1>4, <1>5, <1>6, AtPage

-----------------------------------------------------------------------------
(* Steps of the checkpoint.                                                *)

\* What a step that leaves the log and the threads alone leaves of a page.
LEMMA LogRests ==
  ASSUME ImageInv, NEW p \in Pages, UNCHANGED <<wal, guard>>
  PROVE  /\ Recs(p)' = Recs(p) /\ Settled(p)' = Settled(p) /\ (Known(p)' <=> Known(p))
         /\ \A i : Pending(p, i)' <=> Pending(p, i)
         /\ \A i : Image(p, i)' <=> Image(p, i)
         /\ \A a, b : ImageIn(p, a, b)' <=> ImageIn(p, a, b)
         /\ \A i \in Recs(p) : i \in Nat \ {0}
         /\ Len(wal) \in Nat /\ flushed_lsn \in Nat /\ flushed_lsn <= Len(wal)
         /\ 1..flushed_lsn \subseteq 1..Len(wal)
         /\ PoolInv /\ PageInv(p)
<1>1. PoolInv /\ LogTypes /\ PageInv(p)
  BY DEF ImageInv, PoolInv, Types
<1>2. Recs(p)' = Recs(p) /\ (\A i : Pending(p, i)' <=> Pending(p, i)) /\ (Known(p)' <=> Known(p))
  BY DEF Recs, Pending, PendingAt, Known
<1>3. Settled(p)' = Settled(p)
  BY <1>2 DEF Settled
<1>4. /\ \A i : Image(p, i)' <=> Image(p, i)
      /\ \A a, b : ImageIn(p, a, b)' <=> ImageIn(p, a, b)
  BY DEF Image, ImageIn, Recs
<1>5. /\ \A i \in Recs(p) : i \in Nat \ {0}
      /\ Len(wal) \in Nat /\ flushed_lsn \in Nat /\ flushed_lsn <= Len(wal)
  BY <1>1, RecsFacts
<1>6. 1..flushed_lsn \subseteq 1..Len(wal)
  BY <1>5
<1> QED  BY <1>1, <1>2, <1>3, <1>4, <1>5, <1>6

LEMMA PagesRest ==
  ASSUME ImageInv, PoolInv', UNCHANGED <<wal, guard>>, mode' # "up" => mode # "up",
         mode' # "up" => flushed_lsn' = Len(wal), \A p \in Pages : PageInv(p)'
  PROVE  ImageInv'
<1>1. LogTypes' /\ LogContents /\ Len(wal) <= Len(wal)
  BY DEF ImageInv, PoolInv, Types, LogTypes
<1>2. \A q : Known(q)' <=> Known(q)
  BY DEF Known, Recs
<1>3. ThreadInv'
  BY <1>1, <1>2, ThreadsRest
<1>4. LogContents'
  BY <1>1 DEF LogContents, Recs
<1> QED  BY <1>3, <1>4 DEF ImageInv

\* While a checkpoint runs the server is up, or is at the end of recovery, when
\* no thread is in the pool.
LEMMA CkptRuns ==
  ASSUME ImageInv, ckpt.pc # "idle"
  PROVE  /\ mode \in {"up", "recovered"} /\ Running
         /\ mode = "recovered" =>
              /\ flushed_lsn = Len(wal)
              /\ \A p \in Pages : ~ latched(p) /\ \A i : ~ Pending(p, i)
<1>1. mode \in {"up", "recovered"} /\ ThreadInv /\ LogContents
  BY DEF ImageInv, PoolInv, Types, ActorTypes, Boundaries
<1>2. mode = "recovered" => \A p \in Pages : ~ latched(p)
  BY <1>1 DEF ThreadInv, latched, HoldsPage, HoldsNew
<1> QED  BY <1>1, <1>2, FreeFacts DEF Running, LogContents

\* The log becomes durable.
LEMMA FlushLogImage ==
  ASSUME ImageInv, FlushLog
  PROVE  ImageInv'
<1>1. /\ flushed_lsn' = Len(wal) /\ mode = "up"
      /\ UNCHANGED <<wal, control, disk, frames, guard, ckpt, mode, cursor>>
  BY DEF FlushLog
<1>2. PoolInv' /\ LogTypes'
  <2>1. PoolInv
    BY DEF ImageInv
  <2> QED  BY <2>1, FlushLogStep DEF PoolInv, Types
<1>3. ASSUME NEW p \in Pages PROVE PageInv(p)'
  <2>1. SameRecords(p)
    BY <1>1, LogRests DEF SameRecords
  <2>2. Calm(p)
    BY <1>1, <2>1 DEF Calm, SameCkpt, Copied
  <2> QED  BY <1>2, <2>2, CalmPage
<1> QED  BY <1>1, <1>2, <1>3, PagesRest

\* Dirty frames are reserved.
LEMMA PageChosen ==
  ASSUME ImageInv, NEW p \in Pages, CheckpointBegin
  PROVE  PageInv(p)'
<1>1. PICK S \in SUBSET {q \in Dirty : frames[q].evict = "no"} :
        /\ mode = "recovered" => S = Dirty
        /\ frames' = [q \in Pages |-> IF q \in S THEN [frames[q] EXCEPT !.flush = "reserved"]
                                                 ELSE frames[q]]
  BY DEF CheckpointBegin
<1>2. /\ ckpt.pc = "idle" /\ mode \in {"up", "recovered"}
      /\ ckpt' = [IdleCkpt EXCEPT !.pc = "capture"]
      /\ UNCHANGED <<wal, flushed_lsn, control, disk, guard, mode, cursor>>
  BY DEF CheckpointBegin
<1>3. ckpt'.pc = "capture" /\ ckpt'.image = <<>> /\ ~ Copied(p)'
  BY <1>2 DEF IdleCkpt, Copied
<1>4. /\ Recs(p)' = Recs(p) /\ Settled(p)' = Settled(p) /\ (Known(p)' <=> Known(p))
      /\ \A i : Pending(p, i)' <=> Pending(p, i)
      /\ \A i : Image(p, i)' <=> Image(p, i)
      /\ \A a, b : ImageIn(p, a, b)' <=> ImageIn(p, a, b)
      /\ PoolInv /\ PageInv(p)
  BY <1>2, LogRests
<1>5. \A r : RedoPoint(r)' <=> RedoPoint(r)
  BY <1>2, <1>3 DEF RedoPoint
<1>6. frames[p].resident => frames[p] \in FrameRec /\ frames[p].flush = "no"
  BY <1>2, <1>4, FrameFacts DEF Starts, Writing
<1>7. p \in S => frames[p].resident /\ frames[p].evict = "no" /\ frames[p].rec_lsn # NoLsn
  BY DEF Dirty, Resident
<1>8. /\ frames'[p].resident <=> frames[p].resident
      /\ frames[p].resident =>
           /\ frames'[p].data = frames[p].data
           /\ frames'[p].rec_lsn = frames[p].rec_lsn /\ frames'[p].redirty = frames[p].redirty
           /\ frames'[p].evict = frames[p].evict /\ frames'[p].needs_fpi = frames[p].needs_fpi
           /\ frames'[p].flush = IF p \in S THEN "reserved" ELSE "no"
      /\ ~ frames[p].resident => frames'[p] = frames[p]
  <2>1. CASE p \in S
    <3>1. frames'[p] = [frames[p] EXCEPT !.flush = "reserved"] /\ frames[p] \in FrameRec
      BY <1>1, <1>6, <1>7, <2>1
    <3> QED  BY <1>7, <2>1, <3>1 DEF FrameRec
  <2>2. CASE p \notin S
    BY <1>1, <1>6, <2>2
  <2> QED  BY <2>1, <2>2
<1>9. /\ ~ Captured(p) /\ ~ Captured(p)' /\ (Written(p)' <=> Written(p))
      /\ (DirtyFrame(p)' <=> DirtyFrame(p)) /\ Served(p)' = Served(p)
  BY <1>2, <1>6, <1>8 DEF Captured, Written, DirtyFrame, Served
<1>10. Contents(p)'
  BY <1>2, <1>3, <1>4, <1>8 DEF PageInv, Contents
<1>11. Begins(p)'
  BY <1>4 DEF PageInv, Begins
<1>12. Writes(p)'
  BY <1>2, <1>3, <1>4, <1>7, <1>8, <1>9 DEF PageInv, Writes, Written
<1>13. Coverage(p)'
  BY <1>2, <1>4, <1>5, <1>8, <1>9 DEF PageInv, Coverage, Running, DirtyFrame
<1>14. FirstImage(p)'
  <2>1. \A i : Pending(p, i) => frames[p].resident
    BY LatchedFacts DEF Pending, PendingAt, Latches, HoldsPage, HoldsNew
  <2> QED  BY <1>2, <1>4, <1>6, <1>8, <2>1 DEF PageInv, FirstImage
<1>15. Torn(p)'
  BY <1>2, <1>4, <1>5 DEF PageInv, Torn
<1>16. Redoing(p)'
  <2>1. mode = "recovered" /\ DirtyFrame(p) => p \in S
    BY <1>1 DEF DirtyFrame, Dirty, Resident
  <2> QED  BY <1>2, <1>3, <1>4, <1>8, <1>9, <2>1 DEF PageInv, Redoing, DirtyFrame
<1> QED  BY <1>10, <1>11, <1>12, <1>13, <1>14, <1>15, <1>16 DEF PageInv

LEMMA BeginImage ==
  ASSUME ImageInv, CheckpointBegin
  PROVE  ImageInv'
<1>1. PoolInv' /\ UNCHANGED <<wal, guard, mode, flushed_lsn>> /\ LogContents
  <2>1. PoolInv /\ LogContents
    BY DEF ImageInv
  <2> QED  BY <2>1, BeginStep DEF CheckpointBegin
<1> QED  BY <1>1, PageChosen, PagesRest DEF LogContents

\* A frame is copied, or left alone after all.
LEMMA PageCaptured ==
  ASSUME ImageInv, NEW p \in Pages, CheckpointCapture(p)
  PROVE  PageInv(p)'
<1>1. /\ ckpt.pc = "capture" /\ frames[p].resident /\ frames[p].flush = "reserved"
      /\ UNCHANGED <<wal, flushed_lsn, control, disk, guard, mode, cursor>>
  BY DEF CheckpointCapture
<1>2. /\ Recs(p)' = Recs(p) /\ Settled(p)' = Settled(p) /\ (Known(p)' <=> Known(p))
      /\ \A i : Pending(p, i)' <=> Pending(p, i)
      /\ \A i : Image(p, i)' <=> Image(p, i)
      /\ \A a, b : ImageIn(p, a, b)' <=> ImageIn(p, a, b)
      /\ PoolInv /\ PageInv(p)
  BY <1>1, LogRests
<1>3. /\ frames[p] \in FrameRec /\ frames \in [Pages -> FrameRec \cup {NoFrame}]
      /\ frames[p].evict = "no" /\ ckpt \in CkptRec
  BY <1>1, <1>2, FrameFacts DEF PageInv, Writes, PoolInv, Types, PageTypes, ActorTypes
<1>4. Running /\ mode \in {"up", "recovered"} /\ (mode = "recovered" => ~ latched(p))
  BY <1>1, CkptRuns
<1>5. ~ Captured(p) /\ ~ Copied(p) /\ ~ Written(p)
  <2>1. ~ Captured(p) /\ ~ Written(p)
    BY <1>1, <1>3 DEF Captured, Written
  <2> QED  BY <1>1, <1>2, <2>1 DEF PageInv, Writes
<1>6. CASE ~ latched(p) /\ p \in Dirty
  <2>1. /\ frames' = [frames EXCEPT ![p] = CaptureFrame(frames[p])]
        /\ ckpt' = [ckpt EXCEPT !.image = [q \in DOMAIN ckpt.image \cup {p} |->
                                            IF q = p THEN frames[p].data ELSE ckpt.image[q]]]
    BY <1>6 DEF CheckpointCapture
  <2>2. /\ frames'[p].resident /\ frames'[p].data = frames[p].data
        /\ frames'[p].rec_lsn = frames[p].rec_lsn /\ frames'[p].redirty = NoLsn
        /\ frames'[p].evict = "no" /\ frames'[p].flush = "captured" /\ frames'[p].needs_fpi
    <3>1. frames'[p] = [frames[p] EXCEPT !.flush = "captured", !.redirty = NoLsn,
                                         !.needs_fpi = TRUE]
      BY <1>3, <2>1 DEF CaptureFrame
    <3> QED  BY <1>1, <1>3, <3>1 DEF FrameRec
  <2>3. ckpt'.pc = "capture" /\ ckpt'.image[p] = frames[p].data /\ Copied(p)'
    <3>1. ckpt'.pc = ckpt.pc
          /\ ckpt'.image = [q \in DOMAIN ckpt.image \cup {p} |->
                              IF q = p THEN frames[p].data ELSE ckpt.image[q]]
      BY <1>3, <2>1 DEF CkptRec
    <3> QED  BY <1>1, <3>1 DEF Copied
  <2>4. \A r : RedoPoint(r)' <=> RedoPoint(r)
    BY <1>1, <2>3 DEF RedoPoint
  <2>5. /\ DirtyFrame(p) /\ DirtyFrame(p)' /\ Captured(p)' /\ ~ Written(p)'
        /\ Served(p)' = Served(p) /\ frames[p].rec_lsn # NoLsn
    BY <1>1, <1>6, <2>2 DEF DirtyFrame, Dirty, Captured, Written, Served
  <2>6. Settled(p) = Recs(p) /\ \A i : ~ Pending(p, i)
    BY <1>6, FreeFacts
  <2>7. Contents(p)'
    BY <1>1, <1>2, <2>2, <2>3 DEF PageInv, Contents
  <2>8. Begins(p)'
    BY <1>2 DEF PageInv, Begins
  <2>9. Writes(p)'
    BY <1>1, <1>2, <1>5, <2>2, <2>3, <2>5 DEF PageInv, Writes
  <2>10. Coverage(p)'
    BY <1>1, <1>2, <1>4, <2>2, <2>3, <2>4, <2>5 DEF PageInv, Coverage, Running
  <2>11. FirstImage(p)'
    BY <1>1, <1>2, <2>2, <2>6 DEF PageInv, FirstImage
  <2>12. Torn(p)'
    BY <1>1, <1>2, <2>4 DEF PageInv, Torn
  <2>13. Redoing(p)'
    BY <1>1, <1>2, <1>4, <2>2, <2>3, <2>5 DEF PageInv, Redoing
  <2> QED  BY <2>7, <2>8, <2>9, <2>10, <2>11, <2>12, <2>13 DEF PageInv
<1>7. CASE ~ (~ latched(p) /\ p \in Dirty)
  <2>1. frames' = [frames EXCEPT ![p].flush = "no"] /\ ckpt' = ckpt
    BY <1>7 DEF CheckpointCapture
  <2>2. /\ frames'[p].resident /\ frames'[p].data = frames[p].data
        /\ frames'[p].rec_lsn = frames[p].rec_lsn /\ frames'[p].redirty = frames[p].redirty
        /\ frames'[p].evict = "no" /\ frames'[p].flush = "no"
        /\ frames'[p].needs_fpi = frames[p].needs_fpi
    <3>1. frames'[p] = [frames[p] EXCEPT !.flush = "no"]
      BY <1>3, <2>1
    <3> QED  BY <1>1, <1>3, <3>1 DEF FrameRec
  <2>3. (\A r : RedoPoint(r)' <=> RedoPoint(r)) /\ ~ Copied(p)'
    BY <1>1, <1>5, <2>1 DEF RedoPoint, Copied
  <2>4. /\ (DirtyFrame(p)' <=> DirtyFrame(p)) /\ ~ Captured(p)' /\ ~ Written(p)'
        /\ Served(p)' = Served(p) /\ (mode = "recovered" => ~ DirtyFrame(p))
    BY <1>1, <1>4, <1>7, <2>2 DEF DirtyFrame, Dirty, Resident, Captured, Written, Served
  <2>5. Contents(p)'
    BY <1>1, <1>2, <2>2, <2>3 DEF PageInv, Contents
  <2>6. Begins(p)'
    BY <1>2 DEF PageInv, Begins
  <2>7. Writes(p)'
    BY <1>1, <1>2, <1>5, <2>1, <2>2, <2>3, <2>4 DEF PageInv, Writes
  <2>8. Coverage(p)'
    BY <1>1, <1>2, <2>2, <2>3, <2>4 DEF PageInv, Coverage, Running
  <2>9. FirstImage(p)'
    BY <1>1, <1>2, <2>2 DEF PageInv, FirstImage
  <2>10. Torn(p)'
    BY <1>1, <1>2, <2>3 DEF PageInv, Torn
  <2>11. Redoing(p)'
    BY <1>1, <1>2, <1>4, <2>2, <2>4 DEF PageInv, Redoing
  <2> QED  BY <2>5, <2>6, <2>7, <2>8, <2>9, <2>10, <2>11 DEF PageInv
<1> QED  BY <1>6, <1>7

LEMMA CaptureImage ==
  ASSUME ImageInv, NEW p \in Pages, CheckpointCapture(p)
  PROVE  ImageInv'
<1>1. /\ PoolInv' /\ UNCHANGED <<wal, flushed_lsn, control, disk, guard, mode, cursor>>
      /\ LogContents /\ ckpt \in CkptRec /\ frames \in [Pages -> FrameRec \cup {NoFrame}]
      /\ LogTypes'
  <2>1. PoolInv /\ LogContents
    BY DEF ImageInv
  <2>2. PoolInv'
    BY <2>1, CaptureStep
  <2> QED  BY <2>1, <2>2 DEF CheckpointCapture, PoolInv, Types, ActorTypes, PageTypes
<1>2. ASSUME NEW q \in Pages, q # p PROVE PageInv(q)'
  <2>1. frames'[q] = frames[q]
    BY <1>1, <1>2 DEF CheckpointCapture
  <2>2. SameCkpt(q)
    <3>1. CASE ckpt' = ckpt
      BY <3>1 DEF SameCkpt, Copied
    <3>2. CASE ckpt' # ckpt
      <4>1. ckpt' = [ckpt EXCEPT !.image = [s \in DOMAIN ckpt.image \cup {p} |->
                                             IF s = p THEN frames[p].data ELSE ckpt.image[s]]]
        BY <3>2 DEF CheckpointCapture
      <4>2. /\ ckpt'.pc = ckpt.pc /\ ckpt'.redo = ckpt.redo
            /\ ckpt'.image = [s \in DOMAIN ckpt.image \cup {p} |->
                               IF s = p THEN frames[p].data ELSE ckpt.image[s]]
        BY <1>1, <4>1 DEF CkptRec
      <4> QED  BY <1>2, <4>2 DEF SameCkpt, Copied
    <3> QED  BY <3>1, <3>2
  <2>3. SameRecords(q)
    BY <1>1, LogRests DEF SameRecords
  <2>4. Calm(q)
    BY <1>1, <2>1, <2>2, <2>3 DEF Calm
  <2> QED  BY <1>1, <2>4, CalmPage
<1>3. PageInv(p)'
  BY PageCaptured
<1> QED  BY <1>1, <1>2, <1>3, PagesRest DEF LogContents

\* The copies are written: what they lack is beyond every redo point.
LEMMA PageWritten ==
  ASSUME ImageInv, NEW p \in Pages, CheckpointWrite
  PROVE  PageInv(p)'
<1>1. /\ ckpt.pc = "capture" /\ \A q \in Resident : frames[q].flush # "reserved"
      /\ flushed_lsn' = IF DOMAIN ckpt.image = {} THEN flushed_lsn ELSE Len(wal)
      /\ disk' = [q \in Pages |-> IF q \in DOMAIN ckpt.image
                                    THEN [disk[q] EXCEPT !.cached = ckpt.image[q]]
                                    ELSE disk[q]]
      /\ ckpt' = [ckpt EXCEPT !.pc = "sync"]
      /\ UNCHANGED <<wal, control, frames, guard, mode, cursor>>
  BY DEF CheckpointWrite
<1>2. /\ Recs(p)' = Recs(p) /\ Settled(p)' = Settled(p) /\ (Known(p)' <=> Known(p))
      /\ \A i : Pending(p, i)' <=> Pending(p, i)
      /\ \A i : Image(p, i)' <=> Image(p, i)
      /\ \A a, b : ImageIn(p, a, b)' <=> ImageIn(p, a, b)
      /\ PoolInv /\ PageInv(p) /\ \A i \in Recs(p) : i \in Nat \ {0}
      /\ Len(wal) \in Nat /\ flushed_lsn \in Nat /\ flushed_lsn <= Len(wal)
      /\ 1..flushed_lsn \subseteq 1..Len(wal)
  BY <1>1, LogRests
<1>3. /\ ckpt'.pc = "sync" /\ ckpt'.image = ckpt.image /\ (Copied(p)' <=> Copied(p))
      /\ \A r : RedoPoint(r)' <=> RedoPoint(r)
  <2>1. ckpt \in CkptRec
    BY <1>2 DEF PoolInv, Types, ActorTypes
  <2>2. ckpt'.pc = "sync" /\ ckpt'.image = ckpt.image
    BY <1>1, <2>1 DEF CkptRec
  <2> QED  BY <1>1, <2>2 DEF Copied, RedoPoint
<1>4. /\ mode \in {"up", "recovered"} /\ Running
  BY <1>1, CkptRuns
<1>5. /\ (Captured(p)' <=> Captured(p)) /\ (Captured(p) <=> Copied(p))
      /\ (Written(p)' <=> Written(p)) /\ (DirtyFrame(p)' <=> DirtyFrame(p))
      /\ Captured(p) => DirtyFrame(p) /\ ~ Written(p)
      /\ mode = "recovered" /\ DirtyFrame(p) => Captured(p)
  <2>1. /\ (Captured(p)' <=> Captured(p)) /\ (Written(p)' <=> Written(p))
        /\ (DirtyFrame(p)' <=> DirtyFrame(p))
    BY <1>1 DEF Captured, Written, DirtyFrame
  <2>2. Captured(p) <=> Copied(p)
    BY <1>1, <1>2 DEF PageInv, Writes
  <2>3. Captured(p) => DirtyFrame(p) /\ ~ Written(p)
    <3>1. Captured(p) => frames[p].rec_lsn # NoLsn /\ frames[p].flush = "captured"
      BY <1>2, FrameFacts DEF Captured, Starts, Flushing
    <3> QED  BY <1>2, <3>1 DEF PageInv, Writes, Captured, DirtyFrame, Written
  <2>4. mode = "recovered" /\ DirtyFrame(p) => Captured(p)
    <3>1. DirtyFrame(p) => frames[p].flush \in {"no", "captured"}
      BY <1>1, <1>2, FrameFacts DEF DirtyFrame, FrameRec, Resident
    <3> QED  BY <1>1, <1>2, <3>1 DEF PageInv, Redoing, DirtyFrame, Captured
  <2> QED  BY <2>1, <2>2, <2>3, <2>4
<1>6. /\ disk'[p].stable = disk[p].stable
      /\ disk'[p].cached = IF Copied(p) THEN ckpt.image[p] ELSE disk[p].cached
  <2>1. disk[p] \in [stable : Data, cached : Data]
    BY <1>2 DEF PoolInv, Types, PageTypes
  <2>2. disk'[p] = IF Copied(p) THEN [disk[p] EXCEPT !.cached = ckpt.image[p]] ELSE disk[p]
    BY <1>1 DEF Copied
  <2> QED  BY <2>1, <2>2
<1>7. /\ flushed_lsn <= flushed_lsn' /\ flushed_lsn' \in Nat /\ (Copied(p) => flushed_lsn' = Len(wal))
      /\ 1..flushed_lsn \subseteq 1..flushed_lsn'
  <2>1. /\ flushed_lsn <= flushed_lsn' /\ flushed_lsn' \in Nat
        /\ (Copied(p) => flushed_lsn' = Len(wal))
    BY <1>1, <1>2 DEF Copied
  <2> QED  BY <1>2, <2>1
<1>8. Copied(p) => ckpt.image[p] \subseteq 1..Len(wal) /\ ckpt.image[p] # NoImage
  <2>1. Copied(p) => ckpt.image[p] \subseteq 1..Len(wal)
    BY <1>2 DEF PageInv, Contents
  <2> QED  BY <2>1, NoImageFacts
<1>9. \A a : ImageIn(p, a, flushed_lsn) => ImageIn(p, a, flushed_lsn)'
  <2>1. \A i \in Recs(p) : i <= flushed_lsn => i <= flushed_lsn'
    BY <1>2, <1>7
  <2> QED  BY <1>1, <1>2, <2>1 DEF ImageIn
<1>10. Contents(p)'
  <2>1. \A x : x \subseteq 1..flushed_lsn => x \subseteq 1..flushed_lsn'
    BY <1>7
  <2>2. Copied(p) => ckpt.image[p] \subseteq 1..flushed_lsn'
    BY <1>7, <1>8
  <2>3. Copied(p) => disk[p].stable = NoImage \/ disk[p].stable \subseteq 1..flushed_lsn'
    BY <1>2, <2>1 DEF PageInv, Contents
  <2> QED  BY <1>1, <1>2, <1>3, <1>6, <1>8, <2>1, <2>2, <2>3 DEF PageInv, Contents
<1>11. Begins(p)'
  BY <1>2 DEF PageInv, Begins
<1>12. Writes(p)'
  <2>1. Written(p) => frames[p].rec_lsn < flushed_lsn'
    <3>1. Written(p) => frames[p].rec_lsn \in Lsns /\ frames[p].rec_lsn < flushed_lsn
      BY <1>2, FrameFacts DEF Written, PageInv, Writes
    <3>2. \A x \in Lsns : x \in Int
      BY DEF Lsns, NoLsn
    <3> QED  BY <1>2, <1>7, <3>1, <3>2
  <2> QED  BY <1>1, <1>2, <1>3, <1>5, <1>6, <2>1 DEF PageInv, Writes
<1>13. Coverage(p)'
  <2>1. ASSUME Copied(p), NEW i \in Recs(p), NEW r \in Nat, RedoPoint(r), i <= r
        PROVE  Covers(ckpt.image[p], i)
    <3>1. i \in Nat /\ \A x : Kept(x) => r <= x
      BY <1>2, <2>1, RedoPointFacts
    <3>2. i \in Settled(p)
      <4>1. ASSUME NEW t \in Threads, PendingAt(t, p, i) PROVE FALSE
        <5>1. Kept(i - 1)
          BY <1>2, <4>1, GuardFacts DEF PendingAt, Holding
        <5> QED  BY <2>1, <3>1, <5>1
      <4> QED  BY <4>1 DEF Settled, Pending
    <3>3. Captured(p) /\ frames[p].resident
      BY <1>5, <2>1 DEF Captured
    <3>4. ASSUME frames[p].redirty # NoLsn, frames[p].redirty < i PROVE FALSE
      <4>1. Kept(frames[p].redirty) /\ frames[p].redirty \in Lsns
        BY <1>2, <3>3, <3>4, FrameFacts DEF Starts
      <4>2. PICK x \in Nat : x = frames[p].redirty
        BY <3>4, <4>1 DEF Lsns
      <4>3. r <= x /\ x < i
        BY <3>1, <3>4, <4>1, <4>2
      <4> QED  BY <2>1, <3>1, <4>2, <4>3
    <3> QED  BY <1>2, <3>2, <3>3, <3>4 DEF PageInv, Coverage
  <2>2. ~ Copied(p) => disk'[p] = disk[p]
    BY <1>1 DEF Copied
  <2>3. ASSUME NEW i \in Recs(p), NEW r \in Nat, RedoPoint(r), i <= r
        PROVE  /\ disk'[p].stable = NoImage \/ Covers(disk'[p].stable, i)
               /\ disk'[p].cached = NoImage \/ Covers(disk'[p].cached, i)
    BY <1>2, <1>4, <1>6, <2>1, <2>3 DEF PageInv, Coverage
  <2>4. mode' # "failed" => \A i \in Recs(p)', r \in Nat : RedoPoint(r)' /\ i <= r =>
          /\ disk'[p].stable = NoImage \/ Covers(disk'[p].stable, i)
          /\ disk'[p].cached = NoImage \/ Covers(disk'[p].cached, i)
    BY <1>2, <1>3, <2>3
  <2>5. /\ Running' /\ DirtyFrame(p)' => \A i \in Settled(p)' : Covers(frames'[p].data, i)
        /\ Running' => \A i \in Settled(p)' :
             \/ Covers(disk'[p].stable, i)
             \/ DirtyFrame(p)' /\ (mode' = "up" => frames'[p].rec_lsn < i)
        /\ Captured(p)' => \A i \in Settled(p)' :
             \/ Covers(ckpt'.image[p], i)
             \/ frames'[p].redirty # NoLsn /\ frames'[p].redirty < i
    BY <1>1, <1>2, <1>3, <1>4, <1>5, <1>6 DEF PageInv, Coverage
  <2> QED  BY <2>4, <2>5 DEF Coverage
<1>14. FirstImage(p)'
  BY <1>1, <1>2 DEF PageInv, FirstImage
<1>15. Torn(p)'
  <2>1. CASE Copied(p)
    <3>1. \A r : RedoPoint(r) => ImageIn(p, r, flushed_lsn)'
      <4>1. \A a : ImageIn(p, a, Len(wal)) => ImageIn(p, a, flushed_lsn)'
        BY <1>1, <1>7, <2>1 DEF ImageIn, Recs
      <4> QED  BY <1>5, <2>1, <4>1, DirtyImage
    <3> QED  BY <1>3, <1>6, <1>8, <2>1, <3>1 DEF Torn
  <2>2. CASE ~ Copied(p)
    <3>1. disk'[p] = disk[p]
      BY <1>1, <2>2 DEF Copied
    <3> QED  BY <1>1, <1>2, <1>3, <1>9, <3>1 DEF PageInv, Torn
  <2> QED  BY <2>1, <2>2
<1>16. Redoing(p)'
  <2>1. mode # "redo" /\ mode' = mode
    BY <1>1, <1>4
  <2>2. PICK x : x = control.redo
    OBVIOUS
  <2>3. mode # "up" /\ DirtyFrame(p) => ImageIn(p, x, flushed_lsn)'
    BY <1>2, <1>9, <2>2 DEF PageInv, Redoing
  <2>4. x = control'.redo
    BY <1>1, <2>2
  <2>5. mode # "up" /\ DirtyFrame(p) => ImageIn(p, control.redo, flushed_lsn)'
    BY <2>3, <2>4
  <2>6. disk'[p].cached = NoImage => disk[p].cached = NoImage
    BY <1>6, <1>8
  <2> QED  BY <1>1, <1>2, <1>3, <1>5, <2>1, <2>5, <2>6 DEF PageInv, Redoing
<1> QED  BY <1>10, <1>11, <1>12, <1>13, <1>14, <1>15, <1>16 DEF PageInv

\* and synced.
LEMMA PageSynced ==
  ASSUME ImageInv, NEW p \in Pages, CheckpointSync
  PROVE  PageInv(p)'
<1>1. /\ ckpt.pc = "sync"
      /\ disk' = [q \in Pages |-> IF q \in DOMAIN ckpt.image
                                    THEN [disk[q] EXCEPT !.stable = disk[q].cached]
                                    ELSE disk[q]]
      /\ ckpt' = [ckpt EXCEPT !.pc = "finish"]
      /\ UNCHANGED <<wal, flushed_lsn, control, frames, guard, mode, cursor>>
  BY DEF CheckpointSync
<1>2. /\ Recs(p)' = Recs(p) /\ Settled(p)' = Settled(p) /\ (Known(p)' <=> Known(p))
      /\ \A i : Pending(p, i)' <=> Pending(p, i)
      /\ \A i : Image(p, i)' <=> Image(p, i)
      /\ \A a, b : ImageIn(p, a, b)' <=> ImageIn(p, a, b)
      /\ PoolInv /\ PageInv(p) /\ \A i \in Recs(p) : i \in Nat \ {0}
  BY <1>1, LogRests
<1>3. /\ ckpt'.pc = "finish" /\ ckpt'.image = ckpt.image /\ (Copied(p)' <=> Copied(p))
      /\ \A r : RedoPoint(r)' <=> RedoPoint(r)
  <2>1. ckpt \in CkptRec
    BY <1>2 DEF PoolInv, Types, ActorTypes
  <2>2. ckpt'.pc = "finish" /\ ckpt'.image = ckpt.image
    BY <1>1, <2>1 DEF CkptRec
  <2> QED  BY <1>1, <2>2 DEF Copied, RedoPoint
<1>4. /\ mode \in {"up", "recovered"} /\ Running /\ Running'
  BY <1>1, CkptRuns DEF Running
<1>5. /\ (Captured(p)' <=> Captured(p)) /\ (Captured(p) <=> Copied(p))
      /\ (Written(p)' <=> Written(p)) /\ (DirtyFrame(p)' <=> DirtyFrame(p))
      /\ Captured(p) => DirtyFrame(p) /\ disk[p].cached = ckpt.image[p]
  <2>1. /\ (Captured(p)' <=> Captured(p)) /\ (Written(p)' <=> Written(p))
        /\ (DirtyFrame(p)' <=> DirtyFrame(p))
    BY <1>1 DEF Captured, Written, DirtyFrame
  <2>2. (Captured(p) <=> Copied(p)) /\ (Captured(p) => disk[p].cached = ckpt.image[p])
    BY <1>1, <1>2 DEF PageInv, Writes
  <2>3. Captured(p) => DirtyFrame(p)
    BY <1>2, FrameFacts DEF Captured, Starts, Flushing, DirtyFrame
  <2> QED  BY <2>1, <2>2, <2>3
<1>6. /\ disk'[p].cached = disk[p].cached
      /\ disk'[p].stable = IF Copied(p) THEN disk[p].cached ELSE disk[p].stable
  <2>1. disk[p] \in [stable : Data, cached : Data]
    BY <1>2 DEF PoolInv, Types, PageTypes
  <2>2. disk'[p] = IF Copied(p) THEN [disk[p] EXCEPT !.stable = disk[p].cached] ELSE disk[p]
    BY <1>1 DEF Copied
  <2> QED  BY <2>1, <2>2
<1>7. Contents(p)'
  BY <1>1, <1>2, <1>3, <1>6 DEF PageInv, Contents
<1>8. Begins(p)'
  BY <1>2 DEF PageInv, Begins
<1>9. Writes(p)'
  BY <1>1, <1>2, <1>3, <1>5, <1>6 DEF PageInv, Writes
<1>10. Coverage(p)'
  <2>1. ASSUME NEW i \in Settled(p)
        PROVE  \/ Covers(disk'[p].stable, i)
               \/ DirtyFrame(p) /\ (mode = "up" => frames[p].rec_lsn < i)
    <3>1. CASE ~ Copied(p)
      BY <1>2, <1>4, <1>6, <3>1 DEF PageInv, Coverage
    <3>2. CASE Copied(p)
      <4>1. /\ DirtyFrame(p) /\ disk'[p].stable = ckpt.image[p] /\ Captured(p)
            /\ frames[p].resident
        BY <1>5, <1>6, <3>2 DEF Captured
      <4>2. \/ Covers(ckpt.image[p], i)
            \/ frames[p].redirty # NoLsn /\ frames[p].redirty < i
        BY <1>2, <4>1 DEF PageInv, Coverage
      <4>3. mode = "up" /\ frames[p].redirty # NoLsn => frames[p].rec_lsn <= frames[p].redirty
        BY <1>2, <4>1 DEF PageInv, FirstImage
      <4>4. frames[p].redirty \in Int /\ frames[p].rec_lsn \in Int /\ i \in Int
        <5>1. frames[p].redirty \in Lsns /\ frames[p].rec_lsn \in Lsns
          BY <1>2, <4>1, FrameFacts
        <5>2. \A x \in Lsns : x \in Int
          BY DEF Lsns, NoLsn
        <5>3. i \in Recs(p)
          BY DEF Settled
        <5> QED  BY <1>2, <5>1, <5>2, <5>3
      <4> QED  BY <4>1, <4>2, <4>3, <4>4
    <3> QED  BY <3>1, <3>2
  <2>2. \A i \in Recs(p), r \in Nat : RedoPoint(r) /\ i <= r =>
          /\ disk'[p].stable = NoImage \/ Covers(disk'[p].stable, i)
          /\ disk'[p].cached = NoImage \/ Covers(disk'[p].cached, i)
    BY <1>2, <1>4, <1>6 DEF PageInv, Coverage
  <2> QED  BY <1>1, <1>2, <1>3, <1>4, <1>5, <2>1, <2>2 DEF PageInv, Coverage
<1>11. FirstImage(p)'
  BY <1>1, <1>2 DEF PageInv, FirstImage
<1>12. Torn(p)'
  BY <1>1, <1>2, <1>3, <1>6 DEF PageInv, Torn
<1>13. Redoing(p)'
  BY <1>1, <1>2, <1>3, <1>4, <1>5, <1>6 DEF PageInv, Redoing
<1> QED  BY <1>7, <1>8, <1>9, <1>10, <1>11, <1>12, <1>13 DEF PageInv

\* The frame is clean, or dirty from the first change since the copy.
LEMMA FinishImage ==
  ASSUME ImageInv, NEW p \in Pages, CheckpointFinish(p)
  PROVE  ImageInv'
<1>1. /\ ckpt.pc = "finish" /\ frames[p].resident /\ frames[p].flush = "captured"
      /\ frames' = [frames EXCEPT ![p] = FinishFrame(frames[p])]
      /\ UNCHANGED <<wal, flushed_lsn, control, disk, guard, ckpt, mode, cursor>>
  BY DEF CheckpointFinish
<1>2. /\ Recs(p)' = Recs(p) /\ Settled(p)' = Settled(p) /\ (Known(p)' <=> Known(p))
      /\ \A i : Pending(p, i)' <=> Pending(p, i)
      /\ \A i : Image(p, i)' <=> Image(p, i)
      /\ \A a, b : ImageIn(p, a, b)' <=> ImageIn(p, a, b)
      /\ \A r : RedoPoint(r)' <=> RedoPoint(r)
      /\ (Copied(p)' <=> Copied(p)) /\ PoolInv /\ PageInv(p)
      /\ flushed_lsn \in Nat /\ Len(wal) \in Nat
  BY <1>1, Unlogged
<1>3. /\ frames[p] \in FrameRec /\ frames \in [Pages -> FrameRec \cup {NoFrame}]
      /\ frames[p].rec_lsn # NoLsn /\ frames[p].evict = "no"
  BY <1>1, <1>2, FrameFacts DEF PageInv, Writes, PoolInv, Types, PageTypes, Starts, Flushing
<1>4. /\ frames'[p].resident /\ frames'[p].data = frames[p].data
      /\ frames'[p].rec_lsn = frames[p].redirty /\ frames'[p].redirty = NoLsn
      /\ frames'[p].evict = "no" /\ frames'[p].flush = "no"
      /\ frames'[p].needs_fpi = frames[p].needs_fpi
      /\ \A q \in Pages \ {p} : frames'[q] = frames[q]
  <2>1. /\ frames'[p] = [frames[p] EXCEPT !.flush = "no", !.redirty = NoLsn,
                                          !.rec_lsn = frames[p].redirty]
        /\ \A q \in Pages \ {p} : frames'[q] = frames[q]
    BY <1>1, <1>3 DEF FinishFrame
  <2> QED  BY <1>1, <1>3, <2>1 DEF FrameRec
<1>5. /\ Running /\ mode \in {"up", "recovered"}
      /\ DirtyFrame(p) /\ Captured(p) /\ ~ Captured(p)' /\ ~ Written(p) /\ ~ Written(p)'
      /\ DirtyFrame(p)' <=> frames[p].redirty # NoLsn
  BY <1>1, <1>3, <1>4, CkptRuns DEF DirtyFrame, Captured, Written
<1>6. /\ disk[p].stable = ckpt.image[p] /\ disk[p].cached = ckpt.image[p]
      /\ disk[p].cached # NoImage
  <2>1. /\ disk[p].stable = ckpt.image[p] /\ disk[p].cached = ckpt.image[p] /\ Copied(p)
    BY <1>1, <1>2, <1>5 DEF PageInv, Writes
  <2>2. ckpt.image[p] \subseteq 1..Len(wal)
    BY <1>2, <2>1 DEF PageInv, Contents
  <2> QED  BY <2>1, <2>2, NoImageFacts
<1>7. mode = "recovered" => ~ DirtyFrame(p)'
  BY <1>1, <1>2, <1>5 DEF PageInv, Redoing
<1>8. Contents(p)'
  BY <1>1, <1>2, <1>4 DEF PageInv, Contents
<1>9. Begins(p)'
  BY <1>2 DEF PageInv, Begins
<1>10. Writes(p)'
  BY <1>1, <1>2, <1>4, <1>5, <1>6 DEF PageInv, Writes
<1>11. Coverage(p)'
  <2>1. \A i \in Settled(p) : \/ Covers(disk[p].stable, i)
                              \/ frames[p].redirty # NoLsn /\ frames[p].redirty < i
    BY <1>2, <1>5, <1>6 DEF PageInv, Coverage
  <2> QED  BY <1>1, <1>2, <1>4, <1>5, <2>1 DEF PageInv, Coverage, Running
<1>12. FirstImage(p)'
  <2>1. \A i \in Nat : NoLsn < i
    BY DEF NoLsn
  <2> QED  BY <1>1, <1>2, <1>4, <2>1 DEF PageInv, FirstImage
<1>13. Torn(p)'
  BY <1>1, <1>2 DEF PageInv, Torn
<1>14. Redoing(p)'
  BY <1>1, <1>2, <1>4, <1>5, <1>6, <1>7 DEF PageInv, Redoing
<1>15. PageInv(p)'
  BY <1>8, <1>9, <1>10, <1>11, <1>12, <1>13, <1>14 DEF PageInv
<1>16. PoolInv' /\ flushed_lsn <= flushed_lsn /\ (mode # "up" => flushed_lsn = Len(wal))
  BY <1>2, FinishStep DEF ImageInv, LogContents
<1> QED  BY <1>1, <1>4, <1>15, <1>16, AtPage

\* The checkpoint goes on without a page in its hands.
LEMMA QuietPage ==
  ASSUME ImageInv, LogTypes', NEW p \in Pages, SameRecords(p),
         frames'[p] = frames[p], disk'[p] = disk[p], cursor' = cursor,
         ckpt.pc \in {"finish", "marker", "store", "recycle"},
         ckpt'.pc \notin {"capture", "sync", "finish"},
         frames[p].resident => frames[p].flush = "no",
         \A r : RedoPoint(r)' => RedoPoint(r), mode' \in {"up", mode},
         Copied(p)' => Copied(p) /\ ckpt'.image[p] = ckpt.image[p]
  PROVE  PageInv(p)'
<1>1. LogTypes /\ PoolInv /\ PageInv(p) /\ mode \in {"up", "recovered"} /\ Running
  BY CkptRuns DEF ImageInv, PoolInv, Types
<1>2. /\ Settled(p)' = Settled(p) /\ (Known(p)' <=> Known(p)) /\ Recs(p)' = Recs(p)
      /\ \A i : Image(p, i)' <=> Image(p, i)
      /\ \A a, b : ImageIn(p, a, b)' <=> ImageIn(p, a, b)
      /\ \A a \in Nat : ImageIn(p, a, flushed_lsn) => ImageIn(p, a, flushed_lsn)'
      /\ \A i \in Recs(p) : wal'[i] = wal[i] /\ i \in Nat
      /\ \A i \in Nat : Pending(p, i)' <=> Pending(p, i)
  BY <1>1, SameFacts, RecsFacts DEF SameRecords
<1>3. /\ ~ Captured(p) /\ ~ Captured(p)' /\ (Written(p)' <=> Written(p))
      /\ (DirtyFrame(p)' <=> DirtyFrame(p)) /\ Running'
  BY <1>1 DEF Captured, Written, DirtyFrame, Running
<1>4. mode = "recovered" => ~ DirtyFrame(p)
  BY <1>1, <1>3 DEF PageInv, Redoing
<1>5. /\ Len(wal) \in Nat /\ Len(wal') \in Nat /\ flushed_lsn \in Nat /\ flushed_lsn' \in Nat
      /\ Len(wal) <= Len(wal') /\ flushed_lsn <= flushed_lsn'
  BY <1>1 DEF LogTypes, SameRecords
<1>6. 1..Len(wal) \subseteq 1..Len(wal') /\ 1..flushed_lsn \subseteq 1..flushed_lsn'
  BY <1>5
<1>7. frames[p].resident => frames[p].redirty = NoLsn
  BY <1>1, FrameFacts DEF Starts, Flushing
<1>8. Contents(p)'
  BY <1>1, <1>6 DEF PageInv, Contents
<1>9. Begins(p)'
  BY <1>1, <1>2 DEF PageInv, Begins
<1>10. Writes(p)'
  <2>1. Written(p) => frames[p].rec_lsn < flushed_lsn'
    <3>1. Written(p) => frames[p].rec_lsn \in Lsns /\ frames[p].rec_lsn < flushed_lsn
      BY <1>1, FrameFacts DEF Written, PageInv, Writes
    <3>2. \A x \in Lsns : x \in Int
      BY DEF Lsns, NoLsn
    <3> QED  BY <1>5, <3>1, <3>2
  <2> QED  BY <1>1, <1>3, <2>1 DEF PageInv, Writes
<1>11. Coverage(p)'
  BY <1>1, <1>2, <1>3, <1>4 DEF PageInv, Coverage
<1>12. FirstImage(p)'
  BY <1>1, <1>2, <1>4, <1>7 DEF PageInv, FirstImage, DirtyFrame
<1>13. Torn(p)'
  <2>1. mode = "recovered" /\ disk[p].cached = NoImage => p \notin OldPages
    BY <1>1, <1>4 DEF PageInv, Redoing, Known
  <2> QED  BY <1>1, <1>2, <2>1 DEF PageInv, Torn
<1>14. Redoing(p)'
  BY <1>1, <1>2, <1>3, <1>4 DEF PageInv, Redoing
<1> QED  BY <1>8, <1>9, <1>10, <1>11, <1>12, <1>13, <1>14 DEF PageInv

LEMMA QuietSteps ==
  ASSUME ImageInv, CheckpointFence \/ CheckpointMarker \/ CheckpointStore \/ CheckpointRecycle
  PROVE  ImageInv'
<1>1. PoolInv /\ LogTypes /\ LogContents /\ ckpt \in CkptRec /\ Boundaries
  BY DEF ImageInv, PoolInv, Types, ActorTypes
<1>2. PoolInv' /\ LogTypes'
  <2>1. PoolInv'
    BY <1>1, WriteSteps, MarkerStep, StoreStep, RecycleStep
  <2> QED  BY <2>1 DEF PoolInv, Types
<1>3. /\ UNCHANGED <<disk, frames, guard, cursor>> /\ mode' \in {"up", mode}
      /\ ckpt.pc \in {"finish", "marker", "store", "recycle"}
      /\ CheckpointFence => \A p \in Resident : frames[p].flush = "no"
      /\ CheckpointMarker \/ UNCHANGED <<wal, flushed_lsn>>
      /\ CheckpointFence \/ ckpt.pc # "finish"
  BY DEF CheckpointFence, CheckpointMarker, CheckpointStore, CheckpointRecycle
<1>4. /\ ckpt'.pc \notin {"capture", "sync", "finish"}
      /\ \A p : Copied(p)' => Copied(p) /\ ckpt'.image[p] = ckpt.image[p]
      /\ \A r : RedoPoint(r)' => RedoPoint(r)
  <2>1. CASE CheckpointFence
    <3>1. ckpt' = [ckpt EXCEPT !.pc = "fence"] /\ control' = control
      BY <2>1 DEF CheckpointFence
    <3>2. ckpt'.pc = "fence" /\ ckpt'.image = ckpt.image
      BY <1>1, <3>1 DEF CkptRec
    <3> QED  BY <3>1, <3>2 DEF Copied, RedoPoint
  <2>2. CASE CheckpointMarker
    <3>1. ckpt' = [ckpt EXCEPT !.pc = "store"] /\ control' = control /\ ckpt.pc = "marker"
      BY <2>2 DEF CheckpointMarker
    <3>2. ckpt'.pc = "store" /\ ckpt'.image = ckpt.image /\ ckpt'.redo = ckpt.redo
      BY <1>1, <3>1 DEF CkptRec
    <3> QED  BY <3>1, <3>2 DEF Copied, RedoPoint
  <2>3. CASE CheckpointStore
    <3>1. /\ ckpt' = [ckpt EXCEPT !.pc = "recycle"] /\ ckpt.pc = "store"
          /\ control' = [redo |-> ckpt.redo, end |-> ckpt.end]
      BY <2>3 DEF CheckpointStore
    <3>2. ckpt'.pc = "recycle" /\ ckpt'.image = ckpt.image /\ control'.redo = ckpt.redo
      BY <1>1, <3>1 DEF CkptRec
    <3> QED  BY <3>1, <3>2 DEF Copied, RedoPoint
  <2>4. CASE CheckpointRecycle
    <3>1. ckpt' = IdleCkpt /\ control' = control
      BY <2>4 DEF CheckpointRecycle
    <3>2. ckpt'.pc = "idle" /\ ckpt'.image = <<>>
      BY <3>1 DEF IdleCkpt
    <3> QED  BY <3>1, <3>2 DEF Copied, RedoPoint
  <2> QED  BY <2>1, <2>2, <2>3, <2>4
<1>5. /\ \A p \in Pages : Recs(p)' = Recs(p) /\ \A i \in Recs(p) : wal'[i] = wal[i]
      /\ Len(wal) <= Len(wal') /\ flushed_lsn <= flushed_lsn'
      /\ \A i \in 1..Len(wal) : wal'[i] = wal[i]
      /\ mode' # "up" => flushed_lsn' = Len(wal')
  <2>1. CASE CheckpointMarker
    <3>1. Append1(NoPage, "marker", {}) /\ flushed_lsn' = Len(wal) + 1 /\ {} \in Data
      BY <2>1 DEF CheckpointMarker, Data
    <3>2. /\ Len(wal') = Len(wal) + 1 /\ Len(wal) \in Nat
          /\ \A i \in 1..Len(wal) : wal'[i] = wal[i]
      BY <1>1, <3>1, AppendFacts
    <3>3. \A p \in Pages : Recs(p)' = Recs(p) /\ \A i \in Recs(p) : wal'[i] = wal[i]
      BY <1>1, <3>1, AppendOther, PoolAssumption
    <3>4. Len(wal) <= Len(wal') /\ flushed_lsn <= flushed_lsn' /\ flushed_lsn' = Len(wal')
      BY <1>1, <3>1, <3>2 DEF LogTypes
    <3> QED  BY <3>2, <3>3, <3>4
  <2>2. CASE ~ CheckpointMarker
    BY <1>1, <1>3, <2>2 DEF LogTypes, LogContents, Recs
  <2> QED  BY <2>1, <2>2
<1>6. \A p \in Pages : Known(p)' <=> Known(p)
  BY <1>5 DEF Known
<1>7. ThreadInv'
  BY <1>2, <1>3, <1>5, <1>6, ThreadsRest
<1>8. LogContents'
  BY <1>1, <1>5 DEF LogContents
<1>9. ASSUME NEW p \in Pages PROVE PageInv(p)'
  <2>1. \A i : Pending(p, i)' <=> Pending(p, i)
    BY <1>3 DEF Pending, PendingAt
  <2>2. SameRecords(p)
    BY <1>5, <2>1 DEF SameRecords
  <2>3. frames[p].resident => frames[p].flush = "no"
    BY <1>1, <1>3, FrameFacts DEF Starts, Writing, Resident
  <2> QED  BY <1>2, <1>3, <1>4, <2>2, <2>3, QuietPage
<1> QED  BY <1>2, <1>7, <1>8, <1>9 DEF ImageInv

\* The redo point of the next control record: no frame is dirty from below it, and
\* no record waits to be published, so the files have all that lies below it.
LEMMA TablesImage ==
  ASSUME ImageInv, CheckpointTables
  PROVE  ImageInv'
<1>1. /\ ckpt.pc = "fence" /\ \A t \in Threads : ~ shared(t)
      /\ ckpt' = [ckpt EXCEPT !.pc = "marker", !.end = Len(wal),
                    !.redo = Min({frames[q].rec_lsn : q \in Dirty} \cup {Len(wal)})]
      /\ UNCHANGED <<wal, flushed_lsn, control, disk, frames, guard, mode, cursor>>
  BY DEF CheckpointTables
<1>2. PoolInv /\ PoolInv' /\ LogContents
  <2>1. PoolInv /\ LogContents
    BY DEF ImageInv
  <2> QED  BY <2>1, TablesStep
<1>3. /\ mode \in {"up", "recovered"} /\ Running /\ Running'
  BY <1>1, CkptRuns DEF Running
<1>4. /\ ckpt'.pc = "marker" /\ ckpt'.image = ckpt.image
  BY <1>1, <1>2, CkptFacts DEF CkptRec
<1>5. PICK m : m = ckpt'.redo
  OBVIOUS
<1>6. /\ m \in Nat /\ \A r : RedoPoint(r)' <=> RedoPoint(r) \/ r = m
  BY <1>1, <1>2, <1>4, <1>5, CkptFacts DEF RedoPoint, PoolInv, Types, ActorTypes, CkptRec
<1>7. ASSUME NEW p \in Pages, DirtyFrame(p)
      PROVE  mode = "up" /\ frames[p].rec_lsn \in Nat /\ m <= frames[p].rec_lsn
  <2>1. mode = "up"
    <3>1. ~ Captured(p)
      BY <1>1, <1>2, <1>7, FrameFacts DEF Starts, Writing, DirtyFrame, Captured
    <3> QED  BY <1>1, <1>3, <1>7, <3>1 DEF ImageInv, PageInv, Redoing
  <2>2. frames'[p].resident /\ frames'[p].rec_lsn # NoLsn
    BY <1>1, <1>7 DEF DirtyFrame
  <2>3. Starts(frames[p])' /\ frames'[p].rec_lsn \in Lsns
    <3>1. p \in Resident'
      BY <2>2 DEF Resident
    <3>2. frames[p] \in FrameRec
      BY <1>2, <1>7, FrameFacts DEF DirtyFrame
    <3> QED  BY <1>1, <1>2, <3>1, <3>2 DEF PoolInv, FrameRec
  <2>4. Kept(frames[p].rec_lsn)'
    BY <2>2, <2>3 DEF Starts
  <2>5. m <= frames'[p].rec_lsn
    BY <1>4, <1>5, <2>4 DEF Kept
  <2> QED  BY <1>1, <2>1, <2>2, <2>3, <2>5 DEF Lsns
<1>8. ASSUME NEW p \in Pages PROVE PageInv(p)'
  <2>1. /\ Recs(p)' = Recs(p) /\ Settled(p)' = Settled(p) /\ (Known(p)' <=> Known(p))
        /\ \A i : Pending(p, i)' <=> Pending(p, i)
        /\ \A i : Image(p, i)' <=> Image(p, i)
        /\ \A a, b : ImageIn(p, a, b)' <=> ImageIn(p, a, b)
        /\ PageInv(p) /\ \A i \in Recs(p) : i \in Nat \ {0}
        /\ Len(wal) \in Nat /\ flushed_lsn \in Nat
    BY <1>1, LogRests
  <2>2. Settled(p) = Recs(p)
    <3>1. \A t \in Threads : guard[t].pc \notin {"logged", "newlogged"}
      BY <1>1 DEF shared, HoldsPage
    <3> QED  BY <3>1 DEF Settled, Pending, PendingAt
  <2>3. /\ ~ Captured(p) /\ ~ Captured(p)' /\ (Written(p)' <=> Written(p))
        /\ (DirtyFrame(p)' <=> DirtyFrame(p)) /\ (Copied(p)' <=> Copied(p))
    <3>1. ~ Captured(p)
      BY <1>1, <1>2, FrameFacts DEF Starts, Writing, Captured
    <3> QED  BY <1>1, <1>4, <3>1 DEF Captured, Written, DirtyFrame, Copied
  <2>4. ASSUME NEW i \in Recs(p), i <= m
        PROVE  /\ Covers(disk[p].stable, i)
               /\ disk[p].cached = NoImage \/ Covers(disk[p].cached, i)
    <3>1. Covers(disk[p].stable, i)
      <4>1. ~ (DirtyFrame(p) /\ (mode = "up" => frames[p].rec_lsn < i))
        BY <1>6, <1>7, <2>1, <2>4
      <4> QED  BY <1>3, <2>1, <2>2, <4>1 DEF PageInv, Coverage
    <3>2. disk[p].stable # disk[p].cached => Covers(disk[p].cached, i)
      <4>1. disk[p].stable # disk[p].cached =>
              disk[p].cached = frames[p].data /\ DirtyFrame(p)
        BY <1>1, <2>1 DEF PageInv, Writes, Written, DirtyFrame
      <4> QED  BY <1>3, <2>1, <2>2, <4>1 DEF PageInv, Coverage
    <3> QED  BY <3>1, <3>2
  <2>5. Contents(p)'
    BY <1>1, <1>4, <2>1, <2>3 DEF PageInv, Contents
  <2>6. Begins(p)'
    BY <2>1 DEF PageInv, Begins
  <2>7. Writes(p)'
    BY <1>1, <1>4, <2>1, <2>3 DEF PageInv, Writes
  <2>8. Coverage(p)'
    BY <1>1, <1>3, <1>6, <2>1, <2>3, <2>4 DEF PageInv, Coverage
  <2>9. FirstImage(p)'
    BY <1>1, <2>1 DEF PageInv, FirstImage
  <2>10. Torn(p)'
    <3>1. disk[p].stable # disk[p].cached => ImageIn(p, m, flushed_lsn)
      <4>1. SUFFICES ASSUME disk[p].stable # disk[p].cached PROVE ImageIn(p, m, flushed_lsn)
        OBVIOUS
      <4>2. Written(p) /\ frames[p].resident /\ DirtyFrame(p) /\ frames[p].rec_lsn < flushed_lsn
        BY <1>1, <2>1, <4>1 DEF PageInv, Writes, Written, DirtyFrame
      <4>3. PICK x \in Nat : x = frames[p].rec_lsn
        BY <1>7, <4>2
      <4>4. m <= x /\ x < flushed_lsn /\ Image(p, x + 1)
        BY <1>7, <2>1, <4>2, <4>3 DEF PageInv, FirstImage, DirtyFrame
      <4>5. m < x + 1 /\ x + 1 <= flushed_lsn
        BY <1>6, <2>1, <4>3, <4>4
      <4> QED  BY <4>4, <4>5 DEF Image, ImageIn
    <3>2. disk[p].cached = NoImage /\ Known(p) => p \notin OldPages /\ \A i \in Recs(p) : m < i
      <4>1. SUFFICES ASSUME disk[p].cached = NoImage, Known(p)
                     PROVE  p \notin OldPages /\ \A i \in Recs(p) : m < i
        OBVIOUS
      <4>2. mode = "up"
        BY <1>3, <1>7, <2>1, <4>1 DEF PageInv, Redoing
      <4>3. p \notin OldPages /\ disk[p].stable = NoImage
        BY <2>1, <4>1, <4>2 DEF PageInv, Torn, Contents
      <4>4. ASSUME NEW i \in Recs(p) PROVE m < i
        <5>1. ~ Covers(disk[p].stable, i) /\ i \in Nat
          BY <2>1, <4>3, NoImageFacts
        <5>2. ~ i <= m
          BY <2>4, <5>1
        <5> QED  BY <1>6, <5>1, <5>2
      <4> QED  BY <4>3, <4>4
    <3> QED  BY <1>1, <1>6, <2>1, <3>1, <3>2 DEF PageInv, Torn
  <2>11. Redoing(p)'
    BY <1>1, <1>3, <1>7, <2>1, <2>3 DEF PageInv, Redoing
  <2> QED  BY <2>5, <2>6, <2>7, <2>8, <2>9, <2>10, <2>11 DEF PageInv
<1> QED  BY <1>1, <1>2, <1>8, PagesRest DEF LogContents

LEMMA CheckpointImages ==
  ASSUME ImageInv, Checkpoint
  PROVE  ImageInv'
<1>1. PoolInv /\ LogContents
  BY DEF ImageInv
<1>2. CASE CheckpointWrite
  <2>1. /\ UNCHANGED <<wal, guard, mode>>
        /\ flushed_lsn' = IF DOMAIN ckpt.image = {} THEN flushed_lsn ELSE Len(wal)
    BY <1>2 DEF CheckpointWrite
  <2>2. PoolInv' /\ \A p \in Pages : PageInv(p)'
    BY <1>1, <1>2, WriteSteps, PageWritten
  <2> QED  BY <1>1, <2>1, <2>2, PagesRest DEF LogContents
<1>3. CASE CheckpointSync
  <2>1. UNCHANGED <<wal, guard, mode, flushed_lsn>>
    BY <1>3 DEF CheckpointSync
  <2>2. PoolInv' /\ \A p \in Pages : PageInv(p)'
    BY <1>1, <1>3, WriteSteps, PageSynced
  <2> QED  BY <1>1, <2>1, <2>2, PagesRest DEF LogContents
<1> QED  BY <1>2, <1>3, QuietSteps, TablesImage, CaptureImage, FinishImage DEF Checkpoint

-----------------------------------------------------------------------------
(* Crash and redo.                                                         *)

\* A crash picks one of the images on disk, or tears the page.
LEMMA PageCrashed ==
  ASSUME ImageInv, NEW p \in Pages, Crash
  PROVE  PageInv(p)'
<1>1. /\ wal' = SubSeq(wal, 1, flushed_lsn) /\ frames' = [q \in Pages |-> NoFrame]
      /\ guard' = [t \in Threads |-> IdleGuard] /\ ckpt' = IdleCkpt
      /\ cursor' = control.redo + 1 /\ mode' \in {"redo", "failed"} /\ mode # "failed"
      /\ UNCHANGED <<flushed_lsn, control>>
  BY DEF Crash
<1>2. PICK d \in [Pages -> {"stable", "cached", "torn"}] :
        /\ \A q \in Pages : disk[q].stable = disk[q].cached => d[q] = "stable"
        /\ disk' = [q \in Pages |->
             LET image == IF d[q] = "torn" THEN NoImage ELSE disk[q][d[q]]
             IN  [stable |-> image, cached |-> image]]
  BY DEF Crash
<1>3. PICK im : im = IF d[p] = "torn" THEN NoImage ELSE disk[p][d[p]]
  OBVIOUS
<1>4. /\ disk'[p].stable = im /\ disk'[p].cached = im
      /\ im = NoImage \/ im = disk[p].stable \/ im = disk[p].cached
      /\ disk[p].stable = disk[p].cached => im = disk[p].stable
  <2>1. d[p] = "stable" \/ d[p] = "cached" \/ d[p] = "torn"
    BY <1>2
  <2> QED  BY <1>2, <1>3, <2>1
<1>5. /\ PoolInv /\ LogTypes /\ PageInv(p) /\ LogContents /\ Boundaries
      /\ Len(wal) \in Nat /\ flushed_lsn \in Nat /\ flushed_lsn <= Len(wal)
      /\ control.redo \in Nat
  BY CkptFacts DEF ImageInv, LogTypes
<1>6. /\ Len(wal') = flushed_lsn /\ \A i \in 1..flushed_lsn : wal'[i] = wal[i]
      /\ 1..flushed_lsn \subseteq 1..Len(wal)
  BY <1>1, <1>5 DEF LogTypes
<1>7. /\ Recs(p)' = {i \in Recs(p) : i <= flushed_lsn}
      /\ \A i \in Recs(p) : i <= flushed_lsn => wal'[i] = wal[i]
      /\ \A i \in Recs(p) : i \in Nat \ {0}
  <2>1. \A i \in Recs(p) : i \in Nat \ {0} /\ i \in 1..Len(wal)
    BY <1>5, RecsFacts DEF Recs
  <2>2. \A i \in Recs(p) : i <= flushed_lsn => i \in 1..flushed_lsn
    BY <1>5, <2>1
  <2>3. \A i \in 1..flushed_lsn : i <= flushed_lsn
    BY <1>5
  <2> QED  BY <1>6, <2>1, <2>2, <2>3 DEF Recs
<1>8. /\ \A a, b : b \in Nat /\ b <= flushed_lsn => (ImageIn(p, a, b) => ImageIn(p, a, b)')
      /\ Known(p)' => Known(p)
  <2>1. ASSUME NEW a, NEW b \in Nat, b <= flushed_lsn, ImageIn(p, a, b) PROVE ImageIn(p, a, b)'
    <3>1. PICK i \in Recs(p) : a < i /\ i <= b /\ wal[i].kind = "image"
      BY <2>1 DEF ImageIn
    <3>2. i <= flushed_lsn
      BY <1>5, <1>7, <2>1, <3>1
    <3>3. i \in Recs(p)' /\ wal'[i].kind = "image"
      BY <1>7, <3>1, <3>2
    <3> QED  BY <3>1, <3>3 DEF ImageIn
  <2> QED  BY <1>7, <2>1 DEF Known
<1>9. \A a : ImageIn(p, a, flushed_lsn) => ImageIn(p, a, flushed_lsn)'
  <2>1. \A a : ImageIn(p, a, flushed_lsn) =>
          \E i \in Recs(p)' : a < i /\ i <= flushed_lsn /\ wal'[i].kind = "image"
    BY <1>7 DEF ImageIn
  <2> QED  BY <1>1, <2>1 DEF ImageIn
<1>10. /\ ~ frames'[p].resident /\ ~ Written(p)' /\ ~ Captured(p)' /\ ~ DirtyFrame(p)'
       /\ ~ Copied(p)' /\ Served(p)' = im
  BY <1>1, <1>4 DEF NoFrame, Written, Captured, DirtyFrame, Copied, IdleCkpt, Served
<1>11. \A r : RedoPoint(r)' <=> r = control.redo
  BY <1>1 DEF RedoPoint, IdleCkpt
<1>12. RedoPoint(control.redo)
  BY DEF RedoPoint
<1>13. \A i : ~ Pending(p, i)'
  BY <1>1 DEF Pending, PendingAt, IdleGuard
<1>14. Contents(p)'
  BY <1>1, <1>4, <1>5, <1>10 DEF PageInv, Contents
<1>15. Begins(p)'
  <2>1. ASSUME p \notin OldPages, NEW i \in Recs(p)' PROVE ImageIn(p, 0, i)'
    BY <1>5, <1>7, <1>8, <2>1 DEF PageInv, Begins
  <2> QED  BY <2>1 DEF Begins
<1>16. Writes(p)'
  BY <1>4, <1>10 DEF Writes
<1>17. \A i \in Recs(p) : i <= control.redo => im = NoImage \/ Covers(im, i)
  BY <1>1, <1>4, <1>5, <1>12 DEF PageInv, Coverage
<1>18. Coverage(p)'
  BY <1>1, <1>4, <1>7, <1>10, <1>11, <1>17 DEF Coverage, Running
<1>19. FirstImage(p)'
  BY <1>10, <1>13 DEF FirstImage
<1>20. PICK x \in Nat : x = control.redo
  BY <1>5
<1>21. /\ disk[p].stable # disk[p].cached => ImageIn(p, x, flushed_lsn)'
       /\ im = NoImage /\ Known(p)' =>
            \/ ImageIn(p, x, flushed_lsn)'
            \/ p \notin OldPages /\ \A i \in Recs(p) : x < i
  <2>1. disk[p].stable # disk[p].cached => ImageIn(p, x, flushed_lsn)
    BY <1>5, <1>12, <1>20 DEF PageInv, Torn
  <2>2. disk[p].stable = disk[p].cached /\ im = NoImage /\ Known(p) =>
          \/ ImageIn(p, x, flushed_lsn)
          \/ p \notin OldPages /\ \A i \in Recs(p) : x < i
    BY <1>4, <1>5, <1>12, <1>20 DEF PageInv, Torn
  <2> QED  BY <1>8, <1>9, <2>1, <2>2
<1>22. Torn(p)'
  <2>1. \A i \in Recs(p)' : i \in Recs(p)
    BY <1>7
  <2> QED  BY <1>1, <1>4, <1>11, <1>20, <1>21, <2>1 DEF Torn
<1>23. ASSUME NEW i \in Recs(p), i <= flushed_lsn, control.redo < i, wal[i].kind # "image"
       PROVE  im = NoImage \/ Covers(im, i) \/ ImageIn(p, x, flushed_lsn)
  <2>1. CASE disk[p].stable # disk[p].cached
    BY <1>5, <1>12, <1>20, <2>1 DEF PageInv, Torn
  <2>2. CASE disk[p].stable = disk[p].cached
    <3>1. im = disk[p].stable /\ mode \in {"up", "redo", "recovered"}
      BY <1>1, <1>4, <1>5, <2>2, CkptFacts DEF ActorTypes
    <3>2. CASE mode = "redo"
      BY <1>5, <1>20, <1>23, <3>1, <3>2 DEF PageInv, Redoing
    <3>3. CASE mode = "recovered"
      <4>1. i \in Settled(p)
        BY <1>23, <3>3 DEF ImageInv, ThreadInv, Settled, Pending, PendingAt
      <4>2. Covers(disk[p].stable, i) \/ DirtyFrame(p)
        BY <1>5, <3>3, <4>1 DEF PageInv, Coverage, Running
      <4> QED  BY <1>5, <1>20, <3>1, <3>3, <4>2 DEF PageInv, Redoing
    <3>4. CASE mode = "up"
      <4>1. SUFFICES ASSUME ~ Covers(im, i) PROVE ImageIn(p, x, flushed_lsn)
        OBVIOUS
      <4>2. DirtyFrame(p) /\ frames[p].rec_lsn < i
        <5>1. CASE i \in Settled(p)
          BY <1>5, <3>1, <3>4, <4>1, <5>1 DEF PageInv, Coverage, Running
        <5>2. CASE i \notin Settled(p)
          <6>1. PICK t \in Threads : PendingAt(t, p, i)
            BY <5>2 DEF Settled, Pending
          <6>2. Latches(t, p)
            BY <6>1 DEF PendingAt, Latches, HoldsPage, HoldsNew
          <6>3. frames[p].resident /\ Pending(p, i) /\ i \in Nat
            BY <1>7, <6>1, <6>2, LatchedFacts DEF Pending
          <6> QED  BY <1>5, <1>23, <6>3 DEF PageInv, FirstImage, DirtyFrame
        <5> QED  BY <5>1, <5>2
      <4>3. Kept(frames[p].rec_lsn) /\ frames[p].rec_lsn \in Lsns /\ frames[p].rec_lsn # NoLsn
        BY <1>5, <4>2, FrameFacts DEF DirtyFrame, Starts
      <4>4. PICK y \in Nat : y = frames[p].rec_lsn
        BY <4>3 DEF Lsns
      <4>5. x <= y /\ y < i /\ Image(p, y + 1)
        BY <1>5, <1>20, <3>4, <4>2, <4>3, <4>4 DEF Kept, PageInv, FirstImage, DirtyFrame
      <4>6. x < y + 1 /\ y + 1 <= flushed_lsn
        BY <1>5, <1>7, <1>20, <1>23, <4>4, <4>5
      <4> QED  BY <4>5, <4>6 DEF Image, ImageIn
    <3> QED  BY <3>1, <3>2, <3>3, <3>4
  <2> QED  BY <2>1, <2>2
<1>24. Redoing(p)'
  <2>1. control'.redo = x
    BY <1>1, <1>20
  <2>2. \A i \in Recs(p)' : i < cursor' => i <= control.redo
    BY <1>1, <1>5, <1>7
  <2>3. \A i \in Recs(p)' : i < cursor' =>
          IF Served(p)' = NoImage THEN i <= control'.redo ELSE Covers(Served(p)', i)
    BY <1>1, <1>7, <1>10, <1>17, <2>2
  <2>4. \A i \in Recs(p)' : x < i /\ wal'[i].kind # "image" =>
          im = NoImage \/ Covers(im, i) \/ ImageIn(p, x, flushed_lsn)'
    BY <1>7, <1>9, <1>20, <1>23
  <2>5. \A i \in Recs(p)', e \in {disk'[p].stable, disk'[p].cached} :
          control'.redo < i /\ wal'[i].kind # "image" =>
            e = NoImage \/ Covers(e, i) \/ ImageIn(p, control.redo, flushed_lsn)'
    BY <1>4, <2>1, <2>4
  <2> QED  BY <1>1, <1>10, <2>3, <2>5 DEF Redoing
<1> QED  BY <1>14, <1>15, <1>16, <1>18, <1>19, <1>22, <1>24 DEF PageInv

LEMMA CrashImage ==
  ASSUME ImageInv, Crash
  PROVE  ImageInv'
<1>1. PoolInv /\ PoolInv' /\ LogContents
  <2>1. PoolInv /\ LogContents
    BY DEF ImageInv
  <2> QED  BY <2>1, CrashStep
<1>2. /\ wal' = SubSeq(wal, 1, flushed_lsn) /\ guard' = [t \in Threads |-> IdleGuard]
      /\ UNCHANGED flushed_lsn
  BY DEF Crash
<1>3. /\ Len(wal') = flushed_lsn /\ \A i \in 1..flushed_lsn : wal'[i] = wal[i] /\ i \in 1..Len(wal)
  BY <1>1, <1>2, CkptFacts DEF LogTypes
<1>4. LogContents'
  BY <1>1, <1>2, <1>3 DEF LogContents, Recs
<1>5. ThreadInv'
  BY <1>2 DEF ThreadInv, IdleGuard, Latches, HoldsPage, HoldsNew, Placed
<1> QED  BY <1>1, <1>4, <1>5, PageCrashed DEF ImageInv

\* A record is applied: the page has it, and all before it.
LEMMA PageRedone ==
  ASSUME ImageInv, RedoRecord, mode' # "failed", NEW p \in Pages, p = wal[cursor].page
  PROVE  /\ PageInv(p)' /\ mode' = mode /\ cursor' = cursor + 1
         /\ \A q \in Pages \ {p} : frames'[q] = frames[q]
<1>1. PICK c : c = cursor
  OBVIOUS
<1>2. /\ PoolInv /\ LogTypes /\ ActorTypes /\ PageInv(p) /\ LogContents /\ Boundaries
      /\ Len(wal) \in Nat /\ flushed_lsn \in Nat /\ control.redo \in Nat
      /\ frames \in [Pages -> FrameRec \cup {NoFrame}] /\ disk[p].cached \in Data
  BY CkptFacts DEF ImageInv, LogTypes
<1>3. PICK f : f = IF frames[p].resident THEN frames[p] ELSE Frame(disk[p].cached, TRUE)
  OBVIOUS
<1>4. PICK g : g = apply_physical_redo(f, wal[c], c)
  OBVIOUS
<1>5. /\ mode = "redo" /\ mode' = mode /\ c <= Len(wal) /\ c \in Nat \ {0} /\ cursor' = c + 1
      /\ frames' = [frames EXCEPT ![p] = g]
      /\ frames[p].resident => frames[p].evict = "no"
      /\ ~ (f.data = NoImage /\ wal[c].kind = "delta")
      /\ UNCHANGED <<wal, flushed_lsn, control, disk, guard, ckpt>>
  <2>1. mode = "redo" /\ cursor \in Nat \ {0}
    BY <1>2 DEF RedoRecord, ActorTypes
  <2> QED  BY <1>1, <1>3, <1>4, <2>1 DEF RedoRecord
<1>6. /\ Recs(p)' = Recs(p) /\ Settled(p)' = Settled(p) /\ (Known(p)' <=> Known(p))
      /\ \A i : Pending(p, i)' <=> Pending(p, i)
      /\ \A a, b : ImageIn(p, a, b)' <=> ImageIn(p, a, b)
      /\ \A r : RedoPoint(r)' <=> RedoPoint(r)
      /\ (Copied(p)' <=> Copied(p)) /\ \A i \in Recs(p) : i \in Nat \ {0}
  BY <1>5, Unlogged
<1>7. /\ c \in Recs(p) /\ control.redo < c /\ flushed_lsn = Len(wal) /\ ckpt.pc = "idle"
      /\ wal[c].image \subseteq 1..c /\ c \in wal[c].image
      /\ wal[c].kind # "image" => wal[c].kind = "delta"
  <2>1. c \in Recs(p) /\ control.redo < c /\ flushed_lsn = Len(wal) /\ ckpt.pc = "idle"
    BY <1>1, <1>2, <1>5 DEF Recs, Boundaries, LogContents
  <2>2. wal[c] \in Rec
    BY <1>2, <2>1, RecsFacts
  <2> QED  BY <1>2, <2>1, <2>2 DEF LogContents, Rec
<1>8. /\ f \in FrameRec /\ f.evict = "no" /\ f.flush = "no" /\ f.redirty = NoLsn /\ f.needs_fpi
      /\ f.rec_lsn = NoLsn => f.data = disk[p].cached
      /\ f.rec_lsn # NoLsn => DirtyFrame(p)
      /\ f.data = NoImage \/ f.data \subseteq 1..Len(wal)
  <2>1. CASE frames[p].resident
    <3>1. f = frames[p] /\ f \in FrameRec /\ f.evict = "no" /\ f.flush = "no"
      BY <1>2, <1>3, <1>5, <1>7, <2>1, FrameFacts DEF Starts, Writing
    <3> QED  BY <1>2, <1>5, <2>1, <3>1 DEF PageInv, Redoing, Contents, DirtyFrame
  <2>2. CASE ~ frames[p].resident
    <3>1. f = Frame(disk[p].cached, TRUE)
      BY <1>3, <2>2
    <3>2. /\ f \in FrameRec /\ f.evict = "no" /\ f.flush = "no" /\ f.redirty = NoLsn
          /\ f.needs_fpi /\ f.rec_lsn = NoLsn /\ f.data = disk[p].cached
      BY <1>2, <3>1 DEF Frame, FrameRec, Lsns
    <3>3. disk[p].cached = NoImage \/ disk[p].cached \subseteq 1..Len(wal)
      BY <1>2, <1>7 DEF PageInv, Contents
    <3> QED  BY <3>2, <3>3
  <2> QED  BY <2>1, <2>2
<1>9. /\ g \in FrameRec /\ g.resident /\ g.evict = "no" /\ g.flush = "no" /\ g.redirty = NoLsn
      /\ g.needs_fpi /\ g.data \subseteq 1..Len(wal) /\ g.data # NoImage /\ Covers(g.data, c)
      /\ g.rec_lsn = NoLsn => g.data = disk[p].cached
      /\ g.rec_lsn # NoLsn => ImageIn(p, control.redo, flushed_lsn)
  <2>1. CASE f.data # NoImage /\ PageLsn(f.data) >= c
    <3>1. g = f
      BY <1>4, <2>1 DEF apply_physical_redo
    <3> QED  BY <1>2, <1>5, <1>8, <2>1, <3>1 DEF FrameRec, Covers, PageInv, Redoing
  <2>2. CASE ~ (f.data # NoImage /\ PageLsn(f.data) >= c)
    <3>1. PICK d : d = IF wal[c].kind = "image" THEN wal[c].image ELSE f.data \cup {c}
      OBVIOUS
    <3>2. g = publish_mutation(f, c, d)
      BY <1>4, <2>2, <3>1 DEF apply_physical_redo
    <3>3. 1..c \subseteq 1..Len(wal) /\ c \in 1..Len(wal)
      BY <1>2, <1>5
    <3>4. d \subseteq 1..Len(wal) /\ c \in d
      BY <1>5, <1>7, <1>8, <3>1, <3>3
    <3>5. d \in Data /\ d # NoImage /\ Covers(d, c)
      <4>1. 1..Len(wal) \subseteq Nat
        BY <1>2
      <4>2. d # NoImage
        BY <3>4, NoImageFacts
      <4>3. Covers(d, c)
        <5>1. c \in Nat /\ c <= c /\ d \in SUBSET (1..Len(wal))
          BY <1>5, <3>4
        <5> QED  BY <1>2, <3>4, <5>1, CoversFacts
      <4> QED  BY <3>4, <4>1, <4>2, <4>3 DEF Data
    <3>6. /\ g \in FrameRec /\ g.resident /\ g.evict = f.evict /\ g.flush = f.flush
          /\ g.data = d /\ g.needs_fpi = f.needs_fpi
          /\ g.rec_lsn = IF f.rec_lsn = NoLsn THEN c - 1 ELSE f.rec_lsn
          /\ g.redirty = IF f.flush = "captured" /\ f.redirty = NoLsn THEN c - 1 ELSE f.redirty
      BY <1>5, <1>8, <3>2, <3>5, PublishFacts
    <3>7. g.rec_lsn # NoLsn
      BY <1>5, <3>6 DEF NoLsn
    <3>8. ImageIn(p, control.redo, flushed_lsn)
      <4>1. CASE wal[c].kind = "image"
        BY <1>5, <1>7, <4>1 DEF ImageIn
      <4>2. CASE f.rec_lsn # NoLsn
        BY <1>2, <1>5, <1>8, <4>2 DEF PageInv, Redoing
      <4>3. CASE wal[c].kind # "image" /\ f.rec_lsn = NoLsn
        <5>1. disk[p].cached # NoImage /\ ~ Covers(disk[p].cached, c)
          BY <1>5, <1>7, <1>8, <2>2, <4>3 DEF Covers
        <5> QED  BY <1>2, <1>5, <1>7, <4>3, <5>1 DEF PageInv, Redoing
      <4> QED  BY <4>1, <4>2, <4>3
    <3> QED  BY <1>8, <3>4, <3>5, <3>6, <3>7, <3>8
  <2> QED  BY <2>1, <2>2
<1>10. frames'[p] = g /\ \A q \in Pages \ {p} : frames'[q] = frames[q]
  BY <1>2, <1>5
<1>11. /\ ~ Captured(p)' /\ ~ Written(p)' /\ (DirtyFrame(p)' <=> g.rec_lsn # NoLsn)
       /\ ~ Captured(p) /\ ~ Written(p) /\ Served(p)' = g.data
  <2>1. frames[p].resident => frames[p].flush = "no" /\ frames[p].evict = "no"
    BY <1>2, <1>5, <1>7, FrameFacts DEF Starts, Writing
  <2> QED  BY <1>9, <1>10, <2>1 DEF Captured, Written, DirtyFrame, Served
<1>12. \A i : ~ Pending(p, i)
  BY <1>5 DEF ImageInv, ThreadInv, Pending, PendingAt
<1>13. Contents(p)'
  BY <1>2, <1>5, <1>6, <1>9, <1>10 DEF PageInv, Contents
<1>14. Begins(p)'
  BY <1>2, <1>6 DEF PageInv, Begins
<1>15. Writes(p)'
  BY <1>2, <1>5, <1>7, <1>9, <1>10, <1>11 DEF PageInv, Writes
<1>16. Coverage(p)'
  BY <1>2, <1>5, <1>6, <1>11 DEF PageInv, Coverage, Running
<1>17. FirstImage(p)'
  BY <1>5, <1>6, <1>9, <1>10, <1>12 DEF FirstImage
<1>18. Torn(p)'
  BY <1>2, <1>5, <1>6 DEF PageInv, Torn
<1>19. Redoing(p)'
  <2>1. ASSUME NEW i \in Recs(p), i < c + 1 PROVE Covers(g.data, i)
    <3>1. i \in Nat /\ i <= c
      BY <1>5, <1>6, <2>1
    <3> QED  BY <1>2, <1>5, <1>9, <3>1, CoversDown
  <2> QED  BY <1>2, <1>5, <1>6, <1>9, <1>10, <1>11, <2>1 DEF PageInv, Redoing
<1>20. PageInv(p)'
  BY <1>13, <1>14, <1>15, <1>16, <1>17, <1>18, <1>19 DEF PageInv
<1> QED  BY <1>1, <1>5, <1>10, <1>20

LEMMA RedoRecordImage ==
  ASSUME ImageInv, RedoRecord
  PROVE  ImageInv'
<1>1. /\ PoolInv /\ PoolInv' /\ LogTypes' /\ LogContents /\ mode = "redo" /\ flushed_lsn = Len(wal)
      /\ UNCHANGED <<wal, flushed_lsn, control, disk, guard, ckpt>>
      /\ cursor \in 1..Len(wal) /\ wal[cursor] \in Rec /\ wal[cursor].page # NoPage
  <2>1. PoolInv /\ LogContents
    BY DEF ImageInv
  <2>2. cursor \in 1..Len(wal)
    BY <2>1, CkptFacts DEF RedoRecord, ActorTypes
  <2>3. wal[cursor] \in Rec
    BY <2>1, <2>2, CkptFacts DEF LogTypes
  <2>4. PoolInv' /\ LogTypes'
    BY <2>1, RedoRecordStep DEF PoolInv, Types
  <2> QED  BY <2>1, <2>2, <2>3, <2>4 DEF RedoRecord, LogContents
<1>2. CASE mode' = "failed"
  <2>1. UNCHANGED <<frames, cursor>>
    BY <1>1, <1>2 DEF RedoRecord
  <2>2. ASSUME NEW p \in Pages PROVE PageInv(p)'
    <3>1. SameRecords(p)
      BY <1>1, LogRests DEF SameRecords
    <3>2. Calm(p)
      BY <1>1, <1>2, <2>1, <3>1 DEF Calm, SameCkpt, Copied
    <3> QED  BY <1>1, <3>2, CalmPage
  <2> QED  BY <1>1, <2>2, PagesRest
<1>3. CASE mode' # "failed"
  <2>1. PICK p \in Pages : p = wal[cursor].page
    BY <1>1 DEF Rec
  <2>2. /\ PageInv(p)' /\ mode' = mode /\ cursor' = cursor + 1
        /\ \A q \in Pages \ {p} : frames'[q] = frames[q]
    BY <1>3, <2>1, PageRedone
  <2>3. cursor \in Recs(p) /\ flushed_lsn <= flushed_lsn'
    BY <1>1, <2>1, CkptFacts DEF Recs, LogTypes
  <2> QED  BY <1>1, <2>2, <2>3, AtPage
<1> QED  BY <1>2, <1>3

LEMMA RedoMarkerImage ==
  ASSUME ImageInv, RedoMarker
  PROVE  ImageInv'
<1>1. /\ PoolInv /\ PoolInv' /\ LogTypes' /\ LogContents
      /\ mode = "redo" /\ wal[cursor].page = NoPage /\ cursor' = cursor + 1
      /\ UNCHANGED <<wal, flushed_lsn, control, disk, frames, guard, ckpt, mode>>
  <2>1. PoolInv /\ LogContents
    BY DEF ImageInv
  <2>2. PoolInv' /\ LogTypes'
    BY <2>1, RedoSteps DEF PoolInv, Types
  <2> QED  BY <2>1, <2>2 DEF RedoMarker
<1>2. ASSUME NEW p \in Pages PROVE PageInv(p)'
  <2>1. SameRecords(p)
    BY <1>1, LogRests DEF SameRecords
  <2>2. cursor \notin Recs(p)
    BY <1>1, PoolAssumption DEF Recs
  <2>3. Calm(p)
    BY <1>1, <2>1, <2>2 DEF Calm, SameCkpt, Copied
  <2> QED  BY <1>1, <2>3, CalmPage
<1> QED  BY <1>1, <1>2, PagesRest DEF LogContents

\* Redo has come to the end of the log: every page is current, in its file or in
\* a dirty frame.
LEMMA RedoDoneImage ==
  ASSUME ImageInv, RedoDone
  PROVE  ImageInv'
<1>1. /\ mode = "redo" /\ cursor > Len(wal) /\ mode' \in {"up", "recovered"}
      /\ mode' = "up" => \A i \in (control.redo + 1)..Len(wal) : wal[i].page = NoPage
      /\ UNCHANGED <<wal, flushed_lsn, control, disk, frames, guard, ckpt, cursor>>
  BY DEF RedoDone
<1>2. /\ PoolInv /\ PoolInv' /\ LogContents /\ flushed_lsn = Len(wal) /\ ckpt.pc = "idle"
      /\ Len(wal) \in Nat /\ control.redo \in Nat /\ cursor \in Nat
  <2>1. PoolInv /\ LogContents
    BY DEF ImageInv
  <2> QED  BY <1>1, <2>1, RedoSteps, CkptFacts DEF LogContents, Boundaries, LogTypes, ActorTypes
<1>3. ASSUME NEW p \in Pages PROVE PageInv(p)'
  <2>1. /\ Recs(p)' = Recs(p) /\ Settled(p)' = Settled(p) /\ (Known(p)' <=> Known(p))
        /\ \A i : Pending(p, i)' <=> Pending(p, i)
        /\ \A i : Image(p, i)' <=> Image(p, i)
        /\ \A a, b : ImageIn(p, a, b)' <=> ImageIn(p, a, b)
        /\ \A r : RedoPoint(r)' <=> RedoPoint(r)
        /\ (Copied(p)' <=> Copied(p)) /\ PageInv(p)
        /\ \A i \in Recs(p) : i \in Nat \ {0} /\ i <= Len(wal) /\ wal[i].page = p
    BY <1>1, Unlogged, RecsFacts
  <2>2. /\ (DirtyFrame(p)' <=> DirtyFrame(p)) /\ ~ Captured(p) /\ ~ Captured(p)'
        /\ (Written(p)' <=> Written(p))
        /\ frames[p].resident => frames[p].redirty = NoLsn /\ frames[p].flush = "no"
    <3>1. frames[p].resident => frames[p].redirty = NoLsn /\ frames[p].flush = "no"
      BY <1>2, FrameFacts DEF Starts, Flushing, Writing
    <3> QED  BY <1>1, <3>1 DEF DirtyFrame, Captured, Written
  <2>3. \A i \in Recs(p) : IF Served(p) = NoImage THEN i <= control.redo ELSE Covers(Served(p), i)
    <3>1. \A i \in Recs(p) : i < cursor
      BY <1>1, <1>2, <2>1
    <3> QED  BY <1>1, <2>1, <3>1 DEF PageInv, Redoing
  <2>4. Known(p) => Served(p) # NoImage
    <3>1. SUFFICES ASSUME Known(p), Served(p) = NoImage PROVE FALSE
      OBVIOUS
    <3>2. disk[p].cached = NoImage
      <4>1. frames[p].resident => frames[p].data # NoImage
        BY <2>1, NoImageFacts DEF PageInv, Contents
      <4> QED  BY <3>1, <4>1 DEF Served
    <3>3. RedoPoint(control.redo)
      BY DEF RedoPoint
    <3>4. \/ ImageIn(p, control.redo, flushed_lsn)
          \/ p \notin OldPages /\ \A i \in Recs(p) : control.redo < i
      BY <1>2, <2>1, <3>1, <3>2, <3>3 DEF PageInv, Torn
    <3>5. PICK i \in Recs(p) : control.redo < i
      BY <3>1, <3>4 DEF ImageIn, Known
    <3> QED  BY <1>2, <2>1, <2>3, <3>1, <3>5
  <2>5. \A i \in Recs(p) : Covers(Served(p), i)
    BY <2>3, <2>4 DEF Known
  <2>6. ~ DirtyFrame(p) => Served(p) = disk[p].cached /\ disk[p].stable = disk[p].cached
    BY <1>1, <1>2, <2>1 DEF PageInv, Redoing, Writes, DirtyFrame, Written, Served
  <2>7. mode' = "up" => ~ DirtyFrame(p)
    <3>1. SUFFICES ASSUME mode' = "up", DirtyFrame(p) PROVE FALSE
      OBVIOUS
    <3>2. PICK i \in Recs(p) : control.redo < i
      BY <1>1, <2>1, <3>1 DEF PageInv, Redoing, ImageIn
    <3>3. i \in (control.redo + 1)..Len(wal)
      BY <1>2, <2>1, <3>2
    <3> QED  BY <1>1, <2>1, <3>1, <3>3, PoolAssumption
  <2>8. DirtyFrame(p) => Served(p) = frames[p].data
    BY DEF DirtyFrame, Served
  <2>9. Settled(p) \subseteq Recs(p)
    BY DEF Settled
  <2>10. Contents(p)'
    BY <1>1, <2>1 DEF PageInv, Contents
  <2>11. Begins(p)'
    BY <2>1 DEF PageInv, Begins
  <2>12. Writes(p)'
    BY <1>1, <2>1, <2>2 DEF PageInv, Writes
  <2>13. Coverage(p)'
    <3>1. DirtyFrame(p) => \A i \in Settled(p) : Covers(frames[p].data, i)
      BY <2>5, <2>8, <2>9
    <3>2. ~ DirtyFrame(p) => \A i \in Settled(p) : Covers(disk[p].stable, i)
      BY <2>5, <2>6, <2>9
    <3> QED  BY <1>1, <2>1, <2>2, <2>7, <3>1, <3>2 DEF PageInv, Coverage
  <2>14. FirstImage(p)'
    BY <1>1, <2>1, <2>2, <2>7 DEF PageInv, FirstImage, DirtyFrame
  <2>15. disk[p].cached = NoImage /\ Known(p) => DirtyFrame(p)
    BY <2>4, <2>6
  <2>16. Torn(p)'
    BY <1>1, <2>1, <2>7, <2>15 DEF PageInv, Torn, Known
  <2>17. Redoing(p)'
    BY <1>1, <1>2, <2>1, <2>2, <2>15 DEF PageInv, Redoing
  <2> QED  BY <2>10, <2>11, <2>12, <2>13, <2>14, <2>16, <2>17 DEF PageInv
<1> QED  BY <1>1, <1>2, <1>3, PagesRest

-----------------------------------------------------------------------------
(* The theorem.                                                            *)

LEMMA ImageInit ==
  ASSUME Init
  PROVE  ImageInv
<1>1. PoolInv
  BY PoolInit
<1>2. /\ wal = <<>> /\ Len(wal) = 0 /\ flushed_lsn = 0 /\ control.redo = 0 /\ mode = "up"
      /\ guard = [t \in Threads |-> IdleGuard] /\ ckpt.pc = "idle" /\ ckpt.image = <<>>
  BY DEF Init, IdleCkpt
<1>3. \A p : Recs(p) = {}
  BY <1>2 DEF Recs
<1>4. LogContents
  BY <1>2, <1>3 DEF LogContents
<1>5. ThreadInv
  BY <1>2 DEF ThreadInv, IdleGuard, Latches, HoldsPage, HoldsNew, Placed
<1>6. ASSUME NEW p \in Pages PROVE PageInv(p)
  <2>1. /\ ~ frames[p].resident /\ disk[p].stable = disk[p].cached
        /\ disk[p].cached = IF p \in OldPages THEN {} ELSE NoImage
    BY DEF Init, NoFrame
  <2>2. ~ Written(p) /\ ~ Captured(p) /\ ~ DirtyFrame(p) /\ ~ Copied(p)
    BY <1>2, <2>1 DEF Written, Captured, DirtyFrame, Copied
  <2>3. \A i : ~ Pending(p, i)
    BY <1>2 DEF Pending, PendingAt, IdleGuard
  <2>4. {} # NoImage
    BY DEF NoImage
  <2>5. Contents(p) /\ Begins(p) /\ Writes(p)
    BY <1>3, <2>1, <2>2, <2>4 DEF Contents, Begins, Writes
  <2>6. Coverage(p) /\ FirstImage(p)
    BY <1>3, <2>1, <2>2, <2>3 DEF Coverage, FirstImage, Settled
  <2>7. Torn(p) /\ Redoing(p)
    BY <1>2, <1>3, <2>1, <2>2, <2>4 DEF Torn, Redoing, Known
  <2> QED  BY <2>5, <2>6, <2>7 DEF PageInv
<1> QED  BY <1>1, <1>4, <1>5, <1>6 DEF ImageInv

LEMMA ImageNext ==
  ASSUME ImageInv, [Next]_vars
  PROVE  ImageInv'
<1>1. CASE UNCHANGED vars
  <2>1. PoolInv' /\ LogTypes' /\ LogContents
    BY PoolNext DEF ImageInv, PoolInv, Types
  <2>2. ASSUME NEW p \in Pages PROVE PageInv(p)'
    <3>1. SameRecords(p)
      BY <1>1, LogRests, RecsFacts DEF SameRecords, vars
    <3>2. Calm(p)
      BY <1>1, <3>1 DEF Calm, SameCkpt, Copied, vars
    <3> QED  BY <2>1, <3>2, CalmPage
  <2> QED  BY <1>1, <2>1, <2>2, PagesRest DEF LogContents, vars
<1>2. ASSUME NEW t \in Threads, NEW p \in Pages, LookupResident(t, p) \/ LoadPage(t, p)
      PROVE  ImageInv'
  BY <1>2, ThreadImages
<1>3. ASSUME NEW t \in Threads, Proceed(t) \/ Extend(t) \/ SplitNode(t)
      PROVE  ImageInv'
  BY <1>3, ThreadImages, InsertLoadedImage, LogChangeImage, PublishImages, FillImages,
     NewPageImage DEF Proceed
<1>4. ASSUME NEW p \in Pages, Steal(p) PROVE ImageInv'
  BY <1>4, StealImages
<1>5. CASE FlushLog \/ CheckpointBegin \/ Checkpoint
  BY <1>5, FlushLogImage, BeginImage, CheckpointImages
<1>6. CASE Crash \/ RedoRecord \/ RedoMarker \/ RedoDone
  BY <1>6, CrashImage, RedoRecordImage, RedoMarkerImage, RedoDoneImage
<1> QED  BY <1>1, <1>2, <1>3, <1>4, <1>5, <1>6 DEF Next

\* Whatever instant a crash picks, startup accepts the durable boundaries, and the
\* log that redo reads has a full image of every page whose file the crash may tear,
\* has torn or that was never written (the FPI that take_needs_fpi asks of the first
\* change since the page was written).
THEOREM RedoAlwaysFounded == Spec => []RedoFounded
<1>1. ImageInv => RedoFounded
  <2> SUFFICES ASSUME ImageInv PROVE RedoFounded
    OBVIOUS
  <2>1. PoolInv /\ LogTypes /\ control.redo \in Nat /\ Len(wal) \in Nat
    BY CkptFacts DEF ImageInv, LogTypes
  <2>2. BoundariesRetained
    BY <2>1, CkptFacts DEF Boundaries, BoundariesRetained, LogTypes
  <2>3. ASSUME NEW p \in Pages,
               \/ disk[p].stable # disk[p].cached
               \/ disk[p].cached = NoImage /\ p \in Published
        PROVE  \E i \in (control.redo + 1)..Len(wal) : wal[i].page = p /\ wal[i].kind = "image"
    <3>1. PageInv(p) /\ RedoPoint(control.redo)
      BY DEF ImageInv, RedoPoint
    <3>2. \/ ImageIn(p, control.redo, flushed_lsn)
          \/ p \notin OldPages /\ Known(p) /\ \A i \in Recs(p) : control.redo < i
      BY <2>1, <2>3, <3>1, KnownFacts DEF PageInv, Torn
    <3>3. PICK i \in Recs(p) : control.redo < i /\ wal[i].kind = "image"
      <4>1. CASE ImageIn(p, control.redo, flushed_lsn)
        BY <4>1 DEF ImageIn
      <4>2. CASE p \notin OldPages /\ Known(p) /\ \A i \in Recs(p) : control.redo < i
        <5>1. PICK i \in Recs(p) : TRUE
          BY <4>2 DEF Known
        <5>2. ImageIn(p, 0, i)
          BY <3>1, <4>2 DEF PageInv, Begins
        <5> QED  BY <4>2, <5>2 DEF ImageIn
      <4> QED  BY <3>2, <4>1, <4>2
    <3>4. i \in Nat /\ i <= Len(wal) /\ wal[i].page = p
      BY <2>1, RecsFacts
    <3>5. i \in (control.redo + 1)..Len(wal)
      BY <2>1, <3>3, <3>4
    <3> QED  BY <3>3, <3>4, <3>5
  <2>4. ImageRetained
    BY <2>3 DEF ImageRetained
  <2> QED  BY <2>2, <2>4 DEF RedoFounded
<1> QED  BY <1>1, ImageInit, ImageNext, PTL DEF Spec

=============================================================================
