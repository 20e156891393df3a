-------------------------- MODULE DurabilityAborts --------------------------
(***************************************************************************)
(* What nobody committed stays uncommitted: the proofs of NoResurrection   *)
(* and IdsFresh, for any number of sessions, ids, records, checkpoints,    *)
(* VACUUMs, failures and crashes, with the two windows of Races closed.    *)
(*                                                                         *)
(* The commit log forgets: an id below its floor reads as committed.  So   *)
(* everything below a floor, in memory, in the file or in the snapshot     *)
(* that is about to replace the file, must be settled for good: committed  *)
(* durably, or without a row version that a crash can bring back.  And the *)
(* allocator must restart beyond every id that left a trace, although the  *)
(* records that name it may be recycled.                                   *)
(***************************************************************************)
EXTENDS DurabilityCommits

-----------------------------------------------------------------------------
(* The invariant.                                                          *)

\* The row version of x is logged at i; a prune removes it at k.
InsertAt(i, x) == wal[i].kind = "insert" /\ wal[i].xid = x
PruneAt(k, x) == wal[k].kind = "prune" /\ x \in wal[k].ids

\* The ids of a record that must not be handed out again.
Names(i) == IF wal[i].kind = "insert" THEN {wal[i].xid}
            ELSE IF wal[i].kind = "commit" THEN {wal[i].xid} \cup wal[i].ids ELSE {}

\* A commit of x is durable, or at least logged.
Committed(x) == \E i \in DOMAIN wal : i <= meta.durable_end /\ CommitAt(i, x)
Logged(x) == \E i \in DOMAIN wal : CommitAt(i, x)

\* Every row version of x belongs to a durable commit or is removed by a prune that
\* is logged, or durable.
Cleaned(x) ==
  \A i \in DOMAIN wal : InsertAt(i, x) =>
    Committed(x) \/ \E k \in DOMAIN wal : k > i /\ PruneAt(k, x)
Settled(x) ==
  \A i \in DOMAIN wal : InsertAt(i, x) =>
    Committed(x) \/ \E k \in DOMAIN wal : k > i /\ k <= meta.durable_end /\ PruneAt(k, x)

\* The row version of x is there after the records up to a position.
Live(upto, x) ==
  \E i \in DOMAIN wal : /\ i <= upto /\ InsertAt(i, x)
                        /\ \A k \in DOMAIN wal : i < k /\ k <= upto => ~ PruneAt(k, x)

\* A durable record after a position carries an id not below n, or n is no id.
NamedAfter(from, n) ==
  n < FIRST_NORMAL_XID \/ \E j \in DOMAIN wal : from < j /\ j <= meta.durable_end /\ n <= wal[j].xid

\* A durable commit names an id not below the floor n.
Anchored(n) ==
  n <= FIRST_NORMAL_XID
    \/ \E i \in DOMAIN wal : i <= meta.durable_end /\ wal[i].kind = "commit" /\ n <= wal[i].xid

\* The ids in use are registered, were handed out and sit on the page only if they
\* wrote; a server that is down has none.
ActiveInv ==
  /\ \A s \in Session : Family(txn[s]) \subseteq active
  /\ vac.pc \in {"commit", "flush", "abort"} => vac.xid \in active
  /\ \A x \in active : x < next_xid
  /\ mode = "down" => /\ active = {} /\ meta.durable_end = Len(wal) /\ ~ poisoned /\ pending = {}
                      /\ vac.pc = "idle" /\ ckpt.pc = "idle"

\* Ids that rows or commits carry are behind the allocator, now and after a crash.
LowInv ==
  /\ \A i \in DOMAIN wal : i <= meta.replay_floor =>
       \A x \in Names(i) : NamedAfter(meta.replay_floor, x)
  /\ Up => /\ \A i \in DOMAIN wal : \A x \in Names(i) : x < next_xid
           /\ \A x \in page.ids : x < next_xid

\* Whoever commits was asked to.
AskInv ==
  /\ \A i \in DOMAIN wal : \A x \in Xid : CommitAt(i, x) => x \in client.asked
  /\ ~ poisoned => \A x \in pending : Logged(x)
  /\ Up => \A x \in Xid : clog.st[x] = "Committed" => Committed(x)
  /\ NoResurrection

\* A floor: everything below is settled, and nothing below runs or will run.
Floor(n) == /\ \A x \in Xid : x < n => Settled(x)
            /\ Up => n <= next_xid /\ \A x \in active : n <= x

\* What a snapshot of the commit log forgets is settled or not written yet.
SnapshotFloor(f) ==
  /\ Floor(f.floor) /\ Floor(f.vacuum_floor) /\ Anchored(f.vacuum_floor)
  /\ \A x \in Xid : \A i \in DOMAIN wal :
       x >= f.floor /\ f.st[x] = "None" /\ InsertAt(i, x) => i > f.lsn
  /\ \A x \in Xid : f.st[x] = "Committed" => Committed(x)

\* The page file shows what the log says up to its position.
DiskLive == \A x \in Xid : x \in disk.ids <=> Live(disk.lsn, x)

\* The files.
FileInv ==
  /\ ~ clog_file.loaded => clog_file = NoClogFile
  /\ SnapshotFloor(clog_file)
  /\ NamedAfter(meta.replay_floor, clog_file.floor - 1)
  /\ DiskLive

\* The checkpoint: what it read is behind the allocator, its marker says so, and its
\* snapshot may replace the file.
CkptInv ==
  /\ ckpt.pc = "bounded" => \A i \in DOMAIN wal : \A x \in Names(i) : x < ckpt.boundary
  /\ ckpt.pc \in Taken =>
       \A i \in DOMAIN wal : i <= ckpt.redo => \A x \in Names(i) : x < ckpt.boundary
  /\ ckpt.pc = "flush" /\ ~ poisoned =>
       \E j \in DOMAIN wal : ckpt.end < j /\ wal[j].xid = ckpt.boundary - 1
  /\ ckpt.pc \in {"snapshot", "write", "control", "recycle"} =>
       NamedAfter(ckpt.end, ckpt.boundary - 1)
  /\ ckpt.pc \in {"bounded", "marker", "flush", "snapshot", "write"} =>
       /\ ckpt.boundary <= next_xid /\ clog.floor <= ckpt.boundary
       /\ \A x \in active : x \in ckpt.active \/ ckpt.boundary <= x
  /\ ckpt.pc = "snapshot" /\ ~ poisoned => \A x \in Xid : x < vacuum_floor => Settled(x)
  /\ ckpt.pc = "write" => /\ SnapshotFloor(ckpt.snapshot) /\ ckpt.snapshot.floor <= ckpt.boundary
                          /\ clog.floor <= ckpt.snapshot.floor
  /\ ckpt.pc \in {"control", "recycle"} => clog_file.floor <= ckpt.boundary

\* VACUUM: its boundary is below every running id, its commit is logged, and nothing
\* below the boundary is left when it raises the floor.
Maintained(upto) == \E i \in DOMAIN wal : i <= upto /\ wal[i].kind = "commit" /\ wal[i].xid = vac.xid
VacInv ==
  /\ vac.pc # "idle" => vac.boundary <= vac.xid /\ \A x \in active : vac.boundary <= x
  /\ vac.pc = "flush" /\ ~ poisoned => Maintained(Len(wal))
  /\ vac.pc \in {"prune", "floor"} => Maintained(meta.durable_end)
  /\ vac.pc = "floor" /\ ~ poisoned => \A x \in Xid : x < vac.boundary => Cleaned(x)

\* The floors in memory, and the ids below them.
MemInv ==
  Up =>
    /\ Floor(clog.floor) /\ Anchored(vacuum_floor)
    /\ vacuum_floor <= next_xid /\ \A x \in active : vacuum_floor <= x
    /\ ~ poisoned =>
         /\ \A x \in Xid : x < vacuum_floor => Cleaned(x)
         /\ \A i \in DOMAIN wal : \A x \in Xid :
              InsertAt(i, x) /\ clog.st[x] = "None" => x < clog.floor

\* The page: its versions in progress belong to transactions that wrote, and it shows
\* what the log says.
RowsInv ==
  Up =>
    /\ \A s \in Session : \A x \in Family(txn[s]) : x \in page.ids => txn[s].wrote
    /\ vac.pc # "idle" => vac.xid \notin page.ids
    /\ \A x \in page.ids : clog.st[x] = "InProgress" => InUse(x)
    /\ ~ poisoned => \A x \in Xid : x \in page.ids <=> Live(Len(wal), x)

\* The invariant as a whole.
SettleInv == ActiveInv /\ LowInv /\ AskInv /\ FileInv /\ CkptInv /\ VacInv /\ MemInv /\ RowsInv

-----------------------------------------------------------------------------
(* What a step leaves alone.                                               *)

\* The values the invariant compares.
Ground ==
  /\ DOMAIN wal = 1..Len(wal) /\ Len(wal) \in Nat
  /\ meta.durable_end \in Nat /\ meta.replay_floor \in Nat
  /\ meta.durable_end <= Len(wal) /\ meta.replay_floor <= meta.durable_end
  /\ clog.floor \in Nat /\ vacuum_floor \in Nat /\ next_xid \in Nat
  /\ Xid \subseteq Nat /\ active \subseteq Xid /\ page.ids \subseteq Xid /\ pending \subseteq Xid
  /\ clog_file \in ClogFile /\ disk.lsn \in Nat
  /\ ckpt.boundary \in Nat /\ ckpt.redo \in Nat /\ ckpt.end \in Nat /\ vac.boundary \in Nat
  /\ ckpt.pc = "write" => ckpt.snapshot \in ClogFile
  /\ vac.pc # "idle" => vac.xid \in Nat
  /\ \A i \in DOMAIN wal : wal[i].xid \in Nat /\ wal[i].ids \subseteq Xid /\ Names(i) \subseteq Xid

\* The ids are naturals from the first normal one on.
LEMMA XidNat == Xid \subseteq Nat /\ \A x \in Xid : x >= FIRST_NORMAL_XID /\ x <= MaxXid
BY DurabilityAssumption DEF Xid, FIRST_NORMAL_XID

\* Types and order of the log and the files, as the proofs below use them.
LEMMA GroundFacts ==
  ASSUME OrderInv
  PROVE  Ground
<1> USE DEF OrderInv, Types
<1>1. /\ DOMAIN wal = 1..Len(wal) /\ Len(wal) \in Nat
      /\ meta.durable_end \in Nat /\ meta.replay_floor \in Nat /\ meta.visible \in Nat
      /\ clog.floor \in Nat /\ pending \subseteq Xid
  BY DEF LogTypes, Clog
<1>2. meta.durable_end <= Len(wal)
  BY <1>1 DEF Ends
<1>3. meta.replay_floor <= meta.durable_end
  <2>1. control.redo \in Nat /\ control.end \in Nat
    BY DEF FileTypes
  <2> QED  BY <1>1, <2>1 DEF FilesInOrder
<1>4. vacuum_floor \in Nat /\ page.ids \subseteq Xid /\ clog_file \in ClogFile /\ disk.lsn \in Nat
  BY DEF FileTypes
<1>5. next_xid \in Nat /\ active \subseteq Xid
  BY DurabilityAssumption DEF ActorTypes, FIRST_NORMAL_XID
<1>6. /\ ckpt.boundary \in Nat /\ ckpt.redo \in Nat /\ ckpt.end \in Nat /\ vac.boundary \in Nat
      /\ ckpt.pc = "write" => ckpt.snapshot \in ClogFile
  BY DEF ActorTypes, CkptRec, VacRec
<1>7. vac.pc # "idle" => vac.xid \in Nat
  BY XidNat DEF ActorTypes
<1>8. \A i \in DOMAIN wal : wal[i].xid \in Nat /\ wal[i].ids \subseteq Xid /\ Names(i) \subseteq Xid
  <2> SUFFICES ASSUME NEW i \in DOMAIN wal
               PROVE  wal[i].xid \in Nat /\ wal[i].ids \subseteq Xid /\ Names(i) \subseteq Xid
    OBVIOUS
  <2>1. wal[i] \in Rec
    BY <1>1 DEF LogTypes
  <2>2. /\ wal[i].xid \in Nat /\ wal[i].ids \subseteq Xid
        /\ wal[i].kind \in {"commit", "insert", "abort"} => wal[i].xid \in Xid
    BY <2>1, DurabilityAssumption DEF Rec
  <2> QED  BY <2>2 DEF Names
<1> QED  BY <1>1, <1>2, <1>3, <1>4, <1>5, <1>6, <1>7, <1>8, XidNat DEF Ground

\* The same after a step.
LEMMA GroundNext ==
  ASSUME OrderInv'
  PROVE  Ground'
BY GroundFacts, PTL

\* The log keeps what is durable and changes no record.
Keeps ==
  /\ meta.durable_end <= meta'.durable_end /\ meta.durable_end <= Len(wal')
  /\ \A i \in 1..Len(wal') : i <= Len(wal) => wal'[i] = wal[i]

\* The positions of the log.
LEMMA Positions ==
  ASSUME Ground, Ground', Keeps
  PROVE  /\ \A i : i \in DOMAIN wal <=> i \in Nat /\ 1 <= i /\ i <= Len(wal)
         /\ \A i : i \in DOMAIN wal' <=> i \in Nat /\ 1 <= i /\ i <= Len(wal')
         /\ Len(wal) \in Nat /\ Len(wal') \in Nat
         /\ meta.durable_end \in Nat /\ meta'.durable_end \in Nat
         /\ \A i \in DOMAIN wal : i <= meta.durable_end =>
              i \in DOMAIN wal' /\ i <= meta'.durable_end /\ wal'[i] = wal[i]
         /\ \A i \in DOMAIN wal : i <= Len(wal') => i \in DOMAIN wal' /\ wal'[i] = wal[i]
         /\ \A i \in DOMAIN wal' : i <= Len(wal) => i \in DOMAIN wal /\ wal'[i] = wal[i]
<1>1. /\ DOMAIN wal = 1..Len(wal) /\ Len(wal) \in Nat /\ meta.durable_end \in Nat
      /\ meta.durable_end <= Len(wal)
  BY DEF Ground
<1>2. DOMAIN wal' = 1..Len(wal') /\ Len(wal') \in Nat /\ meta'.durable_end \in Nat
  BY DEF Ground
<1>3. /\ meta.durable_end <= meta'.durable_end /\ meta.durable_end <= Len(wal')
      /\ \A i \in 1..Len(wal') : i <= Len(wal) => wal'[i] = wal[i]
  BY DEF Keeps
<1>4. \A i \in DOMAIN wal : i <= meta.durable_end =>
        i \in DOMAIN wal' /\ i <= meta'.durable_end /\ wal'[i] = wal[i]
  BY <1>1, <1>2, <1>3
<1>5. /\ \A i \in DOMAIN wal : i <= Len(wal') => i \in DOMAIN wal' /\ wal'[i] = wal[i]
      /\ \A i \in DOMAIN wal' : i <= Len(wal) => i \in DOMAIN wal /\ wal'[i] = wal[i]
  BY <1>1, <1>2, <1>3
<1> QED  BY <1>1, <1>2, <1>4, <1>5

\* What is durable stays so.
LEMMA KeepsDurable ==
  ASSUME Ground, Ground', Keeps
  PROVE  /\ \A x : Committed(x) => Committed(x)'
         /\ \A n : Anchored(n) => Anchored(n)'
         /\ \A from, n : NamedAfter(from, n) => NamedAfter(from, n)'
<1>1. \A i \in DOMAIN wal : i <= meta.durable_end =>
        i \in DOMAIN wal' /\ i <= meta'.durable_end /\ wal'[i] = wal[i]
  BY Positions
<1> QED  BY <1>1 DEF Committed, CommitAt, Anchored, NamedAfter

\* The versions of an id stay settled or cleaned while no more are written.
LEMMA KeepsSettled ==
  ASSUME Ground, Ground', Keeps, NEW x,
         \A i \in 1..Len(wal') : i > Len(wal) => ~ InsertAt(i, x)'
  PROVE  /\ Settled(x) => Settled(x)'
         /\ Len(wal) <= Len(wal') /\ Cleaned(x) => Cleaned(x)'
<1>1. Committed(x) => Committed(x)'
  BY KeepsDurable
<1>2. ASSUME NEW i \in DOMAIN wal', InsertAt(i, x)' PROVE i \in DOMAIN wal /\ InsertAt(i, x)
  <2>1. i \in 1..Len(wal')
    BY DEF Ground
  <2>2. i <= Len(wal)
    BY <1>2, <2>1, Positions
  <2>3. i \in DOMAIN wal /\ wal'[i] = wal[i]
    BY <2>2, Positions
  <2> QED  BY <1>2, <2>3 DEF InsertAt
<1>3. ASSUME Settled(x) PROVE Settled(x)'
  <2> SUFFICES ASSUME NEW i \in DOMAIN wal', InsertAt(i, x)', ~ Committed(x)'
               PROVE  \E k \in DOMAIN wal' : k > i /\ k <= meta'.durable_end /\ PruneAt(k, x)'
    BY DEF Settled
  <2>1. PICK k \in DOMAIN wal : k > i /\ k <= meta.durable_end /\ PruneAt(k, x)
    BY <1>1, <1>2, <1>3 DEF Settled
  <2>2. k \in DOMAIN wal' /\ k <= meta'.durable_end /\ wal'[k] = wal[k]
    BY <2>1, Positions
  <2> QED  BY <2>1, <2>2 DEF PruneAt
<1>4. ASSUME Len(wal) <= Len(wal'), Cleaned(x) PROVE Cleaned(x)'
  <2> SUFFICES ASSUME NEW i \in DOMAIN wal', InsertAt(i, x)', ~ Committed(x)'
               PROVE  \E k \in DOMAIN wal' : k > i /\ PruneAt(k, x)'
    BY DEF Cleaned
  <2>1. PICK k \in DOMAIN wal : k > i /\ PruneAt(k, x)
    BY <1>1, <1>2, <1>4 DEF Cleaned
  <2>2. k <= Len(wal')
    BY <1>4, Positions
  <2>3. k \in DOMAIN wal' /\ wal'[k] = wal[k]
    BY <2>2, Positions
  <2> QED  BY <2>1, <2>3 DEF PruneAt
<1> QED  BY <1>3, <1>4

\* The row versions as of a position that stays in the log.
LEMMA KeepsLive ==
  ASSUME Ground, Ground', Keeps, NEW x, NEW upto \in Nat, upto <= Len(wal), upto <= Len(wal')
  PROVE  Live(upto, x)' <=> Live(upto, x)
<1>1. \A i \in Nat : i <= upto =>
        (i \in DOMAIN wal <=> i \in DOMAIN wal') /\ (i \in DOMAIN wal => wal'[i] = wal[i])
  BY Positions
<1>2. \A i \in DOMAIN wal : i \in Nat
  BY Positions
<1>3. \A i \in DOMAIN wal' : i \in Nat
  BY Positions
<1> QED  BY <1>1, <1>2, <1>3 DEF Live, InsertAt, PruneAt

\* The row versions at the end of the log while none is logged and none removed.
LEMMA KeepsRows ==
  ASSUME Ground, Ground', Keeps, NEW x, Len(wal) <= Len(wal'),
         \A i \in 1..Len(wal') : i > Len(wal) => wal'[i].kind \notin {"insert", "prune"}
  PROVE  Live(Len(wal), x)' <=> Live(Len(wal), x)
<1>1. /\ \A i \in DOMAIN wal : i \in DOMAIN wal' /\ wal'[i] = wal[i] /\ i <= Len(wal) /\ i <= Len(wal')
      /\ \A i \in DOMAIN wal' : i <= Len(wal')
  BY Positions
<1>2. \A i \in DOMAIN wal' : wal'[i].kind \in {"insert", "prune"} => i \in DOMAIN wal
  BY Positions DEF Ground
<1> QED  BY <1>1, <1>2 DEF Live, InsertAt, PruneAt

\* A step that keeps the durable log, sets no status to committed but of what it
\* flushes, forgets none, and logs rows and commits of running ids only.
Calm ==
  /\ Keeps /\ clog'.floor = clog.floor
  /\ IF poisoned' THEN Len(wal') <= Len(wal) ELSE ~ poisoned /\ Len(wal) <= Len(wal')
  /\ \A x \in Xid : clog'.st[x] = "Committed" =>
       clog.st[x] = "Committed" \/ (Logged(x) /\ wal' = wal /\ meta'.durable_end = Len(wal))
  /\ \A x \in Xid : clog'.st[x] = "None" => clog.st[x] = "None"
  /\ ~ poisoned' => \A x \in pending' : x \in pending \/ Logged(x)'
  /\ \A i \in 1..Len(wal') : i > Len(wal) =>
       /\ \A x \in Xid : InsertAt(i, x)' => clog'.st[x] # "None"
       /\ \A x \in Names(i)' : x \in active /\ (ckpt.pc = "bounded" => x < ckpt.boundary)
       /\ \A x \in Xid : CommitAt(i, x)' => x \in client'.asked

\* The server stays up, ids are handed out in order, and what was asked for ids
\* already handed out is remembered.
Actors ==
  /\ Up /\ Up' /\ next_xid <= next_xid'
  /\ \A x \in active' : x \in active \/ (next_xid <= x /\ x < next_xid')
  /\ \A x \in Xid : x < next_xid /\ x \in client.asked => x \in client'.asked

\* A new row version is of a running id.
LEMMA NewInserts ==
  ASSUME Calm, NEW x \in Xid, x \notin active
  PROVE  \A i \in 1..Len(wal') : i > Len(wal) => ~ InsertAt(i, x)'
<1>1. \A i \in 1..Len(wal') : InsertAt(i, x)' => x \in Names(i)'
  BY DEF InsertAt, Names
<1> QED  BY <1>1 DEF Calm

\* A calm step of running actors keeps every floor.
LEMMA CalmFloor ==
  ASSUME Ground, Ground', Calm, Actors
  PROVE  /\ \A n \in Nat : Floor(n) => Floor(n)'
         /\ \A n \in Nat : n <= next_xid /\ (\A x \in active : n <= x) =>
              n <= next_xid' /\ \A x \in active' : n <= x
         /\ \A n \in Nat : (\A x \in active : n <= x) /\ (\A x \in Xid : x < n => Settled(x)) =>
              \A x \in Xid : x < n => Settled(x)'
         /\ \A n \in Nat : /\ ~ poisoned' /\ \A x \in active : n <= x
                           /\ \A x \in Xid : x < n => Cleaned(x)
                           => \A x \in Xid : x < n => Cleaned(x)'
<1>1. \A n \in Nat : n <= next_xid /\ (\A x \in active : n <= x) =>
        n <= next_xid' /\ \A x \in active' : n <= x
  <2>1. next_xid \in Nat /\ next_xid' \in Nat /\ Xid \subseteq Nat
    BY DEF Ground
  <2>2. active' \subseteq Xid
    BY DEF Ground
  <2>3. /\ next_xid <= next_xid'
        /\ \A x \in active' : x \in active \/ next_xid <= x
    BY DEF Actors
  <2> QED  BY <2>1, <2>2, <2>3
<1>2. ASSUME NEW n \in Nat, \A x \in active : n <= x, NEW x \in Xid, x < n
      PROVE  \A i \in 1..Len(wal') : i > Len(wal) => ~ InsertAt(i, x)'
  <2>1. x \notin active
    BY <1>2 DEF Ground
  <2> QED  BY <2>1, NewInserts
<1>3. ASSUME NEW n \in Nat, \A x \in active : n <= x, \A x \in Xid : x < n => Settled(x),
             NEW x \in Xid, x < n
      PROVE  Settled(x)'
  BY <1>2, <1>3, KeepsSettled DEF Calm
<1>4. ASSUME NEW n \in Nat, ~ poisoned', \A x \in active : n <= x,
             \A x \in Xid : x < n => Cleaned(x), NEW x \in Xid, x < n
      PROVE  Cleaned(x)'
  <2>1. Len(wal) <= Len(wal')
    BY <1>4 DEF Calm
  <2> QED  BY <1>2, <1>4, <2>1, KeepsSettled DEF Calm
<1>5. ASSUME NEW n \in Nat, Floor(n) PROVE Floor(n)'
  <2>1. n <= next_xid /\ \A x \in active : n <= x
    BY <1>5 DEF Floor, Actors
  <2> QED  BY <1>1, <1>3, <1>5, <2>1 DEF Floor
<1> QED  BY <1>1, <1>3, <1>4, <1>5

\* And what a snapshot of the commit log says.
LEMMA CalmSnapshot ==
  ASSUME Ground, Ground', Calm, Actors, NEW f \in ClogFile, f.lsn <= meta.durable_end,
         SnapshotFloor(f)
  PROVE  SnapshotFloor(f)'
<1>1. f.floor \in Nat /\ f.vacuum_floor \in Nat /\ f.lsn \in Nat
  BY DEF ClogFile
<1>2. Floor(f.floor)' /\ Floor(f.vacuum_floor)'
  BY <1>1, CalmFloor DEF SnapshotFloor
<1>3. Anchored(f.vacuum_floor)' /\ \A x \in Xid : f.st[x] = "Committed" => Committed(x)'
  BY KeepsDurable DEF SnapshotFloor, Calm
<1>4. ASSUME NEW x \in Xid, NEW i \in DOMAIN wal', x >= f.floor, f.st[x] = "None", InsertAt(i, x)'
      PROVE  i > f.lsn
  <2>1. i \in Nat /\ Len(wal) \in Nat /\ f.lsn <= Len(wal)
    <3>1. i \in Nat /\ Len(wal) \in Nat
      BY Positions DEF Calm
    <3>2. meta.durable_end <= Len(wal) /\ meta.durable_end \in Nat
      BY DEF Ground
    <3> QED  BY <1>1, <3>1, <3>2
  <2>2. CASE i > Len(wal)
    BY <1>1, <2>1, <2>2
  <2>3. CASE i <= Len(wal)
    <3>1. i \in DOMAIN wal /\ wal'[i] = wal[i]
      BY <2>3, Positions DEF Calm
    <3>2. InsertAt(i, x)
      BY <1>4, <3>1 DEF InsertAt
    <3> QED  BY <1>4, <3>1, <3>2 DEF SnapshotFloor
  <2> QED  BY <2>1, <2>2, <2>3
<1> QED  BY <1>2, <1>3, <1>4 DEF SnapshotFloor

-----------------------------------------------------------------------------
(* An ordinary step: the parts of the invariant it keeps.                  *)

\* It leaves the snapshot alone, at most writes the page or raises the replay floor to
\* the redo position of the checkpoint, and a version new on the page is in progress.
Steady ==
  /\ Calm /\ Actors /\ clog_file' = clog_file /\ (disk' = disk \/ DiskLive')
  /\ \/ meta'.replay_floor = meta.replay_floor
     \/ ckpt.pc = "recycle" /\ meta'.replay_floor = ckpt.redo
  /\ \A x \in page'.ids : x \in page.ids \/ (x \in active /\ clog'.st[x] = "InProgress")

\* NamedAfter for a lower position and a lower id.
LEMMA NamedBelow ==
  ASSUME Ground, NEW from \in Nat, NEW lower \in Nat, lower <= from,
         NEW n \in Int, NEW m \in Int, m <= n, NamedAfter(from, n)
  PROVE  NamedAfter(lower, m)
<1>1. CASE n < FIRST_NORMAL_XID
  BY <1>1 DEF NamedAfter, FIRST_NORMAL_XID
<1>2. CASE ~ n < FIRST_NORMAL_XID
  <2>1. PICK j \in DOMAIN wal : from < j /\ j <= meta.durable_end /\ n <= wal[j].xid
    BY <1>2 DEF NamedAfter
  <2>2. j \in Nat /\ wal[j].xid \in Nat
    BY DEF Ground
  <2>3. lower < j /\ m <= wal[j].xid
    BY <2>1, <2>2
  <2> QED  BY <2>1, <2>3 DEF NamedAfter
<1> QED  BY <1>1, <1>2

\* Ids stay behind the allocator.
LEMMA SteadyLow ==
  ASSUME OrderInv, OrderInv', CommitInv, SettleInv, Steady
  PROVE  LowInv'
<1> USE DEF Steady, SettleInv
<1>1. Ground /\ Ground' /\ Keeps
  BY GroundFacts, GroundNext DEF Calm
<1>2. /\ Xid \subseteq Nat /\ next_xid \in Nat /\ next_xid' \in Nat /\ next_xid <= next_xid'
      /\ active \subseteq Xid /\ page.ids \subseteq Xid
      /\ \A i \in DOMAIN wal : Names(i) \subseteq Xid
  BY <1>1 DEF Ground, Actors
<1>3. Up /\ Up'
  BY DEF Actors
<1>4. \A x \in active : x < next_xid'
  BY <1>2 DEF ActiveInv
<1>5. ASSUME NEW i \in DOMAIN wal', NEW x \in Names(i)' PROVE x < next_xid'
  <2>1. CASE i <= Len(wal)
    <3>1. i \in DOMAIN wal /\ wal'[i] = wal[i]
      BY <1>1, <2>1, Positions
    <3>2. x \in Names(i)
      BY <1>5, <3>1 DEF Names
    <3>3. x < next_xid /\ x \in Nat
      BY <1>2, <1>3, <3>1, <3>2 DEF LowInv
    <3> QED  BY <1>2, <3>3
  <2>2. CASE ~ i <= Len(wal)
    <3>1. i \in 1..Len(wal') /\ i > Len(wal)
      <4>1. i \in Nat /\ Len(wal) \in Nat /\ i \in 1..Len(wal')
        BY <1>1, Positions DEF Ground
      <4> QED  BY <2>2, <4>1
    <3>2. x \in active
      BY <1>5, <3>1 DEF Calm
    <3> QED  BY <1>4, <3>2
  <2> QED  BY <2>1, <2>2
<1>6. \A x \in page'.ids : x < next_xid'
  <2>1. \A x \in page.ids : x < next_xid /\ x \in Nat
    BY <1>2, <1>3 DEF LowInv
  <2>2. \A x \in page.ids : x < next_xid'
    BY <1>2, <2>1
  <2> QED  BY <1>4, <2>2
<1>7. ASSUME NEW i \in DOMAIN wal', i <= meta'.replay_floor, NEW x \in Names(i)'
      PROVE  NamedAfter(meta.replay_floor, x)'
  <2>1. /\ meta'.replay_floor \in Nat /\ meta.replay_floor \in Nat /\ meta.durable_end \in Nat
        /\ ckpt.redo \in Nat /\ ckpt.end \in Nat /\ ckpt.boundary \in Nat
        /\ meta.replay_floor <= meta.durable_end
    BY <1>1 DEF Ground
  <2>2. ckpt.pc = "recycle" => ckpt.redo <= ckpt.end /\ ckpt.end <= meta.durable_end
    BY DEF OrderInv, CkptInOrder, Taken
  <2>3. i \in DOMAIN wal /\ wal'[i] = wal[i]
    <3>1. meta'.replay_floor <= Len(wal)
      <4>1. meta.durable_end <= Len(wal) /\ Len(wal) \in Nat
        BY <1>1 DEF Ground
      <4> QED  BY <2>1, <2>2, <4>1
    <3>2. i \in Nat /\ Len(wal) \in Nat
      BY <1>1, Positions
    <3>3. i <= Len(wal)
      BY <1>7, <2>1, <3>1, <3>2
    <3> QED  BY <1>1, <3>3, Positions
  <2>4. x \in Names(i) /\ x \in Nat
    <3>1. x \in Names(i)
      BY <1>7, <2>3 DEF Names
    <3> QED  BY <1>2, <2>3, <3>1
  <2>5. NamedAfter(meta'.replay_floor, x)
    <3>1. CASE meta'.replay_floor = meta.replay_floor
      BY <1>7, <2>3, <2>4, <3>1 DEF LowInv
    <3>2. CASE ckpt.pc = "recycle" /\ meta'.replay_floor = ckpt.redo
      <4>1. x < ckpt.boundary
        BY <1>7, <2>3, <2>4, <3>2 DEF CkptInv, Taken
      <4>2. NamedAfter(ckpt.end, ckpt.boundary - 1)
        BY <3>2 DEF CkptInv
      <4>3. x <= ckpt.boundary - 1 /\ ckpt.boundary - 1 \in Int /\ x \in Int
        BY <2>1, <2>4, <4>1
      <4>4. ckpt.redo <= ckpt.end
        BY <2>2, <3>2
      <4>5. NamedAfter(ckpt.redo, x)
        BY <1>1, <2>1, <4>2, <4>3, <4>4, NamedBelow
      <4> QED  BY <3>2, <4>5
    <3> QED  BY <3>1, <3>2
  <2>6. \A from, n : NamedAfter(from, n) => NamedAfter(from, n)'
    BY <1>1, KeepsDurable
  <2>7. PICK r : r = meta'.replay_floor
    OBVIOUS
  <2>8. NamedAfter(r, x)'
    BY <2>5, <2>6, <2>7
  <2> QED  BY <2>7, <2>8 DEF NamedAfter
<1> QED  BY <1>5, <1>6, <1>7 DEF LowInv, NamedAfter

\* A commit of an id that was handed out was asked for and still is.
LEMMA SteadyAsked ==
  ASSUME OrderInv, CommitInv, SettleInv, Actors
  PROVE  /\ \A x \in Xid : Logged(x) => x \in client.asked /\ x \in client'.asked
         /\ \A x \in page.ids : x \in client.asked => x \in client'.asked
<1> USE DEF SettleInv
<1>1. Ground
  BY GroundFacts
<1>2. ASSUME NEW x \in Xid, Logged(x) PROVE x \in client.asked /\ x < next_xid
  <2>1. PICK i \in DOMAIN wal : CommitAt(i, x)
    BY <1>2 DEF Logged
  <2>2. x \in Names(i)
    BY <2>1 DEF CommitAt, Names
  <2> QED  BY <2>1, <2>2 DEF AskInv, LowInv, Actors
<1>3. \A x \in page.ids : x \in Xid /\ x < next_xid
  BY <1>1 DEF LowInv, Actors, Ground
<1> QED  BY <1>2, <1>3 DEF Actors

\* Who commits was asked to.
LEMMA SteadyAsk ==
  ASSUME OrderInv, OrderInv', CommitInv, SettleInv, Steady
  PROVE  AskInv'
<1> USE DEF Steady, SettleInv
<1>1. Ground /\ Ground' /\ Keeps
  BY GroundFacts, GroundNext DEF Calm
<1>2. ASSUME NEW i \in DOMAIN wal', NEW x \in Xid, CommitAt(i, x)' PROVE x \in client'.asked
  <2>1. CASE i <= Len(wal)
    <3>1. i \in DOMAIN wal /\ wal'[i] = wal[i]
      BY <1>1, <2>1, Positions
    <3>2. Logged(x)
      BY <1>2, <3>1 DEF Logged, CommitAt
    <3> QED  BY <3>2, SteadyAsked
  <2>2. CASE ~ i <= Len(wal)
    <3>1. i \in 1..Len(wal') /\ i > Len(wal)
      <4>1. i \in Nat /\ Len(wal) \in Nat /\ i \in 1..Len(wal')
        BY <1>1, Positions DEF Ground
      <4> QED  BY <2>2, <4>1
    <3> QED  BY <1>2, <3>1 DEF Calm
  <2> QED  BY <2>1, <2>2
<1>3. ASSUME ~ poisoned', NEW x \in pending' PROVE Logged(x)'
  <2>1. CASE x \in pending
    <3>1. ~ poisoned /\ Len(wal) <= Len(wal')
      BY <1>3 DEF Calm
    <3>2. PICK i \in DOMAIN wal : CommitAt(i, x)
      BY <2>1, <3>1 DEF AskInv, Logged
    <3>3. i <= Len(wal')
      BY <1>1, <3>1, Positions
    <3>4. i \in DOMAIN wal' /\ wal'[i] = wal[i]
      BY <1>1, <3>3, Positions
    <3> QED  BY <3>2, <3>4 DEF Logged, CommitAt
  <2>2. CASE x \notin pending
    BY <1>3, <2>2 DEF Calm
  <2> QED  BY <2>1, <2>2
<1>4. ASSUME NEW x \in Xid, clog'.st[x] = "Committed" PROVE Committed(x)'
  <2>1. CASE clog.st[x] = "Committed"
    <3>1. Committed(x)
      BY <2>1 DEF AskInv, Actors
    <3> QED  BY <1>1, <3>1, KeepsDurable
  <2>2. CASE Logged(x) /\ wal' = wal /\ meta'.durable_end = Len(wal)
    <3>1. \A i \in DOMAIN wal : i <= Len(wal)
      BY <1>1, Positions
    <3> QED  BY <2>2, <3>1 DEF Logged, Committed, CommitAt
  <2> QED  BY <1>4, <2>1, <2>2 DEF Calm
<1>5. ASSUME NEW x \in page'.ids, status(clog', x) = "Committed" PROVE x \in client'.asked
  <2>1. x \in Xid /\ ~ x < FIRST_NORMAL_XID
    <3>1. page'.ids \subseteq Xid
      BY <1>1 DEF Ground
    <3>2. x \in Xid /\ x >= FIRST_NORMAL_XID
      BY <3>1, XidNat
    <3> QED  BY <3>2, XidNat DEF FIRST_NORMAL_XID
  <2>2. \/ clog'.st[x] = "Committed"
        \/ clog'.st[x] = "None" /\ x < clog'.floor
    BY <1>5, <2>1 DEF status
  <2>3. x \in page.ids \/ clog'.st[x] = "InProgress"
    OBVIOUS
  <2>4. CASE clog'.st[x] = "None" /\ x < clog'.floor
    <3>1. clog.st[x] = "None" /\ x < clog.floor
      BY <2>1, <2>4 DEF Calm
    <3>2. status(clog, x) = "Committed"
      BY <2>1, <3>1 DEF status
    <3>3. x \in page.ids
      BY <2>3, <2>4
    <3>4. x \in client.asked
      BY <3>2, <3>3 DEF AskInv, NoResurrection, Actors, Up
    <3> QED  BY <3>3, <3>4, SteadyAsked
  <2>5. CASE clog'.st[x] = "Committed"
    <3>1. PICK i \in DOMAIN wal' : CommitAt(i, x)'
      BY <1>4, <2>1, <2>5 DEF Committed
    <3> QED  BY <1>2, <2>1, <3>1
  <2> QED  BY <2>2, <2>4, <2>5
<1> QED  BY <1>2, <1>3, <1>4, <1>5 DEF AskInv, NoResurrection

\* The files still say what the log says.
LEMMA SteadyFile ==
  ASSUME OrderInv, OrderInv', CommitInv, SettleInv, Steady
  PROVE  FileInv'
<1> USE DEF Steady, SettleInv
<1>1. Ground /\ Ground' /\ Keeps /\ Calm /\ Actors /\ clog_file' = clog_file
  BY GroundFacts, GroundNext DEF Calm
<1>2. PICK f : f = clog_file
  OBVIOUS
<1>3. f \in ClogFile /\ f.lsn <= meta.durable_end /\ SnapshotFloor(f) /\ f.floor \in Nat
  BY <1>1, <1>2 DEF Ground, CommitInv, KeepInv, FileInv, ClogFile
<1>4. SnapshotFloor(f)'
  BY <1>1, <1>3, CalmSnapshot
<1>5. SnapshotFloor(clog_file)'
  BY <1>1, <1>2, <1>4 DEF SnapshotFloor, Floor, Anchored
<1>6. /\ meta.replay_floor \in Nat /\ ckpt.redo \in Nat /\ ckpt.end \in Nat /\ ckpt.boundary \in Nat
      /\ meta'.replay_floor \in Nat
  BY <1>1 DEF Ground
<1>7. PICK r : r = meta'.replay_floor
  OBVIOUS
<1>8. NamedAfter(r, f.floor - 1)
  <2>1. CASE meta'.replay_floor = meta.replay_floor
    BY <1>2, <1>7, <2>1 DEF FileInv
  <2>2. CASE ckpt.pc = "recycle" /\ meta'.replay_floor = ckpt.redo
    <3>1. ckpt.redo <= ckpt.end
      BY <2>2 DEF OrderInv, CkptInOrder, Taken
    <3>2. NamedAfter(ckpt.end, ckpt.boundary - 1) /\ f.floor <= ckpt.boundary
      BY <1>2, <2>2 DEF CkptInv
    <3>3. f.floor - 1 \in Int /\ ckpt.boundary - 1 \in Int /\ f.floor - 1 <= ckpt.boundary - 1
      BY <1>3, <1>6, <3>2
    <3>4. NamedAfter(ckpt.redo, f.floor - 1)
      BY <1>1, <1>6, <3>1, <3>2, <3>3, NamedBelow
    <3> QED  BY <1>7, <2>2, <3>4
  <2> QED  BY <2>1, <2>2
<1>9. NamedAfter(r, f.floor - 1)'
  BY <1>1, <1>8, KeepsDurable
<1>10. NamedAfter(meta.replay_floor, clog_file.floor - 1)'
  BY <1>1, <1>2, <1>7, <1>9 DEF NamedAfter
<1>11. ASSUME disk' = disk, NEW x \in Xid PROVE (x \in disk.ids <=> Live(disk.lsn, x))'
  <2>1. PICK l : l = disk.lsn
    OBVIOUS
  <2>2. l \in Nat /\ l <= meta.durable_end
    BY <1>1, <2>1 DEF Ground, CommitInv, PageInv
  <2>3. /\ meta.durable_end <= Len(wal) /\ meta.durable_end \in Nat /\ Len(wal) \in Nat
        /\ meta.durable_end <= Len(wal')
    BY <1>1 DEF Ground, Keeps
  <2>4. Len(wal') \in Nat
    BY <1>1 DEF Ground
  <2>5. l <= Len(wal) /\ l <= Len(wal')
    BY <2>2, <2>3, <2>4
  <2>6. Live(l, x)' <=> Live(l, x)
    BY <1>1, <2>2, <2>5, KeepsLive
  <2>7. x \in disk.ids <=> Live(l, x)
    BY <2>1 DEF FileInv, DiskLive
  <2>8. disk' = disk
    BY <1>11
  <2>9. x \in disk'.ids <=> Live(l, x)'
    BY <2>6, <2>7, <2>8
  <2>10. disk'.lsn = l
    BY <2>1, <2>8
  <2> QED  BY <2>9, <2>10 DEF Live
<1>12. (~ clog_file.loaded => clog_file = NoClogFile)'
  BY <1>1 DEF FileInv
<1>13. DiskLive'
  BY <1>11 DEF DiskLive
<1> QED  BY <1>5, <1>10, <1>12, <1>13 DEF FileInv

\* The floors in memory.
LEMMA SteadyMem ==
  ASSUME OrderInv, OrderInv', CommitInv, SettleInv, Steady, vacuum_floor' = vacuum_floor
  PROVE  MemInv'
<1> USE DEF Steady, SettleInv
<1>1. Ground /\ Ground' /\ Keeps /\ Calm /\ Actors /\ Up /\ Up'
  BY GroundFacts, GroundNext DEF Calm, Actors
<1>2. /\ Floor(clog.floor) /\ Anchored(vacuum_floor)
      /\ vacuum_floor <= next_xid /\ \A x \in active : vacuum_floor <= x
      /\ ~ poisoned =>
           /\ \A x \in Xid : x < vacuum_floor => Cleaned(x)
           /\ \A i \in DOMAIN wal : \A x \in Xid :
                InsertAt(i, x) /\ clog.st[x] = "None" => x < clog.floor
  BY <1>1 DEF MemInv
<1>3. clog.floor \in Nat /\ vacuum_floor \in Nat
  BY <1>1 DEF Ground
<1>4. PICK c, v : c = clog.floor /\ v = vacuum_floor
  OBVIOUS
<1>5. Floor(c)' /\ Anchored(v)' /\ v <= next_xid' /\ \A x \in active' : v <= x
  BY <1>1, <1>2, <1>3, <1>4, CalmFloor, KeepsDurable
<1>6. clog'.floor = c /\ vacuum_floor' = v
  BY <1>1, <1>4 DEF Calm
<1>7. Floor(clog.floor)' /\ Anchored(vacuum_floor)'
  BY <1>5, <1>6 DEF Floor, Anchored
<1>8. ASSUME ~ poisoned' PROVE \A x \in Xid : x < vacuum_floor' => Cleaned(x)'
  <2>1. ~ poisoned
    BY <1>1, <1>8 DEF Calm
  <2>2. \A x \in Xid : x < v => Cleaned(x)'
    BY <1>1, <1>2, <1>3, <1>4, <1>8, <2>1, CalmFloor
  <2> QED  BY <1>6, <2>2
<1>9. ASSUME ~ poisoned', NEW i \in DOMAIN wal', NEW x \in Xid, InsertAt(i, x)', clog'.st[x] = "None"
      PROVE  x < clog'.floor
  <2>1. ~ poisoned /\ clog'.floor = clog.floor /\ clog.st[x] = "None"
    BY <1>1, <1>9 DEF Calm
  <2>2. i <= Len(wal)
    <3>1. i \in Nat /\ Len(wal) \in Nat /\ i \in 1..Len(wal')
      BY <1>1, Positions DEF Ground
    <3>2. ~ i > Len(wal)
      BY <1>1, <1>9, <3>1 DEF Calm
    <3> QED  BY <3>1, <3>2
  <2>3. i \in DOMAIN wal /\ wal'[i] = wal[i]
    BY <1>1, <2>2, Positions
  <2>4. InsertAt(i, x)
    BY <1>9, <2>3 DEF InsertAt
  <2> QED  BY <1>2, <2>1, <2>3, <2>4
<1> QED  BY <1>5, <1>6, <1>7, <1>8, <1>9 DEF MemInv

\* What the checkpoint has read stays true.
LEMMA SteadyCkptFacts ==
  ASSUME OrderInv, OrderInv', CommitInv, SettleInv, Steady,
         vacuum_floor' = vacuum_floor \/ ckpt.pc \notin {"snapshot", "write"}
  PROVE  /\ ckpt.pc = "bounded" => \A i \in DOMAIN wal' : \A x \in Names(i)' : x < ckpt.boundary
         /\ ckpt.pc \in Taken =>
              \A i \in DOMAIN wal' : i <= ckpt.redo => \A x \in Names(i)' : x < ckpt.boundary
         /\ ckpt.pc = "flush" /\ ~ poisoned' =>
              \E j \in DOMAIN wal' : ckpt.end < j /\ wal'[j].xid = ckpt.boundary - 1
         /\ ckpt.pc \in {"snapshot", "write", "control", "recycle"} =>
              \A e, b : e = ckpt.end /\ b = ckpt.boundary => NamedAfter(e, b - 1)'
         /\ ckpt.pc \in {"bounded", "marker", "flush", "snapshot", "write"} =>
              /\ ckpt.boundary <= next_xid' /\ clog'.floor <= ckpt.boundary
              /\ \A x \in active' : x \in ckpt.active \/ ckpt.boundary <= x
         /\ ckpt.pc = "snapshot" /\ ~ poisoned' => \A x \in Xid : x < vacuum_floor' => Settled(x)'
         /\ ckpt.pc = "write" => \A f : f = ckpt.snapshot => SnapshotFloor(f)'
<1> USE DEF Steady, SettleInv
<1>1. Ground /\ Ground' /\ Keeps /\ Calm /\ Actors /\ Up /\ Up'
  BY GroundFacts, GroundNext DEF Calm, Actors
<1>2. /\ Xid \subseteq Nat /\ next_xid \in Nat /\ next_xid' \in Nat /\ next_xid <= next_xid'
      /\ active \subseteq Xid /\ clog'.floor = clog.floor
      /\ ckpt.boundary \in Nat /\ ckpt.redo \in Nat /\ ckpt.end \in Nat
  BY <1>1 DEF Ground, Actors, Calm
<1>3. ASSUME NEW i \in DOMAIN wal', i <= Len(wal), NEW x \in Names(i)'
      PROVE  i \in DOMAIN wal /\ x \in Names(i)
  <2>1. i \in DOMAIN wal /\ wal'[i] = wal[i]
    BY <1>1, <1>3, Positions
  <2> QED  BY <1>3, <2>1 DEF Names
<1>4. ASSUME NEW i \in DOMAIN wal' PROVE i <= Len(wal) \/ (i > Len(wal) /\ i \in 1..Len(wal'))
  <2>1. i \in Nat /\ Len(wal) \in Nat /\ i \in 1..Len(wal')
    BY <1>1, Positions DEF Ground
  <2> QED  BY <2>1
<1>5. ASSUME ckpt.pc = "bounded", NEW i \in DOMAIN wal', NEW x \in Names(i)' PROVE x < ckpt.boundary
  <2>1. CASE i <= Len(wal)
    BY <1>3, <1>5, <2>1 DEF CkptInv
  <2>2. CASE i > Len(wal) /\ i \in 1..Len(wal')
    BY <1>1, <1>5, <2>2 DEF Calm
  <2> QED  BY <1>4, <2>1, <2>2
<1>6. ASSUME ckpt.pc \in Taken, NEW i \in DOMAIN wal', i <= ckpt.redo, NEW x \in Names(i)'
      PROVE  x < ckpt.boundary
  <2>1. CASE i <= Len(wal)
    BY <1>3, <1>6, <2>1 DEF CkptInv
  <2>2. CASE i > Len(wal) /\ i \in 1..Len(wal')
    <3>1. i \in Nat /\ Len(wal) \in Nat /\ Len(wal') \in Nat /\ i <= Len(wal')
      BY <1>1, Positions
    <3>2. ~ poisoned
      BY <1>1, <2>2, <3>1 DEF Calm
    <3>3. ckpt.redo <= ckpt.end /\ ckpt.end <= Len(wal)
      BY <1>6, <3>2 DEF OrderInv, CkptInOrder
    <3> QED  BY <1>2, <1>6, <2>2, <3>1, <3>3
  <2> QED  BY <1>4, <2>1, <2>2
<1>7. ASSUME ckpt.pc = "flush", ~ poisoned'
      PROVE  \E j \in DOMAIN wal' : ckpt.end < j /\ wal'[j].xid = ckpt.boundary - 1
  <2>1. ~ poisoned /\ Len(wal) <= Len(wal')
    BY <1>1, <1>7 DEF Calm
  <2>2. PICK j \in DOMAIN wal : ckpt.end < j /\ wal[j].xid = ckpt.boundary - 1
    BY <1>7, <2>1 DEF CkptInv
  <2>3. j <= Len(wal')
    BY <1>1, <2>1, Positions
  <2>4. j \in DOMAIN wal' /\ wal'[j] = wal[j]
    BY <1>1, <2>3, Positions
  <2> QED  BY <2>2, <2>4
<1>8. ASSUME ckpt.pc \in {"snapshot", "write", "control", "recycle"},
             NEW e, NEW b, e = ckpt.end, b = ckpt.boundary
      PROVE  NamedAfter(e, b - 1)'
  <2>1. NamedAfter(e, b - 1)
    BY <1>8 DEF CkptInv
  <2> QED  BY <1>1, <2>1, KeepsDurable
<1>9. ASSUME ckpt.pc \in {"bounded", "marker", "flush", "snapshot", "write"}
      PROVE  /\ ckpt.boundary <= next_xid' /\ clog'.floor <= ckpt.boundary
             /\ \A x \in active' : x \in ckpt.active \/ ckpt.boundary <= x
  <2>1. /\ ckpt.boundary <= next_xid /\ clog.floor <= ckpt.boundary
        /\ \A x \in active : x \in ckpt.active \/ ckpt.boundary <= x
    BY <1>9 DEF CkptInv
  <2>2. active' \subseteq Xid
    BY <1>1 DEF Ground
  <2>3. \A x \in active' : x \in active \/ next_xid <= x
    BY <1>1 DEF Actors
  <2>4. ASSUME NEW x \in active', next_xid <= x PROVE ckpt.boundary <= x
    <3>1. x \in Nat /\ next_xid \in Nat /\ ckpt.boundary \in Nat
      BY <1>2, <2>2
    <3> QED  BY <2>1, <2>4, <3>1
  <2>5. \A x \in active' : x \in ckpt.active \/ ckpt.boundary <= x
    BY <2>1, <2>3, <2>4, Zenon
  <2>6. ckpt.boundary <= next_xid' /\ clog'.floor <= ckpt.boundary
    BY <1>2, <2>1
  <2> QED  BY <2>5, <2>6
<1>10. ASSUME ckpt.pc = "snapshot", ~ poisoned' PROVE \A x \in Xid : x < vacuum_floor' => Settled(x)'
  <2>1. ~ poisoned
    BY <1>1, <1>10 DEF Calm
  <2>2. PICK v \in Nat : v = vacuum_floor
    BY <1>1 DEF Ground
  <2>3. (\A x \in active : v <= x) /\ \A x \in Xid : x < v => Settled(x)
    BY <1>1, <1>10, <2>1, <2>2 DEF CkptInv, MemInv
  <2>4. \A x \in Xid : x < v => Settled(x)'
    BY <1>1, <2>3, CalmFloor
  <2> QED  BY <1>10, <2>2, <2>4
<1>11. ASSUME ckpt.pc = "write", NEW f, f = ckpt.snapshot PROVE SnapshotFloor(f)'
  <2>1. f \in ClogFile /\ f.lsn <= meta.durable_end /\ SnapshotFloor(f)
    BY <1>1, <1>11 DEF Ground, CkptInv, OrderInv, CkptInOrder
  <2> QED  BY <1>1, <2>1, CalmSnapshot
<1> QED  BY <1>5, <1>6, <1>7, <1>8, <1>9, <1>10, <1>11

\* The running checkpoint is kept, or has ended.
LEMMA SteadyCkpt ==
  ASSUME OrderInv, OrderInv', CommitInv, SettleInv, Steady, ckpt' = ckpt \/ ckpt'.pc = "idle",
         vacuum_floor' = vacuum_floor \/ ckpt.pc \notin {"snapshot", "write"}
  PROVE  CkptInv'
<1>1. CASE ckpt'.pc = "idle"
  BY <1>1 DEF CkptInv, Taken
<1>2. CASE ckpt' = ckpt
  <2> USE <1>2, SteadyCkptFacts
  <2>1. /\ ckpt'.pc = "bounded" => \A i \in DOMAIN wal' : \A x \in Names(i)' : x < ckpt'.boundary
        /\ ckpt'.pc \in Taken =>
             \A i \in DOMAIN wal' : i <= ckpt'.redo => \A x \in Names(i)' : x < ckpt'.boundary
        /\ ckpt'.pc = "flush" /\ ~ poisoned' =>
             \E j \in DOMAIN wal' : ckpt'.end < j /\ wal'[j].xid = ckpt'.boundary - 1
        /\ ckpt'.pc \in {"bounded", "marker", "flush", "snapshot", "write"} =>
             /\ ckpt'.boundary <= next_xid' /\ clog'.floor <= ckpt'.boundary
             /\ \A x \in active' : x \in ckpt'.active \/ ckpt'.boundary <= x
        /\ ckpt'.pc = "snapshot" /\ ~ poisoned' => \A x \in Xid : x < vacuum_floor' => Settled(x)'
    OBVIOUS
  <2>2. PICK e, b, f : e = ckpt.end /\ b = ckpt.boundary /\ f = ckpt.snapshot
    OBVIOUS
  <2>3. ckpt.pc \in {"snapshot", "write", "control", "recycle"} => NamedAfter(e, b - 1)'
    BY <2>2
  <2>4. (ckpt.pc \in {"snapshot", "write", "control", "recycle"} =>
          NamedAfter(ckpt.end, ckpt.boundary - 1))'
    BY <2>2, <2>3 DEF NamedAfter
  <2>5. ckpt.pc = "write" => SnapshotFloor(f)'
    BY <2>2
  <2>6. (ckpt.pc = "write" => SnapshotFloor(ckpt.snapshot))'
    BY <2>2, <2>5 DEF SnapshotFloor, Floor, Anchored
  <2>7. /\ clog'.floor = clog.floor /\ clog_file' = clog_file
        /\ ckpt.pc = "write" => ckpt.snapshot.floor <= ckpt.boundary /\ clog.floor <= ckpt.snapshot.floor
        /\ ckpt.pc \in {"control", "recycle"} => clog_file.floor <= ckpt.boundary
    BY DEF Steady, Calm, SettleInv, CkptInv
  <2> QED  BY <2>1, <2>4, <2>6, <2>7 DEF CkptInv
<1> QED  BY <1>1, <1>2

\* What VACUUM has read and done stays true while it runs.
LEMMA SteadyVacFacts ==
  ASSUME OrderInv, OrderInv', CommitInv, SettleInv, Steady, vac.pc # "idle"
  PROVE  /\ vac.boundary <= vac.xid /\ \A x \in active' : vac.boundary <= x
         /\ \A v : v = vac.xid => v < next_xid
         /\ ~ poisoned' /\ Maintained(Len(wal)) =>
              \E i \in DOMAIN wal' : i <= Len(wal') /\ wal'[i].kind = "commit" /\ wal'[i].xid = vac.xid
         /\ Maintained(meta.durable_end) =>
              \E i \in DOMAIN wal' : i <= meta'.durable_end /\ wal'[i].kind = "commit"
                                     /\ wal'[i].xid = vac.xid
         /\ ~ poisoned' /\ (\A x \in Xid : x < vac.boundary => Cleaned(x)) =>
              \A x \in Xid : x < vac.boundary => Cleaned(x)'
<1> USE DEF Steady, SettleInv
<1>1. Ground /\ Ground' /\ Keeps /\ Calm /\ Actors
  BY GroundFacts, GroundNext DEF Calm
<1>2. /\ next_xid \in Nat /\ vac.boundary \in Nat /\ vac.xid \in Nat /\ Xid \subseteq Nat
  BY <1>1 DEF Ground
<1>3. vac.boundary <= vac.xid /\ \A x \in active : vac.boundary <= x
  BY DEF VacInv
<1>4. vac.xid < next_xid
  <2>1. vac.xid # NoXid
    BY <1>2 DEF NoXid
  <2> QED  BY <2>1 DEF CommitInv, IdsInv
<1>5. ASSUME NEW x \in active' PROVE vac.boundary <= x
  <2>1. x \in active \/ next_xid <= x
    BY <1>1 DEF Actors
  <2>2. active' \subseteq Xid
    BY <1>1 DEF Ground
  <2>3. x \in Nat
    BY <1>2, <2>2
  <2> QED  BY <1>2, <1>3, <1>4, <2>1, <2>3
<1>6. ASSUME ~ poisoned', Maintained(Len(wal))
      PROVE  \E i \in DOMAIN wal' : i <= Len(wal') /\ wal'[i].kind = "commit" /\ wal'[i].xid = vac.xid
  <2>1. Len(wal) <= Len(wal')
    BY <1>1, <1>6 DEF Calm
  <2>2. PICK i \in DOMAIN wal : wal[i].kind = "commit" /\ wal[i].xid = vac.xid
    BY <1>6 DEF Maintained
  <2>3. i <= Len(wal')
    BY <1>1, <2>1, Positions
  <2>4. i \in DOMAIN wal' /\ wal'[i] = wal[i]
    BY <1>1, <2>3, Positions
  <2> QED  BY <2>2, <2>3, <2>4
<1>7. ASSUME Maintained(meta.durable_end)
      PROVE  \E i \in DOMAIN wal' : i <= meta'.durable_end /\ wal'[i].kind = "commit"
                                    /\ wal'[i].xid = vac.xid
  BY <1>1, <1>7, Positions DEF Maintained
<1>8. ASSUME ~ poisoned', \A x \in Xid : x < vac.boundary => Cleaned(x)
      PROVE  \A x \in Xid : x < vac.boundary => Cleaned(x)'
  BY <1>1, <1>2, <1>3, <1>8, CalmFloor
<1> QED  BY <1>3, <1>4, <1>5, <1>6, <1>7, <1>8

\* The running VACUUM is kept, or has ended.
LEMMA SteadyVac ==
  ASSUME OrderInv, OrderInv', CommitInv, SettleInv, Steady, vac' = vac \/ vac'.pc = "idle"
  PROVE  VacInv'
<1>1. CASE vac'.pc = "idle"
  BY <1>1 DEF VacInv
<1>2. CASE vac'.pc # "idle"
  <2>1. vac' = vac /\ vac.pc # "idle"
    BY <1>2
  <2>2. VacInv /\ (~ poisoned' => ~ poisoned)
    BY DEF SettleInv, Steady, Calm
  <2> QED  BY <2>1, <2>2, SteadyVacFacts DEF VacInv, Maintained
<1> QED  BY <1>1, <1>2

\* The page, while no version is logged and none removed.
LEMMA SteadyRows ==
  ASSUME OrderInv, OrderInv', CommitInv, SettleInv, Steady, page'.ids = page.ids,
         \A i \in 1..Len(wal') : i > Len(wal) => wal'[i].kind \notin {"insert", "prune"},
         \A s \in Session : \A x \in Family(txn'[s]) :
           x \in page.ids => x \in Family(txn[s]) /\ (txn[s].wrote => txn'[s].wrote),
         vac'.pc # "idle" => vac'.xid \notin page.ids,
         \A x \in page.ids : clog'.st[x] = "InProgress" =>
           InUse(x)' \/ (clog.st[x] = "InProgress" /\ (InUse(x) => InUse(x)'))
  PROVE  RowsInv'
<1> USE DEF Steady, SettleInv
<1>1. Ground /\ Ground' /\ Keeps /\ Up /\ RowsInv
  BY GroundFacts, GroundNext DEF Calm, Actors
<1>2. /\ \A s \in Session : \A x \in Family(txn[s]) : x \in page.ids => txn[s].wrote
      /\ \A x \in page.ids : clog.st[x] = "InProgress" => InUse(x)
      /\ ~ poisoned => \A x \in Xid : x \in page.ids <=> Live(Len(wal), x)
  BY <1>1 DEF RowsInv
<1>3. ASSUME ~ poisoned', NEW x \in Xid PROVE x \in page'.ids <=> Live(Len(wal), x)'
  <2>1. ~ poisoned /\ Len(wal) <= Len(wal')
    BY <1>3 DEF Calm
  <2>2. Live(Len(wal), x)' <=> Live(Len(wal), x)
    BY <1>1, <2>1, KeepsRows
  <2> QED  BY <1>2, <2>1, <2>2
<1>4. \A s \in Session : \A x \in Family(txn'[s]) : x \in page'.ids => txn'[s].wrote
  BY <1>2
<1>5. \A x \in page'.ids : clog'.st[x] = "InProgress" => InUse(x)'
  BY <1>2
<1> QED  BY <1>3, <1>4, <1>5 DEF RowsInv, Family

\* The invariant, from its parts.
LEMMA SteadyStep ==
  ASSUME OrderInv, OrderInv', CommitInv, SettleInv, Steady, ActiveInv', RowsInv',
         vac' = vac \/ vac'.pc = "idle" \/ VacInv',
         ckpt' = ckpt \/ ckpt'.pc = "idle" \/ CkptInv', vacuum_floor' = vacuum_floor
  PROVE  SettleInv'
BY SteadyLow, SteadyAsk, SteadyFile, SteadyMem, SteadyCkpt, SteadyVac DEF SettleInv

-----------------------------------------------------------------------------
(* The calls of the log, as ordinary steps.                                *)

\* The log stays as it is, or what waits in it is given up.
LEMMA StillCalm ==
  ASSUME OrderInv, wal' = wal, meta'.durable_end = meta.durable_end, clog' = clog,
         pending' \subseteq pending, poisoned => poisoned', poisoned' \in BOOLEAN
  PROVE  Calm
<1>1. Ground
  BY GroundFacts
<1>2. /\ meta.durable_end \in Nat /\ Len(wal) \in Nat /\ meta.durable_end <= Len(wal)
  BY <1>1 DEF Ground
<1>3. Keeps
  BY <1>2 DEF Keeps
<1>4. IF poisoned' THEN Len(wal') <= Len(wal) ELSE ~ poisoned /\ Len(wal) <= Len(wal')
  BY <1>2
<1>5. \A i \in 1..Len(wal') : ~ i > Len(wal)
  BY <1>2
<1> QED  BY <1>3, <1>4, <1>5 DEF Calm

\* A flush that succeeds.
LEMMA FlushCalm ==
  ASSUME OrderInv, AskInv, FlushOk
  PROVE  Calm
<1>1. Ground /\ LogTypes
  BY GroundFacts DEF OrderInv, Types
<1>2. /\ meta.durable_end \in Nat /\ Len(wal) \in Nat /\ meta.durable_end <= Len(wal)
  BY <1>1 DEF Ground
<1>3. /\ ~ poisoned /\ ~ poisoned' /\ wal' = wal /\ pending' = {}
      /\ meta'.durable_end = Len(wal) /\ clog'.floor = clog.floor
      /\ \A x \in Xid : clog'.st[x] = IF x \in pending THEN "Committed" ELSE clog.st[x]
  BY <1>1, FlushFacts
<1>4. Keeps
  BY <1>2, <1>3 DEF Keeps
<1>5. IF poisoned' THEN Len(wal') <= Len(wal) ELSE ~ poisoned /\ Len(wal) <= Len(wal')
  BY <1>2, <1>3
<1>6. \A i \in 1..Len(wal') : ~ i > Len(wal)
  BY <1>2, <1>3
<1>7. \A x \in pending : Logged(x)
  BY <1>3 DEF AskInv
<1>8. \A x \in Xid : clog'.st[x] = "Committed" =>
        clog.st[x] = "Committed" \/ (Logged(x) /\ wal' = wal /\ meta'.durable_end = Len(wal))
  BY <1>3, <1>7
<1>9. \A x \in Xid : clog'.st[x] = "None" => clog.st[x] = "None"
  BY <1>3
<1> QED  BY <1>3, <1>4, <1>5, <1>6, <1>8, <1>9 DEF Calm

\* A flush that fails, with a known or an unknown outcome.
LEMMA FailCalm ==
  ASSUME OrderInv, FlushFails \/ FlushUnknown \/ FlushRefused
  PROVE  /\ Calm /\ poisoned' /\ clog' = clog /\ meta'.replay_floor = meta.replay_floor
         /\ \A i \in 1..Len(wal') : ~ i > Len(wal)
<1>1. Ground /\ LogTypes
  BY GroundFacts DEF OrderInv, Types
<1>2. /\ meta.durable_end \in Nat /\ Len(wal) \in Nat /\ meta.durable_end <= Len(wal)
  BY <1>1 DEF Ground
<1>3. /\ LogTypes' /\ poisoned' /\ clog' = clog /\ pending' \subseteq pending
      /\ meta'.durable_end = meta.durable_end /\ meta'.replay_floor = meta.replay_floor
      /\ FlushFails => /\ Len(wal') = meta.durable_end
                       /\ \A i \in 1..meta.durable_end : wal'[i] = wal[i]
      /\ FlushUnknown => wal' = wal
      /\ FlushRefused => wal' = wal
  BY <1>1, <1>2, FailFacts
<1>4. CASE wal' = wal
  BY <1>2, <1>3, <1>4, StillCalm
<1>5. CASE FlushFails
  <2>1. Keeps
    BY <1>2, <1>3, <1>5 DEF Keeps
  <2>2. Len(wal') <= Len(wal) /\ \A i \in 1..Len(wal') : ~ i > Len(wal)
    BY <1>2, <1>3, <1>5
  <2> QED  BY <1>3, <2>1, <2>2 DEF Calm
<1> QED  BY <1>3, <1>4, <1>5

\* A record is appended for running ids.
LEMMA AppendCalm ==
  ASSUME OrderInv, NEW r \in Rec, AppendRecord(r),
         r.kind \in {"insert", "commit"} => represents_transaction(r),
         \A x \in {r.xid} \cup r.ids : r.kind = "commit" \/ (r.kind = "insert" /\ x = r.xid) =>
           x \in active /\ (ckpt.pc = "bounded" => x < ckpt.boundary),
         r.kind = "commit" => \A x \in {r.xid} \cup r.ids : x \in client'.asked
  PROVE  Calm
<1>1. Ground /\ LogTypes
  BY GroundFacts DEF OrderInv, Types
<1>2. /\ meta.durable_end \in Nat /\ Len(wal) \in Nat /\ meta.durable_end <= Len(wal)
  BY <1>1 DEF Ground
<1>3. /\ LogTypes' /\ meta' = meta /\ poisoned' = poisoned
      /\ clog'.floor = clog.floor
      /\ \A x \in Xid : clog'.st[x] = IF x = r.xid /\ r.kind = "abort" THEN "Aborted"
                                      ELSE IF x = r.xid /\ represents_transaction(r)
                                      THEN "InProgress" ELSE clog.st[x]
      /\ poisoned => wal' = wal /\ pending' = pending
      /\ ~ poisoned =>
           /\ Len(wal') = Len(wal) + 1 /\ wal'[Len(wal) + 1] = r
           /\ \A i \in 1..Len(wal) : wal'[i] = wal[i]
           /\ pending' = pending \cup (IF r.kind = "commit" THEN {r.xid} \cup r.ids ELSE {})
  BY <1>1, AppendFacts
<1>4. poisoned' \in BOOLEAN
  BY <1>3 DEF LogTypes
<1>5. Len(wal') = Len(wal) \/ Len(wal') = Len(wal) + 1
  BY <1>3
<1>6. Keeps
  BY <1>2, <1>3, <1>5 DEF Keeps
<1>7. IF poisoned' THEN Len(wal') <= Len(wal) ELSE ~ poisoned /\ Len(wal) <= Len(wal')
  BY <1>2, <1>3, <1>4
<1>8. /\ \A x \in Xid : clog'.st[x] = "Committed" => clog.st[x] = "Committed"
      /\ \A x \in Xid : clog'.st[x] = "None" => clog.st[x] = "None"
  BY <1>3
<1>9. ASSUME NEW i \in 1..Len(wal'), i > Len(wal) PROVE ~ poisoned /\ i = Len(wal) + 1 /\ wal'[i] = r
  <2>1. ~ poisoned
    BY <1>2, <1>3, <1>9
  <2>2. i = Len(wal) + 1
    BY <1>2, <1>3, <1>9, <2>1
  <2> QED  BY <1>3, <2>1, <2>2
<1>10. ASSUME ~ poisoned', NEW x \in pending', x \notin pending PROVE Logged(x)'
  <2>1. r.kind = "commit" /\ x \in {r.xid} \cup r.ids /\ ~ poisoned
    BY <1>3, <1>10
  <2>2. Len(wal) + 1 \in DOMAIN wal' /\ wal'[Len(wal) + 1] = r
    <3>1. DOMAIN wal' = 1..Len(wal')
      BY <1>3 DEF LogTypes
    <3> QED  BY <1>2, <1>3, <2>1, <3>1
  <2> QED  BY <2>1, <2>2 DEF Logged, CommitAt
<1>11. ASSUME NEW i \in 1..Len(wal'), i > Len(wal)
       PROVE  /\ \A x \in Xid : InsertAt(i, x)' => clog'.st[x] # "None"
              /\ \A x \in Names(i)' : x \in active /\ (ckpt.pc = "bounded" => x < ckpt.boundary)
              /\ \A x \in Xid : CommitAt(i, x)' => x \in client'.asked
  <2>1. wal'[i] = r
    BY <1>9, <1>11
  <2>2. \A x \in Xid : InsertAt(i, x)' => clog'.st[x] # "None"
    BY <1>3, <2>1 DEF InsertAt
  <2>3. \A x \in Names(i)' : /\ x \in {r.xid} \cup r.ids
                             /\ r.kind = "commit" \/ (r.kind = "insert" /\ x = r.xid)
    BY <2>1 DEF Names
  <2>4. \A x \in Xid : CommitAt(i, x)' => x \in client'.asked
    BY <2>1 DEF CommitAt
  <2> QED  BY <2>2, <2>3, <2>4
<1> QED  BY <1>3, <1>6, <1>7, <1>8, <1>10, <1>11 DEF Calm

\* A transaction is aborted.
LEMMA FamilyCalm ==
  ASSUME OrderInv, NEW s \in Session, txn[s].pc # "idle", AbortFamily(s)
  PROVE  /\ Calm /\ meta' = meta
         /\ \A x \in Xid : clog'.st[x] = IF x \in Family(txn[s]) THEN "Aborted" ELSE clog.st[x]
         /\ \A i \in 1..Len(wal') : i > Len(wal) => wal'[i].kind = "abort"
<1>1. Ground /\ LogTypes /\ txn \in [Session -> TxnRec] /\ txn[s].xid \in Xid
  BY GroundFacts DEF OrderInv, Types, ActorTypes
<1>2. /\ meta.durable_end \in Nat /\ Len(wal) \in Nat /\ meta.durable_end <= Len(wal)
  BY <1>1 DEF Ground
<1>3. /\ LogTypes' /\ meta' = meta /\ poisoned' = poisoned
      /\ clog'.floor = clog.floor
      /\ \A x \in Xid : clog'.st[x] = IF x \in Family(txn[s]) THEN "Aborted" ELSE clog.st[x]
      /\ poisoned => wal' = wal
      /\ pending' = pending
      /\ ~ poisoned =>
           /\ Len(wal') \in {Len(wal) + 1, Len(wal) + 2}
           /\ \A i \in 1..Len(wal) : wal'[i] = wal[i]
           /\ \A i \in (Len(wal) + 1)..Len(wal') :
                wal'[i].kind = "abort" /\ wal'[i].xid \in Family(txn[s])
  BY <1>1, AppendFamilyFacts
<1>4. poisoned' \in BOOLEAN /\ Len(wal') \in Nat
  BY <1>3 DEF LogTypes
<1>5. /\ Len(wal) <= Len(wal')
      /\ poisoned => Len(wal') = Len(wal)
  BY <1>2, <1>3, <1>4
<1>6. \A i \in 1..Len(wal) : wal'[i] = wal[i]
  BY <1>3
<1>7. Keeps
  BY <1>2, <1>3, <1>4, <1>5, <1>6 DEF Keeps
<1>8. IF poisoned' THEN Len(wal') <= Len(wal) ELSE ~ poisoned /\ Len(wal) <= Len(wal')
  BY <1>2, <1>3, <1>4, <1>5
<1>9. ASSUME NEW i \in 1..Len(wal'), i > Len(wal) PROVE wal'[i].kind = "abort"
  <2>1. ~ poisoned
    BY <1>2, <1>4, <1>5, <1>9
  <2>2. i \in (Len(wal) + 1)..Len(wal')
    BY <1>2, <1>4, <1>9
  <2> QED  BY <1>3, <2>1, <2>2
<1>10. \A i \in 1..Len(wal') : i > Len(wal) =>
         /\ \A x : ~ InsertAt(i, x)' /\ ~ CommitAt(i, x)'
         /\ Names(i)' = {}
  BY <1>9 DEF InsertAt, CommitAt, Names
<1>11. /\ \A x \in Xid : clog'.st[x] = "Committed" => clog.st[x] = "Committed"
       /\ \A x \in Xid : clog'.st[x] = "None" => clog.st[x] = "None"
  BY <1>3
<1> QED  BY <1>3, <1>7, <1>8, <1>9, <1>10, <1>11 DEF Calm

-----------------------------------------------------------------------------
(* The steps of a session.                                                 *)

\* A server with a running transaction is up.
LEMMA RunningUp ==
  ASSUME OrderInv, ActiveInv, NEW s \in Session, txn[s].pc # "idle"
  PROVE  Up
<1>1. txn[s].xid \in Family(txn[s])
  BY NewestFacts DEF OrderInv, Types
<1>2. active # {}
  BY <1>1 DEF ActiveInv
<1>3. mode \in {"up", "recovered", "down", "failed"} /\ mode # "failed"
  BY DEF OrderInv, Types, ActorTypes, StartsUp
<1> QED  BY <1>2, <1>3 DEF ActiveInv, Up

\* A step of a session that hands out no id and logs no row.
OwnStep(s) ==
  /\ txn[s].pc # "idle" /\ Calm
  /\ \A r \in Session : r # s => txn'[r] = txn[r]
  /\ Family(txn'[s]) \subseteq Family(txn[s])
  /\ txn[s].wrote => txn'[s].wrote \/ Family(txn'[s]) = {}
  /\ active' = active \ (Family(txn[s]) \ Family(txn'[s]))
  /\ UNCHANGED <<clog_file, disk, ckpt, vac, page, next_xid, mode, vacuum_floor>>
  /\ meta'.replay_floor = meta.replay_floor /\ client.asked \subseteq client'.asked
  /\ \A i \in 1..Len(wal') : i > Len(wal) => wal'[i].kind \notin {"insert", "prune"}
  /\ \A x \in page.ids : clog'.st[x] = "InProgress" =>
       \/ x \in Family(txn'[s])
       \/ clog.st[x] = "InProgress" /\ x \notin Family(txn[s])

\* A step of one session that touches its own transaction only.
LEMMA OwnSettles ==
  ASSUME OrderInv, OrderInv', CommitInv, SettleInv, NEW s \in Session, OwnStep(s)
  PROVE  SettleInv'
<1> USE DEF OwnStep
<1>1. Up /\ Up' /\ ActiveInv /\ IdsInv /\ RowsInv
  <2>1. ActiveInv /\ IdsInv /\ RowsInv
    BY DEF SettleInv, CommitInv
  <2>2. Up
    BY <2>1, RunningUp
  <2> QED  BY <2>1, <2>2 DEF Up
<1>2. next_xid \in Nat /\ next_xid' = next_xid
  BY GroundFacts DEF Ground
<1>3. Actors
  BY <1>1, <1>2 DEF Actors
<1>4. Steady
  BY <1>3 DEF Steady
<1>5. ActiveInv'
  <2>1. ASSUME NEW r \in Session, NEW x \in Family(txn'[r]) PROVE x \in active'
    <3>1. CASE r = s
      BY <1>1, <2>1, <3>1 DEF ActiveInv
    <3>2. CASE r # s
      BY <1>1, <2>1, <3>2 DEF ActiveInv, IdsInv
    <3> QED  BY <3>1, <3>2
  <2>2. vac'.pc \in {"commit", "flush", "abort"} => vac'.xid \in active'
    BY <1>1 DEF ActiveInv, IdsInv
  <2>3. \A x \in active' : x < next_xid'
    BY <1>1 DEF ActiveInv
  <2>4. mode' # "down"
    BY <1>1 DEF Up
  <2> QED  BY <2>1, <2>2, <2>3, <2>4 DEF ActiveInv, Family
<1>6. RowsInv'
  <2>1. \A r \in Session : \A x \in Family(txn'[r]) :
          x \in page.ids => x \in Family(txn[r]) /\ (txn[r].wrote => txn'[r].wrote)
    OBVIOUS
  <2>2. vac'.pc # "idle" => vac'.xid \notin page.ids
    BY <1>1 DEF RowsInv
  <2>3. ASSUME NEW x \in page.ids, clog'.st[x] = "InProgress", ~ InUse(x)'
        PROVE  clog.st[x] = "InProgress" /\ (InUse(x) => InUse(x)')
    <3>1. x \notin Family(txn'[s])
      BY <2>3 DEF InUse, Family
    <3>2. clog.st[x] = "InProgress" /\ x \notin Family(txn[s])
      BY <2>3, <3>1
    <3>3. ASSUME NEW r \in Session, x \in Family(txn[r]) PROVE x \in Family(txn'[r])
      BY <3>2, <3>3
    <3> QED  BY <3>2, <3>3 DEF InUse, Family
  <2>4. \A x \in page.ids : clog'.st[x] = "InProgress" =>
          InUse(x)' \/ (clog.st[x] = "InProgress" /\ (InUse(x) => InUse(x)'))
    BY <2>3
  <2> QED  BY <1>4, <2>1, <2>2, <2>4, SteadyRows
<1> QED  BY <1>4, <1>5, <1>6, SteadyStep

\* ROLLBACK TO SAVEPOINT.
LEMMA RollbackToSettles ==
  ASSUME OrderInv, OrderInv', CommitInv, SettleInv, NEW s \in Session, RollbackTo(s)
  PROVE  SettleInv'
<1>1. LogTypes /\ ActorTypes /\ IdsInv
  BY DEF OrderInv, Types, CommitInv
<1>2. PICK x : x = txn[s].sub
  OBVIOUS
<1>3. x \in Xid /\ txn[s].pc = "open" /\ txn[s] \in TxnRec
  BY <1>1, <1>2 DEF RollbackTo, ActorTypes, TxnRec
<1>4. PICK r : r = Record(x, "abort", {}, 0)
  OBVIOUS
<1>5. r \in Rec /\ r.xid = x /\ r.kind = "abort"
  BY <1>3, <1>4, RecordFacts DEF Kinds
<1>6. AppendRecord(r)
  BY <1>2, <1>4 DEF RollbackTo
<1>7. Calm /\ meta' = meta
  BY <1>1, <1>5, <1>6, AppendCalm, AppendFacts
<1>8. /\ \A q \in Session : q # s => txn'[q] = txn[q]
      /\ txn'[s].xid = txn[s].xid /\ txn'[s].sub = NoXid /\ txn'[s].wrote = txn[s].wrote
  BY <1>1, <1>3 DEF RollbackTo, ActorTypes, TxnRec
<1>9. Family(txn[s]) = Family(txn'[s]) \cup {x} /\ x \notin Family(txn'[s])
  <2>1. txn[s].xid # x
    BY <1>1, <1>2 DEF IdsInv, RollbackTo
  <2>2. x # NoXid
    BY <1>2 DEF RollbackTo
  <2> QED  BY <1>2, <1>8, <2>1, <2>2 DEF Family
<1>10. active' = active \ (Family(txn[s]) \ Family(txn'[s]))
  BY <1>2, <1>9 DEF RollbackTo
<1>11. client'.asked = client.asked
  BY <1>1, <1>2 DEF RollbackTo, ActorTypes, ClientRec
<1>12. \A y \in Xid : clog'.st[y] = IF y = x THEN "Aborted" ELSE IF y = x /\ represents_transaction(r)
                                       THEN "InProgress" ELSE clog.st[y]
  BY <1>1, <1>5, <1>6, AppendFacts
<1>13. ASSUME NEW y \in page.ids, clog'.st[y] = "InProgress"
       PROVE  y \in Family(txn'[s]) \/ (clog.st[y] = "InProgress" /\ y \notin Family(txn[s]))
  <2>1. y \in Xid
    BY GroundFacts DEF Ground
  <2>2. y # x /\ clog.st[y] = "InProgress"
    BY <1>12, <1>13, <2>1
  <2> QED  BY <1>9, <2>2
<1>14. \A i \in 1..Len(wal') : i > Len(wal) => wal'[i].kind \notin {"insert", "prune"}
  BY <1>1, <1>5, <1>6, OtherRecords
<1>15. UNCHANGED <<clog_file, disk, ckpt, vac, page, next_xid, mode, vacuum_floor>>
  BY DEF RollbackTo, files
<1>16. OwnStep(s)
  BY <1>3, <1>7, <1>8, <1>9, <1>10, <1>11, <1>13, <1>14, <1>15 DEF OwnStep
<1> QED  BY <1>16, OwnSettles

\* The abort of a transaction.
LEMMA AbortSettles ==
  ASSUME OrderInv, OrderInv', CommitInv, SettleInv, NEW s \in Session, Abort(s)
  PROVE  SettleInv'
<1>1. ActorTypes
  BY DEF OrderInv, Types
<1>2. /\ AbortFamily(s) /\ txn[s].pc # "idle"
      /\ UNCHANGED <<clog_file, disk, ckpt, vac, page, next_xid, mode, vacuum_floor>>
  BY DEF Abort, files
<1>3. /\ Calm /\ meta' = meta
      /\ \A x \in Xid : clog'.st[x] = IF x \in Family(txn[s]) THEN "Aborted" ELSE clog.st[x]
      /\ \A i \in 1..Len(wal') : i > Len(wal) => wal'[i].kind = "abort"
  BY <1>2, FamilyCalm
<1>4. /\ txn'[s] = Idle /\ \A r \in Session : r # s => txn'[r] = txn[r]
  BY <1>1, <1>2 DEF AbortFamily, ActorTypes
<1>5. Family(txn'[s]) = {}
  BY <1>4, FamilyFacts
<1>6. active' = active \ (Family(txn[s]) \ Family(txn'[s])) /\ client'.asked = client.asked
  BY <1>1, <1>2, <1>5 DEF AbortFamily, ActorTypes, ClientRec
<1>7. ASSUME NEW y \in page.ids, clog'.st[y] = "InProgress"
      PROVE  clog.st[y] = "InProgress" /\ y \notin Family(txn[s])
  <2>1. y \in Xid
    BY GroundFacts DEF Ground
  <2> QED  BY <1>3, <1>7, <2>1
<1>8. OwnStep(s)
  BY <1>2, <1>3, <1>4, <1>5, <1>6, <1>7 DEF OwnStep
<1> QED  BY <1>8, OwnSettles

\* The end of a transaction without writes: none of its versions is on the page.
LEMMA EndReadOnlySettles ==
  ASSUME OrderInv, OrderInv', CommitInv, SettleInv, NEW s \in Session, EndReadOnly(s)
  PROVE  SettleInv'
<1>1. ActorTypes /\ Ground /\ poisoned \in BOOLEAN
  BY GroundFacts DEF OrderInv, Types, LogTypes
<1>2. /\ txn[s].pc = "open" /\ ~ txn[s].wrote
      /\ UNCHANGED <<wal, meta, pending, poisoned, clog, client>>
      /\ UNCHANGED <<clog_file, disk, ckpt, vac, page, next_xid, mode, vacuum_floor>>
  BY DEF EndReadOnly, files, log
<1>3. Calm
  BY <1>1, <1>2, StillCalm
<1>4. /\ txn'[s] = Idle /\ \A r \in Session : r # s => txn'[r] = txn[r]
  BY <1>1 DEF EndReadOnly, ActorTypes
<1>5. Family(txn'[s]) = {}
  BY <1>4, FamilyFacts
<1>6. active' = active \ (Family(txn[s]) \ Family(txn'[s]))
  BY <1>5 DEF EndReadOnly
<1>7. \A x \in Family(txn[s]) : x \notin page.ids
  BY <1>2, RunningUp DEF SettleInv, RowsInv
<1>8. \A i \in 1..Len(wal') : ~ i > Len(wal)
  BY <1>1, <1>2 DEF Ground
<1>9. OwnStep(s)
  BY <1>2, <1>3, <1>4, <1>5, <1>6, <1>7, <1>8 DEF OwnStep
<1> QED  BY <1>9, OwnSettles

\* The client is told of the commit: its versions read as committed already.
LEMMA CommitSettleSettles ==
  ASSUME OrderInv, OrderInv', CommitInv, SettleInv, NEW s \in Session, CommitSettle(s)
  PROVE  SettleInv'
<1>1. ActorTypes /\ Ground /\ poisoned \in BOOLEAN
  BY GroundFacts DEF OrderInv, Types, LogTypes
<1>2. /\ txn[s].pc = "settle" /\ UNCHANGED <<wal, meta, pending, poisoned, clog>>
      /\ UNCHANGED <<clog_file, disk, ckpt, vac, page, next_xid, mode, vacuum_floor>>
  BY DEF CommitSettle, files, log
<1>3. Calm
  BY <1>1, <1>2, StillCalm
<1>4. /\ txn'[s] = Idle /\ \A r \in Session : r # s => txn'[r] = txn[r]
  BY <1>1 DEF CommitSettle, ActorTypes
<1>5. Family(txn'[s]) = {}
  BY <1>4, FamilyFacts
<1>6. active' = active \ (Family(txn[s]) \ Family(txn'[s])) /\ client'.asked = client.asked
  BY <1>1, <1>5 DEF CommitSettle, ActorTypes, ClientRec
<1>7. ASSUME NEW x \in Family(txn[s]), clog.st[x] = "InProgress" PROVE FALSE
  <2>1. x \in Xid /\ x >= FIRST_NORMAL_XID
    BY <1>1, FamilyXid, XidNat
  <2>2. Known(x)
    BY <1>2, <1>7 DEF Known
  <2>3. status(clog, x) = "Committed"
    BY <1>2, <2>1, <2>2, RunningUp DEF CommitInv, KeepInv, Kept, SettleInv
  <2>4. ~ x < FIRST_NORMAL_XID
    BY <2>1, XidNat DEF FIRST_NORMAL_XID
  <2> QED  BY <1>7, <2>3, <2>4 DEF status
<1>8. \A i \in 1..Len(wal') : ~ i > Len(wal)
  BY <1>1, <1>2 DEF Ground
<1>9. OwnStep(s)
  BY <1>2, <1>3, <1>4, <1>5, <1>6, <1>7, <1>8 DEF OwnStep
<1> QED  BY <1>9, OwnSettles

\* A step of a session that keeps its ids and at most flushes the log.
LEMMA FlushSettles ==
  ASSUME OrderInv, OrderInv', CommitInv, SettleInv, NEW s \in Session, txn[s].pc # "idle",
         FlushOk \/ FlushFails \/ FlushUnknown \/ FlushRefused,
         \A r \in Session : r # s => txn'[r] = txn[r],
         txn'[s].xid = txn[s].xid, txn'[s].sub = txn[s].sub, txn'[s].wrote = txn[s].wrote,
         active' = active, client'.asked = client.asked,
         UNCHANGED <<clog_file, disk, ckpt, vac, page, next_xid, mode, vacuum_floor>>
  PROVE  SettleInv'
<1>1. LogTypes /\ Ends /\ AskInv /\ page.ids \subseteq Xid
  BY GroundFacts DEF OrderInv, Types, SettleInv, Ground
<1>2. Family(txn'[s]) = Family(txn[s])
  BY FamilyFacts
<1>3. \A i \in 1..Len(wal') : i > Len(wal) => wal'[i].kind \notin {"insert", "prune"}
  BY <1>1, FlushRecords
<1>4. /\ Calm /\ meta'.replay_floor = meta.replay_floor
      /\ \A x \in Xid : clog'.st[x] = "InProgress" => clog.st[x] = "InProgress"
  <2>1. CASE FlushOk
    BY <1>1, <2>1, FlushCalm, FlushFacts
  <2>2. CASE FlushFails \/ FlushUnknown \/ FlushRefused
    BY <2>2, FailCalm
  <2> QED  BY <2>1, <2>2
<1>5. OwnStep(s)
  BY <1>1, <1>2, <1>3, <1>4 DEF OwnStep
<1> QED  BY <1>5, OwnSettles

\* The flush of a commit, and the flushes that fail.
LEMMA CommitFlushSettles ==
  ASSUME OrderInv, OrderInv', CommitInv, SettleInv, NEW s \in Session,
         CommitFlush(s) \/ CommitFlushFails(s) \/ NextvalFails(s)
  PROVE  SettleInv'
<1>1. ActorTypes
  BY DEF OrderInv, Types
<1>2. /\ txn[s].pc # "idle" /\ (FlushOk \/ FlushFails \/ FlushUnknown \/ FlushRefused)
      /\ UNCHANGED <<clog_file, disk, ckpt, vac, page, next_xid, mode, vacuum_floor, active, client>>
  BY DEF CommitFlush, CommitFlushFails, NextvalFails, FlushError, files
<1>3. PICK f \in {"open", "flush", "settle", "abort", "nextval"} : txn' = [txn EXCEPT ![s].pc = f]
  BY DEF CommitFlush, CommitFlushFails, NextvalFails
<1>4. /\ txn'[s].xid = txn[s].xid /\ txn'[s].sub = txn[s].sub /\ txn'[s].wrote = txn[s].wrote
      /\ \A r \in Session : r # s => txn'[r] = txn[r]
  BY <1>1, <1>2, <1>3, MoveFacts
<1> QED  BY <1>2, <1>4, FlushSettles

\* nextval returns: a flush of a record that names no id.
LEMMA NextvalReturnSettles ==
  ASSUME OrderInv, OrderInv', CommitInv, SettleInv, NEW s \in Session, NextvalReturn(s)
  PROVE  SettleInv'
<1>1. ActorTypes
  BY DEF OrderInv, Types
<1>2. /\ txn[s].pc # "idle" /\ FlushOk /\ txn' = [txn EXCEPT ![s].pc = "open"]
      /\ UNCHANGED <<clog_file, disk, ckpt, vac, page, next_xid, mode, vacuum_floor, active>>
  BY DEF NextvalReturn, files
<1>3. client'.asked = client.asked
  BY <1>1 DEF NextvalReturn, ActorTypes, ClientRec
<1>4. /\ txn'[s].xid = txn[s].xid /\ txn'[s].sub = txn[s].sub /\ txn'[s].wrote = txn[s].wrote
      /\ \A r \in Session : r # s => txn'[r] = txn[r]
  BY <1>1, <1>2, MoveFacts
<1> QED  BY <1>2, <1>3, <1>4, FlushSettles

\* The record of a nextval.
LEMMA NextvalAppendSettles ==
  ASSUME OrderInv, OrderInv', CommitInv, SettleInv, NEW s \in Session, NextvalAppend(s)
  PROVE  SettleInv'
<1>1. LogTypes /\ ActorTypes /\ Types /\ Ends /\ page.ids \subseteq Xid
  BY GroundFacts DEF OrderInv, Types, Ground
<1>2. /\ UNCHANGED <<page, disk, next_xid, vac, clog_file, ckpt, mode, client, active, vacuum_floor>>
      /\ txn[s].pc = "open" /\ txn[s].xid \in Xid
      /\ txn'[s].xid = txn[s].xid /\ txn'[s].sub = txn[s].sub
      /\ \A q \in Session : q # s => txn'[q] = txn[q]
      /\ \A x \in Xid : clog'.st[x] = IF x = txn[s].xid THEN "InProgress" ELSE clog.st[x]
      /\ meta' = meta
  BY <1>1, NextvalAppendFacts
<1>3. txn'[s].wrote = TRUE
  BY <1>1 DEF NextvalAppend, ActorTypes, TxnRec
<1>4. PICK r : r = Record(txn[s].xid, "advance", {}, sequence + 1)
  OBVIOUS
<1>5. sequence + 1 \in Nat
  BY <1>1 DEF ActorTypes
<1>6. r \in Rec /\ r.xid = txn[s].xid /\ r.kind = "advance"
  BY <1>2, <1>4, <1>5, RecordFacts DEF Kinds
<1>7. AppendRecord(r)
  BY <1>4 DEF NextvalAppend
<1>8. Calm
  BY <1>6, <1>7, AppendCalm
<1>9. \A i \in 1..Len(wal') : i > Len(wal) => wal'[i].kind \notin {"insert", "prune"}
  BY <1>1, <1>6, <1>7, OtherRecords
<1>10. Family(txn'[s]) = Family(txn[s]) /\ txn[s].xid \in Family(txn[s])
  BY <1>1, <1>2, NewestFacts, FamilyFacts
<1>11. OwnStep(s)
  BY <1>1, <1>2, <1>3, <1>8, <1>9, <1>10 DEF OwnStep
<1> QED  BY <1>11, OwnSettles

\* The commit record of a session.
LEMMA CommitAppendSettles ==
  ASSUME OrderInv, OrderInv', CommitInv, SettleInv, Races = {}, NEW s \in Session, CommitAppend(s)
  PROVE  SettleInv'
<1>1. LogTypes /\ ActorTypes /\ page.ids \subseteq Xid /\ ActiveInv /\ Xid \subseteq Nat
  BY GroundFacts DEF OrderInv, Types, Ground, SettleInv
<1>2. /\ txn[s].pc = "open" /\ ~ poisoned
      /\ UNCHANGED <<page, disk, next_xid, vac, clog_file, ckpt, mode, active, vacuum_floor>>
      /\ txn' = [txn EXCEPT ![s].pc = "flush"]
  BY DEF CommitAppend, files
<1>3. /\ txn'[s].xid = txn[s].xid /\ txn'[s].sub = txn[s].sub /\ txn'[s].wrote = txn[s].wrote
      /\ \A r \in Session : r # s => txn'[r] = txn[r]
  BY <1>1, <1>2, MoveFacts
<1>4. Family(txn[s]) \in SUBSET Xid /\ txn[s].xid \in Family(txn[s])
  BY <1>1, <1>2, NewestFacts
<1>5. PICK r : r = Record(txn[s].xid, "commit", Family(txn[s]) \ {txn[s].xid}, 0)
  OBVIOUS
<1>6. /\ r \in Rec /\ r.xid = txn[s].xid /\ r.kind = "commit"
      /\ r.ids = Family(txn[s]) \ {txn[s].xid}
  BY <1>4, <1>5, RecordFacts DEF Kinds
<1>7. AppendRecord(r)
  BY <1>5 DEF CommitAppend
<1>8. represents_transaction(r) /\ {r.xid} \cup r.ids = Family(txn[s])
  BY <1>4, <1>6, DurabilityAssumption
     DEF represents_transaction, Xid, FIRST_NORMAL_XID, VACUUM_TXN
<1>9. client'.asked = client.asked \cup Family(txn[s])
  BY <1>1 DEF CommitAppend, ActorTypes, ClientRec
<1>10. \A x \in Family(txn[s]) : x \in active /\ (ckpt.pc = "bounded" => x < ckpt.boundary)
  <2>1. ~ ReissueWindow(Family(txn[s]))
    BY DEF CommitAppend
  <2>2. ckpt.pc = "bounded" => \A x \in Family(txn[s]) : ~ x >= ckpt.boundary
    BY <2>1 DEF ReissueWindow
  <2>3. ckpt.boundary \in Nat
    BY GroundFacts DEF Ground
  <2>4. ASSUME ckpt.pc = "bounded", NEW x \in Family(txn[s]) PROVE x < ckpt.boundary
    <3>1. x \in Nat /\ ~ x >= ckpt.boundary
      BY <1>1, <1>4, <2>2, <2>4
    <3> QED  BY <2>3, <3>1
  <2> QED  BY <1>1, <2>4 DEF ActiveInv
<1>11. Calm
  BY <1>6, <1>7, <1>8, <1>9, <1>10, AppendCalm
<1>12. /\ meta' = meta
       /\ \A x \in Xid : clog'.st[x] = IF x = r.xid THEN "InProgress" ELSE clog.st[x]
  BY <1>1, <1>6, <1>7, <1>8, AppendFacts
<1>13. \A i \in 1..Len(wal') : i > Len(wal) => wal'[i].kind \notin {"insert", "prune"}
  BY <1>1, <1>6, <1>7, OtherRecords
<1>14. Family(txn'[s]) = Family(txn[s])
  BY <1>3, FamilyFacts
<1>15. OwnStep(s)
  BY <1>1, <1>2, <1>3, <1>4, <1>6, <1>9, <1>11, <1>12, <1>13, <1>14 DEF OwnStep
<1> QED  BY <1>15, OwnSettles

\* The row versions after one more record of the page.
LEMMA AppendLive ==
  ASSUME Ground, Ground', Keeps, Len(wal') = Len(wal) + 1, NEW y
  PROVE  /\ wal'[Len(wal')].kind = "insert" =>
              (Live(Len(wal), y)' <=> Live(Len(wal), y) \/ y = wal'[Len(wal')].xid)
         /\ wal'[Len(wal')].kind = "prune" =>
              (Live(Len(wal), y)' <=> Live(Len(wal), y) /\ y \notin wal'[Len(wal')].ids)
<1>1. PICK n, m : n = Len(wal) /\ m = Len(wal')
  OBVIOUS
<1>2. /\ n \in Nat /\ m \in Nat /\ m = n + 1
      /\ \A i \in DOMAIN wal : i \in Nat /\ i <= n /\ i < m /\ i \in DOMAIN wal' /\ wal'[i] = wal[i]
      /\ m \in DOMAIN wal'
      /\ \A i \in DOMAIN wal' : i \in Nat /\ i <= m /\ (i = m \/ i \in DOMAIN wal)
  <2>1. n \in Nat /\ m \in Nat /\ m = n + 1
    BY <1>1, Positions
  <2>2. /\ \A i : i \in DOMAIN wal <=> i \in Nat /\ 1 <= i /\ i <= n
        /\ \A i : i \in DOMAIN wal' <=> i \in Nat /\ 1 <= i /\ i <= m
        /\ \A i \in DOMAIN wal : i <= m => i \in DOMAIN wal' /\ wal'[i] = wal[i]
    BY <1>1, Positions
  <2> QED  BY <2>1, <2>2
<1>3. Live(Len(wal), y) <=> \E i \in DOMAIN wal : /\ InsertAt(i, y)
                                                  /\ \A k \in DOMAIN wal : i < k => ~ PruneAt(k, y)
  BY <1>1, <1>2 DEF Live
<1>4. Live(Len(wal), y)' <=> \E i \in DOMAIN wal' : /\ InsertAt(i, y)'
                                                    /\ \A k \in DOMAIN wal' : i < k => ~ PruneAt(k, y)'
  BY <1>1, <1>2 DEF Live
<1>5. \A i \in DOMAIN wal : (InsertAt(i, y)' <=> InsertAt(i, y)) /\ (PruneAt(i, y)' <=> PruneAt(i, y))
  BY <1>2 DEF InsertAt, PruneAt
<1>6. ASSUME wal'[m].kind = "insert"
      PROVE  Live(Len(wal), y)' <=> Live(Len(wal), y) \/ y = wal'[m].xid
  <2>1. ~ PruneAt(m, y)' /\ (InsertAt(m, y)' <=> y = wal'[m].xid)
    BY <1>6 DEF PruneAt, InsertAt
  <2>2. \A k \in DOMAIN wal' : ~ m < k
    BY <1>2
  <2>3. ASSUME y = wal'[m].xid PROVE Live(Len(wal), y)'
    BY <1>2, <1>4, <2>1, <2>2, <2>3
  <2>4. ASSUME Live(Len(wal), y) PROVE Live(Len(wal), y)'
    <3>1. PICK i \in DOMAIN wal : InsertAt(i, y) /\ \A k \in DOMAIN wal : i < k => ~ PruneAt(k, y)
      BY <1>3, <2>4
    <3>2. i \in DOMAIN wal' /\ InsertAt(i, y)' /\ \A k \in DOMAIN wal' : i < k => ~ PruneAt(k, y)'
      BY <1>2, <1>5, <2>1, <3>1
    <3> QED  BY <1>4, <3>2
  <2>5. ASSUME Live(Len(wal), y)', y # wal'[m].xid PROVE Live(Len(wal), y)
    <3>1. PICK i \in DOMAIN wal' : InsertAt(i, y)' /\ \A k \in DOMAIN wal' : i < k => ~ PruneAt(k, y)'
      BY <1>4, <2>5
    <3>2. i \in DOMAIN wal
      BY <1>2, <2>1, <2>5, <3>1
    <3>3. InsertAt(i, y) /\ \A k \in DOMAIN wal : i < k => ~ PruneAt(k, y)
      BY <1>2, <1>5, <3>1, <3>2
    <3> QED  BY <1>3, <3>2, <3>3
  <2> QED  BY <2>3, <2>4, <2>5
<1>7. ASSUME wal'[m].kind = "prune"
      PROVE  Live(Len(wal), y)' <=> Live(Len(wal), y) /\ y \notin wal'[m].ids
  <2>1. ~ InsertAt(m, y)' /\ (PruneAt(m, y)' <=> y \in wal'[m].ids)
    BY <1>7 DEF PruneAt, InsertAt
  <2>2. ASSUME Live(Len(wal), y), y \notin wal'[m].ids PROVE Live(Len(wal), y)'
    <3>1. PICK i \in DOMAIN wal : InsertAt(i, y) /\ \A k \in DOMAIN wal : i < k => ~ PruneAt(k, y)
      BY <1>3, <2>2
    <3>2. i \in DOMAIN wal' /\ InsertAt(i, y)' /\ \A k \in DOMAIN wal' : i < k => ~ PruneAt(k, y)'
      BY <1>2, <1>5, <2>1, <2>2, <3>1
    <3> QED  BY <1>4, <3>2
  <2>3. ASSUME Live(Len(wal), y)' PROVE Live(Len(wal), y) /\ y \notin wal'[m].ids
    <3>1. PICK i \in DOMAIN wal' : InsertAt(i, y)' /\ \A k \in DOMAIN wal' : i < k => ~ PruneAt(k, y)'
      BY <1>4, <2>3
    <3>2. i \in DOMAIN wal
      BY <1>2, <2>1, <3>1
    <3>3. InsertAt(i, y) /\ \A k \in DOMAIN wal : i < k => ~ PruneAt(k, y)
      BY <1>2, <1>5, <3>1, <3>2
    <3>4. i < m /\ m \in DOMAIN wal'
      BY <1>2, <3>2
    <3> QED  BY <1>3, <2>1, <3>1, <3>2, <3>3, <3>4
  <2> QED  BY <2>2, <2>3
<1> QED  BY <1>1, <1>6, <1>7

\* A row version is logged and published.
LEMMA InsertSettles ==
  ASSUME OrderInv, OrderInv', CommitInv, SettleInv, NEW s \in Session, Insert(s)
  PROVE  SettleInv'
<1>1. /\ LogTypes /\ ActorTypes /\ page.ids \subseteq Xid /\ ActiveInv /\ RowsInv /\ IdsInv
      /\ Ground /\ Ground'
  BY GroundFacts, GroundNext DEF OrderInv, Types, Ground, SettleInv, CommitInv
<1>2. /\ txn[s].pc = "open" /\ ckpt.pc # "bounded"
      /\ UNCHANGED <<clog_file, disk, ckpt, vac, next_xid, mode, vacuum_floor, active>>
  BY DEF Insert, files, FenceOpen
<1>3. PICK x : x = Max(Family(txn[s]))
  OBVIOUS
<1>4. x \in Family(txn[s]) /\ x \in Xid
  BY <1>1, <1>2, <1>3, NewestFacts
<1>5. PICK r : r = Record(x, "insert", {}, 0)
  OBVIOUS
<1>6. r \in Rec /\ r.xid = x /\ r.kind = "insert" /\ r.ids = {}
  BY <1>4, <1>5, RecordFacts DEF Kinds
<1>7. AppendRecord(r)
  BY <1>3, <1>5 DEF Insert
<1>8. represents_transaction(r)
  BY <1>4, <1>6, DurabilityAssumption DEF represents_transaction, Xid, FIRST_NORMAL_XID, VACUUM_TXN
<1>9. x \in active
  BY <1>1, <1>4 DEF ActiveInv
<1>10. Calm
  BY <1>2, <1>6, <1>7, <1>8, <1>9, AppendCalm
<1>11. /\ meta' = meta /\ poisoned' = poisoned
       /\ \A y \in Xid : clog'.st[y] = IF y = x THEN "InProgress" ELSE clog.st[y]
       /\ poisoned => wal' = wal
       /\ ~ poisoned => Len(wal') = Len(wal) + 1 /\ wal'[Len(wal) + 1] = r
  BY <1>1, <1>6, <1>7, <1>8, AppendFacts
<1>12. CASE poisoned
  <2>1. UNCHANGED <<page, txn, client>>
    BY <1>12 DEF Insert
  <2>2. \A i \in 1..Len(wal') : ~ i > Len(wal)
    BY <1>1, <1>11, <1>12 DEF LogTypes
  <2>3. OwnStep(s)
    BY <1>1, <1>2, <1>4, <1>10, <1>11, <2>1, <2>2 DEF OwnStep
  <2> QED  BY <2>3, OwnSettles
<1>13. CASE ~ poisoned
  <2>1. page' = [ids |-> page.ids \cup {x}, lsn |-> Len(wal'),
                 rec |-> IF page.rec = NoLsn THEN Len(wal) ELSE page.rec]
    BY <1>3, <1>13 DEF Insert
  <2>2. /\ txn' = [txn EXCEPT ![s].wrote = TRUE]
        /\ client' = [client EXCEPT !.wrote = @ \cup {x}]
    BY <1>3, <1>13 DEF Insert
  <2>3. /\ txn'[s].xid = txn[s].xid /\ txn'[s].sub = txn[s].sub /\ txn'[s].wrote = TRUE
        /\ \A q \in Session : q # s => txn'[q] = txn[q]
    BY <1>1, <1>2, <2>2 DEF ActorTypes, TxnRec
  <2>4. \A q \in Session : Family(txn'[q]) = Family(txn[q])
    BY <2>3, FamilyFacts
  <2>5. client'.asked = client.asked
    BY <1>1, <2>2 DEF ActorTypes, ClientRec
  <2>6. page'.ids = page.ids \cup {x}
    BY <2>1
  <2>7. Up /\ Up'
    BY <1>1, <1>2, RunningUp DEF Up
  <2>8. next_xid \in Nat /\ next_xid' = next_xid
    BY <1>1, <1>2 DEF Ground
  <2>9. Actors
    BY <1>2, <2>5, <2>7, <2>8 DEF Actors
  <2>10. Steady
    BY <1>2, <1>4, <1>9, <1>10, <1>11, <2>6, <2>9 DEF Steady
  <2>11. ActiveInv'
    BY <1>1, <1>2, <2>4, <2>7 DEF ActiveInv, Up, Family
  <2>12. \A q \in Session : \A y \in Family(txn'[q]) : y \in page'.ids => txn'[q].wrote
    <3>1. ASSUME NEW q \in Session, NEW y \in Family(txn[q]), y \in page'.ids PROVE txn'[q].wrote
      <4>1. CASE q = s
        BY <2>3, <4>1
      <4>2. CASE q # s
        <5>1. y # x
          BY <1>1, <1>4, <3>1, <4>2 DEF IdsInv
        <5> QED  BY <1>1, <2>3, <2>6, <2>7, <3>1, <4>2, <5>1 DEF RowsInv
      <4> QED  BY <4>1, <4>2
    <3> QED  BY <2>4, <3>1
  <2>13. vac'.pc # "idle" => vac'.xid \notin page'.ids
    BY <1>1, <1>2, <1>4, <2>6, <2>7 DEF RowsInv, IdsInv
  <2>14. ASSUME NEW y \in page'.ids, clog'.st[y] = "InProgress" PROVE InUse(y)'
    <3>1. y = x \/ (y \in page.ids /\ clog.st[y] = "InProgress")
      BY <1>1, <1>11, <2>6, <2>14
    <3>2. InUse(y)
      BY <1>1, <1>4, <2>7, <3>1 DEF RowsInv, InUse
    <3> QED  BY <2>4, <3>2 DEF InUse, Family
  <2>15. ASSUME NEW y \in Xid PROVE y \in page'.ids <=> Live(Len(wal), y)'
    <3>1. Keeps /\ wal'[Len(wal')] = r /\ Len(wal') = Len(wal) + 1
      BY <1>10, <1>11, <1>13 DEF Calm
    <3>2. Live(Len(wal), y)' <=> Live(Len(wal), y) \/ y = x
      BY <1>1, <1>6, <3>1, AppendLive
    <3>3. y \in page.ids <=> Live(Len(wal), y)
      BY <1>1, <1>13, <2>7 DEF RowsInv
    <3> QED  BY <2>6, <3>2, <3>3
  <2>16. RowsInv'
    BY <2>12, <2>13, <2>14, <2>15 DEF RowsInv, Family
  <2> QED  BY <1>2, <2>10, <2>11, <2>16, SteadyStep
<1> QED  BY <1>12, <1>13

-----------------------------------------------------------------------------
(* Steps that hand out an id.                                              *)

\* The id is nobody's, on no page and in no record.
LEMMA AllocateSettles ==
  ASSUME OrderInv, OrderInv', CommitInv, SettleInv, Up, Allocate, UNCHANGED log,
         UNCHANGED <<vacuum_floor, clog_file, disk, page, ckpt, mode>>,
         \A s \in Session : Family(txn'[s]) \subseteq Family(txn[s]) \cup {next_xid},
         \A s \in Session : Family(txn[s]) \subseteq Family(txn'[s]),
         \A s \in Session : Family(txn[s]) # {} /\ txn[s].wrote => txn'[s].wrote,
         vac' = vac \/ (vac'.xid = next_xid /\ VacInv')
  PROVE  SettleInv'
<1>1. /\ LogTypes /\ ActorTypes /\ page.ids \subseteq Xid /\ ActiveInv /\ RowsInv /\ IdsInv
      /\ Ground /\ LowInv /\ poisoned \in BOOLEAN
  BY GroundFacts DEF OrderInv, Types, LogTypes, Ground, SettleInv, CommitInv
<1>2. /\ next_xid \in Xid /\ next_xid' = next_xid + 1 /\ active' = active \cup {next_xid}
  BY <1>1, AllocateFacts
<1>3. client'.asked = client.asked \ {next_xid}
  BY <1>1 DEF Allocate, ActorTypes, ClientRec
<1>4. UNCHANGED <<wal, meta, pending, poisoned, clog>>
  BY DEF log
<1>5. Calm
  BY <1>1, <1>4, StillCalm
<1>6. next_xid \in Nat /\ Xid \subseteq Nat /\ active \subseteq Xid
  BY <1>1 DEF Ground
<1>7. Up'
  BY DEF Up
<1>8. Actors
  <2>1. next_xid <= next_xid'
    BY <1>2, <1>6
  <2>2. \A x \in active' : x \in active \/ (next_xid <= x /\ x < next_xid')
    BY <1>2, <1>6
  <2>3. \A x \in Xid : x < next_xid => x # next_xid
    BY <1>6
  <2> QED  BY <1>3, <1>7, <2>1, <2>2, <2>3 DEF Actors
<1>9. Steady
  BY <1>4, <1>5, <1>8 DEF Steady
<1>10. ActiveInv'
  <2>1. \A x \in active' : x < next_xid'
    <3>1. \A x \in active : x \in Nat /\ x < next_xid
      BY <1>1, <1>6 DEF ActiveInv
    <3> QED  BY <1>2, <1>6, <3>1
  <2>2. \A s \in Session : Family(txn'[s]) \subseteq active'
    BY <1>1, <1>2 DEF ActiveInv
  <2>3. vac'.pc \in {"commit", "flush", "abort"} => vac'.xid \in active'
    BY <1>1, <1>2 DEF ActiveInv
  <2>4. mode' # "down"
    BY DEF Up
  <2> QED  BY <2>1, <2>2, <2>3, <2>4 DEF ActiveInv, Family
<1>11. next_xid \notin page.ids
  <2>1. \A x \in page.ids : x < next_xid
    BY <1>1 DEF LowInv
  <2> QED  BY <1>6, <2>1
<1>12. RowsInv'
  <2>1. \A s \in Session : \A x \in Family(txn'[s]) :
          x \in page.ids => x \in Family(txn[s]) /\ (txn[s].wrote => txn'[s].wrote)
    BY <1>11
  <2>2. vac'.pc # "idle" => vac'.xid \notin page.ids
    BY <1>1, <1>11 DEF RowsInv
  <2>3. \A x : InUse(x) => InUse(x)'
    BY DEF InUse, Family
  <2>4. \A i \in 1..Len(wal') : ~ i > Len(wal)
    BY <1>1, <1>4 DEF LogTypes
  <2> QED  BY <1>4, <1>9, <2>1, <2>2, <2>3, <2>4, SteadyRows
<1> QED  BY <1>9, <1>10, <1>12, SteadyStep

\* BEGIN.
LEMMA BeginSettles ==
  ASSUME OrderInv, OrderInv', CommitInv, SettleInv, NEW s \in Session, Begin(s)
  PROVE  SettleInv'
<1>1. ActorTypes /\ IdsInv /\ txn \in [Session -> TxnRec] /\ next_xid \in Nat
  BY GroundFacts DEF OrderInv, Types, ActorTypes, CommitInv, Ground
<1>2. /\ Allocate /\ Up /\ txn[s].pc = "idle" /\ UNCHANGED log
      /\ UNCHANGED <<vacuum_floor, clog_file, disk, page, ckpt, mode, vac>>
      /\ txn' = [txn EXCEPT ![s] = [Idle EXCEPT !.pc = "open", !.xid = next_xid]]
  BY DEF Begin, files, Up
<1>3. /\ \A r \in Session : r # s => txn'[r] = txn[r]
      /\ txn'[s].xid = next_xid /\ txn'[s].sub = NoXid
  BY <1>1, <1>2 DEF Idle
<1>4. Family(txn[s]) = {} /\ Family(txn'[s]) \subseteq {next_xid}
  BY <1>1, <1>2, <1>3 DEF IdsInv, Family
<1> QED  BY <1>2, <1>3, <1>4, AllocateSettles

\* SAVEPOINT.
LEMMA SavepointSettles ==
  ASSUME OrderInv, OrderInv', CommitInv, SettleInv, NEW s \in Session, Savepoint(s)
  PROVE  SettleInv'
<1>1. ActorTypes /\ txn \in [Session -> TxnRec] /\ ActiveInv /\ next_xid \in Nat
  BY GroundFacts DEF OrderInv, Types, ActorTypes, SettleInv, Ground
<1>2. /\ Allocate /\ txn[s].pc = "open" /\ txn[s].sub = NoXid /\ UNCHANGED log
      /\ UNCHANGED <<vacuum_floor, clog_file, disk, page, ckpt, mode, vac>>
      /\ txn' = [txn EXCEPT ![s].sub = next_xid]
  BY DEF Savepoint, files
<1>3. Up
  BY <1>1, <1>2, RunningUp
<1>4. /\ \A r \in Session : r # s => txn'[r] = txn[r]
      /\ txn'[s].xid = txn[s].xid /\ txn'[s].sub = next_xid /\ txn'[s].wrote = txn[s].wrote
  BY <1>1, <1>2 DEF TxnRec
<1>5. Family(txn[s]) \subseteq Family(txn'[s]) /\ Family(txn'[s]) \subseteq Family(txn[s]) \cup {next_xid}
  BY <1>2, <1>4 DEF Family
<1> QED  BY <1>2, <1>3, <1>4, <1>5, AllocateSettles

\* VACUUM takes an id and reads the boundary: the oldest running id.
LEMMA VacuumBeginSettles ==
  ASSUME OrderInv, OrderInv', CommitInv, SettleInv, VacuumBegin
  PROVE  SettleInv'
<1>1. ActorTypes
  BY DEF OrderInv, Types
<1>2. /\ Allocate /\ Up /\ UNCHANGED log
      /\ UNCHANGED <<vacuum_floor, clog_file, disk, page, ckpt, mode, txn>>
      /\ vac' = [pc |-> "commit", xid |-> next_xid, boundary |-> Min(active')]
  BY DEF VacuumBegin, files, Up
<1>3. next_xid \in Xid /\ active' \in SUBSET Xid /\ next_xid \in active'
  BY <1>1, <1>2, AllocateFacts
<1>4. \A x \in active' : Min(active') <= x
  BY <1>3, XidFacts
<1>5. vac'.pc = "commit" /\ vac'.xid = next_xid /\ vac'.boundary = Min(active')
  BY <1>2
<1>6. VacInv'
  BY <1>3, <1>4, <1>5 DEF VacInv
<1> QED  BY <1>2, <1>5, <1>6, AllocateSettles

-----------------------------------------------------------------------------
(* The steps of VACUUM and of the writer of pages.                         *)

\* A step of VACUUM leaves the sessions and the files alone.
VacOwn ==
  /\ vac.pc # "idle" /\ Calm /\ UNCHANGED <<clog_file, disk, ckpt, txn, next_xid, mode>>
  /\ active' = active \/ (active' = active \ {vac.xid} /\ vac'.pc \notin {"commit", "flush", "abort"})
  /\ vac'.pc # "idle" => vac'.xid = vac.xid
  /\ vac'.pc \in {"commit", "flush", "abort"} => vac.pc \in {"commit", "flush", "abort"}
  /\ client.asked \subseteq client'.asked /\ meta'.replay_floor = meta.replay_floor
  /\ page'.ids \subseteq page.ids

\* A step of VACUUM that settles nothing but its own id.
LEMMA VacOwnSteady ==
  ASSUME OrderInv, OrderInv', CommitInv, SettleInv, VacOwn
  PROVE  Steady /\ ActiveInv' /\ Up /\ Up' /\ Ground /\ Ground'
<1>1. Up /\ Up' /\ ActiveInv /\ IdsInv
  BY DEF VacOwn, SettleInv, CommitInv, IdsInv, Up
<1>2. Ground /\ Ground' /\ next_xid \in Nat /\ next_xid' = next_xid
  BY GroundFacts, GroundNext DEF VacOwn, Ground
<1>3. Actors
  BY <1>1, <1>2 DEF Actors, VacOwn
<1>4. Steady
  BY <1>3 DEF Steady, VacOwn
<1>5. ActiveInv'
  <2>1. \A s \in Session : Family(txn'[s]) \subseteq active'
    BY <1>1 DEF VacOwn, ActiveInv, IdsInv
  <2>2. vac'.pc \in {"commit", "flush", "abort"} => vac'.xid \in active'
    BY <1>1 DEF VacOwn, ActiveInv
  <2>3. \A x \in active' : x < next_xid'
    BY <1>1 DEF VacOwn, ActiveInv
  <2>4. mode' # "down"
    BY <1>1 DEF Up
  <2> QED  BY <2>1, <2>2, <2>3, <2>4 DEF ActiveInv, Family
<1> QED  BY <1>1, <1>2, <1>4, <1>5

\* Such a step without a record of the page.
LEMMA VacOwnSettles ==
  ASSUME OrderInv, OrderInv', CommitInv, SettleInv, VacOwn, vac'.pc = "idle" \/ VacInv',
         vacuum_floor' = vacuum_floor, page' = page,
         \A i \in 1..Len(wal') : i > Len(wal) => wal'[i].kind \notin {"insert", "prune"},
         \A x \in Xid : x # vac.xid /\ clog'.st[x] = "InProgress" => clog.st[x] = "InProgress"
  PROVE  SettleInv'
<1>1. Steady /\ ActiveInv' /\ Up /\ Ground
  BY VacOwnSteady
<1>2. RowsInv
  BY DEF SettleInv
<1>3. vac.xid \notin page.ids
  BY <1>1, <1>2 DEF RowsInv, VacOwn
<1>4. \A x \in page.ids : clog'.st[x] = "InProgress" =>
        InUse(x)' \/ (clog.st[x] = "InProgress" /\ (InUse(x) => InUse(x)'))
  <2>1. \A x \in page.ids : x \in Xid /\ x # vac.xid
    BY <1>1, <1>3 DEF Ground
  <2>2. \A x : InUse(x) => InUse(x)'
    BY DEF VacOwn, InUse
  <2> QED  BY <2>1, <2>2
<1>5. vac'.pc # "idle" => vac'.xid \notin page.ids
  BY <1>3 DEF VacOwn
<1>6. \A s \in Session : \A x \in Family(txn'[s]) :
        x \in page.ids => x \in Family(txn[s]) /\ (txn[s].wrote => txn'[s].wrote)
  BY DEF VacOwn
<1>7. RowsInv'
  BY <1>1, <1>4, <1>5, <1>6, SteadyRows
<1> QED  BY <1>1, <1>7, SteadyStep DEF VacOwn

\* The commit of the cleanup transaction.
LEMMA VacuumCommitSettles ==
  ASSUME OrderInv, OrderInv', CommitInv, SettleInv, Races = {}, VacuumCommit
  PROVE  SettleInv'
<1>1. /\ LogTypes /\ LogTypes' /\ ActorTypes /\ Ground /\ ActiveInv /\ vac.pc = "commit" /\ vac.xid \in Xid
      /\ ~ poisoned /\ UNCHANGED <<clog_file, disk, ckpt, txn, next_xid, mode, active, page, vacuum_floor>>
      /\ vac' = [vac EXCEPT !.pc = "flush"]
  BY GroundFacts DEF OrderInv, Types, SettleInv, ActorTypes, VacuumCommit, files
<1>2. PICK r : r = Record(vac.xid, "commit", {}, 0)
  OBVIOUS
<1>3. r \in Rec /\ r.xid = vac.xid /\ r.kind = "commit" /\ r.ids = {}
  BY <1>1, <1>2, RecordFacts DEF Kinds
<1>4. AppendRecord(r)
  BY <1>2 DEF VacuumCommit
<1>5. represents_transaction(r)
  BY <1>1, <1>3, DurabilityAssumption DEF represents_transaction, Xid, FIRST_NORMAL_XID, VACUUM_TXN
<1>6. client'.asked = client.asked \cup {vac.xid}
  BY <1>1 DEF VacuumCommit, ActorTypes, ClientRec
<1>7. vac.xid \in active /\ (ckpt.pc = "bounded" => vac.xid < ckpt.boundary)
  <2>1. ~ ReissueWindow({vac.xid})
    BY DEF VacuumCommit
  <2>2. ckpt.pc = "bounded" => ~ vac.xid >= ckpt.boundary
    BY <2>1 DEF ReissueWindow
  <2>3. ckpt.boundary \in Nat /\ vac.xid \in Nat
    BY <1>1 DEF Ground
  <2> QED  BY <1>1, <2>2, <2>3 DEF ActiveInv
<1>8. Calm
  BY <1>3, <1>4, <1>5, <1>6, <1>7, AppendCalm
<1>9. /\ meta' = meta /\ Len(wal') = Len(wal) + 1 /\ wal'[Len(wal) + 1] = r
      /\ \A x \in Xid : clog'.st[x] = IF x = r.xid THEN "InProgress" ELSE clog.st[x]
  BY <1>1, <1>3, <1>4, <1>5, AppendFacts
<1>10. vac'.pc = "flush" /\ vac'.xid = vac.xid /\ vac'.boundary = vac.boundary
  BY <1>1, VacShape
<1>11. VacOwn
  BY <1>1, <1>6, <1>8, <1>9, <1>10 DEF VacOwn
<1>12. VacInv'
  <2>1. vac.boundary <= vac.xid /\ \A x \in active' : vac.boundary <= x
    BY <1>1, <1>11, VacOwnSteady, SteadyVacFacts
  <2>2. Maintained(Len(wal))'
    <3>1. Len(wal) + 1 \in DOMAIN wal' /\ Len(wal) + 1 <= Len(wal')
      <4>1. DOMAIN wal' = 1..Len(wal') /\ Len(wal) \in Nat
        BY <1>1 DEF LogTypes
      <4> QED  BY <1>9, <4>1
    <3> QED  BY <1>3, <1>9, <1>10, <3>1 DEF Maintained
  <2> QED  BY <1>10, <2>1, <2>2 DEF VacInv
<1>13. \A i \in 1..Len(wal') : i > Len(wal) => wal'[i].kind \notin {"insert", "prune"}
  BY <1>1, <1>3, <1>4, OtherRecords
<1> QED  BY <1>1, <1>3, <1>9, <1>11, <1>12, <1>13, VacOwnSettles

\* Its abort.
LEMMA VacuumAbortSettles ==
  ASSUME OrderInv, OrderInv', CommitInv, SettleInv, VacuumAbort
  PROVE  SettleInv'
<1>1. /\ LogTypes /\ ActorTypes /\ vac.pc # "idle" /\ vac.xid \in Xid
      /\ UNCHANGED <<clog_file, disk, ckpt, txn, next_xid, mode, page, vacuum_floor, client>>
      /\ vac' = NoVacuum /\ active' = active \ {vac.xid}
  BY DEF OrderInv, Types, ActorTypes, VacuumAbort, files
<1>2. PICK r : r = Record(vac.xid, "abort", {}, 0)
  OBVIOUS
<1>3. r \in Rec /\ r.xid = vac.xid /\ r.kind = "abort"
  BY <1>1, <1>2, RecordFacts DEF Kinds
<1>4. AppendRecord(r)
  BY <1>2 DEF VacuumAbort
<1>5. Calm
  BY <1>3, <1>4, AppendCalm
<1>6. /\ meta' = meta
      /\ \A x \in Xid : x # vac.xid => clog'.st[x] = clog.st[x]
  BY <1>1, <1>3, <1>4, AppendFacts
<1>7. vac'.pc = "idle"
  BY <1>1 DEF NoVacuum
<1>8. VacOwn
  BY <1>1, <1>5, <1>6, <1>7 DEF VacOwn
<1>9. \A i \in 1..Len(wal') : i > Len(wal) => wal'[i].kind \notin {"insert", "prune"}
  BY <1>1, <1>3, <1>4, OtherRecords
<1> QED  BY <1>1, <1>6, <1>7, <1>8, <1>9, VacOwnSettles

\* Its flush, whatever becomes of it.
LEMMA VacuumFlushSettles ==
  ASSUME OrderInv, OrderInv', CommitInv, SettleInv, VacuumFlush \/ VacuumFlushFails
  PROVE  SettleInv'
<1>1. /\ LogTypes /\ Ends /\ ActorTypes /\ vac.pc = "flush" /\ AskInv /\ VacInv /\ Ground
      /\ UNCHANGED <<clog_file, disk, ckpt, txn, next_xid, mode, page, vacuum_floor, client>>
  BY GroundFacts DEF OrderInv, Types, SettleInv, VacuumFlush, VacuumFlushFails, files
<1>2. \A i \in 1..Len(wal') : i > Len(wal) => wal'[i].kind \notin {"insert", "prune"}
  BY <1>1, FlushRecords DEF VacuumFlush, VacuumFlushFails, FlushError
<1>3. CASE VacuumFlush
  <2>1. FlushOk /\ vac' = [vac EXCEPT !.pc = "prune"] /\ active' = active \ {vac.xid}
    BY <1>3 DEF VacuumFlush
  <2>2. vac'.pc = "prune" /\ vac'.xid = vac.xid /\ vac'.boundary = vac.boundary
    BY <1>1, <2>1, VacShape
  <2>3. /\ Calm /\ ~ poisoned /\ wal' = wal /\ meta'.durable_end = Len(wal)
        /\ meta'.replay_floor = meta.replay_floor
        /\ \A x \in Xid : clog'.st[x] = "InProgress" => clog.st[x] = "InProgress"
    BY <1>1, <2>1, FlushCalm, FlushFacts
  <2>4. VacOwn
    BY <1>1, <2>1, <2>2, <2>3 DEF VacOwn
  <2>5. vac.boundary <= vac.xid /\ \A x \in active' : vac.boundary <= x
    BY <1>1, <2>4, VacOwnSteady, SteadyVacFacts
  <2>6. Maintained(Len(wal))
    BY <1>1, <2>3 DEF VacInv
  <2>7. VacInv'
    BY <2>2, <2>3, <2>5, <2>6 DEF VacInv, Maintained
  <2> QED  BY <1>1, <1>2, <2>3, <2>4, <2>7, VacOwnSettles
<1>4. CASE VacuumFlushFails
  <2>1. /\ FlushFails \/ FlushRefused
        /\ vac' = [vac EXCEPT !.pc = "abort"] /\ active' = active
    BY <1>4 DEF VacuumFlushFails, FlushError
  <2>2. vac'.pc = "abort" /\ vac'.xid = vac.xid /\ vac'.boundary = vac.boundary
    BY <1>1, <2>1, VacShape
  <2>3. Calm /\ clog' = clog /\ meta'.replay_floor = meta.replay_floor
    BY <2>1, FailCalm
  <2>4. VacOwn
    BY <1>1, <2>1, <2>2, <2>3 DEF VacOwn
  <2>5. vac.boundary <= vac.xid /\ \A x \in active' : vac.boundary <= x
    BY <1>1, <2>4, VacOwnSteady, SteadyVacFacts
  <2>6. VacInv'
    BY <2>2, <2>5 DEF VacInv
  <2> QED  BY <1>1, <1>2, <2>3, <2>4, <2>6, VacOwnSettles
<1> QED  BY <1>3, <1>4

\* Below the boundary a version that is not dead is committed or removed already.
LEMMA PrunedClean ==
  ASSUME OrderInv, CommitInv, SettleInv, ~ poisoned, vac.pc # "idle",
         NEW x \in Xid, x < vac.boundary, x \notin Dead
  PROVE  Cleaned(x)
<1> SUFFICES ASSUME NEW i \in DOMAIN wal, InsertAt(i, x),
                    \A k \in DOMAIN wal : k > i => ~ PruneAt(k, x)
             PROVE  Committed(x)
  BY DEF Cleaned
<1>1. Ground /\ Up /\ ActiveInv /\ RowsInv /\ AskInv /\ MemInv /\ VacInv
  BY GroundFacts DEF SettleInv, CommitInv, IdsInv, Up
<1>2. x \in page.ids
  <2>1. i <= Len(wal) /\ i \in Nat /\ \A k \in DOMAIN wal : k \in Nat
    BY <1>1 DEF Ground
  <2>2. Live(Len(wal), x)
    BY <2>1 DEF Live
  <2> QED  BY <1>1, <2>2 DEF RowsInv
<1>3. clog.st[x] \in Status /\ ~ x < FIRST_NORMAL_XID
  <2>1. clog.st[x] \in Status
    BY DEF OrderInv, Types, LogTypes, Clog
  <2>2. x \in Nat /\ x >= FIRST_NORMAL_XID
    BY XidNat
  <2> QED  BY <2>1, <2>2 DEF FIRST_NORMAL_XID
<1>4. CASE clog.st[x] = "InProgress"
  <2>1. x \in active
    BY <1>1, <1>2, <1>4 DEF RowsInv, InUse, ActiveInv
  <2>2. vac.boundary <= x /\ vac.boundary \in Nat /\ x \in Nat
    BY <1>1, <2>1 DEF VacInv, Ground
  <2> QED  BY <2>2
<1>5. CASE clog.st[x] = "Aborted"
  <2>1. status(clog, x) = "Aborted"
    BY <1>3, <1>5 DEF status
  <2> QED  BY <1>2, <2>1 DEF Dead
<1>6. CASE clog.st[x] = "Committed"
  BY <1>1, <1>6 DEF AskInv
<1>7. CASE clog.st[x] = "None"
  <2>1. x < clog.floor
    BY <1>1, <1>7 DEF MemInv
  <2>2. Settled(x)
    BY <1>1, <2>1 DEF MemInv, Floor
  <2> QED  BY <2>2 DEF Settled
<1> QED  BY <1>3, <1>4, <1>5, <1>6, <1>7 DEF Status

\* The row versions of aborted transactions are removed.
LEMMA VacuumPruneSettles ==
  ASSUME OrderInv, OrderInv', CommitInv, SettleInv, VacuumPrune
  PROVE  SettleInv'
<1>1. /\ LogTypes /\ ActorTypes /\ vac.pc = "prune" /\ VacInv /\ Ground /\ Ground' /\ RowsInv /\ poisoned \in BOOLEAN
      /\ UNCHANGED <<clog_file, disk, ckpt, txn, next_xid, mode, active, vacuum_floor, client>>
  BY GroundFacts, GroundNext DEF OrderInv, Types, SettleInv, VacuumPrune, files, LogTypes
<1>2. PICK r : r = Record(VACUUM_TXN, "prune", Dead, 0)
  OBVIOUS
<1>3. r \in Rec /\ r.xid = VACUUM_TXN /\ r.kind = "prune" /\ r.ids = Dead /\ Dead \subseteq Xid
  <2>1. VACUUM_TXN \in 0..MaxXid
    BY DurabilityAssumption DEF VACUUM_TXN, FIRST_NORMAL_XID
  <2>2. Dead \in SUBSET Xid
    BY <1>1 DEF Dead, Ground
  <2> QED  BY <1>2, <2>1, <2>2, RecordFacts
<1>4. \A x \in Xid : x # VACUUM_TXN
  BY XidNat DEF VACUUM_TXN, FIRST_NORMAL_XID
<1>5. CASE Dead = {}
  <2>1. UNCHANGED <<wal, meta, pending, poisoned, clog, page>> /\ vac' = [vac EXCEPT !.pc = "floor"]
    BY <1>5 DEF VacuumPrune, log
  <2>2. vac'.pc = "floor" /\ vac'.xid = vac.xid /\ vac'.boundary = vac.boundary
    BY <1>1, <2>1, VacShape
  <2>3. Calm
    BY <1>1, <2>1, StillCalm
  <2>4. VacOwn
    BY <1>1, <2>1, <2>2, <2>3 DEF VacOwn
  <2>5. /\ vac.boundary <= vac.xid /\ \A x \in active' : vac.boundary <= x
        /\ Maintained(meta.durable_end) =>
              \E i \in DOMAIN wal' : i <= meta'.durable_end /\ wal'[i].kind = "commit"
                                     /\ wal'[i].xid = vac.xid
        /\ ~ poisoned' /\ (\A x \in Xid : x < vac.boundary => Cleaned(x)) =>
              \A x \in Xid : x < vac.boundary => Cleaned(x)'
    BY <1>1, <2>4, VacOwnSteady, SteadyVacFacts
  <2>6. ~ poisoned => \A x \in Xid : x < vac.boundary => Cleaned(x)
    BY <1>1, <1>5, PrunedClean
  <2>7. VacInv'
    BY <1>1, <2>1, <2>2, <2>5, <2>6 DEF VacInv, Maintained
  <2>8. \A i \in 1..Len(wal') : ~ i > Len(wal)
    BY <1>1, <2>1 DEF Ground
  <2> QED  BY <1>1, <2>1, <2>4, <2>7, <2>8, VacOwnSettles
<1>6. CASE Dead # {} /\ poisoned
  <2>1. AppendRecord(r) /\ page' = page /\ vac' = NoVacuum
    BY <1>2, <1>6 DEF VacuumPrune
  <2>2. Calm
    BY <1>3, <2>1, AppendCalm
  <2>3. /\ meta' = meta /\ wal' = wal
        /\ \A x \in Xid : clog'.st[x] = clog.st[x]
    BY <1>1, <1>3, <1>4, <1>6, <2>1, AppendFacts DEF represents_transaction
  <2>4. vac'.pc = "idle"
    BY <2>1 DEF NoVacuum
  <2>5. VacOwn
    BY <1>1, <2>1, <2>2, <2>3, <2>4 DEF VacOwn
  <2>6. \A i \in 1..Len(wal') : ~ i > Len(wal)
    BY <1>1, <2>3 DEF Ground
  <2> QED  BY <1>1, <2>1, <2>3, <2>4, <2>5, <2>6, VacOwnSettles
<1>7. CASE Dead # {} /\ ~ poisoned
  <2>1. AppendRecord(r) /\ page'.ids = page.ids \ Dead /\ vac' = [vac EXCEPT !.pc = "floor"]
    BY <1>2, <1>7 DEF VacuumPrune
  <2>2. vac'.pc = "floor" /\ vac'.xid = vac.xid /\ vac'.boundary = vac.boundary
    BY <1>1, <2>1, VacShape
  <2>3. Calm
    BY <1>3, <2>1, AppendCalm
  <2>4. /\ meta' = meta /\ Len(wal') = Len(wal) + 1 /\ wal'[Len(wal')] = r /\ ~ poisoned'
        /\ \A x \in Xid : clog'.st[x] = clog.st[x]
    BY <1>1, <1>3, <1>4, <1>7, <2>1, AppendFacts DEF represents_transaction
  <2>5. VacOwn
    BY <1>1, <2>1, <2>2, <2>3, <2>4 DEF VacOwn
  <2>6. Steady /\ ActiveInv' /\ Up /\ Up'
    BY <2>5, VacOwnSteady
  <2>7. Keeps
    BY <2>3 DEF Calm
  <2>8. RowsInv'
    <3>1. /\ \A s \in Session : \A x \in Family(txn[s]) : x \in page.ids => txn[s].wrote
          /\ vac.xid \notin page.ids
          /\ \A x \in page.ids : clog.st[x] = "InProgress" => InUse(x)
          /\ \A x \in Xid : x \in page.ids <=> Live(Len(wal), x)
      BY <1>1, <1>7, <2>6 DEF RowsInv
    <3>2. \A x \in Xid : x \in page'.ids <=> Live(Len(wal), x)'
      BY <1>1, <1>3, <2>1, <2>4, <2>7, <3>1, AppendLive
    <3>3. \A x : InUse(x)' <=> InUse(x)
      BY <1>1 DEF InUse
    <3>4. \A x \in page'.ids : clog'.st[x] = "InProgress" => InUse(x)'
      BY <1>1, <2>1, <2>4, <3>1, <3>3 DEF Ground
    <3> QED  BY <1>1, <2>1, <2>2, <3>1, <3>2, <3>4 DEF RowsInv, Family
  <2>9. \A x \in Xid : x < vac.boundary => Cleaned(x)'
    <3> SUFFICES ASSUME NEW x \in Xid, x < vac.boundary PROVE Cleaned(x)'
      OBVIOUS
    <3>1. /\ \A i \in 1..Len(wal') : i > Len(wal) => i = Len(wal')
          /\ Len(wal) <= Len(wal') /\ Len(wal) \in Nat /\ Len(wal') \in DOMAIN wal'
      <4>1. Len(wal) \in Nat /\ DOMAIN wal' = 1..Len(wal')
        BY <1>1 DEF Ground
      <4> QED  BY <2>4, <4>1
    <3>2. \A i \in 1..Len(wal') : i > Len(wal) => ~ InsertAt(i, x)'
      BY <1>3, <2>4, <3>1 DEF InsertAt
    <3>3. CASE x \notin Dead
      <4>1. Cleaned(x)
        BY <1>1, <1>7, <3>3, PrunedClean
      <4> QED  BY <1>1, <2>7, <3>1, <3>2, <4>1, KeepsSettled
    <3>4. CASE x \in Dead
      <4>1. PruneAt(Len(wal), x)'
        BY <1>3, <2>4, <3>4 DEF PruneAt
      <4>2. ASSUME NEW i \in DOMAIN wal', InsertAt(i, x)' PROVE Len(wal') > i
        <5>1. i \in 1..Len(wal') /\ Len(wal') \in Nat
          BY <1>1 DEF Ground
        <5>2. ~ i > Len(wal)
          BY <3>2, <4>2, <5>1
        <5> QED  BY <2>4, <3>1, <5>1, <5>2
      <4> QED  BY <3>1, <4>1, <4>2 DEF Cleaned
    <3> QED  BY <3>3, <3>4
  <2>10. VacInv'
    <3>1. /\ vac.boundary <= vac.xid /\ \A x \in active' : vac.boundary <= x
          /\ Maintained(meta.durable_end) =>
              \E i \in DOMAIN wal' : i <= meta'.durable_end /\ wal'[i].kind = "commit"
                                     /\ wal'[i].xid = vac.xid
      BY <1>1, <2>6, SteadyVacFacts
    <3> QED  BY <1>1, <2>2, <2>9, <3>1 DEF VacInv, Maintained
  <2> QED  BY <1>1, <2>6, <2>8, <2>10, SteadyStep
<1> QED  BY <1>1, <1>5, <1>6, <1>7

\* VACUUM raises the floor.
LEMMA VacuumFloorSettles ==
  ASSUME OrderInv, OrderInv', CommitInv, SettleInv, Races = {}, VacuumFloor
  PROVE  SettleInv'
<1>1. /\ LogTypes /\ ActorTypes /\ vac.pc = "floor" /\ Ground /\ Ground' /\ VacInv /\ MemInv /\ RowsInv
      /\ UNCHANGED <<wal, meta, pending, poisoned, clog, clog_file, disk, page, ckpt, txn, next_xid,
                     mode, active, client>>
      /\ ckpt.pc \notin {"snapshot", "write"} /\ vac'.pc = "idle"
      /\ vacuum_floor' = IF poisoned THEN vacuum_floor ELSE Max({vacuum_floor, vac.boundary})
  BY GroundFacts, GroundNext DEF OrderInv, Types, SettleInv, VacuumFloor, files, log, FloorWindow, NoVacuum
<1>2. Calm
  BY <1>1, StillCalm DEF LogTypes
<1>3. VacOwn
  BY <1>1, <1>2 DEF VacOwn
<1>4. Steady /\ ActiveInv' /\ Up /\ Up'
  BY <1>3, VacOwnSteady
<1>5. \A i \in 1..Len(wal') : ~ i > Len(wal)
  BY <1>1 DEF Ground
<1>6. RowsInv'
  <2>1. \A x \in page.ids : clog'.st[x] = "InProgress" =>
          InUse(x)' \/ (clog.st[x] = "InProgress" /\ (InUse(x) => InUse(x)'))
    BY <1>1 DEF InUse
  <2> QED  BY <1>1, <1>4, <1>5, <2>1, SteadyRows
<1>7. CASE poisoned
  BY <1>1, <1>4, <1>6, <1>7, SteadyStep
<1>8. CASE ~ poisoned
  <2>1. PICK n : n = Max({vacuum_floor, vac.boundary})
    OBVIOUS
  <2>2. /\ vacuum_floor \in Nat /\ vac.boundary \in Nat /\ vac.xid \in Nat /\ next_xid \in Nat
    BY <1>1 DEF Ground
  <2>3. n = vacuum_floor \/ n = vac.boundary
    BY <2>1, <2>2, PairFacts
  <2>4. /\ Anchored(vacuum_floor) /\ vacuum_floor <= next_xid /\ \A x \in active : vacuum_floor <= x
        /\ \A x \in Xid : x < vacuum_floor => Cleaned(x)
        /\ Floor(clog.floor)
        /\ \A i \in DOMAIN wal : \A x \in Xid :
                InsertAt(i, x) /\ clog.st[x] = "None" => x < clog.floor
    BY <1>1, <1>4, <1>8 DEF MemInv
  <2>5. /\ vac.boundary <= vac.xid /\ \A x \in active : vac.boundary <= x
        /\ \A x \in Xid : x < vac.boundary => Cleaned(x)
        /\ Maintained(meta.durable_end)
    BY <1>1, <1>8 DEF VacInv
  <2>6. Anchored(vac.boundary)
    <3>1. PICK i \in DOMAIN wal : i <= meta.durable_end /\ wal[i].kind = "commit" /\ wal[i].xid = vac.xid
      BY <2>5 DEF Maintained
    <3> QED  BY <2>5, <3>1 DEF Anchored
  <2>7. vac.boundary <= next_xid
    <3>1. vac.xid < next_xid
      BY <1>1, <1>4, SteadyVacFacts
    <3> QED  BY <2>2, <2>5, <3>1
  <2>8. /\ Anchored(n) /\ n <= next_xid /\ \A x \in active : n <= x
        /\ \A x \in Xid : x < n => Cleaned(x)
    BY <2>3, <2>4, <2>5, <2>6, <2>7
  <2>9. vacuum_floor' = n
    BY <1>1, <1>8, <2>1
  <2>10. /\ Anchored(n)' /\ \A x \in Xid : x < n => Cleaned(x)'
         /\ Floor(clog.floor)'
    BY <1>1, <1>4, <2>4, <2>8 DEF Anchored, Cleaned, Committed, CommitAt, InsertAt, PruneAt, Floor, Settled, Up
  <2>11. MemInv'
    BY <1>1, <2>4, <2>8, <2>9, <2>10 DEF MemInv, InsertAt, Anchored
  <2>12. CkptInv' /\ VacInv'
    BY <1>1, <1>4, SteadyCkpt, SteadyVac
  <2> QED  BY <1>4, <1>6, <2>11, <2>12, SteadyLow, SteadyAsk, SteadyFile DEF SettleInv
<1> QED  BY <1>1, <1>7, <1>8 DEF LogTypes

-----------------------------------------------------------------------------
(* The steps of the writer of pages and of the checkpoint.                 *)

\* They leave the sessions, VACUUM and the rows alone.
WorkerOwn ==
  /\ Up /\ Up' /\ Calm /\ UNCHANGED <<active, txn, vac, next_xid, client, vacuum_floor, clog_file>>
  /\ page'.ids = page.ids /\ (disk' = disk \/ DiskLive')
  /\ \/ meta'.replay_floor = meta.replay_floor
     \/ ckpt.pc = "recycle" /\ meta'.replay_floor = ckpt.redo
  /\ \A i \in 1..Len(wal') : i > Len(wal) => wal'[i].kind \notin {"insert", "prune"}
  /\ \A x \in Xid : clog'.st[x] = "InProgress" => clog.st[x] = "InProgress"

\* A step of the page writer or the checkpoint touches no transaction.
LEMMA WorkerSteady ==
  ASSUME OrderInv, OrderInv', CommitInv, SettleInv, WorkerOwn
  PROVE  Steady /\ ActiveInv' /\ RowsInv' /\ Ground /\ Ground'
<1>1. Ground /\ Ground' /\ ActiveInv /\ RowsInv /\ next_xid \in Nat
  BY GroundFacts, GroundNext DEF SettleInv, Ground
<1>2. Actors
  BY <1>1 DEF Actors, WorkerOwn
<1>3. Steady
  BY <1>2 DEF Steady, WorkerOwn
<1>4. ActiveInv'
  <2>1. mode' # "down"
    BY DEF WorkerOwn, Up
  <2> QED  BY <1>1, <2>1 DEF WorkerOwn, ActiveInv, Family
<1>5. RowsInv'
  <2>1. \A x : InUse(x) => InUse(x)'
    BY DEF WorkerOwn, InUse
  <2>2. \A x \in page.ids : clog'.st[x] = "InProgress" =>
          InUse(x)' \/ (clog.st[x] = "InProgress" /\ (InUse(x) => InUse(x)'))
    BY <1>1, <2>1 DEF WorkerOwn, Ground
  <2>3. vac'.pc # "idle" => vac'.xid \notin page.ids
    BY <1>1 DEF WorkerOwn, RowsInv
  <2> QED  BY <1>3, <2>2, <2>3, SteadyRows DEF WorkerOwn
<1> QED  BY <1>1, <1>3, <1>4, <1>5

\* So all but the checkpoint itself is kept.
LEMMA WorkerSettles ==
  ASSUME OrderInv, OrderInv', CommitInv, SettleInv, WorkerOwn,
         ckpt' = ckpt \/ ckpt'.pc = "idle" \/ CkptInv'
  PROVE  SettleInv'
BY WorkerSteady, SteadyStep DEF WorkerOwn

\* The page is written, or the flush before it fails.
LEMMA WritePageSettles ==
  ASSUME OrderInv, OrderInv', CommitInv, SettleInv, WritePage \/ WritePageFails
  PROVE  SettleInv'
<1>1. /\ LogTypes /\ Ends /\ FileTypes /\ Ground /\ Ground' /\ AskInv /\ RowsInv /\ PageInv /\ Up /\ Up'
      /\ UNCHANGED <<active, txn, vac, next_xid, client, vacuum_floor, clog_file, ckpt>>
  BY GroundFacts, GroundNext
     DEF OrderInv, Types, SettleInv, CommitInv, WritePage, WritePageFails, files, Up
<1>2. \A i \in 1..Len(wal') : i > Len(wal) => wal'[i].kind \notin {"insert", "prune"}
  BY <1>1, FlushRecords DEF WritePage, WritePageFails
<1>3. CASE WritePage
  <2>1. FlushOk /\ disk' = [ids |-> page.ids, lsn |-> page.lsn] /\ page'.ids = page.ids
    BY <1>1, <1>3 DEF WritePage, FileTypes
  <2>2. /\ Calm /\ ~ poisoned /\ wal' = wal /\ meta'.replay_floor = meta.replay_floor
        /\ \A x \in Xid : clog'.st[x] = "InProgress" => clog.st[x] = "InProgress"
    BY <1>1, <2>1, FlushCalm, FlushFacts
  <2>3. ASSUME NEW x \in Xid PROVE (x \in disk.ids <=> Live(disk.lsn, x))'
    <3>1. x \in page.ids <=> Live(Len(wal), x)
      BY <1>1, <2>2 DEF RowsInv
    <3>2. \A i \in DOMAIN wal : wal[i].kind \in {"insert", "prune"} => i <= page.lsn
      BY <1>1, <2>2 DEF PageInv
    <3>3. \A i \in DOMAIN wal : i <= Len(wal)
      BY <1>1 DEF Ground
    <3>4. Live(Len(wal), x) <=> Live(page.lsn, x)
      BY <3>2, <3>3 DEF Live, InsertAt, PruneAt
    <3> QED  BY <2>1, <2>2, <3>1, <3>4 DEF Live, InsertAt, PruneAt
  <2>4. DiskLive'
    BY <2>3 DEF DiskLive
  <2>5. WorkerOwn
    BY <1>1, <1>2, <2>1, <2>2, <2>4 DEF WorkerOwn
  <2> QED  BY <1>1, <2>5, WorkerSettles
<1>4. CASE WritePageFails
  <2>1. (FlushFails \/ FlushUnknown) /\ page' = page /\ disk' = disk
    BY <1>4 DEF WritePageFails, files
  <2>2. Calm /\ clog' = clog /\ meta'.replay_floor = meta.replay_floor
    BY <2>1, FailCalm
  <2>3. WorkerOwn
    BY <1>1, <1>2, <2>1, <2>2 DEF WorkerOwn
  <2> QED  BY <1>1, <2>3, WorkerSettles
<1> QED  BY <1>3, <1>4

\* A step of the checkpoint that does not replace the commit log.
LEMMA CkptOwn ==
  ASSUME OrderInv, OrderInv', CommitInv, SettleInv, CkptStep, ~ CkptWriteClog
  PROVE  WorkerOwn
<1>1. Types /\ LogTypes /\ ActorTypes /\ Ends /\ AskInv
  BY DEF OrderInv, Types, SettleInv
<1>2. Len(wal) \in Nat /\ meta.durable_end \in Nat
  BY <1>1 DEF LogTypes
<1>3. Calm /\ \A x \in Xid : clog'.st[x] = "InProgress" => clog.st[x] = "InProgress"
  <2>1. CASE CkptBoundary \/ CkptEnd \/ CkptSnapshot \/ CkptControl
    <3>1. UNCHANGED <<wal, meta, pending, poisoned, clog>>
      BY <2>1 DEF CkptBoundary, CkptEnd, CkptSnapshot, CkptControl, log
    <3> QED  BY <1>1, <3>1, StillCalm DEF LogTypes
  <2>2. CASE CkptMarker
    <3>1. PICK r : r = Record(ckpt.boundary - 1, "checkpoint", {}, 0)
      OBVIOUS
    <3>2. ckpt.boundary - 1 \in 0..MaxXid
      BY <1>1, <2>2, DurabilityAssumption DEF CkptMarker, ActorTypes, FIRST_NORMAL_XID
    <3>3. r \in Rec /\ r.kind = "checkpoint"
      BY <3>1, <3>2, RecordFacts
    <3>4. AppendRecord(r)
      BY <2>2, <3>1 DEF CkptMarker
    <3>5. ~ represents_transaction(r)
      BY <3>3 DEF represents_transaction
    <3> QED  BY <1>1, <3>3, <3>4, <3>5, AppendCalm, AppendFacts
  <2>3. CASE CkptFlush
    BY <1>1, <2>3, FlushCalm, FlushFacts DEF CkptFlush
  <2>4. CASE CkptRecycle
    <3>1. /\ wal' = wal /\ pending' = pending /\ poisoned' = poisoned /\ clog' = clog
          /\ meta'.durable_end = meta.durable_end
      BY <1>1, <2>4 DEF CkptRecycle, LogTypes
    <3> QED  BY <1>1, <3>1, StillCalm DEF LogTypes
  <2>5. CASE CkptFails
    <3>1. CASE UNCHANGED log
      BY <1>1, <3>1, StillCalm DEF log, LogTypes
    <3>2. CASE FlushFails \/ FlushUnknown
      BY <3>2, FailCalm
    <3>3. CASE /\ wal' = wal /\ pending' = pending /\ poisoned' = TRUE /\ clog' = clog
               /\ \E floor \in {meta.replay_floor, ckpt.redo} :
                    meta' = [meta EXCEPT !.replay_floor = floor]
      <4>1. meta'.durable_end = meta.durable_end
        BY <1>1, <3>3 DEF LogTypes
      <4> QED  BY <3>3, <4>1, StillCalm
    <3> QED  BY <2>5, <3>1, <3>2, <3>3 DEF CkptFails
  <2> QED  BY <2>1, <2>2, <2>3, <2>4, <2>5 DEF CkptStep
<1>4. UNCHANGED <<vacuum_floor, page, next_xid, active, txn, vac, client, disk>>
  BY CkptFrame
<1>5. Up /\ Up'
  <2>1. Up /\ mode' \in {mode, "up"}
    BY CkptActors
  <2> QED  BY <2>1 DEF Up
<1>6. /\ clog_file' = clog_file
      /\ \A i \in 1..Len(wal') : i > Len(wal) => wal'[i].kind \notin {"insert", "prune"}
  BY CkptGentle
<1>7. \/ meta'.replay_floor = meta.replay_floor
      \/ ckpt.pc = "recycle" /\ meta'.replay_floor = ckpt.redo
  BY <1>1, CkptLog
<1> QED  BY <1>3, <1>4, <1>5, <1>6, <1>7 DEF WorkerOwn

\* The checkpoint reads the allocator, and then the end of the log.
LEMMA CkptBoundarySettles ==
  ASSUME OrderInv, OrderInv', CommitInv, SettleInv, CkptBoundary
  PROVE  SettleInv'
<1>1. WorkerOwn
  BY CkptOwn DEF CkptStep, CkptBoundary, CkptWriteClog
<1>2. ckpt'.pc = "bounded" /\ ckpt'.active = active /\ ckpt'.boundary = next_xid
  BY DEF CkptBoundary, CkptMove, NoCheckpoint
<1>3. Steady /\ LowInv' /\ Up' /\ MemInv' /\ next_xid' \in Nat /\ UNCHANGED <<active, next_xid>>
  BY <1>1, WorkerSteady, SteadyLow, SteadyMem DEF WorkerOwn, Ground
<1>4. CkptInv'
  BY <1>2, <1>3 DEF CkptInv, LowInv, MemInv, Floor, Taken
<1> QED  BY <1>1, <1>4, WorkerSettles

\* The fields of the checkpoint.
LEMMA CkptShape ==
  ASSUME OrderInv
  PROVE  /\ \A f \in {"flush", "snapshot", "recycle"} :
              /\ [ckpt EXCEPT !.pc = f].pc = f /\ [ckpt EXCEPT !.pc = f].boundary = ckpt.boundary
              /\ [ckpt EXCEPT !.pc = f].end = ckpt.end /\ [ckpt EXCEPT !.pc = f].redo = ckpt.redo
              /\ [ckpt EXCEPT !.pc = f].active = ckpt.active
         /\ \A f, s : LET c == [ckpt EXCEPT !.pc = f, !.snapshot = s] IN
              /\ c.pc = f /\ c.boundary = ckpt.boundary /\ c.end = ckpt.end /\ c.redo = ckpt.redo
              /\ c.active = ckpt.active /\ c.snapshot = s
         /\ \A f, e, r, q : LET c == [ckpt EXCEPT !.pc = f, !.end = e, !.redo = r, !.sequence = q] IN
              /\ c.pc = f /\ c.boundary = ckpt.boundary /\ c.end = e /\ c.redo = r
              /\ c.active = ckpt.active
BY DEF OrderInv, Types, ActorTypes, CkptRec

\* The end of the log is read while nobody writes: every id in it is below the boundary.
LEMMA CkptEndSettles ==
  ASSUME OrderInv, OrderInv', CommitInv, SettleInv, CkptEnd
  PROVE  SettleInv'
<1>1. WorkerOwn
  BY CkptOwn DEF CkptStep, CkptEnd, CkptWriteClog
<1>2. /\ ckpt'.pc = "marker" /\ ckpt'.active = ckpt.active /\ ckpt'.boundary = ckpt.boundary
      /\ ckpt.pc = "bounded"
  BY CkptShape DEF CkptEnd, CkptMove
<1>3. Steady /\ vacuum_floor' = vacuum_floor
  BY <1>1, WorkerSteady DEF WorkerOwn
<1>4. CkptInv'
  BY <1>2, <1>3, SteadyCkptFacts DEF CkptInv, Taken
<1> QED  BY <1>1, <1>4, WorkerSettles

\* The marker is logged and flushed.
LEMMA CkptMarkerSettles ==
  ASSUME OrderInv, OrderInv', CommitInv, SettleInv, CkptMarker
  PROVE  SettleInv'
<1>1. WorkerOwn
  BY CkptOwn DEF CkptStep, CkptMarker, CkptWriteClog
<1>2. /\ ckpt'.pc = "flush" /\ ckpt'.active = ckpt.active /\ ckpt'.boundary = ckpt.boundary
      /\ ckpt.pc = "marker" /\ ckpt'.end = ckpt.end /\ ckpt'.redo = ckpt.redo /\ ~ poisoned
  BY CkptShape DEF CkptMarker, CkptMove
<1>3. Steady /\ vacuum_floor' = vacuum_floor /\ Ground /\ Ground'
  BY <1>1, WorkerSteady DEF WorkerOwn
<1>4. PICK r : r = Record(ckpt.boundary - 1, "checkpoint", {}, 0)
  OBVIOUS
<1>5. ckpt.boundary - 1 \in 0..MaxXid
  BY <1>2, DurabilityAssumption DEF OrderInv, Types, ActorTypes, FIRST_NORMAL_XID
<1>6. r \in Rec /\ r.xid = ckpt.boundary - 1
  BY <1>4, <1>5, RecordFacts
<1>7. Len(wal') = Len(wal) + 1 /\ wal'[Len(wal')] = r
  <2>1. AppendRecord(r) /\ LogTypes
    BY <1>4 DEF CkptMarker, OrderInv, Types
  <2> QED  BY <1>2, <1>6, <2>1, AppendFacts
<1>8. \E j \in DOMAIN wal' : ckpt.end < j /\ wal'[j].xid = ckpt.boundary - 1
  <2>1. ckpt.end <= Len(wal)
    BY <1>2 DEF OrderInv, CkptInOrder, Taken
  <2>2. Len(wal) \in Nat /\ ckpt.end \in Nat /\ DOMAIN wal' = 1..Len(wal')
    BY <1>3 DEF Ground
  <2>3. Len(wal') \in DOMAIN wal' /\ ckpt.end < Len(wal')
    BY <1>7, <2>1, <2>2
  <2> QED  BY <1>6, <1>7, <2>3
<1>9. CkptInv'
  BY <1>2, <1>3, <1>8, SteadyCkptFacts DEF CkptInv, Taken
<1> QED  BY <1>1, <1>9, WorkerSettles

\* The marker is durable: a restart will find an id not below the boundary.
LEMMA CkptFlushSettles ==
  ASSUME OrderInv, OrderInv', CommitInv, SettleInv, CkptFlush
  PROVE  SettleInv'
<1>1. WorkerOwn
  BY CkptOwn DEF CkptStep, CkptFlush, CkptWriteClog
<1>2. /\ ckpt'.pc = "snapshot" /\ ckpt'.active = ckpt.active /\ ckpt'.boundary = ckpt.boundary
      /\ ckpt.pc = "flush" /\ ckpt'.end = ckpt.end /\ ckpt'.redo = ckpt.redo
  BY CkptShape DEF CkptFlush, CkptMove
<1>3. Steady /\ vacuum_floor' = vacuum_floor /\ Ground /\ Ground' /\ Up
  BY <1>1, WorkerSteady DEF WorkerOwn
<1>4. ~ poisoned /\ wal' = wal /\ meta'.durable_end = Len(wal) /\ \A i \in DOMAIN wal : i <= Len(wal)
  BY <1>3, FlushFacts DEF CkptFlush, OrderInv, Types, Ground
<1>5. NamedAfter(ckpt.end, ckpt.boundary - 1)'
  <2>1. PICK j \in DOMAIN wal : ckpt.end < j /\ wal[j].xid = ckpt.boundary - 1
    BY <1>2, <1>4 DEF SettleInv, CkptInv
  <2>2. ckpt.boundary \in Nat
    BY <1>3 DEF Ground
  <2> QED  BY <1>2, <1>4, <2>1, <2>2 DEF NamedAfter
<1>6. \A x \in Xid : x < vacuum_floor' => Settled(x)'
  <2>1. \A x \in Xid : x < vacuum_floor => Cleaned(x)
    BY <1>3, <1>4 DEF SettleInv, MemInv
  <2>2. \A x : Committed(x) => Committed(x)'
    BY <1>3, KeepsDurable DEF Steady, Calm
  <2> QED  BY <1>3, <1>4, <2>1, <2>2 DEF Cleaned, Settled, InsertAt, PruneAt
<1>7. CkptInv'
  BY <1>2, <1>3, <1>5, <1>6, SteadyCkptFacts DEF CkptInv, Taken
<1> QED  BY <1>1, <1>7, WorkerSettles

\* The control record, and the end of the checkpoint.
LEMMA CkptControlSettles ==
  ASSUME OrderInv, OrderInv', CommitInv, SettleInv, CkptControl
  PROVE  SettleInv'
<1>1. WorkerOwn
  BY CkptOwn DEF CkptStep, CkptControl, CkptWriteClog
<1>2. /\ ckpt'.pc = "recycle" /\ ckpt'.active = ckpt.active /\ ckpt'.boundary = ckpt.boundary
      /\ ckpt.pc = "control" /\ ckpt'.end = ckpt.end /\ ckpt'.redo = ckpt.redo
  BY CkptShape DEF CkptControl, CkptMove
<1>3. Steady /\ vacuum_floor' = vacuum_floor /\ clog_file' = clog_file
  BY <1>1, WorkerSteady DEF WorkerOwn
<1>4. PICK e, b : e = ckpt.end /\ b = ckpt.boundary
  OBVIOUS
<1>5. NamedAfter(e, b - 1)'
  BY <1>2, <1>3, <1>4, SteadyCkptFacts
<1>6. NamedAfter(ckpt.end, ckpt.boundary - 1)'
  BY <1>2, <1>4, <1>5 DEF NamedAfter
<1>7. clog_file.floor <= ckpt.boundary
  BY <1>2 DEF SettleInv, CkptInv
<1>8. CkptInv'
  BY <1>2, <1>3, <1>6, <1>7, SteadyCkptFacts DEF CkptInv, Taken
<1> QED  BY <1>1, <1>8, WorkerSettles

\* A checkpoint that ends, or is given up.
LEMMA CkptEndsSettles ==
  ASSUME OrderInv, OrderInv', CommitInv, SettleInv, CkptRecycle \/ CkptFails
  PROVE  SettleInv'
<1>1. ckpt'.pc = "idle"
  BY DEF CkptRecycle, CkptFails, CkptMove, NoCheckpoint
<1>2. ~ CkptWriteClog
  <2>1. CkptWriteClog => ckpt'.pc = "control"
    BY CkptShape DEF CkptWriteClog, CkptMove
  <2> QED  BY <1>1, <2>1
<1>3. WorkerOwn
  BY <1>2, CkptOwn DEF CkptStep
<1> QED  BY <1>1, <1>3, WorkerSettles

\* What the floor of a snapshot passes: nothing that was captured as running or is in
\* progress, and of the aborted ids only those below the floor of VACUUM.
LEMMA SnapshotPasses ==
  ASSUME NEW c \in Clog, NEW vfloor \in Nat, NEW captured \in SUBSET Xid, NEW boundary \in Nat,
         c.floor <= boundary, NEW floor, floor = snapshot_floor(c, vfloor, captured, boundary)
  PROVE  /\ floor <= boundary
         /\ \A x \in Xid : c.floor <= x /\ x < floor =>
              /\ x \notin captured /\ c.st[x] # "InProgress"
              /\ c.st[x] = "Aborted" => x < vfloor
<1> DEFINE explicit == {x \in Recorded(c) : \/ c.st[x] = "InProgress"
                                            \/ c.st[x] = "Aborted" /\ x >= vfloor}
           E == explicit \cup captured
           bound == Max0(Recorded(c), c.floor - 1) + 1
           lowest == Min0(E, bound)
<1>1. Xid \subseteq Nat /\ Recorded(c) \subseteq Xid /\ E \subseteq Xid /\ c.floor \in Nat
  <2>1. Xid \subseteq Nat
    BY XidNat
  <2>2. Recorded(c) \subseteq Xid
    BY DEF Recorded
  <2>3. E \subseteq Xid
    BY <2>2
  <2> QED  BY <2>1, <2>2, <2>3 DEF Clog
<1>2. bound \in Nat
  <2>1. CASE Recorded(c) = {}
    <3>1. Max0(Recorded(c), c.floor - 1) = c.floor - 1
      BY <2>1 DEF Max0
    <3>2. bound = (c.floor - 1) + 1
      BY <3>1
    <3> QED  BY <1>1, <3>2
  <2>2. CASE Recorded(c) # {}
    <3>1. Max0(Recorded(c), c.floor - 1) = Max(Recorded(c))
      BY <2>2 DEF Max0
    <3>2. Max(Recorded(c)) \in Recorded(c)
      BY <1>1, <2>2, XidFacts
    <3>3. bound = Max(Recorded(c)) + 1
      BY <3>1
    <3>4. Max(Recorded(c)) \in Nat
      BY <1>1, <3>2
    <3> HIDE DEF bound
    <3> QED  BY <3>3, <3>4
  <2> QED  BY <2>1, <2>2
<1>3. lowest \in Nat /\ \A x \in E : lowest <= x
  <2> HIDE DEF E, bound
  <2>1. CASE E = {}
    BY <1>2, <2>1 DEF Min0
  <2>2. CASE E # {}
    <3>1. Min(E) \in E /\ \A x \in E : Min(E) <= x
      BY <1>1, <2>2, XidFacts
    <3> QED  BY <1>1, <2>2, <3>1 DEF Min0
  <2> QED  BY <2>1, <2>2
<1>4. floor = Max({Min({lowest, boundary}), c.floor})
  BY DEF snapshot_floor
<1>5. \A x \in Xid : (c.st[x] = "InProgress" \/ x \in captured \/ (c.st[x] = "Aborted" /\ ~ x < vfloor)) =>
        x \in E
  <2>1. \A x \in Xid : ~ x < vfloor => x >= vfloor
    BY <1>1
  <2> QED  BY <2>1 DEF Recorded
<1> HIDE DEF lowest, E, bound, explicit
<1>6. PICK m : m = Min({lowest, boundary})
  OBVIOUS
<1>7. m \in Nat /\ m <= lowest /\ m <= boundary
  BY <1>3, <1>6, PairFacts
<1>8. floor = m \/ floor = c.floor
  BY <1>1, <1>4, <1>6, <1>7, PairFacts
<1>9. floor <= boundary
  BY <1>7, <1>8
<1>10. ASSUME NEW x \in Xid, c.floor <= x, x < floor PROVE x \notin E
  <2>1. x \in Nat /\ c.floor \in Nat
    BY <1>1
  <2>2. x < m
    BY <1>7, <1>8, <1>10, <2>1
  <2> QED  BY <1>3, <1>7, <2>1, <2>2
<1> QED  BY <1>5, <1>9, <1>10

\* The snapshot of the commit log.
LEMMA CkptSnapshotSettles ==
  ASSUME OrderInv, OrderInv', CommitInv, SettleInv, CkptSnapshot
  PROVE  SettleInv'
<1>1. WorkerOwn
  BY CkptOwn DEF CkptStep, CkptSnapshot, CkptWriteClog
<1>2. PICK f : f = live_snapshot(clog, meta.durable_end, ckpt.redo, vacuum_floor, ckpt.active, ckpt.boundary)
  OBVIOUS
<1>3. /\ ckpt'.pc = "write" /\ ckpt'.active = ckpt.active /\ ckpt'.boundary = ckpt.boundary
      /\ ckpt.pc = "snapshot" /\ ckpt'.end = ckpt.end /\ ckpt'.redo = ckpt.redo
      /\ ckpt'.snapshot = f /\ ~ poisoned
  BY <1>2, CkptShape DEF CkptSnapshot, CkptMove
<1>4. Steady /\ vacuum_floor' = vacuum_floor /\ Ground /\ Ground' /\ Up
  BY <1>1, WorkerSteady DEF WorkerOwn
<1>5. /\ clog \in Clog /\ ckpt.active \in SUBSET Xid /\ MemInv /\ CkptInv /\ AskInv
      /\ Xid \subseteq Nat /\ next_xid \in Nat /\ clog.floor \in Nat /\ vacuum_floor \in Nat
      /\ ckpt.boundary \in Nat /\ ckpt.redo \in Nat /\ meta.durable_end \in Nat /\ active \subseteq Xid
  BY <1>4 DEF OrderInv, Types, LogTypes, ActorTypes, CkptRec, SettleInv, Ground
<1>6. /\ f \in ClogFile /\ f.lsn = meta.durable_end /\ f.vacuum_floor = vacuum_floor
      /\ f.floor = snapshot_floor(clog, vacuum_floor, ckpt.active, ckpt.boundary)
      /\ clog.floor <= f.floor /\ f.floor \in Nat
      /\ \A x \in Xid : f.st[x] = IF x < f.floor THEN "None"
                                  ELSE IF x \in ckpt.active /\ status(clog, x) = "InProgress"
                                  THEN "InProgress" ELSE clog.st[x]
  <2>1. f.vacuum_floor = vacuum_floor
    BY <1>2 DEF live_snapshot
  <2>2. f.floor = snapshot_floor(clog, vacuum_floor, ckpt.active, ckpt.boundary)
    BY <1>2 DEF live_snapshot
  <2>3. /\ f \in ClogFile /\ f.lsn = meta.durable_end /\ clog.floor <= f.floor
        /\ \A x \in Xid : f.st[x] = IF x < f.floor THEN "None"
                                    ELSE IF x \in ckpt.active /\ status(clog, x) = "InProgress"
                                    THEN "InProgress" ELSE clog.st[x]
    <3>1. ASSUME NEW c \in Clog, NEW l \in Nat, NEW a \in Nat, NEW v \in Nat,
                 NEW k \in SUBSET Xid, NEW b \in Nat, f = live_snapshot(c, l, a, v, k, b)
          PROVE  c.floor <= f.floor /\ f \in ClogFile
      BY <3>1, SnapshotFacts
    <3>2. PICK m : m = snapshot_floor(clog, vacuum_floor, ckpt.active, ckpt.boundary)
      OBVIOUS
    <3>3. /\ f.floor = m /\ f.lsn = meta.durable_end
          /\ f.st = [x \in Xid |-> IF x < m THEN "None"
                                   ELSE IF x \in ckpt.active /\ status(clog, x) = "InProgress"
                                   THEN "InProgress" ELSE clog.st[x]]
      BY <1>2, <3>2 DEF live_snapshot
    <3> QED  BY <1>2, <1>5, <3>1, <3>3
  <2>4. f.floor \in Nat
    BY <2>3 DEF ClogFile
  <2> QED  BY <2>1, <2>2, <2>3, <2>4
<1>7. /\ ckpt.boundary <= next_xid /\ clog.floor <= ckpt.boundary
      /\ \A x \in active : x \in ckpt.active \/ ckpt.boundary <= x
      /\ \A x \in Xid : x < vacuum_floor => Settled(x)
  BY <1>3, <1>5 DEF CkptInv
<1>8. /\ f.floor <= ckpt.boundary
      /\ \A x \in Xid : clog.floor <= x /\ x < f.floor =>
           /\ x \notin ckpt.active /\ clog.st[x] # "InProgress"
           /\ clog.st[x] = "Aborted" => x < vacuum_floor
  BY <1>5, <1>6, <1>7, SnapshotPasses
<1>9. /\ Floor(clog.floor) /\ Anchored(vacuum_floor)
      /\ vacuum_floor <= next_xid /\ \A x \in active : vacuum_floor <= x /\ clog.floor <= x
      /\ \A i \in DOMAIN wal : \A x \in Xid : InsertAt(i, x) /\ clog.st[x] = "None" => x < clog.floor
  BY <1>3, <1>4, <1>5 DEF MemInv, Floor
<1>10. Floor(f.floor)
  <2>1. ASSUME NEW x \in Xid, x < f.floor PROVE Settled(x)
    <3>1. clog.st[x] \in Status
      BY <1>5 DEF Clog
    <3>2. CASE x < clog.floor
      BY <1>9, <3>2 DEF Floor
    <3>3. CASE ~ x < clog.floor
      <4>1. clog.floor <= x
        BY <1>5, <3>3
      <4>2. CASE clog.st[x] = "Committed"
        BY <1>4, <1>5, <4>2 DEF AskInv, Settled
      <4>3. CASE clog.st[x] = "Aborted"
        BY <1>7, <1>8, <2>1, <4>1, <4>3
      <4>4. CASE clog.st[x] = "None"
        BY <1>9, <3>3, <4>4 DEF Settled
      <4> QED  BY <1>8, <2>1, <3>1, <4>1, <4>2, <4>3, <4>4 DEF Status
    <3> QED  BY <3>2, <3>3
  <2>2. f.floor <= next_xid
    BY <1>5, <1>6, <1>7, <1>8
  <2>3. ASSUME NEW x \in active PROVE f.floor <= x
    <3>1. x \in Xid /\ x \in Nat /\ clog.floor <= x
      BY <1>5, <1>9
    <3>2. CASE x \in ckpt.active
      <4>1. ~ x < f.floor
        BY <1>8, <3>1, <3>2
      <4> QED  BY <1>6, <3>1, <4>1
    <3>3. CASE ckpt.boundary <= x
      BY <1>5, <1>6, <1>8, <3>1, <3>3
    <3> QED  BY <1>7, <3>2, <3>3
  <2> QED  BY <2>1, <2>2, <2>3 DEF Floor
<1>11. Floor(f.vacuum_floor) /\ Anchored(f.vacuum_floor)
  BY <1>6, <1>7, <1>9 DEF Floor
<1>12. ASSUME NEW x \in Xid, x >= f.floor, f.st[x] = "None", NEW i \in DOMAIN wal, InsertAt(i, x)
       PROVE  FALSE
  <2>1. x \in Nat /\ ~ x < f.floor
    BY <1>5, <1>6, <1>12
  <2>2. clog.st[x] = "None"
    BY <1>6, <1>12, <2>1
  <2>3. x < clog.floor
    BY <1>9, <1>12, <2>2
  <2> QED  BY <1>5, <1>6, <2>1, <2>3
<1>13. ASSUME NEW x \in Xid, f.st[x] = "Committed" PROVE Committed(x)
  <2>1. clog.st[x] = "Committed"
    BY <1>6, <1>13
  <2> QED  BY <1>4, <1>5, <2>1 DEF AskInv
<1>14. SnapshotFloor(f)
  BY <1>10, <1>11, <1>12, <1>13 DEF SnapshotFloor
<1>15. SnapshotFloor(f)'
  <2>1. Calm /\ Actors /\ f.lsn <= meta.durable_end
    BY <1>4, <1>5, <1>6 DEF Steady
  <2> QED  BY <1>4, <1>6, <1>14, <2>1, CalmSnapshot
<1>16. SnapshotFloor(ckpt.snapshot)'
  BY <1>3, <1>15 DEF SnapshotFloor, Floor, Anchored
<1>17. PICK e, b : e = ckpt.end /\ b = ckpt.boundary
  OBVIOUS
<1>18. NamedAfter(e, b - 1)'
  BY <1>3, <1>4, <1>17, SteadyCkptFacts
<1>19. NamedAfter(ckpt.end, ckpt.boundary - 1)'
  BY <1>3, <1>17, <1>18 DEF NamedAfter
<1>20. clog'.floor = clog.floor
  BY <1>4 DEF Steady, Calm
<1>21. CkptInv'
  BY <1>3, <1>4, <1>6, <1>8, <1>16, <1>19, <1>20, SteadyCkptFacts DEF CkptInv, Taken
<1> QED  BY <1>1, <1>21, WorkerSettles

\* The commit log is replaced and forgets what is below the floor.
LEMMA CkptWriteClogSettles ==
  ASSUME OrderInv, OrderInv', CommitInv, SettleInv, CkptWriteClog
  PROVE  SettleInv'
<1>0. PICK f : f = ckpt.snapshot
  OBVIOUS
<1>1. /\ ckpt.pc = "write" /\ ~ poisoned /\ clog_file' = f /\ clog' = prune_to(clog, f.floor)
      /\ UNCHANGED <<wal, meta, pending, poisoned, disk, mode, vacuum_floor, page, next_xid, active, txn,
                     vac, client>>
  BY <1>0 DEF CkptWriteClog, CkptOnly
<1>2. /\ ckpt'.pc = "control" /\ ckpt'.boundary = ckpt.boundary
      /\ ckpt'.end = ckpt.end /\ ckpt'.redo = ckpt.redo
  BY CkptShape DEF CkptWriteClog, CkptMove
<1>3. /\ Ground /\ clog \in Clog /\ f \in ClogFile /\ f.loaded = TRUE
      /\ ActiveInv /\ LowInv /\ AskInv /\ FileInv /\ CkptInv /\ VacInv /\ MemInv /\ RowsInv
      /\ ckpt.end <= meta.durable_end /\ ckpt.redo <= ckpt.end /\ control.redo <= ckpt.redo
  BY <1>0, <1>1, GroundFacts DEF OrderInv, Types, LogTypes, CkptInOrder, Ground, SettleInv, Taken
<1>4. Up /\ Up'
  BY <1>1 DEF OrderInv, CkptInOrder, Up
<1>5. /\ f.floor \in Nat /\ clog.floor \in Nat /\ Xid \subseteq Nat /\ ckpt.boundary \in Nat
      /\ ckpt.end \in Nat /\ meta.replay_floor \in Nat /\ meta.replay_floor <= ckpt.end
  <2>1. /\ f.floor \in Nat /\ clog.floor \in Nat /\ Xid \subseteq Nat /\ ckpt.boundary \in Nat
        /\ ckpt.end \in Nat /\ meta.replay_floor \in Nat /\ ckpt.redo \in Nat
    BY <1>3 DEF Ground, ClogFile
  <2>2. meta.replay_floor <= control.redo /\ control.redo \in Nat
    BY DEF OrderInv, FilesInOrder, Types, FileTypes
  <2> QED  BY <1>3, <2>1, <2>2
<1>6. /\ SnapshotFloor(f) /\ f.floor <= ckpt.boundary /\ clog.floor <= f.floor
      /\ NamedAfter(ckpt.end, ckpt.boundary - 1)
      /\ \A i \in DOMAIN wal : i <= ckpt.redo => \A x \in Names(i) : x < ckpt.boundary
  BY <1>0, <1>1, <1>3 DEF CkptInv, Taken
<1>7. clog'.floor = f.floor /\ \A x \in Xid : clog'.st[x] = IF x < f.floor THEN "None" ELSE clog.st[x]
  <2>1. Max({clog.floor, f.floor}) = f.floor
    BY <1>5, <1>6, PairFacts
  <2> QED  BY <1>1, <1>3, <1>5, <2>1, PruneFacts
<1>8. ActiveInv' /\ VacInv' /\ LowInv'
  <2>1. VacInv'
    BY <1>1, <1>3 DEF VacInv, Maintained, Cleaned, Committed, CommitAt, InsertAt, PruneAt
  <2>2. ActiveInv'
    BY <1>1, <1>2, <1>3, <1>4 DEF ActiveInv, Up
  <2>3. LowInv'
    BY <1>1, <1>3, <1>4 DEF LowInv, Names, NamedAfter
  <2> QED  BY <2>1, <2>2, <2>3
<1>9. ASSUME NEW x \in Xid
      PROVE  /\ (Committed(x)' <=> Committed(x)) /\ (Settled(x)' <=> Settled(x))
             /\ (Cleaned(x)' <=> Cleaned(x)) /\ (Logged(x)' <=> Logged(x))
             /\ \A i : InsertAt(i, x)' <=> InsertAt(i, x)
  BY <1>1 DEF Committed, Settled, Cleaned, Logged, CommitAt, InsertAt, PruneAt
<1>10. AskInv'
  <2>1. ASSUME NEW x \in Xid, Committed(x) PROVE x \in client.asked
    BY <1>3, <2>1 DEF Committed, AskInv
  <2>2. ASSUME NEW x \in page.ids, status(clog', x) = "Committed" PROVE x \in client.asked
    <3>1. x \in Xid /\ ~ x < FIRST_NORMAL_XID
      <4>1. x \in Xid /\ x >= FIRST_NORMAL_XID /\ x \in Nat
        BY <1>3, XidNat DEF Ground
      <4> QED  BY <4>1 DEF FIRST_NORMAL_XID
    <3>2. CASE x < f.floor
      <4>1. Settled(x)
        BY <1>6, <3>1, <3>2 DEF SnapshotFloor, Floor
      <4>2. Live(Len(wal), x)
        BY <1>1, <1>3, <1>4, <3>1 DEF RowsInv
      <4>3. PICK i \in DOMAIN wal : /\ InsertAt(i, x)
                                    /\ \A k \in DOMAIN wal : i < k /\ k <= Len(wal) => ~ PruneAt(k, x)
        BY <4>2 DEF Live
      <4>4. \A k \in DOMAIN wal : k <= Len(wal) /\ (k > i => i < k)
        BY <1>3 DEF Ground
      <4>5. Committed(x)
        BY <4>1, <4>3, <4>4 DEF Settled
      <4> QED  BY <2>1, <3>1, <4>5
    <3>3. CASE ~ x < f.floor
      <4>1. clog.st[x] = "Committed"
        BY <1>7, <2>2, <3>1, <3>3 DEF status
      <4> QED  BY <1>3, <1>4, <2>1, <3>1, <4>1 DEF AskInv
    <3> QED  BY <3>2, <3>3
  <2>3. \A x \in Xid : clog'.st[x] = "Committed" => Committed(x)'
    BY <1>3, <1>4, <1>7, <1>9 DEF AskInv
  <2>4. \A i \in DOMAIN wal' : \A x \in Xid : CommitAt(i, x)' => x \in client'.asked
    BY <1>1, <1>3 DEF AskInv, CommitAt
  <2>5. \A x \in pending' : Logged(x)'
    BY <1>1, <1>3, <1>9 DEF AskInv, Ground
  <2>6. NoResurrection'
    BY <1>1, <2>2 DEF NoResurrection
  <2> QED  BY <2>3, <2>4, <2>5, <2>6 DEF AskInv
<1>11. SnapshotFloor(f)'
  BY <1>1, <1>6, <1>9, <1>4 DEF SnapshotFloor, Floor, Anchored
<1>12. FileInv'
  <2>1. SnapshotFloor(clog_file)'
    BY <1>1, <1>11 DEF SnapshotFloor, Floor, Anchored
  <2>2. NamedAfter(meta.replay_floor, f.floor - 1)
    <3>1. f.floor - 1 \in Int /\ ckpt.boundary - 1 \in Int /\ f.floor - 1 <= ckpt.boundary - 1
      BY <1>5, <1>6
    <3> QED  BY <1>3, <1>5, <1>6, <3>1, NamedBelow
  <2>3. NamedAfter(meta.replay_floor, clog_file.floor - 1)'
    BY <1>1, <2>2 DEF NamedAfter
  <2>4. DiskLive'
    BY <1>1, <1>3 DEF FileInv, DiskLive, Live, InsertAt, PruneAt
  <2> QED  BY <1>1, <1>3, <2>1, <2>3, <2>4 DEF FileInv
<1>13. CkptInv'
  <2>1. NamedAfter(ckpt.end, ckpt.boundary - 1)'
    BY <1>1, <1>2, <1>6 DEF NamedAfter
  <2> QED  BY <1>1, <1>2, <1>6, <2>1 DEF CkptInv, Taken, Names
<1>14. MemInv'
  <2>1. Floor(clog.floor)'
    BY <1>7, <1>11 DEF SnapshotFloor, Floor
  <2>2. ASSUME NEW i \in DOMAIN wal', NEW x \in Xid, InsertAt(i, x)', clog'.st[x] = "None"
        PROVE  x < clog'.floor
    <3>1. CASE x < f.floor
      BY <1>7, <3>1
    <3>2. CASE ~ x < f.floor
      <4>1. clog.st[x] = "None" /\ i \in DOMAIN wal /\ InsertAt(i, x)
        BY <1>1, <1>7, <1>9, <2>2, <3>2
      <4>2. x < clog.floor
        BY <1>1, <1>3, <1>4, <4>1 DEF MemInv
      <4> QED  BY <1>5, <1>6, <3>2, <4>2
    <3> QED  BY <3>1, <3>2
  <2>3. /\ Anchored(vacuum_floor)' /\ vacuum_floor' <= next_xid' /\ \A x \in active' : vacuum_floor' <= x
        /\ \A x \in Xid : x < vacuum_floor' => Cleaned(x)'
    BY <1>1, <1>3, <1>4, <1>9 DEF MemInv, Anchored
  <2> QED  BY <2>1, <2>2, <2>3 DEF MemInv
<1>15. RowsInv'
  <2>1. \A x \in page.ids : clog'.st[x] = "InProgress" => clog.st[x] = "InProgress"
    BY <1>3, <1>7 DEF Ground
  <2> QED  BY <1>1, <1>3, <1>4, <2>1 DEF RowsInv, InUse, Live, InsertAt, PruneAt
<1> QED  BY <1>8, <1>10, <1>12, <1>13, <1>14, <1>15 DEF SettleInv

-----------------------------------------------------------------------------
(* Crash and recovery.                                                     *)

\* The server goes down.
LEMMA DownSettles ==
  ASSUME OrderInv, OrderInv', CommitInv, SettleInv, Crash \/ ExitUnknown
  PROVE  SettleInv'
<1>1. /\ Ground /\ Ground' /\ ActiveInv /\ LowInv /\ AskInv /\ FileInv
  BY GroundFacts, GroundNext DEF SettleInv
<1>2. /\ mode' = "down" /\ ~ poisoned' /\ pending' = {} /\ ckpt'.pc = "idle" /\ vac'.pc = "idle"
      /\ \A s \in Session : txn'[s] = Idle
      /\ UNCHANGED <<clog_file, disk, client>> /\ meta'.replay_floor = meta.replay_floor
  BY DownFacts DEF OrderInv, NoCheckpoint, NoVacuum
<1>3. PICK end \in Nat : /\ meta.durable_end <= end /\ end <= Len(wal) /\ meta'.durable_end = end
                         /\ Len(wal') = end /\ \A i \in 1..end : wal'[i] = wal[i]
  BY DownFacts DEF OrderInv
<1>4. active' = {}
  BY DEF Crash, ExitUnknown, Down
<1>5. Keeps /\ ~ Up'
  BY <1>1, <1>2, <1>3 DEF Keeps, Up, Ground
<1>6. \A i \in DOMAIN wal' : i \in DOMAIN wal /\ wal'[i] = wal[i]
  <2>1. DOMAIN wal' = 1..Len(wal') /\ DOMAIN wal = 1..Len(wal) /\ Len(wal) \in Nat
    BY <1>1 DEF Ground
  <2> QED  BY <1>3, <2>1
<1>7. ActiveInv'
  <2>1. Family(Idle) = {}
    BY FamilyFacts
  <2> QED  BY <1>2, <1>3, <1>4, <2>1 DEF ActiveInv, Family
<1>8. LowInv'
  <2>1. ASSUME NEW i \in DOMAIN wal', i <= meta'.replay_floor, NEW x \in Names(i)'
        PROVE  NamedAfter(meta.replay_floor, x)'
    <3>1. PICK m : m = meta.replay_floor
      OBVIOUS
    <3>2. x \in Names(i) /\ i <= m
      BY <1>2, <1>6, <2>1, <3>1 DEF Names
    <3>3. NamedAfter(m, x)
      BY <1>1, <1>6, <3>1, <3>2 DEF LowInv
    <3>4. NamedAfter(m, x)'
      BY <1>1, <1>5, <3>3, KeepsDurable
    <3> QED  BY <1>2, <3>1, <3>4 DEF NamedAfter
  <2> QED  BY <1>5, <2>1 DEF LowInv
<1>9. AskInv'
  BY <1>1, <1>2, <1>5, <1>6 DEF AskInv, NoResurrection, CommitAt, Up
<1>10. ASSUME NEW x \in Xid PROVE Settled(x) => Settled(x)'
  <2>1. \A i \in 1..Len(wal') : ~ i > Len(wal)
    BY <1>1, <1>3 DEF Ground
  <2> QED  BY <1>1, <1>5, <2>1, KeepsSettled
<1>11. FileInv'
  <2>1. PICK f : f = clog_file
    OBVIOUS
  <2>2. SnapshotFloor(f) /\ NamedAfter(meta.replay_floor, f.floor - 1) /\ DiskLive
        /\ (~ clog_file.loaded => clog_file = NoClogFile)
    BY <1>1, <2>1 DEF FileInv
  <2>3. Floor(f.floor)' /\ Floor(f.vacuum_floor)'
    BY <1>5, <1>10, <2>2 DEF SnapshotFloor, Floor
  <2>4. Anchored(f.vacuum_floor)' /\ \A x \in Xid : f.st[x] = "Committed" => Committed(x)'
    BY <1>1, <1>5, <2>2, KeepsDurable DEF SnapshotFloor
  <2>5. \A x \in Xid : \A i \in DOMAIN wal' :
          x >= f.floor /\ f.st[x] = "None" /\ InsertAt(i, x)' => i > f.lsn
    BY <1>6, <2>2 DEF SnapshotFloor, InsertAt
  <2>6. SnapshotFloor(clog_file)'
    BY <1>2, <2>1, <2>3, <2>4, <2>5 DEF SnapshotFloor, Floor, Anchored
  <2>7. PICK m : m = meta.replay_floor
    OBVIOUS
  <2>8. NamedAfter(m, f.floor - 1)'
    BY <1>1, <1>5, <2>2, <2>7, KeepsDurable
  <2>9. NamedAfter(meta.replay_floor, clog_file.floor - 1)'
    BY <1>2, <2>1, <2>7, <2>8 DEF NamedAfter
  <2>10. ASSUME NEW x \in Xid PROVE (x \in disk.ids <=> Live(disk.lsn, x))'
    <3>1. PICK l : l = disk.lsn
      OBVIOUS
    <3>2. l \in Nat /\ l <= meta.durable_end /\ meta.durable_end \in Nat /\ Len(wal) \in Nat
      BY <1>1, <3>1 DEF Ground, CommitInv, PageInv
    <3>3. l <= Len(wal) /\ l <= Len(wal')
      BY <1>3, <3>2
    <3>4. Live(l, x)' <=> Live(l, x)
      BY <1>1, <1>5, <3>2, <3>3, KeepsLive
    <3>5. x \in disk.ids <=> Live(l, x)
      BY <2>2, <3>1 DEF DiskLive
    <3>6. x \in disk'.ids <=> Live(l, x)'
      BY <1>2, <3>4, <3>5
    <3>7. disk'.lsn = l
      BY <1>2, <3>1
    <3> QED  BY <3>6, <3>7 DEF Live
  <2>11. DiskLive'
    BY <2>10 DEF DiskLive
  <2> QED  BY <1>2, <2>2, <2>6, <2>9, <2>11 DEF FileInv
<1>12. CkptInv' /\ VacInv'
  BY <1>2 DEF CkptInv, VacInv, Taken
<1>13. MemInv' /\ RowsInv'
  BY <1>5 DEF MemInv, RowsInv
<1> QED  BY <1>7, <1>8, <1>9, <1>11, <1>12, <1>13 DEF SettleInv

\* What the records after a position leave of a status: committed only by a commit, and
\* none only where no transaction is seen.
LEMMA FoldSeen ==
  ASSUME LogTypes, NEW base \in Clog, NEW from \in Nat, NEW x \in Xid, NEW c,
         c = fold_status(base, from)
  PROVE  /\ c.st[x] = "Committed" =>
              base.st[x] = "Committed" \/ \E i \in DOMAIN wal : i > from /\ CommitAt(i, x)
         /\ c.st[x] = "None" => base.st[x] = "None"
         /\ c.st[x] = "None" /\ base.floor <= x =>
              \A i \in DOMAIN wal : i > from => ~ InsertAt(i, x)
<1> DEFINE settling(y) == {i \in Retained(from) : Settles(wal[i], y)}
           seen(y) == \E i \in Retained(from) : represents_transaction(wal[i]) /\ wal[i].xid = y
           folded(y) == IF settling(y) # {}
                          THEN IF wal[Max(settling(y))].kind = "commit" THEN "Committed"
                                                                       ELSE "Aborted"
                          ELSE IF seen(y) /\ status(base, y) = "InProgress" THEN "InProgress"
                          ELSE base.st[y]
<1>1. PICK g : g = [y \in Xid |-> folded(y)]
  OBVIOUS
<1>2. c = [base EXCEPT !.st = g]
  BY <1>1 DEF fold_status
<1>3. c.st = g
  BY <1>2 DEF Clog
<1>4. c.st[x] = folded(x)
  BY <1>1, <1>3
<1>5. PICK S : S = settling(x)
  OBVIOUS
<1>6. \A i : i \in S <=> i \in DOMAIN wal /\ i > from /\ Settles(wal[i], x)
  BY <1>5 DEF Retained
<1>7. seen(x) <=> \E i \in DOMAIN wal : i > from /\ represents_transaction(wal[i]) /\ wal[i].xid = x
  BY DEF Retained
<1>8. c.st[x] = IF S # {} THEN IF wal[Max(S)].kind = "commit" THEN "Committed" ELSE "Aborted"
                ELSE IF seen(x) /\ status(base, x) = "InProgress" THEN "InProgress" ELSE base.st[x]
  BY <1>4, <1>5
<1> HIDE DEF settling, seen, folded
<1>9. x \in Nat /\ x >= FIRST_NORMAL_XID /\ base.floor \in Nat
  BY XidNat DEF Clog
<1>10. ASSUME c.st[x] = "Committed", base.st[x] # "Committed"
       PROVE  \E i \in DOMAIN wal : i > from /\ CommitAt(i, x)
  <2>1. S # {} /\ wal[Max(S)].kind = "commit"
    BY <1>8, <1>10
  <2>2. S \in SUBSET (DOMAIN wal)
    BY <1>6
  <2>3. PICK m : m = Max(S)
    OBVIOUS
  <2>4. m \in S
    BY <2>1, <2>2, <2>3, PositionFacts
  <2> QED  BY <1>6, <2>1, <2>3, <2>4 DEF Settles, CommitAt
<1>11. ASSUME c.st[x] = "None"
       PROVE  /\ base.st[x] = "None"
              /\ base.floor <= x => \A i \in DOMAIN wal : i > from => ~ InsertAt(i, x)
  <2>1. base.st[x] = "None" /\ ~ (seen(x) /\ status(base, x) = "InProgress")
    BY <1>8, <1>11
  <2>2. ASSUME base.floor <= x PROVE ~ seen(x)
    <3>1. ~ x < base.floor /\ ~ x < FIRST_NORMAL_XID
      BY <1>9, <2>2 DEF FIRST_NORMAL_XID
    <3>2. status(base, x) = "InProgress"
      BY <2>1, <3>1 DEF status
    <3> QED  BY <2>1, <3>2
  <2>3. ASSUME NEW i \in DOMAIN wal, i > from, InsertAt(i, x) PROVE seen(x)
    <3>1. represents_transaction(wal[i]) /\ wal[i].xid = x
      BY <1>9, <2>3 DEF represents_transaction, InsertAt, VACUUM_TXN, FIRST_NORMAL_XID
    <3> QED  BY <1>7, <2>3, <3>1
  <2> QED  BY <2>1, <2>2, <2>3
<1> QED  BY <1>10, <1>11

\* The page after recovery shows what the log says.
LEMMA RedoLive ==
  ASSUME OrderInv, DiskLive, PageInv, NEW x \in Xid
  PROVE  x \in redo_page.ids <=> Live(Len(wal), x)
<1> DEFINE from == Max({control.redo, disk.lsn})
           applied == {i \in Retained(from) : wal[i].kind \in {"insert", "prune"}}
           last(y) == {i \in applied : \/ wal[i].kind = "insert" /\ wal[i].xid = y
                                       \/ wal[i].kind = "prune" /\ y \in wal[i].ids}
           present(y) == IF last(y) = {} THEN y \in disk.ids
                                         ELSE wal[Max(last(y))].kind = "insert"
<1>1. x \in redo_page.ids <=> present(x)
  BY DEF redo_page
<1>2. /\ control.redo \in Nat /\ disk.lsn \in Nat /\ LogTypes
      /\ Len(wal) \in Nat /\ DOMAIN wal = 1..Len(wal)
  BY DEF OrderInv, Types, FileTypes, LogTypes
<1>3. from \in Nat /\ control.redo <= from /\ disk.lsn <= from /\ from \in {control.redo, disk.lsn}
  BY <1>2, PairFacts
<1>4. \A i : i \in applied <=>
        /\ i \in DOMAIN wal /\ i > from /\ wal[i].kind \in {"insert", "prune"}
  BY DEF Retained
<1>5. \A i \in DOMAIN wal : i > from <=> (i > control.redo /\ i > disk.lsn)
  <2> HIDE DEF from
  <2> QED  BY <1>2, <1>3
<1>6. \A i \in DOMAIN wal : wal[i].kind \in {"insert", "prune"} /\ i > disk.lsn => i > control.redo
  BY DEF PageInv
<1>7. PICK S : S = last(x)
  OBVIOUS
<1>8. \A i : i \in S <=> i \in DOMAIN wal /\ i > disk.lsn /\ (InsertAt(i, x) \/ PruneAt(i, x))
  <2>1. \A i : i \in S <=> i \in applied /\ (InsertAt(i, x) \/ PruneAt(i, x))
    BY <1>7 DEF InsertAt, PruneAt
  <2> HIDE DEF applied, last
  <2> QED  BY <1>4, <1>5, <1>6, <2>1 DEF InsertAt, PruneAt
<1>9. present(x) <=> IF S = {} THEN x \in disk.ids ELSE wal[Max(S)].kind = "insert"
  BY <1>7
<1> HIDE DEF present, last, applied, from
<1>10. CASE S = {}
  <2>1. \A i \in DOMAIN wal : InsertAt(i, x) \/ PruneAt(i, x) => i <= disk.lsn /\ i <= Len(wal)
    BY <1>2, <1>8, <1>10
  <2>2. Live(Len(wal), x) <=> Live(disk.lsn, x)
    BY <2>1 DEF Live
  <2> QED  BY <1>1, <1>9, <1>10, <2>2 DEF DiskLive
<1>11. CASE S # {}
  <2>1. PICK m : m = Max(S)
    OBVIOUS
  <2>2. S \in SUBSET (DOMAIN wal)
    BY <1>8
  <2>3. m \in S /\ \A i \in S : i <= m
    BY <1>2, <1>11, <2>1, <2>2, PositionFacts
  <2>4. m \in DOMAIN wal /\ m > disk.lsn /\ m <= Len(wal) /\ m \in Nat /\ (InsertAt(m, x) \/ PruneAt(m, x))
    BY <1>2, <1>8, <2>3
  <2>5. \A i \in DOMAIN wal : i \in Nat /\ (InsertAt(i, x) \/ PruneAt(i, x) => i <= m)
    <3> SUFFICES ASSUME NEW i \in DOMAIN wal, InsertAt(i, x) \/ PruneAt(i, x) PROVE i <= m
      BY <1>2
    <3>1. CASE i > disk.lsn
      BY <1>8, <2>3, <3>1
    <3>2. CASE ~ i > disk.lsn
      BY <1>2, <2>4, <3>2
    <3> QED  BY <3>1, <3>2
  <2>6. CASE InsertAt(m, x)
    <3>1. \A k \in DOMAIN wal : m < k => ~ PruneAt(k, x)
      BY <2>4, <2>5
    <3>2. Live(Len(wal), x)
      BY <2>4, <2>6, <3>1 DEF Live
    <3> QED  BY <1>1, <1>9, <1>11, <2>1, <2>6, <3>2 DEF InsertAt
  <2>7. CASE PruneAt(m, x)
    <3>1. ASSUME NEW i \in DOMAIN wal, InsertAt(i, x) PROVE i < m
      <4>1. i # m
        BY <2>7, <3>1 DEF InsertAt, PruneAt
      <4> QED  BY <2>4, <2>5, <3>1, <4>1
    <3>2. ~ Live(Len(wal), x)
      BY <2>4, <2>7, <3>1 DEF Live
    <3>3. wal[m].kind # "insert"
      BY <2>7 DEF PruneAt
    <3> QED  BY <1>1, <1>9, <1>11, <2>1, <3>2, <3>3
  <2> QED  BY <2>4, <2>6, <2>7
<1> QED  BY <1>10, <1>11

\* The next id is past every id the retained log carries.
LEMMA NextXidPast ==
  ASSUME LogTypes, NEW i \in DOMAIN wal, i > meta.replay_floor
  PROVE  wal[i].xid < recovered_next_xid /\ \A x \in Names(i) : x < recovered_next_xid
<1> DEFINE I(j) == {wal[j].xid} \cup (IF wal[j].kind = "commit" THEN wal[j].ids ELSE {})
           S == (UNION {I(j) : j \in Retained(meta.replay_floor)}) \cup {FIRST_NORMAL_XID - 1}
<1>1. recovered_next_xid = Max(S) + 1
  BY DEF recovered_next_xid
<1>2. \A j \in DOMAIN wal : I(j) \subseteq 0..MaxXid
  <2> SUFFICES ASSUME NEW j \in DOMAIN wal PROVE I(j) \subseteq 0..MaxXid
    OBVIOUS
  <2>1. wal[j] \in Rec
    BY DEF LogTypes
  <2> QED  BY <2>1, DurabilityAssumption DEF Rec, Xid, FIRST_NORMAL_XID
<1>3. Names(i) \subseteq I(i) /\ wal[i].xid \in I(i)
  BY DEF Names
<1>4. S \subseteq 0..MaxXid /\ I(i) \subseteq S /\ MaxXid \in Nat
  <2>1. FIRST_NORMAL_XID - 1 \in 0..MaxXid /\ MaxXid \in Nat
    BY DurabilityAssumption DEF FIRST_NORMAL_XID
  <2> HIDE DEF I
  <2>2. ASSUME NEW x \in S PROVE x \in 0..MaxXid
    <3>1. CASE x = FIRST_NORMAL_XID - 1
      BY <2>1, <3>1
    <3>2. CASE \E j \in Retained(meta.replay_floor) : x \in I(j)
      BY <1>2, <3>2 DEF Retained
    <3> QED  BY <3>1, <3>2
  <2>3. I(i) \subseteq S
    BY DEF Retained
  <2> HIDE DEF S
  <2> QED  BY <2>1, <2>2, <2>3
<1> HIDE DEF S, I
<1>5. S \subseteq Nat /\ S # {} /\ \A x \in S : x <= MaxXid
  BY <1>3, <1>4
<1>6. PICK m : m = Max(S)
  OBVIOUS
<1>7. m \in S /\ \A x \in S : x <= m
  BY <1>4, <1>5, <1>6, MaxFacts
<1>8. m \in Nat /\ \A x \in S : x \in Nat /\ x < m + 1
  BY <1>5, <1>7
<1> QED  BY <1>1, <1>3, <1>4, <1>6, <1>8

\* The floor of a recovery without a snapshot passes no transaction that did not commit.
LEMMA RecoveredFloorPasses ==
  ASSUME LogTypes, NEW c, NEW i \in DOMAIN wal, i > meta.replay_floor,
         represents_transaction(wal[i]), status(c, wal[i].xid) # "Committed"
  PROVE  recovered_floor(c) <= wal[i].xid
<1> DEFINE open == {wal[j].xid : j \in {k \in Retained(meta.replay_floor) :
                                          /\ represents_transaction(wal[k])
                                          /\ status(c, wal[k].xid) # "Committed"}}
<1>1. recovered_floor(c) = Min(open \cup {recovered_next_xid})
  BY DEF recovered_floor
<1>2. \A j \in DOMAIN wal : wal[j].xid \in Nat
  BY DurabilityAssumption DEF LogTypes, Rec
<1>3. open \subseteq Nat
  BY <1>2 DEF Retained
<1>4. recovered_next_xid \in Nat
  BY NextXidFacts, DurabilityAssumption DEF FIRST_NORMAL_XID
<1>5. wal[i].xid \in open
  BY DEF Retained
<1> HIDE DEF open
<1>6. PICK S : S = open \cup {recovered_next_xid}
  OBVIOUS
<1>7. S \subseteq Nat /\ S # {} /\ wal[i].xid \in S
  BY <1>3, <1>4, <1>5, <1>6
<1> QED  BY <1>1, <1>6, <1>7, MinFacts

\* The commit log, the allocator and the floor of VACUUM after recovery.
LEMMA RestartReads ==
  ASSUME OrderInv, FileInv, Restart, meta.durable_end = Len(wal)
  PROVE  /\ mode' \in {"up", "recovered"} /\ page' = redo_page /\ next_xid' = recovered_next_xid
         /\ vacuum_floor' = clog_file.vacuum_floor
         /\ UNCHANGED <<wal, meta, pending, poisoned, clog_file, disk, active, txn, vac, ckpt, client>>
         /\ clog_file.floor <= clog'.floor
         /\ clog_file.loaded => clog'.floor = clog_file.floor
         /\ ~ clog_file.loaded => clog'.floor <= next_xid' \/ clog'.floor = clog_file.floor
         /\ \A x \in Xid : clog'.st[x] # "InProgress" /\ (clog'.st[x] = "Committed" => Committed(x))
         /\ \A x \in Xid : \A i \in DOMAIN wal : InsertAt(i, x) /\ clog'.st[x] = "None" => x < clog'.floor
         /\ ~ clog_file.loaded => \A x \in Xid : x < clog'.floor => Settled(x)
<1> DEFINE base == [floor |-> clog_file.floor, st |-> clog_file.st]
           folded == fold_status(base, clog_file.lsn)
           floored == IF clog_file.loaded THEN folded
                      ELSE [folded EXCEPT !.floor = Max({@, recovered_floor(folded)})]
<1>1. /\ mode' \in {"up", "recovered"} /\ clog' = resolve(floored)
      /\ vacuum_floor' = clog_file.vacuum_floor /\ page' = redo_page
      /\ next_xid' = recovered_next_xid
      /\ UNCHANGED <<wal, meta, pending, poisoned, clog_file, disk, active, txn, vac, ckpt, client>>
  <2>1. ~ Refuses
    BY RestartOrder
  <2> QED  BY <2>1 DEF Restart, files
<1>2. base \in Clog /\ base.floor = clog_file.floor /\ base.st = clog_file.st /\ LogTypes
  BY DEF OrderInv, Types, FileTypes, ClogFile, Clog
<1>3. clog_file.lsn \in Nat /\ clog_file.floor \in Nat /\ clog_file.loaded \in BOOLEAN
  BY DEF OrderInv, Types, FileTypes, ClogFile
<1> HIDE DEF base
<1>4. PICK c : c = folded
  OBVIOUS
<1> HIDE DEF folded
<1>5. c = fold_status(base, clog_file.lsn)
  BY <1>4 DEF folded
<1>6. c \in Clog /\ c.floor = base.floor
  BY <1>2, <1>3, <1>5, FoldFacts
<1>7. ASSUME NEW x \in Xid
      PROVE  /\ c.st[x] = "Committed" =>
                  base.st[x] = "Committed" \/ \E i \in DOMAIN wal : i > clog_file.lsn /\ CommitAt(i, x)
             /\ c.st[x] = "None" => base.st[x] = "None"
             /\ c.st[x] = "None" /\ base.floor <= x =>
                  \A i \in DOMAIN wal : i > clog_file.lsn => ~ InsertAt(i, x)
  BY <1>2, <1>3, <1>5, FoldSeen
<1>8. PICK f : f = floored
  OBVIOUS
<1>9. f = IF clog_file.loaded THEN c ELSE [c EXCEPT !.floor = Max({@, recovered_floor(c)})]
  BY <1>4, <1>8
<1> HIDE DEF floored
<1>10. PICK r : r = recovered_floor(c)
  OBVIOUS
<1>11. r \in Nat /\ r <= recovered_next_xid
  BY <1>2, <1>10, RecoveredFloorFacts
<1>12. PICK m : m = Max({c.floor, r})
  OBVIOUS
<1>13. m \in Nat /\ c.floor <= m /\ (m = c.floor \/ m = r) /\ c.floor \in Nat
  BY <1>6, <1>11, <1>12, PairFacts DEF Clog
<1>14. f \in Clog /\ f.st = c.st /\ f.floor = IF clog_file.loaded THEN c.floor ELSE m
  BY <1>6, <1>9, <1>10, <1>12, <1>13 DEF Clog
<1>15. /\ clog'.floor = f.floor
       /\ \A x \in Xid : clog'.st[x] = IF c.st[x] = "InProgress" THEN "Aborted" ELSE c.st[x]
  <2>1. clog' = resolve(f)
    BY <1>1, <1>8
  <2> QED  BY <1>14, <2>1, ResolveFacts
<1>16. /\ clog_file.floor <= clog'.floor
       /\ clog_file.loaded => clog'.floor = clog_file.floor
       /\ ~ clog_file.loaded => clog'.floor <= next_xid' \/ clog'.floor = clog_file.floor
  BY <1>1, <1>2, <1>3, <1>6, <1>11, <1>13, <1>14, <1>15
<1>17. ASSUME NEW x \in Xid, c.st[x] = "Committed" PROVE Committed(x)
  <2>1. CASE base.st[x] = "Committed"
    BY <1>2, <2>1 DEF FileInv, SnapshotFloor
  <2>2. CASE \E i \in DOMAIN wal : i > clog_file.lsn /\ CommitAt(i, x)
    <3>1. \A i \in DOMAIN wal : i <= Len(wal)
      BY <1>2 DEF LogTypes
    <3> QED  BY <2>2, <3>1 DEF Committed
  <2> QED  BY <1>7, <1>17, <2>1, <2>2
<1>18. \A x \in Xid : clog'.st[x] # "InProgress" /\ (clog'.st[x] = "Committed" => Committed(x))
  BY <1>15, <1>17
<1>19. ASSUME NEW x \in Xid, NEW i \in DOMAIN wal, InsertAt(i, x), clog'.st[x] = "None"
       PROVE  x < clog'.floor
  <2>1. x \in Nat /\ i \in Nat
    <3>1. x \in Nat
      BY XidNat
    <3>2. i \in Nat
      BY <1>2 DEF LogTypes
    <3> QED  BY <3>1, <3>2
  <2>2. c.st[x] = "None" /\ base.st[x] = "None"
    BY <1>7, <1>15, <1>19
  <2>3. CASE x < clog_file.floor
    <3>1. clog'.floor \in Nat
      BY <1>14, <1>15 DEF Clog
    <3> QED  BY <1>3, <1>16, <2>1, <2>3, <3>1
  <2>4. CASE ~ x < clog_file.floor
    <3>1. clog_file.floor <= x /\ x >= clog_file.floor
      BY <1>3, <2>1, <2>4
    <3>2. ~ i > clog_file.lsn
      BY <1>2, <1>7, <1>19, <2>2, <3>1
    <3>3. i > clog_file.lsn
      BY <1>2, <1>19, <2>2, <3>1 DEF FileInv, SnapshotFloor
    <3> QED  BY <3>2, <3>3
  <2> QED  BY <2>3, <2>4
<1>20. ASSUME ~ clog_file.loaded, NEW x \in Xid, x < clog'.floor PROVE Settled(x)
  <2>1. clog_file.floor = FIRST_NORMAL_XID /\ meta.replay_floor = 0
    BY <1>20 DEF FileInv, NoClogFile, OrderInv, FilesInOrder
  <2>2. x \in Nat /\ x >= FIRST_NORMAL_XID
    BY XidNat
  <2>3. ~ x < FIRST_NORMAL_XID
    BY <2>2 DEF FIRST_NORMAL_XID
  <2>4. x < r
    <3>1. clog'.floor = c.floor \/ clog'.floor = r
      BY <1>13, <1>14, <1>15, <1>20
    <3> QED  BY <1>2, <1>6, <1>20, <2>1, <2>3, <3>1
  <2>5. ASSUME NEW i \in DOMAIN wal, InsertAt(i, x) PROVE Committed(x)
    <3>1. represents_transaction(wal[i]) /\ wal[i].xid = x
      BY <2>2, <2>5 DEF represents_transaction, InsertAt, VACUUM_TXN, FIRST_NORMAL_XID
    <3>2. i > meta.replay_floor
      BY <1>2, <2>1 DEF LogTypes
    <3>3. status(c, x) = "Committed"
      <4> SUFFICES ASSUME status(c, x) # "Committed" PROVE FALSE
        OBVIOUS
      <4>1. r <= x
        BY <1>2, <1>10, <3>1, <3>2, RecoveredFloorPasses
      <4> QED  BY <1>11, <2>2, <2>4, <4>1
    <3>4. c.st[x] = "Committed"
      BY <1>2, <1>6, <2>1, <2>3, <3>3 DEF status
    <3> QED  BY <1>17, <3>4
  <2> QED  BY <2>5 DEF Settled
<1> QED  BY <1>1, <1>16, <1>18, <1>19, <1>20

\* The server comes up again.
LEMMA RestartSettles ==
  ASSUME OrderInv, OrderInv', CommitInv, SettleInv, Restart
  PROVE  SettleInv'
<1>1. /\ Ground /\ Ground' /\ ActiveInv /\ LowInv /\ AskInv /\ FileInv /\ LogTypes /\ PageInv
  BY GroundFacts, GroundNext DEF SettleInv, OrderInv, Types, CommitInv
<1>2. /\ active = {} /\ meta.durable_end = Len(wal) /\ ~ poisoned /\ pending = {}
      /\ vac.pc = "idle" /\ ckpt.pc = "idle"
  BY <1>1 DEF ActiveInv, Restart
<1>3. /\ mode' \in {"up", "recovered"} /\ page' = redo_page /\ next_xid' = recovered_next_xid
      /\ vacuum_floor' = clog_file.vacuum_floor
      /\ UNCHANGED <<wal, meta, pending, poisoned, clog_file, disk, active, txn, vac, ckpt, client>>
      /\ clog_file.floor <= clog'.floor
      /\ clog_file.loaded => clog'.floor = clog_file.floor
      /\ ~ clog_file.loaded => clog'.floor <= next_xid' \/ clog'.floor = clog_file.floor
      /\ \A x \in Xid : clog'.st[x] # "InProgress" /\ (clog'.st[x] = "Committed" => Committed(x))
      /\ \A x \in Xid : \A i \in DOMAIN wal : InsertAt(i, x) /\ clog'.st[x] = "None" => x < clog'.floor
      /\ ~ clog_file.loaded => \A x \in Xid : x < clog'.floor => Settled(x)
  BY <1>1, <1>2, RestartReads
<1>4. /\ Up' /\ mode' # "down" /\ next_xid' \in Nat /\ FIRST_NORMAL_XID <= next_xid'
  <2>1. recovered_next_xid \in FIRST_NORMAL_XID..(MaxXid + 1)
    BY <1>1, NextXidFacts
  <2> QED  BY <1>3, <2>1, DurabilityAssumption DEF Up, FIRST_NORMAL_XID
<1>5. /\ SnapshotFloor(clog_file) /\ NamedAfter(meta.replay_floor, clog_file.floor - 1) /\ DiskLive
      /\ clog_file.floor \in Nat /\ clog_file.vacuum_floor \in Nat /\ clog_file.lsn \in Nat
      /\ clog_file.loaded \in BOOLEAN
  BY <1>1 DEF FileInv, Ground, ClogFile
<1>6. ASSUME NEW i \in DOMAIN wal, i > meta.replay_floor
      PROVE  wal[i].xid < next_xid' /\ \A x \in Names(i) : x < next_xid'
  BY <1>1, <1>3, <1>6, NextXidPast
<1>7. ASSUME NEW i \in DOMAIN wal, NEW x \in Names(i) PROVE x < next_xid' /\ x \in Xid
  <2>1. x \in Xid /\ x \in Nat /\ ~ x < FIRST_NORMAL_XID /\ i \in Nat /\ meta.replay_floor \in Nat
    <3>1. x \in Xid /\ i \in Nat /\ meta.replay_floor \in Nat
      BY <1>1 DEF Ground
    <3>2. x \in Nat /\ x >= FIRST_NORMAL_XID
      BY <3>1, XidNat
    <3> QED  BY <3>1, <3>2 DEF FIRST_NORMAL_XID
  <2>2. CASE i > meta.replay_floor
    BY <1>6, <2>1, <2>2
  <2>3. CASE ~ i > meta.replay_floor
    <3>1. i <= meta.replay_floor
      BY <2>1, <2>3
    <3>2. NamedAfter(meta.replay_floor, x)
      BY <1>1, <3>1 DEF LowInv
    <3>3. PICK j \in DOMAIN wal : meta.replay_floor < j /\ x <= wal[j].xid
      BY <2>1, <3>2 DEF NamedAfter
    <3>4. j \in Nat /\ wal[j].xid \in Nat
      BY <1>1 DEF Ground
    <3>5. wal[j].xid < next_xid'
      BY <1>6, <2>1, <3>3, <3>4
    <3> QED  BY <1>4, <2>1, <3>3, <3>4, <3>5
  <2> QED  BY <2>2, <2>3
<1>8. \A x \in Xid : x \in page'.ids <=> Live(Len(wal), x)
  BY <1>1, <1>3, <1>5, RedoLive
<1>9. ASSUME NEW x \in Xid, x \in page'.ids
      PROVE  x < next_xid' /\ (Settled(x) => Committed(x))
  <2>1. PICK i \in DOMAIN wal : /\ InsertAt(i, x)
                                /\ \A k \in DOMAIN wal : i < k /\ k <= Len(wal) => ~ PruneAt(k, x)
    BY <1>8, <1>9 DEF Live
  <2>2. x \in Names(i)
    BY <2>1 DEF InsertAt, Names
  <2>3. \A k \in DOMAIN wal : k <= Len(wal) /\ (k > i => i < k)
    BY <1>1 DEF Ground
  <2>4. Settled(x) => Committed(x)
    BY <2>1, <2>3 DEF Settled
  <2> QED  BY <1>7, <2>2, <2>4
<1>10. clog_file.floor <= next_xid'
  <2>1. CASE clog_file.floor - 1 < FIRST_NORMAL_XID
    BY <1>4, <1>5, <2>1 DEF FIRST_NORMAL_XID
  <2>2. CASE ~ clog_file.floor - 1 < FIRST_NORMAL_XID
    <3>1. PICK j \in DOMAIN wal : meta.replay_floor < j /\ clog_file.floor - 1 <= wal[j].xid
      BY <1>5, <2>2 DEF NamedAfter
    <3>2. j \in Nat /\ wal[j].xid \in Nat /\ meta.replay_floor \in Nat
      BY <1>1 DEF Ground
    <3>3. wal[j].xid < next_xid'
      BY <1>6, <3>1, <3>2
    <3> QED  BY <1>4, <1>5, <3>1, <3>2, <3>3
  <2> QED  BY <2>1, <2>2
<1>11. clog_file.vacuum_floor <= next_xid'
  <2>1. Anchored(clog_file.vacuum_floor)
    BY <1>5 DEF SnapshotFloor
  <2>2. CASE clog_file.vacuum_floor <= FIRST_NORMAL_XID
    BY <1>4, <1>5, <2>2 DEF FIRST_NORMAL_XID
  <2>3. CASE ~ clog_file.vacuum_floor <= FIRST_NORMAL_XID
    <3>1. PICK i \in DOMAIN wal : wal[i].kind = "commit" /\ clog_file.vacuum_floor <= wal[i].xid
      BY <2>1, <2>3 DEF Anchored
    <3>2. wal[i].xid \in Names(i) /\ wal[i].xid \in Nat
      BY <1>1, <3>1 DEF Names, Ground
    <3>3. wal[i].xid < next_xid'
      BY <1>7, <3>2
    <3> QED  BY <1>4, <1>5, <3>1, <3>2, <3>3
  <2> QED  BY <2>2, <2>3
<1>12. ASSUME NEW x \in Xid
       PROVE  /\ (Committed(x)' <=> Committed(x)) /\ (Settled(x)' <=> Settled(x))
              /\ (Cleaned(x)' <=> Cleaned(x))
              /\ \A i : InsertAt(i, x)' <=> InsertAt(i, x)
  BY <1>3 DEF Committed, Settled, Cleaned, CommitAt, InsertAt, PruneAt
<1>13. \A x \in Xid : x < clog'.floor => Settled(x)
  <2>1. CASE clog_file.loaded
    BY <1>3, <1>5, <2>1 DEF SnapshotFloor, Floor
  <2>2. CASE ~ clog_file.loaded
    BY <1>3, <2>2
  <2> QED  BY <2>1, <2>2
<1>14. ActiveInv'
  BY <1>1, <1>2, <1>3, <1>4 DEF ActiveInv, Family
<1>15. LowInv'
  <2>1. page'.ids \subseteq Xid
    BY <1>1 DEF Ground
  <2>2. \A i \in DOMAIN wal' : \A x \in Names(i)' : x < next_xid'
    BY <1>3, <1>7 DEF Names
  <2>3. \A i \in DOMAIN wal' : i <= meta'.replay_floor =>
          \A x \in Names(i)' : NamedAfter(meta.replay_floor, x)'
    BY <1>1, <1>3 DEF LowInv, Names, NamedAfter
  <2> QED  BY <1>9, <2>1, <2>2, <2>3 DEF LowInv
<1>16. AskInv'
  <2>1. ASSUME NEW x \in Xid, Committed(x) PROVE x \in client.asked
    BY <1>1, <2>1 DEF Committed, AskInv
  <2>2. ASSUME NEW x \in page'.ids, status(clog', x) = "Committed" PROVE x \in client.asked
    <3>1. x \in Xid /\ ~ x < FIRST_NORMAL_XID
      <4>1. page'.ids \subseteq Xid
        BY <1>1 DEF Ground
      <4>2. x \in Xid /\ x >= FIRST_NORMAL_XID /\ x \in Nat
        BY <4>1, XidNat
      <4> QED  BY <4>2 DEF FIRST_NORMAL_XID
    <3>2. clog'.st[x] = "Committed" \/ x < clog'.floor
      BY <2>2, <3>1 DEF status
    <3>3. Committed(x)
      BY <1>3, <1>9, <1>13, <2>2, <3>1, <3>2
    <3> QED  BY <2>1, <3>1, <3>3
  <2>3. \A x \in Xid : clog'.st[x] = "Committed" => Committed(x)'
    BY <1>3, <1>12
  <2>4. \A i \in DOMAIN wal' : \A x \in Xid : CommitAt(i, x)' => x \in client'.asked
    BY <1>1, <1>3 DEF AskInv, CommitAt
  <2>5. NoResurrection'
    BY <1>3, <2>2 DEF NoResurrection
  <2> QED  BY <1>2, <1>3, <2>3, <2>4, <2>5 DEF AskInv
<1>17. SnapshotFloor(clog_file)'
  <2>1. PICK f : f = clog_file
    OBVIOUS
  <2>2. Floor(f.floor)' /\ Floor(f.vacuum_floor)'
    BY <1>2, <1>3, <1>5, <1>10, <1>11, <1>12, <2>1 DEF SnapshotFloor, Floor
  <2>3. Anchored(f.vacuum_floor)'
    BY <1>3, <1>5, <2>1 DEF SnapshotFloor, Anchored
  <2>4. \A x \in Xid : \A i \in DOMAIN wal' :
          x >= f.floor /\ f.st[x] = "None" /\ InsertAt(i, x)' => i > f.lsn
    BY <1>3, <1>5, <1>12, <2>1 DEF SnapshotFloor
  <2>5. \A x \in Xid : f.st[x] = "Committed" => Committed(x)'
    BY <1>5, <1>12, <2>1 DEF SnapshotFloor
  <2> QED  BY <1>3, <2>1, <2>2, <2>3, <2>4, <2>5 DEF SnapshotFloor, Floor, Anchored
<1>18. FileInv'
  BY <1>1, <1>3, <1>17 DEF FileInv, NamedAfter, DiskLive, Live, InsertAt, PruneAt
<1>19. CkptInv' /\ VacInv'
  BY <1>2, <1>3 DEF CkptInv, VacInv, Taken
<1>20. MemInv'
  <2>1. clog'.floor <= next_xid'
    <3>1. clog'.floor = clog_file.floor \/ clog'.floor <= next_xid'
      BY <1>3, <1>5
    <3> QED  BY <1>10, <3>1
  <2>2. Floor(clog.floor)'
    BY <1>2, <1>3, <1>12, <1>13, <2>1 DEF Floor
  <2>3. \A x \in Xid : x < vacuum_floor' => Cleaned(x)'
    <3>1. \A x \in Xid : x < clog_file.vacuum_floor => Settled(x)
      BY <1>5 DEF SnapshotFloor, Floor
    <3>2. \A x \in Xid : Settled(x) => Cleaned(x)
      BY DEF Settled, Cleaned
    <3> QED  BY <1>3, <1>12, <3>1, <3>2
  <2>4. Anchored(vacuum_floor)'
    BY <1>3, <1>5 DEF SnapshotFloor, Anchored
  <2>5. \A i \in DOMAIN wal' : \A x \in Xid :
          InsertAt(i, x)' /\ clog'.st[x] = "None" => x < clog'.floor
    BY <1>3, <1>12
  <2> QED  BY <1>2, <1>3, <1>11, <2>2, <2>3, <2>4, <2>5 DEF MemInv
<1>21. RowsInv'
  <2>1. \A s \in Session : Family(txn'[s]) = {}
    BY <1>1, <1>2, <1>3 DEF ActiveInv
  <2>2. \A x \in page'.ids : clog'.st[x] # "InProgress"
    BY <1>1, <1>3 DEF Ground
  <2>3. \A x \in Xid : x \in page'.ids <=> Live(Len(wal), x)'
    BY <1>3, <1>8 DEF Live, InsertAt, PruneAt
  <2> QED  BY <1>2, <1>3, <2>1, <2>2, <2>3 DEF RowsInv, Family
<1> QED  BY <1>14, <1>15, <1>16, <1>18, <1>19, <1>20, <1>21 DEF SettleInv

-----------------------------------------------------------------------------
(* The theorems.                                                           *)

\* The first start finds an empty log and empty files.
LEMMA SettleInit ==
  ASSUME Init
  PROVE  SettleInv
<1>1. /\ wal = <<>> /\ meta.replay_floor = 0 /\ meta.durable_end = 0 /\ pending = {} /\ ~ poisoned
      /\ vacuum_floor = FIRST_NORMAL_XID /\ clog_file = NoClogFile
      /\ clog.floor = FIRST_NORMAL_XID /\ clog.st = [x \in Xid |-> "None"]
      /\ page.ids = {} /\ disk.ids = {} /\ disk.lsn = 0
      /\ next_xid = FIRST_NORMAL_XID /\ active = {} /\ mode = "up"
  BY DEF Init
<1>2. /\ vac.pc = "idle" /\ ckpt.pc = "idle"
      /\ \A s \in Session : Family(txn[s]) = {}
  BY FamilyFacts DEF Init, NoVacuum, NoCheckpoint
<1>3. DOMAIN wal = {}
  BY <1>1
<1>4. \A x : Settled(x) /\ Cleaned(x) /\ \A n : ~ Live(n, x)
  BY <1>3 DEF Settled, Cleaned, Live
<1>5. /\ clog_file.floor = FIRST_NORMAL_XID /\ clog_file.vacuum_floor = FIRST_NORMAL_XID
      /\ \A x \in Xid : clog_file.st[x] = "None"
  BY <1>1 DEF NoClogFile
<1>6. FIRST_NORMAL_XID \in Nat /\ FIRST_NORMAL_XID <= FIRST_NORMAL_XID /\ FIRST_NORMAL_XID - 1 < FIRST_NORMAL_XID
  BY DEF FIRST_NORMAL_XID
<1>7. Floor(FIRST_NORMAL_XID) /\ Anchored(FIRST_NORMAL_XID)
  BY <1>1, <1>4, <1>6 DEF Floor, Anchored
<1>8. ActiveInv
  BY <1>1, <1>2 DEF ActiveInv
<1>9. LowInv
  BY <1>1, <1>3 DEF LowInv
<1>10. AskInv
  BY <1>1, <1>3 DEF AskInv, NoResurrection
<1>11. FileInv
  <2>1. SnapshotFloor(clog_file)
    BY <1>3, <1>5, <1>7 DEF SnapshotFloor
  <2>2. NamedAfter(meta.replay_floor, clog_file.floor - 1)
    BY <1>5, <1>6 DEF NamedAfter
  <2> QED  BY <1>1, <1>4, <2>1, <2>2 DEF FileInv, DiskLive
<1>12. CkptInv
  BY <1>2 DEF CkptInv, Taken
<1>13. VacInv
  BY <1>2 DEF VacInv
<1>14. MemInv
  BY <1>1, <1>3, <1>4, <1>6, <1>7 DEF MemInv
<1>15. RowsInv
  BY <1>1, <1>2, <1>4 DEF RowsInv
<1> QED  BY <1>8, <1>9, <1>10, <1>11, <1>12, <1>13, <1>14, <1>15 DEF SettleInv

\* A step that changes nothing.
LEMMA StutterSettles ==
  ASSUME SettleInv, UNCHANGED vars
  PROVE  SettleInv'
<1>1. UNCHANGED <<wal, meta, pending, poisoned, clog, vacuum_floor, clog_file, page, disk,
                  next_xid, active, txn, vac, ckpt, mode, client>>
  BY DEF vars
<1>2. /\ \A x : /\ Committed(x)' <=> Committed(x)
                /\ Settled(x)' <=> Settled(x)
                /\ Cleaned(x)' <=> Cleaned(x)
                /\ Logged(x)' <=> Logged(x)
                /\ InUse(x)' <=> InUse(x)
      /\ \A x, n : (Live(n, x)' <=> Live(n, x)) /\ (NamedAfter(x, n)' <=> NamedAfter(x, n))
      /\ \A n : Anchored(n)' <=> Anchored(n)
      /\ \A i : Names(i)' = Names(i)
      /\ Up' <=> Up
  BY <1>1 DEF Committed, Settled, Cleaned, Logged, InUse, Live, NamedAfter, Anchored, Names, Up,
              CommitAt, InsertAt, PruneAt
<1>3. \A n : Floor(n)' <=> Floor(n)
  BY <1>1, <1>2 DEF Floor
<1>4. \A f : SnapshotFloor(f)' <=> SnapshotFloor(f)
  BY <1>1, <1>2, <1>3 DEF SnapshotFloor, InsertAt
<1>5. ActiveInv'
  BY <1>1 DEF SettleInv, ActiveInv
<1>6. LowInv'
  BY <1>1, <1>2 DEF SettleInv, LowInv
<1>7. AskInv'
  BY <1>1, <1>2 DEF SettleInv, AskInv, NoResurrection, CommitAt
<1>8. FileInv'
  BY <1>1, <1>2, <1>4 DEF SettleInv, FileInv, DiskLive
<1>9. CkptInv'
  BY <1>1, <1>2, <1>4 DEF SettleInv, CkptInv
<1>10. VacInv'
  BY <1>1, <1>2 DEF SettleInv, VacInv, Maintained
<1>11. MemInv'
  BY <1>1, <1>2, <1>3 DEF SettleInv, MemInv, InsertAt
<1>12. RowsInv'
  BY <1>1, <1>2 DEF SettleInv, RowsInv
<1> QED  BY <1>5, <1>6, <1>7, <1>8, <1>9, <1>10, <1>11, <1>12 DEF SettleInv

\* A step of a session.
LEMMA SessionSettles ==
  ASSUME OrderInv, OrderInv', CommitInv, SettleInv, Races = {}, NEW s \in Session,
         \/ Begin(s) \/ Savepoint(s) \/ Insert(s) \/ RollbackTo(s) \/ Abort(s)
         \/ EndReadOnly(s) \/ CommitAppend(s) \/ CommitFlush(s) \/ CommitFlushFails(s)
         \/ CommitSettle(s) \/ NextvalAppend(s) \/ NextvalReturn(s) \/ NextvalFails(s)
  PROVE  SettleInv'
BY BeginSettles, SavepointSettles, InsertSettles, RollbackToSettles, AbortSettles,
   EndReadOnlySettles, CommitAppendSettles, CommitFlushSettles, CommitSettleSettles,
   NextvalAppendSettles, NextvalReturnSettles

\* Every step keeps what the floors rest on.
LEMMA SettleStep ==
  ASSUME OrderInv, SeqInv, CommitInv, SettleInv, Races = {}, [Next]_vars
  PROVE  SettleInv'
<1>1. OrderInv'
  BY OrderStep
<1>2. CASE \E s \in Session :
             \/ Begin(s) \/ Savepoint(s) \/ Insert(s) \/ RollbackTo(s) \/ Abort(s)
             \/ EndReadOnly(s) \/ CommitAppend(s) \/ CommitFlush(s) \/ CommitFlushFails(s)
             \/ CommitSettle(s) \/ NextvalAppend(s) \/ NextvalReturn(s) \/ NextvalFails(s)
  BY <1>1, <1>2, SessionSettles
<1>3. CASE \/ VacuumBegin \/ VacuumCommit \/ VacuumFlush \/ VacuumFlushFails \/ VacuumAbort
           \/ VacuumPrune \/ VacuumFloor
  BY <1>1, <1>3, VacuumBeginSettles, VacuumCommitSettles, VacuumFlushSettles, VacuumAbortSettles,
     VacuumPruneSettles, VacuumFloorSettles
<1>4. CASE WritePage \/ WritePageFails
  BY <1>1, <1>4, WritePageSettles
<1>5. CASE \/ CkptBoundary \/ CkptEnd \/ CkptMarker \/ CkptFlush \/ CkptSnapshot
           \/ CkptWriteClog \/ CkptControl \/ CkptRecycle \/ CkptFails
  BY <1>1, <1>5, CkptBoundarySettles, CkptEndSettles, CkptMarkerSettles, CkptFlushSettles,
     CkptSnapshotSettles, CkptWriteClogSettles, CkptControlSettles, CkptEndsSettles
<1>6. CASE Crash \/ ExitUnknown
  BY <1>1, <1>6, DownSettles
<1>7. CASE Restart
  BY <1>1, <1>7, RestartSettles
<1>8. CASE UNCHANGED vars
  BY <1>8, StutterSettles
<1> QED  BY <1>2, <1>3, <1>4, <1>5, <1>6, <1>7, <1>8 DEF Next

(***************************************************************************)
(* No row version reads as committed unless its client asked for the       *)
(* commit: neither the floor of the commit log (Clog::live_snapshot,       *)
(* prune_to) nor the floor recovery rebuilds ever passes a version of an   *)
(* aborted, a running or a crashed transaction, wherever a crash struck.   *)
(* The two windows of Races, whose outcomes the runs show, are closed.     *)
(***************************************************************************)
THEOREM NoAbortResurrected ==
  ASSUME Races = {}
  PROVE  Spec => []NoResurrection
<1> DEFINE Inv == OrderInv /\ SeqInv /\ CommitInv /\ SettleInv
<1>1. Init => Inv
  BY OrderInit, SeqInit, CommitInit, SettleInit
<1>2. Inv /\ [Next]_vars => Inv'
  BY OrderStep, SeqStep, CommitStep, SettleStep
<1>3. Inv => NoResurrection
  BY DEF SettleInv, AskInv
<1> QED  BY <1>1, <1>2, <1>3, PTL DEF Spec

\* The id the allocator hands out next: no record, no row version and no commit names it.
LEMMA NextFresh ==
  ASSUME OrderInv, SettleInv, Up, next_xid \in Xid
  PROVE  /\ next_xid \notin page.ids /\ next_xid \notin disk.ids
         /\ status(clog, next_xid) # "Committed"
<1>1. Ground /\ LowInv /\ AskInv /\ FileInv /\ MemInv
  BY GroundFacts DEF SettleInv
<1>2. next_xid \in Nat /\ clog.floor \in Nat /\ next_xid >= FIRST_NORMAL_XID
  BY <1>1, XidNat DEF Ground
<1>3. \A i \in DOMAIN wal : next_xid \notin Names(i)
  BY <1>1, <1>2 DEF LowInv
<1>4. next_xid \notin page.ids
  BY <1>1, <1>2 DEF LowInv
<1>5. \A i \in DOMAIN wal : ~ InsertAt(i, next_xid) /\ ~ CommitAt(i, next_xid)
  BY <1>3 DEF InsertAt, CommitAt, Names
<1>6. next_xid \notin disk.ids
  BY <1>1, <1>5 DEF FileInv, DiskLive, Live
<1>7. clog.st[next_xid] # "Committed"
  BY <1>1, <1>5 DEF AskInv, Committed
<1>8. ~ next_xid < clog.floor
  BY <1>1, <1>2 DEF MemInv, Floor
<1>9. ~ next_xid < FIRST_NORMAL_XID
  BY <1>2 DEF FIRST_NORMAL_XID
<1> QED  BY <1>4, <1>6, <1>7, <1>8, <1>9 DEF status

\* Only an allocation registers an id.
LEMMA Registers ==
  ASSUME Next
  PROVE  \/ active' \subseteq active
         \/ Allocate /\ (mode = "up" \/ \E s \in Session : txn[s].pc = "open")
<1>1. ASSUME NEW s \in Session, Begin(s) \/ Savepoint(s)
      PROVE  Allocate /\ (mode = "up" \/ \E r \in Session : txn[r].pc = "open")
  BY <1>1 DEF Begin, Savepoint
<1>2. CASE VacuumBegin
  BY <1>2 DEF VacuumBegin
<1>3. ASSUME NEW s \in Session,
             \/ Insert(s) \/ RollbackTo(s) \/ Abort(s)
             \/ EndReadOnly(s) \/ CommitAppend(s) \/ CommitFlush(s) \/ CommitFlushFails(s)
             \/ CommitSettle(s) \/ NextvalAppend(s) \/ NextvalReturn(s) \/ NextvalFails(s)
      PROVE  active' \subseteq active
  BY <1>3 DEF Insert, RollbackTo, Abort, AbortFamily, EndReadOnly, CommitAppend, CommitFlush,
              CommitFlushFails, CommitSettle, NextvalAppend, NextvalReturn, NextvalFails
<1>4. CASE \/ VacuumCommit \/ VacuumFlush \/ VacuumFlushFails \/ VacuumAbort
           \/ VacuumPrune \/ VacuumFloor \/ WritePage \/ WritePageFails
  BY <1>4 DEF VacuumCommit, VacuumFlush, VacuumFlushFails, VacuumAbort, VacuumPrune, VacuumFloor,
              WritePage, WritePageFails
<1>5. CASE \/ CkptBoundary \/ CkptEnd \/ CkptMarker \/ CkptFlush \/ CkptSnapshot
           \/ CkptWriteClog \/ CkptControl \/ CkptRecycle \/ CkptFails
  BY <1>5 DEF CkptBoundary, CkptEnd, CkptMarker, CkptFlush, CkptSnapshot, CkptWriteClog,
              CkptControl, CkptRecycle, CkptFails, CkptOnly
<1>6. CASE Crash \/ ExitUnknown \/ Restart
  BY <1>6 DEF Crash, ExitUnknown, Down, Restart
<1> QED  BY <1>1, <1>2, <1>3, <1>4, <1>5, <1>6 DEF Next

(***************************************************************************)
(* An id handed out carries nothing of an earlier transaction: no row      *)
(* version in the pool or in the page file and no commit in the commit     *)
(* log, although recovery restarts the allocator from the retained part of *)
(* the log alone (register_active_txn, next_txn_id).                       *)
(***************************************************************************)
THEOREM IdsHandedOutFresh ==
  ASSUME Races = {}
  PROVE  Spec => IdsFresh
<1> DEFINE Inv == OrderInv /\ SeqInv /\ CommitInv /\ SettleInv
           Fresh == \A x \in active' \ active :
                      /\ x \notin page.ids /\ x \notin disk.ids
                      /\ status(clog, x) # "Committed"
<1>1. Init => Inv
  BY OrderInit, SeqInit, CommitInit, SettleInit
<1>2. Inv /\ [Next]_vars => Inv'
  BY OrderStep, SeqStep, CommitStep, SettleStep
<1>3. ASSUME Inv, Next PROVE Fresh
  <2>1. CASE active' \subseteq active
    BY <2>1
  <2>2. CASE Allocate /\ (mode = "up" \/ \E s \in Session : txn[s].pc = "open")
    <3>1. ActorTypes /\ IdsInv /\ ActiveInv
      BY <1>3 DEF OrderInv, Types, CommitInv, SettleInv
    <3>2. next_xid \in Xid /\ active' = active \cup {next_xid}
      BY <2>2, <3>1, AllocateFacts
    <3>3. Up
      BY <1>3, <2>2, <3>1, RunningUp DEF Up
    <3> QED  BY <1>3, <3>2, <3>3, NextFresh
  <2> QED  BY <1>3, <2>1, <2>2, Registers
<1>4. Inv /\ [Next]_vars => [Fresh]_vars
  BY <1>3
<1> QED  BY <1>1, <1>2, <1>4, PTL DEF Spec, IdsFresh

=============================================================================
