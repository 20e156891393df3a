------------------------- MODULE LockManagerProofs -------------------------
(***************************************************************************)
(* Proofs about LockManager: its types, the compatibility of granted       *)
(* modes, that captured grants can always be restored, that nothing of an  *)
(* owner outlives its guard, that the recorded wait-for graph misses no    *)
(* real wait, and that statement owners never deadlock among themselves,   *)
(* for every set of owners, resources and modes asked for, any queue       *)
(* length and any savepoint depth.                                         *)
(***************************************************************************)
EXTENDS LockManager, SequenceTheorems, WellFoundedInduction, TLAPS

(* The compatibility tables of every kind of resource are symmetric, as    *)
(* the matrices of table-locks.md claim: it does not matter which of the   *)
(* two modes is the held one.                                              *)
LEMMA CompatibleSymmetric ==
    ASSUME NEW kind \in Kinds,
           NEW a \in ModesOf(kind), NEW b \in ModesOf(kind),
           compatible(kind, a, b)
    PROVE  compatible(kind, b, a)
BY DEF Kinds, ModesOf, compatible, relation_compatible, tuple_compatible,
       AccessShare, RowShare, RowExclusive, Share, AccessExclusive, Access,
       Exclusive, KeyShare, TupleShare, NoKeyUpdate, Update

(* A weaker mode is compatible with whatever a stronger mode is compatible *)
(* with: restoring a covered snapshot never creates a conflict.            *)
LEMMA CompatibleWeaker ==
    ASSUME NEW kind \in Kinds,
           NEW a \in ModesOf(kind), NEW b \in ModesOf(kind),
           NEW c \in ModesOf(kind),
           covers(a, b), compatible(kind, a, c)
    PROVE  compatible(kind, b, c)
BY DEF Kinds, ModesOf, compatible, relation_compatible, tuple_compatible,
       AccessShare, RowShare, RowExclusive, Share, AccessExclusive, Access,
       Exclusive, KeyShare, TupleShare, NoKeyUpdate, Update, covers

-----------------------------------------------------------------------------
(* Types                                                                   *)

(* The modes of a resource are modes, NoMode among them, and are closed    *)
(* under strongest.                                                        *)
LEMMA GrantModesFacts ==
    ASSUME NEW r \in Resource
    PROVE  /\ KindOf[r] \in Kinds
           /\ GrantModes(r) \subseteq Modes
           /\ NoMode \in GrantModes(r)
           /\ NoMode \in Modes
           /\ ModesOf(KindOf[r]) \subseteq GrantModes(r)
           /\ \A a, b \in GrantModes(r) : strongest(a, b) \in GrantModes(r)
BY KindAssumption DEF GrantModes, Modes, ModesOf, NoMode, Kinds, strongest,
       AccessShare, AccessExclusive, Access, Exclusive, KeyShare, Update

(* A snapshot of an owner's grants, entry by entry.                        *)
LEMMA SnapshotsFacts ==
    ASSUME NEW f
    PROVE  f \in Snapshots <=> /\ f \in [Resource -> Modes]
                               /\ \A r \in Resource : f[r] \in GrantModes(r)
BY DEF Snapshots

(* Asking for nothing is a well-typed request.                             *)
LEMMA NoRequestType == NoRequest \in Snapshots
BY GrantModesFacts, SnapshotsFacts DEF NoRequest

(* What TypeOK says of the grants, per entry.                              *)
GrantsTyped(g) ==
    /\ g \in [Resource -> [Owner -> Modes]]
    /\ \A r \in Resource, o \in Owner : g[r][o] \in GrantModes(r)

(* TypeOK on the grants, per entry.                                        *)
LEMMA GrantsTypedFromTypeOK == TypeOK => GrantsTyped(grants)
<1> SUFFICES ASSUME TypeOK PROVE GrantsTyped(grants)
    OBVIOUS
<1>1. ASSUME NEW r \in Resource, NEW o \in Owner
      PROVE  grants[r][o] \in GrantModes(r)
  <2>1. owner_snapshot(o) \in Snapshots
    BY DEF TypeOK
  <2>2. owner_snapshot(o)[r] \in GrantModes(r)
    BY <2>1, SnapshotsFacts
  <2> QED BY <2>2 DEF owner_snapshot
<1> QED BY <1>1 DEF GrantsTyped, TypeOK

(* Typed grants give typed snapshots after the step too.                   *)
LEMMA GrantsTypedSnapshots ==
    ASSUME GrantsTyped(grants)'
    PROVE  /\ (grants \in [Resource -> [Owner -> Modes]])'
           /\ (\A o \in Owner : owner_snapshot(o) \in Snapshots)'
<1>1. ASSUME NEW o \in Owner PROVE owner_snapshot(o)' \in Snapshots
  <2>1. owner_snapshot(o)' \in [Resource -> Modes]
    BY DEF owner_snapshot, GrantsTyped
  <2>2. \A r \in Resource : owner_snapshot(o)'[r] \in GrantModes(r)
    BY DEF owner_snapshot, GrantsTyped
  <2> QED BY <2>1, <2>2, SnapshotsFacts
<1> QED BY <1>1 DEF GrantsTyped

(* Withdrawing a request leaves a queue of owners.                         *)
LEMMA RemoveRequestType ==
    ASSUME NEW q \in Seq(Owner), NEW o
    PROVE  remove_request(q, o) \in Seq(Owner)
<1>1. CASE \E i \in 1 .. Len(q) : q[i] = o
  <2> DEFINE i == CHOOSE i \in 1 .. Len(q) : q[i] = o
             f == [j \in 1 .. (Len(q) - 1) |-> IF j < i THEN q[j] ELSE q[j + 1]]
  <2>1. remove_request(q, o) = f
    BY <1>1 DEF remove_request
  <2>2. Len(q) \in Nat /\ Len(q) - 1 \in Nat
    BY <1>1
  <2>3. \A j \in 1 .. (Len(q) - 1) : f[j] \in Owner
    BY <2>2
  <2>4. f \in Seq(Owner)
    BY <2>2, <2>3, IsASeq
  <2> QED BY <2>1, <2>4
<1>2. CASE ~ \E i \in 1 .. Len(q) : q[i] = o
  BY <1>2 DEF remove_request
<1> QED BY <1>1, <1>2

(* TypeOK without its conjuncts on the grants.                             *)
TypeRest ==
    /\ pc \in [Owner -> Labels]
    /\ ops \in [Owner -> 0 .. MaxOps]
    /\ active_owners \subseteq Owner
    /\ waits_for \in [Owner -> SUBSET Owner]
    /\ queues \in [Resource -> Seq(Owner)]
    /\ pending \in [Owner -> Snapshots]
    /\ base \in [Owner -> Snapshots \cup {NoSnap}]
    /\ stack \in [Owner -> Seq(Levels)]
    /\ receipts \in [Owner -> Seq(Receipts)]
    /\ live \in [Owner -> SUBSET (0 .. MaxXid)]
    /\ wrote \subseteq Xid
    /\ blocker \in [Owner -> SUBSET Xid]

(* The two halves of TypeOK.                                               *)
LEMMA TypeOKSplit == TypeOK => TypeRest /\ GrantsTyped(grants)
BY GrantsTypedFromTypeOK DEF TypeOK, TypeRest

(* The two halves give TypeOK after the step.                              *)
LEMMA TypeOKJoin ==
    ASSUME TypeRest', GrantsTyped(grants)'
    PROVE  TypeOK'
BY GrantsTypedSnapshots DEF TypeOK, TypeRest

(* The initial state is well typed.                                        *)
LEMMA InitType == Init => TypeOK
<1> SUFFICES ASSUME Init PROVE TypeOK
    OBVIOUS
<1>1. \A o \in Owner : owner_snapshot(o) = NoRequest
  BY DEF Init, owner_snapshot, NoRequest
<1>2. grants \in [Resource -> [Owner -> Modes]]
  BY DEF Init, NoMode, Modes
<1>3. /\ ops \in [Owner -> 0 .. MaxOps]
      /\ stack \in [Owner -> Seq(Levels)]
      /\ receipts \in [Owner -> Seq(Receipts)]
      /\ queues \in [Resource -> Seq(Owner)]
  BY BoundsAssumption DEF Init
<1> QED BY <1>1, <1>2, <1>3, NoRequestType DEF Init, TypeOK, Labels

(* Replacing one pending mode keeps the requests typed.                    *)
LEMMA PendingServed ==
    ASSUME pending \in [Owner -> Snapshots], NEW o \in Owner,
           NEW r \in Resource, NEW m \in GrantModes(r)
    PROVE  [pending EXCEPT ![o][r] = m] \in [Owner -> Snapshots]
<1>1. pending[o] \in Snapshots
  OBVIOUS
<1>2. [pending[o] EXCEPT ![r] = m] \in Snapshots
  BY <1>1, SnapshotsFacts, GrantModesFacts
<1> QED BY <1>2

(* Granting a mode of the resource keeps the grants typed.                 *)
LEMMA GrantRaised ==
    ASSUME GrantsTyped(grants), NEW o \in Owner, NEW r \in Resource,
           NEW m \in GrantModes(r)
    PROVE  GrantsTyped([grants EXCEPT ![r][o] = strongest(@, m)])
BY GrantModesFacts DEF GrantsTyped

(* restore_owner keeps the grants typed.                                   *)
LEMMA GrantsRestored ==
    ASSUME GrantsTyped(grants), NEW o \in Owner, NEW snap \in Snapshots
    PROVE  GrantsTyped(RestoredGrants(o, snap))
BY SnapshotsFacts DEF GrantsTyped, RestoredGrants

(* release_owner keeps the grants typed.                                   *)
LEMMA GrantsReleased ==
    ASSUME GrantsTyped(grants), NEW o \in Owner
    PROVE  GrantsTyped([r \in Resource |-> [grants[r] EXCEPT ![o] = NoMode]])
BY GrantModesFacts DEF GrantsTyped

(* Blockers are owners.                                                    *)
LEMMA BlockersType ==
    ASSUME NEW r \in Resource, NEW o \in Owner, NEW m
    PROVE  request_blockers(r, o, m) \in SUBSET Owner
BY DEF request_blockers

(* A nonempty set of naturals has a least element: the first receipt to    *)
(* undo exists.                                                            *)
LEMMA FirstExists ==
    ASSUME NEW S \in SUBSET Nat, S # {}
    PROVE  \E j \in S : \A k \in S : j <= k
<1>1. PICK j \in S : \A k \in S : <<k, j>> \notin OpToRel(<, Nat)
  BY NatLessThanWellFounded, WFMin
<1>2. ASSUME NEW k \in S PROVE j <= k
  <2>1. <<k, j>> \in Nat \X Nat /\ j \in Nat /\ k \in Nat
    OBVIOUS
  <2>2. ~ (k < j)
    BY <1>1, <2>1 DEF OpToRel
  <2> QED BY <2>1, <2>2
<1> QED BY <1>2

(* Undoing tuple grants puts one of the receipts' previous modes back.     *)
LEMMA RestoreTuplesGrants ==
    ASSUME GrantsTyped(grants), receipts \in [Owner -> Seq(Receipts)],
           NEW o \in Owner, NEW i, RestoreTuples(o, i)
    PROVE  GrantsTyped(grants)'
<1> DEFINE undone(r) == {j \in i .. Len(receipts[o]) : receipts[o][j].res = r}
           first(r) == CHOOSE j \in undone(r) : \A k \in undone(r) : j <= k
<1>1. receipts[o] \in Seq(Receipts) /\ i \in 1 .. Len(receipts[o])
  BY DEF RestoreTuples
<1>2. ASSUME NEW r \in Resource, undone(r) # {}
      PROVE  receipts[o][first(r)].previous \in GrantModes(r)
  <2>1. undone(r) \in SUBSET Nat
    BY <1>1
  <2>2. first(r) \in undone(r)
    BY <1>2, <2>1, FirstExists
  <2>3. first(r) \in 1 .. Len(receipts[o]) /\ receipts[o][first(r)].res = r
    <3> HIDE DEF first
    <3> QED BY <1>1, <2>2
  <2>4. receipts[o][first(r)] \in Receipts
    <3> HIDE DEF first
    <3> QED BY <1>1, <2>3
  <2> QED BY <2>3, <2>4 DEF Receipts
<1>3. grants' = [r \in Resource |->
                    IF undone(r) = {} THEN grants[r]
                    ELSE [grants[r] EXCEPT
                            ![o] = receipts[o][first(r)].previous]]
  BY DEF RestoreTuples
<1> QED BY <1>2, <1>3, GrantModesFacts DEF GrantsTyped

(* Every step keeps the types.                                             *)
LEMMA TypeStep == TypeOK /\ [Next]_vars => TypeOK'
<1> SUFFICES ASSUME TypeRest, GrantsTyped(grants), [Next]_vars
             PROVE  TypeRest' /\ GrantsTyped(grants)'
    BY TypeOKSplit, TypeOKJoin
<1> USE DEF lmVars, sessVars, regVars, Goto, Spend, Labels
<1>0. <<>> \in Seq(Receipts) /\ <<>> \in Seq(Levels)
  OBVIOUS
<1>1. ASSUME NEW o \in Owner, NEW r \in Resource, Served(o, r)
      PROVE  /\ pending' \in [Owner -> Snapshots]
             /\ receipts' \in [Owner -> Seq(Receipts)]
             /\ pc' \in [Owner -> Labels]
  <2>1. pending' \in [Owner -> Snapshots]
    BY <1>1, PendingServed, GrantModesFacts DEF Served, TypeRest
  <2>2. [res |-> r, previous |-> grants[r][o]]
            \in Receipts
    BY GrantModesFacts DEF GrantsTyped, Receipts
  <2>3. receipts' \in [Owner -> Seq(Receipts)]
    BY <1>1, <2>2 DEF Served, TypeRest
  <2> QED BY <1>1, <2>1, <2>3 DEF Served, After, TypeRest
<1>2. ASSUME NEW o \in Owner, NEW r \in Resource, GrantRequest(o, r)
      PROVE  /\ GrantsTyped(grants)'
             /\ queues' \in [Resource -> Seq(Owner)]
             /\ waits_for' \in [Owner -> SUBSET Owner]
  <2>1. pending[o][r] \in GrantModes(r)
    BY SnapshotsFacts DEF TypeRest
  <2>2. GrantsTyped(grants)'
    BY <1>2, <2>1, GrantRaised DEF GrantRequest, GrantsTyped
  <2>3. queues' \in [Resource -> Seq(Owner)]
    BY <1>2, RemoveRequestType DEF GrantRequest, TypeRest
  <2> QED BY <1>2, <2>2, <2>3 DEF GrantRequest, TypeRest
<1>3. ASSUME NEW o \in Owner, Withdraw(o)
      PROVE  /\ pending' \in [Owner -> Snapshots]
             /\ queues' \in [Resource -> Seq(Owner)]
             /\ waits_for' \in [Owner -> SUBSET Owner]
  BY <1>3, NoRequestType, RemoveRequestType DEF Withdraw, TypeRest
<1>4. ASSUME NEW o \in Owner, release_owner(o)
      PROVE  /\ GrantsTyped(grants)'
             /\ active_owners' \subseteq Owner
             /\ queues' \in [Resource -> Seq(Owner)]
             /\ waits_for' \in [Owner -> SUBSET Owner]
  <2>1. GrantsTyped(grants)'
    BY <1>4, GrantsReleased DEF release_owner, GrantsTyped
  <2>2. queues' \in [Resource -> Seq(Owner)]
    BY <1>4, RemoveRequestType DEF release_owner, TypeRest
  <2> QED BY <1>4, <2>1, <2>2 DEF release_owner, TypeRest
<1>5. ASSUME NEW o \in Owner, NEW snap \in Snapshots, RestoreOwner(o, snap)
      PROVE  /\ GrantsTyped(grants)'
             /\ active_owners' \subseteq Owner
             /\ queues' \in [Resource -> Seq(Owner)]
             /\ waits_for' \in [Owner -> SUBSET Owner]
  <2>1. GrantsTyped(grants)'
    BY <1>5, GrantsRestored DEF RestoreOwner, GrantsTyped
  <2> QED BY <1>5, <2>1 DEF RestoreOwner, TypeRest
<1>6. ASSUME NEW o \in Owner, DropGuard(o)
      PROVE  /\ GrantsTyped(grants)'
             /\ active_owners' \subseteq Owner
             /\ queues' \in [Resource -> Seq(Owner)]
             /\ waits_for' \in [Owner -> SUBSET Owner]
  <2>1. CASE o \in active_owners
    BY <1>4, <1>6, <2>1 DEF DropGuard
  <2>2. CASE o \notin active_owners
    BY <1>6, <2>2 DEF DropGuard, TypeRest, GrantsTyped
  <2> QED BY <2>1, <2>2
<1>7. ASSUME NEW o \in Owner, NEW n, DeregisterFrom(o, n)
      PROVE  /\ live' \in [Owner -> SUBSET (0 .. MaxXid)]
             /\ wrote' \subseteq Xid
             /\ blocker' \in [Owner -> SUBSET Xid]
  BY <1>7 DEF DeregisterFrom, Settled, TypeRest, Owner
<1>8. ASSUME NEW o \in Owner, Lock(o) PROVE TypeRest' /\ GrantsTyped(grants)'
  <2>1. ASSUME NEW r \in Resource, AcquireCovered(o, r)
        PROVE  TypeRest' /\ GrantsTyped(grants)'
    BY <1>1, <2>1 DEF AcquireCovered, TypeRest, GrantsTyped
  <2>2. ASSUME NEW r \in Resource, AcquireFree(o, r)
        PROVE  TypeRest' /\ GrantsTyped(grants)'
    BY <1>1, <1>2, <2>2 DEF AcquireFree, TypeRest
  <2>3. ASSUME NEW r \in Resource, AcquirePark(o, r)
        PROVE  TypeRest' /\ GrantsTyped(grants)'
    <3>1. queues' \in [Resource -> Seq(Owner)]
      BY <2>3 DEF AcquirePark, TypeRest
    <3> QED BY <2>3, <3>1, BlockersType DEF AcquirePark, TypeRest, GrantsTyped
  <2>4. ASSUME NEW r \in Resource, WakeGrant(o, r)
        PROVE  TypeRest' /\ GrantsTyped(grants)'
    BY <1>1, <1>2, <2>4 DEF WakeGrant, TypeRest
  <2>5. ASSUME NEW r \in Resource, WakePark(o, r)
        PROVE  TypeRest' /\ GrantsTyped(grants)'
    BY <2>5, BlockersType DEF WakePark, TypeRest, GrantsTyped
  <2>6. CASE DetectDeadlock(o)
    BY <1>3, <2>6 DEF DetectDeadlock, TypeRest, GrantsTyped
  <2>7. CASE CancelAcquire(o)
    BY <1>3, <2>7 DEF CancelAcquire, TypeRest, GrantsTyped
  <2> QED BY <1>8, <2>1, <2>2, <2>3, <2>4, <2>5, <2>6, <2>7 DEF Lock
<1>9. ASSUME NEW o \in Owner, Session(o) PROVE TypeRest' /\ GrantsTyped(grants)'
  <2>1. CASE Begin(o)
    <3>1. live' \in [Owner -> SUBSET (0 .. MaxXid)]
      BY <2>1, BoundsAssumption DEF Begin, TypeRest
    <3>2. ops' \in [Owner -> 0 .. MaxOps]
      BY <2>1, BoundsAssumption DEF Begin, TypeRest
    <3> QED BY <2>1, <3>1, <3>2 DEF Begin, TypeRest, GrantsTyped
  <2>2. ASSUME NEW batch \in Batches, StartStatement(o, batch)
        PROVE  TypeRest' /\ GrantsTyped(grants)'
    <3>1. batch \in Snapshots
      BY DEF Batches
    <3>2. owner_snapshot(o) \in Snapshots
      BY SnapshotsFacts DEF owner_snapshot, GrantsTyped
    <3>3. ops' \in [Owner -> 0 .. MaxOps]
      BY <2>2, BoundsAssumption DEF StartStatement, TypeRest
    <3> QED BY <2>2, <3>1, <3>2, <3>3 DEF StartStatement, TypeRest, GrantsTyped
  <2>3. ASSUME NEW batch \in Batches, Rebind(o, batch)
        PROVE  TypeRest' /\ GrantsTyped(grants)'
    <3>1. batch \in Snapshots /\ base[o] \in Snapshots
      BY <2>3 DEF Batches, Rebind, TypeRest
    <3>2. ops' \in [Owner -> 0 .. MaxOps]
      BY <2>3, BoundsAssumption DEF Rebind, TypeRest
    <3> QED BY <1>5, <2>3, <3>1, <3>2 DEF Rebind, TypeRest
  <2>4. CASE Execute(o)
    BY <2>4 DEF Execute, TypeRest, GrantsTyped
  <2>5. CASE RestorePrior(o)
    <3>1. base[o] \in Snapshots
      BY <2>5 DEF RestorePrior, TypeRest
    <3> QED BY <1>5, <2>5, <3>1 DEF RestorePrior, TypeRest
  <2>6. ASSUME NEW l \in {"idle", "failed"}, EndStatement(o, l)
        PROVE  TypeRest' /\ GrantsTyped(grants)'
    BY <1>0, <2>6 DEF EndStatement, TypeRest, GrantsTyped
  <2>7. CASE Deregister(o)
    BY <1>0, <1>7, <2>7 DEF Deregister, TypeRest, GrantsTyped
  <2>8. CASE ReleaseOwner(o)
    <3>1. ops' \in [Owner -> 0 .. MaxOps]
      BY <2>8, BoundsAssumption DEF ReleaseOwner, TypeRest
    <3> QED BY <1>6, <2>8, <3>1 DEF ReleaseOwner, TypeRest
  <2> QED BY <1>9, <2>1, <2>2, <2>3, <2>4, <2>5, <2>6, <2>7, <2>8 DEF Session
<1>10. ASSUME NEW o \in Txn, Row(o) PROVE TypeRest' /\ GrantsTyped(grants)'
  <2> o \in Owner
    BY DEF Owner
  <2>0. Spend(o) => ops' \in [Owner -> 0 .. MaxOps]
    BY BoundsAssumption DEF TypeRest
  <2>1. ASSUME NEW x \in wrote, RowWait(o, x)
        PROVE  TypeRest' /\ GrantsTyped(grants)'
    <3>1. x \in Xid /\ x[1] \in Owner
      BY DEF TypeRest, Xid, Owner
    <3> QED BY <2>0, <2>1, <3>1 DEF RowWait, TypeRest, GrantsTyped
  <2>2. ASSUME NEW l \in {"exec", "victim", "failed"}, RowLeave(o, l)
        PROVE  TypeRest' /\ GrantsTyped(grants)'
    BY <2>2 DEF RowLeave, TypeRest, GrantsTyped
  <2>3. ASSUME NEW r \in Resource, NEW m \in Menu[r], TupleLock(o, r, m)
        PROVE  TypeRest' /\ GrantsTyped(grants)'
    <3>1. m \in GrantModes(r)
      BY MenuAssumption, GrantModesFacts
    <3>2. pending' \in [Owner -> Snapshots]
      BY <2>3, <3>1, PendingServed DEF TupleLock, TypeRest
    <3> QED BY <2>0, <2>3, <3>2 DEF TupleLock, TypeRest, GrantsTyped
  <2>4. ASSUME NEW r \in Resource, NEW m \in Menu[r], NEW policy,
               TupleTry(o, r, m, policy)
        PROVE  TypeRest' /\ GrantsTyped(grants)'
    <3>1. m \in GrantModes(r)
      BY MenuAssumption, GrantModesFacts
    <3>2. GrantsTyped([grants EXCEPT ![r][o] = strongest(@, m)])
      BY <3>1, GrantRaised
    <3>3. GrantsTyped(grants)'
      BY <2>4, <3>2 DEF TupleTry, GrantsTyped
    <3>4. [res |-> r, previous |-> grants[r][o]] \in Receipts
      BY GrantModesFacts DEF GrantsTyped, Receipts
    <3>5. receipts' \in [Owner -> Seq(Receipts)]
      BY <2>4, <3>4 DEF TupleTry, TypeRest
    <3> QED BY <2>0, <2>4, <3>3, <3>5 DEF TupleTry, TypeRest
  <2>5. ASSUME NEW i, RestoreTuples(o, i)
        PROVE  TypeRest' /\ GrantsTyped(grants)'
    <3>1. receipts[o] \in Seq(Receipts) /\ i \in 1 .. Len(receipts[o])
      BY <2>5 DEF RestoreTuples, TypeRest
    <3>2. receipts' \in [Owner -> Seq(Receipts)]
      BY <2>5, <3>1, SubSeqProperties DEF RestoreTuples, TypeRest
    <3>3. GrantsTyped(grants)'
      BY <2>5, RestoreTuplesGrants DEF TypeRest
    <3> QED BY <2>5, <3>2, <3>3 DEF RestoreTuples, TypeRest
  <2>6. CASE WriteRow(o)
    <3>1. writing_xid(o) \in 0 .. MaxXid
      <4>1. stack[o] # <<>> => stack[o][Len(stack[o])] \in Levels
        BY DEF TypeRest
      <4> QED BY <4>1, BoundsAssumption DEF writing_xid, Levels
    <3> QED BY <2>0, <2>6, <3>1 DEF WriteRow, TypeRest, GrantsTyped, Xid
  <2> QED BY <1>10, <2>1, <2>2, <2>3, <2>4, <2>5, <2>6
          DEF Row, RowProceed, RowDetect, RowCancel
<1>11. ASSUME NEW o \in Txn, Savepoints(o) PROVE TypeRest' /\ GrantsTyped(grants)'
  <2> o \in Owner
    BY DEF Owner
  <2>0. /\ Spend(o) => ops' \in [Owner -> 0 .. MaxOps]
        /\ stack[o] \in Seq(Levels)
        /\ \A n \in 1 .. MaxXid : n \in 0 .. MaxXid
    BY BoundsAssumption DEF TypeRest
  <2>1. ASSUME NEW n \in 1 .. MaxXid, Savepoint(o, n)
        PROVE  TypeRest' /\ GrantsTyped(grants)'
    <3>1. owner_snapshot(o) \in Snapshots
      BY SnapshotsFacts DEF owner_snapshot, GrantsTyped
    <3>4. [xid |-> n, snap |-> IF o \in active_owners THEN owner_snapshot(o)
                               ELSE NoSnap] \in Levels
      BY <2>0, <3>1 DEF Levels
    <3>2. stack' \in [Owner -> Seq(Levels)]
      BY <2>0, <2>1, <3>4 DEF Savepoint, TypeRest
    <3>3. live' \in [Owner -> SUBSET (0 .. MaxXid)]
      BY <2>0, <2>1 DEF Savepoint, TypeRest
    <3> QED BY <2>0, <2>1, <3>2, <3>3 DEF Savepoint, TypeRest, GrantsTyped
  <2>2. ASSUME NEW n \in 1 .. MaxXid, RollbackRestore(o, n)
        PROVE  TypeRest' /\ GrantsTyped(grants)'
    <3> DEFINE top == Len(stack[o])
               snap == stack[o][top].snap
    <3>1. top \in 1 .. Len(stack[o]) /\ stack[o][top] \in Levels
      BY <2>0, <2>2 DEF RollbackRestore
    <3>7. [stack[o][top] EXCEPT !.xid = n] \in Levels
      BY <2>0, <3>1 DEF Levels
    <3>2. /\ [stack[o] EXCEPT ![top].xid = n] \in Seq(Levels)
          /\ SubSeq(stack[o], 1, top - 1) \in Seq(Levels)
      BY <2>0, <3>1, <3>7, SubSeqProperties
    <3>3. stack' \in [Owner -> Seq(Levels)]
      BY <2>0, <2>2, <3>2 DEF RollbackRestore, TypeRest
    <3>4. live' \in [Owner -> SUBSET (0 .. MaxXid)]
      BY <2>0, <2>2 DEF RollbackRestore, TypeRest
    <3>5. /\ GrantsTyped(grants)'
          /\ active_owners' \subseteq Owner
          /\ queues' \in [Resource -> Seq(Owner)]
          /\ waits_for' \in [Owner -> SUBSET Owner]
      <4>1. CASE DropGuard(o)
        BY <1>6, <4>1
      <4>2. CASE snap # NoSnap /\ RestoreOwner(o, snap)
        <5>1. snap \in Snapshots
          BY <3>1, <4>2 DEF Levels
        <5> QED BY <1>5, <4>2, <5>1
      <4>3. CASE UNCHANGED lmVars
        BY <4>3 DEF TypeRest, GrantsTyped
      <4> QED BY <2>2, <4>1, <4>2, <4>3 DEF RollbackRestore
    <3>6. pc' \in [Owner -> Labels]
      BY <2>2 DEF RollbackRestore, TypeRest
    <3> QED BY <2>2, <3>3, <3>4, <3>5, <3>6 DEF RollbackRestore, TypeRest
  <2>3. ASSUME NEW i \in 1 .. MaxSave, ReleaseSavepoint(o, i)
        PROVE  TypeRest' /\ GrantsTyped(grants)'
    <3>1. SubSeq(stack[o], 1, i - 1) \in Seq(Levels)
      BY <2>0, <2>3, SubSeqProperties DEF ReleaseSavepoint
    <3> QED BY <2>0, <2>3, <3>1 DEF ReleaseSavepoint, TypeRest, GrantsTyped
  <2>4. ASSUME NEW i \in 1 .. MaxSave, RollbackTo(o, i)
        PROVE  TypeRest' /\ GrantsTyped(grants)'
    <3>1. SubSeq(stack[o], 1, i) \in Seq(Levels)
      BY <2>0, <2>4, SubSeqProperties DEF RollbackTo
    <3> QED BY <1>0, <1>7, <2>0, <2>4, <3>1 DEF RollbackTo, TypeRest, GrantsTyped
  <2> QED BY <1>11, <2>1, <2>2, <2>3, <2>4 DEF Savepoints
<1>12. CASE UNCHANGED vars
  BY <1>12 DEF vars, TypeRest, GrantsTyped
<1> QED BY <1>8, <1>9, <1>10, <1>11, <1>12 DEF Next

(* The type invariant holds for every choice of the constants: whatever    *)
(* the interleaving, the manager only holds, queues and restores modes of  *)
(* the resource's own kind.                                                *)
THEOREM TypeCorrect == Spec => []TypeOK
BY InitType, TypeStep, PTL DEF Spec

-----------------------------------------------------------------------------
(* Compatibility of the grants                                             *)
(*                                                                         *)
(* GrantsCompatible is not inductive: undoing tuple locks writes modes     *)
(* remembered in the receipts, which are safe only because they are no     *)
(* stronger than what the owner holds now.  Ordered says so, and Quiet     *)
(* that the owner's grants are not lowered by other means while receipts   *)
(* are outstanding.                                                        *)

(* The receipts of the running statement are empty outside its execution   *)
(* and while an object-lock batch is in progress; a tuple request is alone.*)
Quiet(o) ==
    /\ pc[o] \in {"none", "idle", "locked", "rolling", "ending"}
          => receipts[o] = <<>>
    /\ base[o] # NoSnap => receipts[o] = <<>>
    /\ pc[o] \in {"exec", "rowwait"} => base[o] = NoSnap
    /\ pc[o] \notin {"acquiring", "waiting"} => pending[o] = NoRequest
    /\ \A r \in Resource : pending[o][r] # NoMode =>
          IF KindOf[r] = "tuple"
          THEN base[o] = NoSnap /\ \A s \in Resource \ {r} :
                                      pending[o][s] = NoMode
          ELSE receipts[o] = <<>>

(* A receipt remembers a mode no stronger than the owner's grant, and the  *)
(* receipts of one tuple remember ever stronger modes.                     *)
Ordered(o) ==
    \A j \in 1 .. Len(receipts[o]) :
        /\ receipts[o][j].previous <= grants[receipts[o][j].res][o]
        /\ \A k \in 1 .. Len(receipts[o]) :
              (j <= k /\ receipts[o][j].res = receipts[o][k].res)
                  => receipts[o][j].previous <= receipts[o][k].previous

CompatInv ==
    /\ TypeOK
    /\ GrantsCompatible
    /\ \A o \in Owner : Quiet(o) /\ Ordered(o)

(* What every step of owner o does to the grants: those of others stay,    *)
(* and each of its own is lowered or compatible with those of the others.  *)
OnlyOwner(o) ==
    \A p \in Owner \ {o} :
        /\ pc'[p] = pc[p] /\ pending'[p] = pending[p]
        /\ base'[p] = base[p] /\ receipts'[p] = receipts[p]
        /\ \A r \in Resource : grants'[r][p] = grants[r][p]

Safe(o) ==
    \A r \in Resource :
        \/ grants'[r][o] <= grants[r][o]
        \/ \A p \in Owner \ {o} : grants[r][p] # NoMode =>
              compatible(KindOf[r], grants'[r][o], grants[r][p])

(* Such a step keeps the grants compatible.                                *)
LEMMA SafeStep ==
    ASSUME GrantsTyped(grants), GrantsTyped(grants)', GrantsCompatible,
           NEW o \in Owner, OnlyOwner(o), Safe(o)
    PROVE  GrantsCompatible'
<1>1. ASSUME NEW r \in Resource, NEW p \in Owner \ {o},
             grants'[r][o] # NoMode, grants[r][p] # NoMode
      PROVE  /\ compatible(KindOf[r], grants'[r][o], grants[r][p])
             /\ compatible(KindOf[r], grants[r][p], grants'[r][o])
  <2>1. /\ KindOf[r] \in Kinds
        /\ grants'[r][o] \in ModesOf(KindOf[r])
        /\ grants[r][p] \in ModesOf(KindOf[r])
        /\ grants[r][o] \in ModesOf(KindOf[r]) \cup {NoMode}
    BY <1>1, KindAssumption DEF GrantsTyped, GrantModes
  <2>2. CASE grants'[r][o] <= grants[r][o]
    <3>1. grants[r][o] # NoMode /\ covers(grants[r][o], grants'[r][o])
      BY <1>1, <2>1, <2>2 DEF covers, ModesOf, NoMode, AccessShare,
         AccessExclusive, Access, Exclusive, KeyShare, Update
    <3>2. compatible(KindOf[r], grants[r][o], grants[r][p])
      BY <1>1, <3>1 DEF GrantsCompatible
    <3>3. compatible(KindOf[r], grants'[r][o], grants[r][p])
      BY <2>1, <3>1, <3>2, CompatibleWeaker
    <3> QED BY <2>1, <3>3, CompatibleSymmetric
  <2>3. CASE ~ (grants'[r][o] <= grants[r][o])
    <3>1. compatible(KindOf[r], grants'[r][o], grants[r][p])
      BY <1>1, <2>3 DEF Safe
    <3> QED BY <2>1, <3>1, CompatibleSymmetric
  <2> QED BY <2>2, <2>3
<1>2. SUFFICES ASSUME NEW r \in Resource, NEW p \in Owner, NEW q \in Owner,
                      p # q, grants'[r][p] # NoMode, grants'[r][q] # NoMode
               PROVE  compatible(KindOf[r], grants'[r][p], grants'[r][q])
  BY DEF GrantsCompatible
<1>3. CASE p = o
  BY <1>1, <1>2, <1>3 DEF OnlyOwner
<1>4. CASE q = o
  BY <1>1, <1>2, <1>4 DEF OnlyOwner
<1>5. CASE p # o /\ q # o
  BY <1>2, <1>5 DEF OnlyOwner, GrantsCompatible
<1> QED BY <1>3, <1>4, <1>5

(* A receipt names a resource and one of its modes.                        *)
LEMMA ReceiptTyped ==
    ASSUME TypeRest, NEW o \in Owner, NEW j \in 1 .. Len(receipts[o])
    PROVE  receipts[o][j].res \in Resource /\ receipts[o][j].previous \in Modes
<1>1. receipts[o] \in Seq(Receipts)
  BY DEF TypeRest
<1>2. receipts[o][j] \in Receipts
  BY <1>1
<1> QED BY <1>2 DEF Receipts

(* A step that leaves an owner alone keeps its receipts in order.          *)
LEMMA OthersKept ==
    ASSUME TypeRest, NEW o \in Owner, OnlyOwner(o), NEW p \in Owner \ {o},
           Quiet(p), Ordered(p)
    PROVE  Quiet(p)' /\ Ordered(p)'
<1>1. Quiet(p)'
  BY DEF OnlyOwner, Quiet
<1>2. ASSUME NEW j \in 1 .. Len(receipts[p])
      PROVE  receipts[p][j].res \in Resource
  BY ReceiptTyped
<1> QED BY <1>1, <1>2 DEF OnlyOwner, Ordered

(* A grant of the mode asked for is safe when the request has no blockers. *)
LEMMA GrantSafe ==
    ASSUME GrantsTyped(grants), NEW o \in Owner, NEW r \in Resource,
           NEW m \in GrantModes(r),
           grants[r][o] >= m \/ request_blockers(r, o, m) = {},
           grants' = [grants EXCEPT ![r][o] = strongest(@, m)]
    PROVE  /\ Safe(o)
           /\ \A p \in Owner \ {o}, s \in Resource : grants'[s][p] = grants[s][p]
           /\ \A s \in Resource : grants[s][o] <= grants'[s][o]
<1>0. grants[r][o] \in Modes /\ m \in Modes
  BY GrantModesFacts DEF GrantsTyped
<1>1. /\ \A p \in Owner \ {o}, s \in Resource : grants'[s][p] = grants[s][p]
      /\ \A s \in Resource \ {r} : grants'[s][o] = grants[s][o]
      /\ grants'[r][o] = strongest(grants[r][o], m)
  BY DEF GrantsTyped
<1>2. \A s \in Resource : grants[s][o] <= grants'[s][o]
  BY <1>0, <1>1 DEF strongest, Modes, GrantsTyped
<1>3. CASE grants[r][o] >= m
  BY <1>0, <1>1, <1>2, <1>3 DEF Safe, strongest, GrantsTyped, Modes
<1>4. CASE request_blockers(r, o, m) = {} /\ ~ (grants[r][o] >= m)
  <2>1. grants'[r][o] = m
    BY <1>1, <1>4 DEF strongest
  <2>2. \A p \in Owner \ {o} : grants[r][p] # NoMode =>
            compatible(KindOf[r], m, grants[r][p])
    BY <1>4 DEF request_blockers, Incompatible
  <2>3. \A s \in Resource \ {r} : grants'[s][o] <= grants[s][o]
    BY <1>1 DEF GrantsTyped, Modes
  <2> SUFFICES ASSUME NEW s \in Resource
               PROVE  \/ grants'[s][o] <= grants[s][o]
                      \/ \A p \in Owner \ {o} : grants[s][p] # NoMode =>
                            compatible(KindOf[s], grants'[s][o], grants[s][p])
      BY <1>1, <1>2 DEF Safe
  <2>4. CASE s = r
    BY <2>1, <2>2, <2>4
  <2>5. CASE s # r
    BY <2>3, <2>5
  <2> QED BY <2>4, <2>5
<1> QED BY <1>1, <1>2, <1>3, <1>4

(* Higher grants keep the receipts in order, and so does a new receipt of  *)
(* what was held before.                                                   *)
LEMMA OrderedRaised ==
    ASSUME TypeRest, GrantsTyped(grants), GrantsTyped(grants)',
           NEW o \in Owner, Ordered(o),
           \A s \in Resource : grants[s][o] <= grants'[s][o],
           \/ receipts'[o] = receipts[o]
           \/ receipts'[o] = <<>>
           \/ \E r \in Resource :
                 receipts'[o] = Append(receipts[o],
                                   [res |-> r, previous |-> grants[r][o]])
    PROVE  Ordered(o)'
<1>1. receipts[o] \in Seq(Receipts)
  BY DEF TypeRest
<1>2. \A j \in 1 .. Len(receipts[o]) :
         /\ receipts[o][j].res \in Resource
         /\ receipts[o][j].previous \in Modes
  BY ReceiptTyped
<1>3. \A s \in Resource : grants[s][o] \in Modes /\ grants'[s][o] \in Modes
  BY DEF GrantsTyped
<1>4. ASSUME NEW j \in 1 .. Len(receipts[o])
      PROVE  receipts[o][j].previous <= grants'[receipts[o][j].res][o]
  <2> DEFINE a == receipts[o][j].previous
             s == receipts[o][j].res
  <2>1. a \in Modes /\ s \in Resource
    BY <1>2
  <2>2. a <= grants[s][o]
    BY DEF Ordered
  <2>3. /\ grants[s][o] <= grants'[s][o]
        /\ grants[s][o] \in Modes /\ grants'[s][o] \in Modes
    BY <1>3, <2>1
  <2> HIDE DEF a, s
  <2>4. a <= grants'[s][o]
    BY <2>1, <2>2, <2>3 DEF Modes
  <2> QED BY <2>4 DEF a, s
<1>5. CASE receipts'[o] = receipts[o]
  BY <1>4, <1>5 DEF Ordered
<1>6. CASE receipts'[o] = <<>>
  BY <1>6 DEF Ordered
<1>7. ASSUME NEW r \in Resource,
             receipts'[o] = Append(receipts[o],
                               [res |-> r, previous |-> grants[r][o]])
      PROVE  Ordered(o)'
  <2> DEFINE n == Len(receipts[o])
  <2>1. /\ n \in Nat
        /\ Len(receipts'[o]) = n + 1
        /\ \A j \in 1 .. n : receipts'[o][j] = receipts[o][j]
        /\ receipts'[o][n + 1] = [res |-> r, previous |-> grants[r][o]]
    BY <1>1, <1>7
  <2>2. \A j \in 1 .. (n + 1) :
            receipts'[o][j].previous <= grants'[receipts'[o][j].res][o]
    <3> SUFFICES ASSUME NEW j \in 1 .. (n + 1)
                 PROVE  receipts'[o][j].previous
                            <= grants'[receipts'[o][j].res][o]
        OBVIOUS
    <3>1. CASE j \in 1 .. n
      BY <1>4, <2>1, <3>1
    <3>2. CASE j = n + 1
      BY <2>1, <3>2
    <3> HIDE DEF n
    <3> QED BY <2>1, <3>1, <3>2
  <2>3. \A j, k \in 1 .. n :
            (j <= k /\ receipts'[o][j].res = receipts'[o][k].res)
                => receipts'[o][j].previous <= receipts'[o][k].previous
    BY <2>1 DEF Ordered
  <2>4. \A j \in 1 .. n : receipts'[o][j].res = r
            => receipts'[o][j].previous <= grants[r][o]
    BY <2>1 DEF Ordered
  <2>5. grants[r][o] <= grants[r][o]
    BY <1>3 DEF Modes
  <2> HIDE DEF n
  <2>6. \A j, k \in 1 .. (n + 1) :
            (j <= k /\ receipts'[o][j].res = receipts'[o][k].res)
                => receipts'[o][j].previous <= receipts'[o][k].previous
    <3> SUFFICES ASSUME NEW j \in 1 .. (n + 1), NEW k \in 1 .. (n + 1),
                        j <= k, receipts'[o][j].res = receipts'[o][k].res
                 PROVE  receipts'[o][j].previous <= receipts'[o][k].previous
        OBVIOUS
    <3>1. CASE k \in 1 .. n
      BY <2>1, <2>3, <3>1
    <3>2. CASE k = n + 1 /\ j \in 1 .. n
      BY <2>1, <2>4, <3>2
    <3>3. CASE k = n + 1 /\ j = n + 1
      BY <2>1, <2>5, <3>3
    <3> QED BY <2>1, <3>1, <3>2, <3>3
  <2> QED BY <2>1, <2>2, <2>6 DEF Ordered
<1> QED BY <1>5, <1>6, <1>7

(* Undoing tuple grants lowers them, and the receipts kept stay in order.  *)
LEMMA RestoreTuplesSafe ==
    ASSUME TypeRest, GrantsTyped(grants), NEW o \in Owner, NEW i,
           RestoreTuples(o, i), Ordered(o)
    PROVE  /\ Safe(o)
           /\ Ordered(o)'
           /\ \A p \in Owner \ {o}, r \in Resource : grants'[r][p] = grants[r][p]
<1> DEFINE undone(r) == {j \in i .. Len(receipts[o]) : receipts[o][j].res = r}
           first(r) == CHOOSE j \in undone(r) : \A k \in undone(r) : j <= k
<1>1. /\ receipts[o] \in Seq(Receipts)
      /\ Len(receipts[o]) \in Nat
      /\ i \in 1 .. Len(receipts[o])
  BY DEF RestoreTuples, TypeRest
<1>2. ASSUME NEW r \in Resource
      PROVE  grants'[r] = IF undone(r) = {} THEN grants[r]
                          ELSE [grants[r] EXCEPT
                                  ![o] = receipts[o][first(r)].previous]
  BY DEF RestoreTuples
<1>3. ASSUME NEW r \in Resource, undone(r) # {}
      PROVE  first(r) \in undone(r)
  <2>1. undone(r) \in SUBSET Nat
    BY <1>1
  <2> QED BY <1>3, <2>1, FirstExists
<1>4. ASSUME NEW r \in Resource
      PROVE  /\ \A p \in Owner \ {o} : grants'[r][p] = grants[r][p]
             /\ undone(r) = {} => grants'[r][o] = grants[r][o]
             /\ undone(r) # {} =>
                   grants'[r][o] = receipts[o][first(r)].previous
  <2>1. grants[r] \in [Owner -> Modes]
    BY DEF GrantsTyped
  <2> HIDE DEF first, undone
  <2> QED BY <1>2, <1>4, <2>1
<1>5. ASSUME NEW r \in Resource, undone(r) # {}
      PROVE  /\ first(r) \in 1 .. Len(receipts[o])
             /\ i <= first(r)
             /\ receipts[o][first(r)].res = r
  <2> HIDE DEF first
  <2> QED BY <1>1, <1>3, <1>5
<1> HIDE DEF first
<1>6. Safe(o)
  <2> SUFFICES ASSUME NEW r \in Resource PROVE grants'[r][o] <= grants[r][o]
      BY DEF Safe
  <2>1. CASE undone(r) = {}
    BY <1>4, <2>1 DEF GrantsTyped, Modes
  <2>2. CASE undone(r) # {}
    <3>1. receipts[o][first(r)].previous <= grants[r][o]
      BY <1>5, <2>2 DEF Ordered
    <3> QED BY <1>4, <2>2, <3>1
  <2> QED BY <2>1, <2>2
<1>7. /\ Len(receipts'[o]) = i - 1
      /\ \A j \in 1 .. (i - 1) : receipts'[o][j] = receipts[o][j]
      /\ \A j \in 1 .. (i - 1) : j \in 1 .. Len(receipts[o])
  BY <1>1, SubSeqProperties DEF RestoreTuples, TypeRest
<1>8. ASSUME NEW j \in 1 .. (i - 1)
      PROVE  receipts[o][j].previous <= grants'[receipts[o][j].res][o]
  <2> DEFINE r == receipts[o][j].res
  <2>1. r \in Resource
    BY <1>7, ReceiptTyped
  <2>2. CASE undone(r) = {}
    <3>1. receipts[o][j].previous <= grants[r][o]
      BY <1>7 DEF Ordered
    <3> QED BY <1>4, <2>1, <2>2, <3>1
  <2>3. CASE undone(r) # {}
    <3>1. j <= first(r) /\ receipts[o][first(r)].res = r
      BY <1>1, <1>5, <2>1, <2>3
    <3>2. receipts[o][j].previous <= receipts[o][first(r)].previous
      BY <1>5, <1>7, <2>1, <2>3, <3>1 DEF Ordered
    <3> QED BY <1>4, <2>1, <2>3, <3>2
  <2> QED BY <2>2, <2>3
<1>9. Ordered(o)'
  BY <1>7, <1>8 DEF Ordered
<1> QED BY <1>4, <1>6, <1>9

(* Grants restored to a covered snapshot, or released, are lowered.        *)
LEMMA LoweredSafe ==
    ASSUME GrantsTyped(grants), NEW o \in Owner, NEW snap \in Snapshots,
           can_restore(o, snap) \/ snap = NoRequest,
           grants' = RestoredGrants(o, snap)
    PROVE  /\ Safe(o)
           /\ \A p \in Owner \ {o}, r \in Resource : grants'[r][p] = grants[r][p]
<1>1. ASSUME NEW r \in Resource
      PROVE  /\ grants'[r][o] = snap[r]
             /\ \A p \in Owner \ {o} : grants'[r][p] = grants[r][p]
  BY DEF GrantsTyped, RestoredGrants
<1>2. ASSUME NEW r \in Resource
      PROVE  snap[r] <= grants[r][o]
  <2>1. snap[r] \in Modes /\ grants[r][o] \in Modes
    BY SnapshotsFacts DEF GrantsTyped
  <2>2. CASE snap[r] = NoMode
    BY <2>1, <2>2 DEF Modes, NoMode
  <2>3. CASE snap[r] # NoMode
    BY <2>1, <2>3 DEF can_restore, covers, NoRequest, Modes
  <2> QED BY <2>2, <2>3
<1> QED BY <1>1, <1>2 DEF Safe

(* Dropping the guard lowers the grants.                                   *)
LEMMA DropGuardSafe ==
    ASSUME GrantsTyped(grants), NEW o \in Owner, DropGuard(o)
    PROVE  /\ Safe(o)
           /\ \A p \in Owner \ {o}, r \in Resource : grants'[r][p] = grants[r][p]
<1>1. CASE o \in active_owners
  <2>1. grants' = RestoredGrants(o, NoRequest)
    BY <1>1 DEF DropGuard, release_owner, RestoredGrants, NoRequest
  <2> QED BY <2>1, NoRequestType, LoweredSafe
<1>2. CASE o \notin active_owners
  BY <1>2 DEF DropGuard, lmVars, Safe, GrantsTyped, Modes
<1> QED BY <1>1, <1>2

(* What one step of an owner has to establish.                             *)
GoodStep(o) == OnlyOwner(o) /\ Safe(o) /\ Quiet(o)' /\ Ordered(o)'

(* The context in which the steps are examined.                            *)
Before == TypeRest /\ GrantsTyped(grants) /\ GrantsTyped(grants)'

(* A step that leaves the grants alone and adds no receipt.                *)
LEMMA GrantsKept ==
    ASSUME Before, NEW o \in Owner, Ordered(o), grants' = grants,
           receipts'[o] = receipts[o] \/ receipts'[o] = <<>>
    PROVE  /\ Safe(o)
           /\ Ordered(o)'
           /\ \A p \in Owner \ {o}, r \in Resource : grants'[r][p] = grants[r][p]
<1>1. \A s \in Resource : grants[s][o] <= grants'[s][o]
  BY DEF Before, GrantsTyped, Modes
<1>2. Ordered(o)'
  BY <1>1, OrderedRaised DEF Before
<1> QED BY <1>2 DEF Safe, Before, GrantsTyped, Modes

(* Serving a request keeps the statement's shape.                          *)
LEMMA ServedQuiet ==
    ASSUME TypeRest, NEW o \in Owner, NEW r \in Resource, Quiet(o),
           pc[o] \in {"acquiring", "waiting"}, pending[o][r] # NoMode,
           Served(o, r), base' = base
    PROVE  /\ Quiet(o)'
           /\ \/ receipts'[o] = receipts[o]
              \/ receipts'[o] = Append(receipts[o],
                                    [res |-> r, previous |-> grants[r][o]])
           /\ \A p \in Owner \ {o} :
                 /\ pc'[p] = pc[p] /\ pending'[p] = pending[p]
                 /\ base'[p] = base[p] /\ receipts'[p] = receipts[p]
<1>1. pending[o] \in [Resource -> Modes]
  BY SnapshotsFacts DEF TypeRest
<1>2. /\ pending'[o] = [pending[o] EXCEPT ![r] = NoMode]
      /\ pc'[o] = After(o, r)
      /\ base'[o] = base[o]
  BY DEF Served, Goto, TypeRest
<1>3. CASE KindOf[r] = "tuple"
  <2>1. pending'[o] = NoRequest
    BY <1>1, <1>2, <1>3 DEF Quiet, NoRequest
  <2>2. pc'[o] = "exec" /\ base[o] = NoSnap
    BY <1>2, <1>3 DEF After, Quiet
  <2>3. Quiet(o)'
    BY <1>2, <2>1, <2>2 DEF Quiet, NoRequest
  <2> QED BY <1>3, <2>3 DEF Served, Goto, TypeRest
<1>4. CASE KindOf[r] # "tuple"
  <2>1. receipts'[o] = receipts[o] /\ receipts[o] = <<>>
    BY <1>4 DEF Served, Quiet
  <2>2. pc'[o] = "locked" => pending'[o] = NoRequest
    BY <1>1, <1>2, <1>4 DEF After, NoRequest
  <2>3. pc'[o] \in {"locked", "acquiring"}
    BY <1>2, <1>4 DEF After
  <2>4. ASSUME NEW s \in Resource, pending'[o][s] # NoMode,
               KindOf[s] = "tuple"
        PROVE  base[o] = NoSnap /\ \A u \in Resource \ {s} :
                                      pending'[o][u] = NoMode
    BY <1>1, <1>2, <2>4 DEF Quiet
  <2>5. Quiet(o)'
    BY <1>2, <2>1, <2>2, <2>3, <2>4 DEF Quiet
  <2> QED BY <1>4, <2>1, <2>5 DEF Served, Goto, TypeRest
<1> QED BY <1>3, <1>4

(* Every step of an owner is good.                                         *)
LEMMA CompatStep == CompatInv /\ [Next]_vars => CompatInv'
<1> SUFFICES ASSUME CompatInv, [Next]_vars PROVE CompatInv'
    OBVIOUS
<1>1. TypeOK' /\ TypeRest
  BY TypeStep, TypeOKSplit DEF CompatInv
<1>2. TypeOK' => GrantsTyped(grants)'
  BY TypeOKSplit, PTL
<1>3. Before
  BY <1>1, <1>2, TypeOKSplit DEF Before, CompatInv
<1>4. \A o \in Owner : Quiet(o) /\ Ordered(o)
  BY DEF CompatInv
<1>5. TypeRest /\ GrantsTyped(grants)
  BY <1>3 DEF Before
<1>6. ASSUME NEW o \in Owner
      PROVE  /\ pending[o] \in Snapshots
             /\ pending[o] \in [Resource -> Modes]
             /\ \A r \in Resource : pending[o][r] \in GrantModes(r)
  BY <1>5, SnapshotsFacts DEF TypeRest
<1> USE DEF Goto, Spend, lmVars, regVars, sessVars
<1>7. ASSUME NEW o \in Owner, Lock(o) PROVE GoodStep(o)
  <2> USE <1>3, <1>4, <1>5
  <2>1. ASSUME NEW r \in Resource, AcquireCovered(o, r)
        PROVE  GoodStep(o)
    <3>1. pending[o][r] # NoMode /\ pc[o] = "acquiring" /\ base' = base
      BY <2>1 DEF AcquireCovered, NextRequest
    <3>2. grants' = grants /\ Served(o, r)
      BY <2>1 DEF AcquireCovered
    <3>3. \A s \in Resource : grants[s][o] <= grants'[s][o]
      BY <3>2 DEF GrantsTyped, Modes
    <3>4. Ordered(o)'
      BY <3>1, <3>2, <3>3, ServedQuiet, OrderedRaised DEF Before
    <3>5. Safe(o)
      BY <3>2 DEF Safe, GrantsTyped, Modes
    <3> QED BY <3>1, <3>2, <3>4, <3>5, ServedQuiet DEF GoodStep, OnlyOwner
  <2>2. ASSUME NEW r \in Resource, AcquireFree(o, r) \/ WakeGrant(o, r)
        PROVE  GoodStep(o)
    <3>1. /\ pending[o][r] # NoMode /\ pc[o] \in {"acquiring", "waiting"}
          /\ base' = base
      BY <2>2 DEF AcquireFree, WakeGrant, NextRequest, WaitingFor
    <3>2. /\ grants' = [grants EXCEPT ![r][o] = strongest(@, pending[o][r])]
          /\ request_blockers(r, o, pending[o][r]) = {}
          /\ Served(o, r)
      BY <2>2 DEF AcquireFree, WakeGrant, GrantRequest
    <3>3. /\ Safe(o)
          /\ \A p \in Owner \ {o}, s \in Resource :
                grants'[s][p] = grants[s][p]
          /\ \A s \in Resource : grants[s][o] <= grants'[s][o]
      BY <1>6, <3>2, GrantSafe
    <3>4. Ordered(o)'
      BY <3>1, <3>2, <3>3, ServedQuiet, OrderedRaised DEF Before
    <3> QED BY <3>1, <3>2, <3>3, <3>4, ServedQuiet DEF GoodStep, OnlyOwner
  <2>3. ASSUME NEW r \in Resource, AcquirePark(o, r) \/ WakePark(o, r)
        PROVE  GoodStep(o)
    <3>1. grants' = grants /\ receipts' = receipts /\ pending' = pending
          /\ base' = base
      BY <2>3 DEF AcquirePark, WakePark
    <3>2. Quiet(o)'
      BY <2>3, <3>1 DEF AcquirePark, WakePark, Quiet, TypeRest
    <3> QED BY <2>3, <3>1, <3>2, GrantsKept
            DEF GoodStep, OnlyOwner, AcquirePark, WakePark, TypeRest
  <2>4. CASE DetectDeadlock(o) \/ CancelAcquire(o)
    <3>1. /\ grants' = grants /\ receipts' = receipts /\ base' = base
          /\ pending'[o] = NoRequest /\ pc'[o] \in {"victim", "failed"}
      BY <2>4 DEF DetectDeadlock, CancelAcquire, Withdraw, TypeRest
    <3>2. Quiet(o)'
      BY <3>1 DEF Quiet, NoRequest
    <3> QED BY <2>4, <3>1, <3>2, GrantsKept DEF GoodStep, OnlyOwner,
            DetectDeadlock, CancelAcquire, Withdraw, TypeRest
  <2> QED BY <1>7, <2>1, <2>2, <2>3, <2>4 DEF Lock
<1>8. ASSUME NEW o \in Owner, Session(o) PROVE GoodStep(o)
  <2> USE <1>3, <1>4, <1>5
  <2>1. CASE Begin(o)
    <3>1. Quiet(o)'
      BY <2>1 DEF Begin, Quiet, TypeRest
    <3> QED BY <2>1, <3>1, GrantsKept
            DEF GoodStep, OnlyOwner, Begin, TypeRest
  <2>2. ASSUME NEW batch \in Batches, StartStatement(o, batch)
        PROVE  GoodStep(o)
    <3>1. /\ grants' = grants /\ receipts' = receipts /\ receipts[o] = <<>>
          /\ pending'[o] = batch /\ pc'[o] = "acquiring"
      BY <2>2 DEF StartStatement, Quiet, TypeRest
    <3>2. Quiet(o)'
      BY <3>1 DEF Quiet, Batches
    <3> QED BY <2>2, <3>1, <3>2, GrantsKept
            DEF GoodStep, OnlyOwner, StartStatement, TypeRest
  <2>3. ASSUME NEW batch \in Batches, Rebind(o, batch)
        PROVE  GoodStep(o)
    <3>1. /\ receipts' = receipts /\ receipts[o] = <<>>
          /\ pending'[o] = batch /\ pc'[o] = "acquiring"
      BY <2>3 DEF Rebind, Quiet, TypeRest
    <3>2. Quiet(o)'
      BY <3>1 DEF Quiet, Batches
    <3>3. /\ base[o] \in Snapshots /\ can_restore(o, base[o])
          /\ grants' = RestoredGrants(o, base[o])
      BY <2>3 DEF Rebind, RestoreOwner, TypeRest
    <3>4. Ordered(o)'
      BY <3>1 DEF Ordered
    <3> QED BY <2>3, <3>2, <3>3, <3>4, LoweredSafe
            DEF GoodStep, OnlyOwner, Rebind, TypeRest
  <2>4. CASE Execute(o)
    <3>1. /\ grants' = grants /\ receipts' = receipts /\ receipts[o] = <<>>
          /\ pending' = pending /\ pc'[o] = "exec" /\ base'[o] = NoSnap
          /\ pending[o] = NoRequest
      BY <2>4 DEF Execute, Quiet, TypeRest
    <3>2. Quiet(o)'
      BY <3>1 DEF Quiet, NoRequest
    <3> QED BY <2>4, <3>1, <3>2, GrantsKept
            DEF GoodStep, OnlyOwner, Execute, TypeRest
  <2>5. CASE RestorePrior(o)
    <3>1. /\ receipts' = receipts /\ receipts[o] = <<>>
          /\ pending' = pending /\ pc' = pc /\ base'[o] = NoSnap
          /\ pending[o] = NoRequest
      BY <2>5 DEF RestorePrior, Quiet, TypeRest
    <3>2. Quiet(o)'
      BY <3>1 DEF Quiet, NoRequest
    <3>3. /\ base[o] \in Snapshots /\ can_restore(o, base[o])
          /\ grants' = RestoredGrants(o, base[o])
      BY <2>5 DEF RestorePrior, RestoreOwner, TypeRest
    <3>4. Ordered(o)'
      BY <3>1 DEF Ordered
    <3> QED BY <2>5, <3>2, <3>3, <3>4, LoweredSafe
            DEF GoodStep, OnlyOwner, RestorePrior, TypeRest
  <2>6. ASSUME NEW l \in {"idle", "failed"}, EndStatement(o, l)
        PROVE  GoodStep(o)
    <3>1. /\ grants' = grants /\ receipts'[o] = <<>> /\ base' = base
          /\ pending' = pending /\ pc'[o] \in {"idle", "failed"}
          /\ pending[o] = NoRequest
      BY <2>6 DEF EndStatement, Quiet, TypeRest
    <3>2. Quiet(o)'
      BY <3>1 DEF Quiet, NoRequest
    <3> QED BY <2>6, <3>1, <3>2, GrantsKept
            DEF GoodStep, OnlyOwner, EndStatement, TypeRest
  <2>7. CASE Deregister(o)
    <3>1. /\ grants' = grants /\ receipts'[o] = <<>> /\ base'[o] = NoSnap
          /\ pending' = pending /\ pc'[o] = "ending"
          /\ pending[o] = NoRequest
      BY <2>7 DEF Deregister, Quiet, TypeRest
    <3>2. Quiet(o)'
      BY <3>1 DEF Quiet, NoRequest
    <3> QED BY <2>7, <3>1, <3>2, GrantsKept
            DEF GoodStep, OnlyOwner, Deregister, TypeRest
  <2>8. CASE ReleaseOwner(o)
    <3>1. /\ receipts' = receipts /\ receipts[o] = <<>> /\ base' = base
          /\ pending' = pending /\ pc'[o] = "none"
          /\ pending[o] = NoRequest
      BY <2>8 DEF ReleaseOwner, Quiet, TypeRest
    <3>2. Quiet(o)'
      BY <3>1 DEF Quiet, NoRequest
    <3>3. Ordered(o)'
      BY <3>1 DEF Ordered
    <3> QED BY <2>8, <3>2, <3>3, DropGuardSafe
            DEF GoodStep, OnlyOwner, ReleaseOwner, TypeRest
  <2> QED BY <1>8, <2>1, <2>2, <2>3, <2>4, <2>5, <2>6, <2>7, <2>8 DEF Session
<1>9. ASSUME NEW o \in Txn, Row(o) PROVE GoodStep(o)
  <2> USE <1>3, <1>4, <1>5
  <2> o \in Owner
    BY DEF Owner
  <2>1. ASSUME NEW x, RowWait(o, x)
        PROVE  GoodStep(o)
    <3>1. Quiet(o)'
      BY <2>1 DEF RowWait, Quiet, TypeRest
    <3> QED BY <2>1, <3>1, GrantsKept
            DEF GoodStep, OnlyOwner, RowWait, TypeRest
  <2>2. ASSUME NEW l \in {"exec", "victim", "failed"}, RowLeave(o, l),
               pc[o] = "rowwait"
        PROVE  GoodStep(o)
    <3>1. Quiet(o)'
      BY <2>2 DEF RowLeave, Quiet, TypeRest
    <3> QED BY <2>2, <3>1, GrantsKept
            DEF GoodStep, OnlyOwner, RowLeave, TypeRest
  <2>3. ASSUME NEW r \in Resource, KindOf[r] = "tuple", NEW m \in Menu[r],
               TupleLock(o, r, m)
        PROVE  GoodStep(o)
    <3>1. /\ pending'[o] = [pending[o] EXCEPT ![r] = m]
          /\ pending[o] = NoRequest
          /\ base' = base /\ base[o] = NoSnap
          /\ receipts' = receipts /\ grants' = grants
          /\ pc'[o] = "acquiring"
      BY <2>3 DEF TupleLock, Quiet, TypeRest
    <3>2. \A s \in Resource \ {r} : pending'[o][s] = NoMode
      BY <3>1 DEF NoRequest
    <3>3. Quiet(o)'
      BY <2>3, <3>1, <3>2 DEF Quiet
    <3> QED BY <2>3, <3>1, <3>3, GrantsKept
            DEF GoodStep, OnlyOwner, TupleLock, TypeRest
  <2>4. ASSUME NEW r \in Resource, NEW m \in Menu[r], NEW policy,
               TupleTry(o, r, m, policy)
        PROVE  GoodStep(o)
    <3>0. m \in GrantModes(r)
      BY MenuAssumption, GrantModesFacts
    <3>1. /\ pending' = pending /\ pending[o] = NoRequest
          /\ base' = base /\ base[o] = NoSnap
          /\ pc'[o] \in {"exec", "failed"}
      BY <2>4 DEF TupleTry, Quiet, TypeRest
    <3>2. Quiet(o)'
      BY <3>1 DEF Quiet, NoRequest
    <3> DEFINE free == covers(grants[r][o], m) \/ request_blockers(r, o, m) = {}
    <3>3. CASE free
      <4>1. /\ grants' = [grants EXCEPT ![r][o] = strongest(@, m)]
            /\ receipts'[o] = Append(receipts[o],
                                 [res |-> r, previous |-> grants[r][o]])
        BY <2>4, <3>3 DEF TupleTry, TypeRest
      <4>2. /\ Safe(o)
            /\ \A p \in Owner \ {o}, s \in Resource :
                  grants'[s][p] = grants[s][p]
            /\ \A s \in Resource : grants[s][o] <= grants'[s][o]
        BY <3>0, <3>3, <4>1, GrantSafe DEF covers
      <4>3. Ordered(o)'
        BY <4>1, <4>2, OrderedRaised DEF Before
      <4>4. OnlyOwner(o)
        BY <2>4, <3>3, <4>2 DEF OnlyOwner, TupleTry, TypeRest
      <4> QED BY <3>2, <4>2, <4>3, <4>4 DEF GoodStep
    <3>4. CASE ~ free
      BY <2>4, <3>2, <3>4, GrantsKept
         DEF GoodStep, OnlyOwner, TupleTry, TypeRest
    <3> QED BY <3>3, <3>4
  <2>5. ASSUME NEW i, RestoreTuples(o, i)
        PROVE  GoodStep(o)
    <3>1. /\ pending' = pending /\ base' = base /\ pc' = pc
          /\ \A p \in Owner \ {o} : receipts'[p] = receipts[p]
          /\ pc[o] = "exec"
      BY <2>5 DEF RestoreTuples, TypeRest
    <3>2. Quiet(o)'
      BY <3>1 DEF Quiet, NoRequest
    <3> QED BY <2>5, <3>1, <3>2, RestoreTuplesSafe DEF GoodStep, OnlyOwner
  <2>6. CASE WriteRow(o)
    <3>1. Quiet(o)'
      BY <2>6 DEF WriteRow, Quiet
    <3> QED BY <2>6, <3>1, GrantsKept DEF GoodStep, OnlyOwner, WriteRow
  <2> QED BY <1>9, <2>1, <2>2, <2>3, <2>4, <2>5, <2>6
          DEF Row, RowProceed, RowDetect, RowCancel
<1>10. ASSUME NEW o \in Txn, Savepoints(o) PROVE GoodStep(o)
  <2> USE <1>3, <1>4, <1>5
  <2> o \in Owner
    BY DEF Owner
  <2>1. ASSUME NEW n, Savepoint(o, n)
        PROVE  GoodStep(o)
    <3>1. Quiet(o)'
      BY <2>1 DEF Savepoint, Quiet
    <3> QED BY <2>1, <3>1, GrantsKept DEF GoodStep, OnlyOwner, Savepoint
  <2>2. ASSUME NEW n, RollbackRestore(o, n)
        PROVE  GoodStep(o)
    <3> DEFINE top == Len(stack[o])
               snap == stack[o][top].snap
    <3>1. /\ receipts' = receipts /\ receipts[o] = <<>> /\ base' = base
          /\ pending' = pending /\ pc'[o] \in {"idle", "failed"}
          /\ pending[o] = NoRequest
      BY <2>2 DEF RollbackRestore, Quiet, TypeRest
    <3>2. Quiet(o)'
      BY <3>1 DEF Quiet, NoRequest
    <3>3. Ordered(o)'
      BY <3>1 DEF Ordered
    <3>4. stack[o] \in Seq(Levels) /\ stack[o][top] \in Levels
      BY <2>2 DEF RollbackRestore, TypeRest
    <3>5. /\ Safe(o)
          /\ \A p \in Owner \ {o}, r \in Resource :
                grants'[r][p] = grants[r][p]
      <4>1. CASE DropGuard(o)
        BY <4>1, DropGuardSafe
      <4>2. CASE snap # NoSnap /\ RestoreOwner(o, snap) /\ can_restore(o, snap)
        <5>1. snap \in Snapshots
          BY <3>4, <4>2 DEF Levels
        <5> QED BY <4>2, <5>1, LoweredSafe DEF RestoreOwner
      <4>3. CASE UNCHANGED lmVars
        BY <4>3 DEF Safe, GrantsTyped, Modes
      <4> QED BY <2>2, <4>1, <4>2, <4>3 DEF RollbackRestore
    <3> QED BY <2>2, <3>2, <3>3, <3>5
            DEF GoodStep, OnlyOwner, RollbackRestore, TypeRest
  <2>3. ASSUME NEW i, ReleaseSavepoint(o, i)
        PROVE  GoodStep(o)
    <3>1. Quiet(o)'
      BY <2>3 DEF ReleaseSavepoint, Quiet
    <3> QED BY <2>3, <3>1, GrantsKept DEF GoodStep, OnlyOwner, ReleaseSavepoint
  <2>4. ASSUME NEW i, RollbackTo(o, i)
        PROVE  GoodStep(o)
    <3>1. /\ grants' = grants /\ receipts'[o] = <<>> /\ base'[o] = NoSnap
          /\ pending' = pending /\ pc'[o] = "rolling"
          /\ pending[o] = NoRequest
      BY <2>4 DEF RollbackTo, Quiet, TypeRest
    <3>2. Quiet(o)'
      BY <3>1 DEF Quiet, NoRequest
    <3> QED BY <2>4, <3>1, <3>2, GrantsKept
            DEF GoodStep, OnlyOwner, RollbackTo, TypeRest
  <2> QED BY <1>10, <2>1, <2>2, <2>3, <2>4 DEF Savepoints
<1>11. ASSUME NEW o \in Owner, GoodStep(o) PROVE CompatInv'
  <2>1. GrantsCompatible'
    BY <1>3, <1>11, SafeStep DEF GoodStep, Before, CompatInv
  <2>2. ASSUME NEW p \in Owner PROVE Quiet(p)' /\ Ordered(p)'
    <3>1. CASE p = o
      BY <1>11, <3>1 DEF GoodStep
    <3>2. CASE p # o
      BY <1>4, <1>5, <1>11, <3>2, OthersKept DEF GoodStep
    <3> QED BY <3>1, <3>2
  <2> QED BY <1>1, <2>1, <2>2 DEF CompatInv
<1>12. CASE UNCHANGED vars
  <2>1. GrantsCompatible' /\ \A o \in Owner : Quiet(o)' /\ Ordered(o)'
    BY <1>12 DEF vars, CompatInv, GrantsCompatible, Quiet, Ordered
  <2> QED BY <1>1, <2>1 DEF CompatInv
<1>13. CASE Next
  BY <1>7, <1>8, <1>9, <1>10, <1>11, <1>13 DEF Next, Owner
<1> QED BY <1>12, <1>13

(* Two owners never hold incompatible modes on one resource: acquire_one,  *)
(* acquire_tuple, restore_owner, restore_tuple_changes and release_owner   *)
(* keep the grants compatible in every interleaving, for any number of     *)
(* owners and resources and any savepoint depth.                           *)
THEOREM GrantsAlwaysCompatible == Spec => []GrantsCompatible
<1>1. Init => CompatInv
  <2> SUFFICES ASSUME Init PROVE CompatInv
      OBVIOUS
  <2>1. GrantsCompatible
    BY DEF Init, GrantsCompatible
  <2>2. \A o \in Owner : Quiet(o) /\ Ordered(o)
    BY DEF Init, Quiet, Ordered, NoRequest
  <2> QED BY <2>1, <2>2, InitType DEF CompatInv
<1>2. CompatInv => GrantsCompatible
  BY DEF CompatInv
<1> QED BY <1>1, <1>2, CompatStep, PTL DEF Spec

-----------------------------------------------------------------------------
(* What an owner keeps of its own                                          *)
(*                                                                         *)
(* SnapshotsRestorable is not inductive.  A snapshot stays below the       *)
(* grants although they are lowered by ROLLBACK TO, by the undoing of an   *)
(* acquisition and by undone tuple locks, because whatever is written back *)
(* (an inner snapshot, the base, a receipt) is itself above every outer    *)
(* snapshot: Keeps and Nested say so.  Place ties the guard to the place   *)
(* of the owner's thread.                                                  *)

(* f is nowhere stronger than g.                                           *)
Below(f, g) == \A r \in Resource : f[r] <= g[r]

Running == {"acquiring", "waiting", "locked", "exec", "rowwait"}

(* The owner's guard, base and edges, by where its thread is.              *)
Place(o) ==
    /\ pc[o] = "none" => o \notin active_owners
    /\ pc[o] \in Running => o \in active_owners
    /\ pc[o] \in {"none", "idle", "rolling", "ending"} => base[o] = NoSnap
    /\ pc[o] \notin {"waiting", "rowwait"} => waits_for[o] = {}
    /\ o \notin active_owners => \A r \in Resource : grants[r][o] = NoMode
    /\ pc[o] \in {"none", "ending"} => stack[o] = <<>>

(* The owner can be put back to s now and after any restoration.           *)
Keeps(o, s) ==
    /\ o \in active_owners
    /\ \A r \in Resource : s[r] <= grants[r][o]
    /\ base[o] # NoSnap => Below(s, base[o])
    /\ \A k \in 1 .. Len(receipts[o]) :
          s[receipts[o][k].res] <= receipts[o][k].previous

Nested(levels) ==
    \A i \in 1 .. Len(levels) : levels[i].snap # NoSnap =>
        \A j \in i .. Len(levels) :
            levels[j].snap # NoSnap /\ Below(levels[i].snap, levels[j].snap)

Restorable(o) ==
    /\ \A i \in 1 .. Len(stack[o]) :
          stack[o][i].snap # NoSnap => Keeps(o, stack[o][i].snap)
    /\ Nested(stack[o])
    /\ base[o] # NoSnap =>
          o \in active_owners /\ \A r \in Resource : base[o][r] <= grants[r][o]

LocalInv == CompatInv /\ \A o \in Owner : Place(o) /\ Restorable(o)

(* What a step of owner o leaves alone of every other owner.               *)
Frame(o) ==
    \A p \in Owner \ {o} :
        /\ pc'[p] = pc[p] /\ ops'[p] = ops[p] /\ pending'[p] = pending[p]
        /\ base'[p] = base[p] /\ stack'[p] = stack[p]
        /\ receipts'[p] = receipts[p] /\ live'[p] = live[p]
        /\ p \in active_owners' <=> p \in active_owners
        /\ \A r \in Resource : grants'[r][p] = grants[r][p]
        /\ waits_for'[p] \subseteq waits_for[p]
        /\ \A x \in wrote' : x[1] = p => x \in wrote

(* Every step is a step of one owner.                                      *)
Step(o) ==
    \/ Lock(o) \/ Session(o)
    \/ o \in Txn /\ (Row(o) \/ Savepoints(o))

(* Next is a step of some owner.                                           *)
LEMMA NextIsStep == Next => \E o \in Owner : Step(o)
BY DEF Next, Step, Owner

(* release_owner and restore_owner touch the grants of o only.             *)
LEMMA FrameManager ==
    ASSUME TypeRest, GrantsTyped(grants), NEW o \in Owner, NEW p \in Owner \ {o}
    PROVE  /\ release_owner(o) \/ DropGuard(o) =>
                 /\ p \in active_owners' <=> p \in active_owners
                 /\ \A r \in Resource : grants'[r][p] = grants[r][p]
                 /\ waits_for'[p] \subseteq waits_for[p]
           /\ \A snap : RestoreOwner(o, snap) =>
                 /\ p \in active_owners' <=> p \in active_owners
                 /\ \A r \in Resource : grants'[r][p] = grants[r][p]
                 /\ waits_for'[p] \subseteq waits_for[p]
BY DEF release_owner, DropGuard, RestoreOwner, RestoredGrants, TypeRest,
       GrantsTyped, lmVars

(* A step of o leaves the others alone.                                    *)
LEMMA FrameStep ==
    ASSUME TypeRest, GrantsTyped(grants), NEW o \in Owner, Step(o)
    PROVE  Frame(o)
<1> USE DEF Goto, Spend, lmVars, regVars, sessVars
<1>1. CASE Lock(o)
  <2>1. ASSUME NEW r \in Resource, AcquireCovered(o, r) PROVE Frame(o)
    BY <2>1 DEF Frame, AcquireCovered, Served, TypeRest
  <2>3. ASSUME NEW r \in Resource, AcquireFree(o, r) \/ WakeGrant(o, r)
        PROVE  Frame(o)
    <3>1. Served(o, r) /\ GrantRequest(o, r)
      BY <2>3 DEF AcquireFree, WakeGrant
    <3>2. \A p \in Owner \ {o} :
             /\ pc'[p] = pc[p] /\ pending'[p] = pending[p]
             /\ receipts'[p] = receipts[p] /\ waits_for'[p] = waits_for[p]
             /\ \A s \in Resource : grants'[s][p] = grants[s][p]
      BY <3>1 DEF Served, GrantRequest, TypeRest, GrantsTyped
    <3>3. UNCHANGED <<ops, active_owners, base, stack, regVars>>
      BY <2>3 DEF AcquireFree, WakeGrant
    <3> QED BY <3>2, <3>3 DEF Frame
  <2>4. ASSUME NEW r \in Resource, AcquirePark(o, r) \/ WakePark(o, r)
        PROVE  Frame(o)
    BY <2>4 DEF Frame, AcquirePark, WakePark, TypeRest
  <2>2. CASE DetectDeadlock(o) \/ CancelAcquire(o)
    BY <2>2 DEF Frame, DetectDeadlock, CancelAcquire, Withdraw, TypeRest
  <2> QED BY <1>1, <2>1, <2>2, <2>3, <2>4 DEF Lock
<1>2. CASE Session(o)
  <2>1. CASE Begin(o) \/ \E batch \in Batches : StartStatement(o, batch)
    BY <2>1 DEF Frame, Begin, StartStatement, TypeRest
  <2>2. CASE \E batch \in Batches : Rebind(o, batch)
    BY <2>2, FrameManager DEF Frame, Rebind, TypeRest
  <2>3. CASE Execute(o) \/ \E l \in {"idle", "failed"} : EndStatement(o, l)
    BY <2>3 DEF Frame, Execute, EndStatement, TypeRest
  <2>4. CASE RestorePrior(o)
    BY <2>4, FrameManager DEF Frame, RestorePrior, TypeRest
  <2>5. CASE Deregister(o)
    BY <2>5 DEF Frame, Deregister, DeregisterFrom, TypeRest
  <2>6. CASE ReleaseOwner(o)
    BY <2>6, FrameManager DEF Frame, ReleaseOwner, TypeRest
  <2> QED BY <1>2, <2>1, <2>2, <2>3, <2>4, <2>5, <2>6 DEF Session
<1>3. CASE o \in Txn /\ Row(o)
  <2>1. ASSUME NEW x, RowWait(o, x) PROVE Frame(o)
    BY <2>1 DEF Frame, RowWait, TypeRest
  <2>2. ASSUME NEW l, RowLeave(o, l) PROVE Frame(o)
    BY <2>2 DEF Frame, RowLeave, TypeRest
  <2>3. ASSUME NEW r \in Resource, NEW m, TupleLock(o, r, m) PROVE Frame(o)
    BY <2>3 DEF Frame, TupleLock, TypeRest
  <2>4. ASSUME NEW r \in Resource, NEW m, NEW policy, TupleTry(o, r, m, policy)
        PROVE  Frame(o)
    BY <2>4 DEF Frame, TupleTry, TypeRest, GrantsTyped
  <2>5. ASSUME NEW i, RestoreTuples(o, i) PROVE Frame(o)
    <3>1. \A p \in Owner \ {o}, r \in Resource : grants'[r][p] = grants[r][p]
      BY <2>5 DEF RestoreTuples, GrantsTyped
    <3> QED BY <2>5, <3>1 DEF Frame, RestoreTuples, TypeRest
  <2>6. CASE WriteRow(o)
    BY <2>6 DEF Frame, WriteRow, TypeRest
  <2> QED BY <1>3, <2>1, <2>2, <2>3, <2>4, <2>5, <2>6
          DEF Row, RowProceed, RowDetect, RowCancel
<1>4. CASE o \in Txn /\ Savepoints(o)
  <2>1. ASSUME NEW n, Savepoint(o, n) PROVE Frame(o)
    BY <2>1 DEF Frame, Savepoint, TypeRest
  <2>2. ASSUME NEW n, RollbackRestore(o, n) PROVE Frame(o)
    <3>1. ASSUME NEW p \in Owner \ {o}
          PROVE  /\ p \in active_owners' <=> p \in active_owners
                 /\ \A r \in Resource : grants'[r][p] = grants[r][p]
                 /\ waits_for'[p] \subseteq waits_for[p]
      BY <2>2, FrameManager DEF RollbackRestore
    <3> QED BY <2>2, <3>1 DEF Frame, RollbackRestore, TypeRest
  <2>3. ASSUME NEW i, ReleaseSavepoint(o, i) PROVE Frame(o)
    BY <2>3 DEF Frame, ReleaseSavepoint, TypeRest
  <2>4. ASSUME NEW i, RollbackTo(o, i) PROVE Frame(o)
    BY <2>4 DEF Frame, RollbackTo, DeregisterFrom, TypeRest
  <2> QED BY <1>4, <2>1, <2>2, <2>3, <2>4 DEF Savepoints
<1> QED BY <1>1, <1>2, <1>3, <1>4 DEF Step

(* What an owner keeps of its own does not depend on the others.           *)
LEMMA OthersLocal ==
    ASSUME NEW o \in Owner, NEW p \in Owner \ {o}, Frame(o),
           Place(p), Restorable(p)
    PROVE  Place(p)' /\ Restorable(p)'
<1>1. /\ pc'[p] = pc[p] /\ base'[p] = base[p] /\ stack'[p] = stack[p]
      /\ receipts'[p] = receipts[p]
      /\ p \in active_owners' <=> p \in active_owners
      /\ \A r \in Resource : grants'[r][p] = grants[r][p]
      /\ waits_for'[p] \subseteq waits_for[p]
  BY DEF Frame
<1>2. Place(p)'
  BY <1>1 DEF Place
<1>3. \A s : Keeps(p, s) => Keeps(p, s)'
  BY <1>1 DEF Keeps
<1> QED BY <1>1, <1>2, <1>3 DEF Restorable

(* The snapshots of the levels are typed.                                  *)
LEMMA LevelTyped ==
    ASSUME TypeRest, NEW o \in Owner, NEW i \in 1 .. Len(stack[o]),
           stack[o][i].snap # NoSnap
    PROVE  stack[o][i].snap \in Snapshots
<1>1. stack[o] \in Seq(Levels)
  BY DEF TypeRest
<1>2. stack[o][i] \in Levels
  BY <1>1
<1> QED BY <1>2 DEF Levels

(* Restorable from what every kept snapshot becomes, levels unchanged.     *)
LEMMA RestorableFrom ==
    ASSUME TypeRest, NEW o \in Owner, Restorable(o), stack'[o] = stack[o],
           \A s \in Snapshots : Keeps(o, s) => Keeps(o, s)',
           base'[o] # NoSnap =>
               /\ o \in active_owners'
               /\ \A r \in Resource : base'[o][r] <= grants'[r][o]
    PROVE  Restorable(o)'
<1>1. ASSUME NEW i \in 1 .. Len(stack[o]), stack[o][i].snap # NoSnap
      PROVE  Keeps(o, stack[o][i].snap)'
  <2>1. PICK s : s = stack[o][i].snap
    OBVIOUS
  <2>2. s \in Snapshots /\ Keeps(o, s)
    BY <1>1, <2>1, LevelTyped DEF Restorable
  <2>3. Keeps(o, s)'
    BY <2>2
  <2>4. s = stack'[o][i].snap
    BY <2>1
  <2> QED BY <2>3, <2>4 DEF Keeps
<1>2. Nested(stack'[o])
  BY DEF Restorable
<1> QED BY <1>1, <1>2 DEF Restorable

(* Raised grants and a receipt of what was held before keep every snapshot *)
(* restorable, as do dropped receipts and a dropped or fresh base.         *)
LEMMA RestorableRaised ==
    ASSUME TypeRest, GrantsTyped(grants), GrantsTyped(grants)', NEW o \in Owner,
           Restorable(o), stack'[o] = stack[o],
           o \in active_owners => o \in active_owners',
           \A r \in Resource : grants[r][o] <= grants'[r][o],
           \/ receipts'[o] = receipts[o]
           \/ receipts'[o] = <<>>
           \/ \E r \in Resource :
                 receipts'[o] = Append(receipts[o],
                                   [res |-> r, previous |-> grants[r][o]]),
           \/ base'[o] = base[o]
           \/ base'[o] = NoSnap
           \/ /\ base'[o] = owner_snapshot(o)
              /\ o \in active_owners'
    PROVE  Restorable(o)'
<1>0. \A r \in Resource :
         grants[r][o] \in 0 .. 5 /\ grants'[r][o] \in 0 .. 5
  BY DEF GrantsTyped, Modes
<1>1. ASSUME NEW s \in Snapshots, Keeps(o, s) PROVE Keeps(o, s)'
  <2>0. \A r \in Resource : s[r] \in 0 .. 5
    BY SnapshotsFacts DEF Modes
  <2>1. \A r \in Resource : s[r] <= grants'[r][o]
    BY <1>0, <1>1, <2>0 DEF Keeps
  <2>2. base'[o] # NoSnap => Below(s, base'[o])
    BY <1>1 DEF Keeps, Below, owner_snapshot
  <2>3. \A k \in 1 .. Len(receipts'[o]) :
           s[receipts'[o][k].res] <= receipts'[o][k].previous
    <3>1. CASE receipts'[o] = receipts[o] \/ receipts'[o] = <<>>
      BY <1>1, <3>1 DEF Keeps
    <3>2. ASSUME NEW r \in Resource,
                 receipts'[o] = Append(receipts[o],
                                   [res |-> r, previous |-> grants[r][o]])
          PROVE  \A k \in 1 .. Len(receipts'[o]) :
                    s[receipts'[o][k].res] <= receipts'[o][k].previous
      <4>1. receipts[o] \in Seq(Receipts)
        BY DEF TypeRest
      <4>2. PICK x : x = [res |-> r, previous |-> grants[r][o]]
        OBVIOUS
      <4>3. s[x.res] <= x.previous
        BY <1>1, <4>2 DEF Keeps
      <4>4. ASSUME NEW k \in 1 .. Len(receipts'[o])
            PROVE  \/ k \in 1 .. Len(receipts[o]) /\ receipts'[o][k] = receipts[o][k]
                   \/ receipts'[o][k] = x
        BY <3>2, <4>1, <4>2
      <4> QED BY <1>1, <4>3, <4>4 DEF Keeps
    <3> QED BY <3>1, <3>2
  <2> QED BY <1>1, <2>1, <2>2, <2>3 DEF Keeps
<1>2. base'[o] # NoSnap =>
         /\ o \in active_owners'
         /\ \A r \in Resource : base'[o][r] <= grants'[r][o]
  <2>1. CASE base'[o] = base[o] /\ base[o] # NoSnap
    <3>1. base[o] \in Snapshots
      BY <2>1 DEF TypeRest
    <3>2. \A r \in Resource : base[o][r] \in 0 .. 5
      BY <3>1, SnapshotsFacts DEF Modes
    <3> QED BY <1>0, <2>1, <3>2 DEF Restorable
  <2>2. CASE base'[o] = owner_snapshot(o) /\ o \in active_owners'
    BY <2>2 DEF owner_snapshot
  <2> QED BY <2>1, <2>2
<1> QED BY <1>1, <1>2, RestorableFrom

(* Undoing the acquisition of a statement: the base is above the outer     *)
(* snapshots, and there are no receipts while there is a base.             *)
LEMMA RestorableUndone ==
    ASSUME TypeRest, GrantsTyped(grants), NEW o \in Owner, Restorable(o),
           Quiet(o), base[o] # NoSnap, RestoreOwner(o, base[o]),
           stack'[o] = stack[o], receipts'[o] = receipts[o],
           base'[o] = base[o] \/ base'[o] = NoSnap
    PROVE  Restorable(o)'
<1>1. \A r \in Resource : grants'[r][o] = base[o][r]
  BY DEF RestoreOwner, RestoredGrants, GrantsTyped
<1>2. active_owners' = active_owners /\ receipts'[o] = <<>>
  BY DEF RestoreOwner, Quiet
<1>3. base[o] \in Snapshots
  BY DEF TypeRest
<1>4. \A r \in Resource : base[o][r] \in 0 .. 5
  BY <1>3, SnapshotsFacts DEF Modes
<1>5. ASSUME NEW s \in Snapshots, Keeps(o, s) PROVE Keeps(o, s)'
  BY <1>1, <1>2, <1>5 DEF Keeps, Below
<1>6. base'[o] # NoSnap =>
         /\ o \in active_owners'
         /\ \A r \in Resource : base'[o][r] <= grants'[r][o]
  BY <1>1, <1>2, <1>4 DEF Restorable
<1> QED BY <1>5, <1>6, RestorableFrom

(* What undoing the receipts from i on leaves of the owner's grants.       *)
LEMMA UndoneTuples ==
    ASSUME TypeRest, GrantsTyped(grants), NEW o \in Owner, NEW i,
           RestoreTuples(o, i)
    PROVE  \A r \in Resource :
              \/ grants'[r][o] = grants[r][o]
              \/ \E k \in 1 .. Len(receipts[o]) :
                    /\ receipts[o][k].res = r
                    /\ grants'[r][o] = receipts[o][k].previous
<1> DEFINE undone(r) == {j \in i .. Len(receipts[o]) : receipts[o][j].res = r}
           first(r) == CHOOSE j \in undone(r) : \A k \in undone(r) : j <= k
<1>1. receipts[o] \in Seq(Receipts) /\ i \in 1 .. Len(receipts[o])
  BY DEF RestoreTuples, TypeRest
<1>2. grants' = [r \in Resource |->
                    IF undone(r) = {} THEN grants[r]
                    ELSE [grants[r] EXCEPT
                            ![o] = receipts[o][first(r)].previous]]
  BY DEF RestoreTuples
<1>3. ASSUME NEW r \in Resource, undone(r) # {}
      PROVE  first(r) \in 1 .. Len(receipts[o]) /\ receipts[o][first(r)].res = r
  <2>1. undone(r) \in SUBSET Nat
    BY <1>1
  <2>2. first(r) \in undone(r)
    BY <1>3, <2>1, FirstExists
  <2> HIDE DEF first
  <2> QED BY <1>1, <2>2
<1>4. ASSUME NEW r \in Resource
      PROVE  \/ grants'[r][o] = grants[r][o]
             \/ undone(r) # {} /\ grants'[r][o] = receipts[o][first(r)].previous
  BY <1>2 DEF GrantsTyped
<1> HIDE DEF undone, first
<1> QED BY <1>3, <1>4

(* Undone tuple locks go back to modes above every snapshot.               *)
LEMMA RestorableTuples ==
    ASSUME TypeRest, GrantsTyped(grants), NEW o \in Owner, Restorable(o),
           Quiet(o), NEW i, RestoreTuples(o, i)
    PROVE  Restorable(o)'
<1>1. /\ base'[o] = NoSnap /\ base[o] = NoSnap /\ stack'[o] = stack[o]
      /\ active_owners' = active_owners /\ i \in 1 .. Len(receipts[o])
      /\ receipts'[o] = SubSeq(receipts[o], 1, i - 1)
  BY DEF RestoreTuples, Quiet, TypeRest
<1>2. receipts[o] \in Seq(Receipts)
  BY DEF TypeRest
<1>3. ASSUME NEW k \in 1 .. Len(receipts'[o])
      PROVE  k \in 1 .. Len(receipts[o]) /\ receipts'[o][k] = receipts[o][k]
  BY <1>1, <1>2, SubSeqProperties
<1>4. ASSUME NEW s \in Snapshots, Keeps(o, s) PROVE Keeps(o, s)'
  <2>1. \A r \in Resource : s[r] <= grants'[r][o]
    BY <1>4, UndoneTuples DEF Keeps
  <2> QED BY <1>1, <1>3, <1>4, <2>1 DEF Keeps
<1> QED BY <1>1, <1>4, RestorableFrom

(* Discarding inner levels, receipts and the base.                         *)
LEMMA RestorablePrefix ==
    ASSUME TypeRest, NEW o \in Owner, Restorable(o),
           NEW k \in 0 .. Len(stack[o]), stack'[o] = SubSeq(stack[o], 1, k),
           active_owners' = active_owners, grants' = grants,
           receipts'[o] = receipts[o] \/ receipts'[o] = <<>>,
           base'[o] = base[o] \/ base'[o] = NoSnap
    PROVE  Restorable(o)'
<1>1. stack[o] \in Seq(Levels)
  BY DEF TypeRest
<1>2. /\ Len(stack'[o]) = k
      /\ \A i \in 1 .. k : stack'[o][i] = stack[o][i] /\ i \in 1 .. Len(stack[o])
  BY <1>1, SubSeqProperties
<1>3. \A s : Keeps(o, s) => Keeps(o, s)'
  BY DEF Keeps
<1>4. Nested(stack'[o])
  BY <1>1, <1>2 DEF Restorable, Nested
<1>5. ASSUME NEW i \in 1 .. k, stack'[o][i].snap # NoSnap
      PROVE  Keeps(o, stack[o][i].snap)'
  <2>1. PICK s : s = stack[o][i].snap
    OBVIOUS
  <2>2. s = stack'[o][i].snap /\ Keeps(o, s)
    BY <1>2, <1>5, <2>1 DEF Restorable
  <2>3. Keeps(o, s)'
    BY <1>3, <2>2
  <2> QED BY <2>2, <2>3 DEF Keeps
<1> QED BY <1>2, <1>4, <1>5 DEF Restorable

(* A new savepoint level is above every other.                             *)
LEMMA RestorableSavepoint ==
    ASSUME TypeRest, GrantsTyped(grants), NEW o \in Owner, Restorable(o),
           Place(o), Quiet(o), NEW n, Savepoint(o, n)
    PROVE  Restorable(o)'
<1> DEFINE top == Len(stack[o]) + 1
<1>0. PICK level : level = [xid |-> n,
                     snap |-> IF o \in active_owners THEN owner_snapshot(o)
                              ELSE NoSnap]
  OBVIOUS
<1>1. /\ stack[o] \in Seq(Levels) /\ Len(stack[o]) \in Nat
      /\ stack'[o] = Append(stack[o], level)
      /\ base'[o] = base[o] /\ receipts'[o] = receipts[o]
      /\ active_owners' = active_owners /\ grants' = grants
      /\ pc[o] = "idle"
  BY <1>0 DEF Savepoint, TypeRest, lmVars
<1>2. /\ Len(stack'[o]) = top /\ stack'[o][top] = level
      /\ \A i \in 1 .. Len(stack[o]) : stack'[o][i] = stack[o][i]
  BY <1>1
<1>3. \A i \in 1 .. top : i \in 1 .. Len(stack[o]) \/ i = top
  BY <1>1
<1>4. base[o] = NoSnap
  BY <1>1 DEF Place
<1>5. \A s : o \in active_owners /\ (\A r \in Resource : s[r] <= grants[r][o])
               => Keeps(o, s)'
  BY <1>1, <1>4 DEF Keeps, Quiet
<1>6. o \in active_owners => level.snap = owner_snapshot(o) /\ level.snap # NoSnap
  <2>1. owner_snapshot(o) \in [Resource -> Modes]
    BY DEF owner_snapshot, GrantsTyped
  <2> QED BY <1>0, <2>1, NoSnapAssumption
<1>7. o \notin active_owners => level.snap = NoSnap
  BY <1>0
<1>8. ASSUME NEW i \in 1 .. top, stack'[o][i].snap # NoSnap
      PROVE  /\ o \in active_owners
             /\ \A r \in Resource : stack'[o][i].snap[r] <= grants[r][o]
  <2>1. CASE i \in 1 .. Len(stack[o])
    BY <1>2, <1>8, <2>1 DEF Restorable, Keeps
  <2>2. CASE i = top
    BY <1>2, <1>6, <1>7, <1>8, <2>2 DEF owner_snapshot, GrantsTyped, Modes
  <2> QED BY <1>3, <2>1, <2>2
<1>9. ASSUME NEW i \in 1 .. top, stack'[o][i].snap # NoSnap
      PROVE  Keeps(o, stack[o][i].snap)'
  <2>1. PICK s : s = stack'[o][i].snap
    OBVIOUS
  <2>2. Keeps(o, s)'
    BY <1>5, <1>8, <1>9, <2>1
  <2> QED BY <2>1, <2>2 DEF Keeps
<1>10. Nested(stack'[o])
  <2>1. ASSUME NEW i \in 1 .. top, stack'[o][i].snap # NoSnap, NEW j \in i .. top
        PROVE  /\ stack'[o][j].snap # NoSnap
               /\ Below(stack'[o][i].snap, stack'[o][j].snap)
    <3>1. CASE j \in 1 .. Len(stack[o])
      <4>1. i \in 1 .. Len(stack[o]) /\ j \in i .. Len(stack[o])
        BY <1>1, <3>1
      <4> QED BY <1>2, <2>1, <4>1 DEF Restorable, Nested
    <3>2. CASE j = top
      <4>1. /\ stack'[o][j].snap = owner_snapshot(o)
            /\ stack'[o][j].snap # NoSnap
            /\ \A r \in Resource : stack'[o][i].snap[r] <= grants[r][o]
        BY <1>2, <1>6, <1>8, <2>1, <3>2
      <4> QED BY <4>1 DEF Below, owner_snapshot
    <3> QED BY <1>1, <2>1, <3>1, <3>2
  <2> QED BY <1>2, <2>1 DEF Nested
<1> QED BY <1>1, <1>2, <1>4, <1>9, <1>10 DEF Restorable

(* ROLLBACK TO can always restore its level.                               *)
LEMMA RollbackOk ==
    ASSUME TypeRest, GrantsTyped(grants), NEW o \in Owner, Restorable(o),
           NEW n, RollbackRestore(o, n)
    PROVE  /\ stack[o] \in Seq(Levels) /\ Len(stack[o]) \in Nat \ {0}
           /\ stack'[o] = [stack[o] EXCEPT ![Len(stack[o])].xid = n]
           /\ live'[o] = live[o] \cup {n} /\ pc'[o] = "idle"
           /\ \/ /\ stack[o][Len(stack[o])].snap = NoSnap
                 /\ DropGuard(o)
              \/ /\ stack[o][Len(stack[o])].snap \in Snapshots
                 /\ stack[o][Len(stack[o])].snap # NoSnap
                 /\ o \in active_owners
                 /\ RestoreOwner(o, stack[o][Len(stack[o])].snap)
<1> DEFINE top == Len(stack[o])
           snap == stack[o][top].snap
           ok == snap = NoSnap \/ (o \in active_owners /\ can_restore(o, snap))
<1>1. stack[o] \in Seq(Levels) /\ stack[o] # <<>>
  BY DEF RollbackRestore, TypeRest
<1>2. top \in Nat \ {0} /\ top \in 1 .. Len(stack[o])
  BY <1>1
<1>3. snap # NoSnap =>
         /\ o \in active_owners /\ can_restore(o, snap) /\ snap \in Snapshots
  <2>1. ASSUME snap # NoSnap
        PROVE  o \in active_owners /\ \A r \in Resource : snap[r] <= grants[r][o]
    BY <1>2, <2>1 DEF Restorable, Keeps
  <2>2. ASSUME snap # NoSnap PROVE snap \in Snapshots
    BY <1>2, <2>2, LevelTyped
  <2>3. ASSUME snap # NoSnap PROVE can_restore(o, snap)
    <3>1. \A r \in Resource : snap[r] \in 0 .. 5 /\ grants[r][o] \in 0 .. 5
      BY <2>2, <2>3, SnapshotsFacts DEF GrantsTyped, Modes
    <3> HIDE DEF snap
    <3> QED BY <2>1, <2>3, <3>1 DEF can_restore, covers
  <2> QED BY <2>1, <2>2, <2>3
<1>4. ok
  BY <1>3
<1>5. /\ stack' = [stack EXCEPT ![o] = IF ok THEN [@ EXCEPT ![top].xid = n]
                                      ELSE SubSeq(@, 1, top - 1)]
      /\ live' = IF ok THEN [live EXCEPT ![o] = @ \cup {n}] ELSE live
      /\ pc' = [pc EXCEPT ![o] = IF ok THEN "idle" ELSE "failed"]
      /\ IF snap = NoSnap THEN DropGuard(o)
         ELSE IF ok THEN RestoreOwner(o, snap)
         ELSE UNCHANGED lmVars
  BY DEF RollbackRestore, Goto
<1> HIDE DEF ok, snap, top
<1>6. /\ stack'[o] = [stack[o] EXCEPT ![top].xid = n]
      /\ live'[o] = live[o] \cup {n} /\ pc'[o] = "idle"
  BY <1>4, <1>5 DEF TypeRest
<1>7. \/ snap = NoSnap /\ DropGuard(o)
      \/ /\ snap \in Snapshots /\ snap # NoSnap /\ o \in active_owners
         /\ RestoreOwner(o, snap)
  BY <1>3, <1>4, <1>5
<1> QED BY <1>1, <1>2, <1>6, <1>7 DEF top, snap

(* ROLLBACK TO goes back to its level, which is above the outer ones.      *)
LEMMA RestorableRollback ==
    ASSUME TypeRest, GrantsTyped(grants), NEW o \in Owner, Restorable(o),
           Place(o), Quiet(o), NEW n, RollbackRestore(o, n)
    PROVE  Restorable(o)'
<1> DEFINE top == Len(stack[o])
           snap == stack[o][top].snap
<1>0. pc[o] = "rolling" /\ base' = base /\ receipts' = receipts
  BY DEF RollbackRestore
<1>1. base[o] = NoSnap /\ receipts[o] = <<>>
  BY <1>0 DEF Place, Quiet
<1>2. /\ stack[o] \in Seq(Levels) /\ top \in Nat \ {0}
      /\ stack'[o] = [stack[o] EXCEPT ![top].xid = n]
  BY RollbackOk
<1>3. stack[o][top] \in Levels
  BY <1>2
<1>4. Len(stack'[o]) = top /\ \A i \in 1 .. top : stack'[o][i].snap = stack[o][i].snap
  BY <1>2, <1>3 DEF Levels
<1>5. Nested(stack'[o])
  BY <1>4 DEF Restorable, Nested
<1>6. ASSUME NEW i \in 1 .. top, stack[o][i].snap # NoSnap
      PROVE  Keeps(o, stack[o][i].snap)'
  <2>0. PICK s : s = stack[o][i].snap
    OBVIOUS
  <2>1. snap # NoSnap /\ Below(s, snap)
    BY <1>2, <1>6, <2>0 DEF Restorable, Nested
  <2>2. o \in active_owners /\ RestoreOwner(o, snap)
    BY <2>1, RollbackOk
  <2>3. \A r \in Resource : grants'[r][o] = snap[r]
    BY <2>2 DEF RestoreOwner, RestoredGrants, GrantsTyped
  <2>4. o \in active_owners'
    BY <2>2 DEF RestoreOwner
  <2>5. Keeps(o, s)'
    BY <1>0, <1>1, <2>1, <2>3, <2>4 DEF Keeps, Below
  <2>6. s = stack'[o][i].snap
    BY <1>4, <2>0
  <2> QED BY <2>5, <2>6 DEF Keeps
<1> QED BY <1>0, <1>1, <1>4, <1>5, <1>6 DEF Restorable

(* Releasing the guard, and what is left of the owner then.                *)
LEMMA Released ==
    ASSUME TypeRest, GrantsTyped(grants), NEW o \in Owner, DropGuard(o),
           o \notin active_owners => \A r \in Resource : grants[r][o] = NoMode
    PROVE  /\ o \notin active_owners'
           /\ \A r \in Resource : grants'[r][o] = NoMode
           /\ waits_for[o] = {} => waits_for'[o] = {}
BY DEF DropGuard, release_owner, lmVars, TypeRest, GrantsTyped

(* Every step keeps what its owner keeps of its own.                       *)
LEMMA LocalStep ==
    ASSUME TypeRest, GrantsTyped(grants), GrantsTyped(grants)',
           NEW o \in Owner, Quiet(o), Place(o), Restorable(o), Step(o)
    PROVE  Place(o)' /\ Restorable(o)'
<1> USE DEF Goto, Spend, lmVars, regVars, sessVars
<1>0. \A r \in Resource :
         /\ grants[r][o] \in 0 .. 5
         /\ \A m \in GrantModes(r) : grants[r][o] <= strongest(grants[r][o], m)
  <2>1. \A r \in Resource : GrantModes(r) \subseteq 0 .. 5
    BY GrantModesFacts DEF Modes
  <2> QED BY <2>1 DEF GrantsTyped, Modes, strongest
<1>00. \A r \in Resource : pending[o][r] \in GrantModes(r)
  BY SnapshotsFacts DEF TypeRest
<1>1. CASE Lock(o)
  <2>1. ASSUME NEW r \in Resource,
               AcquireCovered(o, r) \/ AcquireFree(o, r) \/ WakeGrant(o, r)
        PROVE  Place(o)' /\ Restorable(o)'
    <3>1. /\ Served(o, r) /\ pc[o] \in {"acquiring", "waiting"}
          /\ pc[o] = "acquiring" \/ waits_for'[o] = {}
          /\ waits_for' = waits_for \/ waits_for'[o] = {}
          /\ grants' = grants \/
                grants' = [grants EXCEPT ![r][o] = strongest(@, pending[o][r])]
          /\ base' = base /\ stack' = stack /\ active_owners' = active_owners
      BY <2>1 DEF AcquireCovered, AcquireFree, WakeGrant, GrantRequest, TypeRest
    <3>2. pc'[o] \in {"exec", "locked", "acquiring"}
      BY <3>1 DEF Served, After, TypeRest
    <3>3. \A s \in Resource : grants[s][o] <= grants'[s][o]
      BY <1>0, <1>00, <3>1 DEF GrantsTyped
    <3>4. \/ receipts'[o] = receipts[o]
          \/ receipts'[o] = Append(receipts[o],
                                   [res |-> r, previous |-> grants[r][o]])
      BY <3>1 DEF Served, TypeRest
    <3>5. Place(o)'
      BY <3>1, <3>2 DEF Place, Running
    <3> QED BY <3>1, <3>3, <3>4, <3>5, RestorableRaised
  <2>2. ASSUME NEW r \in Resource, AcquirePark(o, r) \/ WakePark(o, r)
        PROVE  Place(o)' /\ Restorable(o)'
    <3>1. Place(o)'
      BY <2>2 DEF AcquirePark, WakePark, Place, Running, TypeRest
    <3>2. /\ stack'[o] = stack[o] /\ active_owners' = active_owners
          /\ grants' = grants /\ receipts' = receipts /\ base' = base
      BY <2>2 DEF AcquirePark, WakePark
    <3> QED BY <1>0, <3>1, <3>2, RestorableRaised
  <2>3. CASE DetectDeadlock(o) \/ CancelAcquire(o)
    <3>1. Place(o)'
      BY <2>3 DEF DetectDeadlock, CancelAcquire, Withdraw, Place, Running, TypeRest
    <3>2. /\ stack'[o] = stack[o] /\ active_owners' = active_owners
          /\ grants' = grants /\ receipts' = receipts /\ base' = base
      BY <2>3 DEF DetectDeadlock, CancelAcquire
    <3> QED BY <1>0, <3>1, <3>2, RestorableRaised
  <2> QED BY <1>1, <2>1, <2>2, <2>3 DEF Lock
<1>2. CASE Session(o)
  <2>1. CASE Begin(o) \/ Execute(o) \/ \E l \in {"idle", "failed"} : EndStatement(o, l)
    <3>1. Place(o)'
      BY <2>1 DEF Begin, Execute, EndStatement, Place, Running, Quiet, TypeRest
    <3>2. /\ stack'[o] = stack[o] /\ grants' = grants
          /\ o \in active_owners => o \in active_owners'
          /\ receipts'[o] = receipts[o] \/ receipts'[o] = <<>>
          /\ base'[o] = base[o] \/ base'[o] = NoSnap
      BY <2>1 DEF Begin, Execute, EndStatement, TypeRest
    <3> QED BY <1>0, <3>1, <3>2, RestorableRaised
  <2>2. ASSUME NEW batch \in Batches, StartStatement(o, batch)
        PROVE  Place(o)' /\ Restorable(o)'
    <3>1. Place(o)'
      BY <2>2 DEF StartStatement, Place, Running, TypeRest
    <3>2. /\ stack'[o] = stack[o] /\ grants' = grants /\ receipts' = receipts
          /\ base'[o] = owner_snapshot(o) /\ o \in active_owners'
      BY <2>2 DEF StartStatement, TypeRest
    <3> QED BY <1>0, <3>1, <3>2, RestorableRaised
  <2>3. ASSUME NEW batch \in Batches, Rebind(o, batch)
        PROVE  Place(o)' /\ Restorable(o)'
    <3>1. Place(o)'
      BY <2>3 DEF Rebind, RestoreOwner, Place, Running, TypeRest
    <3>2. /\ stack' = stack /\ receipts' = receipts /\ base' = base
          /\ base[o] # NoSnap /\ RestoreOwner(o, base[o])
      BY <2>3 DEF Rebind
    <3> QED BY <3>1, <3>2, RestorableUndone
  <2>4. CASE RestorePrior(o)
    <3>1. o \in active_owners
      BY <2>4 DEF RestorePrior, Restorable
    <3>2. Place(o)'
      BY <2>4, <3>1 DEF RestorePrior, RestoreOwner, Place, Running, TypeRest
    <3>3. /\ stack' = stack /\ receipts' = receipts /\ base'[o] = NoSnap
          /\ base[o] # NoSnap /\ RestoreOwner(o, base[o])
      BY <2>4 DEF RestorePrior, TypeRest
    <3> QED BY <3>2, <3>3, RestorableUndone
  <2>5. CASE Deregister(o)
    <3>1. Place(o)'
      BY <2>5 DEF Deregister, Place, Running, TypeRest
    <3>2. stack'[o] = <<>> /\ base'[o] = NoSnap
      BY <2>5 DEF Deregister, TypeRest
    <3> QED BY <3>1, <3>2 DEF Restorable, Nested
  <2>6. CASE ReleaseOwner(o)
    <3>1. /\ pc[o] = "ending" /\ pc'[o] = "none" /\ DropGuard(o)
          /\ base' = base /\ stack' = stack
      BY <2>6 DEF ReleaseOwner, TypeRest
    <3>2. Place(o)'
      BY <3>1, Released DEF Place, Running
    <3> QED BY <3>1, <3>2 DEF Restorable, Nested, Place
  <2> QED BY <1>2, <2>1, <2>2, <2>3, <2>4, <2>5, <2>6 DEF Session
<1>3. CASE Row(o)
  <2>1. ASSUME NEW x, RowWait(o, x) PROVE Place(o)' /\ Restorable(o)'
    <3>1. Place(o)'
      BY <2>1 DEF RowWait, Place, Running, TypeRest
    <3>2. /\ stack' = stack /\ active_owners' = active_owners
          /\ grants' = grants /\ receipts' = receipts /\ base' = base
      BY <2>1 DEF RowWait
    <3> QED BY <1>0, <3>1, <3>2, RestorableRaised
  <2>2. ASSUME NEW l \in {"exec", "victim", "failed"}, RowLeave(o, l),
               pc[o] = "rowwait"
        PROVE  Place(o)' /\ Restorable(o)'
    <3>1. Place(o)'
      BY <2>2 DEF RowLeave, Place, Running, TypeRest
    <3>2. /\ stack' = stack /\ active_owners' = active_owners
          /\ grants' = grants /\ receipts' = receipts /\ base' = base
      BY <2>2 DEF RowLeave
    <3> QED BY <1>0, <3>1, <3>2, RestorableRaised
  <2>3. ASSUME NEW r \in Resource, NEW m, TupleLock(o, r, m)
        PROVE  Place(o)' /\ Restorable(o)'
    <3>1. Place(o)'
      BY <2>3 DEF TupleLock, Place, Running, TypeRest
    <3>2. /\ stack' = stack /\ active_owners' = active_owners
          /\ grants' = grants /\ receipts' = receipts /\ base' = base
      BY <2>3 DEF TupleLock
    <3> QED BY <1>0, <3>1, <3>2, RestorableRaised
  <2>4. ASSUME NEW r \in Resource, NEW m \in Menu[r], NEW policy,
               TupleTry(o, r, m, policy)
        PROVE  Place(o)' /\ Restorable(o)'
    <3>0. m \in GrantModes(r)
      BY MenuAssumption, GrantModesFacts
    <3>1. /\ pc[o] = "exec" /\ pc'[o] \in {"exec", "failed"}
          /\ stack' = stack /\ active_owners' = active_owners
          /\ base' = base /\ waits_for' = waits_for
          /\ \/ grants' = grants
             \/ grants' = [grants EXCEPT ![r][o] = strongest(@, m)]
          /\ \/ receipts'[o] = receipts[o]
             \/ receipts'[o] = Append(receipts[o],
                                   [res |-> r, previous |-> grants[r][o]])
      BY <2>4 DEF TupleTry, TypeRest
    <3>2. Place(o)'
      BY <3>1 DEF Place, Running
    <3>3. \A s \in Resource : grants[s][o] <= grants'[s][o]
      BY <1>0, <3>0, <3>1 DEF GrantsTyped
    <3> QED BY <3>1, <3>2, <3>3, RestorableRaised
  <2>5. ASSUME NEW i, RestoreTuples(o, i) PROVE Place(o)' /\ Restorable(o)'
    <3>1. Place(o)'
      BY <2>5 DEF RestoreTuples, Place, Running, TypeRest
    <3> QED BY <2>5, <3>1, RestorableTuples
  <2>6. CASE WriteRow(o)
    <3>1. Place(o)'
      BY <2>6 DEF WriteRow, Place
    <3>2. /\ stack' = stack /\ active_owners' = active_owners
          /\ grants' = grants /\ receipts' = receipts /\ base' = base
      BY <2>6 DEF WriteRow
    <3> QED BY <1>0, <3>1, <3>2, RestorableRaised
  <2> QED BY <1>3, <2>1, <2>2, <2>3, <2>4, <2>5, <2>6
          DEF Row, RowProceed, RowDetect, RowCancel
<1>4. CASE Savepoints(o)
  <2>1. ASSUME NEW n, Savepoint(o, n) PROVE Place(o)' /\ Restorable(o)'
    <3>1. Place(o)'
      BY <2>1 DEF Savepoint, Place
    <3> QED BY <2>1, <3>1, RestorableSavepoint
  <2>2. ASSUME NEW n, RollbackRestore(o, n) PROVE Place(o)' /\ Restorable(o)'
    <3>1. /\ pc[o] = "rolling" /\ pc'[o] = "idle" /\ base' = base
      BY <2>2, RollbackOk DEF RollbackRestore
    <3>2. ASSUME DropGuard(o) PROVE Place(o)'
      BY <3>1, <3>2, Released DEF Place, Running
    <3>3. ASSUME NEW snap \in Snapshots, RestoreOwner(o, snap), o \in active_owners
          PROVE  Place(o)'
      BY <3>1, <3>3 DEF Place, RestoreOwner, Running, TypeRest
    <3>4. Place(o)'
      BY <2>2, <3>2, <3>3, RollbackOk
    <3> QED BY <2>2, <3>4, RestorableRollback
  <2>3. ASSUME NEW i, ReleaseSavepoint(o, i) PROVE Place(o)' /\ Restorable(o)'
    <3>0. i \in 1 .. Len(stack[o]) /\ stack[o] \in Seq(Levels)
      BY <2>3 DEF ReleaseSavepoint, TypeRest
    <3>1. Place(o)'
      BY <2>3 DEF ReleaseSavepoint, Place
    <3>2. i - 1 \in 0 .. Len(stack[o])
      BY <3>0
    <3>3. /\ stack'[o] = SubSeq(stack[o], 1, i - 1)
          /\ active_owners' = active_owners
          /\ grants' = grants /\ receipts' = receipts /\ base' = base
      BY <2>3 DEF ReleaseSavepoint, TypeRest
    <3> QED BY <3>1, <3>2, <3>3, RestorablePrefix
  <2>4. ASSUME NEW i, RollbackTo(o, i) PROVE Place(o)' /\ Restorable(o)'
    <3>0. i \in 1 .. Len(stack[o]) /\ stack[o] \in Seq(Levels)
      BY <2>4 DEF RollbackTo, TypeRest
    <3>1. Place(o)'
      BY <2>4 DEF RollbackTo, Place, Running, TypeRest
    <3>2. i \in 0 .. Len(stack[o])
      BY <3>0
    <3>3. /\ stack'[o] = SubSeq(stack[o], 1, i)
          /\ active_owners' = active_owners
          /\ grants' = grants /\ receipts'[o] = <<>> /\ base'[o] = NoSnap
      BY <2>4 DEF RollbackTo, TypeRest
    <3> QED BY <3>1, <3>2, <3>3, RestorablePrefix
  <2> QED BY <1>4, <2>1, <2>2, <2>3, <2>4 DEF Savepoints
<1> QED BY <1>1, <1>2, <1>3, <1>4 DEF Step

(* What every owner keeps of its own is inductive.                         *)
LEMMA LocalInvStep == LocalInv /\ [Next]_vars => LocalInv'
<1> SUFFICES ASSUME LocalInv, [Next]_vars PROVE LocalInv'
    OBVIOUS
<1>1. CompatInv /\ CompatInv' /\ TypeOK /\ TypeOK'
  BY CompatStep DEF LocalInv, CompatInv
<1>2. TypeOK' => GrantsTyped(grants)'
  BY TypeOKSplit, PTL
<1>3. TypeRest /\ GrantsTyped(grants) /\ GrantsTyped(grants)'
  BY <1>1, <1>2, TypeOKSplit
<1>4. \A o \in Owner : Quiet(o) /\ Place(o) /\ Restorable(o)
  BY DEF LocalInv, CompatInv
<1>5. ASSUME NEW o \in Owner, Step(o), NEW p \in Owner
      PROVE  Place(p)' /\ Restorable(p)'
  <2>1. CASE p = o
    BY <1>3, <1>4, <1>5, <2>1, LocalStep
  <2>2. CASE p # o
    BY <1>3, <1>4, <1>5, <2>2, FrameStep, OthersLocal
  <2> QED BY <2>1, <2>2
<1>6. CASE Next
  BY <1>1, <1>5, <1>6, NextIsStep DEF LocalInv
<1>7. CASE UNCHANGED vars
  <2>1. \A o \in Owner : Place(o)'
    BY <1>4, <1>7 DEF vars, Place
  <2>2. \A o \in Owner : Restorable(o)'
    BY <1>4, <1>7 DEF vars, Restorable, Keeps
  <2> QED BY <1>1, <2>1, <2>2 DEF LocalInv
<1> QED BY <1>6, <1>7

(* The initial state has nothing to keep.                                  *)
LEMMA LocalInvInit == Init => LocalInv
<1> SUFFICES ASSUME Init PROVE LocalInv
    OBVIOUS
<1>1. GrantsCompatible
  BY DEF Init, GrantsCompatible
<1>2. \A o \in Owner : Quiet(o) /\ Ordered(o)
  BY DEF Init, Quiet, Ordered, NoRequest
<1>3. \A o \in Owner : Place(o)
  BY DEF Init, Place, Running
<1>4. \A o \in Owner : Restorable(o)
  BY DEF Init, Restorable, Nested
<1> QED BY <1>1, <1>2, <1>3, <1>4, InitType DEF LocalInv, CompatInv

(* ROLLBACK TO and the undoing of a failed acquisition can always restore  *)
(* what was captured: the two internal errors of restore_owner and         *)
(* handle_savepoint are unreachable, for any depth of savepoints, any      *)
(* number of tuple locks and any interleaving with other sessions.         *)
THEOREM SnapshotsAlwaysRestorable == Spec => []SnapshotsRestorable
<1>1. LocalInv => SnapshotsRestorable
  <2> SUFFICES ASSUME LocalInv, NEW o \in Owner
               PROVE  /\ \A i \in 1 .. Len(stack[o]) :
                            stack[o][i].snap # NoSnap =>
                                /\ o \in active_owners
                                /\ can_restore(o, stack[o][i].snap)
                      /\ base[o] # NoSnap =>
                            o \in active_owners /\ can_restore(o, base[o])
      BY DEF SnapshotsRestorable
  <2>1. TypeRest /\ GrantsTyped(grants)
    BY TypeOKSplit DEF LocalInv, CompatInv
  <2>2. ASSUME NEW s \in Snapshots, \A r \in Resource : s[r] <= grants[r][o]
        PROVE  can_restore(o, s)
    <3>1. \A r \in Resource : s[r] \in 0 .. 5 /\ grants[r][o] \in 0 .. 5
      BY <2>1, SnapshotsFacts DEF GrantsTyped, Modes
    <3> QED BY <2>2, <3>1 DEF can_restore, covers
  <2>3. ASSUME NEW i \in 1 .. Len(stack[o]), stack[o][i].snap # NoSnap
        PROVE  o \in active_owners /\ can_restore(o, stack[o][i].snap)
    <3>1. stack[o][i].snap \in Snapshots
      BY <2>1, <2>3, LevelTyped
    <3> QED BY <2>2, <2>3, <3>1 DEF LocalInv, Restorable, Keeps
  <2>4. ASSUME base[o] # NoSnap
        PROVE  o \in active_owners /\ can_restore(o, base[o])
    <3>1. base[o] \in Snapshots
      BY <2>1, <2>4 DEF TypeRest
    <3> QED BY <2>2, <2>4, <3>1 DEF LocalInv, Restorable
  <2> QED BY <2>3, <2>4
<1> QED BY <1>1, LocalInvInit, LocalInvStep, PTL DEF Spec

-----------------------------------------------------------------------------
(* The family of a transaction                                             *)
(*                                                                         *)
(* A row waiter waits for the top-level owner of the id it met.  That      *)
(* owner must still have its guard, or the edge would point to nobody:     *)
(* ROLLBACK TO drops the guard only when the level predates it, and then   *)
(* no id that has stamped a row is left.                                   *)

(* The owner's registered ids, its levels and the rows it has stamped.     *)
Family(o) ==
    /\ \A x \in wrote : x[1] = o => o \in active_owners /\ x[2] \in live[o]
    /\ pc[o] \in {"none", "ending"} => live[o] = {}
    /\ o \in Txn /\ pc[o] \notin {"none", "ending"} => 0 \in live[o]
    /\ pc[o] = "rolling" =>
          stack[o] # <<>> /\ \A m \in live[o] : m < stack[o][Len(stack[o])].xid
    /\ \A i \in 1 .. Len(stack[o]) :
          /\ stack[o][i].xid > 0
          /\ (i < Len(stack[o]) \/ pc[o] # "rolling") => stack[o][i].xid \in live[o]
          /\ \A j \in 1 .. Len(stack[o]) :
                i < j => stack[o][i].xid < stack[o][j].xid
          /\ stack[o][i].snap = NoSnap =>
                \A x \in wrote : x[1] = o => x[2] >= stack[o][i].xid

(* Steps that leave the owner's ids alone and do not lose its guard.       *)
LEMMA FamilyKept ==
    ASSUME NEW o \in Owner, Family(o), live'[o] = live[o],
           stack'[o] = stack[o], o \in active_owners => o \in active_owners',
           \A x \in wrote' : x[1] = o => x \in wrote,
           pc[o] \notin {"none", "ending", "rolling"},
           pc'[o] \notin {"none", "ending", "rolling"}
    PROVE  Family(o)'
BY DEF Family

(* A family id is a pair, its owner first.                                 *)
LEMMA WroteTyped ==
    ASSUME TypeRest, NEW x \in wrote
    PROVE  x = <<x[1], x[2]>> /\ x[1] \in Txn /\ x[2] \in 0 .. MaxXid
BY DEF TypeRest, Xid

(* Deregistration leaves the stamps of older ids only.                     *)
LEMMA DeregisterStamps ==
    ASSUME TypeRest, NEW o \in Owner, Family(o), NEW n \in Nat,
           DeregisterFrom(o, n), NEW x \in wrote', x[1] = o
    PROVE  x \in wrote /\ x[2] \in live'[o] /\ x[2] < n
<1>1. x \in wrote /\ x \notin {<<o, m>> : m \in {k \in live[o] : k >= n}}
  BY DEF DeregisterFrom
<1>2. x = <<o, x[2]>> /\ x[2] \in 0 .. MaxXid /\ x[2] \in live[o]
  BY <1>1, WroteTyped DEF Family
<1>3. x[2] < n
  BY <1>1, <1>2, BoundsAssumption
<1> QED BY <1>1, <1>2, <1>3 DEF DeregisterFrom, TypeRest

(* The ids of the levels are typed.                                        *)
LEMMA LevelXid ==
    ASSUME TypeRest, NEW o \in Owner, NEW i \in 1 .. Len(stack[o])
    PROVE  stack[o][i].xid \in 0 .. MaxXid /\ stack[o][i].xid \in Nat
<1>1. stack[o] \in Seq(Levels)
  BY DEF TypeRest
<1>2. stack[o][i] \in Levels
  BY <1>1
<1> QED BY <1>2, BoundsAssumption DEF Levels

(* The end of a transaction: its family is gone.                           *)
LEMMA FamilyEnds ==
    ASSUME TypeRest, NEW o \in Owner, Family(o), Place(o),
           Deregister(o) \/ ReleaseOwner(o)
    PROVE  Family(o)'
<1>1. CASE Deregister(o)
  <2>1. DeregisterFrom(o, 0) /\ stack'[o] = <<>> /\ pc'[o] = "ending"
    BY <1>1 DEF Deregister, Goto, TypeRest
  <2>2. live'[o] = {}
    BY <2>1, BoundsAssumption DEF DeregisterFrom, TypeRest
  <2>3. \A x \in wrote' : x[1] # o
    BY <2>1, <2>2, DeregisterStamps
  <2> QED BY <2>1, <2>2, <2>3 DEF Family
<1>2. CASE ReleaseOwner(o)
  <2>1. /\ pc[o] = "ending" /\ pc'[o] = "none" /\ live' = live
        /\ wrote' = wrote /\ stack' = stack
    BY <1>2 DEF ReleaseOwner, Goto, TypeRest, regVars
  <2>2. live[o] = {} /\ stack[o] = <<>> /\ \A x \in wrote : x[1] # o
    BY <2>1 DEF Family, Place
  <2> QED BY <2>1, <2>2 DEF Family
<1> QED BY <1>1, <1>2

(* A row is stamped with a registered id, as young as any level.           *)
LEMMA FamilyWrites ==
    ASSUME TypeRest, NEW o \in Txn, o \in Owner, Family(o), Place(o), WriteRow(o)
    PROVE  Family(o)'
<1>1. /\ pc[o] = "exec" /\ pc' = pc /\ live' = live /\ stack' = stack
      /\ active_owners' = active_owners
      /\ wrote' = wrote \cup {<<o, writing_xid(o)>>}
  BY DEF WriteRow, lmVars
<1>2. o \in active_owners
  BY <1>1 DEF Place, Running
<1>3. stack[o] \in Seq(Levels) /\ Len(stack[o]) \in Nat
  BY DEF TypeRest
<1>4. writing_xid(o) \in live[o] /\ writing_xid(o) \in Nat
  <2>1. CASE stack[o] = <<>>
    BY <1>1, <2>1 DEF writing_xid, Family
  <2>2. CASE stack[o] # <<>>
    <3>1. Len(stack[o]) \in 1 .. Len(stack[o])
      BY <1>3, <2>2
    <3> QED BY <1>1, <2>2, <3>1, LevelXid DEF writing_xid, Family
  <2> QED BY <2>1, <2>2
<1>5. ASSUME NEW i \in 1 .. Len(stack[o])
      PROVE  writing_xid(o) >= stack[o][i].xid
  <2>1. /\ Len(stack[o]) \in 1 .. Len(stack[o])
        /\ writing_xid(o) = stack[o][Len(stack[o])].xid
        /\ i < Len(stack[o]) \/ i = Len(stack[o])
    BY <1>3 DEF writing_xid
  <2>2. stack[o][i].xid \in Nat /\ stack[o][Len(stack[o])].xid \in Nat
    BY <2>1, LevelXid
  <2> QED BY <2>1, <2>2 DEF Family
<1>6. \A x \in wrote' : x[1] = o => x \in wrote \/ x[2] = writing_xid(o)
  BY <1>1
<1>7. \A x \in wrote' : x[1] = o => o \in active_owners /\ x[2] \in live[o]
  BY <1>2, <1>4, <1>6 DEF Family
<1>8. \A i \in 1 .. Len(stack[o]) : stack[o][i].snap = NoSnap =>
         \A x \in wrote' : x[1] = o => x[2] >= stack[o][i].xid
  BY <1>5, <1>6 DEF Family
<1> QED BY <1>1, <1>7, <1>8 DEF Family

(* A new level has the youngest id.                                        *)
LEMMA FamilySavepoint ==
    ASSUME TypeRest, GrantsTyped(grants), NEW o \in Owner, Family(o),
           NEW n \in Nat, Savepoint(o, n)
    PROVE  Family(o)'
<1> DEFINE top == Len(stack[o]) + 1
<1>0. PICK level : level = [xid |-> n,
                     snap |-> IF o \in active_owners THEN owner_snapshot(o)
                              ELSE NoSnap]
  OBVIOUS
<1>1. /\ stack[o] \in Seq(Levels) /\ Len(stack[o]) \in Nat
      /\ stack'[o] = Append(stack[o], level)
      /\ active_owners' = active_owners /\ wrote' = wrote
      /\ live'[o] = live[o] \cup {n} /\ pc[o] = "idle" /\ pc' = pc
  BY <1>0 DEF Savepoint, TypeRest, lmVars
<1>2. /\ Len(stack'[o]) = top /\ stack'[o][top] = level
      /\ \A i \in 1 .. Len(stack[o]) : stack'[o][i] = stack[o][i]
  BY <1>1
<1>3. \A i \in 1 .. top : i \in 1 .. Len(stack[o]) \/ i = top
  BY <1>1
<1>4. (n - 1) \in live[o] /\ live[o] \subseteq 0 .. MaxXid
      /\ \A m \in live[o] : m < n
  BY DEF Savepoint, Fresh, TypeRest
<1>5. n > 0 /\ level.xid = n
  BY <1>0, <1>4
<1>6. level.snap = NoSnap => \A x \in wrote : x[1] = o => x[2] >= level.xid
  <2>1. CASE o \in active_owners
    <3>1. owner_snapshot(o) \in [Resource -> Modes]
      BY DEF owner_snapshot, GrantsTyped
    <3> QED BY <1>0, <2>1, <3>1, NoSnapAssumption
  <2>2. CASE o \notin active_owners
    BY <2>2 DEF Family
  <2> QED BY <2>1, <2>2
<1>7. ASSUME NEW i \in 1 .. top
      PROVE  /\ stack'[o][i].xid > 0 /\ stack'[o][i].xid \in live'[o]
             /\ \A j \in 1 .. top : i < j => stack'[o][i].xid < stack'[o][j].xid
             /\ stack'[o][i].snap = NoSnap =>
                   \A x \in wrote : x[1] = o => x[2] >= stack'[o][i].xid
  <2>1. CASE i \in 1 .. Len(stack[o])
    <3>1. stack[o][i].xid \in live[o] /\ stack[o][i].xid < n
      BY <1>1, <1>4, <2>1 DEF Family
    <3>2. \A j \in 1 .. top : i < j => stack'[o][i].xid < stack'[o][j].xid
      BY <1>2, <1>3, <1>5, <2>1, <3>1 DEF Family
    <3> QED BY <1>1, <1>2, <2>1, <3>1, <3>2 DEF Family
  <2>2. CASE i = top
    BY <1>1, <1>2, <1>5, <1>6, <2>2
  <2> QED BY <1>3, <2>1, <2>2
<1>8. \A x \in wrote : x[1] = o => o \in active_owners /\ x[2] \in live'[o]
  BY <1>1 DEF Family
<1>9. o \in Txn => 0 \in live'[o]
  BY <1>1 DEF Family
<1> QED BY <1>1, <1>2, <1>7, <1>8, <1>9 DEF Family

(* Releasing a savepoint forgets levels, not ids.                          *)
LEMMA FamilyRelease ==
    ASSUME TypeRest, NEW o \in Owner, Family(o), NEW i, ReleaseSavepoint(o, i)
    PROVE  Family(o)'
<1>1. /\ stack[o] \in Seq(Levels) /\ i \in 1 .. Len(stack[o])
      /\ stack'[o] = SubSeq(stack[o], 1, i - 1)
      /\ active_owners' = active_owners /\ wrote' = wrote
      /\ live' = live /\ pc[o] = "idle" /\ pc' = pc
  BY DEF ReleaseSavepoint, TypeRest, lmVars, regVars
<1>2. /\ Len(stack'[o]) = i - 1
      /\ \A j \in 1 .. (i - 1) : stack'[o][j] = stack[o][j] /\ j \in 1 .. Len(stack[o])
  BY <1>1, SubSeqProperties
<1> QED BY <1>1, <1>2 DEF Family

(* ROLLBACK TO, first half: the ids from the level on are gone.            *)
LEMMA FamilyRollsBack ==
    ASSUME TypeRest, NEW o \in Owner, Family(o), NEW i, RollbackTo(o, i)
    PROVE  Family(o)'
<1>1. /\ stack[o] \in Seq(Levels) /\ i \in 1 .. Len(stack[o]) /\ i \in Nat
      /\ stack'[o] = SubSeq(stack[o], 1, i)
      /\ active_owners' = active_owners
      /\ DeregisterFrom(o, stack[o][i].xid)
      /\ pc[o] \in {"idle", "failed"} /\ pc'[o] = "rolling"
  BY DEF RollbackTo, TypeRest, lmVars, Goto
<1>2. /\ Len(stack'[o]) = i
      /\ \A j \in 1 .. i : stack'[o][j] = stack[o][j] /\ j \in 1 .. Len(stack[o])
  BY <1>1, SubSeqProperties
<1>3. PICK n \in Nat : n = stack[o][i].xid
  BY <1>1, LevelXid
<1>4. DeregisterFrom(o, n)
  BY <1>1, <1>3
<1>5. live'[o] = {k \in live[o] : k < n}
  BY <1>4 DEF DeregisterFrom, TypeRest
<1>6. \A x \in wrote' : x[1] = o => x \in wrote /\ x[2] \in live'[o]
  BY <1>4, DeregisterStamps
<1>7. n > 0
  BY <1>1, <1>3 DEF Family
<1>8. o \in Txn => 0 \in live'[o]
  BY <1>1, <1>5, <1>7 DEF Family
<1>9. ASSUME NEW j \in 1 .. i
      PROVE  /\ stack[o][j].xid > 0
             /\ j < i => stack[o][j].xid \in live'[o]
             /\ \A k \in 1 .. i : j < k => stack[o][j].xid < stack[o][k].xid
             /\ stack[o][j].snap = NoSnap =>
                   \A x \in wrote' : x[1] = o => x[2] >= stack[o][j].xid
  <2>1. j < i => stack[o][j].xid \in live'[o]
    BY <1>1, <1>2, <1>3, <1>5 DEF Family
  <2> QED BY <1>2, <1>6, <2>1 DEF Family
<1>10. stack'[o] # <<>> /\ \A m \in live'[o] : m < stack'[o][i].xid
  BY <1>1, <1>2, <1>3, <1>5
<1>11. \A x \in wrote' : x[1] = o => o \in active_owners
  BY <1>6 DEF Family
<1> QED BY <1>1, <1>2, <1>6, <1>8, <1>9, <1>10, <1>11 DEF Family

(* ROLLBACK TO, second half: the level gets a fresh id; the guard goes     *)
(* only if no stamped id is left.                                          *)
LEMMA FamilyRestores ==
    ASSUME TypeRest, GrantsTyped(grants), NEW o \in Owner, Family(o),
           Restorable(o), NEW n \in Nat, RollbackRestore(o, n)
    PROVE  Family(o)'
<1> DEFINE top == Len(stack[o])
<1>01. /\ stack[o] \in Seq(Levels) /\ top \in Nat \ {0}
       /\ stack'[o] = [stack[o] EXCEPT ![top].xid = n]
       /\ live'[o] = live[o] \cup {n} /\ pc'[o] = "idle"
  BY RollbackOk
<1>02. \/ stack[o][top].snap = NoSnap
       \/ o \in active_owners /\ RestoreOwner(o, stack[o][top].snap)
  BY RollbackOk
<1>03. pc[o] = "rolling" /\ wrote' = wrote
  BY DEF RollbackRestore
<1>1. /\ stack[o] \in Seq(Levels) /\ top \in Nat \ {0}
      /\ stack'[o] = [stack[o] EXCEPT ![top].xid = n]
      /\ live'[o] = live[o] \cup {n} /\ pc'[o] = "idle"
      /\ pc[o] = "rolling" /\ wrote' = wrote
      /\ \/ stack[o][top].snap = NoSnap
         \/ o \in active_owners /\ active_owners' = active_owners
  BY <1>01, <1>02, <1>03 DEF RestoreOwner
<1>2. stack[o][top] \in Levels
  BY <1>1
<1>3. /\ Len(stack'[o]) = top /\ stack'[o][top].xid = n
      /\ \A i \in 1 .. top : stack'[o][i].snap = stack[o][i].snap
      /\ \A i \in 1 .. top : i # top => stack'[o][i].xid = stack[o][i].xid
  BY <1>1, <1>2 DEF Levels
<1>4. (n - 1) \in live[o] /\ live[o] \subseteq 0 .. MaxXid
      /\ \A m \in live[o] : m < n
  BY DEF RollbackRestore, Fresh, TypeRest
<1>5. n > 0
  BY <1>4
<1>6. stack[o][top].snap = NoSnap => \A x \in wrote : x[1] # o
  <2>1. ASSUME NEW x \in wrote, x[1] = o, stack[o][top].snap = NoSnap PROVE FALSE
    <3>1. x[2] \in live[o] /\ x[2] < stack[o][top].xid
      BY <1>1, <2>1 DEF Family
    <3>2. top \in 1 .. Len(stack[o])
      BY <1>1
    <3>3. x[2] >= stack[o][top].xid
      BY <2>1, <3>2 DEF Family
    <3>4. x[2] \in Nat /\ stack[o][top].xid \in Nat
      BY <3>1, <3>2, <1>4, LevelXid, BoundsAssumption
    <3> HIDE DEF top
    <3> QED BY <3>1, <3>3, <3>4
  <2> QED BY <2>1
<1>7. \A x \in wrote : x[1] = o => o \in active_owners' /\ x[2] \in live'[o]
  BY <1>1, <1>6 DEF Family
<1>8. ASSUME NEW i \in 1 .. top
      PROVE  /\ stack'[o][i].xid > 0 /\ stack'[o][i].xid \in live'[o]
             /\ \A j \in 1 .. top : i < j => stack'[o][i].xid < stack'[o][j].xid
             /\ stack'[o][i].snap = NoSnap =>
                   \A x \in wrote : x[1] = o => x[2] >= stack'[o][i].xid
  <2>1. CASE i = top
    BY <1>1, <1>3, <1>5, <1>6, <2>1
  <2>2. CASE i # top
    <3>1. i < top /\ stack[o][i].xid \in live[o] /\ stack[o][i].xid < n
      BY <1>1, <1>4, <2>2 DEF Family
    <3>2. \A j \in 1 .. top : i < j => stack'[o][i].xid < stack'[o][j].xid
      BY <1>1, <1>3, <2>2, <3>1 DEF Family
    <3> QED BY <1>1, <1>3, <2>2, <3>1, <3>2 DEF Family
  <2> QED BY <2>1, <2>2
<1>9. o \in Txn => 0 \in live'[o]
  BY <1>1 DEF Family
<1> QED BY <1>1, <1>3, <1>7, <1>8, <1>9 DEF Family

(* Every step keeps the family of its owner in order.                      *)
LEMMA FamilyStep ==
    ASSUME TypeRest, GrantsTyped(grants), NEW o \in Owner, Place(o),
           Restorable(o), Family(o), Step(o)
    PROVE  Family(o)'
<1> USE DEF Goto, Spend, lmVars, regVars, sessVars
<1>1. CASE Lock(o)
  <2>1. ASSUME NEW r \in Resource,
               AcquireCovered(o, r) \/ AcquireFree(o, r) \/ WakeGrant(o, r)
        PROVE  Family(o)'
    <3>1. /\ Served(o, r) /\ pc[o] \in {"acquiring", "waiting"}
          /\ live' = live /\ wrote' = wrote /\ stack' = stack
          /\ active_owners' = active_owners
      BY <2>1 DEF AcquireCovered, AcquireFree, WakeGrant
    <3>2. pc'[o] \in {"exec", "locked", "acquiring"}
      BY <3>1 DEF Served, After, TypeRest
    <3> QED BY <3>1, <3>2, FamilyKept
  <2>2. ASSUME NEW r \in Resource, AcquirePark(o, r) \/ WakePark(o, r)
        PROVE  Family(o)'
    BY <2>2, FamilyKept DEF AcquirePark, WakePark, TypeRest
  <2>3. CASE DetectDeadlock(o) \/ CancelAcquire(o)
    BY <2>3, FamilyKept DEF DetectDeadlock, CancelAcquire, TypeRest
  <2> QED BY <1>1, <2>1, <2>2, <2>3 DEF Lock
<1>2. CASE Session(o)
  <2>1. CASE Begin(o)
    <3>1. /\ pc[o] = "none" /\ pc'[o] = "idle" /\ stack' = stack /\ wrote' = wrote
          /\ live'[o] = IF o \in Txn THEN {0} ELSE {}
      BY <2>1 DEF Begin, TypeRest
    <3>2. stack[o] = <<>> /\ \A x \in wrote : x[1] # o
      BY <3>1 DEF Family, Place
    <3> QED BY <3>1, <3>2 DEF Family
  <2>2. CASE Execute(o) \/ \E l \in {"idle", "failed"} : EndStatement(o, l)
    BY <2>2, FamilyKept DEF Execute, EndStatement, TypeRest
  <2>3. ASSUME NEW batch, StartStatement(o, batch) PROVE Family(o)'
    BY <2>3, FamilyKept DEF StartStatement, TypeRest
  <2>4. ASSUME NEW batch, Rebind(o, batch) PROVE Family(o)'
    BY <2>4, FamilyKept DEF Rebind, RestoreOwner, TypeRest
  <2>5. CASE RestorePrior(o)
    BY <2>5, FamilyKept DEF RestorePrior, RestoreOwner, TypeRest
  <2>6. CASE Deregister(o) \/ ReleaseOwner(o)
    BY <2>6, FamilyEnds
  <2> QED BY <1>2, <2>1, <2>2, <2>3, <2>4, <2>5, <2>6 DEF Session
<1>3. CASE o \in Txn /\ Row(o)
  <2>1. ASSUME NEW x, RowWait(o, x) PROVE Family(o)'
    BY <2>1, FamilyKept DEF RowWait, TypeRest
  <2>2. ASSUME NEW l \in {"exec", "victim", "failed"}, RowLeave(o, l),
               pc[o] = "rowwait"
        PROVE  Family(o)'
    BY <2>2, FamilyKept DEF RowLeave, TypeRest
  <2>3. ASSUME NEW r \in Resource, NEW m, TupleLock(o, r, m) PROVE Family(o)'
    BY <2>3, FamilyKept DEF TupleLock, TypeRest
  <2>4. ASSUME NEW r \in Resource, NEW m, NEW policy, TupleTry(o, r, m, policy)
        PROVE  Family(o)'
    <3>1. pc[o] = "exec" /\ pc'[o] \in {"exec", "failed"}
      BY <2>4 DEF TupleTry, TypeRest
    <3>2. /\ live' = live /\ wrote' = wrote /\ stack' = stack
          /\ active_owners' = active_owners
      BY <2>4 DEF TupleTry
    <3> QED BY <3>1, <3>2, FamilyKept
  <2>5. ASSUME NEW i, RestoreTuples(o, i) PROVE Family(o)'
    BY <2>5, FamilyKept DEF RestoreTuples
  <2>6. CASE WriteRow(o)
    BY <1>3, <2>6, FamilyWrites
  <2> QED BY <1>3, <2>1, <2>2, <2>3, <2>4, <2>5, <2>6
          DEF Row, RowProceed, RowDetect, RowCancel
<1>4. CASE Savepoints(o)
  <2>1. ASSUME NEW n \in 1 .. MaxXid, Savepoint(o, n) PROVE Family(o)'
    BY <2>1, FamilySavepoint, BoundsAssumption
  <2>2. ASSUME NEW n \in 1 .. MaxXid, RollbackRestore(o, n) PROVE Family(o)'
    BY <2>2, FamilyRestores, BoundsAssumption
  <2>3. ASSUME NEW i, ReleaseSavepoint(o, i) PROVE Family(o)'
    BY <2>3, FamilyRelease
  <2>4. ASSUME NEW i, RollbackTo(o, i) PROVE Family(o)'
    BY <2>4, FamilyRollsBack
  <2> QED BY <1>4, <2>1, <2>2, <2>3, <2>4 DEF Savepoints
<1> QED BY <1>1, <1>2, <1>3, <1>4 DEF Step

(* A family is the owner's own business.                                   *)
LEMMA OthersFamily ==
    ASSUME NEW o \in Owner, NEW p \in Owner \ {o}, Frame(o), Family(p)
    PROVE  Family(p)'
<1>1. /\ pc'[p] = pc[p] /\ stack'[p] = stack[p] /\ live'[p] = live[p]
      /\ p \in active_owners' <=> p \in active_owners
      /\ \A x \in wrote' : x[1] = p => x \in wrote
  BY DEF Frame
<1> QED BY <1>1 DEF Family

-----------------------------------------------------------------------------
(* The queues                                                              *)

(* Owner o is somewhere in the queue.                                      *)
Queued(q, o) == \E i \in 1 .. Len(q) : q[i] = o

(* A request of h is ahead of any request of o.                            *)
Ahead(q, h, o) == \E i \in 1 .. Len(q) : q[i] = h /\ \A j \in 1 .. i : q[j] # o

Distinct(q) == \A i, j \in 1 .. Len(q) : q[i] = q[j] => i = j

(* remove_request removes the only entry of the owner and keeps the order  *)
(* of the others.                                                          *)
LEMMA RemoveRequestFacts ==
    ASSUME NEW q \in Seq(Owner), NEW o, Distinct(q)
    PROVE  /\ Distinct(remove_request(q, o))
           /\ ~ Queued(remove_request(q, o), o)
           /\ \A p : p # o => (Queued(remove_request(q, o), p) <=> Queued(q, p))
           /\ \A h, p : (p # o /\ Ahead(remove_request(q, o), h, p)) => Ahead(q, h, p)
<1>1. CASE ~ \E i \in 1 .. Len(q) : q[i] = o
  BY <1>1 DEF remove_request, Queued
<1>2. CASE \E i \in 1 .. Len(q) : q[i] = o
  <2>1. PICK k \in 1 .. Len(q) :
           /\ q[k] = o
           /\ remove_request(q, o) =
                 [j \in 1 .. (Len(q) - 1) |-> IF j < k THEN q[j] ELSE q[j + 1]]
    BY <1>2 DEF remove_request
  <2>2. PICK f : f = [j \in 1 .. (Len(q) - 1) |-> IF j < k THEN q[j] ELSE q[j + 1]]
    OBVIOUS
  <2>3. Len(q) \in Nat /\ k \in Nat /\ Len(q) - 1 \in Nat
    BY <2>1
  <2>4. \A j \in 1 .. (Len(q) - 1) : f[j] = IF j < k THEN q[j] ELSE q[j + 1]
    BY <2>2
  <2>5. Len(f) = Len(q) - 1
    BY <2>2, <2>3
  <2>6. Distinct(f)
    BY <2>3, <2>4, <2>5 DEF Distinct
  <2>7. ~ Queued(f, o)
    BY <2>1, <2>3, <2>4, <2>5 DEF Distinct, Queued
  <2>8. ASSUME NEW p, p # o, NEW i \in 1 .. Len(q), q[i] = p PROVE Queued(f, p)
    <3>1. CASE i < k
      <4>1. i \in 1 .. (Len(q) - 1) /\ f[i] = p
        BY <2>3, <2>4, <2>8, <3>1
      <4> QED BY <2>5, <4>1 DEF Queued
    <3>2. CASE ~ (i < k)
      <4>1. i # k /\ i - 1 \in 1 .. (Len(q) - 1) /\ ~ (i - 1 < k)
        BY <2>1, <2>3, <2>8, <3>2
      <4>2. f[i - 1] = p
        BY <2>3, <2>4, <2>8, <4>1
      <4> QED BY <2>5, <4>1, <4>2 DEF Queued
    <3> QED BY <3>1, <3>2
  <2>9. ASSUME NEW i \in 1 .. Len(f)
        PROVE  \E m \in 1 .. Len(q) :
                  /\ q[m] = f[i]
                  /\ \A j \in 1 .. m : j = k \/ \E l \in 1 .. i : q[j] = f[l]
    <3>1. CASE i < k
      <4>1. /\ i \in 1 .. Len(q) /\ i \in 1 .. i
            /\ \A j \in 1 .. i : j \in 1 .. (Len(q) - 1) /\ j < k
        BY <2>3, <2>5, <3>1
      <4>2. \A j \in 1 .. i : q[j] = f[j]
        BY <2>4, <4>1
      <4> QED BY <4>1, <4>2
    <3>2. CASE ~ (i < k)
      <4>1. i + 1 \in 1 .. Len(q) /\ q[i + 1] = f[i]
        BY <2>3, <2>4, <2>5, <3>2
      <4>2. ASSUME NEW j \in 1 .. (i + 1), j # k
            PROVE  \E l \in 1 .. i : q[j] = f[l]
        <5>1. CASE j < k
          <6>1. j \in 1 .. i /\ f[j] = q[j]
            BY <2>3, <2>4, <2>5, <3>2, <5>1
          <6> QED BY <6>1
        <5>2. CASE ~ (j < k)
          <6>1. j - 1 \in 1 .. i /\ f[j - 1] = q[j]
            BY <2>3, <2>4, <2>5, <3>2, <4>2, <5>2
          <6> QED BY <6>1
        <5> QED BY <5>1, <5>2
      <4> QED BY <4>1, <4>2
    <3> QED BY <3>1, <3>2
  <2>10. ASSUME NEW p, Queued(f, p) PROVE Queued(q, p)
    BY <2>9, <2>10 DEF Queued
  <2>11. ASSUME NEW h, NEW p, p # o, Ahead(f, h, p) PROVE Ahead(q, h, p)
    <3>1. PICK i \in 1 .. Len(f) : f[i] = h /\ \A j \in 1 .. i : f[j] # p
      BY <2>11 DEF Ahead
    <3>2. PICK m \in 1 .. Len(q) :
             /\ q[m] = f[i]
             /\ \A j \in 1 .. m : j = k \/ \E l \in 1 .. i : q[j] = f[l]
      BY <2>9
    <3>3. \A j \in 1 .. m : q[j] # p
      BY <2>1, <2>11, <3>1, <3>2
    <3> QED BY <3>1, <3>2, <3>3 DEF Ahead
  <2>12. remove_request(q, o) = f
    BY <2>1, <2>2
  <2>13. \A p : p # o => (Queued(f, p) <=> Queued(q, p))
    BY <2>8, <2>10 DEF Queued
  <2>14. \A h, p : (p # o /\ Ahead(f, h, p)) => Ahead(q, h, p)
    BY <2>11
  <2> QED BY <2>6, <2>7, <2>12, <2>13, <2>14
<1> QED BY <1>1, <1>2

(* A request joins the queue at its end.                                   *)
LEMMA AppendRequestFacts ==
    ASSUME NEW q \in Seq(Owner), NEW o \in Owner, Distinct(q), ~ Queued(q, o)
    PROVE  /\ Distinct(Append(q, o))
           /\ Queued(Append(q, o), o)
           /\ \A p : p # o => (Queued(Append(q, o), p) <=> Queued(q, p))
           /\ \A h, p : (Queued(q, p) /\ Ahead(Append(q, o), h, p)) => Ahead(q, h, p)
           /\ \A h : Ahead(Append(q, o), h, o) => Ahead(q, h, o)
<1>1. PICK f : f = Append(q, o)
  OBVIOUS
<1>2. Len(q) \in Nat /\ Len(f) = Len(q) + 1 /\ f[Len(q) + 1] = o
  BY <1>1
<1>3. \A i \in 1 .. Len(q) : f[i] = q[i]
  BY <1>1
<1>4. \A i \in 1 .. Len(f) : i \in 1 .. Len(q) \/ i = Len(q) + 1
  BY <1>2
<1>5. Distinct(f)
  BY <1>2, <1>3, <1>4 DEF Distinct, Queued
<1>6. Queued(f, o) /\ \A p : p # o => (Queued(f, p) <=> Queued(q, p))
  <2>1. Len(q) + 1 \in 1 .. Len(f)
    BY <1>2
  <2>2. \A i \in 1 .. Len(q) : i \in 1 .. Len(f)
    BY <1>2
  <2> QED BY <1>2, <1>3, <1>4, <2>1, <2>2 DEF Queued
<1>7. ASSUME NEW h, NEW p, Ahead(f, h, p), Queued(q, p) \/ p = o
      PROVE  Ahead(q, h, p)
  <2>1. PICK i \in 1 .. Len(f) : f[i] = h /\ \A j \in 1 .. i : f[j] # p
    BY <1>7 DEF Ahead
  <2>2. i # Len(q) + 1
    <3>1. CASE p = o
      BY <1>2, <2>1, <3>1
    <3>2. ASSUME NEW k \in 1 .. Len(q), q[k] = p PROVE i # Len(q) + 1
      BY <1>2, <1>3, <2>1, <3>2
    <3> QED BY <1>7, <3>1, <3>2 DEF Queued
  <2>3. i \in 1 .. Len(q) /\ \A j \in 1 .. i : j \in 1 .. Len(q) /\ q[j] # p
    BY <1>2, <1>3, <1>4, <2>1, <2>2
  <2> QED BY <1>3, <2>1, <2>3 DEF Ahead
<1> QED BY <1>1, <1>5, <1>6, <1>7

(* Each owner has at most one entry in a queue, and an entry is the        *)
(* current request of a parked thread.                                     *)
QueueInv ==
    \A r \in Resource :
        /\ Distinct(queues[r])
        /\ \A o \in Owner : Queued(queues[r], o) =>
              pc[o] = "waiting" /\ NextRequest(o, r)

(* The grants of o after a step: lowered, or a mode nobody stands against. *)
Raised(o) ==
    \A r \in Resource :
        \/ grants'[r][o] <= grants[r][o]
        \/ /\ request_blockers(r, o, grants'[r][o]) = {}
           /\ Queued(queues[r], o) => pending[o][r] = grants'[r][o]

(* Only one of the resources an owner asks for is its next request.        *)
LEMMA OneRequest ==
    ASSUME NEW o \in Owner, NEW r \in Resource, NEW s \in Resource,
           NextRequest(o, r), NextRequest(o, s)
    PROVE  r = s
<1>1. r \in Nat /\ s \in Nat
  BY ResourceAssumption
<1>2. r <= s /\ s <= r
  BY DEF NextRequest
<1> QED BY <1>1, <1>2

(* What a step of o does to the queues and the recorded edges.             *)
Effect(o) ==
    /\ \A r \in Resource :
          \/ queues'[r] = queues[r]
          \/ queues'[r] = remove_request(queues[r], o)
          \/ pc[o] = "acquiring" /\ queues'[r] = Append(queues[r], o)
    /\ \A r \in Resource : Queued(queues'[r], o) =>
          /\ pc'[o] = "waiting" /\ NextRequest(o, r)
          /\ pending'[o] = pending[o]
          /\ \A h \in request_blockers(r, o, pending[o][r])' : h \in waits_for'[o]
    /\ Raised(o)
    /\ \A p \in Owner \ {o} :
          \/ /\ waits_for'[p] = waits_for[p]
             /\ o \in active_owners => o \in active_owners'
          \/ /\ waits_for'[p] = waits_for[p] \ {o}
             /\ o \notin active_owners'
             /\ \A r \in Resource : ~ Queued(queues'[r], o)
    /\ waits_for'[o] \subseteq active_owners'

(* A step away from the queues.                                            *)
LEMMA EffectOut ==
    ASSUME QueueInv, NEW o \in Owner, pc[o] # "waiting", queues' = queues,
           Raised(o), waits_for'[o] \subseteq active_owners',
           o \in active_owners => o \in active_owners',
           \A p \in Owner \ {o} : waits_for'[p] = waits_for[p]
    PROVE  Effect(o)
BY DEF Effect, QueueInv

(* Unchanged grants are not raised.                                        *)
LEMMA RaisedSame ==
    ASSUME GrantsTyped(grants), NEW o \in Owner, grants' = grants
    PROVE  Raised(o)
BY DEF Raised, GrantsTyped, Modes

(* A grant without blockers.                                               *)
LEMMA RaisedGrant ==
    ASSUME GrantsTyped(grants), NEW o \in Owner, NEW r \in Resource, NEW m,
           grants' = [grants EXCEPT ![r][o] = strongest(@, m)],
           covers(grants[r][o], m) \/ request_blockers(r, o, m) = {},
           Queued(queues[r], o) => pending[o][r] = m
    PROVE  Raised(o)
<1>1. \A s \in Resource : grants[s][o] \in 0 .. 5
  BY DEF GrantsTyped, Modes
<1>2. grants'[r][o] = grants[r][o] \/ (grants'[r][o] = m /\ ~ covers(grants[r][o], m))
  BY DEF strongest, covers, GrantsTyped
<1>3. \A s \in Resource \ {r} : grants'[s][o] = grants[s][o]
  BY DEF GrantsTyped
<1> QED BY <1>1, <1>2, <1>3 DEF Raised

(* The blockers of a request, in terms of the queue.                       *)
LEMMA BlockersFacts ==
    ASSUME NEW r \in Resource, NEW o \in Owner, NEW m
    PROVE  request_blockers(r, o, m) =
              {h \in Owner \ {o} :
                  \/ grants[r][h] # NoMode /\ Incompatible(r, m, grants[r][h])
                  \/ /\ Ahead(queues[r], h, o)
                     /\ Incompatible(r, m, pending[h][r])}
BY DEF request_blockers, Ahead

(* Everything that may block a request is active.                          *)
LEMMA BlockersActive ==
    ASSUME QueueInv, \A p \in Owner : Place(p), NEW r \in Resource,
           NEW o \in Owner, NEW m
    PROVE  request_blockers(r, o, m) \subseteq active_owners
<1>1. ASSUME NEW h \in request_blockers(r, o, m) PROVE h \in active_owners
  <2>1. /\ h \in Owner
        /\ grants[r][h] # NoMode \/ Queued(queues[r], h)
    BY <1>1, BlockersFacts DEF Ahead, Queued
  <2>2. Queued(queues[r], h) => h \in active_owners
    BY <2>1 DEF QueueInv, Place, Running
  <2> QED BY <2>1, <2>2 DEF Place
<1> QED BY <1>1

(* Releasing the guard.                                                    *)
LEMMA EffectReleased ==
    ASSUME TypeRest, GrantsTyped(grants), QueueInv, NEW o \in Owner, Place(o),
           pc[o] \notin {"waiting", "rowwait"}, DropGuard(o)
    PROVE  Effect(o)
<1>1. CASE o \in active_owners
  <2>1. release_owner(o)
    BY <1>1 DEF DropGuard
  <2>2. \A r \in Resource : queues[r] \in Seq(Owner) /\ Distinct(queues[r])
    BY DEF QueueInv, TypeRest
  <2>3. \A r \in Resource : queues'[r] = remove_request(queues[r], o)
    BY <2>1 DEF release_owner
  <2>4. \A r \in Resource : ~ Queued(queues'[r], o)
    BY <2>2, <2>3, RemoveRequestFacts
  <2>5. Raised(o)
    BY <2>1 DEF release_owner, Raised, GrantsTyped, Modes, NoMode
  <2>6. /\ waits_for'[o] = {} /\ o \notin active_owners'
        /\ \A p \in Owner \ {o} : waits_for'[p] = waits_for[p] \ {o}
    BY <2>1 DEF release_owner
  <2> QED BY <2>3, <2>4, <2>5, <2>6 DEF Effect
<1>2. CASE o \notin active_owners
  <2>1. UNCHANGED lmVars
    BY <1>2 DEF DropGuard
  <2>2. waits_for[o] = {}
    BY DEF Place
  <2> QED BY <2>1, <2>2, EffectOut, RaisedSame DEF lmVars
<1> QED BY <1>1, <1>2

(* A grant takes the request out of its queue.                             *)
LEMMA EffectGrant ==
    ASSUME TypeRest, GrantsTyped(grants), QueueInv, NEW o \in Owner,
           NEW r \in Resource, GrantRequest(o, r), active_owners' = active_owners,
           request_blockers(r, o, pending[o][r]) = {},
           pc[o] = "acquiring" \/ (pc[o] = "waiting" /\ Queued(queues[r], o))
    PROVE  Effect(o)
<1>1. /\ grants' = [grants EXCEPT ![r][o] = strongest(@, pending[o][r])]
      /\ queues'[r] = remove_request(queues[r], o)
      /\ \A s \in Resource \ {r} : queues'[s] = queues[s]
      /\ waits_for'[o] = {} /\ \A p \in Owner \ {o} : waits_for'[p] = waits_for[p]
  BY DEF GrantRequest, TypeRest
<1>2. Raised(o)
  BY <1>1, RaisedGrant
<1>3. queues[r] \in Seq(Owner) /\ Distinct(queues[r])
  BY DEF QueueInv, TypeRest
<1>4. ~ Queued(queues'[r], o)
  BY <1>1, <1>3, RemoveRequestFacts
<1>5. ASSUME NEW s \in Resource \ {r}, Queued(queues[s], o) PROVE FALSE
  <2>1. pc[o] = "waiting" /\ NextRequest(o, s)
    BY <1>5 DEF QueueInv
  <2>2. NextRequest(o, r)
    BY <2>1 DEF QueueInv
  <2> QED BY <2>1, <2>2, OneRequest
<1>6. \A s \in Resource : ~ Queued(queues'[s], o)
  BY <1>1, <1>4, <1>5
<1> QED BY <1>1, <1>2, <1>6 DEF Effect

(* A request joins the end of the queue and records its blockers, or       *)
(* records them again.                                                     *)
LEMMA EffectPark ==
    ASSUME TypeRest, GrantsTyped(grants), QueueInv, \A p \in Owner : Place(p),
           NEW o \in Owner, NEW r \in Resource,
           AcquirePark(o, r) \/ WakePark(o, r)
    PROVE  Effect(o)
<1>1. /\ grants' = grants /\ pending' = pending /\ active_owners' = active_owners
      /\ waits_for'[o] = request_blockers(r, o, pending[o][r])
      /\ \A p \in Owner \ {o} : waits_for'[p] = waits_for[p]
      /\ pc'[o] = "waiting"
  BY DEF AcquirePark, WakePark, sessVars, TypeRest, Goto
<1>2. \/ /\ pc[o] = "acquiring" /\ NextRequest(o, r)
         /\ queues'[r] = Append(queues[r], o)
         /\ \A s \in Resource \ {r} : queues'[s] = queues[s]
      \/ pc[o] = "waiting" /\ queues' = queues /\ Queued(queues[r], o)
  BY DEF AcquirePark, WakePark, TypeRest, WaitingFor, Queued
<1>3. queues[r] \in Seq(Owner) /\ Distinct(queues[r])
  BY DEF QueueInv, TypeRest
<1>4. NextRequest(o, r)
  BY <1>2 DEF QueueInv
<1>5. \A s \in Resource \ {r} : ~ Queued(queues'[s], o)
  <2>1. ASSUME NEW s \in Resource \ {r}, Queued(queues[s], o) PROVE FALSE
    BY <1>4, <2>1, OneRequest DEF QueueInv
  <2> QED BY <1>2, <2>1
<1>6. \A h : Ahead(queues'[r], h, o) => Ahead(queues[r], h, o)
  <2>1. CASE pc[o] = "acquiring" /\ queues'[r] = Append(queues[r], o)
    <3>1. ~ Queued(queues[r], o)
      BY <2>1 DEF QueueInv
    <3> QED BY <1>3, <2>1, <3>1, AppendRequestFacts
  <2> QED BY <1>2, <2>1
<1>7. ASSUME NEW h \in request_blockers(r, o, pending[o][r])'
      PROVE  h \in request_blockers(r, o, pending[o][r])
  <2>1. /\ h \in Owner \ {o}
        /\ \/ grants'[r][h] # NoMode /\ Incompatible(r, pending'[o][r], grants'[r][h])
           \/ /\ Ahead(queues'[r], h, o)
              /\ Incompatible(r, pending'[o][r], pending'[h][r])
    BY <1>7 DEF request_blockers, Ahead, Incompatible
  <2> QED BY <1>1, <1>6, <2>1, BlockersFacts
<1>8. Raised(o) /\ waits_for'[o] \subseteq active_owners'
  BY <1>1, RaisedSame, BlockersActive
<1> QED BY <1>1, <1>2, <1>4, <1>5, <1>7, <1>8 DEF Effect

(* Withdrawing a request takes it out of every queue.                      *)
LEMMA EffectWithdraw ==
    ASSUME TypeRest, GrantsTyped(grants), QueueInv, NEW o \in Owner,
           Withdraw(o), grants' = grants, active_owners' = active_owners
    PROVE  Effect(o)
<1>1. /\ \A r \in Resource : queues'[r] = remove_request(queues[r], o)
      /\ waits_for'[o] = {} /\ \A p \in Owner \ {o} : waits_for'[p] = waits_for[p]
  BY DEF Withdraw, TypeRest
<1>2. \A r \in Resource : queues[r] \in Seq(Owner) /\ Distinct(queues[r])
  BY DEF QueueInv, TypeRest
<1>3. \A r \in Resource : ~ Queued(queues'[r], o)
  BY <1>1, <1>2, RemoveRequestFacts
<1> QED BY <1>1, <1>3, RaisedSame DEF Effect

(* Restoring lowers.                                                       *)
LEMMA EffectRestore ==
    ASSUME TypeRest, GrantsTyped(grants), QueueInv, NEW o \in Owner,
           pc[o] # "waiting", NEW snap, RestoreOwner(o, snap),
           \A r \in Resource : snap[r] <= grants[r][o]
    PROVE  Effect(o)
<1>1. /\ queues' = queues /\ waits_for'[o] = {}
      /\ active_owners' = active_owners
      /\ \A p \in Owner \ {o} : waits_for'[p] = waits_for[p]
  BY DEF RestoreOwner, TypeRest
<1>2. \A r \in Resource : grants'[r][o] = snap[r]
  BY DEF RestoreOwner, RestoredGrants, GrantsTyped
<1>3. Raised(o)
  BY <1>2 DEF Raised
<1> QED BY <1>1, <1>3, EffectOut

(* Every step has such an effect.                                          *)
LEMMA EffectStep ==
    ASSUME TypeRest, GrantsTyped(grants), QueueInv,
           \A p \in Owner : Place(p) /\ Family(p),
           NEW o \in Owner, Ordered(o), Restorable(o), Step(o)
    PROVE  Effect(o)
<1> USE DEF Goto, Spend, lmVars, regVars, sessVars
<1>0. pc[o] \notin {"waiting", "rowwait"} => waits_for[o] = {}
  BY DEF Place
<1>00. ASSUME pc[o] \notin {"waiting", "rowwait"}, waits_for' = waits_for,
              queues' = queues, grants' = grants,
              o \in active_owners => o \in active_owners'
       PROVE  Effect(o)
  BY <1>0, <1>00, EffectOut, RaisedSame
<1>1. CASE Lock(o)
  <2>1. ASSUME NEW r \in Resource, AcquireCovered(o, r) PROVE Effect(o)
    BY <1>00, <2>1 DEF AcquireCovered
  <2>2. ASSUME NEW r \in Resource, AcquireFree(o, r) \/ WakeGrant(o, r)
        PROVE  Effect(o)
    <3>1. /\ GrantRequest(o, r) /\ active_owners' = active_owners
          /\ request_blockers(r, o, pending[o][r]) = {}
          /\ pc[o] = "acquiring" \/ (pc[o] = "waiting" /\ Queued(queues[r], o))
      BY <2>2 DEF AcquireFree, WakeGrant, WaitingFor, Queued
    <3> QED BY <3>1, EffectGrant
  <2>3. ASSUME NEW r \in Resource, AcquirePark(o, r) \/ WakePark(o, r)
        PROVE  Effect(o)
    BY <2>3, EffectPark
  <2>4. CASE DetectDeadlock(o) \/ CancelAcquire(o)
    BY <2>4, EffectWithdraw DEF DetectDeadlock, CancelAcquire
  <2> QED BY <1>1, <2>1, <2>2, <2>3, <2>4 DEF Lock
<1>2. CASE Session(o)
  <2>1. CASE Begin(o) \/ Execute(o) \/ \E l \in {"idle", "failed"} : EndStatement(o, l)
    BY <1>00, <2>1 DEF Begin, Execute, EndStatement
  <2>2. ASSUME NEW batch, StartStatement(o, batch) PROVE Effect(o)
    BY <1>00, <2>2 DEF StartStatement
  <2>3. ASSUME NEW batch, Rebind(o, batch) PROVE Effect(o)
    <3>1. /\ pc[o] # "waiting" /\ RestoreOwner(o, base[o])
          /\ \A r \in Resource : base[o][r] <= grants[r][o]
      BY <2>3 DEF Rebind, Restorable
    <3> QED BY <3>1, EffectRestore
  <2>4. CASE RestorePrior(o)
    <3>1. /\ pc[o] # "waiting" /\ RestoreOwner(o, base[o])
          /\ \A r \in Resource : base[o][r] <= grants[r][o]
      BY <2>4 DEF RestorePrior, Restorable
    <3> QED BY <3>1, EffectRestore
  <2>5. CASE Deregister(o)
    BY <1>00, <2>5 DEF Deregister
  <2>6. CASE ReleaseOwner(o)
    BY <2>6, EffectReleased DEF ReleaseOwner
  <2> QED BY <1>2, <2>1, <2>2, <2>3, <2>4, <2>5, <2>6 DEF Session
<1>3. CASE Row(o)
  <2>1. ASSUME NEW x \in wrote, RowWait(o, x) PROVE Effect(o)
    <3>1. /\ pc[o] = "exec" /\ queues' = queues /\ grants' = grants
          /\ waits_for'[o] = {x[1]} /\ active_owners' = active_owners
          /\ \A p \in Owner \ {o} : waits_for'[p] = waits_for[p]
      BY <2>1 DEF RowWait, TypeRest
    <3>2. x[1] \in Owner /\ x[1] \in active_owners
      BY WroteTyped DEF Owner, Family
    <3> QED BY <3>1, <3>2, EffectOut, RaisedSame
  <2>2. ASSUME NEW l, RowLeave(o, l), pc[o] = "rowwait" PROVE Effect(o)
    <3>1. /\ queues' = queues /\ grants' = grants /\ waits_for'[o] = {}
          /\ active_owners' = active_owners
          /\ \A p \in Owner \ {o} : waits_for'[p] = waits_for[p]
      BY <2>2 DEF RowLeave, TypeRest
    <3> QED BY <2>2, <3>1, EffectOut, RaisedSame
  <2>3. ASSUME NEW r \in Resource, NEW m, TupleLock(o, r, m) PROVE Effect(o)
    BY <1>00, <2>3 DEF TupleLock
  <2>4. ASSUME NEW r \in Resource, NEW m, NEW policy, TupleTry(o, r, m, policy)
        PROVE  Effect(o)
    <3>1. /\ pc[o] = "exec" /\ queues' = queues /\ waits_for' = waits_for
          /\ active_owners' = active_owners
          /\ \/ grants' = grants
             \/ /\ grants' = [grants EXCEPT ![r][o] = strongest(@, m)]
                /\ covers(grants[r][o], m) \/ request_blockers(r, o, m) = {}
      BY <2>4 DEF TupleTry
    <3>2. ~ Queued(queues[r], o)
      BY <3>1 DEF QueueInv
    <3>3. Raised(o)
      BY <3>1, <3>2, RaisedSame, RaisedGrant
    <3> QED BY <1>0, <3>1, <3>3, EffectOut
  <2>5. ASSUME NEW i, RestoreTuples(o, i) PROVE Effect(o)
    <3>1. /\ pc[o] = "exec" /\ queues' = queues /\ waits_for'[o] = {}
          /\ active_owners' = active_owners
          /\ \A p \in Owner \ {o} : waits_for'[p] = waits_for[p]
      BY <2>5 DEF RestoreTuples, TypeRest
    <3>2. \A r \in Resource : grants[r][o] <= grants[r][o]
      BY DEF GrantsTyped, Modes
    <3>3. \A r \in Resource : grants'[r][o] <= grants[r][o]
      BY <2>5, <3>2, UndoneTuples DEF Ordered
    <3> QED BY <3>1, <3>3, EffectOut DEF Raised
  <2>6. CASE WriteRow(o)
    BY <1>00, <2>6 DEF WriteRow
  <2> QED BY <1>3, <2>1, <2>2, <2>3, <2>4, <2>5, <2>6
          DEF Row, RowProceed, RowDetect, RowCancel
<1>4. CASE Savepoints(o)
  <2>1. ASSUME NEW n, Savepoint(o, n) PROVE Effect(o)
    BY <1>00, <2>1 DEF Savepoint
  <2>2. ASSUME NEW n, RollbackRestore(o, n) PROVE Effect(o)
    <3> DEFINE snap == stack[o][Len(stack[o])].snap
    <3>1. pc[o] = "rolling"
      BY <2>2 DEF RollbackRestore
    <3>2. CASE DropGuard(o)
      BY <3>1, <3>2, EffectReleased
    <3>3. CASE snap # NoSnap /\ RestoreOwner(o, snap)
      <4>0. Len(stack[o]) \in Nat \ {0}
        BY <2>2, RollbackOk
      <4>1. Len(stack[o]) \in 1 .. Len(stack[o])
        BY <4>0
      <4>2. \A r \in Resource : snap[r] <= grants[r][o]
        BY <3>3, <4>1 DEF Restorable, Keeps
      <4> QED BY <3>1, <3>3, <4>2, EffectRestore
    <3> QED BY <2>2, <3>2, <3>3, RollbackOk
  <2>3. ASSUME NEW i, ReleaseSavepoint(o, i) PROVE Effect(o)
    BY <1>00, <2>3 DEF ReleaseSavepoint
  <2>4. ASSUME NEW i, RollbackTo(o, i) PROVE Effect(o)
    BY <1>00, <2>4 DEF RollbackTo
  <2> QED BY <1>4, <2>1, <2>2, <2>3, <2>4 DEF Savepoints
<1> QED BY <1>1, <1>2, <1>3, <1>4 DEF Step

(* The queues stay in order.                                               *)
LEMMA QueueStep ==
    ASSUME TypeRest, QueueInv, NEW o \in Owner, Frame(o), Effect(o)
    PROVE  QueueInv'
<1> SUFFICES ASSUME NEW r \in Resource
             PROVE  /\ Distinct(queues'[r])
                    /\ \A p \in Owner : Queued(queues'[r], p) =>
                          pc'[p] = "waiting" /\ NextRequest(p, r)'
    BY DEF QueueInv
<1>1. queues[r] \in Seq(Owner) /\ Distinct(queues[r])
  BY DEF QueueInv, TypeRest
<1>2. pc[o] = "acquiring" => ~ Queued(queues[r], o)
  BY DEF QueueInv
<1>3. /\ Distinct(queues'[r])
      /\ \A p : p # o => (Queued(queues'[r], p) <=> Queued(queues[r], p))
  <2>1. CASE queues'[r] = queues[r]
    BY <1>1, <2>1
  <2>2. CASE queues'[r] = remove_request(queues[r], o)
    BY <1>1, <2>2, RemoveRequestFacts
  <2>3. CASE pc[o] = "acquiring" /\ queues'[r] = Append(queues[r], o)
    BY <1>1, <1>2, <2>3, AppendRequestFacts
  <2> QED BY <2>1, <2>2, <2>3 DEF Effect
<1>4. ASSUME Queued(queues'[r], o)
      PROVE  pc'[o] = "waiting" /\ NextRequest(o, r)'
  <2>1. pc'[o] = "waiting" /\ NextRequest(o, r) /\ pending'[o] = pending[o]
    BY <1>4 DEF Effect
  <2> QED BY <2>1 DEF NextRequest
<1>5. ASSUME NEW p \in Owner \ {o}, Queued(queues'[r], p)
      PROVE  pc'[p] = "waiting" /\ NextRequest(p, r)'
  <2>1. pc[p] = "waiting" /\ NextRequest(p, r)
    BY <1>3, <1>5 DEF QueueInv
  <2>2. pc'[p] = pc[p] /\ pending'[p] = pending[p]
    BY DEF Frame
  <2> QED BY <2>1, <2>2 DEF NextRequest
<1> QED BY <1>3, <1>4, <1>5

-----------------------------------------------------------------------------
(* The recorded edges                                                      *)
(*                                                                         *)
(* An edge is recorded by the waiter only.  It stays complete because a    *)
(* later grant to another owner is compatible with every request queued    *)
(* ahead of it, a request behind it was already an edge, and restored      *)
(* grants only get weaker.                                                 *)

(* The edges lead to owners with a guard, and cover the row blockers and   *)
(* the blockers of a queued request.                                       *)
EdgeInv ==
    \A o \in Owner :
        /\ waits_for[o] \subseteq active_owners
        /\ blocker[o] \subseteq wrote
        /\ \A x \in blocker[o] : pc[o] = "rowwait" /\ x[1] \in waits_for[o]
        /\ \A r \in Resource : Queued(queues[r], o) =>
              request_blockers(r, o, pending[o][r]) \subseteq waits_for[o]

(* The order of the other requests does not change.                        *)
LEMMA AheadKept ==
    ASSUME TypeRest, QueueInv, NEW o \in Owner, Effect(o), NEW r \in Resource,
           NEW p \in Owner \ {o}, Queued(queues'[r], p)
    PROVE  /\ Queued(queues[r], p)
           /\ \A h : Ahead(queues'[r], h, p) => Ahead(queues[r], h, p)
<1>1. queues[r] \in Seq(Owner) /\ Distinct(queues[r])
  BY DEF QueueInv, TypeRest
<1>2. pc[o] = "acquiring" => ~ Queued(queues[r], o)
  BY DEF QueueInv
<1>3. CASE queues'[r] = queues[r]
  BY <1>3
<1>4. CASE queues'[r] = remove_request(queues[r], o)
  BY <1>1, <1>4, RemoveRequestFacts
<1>5. CASE pc[o] = "acquiring" /\ queues'[r] = Append(queues[r], o)
  BY <1>1, <1>2, <1>5, AppendRequestFacts
<1> QED BY <1>3, <1>4, <1>5 DEF Effect

(* Of two queued requests one is ahead of the other.                       *)
LEMMA AheadTotal ==
    ASSUME NEW q \in Seq(Owner), Distinct(q), NEW o, NEW p, o # p,
           Queued(q, p), ~ Ahead(q, p, o)
    PROVE  Ahead(q, o, p)
<1>1. PICK i \in 1 .. Len(q) : q[i] = p
  BY DEF Queued
<1>2. PICK j \in 1 .. i : q[j] = o
  BY <1>1 DEF Ahead
<1>3. j \in 1 .. Len(q) /\ j < i
  BY <1>1, <1>2
<1>4. \A k \in 1 .. j : k \in 1 .. Len(q) /\ k # i
  BY <1>1, <1>3
<1>5. \A k \in 1 .. j : q[k] # p
  BY <1>1, <1>4 DEF Distinct
<1> QED BY <1>2, <1>3, <1>5 DEF Ahead

(* A grant of o that stands against the queued request of p was an edge.   *)
LEMMA GrantWasEdge ==
    ASSUME TypeRest, GrantsTyped(grants), GrantsTyped(grants)', QueueInv,
           NEW o \in Owner, Raised(o), NEW r \in Resource,
           NEW p \in Owner \ {o}, Queued(queues[r], p),
           grants'[r][o] # NoMode,
           Incompatible(r, pending[p][r], grants'[r][o])
    PROVE  o \in request_blockers(r, p, pending[p][r])
<1>0. /\ KindOf[r] \in Kinds
      /\ grants'[r][o] \in ModesOf(KindOf[r])
      /\ grants[r][o] \in ModesOf(KindOf[r]) \cup {NoMode}
      /\ pending[p][r] \in ModesOf(KindOf[r])
  <2>1. pending[p] \in Snapshots /\ pending[p][r] # NoMode
    BY DEF TypeRest, QueueInv, NextRequest
  <2>2. pending[p][r] \in GrantModes(r)
    BY <2>1, SnapshotsFacts
  <2> QED BY <2>1, <2>2, KindAssumption DEF GrantsTyped, GrantModes
<1>1. CASE grants'[r][o] <= grants[r][o]
  <2>1. grants[r][o] # NoMode /\ covers(grants[r][o], grants'[r][o])
    BY <1>0, <1>1 DEF covers, ModesOf, NoMode, AccessShare,
       AccessExclusive, Access, Exclusive, KeyShare, Update
  <2>2. Incompatible(r, pending[p][r], grants[r][o])
    <3>1. ASSUME compatible(KindOf[r], pending[p][r], grants[r][o]) PROVE FALSE
      <4>1. grants[r][o] \in ModesOf(KindOf[r])
        BY <1>0, <2>1
      <4>2. compatible(KindOf[r], grants[r][o], pending[p][r])
        BY <1>0, <3>1, <4>1, CompatibleSymmetric
      <4>3. compatible(KindOf[r], grants'[r][o], pending[p][r])
        BY <1>0, <2>1, <4>1, <4>2, CompatibleWeaker
      <4>4. compatible(KindOf[r], pending[p][r], grants'[r][o])
        BY <1>0, <4>3, CompatibleSymmetric
      <4> QED BY <4>4 DEF Incompatible
    <3> QED BY <3>1 DEF Incompatible
  <2> QED BY <2>1, <2>2, BlockersFacts
<1>2. CASE /\ request_blockers(r, o, grants'[r][o]) = {}
           /\ Queued(queues[r], o) => pending[o][r] = grants'[r][o]
  <2>1. ~ Ahead(queues[r], p, o)
    <3>1. ASSUME Ahead(queues[r], p, o) PROVE FALSE
      <4>1. compatible(KindOf[r], grants'[r][o], pending[p][r])
        <5>1. p \notin request_blockers(r, o, grants'[r][o])
          BY <1>2
        <5> QED BY <3>1, <5>1, BlockersFacts DEF Incompatible
      <4>2. compatible(KindOf[r], pending[p][r], grants'[r][o])
        BY <1>0, <4>1, CompatibleSymmetric
      <4> QED BY <4>2 DEF Incompatible
    <3> QED BY <3>1
  <2>2. queues[r] \in Seq(Owner) /\ Distinct(queues[r])
    BY DEF QueueInv, TypeRest
  <2>3. Ahead(queues[r], o, p)
    BY <2>1, <2>2, AheadTotal
  <2>4. pending[o][r] = grants'[r][o]
    BY <1>2, <2>3 DEF Ahead, Queued
  <2> QED BY <2>3, <2>4, BlockersFacts
<1> QED BY <1>1, <1>2 DEF Raised

(* What a step of o does to the row waits.                                 *)
RowEffect(o) ==
    /\ \A p \in Owner \ {o} : blocker'[p] \subseteq blocker[p]
    /\ \A p \in Owner : blocker'[p] \subseteq wrote'
    /\ \A x \in blocker'[o] : pc'[o] = "rowwait" /\ x[1] \in waits_for'[o]

(* Row waits begin and end with their waiter, or shrink when ids are       *)
(* deregistered, together with the stamps.                                 *)
LEMMA RowEffectStep ==
    ASSUME TypeRest, GrantsTyped(grants), EdgeInv, NEW o \in Owner, Step(o)
    PROVE  RowEffect(o)
<1> USE DEF Goto, Spend, lmVars, regVars, sessVars
<1>0. ASSUME pc[o] # "rowwait", blocker' = blocker, wrote \subseteq wrote'
      PROVE  RowEffect(o)
  BY <1>0 DEF RowEffect, EdgeInv
<1>00. ASSUME pc[o] # "rowwait", NEW n, DeregisterFrom(o, n) PROVE RowEffect(o)
  BY <1>00 DEF RowEffect, EdgeInv, DeregisterFrom, Settled
<1>1. CASE Lock(o)
  <2>1. pc[o] # "rowwait" /\ blocker' = blocker /\ wrote' = wrote
    BY <1>1 DEF Lock, AcquireCovered, AcquireFree, AcquirePark, WakeGrant,
       WakePark, DetectDeadlock, CancelAcquire
  <2> QED BY <1>0, <2>1
<1>2. CASE Session(o)
  <2>1. CASE Deregister(o)
    BY <1>00, <2>1 DEF Deregister
  <2>2. CASE ~ Deregister(o)
    <3>1. pc[o] # "rowwait" /\ blocker' = blocker /\ wrote' = wrote
      BY <1>2, <2>2 DEF Session, Begin, StartStatement, Rebind, Execute,
         RestorePrior, EndStatement, ReleaseOwner
    <3> QED BY <1>0, <3>1
  <2> QED BY <2>1, <2>2
<1>3. CASE Row(o)
  <2>1. ASSUME NEW x \in wrote, RowWait(o, x) PROVE RowEffect(o)
    <3>1. /\ blocker'[o] = {x} /\ waits_for'[o] = {x[1]} /\ pc'[o] = "rowwait"
          /\ wrote' = wrote /\ \A p \in Owner \ {o} : blocker'[p] = blocker[p]
      BY <2>1 DEF RowWait, TypeRest
    <3> QED BY <3>1 DEF RowEffect, EdgeInv
  <2>2. ASSUME NEW l, RowLeave(o, l) PROVE RowEffect(o)
    <3>1. /\ blocker'[o] = {} /\ wrote' = wrote
          /\ \A p \in Owner \ {o} : blocker'[p] = blocker[p]
      BY <2>2 DEF RowLeave, TypeRest
    <3> QED BY <3>1 DEF RowEffect, EdgeInv
  <2>3. ASSUME NEW r \in Resource, NEW m, TupleLock(o, r, m) PROVE RowEffect(o)
    BY <1>0, <2>3 DEF TupleLock
  <2>4. ASSUME NEW r \in Resource, NEW m, NEW policy, TupleTry(o, r, m, policy)
        PROVE  RowEffect(o)
    BY <1>0, <2>4 DEF TupleTry
  <2>5. ASSUME NEW i, RestoreTuples(o, i) PROVE RowEffect(o)
    BY <1>0, <2>5 DEF RestoreTuples
  <2>6. CASE WriteRow(o)
    BY <1>0, <2>6 DEF WriteRow
  <2> QED BY <1>3, <2>1, <2>2, <2>3, <2>4, <2>5, <2>6
          DEF Row, RowProceed, RowDetect, RowCancel
<1>4. CASE Savepoints(o)
  <2>1. ASSUME NEW n, Savepoint(o, n) PROVE RowEffect(o)
    BY <1>0, <2>1 DEF Savepoint
  <2>2. ASSUME NEW n, RollbackRestore(o, n) PROVE RowEffect(o)
    BY <1>0, <2>2 DEF RollbackRestore
  <2>3. ASSUME NEW i, ReleaseSavepoint(o, i) PROVE RowEffect(o)
    BY <1>0, <2>3 DEF ReleaseSavepoint
  <2>4. ASSUME NEW i, RollbackTo(o, i) PROVE RowEffect(o)
    BY <1>00, <2>4 DEF RollbackTo
  <2> QED BY <1>4, <2>1, <2>2, <2>3, <2>4 DEF Savepoints
<1> QED BY <1>1, <1>2, <1>3, <1>4 DEF Step

(* The edges of every owner stay complete.                                 *)
LEMMA EdgeStep ==
    ASSUME TypeRest, GrantsTyped(grants), GrantsTyped(grants)', QueueInv, EdgeInv,
           NEW o \in Owner, Place(o)', Family(o)', Frame(o), Effect(o), RowEffect(o)
    PROVE  EdgeInv'
<1>1. \A p \in Owner : blocker'[p] \subseteq wrote'
  BY DEF RowEffect
<1>2. ASSUME NEW p \in Owner PROVE waits_for'[p] \subseteq active_owners'
  <2>1. CASE p = o
    BY <2>1 DEF Effect
  <2>2. CASE p # o
    <3>1. waits_for[p] \subseteq active_owners /\ waits_for[p] \subseteq Owner
      BY DEF EdgeInv, TypeRest
    <3>2. \A h \in Owner \ {o} : h \in active_owners' <=> h \in active_owners
      BY DEF Frame
    <3>3. CASE waits_for'[p] = waits_for[p] \ {o}
      BY <3>1, <3>2, <3>3
    <3>4. CASE /\ waits_for'[p] = waits_for[p]
               /\ o \in active_owners => o \in active_owners'
      BY <3>1, <3>2, <3>4
    <3> QED BY <2>2, <3>3, <3>4 DEF Effect
  <2> QED BY <2>1, <2>2
<1>3. ASSUME NEW p \in Owner, NEW x \in blocker'[p]
      PROVE  pc'[p] = "rowwait" /\ x[1] \in waits_for'[p]
  <2>1. CASE p = o
    BY <1>3, <2>1 DEF RowEffect
  <2>2. CASE p # o
    <3>1. x \in blocker[p] /\ x \in wrote'
      BY <1>3, <2>2 DEF RowEffect
    <3>2. pc[p] = "rowwait" /\ x[1] \in waits_for[p] /\ pc'[p] = pc[p]
      BY <2>2, <3>1 DEF EdgeInv, Frame
    <3>3. x[1] = o => o \in active_owners'
      BY <3>1 DEF Family
    <3> QED BY <2>2, <3>2, <3>3 DEF Effect
  <2> QED BY <2>1, <2>2
<1>4. ASSUME NEW p \in Owner, NEW r \in Resource, Queued(queues'[r], p),
             NEW h \in request_blockers(r, p, pending[p][r])'
      PROVE  h \in waits_for'[p]
  <2>1. CASE p = o
    BY <1>4, <2>1 DEF Effect
  <2>2. CASE p # o
    <3>1. pending'[p] = pending[p]
      BY <2>2 DEF Frame
    <3>2. /\ h \in Owner \ {p}
          /\ \/ grants'[r][h] # NoMode /\ Incompatible(r, pending'[p][r], grants'[r][h])
             \/ /\ Ahead(queues'[r], h, p)
                /\ Incompatible(r, pending'[p][r], pending'[h][r])
      BY <1>4 DEF request_blockers, Ahead, Incompatible
    <3>3. /\ Queued(queues[r], p)
          /\ Ahead(queues'[r], h, p) => Ahead(queues[r], h, p)
      BY <1>4, <2>2, AheadKept
    <3>4. CASE h # o
      <4>1. grants'[r][h] = grants[r][h] /\ pending'[h] = pending[h]
        BY <3>2, <3>4 DEF Frame
      <4>2. h \in request_blockers(r, p, pending[p][r])
        BY <3>1, <3>2, <3>3, <4>1, BlockersFacts
      <4>3. h \in waits_for[p]
        BY <3>3, <4>2 DEF EdgeInv
      <4> QED BY <2>2, <3>4, <4>3 DEF Effect
    <3>5. CASE h = o
      <4>1. ASSUME grants'[r][o] # NoMode,
                   Incompatible(r, pending'[p][r], grants'[r][o])
            PROVE  /\ o \in request_blockers(r, p, pending[p][r])
                   /\ o \in active_owners'
        <5>1. o \in active_owners'
          BY <4>1 DEF Place
        <5>2. Incompatible(r, pending[p][r], grants'[r][o])
          BY <3>1, <4>1
        <5>3. Raised(o)
          BY DEF Effect
        <5> QED BY <2>2, <3>3, <4>1, <5>1, <5>2, <5>3, GrantWasEdge
      <4>2. ASSUME Ahead(queues'[r], o, p),
                   Incompatible(r, pending'[p][r], pending'[o][r])
            PROVE  /\ o \in request_blockers(r, p, pending[p][r])
                   /\ Queued(queues'[r], o)
        <5>1. Queued(queues'[r], o)
          BY <4>2 DEF Ahead, Queued
        <5>2. pending'[o] = pending[o]
          BY <5>1 DEF Effect
        <5>3. Ahead(queues[r], o, p)
          BY <3>3, <3>5, <4>2
        <5> QED BY <2>2, <3>1, <4>2, <5>1, <5>2, <5>3, BlockersFacts
      <4>3. o \in request_blockers(r, p, pending[p][r])
        BY <3>2, <3>5, <4>1, <4>2
      <4>4. o \in active_owners' \/ Queued(queues'[r], o)
        BY <3>2, <3>5, <4>1, <4>2
      <4>5. o \in waits_for[p]
        BY <3>3, <4>3 DEF EdgeInv
      <4> QED BY <2>2, <3>5, <4>4, <4>5 DEF Effect
    <3> QED BY <3>4, <3>5
  <2> QED BY <2>1, <2>2
<1> QED BY <1>1, <1>2, <1>3, <1>4 DEF EdgeInv

WaitInv ==
    /\ LocalInv
    /\ \A o \in Owner : Family(o)
    /\ QueueInv
    /\ EdgeInv

(* Nobody waits in the initial state.                                      *)
LEMMA WaitInvInit == Init => WaitInv
<1> SUFFICES ASSUME Init PROVE WaitInv
    OBVIOUS
<1>1. \A o \in Owner : Family(o)
  BY DEF Init, Family
<1>2. QueueInv
  BY DEF Init, QueueInv, Distinct, Queued
<1>3. EdgeInv
  BY DEF Init, EdgeInv, Queued
<1> QED BY <1>1, <1>2, <1>3, LocalInvInit DEF WaitInv

(* A step of o with all it leaves behind, for the proofs that follow.      *)
LEMMA StepFacts ==
    ASSUME WaitInv, NEW o \in Owner, Step(o), Next
    PROVE  /\ TypeRest /\ GrantsTyped(grants) /\ GrantsTyped(grants)'
           /\ LocalInv' /\ Frame(o) /\ Effect(o) /\ RowEffect(o)
<1>1. LocalInv /\ LocalInv' /\ TypeOK /\ TypeOK'
  BY LocalInvStep DEF WaitInv, LocalInv, CompatInv
<1>2. TypeOK' => GrantsTyped(grants)'
  BY TypeOKSplit, PTL
<1>3. TypeRest /\ GrantsTyped(grants) /\ GrantsTyped(grants)'
  BY <1>1, <1>2, TypeOKSplit
<1>4. /\ \A p \in Owner : Place(p) /\ Family(p)
      /\ Ordered(o) /\ Restorable(o) /\ QueueInv /\ EdgeInv
  BY <1>1 DEF WaitInv, LocalInv, CompatInv
<1>5. Frame(o)
  BY <1>3, FrameStep
<1>6. Effect(o)
  BY <1>3, <1>4, EffectStep
<1>7. RowEffect(o)
  BY <1>3, <1>4, RowEffectStep
<1> QED BY <1>1, <1>3, <1>5, <1>6, <1>7

(* Every step keeps the families, the queues and the edges.                *)
LEMMA WaitInvStep == WaitInv /\ [Next]_vars => WaitInv'
<1> SUFFICES ASSUME WaitInv, [Next]_vars PROVE WaitInv'
    OBVIOUS
<1>1. LocalInv'
  BY LocalInvStep DEF WaitInv
<1>2. ASSUME NEW o \in Owner, Step(o), Next PROVE WaitInv'
  <2>1. /\ TypeRest /\ GrantsTyped(grants) /\ GrantsTyped(grants)'
        /\ LocalInv' /\ Frame(o) /\ Effect(o) /\ RowEffect(o)
    BY <1>2, StepFacts
  <2>2. \A p \in Owner : Place(p) /\ Restorable(p) /\ Family(p) /\ QueueInv /\ EdgeInv
    BY DEF WaitInv, LocalInv
  <2>3. Family(o)'
    BY <1>2, <2>1, <2>2, FamilyStep
  <2>4. \A p \in Owner \ {o} : Family(p)'
    BY <2>1, <2>2, OthersFamily
  <2>5. QueueInv'
    BY <2>1, <2>2, QueueStep
  <2>6. Place(o)'
    BY <2>1 DEF LocalInv
  <2>7. EdgeInv'
    BY <2>1, <2>2, <2>3, <2>6, EdgeStep
  <2> QED BY <1>1, <2>3, <2>4, <2>5, <2>7 DEF WaitInv
<1>3. CASE Next
  BY <1>2, <1>3, NextIsStep
<1>4. CASE UNCHANGED vars
  <2>1. \A o \in Owner : Family(o)'
    BY <1>4 DEF vars, Family, WaitInv
  <2>2. QueueInv'
    BY <1>4 DEF vars, QueueInv, NextRequest, WaitInv
  <2>3. \A r \in Resource, o \in Owner : \A m :
           request_blockers(r, o, m)' = request_blockers(r, o, m)
    BY <1>4 DEF vars, request_blockers, Incompatible
  <2>4. EdgeInv'
    BY <1>4, <2>3 DEF vars, EdgeInv, WaitInv
  <2> QED BY <1>1, <2>1, <2>2, <2>4 DEF WaitInv
<1> QED BY <1>3, <1>4

(* The recorded wait-for graph never misses a real wait, whatever the      *)
(* interleaving of parking, grants, restorations and releases and for any  *)
(* number of sessions: a cycle of real waits is one that deadlock          *)
(* detection finds.                                                        *)
THEOREM EdgesAlwaysComplete == Spec => []EdgesComplete
<1>1. WaitInv => EdgesComplete
  <2> SUFFICES ASSUME WaitInv, NEW o \in Owner, NEW h \in RealEdges(o)
               PROVE  h \in waits_for[o]
      BY DEF EdgesComplete
  <2>1. CASE pc[o] = "waiting"
    <3>1. PICK r \in Resource :
             WaitingFor(o, r) /\ h \in request_blockers(r, o, pending[o][r])
      BY <2>1 DEF RealEdges
    <3> QED BY <3>1 DEF WaitInv, EdgeInv, WaitingFor, Queued
  <2>2. CASE pc[o] = "rowwait"
    <3>1. PICK x \in blocker[o] : h = x[1]
      BY <2>2 DEF RealEdges
    <3> QED BY <3>1 DEF WaitInv, EdgeInv
  <2>3. CASE pc[o] \notin {"waiting", "rowwait"}
    BY <2>3 DEF RealEdges
  <2> QED BY <2>1, <2>2, <2>3
<1> QED BY <1>1, WaitInvInit, WaitInvStep, PTL DEF Spec

(* An owner without a guard has left no grant, no request and no edge in   *)
(* the manager, in either direction: release_owner is complete, and nobody *)
(* records an edge to an owner that is gone.                               *)
THEOREM NothingOutlivesGuard == Spec => []NoTraceAfterRelease
<1>1. WaitInv => NoTraceAfterRelease
  <2> SUFFICES ASSUME WaitInv, NEW o \in Owner \ active_owners
               PROVE  /\ \A r \in Resource : grants[r][o] = NoMode /\ ~ WaitingFor(o, r)
                      /\ waits_for[o] = {}
                      /\ \A p \in Owner : o \notin waits_for[p]
      BY DEF NoTraceAfterRelease
  <2>1. Place(o) /\ QueueInv /\ EdgeInv
    BY DEF WaitInv, LocalInv
  <2>2. pc[o] \notin {"waiting", "rowwait"}
    BY <2>1 DEF Place, Running
  <2>3. \A r \in Resource : ~ WaitingFor(o, r)
    BY <2>1, <2>2 DEF QueueInv, WaitingFor, Queued
  <2> QED BY <2>1, <2>2, <2>3 DEF Place, EdgeInv
<1> QED BY <1>1, WaitInvInit, WaitInvStep, PTL DEF Spec

-----------------------------------------------------------------------------
(* Statement owners                                                        *)
(*                                                                         *)
(* A statement owner takes one normalized batch, in the global order of    *)
(* the resources, and starts again from nothing when it is rebound.  So it *)
(* never asks for a resource below one it holds, and along a chain of      *)
(* waiting statement owners the resource only grows, or stays the same and *)
(* the place in its queue gets smaller.                                    *)

(* The batch is acquired in order by an owner that began with no grants.   *)
InOrder(o) ==
    /\ \A r, s \in Resource :
          (grants[r][o] # NoMode /\ pending[o][s] # NoMode) => r < s
    /\ ops[o] = MaxOps => \A r \in Resource : grants[r][o] = NoMode
    /\ pc[o] \in Running => ops[o] # MaxOps
    /\ base[o] # NoSnap => base[o] = NoRequest
    /\ pc[o] # "rowwait"

(* Steps that grant nothing and ask for nothing.                           *)
LEMMA InOrderKept ==
    ASSUME TypeRest, NEW o \in Owner, InOrder(o),
           \A r \in Resource : grants'[r][o] = grants[r][o] \/ grants'[r][o] = NoMode,
           \A r \in Resource : pending'[o][r] = pending[o][r] \/ pending'[o][r] = NoMode,
           ops'[o] = ops[o], base'[o] = base[o] \/ base'[o] = NoSnap,
           pc'[o] \in Running => pc[o] \in Running, pc'[o] # "rowwait"
    PROVE  InOrder(o)'
<1>1. \A r, s \in Resource :
         (grants'[r][o] # NoMode /\ pending'[o][s] # NoMode) => r < s
  BY DEF InOrder
<1> QED BY <1>1 DEF InOrder

(* Every step of a statement owner keeps its batch in order.               *)
LEMMA InOrderStep ==
    ASSUME TypeRest, GrantsTyped(grants), GrantsTyped(grants)', QueueInv,
           NEW o \in Stmt, o \in Owner, Place(o), InOrder(o), Step(o)
    PROVE  InOrder(o)'
<1> USE DEF Goto, Spend, lmVars, regVars, sessVars
<1>0. o \notin Txn
  BY OwnersAssumption
<1>00. ops[o] \in 0 .. MaxOps /\ MaxOps \in Nat
  BY BoundsAssumption DEF TypeRest
<1>1. CASE Lock(o)
  <2>1. ASSUME NEW r \in Resource,
               AcquireCovered(o, r) \/ AcquireFree(o, r) \/ WakeGrant(o, r)
        PROVE  InOrder(o)'
    <3>1. /\ Served(o, r) /\ pc[o] \in {"acquiring", "waiting"}
          /\ \/ grants' = grants
             \/ grants' = [grants EXCEPT ![r][o] = strongest(@, pending[o][r])]
          /\ base' = base /\ ops' = ops
      BY <2>1 DEF AcquireCovered, AcquireFree, WakeGrant, GrantRequest
    <3>2. NextRequest(o, r)
      BY <2>1 DEF AcquireCovered, AcquireFree, WakeGrant, WaitingFor, QueueInv, Queued
    <3>3. pc'[o] \in {"exec", "locked", "acquiring"}
      BY <3>1 DEF Served, After, TypeRest
    <3>4. /\ pending'[o][r] = NoMode
          /\ \A s \in Resource \ {r} : pending'[o][s] = pending[o][s]
      <4>1. pending[o] \in [Resource -> Modes]
        BY SnapshotsFacts DEF TypeRest
      <4> QED BY <3>1, <4>1 DEF Served, TypeRest
    <3>5. \A s \in Resource \ {r} : grants'[s][o] = grants[s][o]
      BY <3>1 DEF GrantsTyped
    <3>6. \A s \in Resource : pending'[o][s] # NoMode => r < s
      <4>1. \A s \in Resource : s \in Nat
        BY ResourceAssumption
      <4> QED BY <3>2, <3>4, <4>1 DEF NextRequest
    <3>7. \A t, s \in Resource :
             (grants'[t][o] # NoMode /\ pending'[o][s] # NoMode) => t < s
      BY <3>4, <3>5, <3>6 DEF InOrder
    <3>8. ops[o] # MaxOps
      BY <3>1 DEF InOrder, Running
    <3> QED BY <3>1, <3>3, <3>7, <3>8 DEF InOrder
  <2>2. ASSUME NEW r \in Resource, AcquirePark(o, r) \/ WakePark(o, r)
        PROVE  InOrder(o)'
    <3>1. pc[o] \in Running /\ pc'[o] # "rowwait"
      BY <2>2 DEF AcquirePark, WakePark, Running, TypeRest
    <3> QED BY <2>2, <3>1, InOrderKept DEF AcquirePark, WakePark
  <2>3. CASE DetectDeadlock(o) \/ CancelAcquire(o)
    <3>1. pc'[o] \in {"victim", "failed"} /\ pending'[o] = NoRequest
      BY <2>3 DEF DetectDeadlock, CancelAcquire, Withdraw, TypeRest
    <3>2. \A r \in Resource : pending'[o][r] = NoMode
      BY <3>1 DEF NoRequest
    <3> QED BY <2>3, <3>1, <3>2, InOrderKept
            DEF DetectDeadlock, CancelAcquire, Running
  <2> QED BY <1>1, <2>1, <2>2, <2>3 DEF Lock
<1>2. CASE Session(o)
  <2>1. CASE Begin(o)
    <3>1. /\ pc[o] = "none" /\ pc'[o] = "idle" /\ grants' = grants
          /\ pending' = pending /\ base' = base
      BY <2>1 DEF Begin, TypeRest
    <3>2. \A r \in Resource : grants[r][o] = NoMode
      BY <3>1 DEF Place
    <3> QED BY <3>1, <3>2 DEF InOrder, Running
  <2>2. CASE Execute(o) \/ \E l \in {"idle", "failed"} : EndStatement(o, l)
    <3>1. pc[o] \in Running /\ pc'[o] # "rowwait"
      BY <2>2 DEF Execute, EndStatement, Running, TypeRest
    <3>2. base'[o] = base[o] \/ base'[o] = NoSnap
      BY <2>2 DEF Execute, EndStatement, TypeRest
    <3> QED BY <2>2, <3>1, <3>2, InOrderKept DEF Execute, EndStatement
  <2>3. ASSUME NEW batch, StartStatement(o, batch) PROVE InOrder(o)'
    <3>1. /\ ops[o] = MaxOps /\ ops'[o] = ops[o] - 1 /\ grants' = grants
          /\ base'[o] = owner_snapshot(o) /\ pc'[o] = "acquiring"
      BY <2>3 DEF StartStatement, TypeRest
    <3>2. \A r \in Resource : grants[r][o] = NoMode
      BY <3>1 DEF InOrder
    <3>3. owner_snapshot(o) = NoRequest
      BY <3>2 DEF owner_snapshot, NoRequest
    <3>4. ops'[o] # MaxOps
      BY <1>00, <3>1
    <3> QED BY <3>1, <3>2, <3>3, <3>4 DEF InOrder
  <2>4. ASSUME NEW batch, Rebind(o, batch) PROVE InOrder(o)'
    <3>1. /\ ops'[o] = ops[o] - 1 /\ ops[o] > 0 /\ base' = base
          /\ base[o] # NoSnap
          /\ grants' = RestoredGrants(o, base[o]) /\ pc'[o] = "acquiring"
      BY <2>4 DEF Rebind, RestoreOwner, TypeRest
    <3>2. \A r \in Resource : grants'[r][o] = NoMode
      BY <3>1 DEF InOrder, NoRequest, RestoredGrants, GrantsTyped
    <3>3. ops'[o] # MaxOps
      BY <1>00, <3>1
    <3> QED BY <3>1, <3>2, <3>3 DEF InOrder
  <2>5. CASE RestorePrior(o)
    <3>1. /\ base[o] # NoSnap /\ base'[o] = NoSnap /\ ops' = ops /\ pc' = pc
          /\ grants' = RestoredGrants(o, base[o]) /\ pending' = pending
      BY <2>5 DEF RestorePrior, RestoreOwner, TypeRest
    <3>2. \A r \in Resource : grants'[r][o] = NoMode
      BY <3>1 DEF InOrder, NoRequest, RestoredGrants, GrantsTyped
    <3> QED BY <3>1, <3>2, InOrderKept DEF InOrder
  <2>6. CASE Deregister(o)
    <3>1. base'[o] = NoSnap /\ pc'[o] = "ending"
      BY <2>6 DEF Deregister, TypeRest
    <3> QED BY <2>6, <3>1, InOrderKept DEF Deregister, Running
  <2>7. CASE ReleaseOwner(o)
    <3>1. /\ DropGuard(o) /\ pc'[o] = "none" /\ base' = base /\ pending' = pending
      BY <2>7 DEF ReleaseOwner, TypeRest
    <3>2. \A r \in Resource : grants'[r][o] = NoMode
      BY <3>1, Released DEF Place
    <3> QED BY <3>1, <3>2 DEF InOrder, Running
  <2> QED BY <1>2, <2>1, <2>2, <2>3, <2>4, <2>5, <2>6, <2>7 DEF Session
<1> QED BY <1>0, <1>1, <1>2 DEF Step

StatementInv == WaitInv /\ \A o \in Stmt : InOrder(o)

(* Every batch stays in order.                                             *)
LEMMA StatementInvStep == StatementInv /\ [Next]_vars => StatementInv'
<1> SUFFICES ASSUME StatementInv, [Next]_vars PROVE StatementInv'
    OBVIOUS
<1>1. WaitInv /\ WaitInv'
  BY WaitInvStep DEF StatementInv
<1>2. \A o \in Owner : Place(o) /\ QueueInv
  BY <1>1 DEF WaitInv, LocalInv
<1>3. ASSUME NEW o \in Owner, Step(o), Next, NEW p \in Stmt PROVE InOrder(p)'
  <2>1. /\ TypeRest /\ GrantsTyped(grants) /\ GrantsTyped(grants)' /\ Frame(o)
    BY <1>1, <1>3, StepFacts
  <2>2. p \in Owner /\ InOrder(p)
    BY DEF Owner, StatementInv
  <2>3. CASE p = o
    BY <1>2, <1>3, <2>1, <2>2, <2>3, InOrderStep
  <2>4. CASE p # o
    <3>1. /\ pc'[p] = pc[p] /\ ops'[p] = ops[p] /\ pending'[p] = pending[p]
          /\ base'[p] = base[p] /\ \A r \in Resource : grants'[r][p] = grants[r][p]
      BY <2>1, <2>2, <2>4 DEF Frame
    <3> QED BY <2>2, <3>1 DEF InOrder
  <2> QED BY <2>3, <2>4
<1>4. CASE Next
  BY <1>1, <1>3, <1>4, NextIsStep DEF StatementInv
<1>5. CASE UNCHANGED vars
  <2>1. \A o \in Stmt : InOrder(o)'
    BY <1>5 DEF vars, InOrder, StatementInv
  <2> QED BY <1>1, <2>1 DEF StatementInv
<1> QED BY <1>4, <1>5

(* Being ahead in a queue is transitive.                                   *)
LEMMA AheadTransitive ==
    ASSUME NEW q \in Seq(Owner), NEW h, NEW p, NEW o,
           Ahead(q, h, p), Ahead(q, p, o)
    PROVE  Ahead(q, h, o)
<1>1. PICK i \in 1 .. Len(q) : q[i] = h /\ \A j \in 1 .. i : q[j] # p
  BY DEF Ahead
<1>2. PICK k \in 1 .. Len(q) : q[k] = p /\ \A j \in 1 .. k : q[j] # o
  BY DEF Ahead
<1>3. i < k
  BY <1>1, <1>2
<1>4. \A j \in 1 .. i : j \in 1 .. k
  BY <1>3
<1> QED BY <1>1, <1>2, <1>4 DEF Ahead

(* A statement owner that blocks the request of another one waits, if it   *)
(* waits at all, for a larger resource or further ahead in the same queue. *)
LEMMA StatementChain ==
    ASSUME StatementInv, NEW p \in Stmt, NEW h \in Stmt, NEW t \in Resource,
           NEW s \in Resource, h \in request_blockers(t, p, pending[p][t]),
           Queued(queues[s], h)
    PROVE  t < s \/ (s = t /\ Ahead(queues[t], h, p))
<1>0. p \in Owner /\ h \in Owner /\ QueueInv /\ InOrder(h)
  BY DEF StatementInv, WaitInv, Owner
<1>1. NextRequest(h, s) /\ pending[h][s] # NoMode
  BY <1>0 DEF QueueInv, NextRequest
<1>2. CASE grants[t][h] # NoMode
  BY <1>0, <1>1, <1>2 DEF InOrder
<1>3. CASE Ahead(queues[t], h, p)
  <2>1. Queued(queues[t], h)
    BY <1>3 DEF Ahead, Queued
  <2>2. NextRequest(h, t)
    BY <1>0, <2>1 DEF QueueInv
  <2> QED BY <1>0, <1>1, <1>3, <2>2, OneRequest
<1> QED BY <1>0, <1>2, <1>3, BlockersFacts

(* Autocommit statements never deadlock among themselves, however many     *)
(* there are and whatever tables, sequences and catalog locks they ask     *)
(* for: acquire_many takes one normalized batch in the order of            *)
(* LockResource.  The witness is the set of statement owners that do not   *)
(* wait, or wait further along than o: it holds the successors of o and is *)
(* closed under real waits, but does not hold o.                           *)
THEOREM StatementsAreDeadlockFree == Spec => []StatementsNeverDeadlock
<1>1. Init => StatementInv
  <2> SUFFICES ASSUME Init PROVE StatementInv
      OBVIOUS
  <2>1. \A o \in Stmt : InOrder(o)
    BY DEF Init, InOrder, Running, NoRequest, Owner
  <2> QED BY <2>1, WaitInvInit DEF StatementInv
<1>2. StatementInv => StatementsNeverDeadlock
  <2> SUFFICES ASSUME StatementInv, NEW o \in Stmt
               PROVE  ~ on_cycle([p \in Owner |-> RealEdges(p) \cap Stmt], o)
      BY DEF StatementsNeverDeadlock
  <2> DEFINE G == [p \in Owner |-> RealEdges(p) \cap Stmt]
  <2>0. /\ o \in Owner /\ Stmt \subseteq Owner /\ QueueInv
        /\ \A r \in Resource : queues[r] \in Seq(Owner)
    BY TypeOKSplit DEF Owner, StatementInv, WaitInv, LocalInv, CompatInv, TypeRest
  <2>1. ASSUME NEW p \in Stmt, NEW h \in RealEdges(p)
        PROVE  \E t \in Resource :
                  /\ Queued(queues[t], p)
                  /\ h \in request_blockers(t, p, pending[p][t])
    <3>1. pc[p] = "waiting"
      BY <2>1 DEF RealEdges, StatementInv, InOrder
    <3>2. PICK t \in Resource :
             WaitingFor(p, t) /\ h \in request_blockers(t, p, pending[p][t])
      BY <2>1, <3>1 DEF RealEdges
    <3> QED BY <3>2 DEF WaitingFor, Queued
  <2>2. CASE \A r \in Resource : ~ Queued(queues[r], o)
    <3>1. RealEdges(o) = {}
      BY <2>1, <2>2
    <3>2. G[o] \subseteq {} /\ {} \in SUBSET Owner
      BY <2>0, <3>1
    <3> HIDE DEF G
    <3>3. ~ on_cycle(G, o)
      BY <3>2 DEF on_cycle
    <3> QED BY <3>3 DEF G
  <2>3. ASSUME NEW r \in Resource, Queued(queues[r], o)
        PROVE  ~ on_cycle(G, o)
    <3> DEFINE Beyond(p, s) == r < s \/ (s = r /\ Ahead(queues[r], p, o))
               S == {p \in Stmt : \A s \in Resource :
                        Queued(queues[s], p) => Beyond(p, s)}
    <3>1. \A s \in Resource : s \in Nat
      BY ResourceAssumption
    <3>2. o \notin S
      <4>1. ~ Ahead(queues[r], o, o)
        <5>1. \A i \in 1 .. Len(queues[r]) : i \in 1 .. i
          BY <2>0
        <5> QED BY <5>1 DEF Ahead
      <4>2. ~ Beyond(o, r)
        BY <3>1, <4>1
      <4> QED BY <2>3, <4>2
    <3>3. ASSUME NEW h \in G[o] PROVE h \in S
      <4>1. h \in RealEdges(o) /\ h \in Stmt
        BY <2>0, <3>3
      <4>2. PICK t \in Resource :
               /\ Queued(queues[t], o)
               /\ h \in request_blockers(t, o, pending[o][t])
        BY <2>1, <4>1
      <4>3. t = r
        BY <2>0, <2>3, <4>2, OneRequest DEF QueueInv
      <4>4. ASSUME NEW s \in Resource, Queued(queues[s], h) PROVE Beyond(h, s)
        BY <4>1, <4>2, <4>3, <4>4, StatementChain
      <4> QED BY <4>1, <4>4
    <3>4. ASSUME NEW p \in S, NEW h \in G[p] PROVE h \in S
      <4>1. p \in Stmt /\ h \in RealEdges(p) /\ h \in Stmt
        BY <2>0, <3>4
      <4>2. PICK t \in Resource :
               /\ Queued(queues[t], p)
               /\ h \in request_blockers(t, p, pending[p][t])
        BY <2>1, <4>1
      <4>3. Beyond(p, t)
        BY <3>4, <4>2
      <4>4. ASSUME NEW s \in Resource, Queued(queues[s], h) PROVE Beyond(h, s)
        <5>1. t < s \/ (s = t /\ Ahead(queues[t], h, p))
          BY <4>1, <4>2, <4>4, StatementChain
        <5>2. CASE s = t /\ t = r /\ Ahead(queues[t], h, p) /\ Ahead(queues[r], p, o)
          BY <2>0, <5>2, AheadTransitive
        <5> QED BY <3>1, <4>3, <5>1, <5>2
      <4> QED BY <4>1, <4>4
    <3>5. S \in SUBSET Owner /\ G[o] \subseteq S /\ \A p \in S : G[p] \subseteq S
      BY <2>0, <3>3, <3>4
    <3> HIDE DEF G, S
    <3> QED BY <3>2, <3>5 DEF on_cycle
  <2> QED BY <2>2, <2>3
<1> QED BY <1>1, <1>2, StatementInvStep, PTL DEF Spec

=============================================================================
