---------------------------- MODULE LockManager ----------------------------
(***************************************************************************)
(* The shared row-conflict and object lock manager of SaguaroDB            *)
(* (server/src/lock_manager.rs) together with the part of a session that   *)
(* drives it: statements that acquire a batch of object locks, tuple locks *)
(* and row waits during execution, savepoints that capture and restore     *)
(* the owner's grants, and the end of a transaction.                       *)
(*                                                                         *)
(* Every step below is one critical section of the manager's mutex (or of  *)
(* the registry's latch), so the interleavings are those of the threads.   *)
(* An owner is served by one thread at a time and has at most one request  *)
(* in the queues; its identity therefore stands for the request id, and    *)
(* `pending' holds the mode it asks for.                                   *)
(***************************************************************************)
EXTENDS LockModes, Integers, Sequences

CONSTANTS
    Txn,        \* lock owners that are top-level transactions
    Stmt,       \* lock owners that are autocommit read-only statements
    Resource,   \* lockable objects, numbered in the order of LockResource
    KindOf,     \* the kind of each resource
    Menu,       \* the modes that statements ask for, per resource
    MaxOps,     \* bound: lock operations of one transaction
    MaxSave,    \* bound: depth of the savepoint stack
    MaxXid,     \* bound: subtransaction ids of one transaction
    NoSnap      \* the absence of a grant snapshot

Owner == Txn \cup Stmt
Modes == 0 .. 5

ASSUME OwnersAssumption == Txn \cap Stmt = {}
ASSUME ResourceAssumption == Resource \subseteq Nat
ASSUME KindAssumption == KindOf \in [Resource -> Kinds]
ASSUME MenuAssumption ==
    /\ Menu \in [Resource -> SUBSET Nat]
    /\ \A r \in Resource : Menu[r] \subseteq ModesOf(KindOf[r])
ASSUME BoundsAssumption == MaxOps \in Nat /\ MaxSave \in Nat /\ MaxXid \in Nat
ASSUME NoSnapAssumption == NoSnap \notin [Resource -> Modes]

VARIABLES
    pc,         \* where the owner's thread is
    ops,        \* lock operations left to the transaction (bound)
    active_owners,
    waits_for,  \* owner -> owners it waits for; {} is the absence of an entry
    grants,     \* resource -> owner -> mode, NoMode is the absence of a grant
    queues,     \* resource -> FIFO of the owners with a queued request
    pending,    \* owner -> resource -> mode still to be acquired
    base,       \* grants at the start of the statement's lock acquisition
    stack,      \* savepoint levels: subtransaction id and captured grants
    receipts,   \* tuple grants of the running statement: resource, previous
    live,       \* subtransaction ids registered active (0 is the top level)
    wrote,      \* registered ids that have stamped a row
    blocker     \* the registered id a row wait is for, as a set

lmVars == <<active_owners, waits_for, grants, queues>>
sessVars == <<pc, ops, pending, base, stack, receipts>>
regVars == <<live, wrote, blocker>>
vars == <<pc, ops, active_owners, waits_for, grants, queues, pending, base,
          stack, receipts, live, wrote, blocker>>

Xid == Txn \X (0 .. MaxXid)
GrantModes(r) == ModesOf(KindOf[r]) \cup {NoMode}
Snapshots == {f \in [Resource -> Modes] :
                 \A r \in Resource : f[r] \in GrantModes(r)}
Labels == {"none", "idle", "acquiring", "waiting", "locked", "exec", "rowwait",
           "failed", "victim", "rolling", "ending"}
Levels == [xid : 0 .. MaxXid, snap : Snapshots \cup {NoSnap}]
Receipts == {x \in [res : Resource, previous : Modes] :
                x.previous \in GrantModes(x.res)}
NoRequest == [r \in Resource |-> NoMode]

-----------------------------------------------------------------------------
(* Helpers of the manager                                                  *)

(* remove_request *)
remove_request(q, o) ==
    IF \E i \in 1 .. Len(q) : q[i] = o
    THEN LET i == CHOOSE i \in 1 .. Len(q) : q[i] = o
         IN  [j \in 1 .. (Len(q) - 1) |-> IF j < i THEN q[j] ELSE q[j + 1]]
    ELSE q

Incompatible(r, mode, other) == ~ compatible(KindOf[r], mode, other)

(* Mutant: an upgrade by a holder does not look at the other holders.      *)
request_blockers_Upgrade(r, o, mode) ==
    {h \in Owner \ {o} :
        /\ grants[r][o] = NoMode
        /\ grants[r][h] # NoMode
        /\ Incompatible(r, mode, grants[r][h])}

(* Mutant: requests overtake the queue.                                    *)
request_blockers_NoQueue(r, o, mode) ==
    {h \in Owner \ {o} :
        grants[r][h] # NoMode /\ Incompatible(r, mode, grants[r][h])}

(* request_blockers: the incompatible holders and the earlier incompatible *)
(* requests of other owners; every request is earlier than one that is not *)
(* queued yet.                                                             *)
request_blockers(r, o, mode) ==
    {h \in Owner \ {o} :
        \/ grants[r][h] # NoMode /\ Incompatible(r, mode, grants[r][h])
        \/ \E i \in 1 .. Len(queues[r]) :
              /\ queues[r][i] = h
              /\ \A j \in 1 .. i : queues[r][j] # o
              /\ Incompatible(r, mode, pending[h][r])}

(* on_cycle: some owner reachable from start along the recorded edges is   *)
(* start itself, that is, start is in every set that holds the successors  *)
(* of start and is closed under the edges.                                 *)
on_cycle(graph, start) ==
    \A S \in SUBSET Owner :
        (graph[start] \subseteq S /\ \A p \in S : graph[p] \subseteq S)
            => start \in S

(* owner_snapshot *)
owner_snapshot(o) == [r \in Resource |-> grants[r][o]]

(* The type invariant; the modes held, requested and captured for an object *)
(* are modes of its kind.                                                  *)
TypeOK ==
    /\ pc \in [Owner -> Labels]
    /\ ops \in [Owner -> 0 .. MaxOps]
    /\ active_owners \subseteq Owner
    /\ waits_for \in [Owner -> SUBSET Owner]
    /\ grants \in [Resource -> [Owner -> Modes]]
    /\ \A o \in Owner : owner_snapshot(o) \in Snapshots
    /\ queues \in [Resource -> Seq(Owner)]
    /\ pending \in [Owner -> Snapshots]
    /\ base \in [Owner -> Snapshots \cup {NoSnap}]
    /\ stack \in [Owner -> Seq(Levels)]
    /\ receipts \in [Owner -> Seq(Receipts)]
    /\ live \in [Owner -> SUBSET (0 .. MaxXid)]
    /\ wrote \subseteq Xid
    /\ blocker \in [Owner -> SUBSET Xid]

(* The grants after restore_owner has put the owner back to snap.          *)
RestoredGrants(o, snap) ==
    [r \in Resource |-> [grants[r] EXCEPT ![o] = snap[r]]]

can_restore(o, snap) ==
    \A r \in Resource : snap[r] # NoMode => covers(grants[r][o], snap[r])

(* Mutant: the batch is walked from the strongest mode down.               *)
NextRequest_StrongestFirst(o, r) ==
    /\ pending[o][r] # NoMode
    /\ \A s \in Resource : pending[o][r] >= pending[o][s]

(* The request the owner's thread acquires next: acquire_many walks the    *)
(* normalized batch in the order of LockResource.                          *)
NextRequest(o, r) ==
    /\ pending[o][r] # NoMode
    /\ \A s \in Resource : pending[o][s] # NoMode => r <= s

WaitingFor(o, r) ==
    /\ pending[o][r] # NoMode
    /\ \E i \in 1 .. Len(queues[r]) : queues[r][i] = o

(* The innermost open savepoint's id, or the transaction's own.            *)
writing_xid(o) == IF stack[o] = <<>> THEN 0 ELSE stack[o][Len(stack[o])].xid

(* A row waiter sees that its blocker has left the registry.               *)
Settled(xids) == [o \in Owner |-> blocker[o] \ xids]

Spend(o) == ops[o] > 0 /\ ops' = [ops EXCEPT ![o] = @ - 1]
Goto(o, l) == pc' = [pc EXCEPT ![o] = l]

-----------------------------------------------------------------------------
(* acquire_one                                                             *)

(* Where the thread continues once the request on r is served: a tuple     *)
(* lock belongs to the running statement, an object lock to its batch.     *)
After(o, r) ==
    IF KindOf[r] = "tuple" THEN "exec"
    ELSE IF \A s \in Resource \ {r} : pending[o][s] = NoMode THEN "locked"
    ELSE "acquiring"

Served(o, r) ==
    /\ pending' = [pending EXCEPT ![o][r] = NoMode]
    /\ receipts' = IF KindOf[r] = "tuple"
                   THEN [receipts EXCEPT ![o] =
                           Append(@, [res |-> r, previous |-> grants[r][o]])]
                   ELSE receipts
    /\ Goto(o, After(o, r))

(* The grant itself: the request leaves the queue, the owner holds the     *)
(* stronger of its previous and the requested mode.                        *)
GrantRequest(o, r) ==
    /\ grants' = [grants EXCEPT ![r][o] = strongest(@, pending[o][r])]
    /\ queues' = [queues EXCEPT ![r] = remove_request(@, o)]
    /\ waits_for' = [waits_for EXCEPT ![o] = {}]

Covered(o, r) == covers(grants[r][o], pending[o][r])

(* A request that the owner's grant covers returns at once.                *)
AcquireCovered(o, r) ==
    /\ pc[o] = "acquiring"
    /\ NextRequest(o, r)
    /\ Covered(o, r)
    /\ Served(o, r)
    /\ UNCHANGED <<ops, base, stack, lmVars, regVars>>

(* The first pass of the loop finds no blocker: granted without waiting.   *)
AcquireFree(o, r) ==
    /\ pc[o] = "acquiring"
    /\ NextRequest(o, r)
    /\ ~ Covered(o, r)
    /\ request_blockers(r, o, pending[o][r]) = {}
    /\ GrantRequest(o, r)
    /\ Served(o, r)
    /\ UNCHANGED <<ops, active_owners, base, stack, regVars>>

(* The first pass finds blockers: the request stays queued, the edges are  *)
(* recorded and the thread parks on the condition variable.                *)
AcquirePark(o, r) ==
    /\ pc[o] = "acquiring"
    /\ NextRequest(o, r)
    /\ ~ Covered(o, r)
    /\ request_blockers(r, o, pending[o][r]) # {}
    /\ queues' = [queues EXCEPT ![r] = Append(@, o)]
    /\ waits_for' = [waits_for EXCEPT
                        ![o] = request_blockers(r, o, pending[o][r])]
    /\ Goto(o, "waiting")
    /\ UNCHANGED <<ops, active_owners, grants, pending, base, stack, receipts,
                   regVars>>

(* A parked request wakes and recomputes its blockers: granted if there is *)
(* none left, parked again on the fresh edges otherwise.                   *)
WakeGrant(o, r) ==
    /\ pc[o] = "waiting"
    /\ WaitingFor(o, r)
    /\ request_blockers(r, o, pending[o][r]) = {}
    /\ GrantRequest(o, r)
    /\ Served(o, r)
    /\ UNCHANGED <<ops, active_owners, base, stack, regVars>>

WakePark(o, r) ==
    /\ pc[o] = "waiting"
    /\ WaitingFor(o, r)
    /\ request_blockers(r, o, pending[o][r]) # {}
    /\ waits_for' = [waits_for EXCEPT
                        ![o] = request_blockers(r, o, pending[o][r])]
    /\ UNCHANGED <<active_owners, grants, queues, sessVars, regVars>>

(* The request is withdrawn: removed from its queue, its edges dropped.    *)
Withdraw(o) ==
    /\ queues' = [r \in Resource |-> remove_request(queues[r], o)]
    /\ waits_for' = [waits_for EXCEPT ![o] = {}]
    /\ pending' = [pending EXCEPT ![o] = NoRequest]

(* deadlock_timeout has elapsed when the thread wakes: detection runs on   *)
(* the edges recorded before the wait, and the detecting owner is the      *)
(* victim.                                                                 *)
DetectDeadlock(o) ==
    /\ pc[o] = "waiting"
    /\ on_cycle(waits_for, o)
    /\ Withdraw(o)
    /\ Goto(o, "victim")
    /\ UNCHANGED <<ops, active_owners, grants, base, stack, receipts, regVars>>

(* The statement is cancelled before its request is served.                *)
CancelAcquire(o) ==
    /\ pc[o] \in {"acquiring", "waiting"}
    /\ Withdraw(o)
    /\ Goto(o, "failed")
    /\ UNCHANGED <<ops, active_owners, grants, base, stack, receipts, regVars>>

-----------------------------------------------------------------------------
(* Row waits: ConflictWaiter::wait_for                                     *)

(* Mutant: row waits stay out of the shared graph.                         *)
RowWait_NoEdge(o, x) ==
    /\ pc[o] = "exec"
    /\ x[1] # o
    /\ Spend(o)
    /\ blocker' = [blocker EXCEPT ![o] = {x}]
    /\ Goto(o, "rowwait")
    /\ UNCHANGED <<lmVars, pending, base, stack, receipts, live, wrote>>

(* A writer meets a row stamped by an in-progress transaction.             *)
RowWait(o, x) ==
    /\ pc[o] = "exec"
    /\ x[1] # o
    /\ Spend(o)
    /\ waits_for' = [waits_for EXCEPT ![o] = {x[1]}]
    /\ blocker' = [blocker EXCEPT ![o] = {x}]
    /\ Goto(o, "rowwait")
    /\ UNCHANGED <<active_owners, grants, queues, pending, base, stack,
                   receipts, live, wrote>>

RowLeave(o, l) ==
    /\ waits_for' = [waits_for EXCEPT ![o] = {}]
    /\ blocker' = [blocker EXCEPT ![o] = {}]
    /\ Goto(o, l)
    /\ UNCHANGED <<ops, active_owners, grants, queues, pending, base, stack,
                   receipts, live, wrote>>

RowProceed(o) == pc[o] = "rowwait" /\ blocker[o] = {} /\ RowLeave(o, "exec")

RowDetect(o) ==
    pc[o] = "rowwait" /\ on_cycle(waits_for, o) /\ RowLeave(o, "victim")

RowCancel(o) == pc[o] = "rowwait" /\ RowLeave(o, "failed")

-----------------------------------------------------------------------------
(* Tuple locks: acquire_tuple and restore_tuple_grants                     *)

(* A blocking tuple request is one more request of the statement.          *)
TupleLock(o, r, m) ==
    /\ pc[o] = "exec"
    /\ Spend(o)
    /\ pending' = [pending EXCEPT ![o][r] = m]
    /\ Goto(o, "acquiring")
    /\ UNCHANGED <<base, stack, receipts, lmVars, regVars>>

(* NOWAIT and SKIP LOCKED never wait: the lock is taken, or the statement  *)
(* fails, or the row is skipped.                                           *)
TupleTry(o, r, m, policy) ==
    LET free == covers(grants[r][o], m) \/ request_blockers(r, o, m) = {} IN
    /\ pc[o] = "exec"
    /\ Spend(o)
    /\ grants' = IF free THEN [grants EXCEPT ![r][o] = strongest(@, m)]
                 ELSE grants
    /\ receipts' = IF free
                   THEN [receipts EXCEPT ![o] =
                           Append(@, [res |-> r, previous |-> grants[r][o]])]
                   ELSE receipts
    /\ Goto(o, IF ~ free /\ policy = "NoWait" THEN "failed" ELSE "exec")
    /\ UNCHANGED <<active_owners, waits_for, queues, pending, base, stack,
                   regVars>>

(* restore_tuple_changes: the tuple grants from the i-th receipt on are    *)
(* undone, latest first, so each resource gets back the mode it had before *)
(* the first of them.                                                      *)
RestoreTuples(o, i) ==
    LET undone(r) == {j \in i .. Len(receipts[o]) : receipts[o][j].res = r}
        first(r) == CHOOSE j \in undone(r) : \A k \in undone(r) : j <= k
    IN  /\ pc[o] = "exec"
        /\ i \in 1 .. Len(receipts[o])
        /\ grants' = [r \in Resource |->
                        IF undone(r) = {} THEN grants[r]
                        ELSE [grants[r] EXCEPT
                                ![o] = receipts[o][first(r)].previous]]
        /\ receipts' = [receipts EXCEPT ![o] = SubSeq(@, 1, i - 1)]
        /\ waits_for' = [waits_for EXCEPT ![o] = {}]
        /\ UNCHANGED <<pc, ops, active_owners, queues, pending, base, stack,
                       regVars>>

-----------------------------------------------------------------------------
(* Statements                                                              *)

Batches ==
    {b \in Snapshots :
        /\ b # NoRequest
        /\ \A r \in Resource :
              b[r] # NoMode => b[r] \in Menu[r] /\ KindOf[r] # "tuple"}

(* BEGIN registers the top-level id; an autocommit read creates its        *)
(* statement owner.                                                        *)
Begin(o) ==
    /\ pc[o] = "none"
    /\ ops' = [ops EXCEPT ![o] = MaxOps]
    /\ live' = [live EXCEPT ![o] = IF o \in Txn THEN {0} ELSE {}]
    /\ active_owners' = IF o \in Stmt THEN active_owners \cup {o}
                        ELSE active_owners
    /\ Goto(o, "idle")
    /\ UNCHANGED <<waits_for, grants, queues, pending, base, stack, receipts,
                   wrote, blocker>>

(* A statement ensures its lock owner, remembers the grants it starts from *)
(* and turns to its normalized batch.  A statement owner runs one.         *)
StartStatement(o, batch) ==
    /\ pc[o] = "idle"
    /\ o \in Stmt => ops[o] = MaxOps
    /\ Spend(o)
    /\ active_owners' = active_owners \cup {o}
    /\ base' = [base EXCEPT ![o] = owner_snapshot(o)]
    /\ pending' = [pending EXCEPT ![o] = batch]
    /\ Goto(o, "acquiring")
    /\ UNCHANGED <<waits_for, grants, queues, stack, receipts, regVars>>

(* Mutant: like release_owner, restoring removes the owner from the edges  *)
(* of others, although it still holds the restored grants.                 *)
RestoreOwner_ClearsEdges(o, snap) ==
    /\ grants' = RestoredGrants(o, snap)
    /\ waits_for' = [p \in Owner |-> IF p = o THEN {} ELSE waits_for[p] \ {o}]
    /\ UNCHANGED <<active_owners, queues>>

RestoreOwner(o, snap) ==
    /\ grants' = RestoredGrants(o, snap)
    /\ waits_for' = [waits_for EXCEPT ![o] = {}]
    /\ UNCHANGED <<active_owners, queues>>

(* Mutant: the retry starts from no locks at all, not from those of the    *)
(* transaction's earlier statements.                                       *)
Rebind_DropAll(o, batch) ==
    /\ pc[o] = "locked"
    /\ Spend(o)
    /\ RestoreOwner(o, NoRequest)
    /\ pending' = [pending EXCEPT ![o] = batch]
    /\ Goto(o, "acquiring")
    /\ UNCHANGED <<base, stack, receipts, regVars>>

(* The rebound statement needs other locks: the attempt is undone and the  *)
(* new batch acquired in order.                                            *)
Rebind(o, batch) ==
    /\ pc[o] = "locked"
    /\ Spend(o)
    /\ base[o] # NoSnap
    /\ can_restore(o, base[o])
    /\ RestoreOwner(o, base[o])
    /\ pending' = [pending EXCEPT ![o] = batch]
    /\ Goto(o, "acquiring")
    /\ UNCHANGED <<base, stack, receipts, regVars>>

Execute(o) ==
    /\ pc[o] = "locked"
    /\ base' = [base EXCEPT ![o] = NoSnap]
    /\ Goto(o, "exec")
    /\ UNCHANGED <<ops, pending, stack, receipts, lmVars, regVars>>

(* A failed acquisition of an unprepared statement undoes the locks of the *)
(* attempt; that of a prepared one keeps them, hence this step may be      *)
(* passed over.                                                            *)
RestorePrior(o) ==
    /\ pc[o] \in {"failed", "victim"}
    /\ base[o] # NoSnap
    /\ can_restore(o, base[o])
    /\ RestoreOwner(o, base[o])
    /\ base' = [base EXCEPT ![o] = NoSnap]
    /\ UNCHANGED <<pc, ops, pending, stack, receipts, regVars>>

(* The statement stamps a row with the writing id.                         *)
WriteRow(o) ==
    /\ pc[o] = "exec"
    /\ Spend(o)
    /\ wrote' = wrote \cup {<<o, writing_xid(o)>>}
    /\ UNCHANGED <<pc, pending, base, stack, receipts, lmVars, live, blocker>>

EndStatement(o, l) ==
    /\ pc[o] = "exec"
    /\ receipts' = [receipts EXCEPT ![o] = <<>>]
    /\ Goto(o, l)
    /\ UNCHANGED <<ops, pending, base, stack, lmVars, regVars>>

-----------------------------------------------------------------------------
(* Savepoints and the end of a transaction                                 *)

(* The next id of the allocator: larger than every live id of the owner.   *)
Fresh(o, n) == (n - 1) \in live[o] /\ \A m \in live[o] : m < n

Savepoint(o, n) ==
    /\ pc[o] = "idle"
    /\ Len(stack[o]) < MaxSave
    /\ Fresh(o, n)
    /\ Spend(o)
    /\ stack' = [stack EXCEPT ![o] = Append(@,
                    [xid |-> n,
                     snap |-> IF o \in active_owners THEN owner_snapshot(o)
                              ELSE NoSnap])]
    /\ live' = [live EXCEPT ![o] = @ \cup {n}]
    /\ UNCHANGED <<pc, pending, base, receipts, lmVars, wrote, blocker>>

ReleaseSavepoint(o, i) ==
    /\ pc[o] = "idle"
    /\ i \in 1 .. Len(stack[o])
    /\ Spend(o)
    /\ stack' = [stack EXCEPT ![o] = SubSeq(@, 1, i - 1)]
    /\ UNCHANGED <<pc, pending, base, receipts, lmVars, regVars>>

(* deregister_all on the owner's ids from n on, and the wake-up.           *)
DeregisterFrom(o, n) ==
    LET xids == {<<o, m>> : m \in {k \in live[o] : k >= n}} IN
    /\ live' = [live EXCEPT ![o] = {k \in @ : k < n}]
    /\ wrote' = wrote \ xids
    /\ blocker' = Settled(xids)

(* ROLLBACK TO, first half: every live id since the level is aborted and   *)
(* deregistered, the levels above are discarded.                           *)
RollbackTo(o, i) ==
    /\ pc[o] \in {"idle", "failed"}
    /\ i \in 1 .. Len(stack[o])
    /\ Spend(o)
    /\ DeregisterFrom(o, stack[o][i].xid)
    /\ stack' = [stack EXCEPT ![o] = SubSeq(@, 1, i)]
    /\ base' = [base EXCEPT ![o] = NoSnap]
    /\ receipts' = [receipts EXCEPT ![o] = <<>>]
    /\ Goto(o, "rolling")
    /\ UNCHANGED <<pending, lmVars>>

(* Mutant: the edges of other owners are left alone.                       *)
release_owner_KeepsEdges(o) ==
    /\ active_owners' = active_owners \ {o}
    /\ grants' = [r \in Resource |-> [grants[r] EXCEPT ![o] = NoMode]]
    /\ queues' = [r \in Resource |-> remove_request(queues[r], o)]
    /\ waits_for' = [waits_for EXCEPT ![o] = {}]

(* release_owner: every trace of the owner leaves the manager.             *)
release_owner(o) ==
    /\ active_owners' = active_owners \ {o}
    /\ grants' = [r \in Resource |-> [grants[r] EXCEPT ![o] = NoMode]]
    /\ queues' = [r \in Resource |-> remove_request(queues[r], o)]
    /\ waits_for' = [p \in Owner |-> IF p = o THEN {} ELSE waits_for[p] \ {o}]

(* Dropping the session's guard, if it has one.                            *)
DropGuard(o) ==
    IF o \in active_owners THEN release_owner(o) ELSE UNCHANGED lmVars

(* ROLLBACK TO, second half: the captured grants are restored, or the lock *)
(* owner released if the level predates it, and the level is established   *)
(* again under a fresh id.                                                 *)
RollbackRestore(o, n) ==
    LET top == Len(stack[o])
        snap == stack[o][top].snap
        ok == snap = NoSnap \/ (o \in active_owners /\ can_restore(o, snap))
    IN  /\ pc[o] = "rolling"
        /\ stack[o] # <<>>
        /\ Fresh(o, n)
        /\ IF snap = NoSnap THEN DropGuard(o)
           ELSE IF ok THEN RestoreOwner(o, snap)
           ELSE UNCHANGED lmVars
        /\ stack' = [stack EXCEPT ![o] =
                        IF ok THEN [@ EXCEPT ![top].xid = n]
                        ELSE SubSeq(@, 1, top - 1)]
        /\ live' = IF ok THEN [live EXCEPT ![o] = @ \cup {n}] ELSE live
        /\ Goto(o, IF ok THEN "idle" ELSE "failed")
        /\ UNCHANGED <<ops, pending, base, receipts, wrote, blocker>>

(* COMMIT, ROLLBACK or the abort of a deadlock victim, first half: the     *)
(* whole family leaves the registry and the row waiters are woken.         *)
Deregister(o) ==
    /\ pc[o] \in {"idle", "failed", "victim"}
    /\ DeregisterFrom(o, 0)
    /\ stack' = [stack EXCEPT ![o] = <<>>]
    /\ base' = [base EXCEPT ![o] = NoSnap]
    /\ receipts' = [receipts EXCEPT ![o] = <<>>]
    /\ Goto(o, "ending")
    /\ UNCHANGED <<ops, pending, lmVars>>

(* Second half: dropping the guard releases the owner.                     *)
ReleaseOwner(o) ==
    /\ pc[o] = "ending"
    /\ DropGuard(o)
    /\ Goto(o, "none")
    /\ ops' = [ops EXCEPT ![o] = 0]
    /\ UNCHANGED <<pending, base, stack, receipts, regVars>>

-----------------------------------------------------------------------------
Init ==
    /\ pc = [o \in Owner |-> "none"]
    /\ ops = [o \in Owner |-> 0]
    /\ active_owners = {}
    /\ waits_for = [o \in Owner |-> {}]
    /\ grants = [r \in Resource |-> [o \in Owner |-> NoMode]]
    /\ queues = [r \in Resource |-> <<>>]
    /\ pending = [o \in Owner |-> NoRequest]
    /\ base = [o \in Owner |-> NoSnap]
    /\ stack = [o \in Owner |-> <<>>]
    /\ receipts = [o \in Owner |-> <<>>]
    /\ live = [o \in Owner |-> {}]
    /\ wrote = {}
    /\ blocker = [o \in Owner |-> {}]

Lock(o) ==
    \/ \E r \in Resource :
          \/ AcquireCovered(o, r) \/ AcquireFree(o, r) \/ AcquirePark(o, r)
          \/ WakeGrant(o, r) \/ WakePark(o, r)
    \/ DetectDeadlock(o)
    \/ CancelAcquire(o)

Row(o) ==
    \/ \E x \in wrote : RowWait(o, x)
    \/ RowProceed(o) \/ RowDetect(o) \/ RowCancel(o)
    \/ \E r \in Resource : KindOf[r] = "tuple" /\ \E m \in Menu[r] :
          \/ TupleLock(o, r, m)
          \/ \E policy \in {"NoWait", "SkipLocked"} : TupleTry(o, r, m, policy)
    \/ \E i \in 1 .. MaxOps : RestoreTuples(o, i)
    \/ WriteRow(o)

Session(o) ==
    \/ Begin(o)
    \/ \E batch \in Batches : StartStatement(o, batch) \/ Rebind(o, batch)
    \/ Execute(o)
    \/ RestorePrior(o)
    \/ \E l \in {"idle", "failed"} : EndStatement(o, l)
    \/ Deregister(o)
    \/ ReleaseOwner(o)

Savepoints(o) ==
    \/ \E n \in 1 .. MaxXid : Savepoint(o, n) \/ RollbackRestore(o, n)
    \/ \E i \in 1 .. MaxSave : ReleaseSavepoint(o, i) \/ RollbackTo(o, i)

Next ==
    \/ \E o \in Owner : Lock(o) \/ Session(o)
    \/ \E o \in Txn : Row(o) \/ Savepoints(o)

Spec == Init /\ [][Next]_vars

(* The manager's own threads make progress: a parked request polls every   *)
(* POLL_INTERVAL, runs detection every deadlock_timeout, and a transaction *)
(* that is ending runs to the end.                                         *)
ManagerFairness ==
    \A o \in Owner :
        /\ WF_vars(\E r \in Resource : \/ AcquireCovered(o, r)
                                       \/ AcquireFree(o, r)
                                       \/ AcquirePark(o, r))
        /\ WF_vars(\E r \in Resource : WakeGrant(o, r) \/ WakePark(o, r))
        /\ WF_vars(DetectDeadlock(o))
        /\ WF_vars(RowProceed(o) \/ RowDetect(o))
        /\ WF_vars(\E n \in 1 .. MaxXid : RollbackRestore(o, n))
        /\ WF_vars(ReleaseOwner(o))
        /\ WF_vars(pc[o] = "victim" /\ Deregister(o))

(* Clients that are not blocked eventually end their statement and their   *)
(* transaction.                                                            *)
ClientFairness ==
    \A o \in Owner :
        /\ WF_vars(Execute(o))
        /\ WF_vars(\E l \in {"idle", "failed"} : EndStatement(o, l))
        /\ WF_vars(Deregister(o))

FairSpec == Spec /\ ManagerFairness

-----------------------------------------------------------------------------
(* Properties                                                              *)

(* Two owners never hold incompatible modes on one resource, whatever the  *)
(* interleaving of grants, upgrades, downgrades by savepoint rollback and  *)
(* undone tuple locks (the purpose of acquire_one).                        *)
GrantsCompatible ==
    \A r \in Resource : \A o, p \in Owner :
        (o # p /\ grants[r][o] # NoMode /\ grants[r][p] # NoMode)
            => compatible(KindOf[r], grants[r][o], grants[r][p])

(* What an owner really waits for in this state: the current blockers of   *)
(* its queued request, or the transaction of a row blocker that is still   *)
(* registered.                                                             *)
RealEdges(o) ==
    CASE pc[o] = "waiting" ->
            UNION {request_blockers(r, o, pending[o][r]) :
                      r \in {s \in Resource : WaitingFor(o, s)}}
      [] pc[o] = "rowwait" -> {x[1] : x \in blocker[o]}
      [] OTHER -> {}

RealGraph == [o \in Owner |-> RealEdges(o)]

(* The recorded wait-for graph never misses a real dependency, although    *)
(* edges are written only when the waiter itself runs and release_owner    *)
(* edits those of others: a cycle of real waits is a cycle detection sees. *)
EdgesComplete == \A o \in Owner : RealEdges(o) \subseteq waits_for[o]

(* Nothing of an owner outlives its guard: an owner that is not active     *)
(* holds no grant, queues no request, waits for nobody and is waited for   *)
(* by nobody (release_owner).                                              *)
NoTraceAfterRelease ==
    \A o \in Owner \ active_owners :
        /\ \A r \in Resource : grants[r][o] = NoMode /\ ~ WaitingFor(o, r)
        /\ waits_for[o] = {}
        /\ \A p \in Owner : o \notin waits_for[p]

(* ROLLBACK TO and the undoing of a failed acquisition can always restore  *)
(* the captured grants: the lock owner still exists and holds at least     *)
(* every captured mode, through nested savepoints, releases, downgrades    *)
(* and undone tuple locks (the two internal errors of restore_owner and    *)
(* handle_savepoint are unreachable).                                      *)
SnapshotsRestorable ==
    \A o \in Owner :
        /\ \A i \in 1 .. Len(stack[o]) :
              stack[o][i].snap # NoSnap =>
                  o \in active_owners /\ can_restore(o, stack[o][i].snap)
        /\ base[o] # NoSnap =>
              o \in active_owners /\ can_restore(o, base[o])

(* Statement owners never deadlock among themselves: acquire_many takes    *)
(* one normalized batch in the global resource order.                      *)
StatementsNeverDeadlock ==
    \A o \in Stmt :
        ~ on_cycle([p \in Owner |-> RealEdges(p) \cap Stmt], o)

(* A deadlock of real waits does not last: some member of every cycle is   *)
(* aborted, with no help from clients (deadlock.md section 4).             *)
DeadlockBroken == \A o \in Owner : on_cycle(RealGraph, o) ~> ~ on_cycle(RealGraph, o)

(* If clients that are not blocked end their statements and transactions,  *)
(* a queued request is served or fails, even while other sessions keep     *)
(* coming: the FIFO queues prevent starvation (table-locks.md section 5).  *)
NoStarvation ==
    ClientFairness => \A o \in Owner : pc[o] = "waiting" ~> pc[o] # "waiting"

=============================================================================
