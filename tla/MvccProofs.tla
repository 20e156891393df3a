----------------------------- MODULE MvccProofs -----------------------------
(* What snapshots and pruning guarantee for any number of sessions, rows, slots,  *)
(* transaction ids and savepoint levels: the state keeps its types, every          *)
(* advertised snapshot is counted exactly, a snapshot in use never changes its      *)
(* mind, a transaction is seen whole or not at all, and no pruner's horizon reaches *)
(* a version that a running statement can see.                                  *)
EXTENDS Mvcc, FiniteSetTheorems, WellFoundedInduction, TLAPS

-----------------------------------------------------------------------------
(* The invariant.                                                          *)

\* The phases in which the whole family of a session is in the registry.
Registered == {"open", "failed", "undo", "undone", "flushed", "abort_subxids"} \cup Statement

\* The phases in which the family is still undecided.
Undecided == {"open", "failed", "undo", "undone"} \cup Statement

InUse(s) == snap[s] # NoSnapshot

\* What a row or a candidate names is a slot of the heap, and every rollback in
\* progress has its id left.
Targets ==
  \A s \in Session :
    /\ \A t \in todo[s] : t.slot \in Slot
    /\ pc[s] \in {"locked", "index"} => target[s].slot \in Slot

Room == next_txn_id + Cardinality(Undoing) <= scale.max_xid + 1

\* The ids of a session: the top-level one first, then the levels in order.
Level(s, i) == levels[s][i].subxid

FamilyOf(s) ==
  /\ txn_id[s] = NoXid <=> pc[s] \in {"idle", "read"}
  /\ txn_id[s] = NoXid => live_subxids[s] = {} /\ levels[s] = <<>>
  /\ txn_id[s] < next_txn_id
  /\ \A x \in live_subxids[s] : txn_id[s] < x /\ x < next_txn_id

LevelsOf(s) ==
  /\ \A i \in 1..Len(levels[s]) :
       /\ txn_id[s] < Level(s, i) /\ Level(s, i) < next_txn_id
       /\ Level(s, i) \in live_subxids[s] \/ (pc[s] \in {"undo", "undone"} /\ i = Len(levels[s]))
  /\ \A i, j \in 1..Len(levels[s]) : i < j => Level(s, i) < Level(s, j)
  /\ pc[s] \in {"undo", "undone"} =>
       /\ levels[s] # <<>>
       /\ \A x \in live_subxids[s] : x < Level(s, Len(levels[s]))

\* The registry lists a family until it is settled, and nobody else's ids are in it.
Disjoint == \A s, r \in Session : s # r => live_txns(s) \cap live_txns(r) = {}

RegistryOf(s) ==
  /\ pc[s] \in Registered => live_txns(s) \subseteq active
  /\ pc[s] = "abort_top" => txn_id[s] \in active /\ live_subxids[s] \cap active = {}
  /\ pc[s] = "settled" => live_txns(s) \cap active = {}
  /\ \A x \in live_subxids[s] \cap active : subtrans[x] = txn_id[s]
  /\ txn_id[s] # NoXid => subtrans[txn_id[s]] = NoXid

Fresh ==
  /\ \A x \in active : x < next_txn_id
  /\ \A x \in Xid : x >= next_txn_id => clog[x] = "InProgress" /\ subtrans[x] = NoXid

VacuumId ==
  /\ vac.pc \in {"begun", "locked", "horizon"} => vac.xid \in active /\ subtrans[vac.xid] = NoXid
  /\ vac.xid < next_txn_id
  /\ \A s \in Session : vac.xid \notin live_txns(s)

\* A snapshot in use: nothing that was running when it was cut, or began
\* later, is below its xmin, and what it takes for finished is finished.
Apart(r, s) == \A x \in live_txns(s) : x >= snap[r].xmax \/ x \in snap[r].xip
Beyond(r, s) == \A x \in live_txns(s) : x < snap[r].xmax /\ x \notin snap[r].xip

SnapshotOf(s) ==
  /\ pc[s] = "idle" => ~ InUse(s)
  /\ pc[s] \in {"read"} \cup Statement => InUse(s)
  /\ InUse(s) =>
       /\ 1 <= snap[s].xmin /\ snap[s].xmin <= snap[s].xmax /\ snap[s].xmax <= next_txn_id
       /\ \A x \in snap[s].xip : snap[s].xmin <= x
       /\ \A x \in active : /\ snap[s].xmin <= x
                            /\ x < snap[s].xmax => x \in snap[s].xip \/ x = txn_id[s]

\* The commit log settles a family in one step and at the end of its life.
ClogOf(s) ==
  /\ pc[s] \in Undecided => \A x \in live_txns(s) : clog[x] = "InProgress"
  /\ pc[s] = "flushed" => \A x \in live_txns(s) : clog[x] = "Committed"
  /\ pc[s] = "abort_subxids" => \A x \in live_txns(s) : clog[x] # "Committed"
  /\ pc[s] = "abort_top" => \A x \in live_txns(s) : clog[x] # "Committed"
  /\ pc[s] = "settled" =>
       \/ \A x \in live_txns(s) : clog[x] # "Committed"
       \/ /\ \A x \in live_txns(s) : clog[x] = "Committed"
          /\ \A r \in Session : r # s /\ InUse(r) => Apart(r, s) \/ Beyond(r, s)

\* Who has deleted a version and is still running holds the table lock.
Stamps ==
  /\ \A sl \in Slot : heap[sl].xmin < next_txn_id /\ heap[sl].xmax < next_txn_id
  /\ \A sl \in Slot : heap[sl].xmax \in active =>
       \E s \in writers : \/ heap[sl].xmax \in live_txns(s)
                          \/ pc[s] = "undo" /\ subtrans[heap[sl].xmax] = txn_id[s]

WriterOf(s) ==
  /\ pc[s] \in {"scan", "rows", "locked", "index"} => s \in writers
  /\ s \in writers => pc[s] \notin {"idle", "read"}
  /\ \A i \in 1..Len(levels[s]) : ~ levels[s][i].writer =>
       \A sl \in Slot : heap[sl].xmax \in live_txns(s) => heap[sl].xmax >= Level(s, i)

\* The horizons in use.
HorizonOf(s) ==
  /\ pc[s] \notin {"rows", "locked", "index"} => horizon[s] = 0
  /\ horizon[s] # 0 => \A r \in Session : InUse(r) => horizon[s] <= snap[r].xmin

Untouched(r) == \A sl \in Slot : heap[sl].xmax \notin snap[r].xip /\ heap[sl].xmax < snap[r].xmax

VacuumHorizons ==
  /\ ShareLocked => writers = {}
  /\ vac.pc \in {"horizon", "settled"} =>
       \A r \in Session : InUse(r) => vac.horizon <= snap[r].xmin \/ Untouched(r)

IInv ==
  /\ TypeOK /\ Targets /\ Room
  /\ \A s \in Session : FamilyOf(s) /\ LevelsOf(s)
  /\ Disjoint /\ Fresh /\ VacuumId
  /\ \A s \in Session : RegistryOf(s) /\ SnapshotOf(s) /\ ClogOf(s)
  /\ AdvertisedExactly /\ Stamps
  /\ \A s \in Session : WriterOf(s) /\ HorizonOf(s)
  /\ VacuumHorizons

-----------------------------------------------------------------------------
(* What it gives.                                                          *)

\* A snapshot is frozen while it is in use: whatever other transactions begin, commit,
\* roll back or settle, the verdict TupleHeader::is_visible reaches about any id that is
\* not the reader's own never changes (take_snapshot reads the registry once, the commit
\* log is read again for every version).
SnapshotsFrozen ==
  [][\A r \in Session : InUse(r) /\ snap'[r] = snap[r] =>
       \A x \in Xid \ live_txns(r) :
         txn_effect_visible(x, snap[r], {})' <=> txn_effect_visible(x, snap[r], {})]_vars

\* A transaction is seen whole: two ids of one family, the top-level one and its
\* subtransactions, are both visible to another session's snapshot or neither is, in every
\* phase of the commit (the flush of the commit record settles the family, CommitDeregister
\* takes it out of the registry in a step of its own).
TransactionsWhole ==
  \A r, s \in Session : r # s /\ InUse(r) =>
    \A x, y \in live_txns(s) :
      txn_effect_visible(x, snap[r], {}) <=> txn_effect_visible(y, snap[r], {})

\* The horizons a pruning step can use next: of a session at its write, of VACUUM.
Horizons == {horizon[s] : s \in {r \in Session : pc[r] = "locked"}}
              \cup (IF vac.pc = "settled" THEN {vac.horizon} ELSE {})

\* Pruning takes nothing a reader can see: a version that is dead to the horizon some
\* pruner has computed, however long ago, is invisible to every snapshot in use, also to
\* those cut since (prune_page and VACUUM use a horizon read before they touch the page).
ReclaimsOnlyDead ==
  \A hz \in Horizons, r \in Session, sl \in Used :
    InUse(r) /\ pc[r] \in {"read"} \cup Statement /\ is_dead_to_all(heap[sl], hz) =>
      ~ is_visible(heap[sl], snap[r], live_txns(r))

-----------------------------------------------------------------------------
(* Facts about the operators.                                              *)

\* Min of a set of naturals that is not empty.
LEMMA MinFacts ==
  ASSUME NEW S, S \subseteq Nat, S # {}
  PROVE  Min(S) \in S /\ \A x \in S : Min(S) <= x
<1> DEFINE R == {ss \in Nat \X Nat : ss[1] < ss[2]}
<1>1. OpToRel(<, Nat) = R
  BY Zenon DEF OpToRel
<1>2. IsWellFoundedOn(R, Nat)
  BY <1>1, NatLessThanWellFounded, Zenon
<1> HIDE DEF R
<1>3. PICK m \in S : \A y \in S : ~ (<<y, m>> \in R)
  BY <1>2, WFMin, Zenon
<1>4. ASSUME NEW y \in S, ~ m <= y PROVE FALSE
  <2>1. y \in Nat /\ m \in Nat /\ y < m
    BY <1>4
  <2>2. <<y, m>> \in R
    BY <2>1 DEF R
  <2> QED  BY <2>2, <1>3
<1> QED  BY <1>4 DEF Min

\* What holds at the first place of a walk and at every place after one where it
\* holds, holds everywhere.
LEMMA Along ==
  ASSUME NEW n \in Nat, NEW B, B \subseteq 1..n, 1 \notin B,
         \A i \in 2..n : i \in B => (i - 1) \in B
  PROVE  B = {}
<1> SUFFICES ASSUME B # {} PROVE FALSE
  OBVIOUS
<1> DEFINE m == Min(B)
<1>1. m \in B /\ \A x \in B : m <= x
  <2>1. B \subseteq Nat
    OBVIOUS
  <2> QED  BY <2>1, MinFacts
<1> HIDE DEF m
<1>2. m \in 2..n
  BY <1>1
<1>3. m - 1 \in B
  BY <1>1, <1>2
<1>4. m <= m - 1
  BY <1>1, <1>3
<1> QED  BY <1>2, <1>4

\* A walk that repeats one step is a function, and stays where the step stays.
LEMMA WalkExists ==
  ASSUME NEW C, NEW a \in C, NEW g \in [C -> C], NEW n \in Nat \ {0}
  PROVE  \E f \in [1..n -> C] : f = [i \in 1..n |-> IF i = 1 THEN a ELSE g[f[i - 1]]]
<1> DEFINE Good(k, f) == f \in [1..k -> C] /\ f = [i \in 1..k |-> IF i = 1 THEN a ELSE g[f[i - 1]]]
           B == {k \in 1..n : ~ \E f : Good(k, f)}
<1>1. 1 \notin B
  <2> DEFINE f == [i \in 1..1 |-> a]
  <2>1. Good(1, f)
    OBVIOUS
  <2> QED  BY <2>1
<1>2. ASSUME NEW k \in 2..n, (k - 1) \notin B PROVE k \notin B
  <2>1. PICK f : Good(k - 1, f)
    BY <1>2
  <2> DEFINE h == [i \in 1..k |-> IF i = k THEN g[f[k - 1]] ELSE f[i]]
  <2>2. k - 1 \in 1..(k - 1) /\ f[k - 1] \in C /\ g[f[k - 1]] \in C
    <3>1. k - 1 \in 1..(k - 1)
      OBVIOUS
    <3>2. f \in [1..(k - 1) -> C]
      BY <2>1
    <3>3. f[k - 1] \in C
      BY <3>1, <3>2, Zenon
    <3> QED  BY <3>1, <3>3
  <2>3. h \in [1..k -> C]
    <3>1. ASSUME NEW i \in 1..k PROVE h[i] \in C
      <4>1. CASE i = k
        BY <4>1, <2>2
      <4>2. CASE i # k
        <5>1. i \in 1..(k - 1)
          BY <4>2
        <5> QED  BY <5>1, <2>1, <4>2
      <4> QED  BY <4>1, <4>2
    <3> QED  BY <3>1
  <2>4. ASSUME NEW i \in 1..k PROVE h[i] = IF i = 1 THEN a ELSE g[h[i - 1]]
    <3>1. CASE i = k
      <4>1. i - 1 \in 1..k /\ i - 1 # k /\ h[i - 1] = f[k - 1] /\ i # 1
        BY <3>1
      <4> QED  BY <4>1, <3>1
    <3>2. CASE i # k
      <4>1. i \in 1..(k - 1) /\ h[i] = f[i]
        BY <3>2
      <4>2. f[i] = IF i = 1 THEN a ELSE g[f[i - 1]]
        BY <4>1, <2>1
      <4>3. i # 1 => h[i - 1] = f[i - 1]
        BY <4>1
      <4> QED  BY <4>1, <4>2, <4>3
    <3> QED  BY <3>1, <3>2
  <2>5. h = [i \in 1..k |-> IF i = 1 THEN a ELSE g[h[i - 1]]]
    BY <2>3, <2>4
  <2> HIDE DEF h
  <2>6. Good(k, h)
    BY <2>3, <2>5
  <2> QED  BY <2>6
<1> HIDE DEF Good
<1>3. B = {}
  <2>1. B \subseteq 1..n /\ \A k \in 2..n : k \in B => (k - 1) \in B
    BY <1>2
  <2> HIDE DEF B
  <2> QED  BY <1>1, <2>1, Along
<1>4. \E f : Good(n, f)
  BY <1>3
<1> QED  BY <1>4 DEF Good

\* The walk along a HOT chain.
Chains == {c \in Seq(Slot) : c # <<>>}
GrowBy(c) == IF hot_successor(Last(c)) = NoSlot THEN c ELSE Append(c, hot_successor(Last(c)))

LEMMA GrowFacts ==
  ASSUME NEW c \in Chains
  PROVE  GrowBy(c) \in Chains
<1>1. c \in Seq(Slot) /\ c # <<>> /\ Len(c) \in Nat
  BY DEF Chains
<1>2. hot_successor(Last(c)) # NoSlot => hot_successor(Last(c)) \in Slot
  BY DEF hot_successor, Used
<1> DEFINE y == hot_successor(Last(c))
<1> HIDE DEF y
<1>3. y \in Slot => Append(c, y) \in Seq(Slot) /\ Append(c, y) # <<>>
  BY <1>1
<1> QED  BY <1>1, <1>2, <1>3 DEF GrowBy, Chains, y

LEMMA ChainFacts ==
  ASSUME NEW head \in Slot, NumSlots \in Nat \ {0}
  PROVE  collect_prune_chain(head) \in Chains
<1> DEFINE n == NumSlots
           g == [c \in Chains |-> GrowBy(c)]
           a == <<head>>
           walk[i \in 1..NumSlots] == IF i = 1 THEN <<head>> ELSE GrowBy(walk[i - 1])
<1>1. collect_prune_chain(head) = walk[NumSlots]
  BY DEF collect_prune_chain, GrowBy
<1>2. g \in [Chains -> Chains] /\ a \in Chains
  BY GrowFacts DEF Chains
<1>3. PICK f \in [1..NumSlots -> Chains] :
        f = [i \in 1..NumSlots |-> IF i = 1 THEN a ELSE g[f[i - 1]]]
  <2> HIDE DEF g, a
  <2> QED  BY <1>2, WalkExists
<1>4. ASSUME NEW i \in 1..NumSlots, i # 1 PROVE g[f[i - 1]] = GrowBy(f[i - 1])
  <2>1. i - 1 \in 1..NumSlots
    BY <1>4
  <2>2. f[i - 1] \in Chains
    BY <2>1
  <2> QED  BY <2>2
<1>5. f = [i \in 1..NumSlots |-> IF i = 1 THEN <<head>> ELSE GrowBy(f[i - 1])]
  <2> DEFINE h == [i \in 1..NumSlots |-> IF i = 1 THEN <<head>> ELSE GrowBy(f[i - 1])]
  <2>1. \A i \in 1..NumSlots : f[i] = h[i]
    <3> TAKE i \in 1..NumSlots
    <3>1. f[i] = IF i = 1 THEN a ELSE g[f[i - 1]]
      BY <1>3
    <3> HIDE DEF g
    <3> QED  BY <3>1, <1>4
  <2>2. DOMAIN f = 1..NumSlots /\ DOMAIN h = 1..NumSlots
    OBVIOUS
  <2> HIDE DEF h
  <2>3. f = [i \in 1..NumSlots |-> f[i]] /\ h = [i \in 1..NumSlots |-> h[i]]
    BY <2>2 DEF h
  <2>4. f = h
    BY <2>1, <2>3, Zenon
  <2> QED  BY <2>4 DEF h
<1>6. walk = [i \in 1..NumSlots |-> IF i = 1 THEN <<head>> ELSE GrowBy(walk[i - 1])]
  BY <1>5, Zenon
<1> HIDE DEF walk
<1>7. walk[NumSlots] \in Chains
  <2> DEFINE B == {i \in 1..NumSlots : walk[i] \notin Chains}
  <2>1. 1 \notin B
    <3>1. walk[1] = <<head>>
      BY <1>6
    <3> QED  BY <3>1, <1>2
  <2>2. ASSUME NEW i \in 2..NumSlots, (i - 1) \notin B PROVE i \notin B
    <3>1. i \in 1..NumSlots /\ i - 1 \in 1..NumSlots /\ i # 1
      OBVIOUS
    <3>2. walk[i - 1] \in Chains
      BY <2>2, <3>1
    <3>3. walk[i] = GrowBy(walk[i - 1])
      BY <1>6, <3>1
    <3> QED  BY <3>2, <3>3, GrowFacts
  <2>3. B \subseteq 1..NumSlots /\ \A i \in 2..NumSlots : i \in B => (i - 1) \in B
    BY <2>2
  <2>4. B = {}
    <3> HIDE DEF B
    <3> QED  BY <2>1, <2>3, Along
  <2>5. NumSlots \in 1..NumSlots
    OBVIOUS
  <2> QED  BY <2>4, <2>5
<1> QED  BY <1>1, <1>7

\* A version with one field changed.
LEMMA FieldFacts ==
  ASSUME NEW v \in VersionType
  PROVE  /\ \A k \in Key : [v EXCEPT !.key = k] \in VersionType
         /\ \A w \in Unique \cup {Null} : [v EXCEPT !.u = w] \in VersionType
         /\ \A x \in 0..MaxXid : /\ [v EXCEPT !.xmin = x] \in VersionType
                                /\ [v EXCEPT !.xmax = x] \in VersionType
         /\ \A c \in 0..NumSlots : [v EXCEPT !.ctid = c] \in VersionType
         /\ \A b \in BOOLEAN : /\ [v EXCEPT !.indexed = b] \in VersionType
                              /\ [v EXCEPT !.heap_only = b] \in VersionType
                              /\ [v EXCEPT !.hot_updated = b] \in VersionType
<1>1. \A k \in Key : [v EXCEPT !.key = k] \in VersionType
  BY DEF VersionType
<1>2. \A w \in Unique \cup {Null} : [v EXCEPT !.u = w] \in VersionType
  BY DEF VersionType
<1>3. \A x \in 0..MaxXid : [v EXCEPT !.xmin = x] \in VersionType
  BY DEF VersionType
<1>4. \A x \in 0..MaxXid : [v EXCEPT !.xmax = x] \in VersionType
  BY DEF VersionType
<1>5. \A c \in 0..NumSlots : [v EXCEPT !.ctid = c] \in VersionType
  BY DEF VersionType
<1>6. \A b \in BOOLEAN : [v EXCEPT !.indexed = b] \in VersionType
  BY DEF VersionType
<1>7. \A b \in BOOLEAN : [v EXCEPT !.heap_only = b] \in VersionType
  BY DEF VersionType
<1>8. \A b \in BOOLEAN : [v EXCEPT !.hot_updated = b] \in VersionType
  BY DEF VersionType
<1> QED  BY <1>1, <1>2, <1>3, <1>4, <1>5, <1>6, <1>7, <1>8

LEMMA FreeSlotFacts ==
  /\ FreeSlot \in VersionType /\ FreeSlot.xmin = NoXid /\ FreeSlot.xmax = NoXid
  /\ NoXid \in 0..MaxXid /\ NoSlot \in 0..NumSlots
BY MvccAssumption DEF FreeSlot, VersionType, NoXid, NoSlot

\* A version whose deleter, successor and flag are set.
Stamped(v, x, c, b) == [v EXCEPT !.xmax = x, !.ctid = c, !.hot_updated = b]

LEMMA StampedFacts ==
  ASSUME NEW v \in VersionType, NEW x \in 0..MaxXid, NEW c \in 0..NumSlots, NEW b \in BOOLEAN
  PROVE  /\ Stamped(v, x, c, b) \in VersionType
         /\ Stamped(v, x, c, b).xmin = v.xmin /\ Stamped(v, x, c, b).xmax = x
<1> DEFINE w1 == [v EXCEPT !.xmax = x]
           w2 == [w1 EXCEPT !.ctid = c]
           w3 == [w2 EXCEPT !.hot_updated = b]
<1>1. w1 \in VersionType
  BY FieldFacts
<1>2. w1 \in VersionType => w2 \in VersionType
  <2> HIDE DEF w1
  <2> QED  BY FieldFacts
<1>3. w2 \in VersionType => w3 \in VersionType
  <2> HIDE DEF w2
  <2> QED  BY FieldFacts
<1>4. Stamped(v, x, c, b) = w3
  BY DEF Stamped
<1>5. w3.xmin = v.xmin /\ w3.xmax = x
  BY DEF VersionType
<1> HIDE DEF w3
<1> QED  BY <1>1, <1>2, <1>3, <1>4, <1>5

\* The cut before an aborted suffix and the first member kept are in the chain.
LEMMA CutFacts ==
  ASSUME NEW chain \in Chains
  PROVE  BeforeAborted(chain) \in 1..Len(chain)
<1> DEFINE S == {i \in 1..Len(chain) :
         i = Len(chain) \/ clog[heap[chain[i + 1]].xmin] = "Aborted"}
<1>1. Len(chain) \in Nat /\ Len(chain) # 0
  BY DEF Chains
<1>2. S \subseteq Nat /\ S # {} /\ S \subseteq 1..Len(chain)
  BY <1>1
<1>3. BeforeAborted(chain) = Min(S)
  BY DEF BeforeAborted
<1> HIDE DEF S
<1> QED  BY <1>2, <1>3, MinFacts

LEMMA LiveFacts ==
  ASSUME NEW chain \in Chains, NEW len \in 1..Len(chain), NEW hz
  PROVE  FirstLive(chain, len, hz) \in 1..(len + 1)
<1> DEFINE S == {i \in 1..(len + 1) : i = len + 1 \/ ~ is_dead_to_all(heap[chain[i]], hz)}
<1>1. len + 1 \in S /\ S \subseteq 1..(len + 1)
  OBVIOUS
<1>3. S \subseteq Nat /\ S # {}
  BY <1>1
<1>2. FirstLive(chain, len, hz) = Min(S)
  BY DEF FirstLive
<1> HIDE DEF S
<1> QED  BY <1>1, <1>2, <1>3, MinFacts

\* What a plan may say: it redirects to a slot.
LEMMA PlanFacts ==
  ASSUME NEW chain \in Chains, NEW root, NEW hz
  PROVE  LET p == PlanChain(chain, root, hz) IN p.redirect \in 0..NumSlots
<1> DEFINE len == BeforeAborted(chain)
           live == FirstLive(chain, len, hz)
<1>1. len \in 1..Len(chain)
  BY CutFacts
<1> HIDE DEF len
<1>2. live \in 1..(len + 1)
  BY <1>1, LiveFacts
<1> HIDE DEF live
<1>3. PlanChain(chain, root, hz) = PlanOf(chain, len, live, root)
  BY DEF PlanChain, PlanAfterCut, len, live
<1>4. PlanOf(chain, len, live, root).redirect = IF live \in 2..len THEN chain[live] ELSE NoSlot
  BY DEF PlanOf
<1>5. live \in 2..len => chain[live] \in Slot
  BY <1>1, <1>2 DEF Chains
<1>6. NumSlots \in Nat
  BY MvccAssumption
<1> QED  BY <1>3, <1>4, <1>5, <1>6 DEF Slot, NoSlot

\* Pruning leaves each slot alone, empties it, makes it a REDIRECT or takes its
\* deleter away; it never moves or rewrites a version.
Kept(h, g) ==
  \A sl \in Slot :
    /\ g[sl].xmin \in {NoXid, h[sl].xmin}
    /\ g[sl].xmax \in {NoXid, h[sl].xmax}

LEMMA PrunedFacts ==
  ASSUME TypeOK, NEW hz, NEW dead
  PROVE  Pruned(hz, dead) \in [Slot -> VersionType] /\ Kept(heap, Pruned(hz, dead))
<1> USE MvccAssumption
<1> DEFINE plan == [r \in ChainRoots |-> plan_chain_inner(r, hz)]
           roots == {r \in DOMAIN plan : dead \/ ~ plan[r].dead_root}
           free == (UNION {plan[r].free : r \in roots}) \cup {r \in roots : plan[r].dead_root}
           redirect == {r \in roots : plan[r].redirect # NoSlot}
           reset == UNION {plan[r].reset : r \in roots}
           to(sl) ==
             CASE sl \in free -> FreeSlot
               [] sl \in redirect \ free -> [FreeSlot EXCEPT !.ctid = plan[sl].redirect]
               [] sl \in reset \ (free \cup redirect) ->
                    [heap[sl] EXCEPT !.xmax = NoXid, !.ctid = NoSlot, !.hot_updated = FALSE]
               [] sl \notin free \cup redirect \cup reset -> heap[sl]
<1>1. Pruned(hz, dead) = [sl \in Slot |-> to(sl)]
  BY DEF Pruned, apply_prune_plan
<1>2. heap \in [Slot -> VersionType]
  BY DEF TypeOK
<1>3. \A r \in ChainRoots : plan[r].redirect \in 0..NumSlots
  <2> TAKE r \in ChainRoots
  <2>1. redirected(r) \in Slot
    BY <1>2 DEF ChainRoots, redirected, Used, Redirects, VersionType, Slot, NoSlot
  <2>2. collect_prune_chain(redirected(r)) \in Chains
    BY <2>1, ChainFacts
  <2>3. plan[r] = PlanChain(collect_prune_chain(redirected(r)), r, hz)
    BY DEF plan_chain_inner
  <2> HIDE DEF plan
  <2> QED  BY <2>2, <2>3, PlanFacts
<1>4. redirect \subseteq ChainRoots
  OBVIOUS
<1> HIDE DEF plan, roots, free, redirect, reset
<1>5. ASSUME NEW sl \in Slot
      PROVE  /\ to(sl) \in VersionType
             /\ to(sl).xmin \in {NoXid, heap[sl].xmin} /\ to(sl).xmax \in {NoXid, heap[sl].xmax}
  <2>h. heap[sl] \in VersionType
    BY <1>2
  <2>1. CASE sl \in free
    <3>1. to(sl) = FreeSlot
      BY <2>1
    <3> HIDE DEF to
    <3> QED  BY <3>1, FreeSlotFacts
  <2>2. CASE sl \notin free /\ sl \in redirect
    <3>1. to(sl) = [FreeSlot EXCEPT !.ctid = plan[sl].redirect]
      BY <2>2
    <3>2. plan[sl].redirect \in 0..NumSlots
      BY <2>2, <1>3, <1>4
    <3> DEFINE c == plan[sl].redirect
    <3> HIDE DEF c
    <3>3. c \in 0..NumSlots => [FreeSlot EXCEPT !.ctid = c] \in VersionType
      BY FreeSlotFacts, FieldFacts
    <3>4. [FreeSlot EXCEPT !.ctid = c].xmin = NoXid /\ [FreeSlot EXCEPT !.ctid = c].xmax = NoXid
      BY DEF FreeSlot
    <3> HIDE DEF to
    <3> QED  BY <3>1, <3>2, <3>3, <3>4 DEF c
  <2>3. CASE sl \notin free /\ sl \notin redirect /\ sl \in reset
    <3>1. to(sl) = Stamped(heap[sl], NoXid, NoSlot, FALSE)
      BY <2>3 DEF Stamped
    <3> DEFINE v == heap[sl]
    <3>2. v \in VersionType
      BY <2>h
    <3> HIDE DEF v
    <3>3. /\ Stamped(v, NoXid, NoSlot, FALSE) \in VersionType
          /\ Stamped(v, NoXid, NoSlot, FALSE).xmin = v.xmin
          /\ Stamped(v, NoXid, NoSlot, FALSE).xmax = NoXid
      BY <3>2, FreeSlotFacts, StampedFacts
    <3> HIDE DEF to
    <3> QED  BY <3>1, <3>3 DEF v
  <2>4. CASE sl \notin free /\ sl \notin redirect /\ sl \notin reset
    <3>1. to(sl) = heap[sl]
      BY <2>4
    <3> HIDE DEF to
    <3> QED  BY <3>1, <2>h
  <2> QED  BY <2>1, <2>2, <2>3, <2>4
<1> HIDE DEF to
<1> QED  BY <1>1, <1>5 DEF Kept

-----------------------------------------------------------------------------
(* Steps of a statement.                                                   *)

Live == {"open", "failed"} \cup Statement

\* A step of s inside a transaction, or of an autocommit read.
StatementFrame(s, q) ==
  /\ UNCHANGED <<scale, next_txn_id, active, subtrans, clog, txn_id, live_subxids, levels, vac>>
  /\ pc' = [pc EXCEPT ![s] = q]
  /\ \/ pc[s] \in {"idle", "read"} /\ q \in {"idle", "read"}
     \/ pc[s] \in Live /\ q \in Live

LEMMA FrameKeeps ==
  ASSUME IInv, NEW s \in Session, NEW q, StatementFrame(s, q)
  PROVE  /\ Room' /\ Disjoint' /\ Fresh' /\ VacuumId'
         /\ \A r \in Session : (FamilyOf(r) /\ LevelsOf(r) /\ RegistryOf(r))'
<1>1. pc \in [Session -> Pcs]
  BY DEF IInv, TypeOK
<1>2. \A r \in Session : live_txns(r)' = live_txns(r)
  BY DEF StatementFrame, live_txns
<1>3. \A r \in Session : r # s => pc'[r] = pc[r]
  BY <1>1 DEF StatementFrame
<1>4. pc'[s] = q
  BY <1>1 DEF StatementFrame
<1>5. Room'
  <2>1. Undoing' = Undoing
    BY <1>1, <1>3, <1>4 DEF Undoing, StatementFrame, Live, Statement
  <2> QED  BY <2>1 DEF IInv, Room, StatementFrame
<1>6. Disjoint' /\ Fresh' /\ VacuumId'
  BY <1>2 DEF IInv, Disjoint, Fresh, VacuumId, StatementFrame
<1>7. ASSUME NEW r \in Session PROVE FamilyOf(r)' /\ LevelsOf(r)' /\ RegistryOf(r)'
  <2>1. FamilyOf(r) /\ LevelsOf(r) /\ RegistryOf(r)
    BY DEF IInv
  <2>2. CASE r # s
    BY <2>1, <2>2, <1>2, <1>3 DEF FamilyOf, LevelsOf, RegistryOf, StatementFrame, Level
  <2>3. CASE r = s
    <3>1. FamilyOf(r)'
      BY <2>1, <2>3, <1>4 DEF FamilyOf, StatementFrame, Live, Statement
    <3>2. LevelsOf(r)'
      BY <2>1, <2>3, <1>4 DEF LevelsOf, StatementFrame, Live, Statement, Level
    <3>3. RegistryOf(r)'
      BY <2>1, <2>3, <1>2, <1>4 DEF RegistryOf, StatementFrame, Live, Statement, Registered
    <3> QED  BY <3>1, <3>2, <3>3
  <2> QED  BY <2>2, <2>3
<1> QED  BY <1>5, <1>6, <1>7

LEMMA LevelFacts ==
  ASSUME TypeOK, NEW s \in Session, NEW i \in 1..Len(levels[s])
  PROVE  levels[s][i] \in LevelType /\ Level(s, i) \in Xid /\ Level(s, i) \in Nat
<1>1. levels[s] \in Seq(LevelType)
  BY DEF TypeOK
<1>2. levels[s][i] \in LevelType
  <2> DEFINE q == levels[s]
             L == LevelType
  <2>1. q \in Seq(L) /\ i \in 1..Len(q)
    BY <1>1
  <2> HIDE DEF q, L
  <2>2. q[i] \in L
    BY <2>1
  <2> QED  BY <2>2 DEF q, L
<1>3. levels[s][i].subxid \in Xid
  BY <1>2 DEF LevelType
<1> QED  BY <1>2, <1>3 DEF Level, Xid

\* The id under which a statement writes.
LEMMA WritingFacts ==
  ASSUME IInv, NEW s \in Session, pc[s] \in Live
  PROVE  /\ writing_xid(s) \in live_txns(s) /\ writing_xid(s) \in active /\ writing_xid(s) \in Xid
         /\ writing_xid(s) < next_txn_id
         /\ \A i \in 1..Len(levels[s]) : Level(s, i) <= writing_xid(s)
<1>1. FamilyOf(s) /\ LevelsOf(s) /\ RegistryOf(s)
  BY DEF IInv
<1>2. /\ live_subxids[s] \subseteq Xid /\ txn_id[s] \in 0..MaxXid /\ levels[s] \in Seq(LevelType)
      /\ active \subseteq Xid /\ next_txn_id \in Nat /\ MaxXid \in Nat
  BY MvccAssumption DEF IInv, TypeOK, MaxId
<1>3. pc[s] \notin {"idle", "read", "undo", "undone"} /\ pc[s] \in Registered
  BY DEF Live, Statement, Registered
<1>4. txn_id[s] # NoXid /\ txn_id[s] \in live_txns(s)
  BY <1>1, <1>3 DEF FamilyOf, live_txns
<1>5. live_txns(s) \subseteq active
  BY <1>1, <1>3 DEF RegistryOf
<1>6. CASE levels[s] = <<>>
  BY <1>1, <1>2, <1>4, <1>5, <1>6 DEF writing_xid, FamilyOf
<1>7. CASE levels[s] # <<>>
  <2> DEFINE n == Len(levels[s])
  <2>1. n \in 1..Len(levels[s]) /\ writing_xid(s) = Level(s, n)
    BY <1>2, <1>7 DEF writing_xid, Level
  <2>2. Level(s, n) \in live_subxids[s] /\ Level(s, n) < next_txn_id
    BY <1>1, <1>3, <2>1 DEF LevelsOf
  <2>3. Level(s, n) \in live_txns(s)
    BY <1>2, <2>2 DEF live_txns, Xid, NoXid
  <2>4. ASSUME NEW i \in 1..Len(levels[s]) PROVE Level(s, i) <= Level(s, n)
    <3>1. Level(s, i) \in Xid /\ Level(s, n) \in Xid
      BY <2>1, LevelFacts DEF IInv
    <3>2. Level(s, i) \in Nat /\ Level(s, n) \in Nat
      BY <2>1, LevelFacts DEF IInv
    <3>3. i < n => Level(s, i) < Level(s, n)
      BY <1>1, <2>1 DEF LevelsOf
    <3>4. i < n \/ i = n
      BY <1>2
    <3> QED  BY <3>2, <3>3, <3>4
  <2> QED  BY <2>1, <2>2, <2>3, <2>4, <1>2, <1>5
<1> QED  BY <1>6, <1>7

\* A write changes versions only by the writer's id, or prunes.
HeapStep(s) ==
  /\ heap' \in [Slot -> VersionType]
  /\ \A sl \in Slot : /\ heap'[sl].xmin \in {NoXid, heap[sl].xmin, writing_xid(s)}
                      /\ heap'[sl].xmax \in {NoXid, heap[sl].xmax, writing_xid(s)}

LEMMA HeapKeeps ==
  ASSUME IInv, NEW s \in Session, NEW q, StatementFrame(s, q), HeapStep(s),
         pc[s] \in {"scan", "locked", "index"}, q \in {"rows", "index"},
         UNCHANGED <<xmins, snap, writers, horizon>>
  PROVE  /\ Stamps' /\ VacuumHorizons' /\ AdvertisedExactly'
         /\ \A r \in Session : (SnapshotOf(r) /\ ClogOf(r) /\ WriterOf(r))'
<1>1. pc \in [Session -> Pcs] /\ next_txn_id \in Nat /\ next_txn_id >= 1 /\ MaxXid \in Nat
      /\ heap \in [Slot -> VersionType] /\ active \subseteq Xid
  BY MvccAssumption DEF IInv, TypeOK, MaxId
<1>2. \A r \in Session : live_txns(r)' = live_txns(r) /\ InUse(r)' = InUse(r)
  BY DEF StatementFrame, live_txns, InUse
<1>3. \A r \in Session : r # s => pc'[r] = pc[r]
  BY <1>1 DEF StatementFrame
<1>4. pc'[s] = q
  BY <1>1 DEF StatementFrame
<1>5. pc[s] \in Live
  BY DEF Live, Statement
<1>6. s \in writers
  BY DEF IInv, WriterOf
<1>7. DEFINE w == writing_xid(s)
<1>8. w \in live_txns(s) /\ w \in active /\ w \in Xid /\ w < next_txn_id
      /\ \A i \in 1..Len(levels[s]) : Level(s, i) <= w
  BY <1>5, WritingFacts
<1> HIDE DEF w
<1>9. \A sl \in Slot : /\ heap'[sl].xmin \in {NoXid, heap[sl].xmin, w}
                       /\ heap'[sl].xmax \in {NoXid, heap[sl].xmax, w}
  BY DEF HeapStep, w
<1>10. NoXid \notin active /\ \A r \in Session : NoXid \notin live_txns(r)
  BY <1>1 DEF NoXid, Xid, live_txns
<1>11. Stamps'
  <2>1. ASSUME NEW sl \in Slot PROVE (heap[sl].xmin < next_txn_id /\ heap[sl].xmax < next_txn_id)'
    <3>1. heap[sl].xmin < next_txn_id /\ heap[sl].xmax < next_txn_id
      BY DEF IInv, Stamps
    <3>2. next_txn_id' = next_txn_id
      BY DEF StatementFrame
    <3> QED  BY <1>1, <1>8, <1>9, <3>1, <3>2 DEF NoXid
  <2>2. ASSUME NEW sl \in Slot, heap'[sl].xmax \in active'
        PROVE  \E r \in writers' : \/ heap'[sl].xmax \in live_txns(r)'
                                   \/ pc'[r] = "undo" /\ subtrans'[heap'[sl].xmax] = txn_id'[r]
    <3>0. UNCHANGED <<writers, active, subtrans, txn_id>>
      BY DEF StatementFrame
    <3>1. CASE heap'[sl].xmax = w
      BY <3>0, <3>1, <1>2, <1>6, <1>8
    <3>2. CASE heap'[sl].xmax # w
      <4>1. heap'[sl].xmax = heap[sl].xmax /\ heap[sl].xmax \in active
        BY <3>0, <3>2, <2>2, <1>9, <1>10
      <4>2. PICK r \in writers : \/ heap[sl].xmax \in live_txns(r)
                                 \/ pc[r] = "undo" /\ subtrans[heap[sl].xmax] = txn_id[r]
        BY <4>1 DEF IInv, Stamps
      <4>3. r \in Session /\ (pc[r] = "undo" => pc'[r] = "undo")
        <5>1. writers \subseteq Session
          BY DEF IInv, TypeOK
        <5>2. pc[s] # "undo"
          OBVIOUS
        <5> QED  BY <5>1, <5>2, <1>3
      <4> QED  BY <4>1, <4>2, <4>3, <3>0, <1>2
    <3> QED  BY <3>1, <3>2
  <2> QED  BY <2>1, <2>2 DEF Stamps
<1>12. VacuumHorizons'
  <2>1. ~ ShareLocked
    BY <1>6 DEF IInv, VacuumHorizons
  <2> QED  BY <2>1 DEF VacuumHorizons, ShareLocked, StatementFrame
<1>13. AdvertisedExactly'
  BY DEF IInv, AdvertisedExactly
<1>14. ASSUME NEW r \in Session PROVE SnapshotOf(r)'
  <2>1. SnapshotOf(r)
    BY DEF IInv
  <2>2. pc'[r] # pc[r] => r = s
    BY <1>3
  <2>3. pc[s] \in Statement /\ q \in Statement /\ "idle" \notin Statement /\ "read" \notin Statement
    BY DEF Statement
  <2> QED  BY <2>1, <2>2, <2>3, <1>2, <1>4 DEF SnapshotOf, StatementFrame
<1>15. ASSUME NEW r \in Session PROVE ClogOf(r)'
  <2>1. ClogOf(r)
    BY DEF IInv
  <2>2. UNCHANGED <<clog, snap>> /\ \A z \in Session : (pc'[z] # pc[z] => z = s) /\ live_txns(z)' = live_txns(z)
    BY <1>2, <1>3 DEF StatementFrame
  <2>3. pc[s] \in Undecided /\ q \in Undecided
        /\ q \notin {"flushed", "abort_subxids", "abort_top", "settled"}
    BY DEF Statement, Undecided
  <2> QED  BY <2>1, <2>2, <2>3, <1>2, <1>4 DEF ClogOf, Apart, Beyond
<1>16. ASSUME NEW r \in Session PROVE WriterOf(r)'
  <2>1. WriterOf(r)
    BY DEF IInv
  <2>2. (pc[r] \in {"scan", "rows", "locked", "index"} => r \in writers)'
    BY <2>1, <1>3, <1>4, <1>6 DEF WriterOf
  <2>3. (r \in writers => pc[r] \notin {"idle", "read"})'
    BY <2>1, <1>3, <1>4 DEF WriterOf
  <2>4. ASSUME NEW i \in 1..Len(levels[r]), ~ levels[r][i].writer,
               NEW sl \in Slot, heap'[sl].xmax \in live_txns(r)
        PROVE  heap'[sl].xmax >= Level(r, i)
    <3>1. heap[sl].xmax \in live_txns(r) => heap[sl].xmax >= Level(r, i)
      BY <2>1, <2>4 DEF WriterOf
    <3>2. heap'[sl].xmax # NoXid
      BY <2>4, <1>10
    <3>3. heap'[sl].xmax = w => r = s
      BY <2>4, <1>8 DEF IInv, Disjoint
    <3>4. Level(r, i) \in Nat /\ w \in Nat
      <4>1. Level(r, i) \in Nat
        BY <2>4, LevelFacts DEF IInv
      <4> QED  BY <4>1, <1>8 DEF Xid
    <3>5. CASE heap'[sl].xmax = w
      BY <3>3, <3>4, <3>5, <1>8
    <3>6. CASE heap'[sl].xmax # w
      BY <3>1, <3>2, <3>6, <2>4, <1>9
    <3> QED  BY <3>5, <3>6
  <2>5. UNCHANGED levels
    BY DEF StatementFrame
  <2> QED  BY <2>2, <2>3, <2>4, <2>5, <1>2 DEF WriterOf, Level
<1> QED  BY <1>11, <1>12, <1>13, <1>14, <1>15, <1>16

\* The deleter's stamp on one version.
LEMMA StampFacts ==
  ASSUME NEW s, NEW h \in [Slot -> VersionType], NEW t, t.slot \in Slot,
         NEW c \in 0..NumSlots, NEW hot \in BOOLEAN, writing_xid(s) \in 0..MaxXid
  PROVE  /\ StampXmax(s, h, t, c, hot) \in [Slot -> VersionType]
         /\ \A sl \in Slot : /\ StampXmax(s, h, t, c, hot)[sl].xmin = h[sl].xmin
                             /\ StampXmax(s, h, t, c, hot)[sl].xmax \in {h[sl].xmax, writing_xid(s)}
<1> DEFINE v == h[t.slot]
           b == v.hot_updated \/ hot
           w == writing_xid(s)
           n == Stamped(v, w, c, b)
<1>1. v \in VersionType /\ b \in BOOLEAN
  BY DEF VersionType
<1>2. StampXmax(s, h, t, c, hot) = [h EXCEPT ![t.slot] = n]
  BY DEF StampXmax, Stamped
<1>3. n \in VersionType /\ n.xmin = v.xmin /\ n.xmax = w
  <2> HIDE DEF v, b, w
  <2>1. w \in 0..MaxXid
    BY DEF w
  <2> QED  BY <1>1, <2>1, StampedFacts
<1> HIDE DEF n
<1>4. \A sl \in Slot : [h EXCEPT ![t.slot] = n][sl] = IF sl = t.slot THEN n ELSE h[sl]
  OBVIOUS
<1>5. [h EXCEPT ![t.slot] = n] \in [Slot -> VersionType]
  BY <1>3
<1> QED  BY <1>2, <1>3, <1>4, <1>5

\* A new version, its index entries made or not.
HotVersion(n) == [n EXCEPT !.indexed = TRUE, !.heap_only = TRUE]

LEMMA NewVersionFacts ==
  ASSUME NEW s, NEW k \in Key \cup {Null}, NEW u \in Unique \cup {Null}, writing_xid(s) \in 0..MaxXid
  PROVE  /\ NewVersion(s, k, u) \in VersionType
         /\ NewVersion(s, k, u).xmin = writing_xid(s) /\ NewVersion(s, k, u).xmax = NoXid
         /\ NewVersion(s, k, u).key = k
         /\ HotVersion(NewVersion(s, k, u)) \in VersionType
         /\ HotVersion(NewVersion(s, k, u)).xmin = writing_xid(s)
         /\ HotVersion(NewVersion(s, k, u)).xmax = NoXid
         /\ HotVersion(NewVersion(s, k, u)).key = k
<1> DEFINE b == (u = Null)
           w == writing_xid(s)
           n1 == [FreeSlot EXCEPT !.key = k]
           n2 == [n1 EXCEPT !.u = u]
           n3 == [n2 EXCEPT !.indexed = b]
           n == [n3 EXCEPT !.xmin = w]
           m1 == [n EXCEPT !.indexed = TRUE]
           m == [m1 EXCEPT !.heap_only = TRUE]
<1>1. NewVersion(s, k, u) = n
  BY DEF NewVersion
<1>2. b \in BOOLEAN /\ w \in 0..MaxXid
  OBVIOUS
<1>3. HotVersion(NewVersion(s, k, u)) = m
  <2> HIDE DEF n
  <2> QED  BY <1>1 DEF HotVersion
<1>4. n1 \in VersionType
  BY FreeSlotFacts DEF VersionType
<1>5. n1 \in VersionType => n2 \in VersionType
  <2> HIDE DEF n1
  <2> QED  BY FieldFacts
<1>6. n2 \in VersionType => n3 \in VersionType
  <2> HIDE DEF n2, b
  <2> QED  BY <1>2, FieldFacts
<1>7. n3 \in VersionType => n \in VersionType
  <2> HIDE DEF n3, w
  <2> QED  BY <1>2, FieldFacts
<1>8. n \in VersionType => m1 \in VersionType
  <2> HIDE DEF n
  <2> QED  BY FieldFacts
<1>9. m1 \in VersionType => m \in VersionType
  <2> HIDE DEF m1
  <2> QED  BY FieldFacts
<1>10. n.xmin = w /\ n.xmax = NoXid /\ n.key = k
  BY DEF FreeSlot
<1>12. n \in VersionType => m.xmin = n.xmin /\ m.xmax = n.xmax /\ m.key = n.key
  <2> HIDE DEF n
  <2> QED  BY DEF VersionType
<1> HIDE DEF n, m, b
<1> QED  BY <1>1, <1>2, <1>3, <1>4, <1>5, <1>6, <1>7, <1>8, <1>9, <1>10, <1>12

\* What every write of a row leaves intact.
LEMMA WriteKeeps ==
  ASSUME IInv, NEW s \in Session, NEW q, StatementFrame(s, q), HeapStep(s),
         pc[s] \in {"scan", "locked", "index"}, q \in {"rows", "index"},
         UNCHANGED <<xmins, snap, writers, horizon, todo, iso, wrote>>,
         rowlock' \in [Key -> SUBSET Session],
         NEW t \in TargetType, target' = [target EXCEPT ![s] = t], q = "index" => t.slot \in Slot
  PROVE  IInv'
<1>1. pc \in [Session -> Pcs] /\ target \in [Session -> TargetType]
  BY DEF IInv, TypeOK
<1>2. TypeOK'
  <2>1. pc' \in [Session -> Pcs]
    BY <1>1 DEF StatementFrame, Pcs, Statement
  <2>2. target' \in [Session -> TargetType]
    BY <1>1
  <2>3. heap' \in [Slot -> VersionType]
    BY DEF HeapStep
  <2> QED  BY <2>1, <2>2, <2>3 DEF IInv, TypeOK, StatementFrame
<1>3. Targets'
  BY <1>1 DEF IInv, Targets, StatementFrame
<1>4. ASSUME NEW r \in Session PROVE HorizonOf(r)'
  BY <1>1 DEF IInv, HorizonOf, StatementFrame, InUse
<1> QED  BY <1>2, <1>3, <1>4, FrameKeeps, HeapKeeps DEF IInv

LEMMA TargetFacts ==
  ASSUME IInv, NEW s \in Session, pc[s] \in {"scan", "locked", "index"}
  PROVE  /\ pc[s] \in Live /\ writing_xid(s) \in 0..MaxXid
         /\ pc[s] # "scan" => target[s].slot \in Slot
         /\ heap \in [Slot -> VersionType] /\ NoTarget \in TargetType
         /\ rowlock \in [Key -> SUBSET Session] /\ scale.unique \subseteq Unique
         /\ scale.keys \subseteq Key
<1>1. pc[s] \in Live
  BY DEF Live, Statement
<1>2. writing_xid(s) \in 0..MaxXid
  BY <1>1, WritingFacts, MvccAssumption DEF Xid
<1>3. NoTarget \in TargetType
  BY MvccAssumption DEF NoTarget, TargetType, NoSlot, NoXid
<1>4. scale.unique \subseteq Unique /\ scale.keys \subseteq Key
  BY MvccAssumption DEF IInv, TypeOK
<1> QED  BY <1>1, <1>2, <1>3, <1>4 DEF IInv, TypeOK, Targets

LEMMA DeleteKeeps ==
  ASSUME IInv, NEW s \in Session, Delete(s), UNCHANGED scale
  PROVE  IInv'
<1>1. StatementFrame(s, "rows") /\ pc[s] = "locked"
  BY DEF Delete, StatementFrame, registry, txn, Live, Statement
<1>2. /\ target[s].slot \in Slot /\ writing_xid(s) \in 0..MaxXid /\ NoTarget \in TargetType
      /\ heap \in [Slot -> VersionType] /\ NoSlot \in 0..NumSlots
      /\ rowlock \in [Key -> SUBSET Session]
  BY <1>1, TargetFacts, FreeSlotFacts
<1>3. HeapStep(s)
  <2>1. heap' = StampXmax(s, heap, target[s], NoSlot, FALSE)
    BY DEF Delete
  <2> DEFINE b == FALSE
             g == StampXmax(s, heap, target[s], NoSlot, b)
  <2>2. b \in BOOLEAN /\ heap' = g
    BY <2>1
  <2> HIDE DEF b
  <2>3. g \in [Slot -> VersionType] /\ \A sl \in Slot : g[sl].xmin = heap[sl].xmin
          /\ g[sl].xmax \in {heap[sl].xmax, writing_xid(s)}
    BY <2>2, <1>2, StampFacts
  <2> HIDE DEF g
  <2> QED  BY <2>2, <2>3 DEF HeapStep
<1>4. UNCHANGED <<xmins, snap, writers, horizon, todo, iso, wrote, rowlock>>
      /\ target' = [target EXCEPT ![s] = NoTarget]
  BY DEF Delete, registry, locks, txn
<1>5. PICK q : q = "rows"
  OBVIOUS
<1>6. PICK t \in TargetType : t = NoTarget
  BY <1>2
<1>7. StatementFrame(s, q) /\ q \in {"rows", "index"} /\ q # "index"
      /\ target' = [target EXCEPT ![s] = t]
      /\ rowlock' \in [Key -> SUBSET Session]
  BY <1>1, <1>2, <1>4, <1>5, <1>6
<1> QED  BY <1>1, <1>3, <1>4, <1>7, WriteKeeps

LEMMA InsertSecondaryEntryKeeps ==
  ASSUME IInv, NEW s \in Session, InsertSecondaryEntry(s), UNCHANGED scale
  PROVE  IInv'
<1>1. StatementFrame(s, "rows") /\ pc[s] = "index"
  BY DEF InsertSecondaryEntry, StatementFrame, registry, txn, Live, Statement
<1>2. /\ target[s].slot \in Slot /\ NoTarget \in TargetType
      /\ heap \in [Slot -> VersionType] /\ rowlock \in [Key -> SUBSET Session]
  BY <1>1, TargetFacts
<1>3. HeapStep(s)
  <2> DEFINE sl == target[s].slot
             v == [heap[sl] EXCEPT !.indexed = TRUE]
  <2>1. heap' = [heap EXCEPT ![sl] = v]
    BY DEF InsertSecondaryEntry
  <2>2. v \in VersionType /\ v.xmin = heap[sl].xmin /\ v.xmax = heap[sl].xmax
    <3> DEFINE h == heap[sl]
    <3>1. h \in VersionType
      BY <1>2
    <3> HIDE DEF h
    <3>2. [h EXCEPT !.indexed = TRUE] \in VersionType
      BY <3>1, FieldFacts
    <3>3. [h EXCEPT !.indexed = TRUE].xmin = h.xmin /\ [h EXCEPT !.indexed = TRUE].xmax = h.xmax
      BY <3>1 DEF VersionType
    <3> QED  BY <3>2, <3>3 DEF h
  <2> HIDE DEF v
  <2> QED  BY <2>1, <2>2, <1>2 DEF HeapStep
<1>4. UNCHANGED <<xmins, snap, writers, horizon, todo, iso, wrote, rowlock>>
      /\ target' = [target EXCEPT ![s] = NoTarget]
  BY DEF InsertSecondaryEntry, registry, locks, txn
<1>5. PICK q : q = "rows"
  OBVIOUS
<1>6. PICK t \in TargetType : t = NoTarget
  BY <1>2
<1>7. StatementFrame(s, q) /\ q \in {"rows", "index"} /\ q # "index"
      /\ target' = [target EXCEPT ![s] = t]
      /\ rowlock' \in [Key -> SUBSET Session]
  BY <1>1, <1>2, <1>4, <1>5, <1>6
<1> QED  BY <1>1, <1>3, <1>4, <1>7, WriteKeeps

LEMMA FreeFacts ==
  ASSUME NEW h, FreeSlots(h) # {}
  PROVE  Min(FreeSlots(h)) \in Slot
<1>1. FreeSlots(h) \subseteq Slot /\ Slot \subseteq Nat
  BY MvccAssumption DEF FreeSlots, Slot
<1>2. FreeSlots(h) \subseteq Nat
  BY <1>1
<1> QED  BY <1>1, <1>2, MinFacts

LEMMA InsertKeeps ==
  ASSUME IInv, NEW s \in Session, NEW k \in scale.keys, NEW u \in scale.unique \cup {Null},
         Insert(s, k, u), UNCHANGED scale
  PROVE  IInv'
<1> DEFINE n == NewVersion(s, k, u)
           sl == Min(FreeSlots(heap))
           q == IF n.indexed THEN "rows" ELSE "index"
           t == IF n.indexed THEN NoTarget ELSE [slot |-> sl, xmin |-> n.xmin, key |-> n.key]
<1>0. pc[s] = "scan"
  BY DEF Insert
<1>1. StatementFrame(s, q)
  BY <1>0 DEF Insert, StatementFrame, registry, txn, Live, Statement
<1>2. /\ NoTarget \in TargetType /\ heap \in [Slot -> VersionType]
      /\ rowlock \in [Key -> SUBSET Session] /\ k \in Key /\ u \in Unique \cup {Null}
      /\ writing_xid(s) \in 0..MaxXid
  BY <1>0, TargetFacts
<1>3. sl \in Slot
  BY FreeFacts DEF Insert
<1>4. n \in VersionType /\ n.xmin = writing_xid(s) /\ n.xmax = NoXid /\ n.key = k
  <2>1. k \in Key \cup {Null}
    BY <1>2
  <2> QED  BY <2>1, <1>2, NewVersionFacts
<1>5. heap' = [heap EXCEPT ![sl] = n] /\ rowlock' = [rowlock EXCEPT ![k] = @ \cup {s}]
      /\ target' = [target EXCEPT ![s] = t]
      /\ UNCHANGED <<xmins, snap, writers, horizon, todo, iso, wrote>>
  BY DEF Insert, registry, txn
<1> HIDE DEF n, sl
<1>6. HeapStep(s)
  BY <1>2, <1>3, <1>4, <1>5 DEF HeapStep
<1>7. rowlock' \in [Key -> SUBSET Session]
  BY <1>2, <1>5
<1>8. t \in TargetType /\ (q = "index" => t.slot \in Slot)
  <2>1. sl \in 0..NumSlots
    BY <1>3, MvccAssumption DEF Slot
  <2> QED  BY <2>1, <1>2, <1>3, <1>4 DEF TargetType
<1>9. q \in {"rows", "index"}
  OBVIOUS
<1> HIDE DEF q, t
<1> QED  BY <1>0, <1>1, <1>5, <1>6, <1>7, <1>8, <1>9, WriteKeeps

LEMMA UpdateKeeps ==
  ASSUME IInv, NEW s \in Session, NEW u \in scale.unique \cup {Null},
         NEW hot \in BOOLEAN, NEW prune \in BOOLEAN,
         Update(s, u, hot, prune), UNCHANGED scale
  PROVE  IInv'
<1> DEFINE h == IF prune THEN Pruned(horizon[s], FALSE) ELSE heap
           fresh == NewVersion(s, heap[target[s].slot].key, u)
           n == IF hot THEN [fresh EXCEPT !.indexed = TRUE, !.heap_only = TRUE] ELSE fresh
           sl == Min(FreeSlots(h))
           q == IF n.indexed THEN "rows" ELSE "index"
           t == IF n.indexed THEN NoTarget ELSE [slot |-> sl, xmin |-> n.xmin, key |-> n.key]
<1>0. pc[s] = "locked"
  BY DEF Update
<1>1. StatementFrame(s, q)
  BY <1>0 DEF Update, UpdateIn, StatementFrame, registry, txn, Live, Statement
<1>2. /\ NoTarget \in TargetType /\ heap \in [Slot -> VersionType]
      /\ rowlock \in [Key -> SUBSET Session] /\ u \in Unique \cup {Null}
      /\ writing_xid(s) \in 0..MaxXid /\ target[s].slot \in Slot
  BY <1>0, TargetFacts
<1>3. h \in [Slot -> VersionType] /\ Kept(heap, h)
  <2>1. TypeOK
    BY DEF IInv
  <2>2. Pruned(horizon[s], FALSE) \in [Slot -> VersionType] /\ Kept(heap, Pruned(horizon[s], FALSE))
    BY <2>1, PrunedFacts
  <2> QED  BY <2>2, <1>2 DEF Kept
<1> HIDE DEF h
<1>4. sl \in Slot
  BY FreeFacts DEF Update, UpdateIn, h
<1>5. heap[target[s].slot].key \in Key \cup {Null}
  BY <1>2 DEF VersionType
<1>6. /\ n \in VersionType /\ n.xmin = writing_xid(s) /\ n.xmax = NoXid
      /\ n.key \in Key \cup {Null}
  <2> DEFINE k == heap[target[s].slot].key
  <2>1. k \in Key \cup {Null}
    BY <1>5
  <2> HIDE DEF k
  <2>2. /\ NewVersion(s, k, u) \in VersionType /\ NewVersion(s, k, u).xmin = writing_xid(s)
        /\ NewVersion(s, k, u).xmax = NoXid /\ NewVersion(s, k, u).key = k
        /\ HotVersion(NewVersion(s, k, u)) \in VersionType
        /\ HotVersion(NewVersion(s, k, u)).xmin = writing_xid(s)
        /\ HotVersion(NewVersion(s, k, u)).xmax = NoXid
        /\ HotVersion(NewVersion(s, k, u)).key = k
    BY <2>1, <1>2, NewVersionFacts
  <2>3. fresh = NewVersion(s, k, u)
    BY DEF k
  <2> HIDE DEF fresh
  <2>4. CASE hot
    <3>1. n = HotVersion(fresh)
      BY <2>4 DEF HotVersion
    <3> HIDE DEF n
    <3> QED  BY <3>1, <2>1, <2>2, <2>3
  <2>5. CASE ~ hot
    <3>1. n = fresh
      BY <2>5
    <3> HIDE DEF n
    <3> QED  BY <3>1, <2>1, <2>2, <2>3
  <2> QED  BY <2>4, <2>5
<1>7. heap' = StampXmax(s, [h EXCEPT ![sl] = n], target[s], sl, hot)
      /\ target' = [target EXCEPT ![s] = t]
      /\ UNCHANGED <<xmins, snap, writers, horizon, todo, iso, wrote, rowlock>>
  BY DEF Update, UpdateIn, registry, txn, locks, h
<1> HIDE DEF n, sl
<1>8. sl \in 0..NumSlots
  BY <1>4, MvccAssumption DEF Slot
<1>9. HeapStep(s)
  <2> DEFINE g == [h EXCEPT ![sl] = n]
  <2>1. g \in [Slot -> VersionType] /\ \A a \in Slot : g[a] = IF a = sl THEN n ELSE h[a]
    BY <1>3, <1>4, <1>6
  <2>2. \A a \in Slot : /\ g[a].xmin \in {NoXid, heap[a].xmin, writing_xid(s)}
                        /\ g[a].xmax \in {NoXid, heap[a].xmax}
    BY <2>1, <1>3, <1>6 DEF Kept
  <2> HIDE DEF g
  <2>3. heap' = StampXmax(s, g, target[s], sl, hot)
    BY <1>7 DEF g
  <2>4. heap' \in [Slot -> VersionType] /\ \A a \in Slot : heap'[a].xmin = g[a].xmin
          /\ heap'[a].xmax \in {g[a].xmax, writing_xid(s)}
    BY <2>1, <2>3, <1>2, <1>8, StampFacts
  <2> QED  BY <2>2, <2>4 DEF HeapStep
<1>10. t \in TargetType /\ (q = "index" => t.slot \in Slot)
  BY <1>8, <1>2, <1>4, <1>6 DEF TargetType
<1>11. q \in {"rows", "index"}
  OBVIOUS
<1> HIDE DEF q, t
<1> QED  BY <1>0, <1>1, <1>2, <1>7, <1>9, <1>10, <1>11, WriteKeeps

-----------------------------------------------------------------------------
(* Snapshots and the advertised xmins.                                     *)

Holders(x) == {s \in Session : snap[s] # NoSnapshot /\ snap[s].xmin = x}

\* The snapshot a capture returns: xmin is at or below everything running.
LEMMA CaptureFacts ==
  ASSUME IInv, NEW own
  PROVE  /\ capture(own) \in SnapshotType /\ capture(own) # NoSnapshot
         /\ capture(own).xmin \in 1..MaxId /\ capture(own).xmax = next_txn_id
         /\ capture(own).xip = active \ {own} /\ capture(own).xmin <= next_txn_id
         /\ \A x \in active : capture(own).xmin <= x
<1>1. MaxXid \in Nat /\ MaxId = MaxXid + 1 /\ next_txn_id \in 1..MaxId /\ active \subseteq Xid
      /\ active \subseteq Nat
  BY MvccAssumption DEF IInv, TypeOK, MaxId, Xid
<1>2. \A x \in active : x < next_txn_id
  BY DEF IInv, Fresh
<1> DEFINE m == IF active = {} THEN next_txn_id ELSE Min(active)
<1>3. m \in 1..MaxId /\ m <= next_txn_id /\ \A x \in active : m <= x
  <2>1. CASE active = {}
    BY <1>1, <2>1
  <2>2. CASE active # {}
    <3>1. Min(active) \in active /\ \A x \in active : Min(active) <= x
      BY <1>1, <2>2, MinFacts
    <3>2. m = Min(active)
      BY <2>2
    <3>3. m \in Xid /\ m < next_txn_id
      BY <3>1, <3>2, <1>1, <1>2
    <3> QED  BY <3>1, <3>2, <3>3, <1>1 DEF Xid
  <2> QED  BY <2>1, <2>2
<1>4. capture(own) = [xmin |-> m, xmax |-> next_txn_id, xip |-> active \ {own}]
  BY DEF capture
<1> HIDE DEF m
<1>5. capture(own) \in SnapshotType
  <2>1. \A x \in active \ {own} : x \in Xid
    BY <1>1
  <2>2. m \in 0..MaxId /\ next_txn_id \in 0..MaxId
    BY <1>1, <1>3
  <2> QED  BY <2>1, <2>2, <1>4 DEF SnapshotType
<1>6. capture(own) # NoSnapshot
  BY <1>1, <1>4 DEF NoSnapshot
<1> QED  BY <1>1, <1>3, <1>4, <1>5, <1>6

\* The advertised counts after a capture and after a release.
LEMMA CaptureCounts ==
  ASSUME IInv, NEW s \in Session, NEW own, snap[s] = NoSnapshot, Capture(s, own)
  PROVE  AdvertisedExactly' /\ xmins' \in [1..MaxId -> Nat] /\ snap' \in [Session -> SnapshotType]
<1> DEFINE c == capture(own)
<1>1. c \in SnapshotType /\ c # NoSnapshot /\ c.xmin \in 1..MaxId
  BY CaptureFacts
<1>2. snap' = [snap EXCEPT ![s] = c] /\ xmins' = [xmins EXCEPT ![c.xmin] = @ + 1]
  BY DEF Capture, advertise_xmin
<1> HIDE DEF c
<1>3. snap \in [Session -> SnapshotType] /\ xmins \in [1..MaxId -> Nat]
  BY DEF IInv, TypeOK
<1>4. xmins' \in [1..MaxId -> Nat] /\ snap' \in [Session -> SnapshotType]
  BY <1>1, <1>2, <1>3
<1>5. ASSUME NEW x \in 1..MaxId
      PROVE  xmins'[x] = Cardinality({r \in Session : snap'[r] # NoSnapshot /\ snap'[r].xmin = x})
  <2> DEFINE old == Holders(x)
             new == {r \in Session : snap'[r] # NoSnapshot /\ snap'[r].xmin = x}
  <2>1. IsFiniteSet(old)
    <3>1. old \subseteq Session
      BY DEF Holders
    <3> QED  BY <3>1, MvccAssumption, FS_Subset
  <2>2. xmins[x] = Cardinality(old)
    BY DEF IInv, AdvertisedExactly, Holders
  <2>3. s \notin old
    BY DEF Holders
  <2>4. CASE x = c.xmin
    <3>1. new = old \cup {s}
      BY <1>1, <1>2, <1>3, <2>4 DEF Holders
    <3>2. Cardinality(old \cup {s}) = Cardinality(old) + 1
      BY <2>1, <2>3, FS_AddElement
    <3>3. xmins'[x] = xmins[x] + 1
      BY <1>2, <1>3, <2>4
    <3> QED  BY <2>2, <3>1, <3>2, <3>3
  <2>5. CASE x # c.xmin
    <3>1. new = old
      BY <1>1, <1>2, <1>3, <2>5 DEF Holders
    <3>2. xmins'[x] = xmins[x]
      BY <1>2, <1>3, <2>5
    <3> QED  BY <2>2, <3>1, <3>2
  <2> QED  BY <2>4, <2>5
<1>6. AdvertisedExactly'
  BY <1>5 DEF AdvertisedExactly
<1> QED  BY <1>4, <1>6

LEMMA ReleaseCounts ==
  ASSUME IInv, NEW s \in Session, ReleaseSnapshot(s)
  PROVE  AdvertisedExactly' /\ xmins' \in [1..MaxId -> Nat] /\ snap' \in [Session -> SnapshotType]
<1>1. snap \in [Session -> SnapshotType] /\ xmins \in [1..MaxId -> Nat]
  BY DEF IInv, TypeOK
<1>2. NoSnapshot \in SnapshotType
  BY MvccAssumption DEF NoSnapshot, SnapshotType, MaxId
<1>3. snap' = [snap EXCEPT ![s] = NoSnapshot]
  BY DEF ReleaseSnapshot
<1>4. snap' \in [Session -> SnapshotType]
  BY <1>1, <1>2, <1>3
<1>5. CASE snap[s] = NoSnapshot
  <2>1. xmins' = xmins /\ snap' = snap
    BY <1>1, <1>3, <1>5 DEF ReleaseSnapshot
  <2> QED  BY <2>1, <1>1, <1>4 DEF IInv, AdvertisedExactly
<1>6. CASE snap[s] # NoSnapshot
  <2> DEFINE m == snap[s].xmin
  <2>1. xmins' = [xmins EXCEPT ![m] = @ - 1]
    BY <1>6 DEF ReleaseSnapshot, release_advertised
  <2>2. m \in 1..MaxId
    <3>1. 1 <= m
      BY <1>6 DEF IInv, SnapshotOf, InUse
    <3>2. m \in 0..MaxId
      BY <1>1 DEF SnapshotType
    <3> QED  BY <3>1, <3>2
  <2>3. ASSUME NEW x \in 1..MaxId
        PROVE  /\ xmins'[x] = Cardinality({r \in Session : snap'[r] # NoSnapshot /\ snap'[r].xmin = x})
               /\ xmins'[x] \in Nat
    <3> DEFINE old == Holders(x)
               new == {r \in Session : snap'[r] # NoSnapshot /\ snap'[r].xmin = x}
    <3>1. IsFiniteSet(old)
      <4>1. old \subseteq Session
        BY DEF Holders
      <4> QED  BY <4>1, MvccAssumption, FS_Subset
    <3>2. xmins[x] = Cardinality(old) /\ xmins[x] \in Nat
      BY <1>1 DEF IInv, AdvertisedExactly, Holders
    <3>3. CASE x = m
      <4>1. s \in old
        BY <1>6, <3>3 DEF Holders
      <4>2. new = old \ {s}
        BY <1>1, <1>3, <3>3 DEF Holders
      <4>3. Cardinality(old \ {s}) = Cardinality(old) - 1 /\ IsFiniteSet(old \ {s})
        BY <3>1, <4>1, FS_RemoveElement
      <4>4. xmins'[x] = xmins[x] - 1
        BY <1>1, <2>1, <3>3
      <4>5. Cardinality(old \ {s}) \in Nat
        BY <4>3, FS_CardinalityType
      <4> QED  BY <3>2, <4>2, <4>3, <4>4, <4>5
    <3>4. CASE x # m
      <4>1. new = old
        BY <1>1, <1>3, <3>4 DEF Holders
      <4>2. xmins'[x] = xmins[x]
        BY <1>1, <2>1, <2>2, <3>4
      <4> QED  BY <3>2, <4>1, <4>2
    <3> QED  BY <3>3, <3>4
  <2>4. AdvertisedExactly'
    BY <2>3 DEF AdvertisedExactly
  <2>5. xmins' \in [1..MaxId -> Nat]
    <3>1. xmins' = [x \in 1..MaxId |-> xmins'[x]]
      BY <1>1, <2>1
    <3> QED  BY <2>3, <3>1
  <2> QED  BY <2>4, <2>5, <1>4
<1> QED  BY <1>5, <1>6

\* The horizon is at or below the xmin of every snapshot in use.
LEMMA HorizonFacts ==
  ASSUME IInv
  PROVE  /\ gc_horizon \in 1..MaxId
         /\ \A r \in Session : InUse(r) => gc_horizon <= snap[r].xmin
<1> DEFINE adv == {x \in 1..MaxId : xmins[x] > 0}
<1>1. /\ next_txn_id \in 1..MaxId /\ MaxId \in Nat
      /\ xmins \in [1..MaxId -> Nat] /\ snap \in [Session -> SnapshotType]
  BY MvccAssumption DEF IInv, TypeOK, MaxId
<1>2. adv # {} => Min(adv) \in adv /\ \A x \in adv : Min(adv) <= x
  <2>1. adv \subseteq Nat
    BY <1>1
  <2> HIDE DEF adv
  <2> QED  BY <2>1, MinFacts
<1>3. gc_horizon = IF adv = {} THEN next_txn_id ELSE Min(adv)
  BY DEF gc_horizon
<1>4. ASSUME NEW r \in Session, InUse(r) PROVE snap[r].xmin \in adv
  <2> DEFINE m == snap[r].xmin
             holders == Holders(m)
  <2>1. m \in 1..MaxId
    <3>1. 1 <= m
      BY <1>4 DEF IInv, SnapshotOf
    <3>2. m \in 0..MaxId
      BY <1>1 DEF SnapshotType
    <3> QED  BY <3>1, <3>2
  <2>2. xmins[m] = Cardinality(holders)
    BY <2>1 DEF IInv, AdvertisedExactly, Holders
  <2>3. IsFiniteSet(holders)
    <3>1. holders \subseteq Session
      BY DEF Holders
    <3> QED  BY <3>1, MvccAssumption, FS_Subset
  <2>4. r \in holders
    BY <1>4 DEF Holders, InUse
  <2>5. Cardinality(holders) \in Nat /\ Cardinality(holders) # 0
    <3> HIDE DEF holders
    <3>1. holders # {}
      BY <2>4
    <3> QED  BY <2>3, <3>1, FS_CardinalityType, FS_EmptySet
  <2> QED  BY <2>1, <2>2, <2>5
<1>5. gc_horizon \in 1..MaxId
  BY <1>1, <1>2, <1>3
<1> HIDE DEF adv
<1>6. ASSUME NEW r \in Session, InUse(r) PROVE gc_horizon <= snap[r].xmin
  BY <1>2, <1>3, <1>4, <1>6
<1> QED  BY <1>5, <1>6

-----------------------------------------------------------------------------
(* Statements.                                                             *)

\* What a statement does to the snapshot of its session: nothing, a capture
\* when there is none, or a release.
SnapshotStep(s) ==
  \/ UNCHANGED <<snap, xmins>>
  \/ snap[s] = NoSnapshot /\ Capture(s, txn_id[s])
  \/ ReleaseSnapshot(s)

LEMMA SnapshotStepFacts ==
  ASSUME IInv, NEW s \in Session, SnapshotStep(s)
  PROVE  /\ AdvertisedExactly' /\ xmins' \in [1..MaxId -> Nat]
         /\ snap' \in [Session -> SnapshotType]
         /\ \A r \in Session : r # s => snap'[r] = snap[r]
         /\ \/ snap'[s] = snap[s]
            \/ snap'[s] = NoSnapshot
            \/ snap[s] = NoSnapshot /\ snap'[s] = capture(txn_id[s])
<1>1. snap \in [Session -> SnapshotType]
  BY DEF IInv, TypeOK
<1>2. CASE UNCHANGED <<snap, xmins>>
  BY <1>2 DEF IInv, TypeOK, AdvertisedExactly
<1>3. CASE snap[s] = NoSnapshot /\ Capture(s, txn_id[s])
  <2>1. snap' = [snap EXCEPT ![s] = capture(txn_id[s])]
    BY <1>3 DEF Capture
  <2>2. PICK own : own = txn_id[s]
    OBVIOUS
  <2>3. AdvertisedExactly' /\ xmins' \in [1..MaxId -> Nat] /\ snap' \in [Session -> SnapshotType]
    BY <1>3, <2>2, CaptureCounts
  <2> QED  BY <1>1, <1>3, <2>1, <2>3
<1>4. CASE ReleaseSnapshot(s)
  <2>1. snap' = [snap EXCEPT ![s] = NoSnapshot]
    BY <1>4 DEF ReleaseSnapshot
  <2> QED  BY <1>1, <1>4, <2>1, ReleaseCounts
<1> QED  BY <1>2, <1>3, <1>4 DEF SnapshotStep

\* A snapshot cut from the registry as it is now.
LEMMA CutNow ==
  ASSUME IInv, NEW s \in Session, NEW c, c = capture(txn_id[s])
  PROVE  /\ 1 <= c.xmin /\ c.xmin <= c.xmax /\ c.xmax <= next_txn_id
         /\ \A x \in c.xip : c.xmin <= x
         /\ \A x \in active : c.xmin <= x /\ (x \in c.xip \/ x = txn_id[s])
         /\ \A r \in Session : InUse(r) => snap[r].xmin <= c.xmin
         /\ \A r \in Session : pc[r] = "settled" =>
              \A x \in live_txns(r) : x < c.xmax /\ x \notin c.xip
         /\ \A sl \in Slot : heap[sl].xmax < c.xmax
         /\ writers = {} => \A sl \in Slot : heap[sl].xmax \notin c.xip
<1> DEFINE own == txn_id[s]
<1>1. /\ capture(own).xmin \in 1..MaxId /\ capture(own).xmax = next_txn_id
      /\ capture(own).xip = active \ {own} /\ capture(own).xmin <= next_txn_id
      /\ \A x \in active : capture(own).xmin <= x
  <2> HIDE DEF own
  <2> QED  BY CaptureFacts
<1>2. /\ c.xmin \in 1..MaxId /\ c.xmax = next_txn_id /\ c.xip = active \ {own}
      /\ c.xmin <= next_txn_id /\ \A x \in active : c.xmin <= x
  BY <1>1
<1>3. next_txn_id \in Nat /\ MaxId \in Nat /\ snap \in [Session -> SnapshotType] /\ active \subseteq Xid
  BY MvccAssumption DEF IInv, TypeOK, MaxId
<1>4. ASSUME NEW r \in Session, InUse(r) PROVE snap[r].xmin <= c.xmin
  <2>1. snap[r].xmin <= next_txn_id /\ \A x \in active : snap[r].xmin <= x
    <3>1. snap[r].xmin <= snap[r].xmax /\ snap[r].xmax <= next_txn_id
      BY <1>4 DEF IInv, SnapshotOf
    <3>2. snap[r].xmin \in Nat /\ snap[r].xmax \in Nat
      BY <1>3 DEF SnapshotType
    <3> QED  BY <1>3, <1>4, <3>1, <3>2 DEF IInv, SnapshotOf
  <2>2. c.xmin \in active \/ c.xmin = next_txn_id
    <3>1. CASE active = {}
      BY <3>1 DEF capture
    <3>2. CASE active # {}
      <4>1. active \subseteq Nat
        BY <1>3 DEF Xid
      <4>2. Min(active) \in active
        BY <3>2, <4>1, MinFacts
      <4> QED  BY <3>2, <4>2 DEF capture
    <3> QED  BY <3>1, <3>2
  <2> QED  BY <2>1, <2>2
<1>5. ASSUME NEW r \in Session, pc[r] = "settled", NEW x \in live_txns(r)
      PROVE  x < c.xmax /\ x \notin c.xip
  <2>1. x \notin active
    BY <1>5 DEF IInv, RegistryOf
  <2>2. x < next_txn_id
    BY <1>5 DEF IInv, FamilyOf, live_txns
  <2> QED  BY <1>2, <2>1, <2>2
<1>6. \A sl \in Slot : heap[sl].xmax < c.xmax
  BY <1>2 DEF IInv, Stamps
<1>7. writers = {} => \A sl \in Slot : heap[sl].xmax \notin c.xip
  BY <1>2 DEF IInv, Stamps
<1> QED  BY <1>2, <1>3, <1>4, <1>5, <1>6, <1>7

\* What a statement step leaves intact when it does not write a row.
LEMMA StatementKeeps ==
  ASSUME IInv, NEW s \in Session, NEW q, StatementFrame(s, q), SnapshotStep(s), UNCHANGED heap,
         NEW z, horizon' = [horizon EXCEPT ![s] = z],
         z = 0 \/ (q \in {"rows", "locked"} /\ z \in {horizon[s], gc_horizon} /\ UNCHANGED snap),
         writers' = writers \/ (writers' = writers \cup {s} /\ ~ ShareLocked /\ q \in Live),
         q \in {"scan", "rows", "locked", "index"} => s \in writers',
         q \in {"read"} \cup Statement => snap'[s] # NoSnapshot,
         q = "idle" => snap'[s] = NoSnapshot,
         snap[s] = NoSnapshot /\ snap'[s] # NoSnapshot => pc[s] \in {"idle", "open"},
         TypeOK', Targets'
  PROVE  IInv'
<1> DEFINE cut == capture(txn_id[s])
<1>1. /\ AdvertisedExactly' /\ snap' \in [Session -> SnapshotType]
      /\ \A r \in Session : r # s => snap'[r] = snap[r]
      /\ \/ snap'[s] = snap[s]
         \/ snap'[s] = NoSnapshot
         \/ snap[s] = NoSnapshot /\ snap'[s] = cut
  BY SnapshotStepFacts
<1>2. /\ 1 <= cut.xmin /\ cut.xmin <= cut.xmax /\ cut.xmax <= next_txn_id
      /\ \A x \in cut.xip : cut.xmin <= x
      /\ \A x \in active : cut.xmin <= x /\ (x \in cut.xip \/ x = txn_id[s])
      /\ \A r \in Session : InUse(r) => snap[r].xmin <= cut.xmin
      /\ \A r \in Session : pc[r] = "settled" =>
           \A x \in live_txns(r) : x < cut.xmax /\ x \notin cut.xip
      /\ \A sl \in Slot : heap[sl].xmax < cut.xmax
      /\ writers = {} => \A sl \in Slot : heap[sl].xmax \notin cut.xip
  BY CutNow
<1> HIDE DEF cut
<1>3. pc \in [Session -> Pcs] /\ horizon \in [Session -> 0..MaxId] /\ MaxId \in Nat
      /\ snap \in [Session -> SnapshotType]
  <2>1. MaxId \in Nat
    BY MvccAssumption DEF MaxId
  <2> QED  BY <2>1 DEF IInv, TypeOK
<1>4. \A r \in Session : live_txns(r)' = live_txns(r)
  BY DEF StatementFrame, live_txns
<1>5. \A r \in Session : pc'[r] = IF r = s THEN q ELSE pc[r]
  BY <1>3 DEF StatementFrame
<1>6. UNCHANGED <<scale, next_txn_id, active, subtrans, clog, txn_id, live_subxids, levels, vac>>
  BY DEF StatementFrame
<1>7. (pc[s] \in {"idle", "read"} /\ q \in {"idle", "read"}) \/ (pc[s] \in Live /\ q \in Live)
  BY DEF StatementFrame
<1>8. "idle" \notin Live /\ "read" \notin Live /\ Live \subseteq Undecided
      /\ Live \cap {"flushed", "abort_subxids", "abort_top", "settled", "undo", "undone"} = {}
  BY DEF Live, Undecided, Statement
<1>9. \A r \in Session : InUse(r)' <=> snap'[r] # NoSnapshot
  BY DEF InUse
<1>10. ASSUME NEW r \in Session PROVE SnapshotOf(r)'
  <2>1. SnapshotOf(r)
    BY DEF IInv
  <2>2. CASE r # s
    BY <2>1, <2>2, <1>1, <1>5, <1>6 DEF SnapshotOf, InUse
  <2>3. CASE r = s /\ snap'[s] = snap[s]
    BY <2>1, <2>3, <1>5, <1>6 DEF SnapshotOf, InUse, Statement
  <2>4. CASE r = s /\ snap'[s] = NoSnapshot
    BY <2>4, <1>5 DEF SnapshotOf, InUse, Statement
  <2>5. CASE r = s /\ snap'[s] = cut
    <3>1. (InUse(r) =>
       /\ 1 <= snap[r].xmin /\ snap[r].xmin <= snap[r].xmax /\ snap[r].xmax <= next_txn_id
       /\ \A x \in snap[r].xip : snap[r].xmin <= x
       /\ \A x \in active : /\ snap[r].xmin <= x
                            /\ x < snap[r].xmax => x \in snap[r].xip \/ x = txn_id[r])'
      BY <2>5, <1>2, <1>6
    <3>2. (pc[r] = "idle" => ~ InUse(r))' /\ (pc[r] \in {"read"} \cup Statement => InUse(r))'
      BY <2>5, <1>5 DEF InUse, Statement
    <3> QED  BY <3>1, <3>2 DEF SnapshotOf
  <2> QED  BY <2>2, <2>3, <2>4, <2>5, <1>1
<1>11. ASSUME NEW r \in Session PROVE ClogOf(r)'
  <2>1. ClogOf(r)
    BY DEF IInv
  <2>2. CASE pc'[r] = "settled"
    <3>1. r # s /\ pc[r] = "settled"
      BY <2>2, <1>5, <1>7, <1>8
    <3>2. CASE \A x \in live_txns(r) : clog[x] # "Committed"
      BY <3>2, <2>2, <1>4, <1>6 DEF ClogOf, Undecided, Statement
    <3>3. CASE /\ \A x \in live_txns(r) : clog[x] = "Committed"
               /\ \A p \in Session : p # r /\ InUse(p) => Apart(p, r) \/ Beyond(p, r)
      <4>1. ASSUME NEW p \in Session, p # r, InUse(p)' PROVE (Apart(p, r) \/ Beyond(p, r))'
        <5>1. CASE snap'[p] = snap[p]
          <6>1. Apart(p, r) \/ Beyond(p, r)
            BY <5>1, <4>1, <3>3 DEF InUse
          <6> QED  BY <6>1, <5>1, <1>4 DEF Apart, Beyond
        <5>2. CASE p = s /\ snap'[s] = cut
          <6>1. Beyond(p, r)'
            BY <5>2, <3>1, <1>2, <1>4 DEF Beyond
          <6> QED  BY <6>1
        <5> QED  BY <5>1, <5>2, <4>1, <1>1, <1>9
      <4> QED  BY <4>1, <3>3, <2>2, <1>4, <1>6 DEF ClogOf, Undecided, Statement
    <3> QED  BY <2>1, <3>1, <3>2, <3>3 DEF ClogOf
  <2>3. CASE pc'[r] # "settled"
    <3>1. CASE r # s
      BY <3>1, <2>1, <2>3, <1>4, <1>5, <1>6 DEF ClogOf
    <3>2. CASE r = s /\ q \in Live
      <4>1. \A x \in live_txns(r) : clog[x] = "InProgress"
        BY <3>2, <2>1, <1>7, <1>8 DEF ClogOf
      <4> QED  BY <3>2, <4>1, <1>4, <1>5, <1>6, <1>8 DEF ClogOf
    <3>3. CASE r = s /\ q \in {"idle", "read"}
      BY <3>3, <1>5 DEF ClogOf, Undecided, Statement
    <3> QED  BY <3>1, <3>2, <3>3, <1>7
  <2> QED  BY <2>2, <2>3
<1>12. Stamps'
  <2>1. \A sl \in Slot : heap'[sl].xmin < next_txn_id' /\ heap'[sl].xmax < next_txn_id'
    BY <1>6 DEF IInv, Stamps
  <2>2. ASSUME NEW sl \in Slot, heap'[sl].xmax \in active'
        PROVE  \E r \in writers' : \/ heap'[sl].xmax \in live_txns(r)'
                                   \/ pc'[r] = "undo" /\ subtrans'[heap'[sl].xmax] = txn_id'[r]
    <3>1. PICK r \in writers : \/ heap[sl].xmax \in live_txns(r)
                               \/ pc[r] = "undo" /\ subtrans[heap[sl].xmax] = txn_id[r]
      BY <2>2, <1>6 DEF IInv, Stamps
    <3>2. r \in writers' /\ r \in Session
      <4>1. writers \subseteq Session
        BY DEF IInv, TypeOK
      <4> QED  BY <4>1
    <3>3. pc[r] = "undo" => pc'[r] = "undo"
      BY <3>2, <1>5, <1>7, <1>8
    <3> QED  BY <3>1, <3>2, <3>3, <1>4, <1>6
  <2> QED  BY <2>1, <2>2 DEF Stamps
<1>13. ASSUME NEW r \in Session PROVE WriterOf(r)'
  <2>1. WriterOf(r)
    BY DEF IInv
  <2>2. (pc[r] \in {"scan", "rows", "locked", "index"} => r \in writers)'
    BY <2>1, <1>5 DEF WriterOf
  <2>3. (r \in writers => pc[r] \notin {"idle", "read"})'
    BY <2>1, <1>5, <1>7, <1>8 DEF WriterOf
  <2>4. (\A i \in 1..Len(levels[r]) : ~ levels[r][i].writer =>
          \A sl \in Slot : heap[sl].xmax \in live_txns(r) => heap[sl].xmax >= Level(r, i))'
    BY <2>1, <1>4, <1>6 DEF WriterOf, Level
  <2> QED  BY <2>2, <2>3, <2>4 DEF WriterOf
<1>14. ASSUME NEW r \in Session PROVE HorizonOf(r)'
  <2>1. HorizonOf(r)
    BY DEF IInv
  <2>2. horizon'[r] = IF r = s THEN z ELSE horizon[r]
    BY <1>3
  <2>3. (pc[r] \notin {"rows", "locked", "index"} => horizon[r] = 0)'
    BY <2>1, <2>2, <1>5 DEF HorizonOf
  <2>4. ASSUME NEW p \in Session, horizon'[r] # 0, InUse(p)' PROVE horizon'[r] <= snap'[p].xmin
    <3>1. CASE r = s
      <4>1. UNCHANGED snap /\ z \in {horizon[s], gc_horizon} /\ InUse(p) /\ z # 0
        BY <3>1, <2>2, <2>4, <1>9 DEF InUse
      <4>2. horizon[s] # 0 => horizon[s] <= snap[p].xmin
        BY <3>1, <2>1, <4>1 DEF HorizonOf
      <4>3. gc_horizon <= snap[p].xmin
        BY <4>1, HorizonFacts
      <4> QED  BY <4>1, <4>2, <4>3, <3>1, <2>2
    <3>2. CASE r # s /\ snap'[p] = snap[p]
      BY <3>2, <2>1, <2>2, <2>4 DEF HorizonOf, InUse
    <3>3. CASE r # s /\ p = s /\ snap'[s] = cut
      <4>1. horizon[r] # 0 /\ horizon'[r] = horizon[r]
        BY <3>3, <2>2, <2>4
      <4>2. pc[r] \in {"rows", "locked", "index"}
        BY <4>1, <2>1 DEF HorizonOf
      <4>3. InUse(r)
        BY <4>2 DEF IInv, SnapshotOf, Statement
      <4>4. horizon[r] <= snap[r].xmin
        BY <4>1, <4>3, <2>1 DEF HorizonOf
      <4>5. snap[r].xmin <= cut.xmin
        BY <4>3, <1>2
      <4>6. horizon[r] \in Nat /\ snap[r].xmin \in Nat /\ snap'[p].xmin \in Nat
        BY <1>1, <1>3 DEF SnapshotType
      <4> QED  BY <3>3, <4>1, <4>4, <4>5, <4>6
    <3> QED  BY <3>1, <3>2, <3>3, <2>4, <1>1, <1>9
  <2> QED  BY <2>3, <2>4 DEF HorizonOf
<1>15. VacuumHorizons'
  <2>1. ShareLocked' = ShareLocked
    BY <1>6 DEF ShareLocked
  <2>2. (ShareLocked => writers = {})'
    BY <2>1 DEF IInv, VacuumHorizons
  <2>3. ASSUME vac.pc \in {"horizon", "settled"}, NEW r \in Session, InUse(r)'
        PROVE  vac.horizon <= snap'[r].xmin \/ Untouched(r)'
    <3>1. writers = {}
      BY <2>3 DEF IInv, VacuumHorizons, ShareLocked
    <3>2. CASE snap'[r] = snap[r]
      <4>1. vac.horizon <= snap[r].xmin \/ Untouched(r)
        BY <2>3, <3>2 DEF IInv, VacuumHorizons, InUse
      <4> QED  BY <4>1, <3>2 DEF Untouched
    <3>3. CASE r = s /\ snap'[s] = cut
      BY <3>1, <3>3, <1>2 DEF Untouched
    <3> QED  BY <3>2, <3>3, <2>3, <1>1, <1>9
  <2> QED  BY <2>2, <2>3, <1>6 DEF VacuumHorizons
<1> QED  BY <1>1, <1>10, <1>11, <1>12, <1>13, <1>14, <1>15, FrameKeeps DEF IInv

LEMMA StatementTypes ==
  ASSUME IInv, NEW s \in Session, NEW q, StatementFrame(s, q), SnapshotStep(s),
         UNCHANGED <<heap, iso>>,
         wrote' \in [Session -> BOOLEAN], writers' \subseteq Session,
         rowlock' \in [Key -> SUBSET Session], horizon' \in [Session -> 0..MaxId],
         todo' \in [Session -> SUBSET TargetType], target' \in [Session -> TargetType]
  PROVE  TypeOK'
<1>1. xmins' \in [1..MaxId -> Nat] /\ snap' \in [Session -> SnapshotType]
  BY SnapshotStepFacts
<1>2. pc' \in [Session -> Pcs]
  <2>1. pc \in [Session -> Pcs] /\ q \in Pcs
    BY DEF IInv, TypeOK, StatementFrame, Live, Pcs, Statement
  <2> QED  BY <2>1 DEF StatementFrame
<1> QED  BY <1>1, <1>2 DEF IInv, TypeOK, StatementFrame

\* The shapes of what a statement keeps.
LEMMA StatementShapes ==
  ASSUME IInv, NEW s \in Session
  PROVE  /\ pc \in [Session -> Pcs] /\ wrote \in [Session -> BOOLEAN] /\ writers \subseteq Session
         /\ rowlock \in [Key -> SUBSET Session] /\ horizon \in [Session -> 0..MaxId]
         /\ todo \in [Session -> SUBSET TargetType] /\ target \in [Session -> TargetType]
         /\ snap \in [Session -> SnapshotType] /\ heap \in [Slot -> VersionType]
         /\ MaxId \in Nat /\ 0 \in 0..MaxId /\ NoTarget \in TargetType
<1>1. MaxId \in Nat /\ 0 \in 0..MaxId
  BY MvccAssumption DEF MaxId
<1>2. NoTarget \in TargetType
  BY MvccAssumption DEF NoTarget, TargetType, NoSlot, NoXid
<1> QED  BY <1>1, <1>2 DEF IInv, TypeOK

LEMMA StartReadKeeps ==
  ASSUME IInv, NEW s \in Session, StartRead(s), UNCHANGED scale
  PROVE  IInv'
<1>1. FamilyOf(s) /\ SnapshotOf(s) /\ HorizonOf(s) /\ pc[s] = "idle"
  BY DEF IInv, StartRead
<1>2. txn_id[s] = NoXid /\ snap[s] = NoSnapshot /\ horizon[s] = 0
  BY <1>1 DEF FamilyOf, SnapshotOf, InUse, HorizonOf
<1>3. PICK q : q = "read"
  OBVIOUS
<1>4. StatementFrame(s, q) /\ q = "read"
  BY <1>1, <1>3 DEF StartRead, StatementFrame, txn
<1>5. SnapshotStep(s) /\ UNCHANGED <<heap, iso, wrote, writers, rowlock, horizon, todo, target>>
  BY <1>2 DEF StartRead, SnapshotStep, locks, txn
<1>6. TypeOK'
  BY <1>4, <1>5, StatementShapes, StatementTypes
<1>7. PICK z : z = 0
  OBVIOUS
<1>8. horizon' = [horizon EXCEPT ![s] = z]
  BY <1>2, <1>5, <1>7, StatementShapes
<1>9. Targets'
  <2>1. pc \in [Session -> Pcs]
    BY StatementShapes
  <2> QED  BY <2>1, <1>4, <1>5 DEF IInv, Targets, StatementFrame
<1>10. snap'[s] # NoSnapshot
  <2>1. snap' = [snap EXCEPT ![s] = capture(NoXid)] /\ snap \in [Session -> SnapshotType]
    BY StatementShapes DEF StartRead, Capture
  <2>2. PICK own : own = NoXid
    OBVIOUS
  <2>3. capture(own) # NoSnapshot
    BY CaptureFacts
  <2> QED  BY <2>1, <2>2, <2>3
<1>11. q \notin {"scan", "rows", "locked", "index", "idle"}
  BY <1>4
<1> QED  BY <1>1, <1>4, <1>5, <1>6, <1>7, <1>8, <1>9, <1>10, <1>11, StatementKeeps

LEMMA EndReadKeeps ==
  ASSUME IInv, NEW s \in Session, EndRead(s), UNCHANGED scale
  PROVE  IInv'
<1>1. HorizonOf(s) /\ pc[s] = "read"
  BY DEF IInv, EndRead
<1>2. horizon[s] = 0
  BY <1>1 DEF HorizonOf
<1>3. PICK q : q = "idle"
  OBVIOUS
<1>4. StatementFrame(s, q) /\ q = "idle"
  BY <1>1, <1>3 DEF EndRead, StatementFrame, txn
<1>5. SnapshotStep(s) /\ UNCHANGED <<heap, iso, wrote, writers, rowlock, horizon, todo, target>>
  BY DEF EndRead, SnapshotStep, locks, txn
<1>6. TypeOK'
  BY <1>4, <1>5, StatementShapes, StatementTypes
<1>7. PICK z : z = 0
  OBVIOUS
<1>8. horizon' = [horizon EXCEPT ![s] = z]
  BY <1>2, <1>5, <1>7, StatementShapes
<1>9. Targets'
  <2>1. pc \in [Session -> Pcs]
    BY StatementShapes
  <2> QED  BY <2>1, <1>4, <1>5 DEF IInv, Targets, StatementFrame
<1>10. snap'[s] = NoSnapshot
  BY StatementShapes DEF EndRead, ReleaseSnapshot
<1>11. q \notin {"scan", "rows", "locked", "index", "read"} \cup Statement
  BY <1>4 DEF Statement
<1> QED  BY <1>4, <1>5, <1>6, <1>7, <1>8, <1>9, <1>10, <1>11, StatementKeeps

LEMMA StartStatementKeeps ==
  ASSUME IInv, NEW s \in Session, NEW write \in BOOLEAN, StartStatement(s, write), UNCHANGED scale
  PROVE  IInv'
<1>1. HorizonOf(s) /\ pc[s] = "open"
  BY DEF IInv, StartStatement
<1>2. horizon[s] = 0
  BY <1>1 DEF HorizonOf
<1>3. PICK q : q = IF write THEN "scan" ELSE "select"
  OBVIOUS
<1>4. StatementFrame(s, q) /\ q \in {"scan", "select"} /\ (q = "scan" <=> write)
  BY <1>1, <1>3 DEF StartStatement, StatementFrame, Live, Statement
<1>5. SnapshotStep(s) /\ UNCHANGED <<heap, iso, rowlock, horizon, todo, target>>
  BY DEF StartStatement, SnapshotStep
<1>6. wrote' \in [Session -> BOOLEAN]
  <2>1. wrote \in [Session -> BOOLEAN]
    BY StatementShapes
  <2>2. wrote' = [wrote EXCEPT ![s] = wrote[s] \/ write]
    BY DEF StartStatement
  <2>3. PICK b \in BOOLEAN : b = (wrote[s] \/ write)
    OBVIOUS
  <2> QED  BY <2>1, <2>2, <2>3
<1>7. writers' = IF write THEN writers \cup {s} ELSE writers
  BY DEF StartStatement
<1>8. TypeOK'
  <2>1. writers' \subseteq Session
    BY <1>7, StatementShapes
  <2> QED  BY <2>1, <1>4, <1>5, <1>6, StatementShapes, StatementTypes
<1>9. PICK z : z = 0
  OBVIOUS
<1>10. horizon' = [horizon EXCEPT ![s] = z]
  BY <1>2, <1>5, <1>9, StatementShapes
<1>11. Targets'
  <2>1. pc \in [Session -> Pcs]
    BY StatementShapes
  <2> QED  BY <2>1, <1>4, <1>5 DEF IInv, Targets, StatementFrame
<1>12. snap'[s] # NoSnapshot
  <2>1. CASE snap[s] = NoSnapshot
    <3>1. PICK own : own = txn_id[s]
      OBVIOUS
    <3>2. snap' = [snap EXCEPT ![s] = capture(own)] /\ snap \in [Session -> SnapshotType]
      BY <2>1, <3>1, StatementShapes DEF StartStatement, Capture
    <3>3. capture(own) # NoSnapshot
      BY CaptureFacts
    <3> QED  BY <3>2, <3>3
  <2>2. CASE snap[s] # NoSnapshot
    BY <2>2 DEF StartStatement
  <2> QED  BY <2>1, <2>2
<1>13. writers' = writers \/ (writers' = writers \cup {s} /\ ~ ShareLocked /\ q \in Live)
  <2>1. q \in Live
    BY <1>4 DEF Live, Statement
  <2> QED  BY <2>1, <1>7 DEF StartStatement
<1>14. (q \in {"scan", "rows", "locked", "index"} => s \in writers') /\ q # "idle"
  BY <1>4, <1>7
<1> QED  BY <1>1, <1>4, <1>5, <1>8, <1>9, <1>10, <1>11, <1>12, <1>13, <1>14, StatementKeeps

\* A scan yields identities of tuples.
LEMMA IdentityFacts ==
  ASSUME IInv, NEW sl \in Slot
  PROVE  identity(sl) \in TargetType /\ identity(sl).slot = sl
<1>1. heap[sl] \in VersionType /\ sl \in 0..NumSlots
  BY MvccAssumption DEF IInv, TypeOK, Slot
<1> QED  BY <1>1 DEF identity, TargetType, VersionType

LEMMA ScanKeeps ==
  ASSUME IInv, NEW s \in Session, NEW found \in SUBSET Visible(snap[s], live_txns(s)),
         Scan(s, found), UNCHANGED scale
  PROVE  IInv'
<1>1. WriterOf(s) /\ SnapshotOf(s) /\ pc[s] = "scan"
  BY DEF IInv, Scan
<1>2. s \in writers /\ snap[s] # NoSnapshot
  BY <1>1 DEF WriterOf, SnapshotOf, InUse, Statement
<1>3. PICK q : q = "rows"
  OBVIOUS
<1>4. StatementFrame(s, q) /\ q = "rows"
  BY <1>1, <1>3 DEF Scan, StatementFrame, registry, txn, Live, Statement
<1>5. SnapshotStep(s) /\ UNCHANGED <<heap, iso, wrote, writers, rowlock, snap, target>>
  BY DEF Scan, SnapshotStep, registry, locks, txn
<1>6. PICK z : z = gc_horizon
  OBVIOUS
<1>7. horizon' = [horizon EXCEPT ![s] = z] /\ z \in 0..MaxId
  BY <1>6, HorizonFacts DEF Scan
<1>8. PICK c : c = {identity(sl) : sl \in found}
  OBVIOUS
<1>9. c \in SUBSET TargetType /\ \A t \in c : t.slot \in Slot
  <2>1. found \subseteq Slot
    BY DEF Visible, Used
  <2> QED  BY <2>1, <1>8, IdentityFacts
<1>10. todo' = [todo EXCEPT ![s] = c]
  BY <1>8 DEF Scan
<1>11. TypeOK'
  <2>1. horizon' \in [Session -> 0..MaxId] /\ todo' \in [Session -> SUBSET TargetType]
    BY <1>7, <1>9, <1>10, StatementShapes
  <2> QED  BY <2>1, <1>4, <1>5, StatementShapes, StatementTypes
<1>12. Targets'
  <2>1. pc \in [Session -> Pcs] /\ todo \in [Session -> SUBSET TargetType]
    BY StatementShapes
  <2>2. ASSUME NEW r \in Session
        PROVE  /\ \A t \in todo'[r] : t.slot \in Slot
               /\ pc'[r] \in {"locked", "index"} => target'[r].slot \in Slot
    BY <2>1, <1>4, <1>5, <1>9, <1>10 DEF IInv, Targets, StatementFrame
  <2> QED  BY <2>2 DEF Targets
<1>13. q \in {"rows", "locked"} /\ z \in {horizon[s], gc_horizon} /\ q # "idle"
  BY <1>4, <1>6
<1> QED  BY <1>2, <1>4, <1>5, <1>7, <1>11, <1>12, <1>13, StatementKeeps

\* The end of a statement, whatever the reason.
LEMMA CloseKeeps ==
  ASSUME IInv, NEW s \in Session, NEW q, q \in {"open", "failed"}, CloseStatement(s, q),
         pc[s] \in Statement,
         UNCHANGED <<scale, next_txn_id, active, subtrans, clog, heap, writers, txn, vac>>,
         rowlock' \in [Key -> SUBSET Session]
  PROVE  IInv'
<1>1. StatementFrame(s, q)
  BY DEF CloseStatement, StatementFrame, txn, Live
<1>2. SnapshotStep(s) /\ UNCHANGED <<heap, iso, wrote, writers>>
  BY DEF CloseStatement, SnapshotStep, txn
<1>3. PICK z : z = 0
  OBVIOUS
<1>4. /\ horizon' = [horizon EXCEPT ![s] = z] /\ todo' = [todo EXCEPT ![s] = {}]
      /\ target' = [target EXCEPT ![s] = NoTarget]
  BY <1>3 DEF CloseStatement
<1>5. TypeOK'
  <2>1. /\ horizon' \in [Session -> 0..MaxId] /\ todo' \in [Session -> SUBSET TargetType]
        /\ target' \in [Session -> TargetType]
    BY <1>3, <1>4, StatementShapes
  <2> QED  BY <2>1, <1>1, <1>2, StatementShapes, StatementTypes
<1>6. Targets'
  <2>1. pc \in [Session -> Pcs] /\ todo \in [Session -> SUBSET TargetType]
        /\ target \in [Session -> TargetType]
    BY StatementShapes
  <2>2. ASSUME NEW r \in Session
        PROVE  /\ \A t \in todo'[r] : t.slot \in Slot
               /\ pc'[r] \in {"locked", "index"} => target'[r].slot \in Slot
    BY <2>1, <1>1, <1>4 DEF IInv, Targets, StatementFrame
  <2> QED  BY <2>2 DEF Targets
<1>7. snap[s] # NoSnapshot
  BY DEF IInv, SnapshotOf, InUse
<1>8. q \notin {"scan", "rows", "locked", "index", "read", "idle"} \cup Statement
  BY DEF Statement
<1> QED  BY <1>1, <1>2, <1>3, <1>4, <1>5, <1>6, <1>7, <1>8, StatementKeeps

LEMMA EndStatementKeeps ==
  ASSUME IInv, NEW s \in Session, EndStatement(s), UNCHANGED scale
  PROVE  IInv'
<1>1. PICK q : q = "open"
  OBVIOUS
<1>2. q \in {"open", "failed"} /\ CloseStatement(s, q) /\ pc[s] \in Statement
  BY <1>1 DEF EndStatement, Statement
<1>3. UNCHANGED <<scale, next_txn_id, active, subtrans, clog, heap, writers, txn, vac>> /\ rowlock' = rowlock
  BY DEF EndStatement, locks
<1> QED  BY <1>2, <1>3, StatementShapes, CloseKeeps

LEMMA FailStatementKeeps ==
  ASSUME IInv, NEW s \in Session, FailStatement(s), UNCHANGED scale
  PROVE  IInv'
<1>1. PICK q : q = "failed"
  OBVIOUS
<1>2. q \in {"open", "failed"} /\ CloseStatement(s, q) /\ pc[s] \in Statement
  BY <1>1 DEF FailStatement
<1>3. UNCHANGED <<scale, next_txn_id, active, subtrans, clog, heap, writers, txn, vac>> /\ rowlock' = rowlock
  BY DEF FailStatement, locks
<1> QED  BY <1>2, <1>3, StatementShapes, CloseKeeps

LEMMA LockRowConflictKeeps ==
  ASSUME IInv, NEW s \in Session, NEW t \in todo[s], LockRowConflict(s, t), UNCHANGED scale
  PROVE  IInv'
<1>1. PICK q : q = "failed"
  OBVIOUS
<1>2. q \in {"open", "failed"} /\ CloseStatement(s, q) /\ pc[s] \in Statement
  BY <1>1 DEF LockRowConflict, Statement
<1>3. rowlock' \in {rowlock, [rowlock EXCEPT ![t.key] = @ \cup {s}]}
      /\ UNCHANGED <<scale, next_txn_id, active, subtrans, clog, heap, writers, txn, vac>>
  BY DEF LockRowConflict
<1>4. rowlock' \in [Key -> SUBSET Session]
  BY <1>3, StatementShapes
<1> QED  BY <1>2, <1>3, <1>4, CloseKeeps

\* A resolved row is a tuple of the heap.
LEMMA ResolveFacts ==
  ASSUME IInv, NEW t, NEW live, resolve_latest_row_version(t, live).kind = "Live"
  PROVE  /\ resolve_latest_row_version(t, live).row \in TargetType
         /\ resolve_latest_row_version(t, live).row.slot \in Slot
<1> DEFINE sl == chain_end(t.slot, live)
<1>1. sl \in Used /\ resolve_latest_row_version(t, live).row = identity(sl)
  <2> HIDE DEF sl
  <2>1. resolve_latest_row_version(t, live) =
          IF identity(redirected(t.slot)) # [t EXCEPT !.slot = redirected(t.slot)]
               \/ sl \notin Used \/ deleter(heap[sl], live) = "Committed"
          THEN [kind |-> "Deleted"]
          ELSE IF deleter(heap[sl], live) = "InProgress" THEN [kind |-> "WouldBlock"]
          ELSE [kind |-> "Live", row |-> identity(sl)]
    BY DEF resolve_latest_row_version, sl
  <2>2. [kind |-> "Deleted"].kind = "Deleted" /\ [kind |-> "WouldBlock"].kind = "WouldBlock"
    OBVIOUS
  <2>3. CASE \/ identity(redirected(t.slot)) # [t EXCEPT !.slot = redirected(t.slot)]
             \/ sl \notin Used \/ deleter(heap[sl], live) = "Committed"
    <3>1. resolve_latest_row_version(t, live) = [kind |-> "Deleted"]
      BY <2>1, <2>3, Zenon
    <3> QED  BY <3>1, <2>2
  <2>4. CASE ~ (\/ identity(redirected(t.slot)) # [t EXCEPT !.slot = redirected(t.slot)]
                \/ sl \notin Used \/ deleter(heap[sl], live) = "Committed")
    <3>1. sl \in Used
      BY <2>4, Zenon
    <3>2. CASE deleter(heap[sl], live) = "InProgress"
      <4>1. resolve_latest_row_version(t, live) = [kind |-> "WouldBlock"]
        BY <2>1, <2>4, <3>2, Zenon
      <4> QED  BY <4>1, <2>2
    <3>3. CASE deleter(heap[sl], live) # "InProgress"
      <4>1. resolve_latest_row_version(t, live) = [kind |-> "Live", row |-> identity(sl)]
        BY <2>1, <2>4, <3>3, Zenon
      <4> QED  BY <4>1, <3>1
    <3> QED  BY <3>2, <3>3
  <2> QED  BY <2>3, <2>4
<1> HIDE DEF sl
<1>2. sl \in Slot
  BY <1>1 DEF Used
<1> QED  BY <1>1, <1>2, IdentityFacts

LEMMA LockRowKeeps ==
  ASSUME IInv, NEW s \in Session, NEW t \in todo[s], LockRow(s, t), UNCHANGED scale
  PROVE  IInv'
<1> DEFINE latest == resolve_latest_row_version(t, live_txns(s))
<1>1. WriterOf(s) /\ SnapshotOf(s) /\ pc[s] = "rows"
  BY DEF IInv, LockRow
<1>2. s \in writers /\ snap[s] # NoSnapshot
  BY <1>1 DEF WriterOf, SnapshotOf, InUse, Statement
<1>3. UNCHANGED <<registry, clog, heap, writers, txn, snap, horizon, vac>>
      /\ todo' = [todo EXCEPT ![s] = @ \ {t}]
      /\ rowlock' \in {rowlock, [rowlock EXCEPT ![t.key] = @ \cup {s}]}
  BY DEF LockRow
<1>4. \/ /\ latest.kind = "Live" /\ target' = [target EXCEPT ![s] = latest.row]
         /\ pc' = [pc EXCEPT ![s] = "locked"]
      \/ UNCHANGED <<target, pc>>
  BY DEF LockRow
<1> HIDE DEF latest
<1>5. latest.kind = "Live" => latest.row \in TargetType /\ latest.row.slot \in Slot
  <2>1. PICK live : live = live_txns(s)
    OBVIOUS
  <2> QED  BY <2>1, ResolveFacts DEF latest
<1>6. PICK q : q = pc'[s]
  OBVIOUS
<1>7. q \in {"rows", "locked"} /\ pc' = [pc EXCEPT ![s] = q] /\ pc \in [Session -> Pcs]
  <2>1. pc \in [Session -> Pcs]
    BY StatementShapes
  <2> QED  BY <2>1, <1>1, <1>4, <1>6
<1>8. StatementFrame(s, q)
  BY <1>1, <1>3, <1>7 DEF StatementFrame, registry, txn, Live, Statement
<1>9. SnapshotStep(s) /\ UNCHANGED <<heap, iso, wrote, writers, snap, horizon>>
  BY <1>3 DEF SnapshotStep, registry, txn
<1>10. PICK z : z = horizon[s]
  OBVIOUS
<1>11. horizon' = [horizon EXCEPT ![s] = z]
  BY <1>9, <1>10, StatementShapes
<1>12. target' \in [Session -> TargetType] /\ todo' \in [Session -> SUBSET TargetType]
       /\ rowlock' \in [Key -> SUBSET Session]
  BY <1>3, <1>4, <1>5, StatementShapes
<1>13. TypeOK'
  BY <1>8, <1>9, <1>12, StatementShapes, StatementTypes
<1>14. Targets'
  <2>1. target \in [Session -> TargetType] /\ todo \in [Session -> SUBSET TargetType]
    BY StatementShapes
  <2>2. ASSUME NEW r \in Session
        PROVE  /\ \A c \in todo'[r] : c.slot \in Slot
               /\ pc'[r] \in {"locked", "index"} => target'[r].slot \in Slot
    <3>1. /\ \A c \in todo[r] : c.slot \in Slot
          /\ pc[r] \in {"locked", "index"} => target[r].slot \in Slot
      BY DEF IInv, Targets
    <3>2. todo'[r] \subseteq todo[r]
      BY <2>1, <1>3
    <3>3. pc'[r] \in {"locked", "index"} => target'[r].slot \in Slot
      BY <2>1, <3>1, <1>1, <1>4, <1>5, <1>7
    <3> QED  BY <3>1, <3>2, <3>3
  <2> QED  BY <2>2 DEF Targets
<1>15. q \in {"rows", "locked"} /\ z \in {horizon[s], gc_horizon} /\ q # "idle"
  BY <1>7, <1>10
<1> QED  BY <1>2, <1>8, <1>9, <1>11, <1>13, <1>14, <1>15, StatementKeeps

-----------------------------------------------------------------------------
(* Transaction control.                                                    *)

\* A step of the registry: an id is added at the end, or some ids leave.
RegistryStep ==
  /\ next_txn_id' \in {next_txn_id, next_txn_id + 1}
  /\ \A x \in active' : x \in active \/ (x = next_txn_id /\ next_txn_id' = next_txn_id + 1)
  /\ \A x \in Xid : x < next_txn_id =>
       /\ subtrans'[x] \in {subtrans[x], NoXid}
       /\ x \in active' => subtrans'[x] = subtrans[x]
  /\ \A x \in Xid : x >= next_txn_id' => subtrans'[x] = NoXid

RegistryTypes ==
  /\ next_txn_id \in 1..MaxId /\ active \subseteq Xid /\ subtrans \in [Xid -> 0..MaxXid]

LEMMA NumberFacts ==
  ASSUME IInv
  PROVE  /\ MaxXid \in Nat /\ MaxId = MaxXid + 1 /\ next_txn_id \in Nat /\ next_txn_id >= 1
         /\ next_txn_id \in 1..MaxId /\ active \subseteq Xid /\ Xid \subseteq Nat
         /\ \A x \in active : x < next_txn_id
         /\ \A s \in Session : \A x \in live_txns(s) : x < next_txn_id /\ x \in Xid /\ x # NoXid
         /\ subtrans \in [Xid -> 0..MaxXid] /\ pc \in [Session -> Pcs]
         /\ \A x \in Xid : x \in Nat /\ x # NoXid
         /\ \A x \in Xid : x >= next_txn_id => subtrans[x] = NoXid
<1>1. MaxXid \in Nat /\ MaxId = MaxXid + 1 /\ next_txn_id \in 1..MaxId /\ active \subseteq Xid
  BY MvccAssumption DEF IInv, TypeOK, MaxId
<1>2. \A x \in active : x < next_txn_id
  BY DEF IInv, Fresh
<1>3. ASSUME NEW s \in Session, NEW x \in live_txns(s) PROVE x < next_txn_id /\ x \in Xid /\ x # NoXid
  <2>1. FamilyOf(s) /\ txn_id[s] \in 0..MaxXid /\ live_subxids[s] \subseteq Xid
    BY DEF IInv, TypeOK
  <2>2. x # NoXid /\ (x = txn_id[s] \/ x \in live_subxids[s])
    BY <1>3 DEF live_txns
  <2> QED  BY <1>1, <2>1, <2>2 DEF FamilyOf, Xid, NoXid
<1>4. subtrans \in [Xid -> 0..MaxXid] /\ pc \in [Session -> Pcs]
  BY DEF IInv, TypeOK
<1>5. \A x \in Xid : x >= next_txn_id => subtrans[x] = NoXid
  BY DEF IInv, Fresh
<1>6. Xid \subseteq Nat /\ \A x \in Xid : x # NoXid
  BY <1>1 DEF Xid, NoXid
<1> QED  BY <1>1, <1>2, <1>3, <1>4, <1>5, <1>6

LEMMA RegisterStep ==
  ASSUME IInv, next_txn_id <= MaxXid, register_allocated,
         NEW t \in 0..MaxXid, subtrans' \in {subtrans, [subtrans EXCEPT ![next_txn_id] = t]}
  PROVE  RegistryStep /\ RegistryTypes' /\ next_txn_id \in Xid
<1>1. active' = active \cup {next_txn_id} /\ next_txn_id' = next_txn_id + 1
  BY DEF register_allocated
<1>2. next_txn_id \in Xid /\ next_txn_id' \in 1..MaxId
  BY <1>1, NumberFacts DEF Xid
<1>3. subtrans' \in [Xid -> 0..MaxXid] /\ \A x \in Xid : x # next_txn_id => subtrans'[x] = subtrans[x]
  BY <1>2, NumberFacts
<1>4. RegistryTypes'
  BY <1>1, <1>2, <1>3, NumberFacts DEF RegistryTypes, Xid, MaxId
<1>5. ASSUME NEW x \in Xid, x < next_txn_id
      PROVE  subtrans'[x] \in {subtrans[x], NoXid} /\ (x \in active' => subtrans'[x] = subtrans[x])
  BY <1>3, <1>5, NumberFacts
<1>6. ASSUME NEW x \in Xid, x >= next_txn_id' PROVE subtrans'[x] = NoXid
  <2>1. x >= next_txn_id /\ x # next_txn_id
    BY <1>1, <1>6, NumberFacts
  <2> QED  BY <2>1, <1>3, NumberFacts
<1>7. \A x \in active' : x \in active \/ (x = next_txn_id /\ next_txn_id' = next_txn_id + 1)
  BY <1>1
<1> QED  BY <1>1, <1>2, <1>4, <1>5, <1>6, <1>7 DEF RegistryStep

LEMMA DeregisterStep ==
  ASSUME IInv, NEW xs, deregister_all(xs), UNCHANGED next_txn_id
  PROVE  /\ RegistryStep /\ RegistryTypes' /\ active' = active \ xs
         /\ \A x \in Xid : subtrans'[x] = IF x \in xs THEN NoXid ELSE subtrans[x]
<1>1. active' = active \ xs /\ subtrans' = [x \in Xid |-> IF x \in xs THEN NoXid ELSE subtrans[x]]
  BY DEF deregister_all
<1>2. NoXid \in 0..MaxXid
  BY NumberFacts DEF NoXid
<1>3. RegistryTypes'
  BY <1>1, <1>2, NumberFacts DEF RegistryTypes, Xid, MaxId
<1>4. \A x \in Xid : x < next_txn_id =>
       /\ subtrans'[x] \in {subtrans[x], NoXid}
       /\ x \in active' => subtrans'[x] = subtrans[x]
  BY <1>1
<1>5. \A x \in Xid : x >= next_txn_id' => subtrans'[x] = NoXid
  BY <1>1, NumberFacts
<1> QED  BY <1>1, <1>3, <1>4, <1>5 DEF RegistryStep

LEMMA SameRegistry ==
  ASSUME IInv, UNCHANGED <<next_txn_id, active, subtrans>>
  PROVE  RegistryStep /\ RegistryTypes'
<1>1. RegistryTypes'
  BY NumberFacts DEF RegistryTypes, Xid, MaxId
<1> QED  BY <1>1, NumberFacts DEF RegistryStep

\* A step of transaction control by s: the ids of the others, and what the
\* heap says, stay as they are.
ControlFrame(s, q) ==
  /\ UNCHANGED <<scale, heap, horizon, todo, target, vac>>
  /\ pc' = [pc EXCEPT ![s] = q]
  /\ pc[s] \notin {"read"} \cup Statement
  /\ q \in Pcs \ ({"read"} \cup Statement)
  /\ \A r \in Session : r # s =>
       /\ txn_id'[r] = txn_id[r] /\ live_subxids'[r] = live_subxids[r] /\ levels'[r] = levels[r]
       /\ r \in writers' <=> r \in writers
  /\ writers' \subseteq writers
  /\ RegistryStep
  /\ \A x \in Xid : clog'[x] # clog[x] => x \in live_txns(s)
  /\ \A x \in active \ active' : x \in live_txns(s) \/ (subtrans[x] = txn_id[s] /\ txn_id[s] # NoXid)
  /\ \A x \in live_txns(s)' : x \in live_txns(s)
                                \/ (x = next_txn_id /\ next_txn_id' = next_txn_id + 1)
  /\ \/ UNCHANGED <<snap, xmins>> /\ q # "idle" /\ (InUse(s) => txn_id'[s] = txn_id[s])
     \/ ReleaseSnapshot(s) /\ q = "idle"

\* The versions s has deleted are still its own after the step.
OwnStamps(s) ==
  \A sl \in Slot :
    /\ heap[sl].xmax \in active'
    /\ s \in writers
    /\ \/ heap[sl].xmax \in live_txns(s)
       \/ pc[s] = "undo" /\ subtrans[heap[sl].xmax] = txn_id[s]
    => /\ s \in writers'
       /\ \/ heap[sl].xmax \in live_txns(s)'
          \/ pc'[s] = "undo" /\ subtrans'[heap[sl].xmax] = txn_id'[s]

\* The ids of the others and of VACUUM survive a control step of s.
LEMMA ForeignKept ==
  ASSUME IInv, NEW s \in Session, NEW q, ControlFrame(s, q)
  PROVE  /\ \A r \in Session, x \in Xid : r # s /\ x \in live_txns(r) =>
              /\ x \in active <=> x \in active'
              /\ clog'[x] = clog[x]
              /\ subtrans[x] = NoXid => subtrans'[x] = NoXid
         /\ vac.pc \in {"begun", "locked", "horizon"} => vac.xid \in active' /\ subtrans'[vac.xid] = NoXid
<1>1. RegistryStep
  BY DEF ControlFrame
<1>2. ASSUME NEW r \in Session, NEW x \in Xid, r # s, x \in live_txns(r)
      PROVE  /\ x \in active <=> x \in active'
             /\ clog'[x] = clog[x]
             /\ subtrans[x] = NoXid => subtrans'[x] = NoXid
  <2>1. x < next_txn_id /\ x \notin live_txns(s)
    BY <1>2, NumberFacts DEF IInv, Disjoint
  <2>2. clog'[x] = clog[x] /\ (subtrans[x] = NoXid => subtrans'[x] = NoXid)
    BY <1>1, <2>1 DEF ControlFrame, RegistryStep
  <2>3. x # next_txn_id
    BY <2>1, NumberFacts
  <2>4. x \in active' => x \in active
    BY <1>1, <2>3 DEF RegistryStep
  <2>5. ASSUME x \in active, x \notin active' PROVE FALSE
    <3>1. subtrans[x] = txn_id[s] /\ txn_id[s] # NoXid
      BY <2>1, <2>5 DEF ControlFrame
    <3>2. txn_id[s] \in live_txns(s)
      BY <3>1 DEF live_txns
    <3>3. RegistryOf(r)
      BY DEF IInv
    <3>4. x = txn_id[r] \/ x \in live_subxids[r] \cap active
      BY <1>2, <2>5 DEF live_txns
    <3>5. CASE x = txn_id[r]
      <4>1. subtrans[x] = NoXid
        BY <3>3, <3>5, <1>2, NumberFacts DEF RegistryOf
      <4> QED  BY <4>1, <3>1
    <3>6. CASE x \in live_subxids[r] \cap active
      <4>1. txn_id[r] = txn_id[s]
        BY <3>1, <3>3, <3>6 DEF RegistryOf
      <4>2. txn_id[s] \in live_txns(r)
        BY <4>1, <3>1 DEF live_txns
      <4> QED  BY <4>2, <3>2, <1>2 DEF IInv, Disjoint
    <3> QED  BY <3>4, <3>5, <3>6
  <2> QED  BY <2>2, <2>4, <2>5
<1>3. ASSUME vac.pc \in {"begun", "locked", "horizon"}
      PROVE  vac.xid \in active' /\ subtrans'[vac.xid] = NoXid
  <2>1. vac.xid \in active /\ subtrans[vac.xid] = NoXid /\ vac.xid \notin live_txns(s)
    BY <1>3 DEF IInv, VacuumId
  <2>2. vac.xid \in active'
    BY <2>1 DEF ControlFrame
  <2>3. vac.xid \in Xid /\ vac.xid < next_txn_id
    BY <2>1, NumberFacts
  <2> QED  BY <2>1, <2>2, <2>3, <1>1 DEF RegistryStep
<1> QED  BY <1>2, <1>3

LEMMA ControlOthers ==
  ASSUME IInv, NEW s \in Session, NEW q, ControlFrame(s, q), NEW r \in Session, r # s
  PROVE  FamilyOf(r)' /\ LevelsOf(r)' /\ RegistryOf(r)' /\ ClogOf(r)' /\ WriterOf(r)'
<1>1. /\ pc'[r] = pc[r] /\ txn_id'[r] = txn_id[r] /\ live_subxids'[r] = live_subxids[r]
      /\ levels'[r] = levels[r] /\ (r \in writers' <=> r \in writers)
  BY NumberFacts DEF ControlFrame
<1>2. live_txns(r)' = live_txns(r)
  BY <1>1 DEF live_txns
<1>3. next_txn_id' \in {next_txn_id, next_txn_id + 1} /\ next_txn_id \in Nat
  BY NumberFacts DEF ControlFrame, RegistryStep
<1>4. \A x \in live_txns(r) : /\ x \in active <=> x \in active'
                              /\ clog'[x] = clog[x] /\ x \in Xid /\ x < next_txn_id
                              /\ subtrans[x] = NoXid => subtrans'[x] = NoXid
                              /\ x \in active => subtrans'[x] = subtrans[x]
  <2>1. ASSUME NEW x \in live_txns(r)
        PROVE  /\ x \in active <=> x \in active'
               /\ clog'[x] = clog[x] /\ x \in Xid /\ x < next_txn_id
               /\ subtrans[x] = NoXid => subtrans'[x] = NoXid
               /\ x \in active => subtrans'[x] = subtrans[x]
    <3>1. x \in Xid /\ x < next_txn_id
      BY NumberFacts
    <3>2. /\ x \in active <=> x \in active'
          /\ clog'[x] = clog[x]
          /\ subtrans[x] = NoXid => subtrans'[x] = NoXid
      BY <3>1, ForeignKept
    <3>3. x \in active' => subtrans'[x] = subtrans[x]
      BY <3>1 DEF ControlFrame, RegistryStep
    <3> QED  BY <3>1, <3>2, <3>3
  <2> QED  BY <2>1
<1>5. FamilyOf(r) /\ LevelsOf(r) /\ RegistryOf(r) /\ ClogOf(r) /\ WriterOf(r) /\ levels[r] \in Seq(LevelType)
      /\ live_subxids[r] \subseteq Xid /\ txn_id[r] \in Nat
  BY NumberFacts DEF IInv, TypeOK
<1>6. FamilyOf(r)'
  <2>1. \A x \in live_subxids[r] : x \in Nat
    BY <1>5, NumberFacts
  <2> QED  BY <2>1, <1>1, <1>3, <1>5 DEF FamilyOf
<1>7. LevelsOf(r)'
  <2>1. ASSUME NEW i \in 1..Len(levels[r]) PROVE Level(r, i) < next_txn_id'
    <3>1. Level(r, i) \in Nat /\ Level(r, i) < next_txn_id
      BY <1>5, LevelFacts DEF LevelsOf, IInv
    <3> QED  BY <3>1, <1>3
  <2>2. \A i : Level(r, i)' = Level(r, i)
    BY <1>1 DEF Level
  <2>3. (\A i \in 1..Len(levels[r]) :
       /\ txn_id[r] < Level(r, i) /\ Level(r, i) < next_txn_id
       /\ Level(r, i) \in live_subxids[r] \/ (pc[r] \in {"undo", "undone"} /\ i = Len(levels[r])))'
    BY <2>1, <2>2, <1>1, <1>5 DEF LevelsOf
  <2>4. (\A i, j \in 1..Len(levels[r]) : i < j => Level(r, i) < Level(r, j))'
    BY <2>2, <1>1, <1>5 DEF LevelsOf
  <2>5. (pc[r] \in {"undo", "undone"} =>
       /\ levels[r] # <<>>
       /\ \A x \in live_subxids[r] : x < Level(r, Len(levels[r])))'
    BY <2>2, <1>1, <1>5 DEF LevelsOf
  <2> QED  BY <2>3, <2>4, <2>5 DEF LevelsOf
<1>8. RegistryOf(r)'
  <2>1. live_subxids[r] \subseteq live_txns(r) /\ (txn_id[r] # NoXid => txn_id[r] \in live_txns(r))
    BY <1>5, NumberFacts DEF live_txns
  <2>2. (pc[r] \in Registered => live_txns(r) \subseteq active)'
    BY <1>1, <1>2, <1>4, <1>5 DEF RegistryOf
  <2>3. (pc[r] = "abort_top" => txn_id[r] \in active /\ live_subxids[r] \cap active = {})'
    <3>1. pc[r] = "abort_top" => txn_id[r] # NoXid
      BY <1>5 DEF FamilyOf
    <3> QED  BY <3>1, <2>1, <1>1, <1>4, <1>5 DEF RegistryOf
  <2>4. (pc[r] = "settled" => live_txns(r) \cap active = {})'
    BY <1>1, <1>2, <1>4, <1>5 DEF RegistryOf
  <2>5. (\A x \in live_subxids[r] \cap active : subtrans[x] = txn_id[r])'
    BY <2>1, <1>1, <1>4, <1>5 DEF RegistryOf
  <2>6. (txn_id[r] # NoXid => subtrans[txn_id[r]] = NoXid)'
    BY <2>1, <1>1, <1>4, <1>5 DEF RegistryOf
  <2> QED  BY <2>2, <2>3, <2>4, <2>5, <2>6 DEF RegistryOf
<1>9. ClogOf(r)'
  <2>1. \A p \in Session : InUse(p)' => InUse(p) /\ snap'[p] = snap[p]
    <3>1. snap \in [Session -> SnapshotType]
      BY DEF IInv, TypeOK
    <3> QED  BY <3>1 DEF InUse, ControlFrame, ReleaseSnapshot
  <2>2. \A p \in Session : InUse(p)' => (Apart(p, r)' <=> Apart(p, r)) /\ (Beyond(p, r)' <=> Beyond(p, r))
    BY <2>1, <1>2 DEF Apart, Beyond
  <2>3. CASE pc[r] = "settled"
    <3>1. CASE \A x \in live_txns(r) : clog[x] # "Committed"
      BY <3>1, <2>3, <1>1, <1>2, <1>4 DEF ClogOf, Undecided, Statement
    <3>2. CASE /\ \A x \in live_txns(r) : clog[x] = "Committed"
               /\ \A p \in Session : p # r /\ InUse(p) => Apart(p, r) \/ Beyond(p, r)
      BY <3>2, <2>1, <2>2, <2>3, <1>1, <1>2, <1>4 DEF ClogOf, Undecided, Statement
    <3> QED  BY <3>1, <3>2, <2>3, <1>5 DEF ClogOf
  <2>4. CASE pc[r] # "settled"
    BY <2>4, <1>1, <1>2, <1>4, <1>5 DEF ClogOf
  <2> QED  BY <2>3, <2>4
<1>10. WriterOf(r)'
  <2>1. UNCHANGED heap
    BY DEF ControlFrame
  <2> QED  BY <2>1, <1>1, <1>2, <1>5 DEF WriterOf, Level
<1> QED  BY <1>6, <1>7, <1>8, <1>9, <1>10

LEMMA ControlKeeps ==
  ASSUME IInv, NEW s \in Session, NEW q, ControlFrame(s, q), OwnStamps(s), TypeOK', Room',
         FamilyOf(s)', LevelsOf(s)', RegistryOf(s)', ClogOf(s)', WriterOf(s)'
  PROVE  IInv'
<1>1. RegistryStep /\ UNCHANGED <<scale, heap, horizon, todo, target, vac>>
  BY DEF ControlFrame
<1>2. \A r \in Session : r # s =>
        /\ pc'[r] = pc[r] /\ txn_id'[r] = txn_id[r] /\ live_txns(r)' = live_txns(r)
        /\ (r \in writers' <=> r \in writers)
  BY NumberFacts DEF ControlFrame, live_txns
<1>3. pc'[s] = q /\ pc[s] \notin {"read"} \cup Statement /\ q \notin {"read"} \cup Statement
  BY NumberFacts DEF ControlFrame
<1>4. next_txn_id' \in {next_txn_id, next_txn_id + 1} /\ next_txn_id \in Nat
  BY <1>1, NumberFacts DEF RegistryStep
<1>5. \A r \in Session : FamilyOf(r)' /\ LevelsOf(r)' /\ RegistryOf(r)' /\ ClogOf(r)' /\ WriterOf(r)'
  BY ControlOthers
<1>6. snap \in [Session -> SnapshotType]
  BY DEF IInv, TypeOK
<1>7. \A r \in Session : InUse(r)' => InUse(r) /\ snap'[r] = snap[r]
  BY <1>6 DEF InUse, ControlFrame, ReleaseSnapshot
<1>8. Targets'
  BY <1>1, <1>2, <1>3 DEF IInv, Targets, Statement
<1>9. Disjoint'
  <2>1. ASSUME NEW p \in Session, NEW r \in Session, p # r, NEW x, x \in live_txns(p)', x \in live_txns(r)'
        PROVE  FALSE
    <3>1. CASE p # s /\ r # s
      BY <3>1, <2>1, <1>2 DEF IInv, Disjoint
    <3>2. CASE p = s
      <4>1. x \in live_txns(r) /\ x < next_txn_id
        BY <3>2, <2>1, <1>2, NumberFacts
      <4>2. x # next_txn_id
        BY <4>1, <1>4
      <4>3. x \in live_txns(s)
        BY <3>2, <4>2, <2>1 DEF ControlFrame
      <4> QED  BY <4>1, <4>3, <3>2, <2>1 DEF IInv, Disjoint
    <3>3. CASE r = s
      <4>1. x \in live_txns(p) /\ x < next_txn_id
        BY <3>3, <2>1, <1>2, NumberFacts
      <4>2. x # next_txn_id
        BY <4>1, <1>4
      <4>3. x \in live_txns(s)
        BY <3>3, <4>2, <2>1 DEF ControlFrame
      <4> QED  BY <4>1, <4>3, <3>3, <2>1 DEF IInv, Disjoint
    <3> QED  BY <3>1, <3>2, <3>3
  <2> QED  BY <2>1 DEF Disjoint
<1>10. Fresh'
  <2>1. \A x \in active' : x < next_txn_id'
    BY <1>1, <1>4, NumberFacts DEF RegistryStep
  <2>2. ASSUME NEW x \in Xid, x >= next_txn_id' PROVE clog'[x] = "InProgress" /\ subtrans'[x] = NoXid
    <3>1. x \in Nat /\ x >= next_txn_id
      BY <2>2, <1>4, NumberFacts
    <3>2. x \notin live_txns(s)
      BY <3>1, <1>4, NumberFacts
    <3>3. clog'[x] = clog[x]
      BY <3>2 DEF ControlFrame
    <3> QED  BY <2>2, <3>1, <3>3, <1>1 DEF RegistryStep, IInv, Fresh
  <2> QED  BY <2>1, <2>2 DEF Fresh
<1>11. VacuumId'
  <2>1. vac.xid < next_txn_id /\ vac.xid \in Nat
    BY NumberFacts DEF IInv, VacuumId, TypeOK
  <2>2. ASSUME NEW r \in Session PROVE vac.xid \notin live_txns(r)'
    <3>1. vac.xid \notin live_txns(r) /\ vac.xid # next_txn_id
      BY <2>1, <1>4 DEF IInv, VacuumId
    <3> QED  BY <3>1, <1>2 DEF ControlFrame
  <2> QED  BY <2>1, <2>2, <1>1, <1>4, ForeignKept DEF VacuumId
<1>12. ASSUME NEW r \in Session PROVE SnapshotOf(r)'
  <2>1. SnapshotOf(r)
    BY DEF IInv
  <2>2. (pc[r] = "idle" => ~ InUse(r))'
    <3>1. CASE r # s
      BY <3>1, <2>1, <1>2, <1>7 DEF SnapshotOf
    <3>2. CASE r = s
      BY <3>2, <1>3, <1>6 DEF ControlFrame, ReleaseSnapshot, InUse
    <3> QED  BY <3>1, <3>2
  <2>3. (pc[r] \in {"read"} \cup Statement => InUse(r))'
    <3>1. r # s => snap'[r] = snap[r]
      BY <1>6 DEF ControlFrame, ReleaseSnapshot
    <3> QED  BY <3>1, <2>1, <1>2, <1>3 DEF SnapshotOf, InUse
  <2>4. ASSUME InUse(r)'
        PROVE  /\ 1 <= snap'[r].xmin /\ snap'[r].xmin <= snap'[r].xmax /\ snap'[r].xmax <= next_txn_id'
               /\ \A x \in snap'[r].xip : snap'[r].xmin <= x
               /\ \A x \in active' : /\ snap'[r].xmin <= x
                                     /\ x < snap'[r].xmax => x \in snap'[r].xip \/ x = txn_id'[r]
    <3>1. InUse(r) /\ snap'[r] = snap[r] /\ snap[r] \in SnapshotType
      BY <2>4, <1>6, <1>7
    <3>2. snap[r].xmin \in Nat /\ snap[r].xmax \in Nat
      BY <3>1, NumberFacts DEF SnapshotType
    <3>3. /\ 1 <= snap[r].xmin /\ snap[r].xmin <= snap[r].xmax /\ snap[r].xmax <= next_txn_id
          /\ \A x \in snap[r].xip : snap[r].xmin <= x
          /\ \A x \in active : /\ snap[r].xmin <= x
                               /\ x < snap[r].xmax => x \in snap[r].xip \/ x = txn_id[r]
      BY <2>1, <3>1 DEF SnapshotOf
    <3>4. txn_id'[r] = txn_id[r]
      <4>1. CASE r # s
        BY <4>1, <1>2
      <4>2. CASE r = s
        BY <4>2, <2>4, <3>1, <1>6 DEF ControlFrame, ReleaseSnapshot, InUse
      <4> QED  BY <4>1, <4>2
    <3>5. \A x \in active' : x \in active \/ x = next_txn_id
      BY <1>1 DEF RegistryStep
    <3>6. next_txn_id >= snap[r].xmin /\ ~ (next_txn_id < snap[r].xmax)
      BY <3>2, <3>3, <1>4
    <3> QED  BY <3>1, <3>2, <3>3, <3>4, <3>5, <3>6, <1>4
  <2> QED  BY <2>2, <2>3, <2>4 DEF SnapshotOf
<1>13. AdvertisedExactly'
  <2>1. CASE UNCHANGED <<snap, xmins>>
    BY <2>1 DEF IInv, AdvertisedExactly
  <2>2. CASE ReleaseSnapshot(s)
    BY <2>2, ReleaseCounts
  <2> QED  BY <2>1, <2>2 DEF ControlFrame
<1>14. Stamps'
  <2>1. ASSUME NEW sl \in Slot PROVE heap'[sl].xmin < next_txn_id' /\ heap'[sl].xmax < next_txn_id'
    <3>1. heap[sl].xmin < next_txn_id /\ heap[sl].xmax < next_txn_id /\ heap[sl] \in VersionType
      BY DEF IInv, Stamps, TypeOK
    <3>2. heap[sl].xmin \in Nat /\ heap[sl].xmax \in Nat
      BY <3>1, NumberFacts DEF VersionType
    <3> QED  BY <3>1, <3>2, <1>1, <1>4
  <2>2. ASSUME NEW sl \in Slot, heap'[sl].xmax \in active'
        PROVE  \E r \in writers' : \/ heap'[sl].xmax \in live_txns(r)'
                                   \/ pc'[r] = "undo" /\ subtrans'[heap'[sl].xmax] = txn_id'[r]
    <3> DEFINE x == heap[sl].xmax
    <3>1. x \in active' /\ x < next_txn_id /\ heap'[sl].xmax = x
      BY <2>2, <1>1 DEF IInv, Stamps
    <3> HIDE DEF x
    <3>2. x \in active
      <4>1. x \in active \/ x = next_txn_id
        BY <3>1, <1>1 DEF RegistryStep
      <4> QED  BY <4>1, <3>1, <1>4
    <3>3. subtrans'[x] = subtrans[x]
      BY <3>1, <3>2, <1>1, NumberFacts DEF RegistryStep
    <3>4. PICK r \in writers : x \in live_txns(r) \/ (pc[r] = "undo" /\ subtrans[x] = txn_id[r])
      BY <3>2 DEF IInv, Stamps, x
    <3>5. r \in Session
      BY DEF IInv, TypeOK
    <3>6. CASE r # s
      BY <3>1, <3>3, <3>4, <3>5, <3>6, <1>2
    <3>7. CASE r = s
      <4>1. s \in writers' /\ (x \in live_txns(s)' \/ (pc'[s] = "undo" /\ subtrans'[x] = txn_id'[s]))
        BY <3>1, <3>4, <3>7 DEF OwnStamps, x
      <4> QED  BY <4>1, <3>1
    <3> QED  BY <3>6, <3>7
  <2> QED  BY <2>1, <2>2 DEF Stamps
<1>15. ASSUME NEW r \in Session PROVE HorizonOf(r)'
  <2>1. HorizonOf(r) /\ horizon'[r] = horizon[r]
    BY <1>1 DEF IInv
  <2>2. pc[r] \notin {"rows", "locked", "index"} <=> pc'[r] \notin {"rows", "locked", "index"}
    BY <1>2, <1>3 DEF Statement
  <2> QED  BY <2>1, <2>2, <1>7 DEF HorizonOf
<1>16. VacuumHorizons'
  <2>1. writers' \subseteq writers
    BY DEF ControlFrame
  <2> QED  BY <2>1, <1>1, <1>7 DEF IInv, VacuumHorizons, ShareLocked, Untouched
<1> QED  BY <1>5, <1>8, <1>9, <1>10, <1>11, <1>12, <1>13, <1>14, <1>15, <1>16 DEF IInv

LEMMA ControlTypes ==
  ASSUME IInv, NEW s \in Session, NEW q, ControlFrame(s, q), RegistryTypes',
         clog' \in [Xid -> {"InProgress", "Committed", "Aborted"}],
         rowlock' \in [Key -> SUBSET Session], wrote' \in [Session -> BOOLEAN],
         iso' \in [Session -> {"ReadCommitted", "RepeatableRead"}],
         txn_id' \in [Session -> 0..MaxXid], live_subxids' \in [Session -> SUBSET Xid],
         levels' \in [Session -> Seq(LevelType)]
  PROVE  TypeOK'
<1>1. xmins' \in [1..MaxId -> Nat] /\ snap' \in [Session -> SnapshotType]
  <2>1. CASE UNCHANGED <<snap, xmins>>
    BY <2>1 DEF IInv, TypeOK
  <2>2. CASE ReleaseSnapshot(s)
    BY <2>2, ReleaseCounts
  <2> QED  BY <2>1, <2>2 DEF ControlFrame
<1>2. pc' \in [Session -> Pcs]
  BY NumberFacts DEF ControlFrame
<1>3. writers' \subseteq Session
  BY DEF ControlFrame, IInv, TypeOK
<1> QED  BY <1>1, <1>2, <1>3 DEF IInv, TypeOK, ControlFrame, RegistryTypes

LEMMA SetClogFacts ==
  ASSUME IInv, NEW xs, NEW st \in {"InProgress", "Committed", "Aborted"}, SetClog(xs, st)
  PROVE  /\ clog' \in [Xid -> {"InProgress", "Committed", "Aborted"}]
         /\ \A x \in Xid : clog'[x] = IF x \in xs THEN st ELSE clog[x]
<1>1. clog \in [Xid -> {"InProgress", "Committed", "Aborted"}]
  BY DEF IInv, TypeOK
<1> QED  BY <1>1 DEF SetClog

\* A step towards the end of a transaction changes the registry, the commit
\* log and the phase.
EndStep(s, q) ==
  /\ UNCHANGED <<scale, next_txn_id, xmins, heap, locks, txn, stmt, vac>>
  /\ pc' = [pc EXCEPT ![s] = q]
  /\ pc[s] \in {"open", "failed", "flushed", "abort_subxids", "abort_top"}
  /\ q \in {"flushed", "abort_subxids", "abort_top", "settled"}
  /\ RegistryStep /\ RegistryTypes'
  /\ \A x \in active \ active' : x \in live_txns(s)
  /\ clog' \in [Xid -> {"InProgress", "Committed", "Aborted"}]
  /\ \A x \in Xid : clog'[x] # clog[x] => x \in live_txns(s)

LEMMA EndKeeps ==
  ASSUME IInv, NEW s \in Session, NEW q, EndStep(s, q), ClogOf(s)',
         /\ q \in Registered => live_txns(s) \subseteq active'
         /\ q = "abort_top" => txn_id[s] \in active' /\ live_subxids[s] \cap active' = {}
         /\ q = "settled" => live_txns(s) \cap active' = {}
  PROVE  IInv'
<1>1. UNCHANGED <<scale, next_txn_id, xmins, snap, heap, writers, rowlock, iso, txn_id, live_subxids,
                  levels, wrote, horizon, todo, target, vac>>
      /\ pc' = [pc EXCEPT ![s] = q] /\ RegistryStep /\ RegistryTypes'
  BY DEF EndStep, locks, txn, stmt
<1>2. live_txns(s)' = live_txns(s) /\ pc'[s] = q
  BY <1>1, NumberFacts DEF live_txns
<1>3. pc[s] \in {"open", "failed", "flushed", "abort_subxids", "abort_top"}
      /\ q \in {"flushed", "abort_subxids", "abort_top", "settled"}
  BY DEF EndStep
<1>4. ControlFrame(s, q)
  BY <1>1, <1>2, <1>3 DEF ControlFrame, EndStep, Pcs, Statement
<1>5. TypeOK'
  BY <1>1, <1>4, ControlTypes DEF IInv, TypeOK, EndStep
<1>6. Room'
  <2>1. Undoing' = Undoing
    BY <1>1, <1>2, <1>3, NumberFacts DEF Undoing
  <2> QED  BY <2>1, <1>1 DEF IInv, Room
<1>7. FamilyOf(s)'
  BY <1>1, <1>2, <1>3 DEF IInv, FamilyOf
<1>8. LevelsOf(s)'
  <2>1. LevelsOf(s)
    BY DEF IInv
  <2> QED  BY <2>1, <1>1, <1>2, <1>3 DEF LevelsOf, Level
<1>9. RegistryOf(s)'
  <2>1. RegistryOf(s) /\ FamilyOf(s) /\ live_subxids[s] \subseteq Xid /\ txn_id[s] \in 0..MaxXid
    BY DEF IInv, TypeOK
  <2>2. \A x \in live_subxids[s] : x \in live_txns(s)
    BY <2>1, NumberFacts DEF live_txns
  <2>3. (\A x \in live_subxids[s] \cap active : subtrans[x] = txn_id[s])'
    <3>1. ASSUME NEW x \in live_subxids[s], x \in active' PROVE subtrans'[x] = txn_id[s]
      <4>1. x < next_txn_id /\ x \in Xid /\ x \in active
        BY <2>2, <3>1, <1>1, NumberFacts DEF RegistryStep
      <4> QED  BY <4>1, <3>1, <2>1, <1>1 DEF RegistryStep, RegistryOf
    <3> QED  BY <3>1, <1>1
  <2>4. (txn_id[s] # NoXid => subtrans[txn_id[s]] = NoXid)'
    <3>1. txn_id[s] # NoXid => txn_id[s] \in live_txns(s)
      BY DEF live_txns
    <3>2. txn_id[s] # NoXid => txn_id[s] < next_txn_id /\ txn_id[s] \in Xid
      BY <3>1, NumberFacts
    <3> QED  BY <3>2, <2>1, <1>1 DEF RegistryStep, RegistryOf
  <2> QED  BY <2>3, <2>4, <1>1, <1>2 DEF RegistryOf
<1>10. WriterOf(s)'
  BY <1>1, <1>2, <1>3 DEF IInv, WriterOf, Level
<1>11. OwnStamps(s)
  BY <1>1, <1>2, <1>3 DEF OwnStamps
<1> QED  BY <1>4, <1>5, <1>6, <1>7, <1>8, <1>9, <1>10, <1>11, ControlKeeps

\* The family of a transaction in one of the phases of its end.
LEMMA FamilyFacts ==
  ASSUME IInv, NEW s \in Session
  PROVE  /\ RegistryOf(s) /\ ClogOf(s) /\ FamilyOf(s)
         /\ clog \in [Xid -> {"InProgress", "Committed", "Aborted"}]
         /\ \A x \in live_txns(s) : x \in Xid
         /\ live_subxids[s] \subseteq live_txns(s)
         /\ txn_id[s] # NoXid => txn_id[s] \in live_txns(s)
         /\ live_txns(s) \ {txn_id[s]} = live_subxids[s]
<1>1. live_subxids[s] \subseteq Xid /\ txn_id[s] \in 0..MaxXid /\ FamilyOf(s)
  BY DEF IInv, TypeOK
<1>2. NoXid \notin live_subxids[s] /\ txn_id[s] \notin live_subxids[s]
  BY <1>1, NumberFacts DEF FamilyOf
<1> QED  BY <1>1, <1>2, NumberFacts DEF IInv, TypeOK, live_txns

LEMMA CommitFlushKeeps ==
  ASSUME IInv, NEW s \in Session, CommitFlush(s), UNCHANGED scale
  PROVE  IInv'
<1>1. PICK q : q = "flushed"
  OBVIOUS
<1>2. PICK st \in {"InProgress", "Committed", "Aborted"} : st = "Committed"
  OBVIOUS
<1>3. PICK xs : xs = live_txns(s)
  OBVIOUS
<1>4. /\ clog' \in [Xid -> {"InProgress", "Committed", "Aborted"}]
      /\ \A x \in Xid : clog'[x] = IF x \in xs THEN st ELSE clog[x]
  BY <1>2, <1>3, SetClogFacts DEF CommitFlush
<1>5. UNCHANGED <<next_txn_id, active, subtrans>> /\ live_txns(s)' = live_txns(s)
  BY DEF CommitFlush, registry, txn, live_txns
<1>6. EndStep(s, q) /\ pc[s] = "open"
  BY <1>1, <1>3, <1>4, <1>5, SameRegistry DEF EndStep, CommitFlush, registry
<1>7. ClogOf(s)'
  <2>1. pc'[s] = "flushed"
    BY NumberFacts DEF CommitFlush
  <2>2. \A x \in live_txns(s)' : clog'[x] = "Committed"
    BY <1>2, <1>3, <1>4, <1>5, FamilyFacts
  <2> QED  BY <2>1, <2>2 DEF ClogOf, Undecided, Statement
<1>8. live_txns(s) \subseteq active
  BY <1>6, FamilyFacts DEF RegistryOf, Registered
<1>9. q \notin {"abort_top", "settled"}
  BY <1>1
<1> QED  BY <1>5, <1>6, <1>7, <1>8, <1>9, EndKeeps

LEMMA CommitDeregisterKeeps ==
  ASSUME IInv, NEW s \in Session, CommitDeregister(s), UNCHANGED scale
  PROVE  IInv'
<1>1. PICK q : q = "settled"
  OBVIOUS
<1>2. PICK xs : xs = live_txns(s)
  OBVIOUS
<1>3. RegistryStep /\ RegistryTypes' /\ active' = active \ xs
  BY <1>2, DeregisterStep DEF CommitDeregister
<1>4. UNCHANGED clog /\ live_txns(s)' = live_txns(s)
  BY DEF CommitDeregister, txn, live_txns
<1>5. EndStep(s, q) /\ pc[s] = "flushed"
  BY <1>1, <1>2, <1>3, <1>4, FamilyFacts DEF EndStep, CommitDeregister
<1>6. live_txns(s) \subseteq active /\ \A x \in live_txns(s) : clog[x] = "Committed"
  BY <1>5, FamilyFacts DEF RegistryOf, ClogOf, Registered
<1>7. ClogOf(s)'
  <2>1. pc'[s] = "settled" /\ UNCHANGED snap
    BY NumberFacts DEF CommitDeregister, stmt
  <2>2. ASSUME NEW r \in Session, r # s, InUse(r)' PROVE Apart(r, s)'
    <3>1. SnapshotOf(r) /\ InUse(r)
      BY <2>1, <2>2 DEF IInv, InUse
    <3>2. ASSUME NEW x \in live_txns(s), ~ (x >= snap[r].xmax) PROVE x \in snap[r].xip
      <4>1. x \in active
        BY <1>6
      <4>2. x < snap[r].xmax
        <5>1. x \in Nat
          BY <4>1, NumberFacts
        <5>2. snap[r].xmax \in Nat
          BY NumberFacts DEF IInv, TypeOK, SnapshotType
        <5> QED  BY <5>1, <5>2, <3>2
      <4>3. x \in snap[r].xip \/ x = txn_id[r]
        BY <3>1, <4>1, <4>2 DEF SnapshotOf
      <4>4. x # txn_id[r]
        <5>1. x = txn_id[r] => x \in live_txns(r)
          BY NumberFacts DEF live_txns
        <5> QED  BY <5>1, <2>2 DEF IInv, Disjoint
      <4> QED  BY <4>3, <4>4
    <3> QED  BY <3>2, <2>1, <1>4 DEF Apart
  <2> QED  BY <2>1, <2>2, <1>4, <1>6 DEF ClogOf, Undecided, Statement
<1>8. q \notin Registered /\ q # "abort_top" /\ live_txns(s) \cap active' = {}
  BY <1>1, <1>2, <1>3 DEF Registered, Statement
<1> QED  BY <1>5, <1>7, <1>8, EndKeeps

LEMMA EndReadOnlyKeeps ==
  ASSUME IInv, NEW s \in Session, EndReadOnly(s), UNCHANGED scale
  PROVE  IInv'
<1>1. PICK q : q = "settled"
  OBVIOUS
<1>2. PICK xs : xs = live_txns(s)
  OBVIOUS
<1>3. RegistryStep /\ RegistryTypes' /\ active' = active \ xs
  BY <1>2, DeregisterStep DEF EndReadOnly
<1>4. UNCHANGED clog /\ live_txns(s)' = live_txns(s)
  BY DEF EndReadOnly, txn, live_txns
<1>5. EndStep(s, q) /\ pc[s] \in {"open", "failed"}
  BY <1>1, <1>2, <1>3, <1>4, FamilyFacts DEF EndStep, EndReadOnly
<1>6. \A x \in live_txns(s) : clog[x] = "InProgress"
  BY <1>5, FamilyFacts DEF ClogOf, Undecided
<1>7. ClogOf(s)'
  <2>1. pc'[s] = "settled"
    BY NumberFacts DEF EndReadOnly
  <2> QED  BY <2>1, <1>4, <1>6 DEF ClogOf, Undecided, Statement
<1>8. q \notin Registered /\ q # "abort_top" /\ live_txns(s) \cap active' = {}
  BY <1>1, <1>2, <1>3 DEF Registered, Statement
<1> QED  BY <1>5, <1>7, <1>8, EndKeeps

LEMMA AbortSubxidsKeeps ==
  ASSUME IInv, NEW s \in Session, AbortSubxids(s), UNCHANGED scale
  PROVE  IInv'
<1>1. PICK q : q = "abort_subxids"
  OBVIOUS
<1>2. PICK st \in {"InProgress", "Committed", "Aborted"} : st = "Aborted"
  OBVIOUS
<1>3. PICK xs : xs = live_txns(s) \ {txn_id[s]}
  OBVIOUS
<1>4. /\ clog' \in [Xid -> {"InProgress", "Committed", "Aborted"}]
      /\ \A x \in Xid : clog'[x] = IF x \in xs THEN st ELSE clog[x]
  BY <1>2, <1>3, SetClogFacts DEF AbortSubxids
<1>5. UNCHANGED <<next_txn_id, active, subtrans>> /\ live_txns(s)' = live_txns(s)
  BY DEF AbortSubxids, registry, txn, live_txns
<1>6. EndStep(s, q) /\ pc[s] \in {"open", "failed"}
  BY <1>1, <1>3, <1>4, <1>5, SameRegistry DEF EndStep, AbortSubxids, registry
<1>7. ClogOf(s)'
  <2>1. pc'[s] = "abort_subxids"
    BY NumberFacts DEF AbortSubxids
  <2>2. \A x \in live_txns(s) : clog[x] = "InProgress"
    BY <1>6, FamilyFacts DEF ClogOf, Undecided
  <2>3. \A x \in live_txns(s)' : clog'[x] # "Committed"
    BY <1>2, <1>4, <1>5, <2>2, FamilyFacts
  <2> QED  BY <2>1, <2>3 DEF ClogOf, Undecided, Statement
<1>8. live_txns(s) \subseteq active
  BY <1>6, FamilyFacts DEF RegistryOf, Registered
<1>9. q \notin {"abort_top", "settled"}
  BY <1>1
<1> QED  BY <1>5, <1>6, <1>7, <1>8, <1>9, EndKeeps

LEMMA AbortTopKeeps ==
  ASSUME IInv, NEW s \in Session, AbortTop(s), UNCHANGED scale
  PROVE  IInv'
<1>1. PICK q : q = "abort_top"
  OBVIOUS
<1>2. PICK st \in {"InProgress", "Committed", "Aborted"} : st = "Aborted"
  OBVIOUS
<1>3. PICK xs : xs = {txn_id[s]}
  OBVIOUS
<1>4. /\ clog' \in [Xid -> {"InProgress", "Committed", "Aborted"}]
      /\ \A x \in Xid : clog'[x] = IF x \in xs THEN st ELSE clog[x]
  BY <1>2, <1>3, SetClogFacts DEF AbortTop
<1>5. live_txns(s)' = live_txns(s)
  BY DEF AbortTop, txn, live_txns
<1>6. PICK ys : ys = live_txns(s) \ {txn_id[s]}
  OBVIOUS
<1>7. RegistryStep /\ RegistryTypes' /\ active' = active \ ys
  BY <1>6, DeregisterStep DEF AbortTop
<1>8. pc[s] = "abort_subxids" /\ txn_id[s] \in live_txns(s)
  <2>1. pc[s] = "abort_subxids"
    BY DEF AbortTop
  <2> QED  BY <2>1, FamilyFacts DEF FamilyOf
<1>9. EndStep(s, q)
  BY <1>1, <1>3, <1>4, <1>6, <1>7, <1>8 DEF EndStep, AbortTop
<1>10. ClogOf(s)'
  <2>1. pc'[s] = "abort_top"
    BY NumberFacts DEF AbortTop
  <2>2. \A x \in live_txns(s) : clog[x] # "Committed"
    BY <1>8, FamilyFacts DEF ClogOf
  <2>3. \A x \in live_txns(s)' : clog'[x] # "Committed"
    BY <1>2, <1>4, <1>5, <2>2, FamilyFacts
  <2> QED  BY <2>1, <2>3 DEF ClogOf, Undecided, Statement
<1>11. txn_id[s] \in active' /\ live_subxids[s] \cap active' = {}
  <2>1. live_txns(s) \subseteq active
    BY <1>8, FamilyFacts DEF RegistryOf, Registered
  <2> QED  BY <2>1, <1>6, <1>7, <1>8, FamilyFacts
<1>12. q \notin Registered /\ q # "settled"
  BY <1>1 DEF Registered, Statement
<1> QED  BY <1>9, <1>10, <1>11, <1>12, EndKeeps

LEMMA AbortDeregisterKeeps ==
  ASSUME IInv, NEW s \in Session, AbortDeregister(s), UNCHANGED scale
  PROVE  IInv'
<1>1. PICK q : q = "settled"
  OBVIOUS
<1>2. PICK xs : xs = {txn_id[s]}
  OBVIOUS
<1>3. RegistryStep /\ RegistryTypes' /\ active' = active \ xs
  BY <1>2, DeregisterStep DEF AbortDeregister
<1>4. UNCHANGED clog /\ live_txns(s)' = live_txns(s)
  BY DEF AbortDeregister, txn, live_txns
<1>5. pc[s] = "abort_top" /\ txn_id[s] \in live_txns(s)
  <2>1. pc[s] = "abort_top"
    BY DEF AbortDeregister
  <2> QED  BY <2>1, FamilyFacts DEF FamilyOf
<1>6. EndStep(s, q)
  BY <1>1, <1>2, <1>3, <1>4, <1>5, FamilyFacts DEF EndStep, AbortDeregister
<1>7. ClogOf(s)'
  <2>1. pc'[s] = "settled"
    BY NumberFacts DEF AbortDeregister
  <2>2. \A x \in live_txns(s) : clog[x] # "Committed"
    BY <1>5, FamilyFacts DEF ClogOf
  <2> QED  BY <2>1, <2>2, <1>4 DEF ClogOf, Undecided, Statement
<1>8. live_txns(s) \cap active' = {}
  BY <1>2, <1>3, <1>5, FamilyFacts DEF RegistryOf
<1>9. q \notin Registered /\ q # "abort_top"
  BY <1>1 DEF Registered, Statement
<1> QED  BY <1>6, <1>7, <1>8, <1>9, EndKeeps

-----------------------------------------------------------------------------
(* Begin, the savepoints and the drop.                                     *)

\* The shapes of a Transaction.
LEMMA TxnShapes ==
  ASSUME IInv
  PROVE  /\ txn_id \in [Session -> 0..MaxXid] /\ live_subxids \in [Session -> SUBSET Xid]
         /\ levels \in [Session -> Seq(LevelType)] /\ wrote \in [Session -> BOOLEAN]
         /\ iso \in [Session -> {"ReadCommitted", "RepeatableRead"}]
         /\ clog \in [Xid -> {"InProgress", "Committed", "Aborted"}]
         /\ rowlock \in [Key -> SUBSET Session] /\ writers \subseteq Session
         /\ scale \in Scales /\ scale.max_xid \in Nat /\ scale.max_xid <= MaxXid
         /\ scale.isolation \subseteq {"ReadCommitted", "RepeatableRead"}
         /\ heap \in [Slot -> VersionType]
  BY MvccAssumption DEF IInv, TypeOK

\* The rollbacks in progress are finitely many.
LEMMA UndoingFacts ==
  ASSUME IInv
  PROVE  IsFiniteSet(Undoing) /\ Cardinality(Undoing) \in Nat
<1>1. Undoing \subseteq Session
  BY DEF Undoing
<1> QED  BY <1>1, MvccAssumption, FS_Subset, FS_CardinalityType

\* With room for an id there is one.
LEMMA RoomFacts ==
  ASSUME IInv, RoomForXid
  PROVE  next_txn_id <= MaxXid
  BY UndoingFacts, TxnShapes, NumberFacts DEF RoomForXid

LEMMA BeginKeeps ==
  ASSUME IInv, NEW s \in Session, Begin(s), UNCHANGED scale
  PROVE  IInv'
<1> DEFINE n == next_txn_id
<1>1. /\ pc[s] = "idle" /\ txn_id' = [txn_id EXCEPT ![s] = n] /\ pc' = [pc EXCEPT ![s] = "open"]
      /\ active' = active \cup {n} /\ next_txn_id' = n + 1
      /\ UNCHANGED <<subtrans, xmins, clog, heap, rowlock, writers, live_subxids, levels, wrote,
                     snap, horizon, todo, target, vac>>
  BY DEF Begin, register_allocated, locks, stmt
<1>2. PICK t \in 0..MaxXid : t = 0
  BY NumberFacts
<1>3. RegistryStep /\ RegistryTypes' /\ n \in Xid
  <2>1. n <= MaxXid
    BY RoomFacts DEF Begin
  <2> QED  BY <2>1, <1>1, RegisterStep DEF Begin
<1>4. txn_id[s] = NoXid /\ live_subxids[s] = {} /\ levels[s] = <<>> /\ ~ InUse(s)
  <2>1. FamilyOf(s) /\ SnapshotOf(s)
    BY DEF IInv
  <2> QED  BY <2>1, <1>1 DEF FamilyOf, SnapshotOf
<1>5. live_txns(s) = {} /\ live_txns(s)' = {n} /\ n # NoXid /\ txn_id'[s] = n /\ pc'[s] = "open"
  <2>1. txn_id'[s] = n /\ live_subxids'[s] = {} /\ pc'[s] = "open"
    BY <1>1, <1>4, TxnShapes, NumberFacts
  <2>2. n # NoXid
    BY <1>3, NumberFacts
  <2> QED  BY <2>1, <2>2, <1>4 DEF live_txns
<1>6. PICK q : q = "open"
  OBVIOUS
<1>7. ControlFrame(s, q)
  <2>1. q \in Pcs \ ({"read"} \cup Statement) /\ pc[s] \notin {"read"} \cup Statement /\ q # "idle"
    BY <1>1, <1>6 DEF Pcs, Statement
  <2> QED  BY <2>1, <1>1, <1>3, <1>4, <1>5, <1>6, TxnShapes DEF ControlFrame
<1>8. TypeOK'
  <2>1. txn_id' \in [Session -> 0..MaxXid]
    BY <1>1, <1>3, TxnShapes, NumberFacts DEF Xid
  <2>2. iso' \in [Session -> {"ReadCommitted", "RepeatableRead"}]
    BY TxnShapes DEF Begin
  <2> QED  BY <2>1, <2>2, <1>1, <1>3, <1>7, TxnShapes, ControlTypes
<1>9. Room'
  <2>1. Undoing' = Undoing
    BY <1>1, <1>5, NumberFacts DEF Undoing
  <2>2. next_txn_id + Cardinality(Undoing) <= scale.max_xid
    BY DEF Begin, RoomForXid
  <2> QED  BY <2>1, <2>2, <1>1, UndoingFacts, TxnShapes, NumberFacts DEF Room
<1>10. FamilyOf(s)'
  BY <1>1, <1>4, <1>5, NumberFacts DEF FamilyOf
<1>11. LevelsOf(s)'
  BY <1>1, <1>4, <1>5 DEF LevelsOf
<1>12. RegistryOf(s)'
  <2>1. subtrans'[n] = NoXid
    BY <1>1, <1>3, NumberFacts
  <2> QED  BY <2>1, <1>1, <1>4, <1>5 DEF RegistryOf
<1>13. ClogOf(s)'
  <2>1. clog'[n] = "InProgress"
    BY <1>1, <1>3, NumberFacts DEF IInv, Fresh
  <2> QED  BY <2>1, <1>5 DEF ClogOf
<1>14. WriterOf(s)'
  BY <1>1, <1>4, <1>5 DEF WriterOf
<1>15. OwnStamps(s)
  BY <1>1, <1>5 DEF OwnStamps
<1> QED  BY <1>7, <1>8, <1>9, <1>10, <1>11, <1>12, <1>13, <1>14, <1>15, ControlKeeps

\* Who does not hold the table lock has deleted nothing that is still open.
LEMMA NotWriterFacts ==
  ASSUME IInv, NEW s \in Session, s \notin writers, pc[s] \in Registered, NEW sl \in Slot
  PROVE  heap[sl].xmax \notin live_txns(s)
<1> SUFFICES ASSUME heap[sl].xmax \in live_txns(s) PROVE FALSE
  OBVIOUS
<1> DEFINE x == heap[sl].xmax
<1>1. x \in active /\ x \in live_txns(s) /\ RegistryOf(s)
  BY FamilyFacts DEF RegistryOf
<1>2. PICK r \in writers : x \in live_txns(r) \/ (pc[r] = "undo" /\ subtrans[x] = txn_id[r])
  BY <1>1 DEF IInv, Stamps
<1> HIDE DEF x
<1>3. r \in Session /\ r # s
  BY TxnShapes
<1>4. x \notin live_txns(r)
  BY <1>1, <1>3 DEF IInv, Disjoint
<1>5. pc[r] = "undo" /\ subtrans[x] = txn_id[r] /\ txn_id[r] # NoXid
  <2>1. FamilyOf(r)
    BY <1>3 DEF IInv
  <2> QED  BY <2>1, <1>2, <1>4 DEF FamilyOf
<1>6. subtrans[x] \in {txn_id[s], NoXid}
  <2>1. x = txn_id[s] \/ x \in live_subxids[s]
    BY <1>1 DEF live_txns
  <2>2. x # NoXid
    BY <1>1, NumberFacts
  <2> QED  BY <2>1, <2>2, <1>1 DEF RegistryOf
<1>7. txn_id[r] = txn_id[s]
  BY <1>5, <1>6
<1>8. txn_id[r] \in live_txns(r) /\ txn_id[r] \in live_txns(s)
  BY <1>5, <1>7 DEF live_txns
<1> QED  BY <1>3, <1>8 DEF IInv, Disjoint

\* A stack of savepoints, cut or extended.
LEMMA AppendFacts ==
  ASSUME NEW L, NEW q \in Seq(L), NEW e \in L
  PROVE  /\ Append(q, e) \in Seq(L) /\ Len(Append(q, e)) = Len(q) + 1 /\ Len(q) \in Nat
         /\ \A i \in 1..Len(q) : Append(q, e)[i] = q[i]
         /\ Append(q, e)[Len(q) + 1] = e
  OBVIOUS

LEMMA PrefixFacts ==
  ASSUME NEW L, NEW q \in Seq(L), NEW n \in 0..Len(q)
  PROVE  /\ SubSeq(q, 1, n) \in Seq(L) /\ Len(SubSeq(q, 1, n)) = n /\ Len(q) \in Nat
         /\ \A i \in 1..n : SubSeq(q, 1, n)[i] = q[i] /\ i \in 1..Len(q)
<1>1. Len(q) \in Nat /\ n \in Nat /\ n <= Len(q)
  OBVIOUS
<1>2. \A i \in 1..n : i \in 1..Len(q) /\ q[i] \in L
  BY <1>1
<1>3. SubSeq(q, 1, n) = [i \in 1..n |-> q[i]]
  BY <1>1, <1>2
<1> QED  BY <1>1, <1>2, <1>3

LEMMA SavepointKeeps ==
  ASSUME IInv, NEW s \in Session, Savepoint(s), UNCHANGED scale
  PROVE  IInv'
<1> DEFINE n == next_txn_id
           q0 == levels[s]
<1>0. PICK k : k = Len(levels[s])
  OBVIOUS
<1>1. PICK lv : lv = [subxid |-> next_txn_id, rows |-> MyLocks(s), writer |-> s \in writers]
  OBVIOUS
<1>2. /\ pc[s] = "open" /\ levels' = [levels EXCEPT ![s] = Append(@, lv)]
      /\ live_subxids' = [live_subxids EXCEPT ![s] = @ \cup {n}]
      /\ active' = active \cup {n} /\ next_txn_id' = n + 1
      /\ subtrans' = [subtrans EXCEPT ![n] = txn_id[s]]
      /\ UNCHANGED <<pc, xmins, clog, heap, rowlock, writers, iso, txn_id, wrote,
                     snap, horizon, todo, target, vac>>
  BY <1>1 DEF Savepoint, register_subxid_allocated, register_allocated, locks, stmt
<1>3. PICK t \in 0..MaxXid : t = txn_id[s]
  BY TxnShapes
<1>4. RegistryStep /\ RegistryTypes' /\ n \in Xid
  <2>1. n <= MaxXid
    BY RoomFacts DEF Savepoint
  <2>2. register_allocated /\ subtrans' \in {subtrans, [subtrans EXCEPT ![n] = t]}
    BY <1>2, <1>3 DEF Savepoint, register_subxid_allocated
  <2> QED  BY <2>1, <2>2, RegisterStep
<1>5. lv \in LevelType /\ lv.subxid = n /\ (~ lv.writer => s \notin writers)
  <2> DEFINE b == (s \in writers)
  <2>1. b \in BOOLEAN
    OBVIOUS
  <2>2. MyLocks(s) \in SUBSET Key
    BY DEF MyLocks
  <2>3. lv = [subxid |-> n, rows |-> MyLocks(s), writer |-> b]
    BY <1>1
  <2> HIDE DEF b
  <2>4. lv \in LevelType /\ lv.subxid = n
    BY <2>1, <2>2, <2>3, <1>4 DEF LevelType
  <2>5. ~ lv.writer => s \notin writers
    BY <1>1, Zenon
  <2> QED  BY <2>4, <2>5
<1>6. /\ q0 \in Seq(LevelType) /\ levels'[s] = Append(q0, lv)
      /\ levels' \in [Session -> Seq(LevelType)]
      /\ Len(levels'[s]) = Len(q0) + 1 /\ Len(q0) \in Nat
      /\ \A i \in 1..Len(q0) : levels'[s][i] = q0[i]
      /\ levels'[s][Len(q0) + 1] = lv
  <2>1. q0 \in Seq(LevelType) /\ levels'[s] = Append(q0, lv)
    BY <1>2, TxnShapes
  <2> HIDE DEF q0
  <2>2. PICK L : L = LevelType
    OBVIOUS
  <2>3. /\ Append(q0, lv) \in Seq(LevelType) /\ Len(Append(q0, lv)) = Len(q0) + 1 /\ Len(q0) \in Nat
        /\ \A i \in 1..Len(q0) : Append(q0, lv)[i] = q0[i]
        /\ Append(q0, lv)[Len(q0) + 1] = lv
    BY <2>1, <2>2, <1>5, AppendFacts
  <2>4. levels' \in [Session -> Seq(LevelType)]
    BY <2>3, <1>2, TxnShapes DEF q0
  <2> QED  BY <2>1, <2>3, <2>4
<1>7. /\ txn_id[s] # NoXid /\ FamilyOf(s) /\ LevelsOf(s) /\ RegistryOf(s) /\ ClogOf(s) /\ WriterOf(s)
      /\ live_txns(s) \subseteq active /\ txn_id[s] < n /\ n # NoXid
  BY <1>2, <1>4, NumberFacts DEF IInv, FamilyOf, RegistryOf, Registered
<1>8. live_txns(s)' = live_txns(s) \cup {n} /\ live_subxids'[s] = live_subxids[s] \cup {n}
  BY <1>2, <1>7, TxnShapes DEF live_txns
<1>9. PICK q : q = "open"
  OBVIOUS
<1>10. ControlFrame(s, q)
  <2>1. q \in Pcs \ ({"read"} \cup Statement) /\ pc[s] \notin {"read"} \cup Statement /\ q # "idle"
    BY <1>2, <1>9 DEF Pcs, Statement
  <2>2. pc' = [pc EXCEPT ![s] = q]
    BY <1>2, <1>9, NumberFacts
  <2> QED  BY <2>1, <2>2, <1>2, <1>4, <1>8, TxnShapes DEF ControlFrame
<1>11. TypeOK'
  <2>1. live_subxids' \in [Session -> SUBSET Xid]
    BY <1>2, <1>4, TxnShapes
  <2> QED  BY <2>1, <1>2, <1>4, <1>6, <1>10, TxnShapes, ControlTypes
<1>12. Room'
  <2>1. Undoing' = Undoing
    BY <1>2 DEF Undoing
  <2>2. next_txn_id + Cardinality(Undoing) <= scale.max_xid
    BY DEF Savepoint, RoomForXid
  <2> QED  BY <2>1, <2>2, <1>2, UndoingFacts, TxnShapes, NumberFacts DEF Room
<1>13. FamilyOf(s)'
  <2>1. txn_id[s] \in Nat /\ live_subxids[s] \subseteq Nat
    BY TxnShapes, NumberFacts
  <2> QED  BY <2>1, <1>2, <1>7, <1>8, NumberFacts DEF FamilyOf
<1>14. /\ Len(levels'[s]) = k + 1 /\ k \in Nat /\ k = Len(levels[s])
       /\ \A i \in 1..k : levels'[s][i] = levels[s][i]
       /\ levels'[s][k + 1] = lv
       /\ \A i \in 1..Len(levels'[s]) : (i \in 1..k \/ i = k + 1)
  BY <1>0, <1>6
<1>15. \A i \in 1..k : /\ Level(s, i)' = Level(s, i) /\ Level(s, i) < n /\ txn_id[s] < Level(s, i)
                            /\ Level(s, i) \in live_subxids[s]
  BY <1>2, <1>7, <1>14 DEF Level, LevelsOf
<1>16. Level(s, k + 1)' = n
  BY <1>5, <1>14 DEF Level
<1>17. LevelsOf(s)'
  <2>1. \A i \in 1..k : Level(s, i) \in Nat
    BY <1>14, LevelFacts DEF IInv
  <2>2. (\A i \in 1..Len(levels[s]) :
       /\ txn_id[s] < Level(s, i) /\ Level(s, i) < next_txn_id
       /\ Level(s, i) \in live_subxids[s] \/ (pc[s] \in {"undo", "undone"} /\ i = Len(levels[s])))'
    BY <2>1, <1>2, <1>7, <1>8, <1>14, <1>15, <1>16, NumberFacts
  <2>3. (\A i, j \in 1..Len(levels[s]) : i < j => Level(s, i) < Level(s, j))'
    <3>1. ASSUME NEW i \in 1..Len(levels'[s]), NEW j \in 1..Len(levels'[s]), i < j
          PROVE  Level(s, i)' < Level(s, j)'
      <4>1. i \in 1..k
        BY <3>1, <1>14
      <4>2. CASE j \in 1..k
        <5>1. Level(s, i) < Level(s, j)
          BY <3>1, <4>1, <4>2, <1>7, <1>14 DEF LevelsOf
        <5> QED  BY <5>1, <4>1, <4>2, <1>15
      <4>3. CASE j = k + 1
        BY <4>1, <4>3, <1>15, <1>16
      <4> QED  BY <4>2, <4>3, <1>14
    <3> QED  BY <3>1
  <2> QED  BY <2>2, <2>3, <1>2 DEF LevelsOf
<1>18. RegistryOf(s)'
  <2>1. \A x \in live_txns(s) : x \in Xid /\ x # n
    BY NumberFacts
  <2>2. \A x \in Xid : subtrans'[x] = IF x = n THEN txn_id[s] ELSE subtrans[x]
    BY <1>2, <1>4, NumberFacts
  <2>3. (pc[s] \in Registered => live_txns(s) \subseteq active)'
    BY <1>2, <1>7, <1>8
  <2>4. (\A x \in live_subxids[s] \cap active : subtrans[x] = txn_id[s])'
    <3>1. ASSUME NEW x \in live_subxids'[s] \cap active' PROVE subtrans'[x] = txn_id[s]
      <4>1. CASE x = n
        BY <4>1, <2>2, <1>4
      <4>2. CASE x # n
        <5>1. x \in live_subxids[s] \cap active
          BY <3>1, <4>2, <1>2, <1>8
        <5> QED  BY <5>1, <4>2, <2>2, <1>7, TxnShapes DEF RegistryOf
      <4> QED  BY <4>1, <4>2
    <3> QED  BY <3>1, <1>2
  <2>5. (txn_id[s] # NoXid => subtrans[txn_id[s]] = NoXid)'
    <3>1. txn_id[s] \in live_txns(s)
      BY <1>7 DEF live_txns
    <3>2. txn_id[s] \in Xid /\ txn_id[s] # n
      BY <2>1, <3>1
    <3> QED  BY <3>2, <2>2, <1>2, <1>7 DEF RegistryOf
  <2> QED  BY <2>3, <2>4, <2>5, <1>2 DEF RegistryOf
<1>19. ClogOf(s)'
  <2>1. clog'[n] = "InProgress"
    BY <1>2, <1>4, NumberFacts DEF IInv, Fresh
  <2> QED  BY <2>1, <1>2, <1>7, <1>8 DEF ClogOf
<1>20. \A sl \in Slot : heap[sl].xmax # n
  <2>1. \A sl \in Slot : heap[sl].xmax < n
    BY DEF IInv, Stamps
  <2> QED  BY <2>1, NumberFacts
<1>21. WriterOf(s)'
  <2>1. ASSUME NEW i \in 1..Len(levels'[s]), ~ levels'[s][i].writer, NEW sl \in Slot,
               heap'[sl].xmax \in live_txns(s)'
        PROVE  heap'[sl].xmax >= Level(s, i)'
    <3>1. heap[sl].xmax \in live_txns(s) /\ heap' = heap
      BY <2>1, <1>2, <1>8, <1>20
    <3>2. CASE i \in 1..k
      <4>1. levels'[s][i] = levels[s][i] /\ Level(s, i)' = Level(s, i)
        BY <3>2, <1>14, <1>15
      <4> QED  BY <4>1, <3>1, <3>2, <2>1, <1>7, <1>14 DEF WriterOf
    <3>3. CASE i = k + 1
      <4>1. s \notin writers
        BY <3>3, <2>1, <1>5, <1>14
      <4>2. pc[s] \in Registered
        BY <1>2 DEF Registered
      <4> QED  BY <4>1, <4>2, <3>1, NotWriterFacts
    <3> QED  BY <3>2, <3>3, <1>14
  <2> QED  BY <2>1, <1>2, <1>7 DEF WriterOf
<1>22. OwnStamps(s)
  BY <1>2, <1>8 DEF OwnStamps
<1> QED  BY <1>10, <1>11, <1>12, <1>13, <1>17, <1>18, <1>19, <1>21, <1>22, ControlKeeps

LEMMA ReleaseSavepointKeeps ==
  ASSUME IInv, NEW s \in Session, NEW i \in 1..Len(levels[s]), ReleaseSavepoint(s, i), UNCHANGED scale
  PROVE  IInv'
<1>1. /\ pc[s] = "open" /\ levels' = [levels EXCEPT ![s] = SubSeq(@, 1, i - 1)]
      /\ UNCHANGED <<next_txn_id, active, subtrans, xmins, clog, heap, rowlock, writers, pc, iso,
                     txn_id, live_subxids, wrote, snap, horizon, todo, target, vac>>
  BY DEF ReleaseSavepoint, registry, locks, stmt
<1>2. PICK k : k = i - 1
  OBVIOUS
<1>3. /\ levels' \in [Session -> Seq(LevelType)] /\ Len(levels'[s]) = k
      /\ \A j \in 1..k : levels'[s][j] = levels[s][j] /\ j \in 1..Len(levels[s])
  <2> DEFINE q0 == levels[s]
             L == LevelType
  <2>1. q0 \in Seq(L) /\ levels'[s] = SubSeq(q0, 1, k)
    BY <1>1, <1>2, TxnShapes
  <2> HIDE DEF q0, L
  <2>2. k \in 0..Len(q0)
    <3>1. Len(q0) \in Nat /\ i \in 1..Len(q0)
      BY <2>1 DEF q0
    <3> QED  BY <3>1, <1>2
  <2>3. /\ SubSeq(q0, 1, k) \in Seq(L) /\ Len(SubSeq(q0, 1, k)) = k
        /\ \A j \in 1..k : SubSeq(q0, 1, k)[j] = q0[j] /\ j \in 1..Len(q0)
    BY <2>1, <2>2, PrefixFacts
  <2>4. levels' \in [Session -> Seq(L)]
    BY <2>1, <2>3, <1>1, <1>2, TxnShapes DEF q0, L
  <2> QED  BY <2>1, <2>3, <2>4 DEF q0, L
<1>4. \A j \in 1..k : Level(s, j)' = Level(s, j)
  BY <1>3 DEF Level
<1>5. live_txns(s)' = live_txns(s)
  BY <1>1 DEF live_txns
<1>6. FamilyOf(s) /\ LevelsOf(s) /\ RegistryOf(s) /\ ClogOf(s) /\ WriterOf(s)
  BY DEF IInv
<1>7. PICK q : q = "open"
  OBVIOUS
<1>8. ControlFrame(s, q)
  <2>1. q \in Pcs \ ({"read"} \cup Statement) /\ pc[s] \notin {"read"} \cup Statement /\ q # "idle"
    BY <1>1, <1>7 DEF Pcs, Statement
  <2>2. pc' = [pc EXCEPT ![s] = q]
    BY <1>1, <1>7, NumberFacts
  <2>3. RegistryStep
    BY <1>1, SameRegistry
  <2> QED  BY <2>1, <2>2, <2>3, <1>1, <1>5, TxnShapes DEF ControlFrame
<1>9. TypeOK'
  <2>1. RegistryTypes'
    BY <1>1, SameRegistry
  <2> QED  BY <2>1, <1>1, <1>3, <1>8, TxnShapes, ControlTypes
<1>10. Room'
  BY <1>1 DEF IInv, Room, Undoing
<1>11. FamilyOf(s)'
  <2>1. txn_id[s] # NoXid
    BY <1>1, <1>6 DEF FamilyOf
  <2> QED  BY <2>1, <1>1, <1>6 DEF FamilyOf
<1>12. LevelsOf(s)'
  <2>1. (\A j \in 1..Len(levels[s]) :
       /\ txn_id[s] < Level(s, j) /\ Level(s, j) < next_txn_id
       /\ Level(s, j) \in live_subxids[s] \/ (pc[s] \in {"undo", "undone"} /\ j = Len(levels[s])))'
    BY <1>1, <1>3, <1>4, <1>6 DEF LevelsOf
  <2>2. (\A j, m \in 1..Len(levels[s]) : j < m => Level(s, j) < Level(s, m))'
    BY <1>3, <1>4, <1>6 DEF LevelsOf
  <2> QED  BY <2>1, <2>2, <1>1 DEF LevelsOf
<1>13. RegistryOf(s)' /\ ClogOf(s)'
  BY <1>1, <1>5, <1>6 DEF RegistryOf, ClogOf
<1>14. WriterOf(s)'
  BY <1>1, <1>3, <1>4, <1>5, <1>6 DEF WriterOf
<1>15. OwnStamps(s)
  BY <1>1, <1>5 DEF OwnStamps
<1> QED  BY <1>8, <1>9, <1>10, <1>11, <1>12, <1>13, <1>14, <1>15, ControlKeeps

LEMMA RollbackToKeeps ==
  ASSUME IInv, NEW s \in Session, NEW i \in 1..Len(levels[s]), RollbackTo(s, i), UNCHANGED scale
  PROVE  IInv'
<1>1. PICK xs : xs = RolledBack(s, i)
  OBVIOUS
<1>2. /\ pc[s] \in {"open", "failed"} /\ levels' = [levels EXCEPT ![s] = SubSeq(@, 1, i)]
      /\ pc' = [pc EXCEPT ![s] = "undo"] /\ SetClog(xs, "Aborted")
      /\ live_subxids' = [live_subxids EXCEPT ![s] = @ \ xs]
      /\ UNCHANGED <<next_txn_id, active, subtrans, xmins, heap, rowlock, writers, iso,
                     txn_id, wrote, snap, horizon, todo, target, vac>>
  BY <1>1 DEF RollbackTo, registry, locks, stmt
<1>3. /\ levels' \in [Session -> Seq(LevelType)] /\ Len(levels'[s]) = i
      /\ \A j \in 1..i : levels'[s][j] = levels[s][j] /\ j \in 1..Len(levels[s])
  <2> DEFINE q0 == levels[s]
             L == LevelType
  <2>1. q0 \in Seq(L) /\ levels'[s] = SubSeq(q0, 1, i)
    BY <1>2, TxnShapes
  <2> HIDE DEF q0, L
  <2>2. i \in 0..Len(q0)
    <3>1. Len(q0) \in Nat /\ i \in 1..Len(q0)
      BY <2>1 DEF q0
    <3> QED  BY <3>1
  <2>3. /\ SubSeq(q0, 1, i) \in Seq(L) /\ Len(SubSeq(q0, 1, i)) = i
        /\ \A j \in 1..i : SubSeq(q0, 1, i)[j] = q0[j] /\ j \in 1..Len(q0)
    BY <2>1, <2>2, PrefixFacts
  <2>4. levels' \in [Session -> Seq(L)]
    BY <2>1, <2>3, <1>2, TxnShapes DEF q0, L
  <2> QED  BY <2>1, <2>3, <2>4 DEF q0, L
<1>4. i \in Nat /\ i >= 1 /\ \A j \in 1..i : Level(s, j)' = Level(s, j)
  <2>1. i \in Nat /\ i >= 1
    BY TxnShapes
  <2> QED  BY <2>1, <1>3 DEF Level
<1>5. FamilyOf(s) /\ LevelsOf(s) /\ RegistryOf(s) /\ ClogOf(s) /\ WriterOf(s)
      /\ live_txns(s) \subseteq active
  BY <1>2 DEF IInv, RegistryOf, Registered
<1>6. /\ live_subxids'[s] = live_subxids[s] \ xs /\ xs \subseteq live_subxids[s]
      /\ xs = {x \in live_subxids[s] : x >= Level(s, i)}
  BY <1>1, <1>2, TxnShapes DEF RolledBack, Level
<1>7. txn_id[s] \notin xs /\ txn_id[s] # NoXid /\ pc'[s] = "undo" /\ txn_id[s] \in live_txns(s)
  <2>1. txn_id[s] \notin live_subxids[s]
    BY <1>5, TxnShapes, NumberFacts DEF FamilyOf
  <2> QED  BY <2>1, <1>2, <1>5, <1>6, NumberFacts DEF FamilyOf, live_txns
<1>8. live_txns(s)' = live_txns(s) \ xs /\ xs \subseteq live_txns(s)
  <2>1. NoXid \notin live_subxids[s]
    BY TxnShapes, NumberFacts
  <2> QED  BY <2>1, <1>2, <1>6, <1>7 DEF live_txns
<1>9. PICK st \in {"InProgress", "Committed", "Aborted"} : st = "Aborted"
  OBVIOUS
<1>10. /\ clog' \in [Xid -> {"InProgress", "Committed", "Aborted"}]
       /\ \A x \in Xid : clog'[x] = IF x \in xs THEN st ELSE clog[x]
  BY <1>2, <1>9, SetClogFacts
<1>11. PICK q : q = "undo"
  OBVIOUS
<1>12. ControlFrame(s, q)
  <2>1. q \in Pcs \ ({"read"} \cup Statement) /\ pc[s] \notin {"read"} \cup Statement /\ q # "idle"
    BY <1>2, <1>11 DEF Pcs, Statement
  <2>2. RegistryStep
    BY <1>2, SameRegistry
  <2> QED  BY <2>1, <2>2, <1>2, <1>8, <1>10, <1>11, TxnShapes DEF ControlFrame
<1>13. TypeOK'
  <2>1. RegistryTypes'
    BY <1>2, SameRegistry
  <2>2. live_subxids' \in [Session -> SUBSET Xid]
    BY <1>2, TxnShapes
  <2> QED  BY <2>1, <2>2, <1>2, <1>3, <1>10, <1>12, TxnShapes, ControlTypes
<1>14. Room'
  <2>1. Undoing' = Undoing \cup {s} /\ s \notin Undoing
    BY <1>2, <1>7, NumberFacts DEF Undoing
  <2>2. Cardinality(Undoing') = Cardinality(Undoing) + 1
    <3>1. Cardinality(Undoing \cup {s}) = Cardinality(Undoing) + 1
      BY <2>1, UndoingFacts, FS_AddElement
    <3> QED  BY <2>1, <3>1
  <2>3. next_txn_id + Cardinality(Undoing) <= scale.max_xid
    BY DEF RollbackTo, RoomForXid
  <2> QED  BY <2>2, <2>3, <1>2, UndoingFacts, TxnShapes, NumberFacts DEF Room
<1>15. FamilyOf(s)'
  BY <1>2, <1>5, <1>6, <1>7 DEF FamilyOf
<1>16. LevelsOf(s)'
  <2>1. \A j \in 1..i : Level(s, j) \in Nat
    BY <1>3, LevelFacts DEF IInv
  <2>2. ASSUME NEW j \in 1..i
        PROVE  /\ txn_id[s] < Level(s, j) /\ Level(s, j) < next_txn_id
               /\ Level(s, j) \in live_subxids'[s] \/ j = i
    <3>1. Level(s, j) \in live_subxids[s] /\ txn_id[s] < Level(s, j) /\ Level(s, j) < next_txn_id
      BY <1>2, <1>3, <1>5 DEF LevelsOf
    <3>2. j # i => Level(s, j) < Level(s, i)
      BY <1>3, <1>4, <1>5 DEF LevelsOf
    <3>3. Level(s, j) \in Nat /\ Level(s, i) \in Nat
      BY <2>1, <1>4
    <3>4. j # i => Level(s, j) \notin xs
      BY <3>2, <3>3, <1>6
    <3> QED  BY <3>1, <3>4, <1>6
  <2>3. (\A j \in 1..Len(levels[s]) :
       /\ txn_id[s] < Level(s, j) /\ Level(s, j) < next_txn_id
       /\ Level(s, j) \in live_subxids[s] \/ (pc[s] \in {"undo", "undone"} /\ j = Len(levels[s])))'
    BY <2>2, <1>2, <1>3, <1>4, <1>7
  <2>4. (\A j, m \in 1..Len(levels[s]) : j < m => Level(s, j) < Level(s, m))'
    BY <1>3, <1>4, <1>5 DEF LevelsOf
  <2>5. (levels[s] # <<>> /\ \A x \in live_subxids[s] : x < Level(s, Len(levels[s])))'
    <3>1. levels'[s] # <<>>
      BY <1>3, <1>4
    <3>2. Level(s, Len(levels[s]))' = Level(s, i)
      BY <1>3, <1>4 DEF Level
    <3>3. \A x \in live_subxids'[s] : x < Level(s, i)
      <4>1. \A x \in live_subxids[s] : x \in Nat
        BY TxnShapes, NumberFacts
      <4> QED  BY <4>1, <2>1, <1>4, <1>6
    <3> QED  BY <3>1, <3>2, <3>3
  <2> QED  BY <2>3, <2>4, <2>5 DEF LevelsOf
<1>17. RegistryOf(s)'
  BY <1>2, <1>5, <1>6, <1>7, <1>8 DEF RegistryOf
<1>18. ClogOf(s)'
  <2>1. \A x \in live_txns(s) : clog[x] = "InProgress" /\ x \in Xid
    BY <1>2, <1>5, NumberFacts DEF ClogOf, Undecided
  <2>2. \A x \in live_txns(s)' : clog'[x] = "InProgress"
    BY <2>1, <1>8, <1>10
  <2> QED  BY <2>2, <1>7 DEF ClogOf
<1>19. WriterOf(s)'
  <2>1. (\A j \in 1..Len(levels[s]) : ~ levels[s][j].writer =>
       \A sl \in Slot : heap[sl].xmax \in live_txns(s) => heap[sl].xmax >= Level(s, j))'
    BY <1>2, <1>3, <1>4, <1>5, <1>8 DEF WriterOf
  <2> QED  BY <2>1, <1>7 DEF WriterOf
<1>20. OwnStamps(s)
  <2>1. ASSUME NEW x, x \in live_txns(s)
        PROVE  x \in live_txns(s)' \/ subtrans'[x] = txn_id'[s]
    <3>1. x \in xs => x \in live_subxids[s] \cap active
      BY <2>1, <1>5, <1>6
    <3> QED  BY <3>1, <2>1, <1>2, <1>5, <1>8 DEF RegistryOf
  <2> QED  BY <2>1, <1>2, <1>7 DEF OwnStamps
<1> QED  BY <1>12, <1>13, <1>14, <1>15, <1>16, <1>17, <1>18, <1>19, <1>20, ControlKeeps

LEMMA UndoDeregisterKeeps ==
  ASSUME IInv, NEW s \in Session, UndoDeregister(s), UNCHANGED scale
  PROVE  IInv'
<1>1. PICK xs : xs = {x \in active : subtrans[x] = txn_id[s] /\ x \notin live_txns(s)}
  OBVIOUS
<1>2. /\ pc[s] = "undo" /\ pc' = [pc EXCEPT ![s] = "undone"] /\ deregister_all(xs)
      /\ UNCHANGED <<next_txn_id, xmins, clog, heap, rowlock, writers, iso, txn_id, live_subxids,
                     levels, wrote, snap, horizon, todo, target, vac>>
  BY <1>1 DEF UndoDeregister, locks, txn, stmt
<1>3. /\ RegistryStep /\ RegistryTypes' /\ active' = active \ xs
      /\ \A x \in Xid : subtrans'[x] = IF x \in xs THEN NoXid ELSE subtrans[x]
  BY <1>2, DeregisterStep
<1>4. FamilyOf(s) /\ LevelsOf(s) /\ RegistryOf(s) /\ ClogOf(s) /\ WriterOf(s)
      /\ live_txns(s) \subseteq active /\ txn_id[s] # NoXid /\ txn_id[s] \in live_txns(s)
  BY <1>2 DEF IInv, RegistryOf, Registered, FamilyOf, live_txns
<1>5. live_txns(s)' = live_txns(s) /\ pc'[s] = "undone" /\ live_txns(s) \cap xs = {}
  BY <1>1, <1>2, NumberFacts DEF live_txns
<1>6. PICK q : q = "undone"
  OBVIOUS
<1>7. ControlFrame(s, q)
  <2>1. q \in Pcs \ ({"read"} \cup Statement) /\ pc[s] \notin {"read"} \cup Statement /\ q # "idle"
    BY <1>2, <1>6 DEF Pcs, Statement
  <2> QED  BY <2>1, <1>1, <1>2, <1>3, <1>4, <1>5, <1>6 DEF ControlFrame
<1>8. TypeOK'
  BY <1>2, <1>3, <1>7, TxnShapes, ControlTypes
<1>9. Room'
  <2>1. Undoing' = Undoing
    BY <1>2, <1>5, NumberFacts DEF Undoing
  <2> QED  BY <2>1, <1>2 DEF IInv, Room
<1>10. FamilyOf(s)'
  BY <1>2, <1>4, <1>5 DEF FamilyOf
<1>11. LevelsOf(s)'
  BY <1>2, <1>4, <1>5 DEF LevelsOf, Level
<1>12. RegistryOf(s)'
  <2>1. live_subxids[s] \subseteq live_txns(s)
    BY FamilyFacts
  <2>2. \A x \in live_txns(s) : subtrans'[x] = subtrans[x] /\ x \in active'
    BY <1>3, <1>4, <1>5, NumberFacts
  <2> QED  BY <2>1, <2>2, <1>2, <1>4, <1>5 DEF RegistryOf
<1>13. ClogOf(s)'
  <2>1. \A x \in live_txns(s) : clog[x] = "InProgress"
    BY <1>2, <1>4 DEF ClogOf, Undecided
  <2> QED  BY <2>1, <1>2, <1>5 DEF ClogOf
<1>14. WriterOf(s)'
  BY <1>2, <1>4, <1>5 DEF WriterOf, Level
<1>15. OwnStamps(s)
  BY <1>1, <1>2, <1>3, <1>5 DEF OwnStamps
<1> QED  BY <1>7, <1>8, <1>9, <1>10, <1>11, <1>12, <1>13, <1>14, <1>15, ControlKeeps

LEMMA ReplaceFacts ==
  ASSUME NEW L, NEW q \in Seq(L), NEW i \in 1..Len(q), NEW e \in L
  PROVE  /\ [q EXCEPT ![i] = e] \in Seq(L) /\ Len([q EXCEPT ![i] = e]) = Len(q) /\ Len(q) \in Nat
         /\ \A j \in 1..Len(q) : [q EXCEPT ![i] = e][j] = IF j = i THEN e ELSE q[j]
<1>1. Len(q) \in Nat /\ DOMAIN q = 1..Len(q) /\ \A j \in 1..Len(q) : q[j] \in L
  OBVIOUS
<1>2. [q EXCEPT ![i] = e] = [j \in 1..Len(q) |-> IF j = i THEN e ELSE q[j]]
  BY <1>1
<1>3. [j \in 1..Len(q) |-> IF j = i THEN e ELSE q[j]] \in Seq(L)
  BY <1>1
<1> QED  BY <1>1, <1>2, <1>3

LEMMA UndoRestoreKeeps ==
  ASSUME IInv, NEW s \in Session, UndoRestore(s), UNCHANGED scale
  PROVE  IInv'
<1> DEFINE n == next_txn_id
<1>1. PICK i : i = Len(levels[s])
  OBVIOUS
<1>2. PICK lv : lv = levels[s][i]
  OBVIOUS
<1>3. PICK ne : ne = [lv EXCEPT !.subxid = next_txn_id]
  OBVIOUS
<1>4. /\ pc[s] = "undone" /\ pc' = [pc EXCEPT ![s] = "open"]
      /\ rowlock' = [k \in Key |-> IF k \in lv.rows THEN rowlock[k] ELSE rowlock[k] \ {s}]
      /\ writers' = IF lv.writer THEN writers ELSE writers \ {s}
      /\ live_subxids' = [live_subxids EXCEPT ![s] = @ \cup {n}]
      /\ levels' = [levels EXCEPT ![s] = [levels[s] EXCEPT ![i] = ne]]
      /\ active' = active \cup {n} /\ next_txn_id' = n + 1
      /\ subtrans' = [subtrans EXCEPT ![n] = txn_id[s]]
      /\ UNCHANGED <<xmins, clog, heap, iso, txn_id, wrote, snap, horizon, todo, target, vac>>
  BY <1>1, <1>2, <1>3 DEF UndoRestore, register_subxid_allocated, register_allocated, stmt
<1>5. FamilyOf(s) /\ LevelsOf(s) /\ RegistryOf(s) /\ ClogOf(s) /\ WriterOf(s)
      /\ live_txns(s) \subseteq active /\ txn_id[s] # NoXid /\ levels[s] # <<>>
      /\ levels[s] \in Seq(LevelType)
  BY <1>4, TxnShapes DEF IInv, RegistryOf, Registered, FamilyOf, LevelsOf
<1>6. i \in Nat /\ i \in 1..Len(levels[s])
  BY <1>1, <1>5
<1>7. PICK t \in 0..MaxXid : t = txn_id[s]
  BY TxnShapes
<1>8. s \in Undoing /\ n <= MaxXid /\ Cardinality(Undoing) >= 1
  <2>1. s \in Undoing
    BY <1>4 DEF Undoing
  <2>2. Undoing # {} => Cardinality(Undoing) # 0
    BY UndoingFacts, FS_EmptySet
  <2>3. Cardinality(Undoing) >= 1
    BY <2>1, <2>2, UndoingFacts
  <2> QED  BY <2>1, <2>3, UndoingFacts, TxnShapes, NumberFacts DEF IInv, Room
<1>9. RegistryStep /\ RegistryTypes' /\ n \in Xid
  <2>1. register_allocated /\ subtrans' \in {subtrans, [subtrans EXCEPT ![n] = t]}
    BY <1>4, <1>7 DEF register_allocated
  <2> QED  BY <2>1, <1>8, RegisterStep
<1>10. lv \in LevelType /\ ne \in LevelType /\ ne.subxid = n /\ ne.writer = lv.writer
  <2>1. lv \in LevelType
    BY <1>2, <1>6, LevelFacts DEF IInv
  <2> QED  BY <2>1, <1>3, <1>9 DEF LevelType
<1>11. /\ levels' \in [Session -> Seq(LevelType)] /\ Len(levels'[s]) = i
       /\ \A j \in 1..i : j # i => levels'[s][j] = levels[s][j]
       /\ levels'[s][i] = ne
  <2> DEFINE q0 == levels[s]
             L == LevelType
             q1 == [q0 EXCEPT ![i] = ne]
  <2>1. q0 \in Seq(L) /\ levels'[s] = q1 /\ i \in 1..Len(q0) /\ ne \in L /\ i = Len(q0)
    BY <1>1, <1>4, <1>5, <1>6, <1>10, TxnShapes
  <2>2. levels \in [Session -> Seq(L)] /\ levels' = [levels EXCEPT ![s] = q1]
    BY <1>4, TxnShapes
  <2> HIDE DEF q0, L
  <2>3. /\ q1 \in Seq(L) /\ Len(q1) = Len(q0)
        /\ \A j \in 1..Len(q0) : q1[j] = IF j = i THEN ne ELSE q0[j]
    BY <2>1, ReplaceFacts
  <2> HIDE DEF q1
  <2>4. levels' \in [Session -> Seq(L)]
    BY <2>2, <2>3
  <2>5. Len(levels'[s]) = i /\ levels'[s][i] = ne /\ \A j \in 1..i : j # i => levels'[s][j] = q0[j]
    BY <2>1, <2>3
  <2> QED  BY <2>4, <2>5 DEF q0, L
<1>12. /\ \A j \in 1..i : j # i => Level(s, j)' = Level(s, j)
       /\ Level(s, i)' = n
  BY <1>10, <1>11 DEF Level
<1>13. live_txns(s)' = live_txns(s) \cup {n} /\ live_subxids'[s] = live_subxids[s] \cup {n}
       /\ pc'[s] = "open" /\ n # NoXid
  <2>1. live_subxids'[s] = live_subxids[s] \cup {n} /\ pc'[s] = "open" /\ n # NoXid
    BY <1>4, <1>9, TxnShapes, NumberFacts
  <2> QED  BY <2>1, <1>4 DEF live_txns
<1>14. \A sl \in Slot : heap[sl].xmax # n
  <2>1. \A sl \in Slot : heap[sl].xmax < n
    BY DEF IInv, Stamps
  <2> QED  BY <2>1, NumberFacts
<1>15. ASSUME ~ lv.writer, NEW sl \in Slot PROVE heap[sl].xmax \notin live_txns(s)
  <2>1. SUFFICES ASSUME heap[sl].xmax \in live_txns(s) PROVE FALSE
    OBVIOUS
  <2>2. heap[sl].xmax >= Level(s, i)
    BY <2>1, <1>2, <1>5, <1>6, <1>15 DEF WriterOf
  <2>3. heap[sl].xmax = txn_id[s] \/ heap[sl].xmax \in live_subxids[s]
    BY <2>1 DEF live_txns
  <2>4. heap[sl].xmax < Level(s, i)
    BY <2>3, <1>1, <1>4, <1>5, <1>6 DEF LevelsOf
  <2>5. heap[sl].xmax \in Nat /\ Level(s, i) \in Nat
    BY <1>6, TxnShapes, NumberFacts, LevelFacts DEF VersionType, IInv
  <2> QED  BY <2>2, <2>4, <2>5
<1>16. PICK q : q = "open"
  OBVIOUS
<1>17. ControlFrame(s, q)
  <2>1. q \in Pcs \ ({"read"} \cup Statement) /\ pc[s] \notin {"read"} \cup Statement /\ q # "idle"
    BY <1>4, <1>16 DEF Pcs, Statement
  <2>2. writers' \subseteq writers /\ \A r \in Session : r # s => (r \in writers' <=> r \in writers)
    BY <1>4
  <2> QED  BY <2>1, <2>2, <1>4, <1>9, <1>13, <1>16, TxnShapes DEF ControlFrame
<1>18. TypeOK'
  <2>1. live_subxids' \in [Session -> SUBSET Xid]
    BY <1>4, <1>9, TxnShapes
  <2>2. rowlock' \in [Key -> SUBSET Session]
    BY <1>4, TxnShapes
  <2> QED  BY <2>1, <2>2, <1>4, <1>9, <1>11, <1>17, TxnShapes, ControlTypes
<1>19. Room'
  <2>1. Undoing' = Undoing \ {s}
    BY <1>4, <1>13, NumberFacts DEF Undoing
  <2>2. Cardinality(Undoing \ {s}) = Cardinality(Undoing) - 1
    BY <1>8, UndoingFacts, FS_RemoveElement
  <2>3. Cardinality(Undoing') = Cardinality(Undoing) - 1
    BY <2>1, <2>2
  <2>4. next_txn_id + Cardinality(Undoing) <= scale.max_xid + 1
    BY DEF IInv, Room
  <2> QED  BY <2>3, <2>4, <1>4, UndoingFacts, TxnShapes, NumberFacts DEF Room
<1>20. FamilyOf(s)'
  <2>1. txn_id[s] \in Nat /\ live_subxids[s] \subseteq Nat
    BY TxnShapes, NumberFacts
  <2> QED  BY <2>1, <1>4, <1>5, <1>13, NumberFacts DEF FamilyOf
<1>21. LevelsOf(s)'
  <2>1. \A j \in 1..i : Level(s, j) \in Nat
    BY <1>1, LevelFacts DEF IInv
  <2>2. ASSUME NEW j \in 1..i, j # i
        PROVE  txn_id[s] < Level(s, j) /\ Level(s, j) < n /\ Level(s, j) \in live_subxids[s]
    BY <2>2, <1>1, <1>5 DEF LevelsOf
  <2>3. txn_id[s] < n
    BY <1>5 DEF FamilyOf
  <2>4. (\A j \in 1..Len(levels[s]) :
       /\ txn_id[s] < Level(s, j) /\ Level(s, j) < next_txn_id
       /\ Level(s, j) \in live_subxids[s] \/ (pc[s] \in {"undo", "undone"} /\ j = Len(levels[s])))'
    <3>1. ASSUME NEW j \in 1..i
          PROVE  txn_id'[s] < Level(s, j)' /\ Level(s, j)' < next_txn_id' /\ Level(s, j)' \in live_subxids'[s]
      BY <2>1, <2>2, <2>3, <1>4, <1>12, <1>13, NumberFacts
    <3> QED  BY <3>1, <1>11
  <2>5. (\A j, m \in 1..Len(levels[s]) : j < m => Level(s, j) < Level(s, m))'
    <3>1. ASSUME NEW j \in 1..i, NEW m \in 1..i, j < m PROVE Level(s, j)' < Level(s, m)'
      <4>1. j # i
        BY <3>1, <1>6
      <4>2. CASE m = i
        BY <4>1, <4>2, <2>2, <1>12
      <4>3. CASE m # i
        <5>1. Level(s, j) < Level(s, m)
          BY <3>1, <1>1, <1>5 DEF LevelsOf
        <5> QED  BY <5>1, <4>1, <4>3, <1>12
      <4> QED  BY <4>2, <4>3
    <3> QED  BY <3>1, <1>11
  <2> QED  BY <2>4, <2>5, <1>13 DEF LevelsOf
<1>22. RegistryOf(s)'
  <2>1. \A x \in live_txns(s) : x \in Xid /\ x # n
    BY NumberFacts
  <2>2. \A x \in Xid : subtrans'[x] = IF x = n THEN txn_id[s] ELSE subtrans[x]
    BY <1>4, <1>9, NumberFacts
  <2>3. (pc[s] \in Registered => live_txns(s) \subseteq active)'
    BY <1>4, <1>5, <1>13
  <2>4. (\A x \in live_subxids[s] \cap active : subtrans[x] = txn_id[s])'
    <3>1. ASSUME NEW x \in live_subxids'[s] \cap active' PROVE subtrans'[x] = txn_id[s]
      <4>1. CASE x = n
        BY <4>1, <2>2, <1>9
      <4>2. CASE x # n
        <5>1. x \in live_subxids[s] \cap active
          BY <3>1, <4>2, <1>4, <1>13
        <5> QED  BY <5>1, <4>2, <2>2, <1>5, TxnShapes DEF RegistryOf
      <4> QED  BY <4>1, <4>2
    <3> QED  BY <3>1, <1>4
  <2>5. (txn_id[s] # NoXid => subtrans[txn_id[s]] = NoXid)'
    <3>1. txn_id[s] \in live_txns(s)
      BY <1>5 DEF live_txns
    <3>2. txn_id[s] \in Xid /\ txn_id[s] # n
      BY <2>1, <3>1
    <3> QED  BY <3>2, <2>2, <1>4, <1>5 DEF RegistryOf
  <2> QED  BY <2>3, <2>4, <2>5, <1>13 DEF RegistryOf
<1>23. ClogOf(s)'
  <2>1. clog'[n] = "InProgress"
    BY <1>4, <1>9, NumberFacts DEF IInv, Fresh
  <2>2. \A x \in live_txns(s) : clog[x] = "InProgress"
    BY <1>4, <1>5 DEF ClogOf, Undecided
  <2> QED  BY <2>1, <2>2, <1>4, <1>13 DEF ClogOf
<1>24. WriterOf(s)'
  <2>1. ASSUME NEW j \in 1..i, ~ levels'[s][j].writer, NEW sl \in Slot, heap'[sl].xmax \in live_txns(s)'
        PROVE  heap'[sl].xmax >= Level(s, j)'
    <3>1. heap[sl].xmax \in live_txns(s) /\ heap' = heap
      BY <2>1, <1>4, <1>13, <1>14
    <3>2. CASE j # i
      <4>1. levels'[s][j] = levels[s][j] /\ Level(s, j)' = Level(s, j)
        BY <3>2, <1>11, <1>12
      <4> QED  BY <4>1, <3>1, <2>1, <1>1, <1>5 DEF WriterOf
    <3>3. CASE j = i
      <4>1. ~ lv.writer
        BY <3>3, <2>1, <1>10, <1>11
      <4> QED  BY <4>1, <3>1, <1>15
    <3> QED  BY <3>2, <3>3
  <2> QED  BY <2>1, <1>11, <1>13 DEF WriterOf
<1>25. OwnStamps(s)
  <2>1. ASSUME NEW sl \in Slot, s \in writers, heap[sl].xmax \in live_txns(s) PROVE s \in writers'
    BY <2>1, <1>4, <1>15
  <2> QED  BY <2>1, <1>4, <1>13 DEF OwnStamps
<1> QED  BY <1>17, <1>18, <1>19, <1>20, <1>21, <1>22, <1>23, <1>24, <1>25, ControlKeeps

LEMMA DropTransactionKeeps ==
  ASSUME IInv, NEW s \in Session, DropTransaction(s), UNCHANGED scale
  PROVE  IInv'
<1>1. /\ pc[s] = "settled" /\ pc' = [pc EXCEPT ![s] = "idle"] /\ ReleaseSnapshot(s)
      /\ rowlock' = [k \in Key |-> rowlock[k] \ {s}] /\ writers' = writers \ {s}
      /\ txn_id' = [txn_id EXCEPT ![s] = NoXid] /\ live_subxids' = [live_subxids EXCEPT ![s] = {}]
      /\ levels' = [levels EXCEPT ![s] = <<>>] /\ wrote' = [wrote EXCEPT ![s] = FALSE]
      /\ iso' = [iso EXCEPT ![s] = "ReadCommitted"]
      /\ UNCHANGED <<next_txn_id, active, subtrans, clog, heap, horizon, todo, target, vac>>
  BY DEF DropTransaction
<1>2. txn_id'[s] = NoXid /\ live_subxids'[s] = {} /\ levels'[s] = <<>> /\ pc'[s] = "idle"
  BY <1>1, TxnShapes, NumberFacts
<1>3. live_txns(s)' = {}
  BY <1>2 DEF live_txns
<1>4. PICK q : q = "idle"
  OBVIOUS
<1>5. ControlFrame(s, q)
  <2>1. q \in Pcs \ ({"read"} \cup Statement) /\ pc[s] \notin {"read"} \cup Statement
    BY <1>1, <1>4 DEF Pcs, Statement
  <2>2. RegistryStep
    BY <1>1, SameRegistry
  <2> QED  BY <2>1, <2>2, <1>1, <1>3, <1>4, TxnShapes DEF ControlFrame
<1>6. TypeOK'
  <2>1. txn_id' \in [Session -> 0..MaxXid] /\ live_subxids' \in [Session -> SUBSET Xid]
    BY <1>1, TxnShapes, NumberFacts DEF NoXid
  <2>2. levels' \in [Session -> Seq(LevelType)] /\ iso' \in [Session -> {"ReadCommitted", "RepeatableRead"}]
    <3>1. <<>> \in Seq(LevelType)
      OBVIOUS
    <3> QED  BY <3>1, <1>1, TxnShapes
  <2>3. rowlock' \in [Key -> SUBSET Session] /\ wrote' \in [Session -> BOOLEAN]
    BY <1>1, TxnShapes
  <2>4. RegistryTypes'
    BY <1>1, SameRegistry
  <2> QED  BY <2>1, <2>2, <2>3, <2>4, <1>1, <1>5, TxnShapes, ControlTypes
<1>7. Room'
  <2>1. Undoing' = Undoing
    BY <1>1, <1>2, NumberFacts DEF Undoing
  <2> QED  BY <2>1, <1>1 DEF IInv, Room
<1>8. FamilyOf(s)'
  BY <1>1, <1>2, NumberFacts DEF FamilyOf, NoXid
<1>9. LevelsOf(s)' /\ RegistryOf(s)' /\ ClogOf(s)' /\ WriterOf(s)'
  BY <1>1, <1>2, <1>3 DEF LevelsOf, RegistryOf, ClogOf, WriterOf, Registered, Undecided, Statement
<1>10. OwnStamps(s)
  <2>1. live_txns(s) \cap active = {}
    BY <1>1, FamilyFacts DEF RegistryOf
  <2> QED  BY <2>1, <1>1 DEF OwnStamps
<1> QED  BY <1>5, <1>6, <1>7, <1>8, <1>9, <1>10, ControlKeeps

-----------------------------------------------------------------------------
(* VACUUM.                                                                 *)

VacuumPcs == {"idle", "begun", "locked", "horizon", "settled", "pruned"}
VacuumType == [pc : VacuumPcs, xid : 0..MaxXid, horizon : 0..MaxId, boundary : 0..MaxId,
               vacuum_floor : 0..MaxId, left : 0..MaxVacuums]

LEMMA VacuumFields ==
  ASSUME NEW v \in VacuumType
  PROVE  /\ \A p \in VacuumPcs : [v EXCEPT !.pc = p] \in VacuumType
         /\ \A x \in 0..MaxXid : [v EXCEPT !.xid = x] \in VacuumType
         /\ \A h \in 0..MaxId : /\ [v EXCEPT !.horizon = h] \in VacuumType
                               /\ [v EXCEPT !.boundary = h] \in VacuumType
                               /\ [v EXCEPT !.vacuum_floor = h] \in VacuumType
         /\ \A n \in 0..MaxVacuums : [v EXCEPT !.left = n] \in VacuumType
<1>1. \A p \in VacuumPcs : [v EXCEPT !.pc = p] \in VacuumType
  BY DEF VacuumType
<1>2. \A x \in 0..MaxXid : [v EXCEPT !.xid = x] \in VacuumType
  BY DEF VacuumType
<1>3. \A h \in 0..MaxId : [v EXCEPT !.horizon = h] \in VacuumType
  BY DEF VacuumType
<1>4. \A h \in 0..MaxId : [v EXCEPT !.boundary = h] \in VacuumType
  BY DEF VacuumType
<1>5. \A h \in 0..MaxId : [v EXCEPT !.vacuum_floor = h] \in VacuumType
  BY DEF VacuumType
<1>6. \A n \in 0..MaxVacuums : [v EXCEPT !.left = n] \in VacuumType
  BY DEF VacuumType
<1> QED  BY <1>1, <1>2, <1>3, <1>4, <1>5, <1>6

LEMMA VacuumShape ==
  ASSUME IInv
  PROVE  /\ vac \in VacuumType /\ 0 \in 0..MaxId /\ 0 \in 0..MaxXid /\ MaxVacuums \in Nat
         /\ vac.pc \in VacuumPcs /\ vac.xid \in 0..MaxXid /\ vac.horizon \in 0..MaxId
         /\ vac.boundary \in 0..MaxId /\ vac.vacuum_floor \in 0..MaxId /\ vac.left \in 0..MaxVacuums
         /\ vac.xid \in Nat /\ vac.xid < next_txn_id
<1>1. vac \in VacuumType
  BY DEF IInv, TypeOK, VacuumType, VacuumPcs
<1>2. 0 \in 0..MaxId /\ 0 \in 0..MaxXid /\ MaxVacuums \in Nat /\ MaxXid \in Nat
  BY MvccAssumption DEF MaxId
<1>3. vac.xid \in 0..MaxXid /\ vac.xid < next_txn_id
  BY <1>1 DEF VacuumType, IInv, VacuumId
<1> QED  BY <1>1, <1>2, <1>3 DEF VacuumType

\* A step of VACUUM touches no session: at most its own id leaves the registry.
VacuumFrame ==
  /\ UNCHANGED <<scale, xmins, rowlock, writers, pc, iso, txn_id, live_subxids, levels, wrote,
                 snap, horizon, todo, target>>
  /\ RegistryStep /\ RegistryTypes'
  /\ \A x \in active \ active' : x = vac.xid
  /\ clog' \in [Xid -> {"InProgress", "Committed", "Aborted"}]
  /\ \A x \in Xid : clog'[x] # clog[x] => x = vac.xid
  /\ heap' \in [Slot -> VersionType] /\ Kept(heap, heap')
  /\ vac' \in VacuumType

LEMMA VacuumKeeps ==
  ASSUME IInv, VacuumFrame, Room', VacuumId', VacuumHorizons'
  PROVE  IInv'
<1>1. UNCHANGED <<scale, xmins, rowlock, writers, pc, iso, txn_id, live_subxids, levels, wrote,
                  snap, horizon, todo, target>> /\ RegistryStep /\ RegistryTypes'
  BY DEF VacuumFrame
<1>2. \A r \in Session : live_txns(r)' = live_txns(r) /\ InUse(r)' = InUse(r)
  BY <1>1 DEF live_txns, InUse
<1>3. next_txn_id' \in {next_txn_id, next_txn_id + 1} /\ next_txn_id \in Nat
  BY <1>1, NumberFacts DEF RegistryStep
<1>4. ASSUME NEW r \in Session, NEW x \in live_txns(r)
      PROVE  /\ x \in active <=> x \in active'
             /\ clog'[x] = clog[x] /\ x \in Xid /\ x < next_txn_id
             /\ subtrans[x] = NoXid => subtrans'[x] = NoXid
             /\ x \in active => subtrans'[x] = subtrans[x]
  <2>1. x \in Xid /\ x < next_txn_id /\ x # next_txn_id /\ x # vac.xid
    BY NumberFacts DEF IInv, VacuumId
  <2>2. x \in active' => x \in active
    BY <2>1, <1>1 DEF RegistryStep
  <2>3. x \in active => x \in active'
    BY <2>1 DEF VacuumFrame
  <2>4. clog'[x] = clog[x]
    BY <2>1 DEF VacuumFrame
  <2> QED  BY <2>1, <2>2, <2>3, <2>4, <1>1 DEF RegistryStep
<1>5. TypeOK'
  <2>1. vac' \in [pc : {"idle", "begun", "locked", "horizon", "settled", "pruned"},
              xid : 0..MaxXid, horizon : 0..MaxId, boundary : 0..MaxId,
              vacuum_floor : 0..MaxId, left : 0..MaxVacuums]
    BY DEF VacuumFrame, VacuumType, VacuumPcs
  <2> QED  BY <2>1, <1>1 DEF IInv, TypeOK, RegistryTypes, VacuumFrame
<1>6. Targets'
  BY <1>1 DEF IInv, Targets
<1>7. Disjoint'
  BY <1>2 DEF IInv, Disjoint
<1>8. Fresh'
  <2>1. \A x \in active' : x < next_txn_id'
    BY <1>1, <1>3, NumberFacts DEF RegistryStep
  <2>2. ASSUME NEW x \in Xid, x >= next_txn_id' PROVE clog'[x] = "InProgress" /\ subtrans'[x] = NoXid
    <3>1. x \in Nat /\ x >= next_txn_id
      BY <2>2, <1>3, NumberFacts
    <3>2. x # vac.xid
      BY <3>1, <1>3, VacuumShape
    <3>3. clog'[x] = clog[x]
      BY <3>2 DEF VacuumFrame
    <3> QED  BY <2>2, <3>1, <3>3, <1>1 DEF RegistryStep, IInv, Fresh
  <2> QED  BY <2>1, <2>2 DEF Fresh
<1>9. ASSUME NEW r \in Session PROVE FamilyOf(r)' /\ LevelsOf(r)'
  <2>1. FamilyOf(r) /\ LevelsOf(r) /\ txn_id[r] \in Nat /\ live_subxids[r] \subseteq Nat
    BY TxnShapes, NumberFacts DEF IInv
  <2>2. FamilyOf(r)'
    BY <2>1, <1>1, <1>3 DEF FamilyOf
  <2>3. \A i \in 1..Len(levels[r]) : Level(r, i) \in Nat /\ Level(r, i)' = Level(r, i)
    BY <1>1, LevelFacts DEF IInv, Level
  <2>4. (\A i \in 1..Len(levels[r]) :
       /\ txn_id[r] < Level(r, i) /\ Level(r, i) < next_txn_id
       /\ Level(r, i) \in live_subxids[r] \/ (pc[r] \in {"undo", "undone"} /\ i = Len(levels[r])))'
    BY <2>1, <2>3, <1>1, <1>3 DEF LevelsOf
  <2>5. LevelsOf(r)'
    BY <2>1, <2>4, <1>1 DEF LevelsOf, Level
  <2> QED  BY <2>2, <2>5
<1>10. ASSUME NEW r \in Session PROVE RegistryOf(r)'
  <2>1. RegistryOf(r) /\ live_subxids[r] \subseteq live_txns(r) /\ FamilyOf(r)
        /\ (txn_id[r] # NoXid => txn_id[r] \in live_txns(r))
    BY FamilyFacts
  <2>2. pc[r] = "abort_top" => txn_id[r] # NoXid
    BY <2>1 DEF FamilyOf
  <2> QED  BY <2>1, <2>2, <1>1, <1>2, <1>4 DEF RegistryOf
<1>11. ASSUME NEW r \in Session PROVE ClogOf(r)'
  <2>1. ClogOf(r)
    BY DEF IInv
  <2>2. \A p \in Session : Apart(p, r)' = Apart(p, r) /\ Beyond(p, r)' = Beyond(p, r)
    BY <1>1, <1>2 DEF Apart, Beyond
  <2>3. CASE pc[r] = "settled"
    <3>1. CASE \A x \in live_txns(r) : clog[x] # "Committed"
      BY <3>1, <2>3, <1>1, <1>2, <1>4 DEF ClogOf, Undecided, Statement
    <3>2. CASE /\ \A x \in live_txns(r) : clog[x] = "Committed"
               /\ \A p \in Session : p # r /\ InUse(p) => Apart(p, r) \/ Beyond(p, r)
      BY <3>2, <2>2, <2>3, <1>1, <1>2, <1>4 DEF ClogOf, Undecided, Statement
    <3> QED  BY <3>1, <3>2, <2>1, <2>3 DEF ClogOf
  <2>4. CASE pc[r] # "settled"
    BY <2>1, <2>4, <1>1, <1>2, <1>4 DEF ClogOf
  <2> QED  BY <2>3, <2>4
<1>12. ASSUME NEW r \in Session PROVE SnapshotOf(r)'
  <2>1. SnapshotOf(r)
    BY DEF IInv
  <2>2. CASE ~ InUse(r)
    BY <2>1, <2>2, <1>1, <1>2 DEF SnapshotOf
  <2>3. CASE InUse(r)
    <3>1. /\ 1 <= snap[r].xmin /\ snap[r].xmin <= snap[r].xmax /\ snap[r].xmax <= next_txn_id
          /\ \A x \in snap[r].xip : snap[r].xmin <= x
          /\ \A x \in active : /\ snap[r].xmin <= x
                               /\ x < snap[r].xmax => x \in snap[r].xip \/ x = txn_id[r]
      BY <2>1, <2>3 DEF SnapshotOf
    <3>2. snap[r].xmin \in Nat /\ snap[r].xmax \in Nat
      BY NumberFacts DEF IInv, TypeOK, SnapshotType
    <3>3. \A x \in active' : x \in active \/ x = next_txn_id
      BY <1>1 DEF RegistryStep
    <3>4. next_txn_id >= snap[r].xmin /\ ~ (next_txn_id < snap[r].xmax)
      BY <3>1, <3>2, <1>3
    <3>5. (InUse(r) =>
       /\ 1 <= snap[r].xmin /\ snap[r].xmin <= snap[r].xmax /\ snap[r].xmax <= next_txn_id
       /\ \A x \in snap[r].xip : snap[r].xmin <= x
       /\ \A x \in active : /\ snap[r].xmin <= x
                            /\ x < snap[r].xmax => x \in snap[r].xip \/ x = txn_id[r])'
      BY <3>1, <3>2, <3>3, <3>4, <1>1, <1>3
    <3> QED  BY <3>5, <2>1, <1>1, <1>2 DEF SnapshotOf
  <2> QED  BY <2>2, <2>3
<1>13. AdvertisedExactly'
  BY <1>1 DEF IInv, AdvertisedExactly
<1>14. \A sl \in Slot : /\ heap'[sl].xmin \in {NoXid, heap[sl].xmin}
                        /\ heap'[sl].xmax \in {NoXid, heap[sl].xmax}
  BY DEF VacuumFrame, Kept
<1>15. Stamps'
  <2>1. ASSUME NEW sl \in Slot PROVE heap'[sl].xmin < next_txn_id' /\ heap'[sl].xmax < next_txn_id'
    <3>1. heap[sl].xmin < next_txn_id /\ heap[sl].xmax < next_txn_id /\ heap[sl] \in VersionType
      BY DEF IInv, Stamps, TypeOK
    <3>2. heap[sl].xmin \in Nat /\ heap[sl].xmax \in Nat
      BY <3>1, NumberFacts DEF VersionType
    <3> QED  BY <3>1, <3>2, <1>3, <1>14, NumberFacts DEF NoXid
  <2>2. ASSUME NEW sl \in Slot, heap'[sl].xmax \in active'
        PROVE  \E r \in writers' : \/ heap'[sl].xmax \in live_txns(r)'
                                   \/ pc'[r] = "undo" /\ subtrans'[heap'[sl].xmax] = txn_id'[r]
    <3> DEFINE x == heap[sl].xmax
    <3>1. x \in active' /\ x < next_txn_id /\ heap'[sl].xmax = x
      <4>1. NoXid \notin active'
        BY <1>1, NumberFacts DEF RegistryTypes, Xid, NoXid
      <4> QED  BY <4>1, <2>2, <1>14 DEF IInv, Stamps
    <3> HIDE DEF x
    <3>2. x \in active
      <4>1. x \in active \/ x = next_txn_id
        BY <3>1, <1>1 DEF RegistryStep
      <4> QED  BY <4>1, <3>1, <1>3
    <3>3. subtrans'[x] = subtrans[x]
      BY <3>1, <3>2, <1>1, NumberFacts DEF RegistryStep
    <3>4. PICK r \in writers : x \in live_txns(r) \/ (pc[r] = "undo" /\ subtrans[x] = txn_id[r])
      BY <3>2 DEF IInv, Stamps, x
    <3>5. r \in Session
      BY TxnShapes
    <3> QED  BY <3>1, <3>3, <3>4, <3>5, <1>1, <1>2
  <2> QED  BY <2>1, <2>2 DEF Stamps
<1>16. ASSUME NEW r \in Session PROVE WriterOf(r)' /\ HorizonOf(r)'
  <2>1. WriterOf(r) /\ HorizonOf(r)
    BY DEF IInv
  <2>2. \A sl \in Slot : heap'[sl].xmax \in live_txns(r) => heap'[sl].xmax = heap[sl].xmax
    BY <1>14, NumberFacts
  <2>3. (\A i \in 1..Len(levels[r]) : ~ levels[r][i].writer =>
          \A sl \in Slot : heap[sl].xmax \in live_txns(r) => heap[sl].xmax >= Level(r, i))'
    BY <2>1, <2>2, <1>1, <1>2 DEF WriterOf, Level
  <2>4. WriterOf(r)'
    BY <2>1, <2>3, <1>1 DEF WriterOf
  <2>5. HorizonOf(r)'
    BY <2>1, <1>1, <1>2 DEF HorizonOf
  <2> QED  BY <2>4, <2>5
<1> QED  BY <1>5, <1>6, <1>7, <1>8, <1>9, <1>10, <1>11, <1>12, <1>13, <1>15, <1>16 DEF IInv

LEMMA SameHeap ==
  ASSUME IInv, UNCHANGED heap
  PROVE  heap' \in [Slot -> VersionType] /\ Kept(heap, heap')
  BY TxnShapes DEF Kept

LEMMA VacuumBeginKeeps ==
  ASSUME IInv, VacuumBegin, UNCHANGED scale
  PROVE  IInv'
<1> DEFINE n == next_txn_id
<1>1. /\ vac.pc = "idle" /\ vac.left > 0 /\ active' = active \cup {n} /\ next_txn_id' = n + 1
      /\ vac' = [vac EXCEPT !.pc = "begun", !.xid = n, !.left = @ - 1]
      /\ UNCHANGED <<subtrans, xmins, clog, heap, rowlock, writers, pc, iso, txn_id, live_subxids,
                     levels, wrote, snap, horizon, todo, target>>
  BY DEF VacuumBegin, register_allocated, locks, txn, stmt
<1>2. PICK t \in 0..MaxXid : t = 0
  BY NumberFacts
<1>3. RegistryStep /\ RegistryTypes' /\ n \in Xid
  <2>1. n <= MaxXid
    BY RoomFacts DEF VacuumBegin
  <2> QED  BY <2>1, <1>1, RegisterStep DEF VacuumBegin
<1>4. vac' \in VacuumType /\ vac'.xid = n /\ vac'.pc = "begun"
  <2> DEFINE l == vac.left - 1
             v1 == [vac EXCEPT !.pc = "begun"]
             v2 == [v1 EXCEPT !.xid = n]
             v3 == [v2 EXCEPT !.left = l]
  <2>1. vac' = v3 /\ v3.xid = n /\ v3.pc = "begun"
    BY <1>1, VacuumShape DEF VacuumType
  <2>2. l \in 0..MaxVacuums /\ n \in 0..MaxXid /\ "begun" \in VacuumPcs
    BY <1>1, <1>3, VacuumShape, NumberFacts DEF VacuumPcs, Xid
  <2> HIDE DEF l, n
  <2>3. v1 \in VacuumType
    BY <2>2, VacuumShape, VacuumFields
  <2>4. v1 \in VacuumType => v2 \in VacuumType
    <3> HIDE DEF v1
    <3> QED  BY <2>2, VacuumFields
  <2>5. v2 \in VacuumType => v3 \in VacuumType
    <3> HIDE DEF v2
    <3> QED  BY <2>2, VacuumFields
  <2> HIDE DEF v3
  <2> QED  BY <2>1, <2>3, <2>4, <2>5
<1>5. VacuumFrame
  <2>1. clog' \in [Xid -> {"InProgress", "Committed", "Aborted"}]
    BY <1>1, TxnShapes
  <2> QED  BY <2>1, <1>1, <1>3, <1>4, SameHeap DEF VacuumFrame
<1>6. Room'
  <2>1. Undoing' = Undoing
    BY <1>1 DEF Undoing
  <2>2. next_txn_id + Cardinality(Undoing) <= scale.max_xid
    BY DEF VacuumBegin, RoomForXid
  <2> QED  BY <2>1, <2>2, <1>1, UndoingFacts, TxnShapes, NumberFacts DEF Room
<1>7. VacuumId'
  <2>1. subtrans'[n] = NoXid
    BY <1>1, <1>3, NumberFacts
  <2>2. ASSUME NEW r \in Session PROVE n \notin live_txns(r)'
    <3>1. live_txns(r)' = live_txns(r)
      BY <1>1 DEF live_txns
    <3> QED  BY <3>1, NumberFacts
  <2> QED  BY <2>1, <2>2, <1>1, <1>4, NumberFacts DEF VacuumId
<1>8. VacuumHorizons'
  BY <1>4 DEF VacuumHorizons, ShareLocked
<1> QED  BY <1>5, <1>6, <1>7, <1>8, VacuumKeeps

\* A step of VACUUM that leaves the registry and the commit log alone.
QuietVacuum ==
  UNCHANGED <<scale, next_txn_id, active, subtrans, xmins, clog, rowlock, writers, pc, iso, txn_id,
              live_subxids, levels, wrote, snap, horizon, todo, target>>

LEMMA QuietKeeps ==
  ASSUME IInv, QuietVacuum, heap' \in [Slot -> VersionType], Kept(heap, heap'), vac' \in VacuumType,
         VacuumHorizons',
         \/ vac'.xid = vac.xid /\ (vac'.pc \in {"begun", "locked", "horizon"} =>
                                     vac.pc \in {"begun", "locked", "horizon"})
         \/ vac'.xid = NoXid /\ vac'.pc = "idle"
  PROVE  IInv'
<1>1. VacuumFrame
  BY TxnShapes, SameRegistry DEF VacuumFrame, QuietVacuum
<1>2. Room'
  BY DEF IInv, Room, Undoing, QuietVacuum
<1>3. VacuumId'
  <2>1. \A r \in Session : live_txns(r)' = live_txns(r) /\ NoXid \notin live_txns(r)
    BY NumberFacts DEF live_txns, QuietVacuum
  <2>2. VacuumId /\ NoXid < next_txn_id
    BY NumberFacts DEF IInv, NoXid
  <2> QED  BY <2>1, <2>2 DEF VacuumId, QuietVacuum
<1> QED  BY <1>1, <1>2, <1>3, VacuumKeeps

LEMMA VacuumLockKeeps ==
  ASSUME IInv, VacuumLock, UNCHANGED scale
  PROVE  IInv'
<1>1. vac.pc = "begun" /\ writers = {} /\ vac' = [vac EXCEPT !.pc = "locked"] /\ QuietVacuum
      /\ UNCHANGED heap
  BY DEF VacuumLock, QuietVacuum, registry, locks, txn, stmt
<1>2. vac' \in VacuumType /\ vac'.xid = vac.xid /\ vac'.pc = "locked"
  BY <1>1, VacuumShape DEF VacuumType, VacuumPcs
<1>3. VacuumHorizons'
  BY <1>1, <1>2 DEF VacuumHorizons, QuietVacuum
<1> QED  BY <1>1, <1>2, <1>3, SameHeap, QuietKeeps

LEMMA VacuumHorizonKeeps ==
  ASSUME IInv, VacuumHorizon, UNCHANGED scale
  PROVE  IInv'
<1>1. PICK h : h = gc_horizon
  OBVIOUS
<1>2. PICK b : b = Min(active)
  OBVIOUS
<1>3. vac.pc = "locked" /\ vac' = [vac EXCEPT !.pc = "horizon", !.horizon = h, !.boundary = b]
      /\ QuietVacuum /\ UNCHANGED heap
  BY <1>1, <1>2 DEF VacuumHorizon, QuietVacuum, registry, locks, txn, stmt
<1>4. h \in 0..MaxId /\ \A r \in Session : InUse(r) => h <= snap[r].xmin
  BY <1>1, HorizonFacts
<1>5. b \in 0..MaxId
  <2>1. vac.xid \in active /\ active \subseteq Nat
    BY <1>3, NumberFacts DEF IInv, VacuumId
  <2>2. b \in active
    BY <2>1, <1>2, MinFacts
  <2> QED  BY <2>2, NumberFacts DEF Xid
<1>6. vac' \in VacuumType /\ vac'.xid = vac.xid /\ vac'.pc = "horizon" /\ vac'.horizon = h
  <2> DEFINE v1 == [vac EXCEPT !.pc = "horizon"]
             v2 == [v1 EXCEPT !.horizon = h]
             v3 == [v2 EXCEPT !.boundary = b]
  <2>1. vac' = v3 /\ v3.xid = vac.xid /\ v3.pc = "horizon" /\ v3.horizon = h
    BY <1>3, VacuumShape DEF VacuumType
  <2>2. "horizon" \in VacuumPcs
    BY DEF VacuumPcs
  <2>3. v1 \in VacuumType
    BY <2>2, VacuumShape, VacuumFields
  <2>4. v1 \in VacuumType => v2 \in VacuumType
    <3> HIDE DEF v1
    <3> QED  BY <1>4, VacuumFields
  <2>5. v2 \in VacuumType => v3 \in VacuumType
    <3> HIDE DEF v2
    <3> QED  BY <1>5, VacuumFields
  <2> HIDE DEF v3
  <2> QED  BY <2>1, <2>3, <2>4, <2>5
<1>7. VacuumHorizons'
  <2>1. writers = {}
    BY <1>3 DEF IInv, VacuumHorizons, ShareLocked
  <2>2. \A r \in Session : InUse(r)' => vac'.horizon <= snap'[r].xmin
    BY <1>3, <1>4, <1>6 DEF QuietVacuum, InUse
  <2> QED  BY <2>1, <2>2, <1>3 DEF VacuumHorizons, QuietVacuum
<1> QED  BY <1>3, <1>6, <1>7, SameHeap, QuietKeeps

LEMMA VacuumPruneKeeps ==
  ASSUME IInv, VacuumPrune, UNCHANGED scale
  PROVE  IInv'
<1>1. vac.pc = "settled" /\ vac' = [vac EXCEPT !.pc = "pruned"] /\ QuietVacuum
      /\ heap' = Pruned(vac.horizon, TRUE)
  BY DEF VacuumPrune, QuietVacuum, registry, locks, txn, stmt
<1>2. vac' \in VacuumType /\ vac'.xid = vac.xid /\ vac'.pc = "pruned"
  BY <1>1, VacuumShape DEF VacuumType, VacuumPcs
<1>3. heap' \in [Slot -> VersionType] /\ Kept(heap, heap')
  <2> DEFINE b == TRUE
  <2>1. b \in BOOLEAN /\ heap' = Pruned(vac.horizon, b)
    BY <1>1
  <2> HIDE DEF b
  <2>2. PICK hz : hz = vac.horizon
    OBVIOUS
  <2>3. Pruned(hz, b) \in [Slot -> VersionType] /\ Kept(heap, Pruned(hz, b))
    BY PrunedFacts DEF IInv
  <2> QED  BY <2>1, <2>2, <2>3
<1>4. VacuumHorizons'
  <2>1. writers = {}
    BY <1>1 DEF IInv, VacuumHorizons, ShareLocked
  <2> QED  BY <2>1, <1>1, <1>2 DEF VacuumHorizons, QuietVacuum
<1> QED  BY <1>1, <1>2, <1>3, <1>4, QuietKeeps

LEMMA MaxFacts ==
  ASSUME NEW a \in Nat, NEW b \in Nat
  PROVE  Max({a, b}) \in {a, b}
<1>1. \E x \in {a, b} : \A y \in {a, b} : x >= y
  <2>1. CASE a >= b
    BY <2>1
  <2>2. CASE b >= a
    BY <2>2
  <2> QED  BY <2>1, <2>2
<1> QED  BY <1>1 DEF Max

LEMMA VacuumReleaseKeeps ==
  ASSUME IInv, VacuumRelease, UNCHANGED scale
  PROVE  IInv'
<1>1. PICK f : f = Max({vac.vacuum_floor, vac.boundary})
  OBVIOUS
<1>2. vac.pc = "pruned" /\ QuietVacuum /\ UNCHANGED heap
      /\ vac' = [vac EXCEPT !.pc = "idle", !.xid = NoXid, !.horizon = 0, !.boundary = 0,
                            !.vacuum_floor = f]
  BY <1>1 DEF VacuumRelease, QuietVacuum, registry, locks, txn, stmt
<1>3. f \in 0..MaxId
  <2> DEFINE x == vac.vacuum_floor
             y == vac.boundary
  <2>1. x \in 0..MaxId /\ y \in 0..MaxId /\ x \in Nat /\ y \in Nat
    BY VacuumShape, NumberFacts
  <2> HIDE DEF x, y
  <2>2. Max({x, y}) \in {x, y}
    BY <2>1, MaxFacts
  <2> QED  BY <2>1, <2>2, <1>1 DEF x, y
<1>4. vac' \in VacuumType /\ vac'.xid = NoXid /\ vac'.pc = "idle"
  <2> DEFINE v1 == [vac EXCEPT !.pc = "idle"]
             v2 == [v1 EXCEPT !.xid = NoXid]
             v3 == [v2 EXCEPT !.horizon = 0]
             v4 == [v3 EXCEPT !.boundary = 0]
             v5 == [v4 EXCEPT !.vacuum_floor = f]
  <2>1. vac' = v5 /\ v5.xid = NoXid /\ v5.pc = "idle"
    BY <1>2, VacuumShape DEF VacuumType
  <2>2. "idle" \in VacuumPcs /\ NoXid \in 0..MaxXid /\ 0 \in 0..MaxId
    BY VacuumShape DEF VacuumPcs, NoXid
  <2>3. v1 \in VacuumType
    BY <2>2, VacuumShape, VacuumFields
  <2>4. v1 \in VacuumType => v2 \in VacuumType
    <3> HIDE DEF v1
    <3> QED  BY <2>2, VacuumFields
  <2>5. v2 \in VacuumType => v3 \in VacuumType
    <3> HIDE DEF v2
    <3> QED  BY <2>2, VacuumFields
  <2>6. v3 \in VacuumType => v4 \in VacuumType
    <3> HIDE DEF v3
    <3> QED  BY <2>2, VacuumFields
  <2>7. v4 \in VacuumType => v5 \in VacuumType
    <3> HIDE DEF v4
    <3> QED  BY <1>3, VacuumFields
  <2> HIDE DEF v5
  <2> QED  BY <2>1, <2>3, <2>4, <2>5, <2>6, <2>7
<1>5. VacuumHorizons'
  BY <1>4 DEF VacuumHorizons, ShareLocked
<1> QED  BY <1>2, <1>4, <1>5, SameHeap, QuietKeeps

\* VACUUM's id leaves the registry, committed or aborted.
LEMMA VacuumLeaves ==
  ASSUME IInv, UNCHANGED <<scale, next_txn_id, xmins, heap, locks, pc, txn, stmt>>,
         vac.pc \in {"begun", "locked", "horizon"},
         NEW st \in {"InProgress", "Committed", "Aborted"}, SetClog({vac.xid}, st),
         deregister_all({vac.xid}), vac' \in VacuumType, VacuumHorizons',
         \/ vac'.xid = vac.xid /\ vac'.pc = "settled"
         \/ vac'.xid = NoXid /\ vac'.pc = "idle"
  PROVE  IInv'
<1>1. UNCHANGED <<scale, next_txn_id, xmins, heap, rowlock, writers, pc, iso, txn_id, live_subxids,
                  levels, wrote, snap, horizon, todo, target>>
  BY DEF locks, txn, stmt
<1>2. PICK xs : xs = {vac.xid}
  OBVIOUS
<1>3. RegistryStep /\ RegistryTypes' /\ active' = active \ xs
  BY <1>1, <1>2, DeregisterStep
<1>4. /\ clog' \in [Xid -> {"InProgress", "Committed", "Aborted"}]
      /\ \A x \in Xid : clog'[x] = IF x \in xs THEN st ELSE clog[x]
  BY <1>2, SetClogFacts
<1>5. VacuumFrame
  BY <1>1, <1>2, <1>3, <1>4, SameHeap DEF VacuumFrame
<1>6. Room'
  BY <1>1 DEF IInv, Room, Undoing
<1>7. VacuumId'
  <2>1. \A r \in Session : live_txns(r)' = live_txns(r) /\ NoXid \notin live_txns(r)
    BY <1>1, NumberFacts DEF live_txns
  <2>2. VacuumId /\ NoXid < next_txn_id
    BY NumberFacts DEF IInv, NoXid
  <2> QED  BY <2>1, <2>2, <1>1 DEF VacuumId
<1> QED  BY <1>5, <1>6, <1>7, VacuumKeeps

LEMMA VacuumFailKeeps ==
  ASSUME IInv, VacuumFail, UNCHANGED scale
  PROVE  IInv'
<1>1. vac' = [vac EXCEPT !.pc = "idle", !.xid = NoXid, !.horizon = 0, !.boundary = 0]
  BY DEF VacuumFail
<1>2. vac' \in VacuumType /\ vac'.xid = NoXid /\ vac'.pc = "idle"
  <2> DEFINE v1 == [vac EXCEPT !.pc = "idle"]
             v2 == [v1 EXCEPT !.xid = NoXid]
             v3 == [v2 EXCEPT !.horizon = 0]
             v4 == [v3 EXCEPT !.boundary = 0]
  <2>1. vac' = v4 /\ v4.xid = NoXid /\ v4.pc = "idle"
    BY <1>1, VacuumShape DEF VacuumType
  <2>2. "idle" \in VacuumPcs /\ NoXid \in 0..MaxXid /\ 0 \in 0..MaxId
    BY VacuumShape DEF VacuumPcs, NoXid
  <2>3. v1 \in VacuumType
    BY <2>2, VacuumShape, VacuumFields
  <2>4. v1 \in VacuumType => v2 \in VacuumType
    <3> HIDE DEF v1
    <3> QED  BY <2>2, VacuumFields
  <2>5. v2 \in VacuumType => v3 \in VacuumType
    <3> HIDE DEF v2
    <3> QED  BY <2>2, VacuumFields
  <2>6. v3 \in VacuumType => v4 \in VacuumType
    <3> HIDE DEF v3
    <3> QED  BY <2>2, VacuumFields
  <2> HIDE DEF v4
  <2> QED  BY <2>1, <2>3, <2>4, <2>5, <2>6
<1>3. VacuumHorizons'
  BY <1>2 DEF VacuumHorizons, ShareLocked
<1>4. PICK st \in {"InProgress", "Committed", "Aborted"} : st = "Aborted"
  OBVIOUS
<1> QED  BY <1>2, <1>3, <1>4, VacuumLeaves DEF VacuumFail

LEMMA VacuumSettleKeeps ==
  ASSUME IInv, VacuumSettle, UNCHANGED scale
  PROVE  IInv'
<1>1. vac' = [vac EXCEPT !.pc = "settled"] /\ vac.pc = "horizon" /\ UNCHANGED <<heap, writers, snap>>
  BY DEF VacuumSettle, locks, stmt
<1>2. vac' \in VacuumType /\ vac'.xid = vac.xid /\ vac'.pc = "settled" /\ vac'.horizon = vac.horizon
  BY <1>1, VacuumShape DEF VacuumType, VacuumPcs
<1>3. VacuumHorizons'
  <2>1. writers = {} /\ \A r \in Session : InUse(r) => vac.horizon <= snap[r].xmin \/ Untouched(r)
    BY <1>1 DEF IInv, VacuumHorizons, ShareLocked
  <2> QED  BY <2>1, <1>1, <1>2 DEF VacuumHorizons, InUse, Untouched
<1>4. PICK st \in {"InProgress", "Committed", "Aborted"} : st = "Committed"
  OBVIOUS
<1> QED  BY <1>1, <1>2, <1>3, <1>4, VacuumLeaves DEF VacuumSettle

-----------------------------------------------------------------------------
(* The invariant holds.                                                    *)

LoadedVersions == {FreeSlot} \cup {LoadedVersion(k, v) : k \in Loaded, v \in scale.unique \cup {Null}}

LEMMA InitIInv ==
  ASSUME Init
  PROVE  IInv
<1>0. /\ pc = [s \in Session |-> "idle"] /\ txn_id = [s \in Session |-> NoXid]
      /\ live_subxids = [s \in Session |-> {}] /\ levels = [s \in Session |-> <<>>]
      /\ snap = [s \in Session |-> NoSnapshot] /\ horizon = [s \in Session |-> 0]
      /\ todo = [s \in Session |-> {}] /\ target = [s \in Session |-> NoTarget]
      /\ next_txn_id = LoadXid + 1 /\ active = {} /\ writers = {} /\ scale \in Scales
      /\ subtrans = [x \in Xid |-> NoXid] /\ xmins = [x \in 1..MaxId |-> 0]
      /\ clog = [x \in Xid |-> IF x = LoadXid THEN "Committed" ELSE "InProgress"]
      /\ heap \in [Slot -> LoadedVersions] /\ rowlock = [k \in Key |-> {}]
      /\ iso = [s \in Session |-> "ReadCommitted"] /\ wrote = [s \in Session |-> FALSE]
      /\ vac = [pc |-> "idle", xid |-> NoXid, horizon |-> 0, boundary |-> 0,
                vacuum_floor |-> 0, left |-> scale.max_vacuums]
  <2>1. heap \in [Slot -> LoadedVersions]
    BY DEF Init, LoadedVersions
  <2>2. vac = [pc |-> "idle", xid |-> NoXid, horizon |-> 0, boundary |-> 0,
               vacuum_floor |-> 0, left |-> scale.max_vacuums]
    BY Zenon DEF Init
  <2>3. clog = [x \in Xid |-> IF x = LoadXid THEN "Committed" ELSE "InProgress"]
    BY Zenon DEF Init
  <2>4. /\ pc = [s \in Session |-> "idle"] /\ txn_id = [s \in Session |-> NoXid]
        /\ live_subxids = [s \in Session |-> {}] /\ levels = [s \in Session |-> <<>>]
        /\ snap = [s \in Session |-> NoSnapshot] /\ horizon = [s \in Session |-> 0]
    BY Zenon DEF Init
  <2>5. /\ todo = [s \in Session |-> {}] /\ target = [s \in Session |-> NoTarget]
    BY Zenon DEF Init
  <2>7. next_txn_id = LoadXid + 1 /\ active = {} /\ writers = {} /\ scale \in Scales
    BY DEF Init
  <2>8. subtrans = [x \in Xid |-> NoXid] /\ xmins = [x \in 1..MaxId |-> 0]
    BY Zenon DEF Init
  <2>6. /\ rowlock = [k \in Key |-> {}] /\ wrote = [s \in Session |-> FALSE]
        /\ iso = [s \in Session |-> "ReadCommitted"]
    BY Zenon DEF Init
  <2> QED  BY <2>1, <2>2, <2>3, <2>4, <2>5, <2>6, <2>7, <2>8, Zenon
<1> USE MvccAssumption
<1>1. next_txn_id = 2 /\ vac.pc = "idle" /\ vac.xid = NoXid
  BY <1>0 DEF LoadXid
<1>2. \A s \in Session : live_txns(s) = {} /\ ~ InUse(s)
  BY <1>0, <1>1 DEF live_txns, InUse
<1>3. MaxXid \in Nat /\ MaxXid >= 1 /\ MaxId = MaxXid + 1 /\ LoadXid \in 0..MaxXid
  BY DEF MaxId, LoadXid
<1>4. ASSUME NEW sl \in Slot
      PROVE  heap[sl] \in VersionType /\ heap[sl].xmin \in {NoXid, LoadXid} /\ heap[sl].xmax = NoXid
  <2>1. heap[sl] \in LoadedVersions
    BY <1>0
  <2>2. CASE heap[sl] = FreeSlot
    BY <2>2, FreeSlotFacts
  <2>3. ASSUME NEW k \in Loaded, NEW v \in scale.unique \cup {Null}, heap[sl] = LoadedVersion(k, v)
        PROVE  heap[sl] \in VersionType /\ heap[sl].xmin = LoadXid /\ heap[sl].xmax = NoXid
    <3>1. k \in Key /\ v \in Unique \cup {Null}
      BY <1>0
    <3>2. heap[sl] = [key |-> k, u |-> v, indexed |-> TRUE, xmin |-> LoadXid, xmax |-> NoXid,
                      ctid |-> NoSlot, heap_only |-> FALSE, hot_updated |-> FALSE]
      BY <2>3 DEF FreeSlot, LoadedVersion
    <3>3. NoXid \in 0..MaxXid /\ NoSlot \in 0..NumSlots
      BY FreeSlotFacts
    <3> QED  BY <3>1, <3>2, <3>3, <1>3 DEF VersionType
  <2> QED  BY <2>1, <2>2, <2>3 DEF LoadedVersions
<1>5. TypeOK
  <2>1. scale \in Scales /\ next_txn_id \in 1..MaxId /\ active \subseteq Xid
    BY <1>0, <1>1, <1>3
  <2>2. subtrans \in [Xid -> 0..MaxXid] /\ xmins \in [1..MaxId -> Nat]
    BY <1>0, <1>3 DEF NoXid
  <2>3. clog \in [Xid -> {"InProgress", "Committed", "Aborted"}]
    BY <1>0
  <2>4. heap \in [Slot -> VersionType]
    <3>1. heap = [sl \in Slot |-> heap[sl]]
      BY <1>0
    <3> QED  BY <3>1, <1>4
  <2>5. rowlock \in [Key -> SUBSET Session] /\ writers \subseteq Session
    BY <1>0, <1>1
  <2>6. pc \in [Session -> Pcs] /\ iso \in [Session -> {"ReadCommitted", "RepeatableRead"}]
    BY <1>0, <1>1 DEF Pcs
  <2>7. txn_id \in [Session -> 0..MaxXid] /\ live_subxids \in [Session -> SUBSET Xid]
    BY <1>0, <1>1, <1>3 DEF NoXid
  <2>8. levels \in [Session -> Seq(LevelType)]
    <3>1. <<>> \in Seq(LevelType)
      OBVIOUS
    <3> QED  BY <3>1, <1>0, <1>1
  <2>9. wrote \in [Session -> BOOLEAN]
    BY <1>0
  <2>10. snap \in [Session -> SnapshotType]
    <3>1. NoSnapshot \in SnapshotType
      BY <1>3 DEF NoSnapshot, SnapshotType
    <3> QED  BY <3>1, <1>0, <1>1
  <2>11. horizon \in [Session -> 0..MaxId] /\ todo \in [Session -> SUBSET TargetType]
    BY <1>0, <1>1, <1>3
  <2>12. target \in [Session -> TargetType]
    <3>1. NoTarget \in TargetType
      BY <1>3 DEF NoTarget, TargetType, NoSlot, NoXid
    <3> QED  BY <3>1, <1>0, <1>1
  <2>13. vac \in [pc : {"idle", "begun", "locked", "horizon", "settled", "pruned"},
              xid : 0..MaxXid, horizon : 0..MaxId, boundary : 0..MaxId,
              vacuum_floor : 0..MaxId, left : 0..MaxVacuums]
    <3>1. scale.max_vacuums \in 0..MaxVacuums
      BY <1>0, <1>1
    <3>2. vac = [pc |-> "idle", xid |-> NoXid, horizon |-> 0, boundary |-> 0,
                 vacuum_floor |-> 0, left |-> scale.max_vacuums]
      BY <1>0
    <3> QED  BY <3>1, <3>2, <1>3 DEF NoXid
  <2> QED  BY <2>1, <2>2, <2>3, <2>4, <2>5, <2>6, <2>7, <2>8, <2>9, <2>10, <2>11, <2>12, <2>13 DEF TypeOK
<1>6. Targets
  BY <1>0, <1>1 DEF Targets
<1>7. Room
  <2>1. Undoing = {}
    BY <1>0, <1>1 DEF Undoing
  <2>2. Cardinality(Undoing) = 0
    BY <2>1, FS_EmptySet
  <2>3. scale.max_xid \in 1..MaxXid
    BY <1>0, <1>1
  <2> QED  BY <2>2, <2>3, <1>0, <1>1, <1>3 DEF Room
<1>8. Disjoint /\ VacuumId
  BY <1>0, <1>1, <1>2 DEF Disjoint, VacuumId, NoXid
<1>9. Fresh
  BY <1>0, <1>1, <1>3 DEF Fresh, Xid, LoadXid
<1>10. ASSUME NEW s \in Session
       PROVE  FamilyOf(s) /\ LevelsOf(s) /\ RegistryOf(s) /\ SnapshotOf(s) /\ ClogOf(s)
                /\ WriterOf(s) /\ HorizonOf(s)
  <2>1. pc[s] = "idle" /\ txn_id[s] = NoXid /\ live_subxids[s] = {} /\ levels[s] = <<>>
        /\ live_txns(s) = {} /\ ~ InUse(s) /\ horizon[s] = 0
    BY <1>0, <1>1, <1>2
  <2>2. FamilyOf(s) /\ LevelsOf(s)
    BY <2>1, <1>0, <1>1 DEF FamilyOf, LevelsOf, NoXid
  <2>3. RegistryOf(s) /\ ClogOf(s)
    BY <2>1 DEF RegistryOf, ClogOf, Registered, Undecided, Statement
  <2>4. SnapshotOf(s) /\ WriterOf(s) /\ HorizonOf(s)
    BY <2>1, <1>0, <1>1 DEF SnapshotOf, WriterOf, HorizonOf, Statement
  <2> QED  BY <2>2, <2>3, <2>4
<1>11. AdvertisedExactly
  <2>1. ASSUME NEW x \in 1..MaxId
        PROVE  xmins[x] = Cardinality({s \in Session : snap[s] # NoSnapshot /\ snap[s].xmin = x})
    <3>1. {s \in Session : snap[s] # NoSnapshot /\ snap[s].xmin = x} = {}
      BY <1>0, <1>1
    <3>2. xmins[x] = 0
      BY <1>0
    <3> QED  BY <3>1, <3>2, FS_EmptySet
  <2> QED  BY <2>1 DEF AdvertisedExactly
<1>12. Stamps
  BY <1>0, <1>1, <1>4 DEF Stamps, NoXid, LoadXid
<1>13. VacuumHorizons
  BY <1>0, <1>1 DEF VacuumHorizons, ShareLocked
<1> QED  BY <1>5, <1>6, <1>7, <1>8, <1>9, <1>10, <1>11, <1>12, <1>13 DEF IInv

LEMMA ControlStep ==
  ASSUME IInv, NEW s \in Session, TransactionControl(s), UNCHANGED scale
  PROVE  IInv'
<1>1. CASE \E i \in 1..Len(levels[s]) : ReleaseSavepoint(s, i) \/ RollbackTo(s, i)
  BY <1>1, ReleaseSavepointKeeps, RollbackToKeeps
<1> QED  BY <1>1, BeginKeeps, SavepointKeeps, UndoDeregisterKeeps, UndoRestoreKeeps, CommitFlushKeeps,
            CommitDeregisterKeeps, EndReadOnlyKeeps, AbortSubxidsKeeps, AbortTopKeeps,
            AbortDeregisterKeeps, DropTransactionKeeps DEF TransactionControl

LEMMA StatementStepKeeps ==
  ASSUME IInv, NEW s \in Session, StatementStep(s), UNCHANGED scale
  PROVE  IInv'
<1>1. CASE \E w \in BOOLEAN : StartStatement(s, w)
  BY <1>1, StartStatementKeeps
<1>2. CASE \E found \in SUBSET Visible(snap[s], live_txns(s)) : Scan(s, found)
  BY <1>2, ScanKeeps
<1>3. CASE \E t \in todo[s] : LockRow(s, t) \/ LockRowConflict(s, t)
  BY <1>3, LockRowKeeps, LockRowConflictKeeps
<1> QED  BY <1>1, <1>2, <1>3, StartReadKeeps, EndReadKeeps, EndStatementKeeps, FailStatementKeeps
         DEF StatementStep

LEMMA RowWriteKeeps ==
  ASSUME IInv, NEW s \in Session, RowWrite(s), UNCHANGED scale
  PROVE  IInv'
<1>1. CASE \E u \in scale.unique \cup {Null}, hot, prune \in BOOLEAN : Update(s, u, hot, prune)
  BY <1>1, UpdateKeeps
<1>2. CASE \E k \in scale.keys, u \in scale.unique \cup {Null} : Insert(s, k, u)
  BY <1>2, InsertKeeps
<1> QED  BY <1>1, <1>2, DeleteKeeps, InsertSecondaryEntryKeeps DEF RowWrite

LEMMA VacuumStep ==
  ASSUME IInv, Vacuum, UNCHANGED scale
  PROVE  IInv'
BY VacuumBeginKeeps, VacuumLockKeeps, VacuumHorizonKeeps, VacuumFailKeeps, VacuumSettleKeeps,
   VacuumPruneKeeps, VacuumReleaseKeeps DEF Vacuum

LEMMA StutterKeeps ==
  ASSUME IInv, UNCHANGED vars
  PROVE  IInv'
<1>1. UNCHANGED <<scale, next_txn_id, active, subtrans, xmins, clog, heap, rowlock, writers, pc, iso,
                  txn_id, live_subxids, levels, wrote, snap, horizon, todo, target, vac>>
  BY DEF vars, registry, locks, txn, stmt
<1>2. QuietVacuum /\ heap' = heap /\ vac' = vac
  BY <1>1 DEF QuietVacuum
<1>3. VacuumHorizons'
  BY <1>1 DEF IInv, VacuumHorizons, ShareLocked, InUse, Untouched
<1> QED  BY <1>2, <1>3, SameHeap, VacuumShape, QuietKeeps

LEMMA NextKeeps ==
  ASSUME IInv, [Next]_vars
  PROVE  IInv'
<1>1. CASE Next
  <2>1. UNCHANGED scale
    BY <1>1 DEF Next
  <2>2. CASE Vacuum
    BY <2>1, <2>2, VacuumStep
  <2>3. ASSUME NEW s \in Session, TransactionControl(s) \/ StatementStep(s) \/ RowWrite(s)
        PROVE  IInv'
    BY <2>1, <2>3, ControlStep, StatementStepKeeps, RowWriteKeeps
  <2> QED  BY <1>1, <2>2, <2>3 DEF Next
<1>2. CASE UNCHANGED vars
  BY <1>2, StutterKeeps
<1> QED  BY <1>1, <1>2

LEMMA Invariance == Spec => []IInv
<1>1. Init => IInv
  BY InitIInv
<1>2. IInv /\ [Next]_vars => IInv'
  BY NextKeeps
<1> QED  BY <1>1, <1>2, PTL DEF Spec

-----------------------------------------------------------------------------
(* What follows.                                                           *)

\* A running transaction of somebody else is outside every snapshot in use.
LEMMA RunningOutside ==
  ASSUME IInv, NEW r \in Session, InUse(r), NEW x \in active, x \notin live_txns(r)
  PROVE  ~ (x < snap[r].xmax /\ x \notin snap[r].xip)
<1>1. SnapshotOf(r)
  BY DEF IInv
<1>2. x # txn_id[r]
  <2>1. x # NoXid
    BY NumberFacts
  <2> QED  BY <2>1 DEF live_txns
<1> QED  BY <1>1, <1>2 DEF SnapshotOf

LEMMA WholeStep ==
  ASSUME IInv
  PROVE  TransactionsWhole
<1> SUFFICES ASSUME NEW r \in Session, NEW s \in Session, r # s, InUse(r),
                    NEW x \in live_txns(s), NEW y \in live_txns(s)
             PROVE  txn_effect_visible(x, snap[r], {}) <=> txn_effect_visible(y, snap[r], {})
  BY DEF TransactionsWhole
<1>1. ClogOf(s) /\ RegistryOf(s) /\ FamilyOf(s) /\ x \notin live_txns(r) /\ y \notin live_txns(r)
      /\ pc[s] \in Pcs
  BY NumberFacts DEF IInv, Disjoint
<1>2. CASE clog[x] # "Committed" /\ clog[y] # "Committed"
  BY <1>2 DEF txn_effect_visible
<1>3. CASE pc[s] \in Undecided \cup {"abort_subxids", "abort_top"}
  <2>1. clog[x] # "Committed" /\ clog[y] # "Committed"
    BY <1>1, <1>3 DEF ClogOf
  <2> QED  BY <2>1, <1>2
<1>4. CASE pc[s] \in {"idle", "read"}
  <2>1. live_txns(s) = {}
    BY <1>1, <1>4 DEF FamilyOf, live_txns
  <2> QED  BY <2>1
<1>5. CASE pc[s] = "flushed"
  <2>1. x \in active /\ y \in active
    BY <1>1, <1>5 DEF RegistryOf, Registered
  <2>2. ~ (x < snap[r].xmax /\ x \notin snap[r].xip) /\ ~ (y < snap[r].xmax /\ y \notin snap[r].xip)
    BY <2>1, <1>1, RunningOutside
  <2> QED  BY <2>2 DEF txn_effect_visible
<1>6. CASE pc[s] = "settled"
  <2>1. CASE clog[x] = "Committed" /\ clog[y] = "Committed" /\ (Apart(r, s) \/ Beyond(r, s))
    <3>1. x \in Nat /\ y \in Nat
      BY NumberFacts
    <3>4. snap[r].xmax \in Nat
      BY NumberFacts DEF IInv, TypeOK, SnapshotType
    <3>2. CASE Apart(r, s)
      BY <2>1, <3>1, <3>4, <3>2 DEF Apart, txn_effect_visible
    <3>3. CASE Beyond(r, s)
      BY <2>1, <3>3 DEF Beyond, txn_effect_visible
    <3> QED  BY <2>1, <3>2, <3>3
  <2> QED  BY <1>1, <1>2, <1>6, <2>1 DEF ClogOf
<1> QED  BY <1>1, <1>3, <1>4, <1>5, <1>6 DEF Pcs, Undecided

\* The commit log only changes for ids that are in the registry.
LEMMA ClogChanges ==
  ASSUME IInv, [Next]_vars, NEW x \in Xid, clog'[x] # clog[x]
  PROVE  x \in active
<1>1. ASSUME NEW xs, NEW st, SetClog(xs, st) PROVE x \in xs
  BY <1>1 DEF SetClog
<1>2. ASSUME NEW s \in Session, pc[s] \in Registered PROVE live_txns(s) \subseteq active
  BY <1>2, FamilyFacts DEF RegistryOf
<1>3. ASSUME NEW s \in Session, TransactionControl(s) PROVE x \in active
  <2>1. CASE \E i \in 1..Len(levels[s]) : RollbackTo(s, i)
    <3>1. PICK i \in 1..Len(levels[s]) : RollbackTo(s, i)
      BY <2>1
    <3>2. x \in RolledBack(s, i) /\ pc[s] \in Registered
      BY <3>1, <1>1 DEF RollbackTo, Registered
    <3>3. x \in live_subxids[s]
      BY <3>2 DEF RolledBack
    <3> QED  BY <3>2, <3>3, <1>2, FamilyFacts
  <2>2. CASE CommitFlush(s)
    BY <2>2, <1>1, <1>2 DEF CommitFlush, Registered
  <2>3. CASE AbortSubxids(s)
    BY <2>3, <1>1, <1>2 DEF AbortSubxids, Registered
  <2>4. CASE AbortTop(s)
    <3>1. x = txn_id[s] /\ pc[s] = "abort_subxids"
      BY <2>4, <1>1 DEF AbortTop
    <3>2. txn_id[s] \in live_txns(s)
      BY <3>1, FamilyFacts DEF FamilyOf
    <3> QED  BY <3>1, <3>2, <1>2 DEF Registered
  <2>5. CASE UNCHANGED clog
    BY <2>5
  <2> QED  BY <1>3, <2>1, <2>2, <2>3, <2>4, <2>5 DEF TransactionControl, Begin, Savepoint,
              ReleaseSavepoint, UndoDeregister, UndoRestore, CommitDeregister, EndReadOnly,
              AbortDeregister, DropTransaction
<1>4. ASSUME NEW s \in Session, StatementStep(s) PROVE UNCHANGED clog
  BY <1>4 DEF StatementStep, StartRead, EndRead, StartStatement, EndStatement, FailStatement, Scan,
     LockRow, LockRowConflict
<1>5. ASSUME NEW s \in Session, RowWrite(s) PROVE UNCHANGED clog
  BY <1>5 DEF RowWrite, Delete, InsertSecondaryEntry, Update, Insert
<1>6. ASSUME Vacuum PROVE x \in active
  <2>1. CASE VacuumFail \/ VacuumSettle
    <3>1. x = vac.xid /\ vac.pc \in {"begun", "locked", "horizon"}
      BY <2>1, <1>1 DEF VacuumFail, VacuumSettle
    <3> QED  BY <3>1 DEF IInv, VacuumId
  <2>2. CASE UNCHANGED clog
    BY <2>2
  <2> QED  BY <1>6, <2>1, <2>2 DEF Vacuum, VacuumBegin, VacuumLock, VacuumHorizon, VacuumPrune,
              VacuumRelease
<1>7. CASE UNCHANGED vars
  BY <1>7 DEF vars
<1> QED  BY <1>3, <1>4, <1>5, <1>6, <1>7 DEF Next

LEMMA FrozenStep ==
  ASSUME IInv, [Next]_vars, NEW r \in Session, InUse(r), snap'[r] = snap[r],
         NEW x \in Xid \ live_txns(r)
  PROVE  txn_effect_visible(x, snap[r], {})' <=> txn_effect_visible(x, snap[r], {})
<1>1. CASE clog'[x] = clog[x]
  BY <1>1 DEF txn_effect_visible
<1>2. CASE clog'[x] # clog[x]
  <2>1. x \in active
    BY <1>2, ClogChanges
  <2>2. ~ (x < snap[r].xmax /\ x \notin snap[r].xip)
    BY <2>1, RunningOutside
  <2> QED  BY <2>2 DEF txn_effect_visible
<1> QED  BY <1>1, <1>2

LEMMA ReclaimStep ==
  ASSUME IInv
  PROVE  ReclaimsOnlyDead
<1> SUFFICES ASSUME NEW hz \in Horizons, NEW r \in Session, NEW sl \in Used, InUse(r),
                    pc[r] \in {"read"} \cup Statement, is_dead_to_all(heap[sl], hz)
             PROVE  ~ is_visible(heap[sl], snap[r], live_txns(r))
  BY DEF ReclaimsOnlyDead
<1> DEFINE v == heap[sl]
<1>1. sl \in Slot /\ v \in VersionType
  BY TxnShapes DEF Used
<1>2. \A x \in live_txns(r) : clog[x] = "InProgress"
  <2>1. CASE pc[r] = "read"
    <3>1. live_txns(r) = {}
      BY <2>1, FamilyFacts DEF FamilyOf, live_txns
    <3> QED  BY <3>1
  <2>2. CASE pc[r] \in Statement
    BY <2>2, FamilyFacts DEF ClogOf, Undecided
  <2> QED  BY <2>1, <2>2
<1> HIDE DEF v
<1>3. CASE clog[v.xmin] = "Aborted"
  BY <1>2, <1>3 DEF is_visible, txn_effect_visible, v
<1>4. CASE v.xmax # NoXid /\ v.xmax < hz /\ clog[v.xmax] = "Committed"
  <2>1. v.xmax \in Nat /\ snap[r].xmin \in Nat /\ snap[r].xmax \in Nat
    BY <1>1, NumberFacts DEF IInv, TypeOK, SnapshotType, VersionType
  <2>2. /\ snap[r].xmin <= snap[r].xmax
        /\ \A x \in snap[r].xip : snap[r].xmin <= x
    BY DEF IInv, SnapshotOf
  <2>3. v.xmax < snap[r].xmax /\ v.xmax \notin snap[r].xip
    <3>1. CASE hz \in Nat /\ hz <= snap[r].xmin
      <4>1. v.xmax < snap[r].xmin
        BY <1>4, <2>1, <3>1
      <4>2. \A x \in snap[r].xip : x # v.xmax
        BY <2>1, <2>2, <4>1
      <4> QED  BY <2>1, <2>2, <4>1, <4>2
    <3>2. CASE \E s \in Session : pc[s] = "locked" /\ hz = horizon[s]
      <4>1. PICK s \in Session : pc[s] = "locked" /\ hz = horizon[s]
        BY <3>2
      <4>2. HorizonOf(s) /\ horizon[s] \in Nat
        BY NumberFacts DEF IInv, TypeOK
      <4>3. horizon[s] # 0
        BY <4>1, <4>2, <1>4, <2>1
      <4> QED  BY <4>1, <4>2, <4>3, <3>1 DEF HorizonOf
    <3>3. CASE vac.pc = "settled" /\ hz = vac.horizon
      <4>1. vac.horizon <= snap[r].xmin \/ Untouched(r)
        BY <3>3 DEF IInv, VacuumHorizons
      <4>2. CASE Untouched(r)
        BY <4>2, <1>1 DEF Untouched, v
      <4>3. CASE vac.horizon <= snap[r].xmin
        BY <4>3, <3>1, <3>3, VacuumShape, NumberFacts
      <4> QED  BY <4>1, <4>2, <4>3
    <3> QED  BY <3>2, <3>3 DEF Horizons
  <2> QED  BY <1>4, <2>3 DEF is_visible, txn_effect_visible, v
<1> QED  BY <1>3, <1>4 DEF is_dead_to_all, v

\* Whatever sessions and VACUUM do to them, the registry, the commit log, the
\* heap and every Transaction keep the shape the code's types give them: in
\* particular a prune plan only ever names slots of the page, and no id beyond
\* the allocator's is used.
THEOREM TypeCorrect == Spec => []TypeOK
<1>1. IInv => TypeOK
  BY DEF IInv
<1> QED  BY <1>1, Invariance, PTL

\* ActiveTxnRegistry counts every advertised snapshot exactly once, through
\* captures, statement ends, failures and dropped transactions: no release is
\* missed (the horizon would never advance) and none is done twice (it would
\* run past a reader).
THEOREM CountsExact == Spec => []AdvertisedExactly
<1>1. IInv => AdvertisedExactly
  BY DEF IInv
<1> QED  BY <1>1, Invariance, PTL

\* Although a commit sets the CLOG of the family, leaves the registry and drops
\* its locks in three steps, no snapshot ever shows a part of a transaction of
\* another session: its top-level id and its savepoints become visible together.
THEOREM FamilyWhole == Spec => []TransactionsWhole
<1>1. IInv => TransactionsWhole
  BY WholeStep
<1> QED  BY <1>1, Invariance, PTL

\* A snapshot in use never changes its answer about another transaction: no
\* commit, abort, savepoint rollback or VACUUM makes an id visible or hides it.
THEOREM Frozen == Spec => SnapshotsFrozen
<1> DEFINE Same == \A r \in Session : InUse(r) /\ snap'[r] = snap[r] =>
                     \A x \in Xid \ live_txns(r) :
                       txn_effect_visible(x, snap[r], {})' <=> txn_effect_visible(x, snap[r], {})
<1>1. IInv /\ [Next]_vars => [Same]_vars
  BY FrozenStep
<1>2. SnapshotsFrozen <=> [][Same]_vars
  BY DEF SnapshotsFrozen
<1> HIDE DEF Same
<1> QED  BY <1>1, <1>2, Invariance, PTL DEF Spec

\* The horizon an UPDATE's prune or a VACUUM works with is old when it is used:
\* snapshots have been taken and given up since it was read.  Even so, a version
\* that is dead to it is invisible to every statement that is running.
THEOREM ReclaimSafe == Spec => []ReclaimsOnlyDead
<1>1. IInv => ReclaimsOnlyDead
  BY ReclaimStep
<1> QED  BY <1>1, Invariance, PTL

=============================================================================
