----------------------------- MODULE SsiProofs ------------------------------
(***************************************************************************)
(* Proofs about Ssi, for every set of tables and rows, every lock cap and  *)
(* any number of transactions and operations.                              *)
(*                                                                         *)
(* The argument has three parts.  Coverage: as long as the manager tracks  *)
(* a transaction, every row it read is under one of its SIREAD locks and   *)
(* every row it wrote under one of its write entries, at the granularity   *)
(* and under the row key the next reader or writer will look for; so       *)
(* whichever of the two comes second finds the first, and no edge is       *)
(* missed.  Snapshots: the commits a snapshot shows are the first ones of  *)
(* the order of commits.  Forgetting: a transaction the manager has        *)
(* dropped is shown by every snapshot still in use.  Together they say     *)
(* that the commit check sees every pivot that matters.                    *)
(***************************************************************************)
EXTENDS Ssi, WellFoundedInduction, TLAPS

Snapshot == [xmin : Nat, xmax : Nat, xip : SUBSET Txn]

\* The transactions that took a snapshot and did not abort.
Took == {t \in Txn : snap[t] # NoSnapshot}

\* TypeOK, with the types of what it leaves open.
Types ==
  /\ pc \in [Txn -> Phase]
  /\ snap \in [Txn -> Snapshot]
  /\ next_txn_id \in 1..(MaxTxn + 1)
  /\ ssi \in [Txn -> TxnSsi]
  /\ edges \subseteq txns \X txns
  /\ identity \in [Table -> 0..MaxDdl]
  /\ \A b \in Table : identity[b] <= ddl
  /\ ops \in 0..MaxOps /\ ddl \in 0..MaxDdl
  /\ reads \in [Txn -> SUBSET Item] /\ writes \in [Txn -> SUBSET Item]
  /\ order \in Seq(Txn) /\ IsInjective(order)

\* What the phase of a transaction says about the rest of its state.
Phases ==
  \A t \in Txn :
    /\ (pc[t] = "none") <=> (t >= next_txn_id)
    /\ pc[t] \in {"none", "open"} =>
         ~ ssi[t].tracked /\ reads[t] = {} /\ writes[t] = {} /\ t \notin Took
    /\ pc[t] \in {"running", "failed", "checked", "settled"} =>
         ssi[t].tracked /\ t \in Took
    /\ pc[t] = "done" /\ t \notin Took =>
         ~ ssi[t].tracked /\ reads[t] = {} /\ writes[t] = {}
    /\ (t \in Range(order)) <=> (\/ pc[t] = "settled"
                                 \/ pc[t] = "done" /\ t \in Took)
    /\ ssi[t].finished => pc[t] = "done" /\ t \in Took

BaseInv == Types /\ Phases

\* Every row a tracked transaction read or wrote is found by whoever looks.
Covered ==
  \A t \in txns :
    /\ \A i \in reads[t] :
         i[1] \in ssi[t].relation_locks \/ KeyOf(i) \in ssi[t].tuple_locks
    /\ \A i \in writes[t] :
         /\ i[1] \in ssi[t].relation_writes
         /\ \/ KeyOf(i) \in ssi[t].tuple_writes
            \/ i[1] \in ssi[t].promoted \cup ssi[t].whole_relation_writes

\* A writer that is through its commit check has its commit sequence.
Stamped ==
  \A t \in txns :
    (pc[t] = "checked" \/ t \in Range(order)) /\ writes[t] # {} => ssi[t].commit_seq

\* A snapshot misses whatever is still active, and the commits it shows are
\* the first ones of the order, its own aside.
Shows(t) ==
  /\ snap[t].xmin <= t /\ t < snap[t].xmax /\ snap[t].xmax <= next_txn_id
  /\ \A u \in snap[t].xip : snap[t].xmin <= u
  /\ \A u \in active \ {t} : concurrent(snap[t], u)
  /\ \A i, j \in DOMAIN order :
       i < j /\ order[i] # t /\ order[j] # t /\ concurrent(snap[t], order[i])
         => concurrent(snap[t], order[j])
Snapshots == \A t \in Took : Shows(t)

\* A commit the manager has forgotten is shown by every snapshot in use.
Forgotten ==
  \A v \in Range(order) \ txns : \A t \in advertised : ~ concurrent(snap[t], v)

-----------------------------------------------------------------------------
(* Operators.                                                              *)

\* Min is the least element of a set of naturals that is not empty: the
\* horizon and the xmin of a snapshot are lower bounds.
LEMMA MinFacts ==
  ASSUME NEW S, S \subseteq Nat, S # {}
  PROVE  Min(S) \in S /\ \A x \in S : Min(S) <= x
<1> DEFINE R == {ss \in Nat \X Nat : ss[1] < ss[2]}
<1>1. OpToRel(<, Nat) = R
  BY Zenon DEF OpToRel
<1>2. IsWellFoundedOn(R, Nat)
  BY <1>1, NatLessThanWellFounded, Zenon
<1> HIDE DEF R
<1>3. PICK m \in S : \A y \in S : ~ (<<y, m>> \in R)
  BY <1>2, WFMin, Zenon
<1>4. ASSUME NEW y \in S, ~ m <= y PROVE FALSE
  <2>1. y \in Nat /\ m \in Nat /\ y < m
    BY <1>4
  <2>2. <<y, m>> \in R
    BY <2>1 DEF R
  <2> QED  BY <2>2, <1>3
<1> QED  BY <1>4 DEF Min

\* Appending a transaction that has not committed yet to the order of commits.
LEMMA AppendFacts ==
  ASSUME NEW S, NEW s \in Seq(S), NEW x \in S
  PROVE  /\ Append(s, x) \in Seq(S)
         /\ Range(Append(s, x)) = Range(s) \cup {x}
         /\ IsInjective(s) /\ x \notin Range(s) => IsInjective(Append(s, x))
<1> DEFINE q == Append(s, x)
<1>1. /\ q \in Seq(S) /\ Len(q) = Len(s) + 1 /\ Len(s) \in Nat
      /\ DOMAIN s = 1..Len(s) /\ DOMAIN q = 1..(Len(s) + 1)
      /\ \A n \in 1..Len(s) : q[n] = s[n]
      /\ q[Len(s) + 1] = x
  OBVIOUS
<1> HIDE DEF q
<1>2. Range(q) = Range(s) \cup {x}
  <2>1. ASSUME NEW y \in Range(q) PROVE y \in Range(s) \cup {x}
    BY <1>1 DEF Range
  <2>2. ASSUME NEW y \in Range(s) PROVE y \in Range(q)
    BY <1>1 DEF Range
  <2>3. x \in Range(q)
    BY <1>1 DEF Range
  <2> QED  BY <2>1, <2>2, <2>3
<1>3. ASSUME IsInjective(s), x \notin Range(s) PROVE IsInjective(q)
  <2>1. \A n \in 1..Len(s) : s[n] # x
    BY <1>1, <1>3 DEF Range
  <2>2. \A a, b \in 1..Len(s) : s[a] = s[b] => a = b
    BY <1>1, <1>3 DEF IsInjective
  <2> QED  BY <1>1, <2>1, <2>2 DEF IsInjective
<1> QED  BY <1>1, <1>2, <1>3 DEF q
-----------------------------------------------------------------------------
(* Types and phases.                                                       *)

\* Types says at least what TypeOK says.
LEMMA TypesImpliesTypeOK == Types => TypeOK
<1> SUFFICES ASSUME Types PROVE TypeOK
  OBVIOUS
<1>1. Range(order) \subseteq Txn
  BY DEF Types, Range
<1> QED  BY <1>1 DEF Types, TypeOK

\* The edges of one lookup are between tracked transactions.
LEMMA RwEdgeFacts ==
  ASSUME NEW A, NEW B
  PROVE  /\ form_rw_edge(A, B) \subseteq txns \X txns
         /\ \A r \in A \cap txns, w \in B \cap txns :
              r # w /\ concurrent(snap[r], w) => <<r, w>> \in form_rw_edge(A, B)
BY DEF form_rw_edge

\* The initial state.
LEMMA InitBase == Init => BaseInv
<1> SUFFICES ASSUME Init PROVE BaseInv
  OBVIOUS
<1> USE SsiAssumption
<1>1. NoSnapshot \in Snapshot /\ Untracked \in TxnSsi
  BY DEF NoSnapshot, Snapshot, Untracked, TxnSsi
<1>2. order \in Seq(Txn) /\ IsInjective(order) /\ Range(order) = {}
  BY DEF Init, IsInjective, Range
<1>3. txns = {} /\ Took = {}
  BY DEF Init, txns, Took, Untracked
<1>4. Types
  BY <1>1, <1>2, <1>3 DEF Init, Types, Phase
<1>5. Phases
  BY <1>2, <1>3 DEF Init, Phases, Untracked, Txn
<1> QED  BY <1>4, <1>5 DEF BaseInv

\* BEGIN.
LEMMA BeginBase == BaseInv /\ Begin => BaseInv'
<1> SUFFICES ASSUME BaseInv, Begin PROVE BaseInv'
  OBVIOUS
<1> USE SsiAssumption
<1>1. txns' = txns /\ Took' = Took /\ Range(order)' = Range(order)
  BY DEF Begin, manager, history, txns, Took
<1>2. Types'
  BY <1>1 DEF BaseInv, Begin, manager, history, Types, Phase, Txn, TxnSsi, IsInjective
<1>3. Phases'
  BY <1>1 DEF BaseInv, Begin, manager, history, Types, Phases, Phase, Txn
<1> QED  BY <1>2, <1>3 DEF BaseInv

\* The first statement of a transaction: it becomes tracked and has a snapshot.
LEMMA RegisterBase ==
  ASSUME BaseInv, NEW t \in Txn, register(t)
  PROVE  /\ BaseInv'
         /\ capture(t) \in Snapshot
         /\ capture(t).xmin <= t /\ capture(t).xmax = next_txn_id
         /\ \A u \in active : capture(t).xmin <= u
         /\ t < next_txn_id
<1> USE SsiAssumption
<1>1. t \in active /\ active \subseteq Nat
  BY DEF active, register, Txn
<1>2. /\ Min(active) \in active
      /\ \A u \in active : Min(active) <= u
  BY <1>1, MinFacts
<1>3. PICK m \in Nat : m = Min(active)
  BY <1>1, <1>2
<1>4. t < next_txn_id /\ t \in Nat /\ next_txn_id \in Nat
  BY DEF BaseInv, Types, Phases, register, Txn
<1>5. PICK c : c = capture(t)
  OBVIOUS
<1>6. /\ c \in Snapshot /\ c.xmin = m /\ c.xmax = next_txn_id /\ c.xip = active \ {t}
      /\ c # NoSnapshot
  BY <1>3, <1>4, <1>5 DEF capture, Snapshot, active, NoSnapshot
<1>7. txns' = txns \cup {t} /\ Took' = Took \cup {t} /\ Range(order)' = Range(order)
  BY <1>5, <1>6 DEF register, history, txns, Took, BaseInv, Types, TxnSsi
<1>8. Types'
  <2>1. pc' \in [Txn -> Phase] /\ snap' \in [Txn -> Snapshot]
    BY <1>5, <1>6 DEF BaseInv, register, Types, Phase
  <2>2. ssi' \in [Txn -> TxnSsi]
    <3>1. PICK s : s = [ssi[t] EXCEPT !.tracked = TRUE]
      OBVIOUS
    <3>2. s \in TxnSsi
      BY <3>1 DEF BaseInv, Types, TxnSsi
    <3>3. ssi' = [ssi EXCEPT ![t] = s]
      BY <3>1 DEF register
    <3> QED  BY <3>2, <3>3 DEF BaseInv, Types
  <2>3. edges' \subseteq txns' \X txns'
    BY <1>7 DEF BaseInv, register, Types
  <2> QED  BY <2>1, <2>2, <2>3 DEF BaseInv, register, history, Types, IsInjective
<1>9. Phases'
  BY <1>5, <1>6, <1>7 DEF BaseInv, register, history, Types, Phases, Phase, TxnSsi
<1> QED  BY <1>1, <1>2, <1>3, <1>4, <1>5, <1>6, <1>8, <1>9 DEF BaseInv
-----------------------------------------------------------------------------
(* Reads, writes and changes of the primary key: what they leave alone.    *)

\* A step in which transactions record what they read or wrote: only t, if
\* anyone, changes its phase, and no one changes what is tracked.
Recording(t) ==
  /\ pc[t] = "running" /\ (pc' = pc \/ pc' = [pc EXCEPT ![t] = "failed"])
  /\ UNCHANGED <<snap, next_txn_id, order>>
  /\ ssi' \in [Txn -> TxnSsi]
  /\ \A u \in Txn : /\ ssi'[u].tracked = ssi[u].tracked
                    /\ ssi'[u].finished = ssi[u].finished
                    /\ ssi'[u].commit_seq = ssi[u].commit_seq
                    /\ u # t => reads'[u] = reads[u] /\ writes'[u] = writes[u]
  /\ edges \subseteq edges' /\ edges' \subseteq txns \X txns
  /\ reads' \in [Txn -> SUBSET Item] /\ writes' \in [Txn -> SUBSET Item]

\* The recording steps keep types and phases.
LEMMA RecordingBase ==
  ASSUME BaseInv, NEW t \in Txn, Recording(t), identity' = identity,
         ops' \in 0..MaxOps, ddl' \in 0..MaxDdl, ddl <= ddl'
  PROVE  BaseInv' /\ txns' = txns
<1> USE SsiAssumption
<1>1. txns' = txns /\ Took' = Took /\ Range(order)' = Range(order)
  BY DEF Recording, txns, Took
<1>2. pc' \in [Txn -> Phase]
  BY DEF Recording, BaseInv, Types, Phase
<1>3. \A b \in Table : identity'[b] <= ddl'
  BY DEF BaseInv, Types
<1>4. Types'
  BY <1>1, <1>2, <1>3 DEF Recording, BaseInv, Types, IsInjective
<1>5. Phases'
  <2> SUFFICES ASSUME NEW u \in Txn
               PROVE  Phases!(u)'
    BY DEF Phases
  <2>1. CASE u = t
    BY <1>1, <2>1 DEF Recording, BaseInv, Types, Phases
  <2>2. CASE u # t
    BY <1>1, <2>2 DEF Recording, BaseInv, Types, Phases
  <2> QED  BY <2>1, <2>2
<1> QED  BY <1>1, <1>4, <1>5 DEF BaseInv

\* A read of t that found every tracked writer of what it read, and is now
\* covered itself, leaves no antidependency without an edge.
LEMMA ReadRecorded ==
  ASSUME BaseInv, Covered, EdgesComplete, NEW t \in Txn, Recording(t),
         identity' = identity, writes' = writes,
         \A u \in Txn : /\ u # t => ssi'[u] = ssi[u]
                        /\ ssi'[u].relation_writes = ssi[u].relation_writes
                        /\ ssi'[u].tuple_writes = ssi[u].tuple_writes
                        /\ ssi'[u].promoted = ssi[u].promoted
                        /\ ssi'[u].whole_relation_writes = ssi[u].whole_relation_writes,
         \A i \in reads'[t] :
            i[1] \in ssi'[t].relation_locks \/ KeyOf(i) \in ssi'[t].tuple_locks,
         NEW New, reads'[t] = reads[t] \cup New,
         \A w \in txns \ {t} : writes[w] \cap New # {} /\ concurrent(snap[t], w)
                                 => <<t, w>> \in edges'
  PROVE  Covered' /\ EdgesComplete'
<1>1. txns' = txns
  BY DEF Recording, txns
<1>2. Covered'
  <2> SUFFICES ASSUME NEW u \in txns PROVE Covered!(u)'
    BY <1>1 DEF Covered
  <2>1. u \in Txn
    BY DEF txns
  <2>2. CASE u = t
    BY <2>1, <2>2 DEF Covered, KeyOf
  <2>3. CASE u # t
    BY <2>1, <2>3 DEF Covered, KeyOf, Recording
  <2> QED  BY <2>2, <2>3
<1>3. EdgesComplete'
  <2> SUFFICES ASSUME NEW r \in txns, NEW w \in txns, Antidependency(r, w)'
               PROVE  <<r, w>> \in edges'
    BY <1>1 DEF EdgesComplete
  <2>1. r \in Txn /\ w \in Txn /\ r # w /\ snap' = snap
    BY DEF txns, Antidependency, Recording
  <2>2. CASE Antidependency(r, w)
    BY <2>2 DEF EdgesComplete, Recording
  <2>3. CASE ~ Antidependency(r, w)
    <3>1. r = t
      BY <2>1, <2>3 DEF Antidependency, Recording, concurrent
    <3>2. writes[w] \cap New # {} /\ concurrent(snap[t], w)
      BY <2>1, <2>3, <3>1 DEF Antidependency, concurrent
    <3> QED  BY <2>1, <3>1, <3>2
  <2> QED  BY <2>2, <2>3
<1> QED  BY <1>2, <1>3

\* The same for a write of t that found every tracked reader.
LEMMA WriteRecorded ==
  ASSUME BaseInv, Covered, EdgesComplete, NEW t \in Txn, Recording(t),
         identity' = identity, reads' = reads,
         \A u \in Txn : /\ u # t => ssi'[u] = ssi[u]
                        /\ ssi'[u].relation_locks = ssi[u].relation_locks
                        /\ ssi'[u].tuple_locks = ssi[u].tuple_locks,
         \A i \in writes'[t] :
            /\ i[1] \in ssi'[t].relation_writes
            /\ \/ KeyOf(i) \in ssi'[t].tuple_writes
               \/ i[1] \in ssi'[t].promoted \cup ssi'[t].whole_relation_writes,
         NEW New, writes'[t] = writes[t] \cup New,
         \A r \in txns \ {t} : reads[r] \cap New # {} /\ concurrent(snap[r], t)
                                 => <<r, t>> \in edges'
  PROVE  Covered' /\ EdgesComplete'
<1>1. txns' = txns
  BY DEF Recording, txns
<1>2. Covered'
  <2> SUFFICES ASSUME NEW u \in txns PROVE Covered!(u)'
    BY <1>1 DEF Covered
  <2>1. u \in Txn
    BY DEF txns
  <2>2. CASE u = t
    BY <2>1, <2>2 DEF Covered, KeyOf
  <2>3. CASE u # t
    BY <2>1, <2>3 DEF Covered, KeyOf, Recording
  <2> QED  BY <2>2, <2>3
<1>3. EdgesComplete'
  <2> SUFFICES ASSUME NEW r \in txns, NEW w \in txns, Antidependency(r, w)'
               PROVE  <<r, w>> \in edges'
    BY <1>1 DEF EdgesComplete
  <2>1. r \in Txn /\ w \in Txn /\ r # w /\ snap' = snap
    BY DEF txns, Antidependency, Recording
  <2>2. CASE Antidependency(r, w)
    BY <2>2 DEF EdgesComplete, Recording
  <2>3. CASE ~ Antidependency(r, w)
    <3>1. w = t
      BY <2>1, <2>3 DEF Antidependency, Recording, concurrent
    <3>2. reads[r] \cap New # {} /\ concurrent(snap[r], t)
      BY <2>1, <2>3, <3>1 DEF Antidependency, concurrent
    <3> QED  BY <2>1, <3>1, <3>2
  <2> QED  BY <2>2, <2>3
<1> QED  BY <1>2, <1>3
-----------------------------------------------------------------------------
(* Each read and write finds the other side.                               *)

CoverInv == BaseInv /\ Covered /\ EdgesComplete

\* A running transaction is tracked, and its next operation is within bounds.
LEMMA RunningFacts ==
  ASSUME BaseInv, NEW t \in Txn, Operation(t)
  PROVE  t \in txns /\ ops' \in 0..MaxOps
BY SsiAssumption DEF Operation, BaseInv, Types, Phases, txns

\* A point read, with or without the collapse of the table's tuple locks.
LEMMA TupleReadCovers ==
  ASSUME CoverInv, NEW t \in Txn, NEW i \in Item, record_tuple_read(t, i)
  PROVE  CoverInv' /\ Recording(t)
<1> USE SsiAssumption
<1> DEFINE b == i[1]
           k == KeyOf(i)
           writers == {w \in Txn : \/ k \in ssi[w].tuple_writes
                                   \/ b \in ssi[w].promoted \cup ssi[w].whole_relation_writes}
           locks == ssi[t].tuple_locks \cup {k}
           of_table == {l \in locks : l[1] = b}
<1>1. /\ Operation(t) /\ edges' = edges \cup form_rw_edge({t}, writers)
      /\ reads' = [reads EXCEPT ![t] = @ \cup {i}]
      /\ UNCHANGED <<pc, snap, next_txn_id, identity, ddl, writes, order>>
  BY DEF record_tuple_read, registry
<1>2. t \in txns /\ ops' \in 0..MaxOps
  BY <1>1, RunningFacts DEF CoverInv
<1>3. b \in Table /\ k \in SsiKey /\ k[1] = b /\ ssi[t] \in TxnSsi
  BY DEF CoverInv, BaseInv, Types, Item, KeyOf, SsiKey
<1>4. PICK s : /\ s \in TxnSsi /\ ssi' = [ssi EXCEPT ![t] = s]
               /\ s.tracked = ssi[t].tracked /\ s.finished = ssi[t].finished
               /\ s.commit_seq = ssi[t].commit_seq
               /\ s.relation_writes = ssi[t].relation_writes
               /\ s.tuple_writes = ssi[t].tuple_writes
               /\ s.promoted = ssi[t].promoted
               /\ s.whole_relation_writes = ssi[t].whole_relation_writes
               /\ \/ /\ s.tuple_locks = locks \ of_table
                     /\ s.relation_locks = ssi[t].relation_locks \cup {b}
                  \/ /\ s.tuple_locks = locks
                     /\ s.relation_locks = ssi[t].relation_locks
  <2>1. CASE Cardinality(of_table) > SSI_TUPLE_LOCK_CAP
    <3>1. PICK s : s = [ssi[t] EXCEPT !.tuple_locks = locks \ of_table,
                                      !.relation_locks = @ \cup {b}]
      OBVIOUS
    <3>2. ssi' = [ssi EXCEPT ![t] = s]
      BY <2>1, <3>1 DEF record_tuple_read
    <3>3. locks \ of_table \in SUBSET SsiKey
      BY <1>3 DEF TxnSsi
    <3> HIDE DEF locks, of_table, b
    <3>4. /\ s \in TxnSsi
          /\ s.tracked = ssi[t].tracked /\ s.finished = ssi[t].finished
          /\ s.commit_seq = ssi[t].commit_seq
          /\ s.relation_writes = ssi[t].relation_writes
          /\ s.tuple_writes = ssi[t].tuple_writes
          /\ s.promoted = ssi[t].promoted
          /\ s.whole_relation_writes = ssi[t].whole_relation_writes
          /\ s.tuple_locks = locks \ of_table
          /\ s.relation_locks = ssi[t].relation_locks \cup {b}
      BY <1>3, <3>1, <3>3 DEF TxnSsi
    <3> QED  BY <3>2, <3>4
  <2>2. CASE ~ Cardinality(of_table) > SSI_TUPLE_LOCK_CAP
    <3>1. PICK s : s = [ssi[t] EXCEPT !.tuple_locks = locks]
      OBVIOUS
    <3>2. ssi' = [ssi EXCEPT ![t] = s]
      BY <2>2, <3>1 DEF record_tuple_read
    <3>3. locks \in SUBSET SsiKey
      BY <1>3 DEF TxnSsi
    <3> HIDE DEF locks, of_table, b
    <3>4. /\ s \in TxnSsi
          /\ s.tracked = ssi[t].tracked /\ s.finished = ssi[t].finished
          /\ s.commit_seq = ssi[t].commit_seq
          /\ s.relation_writes = ssi[t].relation_writes
          /\ s.tuple_writes = ssi[t].tuple_writes
          /\ s.promoted = ssi[t].promoted
          /\ s.whole_relation_writes = ssi[t].whole_relation_writes
          /\ s.tuple_locks = locks
          /\ s.relation_locks = ssi[t].relation_locks
      BY <1>3, <3>1, <3>3 DEF TxnSsi
    <3> QED  BY <3>2, <3>4
  <2> QED  BY <2>1, <2>2
<1>5. \A u \in Txn : /\ u # t => ssi'[u] = ssi[u]
                     /\ u = t => ssi'[u] = s
  BY <1>4 DEF CoverInv, BaseInv, Types
<1>6. Recording(t)
  <2>1. edges' \subseteq txns \X txns
    BY <1>1, RwEdgeFacts DEF CoverInv, BaseInv, Types
  <2>2. ssi' \in [Txn -> TxnSsi]
    BY <1>4 DEF CoverInv, BaseInv, Types
  <2>3. reads' \in [Txn -> SUBSET Item]
    BY <1>1 DEF CoverInv, BaseInv, Types
  <2> HIDE DEF writers, locks, of_table
  <2> QED
    BY <1>1, <1>4, <1>5, <2>1, <2>2, <2>3 DEF Recording, Operation, CoverInv, BaseInv, Types
<1>7. BaseInv'
  <2>1. ddl' \in 0..MaxDdl /\ ddl <= ddl'
    BY <1>1 DEF CoverInv, BaseInv, Types
  <2> QED  BY <1>1, <1>2, <1>6, <2>1, RecordingBase DEF CoverInv
<1>8. \A j \in reads'[t] :
        j[1] \in ssi'[t].relation_locks \/ KeyOf(j) \in ssi'[t].tuple_locks
  <2> SUFFICES ASSUME NEW j \in reads'[t]
               PROVE  j[1] \in s.relation_locks \/ KeyOf(j) \in s.tuple_locks
    BY <1>5
  <2>1. CASE j = i
    BY <1>3, <1>4, <2>1
  <2>2. CASE j \in reads[t]
    <3>1. j[1] \in ssi[t].relation_locks \/ KeyOf(j) \in ssi[t].tuple_locks
      BY <1>2, <2>2 DEF CoverInv, Covered
    <3>2. KeyOf(j)[1] = j[1]
      BY DEF KeyOf
    <3> QED  BY <1>4, <3>1, <3>2
  <2> QED  BY <1>1, <2>1, <2>2 DEF CoverInv, BaseInv, Types
<1>9. ASSUME NEW w \in txns \ {t}, writes[w] \cap {i} # {}, concurrent(snap[t], w)
      PROVE  <<t, w>> \in edges'
  <2>1. w \in writers
    BY <1>9 DEF CoverInv, Covered, txns
  <2> QED  BY <1>1, <1>2, <1>9, <2>1, RwEdgeFacts
<1> HIDE DEF b, k, writers, locks, of_table
<1>10. /\ \A u \in Txn : /\ u # t => ssi'[u] = ssi[u]
                         /\ ssi'[u].relation_writes = ssi[u].relation_writes
                         /\ ssi'[u].tuple_writes = ssi[u].tuple_writes
                         /\ ssi'[u].promoted = ssi[u].promoted
                         /\ ssi'[u].whole_relation_writes = ssi[u].whole_relation_writes
       /\ identity' = identity /\ writes' = writes
       /\ reads'[t] = reads[t] \cup {i}
  BY <1>1, <1>4, <1>5 DEF CoverInv, BaseInv, Types
<1>11. Covered' /\ EdgesComplete'
  BY <1>6, <1>8, <1>9, <1>10, ReadRecorded DEF CoverInv
<1> QED  BY <1>6, <1>7, <1>11 DEF CoverInv
\* Any other scan.
LEMMA RelationReadCovers ==
  ASSUME CoverInv, NEW t \in Txn, NEW b \in Table, record_relation_read(t, b)
  PROVE  CoverInv' /\ Recording(t)
<1> USE SsiAssumption
<1> DEFINE writers == {w \in Txn : b \in ssi[w].relation_writes}
<1>1. /\ Operation(t) /\ edges' = edges \cup form_rw_edge({t}, writers)
      /\ reads' = [reads EXCEPT ![t] = @ \cup Rows(b)]
      /\ UNCHANGED <<pc, snap, next_txn_id, identity, ddl, writes, order>>
  BY DEF record_relation_read, registry
<1>2. t \in txns /\ ops' \in 0..MaxOps /\ ddl' \in 0..MaxDdl /\ ddl <= ddl'
  BY <1>1, RunningFacts DEF CoverInv, BaseInv, Types
<1>3. PICK s : s = [ssi[t] EXCEPT !.relation_locks = @ \cup {b}]
  OBVIOUS
<1>4. ssi' = [ssi EXCEPT ![t] = s]
  BY <1>3 DEF record_relation_read
<1>5. /\ s \in TxnSsi
      /\ s.tracked = ssi[t].tracked /\ s.finished = ssi[t].finished
      /\ s.commit_seq = ssi[t].commit_seq
      /\ s.relation_writes = ssi[t].relation_writes
      /\ s.tuple_writes = ssi[t].tuple_writes
      /\ s.promoted = ssi[t].promoted
      /\ s.whole_relation_writes = ssi[t].whole_relation_writes
      /\ s.tuple_locks = ssi[t].tuple_locks
      /\ s.relation_locks = ssi[t].relation_locks \cup {b}
  BY <1>3 DEF TxnSsi, CoverInv, BaseInv, Types
<1>6. \A u \in Txn : /\ u # t => ssi'[u] = ssi[u]
                     /\ u = t => ssi'[u] = s
  BY <1>4 DEF CoverInv, BaseInv, Types
<1>7. Rows(b) \subseteq Item /\ \A j \in Rows(b) : j[1] = b
  BY DEF Rows, Item
<1>8. Recording(t)
  <2>1. edges' \subseteq txns \X txns
    BY <1>1, RwEdgeFacts DEF CoverInv, BaseInv, Types
  <2>2. ssi' \in [Txn -> TxnSsi]
    BY <1>4, <1>5 DEF CoverInv, BaseInv, Types
  <2>3. reads' \in [Txn -> SUBSET Item]
    BY <1>1, <1>7 DEF CoverInv, BaseInv, Types
  <2> HIDE DEF writers
  <2> QED
    BY <1>1, <1>5, <1>6, <2>1, <2>2, <2>3 DEF Recording, Operation, CoverInv, BaseInv, Types
<1>9. BaseInv'
  BY <1>1, <1>2, <1>8, RecordingBase DEF CoverInv
<1>10. \A j \in reads'[t] :
        j[1] \in ssi'[t].relation_locks \/ KeyOf(j) \in ssi'[t].tuple_locks
  <2> SUFFICES ASSUME NEW j \in reads'[t]
               PROVE  j[1] \in s.relation_locks \/ KeyOf(j) \in s.tuple_locks
    BY <1>6
  <2>1. CASE j \in Rows(b)
    BY <1>5, <1>7, <2>1
  <2>2. CASE j \in reads[t]
    BY <1>2, <1>5, <2>2 DEF CoverInv, Covered
  <2> QED  BY <1>1, <2>1, <2>2 DEF CoverInv, BaseInv, Types
<1>11. ASSUME NEW w \in txns \ {t}, writes[w] \cap Rows(b) # {}, concurrent(snap[t], w)
       PROVE  <<t, w>> \in edges'
  <2>1. w \in writers
    BY <1>7, <1>11 DEF CoverInv, Covered, txns
  <2> QED  BY <1>1, <1>2, <1>11, <2>1, RwEdgeFacts
<1> HIDE DEF writers
<1>12. /\ \A u \in Txn : /\ u # t => ssi'[u] = ssi[u]
                         /\ ssi'[u].relation_writes = ssi[u].relation_writes
                         /\ ssi'[u].tuple_writes = ssi[u].tuple_writes
                         /\ ssi'[u].promoted = ssi[u].promoted
                         /\ ssi'[u].whole_relation_writes = ssi[u].whole_relation_writes
       /\ identity' = identity /\ writes' = writes
       /\ reads'[t] = reads[t] \cup Rows(b)
  BY <1>1, <1>5, <1>6 DEF CoverInv, BaseInv, Types
<1>13. Covered' /\ EdgesComplete'
  BY <1>8, <1>10, <1>11, <1>12, ReadRecorded DEF CoverInv
<1> QED  BY <1>8, <1>9, <1>13 DEF CoverInv

\* An INSERT, UPDATE or DELETE.
LEMMA NoteWriteCovers ==
  ASSUME CoverInv, NEW t \in Txn, NEW i \in Item, note_write(t, i)
  PROVE  CoverInv' /\ Recording(t)
<1> USE SsiAssumption
<1> DEFINE readers == {r \in Txn : \/ i[1] \in ssi[r].relation_locks
                                   \/ KeyOf(i) \in ssi[r].tuple_locks}
<1>1. /\ Operation(t) /\ edges' = edges \cup form_rw_edge(readers, {t})
      /\ writes' = [writes EXCEPT ![t] = @ \cup {i}]
      /\ UNCHANGED <<snap, next_txn_id, identity, ddl, reads, order>>
  BY DEF note_write
<1>2. t \in txns /\ ops' \in 0..MaxOps /\ ddl' \in 0..MaxDdl /\ ddl <= ddl'
  BY <1>1, RunningFacts DEF CoverInv, BaseInv, Types
<1>3. i[1] \in Table /\ KeyOf(i) \in SsiKey
  BY DEF CoverInv, BaseInv, Types, Item, KeyOf, SsiKey
<1>4. PICK s : s = [ssi[t] EXCEPT !.relation_writes = @ \cup {i[1]},
                                  !.tuple_writes = @ \cup {KeyOf(i)}]
  OBVIOUS
<1>5. ssi' = [ssi EXCEPT ![t] = s]
  BY <1>4 DEF note_write
<1>6. /\ s \in TxnSsi
      /\ s.tracked = ssi[t].tracked /\ s.finished = ssi[t].finished
      /\ s.commit_seq = ssi[t].commit_seq
      /\ s.relation_writes = ssi[t].relation_writes \cup {i[1]}
      /\ s.tuple_writes = ssi[t].tuple_writes \cup {KeyOf(i)}
      /\ s.promoted = ssi[t].promoted
      /\ s.whole_relation_writes = ssi[t].whole_relation_writes
      /\ s.tuple_locks = ssi[t].tuple_locks
      /\ s.relation_locks = ssi[t].relation_locks
  BY <1>3, <1>4 DEF TxnSsi, CoverInv, BaseInv, Types
<1>7. \A u \in Txn : /\ u # t => ssi'[u] = ssi[u]
                     /\ u = t => ssi'[u] = s
  BY <1>5 DEF CoverInv, BaseInv, Types
<1>8. pc' = pc \/ pc' = [pc EXCEPT ![t] = "failed"]
  <2>1. PICK x : pc' = [pc EXCEPT ![t] = x] /\ (x = "failed" \/ x = pc[t])
    BY DEF note_write
  <2> QED  BY <2>1 DEF CoverInv, BaseInv, Types
<1>9. Recording(t)
  <2>1. edges' \subseteq txns \X txns
    BY <1>1, RwEdgeFacts DEF CoverInv, BaseInv, Types
  <2>2. ssi' \in [Txn -> TxnSsi]
    BY <1>5, <1>6 DEF CoverInv, BaseInv, Types
  <2>3. writes' \in [Txn -> SUBSET Item]
    BY <1>1 DEF CoverInv, BaseInv, Types
  <2> HIDE DEF readers
  <2> QED
    BY <1>1, <1>6, <1>7, <1>8, <2>1, <2>2, <2>3
    DEF Recording, Operation, CoverInv, BaseInv, Types
<1>10. BaseInv'
  BY <1>1, <1>2, <1>9, RecordingBase DEF CoverInv
<1>11. ASSUME NEW j \in writes'[t]
       PROVE  /\ j[1] \in ssi'[t].relation_writes
              /\ \/ KeyOf(j) \in ssi'[t].tuple_writes
                 \/ j[1] \in ssi'[t].promoted \cup ssi'[t].whole_relation_writes
  <2>1. CASE j = i
    BY <1>6, <1>7, <2>1
  <2>2. CASE j \in writes[t]
    BY <1>2, <1>6, <1>7, <2>2 DEF CoverInv, Covered
  <2> QED  BY <1>1, <1>11, <2>1, <2>2 DEF CoverInv, BaseInv, Types
<1>12. ASSUME NEW r \in txns \ {t}, reads[r] \cap {i} # {}, concurrent(snap[r], t)
       PROVE  <<r, t>> \in edges'
  <2>1. r \in readers
    BY <1>12 DEF CoverInv, Covered, txns
  <2> QED  BY <1>1, <1>2, <1>12, <2>1, RwEdgeFacts
<1> HIDE DEF readers
<1>13. /\ \A u \in Txn : /\ u # t => ssi'[u] = ssi[u]
                         /\ ssi'[u].relation_locks = ssi[u].relation_locks
                         /\ ssi'[u].tuple_locks = ssi[u].tuple_locks
       /\ identity' = identity /\ reads' = reads
       /\ writes'[t] = writes[t] \cup {i}
  BY <1>1, <1>6, <1>7 DEF CoverInv, BaseInv, Types
<1>14. Covered' /\ EdgesComplete'
  BY <1>9, <1>11, <1>12, <1>13, WriteRecorded DEF CoverInv
<1> QED  BY <1>9, <1>10, <1>14 DEF CoverInv
\* TRUNCATE: every row of the table is written at once.
LEMMA TruncateCovers ==
  ASSUME CoverInv, NEW t \in Txn, NEW b \in Table, note_relation_write(t, b)
  PROVE  CoverInv' /\ Recording(t)
<1> USE SsiAssumption
<1> DEFINE readers == {r \in Txn : \/ b \in ssi[r].relation_locks
                                   \/ \E k \in ssi[r].tuple_locks : k[1] = b}
<1>1. /\ Operation(t) /\ Ddl /\ edges' = edges \cup form_rw_edge(readers, {t})
      /\ writes' = [writes EXCEPT ![t] = @ \cup Rows(b)]
      /\ UNCHANGED <<snap, next_txn_id, identity, reads, order>>
  BY DEF note_relation_write
<1>2. t \in txns /\ ops' \in 0..MaxOps
  BY <1>1, RunningFacts DEF CoverInv
<1>3. ddl' \in 0..MaxDdl /\ ddl <= ddl'
  BY <1>1 DEF Ddl, CoverInv, BaseInv, Types
<1>4. PICK s : s = [ssi[t] EXCEPT !.relation_writes = @ \cup {b},
                                  !.whole_relation_writes = @ \cup {b}]
  OBVIOUS
<1>5. ssi' = [ssi EXCEPT ![t] = s]
  BY <1>4 DEF note_relation_write
<1>6. /\ s \in TxnSsi
      /\ s.tracked = ssi[t].tracked /\ s.finished = ssi[t].finished
      /\ s.commit_seq = ssi[t].commit_seq
      /\ s.relation_writes = ssi[t].relation_writes \cup {b}
      /\ s.tuple_writes = ssi[t].tuple_writes
      /\ s.promoted = ssi[t].promoted
      /\ s.whole_relation_writes = ssi[t].whole_relation_writes \cup {b}
      /\ s.tuple_locks = ssi[t].tuple_locks
      /\ s.relation_locks = ssi[t].relation_locks
  BY <1>4 DEF TxnSsi, CoverInv, BaseInv, Types
<1>7. \A u \in Txn : /\ u # t => ssi'[u] = ssi[u]
                     /\ u = t => ssi'[u] = s
  BY <1>5 DEF CoverInv, BaseInv, Types
<1>8. pc' = pc \/ pc' = [pc EXCEPT ![t] = "failed"]
  <2>1. PICK x : pc' = [pc EXCEPT ![t] = x] /\ (x = "failed" \/ x = pc[t])
    BY DEF note_relation_write
  <2> QED  BY <2>1 DEF CoverInv, BaseInv, Types
<1>9. Rows(b) \subseteq Item /\ \A j \in Rows(b) : j[1] = b
  BY DEF Rows, Item
<1>10. Recording(t)
  <2>1. edges' \subseteq txns \X txns
    BY <1>1, RwEdgeFacts DEF CoverInv, BaseInv, Types
  <2>2. ssi' \in [Txn -> TxnSsi]
    BY <1>5, <1>6 DEF CoverInv, BaseInv, Types
  <2>3. writes' \in [Txn -> SUBSET Item]
    BY <1>1, <1>9 DEF CoverInv, BaseInv, Types
  <2> HIDE DEF readers
  <2> QED
    BY <1>1, <1>6, <1>7, <1>8, <2>1, <2>2, <2>3
    DEF Recording, Operation, CoverInv, BaseInv, Types
<1>11. BaseInv'
  BY <1>1, <1>2, <1>3, <1>10, RecordingBase DEF CoverInv
<1>12. ASSUME NEW j \in writes'[t]
       PROVE  /\ j[1] \in ssi'[t].relation_writes
              /\ \/ KeyOf(j) \in ssi'[t].tuple_writes
                 \/ j[1] \in ssi'[t].promoted \cup ssi'[t].whole_relation_writes
  <2>1. CASE j \in Rows(b)
    BY <1>6, <1>7, <1>9, <2>1
  <2>2. CASE j \in writes[t]
    BY <1>2, <1>6, <1>7, <2>2 DEF CoverInv, Covered
  <2> QED  BY <1>1, <1>12, <2>1, <2>2 DEF CoverInv, BaseInv, Types
<1>13. ASSUME NEW r \in txns \ {t}, reads[r] \cap Rows(b) # {}, concurrent(snap[r], t)
       PROVE  <<r, t>> \in edges'
  <2>1. PICK j \in reads[r] : j \in Rows(b)
    BY <1>13
  <2>2. b \in ssi[r].relation_locks \/ KeyOf(j) \in ssi[r].tuple_locks
    BY <1>9, <2>1 DEF CoverInv, Covered
  <2>3. KeyOf(j)[1] = b
    BY <1>9, <2>1 DEF KeyOf
  <2>4. r \in readers
    BY <2>2, <2>3 DEF txns
  <2> QED  BY <1>1, <1>2, <1>13, <2>4, RwEdgeFacts
<1> HIDE DEF readers
<1>14. /\ \A u \in Txn : /\ u # t => ssi'[u] = ssi[u]
                         /\ ssi'[u].relation_locks = ssi[u].relation_locks
                         /\ ssi'[u].tuple_locks = ssi[u].tuple_locks
       /\ identity' = identity /\ reads' = reads
       /\ writes'[t] = writes[t] \cup Rows(b)
  BY <1>1, <1>6, <1>7 DEF CoverInv, BaseInv, Types
<1>15. Covered' /\ EdgesComplete'
  BY <1>10, <1>12, <1>13, <1>14, WriteRecorded DEF CoverInv
<1> QED  BY <1>10, <1>11, <1>15 DEF CoverInv

\* A change of the primary key: the row keys of the table change, and every
\* lock and write entry that names one is widened to the table.
LEMMA PromoteCovers ==
  ASSUME CoverInv, NEW b \in Table, promote_table_identity_locks_to_relation(b)
  PROVE  /\ CoverInv'
         /\ \A u \in Txn : /\ ssi'[u].tracked = ssi[u].tracked
                           /\ ssi'[u].commit_seq = ssi[u].commit_seq
<1> USE SsiAssumption
<1> DEFINE readers == {r \in Txn : \E k \in ssi[r].tuple_locks : k[1] = b}
           writers == {w \in Txn : b \in ssi[w].relation_writes}
           S(u) == [ssi[u] EXCEPT
                      !.tuple_locks = {k \in @ : k[1] # b},
                      !.relation_locks = IF u \in readers THEN @ \cup {b} ELSE @,
                      !.promoted = IF u \in writers THEN @ \cup {b} ELSE @]
<1>1. /\ Ddl /\ ops' = ops + 1
      /\ identity' = [identity EXCEPT ![b] = @ + 1]
      /\ edges' = edges \cup form_rw_edge(readers, writers)
      /\ ssi' = [u \in Txn |-> S(u)]
      /\ UNCHANGED <<pc, snap, next_txn_id, reads, writes, order>>
  BY DEF promote_table_identity_locks_to_relation, registry
<1>2. ASSUME NEW u \in Txn
      PROVE  /\ ssi'[u] \in TxnSsi
             /\ ssi'[u].tracked = ssi[u].tracked /\ ssi'[u].finished = ssi[u].finished
             /\ ssi'[u].commit_seq = ssi[u].commit_seq
             /\ ssi'[u].tuple_locks = {k \in ssi[u].tuple_locks : k[1] # b}
             /\ ssi[u].relation_locks \subseteq ssi'[u].relation_locks
             /\ u \in readers => b \in ssi'[u].relation_locks
             /\ ssi'[u].relation_writes = ssi[u].relation_writes
             /\ ssi'[u].whole_relation_writes = ssi[u].whole_relation_writes
             /\ ssi'[u].tuple_writes = ssi[u].tuple_writes
             /\ ssi[u].promoted \subseteq ssi'[u].promoted
             /\ u \in writers => b \in ssi'[u].promoted
  <2>1. ssi[u] \in TxnSsi
    BY DEF CoverInv, BaseInv, Types
  <2>2. PICK l : l = {k \in ssi[u].tuple_locks : k[1] # b}
    OBVIOUS
  <2>3. PICK m : m = IF u \in readers THEN ssi[u].relation_locks \cup {b}
                                      ELSE ssi[u].relation_locks
    OBVIOUS
  <2>4. PICK p : p = IF u \in writers THEN ssi[u].promoted \cup {b} ELSE ssi[u].promoted
    OBVIOUS
  <2>5. l \in SUBSET SsiKey /\ m \in SUBSET Table /\ p \in SUBSET Table
    BY <2>1, <2>2, <2>3, <2>4 DEF TxnSsi
  <2>6. ssi'[u] = [ssi[u] EXCEPT !.tuple_locks = l, !.relation_locks = m, !.promoted = p]
    BY <1>1, <2>2, <2>3, <2>4
  <2> HIDE DEF readers, writers, S
  <2>7. /\ ssi'[u] \in TxnSsi
        /\ ssi'[u].tracked = ssi[u].tracked /\ ssi'[u].finished = ssi[u].finished
        /\ ssi'[u].commit_seq = ssi[u].commit_seq
        /\ ssi'[u].tuple_locks = l /\ ssi'[u].relation_locks = m
        /\ ssi'[u].relation_writes = ssi[u].relation_writes
        /\ ssi'[u].whole_relation_writes = ssi[u].whole_relation_writes
        /\ ssi'[u].tuple_writes = ssi[u].tuple_writes
        /\ ssi'[u].promoted = p
    BY <2>1, <2>5, <2>6 DEF TxnSsi
  <2> QED  BY <2>2, <2>3, <2>4, <2>7
<1>3. /\ ops' = ops + 1 /\ ddl < MaxDdl /\ ops < MaxOps /\ ddl' = ddl + 1
      /\ identity' = [identity EXCEPT ![b] = @ + 1]
      /\ UNCHANGED <<pc, snap, next_txn_id, reads, writes, order>>
  BY <1>1 DEF Ddl
<1>4. txns' = txns /\ Took' = Took /\ Range(order)' = Range(order)
  BY <1>3, <1>2 DEF txns, Took
<1>5. Types'
  <2>1. edges' \subseteq txns' \X txns'
    BY <1>1, <1>4, RwEdgeFacts DEF CoverInv, BaseInv, Types
  <2>2. ssi' \in [Txn -> TxnSsi]
    BY <1>1, <1>2
  <2>3. ddl' = ddl + 1 /\ ddl' \in 0..MaxDdl /\ ops' \in 0..MaxOps
    BY <1>3 DEF CoverInv, BaseInv, Types
  <2>4. identity' \in [Table -> 0..MaxDdl] /\ \A a \in Table : identity'[a] <= ddl'
    BY <1>3, <2>3 DEF CoverInv, BaseInv, Types
  <2> QED  BY <1>1, <2>1, <2>2, <2>3, <2>4 DEF CoverInv, BaseInv, Types, IsInjective
<1>6. Phases'
  BY <1>3, <1>2, <1>4 DEF CoverInv, BaseInv, Phases
<1>7. Covered'
  <2> SUFFICES ASSUME NEW u \in txns PROVE Covered!(u)'
    BY <1>4 DEF Covered
  <2>1. u \in Txn /\ reads[u] \subseteq Item /\ writes[u] \subseteq Item
    BY DEF txns, CoverInv, BaseInv, Types
  <2>2. ASSUME NEW i \in reads[u]
        PROVE  i[1] \in ssi'[u].relation_locks \/ KeyOf(i)' \in ssi'[u].tuple_locks
    <3>1. i[1] \in Table /\ KeyOf(i)[1] = i[1]
      BY <2>1, <2>2 DEF KeyOf, Item
    <3>2. i[1] \in ssi[u].relation_locks \/ KeyOf(i) \in ssi[u].tuple_locks
      BY <2>2 DEF CoverInv, Covered
    <3>3. CASE i[1] \in ssi[u].relation_locks
      BY <1>2, <2>1, <3>3
    <3>4. CASE KeyOf(i) \in ssi[u].tuple_locks /\ i[1] = b
      BY <1>2, <2>1, <3>1, <3>4
    <3>5. CASE KeyOf(i) \in ssi[u].tuple_locks /\ i[1] # b
      <4>1. KeyOf(i)' = KeyOf(i)
        BY <1>1, <3>1, <3>5 DEF KeyOf, CoverInv, BaseInv, Types
      <4> QED  BY <1>2, <2>1, <3>1, <3>5, <4>1
    <3> QED  BY <3>2, <3>3, <3>4, <3>5
  <2>3. ASSUME NEW i \in writes[u]
        PROVE  /\ i[1] \in ssi'[u].relation_writes
               /\ \/ KeyOf(i)' \in ssi'[u].tuple_writes
                  \/ i[1] \in ssi'[u].promoted \cup ssi'[u].whole_relation_writes
    <3>1. i[1] \in Table
      BY <2>1, <2>3 DEF Item
    <3>2. /\ i[1] \in ssi[u].relation_writes
          /\ \/ KeyOf(i) \in ssi[u].tuple_writes
             \/ i[1] \in ssi[u].promoted \cup ssi[u].whole_relation_writes
      BY <2>3 DEF CoverInv, Covered
    <3>3. CASE i[1] = b
      BY <1>2, <2>1, <3>2, <3>3
    <3>4. CASE i[1] # b
      <4>1. KeyOf(i)' = KeyOf(i)
        BY <1>1, <3>1, <3>4 DEF KeyOf, CoverInv, BaseInv, Types
      <4> QED  BY <1>2, <2>1, <3>2, <4>1
    <3> QED  BY <3>3, <3>4
  <2> QED  BY <1>1, <2>2, <2>3
<1>8. EdgesComplete'
  BY <1>1, <1>4 DEF CoverInv, EdgesComplete, Antidependency, concurrent
<1> QED  BY <1>2, <1>5, <1>6, <1>7, <1>8 DEF CoverInv, BaseInv
-----------------------------------------------------------------------------
(* Snapshots, the order of commits and what the manager may forget.        *)

OrderInv == Stamped /\ Snapshots /\ Forgotten
SsiInv == CoverInv /\ OrderInv

\* Nothing of it depends on what is recorded, as long as the phases of the
\* writers that passed their check, and the snapshots, stay.
LEMMA RecordingOrder ==
  ASSUME BaseInv, OrderInv, NEW t \in Txn, Recording(t)
  PROVE  OrderInv'
<1>1. txns' = txns /\ Took' = Took /\ Range(order)' = Range(order)
  BY DEF Recording, txns, Took
<1>2. active' = active /\ advertised' = advertised
  BY DEF Recording, active, advertised, BaseInv, Types
<1>3. t \notin Range(order)
  BY DEF Recording, BaseInv, Phases
<1>4. Stamped'
  <2> SUFFICES ASSUME NEW u \in txns, pc'[u] = "checked" \/ u \in Range(order),
                      writes'[u] # {}
               PROVE  ssi'[u].commit_seq
    BY <1>1 DEF Stamped
  <2>1. u \in Txn /\ u # t /\ pc'[u] = pc[u]
    BY <1>3 DEF txns, Recording, BaseInv, Types
  <2> QED  BY <2>1 DEF OrderInv, Stamped, Recording
<1>5. Snapshots'
  BY <1>1, <1>2 DEF OrderInv, Snapshots, Shows, concurrent, Recording
<1>6. Forgotten'
  BY <1>1, <1>2 DEF OrderInv, Forgotten, concurrent, Recording
<1> QED  BY <1>4, <1>5, <1>6 DEF OrderInv

\* The initial state.
LEMMA InitInv == Init => SsiInv
<1> SUFFICES ASSUME Init PROVE SsiInv
  OBVIOUS
<1>1. BaseInv
  BY InitBase
<1>2. txns = {} /\ Took = {} /\ advertised = {} /\ Range(order) = {}
  BY DEF Init, txns, Took, Untracked, advertised, Range
<1> QED
  BY <1>1, <1>2 DEF SsiInv, CoverInv, Covered, EdgesComplete, OrderInv, Stamped, Snapshots,
     Forgotten

\* BEGIN: the new id is beyond every snapshot.
LEMMA BeginInv == SsiInv /\ Begin => SsiInv'
<1> SUFFICES ASSUME SsiInv, Begin PROVE SsiInv'
  OBVIOUS
<1>1. BaseInv'
  BY BeginBase DEF SsiInv, CoverInv
<1>2. PICK n \in Txn : n = next_txn_id
  BY SsiAssumption DEF Begin, SsiInv, CoverInv, BaseInv, Types, Txn
<1>3. pc[n] = "none" /\ n \notin Took /\ n \notin txns /\ n \notin Range(order)
  BY <1>2 DEF SsiInv, CoverInv, BaseInv, Types, Phases, txns, Txn
<1>4. /\ UNCHANGED <<snap, ssi, edges, identity, reads, writes, order>>
      /\ pc' = [pc EXCEPT ![n] = "open"] /\ next_txn_id' = next_txn_id + 1
  BY <1>2 DEF Begin, manager, history
<1>5. txns' = txns /\ Took' = Took /\ Range(order)' = Range(order)
  BY <1>4 DEF txns, Took
<1>6. active' = active \cup {n} /\ advertised' = advertised
  BY <1>3, <1>4 DEF active, advertised, Took, SsiInv, CoverInv, BaseInv, Types
<1>7. Covered' /\ EdgesComplete'
  BY <1>4, <1>5 DEF SsiInv, CoverInv, Covered, KeyOf, EdgesComplete, Antidependency, concurrent
<1>8. Stamped'
  BY <1>3, <1>4, <1>5 DEF SsiInv, CoverInv, BaseInv, Types, OrderInv, Stamped, txns
<1>9. Snapshots'
  <2> SUFFICES ASSUME NEW u \in Took PROVE Shows(u)'
    BY <1>5 DEF Snapshots
  <2>1. Shows(u) /\ u \in Txn /\ snap[u] \in Snapshot
    BY DEF SsiInv, OrderInv, Snapshots, Took, CoverInv, BaseInv, Types
  <2>2. snap'[u].xmax <= next_txn_id' /\ concurrent(snap[u], n)
    BY <1>2, <1>4, <2>1 DEF Shows, concurrent, Txn, Snapshot, SsiInv, CoverInv, BaseInv, Types
  <2>3. \A v \in active' \ {u} : concurrent(snap'[u], v)
    BY <1>4, <1>6, <2>1, <2>2 DEF Shows, concurrent
  <2> QED  BY <1>4, <2>1, <2>2, <2>3 DEF Shows, concurrent
<1>10. Forgotten'
  BY <1>4, <1>5, <1>6 DEF SsiInv, OrderInv, Forgotten, concurrent
<1> QED  BY <1>1, <1>7, <1>8, <1>9, <1>10 DEF SsiInv, CoverInv, OrderInv

\* The first statement: its snapshot shows every commit there is, and misses
\* whatever is active.
LEMMA RegisterInv ==
  ASSUME SsiInv, NEW t \in Txn, register(t)
  PROVE  SsiInv'
<1>1. PICK c : c = capture(t)
  OBVIOUS
<1>2. /\ BaseInv' /\ c \in Snapshot
      /\ c.xmin <= t /\ c.xmax = next_txn_id /\ c.xip = active \ {t}
      /\ \A u \in active : c.xmin <= u
      /\ t < next_txn_id
  BY <1>1, RegisterBase DEF SsiInv, CoverInv, capture
<1>3. /\ pc[t] = "open" /\ pc' = [pc EXCEPT ![t] = "running"]
      /\ snap' = [snap EXCEPT ![t] = c]
      /\ UNCHANGED <<next_txn_id, edges, identity, reads, writes, order>>
  BY <1>1 DEF register, history
<1>4. /\ \A u \in Txn : u # t => ssi'[u] = ssi[u] /\ snap'[u] = snap[u] /\ pc'[u] = pc[u]
      /\ snap'[t] = c /\ pc'[t] = "running"
  BY <1>3 DEF register, SsiInv, CoverInv, BaseInv, Types
<1>5. ssi'[t].tracked
  BY DEF register, SsiInv, CoverInv, BaseInv, Types, TxnSsi
<1>6. c # NoSnapshot
  BY <1>2, <1>3 DEF NoSnapshot, SsiInv, CoverInv, BaseInv, Types
<1>7. /\ txns' = txns \cup {t} /\ Took' = Took \cup {t} /\ Range(order)' = Range(order)
      /\ active' = active /\ advertised' = advertised \cup {t}
  BY <1>3, <1>4, <1>5, <1>6 DEF txns, Took, active, advertised
<1>8. t \notin txns /\ t \notin Took /\ reads[t] = {} /\ writes[t] = {} /\ t \notin Range(order)
  BY <1>3 DEF SsiInv, CoverInv, BaseInv, Phases, txns
<1>9. Covered'
  <2> SUFFICES ASSUME NEW u \in txns' PROVE Covered!(u)'
    BY DEF Covered
  <2>1. CASE u = t
    BY <1>3, <1>8, <2>1
  <2>2. CASE u # t
    BY <1>3, <1>4, <1>7, <2>2 DEF SsiInv, CoverInv, Covered, KeyOf, txns
  <2> QED  BY <2>1, <2>2
<1>10. EdgesComplete'
  BY <1>3, <1>4, <1>7, <1>8
  DEF SsiInv, CoverInv, EdgesComplete, Antidependency, concurrent, txns
<1>11. Stamped'
  BY <1>3, <1>4, <1>7, <1>8 DEF SsiInv, OrderInv, Stamped, txns
<1>12. \A u \in Range(order) : u \in Txn /\ ~ concurrent(c, u)
  <2> SUFFICES ASSUME NEW u \in Range(order) PROVE u \in Txn /\ ~ concurrent(c, u)
    OBVIOUS
  <2>1. u \in Txn
    BY DEF Range, SsiInv, CoverInv, BaseInv, Types
  <2>2. pc[u] \in {"settled", "done"}
    BY <2>1 DEF SsiInv, CoverInv, BaseInv, Phases
  <2>3. u < next_txn_id /\ u \notin active
    BY <2>1, <2>2 DEF SsiInv, CoverInv, BaseInv, Phases, Types, active, Txn
  <2> QED  BY <1>2, <2>1, <2>3 DEF concurrent, Txn, SsiInv, CoverInv, BaseInv, Types
<1>13. Snapshots'
  <2> SUFFICES ASSUME NEW u \in Took' PROVE Shows(u)'
    BY DEF Snapshots
  <2>1. CASE u = t
    <3>1. \A v \in active' \ {u} : concurrent(snap'[u], v)
      BY <1>2, <1>4, <1>7, <2>1 DEF concurrent
    <3>2. \A i \in DOMAIN order' : ~ concurrent(snap'[u], order'[i])
      BY <1>3, <1>4, <1>12, <2>1 DEF Range, concurrent
    <3>3. /\ snap'[u].xmin <= u /\ u < snap'[u].xmax /\ snap'[u].xmax <= next_txn_id'
          /\ \A v \in snap'[u].xip : snap'[u].xmin <= v
      BY <1>2, <1>3, <1>4, <2>1 DEF SsiInv, CoverInv, BaseInv, Types
    <3> QED  BY <3>1, <3>2, <3>3 DEF Shows, concurrent
  <2>2. CASE u # t
    <3>1. u \in Took /\ u \in Txn /\ snap'[u] = snap[u]
      BY <1>4, <1>7, <2>2 DEF Took
    <3> QED  BY <1>3, <1>7, <3>1 DEF SsiInv, OrderInv, Snapshots, Shows, concurrent
  <2> QED  BY <2>1, <2>2
<1>14. Forgotten'
  <2> SUFFICES ASSUME NEW v \in Range(order) \ txns, NEW u \in advertised'
               PROVE  ~ concurrent(snap'[u], v)
    BY <1>7 DEF Forgotten, concurrent
  <2>1. CASE u = t
    BY <1>4, <1>12, <2>1
  <2>2. CASE u # t
    <3>1. u \in advertised /\ snap'[u] = snap[u]
      BY <1>4, <1>7, <2>2 DEF advertised
    <3> QED  BY <3>1 DEF SsiInv, OrderInv, Forgotten
  <2> QED  BY <2>1, <2>2
<1> QED  BY <1>2, <1>9, <1>10, <1>11, <1>13, <1>14 DEF SsiInv, CoverInv, OrderInv
\* A commit becomes durable: the transaction is the last of the order, and
\* every snapshot but its own misses it.
LEMMA CommitInv ==
  ASSUME SsiInv, NEW t \in Txn, CommitReadOnly(t) \/ CommitDurable(t)
  PROVE  SsiInv'
<1>1. /\ pc[t] \in {"running", "checked"} /\ pc' = [pc EXCEPT ![t] = "settled"]
      /\ pc[t] = "running" => writes[t] = {}
      /\ order' = Append(order, t)
      /\ UNCHANGED <<snap, next_txn_id, ssi, edges, identity, ops, ddl, reads, writes>>
  BY DEF CommitReadOnly, CommitDurable, manager
<1>2. t \notin Range(order) /\ t \in txns /\ t \in Took /\ t \in active
  BY <1>1 DEF SsiInv, CoverInv, BaseInv, Phases, txns, active
<1>3. /\ order' \in Seq(Txn) /\ Range(order') = Range(order) \cup {t} /\ IsInjective(order')
  BY <1>1, <1>2, AppendFacts DEF SsiInv, CoverInv, BaseInv, Types
<1>4. txns' = txns /\ Took' = Took /\ advertised' = advertised /\ active' = active \ {t}
  BY <1>1 DEF txns, Took, advertised, active, SsiInv, CoverInv, BaseInv, Types
<1>5. BaseInv'
  <2>1. Types'
    BY <1>1, <1>3, <1>4 DEF SsiInv, CoverInv, BaseInv, Types, Phase
  <2>2. Phases'
    BY <1>1, <1>2, <1>3, <1>4 DEF SsiInv, CoverInv, BaseInv, Types, Phases
  <2> QED  BY <2>1, <2>2 DEF BaseInv
<1>6. Covered' /\ EdgesComplete'
  BY <1>1, <1>4 DEF SsiInv, CoverInv, Covered, KeyOf, EdgesComplete, Antidependency, concurrent
<1>7. Stamped'
  <2> SUFFICES ASSUME NEW u \in txns, pc'[u] = "checked" \/ u \in Range(order'), writes[u] # {}
               PROVE  ssi[u].commit_seq
    BY <1>1, <1>4 DEF Stamped
  <2>1. pc[u] = "checked" \/ u \in Range(order)
    BY <1>1, <1>3 DEF SsiInv, CoverInv, BaseInv, Types, txns
  <2> QED  BY <2>1 DEF SsiInv, OrderInv, Stamped
<1>8. Snapshots'
  <2> SUFFICES ASSUME NEW u \in Took PROVE Shows(u)'
    BY <1>4 DEF Snapshots
  <2>1. Shows(u)
    BY DEF SsiInv, OrderInv, Snapshots
  <2>2. ASSUME NEW i \in DOMAIN order', NEW j \in DOMAIN order', i < j,
               order'[i] # u, order'[j] # u, concurrent(snap[u], order'[i])
        PROVE  concurrent(snap[u], order'[j])
    <3>1. /\ order \in Seq(Txn) /\ Len(order) \in Nat
          /\ DOMAIN order = 1..Len(order) /\ DOMAIN order' = 1..(Len(order) + 1)
          /\ \A n \in 1..Len(order) : order'[n] = order[n]
          /\ order'[Len(order) + 1] = t
      BY <1>1 DEF SsiInv, CoverInv, BaseInv, Types
    <3>2. CASE j = Len(order) + 1
      BY <1>2, <2>1, <2>2, <3>1, <3>2 DEF Shows
    <3>3. CASE j # Len(order) + 1
      <4>1. /\ i \in DOMAIN order /\ j \in DOMAIN order
            /\ order'[i] = order[i] /\ order'[j] = order[j]
        BY <2>2, <3>1, <3>3
      <4> QED  BY <2>1, <2>2, <4>1 DEF Shows
    <3> QED  BY <3>2, <3>3
  <2> QED  BY <1>1, <1>4, <2>1, <2>2 DEF Shows, concurrent
<1>9. Forgotten'
  BY <1>1, <1>2, <1>3, <1>4 DEF SsiInv, OrderInv, Forgotten, concurrent
<1> QED  BY <1>5, <1>6, <1>7, <1>8, <1>9 DEF SsiInv, CoverInv, OrderInv

\* The commit check, passed or failed.
LEMMA CommitCheckInv ==
  ASSUME SsiInv, NEW t \in Txn, commit_check(t)
  PROVE  SsiInv'
<1>1. /\ pc[t] = "running" /\ writes[t] # {}
      /\ UNCHANGED <<snap, next_txn_id, edges, identity, ops, ddl, reads, writes, order>>
  BY DEF commit_check, manager, history
<1>2. PICK x, s : /\ pc' = [pc EXCEPT ![t] = x] /\ ssi' = [ssi EXCEPT ![t] = s]
                  /\ s \in TxnSsi
                  /\ x = "failed" \/ (x = "checked" /\ s.commit_seq)
                  /\ s.tracked = ssi[t].tracked /\ s.finished = ssi[t].finished
                  /\ s.relation_locks = ssi[t].relation_locks
                  /\ s.tuple_locks = ssi[t].tuple_locks
                  /\ s.relation_writes = ssi[t].relation_writes
                  /\ s.whole_relation_writes = ssi[t].whole_relation_writes
                  /\ s.tuple_writes = ssi[t].tuple_writes
                  /\ s.promoted = ssi[t].promoted
  <2>1. ssi[t] \in TxnSsi /\ ssi \in [Txn -> TxnSsi]
    BY DEF SsiInv, CoverInv, BaseInv, Types
  <2>2. CASE is_doomed_pivot(t, edges) \/ dooms_in_neighbor(t)
    <3>1. pc' = [pc EXCEPT ![t] = "failed"] /\ ssi' = ssi
      BY <2>2 DEF commit_check, manager
    <3>2. ssi' = [ssi EXCEPT ![t] = ssi[t]]
      BY <2>1, <3>1
    <3> QED  BY <2>1, <3>1, <3>2
  <2>3. CASE ~ (is_doomed_pivot(t, edges) \/ dooms_in_neighbor(t))
    <3>1. PICK s : s = [ssi[t] EXCEPT !.commit_seq = TRUE]
      OBVIOUS
    <3>2. pc' = [pc EXCEPT ![t] = "checked"] /\ ssi' = [ssi EXCEPT ![t] = s]
      BY <2>3, <3>1 DEF commit_check
    <3>3. /\ s \in TxnSsi /\ s.commit_seq
          /\ s.tracked = ssi[t].tracked /\ s.finished = ssi[t].finished
          /\ s.relation_locks = ssi[t].relation_locks
          /\ s.tuple_locks = ssi[t].tuple_locks
          /\ s.relation_writes = ssi[t].relation_writes
          /\ s.whole_relation_writes = ssi[t].whole_relation_writes
          /\ s.tuple_writes = ssi[t].tuple_writes
          /\ s.promoted = ssi[t].promoted
      BY <2>1, <3>1 DEF TxnSsi
    <3> QED  BY <3>2, <3>3
  <2> QED  BY <2>2, <2>3
<1>3. /\ \A u \in Txn : /\ u # t => ssi'[u] = ssi[u] /\ pc'[u] = pc[u]
                        /\ u = t => ssi'[u] = s /\ pc'[u] = x
  BY <1>2 DEF SsiInv, CoverInv, BaseInv, Types
<1>4. t \notin Range(order) /\ t \in txns /\ t \in Took
  BY <1>1 DEF SsiInv, CoverInv, BaseInv, Phases, txns
<1>5. /\ txns' = txns /\ Took' = Took /\ Range(order)' = Range(order)
      /\ advertised' = advertised /\ active' = active
  BY <1>1, <1>2, <1>3 DEF txns, Took, advertised, active
<1>6. BaseInv'
  <2>1. Types'
    BY <1>1, <1>2, <1>5 DEF SsiInv, CoverInv, BaseInv, Types, Phase, IsInjective
  <2>2. Phases'
    BY <1>1, <1>2, <1>3, <1>4, <1>5 DEF SsiInv, CoverInv, BaseInv, Phases
  <2> QED  BY <2>1, <2>2 DEF BaseInv
<1>7. Covered' /\ EdgesComplete'
  <2>1. EdgesComplete'
    BY <1>1, <1>5 DEF SsiInv, CoverInv, EdgesComplete, Antidependency, concurrent
  <2>2. Covered'
    <3> SUFFICES ASSUME NEW u \in txns PROVE Covered!(u)'
      BY <1>5 DEF Covered
    <3>1. u \in Txn
      BY DEF txns
    <3>2. /\ ssi'[u].relation_locks = ssi[u].relation_locks
          /\ ssi'[u].tuple_locks = ssi[u].tuple_locks
          /\ ssi'[u].relation_writes = ssi[u].relation_writes
          /\ ssi'[u].whole_relation_writes = ssi[u].whole_relation_writes
          /\ ssi'[u].tuple_writes = ssi[u].tuple_writes
          /\ ssi'[u].promoted = ssi[u].promoted
      BY <1>2, <1>3, <3>1
    <3> QED  BY <1>1, <3>2 DEF SsiInv, CoverInv, Covered, KeyOf
  <2> QED  BY <2>1, <2>2
<1>8. Stamped'
  <2> SUFFICES ASSUME NEW u \in txns, pc'[u] = "checked" \/ u \in Range(order), writes[u] # {}
               PROVE  ssi'[u].commit_seq
    BY <1>1, <1>5 DEF Stamped
  <2>1. u \in Txn
    BY DEF txns
  <2>2. CASE u = t
    BY <1>2, <1>3, <1>4, <2>1, <2>2
  <2>3. CASE u # t
    BY <1>3, <2>1, <2>3 DEF SsiInv, OrderInv, Stamped
  <2> QED  BY <2>2, <2>3
<1>9. Snapshots' /\ Forgotten'
  BY <1>1, <1>5 DEF SsiInv, OrderInv, Snapshots, Shows, Forgotten, concurrent
<1> QED  BY <1>6, <1>7, <1>8, <1>9 DEF SsiInv, CoverInv, OrderInv
\* Dropping a set of transactions from the manager: what remains is complete.
LEMMA PurgeFacts ==
  ASSUME CoverInv, NEW ss \in [Txn -> TxnSsi], NEW ts \in SUBSET Txn, purge(ss, ts),
         \A u \in Txn : /\ ss[u].tracked = ssi[u].tracked
                        /\ ss[u].commit_seq = ssi[u].commit_seq
                        /\ ss[u].relation_locks = ssi[u].relation_locks
                        /\ ss[u].tuple_locks = ssi[u].tuple_locks
                        /\ ss[u].relation_writes = ssi[u].relation_writes
                        /\ ss[u].whole_relation_writes = ssi[u].whole_relation_writes
                        /\ ss[u].tuple_writes = ssi[u].tuple_writes
                        /\ ss[u].promoted = ssi[u].promoted,
         identity' = identity,
         \A u \in Txn \ ts : /\ snap'[u] = snap[u] /\ reads'[u] = reads[u]
                             /\ writes'[u] = writes[u]
  PROVE  /\ ssi' \in [Txn -> TxnSsi] /\ edges' \subseteq txns' \X txns'
         /\ txns' = txns \ ts
         /\ \A u \in Txn : /\ u \in ts => ssi'[u] = Untracked
                           /\ u \notin ts => ssi'[u] = ss[u]
         /\ Covered' /\ EdgesComplete'
<1>1. Untracked \in TxnSsi /\ ~ Untracked.tracked
  BY DEF Untracked, TxnSsi
<1>2. /\ ssi' = [u \in Txn |-> IF u \in ts THEN Untracked ELSE ss[u]]
      /\ edges' = {e \in edges : e[1] \notin ts /\ e[2] \notin ts}
  BY DEF purge
<1>3. ssi' \in [Txn -> TxnSsi]
  BY <1>1, <1>2
<1>4. \A u \in Txn : /\ u \in ts => ssi'[u] = Untracked
                     /\ u \notin ts => ssi'[u] = ss[u]
  BY <1>2
<1>5. txns' = txns \ ts
  BY <1>1, <1>4 DEF txns
<1>6. edges' \subseteq txns' \X txns'
  BY <1>2, <1>5 DEF CoverInv, BaseInv, Types
<1>7. Covered'
  <2> SUFFICES ASSUME NEW u \in txns \ ts PROVE Covered!(u)'
    BY <1>5 DEF Covered
  <2>1. u \in Txn /\ ssi'[u] = ss[u] /\ reads'[u] = reads[u] /\ writes'[u] = writes[u]
    BY <1>4 DEF txns
  <2> QED  BY <2>1 DEF CoverInv, Covered, KeyOf
<1>8. EdgesComplete'
  <2> SUFFICES ASSUME NEW r \in txns \ ts, NEW w \in txns \ ts, Antidependency(r, w)'
               PROVE  <<r, w>> \in edges'
    BY <1>5 DEF EdgesComplete
  <2>1. Antidependency(r, w)
    BY DEF Antidependency, concurrent, txns
  <2>2. <<r, w>> \in edges
    BY <2>1 DEF CoverInv, EdgesComplete
  <2> QED  BY <1>2, <2>2
<1> QED  BY <1>3, <1>4, <1>5, <1>6, <1>7, <1>8

\* The end of a transaction that committed: the manager forgets the finished
\* ones below the horizon, which every snapshot in use shows.
LEMMA FinishInv ==
  ASSUME SsiInv, NEW t \in Txn, SsiFinish(t)
  PROVE  SsiInv'
<1>1. PICK s : s = [ssi[t] EXCEPT !.finished = TRUE]
  OBVIOUS
<1>2. PICK ss : ss = [ssi EXCEPT ![t] = s]
  OBVIOUS
<1>3. PICK ts : ts = releasable(ss)
  OBVIOUS
<1>4. /\ pc[t] = "settled" /\ pc' = [pc EXCEPT ![t] = "done"] /\ purge(ss, ts)
      /\ UNCHANGED <<snap, next_txn_id, identity, ops, ddl, reads, writes, order>>
  BY <1>1, <1>2, <1>3 DEF SsiFinish, history
<1>5. /\ s \in TxnSsi /\ s.finished
      /\ s.tracked = ssi[t].tracked /\ s.commit_seq = ssi[t].commit_seq
      /\ s.relation_locks = ssi[t].relation_locks
      /\ s.tuple_locks = ssi[t].tuple_locks
      /\ s.relation_writes = ssi[t].relation_writes
      /\ s.whole_relation_writes = ssi[t].whole_relation_writes
      /\ s.tuple_writes = ssi[t].tuple_writes
      /\ s.promoted = ssi[t].promoted
  BY <1>1 DEF TxnSsi, SsiInv, CoverInv, BaseInv, Types
<1>6. /\ ss \in [Txn -> TxnSsi] /\ ts \subseteq Txn
      /\ \A u \in Txn : /\ u # t => ss[u] = ssi[u]
                        /\ u = t => ss[u] = s
  BY <1>2, <1>3, <1>5 DEF releasable, SsiInv, CoverInv, BaseInv, Types
<1>7. \A u \in Txn : /\ ss[u].tracked = ssi[u].tracked
                     /\ ss[u].commit_seq = ssi[u].commit_seq
                     /\ ss[u].relation_locks = ssi[u].relation_locks
                     /\ ss[u].tuple_locks = ssi[u].tuple_locks
                     /\ ss[u].relation_writes = ssi[u].relation_writes
                     /\ ss[u].whole_relation_writes = ssi[u].whole_relation_writes
                     /\ ss[u].tuple_writes = ssi[u].tuple_writes
                     /\ ss[u].promoted = ssi[u].promoted
  BY <1>5, <1>6
<1>8. /\ ssi' \in [Txn -> TxnSsi] /\ edges' \subseteq txns' \X txns'
      /\ txns' = txns \ ts
      /\ \A u \in Txn : /\ u \in ts => ssi'[u] = Untracked
                        /\ u \notin ts => ssi'[u] = ss[u]
      /\ Covered' /\ EdgesComplete'
  BY <1>4, <1>6, <1>7, PurgeFacts DEF SsiInv
<1>9. /\ Took' = Took /\ Range(order)' = Range(order)
      /\ advertised' = advertised \ {t} /\ active' = active
  BY <1>4 DEF Took, advertised, active, SsiInv, CoverInv, BaseInv, Types
<1>10. t \in Took /\ t \in Range(order) /\ t \in advertised
  BY <1>4 DEF SsiInv, CoverInv, BaseInv, Phases, advertised, Took
<1>11. ASSUME NEW u \in ts PROVE u = t \/ (pc[u] = "done" /\ u \in Took)
  <2>1. u \in Txn /\ ss[u].finished
    BY <1>3, <1>11 DEF releasable
  <2> QED  BY <1>6, <2>1 DEF SsiInv, CoverInv, BaseInv, Phases
<1>12. BaseInv'
  <2>1. Types'
    BY <1>4, <1>8 DEF SsiInv, CoverInv, BaseInv, Types, Phase, IsInjective
  <2>2. Phases'
    <3> SUFFICES ASSUME NEW u \in Txn PROVE Phases!(u)'
      BY DEF Phases
    <3>1. ~ Untracked.tracked /\ ~ Untracked.finished
      BY DEF Untracked
    <3>2. CASE u = t
      BY <1>4, <1>8, <1>9, <1>10, <3>1, <3>2 DEF SsiInv, CoverInv, BaseInv, Types, Phases
    <3>3. CASE u # t /\ u \in ts
      BY <1>4, <1>8, <1>9, <1>11, <3>1, <3>3 DEF SsiInv, CoverInv, BaseInv, Types, Phases
    <3>4. CASE u # t /\ u \notin ts
      BY <1>4, <1>6, <1>8, <1>9, <3>4 DEF SsiInv, CoverInv, BaseInv, Types, Phases
    <3> QED  BY <3>2, <3>3, <3>4
  <2> QED  BY <2>1, <2>2 DEF BaseInv
<1>13. Stamped'
  <2> SUFFICES ASSUME NEW u \in txns \ ts, pc'[u] = "checked" \/ u \in Range(order),
                      writes[u] # {}
               PROVE  ssi'[u].commit_seq
    BY <1>4, <1>8, <1>9 DEF Stamped
  <2>1. u \in Txn /\ ssi'[u].commit_seq = ssi[u].commit_seq
    BY <1>7, <1>8 DEF txns
  <2>2. pc[u] = "checked" \/ u \in Range(order)
    BY <1>4, <1>10, <2>1 DEF SsiInv, CoverInv, BaseInv, Types
  <2> QED  BY <2>1, <2>2 DEF SsiInv, OrderInv, Stamped
<1>14. Snapshots'
  BY <1>4, <1>9 DEF SsiInv, OrderInv, Snapshots, Shows, concurrent
<1>15. Forgotten'
  <2> SUFFICES ASSUME NEW v \in Range(order), v \notin txns \ ts, NEW u \in advertised
               PROVE  ~ concurrent(snap[u], v)
    BY <1>4, <1>8, <1>9 DEF Forgotten, concurrent
  <2>1. CASE v \notin txns
    BY <2>1 DEF SsiInv, OrderInv, Forgotten
  <2>2. CASE v \in ts
    <3>1. v \in Txn /\ v \in Took /\ snap[v].xmax <= gc_horizon
      BY <1>3, <1>10, <1>11, <2>2 DEF releasable
    <3>2. u \in Txn /\ u \in Took /\ snap[u] \in Snapshot /\ snap[v] \in Snapshot
      BY <3>1 DEF advertised, Took, SsiInv, CoverInv, BaseInv, Types
    <3>3. gc_horizon \in Nat /\ gc_horizon <= snap[u].xmin
      <4> DEFINE X == {snap[x].xmin : x \in advertised}
      <4>1. X \subseteq Nat /\ snap[u].xmin \in X
        BY DEF advertised, Snapshot, SsiInv, CoverInv, BaseInv, Types
      <4>2. gc_horizon = Min(X)
        BY DEF gc_horizon
      <4> HIDE DEF X
      <4> QED  BY <4>1, <4>2, MinFacts
    <3>4. Shows(u) /\ Shows(v)
      BY <3>1, <3>2 DEF SsiInv, OrderInv, Snapshots
    <3>5. v < snap[u].xmin /\ v < snap[u].xmax
      BY <3>1, <3>2, <3>3, <3>4 DEF Shows, Txn, Snapshot
    <3>6. v \notin snap[u].xip
      BY <3>1, <3>2, <3>4, <3>5 DEF Shows, Txn, Snapshot
    <3> QED  BY <3>1, <3>2, <3>5, <3>6 DEF concurrent, Txn, Snapshot
  <2> QED  BY <2>1, <2>2
<1> QED  BY <1>8, <1>12, <1>13, <1>14, <1>15 DEF SsiInv, CoverInv, OrderInv

\* A rollback: nothing of the transaction is left.
LEMMA AbortInv ==
  ASSUME SsiInv, NEW t \in Txn, Abort(t)
  PROVE  SsiInv'
<1>1. /\ pc[t] \in {"open", "running", "failed", "checked"}
      /\ pc' = [pc EXCEPT ![t] = "done"] /\ purge(ssi, {t})
      /\ snap' = [snap EXCEPT ![t] = NoSnapshot]
      /\ reads' = [reads EXCEPT ![t] = {}] /\ writes' = [writes EXCEPT ![t] = {}]
      /\ UNCHANGED <<next_txn_id, identity, ops, ddl, order>>
  BY DEF Abort
<1>2. /\ snap'[t] = NoSnapshot /\ pc'[t] = "done" /\ reads'[t] = {} /\ writes'[t] = {}
      /\ \A u \in Txn \ {t} : /\ snap'[u] = snap[u] /\ reads'[u] = reads[u]
                              /\ writes'[u] = writes[u] /\ pc'[u] = pc[u]
  BY <1>1 DEF SsiInv, CoverInv, BaseInv, Types
<1>3. ssi \in [Txn -> TxnSsi]
  BY DEF SsiInv, CoverInv, BaseInv, Types
<1>4. /\ ssi' \in [Txn -> TxnSsi] /\ edges' \subseteq txns' \X txns'
      /\ txns' = txns \ {t}
      /\ ssi'[t] = Untracked
      /\ \A u \in Txn : u # t => ssi'[u] = ssi[u]
      /\ Covered' /\ EdgesComplete'
  BY <1>1, <1>2, <1>3, PurgeFacts DEF SsiInv
<1>5. t \notin Range(order)
  BY <1>1 DEF SsiInv, CoverInv, BaseInv, Phases
<1>6. /\ Took' = Took \ {t} /\ Range(order)' = Range(order)
      /\ advertised' = advertised \ {t} /\ active' = active \ {t}
  BY <1>1, <1>2 DEF Took, advertised, active
<1>7. BaseInv'
  <2>1. NoSnapshot \in Snapshot
    BY DEF NoSnapshot, Snapshot
  <2>2. Types'
    BY <1>1, <1>4, <2>1 DEF SsiInv, CoverInv, BaseInv, Types, Phase, IsInjective
  <2>3. Phases'
    <3> SUFFICES ASSUME NEW u \in Txn PROVE Phases!(u)'
      BY DEF Phases
    <3>1. ~ Untracked.tracked /\ ~ Untracked.finished
      BY DEF Untracked
    <3>2. CASE u = t
      BY <1>1, <1>2, <1>4, <1>5, <1>6, <3>1, <3>2 DEF SsiInv, CoverInv, BaseInv, Types, Phases
    <3>3. CASE u # t
      BY <1>1, <1>2, <1>4, <1>6, <3>3 DEF SsiInv, CoverInv, BaseInv, Types, Phases
    <3> QED  BY <3>2, <3>3
  <2> QED  BY <2>2, <2>3 DEF BaseInv
<1>8. Stamped'
  BY <1>2, <1>4, <1>6 DEF SsiInv, OrderInv, Stamped, txns
<1>9. Snapshots'
  <2> SUFFICES ASSUME NEW u \in Took, u # t PROVE Shows(u)'
    BY <1>6 DEF Snapshots
  <2>1. Shows(u) /\ snap'[u] = snap[u]
    BY <1>2 DEF SsiInv, OrderInv, Snapshots, Took
  <2> QED  BY <1>1, <1>6, <2>1 DEF Shows, concurrent
<1>10. Forgotten'
  <2> SUFFICES ASSUME NEW v \in Range(order) \ txns, NEW u \in advertised, u # t
               PROVE  ~ concurrent(snap'[u], v)
    BY <1>4, <1>5, <1>6 DEF Forgotten, concurrent
  <2>1. snap'[u] = snap[u]
    BY <1>2 DEF advertised
  <2> QED  BY <2>1 DEF SsiInv, OrderInv, Forgotten
<1> QED  BY <1>4, <1>7, <1>8, <1>9, <1>10 DEF SsiInv, CoverInv, OrderInv

-----------------------------------------------------------------------------
(* The theorems.                                                           *)

\* Every step keeps the invariant.
LEMMA NextInv == SsiInv /\ [Next]_vars => SsiInv'
<1> SUFFICES ASSUME SsiInv, [Next]_vars PROVE SsiInv'
  OBVIOUS
<1>1. ASSUME NEW t \in Txn, Statement(t) PROVE SsiInv'
  <2>1. CASE register(t)
    BY <2>1, RegisterInv
  <2>2. ASSUME NEW i \in Item, record_tuple_read(t, i) PROVE SsiInv'
    BY <2>2, TupleReadCovers, RecordingOrder DEF SsiInv, CoverInv
  <2>3. ASSUME NEW i \in Item, note_write(t, i) PROVE SsiInv'
    BY <2>3, NoteWriteCovers, RecordingOrder DEF SsiInv, CoverInv
  <2>4. ASSUME NEW b \in Table, record_relation_read(t, b) PROVE SsiInv'
    BY <2>4, RelationReadCovers, RecordingOrder DEF SsiInv, CoverInv
  <2>5. ASSUME NEW b \in Table, note_relation_write(t, b) PROVE SsiInv'
    BY <2>5, TruncateCovers, RecordingOrder DEF SsiInv, CoverInv
  <2> QED  BY <1>1, <2>1, <2>2, <2>3, <2>4, <2>5 DEF Statement
<1>2. ASSUME NEW t \in Txn, Ending(t) PROVE SsiInv'
  BY <1>2, CommitInv, CommitCheckInv, FinishInv, AbortInv DEF Ending
<1>3. ASSUME NEW b \in Table, promote_table_identity_locks_to_relation(b) PROVE SsiInv'
  <2>1. /\ CoverInv'
        /\ \A u \in Txn : /\ ssi'[u].tracked = ssi[u].tracked
                          /\ ssi'[u].commit_seq = ssi[u].commit_seq
    BY <1>3, PromoteCovers DEF SsiInv
  <2>2. UNCHANGED <<pc, snap, next_txn_id, reads, writes, order>>
    BY <1>3 DEF promote_table_identity_locks_to_relation, registry
  <2>3. /\ txns' = txns /\ Took' = Took /\ advertised' = advertised /\ active' = active
        /\ Range(order)' = Range(order)
    BY <2>1, <2>2 DEF txns, Took, advertised, active
  <2>4. Stamped'
    BY <2>1, <2>2, <2>3 DEF SsiInv, OrderInv, Stamped, txns
  <2>5. Snapshots' /\ Forgotten'
    BY <2>2, <2>3 DEF SsiInv, OrderInv, Snapshots, Shows, Forgotten, concurrent
  <2> QED  BY <2>1, <2>4, <2>5 DEF SsiInv, OrderInv
<1>4. CASE UNCHANGED vars
  <2>1. UNCHANGED <<pc, snap, next_txn_id, ssi, edges, identity, ops, ddl, reads, writes, order>>
    BY <1>4 DEF vars, registry, manager, history
  <2>2. /\ txns' = txns /\ Took' = Took /\ advertised' = advertised /\ active' = active
        /\ Range(order)' = Range(order)
    BY <2>1 DEF txns, Took, advertised, active
  <2>3. BaseInv'
    BY <2>1, <2>2 DEF SsiInv, CoverInv, BaseInv, Types, Phases, IsInjective
  <2>4. Covered' /\ EdgesComplete'
    BY <2>1, <2>2
    DEF SsiInv, CoverInv, Covered, KeyOf, EdgesComplete, Antidependency, concurrent
  <2>5. OrderInv'
    BY <2>1, <2>2 DEF SsiInv, OrderInv, Stamped, Snapshots, Shows, Forgotten, concurrent
  <2> QED  BY <2>3, <2>4, <2>5 DEF SsiInv, CoverInv
<1>5. CASE Begin
  BY <1>5, BeginInv
<1> QED  BY <1>1, <1>2, <1>3, <1>4, <1>5 DEF Next

\* The invariant holds of every behaviour.
LEMMA Invariance == Spec => []SsiInv
<1> QED  BY InitInv, NextInv, PTL DEF Spec

\* The conflict manager's and the transactions' state is always well formed:
\* in particular edges are only between transactions the manager tracks, and
\* no transaction commits twice.
THEOREM TypeCorrect == Spec => []TypeOK
<1>1. SsiInv => TypeOK
  BY TypesImpliesTypeOK DEF SsiInv, CoverInv, BaseInv
<1> QED  BY <1>1, Invariance, PTL

\* The manager has an edge for every rw-antidependency between two tracked
\* transactions, whichever of the read (record_tuple_read,
\* record_relation_read) and the write (note_write, note_relation_write) came
\* first, and across the promotions to relation granularity.
THEOREM EdgesAlwaysComplete == Spec => []EdgesComplete
<1>1. SsiInv => EdgesComplete
  BY DEF SsiInv, CoverInv
<1> QED  BY <1>1, Invariance, PTL

\* A passed commit check is the only step from "running" to "checked".
LEMMA PassedCheck ==
  ASSUME SsiInv, [Next]_vars, NEW t \in Txn, pc[t] = "running", pc'[t] = "checked"
  PROVE  ~ is_doomed_pivot(t, edges) /\ order' = order
<1>1. pc \in [Txn -> Phase]
  BY DEF SsiInv, CoverInv, BaseInv, Types
<1>2. ASSUME NEW u \in Txn, Recording(u) PROVE FALSE
  BY <1>1, <1>2 DEF Recording
<1>3. ASSUME NEW u \in Txn, Statement(u) PROVE FALSE
  <2>1. CASE register(u)
    BY <1>1, <2>1 DEF register
  <2>2. ASSUME NEW i \in Item, record_tuple_read(u, i) PROVE FALSE
    BY <1>2, <2>2, TupleReadCovers DEF SsiInv
  <2>3. ASSUME NEW i \in Item, note_write(u, i) PROVE FALSE
    BY <1>2, <2>3, NoteWriteCovers DEF SsiInv
  <2>4. ASSUME NEW b \in Table, record_relation_read(u, b) PROVE FALSE
    BY <1>2, <2>4, RelationReadCovers DEF SsiInv
  <2>5. ASSUME NEW b \in Table, note_relation_write(u, b) PROVE FALSE
    BY <1>2, <2>5, TruncateCovers DEF SsiInv
  <2> QED  BY <1>3, <2>1, <2>2, <2>3, <2>4, <2>5 DEF Statement
<1>4. ASSUME NEW u \in Txn, Ending(u)
      PROVE  ~ is_doomed_pivot(t, edges) /\ order' = order
  <2>1. CASE commit_check(u)
    BY <1>1, <2>1 DEF commit_check, history
  <2>2. CASE CommitReadOnly(u) \/ CommitDurable(u) \/ SsiFinish(u) \/ Abort(u)
    BY <1>1, <2>2 DEF CommitReadOnly, CommitDurable, SsiFinish, Abort
  <2> QED  BY <1>4, <2>1, <2>2 DEF Ending
<1>5. CASE Begin \/ (\E b \in Table : promote_table_identity_locks_to_relation(b))
  BY <1>1, <1>5 DEF Begin, promote_table_identity_locks_to_relation, registry
<1>6. CASE UNCHANGED vars
  BY <1>6 DEF vars, registry
<1> QED  BY <1>3, <1>4, <1>5, <1>6 DEF Next

\* No transaction passes its commit check as a pivot v ->rw t ->rw w whose w
\* is through its own check, unless v committed before w (commit_check,
\* is_doomed_pivot and what release_up_to lets the manager forget).
THEOREM PivotsAlwaysStopped == Spec => PivotsStopped
<1>1. ASSUME SsiInv, [Next]_vars, NEW t \in Txn, pc[t] = "running", pc'[t] = "checked",
             NEW v \in Txn, NEW w \in Txn,
             Antidependency(v, t), Antidependency(t, w),
             pc[w] = "checked" \/ w \in Range(order)
      PROVE  v # w /\ CommittedBefore(v, w)
  <2>1. ~ is_doomed_pivot(t, edges)
    BY <1>1, PassedCheck
  <2>2. t \in txns /\ t \in Took /\ t \in advertised /\ v # t /\ w # t
    BY <1>1 DEF SsiInv, CoverInv, BaseInv, Phases, txns, advertised, Took, Antidependency
  <2>3. w \in txns
    <3> SUFFICES ASSUME w \notin txns PROVE FALSE
      OBVIOUS
    <3>1. w \in Range(order)
      BY <1>1 DEF SsiInv, CoverInv, BaseInv, Phases, txns
    <3>2. ~ concurrent(snap[t], w)
      BY <1>1, <2>2, <3>1 DEF SsiInv, OrderInv, Forgotten
    <3> QED  BY <1>1, <3>2 DEF Antidependency
  <2>4. <<t, w>> \in edges /\ ssi[w].commit_seq
    BY <1>1, <2>2, <2>3
    DEF SsiInv, CoverInv, EdgesComplete, OrderInv, Stamped, Antidependency
  <2>5. v \notin txns
    <3> SUFFICES ASSUME v \in txns PROVE FALSE
      OBVIOUS
    <3>1. <<v, t>> \in edges
      BY <1>1, <2>2 DEF SsiInv, CoverInv, EdgesComplete
    <3> QED  BY <2>1, <2>4, <3>1 DEF is_doomed_pivot
  <2>6. v \in Range(order)
    BY <1>1, <2>5 DEF SsiInv, CoverInv, BaseInv, Types, Phases, Phase, txns, Antidependency
  <2>7. ~ concurrent(snap[t], v) /\ concurrent(snap[t], w) /\ v # w
    BY <1>1, <2>2, <2>5, <2>6 DEF SsiInv, OrderInv, Forgotten, Antidependency
  <2>8. ASSUME NEW i \in DOMAIN order, NEW j \in DOMAIN order,
               order[i] = w, order[j] = v, i < j
        PROVE  FALSE
    BY <1>1, <2>2, <2>7, <2>8 DEF SsiInv, OrderInv, Snapshots, Shows
  <2> QED  BY <2>6, <2>7, <2>8 DEF CommittedBefore
<1>2. SsiInv /\ [Next]_vars =>
        [\A t \in Txn :
           pc[t] = "running" /\ pc'[t] = "checked" =>
             \A v, w \in Txn :
               /\ Antidependency(v, t) /\ Antidependency(t, w)
               /\ pc[w] = "checked" \/ w \in Range(order)
               => v # w /\ CommittedBefore(v, w)]_vars
  BY <1>1
<1> QED  BY <1>2, Invariance, PTL DEF Spec, PivotsStopped
=============================================================================
