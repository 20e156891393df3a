-------------------------- MODULE DurabilityProofs --------------------------
(***************************************************************************)
(* Proofs about Durability, for any number of sessions, ids, records,      *)
(* checkpoints, VACUUMs, failures and crashes, and with both races open.   *)
(*                                                                         *)
(* What a crash leaves is the log up to its durable end and three files    *)
(* replaced at different moments.  The invariants say how these lag behind *)
(* each other (replay floor, redo position, end of the control record,     *)
(* durable end; the snapshot of the commit log somewhere above the floor), *)
(* first between any two steps and then for the values they hold: the      *)
(* sequence, the status of a commit, the row versions of the page.         *)
(***************************************************************************)
EXTENDS Durability, WellFoundedInduction, TLAPS

-----------------------------------------------------------------------------
(* Types.                                                                  *)

Kinds == {"insert", "prune", "commit", "abort", "advance", "checkpoint"}
Rec == {r \in [xid : 0..MaxXid, kind : Kinds, ids : SUBSET Xid, value : Nat] :
          r.kind \in {"commit", "insert", "abort"} => r.xid \in Xid}
Status == {"None", "InProgress", "Committed", "Aborted"}
Clog == [floor : Nat, st : [Xid -> Status]]
ClogFile == [lsn : Nat, authorized : Nat, floor : Nat, vacuum_floor : Nat,
             loaded : BOOLEAN, st : [Xid -> Status]]
TxnRec == [pc : {"idle", "open", "flush", "settle", "abort", "nextval"},
           xid : Xid \cup {NoXid}, sub : Xid \cup {NoXid}, wrote : BOOLEAN]
VacRec == [pc : {"idle", "commit", "flush", "abort", "prune", "floor"},
           xid : Xid \cup {NoXid}, boundary : Nat]
CkptRec == [pc : {"idle", "bounded", "marker", "flush", "snapshot", "write", "control",
                  "recycle"},
            active : SUBSET Xid, boundary : Nat, end : Nat, redo : Nat,
            sequence : Nat, snapshot : {<<>>} \cup ClogFile]
ClientRec == [told : [Xid -> {"none", "failed", "committed"}], wrote : SUBSET Xid,
              asked : SUBSET Xid, served : SUBSET Nat]

LogTypes ==
  /\ wal \in Seq(Rec)
  /\ meta \in [replay_floor : Nat, durable_end : Nat, visible : Nat]
  /\ pending \in SUBSET Xid /\ poisoned \in BOOLEAN /\ clog \in Clog
FileTypes ==
  /\ vacuum_floor \in Nat /\ clog_file \in ClogFile
  /\ control \in [end : Nat, redo : Nat, sequence : Nat]
  /\ page \in [ids : SUBSET Xid, lsn : Nat, rec : Nat \cup {NoLsn}]
  /\ disk \in [ids : SUBSET Xid, lsn : Nat]
ActorTypes ==
  /\ next_xid \in FIRST_NORMAL_XID..(MaxXid + 1) /\ active \in SUBSET Xid
  /\ txn \in [Session -> TxnRec] /\ vac \in VacRec /\ ckpt \in CkptRec
  /\ sequence \in Nat /\ mode \in {"up", "recovered", "down", "failed"}
  /\ client \in ClientRec
  /\ \A s \in Session : txn[s].pc # "idle" => txn[s].xid \in Xid
  /\ vac.pc # "idle" => vac.xid \in Xid
  /\ ckpt.pc # "idle" => ckpt.boundary \in FIRST_NORMAL_XID..(MaxXid + 1)
  /\ ckpt.pc = "write" => ckpt.snapshot \in ClogFile
Types == LogTypes /\ FileTypes /\ ActorTypes

-----------------------------------------------------------------------------
(* Operators.                                                              *)

\* Min of a set of naturals that is not empty.
LEMMA MinFacts ==
  ASSUME NEW S, S \subseteq Nat, S # {}
  PROVE  Min(S) \in S /\ \A x \in S : Min(S) <= x
<1> DEFINE R == {ss \in Nat \X Nat : ss[1] < ss[2]}
<1>1. OpToRel(<, Nat) = R
  BY Zenon DEF OpToRel
<1>2. IsWellFoundedOn(R, Nat)
  BY <1>1, NatLessThanWellFounded, Zenon
<1> HIDE DEF R
<1>3. PICK m \in S : \A y \in S : ~ (<<y, m>> \in R)
  BY <1>2, WFMin, Zenon
<1>4. ASSUME NEW y \in S, ~ m <= y PROVE FALSE
  <2>1. y \in Nat /\ m \in Nat /\ y < m
    BY <1>4
  <2>2. <<y, m>> \in R
    BY <2>1 DEF R
  <2> QED  BY <2>2, <1>3
<1> QED  BY <1>4 DEF Min

\* Max of a bounded set of naturals that is not empty.
LEMMA MaxFacts ==
  ASSUME NEW S, S \subseteq Nat, S # {}, NEW n \in Nat, \A x \in S : x <= n
  PROVE  Max(S) \in S /\ \A x \in S : x <= Max(S)
<1> DEFINE U == {u \in Nat : \A x \in S : x <= u}
<1>1. U \subseteq Nat /\ n \in U
  OBVIOUS
<1>2. PICK m : m = Min(U)
  OBVIOUS
<1>3. m \in U /\ \A u \in U : m <= u
  <2> HIDE DEF U
  <2> QED  BY <1>1, <1>2, MinFacts
<1>4. m \in Nat /\ \A x \in S : x <= m
  BY <1>3
<1>5. m \in S
  <2> SUFFICES ASSUME m \notin S PROVE FALSE
    OBVIOUS
  <2>1. \A x \in S : x < m
    BY <1>4
  <2>2. PICK y \in S : TRUE
    OBVIOUS
  <2>3. m - 1 \in Nat /\ \A x \in S : x <= m - 1
    BY <1>4, <2>1, <2>2
  <2>4. m - 1 \in U
    BY <2>3
  <2> QED  BY <1>3, <1>4, <2>4
<1> QED  BY <1>4, <1>5 DEF Max

\* Min and Max of two naturals.
LEMMA PairFacts ==
  ASSUME NEW a \in Nat, NEW b \in Nat
  PROVE  /\ Max({a, b}) \in Nat /\ a <= Max({a, b}) /\ b <= Max({a, b})
         /\ Min({a, b}) \in Nat /\ Min({a, b}) <= a /\ Min({a, b}) <= b
         /\ Max({a, b}) \in {a, b} /\ Min({a, b}) \in {a, b}
<1>1. PICK n \in Nat : a <= n /\ b <= n
  <2>1. CASE a <= b
    BY <2>1
  <2>2. CASE b <= a
    BY <2>2
  <2> QED  BY <2>1, <2>2
<1>2. {a, b} \subseteq Nat /\ {a, b} # {} /\ \A x \in {a, b} : x <= n
  BY <1>1
<1>3. Max({a, b}) \in {a, b} /\ \A x \in {a, b} : x <= Max({a, b})
  BY <1>2, MaxFacts
<1>4. Min({a, b}) \in {a, b} /\ \A x \in {a, b} : Min({a, b}) <= x
  BY <1>2, MinFacts
<1> QED  BY <1>3, <1>4

\* A set of ids: Xid is bounded.
LEMMA XidFacts ==
  ASSUME NEW S \in SUBSET Xid, S # {}
  PROVE  Max(S) \in S /\ Min(S) \in S /\ \A x \in S : x <= Max(S) /\ Min(S) <= x
<1>1. S \subseteq Nat /\ \A x \in S : x <= MaxXid
  BY DurabilityAssumption DEF Xid, FIRST_NORMAL_XID
<1> QED  BY <1>1, DurabilityAssumption, MaxFacts, MinFacts

\* A set of positions of the log.
LEMMA PositionFacts ==
  ASSUME LogTypes, NEW S \in SUBSET (DOMAIN wal), S # {}
  PROVE  Max(S) \in S /\ Min(S) \in S /\ \A i \in S : i <= Max(S) /\ Min(S) <= i
<1>1. Len(wal) \in Nat /\ DOMAIN wal = 1..Len(wal)
  BY DEF LogTypes
<1>2. S \subseteq Nat /\ \A i \in S : i <= Len(wal)
  BY <1>1
<1> QED  BY <1>1, <1>2, MaxFacts, MinFacts
\* The floor of a snapshot of the commit log is a natural and never falls.
LEMMA FloorFacts ==
  ASSUME NEW c \in Clog, NEW vfloor, NEW captured \in SUBSET Xid, NEW boundary \in Nat
  PROVE  /\ snapshot_floor(c, vfloor, captured, boundary) \in Nat
         /\ c.floor <= snapshot_floor(c, vfloor, captured, boundary)
<1> DEFINE explicit == {x \in Recorded(c) : \/ c.st[x] = "InProgress"
                                            \/ c.st[x] = "Aborted" /\ x >= vfloor}
           E == explicit \cup captured
           bound == Max0(Recorded(c), c.floor - 1) + 1
           lowest == Min0(E, bound)
<1>1. Xid \subseteq Nat /\ Recorded(c) \subseteq Xid /\ E \subseteq Xid /\ c.floor \in Nat
  <2>1. Xid \subseteq Nat
    BY DurabilityAssumption DEF Xid, FIRST_NORMAL_XID
  <2>2. Recorded(c) \subseteq Xid
    BY DEF Recorded
  <2>3. E \subseteq Xid
    BY <2>2
  <2> QED  BY <2>1, <2>2, <2>3 DEF Clog
<1>2. bound \in Nat
  <2>1. CASE Recorded(c) = {}
    <3>1. Max0(Recorded(c), c.floor - 1) = c.floor - 1
      BY <2>1 DEF Max0
    <3>2. bound = (c.floor - 1) + 1
      BY <3>1
    <3> QED  BY <1>1, <3>2
  <2>2. CASE Recorded(c) # {}
    <3>1. Max0(Recorded(c), c.floor - 1) = Max(Recorded(c))
      BY <2>2 DEF Max0
    <3>2. Max(Recorded(c)) \in Recorded(c)
      BY <1>1, <2>2, XidFacts
    <3>3. bound = Max(Recorded(c)) + 1
      BY <3>1
    <3>4. Max(Recorded(c)) \in Nat
      BY <1>1, <3>2
    <3> HIDE DEF bound
    <3> QED  BY <3>3, <3>4
  <2> QED  BY <2>1, <2>2
<1>3. lowest \in Nat
  <2> HIDE DEF E, bound
  <2>1. CASE E = {}
    BY <1>2, <2>1 DEF Min0
  <2>2. CASE E # {}
    <3>1. Min(E) \in E
      BY <1>1, <2>2, XidFacts
    <3> QED  BY <1>1, <2>2, <3>1 DEF Min0
  <2> QED  BY <2>1, <2>2
<1>4. snapshot_floor(c, vfloor, captured, boundary) = Max({Min({lowest, boundary}), c.floor})
  BY DEF snapshot_floor
<1> HIDE DEF lowest
<1>5. Min({lowest, boundary}) \in Nat
  BY <1>3, PairFacts
<1> QED  BY <1>1, <1>4, <1>5, PairFacts

\* SetStatus changes the named ids only.
LEMMA SetStatusFacts ==
  ASSUME NEW c \in Clog, NEW S, NEW new \in Status
  PROVE  /\ SetStatus(c, S, new) \in Clog /\ SetStatus(c, S, new).floor = c.floor
         /\ \A x \in Xid : SetStatus(c, S, new).st[x] = IF x \in S THEN new ELSE c.st[x]
<1>1. PICK f : f = [x \in Xid |-> IF x \in S THEN new ELSE c.st[x]]
  OBVIOUS
<1>2. f \in [Xid -> Status]
  BY <1>1 DEF Clog
<1>3. SetStatus(c, S, new) = [c EXCEPT !.st = f]
  BY <1>1 DEF SetStatus
<1> QED  BY <1>1, <1>2, <1>3 DEF Clog

-----------------------------------------------------------------------------
(* The calls of the log.                                                   *)

\* One record appended.
LEMMA AppendFacts ==
  ASSUME LogTypes, NEW r \in Rec, AppendRecord(r)
  PROVE  /\ LogTypes' /\ meta' = meta /\ poisoned' = poisoned
         /\ clog'.floor = clog.floor
         /\ \A x \in Xid : clog'.st[x] = IF x = r.xid /\ r.kind = "abort" THEN "Aborted"
                                         ELSE IF x = r.xid /\ represents_transaction(r)
                                         THEN "InProgress" ELSE clog.st[x]
         /\ poisoned => wal' = wal /\ pending' = pending
         /\ ~ poisoned =>
              /\ Len(wal') = Len(wal) + 1 /\ wal'[Len(wal) + 1] = r
              /\ \A i \in 1..Len(wal) : wal'[i] = wal[i]
              /\ pending' = pending \cup (IF r.kind = "commit" THEN {r.xid} \cup r.ids ELSE {})
<1> DEFINE rs == <<r>>
           aborted == {rs[i].xid : i \in {j \in DOMAIN rs : rs[j].kind = "abort"}}
           running == {rs[i].xid : i \in {j \in DOMAIN rs : /\ represents_transaction(rs[j])
                                                             /\ rs[j].kind # "abort"}}
           commits == {i \in DOMAIN rs : rs[i].kind = "commit"}
           added == UNION {{rs[i].xid} \cup rs[i].ids : i \in commits}
<1>1. /\ clog' = SetStatus(SetStatus(clog, running, "InProgress"), aborted, "Aborted")
      /\ poisoned => wal' = wal /\ pending' = pending
      /\ ~ poisoned => wal' = wal \o rs /\ pending' = pending \cup added
      /\ meta' = meta /\ poisoned' = poisoned
  BY DEF AppendRecord, AppendAll
<1>2. DOMAIN rs = {1} /\ rs[1] = r
  OBVIOUS
<1>3. /\ aborted = IF r.kind = "abort" THEN {r.xid} ELSE {}
      /\ running = IF represents_transaction(r) /\ r.kind # "abort" THEN {r.xid} ELSE {}
      /\ added = IF r.kind = "commit" THEN {r.xid} \cup r.ids ELSE {}
  <2> HIDE DEF rs
  <2> QED  BY <1>2
<1>4. added \subseteq Xid
  BY <1>3 DEF Rec
<1> HIDE DEF aborted, running, added
<1>5. PICK c : c = SetStatus(clog, running, "InProgress")
  OBVIOUS
<1>6. /\ c \in Clog /\ c.floor = clog.floor
      /\ \A x \in Xid : c.st[x] = IF x \in running THEN "InProgress" ELSE clog.st[x]
  BY <1>5, SetStatusFacts DEF LogTypes, Status
<1>7. clog' = SetStatus(c, aborted, "Aborted")
  BY <1>1, <1>5
<1>8. /\ clog' \in Clog /\ clog'.floor = clog.floor
      /\ \A x \in Xid : clog'.st[x] = IF x \in aborted THEN "Aborted" ELSE c.st[x]
  BY <1>6, <1>7, SetStatusFacts DEF Status
<1>9. \A x \in Xid : clog'.st[x] = IF x = r.xid /\ r.kind = "abort" THEN "Aborted"
                                   ELSE IF x = r.xid /\ represents_transaction(r)
                                   THEN "InProgress" ELSE clog.st[x]
  BY <1>3, <1>6, <1>8
<1>10. rs \in Seq(Rec)
  OBVIOUS
<1>11. ~ poisoned => /\ wal' \in Seq(Rec)
                     /\ Len(wal') = Len(wal) + 1 /\ wal'[Len(wal) + 1] = r
                     /\ \A i \in 1..Len(wal) : wal'[i] = wal[i]
  BY <1>1, <1>10 DEF LogTypes
<1>12. LogTypes'
  BY <1>1, <1>4, <1>8, <1>11 DEF LogTypes
<1> QED  BY <1>1, <1>3, <1>8, <1>9, <1>11, <1>12

\* A family's abort records: one, or the subtransaction's and then its parent's.
LEMMA AppendFamilyFacts ==
  ASSUME LogTypes, NEW s \in Session, txn \in [Session -> TxnRec], txn[s].xid \in Xid,
         AbortFamily(s)
  PROVE  /\ LogTypes' /\ meta' = meta /\ poisoned' = poisoned
         /\ clog'.floor = clog.floor
         /\ \A x \in Xid : clog'.st[x] = IF x \in Family(txn[s]) THEN "Aborted" ELSE clog.st[x]
         /\ poisoned => wal' = wal
         /\ pending' = pending
         /\ ~ poisoned =>
              /\ Len(wal') \in {Len(wal) + 1, Len(wal) + 2}
              /\ \A i \in 1..Len(wal) : wal'[i] = wal[i]
              /\ \A i \in (Len(wal) + 1)..Len(wal') :
                   wal'[i].kind = "abort" /\ wal'[i].xid \in Family(txn[s])
<1> DEFINE t == txn[s]
           sub == IF t.sub = NoXid THEN <<>> ELSE <<Record(t.sub, "abort", {}, 0)>>
           rs == sub \o <<Record(t.xid, "abort", {}, 0)>>
           aborted == {rs[i].xid : i \in {j \in DOMAIN rs : rs[j].kind = "abort"}}
           running == {rs[i].xid : i \in {j \in DOMAIN rs : /\ represents_transaction(rs[j])
                                                             /\ rs[j].kind # "abort"}}
           commits == {i \in DOMAIN rs : rs[i].kind = "commit"}
           added == UNION {{rs[i].xid} \cup rs[i].ids : i \in commits}
<1>1. /\ clog' = SetStatus(SetStatus(clog, running, "InProgress"), aborted, "Aborted")
      /\ poisoned => wal' = wal /\ pending' = pending
      /\ ~ poisoned => wal' = wal \o rs /\ pending' = pending \cup added
      /\ meta' = meta /\ poisoned' = poisoned
  BY DEF AbortFamily, AppendAll
<1>2. t.xid \in Xid /\ t.sub \in Xid \cup {NoXid} /\ NoXid \notin Xid
  BY DurabilityAssumption DEF TxnRec, NoXid, Xid, FIRST_NORMAL_XID
<1>3. ASSUME NEW x \in Xid
      PROVE  /\ Record(x, "abort", {}, 0) \in Rec /\ Record(x, "abort", {}, 0).xid = x
             /\ Record(x, "abort", {}, 0).kind = "abort"
  BY DurabilityAssumption DEF Record, Rec, Kinds, Xid, FIRST_NORMAL_XID
<1>4. /\ rs \in Seq(Rec) /\ Len(rs) \in {1, 2}
      /\ \A i \in DOMAIN rs : rs[i].kind = "abort" /\ rs[i].xid \in Family(t)
      /\ aborted = Family(t)
  <2>1. CASE t.sub = NoXid
    <3>1. PICK q : q = Record(t.xid, "abort", {}, 0)
      OBVIOUS
    <3>2. q \in Rec /\ q.xid = t.xid /\ q.kind = "abort"
      BY <1>2, <1>3, <3>1
    <3>3. sub = <<>>
      BY <2>1
    <3>4. rs = <<>> \o <<q>>
      BY <3>1, <3>3
    <3>5. Family(t) = {t.xid}
      BY <1>2, <2>1 DEF Family
    <3> HIDE DEF rs, sub
    <3>6. rs \in Seq(Rec) /\ Len(rs) = 1 /\ DOMAIN rs = {1} /\ rs[1] = q
      BY <3>2, <3>4
    <3> QED  BY <3>2, <3>5, <3>6
  <2>2. CASE t.sub # NoXid
    <3>1. PICK q : q = Record(t.xid, "abort", {}, 0)
      OBVIOUS
    <3>2. PICK p : p = Record(t.sub, "abort", {}, 0)
      OBVIOUS
    <3>3. q \in Rec /\ q.xid = t.xid /\ q.kind = "abort"
      BY <1>2, <1>3, <3>1
    <3>4. p \in Rec /\ p.xid = t.sub /\ p.kind = "abort"
      BY <1>2, <1>3, <2>2, <3>2
    <3>5. sub = <<p>>
      BY <2>2, <3>2
    <3>6. rs = <<p>> \o <<q>>
      BY <3>1, <3>5
    <3>7. Family(t) = {t.xid, t.sub}
      BY <1>2, <2>2 DEF Family
    <3> HIDE DEF rs, sub
    <3>8. rs \in Seq(Rec) /\ Len(rs) = 2 /\ DOMAIN rs = {1, 2} /\ rs[1] = p /\ rs[2] = q
      BY <3>3, <3>4, <3>6
    <3> QED  BY <3>3, <3>4, <3>7, <3>8
  <2> QED  BY <2>1, <2>2
<1>5. running = {} /\ added = {}
  <2> HIDE DEF rs
  <2> QED  BY <1>4
<1> HIDE DEF rs, sub, aborted, running, added
<1>6. PICK c : c = SetStatus(clog, running, "InProgress")
  OBVIOUS
<1>7. /\ c \in Clog /\ c.floor = clog.floor
      /\ \A x \in Xid : c.st[x] = clog.st[x]
  BY <1>5, <1>6, SetStatusFacts DEF LogTypes, Status
<1>8. clog' = SetStatus(c, aborted, "Aborted")
  BY <1>1, <1>6
<1>9. /\ clog' \in Clog /\ clog'.floor = clog.floor
      /\ \A x \in Xid : clog'.st[x] = IF x \in Family(t) THEN "Aborted" ELSE clog.st[x]
  BY <1>4, <1>7, <1>8, SetStatusFacts DEF Status
<1>10. pending' = pending
  BY <1>1, <1>5 DEF LogTypes
<1>11. ASSUME ~ poisoned
       PROVE  /\ wal' \in Seq(Rec) /\ Len(wal') \in {Len(wal) + 1, Len(wal) + 2}
              /\ \A i \in 1..Len(wal) : wal'[i] = wal[i]
              /\ \A i \in (Len(wal) + 1)..Len(wal') :
                   wal'[i].kind = "abort" /\ wal'[i].xid \in Family(t)
  <2>1. wal' = wal \o rs /\ wal \in Seq(Rec) /\ rs \in Seq(Rec) /\ Len(rs) \in {1, 2}
    BY <1>1, <1>4, <1>11 DEF LogTypes
  <2>2. /\ wal' \in Seq(Rec) /\ Len(wal') = Len(wal) + Len(rs)
        /\ \A i \in 1..Len(wal) : wal'[i] = wal[i]
    BY <2>1
  <2>3. \A k \in DOMAIN rs : wal'[Len(wal) + k] = rs[k]
    BY <2>1
  <2>4. Len(wal) \in Nat /\ DOMAIN rs = 1..Len(rs)
    BY <2>1
  <2>5. ASSUME NEW i \in (Len(wal) + 1)..Len(wal')
        PROVE  wal'[i].kind = "abort" /\ wal'[i].xid \in Family(t)
    <3>1. PICK k \in DOMAIN rs : i = Len(wal) + k
      <4>1. i - Len(wal) \in 1..Len(rs) /\ i = Len(wal) + (i - Len(wal))
        BY <2>1, <2>2, <2>4, <2>5
      <4> QED  BY <2>4, <4>1
    <3> QED  BY <1>4, <2>3, <3>1
  <2> QED  BY <2>1, <2>2, <2>5
<1>12. LogTypes'
  BY <1>1, <1>9, <1>10, <1>11 DEF LogTypes
<1> QED  BY <1>1, <1>9, <1>10, <1>11, <1>12

\* A flush that succeeds.
LEMMA FlushFacts ==
  ASSUME LogTypes, FlushOk
  PROVE  /\ LogTypes' /\ ~ poisoned /\ ~ poisoned' /\ wal' = wal /\ pending' = {}
         /\ meta'.durable_end = Len(wal) /\ meta'.visible = Len(wal)
         /\ meta'.replay_floor = meta.replay_floor
         /\ clog'.floor = clog.floor
         /\ \A x \in Xid : clog'.st[x] = IF x \in pending THEN "Committed" ELSE clog.st[x]
<1>1. /\ clog' \in Clog /\ clog'.floor = clog.floor
      /\ \A x \in Xid : clog'.st[x] = IF x \in pending THEN "Committed" ELSE clog.st[x]
  BY SetStatusFacts DEF FlushOk, LogTypes, Status
<1>2. Len(wal) \in Nat
  BY DEF LogTypes
<1> QED  BY <1>1, <1>2 DEF FlushOk, LogTypes

\* The beginning of the log.
LEMMA CutFacts ==
  ASSUME LogTypes, NEW end \in Nat, end <= Len(wal)
  PROVE  /\ SubSeq(wal, 1, end) \in Seq(Rec) /\ Len(SubSeq(wal, 1, end)) = end
         /\ \A i \in 1..end : SubSeq(wal, 1, end)[i] = wal[i]
BY DEF LogTypes

\* A flush that fails, is of unknown outcome, or is refused.
LEMMA FailFacts ==
  ASSUME LogTypes, meta.durable_end <= Len(wal), FlushFails \/ FlushUnknown \/ FlushRefused
  PROVE  /\ LogTypes' /\ poisoned' /\ clog' = clog /\ pending' \subseteq pending
         /\ meta'.durable_end = meta.durable_end /\ meta'.replay_floor = meta.replay_floor
         /\ FlushFails => /\ ~ poisoned /\ meta' = meta /\ Len(wal') = meta.durable_end
                          /\ \A i \in 1..meta.durable_end : wal'[i] = wal[i]
         /\ FlushUnknown => ~ poisoned /\ wal' = wal /\ meta'.visible = Len(wal)
         /\ FlushRefused => poisoned /\ wal' = wal /\ meta' = meta
<1>1. CASE FlushFails
  <2>1. PICK w : w = SubSeq(wal, 1, meta.durable_end)
    OBVIOUS
  <2>2. /\ w \in Seq(Rec) /\ Len(w) = meta.durable_end
        /\ \A i \in 1..meta.durable_end : w[i] = wal[i]
    BY <2>1, CutFacts DEF LogTypes
  <2>3. /\ wal' = w /\ pending' = {} /\ poisoned' = TRUE /\ meta' = meta /\ clog' = clog
        /\ ~ poisoned
    BY <1>1, <2>1 DEF FlushFails
  <2>5. FlushUnknown => wal' = wal /\ meta'.visible = Len(wal)
    BY DEF FlushUnknown, LogTypes
  <2>6. ~ FlushRefused
    BY <2>3 DEF FlushRefused
  <2> QED  BY <2>2, <2>3, <2>5, <2>6 DEF LogTypes
<1>2. CASE FlushUnknown /\ ~ FlushFails
  BY <1>2 DEF FlushUnknown, FlushRefused, LogTypes
<1>3. CASE FlushRefused /\ ~ FlushFails /\ ~ FlushUnknown
  BY <1>3 DEF FlushRefused, log, LogTypes
<1> QED  BY <1>1, <1>2, <1>3

-----------------------------------------------------------------------------
(* Steps that leave the checkpoint's record of the past alone.             *)

\* The durable end is inside the log; they differ in what is visible of wal.meta
\* only after a failure.
Ends ==
  /\ meta.durable_end <= meta.visible /\ meta.visible <= Len(wal)
  /\ ~ poisoned => meta.visible = meta.durable_end

\* The log grows by records that advance no sequence, keeps what is durable, and
\* loses a suffix only when it is poisoned.
LogMoves ==
  /\ meta.durable_end <= meta'.durable_end
  /\ poisoned => poisoned'
  /\ meta.durable_end <= Len(wal') /\ (~ poisoned' => Len(wal) <= Len(wal'))
  /\ \A i \in 1..Len(wal') : IF i <= Len(wal) THEN wal'[i] = wal[i]
                                              ELSE wal'[i].kind # "advance"
LogPlain == meta'.replay_floor = meta.replay_floor /\ LogMoves

\* An append, as such a step.
LEMMA AppendPlain ==
  ASSUME LogTypes, Ends, NEW r \in Rec, r.kind # "advance", AppendRecord(r)
  PROVE  LogTypes' /\ Ends' /\ LogPlain
<1>1. /\ LogTypes' /\ meta' = meta /\ poisoned' = poisoned
      /\ poisoned => wal' = wal /\ pending' = pending
      /\ ~ poisoned => /\ Len(wal') = Len(wal) + 1 /\ wal'[Len(wal) + 1] = r
                       /\ \A i \in 1..Len(wal) : wal'[i] = wal[i]
  BY AppendFacts
<1>2. Len(wal) \in Nat /\ meta.durable_end \in Nat /\ meta.visible \in Nat
  BY DEF LogTypes
<1>3. Ends'
  BY <1>1, <1>2 DEF Ends
<1>4. LogPlain
  BY <1>1, <1>2 DEF LogPlain, LogMoves, Ends
<1> QED  BY <1>1, <1>3, <1>4

\* A flush that succeeds, as such a step.
LEMMA FlushPlain ==
  ASSUME LogTypes, Ends, FlushOk
  PROVE  LogTypes' /\ Ends' /\ LogPlain
<1>1. /\ LogTypes' /\ ~ poisoned /\ ~ poisoned' /\ wal' = wal
      /\ meta'.durable_end = Len(wal) /\ meta'.visible = Len(wal)
      /\ meta'.replay_floor = meta.replay_floor
  BY FlushFacts
<1>2. Len(wal) \in Nat /\ meta.durable_end \in Nat /\ meta.visible \in Nat
  BY DEF LogTypes
<1> QED  BY <1>1, <1>2 DEF Ends, LogPlain, LogMoves

\* A flush that fails, as such a step.
LEMMA FailPlain ==
  ASSUME LogTypes, Ends, FlushFails \/ FlushUnknown \/ FlushRefused
  PROVE  LogTypes' /\ Ends' /\ LogPlain /\ poisoned'
<1>1. Len(wal) \in Nat /\ meta.durable_end \in Nat /\ meta.visible \in Nat
  BY DEF LogTypes
<1>2. meta.durable_end <= Len(wal)
  BY <1>1 DEF Ends
<1>3. /\ LogTypes' /\ poisoned'
      /\ meta'.durable_end = meta.durable_end /\ meta'.replay_floor = meta.replay_floor
      /\ FlushFails => /\ ~ poisoned /\ meta' = meta /\ Len(wal') = meta.durable_end
                       /\ \A i \in 1..meta.durable_end : wal'[i] = wal[i]
      /\ FlushUnknown => ~ poisoned /\ wal' = wal /\ meta'.visible = Len(wal)
      /\ FlushRefused => poisoned /\ wal' = wal /\ meta' = meta
  BY <1>2, FailFacts
<1>4. CASE FlushFails
  <2>1. meta.visible = meta.durable_end
    BY <1>3, <1>4 DEF Ends
  <2> QED  BY <1>1, <1>2, <1>3, <1>4, <2>1 DEF Ends, LogPlain, LogMoves
<1>5. CASE FlushUnknown
  BY <1>1, <1>2, <1>3, <1>5 DEF Ends, LogPlain, LogMoves
<1>6. CASE FlushRefused
  BY <1>1, <1>2, <1>3, <1>6 DEF Ends, LogPlain, LogMoves
<1> QED  BY <1>4, <1>5, <1>6

\* The abort records of a family, as such a step.
LEMMA FamilyPlain ==
  ASSUME LogTypes, Ends, NEW s \in Session, txn \in [Session -> TxnRec],
         txn[s].xid \in Xid, AbortFamily(s)
  PROVE  LogTypes' /\ Ends' /\ LogPlain
<1>1. /\ LogTypes' /\ meta' = meta /\ poisoned' = poisoned
      /\ poisoned => wal' = wal
      /\ ~ poisoned =>
           /\ Len(wal') \in {Len(wal) + 1, Len(wal) + 2}
           /\ \A i \in 1..Len(wal) : wal'[i] = wal[i]
           /\ \A i \in (Len(wal) + 1)..Len(wal') : wal'[i].kind = "abort"
  BY AppendFamilyFacts
<1>2. Len(wal) \in Nat /\ meta.durable_end \in Nat /\ meta.visible \in Nat
  BY DEF LogTypes
<1>3. Ends'
  BY <1>1, <1>2 DEF Ends
<1>4. LogPlain
  <2>1. CASE poisoned
    BY <1>1, <1>2, <2>1 DEF LogPlain, LogMoves, Ends
  <2>2. CASE ~ poisoned
    <3>1. ASSUME NEW i \in 1..Len(wal'), ~ i <= Len(wal)
          PROVE  wal'[i].kind # "advance"
      <4>1. i \in (Len(wal) + 1)..Len(wal')
        BY <1>2, <3>1
      <4> QED  BY <1>1, <2>2, <4>1
    <3>2. Len(wal') \in Nat /\ Len(wal) <= Len(wal') /\ meta.durable_end <= Len(wal')
      BY <1>1, <1>2, <2>2 DEF Ends
    <3> QED  BY <1>1, <1>2, <2>2, <3>1, <3>2 DEF LogPlain, LogMoves
  <2> QED  BY <2>1, <2>2
<1> QED  BY <1>1, <1>3, <1>4

\* A call that leaves the log alone, as such a step.
LEMMA KeptPlain ==
  ASSUME LogTypes, Ends, UNCHANGED log
  PROVE  LogTypes' /\ Ends' /\ LogPlain
<1>1. /\ wal' = wal /\ meta' = meta /\ pending' = pending /\ poisoned' = poisoned
      /\ clog' = clog
  BY DEF log
<1>2. Len(wal) \in Nat /\ meta.durable_end \in Nat /\ meta.visible \in Nat
  BY DEF LogTypes
<1> QED  BY <1>1, <1>2 DEF LogTypes, Ends, LogPlain, LogMoves

\* The page becomes clean, or dirty from the end of the log on.
RecPlain == \/ page'.rec = page.rec \/ page'.rec = NoLsn
            \/ page.rec = NoLsn /\ ~ poisoned /\ page'.rec = Len(wal)

\* No transaction starts a nextval, and one that leaves it found the log poisoned.
NextvalPlain ==
  \A s \in Session :
    /\ txn'[s].pc = "nextval" => txn[s].pc = "nextval"
    /\ txn[s].pc = "nextval" => txn'[s].pc = "nextval" \/ poisoned'
    /\ txn'[s].pc # "idle" => txn[s].pc # "idle" \/ mode = "up"

\* A step of a session, of VACUUM or of a writer of pages.
Plain ==
  /\ LogPlain /\ RecPlain /\ NextvalPlain
  /\ UNCHANGED <<clog_file, control, ckpt, sequence, mode>> /\ client'.served = client.served

\* The record of a session is replaced.
LEMMA TxnFacts ==
  ASSUME ActorTypes, NEW s \in Session, NEW t \in TxnRec, t.pc # "idle" => t.xid \in Xid,
         txn' = [txn EXCEPT ![s] = t]
  PROVE  /\ txn' \in [Session -> TxnRec] /\ txn'[s] = t
         /\ \A r \in Session : r # s => txn'[r] = txn[r]
         /\ \A r \in Session : txn'[r].pc # "idle" => txn'[r].xid \in Xid
BY DEF ActorTypes

\* The shape of the record of a session.
LEMMA TxnShape ==
  ASSUME ActorTypes, NEW s \in Session
  PROVE  /\ txn[s] \in TxnRec
         /\ \A f \in {"idle", "open", "flush", "settle", "abort", "nextval"} :
              [txn[s] EXCEPT !.pc = f] \in TxnRec
         /\ Idle \in TxnRec /\ Idle.pc = "idle"
BY DEF ActorTypes, TxnRec, Idle, NoXid

\* An id is handed out.
LEMMA AllocateFacts ==
  ASSUME ActorTypes, Allocate
  PROVE  /\ next_xid \in Xid /\ next_xid' = next_xid + 1
         /\ next_xid' \in FIRST_NORMAL_XID..(MaxXid + 1)
         /\ active' = active \cup {next_xid} /\ active' \in SUBSET Xid
         /\ client' \in ClientRec /\ client'.served = client.served
         /\ client'.wrote = client.wrote \ {next_xid}
         /\ \A x \in Xid : client'.told[x] = IF x = next_xid THEN "none" ELSE client.told[x]
<1>1. /\ next_xid \in Xid /\ next_xid' = next_xid + 1
      /\ next_xid' \in FIRST_NORMAL_XID..(MaxXid + 1)
  BY DurabilityAssumption DEF ActorTypes, Allocate, Xid, FIRST_NORMAL_XID
<1>2. PICK c : c = [client EXCEPT !.told[next_xid] = "none", !.wrote = @ \ {next_xid},
                                  !.asked = @ \ {next_xid}]
  OBVIOUS
<1>3. /\ c \in ClientRec /\ c.served = client.served /\ c.wrote = client.wrote \ {next_xid}
      /\ \A x \in Xid : c.told[x] = IF x = next_xid THEN "none" ELSE client.told[x]
  BY <1>1, <1>2 DEF ActorTypes, ClientRec
<1> QED  BY <1>1, <1>2, <1>3 DEF Allocate, ActorTypes

\* What BEGIN does.
LEMMA BeginPlain ==
  ASSUME Types, Ends, NEW s \in Session, Begin(s)
  PROVE  Types' /\ Ends' /\ Plain
<1> USE DEF Types
<1>1. LogTypes' /\ Ends' /\ LogPlain
  BY KeptPlain DEF Begin
<1>2. /\ FileTypes' /\ RecPlain
      /\ UNCHANGED <<clog_file, control, vac, ckpt, sequence, mode>>
  BY DEF Begin, FileTypes, files, RecPlain
<1>3. PICK t : t = [Idle EXCEPT !.pc = "open", !.xid = next_xid]
  OBVIOUS
<1>4. t \in TxnRec /\ t.xid \in Xid /\ t.pc = "open"
  BY <1>3, AllocateFacts DEF Begin, TxnRec, Idle
<1>5. txn' = [txn EXCEPT ![s] = t] /\ mode = "up" /\ txn[s].pc = "idle"
  BY <1>3 DEF Begin
<1>6. ActorTypes' /\ client'.served = client.served
  BY <1>2, <1>4, <1>5, TxnFacts, AllocateFacts DEF Begin, ActorTypes
<1>7. NextvalPlain
  BY <1>4, <1>5, TxnFacts DEF NextvalPlain
<1> QED  BY <1>1, <1>2, <1>6, <1>7 DEF Plain

\* What SAVEPOINT does.
LEMMA SavepointPlain ==
  ASSUME Types, Ends, NEW s \in Session, Savepoint(s)
  PROVE  Types' /\ Ends' /\ Plain
<1> USE DEF Types
<1>1. LogTypes' /\ Ends' /\ LogPlain
  BY KeptPlain DEF Savepoint
<1>2. /\ FileTypes' /\ RecPlain
      /\ UNCHANGED <<clog_file, control, vac, ckpt, sequence, mode>>
  BY DEF Savepoint, FileTypes, files, RecPlain
<1>3. PICK t : t = [txn[s] EXCEPT !.sub = next_xid]
  OBVIOUS
<1>4. t \in TxnRec /\ t.xid = txn[s].xid /\ t.pc = txn[s].pc /\ t.xid \in Xid
  BY <1>3, AllocateFacts DEF Savepoint, TxnRec, ActorTypes
<1>5. txn' = [txn EXCEPT ![s] = t]
  BY <1>3 DEF Savepoint, ActorTypes
<1>6. ActorTypes' /\ client'.served = client.served
  BY <1>2, <1>4, <1>5, TxnFacts, AllocateFacts DEF Savepoint, ActorTypes
<1>7. NextvalPlain
  BY <1>4, <1>5, TxnFacts DEF NextvalPlain
<1> QED  BY <1>1, <1>2, <1>6, <1>7 DEF Plain

\* The newest id of a running transaction.
LEMMA NewestFacts ==
  ASSUME ActorTypes, NEW s \in Session, txn[s].pc # "idle"
  PROVE  /\ Family(txn[s]) \in SUBSET Xid /\ txn[s].xid \in Family(txn[s])
         /\ Max(Family(txn[s])) \in Family(txn[s])
<1>1. NoXid \notin Xid
  BY DurabilityAssumption DEF NoXid, Xid, FIRST_NORMAL_XID
<1>2. txn[s] \in TxnRec /\ txn[s].xid \in Xid
  BY DEF ActorTypes
<1>3. Family(txn[s]) \in SUBSET Xid /\ txn[s].xid \in Family(txn[s])
  BY <1>1, <1>2 DEF Family, TxnRec
<1> QED  BY <1>3, XidFacts

\* Records of a transaction, of the prune of VACUUM and of the checkpoint.
LEMMA RecordFacts ==
  /\ \A x \in Xid, k \in Kinds, S \in SUBSET Xid, v \in Nat :
       /\ Record(x, k, S, v) \in Rec /\ Record(x, k, S, v).xid = x
       /\ Record(x, k, S, v).kind = k /\ Record(x, k, S, v).ids = S
       /\ Record(x, k, S, v).value = v
  /\ \A n \in 0..MaxXid, k \in {"prune", "checkpoint"}, S \in SUBSET Xid :
       /\ Record(n, k, S, 0) \in Rec /\ Record(n, k, S, 0).xid = n
       /\ Record(n, k, S, 0).kind = k /\ Record(n, k, S, 0).ids = S
BY DurabilityAssumption DEF Record, Rec, Kinds, Xid, FIRST_NORMAL_XID

\* A record that dirties the page.
LEMMA DirtyFacts ==
  ASSUME LogTypes, Ends, LogTypes', FileTypes, ~ poisoned, NEW S \in SUBSET Xid,
         page' = [ids |-> S, lsn |-> Len(wal'),
                  rec |-> IF page.rec = NoLsn THEN Len(wal) ELSE page.rec]
  PROVE  page' \in [ids : SUBSET Xid, lsn : Nat, rec : Nat \cup {NoLsn}] /\ RecPlain
BY DEF LogTypes, FileTypes, RecPlain

\* What an INSERT does.
LEMMA InsertPlain ==
  ASSUME Types, Ends, NEW s \in Session, Insert(s)
  PROVE  Types' /\ Ends' /\ Plain
<1> USE DEF Types
<1>1. PICK x : x = Max(Family(txn[s]))
  OBVIOUS
<1>2. x \in Xid /\ txn[s].pc = "open"
  BY <1>1, NewestFacts DEF Insert
<1>3. PICK r : r = Record(x, "insert", {}, 0)
  OBVIOUS
<1>4. r \in Rec /\ r.kind = "insert"
  BY <1>2, <1>3, RecordFacts DEF Kinds
<1>5. /\ AppendRecord(r)
      /\ poisoned => UNCHANGED <<page, txn, client>>
      /\ ~ poisoned =>
            /\ page' = [ids |-> page.ids \cup {x}, lsn |-> Len(wal'),
                        rec |-> IF page.rec = NoLsn THEN Len(wal) ELSE page.rec]
            /\ txn' = [txn EXCEPT ![s].wrote = TRUE]
            /\ client' = [client EXCEPT !.wrote = @ \cup {x}]
      /\ UNCHANGED <<vacuum_floor, files, next_xid, active, vac, ckpt, sequence, mode, bounds>>
  BY <1>1, <1>3 DEF Insert
<1>6. LogTypes' /\ Ends' /\ LogPlain
  BY <1>4, <1>5, AppendPlain
<1>7. FileTypes' /\ RecPlain
  <2>1. CASE poisoned
    BY <1>5, <2>1 DEF FileTypes, files, RecPlain
  <2>2. CASE ~ poisoned
    <3>1. page.ids \cup {x} \in SUBSET Xid
      BY <1>2 DEF FileTypes
    <3> QED  BY <1>5, <1>6, <2>2, <3>1, DirtyFacts DEF FileTypes, files
  <2> QED  BY <2>1, <2>2
<1>8. ActorTypes' /\ NextvalPlain /\ client'.served = client.served
  <2>1. CASE poisoned
    BY <1>5, <2>1 DEF ActorTypes, NextvalPlain
  <2>2. CASE ~ poisoned
    <3>1. PICK t : t = [txn[s] EXCEPT !.wrote = TRUE]
      OBVIOUS
    <3>2. t \in TxnRec /\ t.xid = txn[s].xid /\ t.pc = txn[s].pc /\ t.xid \in Xid
      BY <1>2, <3>1 DEF TxnRec, ActorTypes
    <3>3. txn' = [txn EXCEPT ![s] = t]
      BY <1>5, <2>2, <3>1 DEF ActorTypes
    <3>4. client' \in ClientRec /\ client'.served = client.served
      BY <1>2, <1>5, <2>2 DEF ActorTypes, ClientRec
    <3>5. ActorTypes'
      BY <1>5, <3>2, <3>3, <3>4, TxnFacts DEF ActorTypes
    <3>6. NextvalPlain
      BY <3>2, <3>3, TxnFacts DEF NextvalPlain
    <3> QED  BY <3>4, <3>5, <3>6
  <2> QED  BY <2>1, <2>2
<1> QED  BY <1>5, <1>6, <1>7, <1>8 DEF Plain, files

\* What ROLLBACK TO SAVEPOINT does.
LEMMA RollbackToPlain ==
  ASSUME Types, Ends, NEW s \in Session, RollbackTo(s)
  PROVE  Types' /\ Ends' /\ Plain
<1> USE DEF Types
<1>1. PICK x : x = txn[s].sub
  OBVIOUS
<1>2. x \in Xid /\ txn[s].pc = "open"
  BY <1>1 DEF RollbackTo, ActorTypes, TxnRec
<1>3. PICK r : r = Record(x, "abort", {}, 0)
  OBVIOUS
<1>4. r \in Rec /\ r.kind = "abort"
  BY <1>2, <1>3, RecordFacts DEF Kinds
<1>5. /\ AppendRecord(r) /\ active' = active \ {x} /\ txn' = [txn EXCEPT ![s].sub = NoXid]
      /\ client' = [client EXCEPT !.told[x] = "failed"]
      /\ UNCHANGED <<vacuum_floor, files, page, next_xid, vac, ckpt, sequence, mode, bounds>>
  BY <1>1, <1>3 DEF RollbackTo
<1>6. LogTypes' /\ Ends' /\ LogPlain
  BY <1>4, <1>5, AppendPlain
<1>7. FileTypes' /\ RecPlain
  BY <1>5 DEF FileTypes, files, RecPlain
<1>8. PICK t : t = [txn[s] EXCEPT !.sub = NoXid]
  OBVIOUS
<1>9. t \in TxnRec /\ t.xid = txn[s].xid /\ t.pc = txn[s].pc /\ t.xid \in Xid
  BY <1>2, <1>8 DEF TxnRec, ActorTypes
<1>10. txn' = [txn EXCEPT ![s] = t]
  BY <1>5, <1>8 DEF ActorTypes
<1>11. client' \in ClientRec /\ client'.served = client.served
  BY <1>2, <1>5 DEF ActorTypes, ClientRec
<1>12. ActorTypes'
  BY <1>5, <1>9, <1>10, <1>11, TxnFacts DEF ActorTypes
<1>13. NextvalPlain
  BY <1>9, <1>10, TxnFacts DEF NextvalPlain
<1> QED  BY <1>5, <1>6, <1>7, <1>11, <1>12, <1>13 DEF Plain, files

\* The client is told the outcome of a family.
LEMMA ToldFacts ==
  ASSUME ActorTypes, NEW F, NEW what \in {"failed", "committed"},
         client' = [client EXCEPT !.told = [x \in Xid |-> IF x \in F THEN what ELSE @[x]]]
  PROVE  /\ client' \in ClientRec /\ client'.served = client.served
         /\ client'.wrote = client.wrote
         /\ \A x \in Xid : client'.told[x] = IF x \in F THEN what ELSE client.told[x]
<1>1. PICK f : f = [x \in Xid |-> IF x \in F THEN what ELSE client.told[x]]
  OBVIOUS
<1>2. /\ f \in [Xid -> {"none", "failed", "committed"}]
      /\ \A x \in Xid : f[x] = IF x \in F THEN what ELSE client.told[x]
  BY <1>1 DEF ActorTypes, ClientRec
<1>3. client' = [client EXCEPT !.told = f]
  BY <1>1
<1> QED  BY <1>2, <1>3 DEF ActorTypes, ClientRec

\* What an abort does.
LEMMA AbortPlain ==
  ASSUME Types, Ends, NEW s \in Session, Abort(s)
  PROVE  Types' /\ Ends' /\ Plain
<1> USE DEF Types
<1>1. /\ AbortFamily(s) /\ txn[s].pc # "idle" /\ txn[s].pc # "nextval"
      /\ UNCHANGED <<vacuum_floor, files, page, next_xid, vac, ckpt, sequence, mode, bounds>>
  BY DEF Abort
<1>2. txn[s].xid \in Xid /\ txn \in [Session -> TxnRec]
  BY <1>1 DEF ActorTypes
<1>3. LogTypes' /\ Ends' /\ LogPlain
  BY <1>1, <1>2, FamilyPlain
<1>4. /\ active' = active \ Family(txn[s]) /\ txn' = [txn EXCEPT ![s] = Idle]
      /\ client' = [client EXCEPT !.told = [x \in Xid |-> IF x \in Family(txn[s])
                                                          THEN "failed" ELSE @[x]]]
  BY <1>1 DEF AbortFamily
<1>5. FileTypes' /\ RecPlain
  BY <1>1 DEF FileTypes, files, RecPlain
<1>6. client' \in ClientRec /\ client'.served = client.served
  BY <1>4, ToldFacts
<1>7. ActorTypes'
  BY <1>1, <1>4, <1>6, TxnFacts, TxnShape DEF ActorTypes
<1>8. NextvalPlain
  BY <1>1, <1>4, TxnFacts, TxnShape DEF NextvalPlain
<1> QED  BY <1>1, <1>3, <1>5, <1>6, <1>7, <1>8 DEF Plain, files

\* The end of a transaction that wrote nothing.
LEMMA EndReadOnlyPlain ==
  ASSUME Types, Ends, NEW s \in Session, EndReadOnly(s)
  PROVE  Types' /\ Ends' /\ Plain
<1> USE DEF Types
<1>1. LogTypes' /\ Ends' /\ LogPlain
  BY KeptPlain DEF EndReadOnly
<1>2. FileTypes' /\ RecPlain
  BY DEF EndReadOnly, FileTypes, files, RecPlain
<1>3. txn' = [txn EXCEPT ![s] = Idle] /\ txn[s].pc = "open"
  BY DEF EndReadOnly
<1>4. ActorTypes'
  BY <1>3, TxnFacts, TxnShape DEF ActorTypes, EndReadOnly
<1>5. NextvalPlain
  BY <1>3, TxnFacts, TxnShape DEF NextvalPlain
<1> QED  BY <1>1, <1>2, <1>4, <1>5 DEF Plain, EndReadOnly, files

\* The pc of a session moves.
LEMMA MoveFacts ==
  ASSUME ActorTypes, NEW s \in Session, txn[s].pc # "idle",
         NEW f \in {"open", "flush", "settle", "abort", "nextval"},
         txn' = [txn EXCEPT ![s].pc = f]
  PROVE  /\ txn' \in [Session -> TxnRec] /\ txn'[s].pc = f /\ txn'[s].xid = txn[s].xid
         /\ txn'[s].sub = txn[s].sub /\ txn'[s].wrote = txn[s].wrote
         /\ \A r \in Session : r # s => txn'[r] = txn[r]
         /\ \A r \in Session : txn'[r].pc # "idle" => txn'[r].xid \in Xid
<1>1. PICK t : t = [txn[s] EXCEPT !.pc = f]
  OBVIOUS
<1>2. /\ t \in TxnRec /\ t.xid = txn[s].xid /\ t.sub = txn[s].sub /\ t.wrote = txn[s].wrote
      /\ t.pc = f /\ t.xid \in Xid
  BY <1>1, TxnShape DEF TxnRec, ActorTypes
<1>3. txn' = [txn EXCEPT ![s] = t]
  BY <1>1 DEF ActorTypes
<1> QED  BY <1>2, <1>3, TxnFacts

\* What the commit record of a transaction does.
LEMMA CommitAppendPlain ==
  ASSUME Types, Ends, NEW s \in Session, CommitAppend(s)
  PROVE  Types' /\ Ends' /\ Plain
<1> USE DEF Types
<1>1. /\ txn[s].pc = "open" /\ txn' = [txn EXCEPT ![s].pc = "flush"]
      /\ client' = [client EXCEPT !.asked = @ \cup Family(txn[s])]
      /\ AppendRecord(Record(txn[s].xid, "commit", Family(txn[s]) \ {txn[s].xid}, 0))
      /\ UNCHANGED <<vacuum_floor, files, page, next_xid, active, vac, ckpt, sequence,
                     mode, bounds>>
  BY DEF CommitAppend
<1>2. Family(txn[s]) \in SUBSET Xid /\ txn[s].xid \in Xid
  BY <1>1, NewestFacts
<1>3. PICK r : r = Record(txn[s].xid, "commit", Family(txn[s]) \ {txn[s].xid}, 0)
  OBVIOUS
<1>4. r \in Rec /\ r.kind = "commit"
  <2>1. Family(txn[s]) \ {txn[s].xid} \in SUBSET Xid /\ 0 \in Nat /\ "commit" \in Kinds
    BY <1>2 DEF Kinds
  <2> QED  BY <1>2, <1>3, <2>1, RecordFacts
<1>5. LogTypes' /\ Ends' /\ LogPlain
  BY <1>1, <1>3, <1>4, AppendPlain
<1>6. FileTypes' /\ RecPlain
  BY <1>1 DEF FileTypes, files, RecPlain
<1>7. client' \in ClientRec /\ client'.served = client.served
  BY <1>1, <1>2 DEF ActorTypes, ClientRec
<1>8. ActorTypes'
  BY <1>1, <1>7, MoveFacts DEF ActorTypes
<1>9. NextvalPlain
  BY <1>1, MoveFacts DEF NextvalPlain
<1> QED  BY <1>1, <1>5, <1>6, <1>7, <1>8, <1>9 DEF Plain, files

\* What the flush of a commit does.
LEMMA CommitFlushPlain ==
  ASSUME Types, Ends, NEW s \in Session, CommitFlush(s)
  PROVE  Types' /\ Ends' /\ Plain
<1> USE DEF Types
<1>1. /\ txn[s].pc = "flush" /\ FlushOk /\ txn' = [txn EXCEPT ![s].pc = "settle"]
      /\ UNCHANGED <<vacuum_floor, files, page, next_xid, active, vac, ckpt, sequence,
                     mode, client, bounds>>
  BY DEF CommitFlush
<1>2. LogTypes' /\ Ends' /\ LogPlain
  BY <1>1, FlushPlain
<1>3. FileTypes' /\ RecPlain
  BY <1>1 DEF FileTypes, files, RecPlain
<1>4. ActorTypes'
  BY <1>1, MoveFacts DEF ActorTypes
<1>5. NextvalPlain
  BY <1>1, MoveFacts DEF NextvalPlain
<1> QED  BY <1>1, <1>2, <1>3, <1>4, <1>5 DEF Plain, files

\* What a failed flush of a commit does.
LEMMA CommitFlushFailsPlain ==
  ASSUME Types, Ends, NEW s \in Session, CommitFlushFails(s)
  PROVE  Types' /\ Ends' /\ Plain
<1> USE DEF Types
<1>1. /\ txn[s].pc = "flush" /\ (FlushFails \/ FlushRefused)
      /\ txn' = [txn EXCEPT ![s].pc = "abort"]
      /\ UNCHANGED <<vacuum_floor, files, page, next_xid, active, vac, ckpt, sequence,
                     mode, client>>
  BY DEF CommitFlushFails, FlushError
<1>2. LogTypes' /\ Ends' /\ LogPlain
  BY <1>1, FailPlain
<1>3. FileTypes' /\ RecPlain
  BY <1>1 DEF FileTypes, files, RecPlain
<1>4. ActorTypes'
  BY <1>1, MoveFacts DEF ActorTypes
<1>5. NextvalPlain
  BY <1>1, MoveFacts DEF NextvalPlain
<1> QED  BY <1>1, <1>2, <1>3, <1>4, <1>5 DEF Plain, files

\* What the end of a commit does.
LEMMA CommitSettlePlain ==
  ASSUME Types, Ends, NEW s \in Session, CommitSettle(s)
  PROVE  Types' /\ Ends' /\ Plain
<1> USE DEF Types
<1>1. /\ txn[s].pc = "settle" /\ UNCHANGED log
      /\ active' = active \ Family(txn[s]) /\ txn' = [txn EXCEPT ![s] = Idle]
      /\ client' = [client EXCEPT !.told = [x \in Xid |-> IF x \in Family(txn[s])
                                                          THEN "committed" ELSE @[x]]]
      /\ UNCHANGED <<vacuum_floor, files, page, next_xid, vac, ckpt, sequence, mode, bounds>>
  BY DEF CommitSettle
<1>2. LogTypes' /\ Ends' /\ LogPlain
  BY <1>1, KeptPlain
<1>3. FileTypes' /\ RecPlain
  BY <1>1 DEF FileTypes, files, RecPlain
<1>4. client' \in ClientRec /\ client'.served = client.served
  BY <1>1, ToldFacts
<1>5. ActorTypes'
  BY <1>1, <1>4, TxnFacts, TxnShape DEF ActorTypes
<1>6. NextvalPlain
  BY <1>1, TxnFacts, TxnShape DEF NextvalPlain
<1> QED  BY <1>1, <1>2, <1>3, <1>4, <1>5, <1>6 DEF Plain, files

\* What a nextval that cannot be flushed does.
LEMMA NextvalFailsPlain ==
  ASSUME Types, Ends, NEW s \in Session, NextvalFails(s)
  PROVE  Types' /\ Ends' /\ Plain
<1> USE DEF Types
<1>1. /\ txn[s].pc = "nextval" /\ (FlushFails \/ FlushUnknown \/ FlushRefused)
      /\ txn' = [txn EXCEPT ![s].pc = "open"]
      /\ UNCHANGED <<vacuum_floor, files, page, next_xid, active, vac, ckpt, sequence,
                     mode, client>>
  BY DEF NextvalFails, FlushError
<1>2. LogTypes' /\ Ends' /\ LogPlain /\ poisoned'
  BY <1>1, FailPlain
<1>3. FileTypes' /\ RecPlain
  BY <1>1 DEF FileTypes, files, RecPlain
<1>4. ActorTypes'
  BY <1>1, MoveFacts DEF ActorTypes
<1>5. NextvalPlain
  BY <1>1, <1>2, MoveFacts DEF NextvalPlain
<1> QED  BY <1>1, <1>2, <1>3, <1>4, <1>5 DEF Plain, files

\* What the beginning of a VACUUM does.
LEMMA VacuumBeginPlain ==
  ASSUME Types, Ends, VacuumBegin
  PROVE  Types' /\ Ends' /\ Plain
<1> USE DEF Types
<1>1. /\ UNCHANGED log /\ Allocate /\ mode = "up"
      /\ vac' = [pc |-> "commit", xid |-> next_xid, boundary |-> Min(active')]
      /\ UNCHANGED <<vacuum_floor, files, page, txn, ckpt, sequence, mode>>
  BY DEF VacuumBegin
<1>2. LogTypes' /\ Ends' /\ LogPlain
  BY <1>1, KeptPlain
<1>3. FileTypes' /\ RecPlain
  BY <1>1 DEF FileTypes, files, RecPlain
<1>4. Min(active') \in Nat
  <2>1. active' \in SUBSET Xid /\ active' # {}
    BY <1>1, AllocateFacts
  <2>2. Min(active') \in Xid
    BY <2>1, XidFacts
  <2> QED  BY <2>2, DurabilityAssumption DEF Xid, FIRST_NORMAL_XID
<1>5. vac' \in VacRec /\ vac'.xid \in Xid
  BY <1>1, <1>4, AllocateFacts DEF VacRec
<1>6. ActorTypes' /\ client'.served = client.served
  BY <1>1, <1>5, AllocateFacts DEF ActorTypes
<1>7. NextvalPlain
  BY <1>1 DEF NextvalPlain
<1> QED  BY <1>1, <1>2, <1>3, <1>6, <1>7 DEF Plain, files

\* A step of VACUUM changes its record, the log and the registry only.
VacFrame ==
  /\ vac' \in VacRec /\ (vac'.pc # "idle" => vac'.xid \in Xid) /\ active' \in SUBSET Xid
  /\ UNCHANGED <<clog_file, control, next_xid, txn, ckpt, sequence, mode>>
  /\ client' \in ClientRec /\ client'.served = client.served

\* Such a step, once its effect on the log, the page and the floor is known.
LEMMA VacPlain ==
  ASSUME Types, LogTypes', Ends', LogPlain, FileTypes', RecPlain, VacFrame
  PROVE  Types' /\ Ends' /\ Plain
<1>1. ActorTypes'
  BY DEF Types, ActorTypes, VacFrame
<1>2. NextvalPlain
  BY DEF NextvalPlain, VacFrame
<1> QED  BY <1>1, <1>2 DEF Plain, VacFrame, Types

\* The record of VACUUM.
LEMMA VacShape ==
  ASSUME ActorTypes
  PROVE  /\ \A f \in {"commit", "flush", "abort", "prune", "floor"} :
              /\ [vac EXCEPT !.pc = f] \in VacRec /\ [vac EXCEPT !.pc = f].xid = vac.xid
              /\ [vac EXCEPT !.pc = f].boundary = vac.boundary /\ [vac EXCEPT !.pc = f].pc = f
         /\ NoVacuum \in VacRec /\ NoVacuum.pc = "idle"
BY DEF ActorTypes, VacRec, NoVacuum, NoXid

\* What the commit record of VACUUM does.
LEMMA VacuumCommitPlain ==
  ASSUME Types, Ends, VacuumCommit
  PROVE  Types' /\ Ends' /\ Plain
<1> USE DEF Types
<1>1. /\ vac.pc = "commit" /\ AppendRecord(Record(vac.xid, "commit", {}, 0))
      /\ vac' = [vac EXCEPT !.pc = "flush"]
      /\ client' = [client EXCEPT !.asked = @ \cup {vac.xid}]
      /\ UNCHANGED <<vacuum_floor, files, page, next_xid, active, txn, ckpt, sequence,
                     mode, bounds>>
  BY DEF VacuumCommit
<1>2. vac.xid \in Xid
  BY <1>1 DEF ActorTypes
<1>3. PICK r : r = Record(vac.xid, "commit", {}, 0)
  OBVIOUS
<1>4. r \in Rec /\ r.kind = "commit"
  BY <1>2, <1>3, RecordFacts DEF Kinds
<1>5. LogTypes' /\ Ends' /\ LogPlain
  BY <1>1, <1>3, <1>4, AppendPlain
<1>6. FileTypes' /\ RecPlain
  BY <1>1 DEF FileTypes, files, RecPlain
<1>7. client' \in ClientRec /\ client'.served = client.served
  BY <1>1, <1>2 DEF ActorTypes, ClientRec
<1>8. vac' \in VacRec /\ vac'.xid = vac.xid
  BY <1>1, VacShape
<1>9. VacFrame
  BY <1>1, <1>2, <1>7, <1>8 DEF VacFrame, ActorTypes, files
<1> QED  BY <1>5, <1>6, <1>9, VacPlain

\* What the flush of that commit does.
LEMMA VacuumFlushPlain ==
  ASSUME Types, Ends, VacuumFlush
  PROVE  Types' /\ Ends' /\ Plain
<1> USE DEF Types
<1>1. /\ vac.pc = "flush" /\ FlushOk
      /\ vac' = [vac EXCEPT !.pc = "prune"] /\ active' = active \ {vac.xid}
      /\ UNCHANGED <<vacuum_floor, files, page, next_xid, txn, ckpt, sequence, mode,
                     client, bounds>>
  BY DEF VacuumFlush
<1>2. LogTypes' /\ Ends' /\ LogPlain
  BY <1>1, FlushPlain
<1>3. FileTypes' /\ RecPlain
  BY <1>1 DEF FileTypes, files, RecPlain
<1>4. vac' \in VacRec /\ vac'.xid = vac.xid
  BY <1>1, VacShape
<1>5. VacFrame
  BY <1>1, <1>4 DEF VacFrame, ActorTypes, files
<1> QED  BY <1>2, <1>3, <1>5, VacPlain

\* What the abort of VACUUM does.
LEMMA VacuumAbortPlain ==
  ASSUME Types, Ends, VacuumAbort
  PROVE  Types' /\ Ends' /\ Plain
<1> USE DEF Types
<1>1. /\ vac.pc # "idle" /\ AppendRecord(Record(vac.xid, "abort", {}, 0))
      /\ vac' = NoVacuum /\ active' = active \ {vac.xid}
      /\ UNCHANGED <<vacuum_floor, files, page, next_xid, txn, ckpt, sequence, mode,
                     client, bounds>>
  BY DEF VacuumAbort
<1>2. vac.xid \in Xid
  BY <1>1 DEF ActorTypes
<1>3. PICK r : r = Record(vac.xid, "abort", {}, 0)
  OBVIOUS
<1>4. r \in Rec /\ r.kind = "abort"
  BY <1>2, <1>3, RecordFacts DEF Kinds
<1>5. LogTypes' /\ Ends' /\ LogPlain
  BY <1>1, <1>3, <1>4, AppendPlain
<1>6. FileTypes' /\ RecPlain
  BY <1>1 DEF FileTypes, files, RecPlain
<1>7. VacFrame
  BY <1>1, VacShape DEF VacFrame, ActorTypes, files
<1> QED  BY <1>5, <1>6, <1>7, VacPlain

\* What a failed flush of VACUUM does.
LEMMA VacuumFlushFailsPlain ==
  ASSUME Types, Ends, VacuumFlushFails
  PROVE  Types' /\ Ends' /\ Plain
<1> USE DEF Types
<1>1. /\ vac.pc = "flush" /\ (FlushFails \/ FlushRefused)
      /\ vac' = [vac EXCEPT !.pc = "abort"]
      /\ UNCHANGED <<vacuum_floor, files, page, next_xid, active, txn, ckpt, sequence,
                     mode, client>>
  BY DEF VacuumFlushFails, FlushError
<1>2. LogTypes' /\ Ends' /\ LogPlain
  BY <1>1, FailPlain
<1>3. FileTypes' /\ RecPlain
  BY <1>1 DEF FileTypes, files, RecPlain
<1>4. vac' \in VacRec /\ vac'.xid = vac.xid
  BY <1>1, VacShape
<1>5. VacFrame
  BY <1>1, <1>4 DEF VacFrame, ActorTypes, files
<1> QED  BY <1>2, <1>3, <1>5, VacPlain

\* What the prune of VACUUM does.
LEMMA VacuumPrunePlain ==
  ASSUME Types, Ends, VacuumPrune
  PROVE  Types' /\ Ends' /\ Plain
<1> USE DEF Types
<1>1. /\ vac.pc = "prune"
      /\ UNCHANGED <<vacuum_floor, files, next_xid, active, txn, ckpt, sequence, mode,
                     client, bounds>>
  BY DEF VacuumPrune
<1>2. ASSUME vac' \in {[vac EXCEPT !.pc = "floor"], NoVacuum} PROVE VacFrame
  BY <1>1, <1>2, VacShape DEF VacFrame, ActorTypes, files
<1>3. CASE Dead = {}
  <2>1. vac' = [vac EXCEPT !.pc = "floor"] /\ UNCHANGED <<log, page>>
    BY <1>3 DEF VacuumPrune
  <2>2. LogTypes' /\ Ends' /\ LogPlain
    BY <2>1, KeptPlain
  <2>3. FileTypes' /\ RecPlain
    BY <1>1, <2>1 DEF FileTypes, files, RecPlain
  <2> QED  BY <1>2, <2>1, <2>2, <2>3, VacPlain
<1>4. CASE Dead # {}
  <2>1. /\ AppendRecord(Record(VACUUM_TXN, "prune", Dead, 0))
        /\ poisoned => vac' = NoVacuum /\ UNCHANGED page
        /\ ~ poisoned =>
             /\ vac' = [vac EXCEPT !.pc = "floor"]
             /\ page' = [ids |-> page.ids \ Dead, lsn |-> Len(wal'),
                         rec |-> IF page.rec = NoLsn THEN Len(wal) ELSE page.rec]
    BY <1>4 DEF VacuumPrune
  <2>2. Dead \in SUBSET Xid /\ VACUUM_TXN \in 0..MaxXid
    BY DurabilityAssumption DEF Dead, FileTypes, VACUUM_TXN
  <2>3. PICK r : r = Record(VACUUM_TXN, "prune", Dead, 0)
    OBVIOUS
  <2>4. r \in Rec /\ r.kind = "prune"
    BY <2>2, <2>3, RecordFacts
  <2>5. LogTypes' /\ Ends' /\ LogPlain
    BY <2>1, <2>3, <2>4, AppendPlain
  <2>6. CASE poisoned
    <3>1. FileTypes' /\ RecPlain
      BY <1>1, <2>1, <2>6 DEF FileTypes, files, RecPlain
    <3> QED  BY <1>2, <2>1, <2>5, <2>6, <3>1, VacPlain
  <2>7. CASE ~ poisoned
    <3>1. page.ids \ Dead \in SUBSET Xid
      BY DEF FileTypes
    <3>2. page' \in [ids : SUBSET Xid, lsn : Nat, rec : Nat \cup {NoLsn}] /\ RecPlain
      BY <2>1, <2>5, <2>7, <3>1, DirtyFacts
    <3>3. FileTypes'
      BY <1>1, <3>2 DEF FileTypes, files
    <3> QED  BY <1>2, <2>1, <2>5, <2>7, <3>2, <3>3, VacPlain
  <2> QED  BY <2>6, <2>7
<1> QED  BY <1>3, <1>4

\* What the new floor of VACUUM does.
LEMMA VacuumFloorPlain ==
  ASSUME Types, Ends, VacuumFloor
  PROVE  Types' /\ Ends' /\ Plain
<1> USE DEF Types
<1>1. /\ UNCHANGED log /\ vac' = NoVacuum
      /\ vacuum_floor' = IF poisoned THEN vacuum_floor ELSE Max({vacuum_floor, vac.boundary})
      /\ UNCHANGED <<files, page, next_xid, active, txn, ckpt, sequence, mode, client, bounds>>
  BY DEF VacuumFloor
<1>2. LogTypes' /\ Ends' /\ LogPlain
  BY <1>1, KeptPlain
<1>3. Max({vacuum_floor, vac.boundary}) \in Nat
  BY PairFacts DEF FileTypes, ActorTypes, VacRec
<1>4. FileTypes' /\ RecPlain
  BY <1>1, <1>3 DEF FileTypes, files, RecPlain
<1>5. VacFrame
  BY <1>1, VacShape DEF VacFrame, ActorTypes, files
<1> QED  BY <1>2, <1>4, <1>5, VacPlain

\* What the write of the page does.
LEMMA WritePagePlain ==
  ASSUME Types, Ends, WritePage \/ WritePageFails
  PROVE  Types' /\ Ends' /\ Plain
<1> USE DEF Types
<1>1. LogTypes' /\ Ends' /\ LogPlain
  <2>1. CASE WritePage
    BY <2>1, FlushPlain DEF WritePage
  <2>2. CASE WritePageFails
    BY <2>2, FailPlain DEF WritePageFails
  <2> QED  BY <2>1, <2>2
<1>2. FileTypes' /\ RecPlain
  <2>1. CASE WritePage
    BY <2>1 DEF WritePage, FileTypes, RecPlain
  <2>2. CASE WritePageFails
    BY <2>2 DEF WritePageFails, FileTypes, files, RecPlain
  <2> QED  BY <2>1, <2>2
<1>3. VacFrame
  BY DEF VacFrame, ActorTypes, WritePage, WritePageFails, files
<1> QED  BY <1>1, <1>2, <1>3, VacPlain

-----------------------------------------------------------------------------
(* The steps of the checkpoint.                                            *)

CkptStep == \/ CkptBoundary \/ CkptEnd \/ CkptMarker \/ CkptFlush \/ CkptSnapshot
            \/ CkptWriteClog \/ CkptControl \/ CkptRecycle \/ CkptFails

\* A prune of the commit log keeps what it does not cover.
LEMMA PruneFacts ==
  ASSUME NEW c \in Clog, NEW floor \in Nat
  PROVE  /\ prune_to(c, floor) \in Clog
         /\ prune_to(c, floor).floor = Max({c.floor, floor})
         /\ \A x \in Xid : prune_to(c, floor).st[x] = IF x < Max({c.floor, floor}) THEN "None"
                                                                              ELSE c.st[x]
<1>1. PICK f : f = Max({c.floor, floor})
  OBVIOUS
<1>2. f \in Nat
  BY <1>1, PairFacts DEF Clog
<1>3. PICK g : g = [x \in Xid |-> IF x < f THEN "None" ELSE c.st[x]]
  OBVIOUS
<1>4. g \in [Xid -> Status]
  BY <1>3 DEF Clog, Status
<1>5. prune_to(c, floor) = [floor |-> f, st |-> g]
  BY <1>1, <1>3 DEF prune_to
<1> QED  BY <1>1, <1>2, <1>3, <1>4, <1>5 DEF Clog

\* The snapshot of the commit log is well formed.
LEMMA SnapshotFacts ==
  ASSUME NEW c \in Clog, NEW lsn \in Nat, NEW auth \in Nat, NEW vfloor \in Nat,
         NEW captured \in SUBSET Xid, NEW boundary \in Nat, NEW f,
         f = live_snapshot(c, lsn, auth, vfloor, captured, boundary)
  PROVE  /\ f \in ClogFile /\ f.loaded = TRUE /\ f.lsn = lsn /\ f.authorized = auth
         /\ f.floor = snapshot_floor(c, vfloor, captured, boundary) /\ c.floor <= f.floor
         /\ \A x \in Xid : f.st[x] = IF x < f.floor THEN "None"
                                     ELSE IF x \in captured /\ status(c, x) = "InProgress"
                                     THEN "InProgress" ELSE c.st[x]
<1>1. PICK floor : floor = snapshot_floor(c, vfloor, captured, boundary)
  OBVIOUS
<1>2. floor \in Nat /\ c.floor <= floor
  BY <1>1, FloorFacts
<1>3. PICK g : g = [x \in Xid |-> IF x < floor THEN "None"
                                  ELSE IF x \in captured /\ status(c, x) = "InProgress"
                                  THEN "InProgress" ELSE c.st[x]]
  OBVIOUS
<1>4. g \in [Xid -> Status]
  BY <1>3 DEF Clog, Status
<1>5. f = [lsn |-> lsn, authorized |-> auth, floor |-> floor,
           vacuum_floor |-> vfloor, loaded |-> TRUE, st |-> g]
  BY <1>1, <1>3 DEF live_snapshot
<1> QED  BY <1>1, <1>2, <1>3, <1>4, <1>5 DEF ClogFile

\* What a step of the checkpoint does to the log.
LEMMA CkptLog ==
  ASSUME Types, Ends, CkptStep
  PROVE  /\ LogTypes' /\ Ends' /\ LogMoves
         /\ \/ meta'.replay_floor = meta.replay_floor
            \/ ckpt.pc = "recycle" /\ meta'.replay_floor = ckpt.redo
         /\ meta' # meta => CkptFlush \/ CkptFails \/ CkptRecycle
<1> USE DEF Types
<1>1. CASE CkptBoundary \/ CkptEnd \/ CkptSnapshot \/ CkptControl
  <2>1. UNCHANGED log
    BY <1>1 DEF CkptBoundary, CkptEnd, CkptSnapshot, CkptControl
  <2> QED  BY <2>1, KeptPlain DEF LogPlain, log
<1>2. CASE CkptMarker
  <2>1. ckpt.boundary - 1 \in 0..MaxXid
    BY <1>2, DurabilityAssumption DEF CkptMarker, ActorTypes, CkptRec, FIRST_NORMAL_XID
  <2>2. PICK r : r = Record(ckpt.boundary - 1, "checkpoint", {}, 0)
    OBVIOUS
  <2>3. r \in Rec /\ r.kind = "checkpoint"
    BY <2>1, <2>2, RecordFacts
  <2>4. AppendRecord(r)
    BY <1>2, <2>2 DEF CkptMarker
  <2>5. meta' = meta
    BY <2>3, <2>4, AppendFacts
  <2> QED  BY <2>3, <2>4, <2>5, AppendPlain DEF LogPlain
<1>3. CASE CkptFlush
  BY <1>3, FlushPlain DEF CkptFlush, LogPlain
<1>4. CASE CkptWriteClog
  <2>1. UNCHANGED <<wal, meta, pending, poisoned>> /\ clog' = prune_to(clog, ckpt.snapshot.floor)
    BY <1>4 DEF CkptWriteClog
  <2>2. ckpt.snapshot.floor \in Nat /\ clog \in Clog
    BY <1>4 DEF CkptWriteClog, ActorTypes, ClogFile, LogTypes
  <2>3. clog' \in Clog
    BY <2>1, <2>2, PruneFacts
  <2>4. Len(wal) \in Nat
    BY DEF LogTypes
  <2> QED  BY <2>1, <2>3, <2>4 DEF LogTypes, Ends, LogMoves
<1>5. CASE CkptRecycle
  <2>1. /\ UNCHANGED <<wal, pending, poisoned, clog>> /\ ckpt.pc = "recycle"
        /\ meta' = [meta EXCEPT !.replay_floor = ckpt.redo]
    BY <1>5 DEF CkptRecycle
  <2>2. Len(wal) \in Nat /\ ckpt.redo \in Nat
    BY DEF LogTypes, ActorTypes, CkptRec
  <2> QED  BY <1>5, <2>1, <2>2 DEF LogTypes, Ends, LogMoves
<1>6. CASE CkptFails
  <2>1. CASE UNCHANGED log
    BY <1>6, <2>1, KeptPlain DEF LogPlain
  <2>2. CASE FlushFails \/ FlushUnknown
    BY <1>6, <2>2, FailPlain DEF LogPlain
  <2>3. CASE /\ ckpt.pc = "recycle" /\ poisoned' = TRUE /\ ~ poisoned
             /\ \E floor \in {meta.replay_floor, ckpt.redo} :
                  meta' = [meta EXCEPT !.replay_floor = floor]
             /\ UNCHANGED <<wal, pending, clog>>
    <3>1. Len(wal) \in Nat /\ ckpt.redo \in Nat
      BY DEF LogTypes, ActorTypes, CkptRec
    <3> QED  BY <1>6, <2>3, <3>1 DEF LogTypes, Ends, LogMoves
  <2> QED  BY <1>6, <2>1, <2>2, <2>3 DEF CkptFails, log
<1> QED  BY <1>1, <1>2, <1>3, <1>4, <1>5, <1>6 DEF CkptStep

\* What it leaves alone.
LEMMA CkptFrame ==
  ASSUME CkptStep
  PROVE  UNCHANGED <<vacuum_floor, page, next_xid, active, txn, vac, sequence, client, disk>>
BY DEF CkptStep, CkptBoundary, CkptEnd, CkptMarker, CkptFlush, CkptSnapshot, CkptWriteClog,
       CkptControl, CkptRecycle, CkptFails, CkptOnly, files

\* The checkpoint's record, the control record and the file stay well formed.
LEMMA CkptTypes ==
  ASSUME Types, Ends, CkptStep
  PROVE  Types'
<1> USE DEF Types
<1>1. LogTypes'
  BY CkptLog
<1>2. UNCHANGED <<vacuum_floor, page, next_xid, active, txn, vac, sequence, client, disk>>
  BY CkptFrame
<1>3. ASSUME clog_file' \in ClogFile, control' \in [end : Nat, redo : Nat, sequence : Nat],
             ckpt' \in CkptRec, ckpt'.pc # "idle" => ckpt'.boundary \in FIRST_NORMAL_XID..(MaxXid + 1),
             ckpt'.pc = "write" => ckpt'.snapshot \in ClogFile,
             mode' \in {"up", mode}
      PROVE  Types'
  BY <1>1, <1>2, <1>3 DEF FileTypes, ActorTypes
<1>4. NoCheckpoint \in CkptRec /\ NoCheckpoint.pc = "idle"
  BY DEF NoCheckpoint, CkptRec
<1>5. CASE CkptBoundary
  <2>1. /\ ckpt' = [NoCheckpoint EXCEPT !.pc = "bounded", !.active = active,
                                        !.boundary = next_xid]
        /\ UNCHANGED <<files, mode>>
    BY <1>5 DEF CkptBoundary, CkptMove
  <2>2. ckpt' \in CkptRec /\ ckpt'.pc = "bounded" /\ ckpt'.boundary = next_xid
    <3>1. next_xid \in Nat
      BY DurabilityAssumption DEF ActorTypes, FIRST_NORMAL_XID
    <3> QED  BY <2>1, <3>1 DEF ActorTypes, CkptRec, NoCheckpoint
  <2> QED  BY <1>3, <2>1, <2>2 DEF FileTypes, ActorTypes, files
<1>6. CASE CkptEnd
  <2>1. PICK redo : redo = IF page.rec = NoLsn THEN Len(wal) ELSE page.rec
    OBVIOUS
  <2>2. redo \in Nat /\ Len(wal) \in Nat /\ sequence \in Nat
    BY <2>1 DEF FileTypes, LogTypes, ActorTypes
  <2>3. /\ ckpt' = [ckpt EXCEPT !.pc = "marker", !.end = Len(wal), !.redo = redo,
                                !.sequence = sequence]
        /\ ckpt.pc = "bounded" /\ UNCHANGED <<files, mode>>
    BY <1>6, <2>1 DEF CkptEnd, CkptMove
  <2>4. ckpt' \in CkptRec /\ ckpt'.pc = "marker" /\ ckpt'.boundary = ckpt.boundary
    BY <2>2, <2>3 DEF ActorTypes, CkptRec
  <2> QED  BY <1>3, <2>3, <2>4 DEF FileTypes, ActorTypes, files
<1>7. CASE CkptMarker \/ CkptFlush
  <2>1. /\ \E f \in {"flush", "snapshot"} : ckpt' = [ckpt EXCEPT !.pc = f]
        /\ ckpt.pc # "idle" /\ UNCHANGED <<files, mode>>
    BY <1>7 DEF CkptMarker, CkptFlush, CkptMove
  <2>2. /\ ckpt' \in CkptRec /\ ckpt'.pc \in {"flush", "snapshot"}
        /\ ckpt'.boundary = ckpt.boundary
    BY <2>1 DEF ActorTypes, CkptRec
  <2> QED  BY <1>3, <2>1, <2>2 DEF FileTypes, ActorTypes, files
<1>8. CASE CkptSnapshot
  <2>1. PICK f : f = live_snapshot(clog, meta.durable_end, ckpt.redo, vacuum_floor,
                                   ckpt.active, ckpt.boundary)
    OBVIOUS
  <2>2. f \in ClogFile
    <3>1. /\ clog \in Clog /\ meta.durable_end \in Nat /\ ckpt.redo \in Nat
          /\ vacuum_floor \in Nat /\ ckpt.active \in SUBSET Xid /\ ckpt.boundary \in Nat
      BY DEF LogTypes, FileTypes, ActorTypes, CkptRec
    <3>2. ASSUME NEW c \in Clog, NEW l \in Nat, NEW a \in Nat, NEW v \in Nat,
                 NEW k \in SUBSET Xid, NEW b \in Nat, f = live_snapshot(c, l, a, v, k, b)
          PROVE  f \in ClogFile
      BY <3>2, SnapshotFacts
    <3> QED  BY <2>1, <3>1, <3>2
  <2>3. /\ ckpt' = [ckpt EXCEPT !.pc = "write", !.snapshot = f]
        /\ ckpt.pc = "snapshot" /\ UNCHANGED <<files, mode>>
    BY <1>8, <2>1 DEF CkptSnapshot, CkptMove
  <2>4. /\ ckpt' \in CkptRec /\ ckpt'.pc = "write" /\ ckpt'.boundary = ckpt.boundary
        /\ ckpt'.snapshot = f
    BY <2>2, <2>3 DEF ActorTypes, CkptRec
  <2> QED  BY <1>3, <2>2, <2>3, <2>4 DEF FileTypes, ActorTypes, files
<1>9. CASE CkptWriteClog
  <2>1. /\ ckpt' = [ckpt EXCEPT !.pc = "control", !.snapshot = <<>>]
        /\ clog_file' = ckpt.snapshot
        /\ ckpt.pc = "write" /\ UNCHANGED <<control, mode>>
    BY <1>9 DEF CkptWriteClog, CkptMove
  <2>2. /\ ckpt' \in CkptRec /\ ckpt'.pc = "control" /\ ckpt'.boundary = ckpt.boundary
    BY <2>1 DEF ActorTypes, CkptRec
  <2> QED  BY <1>3, <2>1, <2>2 DEF FileTypes, ActorTypes
<1>10. CASE CkptControl
  <2>1. /\ ckpt' = [ckpt EXCEPT !.pc = "recycle"]
        /\ control' = [end |-> ckpt.end, redo |-> ckpt.redo, sequence |-> ckpt.sequence]
        /\ ckpt.pc = "control" /\ UNCHANGED <<clog_file, mode>>
    BY <1>10 DEF CkptControl, CkptMove
  <2>2. /\ ckpt' \in CkptRec /\ ckpt'.pc = "recycle" /\ ckpt'.boundary = ckpt.boundary
        /\ control' \in [end : Nat, redo : Nat, sequence : Nat]
    BY <2>1 DEF ActorTypes, CkptRec
  <2> QED  BY <1>3, <2>1, <2>2 DEF FileTypes, ActorTypes
<1>11. CASE CkptRecycle \/ CkptFails
  <2>1. ckpt' = NoCheckpoint /\ UNCHANGED files /\ mode' \in {"up", mode}
    BY <1>11 DEF CkptRecycle, CkptFails, CkptMove
  <2> QED  BY <1>3, <1>4, <2>1 DEF FileTypes, files
<1> QED  BY <1>5, <1>6, <1>7, <1>8, <1>9, <1>10, <1>11 DEF CkptStep

-----------------------------------------------------------------------------
(* Sequences, crash and recovery.                                          *)

\* What the record of a nextval does.
LEMMA NextvalAppendFacts ==
  ASSUME Types, Ends, NEW s \in Session, NextvalAppend(s)
  PROVE  /\ Types' /\ Ends' /\ meta' = meta /\ ~ poisoned /\ ~ poisoned'
         /\ UNCHANGED <<vacuum_floor, clog_file, control, disk, page, next_xid, active, vac, ckpt,
                        sequence, mode, client>>
         /\ Len(wal') = Len(wal) + 1 /\ \A i \in 1..Len(wal) : wal'[i] = wal[i]
         /\ wal'[Len(wal) + 1].kind = "advance" /\ wal'[Len(wal) + 1].value = sequence + 1
         /\ wal'[Len(wal) + 1].xid = txn[s].xid
         /\ pending' = pending /\ clog'.floor = clog.floor
         /\ \A x \in Xid : clog'.st[x] = IF x = txn[s].xid THEN "InProgress" ELSE clog.st[x]
         /\ txn'[s].pc = "nextval" /\ txn[s].pc = "open" /\ txn[s].xid \in Xid
         /\ txn'[s].xid = txn[s].xid /\ txn'[s].sub = txn[s].sub
         /\ \A q \in Session : q # s => txn'[q] = txn[q]
<1> USE DEF Types
<1>1. /\ txn[s].pc = "open" /\ FenceOpen /\ FenceFree /\ ~ poisoned
      /\ AppendRecord(Record(txn[s].xid, "advance", {}, sequence + 1))
      /\ txn' = [txn EXCEPT ![s].pc = "nextval", ![s].wrote = TRUE]
      /\ UNCHANGED <<vacuum_floor, files, page, next_xid, active, vac, ckpt, sequence,
                     mode, client>>
  BY DEF NextvalAppend
<1>2. txn[s].xid \in Xid /\ sequence + 1 \in Nat /\ txn[s].xid # VACUUM_TXN
  BY <1>1, DurabilityAssumption DEF ActorTypes, Xid, VACUUM_TXN, FIRST_NORMAL_XID
<1>3. PICK r : r = Record(txn[s].xid, "advance", {}, sequence + 1)
  OBVIOUS
<1>4. r \in Rec /\ r.kind = "advance" /\ r.value = sequence + 1 /\ r.xid = txn[s].xid
  BY <1>2, <1>3, RecordFacts DEF Kinds
<1>5. /\ LogTypes' /\ meta' = meta /\ poisoned' = poisoned
      /\ clog'.floor = clog.floor
      /\ \A x \in Xid : clog'.st[x] = IF x = r.xid /\ r.kind = "abort" THEN "Aborted"
                                      ELSE IF x = r.xid /\ represents_transaction(r)
                                      THEN "InProgress" ELSE clog.st[x]
      /\ Len(wal') = Len(wal) + 1 /\ wal'[Len(wal) + 1] = r
      /\ \A i \in 1..Len(wal) : wal'[i] = wal[i]
      /\ pending' = pending \cup {}
  BY <1>1, <1>3, <1>4, AppendFacts
<1>6. PICK t : t = [txn[s] EXCEPT !.pc = "nextval", !.wrote = TRUE]
  OBVIOUS
<1>7. t \in TxnRec /\ t.xid = txn[s].xid /\ t.pc = "nextval" /\ t.sub = txn[s].sub
  BY <1>6 DEF TxnRec, ActorTypes
<1>8. txn' = [txn EXCEPT ![s] = t]
  BY <1>1, <1>6 DEF ActorTypes
<1>9. ActorTypes'
  BY <1>1, <1>2, <1>7, <1>8, TxnFacts DEF ActorTypes
<1>10. FileTypes'
  BY <1>1 DEF FileTypes, files
<1>11. Len(wal) \in Nat /\ meta.durable_end \in Nat /\ meta.visible \in Nat
  BY DEF LogTypes
<1>12. Ends'
  BY <1>1, <1>5, <1>11 DEF Ends
<1>13. represents_transaction(r)
  BY <1>2, <1>4 DEF represents_transaction
<1>14. /\ txn'[s] = t /\ \A q \in Session : q # s => txn'[q] = txn[q]
  BY <1>2, <1>7, <1>8, TxnFacts
<1>15. UNCHANGED <<vacuum_floor, clog_file, control, disk, page, next_xid, active, vac, ckpt,
                   sequence, mode, client>>
  BY <1>1 DEF files
<1> QED  BY <1>1, <1>2, <1>4, <1>5, <1>7, <1>9, <1>10, <1>12, <1>13, <1>14, <1>15

\* What the flush of that record and the return of the value do.
LEMMA NextvalReturnFacts ==
  ASSUME Types, Ends, NEW s \in Session, NextvalReturn(s)
  PROVE  /\ Types' /\ Ends' /\ LogPlain /\ FlushOk
         /\ UNCHANGED <<vacuum_floor, clog_file, control, disk, page, next_xid, active, vac, ckpt,
                        mode>>
         /\ txn[s].pc = "nextval" /\ txn'[s].pc = "open" /\ txn'[s].xid = txn[s].xid
         /\ txn'[s].sub = txn[s].sub /\ \A q \in Session : q # s => txn'[q] = txn[q]
         /\ sequence' = sequence + 1 /\ client'.served = client.served \cup {sequence + 1}
         /\ client'.told = client.told /\ client'.wrote = client.wrote
<1> USE DEF Types
<1>1. /\ txn[s].pc = "nextval" /\ FlushOk /\ sequence' = sequence + 1
      /\ client' = [client EXCEPT !.served = @ \cup {sequence + 1}]
      /\ txn' = [txn EXCEPT ![s].pc = "open"]
      /\ UNCHANGED <<vacuum_floor, files, page, next_xid, active, vac, ckpt, mode, bounds>>
  BY DEF NextvalReturn
<1>2. LogTypes' /\ Ends' /\ LogPlain
  BY <1>1, FlushPlain
<1>3. FileTypes'
  BY <1>1 DEF FileTypes, files
<1>4. /\ client' \in ClientRec /\ client'.served = client.served \cup {sequence + 1}
      /\ client'.told = client.told /\ client'.wrote = client.wrote
  BY <1>1 DEF ActorTypes, ClientRec
<1>5. sequence + 1 \in Nat
  BY DEF ActorTypes
<1>6. ActorTypes'
  BY <1>1, <1>4, <1>5, MoveFacts DEF ActorTypes
<1>7. /\ txn'[s].pc = "open" /\ txn'[s].xid = txn[s].xid /\ txn'[s].sub = txn[s].sub
      /\ \A q \in Session : q # s => txn'[q] = txn[q]
  BY <1>1, MoveFacts
<1>8. UNCHANGED <<vacuum_floor, clog_file, control, disk, page, next_xid, active, vac, ckpt, mode>>
  BY <1>1 DEF files
<1> QED  BY <1>1, <1>2, <1>3, <1>4, <1>6, <1>7, <1>8

\* What a crash leaves: the log up to an end that is at least the durable one.
LEMMA DownFacts ==
  ASSUME Types, Ends, Crash \/ ExitUnknown
  PROVE  /\ Types' /\ Ends' /\ mode' = "down" /\ ~ poisoned' /\ pending' = {}
         /\ \E end \in Nat :
              /\ meta.durable_end <= end /\ end <= Len(wal)
              /\ meta'.durable_end = end /\ meta'.replay_floor = meta.replay_floor
              /\ Len(wal') = end /\ \A i \in 1..end : wal'[i] = wal[i]
         /\ ckpt' = NoCheckpoint /\ vac' = NoVacuum
         /\ \A s \in Session : txn'[s] = Idle
         /\ page'.rec = NoLsn /\ mode \in {"up", "recovered"}
         /\ UNCHANGED <<clog, vacuum_floor, clog_file, control, disk, next_xid, sequence, client>>
<1> USE DEF Types
<1>1. Len(wal) \in Nat /\ meta.durable_end \in Nat /\ meta.visible \in Nat
  BY DEF LogTypes
<1>2. PICK end \in {meta.durable_end, meta.visible, Len(wal)} : Down(end)
  BY DEF Crash, ExitUnknown
<1>3. end \in Nat /\ meta.durable_end <= end /\ end <= Len(wal)
  BY <1>1, <1>2 DEF Ends
<1>4. PICK w : w = SubSeq(wal, 1, end)
  OBVIOUS
<1>5. w \in Seq(Rec) /\ Len(w) = end /\ \A i \in 1..end : w[i] = wal[i]
  BY <1>3, <1>4, CutFacts
<1>6. /\ mode' = "down" /\ wal' = w /\ pending' = {} /\ poisoned' = FALSE
      /\ meta' = [meta EXCEPT !.durable_end = end, !.visible = end]
      /\ active' = {} /\ txn' = [s \in Session |-> Idle]
      /\ vac' = NoVacuum /\ ckpt' = NoCheckpoint
      /\ page' = [ids |-> disk.ids, lsn |-> disk.lsn, rec |-> NoLsn]
      /\ UNCHANGED <<clog, vacuum_floor, clog_file, control, disk, next_xid, sequence, client>>
  BY <1>2, <1>4 DEF Down, files
<1>7. LogTypes' /\ Ends'
  <2>1. /\ meta' \in [replay_floor : Nat, durable_end : Nat, visible : Nat]
        /\ meta'.durable_end = end /\ meta'.visible = end
    BY <1>3, <1>6 DEF LogTypes
  <2>2. LogTypes'
    BY <1>5, <1>6, <2>1 DEF LogTypes
  <2>3. Ends'
    BY <1>3, <1>5, <1>6, <2>1 DEF Ends
  <2> QED  BY <2>2, <2>3
<1>8. FileTypes'
  BY <1>6 DEF FileTypes
<1>9. NoCheckpoint \in CkptRec /\ NoCheckpoint.pc = "idle"
  BY DEF NoCheckpoint, CkptRec
<1>10. Idle \in TxnRec /\ Idle.pc = "idle"
  BY DEF TxnRec, Idle, NoXid
<1>11. ActorTypes'
  BY <1>6, <1>9, <1>10, VacShape DEF ActorTypes
<1>12. /\ meta'.durable_end = end /\ meta'.replay_floor = meta.replay_floor
  BY <1>6 DEF LogTypes
<1>13. mode \in {"up", "recovered"}
  BY DEF Crash, ExitUnknown
<1> QED  BY <1>3, <1>5, <1>6, <1>7, <1>8, <1>11, <1>12, <1>13

\* A commit log c holds what the records after a position settle, and otherwise
\* what it was based on.
FoldedFrom(c, base, from, x) ==
  LET S == {i \in DOMAIN wal : i > from /\ Settles(wal[i], x)}
  IN  IF S # {} THEN c.st[x] = IF wal[Max(S)].kind = "commit" THEN "Committed" ELSE "Aborted"
                ELSE /\ c.st[x] \in {base.st[x], "InProgress"}
                     /\ status(base, x) = "Committed" => c.st[x] = base.st[x]

\* The statuses of the records after a position, folded into a commit log.
LEMMA FoldFacts ==
  ASSUME LogTypes, NEW base \in Clog, NEW from \in Nat
  PROVE  /\ fold_status(base, from) \in Clog /\ fold_status(base, from).floor = base.floor
         /\ \A x \in Xid : FoldedFrom(fold_status(base, from), base, from, x)
<1>0. PICK c : c = fold_status(base, from)
  OBVIOUS
<1> DEFINE settling(x) == {i \in Retained(from) : Settles(wal[i], x)}
           seen(x) == \E i \in Retained(from) : represents_transaction(wal[i]) /\ wal[i].xid = x
           folded(x) == IF settling(x) # {}
                          THEN IF wal[Max(settling(x))].kind = "commit" THEN "Committed"
                                                                       ELSE "Aborted"
                          ELSE IF seen(x) /\ status(base, x) = "InProgress" THEN "InProgress"
                          ELSE base.st[x]
<1>1. PICK g : g = [x \in Xid |-> folded(x)]
  OBVIOUS
<1>2. c = [base EXCEPT !.st = g]
  BY <1>0, <1>1 DEF fold_status
<1>3. \A x \in Xid : folded(x) \in Status
  <2> SUFFICES ASSUME NEW x \in Xid PROVE folded(x) \in Status
    OBVIOUS
  <2>1. base.st[x] \in Status
    BY DEF Clog
  <2> HIDE DEF settling, seen
  <2> QED  BY <2>1 DEF Status
<1>4. \A x \in Xid : g[x] = folded(x)
  BY <1>1
<1>5. g \in [Xid -> Status]
  <2> HIDE DEF folded
  <2> QED  BY <1>1, <1>3
<1>6. c \in Clog /\ c.floor = base.floor /\ c.st = g
  BY <1>2, <1>5 DEF Clog
<1>7. \A x \in Xid : settling(x) = {i \in DOMAIN wal : i > from /\ Settles(wal[i], x)}
  BY DEF Retained
<1>8. ASSUME NEW x \in Xid PROVE FoldedFrom(c, base, from, x)
  <2>1. c.st[x] = folded(x)
    BY <1>4, <1>6
  <2>2. PICK S : S = {i \in DOMAIN wal : i > from /\ Settles(wal[i], x)}
    OBVIOUS
  <2>3. settling(x) = S
    BY <1>7, <2>2
  <2> HIDE DEF settling, seen
  <2>4. CASE S # {}
    <3>1. c.st[x] = IF wal[Max(S)].kind = "commit" THEN "Committed" ELSE "Aborted"
      BY <2>1, <2>3, <2>4
    <3> QED  BY <2>2, <2>4, <3>1 DEF FoldedFrom
  <2>5. CASE S = {}
    <3>1. /\ c.st[x] \in {base.st[x], "InProgress"}
          /\ status(base, x) = "Committed" => c.st[x] = base.st[x]
      BY <2>1, <2>3, <2>5
    <3> QED  BY <2>2, <2>5, <3>1 DEF FoldedFrom
  <2> QED  BY <2>4, <2>5
<1> QED  BY <1>0, <1>6, <1>8

\* The next id is past every id of the retained log.
LEMMA NextXidFacts ==
  ASSUME LogTypes
  PROVE  recovered_next_xid \in FIRST_NORMAL_XID..(MaxXid + 1)
<1> DEFINE I(i) == {wal[i].xid} \cup (IF wal[i].kind = "commit" THEN wal[i].ids ELSE {})
           S == (UNION {I(i) : i \in Retained(meta.replay_floor)}) \cup {FIRST_NORMAL_XID - 1}
<1>1. recovered_next_xid = Max(S) + 1
  BY DEF recovered_next_xid
<1>2. \A i \in DOMAIN wal : I(i) \subseteq 0..MaxXid
  <2> SUFFICES ASSUME NEW i \in DOMAIN wal PROVE I(i) \subseteq 0..MaxXid
    OBVIOUS
  <2>1. wal[i] \in Rec
    BY DEF LogTypes
  <2> QED  BY <2>1, DurabilityAssumption DEF Rec, Xid, FIRST_NORMAL_XID
<1>3. S \subseteq 0..MaxXid /\ FIRST_NORMAL_XID - 1 \in S /\ MaxXid \in Nat
  <2>1. FIRST_NORMAL_XID - 1 \in 0..MaxXid /\ MaxXid \in Nat
    BY DurabilityAssumption DEF FIRST_NORMAL_XID
  <2> HIDE DEF I
  <2>2. ASSUME NEW x \in S PROVE x \in 0..MaxXid
    <3>1. CASE x = FIRST_NORMAL_XID - 1
      BY <2>1, <3>1
    <3>2. CASE \E i \in Retained(meta.replay_floor) : x \in I(i)
      BY <1>2, <3>2 DEF Retained
    <3> QED  BY <3>1, <3>2
  <2>3. FIRST_NORMAL_XID - 1 \in S
    OBVIOUS
  <2> HIDE DEF S
  <2> QED  BY <2>1, <2>2, <2>3
<1> HIDE DEF S
<1>4. S \subseteq Nat /\ S # {} /\ \A x \in S : x <= MaxXid
  BY <1>3
<1>5. PICK m : m = Max(S)
  OBVIOUS
<1>6. m \in S /\ \A x \in S : x <= m
  BY <1>3, <1>4, <1>5, MaxFacts
<1>7. m \in 0..MaxXid /\ FIRST_NORMAL_XID - 1 <= m
  BY <1>3, <1>6
<1> QED  BY <1>1, <1>3, <1>5, <1>7 DEF FIRST_NORMAL_XID

\* Without a snapshot the floor is a natural.
LEMMA RecoveredFloorFacts ==
  ASSUME LogTypes, NEW c
  PROVE  recovered_floor(c) \in Nat /\ recovered_floor(c) <= recovered_next_xid
<1> DEFINE open == {wal[i].xid : i \in {j \in Retained(meta.replay_floor) :
                                          /\ represents_transaction(wal[j])
                                          /\ status(c, wal[j].xid) # "Committed"}}
<1>1. recovered_floor(c) = Min(open \cup {recovered_next_xid})
  BY DEF recovered_floor
<1>2. \A i \in DOMAIN wal : wal[i].xid \in Nat
  BY DurabilityAssumption DEF LogTypes, Rec
<1>3. open \subseteq Nat
  BY <1>2 DEF Retained
<1>4. recovered_next_xid \in Nat
  BY NextXidFacts, DurabilityAssumption DEF FIRST_NORMAL_XID
<1> HIDE DEF open
<1>5. PICK S : S = open \cup {recovered_next_xid}
  OBVIOUS
<1>6. S \subseteq Nat /\ S # {} /\ recovered_next_xid \in S
  BY <1>3, <1>4, <1>5
<1> QED  BY <1>1, <1>5, <1>6, MinFacts

\* The sequence after recovery: the value of the last record after the control
\* record's end, or the control record's.
LEMMA RedoSequenceFacts ==
  ASSUME Types
  PROVE  /\ redo_sequence \in Nat
         /\ \/ /\ redo_sequence = control.sequence
               /\ \A i \in DOMAIN wal : i > control.end => wal[i].kind # "advance"
            \/ \E m \in DOMAIN wal :
                 /\ m > control.end /\ wal[m].kind = "advance" /\ redo_sequence = wal[m].value
                 /\ \A i \in DOMAIN wal : i > control.end /\ wal[i].kind = "advance" => i <= m
<1> DEFINE A == {i \in Retained(control.end) : wal[i].kind = "advance"}
<1>1. redo_sequence = IF A = {} THEN control.sequence ELSE wal[Max(A)].value
  BY DEF redo_sequence
<1>2. \A i : i \in A <=> (i \in DOMAIN wal /\ i > control.end /\ wal[i].kind = "advance")
  BY DEF Retained
<1> HIDE DEF A
<1>3. CASE A = {}
  BY <1>1, <1>2, <1>3 DEF Types, FileTypes
<1>4. CASE A # {}
  <2>1. PICK m : m = Max(A)
    OBVIOUS
  <2>2. A \in SUBSET (DOMAIN wal)
    BY <1>2
  <2>3. m \in A /\ \A i \in A : i <= m
    BY <1>4, <2>1, <2>2, PositionFacts DEF Types
  <2>4. redo_sequence = wal[m].value /\ m \in DOMAIN wal
    BY <1>1, <1>2, <1>4, <2>1, <2>3
  <2>5. wal[m].value \in Nat
    BY <2>4 DEF Types, LogTypes, Rec
  <2> QED  BY <1>2, <2>3, <2>4, <2>5
<1> QED  BY <1>3, <1>4

\* The row version of x is logged at i, no prune removes it, and the page file has
\* it when it is new enough.
Stored(i, x) ==
  /\ wal[i].kind = "insert" /\ wal[i].xid = x
  /\ \A k \in DOMAIN wal : k > i => ~ (wal[k].kind = "prune" /\ x \in wal[k].ids)
  /\ i <= disk.lsn => x \in disk.ids

\* The page after recovery: it is dirty from the first record redone, and has the
\* row versions of the page file and of the log.
LEMMA RedoPageFacts ==
  ASSUME Types
  PROVE  /\ redo_page \in [ids : SUBSET Xid, lsn : Nat, rec : Nat \cup {NoLsn}]
         /\ redo_page.rec = NoLsn \/ control.redo <= redo_page.rec
         /\ redo_page.rec <= Len(wal)
         /\ \A i \in DOMAIN wal :
              wal[i].kind \in {"insert", "prune"} /\ i > control.redo /\ i > disk.lsn =>
                /\ redo_page.rec # NoLsn /\ i > redo_page.rec /\ i <= redo_page.lsn
         /\ disk.lsn <= redo_page.lsn
         /\ redo_page.lsn = disk.lsn \/ redo_page.lsn \in DOMAIN wal
         /\ \A x \in Xid, i \in DOMAIN wal :
              Stored(i, x) /\ (i > disk.lsn => i > control.redo) => x \in redo_page.ids
<1> DEFINE from == Max({control.redo, disk.lsn})
           applied == {i \in Retained(from) : wal[i].kind \in {"insert", "prune"}}
           last(x) == {i \in applied : \/ wal[i].kind = "insert" /\ wal[i].xid = x
                                       \/ wal[i].kind = "prune" /\ x \in wal[i].ids}
           present(x) == IF last(x) = {} THEN x \in disk.ids
                                         ELSE wal[Max(last(x))].kind = "insert"
           ids == {x \in Xid : present(x)}
           lsn == Max(applied \cup {disk.lsn})
           rec == IF applied = {} THEN NoLsn ELSE Min(applied) - 1
<1>1. redo_page = [ids |-> ids, lsn |-> lsn, rec |-> rec]
  BY DEF redo_page
<1>2. /\ control.redo \in Nat /\ disk.lsn \in Nat /\ LogTypes
      /\ Len(wal) \in Nat /\ DOMAIN wal = 1..Len(wal)
  BY DEF Types, FileTypes, LogTypes
<1>3. from \in Nat /\ control.redo <= from /\ disk.lsn <= from /\ from \in {control.redo, disk.lsn}
  BY <1>2, PairFacts
<1>4. \A i : i \in applied <=>
        /\ i \in DOMAIN wal /\ i > from /\ wal[i].kind \in {"insert", "prune"}
  BY DEF Retained
<1>5. \A i \in DOMAIN wal : i > from <=> (i > control.redo /\ i > disk.lsn)
  <2> HIDE DEF from
  <2> QED  BY <1>2, <1>3
<1>6. applied \in SUBSET (DOMAIN wal)
  BY <1>4
<1>7. \A x : last(x) \in SUBSET applied
  OBVIOUS
<1>8. /\ lsn \in Nat /\ disk.lsn <= lsn /\ \A i \in applied : i <= lsn
      /\ lsn = disk.lsn \/ lsn \in DOMAIN wal
  <2> HIDE DEF applied, from
  <2>1. PICK S : S = applied \cup {disk.lsn}
    OBVIOUS
  <2>2. PICK n \in Nat : disk.lsn <= n /\ Len(wal) <= n
    <3>1. CASE disk.lsn <= Len(wal)
      BY <1>2, <3>1
    <3>2. CASE Len(wal) <= disk.lsn
      BY <1>2, <3>2
    <3> QED  BY <1>2, <3>1, <3>2
  <2>3. S \subseteq Nat /\ S # {} /\ \A i \in S : i <= n
    BY <1>2, <1>6, <2>1, <2>2
  <2>4. Max(S) \in S /\ \A i \in S : i <= Max(S)
    BY <2>2, <2>3, MaxFacts
  <2> QED  BY <1>2, <1>6, <2>1, <2>3, <2>4
<1>9. /\ rec \in Nat \cup {NoLsn}
      /\ rec = NoLsn \/ control.redo <= rec
      /\ \A i \in applied : rec # NoLsn /\ i > rec
      /\ rec <= Len(wal)
  <2>1. CASE applied = {}
    <3>1. rec = NoLsn
      BY <2>1
    <3> HIDE DEF rec, applied, from
    <3>2. rec <= Len(wal)
      BY <1>2, <3>1 DEF NoLsn
    <3> QED  BY <2>1, <3>1, <3>2
  <2>2. CASE applied # {}
    <3> HIDE DEF applied, from
    <3>1. PICK m : m = Min(applied)
      OBVIOUS
    <3>2. m \in applied /\ \A i \in applied : m <= i
      BY <1>2, <1>6, <2>2, <3>1, PositionFacts
    <3>3. m \in Nat /\ m > control.redo /\ rec = m - 1 /\ m <= Len(wal)
      BY <1>2, <1>4, <1>5, <2>2, <3>1, <3>2
    <3>4. \A i \in applied : i \in Nat
      BY <1>2, <1>6
    <3> HIDE DEF rec
    <3>5. rec \in Nat /\ control.redo <= rec /\ rec <= Len(wal)
      BY <1>2, <3>3
    <3>6. \A i \in applied : i > rec
      BY <3>2, <3>3, <3>4
    <3>7. rec # NoLsn
      BY <3>5 DEF NoLsn
    <3> QED  BY <3>5, <3>6, <3>7
  <2> QED  BY <2>1, <2>2
<1>10. ASSUME NEW x \in Xid, NEW i \in DOMAIN wal, Stored(i, x),
              i > disk.lsn => i > control.redo
       PROVE  x \in ids
  <2> SUFFICES present(x)
    OBVIOUS
  <2>1. \A k : k \in last(x) <=> /\ k \in applied
                                 /\ \/ wal[k].kind = "insert" /\ wal[k].xid = x
                                    \/ wal[k].kind = "prune" /\ x \in wal[k].ids
    OBVIOUS
  <2> HIDE DEF last, applied, from
  <2>2. CASE last(x) = {}
    <3>1. i \notin applied
      BY <1>10, <2>1, <2>2 DEF Stored
    <3>2. ~ i > disk.lsn
      BY <1>4, <1>5, <1>10, <3>1 DEF Stored
    <3>3. x \in disk.ids
      BY <1>2, <1>10, <3>2 DEF Stored
    <3> QED  BY <2>2, <3>3
  <2>3. CASE last(x) # {}
    <3>1. PICK m : m = Max(last(x))
      OBVIOUS
    <3>2. last(x) \in SUBSET (DOMAIN wal)
      BY <1>6, <2>1
    <3>3. m \in last(x) /\ \A k \in last(x) : k <= m
      BY <1>2, <2>3, <3>1, <3>2, PositionFacts
    <3>4. m \in DOMAIN wal /\ m > disk.lsn
      BY <1>4, <1>5, <2>1, <3>3
    <3>5. i <= m
      <4>1. CASE i \in applied
        BY <1>10, <2>1, <3>3, <4>1 DEF Stored
      <4>2. CASE i \notin applied
        <5>1. ~ i > disk.lsn
          BY <1>4, <1>5, <1>10, <4>2 DEF Stored
        <5> QED  BY <1>2, <3>4, <5>1
      <4> QED  BY <4>1, <4>2
    <3>6. wal[m].kind = "insert"
      <4>1. CASE m = i
        BY <1>10, <4>1 DEF Stored
      <4>2. CASE m > i
        BY <1>10, <2>1, <3>3, <3>4, <4>2 DEF Stored
      <4> QED  BY <1>2, <3>4, <3>5, <4>1, <4>2
    <3> QED  BY <2>3, <3>1, <3>6
  <2> QED  BY <2>2, <2>3
<1> HIDE DEF ids, lsn, rec, applied, from
<1>11. ids \in SUBSET Xid
  BY DEF ids
<1>12. redo_page.ids = ids /\ redo_page.lsn = lsn /\ redo_page.rec = rec
  BY <1>1
<1>13. redo_page \in [ids : SUBSET Xid, lsn : Nat, rec : Nat \cup {NoLsn}]
  BY <1>1, <1>8, <1>9, <1>11
<1> QED  BY <1>4, <1>5, <1>8, <1>9, <1>10, <1>12, <1>13

\* The commit log after recovery: what the file and the log say, and aborted where
\* they say in progress.
LEMMA ResolveFacts ==
  ASSUME NEW c \in Clog
  PROVE  /\ resolve(c) \in Clog /\ resolve(c).floor = c.floor
         /\ \A x \in Xid : resolve(c).st[x] = IF c.st[x] = "InProgress" THEN "Aborted" ELSE c.st[x]
<1>1. PICK S : S = {x \in Xid : c.st[x] = "InProgress"}
  OBVIOUS
<1>2. resolve(c) = SetStatus(c, S, "Aborted")
  BY <1>1 DEF resolve
<1> QED  BY <1>1, <1>2, SetStatusFacts DEF Status

\* What a restart that is not refused computes.
LEMMA RestartFacts ==
  ASSUME Types, Ends, Restart, ~ Refuses
  PROVE  /\ Types' /\ Ends' /\ mode = "down" /\ mode' \in {"up", "recovered"}
         /\ page' = redo_page /\ sequence' = redo_sequence
         /\ UNCHANGED <<wal, meta, pending, poisoned, clog_file, control, disk, active, txn, vac,
                        ckpt, client>>
         /\ clog_file.floor <= clog'.floor
         /\ \A x \in Xid :
              LET S == {i \in DOMAIN wal : i > clog_file.lsn /\ Settles(wal[i], x)}
              IN  /\ S # {} /\ wal[Max(S)].kind = "commit" => clog'.st[x] = "Committed"
                  /\ S = {} /\ status(clog_file, x) = "Committed" => clog'.st[x] = clog_file.st[x]
<1> DEFINE base == [floor |-> clog_file.floor, st |-> clog_file.st]
           folded == fold_status(base, clog_file.lsn)
           floored == IF clog_file.loaded THEN folded
                      ELSE [folded EXCEPT !.floor = Max({@, recovered_floor(folded)})]
<1> USE DEF Types
<1>1. /\ mode = "down" /\ mode' \in {"up", "recovered"} /\ clog' = resolve(floored)
      /\ vacuum_floor' = clog_file.vacuum_floor /\ page' = redo_page
      /\ next_xid' = recovered_next_xid /\ sequence' = redo_sequence
      /\ UNCHANGED <<wal, meta, pending, poisoned, files, active, txn, vac, ckpt, client>>
  BY DEF Restart
<1>2. base \in Clog /\ base.floor = clog_file.floor /\ base.st = clog_file.st
  BY DEF FileTypes, ClogFile, Clog
<1>3. clog_file.lsn \in Nat /\ clog_file.vacuum_floor \in Nat /\ clog_file.floor \in Nat
  BY DEF FileTypes, ClogFile
<1>4. \A x \in Xid : status(clog_file, x) = status(base, x)
  BY <1>2 DEF status
<1> HIDE DEF base
<1>5. PICK c : c = folded
  OBVIOUS
<1> HIDE DEF folded
<1>6. c \in Clog /\ c.floor = base.floor /\ \A x \in Xid : FoldedFrom(c, base, clog_file.lsn, x)
  <2>1. c = fold_status(base, clog_file.lsn)
    BY <1>5 DEF folded
  <2> QED  BY <1>2, <1>3, <2>1, FoldFacts
<1>7. PICK f : f = floored
  OBVIOUS
<1>8. f = IF clog_file.loaded THEN c ELSE [c EXCEPT !.floor = Max({@, recovered_floor(c)})]
  BY <1>5, <1>7
<1> HIDE DEF folded, floored
<1>9. f \in Clog /\ f.st = c.st /\ c.floor <= f.floor
  <2>1. Max({c.floor, recovered_floor(c)}) \in Nat /\ c.floor <= Max({c.floor, recovered_floor(c)})
    BY <1>6, PairFacts, RecoveredFloorFacts DEF Clog
  <2> QED  BY <1>6, <1>8, <2>1 DEF Clog
<1>10. clog' = resolve(f)
  BY <1>1, <1>7
<1>11. /\ clog' \in Clog /\ clog'.floor = f.floor
       /\ \A x \in Xid : clog'.st[x] = IF f.st[x] = "InProgress" THEN "Aborted" ELSE f.st[x]
  BY <1>9, <1>10, ResolveFacts
<1>12. LogTypes' /\ Ends'
  BY <1>1, <1>11 DEF LogTypes, Ends
<1>13. FileTypes'
  BY <1>1, <1>3, RedoPageFacts DEF FileTypes, files
<1>14. ActorTypes'
  BY <1>1, NextXidFacts, RedoSequenceFacts DEF ActorTypes
<1>15. clog_file.floor <= clog'.floor
  BY <1>2, <1>3, <1>6, <1>9, <1>11
<1>16. ASSUME NEW x \in Xid
       PROVE  LET S == {i \in DOMAIN wal : i > clog_file.lsn /\ Settles(wal[i], x)}
              IN  /\ S # {} /\ wal[Max(S)].kind = "commit" => clog'.st[x] = "Committed"
                  /\ S = {} /\ status(clog_file, x) = "Committed" => clog'.st[x] = clog_file.st[x]
  <2>1. PICK S : S = {i \in DOMAIN wal : i > clog_file.lsn /\ Settles(wal[i], x)}
    OBVIOUS
  <2>2. IF S # {} THEN c.st[x] = IF wal[Max(S)].kind = "commit" THEN "Committed" ELSE "Aborted"
                  ELSE c.st[x] \in {base.st[x], "InProgress"} /\
                       (status(base, x) = "Committed" => c.st[x] = base.st[x])
    BY <1>6, <2>1 DEF FoldedFrom
  <2>3. S # {} /\ wal[Max(S)].kind = "commit" => clog'.st[x] = "Committed"
    BY <1>9, <1>11, <2>2
  <2>4. S = {} /\ status(clog_file, x) = "Committed" => clog'.st[x] = clog_file.st[x]
    <3> SUFFICES ASSUME S = {}, status(clog_file, x) = "Committed"
                 PROVE  clog'.st[x] = clog_file.st[x]
      OBVIOUS
    <3>1. c.st[x] = base.st[x]
      BY <1>4, <2>2
    <3>2. base.st[x] # "InProgress"
      BY <1>4, DurabilityAssumption DEF status, Xid, FIRST_NORMAL_XID
    <3> QED  BY <1>2, <1>9, <1>11, <3>1, <3>2
  <2> QED  BY <2>1, <2>3, <2>4
<1>17. UNCHANGED <<wal, meta, pending, poisoned, clog_file, control, disk, active, txn, vac,
                   ckpt, client>>
  BY <1>1 DEF files
<1> QED  BY <1>1, <1>12, <1>13, <1>14, <1>15, <1>16, <1>17

-----------------------------------------------------------------------------
(* The files are never refused.                                            *)

\* The replay floor, the redo position and the end of the control record lie in
\* this order inside the durable log, and the snapshot of the commit log covers
\* what is below the replay floor; a dirty page starts at or after the redo position
\* and inside the log.
FilesInOrder ==
  /\ meta.replay_floor <= control.redo /\ control.redo <= control.end
  /\ control.end <= meta.durable_end
  /\ clog_file.loaded => /\ meta.replay_floor <= clog_file.lsn
                         /\ clog_file.lsn <= meta.durable_end
                         /\ meta.replay_floor <= clog_file.authorized
  /\ ~ clog_file.loaded => meta.replay_floor = 0
  /\ page.rec = NoLsn \/ control.redo <= page.rec
  /\ poisoned \/ page.rec <= Len(wal)

\* The checkpoint has read the end of the log and the redo position.
Taken == {"marker", "flush", "snapshot", "write", "control", "recycle"}

\* What the checkpoint has read is newer than the control record and not newer than
\* the dirty page; from the flush on it is durable, and each file it has replaced
\* agrees with it.
CkptInOrder ==
  /\ ckpt.pc # "idle" => mode \in {"up", "recovered"}
  /\ ckpt.pc \in Taken =>
       /\ control.redo <= ckpt.redo /\ ckpt.redo <= ckpt.end
       /\ page.rec = NoLsn \/ ckpt.redo <= page.rec
       /\ poisoned \/ ckpt.end <= Len(wal)
  /\ ckpt.pc \in {"snapshot", "write", "control", "recycle"} => ckpt.end <= meta.durable_end
  /\ ckpt.pc = "write" => /\ ckpt.snapshot.loaded = TRUE /\ ckpt.snapshot.authorized = ckpt.redo
                          /\ ckpt.redo <= ckpt.snapshot.lsn
                          /\ ckpt.snapshot.lsn <= meta.durable_end
  /\ ckpt.pc \in {"control", "recycle"} => /\ clog_file.loaded /\ ckpt.redo <= clog_file.lsn
                                           /\ ckpt.redo <= clog_file.authorized
  /\ ckpt.pc = "recycle" => control.redo = ckpt.redo

OrderInv == Types /\ Ends /\ FilesInOrder /\ CkptInOrder /\ StartsUp

\* The values the order compares.
Nats ==
  /\ meta.replay_floor \in Nat /\ meta.durable_end \in Nat /\ meta.visible \in Nat
  /\ Len(wal) \in Nat /\ poisoned \in BOOLEAN
  /\ control.redo \in Nat /\ control.end \in Nat /\ control.sequence \in Nat
  /\ clog_file.lsn \in Nat /\ clog_file.authorized \in Nat /\ clog_file.loaded \in BOOLEAN
  /\ page.rec \in Nat \cup {NoLsn}
  /\ ckpt.redo \in Nat /\ ckpt.end \in Nat /\ ckpt.sequence \in Nat /\ sequence \in Nat
  /\ ckpt.pc = "write" => ckpt.snapshot.lsn \in Nat /\ ckpt.snapshot.authorized \in Nat

\* They are naturals.
LEMMA OrderNats ==
  ASSUME Types
  PROVE  Nats
<1>1. /\ meta.replay_floor \in Nat /\ meta.durable_end \in Nat /\ meta.visible \in Nat
      /\ Len(wal) \in Nat /\ poisoned \in BOOLEAN
  BY DEF Types, LogTypes
<1>2. /\ control.redo \in Nat /\ control.end \in Nat /\ control.sequence \in Nat
      /\ clog_file.lsn \in Nat /\ clog_file.authorized \in Nat /\ clog_file.loaded \in BOOLEAN
      /\ page.rec \in Nat \cup {NoLsn}
  BY DEF Types, FileTypes, ClogFile
<1>3. /\ ckpt.redo \in Nat /\ ckpt.end \in Nat /\ ckpt.sequence \in Nat /\ sequence \in Nat
      /\ ckpt.pc = "write" => ckpt.snapshot.lsn \in Nat /\ ckpt.snapshot.authorized \in Nat
  BY DEF Types, ActorTypes, CkptRec, ClogFile
<1> QED  BY <1>1, <1>2, <1>3 DEF Nats

\* They are naturals after a step.
LEMMA OrderNatsNext ==
  ASSUME Types'
  PROVE  Nats'
BY OrderNats, PTL

\* A step that leaves the files and the checkpoint alone and loses nothing durable.
OrderFrame ==
  /\ meta'.replay_floor = meta.replay_floor /\ meta.durable_end <= meta'.durable_end
  /\ poisoned => poisoned'
  /\ ~ poisoned' => Len(wal) <= Len(wal')
  /\ RecPlain /\ UNCHANGED <<clog_file, control, ckpt, mode>>

\* It keeps the order.
LEMMA PlainOrder ==
  ASSUME OrderInv, Types', Ends', OrderFrame
  PROVE  OrderInv'
<1> USE DEF OrderInv
<1>1. /\ meta'.replay_floor = meta.replay_floor /\ meta.durable_end <= meta'.durable_end
      /\ poisoned => poisoned'
      /\ ~ poisoned' => Len(wal) <= Len(wal')
      /\ UNCHANGED <<clog_file, control, ckpt, mode>>
  BY DEF OrderFrame
<1>2. page.rec = NoLsn \/ control.redo <= page.rec
  BY DEF FilesInOrder
<1>3. page'.rec = NoLsn \/ control.redo <= page'.rec
  BY <1>2, OrderNats DEF Nats, FilesInOrder, OrderFrame, RecPlain, Ends
<1>4. FilesInOrder'
  <2>1. poisoned' \/ page'.rec <= Len(wal')
    <3> SUFFICES ASSUME ~ poisoned' PROVE page'.rec <= Len(wal')
      OBVIOUS
    <3>1. /\ Len(wal) \in Nat /\ Len(wal') \in Nat /\ page.rec \in Nat \cup {NoLsn}
          /\ Len(wal) <= Len(wal') /\ page.rec <= Len(wal)
      BY <1>1, OrderNats, OrderNatsNext DEF Nats, FilesInOrder
    <3>2. page'.rec \in {page.rec, NoLsn, Len(wal)}
      BY DEF OrderFrame, RecPlain
    <3> QED  BY <3>1, <3>2 DEF NoLsn
  <2>2. \A n \in Nat : n <= meta.durable_end => n <= meta'.durable_end
    BY <1>1, OrderNats, OrderNatsNext DEF Nats
  <2>3. control.end \in Nat /\ clog_file.lsn \in Nat
    BY OrderNats DEF Nats
  <2> QED  BY <1>1, <1>3, <2>1, <2>2, <2>3 DEF FilesInOrder
<1>5. ckpt.pc \in Taken => page'.rec = NoLsn \/ ckpt.redo <= page'.rec
  BY OrderNats DEF Nats, CkptInOrder, OrderFrame, RecPlain
<1>6. CkptInOrder'
  <2>1. ckpt.pc \in Taken => poisoned' \/ ckpt.end <= Len(wal')
    BY <1>1, OrderNats, OrderNatsNext DEF Nats, CkptInOrder
  <2>2. \A n \in Nat : n <= meta.durable_end => n <= meta'.durable_end
    BY <1>1, OrderNats, OrderNatsNext DEF Nats
  <2> QED  BY <1>1, <1>5, <2>1, <2>2, OrderNats DEF Nats, CkptInOrder
<1>7. StartsUp'
  BY <1>1 DEF StartsUp
<1> QED  BY <1>4, <1>6, <1>7

\* A step of the checkpoint keeps the order.
LEMMA CkptOrder ==
  ASSUME OrderInv, CkptStep
  PROVE  OrderInv'
<1> USE DEF OrderInv
<1>1. Types' /\ Ends' /\ Nats /\ Nats'
  BY CkptTypes, CkptLog, OrderNats, OrderNatsNext
<1>2. /\ meta.durable_end <= meta'.durable_end /\ (poisoned => poisoned')
      /\ ~ poisoned' => Len(wal) <= Len(wal')
      /\ \/ meta'.replay_floor = meta.replay_floor
         \/ ckpt.pc = "recycle" /\ meta'.replay_floor = ckpt.redo
      /\ meta' # meta => CkptFlush \/ CkptFails \/ CkptRecycle
  BY CkptLog DEF LogMoves
<1>3. page' = page
  BY CkptFrame
<1>4. StartsUp'
  BY DEF StartsUp, CkptStep, CkptBoundary, CkptEnd, CkptMarker, CkptFlush, CkptSnapshot,
         CkptWriteClog, CkptControl, CkptRecycle, CkptFails
<1>5. \A n \in Nat : n <= meta.durable_end => n <= meta'.durable_end
  BY <1>1, <1>2 DEF Nats
<1>6. meta'.replay_floor <= control.redo
  <2>1. CASE meta'.replay_floor = meta.replay_floor
    BY <2>1 DEF FilesInOrder
  <2>2. CASE ckpt.pc = "recycle" /\ meta'.replay_floor = ckpt.redo
    BY <1>1, <2>2 DEF CkptInOrder, Nats
  <2> QED  BY <1>2, <2>1, <2>2
<1>7. UNCHANGED clog_file \/ CkptWriteClog
  BY DEF CkptStep, CkptBoundary, CkptEnd, CkptMarker, CkptFlush, CkptSnapshot,
         CkptControl, CkptRecycle, CkptFails, files
<1>8. UNCHANGED control \/ CkptControl
  BY DEF CkptStep, CkptBoundary, CkptEnd, CkptMarker, CkptFlush, CkptSnapshot, CkptWriteClog,
         CkptRecycle, CkptFails, files
<1>9. ASSUME UNCHANGED <<clog_file, control>> PROVE FilesInOrder'
  <2>1. clog_file.loaded => /\ meta'.replay_floor <= clog_file.lsn
                            /\ meta'.replay_floor <= clog_file.authorized
    BY <1>1, <1>2 DEF Nats, FilesInOrder, CkptInOrder
  <2>2. ~ clog_file.loaded => meta'.replay_floor = 0
    BY <1>1, <1>2 DEF Nats, FilesInOrder, CkptInOrder
  <2>3. poisoned' \/ page'.rec <= Len(wal')
    <3>1. /\ Len(wal) \in Nat /\ Len(wal') \in Nat /\ page.rec \in Nat \cup {NoLsn}
          /\ poisoned \/ page.rec <= Len(wal)
      BY <1>1 DEF Nats, FilesInOrder
    <3> QED  BY <1>2, <1>3, <3>1 DEF NoLsn
  <2> QED  BY <1>1, <1>3, <1>5, <1>6, <1>9, <2>1, <2>2, <2>3 DEF Nats, FilesInOrder
<1>10. CASE CkptBoundary
  <2>1. /\ ckpt' = [NoCheckpoint EXCEPT !.pc = "bounded", !.active = active,
                                        !.boundary = next_xid]
        /\ UNCHANGED <<clog_file, control, mode>> /\ mode \in {"up", "recovered"}
    BY <1>10 DEF CkptBoundary, CkptMove, files
  <2>2. ckpt'.pc = "bounded"
    BY <2>1 DEF NoCheckpoint
  <2>3. CkptInOrder'
    BY <2>1, <2>2 DEF CkptInOrder, Taken
  <2> QED  BY <1>1, <1>4, <1>9, <2>1, <2>3
<1>11. CASE CkptEnd
  <2>1. PICK redo : redo = IF page.rec = NoLsn THEN Len(wal) ELSE page.rec
    OBVIOUS
  <2>2. /\ ckpt' = [ckpt EXCEPT !.pc = "marker", !.end = Len(wal), !.redo = redo,
                                !.sequence = sequence]
        /\ UNCHANGED <<clog_file, control, mode, wal, poisoned>>
        /\ ckpt.pc = "bounded" /\ ~ poisoned
    BY <1>11, <2>1 DEF CkptEnd, CkptMove, files, log
  <2>3. ckpt'.pc = "marker" /\ ckpt'.end = Len(wal) /\ ckpt'.redo = redo
    BY <2>2 DEF Types, ActorTypes, CkptRec
  <2>4. control.redo <= redo
    <3>1. control.redo <= Len(wal)
      <4>1. /\ control.redo \in Nat /\ control.end \in Nat /\ meta.durable_end \in Nat
            /\ meta.visible \in Nat /\ Len(wal) \in Nat
        BY <1>1 DEF Nats
      <4>2. control.redo <= control.end /\ control.end <= meta.durable_end
        BY DEF FilesInOrder
      <4>3. meta.durable_end <= meta.visible /\ meta.visible <= Len(wal)
        BY DEF Ends
      <4> QED  BY <4>1, <4>2, <4>3
    <3> QED  BY <2>1, <3>1 DEF FilesInOrder
  <2>5. redo <= Len(wal)
    BY <1>1, <2>1, <2>2 DEF Nats, FilesInOrder
  <2>6. CkptInOrder'
    BY <1>1, <1>3, <2>1, <2>2, <2>3, <2>4, <2>5 DEF Nats, CkptInOrder, Taken
  <2> QED  BY <1>1, <1>4, <1>9, <2>2, <2>6
<1>12. CASE CkptMarker \/ CkptFlush
  <2>1. /\ UNCHANGED <<clog_file, control, mode>> /\ ~ poisoned /\ ~ poisoned'
        /\ \/ /\ ckpt.pc = "marker" /\ ckpt' = [ckpt EXCEPT !.pc = "flush"]
           \/ /\ ckpt.pc = "flush" /\ ckpt' = [ckpt EXCEPT !.pc = "snapshot"]
              /\ meta'.durable_end = Len(wal)
    BY <1>12, FlushFacts DEF CkptMarker, CkptFlush, CkptMove, files, AppendRecord, AppendAll, Types
  <2>2. /\ ckpt'.end = ckpt.end /\ ckpt'.redo = ckpt.redo
        /\ \/ ckpt.pc = "marker" /\ ckpt'.pc = "flush"
           \/ ckpt.pc = "flush" /\ ckpt'.pc = "snapshot" /\ meta'.durable_end = Len(wal)
    BY <2>1 DEF Types, ActorTypes, CkptRec
  <2>3. ckpt.end <= Len(wal')
    BY <1>1, <1>2, <2>1, <2>2 DEF Nats, CkptInOrder, Taken
  <2>4. CkptInOrder'
    BY <1>1, <1>3, <2>1, <2>2, <2>3 DEF Nats, CkptInOrder, Taken
  <2> QED  BY <1>1, <1>4, <1>9, <2>1, <2>4
<1>13. CASE CkptSnapshot
  <2>1. PICK f : f = live_snapshot(clog, meta.durable_end, ckpt.redo, vacuum_floor,
                                   ckpt.active, ckpt.boundary)
    OBVIOUS
  <2>2. f.loaded = TRUE /\ f.lsn = meta.durable_end /\ f.authorized = ckpt.redo
    BY <2>1 DEF live_snapshot
  <2>3. /\ ckpt' = [ckpt EXCEPT !.pc = "write", !.snapshot = f] /\ meta' = meta
        /\ UNCHANGED <<clog_file, control, mode, wal, poisoned>> /\ ckpt.pc = "snapshot"
    BY <1>13, <2>1 DEF CkptSnapshot, CkptMove, files, log
  <2>4. ckpt'.pc = "write" /\ ckpt'.end = ckpt.end /\ ckpt'.redo = ckpt.redo /\ ckpt'.snapshot = f
    BY <2>3 DEF Types, ActorTypes, CkptRec
  <2>5. CkptInOrder'
    BY <1>1, <1>3, <2>2, <2>3, <2>4 DEF Nats, CkptInOrder, Taken
  <2> QED  BY <1>1, <1>4, <1>9, <2>3, <2>5
<1>14. CASE CkptWriteClog
  <2>1. /\ ckpt' = [ckpt EXCEPT !.pc = "control", !.snapshot = <<>>] /\ ckpt.pc = "write"
        /\ clog_file' = ckpt.snapshot /\ UNCHANGED <<wal, meta, poisoned, control, mode>>
    BY <1>14 DEF CkptWriteClog, CkptMove
  <2>2. ckpt'.pc = "control" /\ ckpt'.end = ckpt.end /\ ckpt'.redo = ckpt.redo
    BY <2>1 DEF Types, ActorTypes, CkptRec
  <2>3. /\ ckpt.snapshot.loaded = TRUE /\ ckpt.snapshot.authorized = ckpt.redo
        /\ ckpt.redo <= ckpt.snapshot.lsn /\ ckpt.snapshot.lsn <= meta.durable_end
        /\ control.redo <= ckpt.redo /\ ckpt.snapshot.lsn \in Nat
    BY <1>1, <2>1 DEF CkptInOrder, Nats, Taken
  <2>4. FilesInOrder'
    BY <1>1, <1>3, <2>1, <2>3 DEF Nats, FilesInOrder
  <2>5. CkptInOrder'
    BY <1>1, <1>3, <2>1, <2>2, <2>3 DEF Nats, CkptInOrder, Taken
  <2> QED  BY <1>1, <1>4, <2>4, <2>5
<1>15. CASE CkptControl
  <2>1. /\ ckpt' = [ckpt EXCEPT !.pc = "recycle"] /\ ckpt.pc = "control"
        /\ control' = [end |-> ckpt.end, redo |-> ckpt.redo, sequence |-> ckpt.sequence]
        /\ UNCHANGED <<wal, meta, poisoned, clog_file, mode>>
    BY <1>15 DEF CkptControl, CkptMove, log
  <2>2. ckpt'.pc = "recycle" /\ ckpt'.end = ckpt.end /\ ckpt'.redo = ckpt.redo
    BY <2>1 DEF Types, ActorTypes, CkptRec
  <2>3. control'.end = ckpt.end /\ control'.redo = ckpt.redo
    BY <2>1
  <2>4. /\ clog_file.loaded /\ ckpt.redo <= ckpt.end /\ ckpt.end <= meta.durable_end
        /\ control.redo <= ckpt.redo /\ (page.rec = NoLsn \/ ckpt.redo <= page.rec)
    BY <2>1 DEF CkptInOrder, Taken
  <2>5. FilesInOrder'
    BY <1>1, <1>3, <2>1, <2>3, <2>4 DEF Nats, FilesInOrder
  <2>6. CkptInOrder'
    BY <1>1, <1>3, <2>1, <2>2, <2>3, <2>4 DEF Nats, CkptInOrder, Taken
  <2> QED  BY <1>1, <1>4, <2>5, <2>6
<1>16. CASE CkptRecycle \/ CkptFails
  <2>1. ckpt' = NoCheckpoint /\ UNCHANGED <<clog_file, control>>
    BY <1>16 DEF CkptRecycle, CkptFails, CkptMove, files
  <2>2. ckpt'.pc = "idle"
    BY <2>1 DEF NoCheckpoint
  <2>3. CkptInOrder'
    BY <2>2 DEF CkptInOrder, Taken
  <2> QED  BY <1>1, <1>4, <1>9, <2>1, <2>3
<1> QED  BY <1>10, <1>11, <1>12, <1>13, <1>14, <1>15, <1>16 DEF CkptStep

\* A restart is not refused, and keeps the order.
LEMMA RestartOrder ==
  ASSUME OrderInv, Restart
  PROVE  OrderInv' /\ ~ Refuses
<1> USE DEF OrderInv
<1>1. Nats
  BY OrderNats
<1>2. ~ Refuses
  BY <1>1 DEF Refuses, FilesInOrder, Nats
<1>3. /\ Types' /\ Ends' /\ mode' \in {"up", "recovered"} /\ mode = "down" /\ page' = redo_page
      /\ UNCHANGED <<wal, meta, poisoned, clog_file, control, ckpt>>
  BY <1>2, RestartFacts
<1>4. FilesInOrder'
  BY <1>3, RedoPageFacts DEF FilesInOrder
<1>5. ckpt.pc = "idle"
  BY <1>3 DEF CkptInOrder
<1>6. CkptInOrder'
  BY <1>3, <1>5 DEF CkptInOrder, Taken
<1> QED  BY <1>2, <1>3, <1>4, <1>6 DEF StartsUp

\* A crash keeps the order.
LEMMA DownOrder ==
  ASSUME OrderInv, Crash \/ ExitUnknown
  PROVE  OrderInv'
<1> USE DEF OrderInv
<1>1. Nats /\ Types'
  BY OrderNats, DownFacts
<1>2. PICK end \in Nat :
        /\ meta.durable_end <= end /\ end <= Len(wal)
        /\ meta'.durable_end = end /\ meta'.replay_floor = meta.replay_floor
        /\ Len(wal') = end
  BY DownFacts
<1>3. /\ Ends' /\ mode' = "down" /\ ckpt' = NoCheckpoint /\ page'.rec = NoLsn
      /\ UNCHANGED <<clog_file, control>>
  BY DownFacts
<1>4. FilesInOrder'
  BY <1>1, <1>2, <1>3 DEF FilesInOrder, Nats, NoLsn
<1>5. ckpt'.pc = "idle"
  BY <1>3 DEF NoCheckpoint
<1>6. CkptInOrder'
  BY <1>5 DEF CkptInOrder, Taken
<1> QED  BY <1>1, <1>3, <1>4, <1>6 DEF StartsUp

\* Every step is a plain one, one of nextval, one of the checkpoint, a crash or a
\* restart.
LEMMA NextCases ==
  ASSUME Types, Ends, [Next]_vars
  PROVE  \/ Types' /\ Ends' /\ Plain
         \/ \E s \in Session : NextvalAppend(s) \/ NextvalReturn(s)
         \/ CkptStep \/ Crash \/ ExitUnknown \/ Restart
<1>1. ASSUME NEW s \in Session,
             \/ Begin(s) \/ Savepoint(s) \/ Insert(s) \/ RollbackTo(s) \/ Abort(s)
             \/ EndReadOnly(s) \/ CommitAppend(s) \/ CommitFlush(s) \/ CommitFlushFails(s)
             \/ CommitSettle(s) \/ NextvalFails(s)
      PROVE  Types' /\ Ends' /\ Plain
  BY <1>1, BeginPlain, SavepointPlain, InsertPlain, RollbackToPlain, AbortPlain, EndReadOnlyPlain,
     CommitAppendPlain, CommitFlushPlain, CommitFlushFailsPlain, CommitSettlePlain,
     NextvalFailsPlain
<1>2. ASSUME \/ VacuumBegin \/ VacuumCommit \/ VacuumFlush \/ VacuumFlushFails \/ VacuumAbort
             \/ VacuumPrune \/ VacuumFloor \/ WritePage \/ WritePageFails
      PROVE  Types' /\ Ends' /\ Plain
  BY <1>2, VacuumBeginPlain, VacuumCommitPlain, VacuumFlushPlain, VacuumFlushFailsPlain,
     VacuumAbortPlain, VacuumPrunePlain, VacuumFloorPlain, WritePagePlain
<1>3. ASSUME UNCHANGED vars PROVE Types' /\ Ends' /\ Plain
  <2>1. LogTypes' /\ Ends' /\ LogPlain
    BY <1>3, KeptPlain DEF vars, log, Types
  <2>2. FileTypes' /\ ActorTypes' /\ RecPlain /\ NextvalPlain
    BY <1>3 DEF vars, Types, FileTypes, ActorTypes, RecPlain, NextvalPlain
  <2> QED  BY <1>3, <2>1, <2>2 DEF vars, Types, Plain
<1> QED  BY <1>1, <1>2, <1>3 DEF Next, CkptStep

\* The order holds at first.
LEMMA OrderInit ==
  ASSUME Init
  PROVE  OrderInv
<1>1. /\ wal = <<>> /\ meta = [replay_floor |-> 0, durable_end |-> 0, visible |-> 0]
      /\ pending = {} /\ poisoned = FALSE
      /\ clog = [floor |-> FIRST_NORMAL_XID, st |-> [x \in Xid |-> "None"]]
      /\ vacuum_floor = FIRST_NORMAL_XID /\ clog_file = NoClogFile
      /\ control = [end |-> 0, redo |-> 0, sequence |-> 0]
      /\ page = [ids |-> {}, lsn |-> 0, rec |-> NoLsn] /\ disk = [ids |-> {}, lsn |-> 0]
  BY DEF Init
<1>2. /\ next_xid = FIRST_NORMAL_XID /\ active = {} /\ txn = [s \in Session |-> Idle]
      /\ vac = NoVacuum /\ ckpt = NoCheckpoint /\ sequence = 0 /\ mode = "up"
      /\ client = [told |-> [x \in Xid |-> "none"], wrote |-> {}, asked |-> {}, served |-> {}]
  BY DEF Init
<1>3. LogTypes
  <2>1. wal \in Seq(Rec) /\ meta \in [replay_floor : Nat, durable_end : Nat, visible : Nat]
    BY <1>1
  <2>2. clog \in Clog
    BY <1>1 DEF Clog, Status, FIRST_NORMAL_XID
  <2> QED  BY <1>1, <2>1, <2>2 DEF LogTypes
<1>4. clog_file \in ClogFile /\ clog_file.loaded = FALSE
  BY <1>1 DEF NoClogFile, ClogFile, Status, FIRST_NORMAL_XID
<1>5. FileTypes
  BY <1>1, <1>4 DEF FileTypes, FIRST_NORMAL_XID
<1>6. ckpt \in CkptRec /\ ckpt.pc = "idle" /\ vac \in VacRec /\ vac.pc = "idle"
  BY <1>2 DEF NoCheckpoint, CkptRec, NoVacuum, VacRec
<1>7. txn \in [Session -> TxnRec] /\ \A s \in Session : txn[s].pc = "idle"
  BY <1>2 DEF Idle, TxnRec, NoXid
<1>8. client \in ClientRec
  BY <1>2 DEF ClientRec
<1>9. ActorTypes
  BY <1>2, <1>6, <1>7, <1>8, DurabilityAssumption DEF ActorTypes, FIRST_NORMAL_XID
<1>10. Ends
  BY <1>1 DEF Ends
<1>11. FilesInOrder
  BY <1>1, <1>4 DEF FilesInOrder, NoLsn
<1>12. CkptInOrder /\ StartsUp
  BY <1>2, <1>6 DEF CkptInOrder, Taken, StartsUp
<1> QED  BY <1>3, <1>5, <1>9, <1>10, <1>11, <1>12 DEF OrderInv, Types

\* Every step keeps the order.
LEMMA OrderStep ==
  ASSUME OrderInv, [Next]_vars
  PROVE  OrderInv'
<1> USE DEF OrderInv
<1>1. CASE Types' /\ Ends' /\ Plain
  <2>1. OrderFrame
    BY <1>1 DEF Plain, LogPlain, LogMoves, OrderFrame
  <2> QED  BY <1>1, <2>1, PlainOrder
<1>2. ASSUME NEW s \in Session, NextvalAppend(s) PROVE OrderInv'
  <2>1. /\ Types' /\ Ends' /\ meta' = meta /\ ~ poisoned /\ Len(wal') = Len(wal) + 1
        /\ UNCHANGED <<clog_file, control, page, ckpt, mode>>
    BY <1>2, NextvalAppendFacts
  <2>2. OrderFrame
    BY <2>1, OrderNats DEF Nats, OrderFrame, RecPlain
  <2> QED  BY <2>1, <2>2, PlainOrder
<1>3. ASSUME NEW s \in Session, NextvalReturn(s) PROVE OrderInv'
  <2>1. /\ Types' /\ Ends' /\ LogPlain /\ UNCHANGED <<clog_file, control, page, ckpt, mode>>
    BY <1>3, NextvalReturnFacts
  <2>2. OrderFrame
    BY <2>1 DEF LogPlain, LogMoves, OrderFrame, RecPlain
  <2> QED  BY <2>1, <2>2, PlainOrder
<1> QED  BY <1>1, <1>2, <1>3, NextCases, CkptOrder, DownOrder, RestartOrder

(***************************************************************************)
(* The files a crash leaves behind, between any two steps of a checkpoint  *)
(* and after any failed write of the log, are never refused by the next    *)
(* start (FileWalManager::open and validate_checkpoint_wal_range return no *)
(* error): the replay floor, the redo position, the end of the control     *)
(* record and the snapshot of the commit log stay in order.                *)
(***************************************************************************)
THEOREM NeverRefused == Spec => []StartsUp
<1>1. Init => OrderInv
  BY OrderInit
<1>2. OrderInv /\ [Next]_vars => OrderInv'
  BY OrderStep
<1>3. OrderInv => StartsUp
  BY DEF OrderInv
<1> QED  BY <1>1, <1>2, <1>3, PTL DEF Spec

-----------------------------------------------------------------------------
(* The sequence.                                                           *)

Advances == {i \in DOMAIN wal : wal[i].kind = "advance"}

\* A position and the value of the sequence read there: what clients have is not
\* above it, or is covered by a durable record after the position.
Served(end, seq) ==
  /\ \A v \in client.served :
       v <= seq \/ \E i \in Advances : end < i /\ i <= meta.durable_end /\ v <= wal[i].value
  /\ \A i \in Advances : IF i <= end THEN wal[i].value <= seq ELSE seq <= wal[i].value

\* The record of a running nextval is after every position read so far.
InFlight(s) ==
  /\ mode = "up" /\ ckpt.pc # "bounded"
  /\ \A r \in Session : txn[r].pc = "nextval" => r = s
  /\ ~ poisoned => \E i \in Advances : /\ wal[i].value = sequence + 1 /\ control.end < i
                                       /\ ckpt.pc \in Taken => ckpt.end < i

\* While the server runs its sequence is not behind anything.
Ahead ==
  /\ \A v \in client.served : v <= sequence
  /\ control.sequence <= sequence
  /\ ckpt.pc \in Taken => ckpt.sequence <= sequence
  /\ poisoned \/ \A i \in Advances :
                   \/ wal[i].value <= sequence
                   \/ wal[i].value = sequence + 1 /\ \E s \in Session : txn[s].pc = "nextval"

SeqInv ==
  /\ \A i, j \in Advances : i <= j => wal[i].value <= wal[j].value
  /\ Served(control.end, control.sequence)
  /\ ckpt.pc \in Taken => Served(ckpt.end, ckpt.sequence)
  /\ \A s \in Session : txn[s].pc = "nextval" => InFlight(s)
  /\ mode \in {"up", "recovered"} => Ahead
  /\ \A s \in Session : txn[s].pc # "idle" => mode = "up"

\* No record of a sequence is added, and none that is durable is lost.
Narrow ==
  /\ \A i \in Advances' : i \in Advances /\ wal'[i] = wal[i]
  /\ \A i \in Advances : i <= meta.durable_end => i \in Advances' /\ wal'[i] = wal[i]
  /\ meta.durable_end <= meta'.durable_end

\* A step of the log that is plain or of the checkpoint narrows, and keeps every
\* record while the log is not poisoned.
LEMMA MovesNarrow ==
  ASSUME Types, Types', LogMoves
  PROVE  /\ Narrow
         /\ ~ poisoned' => \A i \in Advances : i \in Advances' /\ wal'[i] = wal[i]
<1>1. /\ DOMAIN wal = 1..Len(wal) /\ DOMAIN wal' = 1..Len(wal') /\ Len(wal) \in Nat
      /\ Len(wal') \in Nat /\ meta.durable_end \in Nat
  BY DEF Types, LogTypes
<1>2. /\ meta.durable_end <= meta'.durable_end /\ meta.durable_end <= Len(wal')
      /\ ~ poisoned' => Len(wal) <= Len(wal')
      /\ \A i \in 1..Len(wal') : IF i <= Len(wal) THEN wal'[i] = wal[i]
                                                  ELSE wal'[i].kind # "advance"
  BY DEF LogMoves
<1>3. \A i \in Advances' : i \in Advances /\ wal'[i] = wal[i]
  BY <1>1, <1>2 DEF Advances
<1>4. \A i \in Advances : i <= meta.durable_end => i \in Advances' /\ wal'[i] = wal[i]
  BY <1>1, <1>2 DEF Advances
<1>5. ~ poisoned' => \A i \in Advances : i \in Advances' /\ wal'[i] = wal[i]
  BY <1>1, <1>2 DEF Advances
<1> QED  BY <1>2, <1>3, <1>4, <1>5 DEF Narrow

\* The durable end and the positions and values of the records are naturals.
LEMMA AdvanceNats ==
  ASSUME Types
  PROVE  /\ \A i \in Advances : i \in Nat /\ i >= 1 /\ i <= Len(wal) /\ wal[i].value \in Nat
         /\ meta.durable_end \in Nat /\ Len(wal) \in Nat /\ sequence \in Nat
         /\ client.served \in SUBSET Nat
BY DEF Types, LogTypes, ActorTypes, ClientRec, Advances, Rec

\* What was read at a position stays true.
LEMMA ServedKept ==
  ASSUME Types, Types', NEW end \in Nat, NEW seq \in Nat, Served(end, seq), Narrow,
         client'.served = client.served
  PROVE  Served(end, seq)'
<1>1. meta.durable_end \in Nat /\ meta'.durable_end \in Nat
  BY DEF Types, LogTypes
<1>2. ASSUME NEW v \in client'.served
      PROVE  v <= seq \/ \E i \in Advances' : end < i /\ i <= meta'.durable_end /\ v <= wal'[i].value
  <2>1. CASE v <= seq
    BY <2>1
  <2>2. CASE \E i \in Advances : end < i /\ i <= meta.durable_end /\ v <= wal[i].value
    <3>1. PICK i \in Advances : end < i /\ i <= meta.durable_end /\ v <= wal[i].value
      BY <2>2
    <3>2. i \in Advances' /\ wal'[i] = wal[i] /\ i <= meta'.durable_end
      BY <1>1, <3>1, AdvanceNats DEF Narrow
    <3> QED  BY <3>1, <3>2
  <2> QED  BY <1>2, <2>1, <2>2 DEF Served
<1>3. ASSUME NEW i \in Advances'
      PROVE  IF i <= end THEN wal'[i].value <= seq ELSE seq <= wal'[i].value
  BY <1>3 DEF Narrow, Served
<1> QED  BY <1>2, <1>3 DEF Served

\* The records stay in the order of their values.
LEMMA MonotoneKept ==
  ASSUME \A i, j \in Advances : i <= j => wal[i].value <= wal[j].value, Narrow
  PROVE  \A i, j \in Advances' : i <= j => wal'[i].value <= wal'[j].value
BY DEF Narrow

\* A plain step.
LEMMA PlainSeq ==
  ASSUME OrderInv, SeqInv, OrderInv', Plain
  PROVE  SeqInv'
<1> USE DEF OrderInv
<1>1. /\ LogMoves /\ NextvalPlain /\ UNCHANGED <<control, ckpt, sequence, mode>>
      /\ client'.served = client.served
  BY DEF Plain, LogPlain
<1>2. /\ Narrow
      /\ ~ poisoned' => \A i \in Advances : i \in Advances' /\ wal'[i] = wal[i]
      /\ poisoned => poisoned'
  BY <1>1, MovesNarrow DEF LogMoves
<1>3. \A i, j \in Advances' : i <= j => wal'[i].value <= wal'[j].value
  BY <1>2, MonotoneKept DEF SeqInv
<1>4. Served(control.end, control.sequence)'
  <2>1. PICK e, q : e = control.end /\ q = control.sequence
    OBVIOUS
  <2>2. e \in Nat /\ q \in Nat /\ Served(e, q)
    BY <2>1, OrderNats DEF Nats, SeqInv
  <2>3. Served(e, q)'
    BY <1>1, <1>2, <2>2, ServedKept
  <2> QED  BY <1>1, <2>1, <2>3 DEF Served
<1>5. ckpt'.pc \in Taken => Served(ckpt.end, ckpt.sequence)'
  <2> SUFFICES ASSUME ckpt.pc \in Taken PROVE Served(ckpt.end, ckpt.sequence)'
    BY <1>1
  <2>1. PICK e, q : e = ckpt.end /\ q = ckpt.sequence
    OBVIOUS
  <2>2. e \in Nat /\ q \in Nat /\ Served(e, q)
    BY <2>1, OrderNats DEF Nats, SeqInv
  <2>3. Served(e, q)'
    BY <1>1, <1>2, <2>2, ServedKept
  <2> QED  BY <1>1, <2>1, <2>3 DEF Served
<1>6. ASSUME NEW s \in Session, txn'[s].pc = "nextval" PROVE InFlight(s)'
  <2>1. txn[s].pc = "nextval" /\ InFlight(s)
    BY <1>1, <1>6 DEF NextvalPlain, SeqInv
  <2>2. \A r \in Session : txn'[r].pc = "nextval" => r = s
    BY <1>1, <2>1 DEF NextvalPlain, InFlight
  <2>3. ~ poisoned' => \E i \in Advances' : /\ wal'[i].value = sequence + 1 /\ control.end < i
                                            /\ ckpt.pc \in Taken => ckpt.end < i
    BY <1>2, <2>1 DEF InFlight
  <2> QED  BY <1>1, <2>1, <2>2, <2>3 DEF InFlight
<1>7. ASSUME mode' \in {"up", "recovered"} PROVE Ahead'
  <2>1. Ahead
    BY <1>1, <1>7 DEF SeqInv
  <2>2. ASSUME ~ poisoned', NEW i \in Advances'
        PROVE  \/ wal'[i].value <= sequence
               \/ wal'[i].value = sequence + 1 /\ \E s \in Session : txn'[s].pc = "nextval"
    <3>1. i \in Advances /\ wal'[i] = wal[i] /\ ~ poisoned
      BY <1>2, <2>2 DEF Narrow
    <3> QED  BY <1>1, <2>1, <2>2, <3>1 DEF Ahead, NextvalPlain
  <2> QED  BY <1>1, <2>1, <2>2 DEF Ahead
<1>8. \A s \in Session : txn'[s].pc # "idle" => mode' = "up"
  BY <1>1 DEF NextvalPlain, SeqInv
<1> QED  BY <1>3, <1>4, <1>5, <1>6, <1>7, <1>8 DEF SeqInv

\* The record of a nextval is appended.
LEMMA NextvalAppendSeq ==
  ASSUME OrderInv, SeqInv, NEW s \in Session, NextvalAppend(s)
  PROVE  SeqInv'
<1> USE DEF OrderInv
<1>1. /\ Types' /\ meta' = meta /\ ~ poisoned /\ ~ poisoned'
      /\ UNCHANGED <<control, ckpt, sequence, mode, client>>
      /\ Len(wal') = Len(wal) + 1 /\ \A i \in 1..Len(wal) : wal'[i] = wal[i]
      /\ wal'[Len(wal) + 1].kind = "advance" /\ wal'[Len(wal) + 1].value = sequence + 1
      /\ txn'[s].pc = "nextval" /\ txn[s].pc = "open"
      /\ \A q \in Session : q # s => txn'[q] = txn[q]
  BY NextvalAppendFacts
<1>2. ckpt.pc # "bounded" /\ \A r \in Session : txn[r].pc # "nextval"
  BY DEF NextvalAppend, FenceOpen, FenceFree
<1>3. mode = "up" /\ Ahead
  BY <1>1 DEF SeqInv
<1>4. \A i \in Advances : wal[i].value <= sequence
  BY <1>1, <1>2, <1>3 DEF Ahead
<1>5. /\ DOMAIN wal = 1..Len(wal) /\ DOMAIN wal' = 1..(Len(wal) + 1) /\ Len(wal) \in Nat
      /\ Len(wal) + 1 \in Nat
  BY <1>1 DEF Types, LogTypes
<1>6. /\ \A i \in Advances : i \in Advances' /\ wal'[i] = wal[i] /\ i <= Len(wal)
      /\ Len(wal) + 1 \in Advances'
      /\ \A i \in Advances' : i = Len(wal) + 1 \/ i \in Advances
  BY <1>1, <1>5 DEF Advances
<1>7. \A i \in Advances' : wal'[i].value <= sequence + 1 /\ wal'[i].value \in Nat
  BY <1>1, <1>4, <1>6, AdvanceNats
<1>8. \A i, j \in Advances' : i <= j => wal'[i].value <= wal'[j].value
  <2> SUFFICES ASSUME NEW i \in Advances', NEW j \in Advances', i <= j
               PROVE  wal'[i].value <= wal'[j].value
    OBVIOUS
  <2>1. CASE j = Len(wal) + 1
    BY <1>1, <1>7, <2>1
  <2>2. CASE j \in Advances
    <3>1. i \in Advances
      BY <1>5, <1>6, <2>2, AdvanceNats
    <3> QED  BY <1>6, <2>2, <3>1 DEF SeqInv
  <2> QED  BY <1>6, <2>1, <2>2
<1>9. ASSUME NEW e \in Nat, NEW q \in Nat, Served(e, q), e <= Len(wal), q <= sequence
      PROVE  Served(e, q)'
  <2>1. ASSUME NEW v \in client.served
        PROVE  v <= q \/ \E i \in Advances' : e < i /\ i <= meta'.durable_end /\ v <= wal'[i].value
    BY <1>1, <1>6, <1>9 DEF Served
  <2>2. ASSUME NEW i \in Advances'
        PROVE  IF i <= e THEN wal'[i].value <= q ELSE q <= wal'[i].value
    <3>1. CASE i \in Advances
      BY <1>6, <1>9, <3>1 DEF Served
    <3>2. CASE i = Len(wal) + 1
      <4>1. ~ i <= e /\ q <= sequence + 1
        BY <1>5, <1>9, <3>2, AdvanceNats
      <4> QED  BY <1>1, <3>2, <4>1
    <3> QED  BY <1>6, <3>1, <3>2
  <2> QED  BY <1>1, <2>1, <2>2 DEF Served
<1>10. Served(control.end, control.sequence)'
  <2>1. PICK e, q : e = control.end /\ q = control.sequence
    OBVIOUS
  <2>2. e \in Nat /\ q \in Nat /\ Served(e, q) /\ q <= sequence
    BY <1>3, <2>1, OrderNats DEF Nats, SeqInv, Ahead
  <2>3. e <= Len(wal)
    <3>1. /\ e <= meta.durable_end /\ meta.durable_end <= meta.visible /\ meta.visible <= Len(wal)
      BY <2>1 DEF FilesInOrder, Ends
    <3> QED  BY <2>2, <3>1, OrderNats DEF Nats
  <2>4. Served(e, q)'
    BY <1>9, <2>2, <2>3
  <2> QED  BY <1>1, <2>1, <2>4 DEF Served
<1>11. ckpt'.pc \in Taken => Served(ckpt.end, ckpt.sequence)'
  <2> SUFFICES ASSUME ckpt.pc \in Taken PROVE Served(ckpt.end, ckpt.sequence)'
    BY <1>1
  <2>1. PICK e, q : e = ckpt.end /\ q = ckpt.sequence
    OBVIOUS
  <2>2. e \in Nat /\ q \in Nat /\ Served(e, q) /\ q <= sequence
    BY <1>3, <2>1, OrderNats DEF Nats, SeqInv, Ahead
  <2>3. e <= Len(wal)
    BY <1>1, <2>1 DEF CkptInOrder
  <2>4. Served(e, q)'
    BY <1>9, <2>2, <2>3
  <2> QED  BY <1>1, <2>1, <2>4 DEF Served
<1>12. InFlight(s)'
  <2>1. control.end < Len(wal) + 1 /\ (ckpt.pc \in Taken => ckpt.end < Len(wal) + 1)
    <3>1. /\ control.end <= meta.durable_end /\ meta.durable_end <= meta.visible
          /\ meta.visible <= Len(wal) /\ (ckpt.pc \in Taken => ckpt.end <= Len(wal))
      BY <1>1 DEF FilesInOrder, Ends, CkptInOrder
    <3> QED  BY <3>1, OrderNats DEF Nats
  <2> QED  BY <1>1, <1>2, <1>3, <1>6, <2>1 DEF InFlight
<1>13. ASSUME NEW r \in Session, txn'[r].pc = "nextval" PROVE InFlight(r)'
  BY <1>1, <1>2, <1>12, <1>13
<1>14. Ahead'
  <2>1. ASSUME NEW i \in Advances'
        PROVE  wal'[i].value <= sequence \/ wal'[i].value = sequence + 1
    BY <1>1, <1>4, <1>6
  <2> QED  BY <1>1, <1>3, <2>1 DEF Ahead
<1>15. \A r \in Session : txn'[r].pc # "idle" => mode' = "up"
  BY <1>1, <1>3
<1> QED  BY <1>8, <1>10, <1>11, <1>13, <1>14, <1>15 DEF SeqInv

\* The value of a nextval is returned.
LEMMA NextvalReturnSeq ==
  ASSUME OrderInv, SeqInv, NEW s \in Session, NextvalReturn(s)
  PROVE  SeqInv'
<1> USE DEF OrderInv
<1>1. /\ Types' /\ LogPlain /\ UNCHANGED <<control, ckpt, mode>>
      /\ txn[s].pc = "nextval" /\ txn'[s].pc = "open" /\ FlushOk
      /\ \A q \in Session : q # s => txn'[q] = txn[q]
      /\ sequence' = sequence + 1 /\ client'.served = client.served \cup {sequence + 1}
  BY NextvalReturnFacts
<1>2. wal' = wal /\ meta'.durable_end = Len(wal) /\ ~ poisoned /\ ~ poisoned'
  BY <1>1, FlushFacts DEF Types
<1>3. InFlight(s) /\ mode = "up" /\ Ahead
  BY <1>1 DEF SeqInv, InFlight
<1>4. PICK i \in Advances : /\ wal[i].value = sequence + 1 /\ control.end < i
                            /\ ckpt.pc \in Taken => ckpt.end < i
  BY <1>2, <1>3 DEF InFlight
<1>5. Advances' = Advances
  BY <1>2 DEF Advances
<1>6. i <= Len(wal) /\ \A j \in Advances : j <= Len(wal) /\ j \in Nat /\ wal[j].value \in Nat
  BY AdvanceNats
<1>7. ASSUME NEW e \in Nat, NEW q \in Nat, Served(e, q), e < i PROVE Served(e, q)'
  <2>1. ASSUME NEW v \in client'.served
        PROVE  v <= q \/ \E j \in Advances' : e < j /\ j <= meta'.durable_end /\ v <= wal'[j].value
    <3>1. CASE v \in client.served
      BY <1>2, <1>5, <1>6, <1>7, <3>1 DEF Served
    <3>2. CASE v = sequence + 1
      <4>1. v <= wal[i].value
        BY <1>4, <3>2, AdvanceNats
      <4> QED  BY <1>2, <1>5, <1>6, <1>7, <4>1
    <3> QED  BY <1>1, <3>1, <3>2
  <2>2. \A j \in Advances' : IF j <= e THEN wal'[j].value <= q ELSE q <= wal'[j].value
    BY <1>2, <1>5, <1>7 DEF Served
  <2> QED  BY <2>1, <2>2 DEF Served
<1>8. Served(control.end, control.sequence)'
  <2>1. PICK e, q : e = control.end /\ q = control.sequence
    OBVIOUS
  <2>2. e \in Nat /\ q \in Nat /\ Served(e, q) /\ e < i
    BY <1>4, <2>1, OrderNats DEF Nats, SeqInv
  <2>3. Served(e, q)'
    BY <1>7, <2>2
  <2> QED  BY <1>1, <2>1, <2>3 DEF Served
<1>9. ckpt'.pc \in Taken => Served(ckpt.end, ckpt.sequence)'
  <2> SUFFICES ASSUME ckpt.pc \in Taken PROVE Served(ckpt.end, ckpt.sequence)'
    BY <1>1
  <2>1. PICK e, q : e = ckpt.end /\ q = ckpt.sequence
    OBVIOUS
  <2>2. e \in Nat /\ q \in Nat /\ Served(e, q) /\ e < i
    BY <1>4, <2>1, OrderNats DEF Nats, SeqInv
  <2>3. Served(e, q)'
    BY <1>7, <2>2
  <2> QED  BY <1>1, <2>1, <2>3 DEF Served
<1>10. \A r \in Session : txn'[r].pc # "nextval"
  BY <1>1, <1>3 DEF InFlight
<1>11. Ahead'
  <2>1. \A j \in Advances' : wal'[j].value <= sequence + 1
    BY <1>2, <1>3, <1>5, <1>6, AdvanceNats DEF Ahead
  <2>2. \A v \in client'.served : v <= sequence + 1
    BY <1>1, <1>3, AdvanceNats DEF Ahead
  <2>3. control.sequence <= sequence + 1 /\ (ckpt.pc \in Taken => ckpt.sequence <= sequence + 1)
    BY <1>3, OrderNats DEF Ahead, Nats
  <2> QED  BY <1>1, <2>1, <2>2, <2>3 DEF Ahead
<1>12. \A j, k \in Advances' : j <= k => wal'[j].value <= wal'[k].value
  BY <1>2, <1>5 DEF SeqInv
<1> QED  BY <1>1, <1>3, <1>8, <1>9, <1>10, <1>11, <1>12 DEF SeqInv

\* What a step of the checkpoint does to what it has read.
LEMMA CkptReads ==
  ASSUME Types, CkptStep
  PROVE  \/ ckpt'.pc = "idle"
         \/ CkptBoundary /\ ckpt'.pc = "bounded"
         \/ CkptEnd /\ ckpt'.pc = "marker" /\ ckpt'.end = Len(wal) /\ ckpt'.sequence = sequence
         \/ /\ ckpt.pc \in Taken /\ ckpt'.pc \in Taken
            /\ ckpt'.end = ckpt.end /\ ckpt'.sequence = ckpt.sequence /\ ckpt'.redo = ckpt.redo
<1>1. ckpt \in CkptRec
  BY DEF Types, ActorTypes
<1>2. CASE CkptRecycle \/ CkptFails
  BY <1>2 DEF CkptRecycle, CkptFails, CkptMove, NoCheckpoint
<1>3. CASE CkptBoundary
  BY <1>3 DEF CkptBoundary, CkptMove, NoCheckpoint
<1>4. CASE CkptEnd
  <2>1. PICK redo : redo = IF page.rec = NoLsn THEN Len(wal) ELSE page.rec
    OBVIOUS
  <2>2. ckpt' = [ckpt EXCEPT !.pc = "marker", !.end = Len(wal), !.redo = redo,
                             !.sequence = sequence]
    BY <1>4, <2>1 DEF CkptEnd, CkptMove
  <2> QED  BY <1>1, <1>4, <2>2 DEF CkptRec
<1>5. CASE CkptMarker \/ CkptFlush \/ CkptControl
  <2>1. /\ \E f \in {"flush", "snapshot", "recycle"} : ckpt' = [ckpt EXCEPT !.pc = f]
        /\ ckpt.pc \in {"marker", "flush", "control"}
    BY <1>5 DEF CkptMarker, CkptFlush, CkptControl, CkptMove
  <2> QED  BY <1>1, <2>1 DEF CkptRec, Taken
<1>6. CASE CkptSnapshot \/ CkptWriteClog
  <2>1. /\ \E f \in {"write", "control"} : \E g : ckpt' = [ckpt EXCEPT !.pc = f, !.snapshot = g]
        /\ ckpt.pc \in {"snapshot", "write"}
    BY <1>6 DEF CkptSnapshot, CkptWriteClog, CkptMove
  <2> QED  BY <1>1, <2>1 DEF CkptRec, Taken
<1> QED  BY <1>2, <1>3, <1>4, <1>5, <1>6 DEF CkptStep

\* A step of the checkpoint.
LEMMA CkptSeq ==
  ASSUME OrderInv, SeqInv, CkptStep
  PROVE  SeqInv'
<1> USE DEF OrderInv
<1>1. Types' /\ LogMoves /\ UNCHANGED <<txn, sequence, client>>
  BY CkptTypes, CkptLog, CkptFrame
<1>2. /\ Narrow
      /\ ~ poisoned' => \A i \in Advances : i \in Advances' /\ wal'[i] = wal[i]
      /\ poisoned => poisoned'
  BY <1>1, MovesNarrow DEF LogMoves
<1>3. \A i, j \in Advances' : i <= j => wal'[i].value <= wal'[j].value
  BY <1>2, MonotoneKept DEF SeqInv
<1>4. /\ mode \in {"up", "recovered"} /\ mode' \in {"up", mode}
  BY DEF CkptStep, CkptBoundary, CkptEnd, CkptMarker, CkptFlush, CkptSnapshot, CkptWriteClog,
         CkptControl, CkptRecycle, CkptFails, CkptInOrder
<1>5. Ahead
  BY <1>4 DEF SeqInv
<1>6. ASSUME NEW e \in Nat, NEW q \in Nat, Served(e, q) PROVE Served(e, q)'
  BY <1>1, <1>2, <1>6, ServedKept
<1>7. control' = control \/ /\ ckpt.pc = "control" /\ control'.end = ckpt.end
                            /\ control'.sequence = ckpt.sequence
  BY DEF CkptStep, CkptBoundary, CkptEnd, CkptMarker, CkptFlush, CkptSnapshot, CkptWriteClog,
         CkptControl, CkptRecycle, CkptFails, files
<1>8. Served(control.end, control.sequence)'
  <2>1. PICK e, q : e = control'.end /\ q = control'.sequence
    OBVIOUS
  <2>2. e \in Nat /\ q \in Nat /\ Served(e, q)
    BY <1>7, <2>1, OrderNats DEF Nats, SeqInv, Taken
  <2>3. Served(e, q)'
    BY <1>6, <2>2
  <2> QED  BY <2>1, <2>3 DEF Served
<1>9. ASSUME CkptEnd PROVE \A i \in Advances : wal[i].value <= sequence
  <2>1. ckpt.pc = "bounded" /\ ~ poisoned
    BY <1>9 DEF CkptEnd
  <2>2. \A s \in Session : txn[s].pc # "nextval"
    BY <2>1 DEF SeqInv, InFlight
  <2> QED  BY <1>5, <2>1, <2>2 DEF Ahead
<1>10. ckpt'.pc \in Taken => Served(ckpt.end, ckpt.sequence)'
  <2> SUFFICES ASSUME ckpt'.pc \in Taken PROVE Served(ckpt.end, ckpt.sequence)'
    OBVIOUS
  <2>1. PICK e, q : e = ckpt'.end /\ q = ckpt'.sequence
    OBVIOUS
  <2>2. CASE CkptEnd /\ ckpt'.end = Len(wal) /\ ckpt'.sequence = sequence
    <3>1. e = Len(wal) /\ q = sequence /\ e \in Nat /\ q \in Nat
      BY <2>1, <2>2, OrderNats DEF Nats
    <3>2. \A i \in Advances : i <= e /\ wal[i].value <= q
      BY <1>9, <2>2, <3>1, AdvanceNats
    <3>3. Served(e, q)
      BY <1>5, <3>1, <3>2 DEF Served, Ahead
    <3>4. Served(e, q)'
      BY <1>6, <3>1, <3>3
    <3> QED  BY <2>1, <3>4 DEF Served
  <2>3. CASE /\ ckpt.pc \in Taken /\ ckpt'.end = ckpt.end /\ ckpt'.sequence = ckpt.sequence
    <3>1. e \in Nat /\ q \in Nat /\ Served(e, q)
      BY <2>1, <2>3, OrderNats DEF Nats, SeqInv
    <3>2. Served(e, q)'
      BY <1>6, <3>1
    <3> QED  BY <2>1, <3>2 DEF Served
  <2> QED  BY <2>2, <2>3, CkptReads DEF Taken
<1>11. ASSUME NEW s \in Session, txn'[s].pc = "nextval" PROVE InFlight(s)'
  <2>1. txn[s].pc = "nextval" /\ InFlight(s) /\ mode = "up"
    BY <1>1, <1>11 DEF SeqInv, InFlight
  <2>2. ckpt'.pc # "bounded"
    <3>1. CkptBoundary => FALSE
      BY <2>1 DEF CkptBoundary, FenceFree
    <3> QED  BY <3>1, CkptReads DEF Taken
  <2>3. ~ CkptEnd
    BY <2>1 DEF CkptEnd, InFlight
  <2>4. ckpt'.pc \in Taken => ckpt.pc \in Taken /\ ckpt'.end = ckpt.end
    BY <2>3, CkptReads DEF Taken
  <2>5. ASSUME ~ poisoned'
        PROVE  \E i \in Advances' : /\ wal'[i].value = sequence + 1 /\ control'.end < i
                                    /\ ckpt'.pc \in Taken => ckpt'.end < i
    <3>1. PICK i \in Advances : /\ wal[i].value = sequence + 1 /\ control.end < i
                                /\ ckpt.pc \in Taken => ckpt.end < i
      BY <1>2, <2>1, <2>5 DEF InFlight
    <3>2. i \in Advances' /\ wal'[i] = wal[i]
      BY <1>2, <2>5
    <3>3. control'.end < i
      BY <1>7, <3>1 DEF Taken
    <3> QED  BY <2>4, <3>1, <3>2, <3>3
  <2> QED  BY <1>1, <1>4, <2>1, <2>2, <2>5 DEF InFlight
<1>12. Ahead'
  <2>1. control'.sequence <= sequence
    BY <1>5, <1>7 DEF Ahead, Taken
  <2>2. ckpt'.pc \in Taken => ckpt'.sequence <= sequence
    BY <1>5, CkptReads, OrderNats DEF Ahead, Taken, Nats
  <2>3. ASSUME ~ poisoned', NEW i \in Advances'
        PROVE  \/ wal'[i].value <= sequence
               \/ wal'[i].value = sequence + 1 /\ \E s \in Session : txn'[s].pc = "nextval"
    <3>1. i \in Advances /\ wal'[i] = wal[i] /\ ~ poisoned
      BY <1>2, <2>3 DEF Narrow
    <3> QED  BY <1>1, <1>5, <3>1 DEF Ahead
  <2> QED  BY <1>1, <1>5, <2>1, <2>2, <2>3 DEF Ahead
<1>13. \A s \in Session : txn'[s].pc # "idle" => mode' = "up"
  BY <1>1, <1>4 DEF SeqInv
<1> QED  BY <1>3, <1>8, <1>10, <1>11, <1>12, <1>13 DEF SeqInv

\* A crash.
LEMMA DownSeq ==
  ASSUME OrderInv, SeqInv, Crash \/ ExitUnknown
  PROVE  SeqInv'
<1> USE DEF OrderInv
<1>1. /\ Types' /\ mode' = "down" /\ ckpt' = NoCheckpoint /\ \A s \in Session : txn'[s] = Idle
      /\ UNCHANGED <<control, client>>
  BY DownFacts
<1>2. PICK end \in Nat :
        /\ meta.durable_end <= end /\ end <= Len(wal) /\ meta'.durable_end = end
        /\ Len(wal') = end /\ \A i \in 1..end : wal'[i] = wal[i]
  BY DownFacts
<1>3. /\ DOMAIN wal = 1..Len(wal) /\ DOMAIN wal' = 1..end /\ Len(wal) \in Nat
      /\ meta.durable_end \in Nat
  BY <1>1, <1>2 DEF Types, LogTypes
<1>4. Narrow
  BY <1>2, <1>3 DEF Narrow, Advances
<1>5. \A i, j \in Advances' : i <= j => wal'[i].value <= wal'[j].value
  BY <1>4, MonotoneKept DEF SeqInv
<1>6. Served(control.end, control.sequence)'
  <2>1. PICK e, q : e = control.end /\ q = control.sequence
    OBVIOUS
  <2>2. e \in Nat /\ q \in Nat /\ Served(e, q)
    BY <2>1, OrderNats DEF Nats, SeqInv
  <2>3. Served(e, q)'
    BY <1>1, <1>4, <2>2, ServedKept
  <2> QED  BY <1>1, <2>1, <2>3 DEF Served
<1>7. /\ ckpt'.pc = "idle" /\ \A s \in Session : txn'[s].pc = "idle"
  BY <1>1 DEF NoCheckpoint, Idle
<1> QED  BY <1>1, <1>5, <1>6, <1>7 DEF SeqInv, Taken

\* A restart.
LEMMA RestartSeq ==
  ASSUME OrderInv, SeqInv, Restart
  PROVE  SeqInv'
<1> USE DEF OrderInv
<1>1. ~ Refuses
  BY RestartOrder
<1>2. /\ mode = "down" /\ mode' \in {"up", "recovered"} /\ sequence' = redo_sequence
      /\ UNCHANGED <<wal, meta, poisoned, control, txn, ckpt, client>>
  BY <1>1, RestartFacts
<1>3. ckpt.pc = "idle" /\ \A s \in Session : txn[s].pc = "idle"
  BY <1>2 DEF CkptInOrder, SeqInv
<1>4. Advances' = Advances
  BY <1>2 DEF Advances
<1>5. Served(control.end, control.sequence) /\ Nats
  BY OrderNats DEF SeqInv
<1>6. Served(control.end, control.sequence)'
  BY <1>2, <1>4, <1>5 DEF Served
<1>7. /\ \A v \in client.served : v <= redo_sequence
      /\ control.sequence <= redo_sequence
      /\ \A i \in Advances : wal[i].value <= redo_sequence
  <2>1. CASE /\ redo_sequence = control.sequence
             /\ \A i \in DOMAIN wal : i > control.end => wal[i].kind # "advance"
    <3>1. \A i \in Advances : i <= control.end
      BY <1>5, <2>1, AdvanceNats DEF Advances, Nats
    <3>2. \A i \in Advances : ~ control.end < i
      BY <1>5, <3>1, AdvanceNats DEF Nats
    <3> QED  BY <1>5, <2>1, <3>1, <3>2 DEF Served, Nats
  <2>2. CASE \E m \in DOMAIN wal :
               /\ m > control.end /\ wal[m].kind = "advance" /\ redo_sequence = wal[m].value
               /\ \A i \in DOMAIN wal : i > control.end /\ wal[i].kind = "advance" => i <= m
    <3>1. PICK m \in DOMAIN wal :
            /\ m > control.end /\ wal[m].kind = "advance" /\ redo_sequence = wal[m].value
            /\ \A i \in DOMAIN wal : i > control.end /\ wal[i].kind = "advance" => i <= m
      BY <2>2
    <3>2. m \in Advances /\ m \in Nat
      BY <3>1, AdvanceNats DEF Advances
    <3>3. \A i \in Advances : i <= m
      BY <1>5, <3>1, <3>2, AdvanceNats DEF Advances, Nats
    <3>4. \A i \in Advances : wal[i].value <= redo_sequence
      BY <3>1, <3>2, <3>3 DEF SeqInv
    <3>5. control.sequence <= redo_sequence
      BY <1>5, <3>1, <3>2 DEF Served, Nats
    <3>6. ASSUME NEW v \in client.served PROVE v <= redo_sequence
      <4>1. v \in Nat /\ redo_sequence \in Nat /\ control.sequence \in Nat
        BY <1>5, <3>1, <3>2, AdvanceNats DEF Nats
      <4>2. CASE v <= control.sequence
        BY <3>5, <4>1, <4>2
      <4>3. CASE \E i \in Advances : v <= wal[i].value
        BY <3>4, <4>1, <4>3, AdvanceNats
      <4> QED  BY <1>5, <3>6, <4>2, <4>3 DEF Served
    <3> QED  BY <3>4, <3>5, <3>6
  <2> QED  BY <2>1, <2>2, RedoSequenceFacts
<1>8. Ahead'
  BY <1>2, <1>3, <1>4, <1>7 DEF Ahead, Taken
<1> QED  BY <1>2, <1>3, <1>4, <1>6, <1>8 DEF SeqInv, Taken

\* The first state, and every step.
LEMMA SeqInit ==
  ASSUME Init
  PROVE  SeqInv
<1>1. /\ wal = <<>> /\ client.served = {} /\ control.sequence = 0 /\ sequence = 0
      /\ ckpt.pc = "idle" /\ \A s \in Session : txn[s].pc = "idle"
  BY DEF Init, NoCheckpoint, Idle
<1>2. Advances = {}
  BY <1>1 DEF Advances
<1> QED  BY <1>1, <1>2 DEF SeqInv, Served, Ahead, Taken

LEMMA SeqStep ==
  ASSUME OrderInv, SeqInv, [Next]_vars
  PROVE  SeqInv'
<1>1. OrderInv'
  BY OrderStep
<1>2. Types /\ Ends
  BY DEF OrderInv
<1> QED  BY <1>1, <1>2, NextCases, PlainSeq, NextvalAppendSeq, NextvalReturnSeq, CkptSeq, DownSeq,
            RestartSeq

(***************************************************************************)
(* A value nextval returned is never returned again: whatever a checkpoint *)
(* wrote and whatever a crash or a failed flush lost, the sequence of a    *)
(* running server is not behind a value a client has (nextval logs and     *)
(* flushes before it returns; recovery replays from the control record).   *)
(***************************************************************************)
THEOREM SequencesNeverRepeat == Spec => []SequenceNeverRepeats
<1> DEFINE Inv == OrderInv /\ SeqInv
<1>1. Init => Inv
  BY OrderInit, SeqInit
<1>2. Inv /\ [Next]_vars => Inv'
  BY OrderStep, SeqStep
<1>3. Inv => SequenceNeverRepeats
  BY DEF SeqInv, Ahead, SequenceNeverRepeats
<1> QED  BY <1>1, <1>2, <1>3, PTL DEF Spec
=============================================================================
