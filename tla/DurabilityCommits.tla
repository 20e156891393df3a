-------------------------- MODULE DurabilityCommits -------------------------
(***************************************************************************)
(* A commit the client was told of survives: the proof of CommitsDurable,  *)
(* for any number of sessions, ids, records, checkpoints, VACUUMs,         *)
(* failures and crashes, and with both races open.                         *)
(*                                                                         *)
(* A commit is kept in three places that change at different moments: the  *)
(* durable log, the snapshot of the commit log in its file (and in the     *)
(* checkpoint that is about to write it), and the statuses in memory.  The *)
(* row version is kept in the log after the redo position, in the page     *)
(* file, and on the page in the pool.                                      *)
(***************************************************************************)
EXTENDS DurabilityProofs

-----------------------------------------------------------------------------
(* The invariant.                                                          *)

Up == mode \in {"up", "recovered"}

CommitAt(j, x) == wal[j].kind = "commit" /\ x \in {wal[j].xid} \cup wal[j].ids
AbortAt(i, x) == wal[i].kind = "abort" /\ wal[i].xid = x

\* A commit of x that no abort follows.
Lasting(j, x) == CommitAt(j, x) /\ \A i \in DOMAIN wal : i > j => ~ AbortAt(i, x)

Durable(x) == \E j \in DOMAIN wal : j <= meta.durable_end /\ Lasting(j, x)

\* A snapshot of the commit log, with the durable records after it, commits x.
FileHas(f, x) == \/ status(f, x) = "Committed"
                 \/ \E i \in DOMAIN wal : f.lsn < i /\ i <= meta.durable_end /\ CommitAt(i, x)

\* The commit of x is in every place that may be read next.
Kept(x) ==
  /\ Durable(x) /\ FileHas(clog_file, x)
  /\ ckpt.pc = "write" => FileHas(ckpt.snapshot, x)
  /\ Up => status(clog, x) = "Committed"

\* The commit of x waits for a flush.
Waiting(x) == x \in pending /\ \E j \in DOMAIN wal : j > meta.durable_end /\ Lasting(j, x)

\* The client was told of the commit of x, or is about to be.
Known(x) == \/ client.told[x] = "committed"
            \/ \E s \in Session : txn[s].pc = "settle" /\ x \in Family(txn[s])

\* Nobody shares an id, and no id in use was told to be committed.
IdsInv ==
  /\ \A s \in Session : \A x \in Family(txn[s]) :
       x < next_xid /\ client.told[x] # "committed" /\ x # vac.xid
  /\ \A r, s \in Session : r # s => Family(txn[r]) \cap Family(txn[s]) = {}
  /\ \A s \in Session : txn[s].pc = "idle" => Family(txn[s]) = {}
  /\ \A s \in Session : txn[s].sub # NoXid => txn[s].xid # txn[s].sub
  /\ vac.xid # NoXid => /\ vac.xid < next_xid /\ client.told[vac.xid] # "committed"
                        /\ vac.pc # "idle"
  /\ vac.pc # "idle" => mode = "up"

\* A known commit is kept, one whose flush is running is kept or waits for it.
KeepInv ==
  /\ \A x \in Xid : Known(x) => Kept(x)
  /\ \A s \in Session : txn[s].pc = "flush" /\ ~ poisoned =>
       \A x \in Family(txn[s]) : Kept(x) \/ Waiting(x)
  /\ clog_file.lsn <= meta.durable_end

\* The page file is not ahead of the log, and every record of the page that is not
\* in it is redone, by this recovery and by the one after the running checkpoint.
PageInv ==
  /\ disk.lsn <= meta.durable_end
  /\ Up /\ ~ poisoned => page.lsn <= Len(wal)
  /\ \A i \in DOMAIN wal : wal[i].kind \in {"insert", "prune"} =>
       /\ Up /\ ~ poisoned => i <= page.lsn
       /\ i > disk.lsn => /\ i > control.redo
                          /\ ckpt.pc \in Taken => i > ckpt.redo
                          /\ Up => page.rec # NoLsn /\ i > page.rec

InUse(x) == \E s \in Session : x \in Family(txn[s])

\* The row version of a known commit or of a running transaction is stored.
StoreInv ==
  \A x \in client.wrote :
    /\ Known(x) => \E i \in DOMAIN wal : i <= meta.durable_end /\ Stored(i, x)
    /\ InUse(x) /\ ~ poisoned => \E i \in DOMAIN wal : Stored(i, x)
    /\ (Known(x) \/ InUse(x)) /\ Up => x \in page.ids /\ clog.st[x] # "Aborted"

CommitInv == IdsInv /\ KeepInv /\ PageInv /\ StoreInv

-----------------------------------------------------------------------------
(* What a step does to ids other than its own.                             *)

\* The log grows, aborts only ids of F and keeps what is durable; the status of
\* another id changes only to committed; what waits still waits or is flushed.
Gentle(F) ==
  /\ \A i \in 1..Len(wal') : IF i <= Len(wal) THEN wal'[i] = wal[i]
                             ELSE wal'[i].kind = "abort" => wal'[i].xid \in F
  /\ meta.durable_end <= meta'.durable_end /\ meta.durable_end <= Len(wal')
  /\ ~ poisoned' => ~ poisoned /\ Len(wal) <= Len(wal')
  /\ clog'.floor = clog.floor
  /\ \A x \in Xid : x \notin F => clog'.st[x] \in {clog.st[x], "Committed"}
  /\ ~ poisoned' => \/ pending \subseteq pending' /\ meta'.durable_end = meta.durable_end
                    \/ FlushOk

\* An append of a record.
LEMMA AppendGentle ==
  ASSUME LogTypes, Ends, NEW r \in Rec, AppendRecord(r), NEW F,
         r.kind = "abort" \/ represents_transaction(r) => r.xid \in F
  PROVE  Gentle(F)
<1>1. /\ meta' = meta /\ poisoned' = poisoned /\ clog'.floor = clog.floor
      /\ \A x \in Xid : clog'.st[x] = IF x = r.xid /\ r.kind = "abort" THEN "Aborted"
                                      ELSE IF x = r.xid /\ represents_transaction(r)
                                      THEN "InProgress" ELSE clog.st[x]
      /\ poisoned => wal' = wal /\ pending' = pending
      /\ ~ poisoned =>
           /\ Len(wal') = Len(wal) + 1 /\ wal'[Len(wal) + 1] = r
           /\ \A i \in 1..Len(wal) : wal'[i] = wal[i]
           /\ pending' = pending \cup (IF r.kind = "commit" THEN {r.xid} \cup r.ids ELSE {})
  BY AppendFacts
<1>2. Len(wal) \in Nat /\ meta.durable_end \in Nat /\ meta.visible \in Nat
  BY DEF LogTypes
<1>3. meta.durable_end <= Len(wal)
  BY <1>2 DEF Ends
<1>4. \A x \in Xid : x \notin F => clog'.st[x] = clog.st[x]
  BY <1>1
<1>5. \A i \in 1..Len(wal') : IF i <= Len(wal) THEN wal'[i] = wal[i]
                              ELSE wal'[i].kind = "abort" => wal'[i].xid \in F
  BY <1>1, <1>2
<1>6. meta.durable_end <= Len(wal') /\ Len(wal) <= Len(wal')
  BY <1>1, <1>2, <1>3
<1>7. pending \subseteq pending'
  BY <1>1
<1> QED  BY <1>1, <1>2, <1>4, <1>5, <1>6, <1>7 DEF Gentle

\* The abort of a family.
LEMMA FamilyGentle ==
  ASSUME LogTypes, Ends, NEW s \in Session, txn \in [Session -> TxnRec],
         txn[s].xid \in Xid, AbortFamily(s)
  PROVE  Gentle(Family(txn[s]))
<1>1. /\ meta' = meta /\ poisoned' = poisoned /\ clog'.floor = clog.floor
      /\ \A x \in Xid : clog'.st[x] = IF x \in Family(txn[s]) THEN "Aborted" ELSE clog.st[x]
      /\ poisoned => wal' = wal
      /\ pending' = pending
      /\ ~ poisoned =>
           /\ Len(wal') \in {Len(wal) + 1, Len(wal) + 2}
           /\ \A i \in 1..Len(wal) : wal'[i] = wal[i]
           /\ \A i \in (Len(wal) + 1)..Len(wal') :
                wal'[i].kind = "abort" /\ wal'[i].xid \in Family(txn[s])
  BY AppendFamilyFacts
<1>2. Len(wal) \in Nat /\ meta.durable_end \in Nat /\ meta.visible \in Nat
  BY DEF LogTypes
<1>3. meta.durable_end <= Len(wal)
  BY <1>2 DEF Ends
<1>4. /\ Len(wal') \in Nat /\ Len(wal) <= Len(wal') /\ meta.durable_end <= Len(wal')
  BY <1>1, <1>2, <1>3
<1>5. ASSUME NEW i \in 1..Len(wal')
      PROVE  IF i <= Len(wal) THEN wal'[i] = wal[i]
             ELSE wal'[i].kind = "abort" => wal'[i].xid \in Family(txn[s])
  <2>1. CASE poisoned
    BY <1>1, <1>2, <2>1
  <2>2. CASE ~ poisoned /\ i <= Len(wal)
    BY <1>1, <1>2, <2>2
  <2>3. CASE ~ poisoned /\ ~ i <= Len(wal)
    <3>1. i \in (Len(wal) + 1)..Len(wal')
      BY <1>2, <1>4, <2>3
    <3> QED  BY <1>1, <2>3, <3>1
  <2> QED  BY <2>1, <2>2, <2>3
<1> QED  BY <1>1, <1>2, <1>4, <1>5 DEF Gentle

\* A flush that succeeds.
LEMMA FlushGentle ==
  ASSUME LogTypes, Ends, FlushOk
  PROVE  Gentle({})
<1>1. /\ ~ poisoned /\ ~ poisoned' /\ wal' = wal /\ pending' = {}
      /\ meta'.durable_end = Len(wal) /\ clog'.floor = clog.floor
      /\ \A x \in Xid : clog'.st[x] = IF x \in pending THEN "Committed" ELSE clog.st[x]
  BY FlushFacts
<1>2. Len(wal) \in Nat /\ meta.durable_end \in Nat /\ meta.visible \in Nat
  BY DEF LogTypes
<1> QED  BY <1>1, <1>2 DEF Gentle, Ends

\* A flush that fails.
LEMMA FailGentle ==
  ASSUME LogTypes, Ends, FlushFails \/ FlushUnknown \/ FlushRefused
  PROVE  Gentle({}) /\ poisoned'
<1>1. Len(wal) \in Nat /\ meta.durable_end \in Nat /\ meta.visible \in Nat
  BY DEF LogTypes
<1>2. meta.durable_end <= Len(wal)
  BY <1>1 DEF Ends
<1>3. /\ poisoned' /\ clog' = clog /\ meta'.durable_end = meta.durable_end
      /\ FlushFails => /\ Len(wal') = meta.durable_end
                       /\ \A i \in 1..meta.durable_end : wal'[i] = wal[i]
      /\ FlushUnknown => wal' = wal
      /\ FlushRefused => wal' = wal
  BY <1>2, FailFacts
<1>4. /\ meta.durable_end <= Len(wal')
      /\ \A i \in 1..Len(wal') : IF i <= Len(wal) THEN wal'[i] = wal[i]
                                 ELSE wal'[i].kind = "abort" => wal'[i].xid \in {}
  <2>1. CASE FlushFails
    BY <1>1, <1>2, <1>3, <2>1
  <2>2. CASE FlushUnknown \/ FlushRefused
    BY <1>1, <1>2, <1>3, <2>2
  <2> QED  BY <2>1, <2>2
<1> QED  BY <1>1, <1>3, <1>4 DEF Gentle

\* No call of the log.
LEMMA KeptGentle ==
  ASSUME LogTypes, Ends, UNCHANGED log
  PROVE  Gentle({})
<1>1. Len(wal) \in Nat /\ meta.durable_end \in Nat /\ meta.visible \in Nat
  BY DEF LogTypes
<1>2. meta.durable_end <= Len(wal)
  BY <1>1 DEF Ends
<1> QED  BY <1>1, <1>2 DEF Gentle, log

\* What is durable and what a snapshot has stay so.
LEMMA DurableGentle ==
  ASSUME LogTypes, LogTypes', NEW F, Gentle(F), NEW x \in Xid, x \notin F
  PROVE  /\ Durable(x) => Durable(x)'
         /\ \A f : FileHas(f, x) => \/ status(f, x) = "Committed"
                                    \/ \E i \in DOMAIN wal' : /\ f.lsn < i /\ i <= meta'.durable_end
                                                              /\ CommitAt(i, x)'
         /\ status(clog, x) = "Committed" => status(clog', x) = "Committed"
<1>1. /\ DOMAIN wal = 1..Len(wal) /\ DOMAIN wal' = 1..Len(wal') /\ Len(wal) \in Nat
      /\ Len(wal') \in Nat /\ meta.durable_end \in Nat /\ meta'.durable_end \in Nat
  BY DEF LogTypes
<1>2. /\ \A i \in 1..Len(wal') : IF i <= Len(wal) THEN wal'[i] = wal[i]
                                 ELSE wal'[i].kind = "abort" => wal'[i].xid \in F
      /\ meta.durable_end <= meta'.durable_end /\ meta.durable_end <= Len(wal')
      /\ clog'.floor = clog.floor /\ clog'.st[x] \in {clog.st[x], "Committed"}
  BY DEF Gentle
<1>3. \A j \in DOMAIN wal : j <= meta.durable_end =>
        j \in DOMAIN wal' /\ wal'[j] = wal[j] /\ j <= meta'.durable_end
  BY <1>1, <1>2
<1>4. ASSUME Durable(x) PROVE Durable(x)'
  <2>1. PICK j \in DOMAIN wal : j <= meta.durable_end /\ Lasting(j, x)
    BY <1>4 DEF Durable
  <2>2. j \in DOMAIN wal' /\ wal'[j] = wal[j] /\ j <= meta'.durable_end
    BY <1>3, <2>1
  <2>3. ASSUME NEW i \in DOMAIN wal', i > j PROVE ~ AbortAt(i, x)'
    <3>1. CASE i <= Len(wal)
      BY <1>1, <1>2, <2>1, <2>3, <3>1 DEF Lasting, AbortAt
    <3>2. CASE ~ i <= Len(wal)
      BY <1>1, <1>2, <3>2 DEF AbortAt
    <3> QED  BY <3>1, <3>2
  <2>4. Lasting(j, x)'
    BY <2>1, <2>2, <2>3 DEF Lasting, CommitAt
  <2> QED  BY <2>2, <2>4 DEF Durable
<1>5. ASSUME NEW f, FileHas(f, x)
      PROVE  \/ status(f, x) = "Committed"
             \/ \E i \in DOMAIN wal' : f.lsn < i /\ i <= meta'.durable_end /\ CommitAt(i, x)'
  BY <1>3, <1>5 DEF FileHas, CommitAt
<1>6. status(clog, x) = "Committed" => status(clog', x) = "Committed"
  BY <1>2 DEF status
<1> QED  BY <1>4, <1>5, <1>6

\* A kept commit stays kept.
LEMMA KeptStays ==
  ASSUME LogTypes, LogTypes', NEW F, Gentle(F), NEW x \in Xid, x \notin F,
         clog_file' = clog_file, ckpt'.pc = "write" => ckpt' = ckpt, Up' => Up, Kept(x)
  PROVE  Kept(x)'
<1>1. FileHas(clog_file, x)'
  BY DurableGentle DEF Kept, FileHas
<1>2. ckpt'.pc = "write" => FileHas(ckpt.snapshot, x)'
  <2> SUFFICES ASSUME ckpt'.pc = "write" PROVE FileHas(ckpt.snapshot, x)'
    OBVIOUS
  <2>1. PICK f : f = ckpt.snapshot /\ f = ckpt'.snapshot
    OBVIOUS
  <2>2. FileHas(f, x)
    BY <2>1 DEF Kept
  <2>3. \/ status(f, x) = "Committed"
        \/ \E i \in DOMAIN wal' : f.lsn < i /\ i <= meta'.durable_end /\ CommitAt(i, x)'
    BY <2>2, DurableGentle
  <2> QED  BY <2>1, <2>3 DEF FileHas
<1>3. Durable(x)' /\ (Up' => status(clog', x) = "Committed")
  BY DurableGentle DEF Kept, Up
<1> QED  BY <1>1, <1>2, <1>3 DEF Kept

\* A commit that waits is kept once it is flushed.
LEMMA WaitingStays ==
  ASSUME Types, Types', Ends, CkptInOrder, clog_file.lsn <= meta.durable_end,
         NEW F, Gentle(F), NEW x \in Xid, x \notin F,
         clog_file' = clog_file, ckpt'.pc = "write" => ckpt' = ckpt, Waiting(x), ~ poisoned'
  PROVE  /\ FlushOk => Kept(x)'
         /\ Kept(x)' \/ Waiting(x)'
<1>1. /\ DOMAIN wal = 1..Len(wal) /\ DOMAIN wal' = 1..Len(wal') /\ Len(wal) \in Nat
      /\ Len(wal') \in Nat /\ meta.durable_end \in Nat /\ clog_file.lsn \in Nat
      /\ ckpt.pc = "write" => ckpt.snapshot.lsn \in Nat
  BY OrderNats DEF Types, LogTypes, Nats
<1>2. PICK j \in DOMAIN wal : j > meta.durable_end /\ Lasting(j, x)
  BY DEF Waiting
<1>3. ASSUME FlushOk PROVE Kept(x)'
  <2>1. /\ wal' = wal /\ meta'.durable_end = Len(wal) /\ clog'.st[x] = "Committed"
    BY <1>3, FlushFacts DEF Waiting, Types
  <2>2. j \in DOMAIN wal' /\ j <= meta'.durable_end /\ Lasting(j, x)' /\ CommitAt(j, x)'
    BY <1>1, <1>2, <2>1 DEF Lasting, CommitAt, AbortAt
  <2>3. Durable(x)'
    BY <2>2 DEF Durable
  <2>4. FileHas(clog_file, x)'
    BY <1>1, <1>2, <2>2 DEF FileHas
  <2>5. ckpt'.pc = "write" => FileHas(ckpt.snapshot, x)'
    <3> SUFFICES ASSUME ckpt'.pc = "write" PROVE FileHas(ckpt.snapshot, x)'
      OBVIOUS
    <3>1. ckpt'.snapshot.lsn < j
      BY <1>1, <1>2 DEF CkptInOrder
    <3> QED  BY <2>2, <3>1 DEF FileHas
  <2>6. status(clog', x) = "Committed"
    BY <2>1 DEF status
  <2> QED  BY <2>3, <2>4, <2>5, <2>6 DEF Kept
<1>4. ASSUME ~ FlushOk PROVE Waiting(x)'
  <2>1. /\ pending \subseteq pending' /\ meta'.durable_end = meta.durable_end
        /\ Len(wal) <= Len(wal')
        /\ \A i \in 1..Len(wal') : IF i <= Len(wal) THEN wal'[i] = wal[i]
                                   ELSE wal'[i].kind = "abort" => wal'[i].xid \in F
    BY <1>4 DEF Gentle
  <2>2. j \in DOMAIN wal' /\ wal'[j] = wal[j] /\ j > meta'.durable_end
    BY <1>1, <1>2, <2>1
  <2>3. ASSUME NEW i \in DOMAIN wal', i > j PROVE ~ AbortAt(i, x)'
    <3>1. CASE i <= Len(wal)
      BY <1>1, <1>2, <2>1, <2>3, <3>1 DEF Lasting, AbortAt
    <3>2. CASE ~ i <= Len(wal)
      BY <1>1, <2>1, <3>2 DEF AbortAt
    <3> QED  BY <3>1, <3>2
  <2>4. Lasting(j, x)'
    BY <1>2, <2>2, <2>3 DEF Lasting, CommitAt
  <2> QED  BY <2>1, <2>2, <2>4 DEF Waiting
<1> QED  BY <1>3, <1>4

-----------------------------------------------------------------------------
(* Steps of sessions, of VACUUM and of the writer of pages.                *)

\* The ids of A are handed out; no other id gets a new owner, and one is told to be
\* committed only by the session that owned it.
IdShape(A) ==
  /\ A \in SUBSET {next_xid} /\ next_xid <= next_xid' /\ (A # {} => next_xid' = next_xid + 1)
  /\ \A s \in Session : Family(txn'[s]) \subseteq Family(txn[s]) \cup A
  /\ \A r, s \in Session : r # s => A \cap Family(txn'[r]) \cap Family(txn'[s]) = {}
  /\ vac'.xid \in {vac.xid, NoXid} \cup A
  /\ vac'.xid \in A => \A s \in Session : vac'.xid \notin Family(txn'[s])
  /\ \A x \in Xid : client'.told[x] = "committed" =>
       /\ x \notin A
       /\ \/ client.told[x] = "committed"
          \/ \E s \in Session : /\ txn[s].pc = "settle" /\ x \in Family(txn[s])
                                /\ Family(txn'[s]) = {}
  /\ \A s \in Session : txn'[s].pc = "idle" => Family(txn'[s]) = {}
  /\ \A s \in Session : txn'[s].sub # NoXid => txn'[s].xid # txn'[s].sub
  /\ vac'.pc # "idle" => vac.pc # "idle" \/ mode = "up"
  /\ vac'.xid # NoXid => vac'.pc # "idle"

\* Such a step disturbs the ids of F only, whose commit nobody knows.
Moves(F, A) ==
  /\ Gentle(F) /\ IdShape(A) /\ UNCHANGED <<clog_file, ckpt, mode>>
  /\ \A x \in F : ~ Known(x)
  /\ \A s \in Session : txn'[s].pc = "settle" =>
       \/ txn'[s] = txn[s]
       \/ /\ txn[s].pc = "flush" /\ FlushOk /\ Family(txn'[s]) = Family(txn[s])
          /\ F \cap Family(txn[s]) = {}
  /\ \A s \in Session : txn'[s].pc = "flush" =>
       \/ txn'[s] = txn[s] /\ F \cap Family(txn[s]) = {}
       \/ ~ poisoned' => \A x \in Family(txn'[s]) : Waiting(x)'

\* The ids of a session are ids.
LEMMA FamilyXid ==
  ASSUME ActorTypes, NEW s \in Session
  PROVE  Family(txn[s]) \in SUBSET Xid
<1>1. txn[s] \in TxnRec
  BY DEF ActorTypes
<1> QED  BY <1>1 DEF TxnRec, Family

\* The same after a step.
LEMMA FamilyXidNext ==
  ASSUME ActorTypes', NEW s \in Session
  PROVE  Family(txn'[s]) \in SUBSET Xid
<1>1. txn'[s] \in TxnRec
  BY DEF ActorTypes
<1> QED  BY <1>1 DEF TxnRec, Family

\* Such a step keeps the ids apart.
LEMMA MovesIds ==
  ASSUME Types, Types', IdsInv, NEW A, IdShape(A), mode' = mode
  PROVE  IdsInv'
<1>1. next_xid \in Nat /\ next_xid' \in Nat /\ next_xid' >= next_xid /\ Xid \subseteq Nat
  BY DurabilityAssumption DEF Types, ActorTypes, FIRST_NORMAL_XID, Xid, IdShape
<1>2. \A s \in Session : Family(txn[s]) \in SUBSET Xid /\ Family(txn'[s]) \in SUBSET Xid
  BY FamilyXid, FamilyXidNext DEF Types
<1>3. \A x \in A : x = next_xid /\ next_xid < next_xid'
  <2>1. A \subseteq {next_xid} /\ (A # {} => next_xid' = next_xid + 1)
    BY DEF IdShape
  <2> QED  BY <1>1, <2>1
<1>4. ASSUME NEW x \in Xid, client'.told[x] = "committed", client.told[x] # "committed"
      PROVE  /\ \A s \in Session : x \notin Family(txn'[s])
             /\ x # vac'.xid
  <2>1. PICK s \in Session : txn[s].pc = "settle" /\ x \in Family(txn[s]) /\ Family(txn'[s]) = {}
    BY <1>4 DEF IdShape
  <2>2. x \notin A /\ x \notin {vac.xid, NoXid}
    BY <1>4, <2>1, DurabilityAssumption DEF IdShape, IdsInv, Xid, FIRST_NORMAL_XID, NoXid
  <2>3. \A r \in Session : r # s => x \notin Family(txn[r])
    BY <2>1 DEF IdsInv
  <2>4. \A r \in Session : x \notin Family(txn'[r])
    BY <2>1, <2>2, <2>3 DEF IdShape
  <2> QED  BY <2>2, <2>4 DEF IdShape
<1>5. ASSUME NEW s \in Session, NEW x \in Family(txn'[s])
      PROVE  x < next_xid' /\ client'.told[x] # "committed" /\ x # vac'.xid
  <2>1. x \in Family(txn[s]) \cup A /\ x \in Xid
    BY <1>2, <1>5 DEF IdShape
  <2>2. x < next_xid'
    BY <1>1, <1>3, <2>1 DEF IdsInv
  <2>3. client'.told[x] # "committed"
    BY <1>4, <1>5, <2>1 DEF IdsInv, IdShape
  <2>4. x # vac'.xid
    <3>1. CASE vac'.xid \in A
      BY <1>5, <3>1 DEF IdShape
    <3>2. CASE vac'.xid = NoXid
      BY <2>1, <3>2, DurabilityAssumption DEF Xid, NoXid, FIRST_NORMAL_XID
    <3>3. CASE vac'.xid = vac.xid /\ vac.xid # NoXid
      <4>1. vac.xid # next_xid
        BY <1>1, <3>3 DEF IdsInv, Types, ActorTypes, VacRec
      <4>2. CASE x \in A
        BY <1>3, <3>3, <4>1, <4>2
      <4>3. CASE x \in Family(txn[s])
        BY <3>3, <4>3 DEF IdsInv
      <4> QED  BY <2>1, <4>2, <4>3
    <3> QED  BY <3>1, <3>2, <3>3 DEF IdShape
  <2> QED  BY <2>2, <2>3, <2>4
<1>6. ASSUME NEW r \in Session, NEW s \in Session, r # s,
             NEW x \in Family(txn'[r]), x \in Family(txn'[s])
      PROVE  FALSE
  <2>1. x \notin A
    BY <1>6 DEF IdShape
  <2>2. x \in Family(txn[r]) /\ x \in Family(txn[s])
    BY <1>6, <2>1 DEF IdShape
  <2> QED  BY <1>6, <2>2 DEF IdsInv
<1>7. vac'.xid # NoXid => vac'.xid < next_xid' /\ client'.told[vac'.xid] # "committed"
  <2> SUFFICES ASSUME vac'.xid # NoXid
               PROVE  vac'.xid < next_xid' /\ client'.told[vac'.xid] # "committed"
    OBVIOUS
  <2>1. vac'.xid \in Xid /\ vac'.xid \in {vac.xid} \cup A
    BY DEF Types, ActorTypes, VacRec, IdShape
  <2>2. CASE vac'.xid \in A
    BY <1>3, <2>1, <2>2 DEF IdShape
  <2>3. CASE vac'.xid = vac.xid
    <3>1. vac.xid < next_xid /\ client.told[vac.xid] # "committed"
      BY <2>3 DEF IdsInv
    <3>2. vac.xid \in Nat
      BY <1>1, <2>1, <2>3
    <3>3. vac'.xid < next_xid'
      BY <1>1, <2>3, <3>1, <3>2
    <3> QED  BY <1>4, <2>1, <2>3, <3>1, <3>3
  <2> QED  BY <2>1, <2>2, <2>3
<1>8. vac'.pc # "idle" => mode' = "up"
  BY DEF IdShape, IdsInv
<1>9. \A s \in Session : txn'[s].pc = "idle" => Family(txn'[s]) = {}
  BY DEF IdShape
<1>10. \A r, s \in Session : r # s => Family(txn'[r]) \cap Family(txn'[s]) = {}
  BY <1>6
<1>11. \A s \in Session : txn'[s].sub # NoXid => txn'[s].xid # txn'[s].sub
  BY DEF IdShape
<1>12. vac'.xid # NoXid => vac'.pc # "idle"
  BY DEF IdShape
<1> QED  BY <1>5, <1>7, <1>8, <1>9, <1>10, <1>11, <1>12 DEF IdsInv

\* Such a step keeps the commits.
LEMMA MovesKeep ==
  ASSUME OrderInv, OrderInv', IdsInv, KeepInv, NEW F, NEW A, Moves(F, A)
  PROVE  /\ KeepInv'
         /\ \A x \in Xid : Known(x)' => \/ Known(x) /\ x \notin F
                                        \/ FlushOk /\ InUse(x) /\ x \notin F
<1> USE DEF OrderInv
<1>1. Types /\ Types' /\ LogTypes /\ LogTypes' /\ Ends /\ CkptInOrder
  BY DEF Types
<1>2. /\ UNCHANGED <<clog_file, ckpt, mode>> /\ Gentle(F) /\ IdShape(A) /\ \A x \in F : ~ Known(x)
      /\ Up' => Up
  BY DEF Moves, Up
<1>3. \A s \in Session : Family(txn[s]) \in SUBSET Xid /\ Family(txn'[s]) \in SUBSET Xid
  BY <1>1, FamilyXid, FamilyXidNext DEF Types
<1>4. FlushOk => ~ poisoned /\ ~ poisoned'
  BY <1>1, FlushFacts
<1>5. ASSUME NEW x \in Xid, Known(x)'
      PROVE  \/ Known(x) /\ x \notin F
             \/ /\ FlushOk /\ x \notin F
                /\ \E s \in Session : txn[s].pc = "flush" /\ x \in Family(txn[s])
  <2>1. CASE client'.told[x] = "committed"
    BY <1>2, <2>1 DEF IdShape, Known
  <2>2. CASE \E s \in Session : txn'[s].pc = "settle" /\ x \in Family(txn'[s])
    <3>1. PICK s \in Session : txn'[s].pc = "settle" /\ x \in Family(txn'[s])
      BY <2>2
    <3>2. CASE txn'[s] = txn[s]
      BY <1>2, <3>1, <3>2 DEF Known
    <3>3. CASE /\ txn[s].pc = "flush" /\ FlushOk /\ Family(txn'[s]) = Family(txn[s])
               /\ F \cap Family(txn[s]) = {}
      BY <3>1, <3>3
    <3> QED  BY <3>1, <3>2, <3>3 DEF Moves
  <2> QED  BY <1>5, <2>1, <2>2 DEF Known
<1>6. ASSUME NEW x \in Xid, Known(x)' PROVE Kept(x)'
  <2>1. CASE Known(x) /\ x \notin F
    <3>1. Kept(x)
      BY <2>1 DEF KeepInv
    <3> QED  BY <1>1, <1>2, <2>1, <3>1, KeptStays
  <2>2. CASE /\ FlushOk /\ x \notin F
             /\ \E s \in Session : txn[s].pc = "flush" /\ x \in Family(txn[s])
    <3>1. Kept(x) \/ Waiting(x)
      BY <1>4, <2>2 DEF KeepInv
    <3>2. CASE Kept(x)
      BY <1>1, <1>2, <2>2, <3>2, KeptStays
    <3>3. CASE Waiting(x)
      BY <1>1, <1>2, <1>4, <2>2, <3>3, WaitingStays DEF KeepInv
    <3> QED  BY <3>1, <3>2, <3>3
  <2> QED  BY <1>5, <1>6, <2>1, <2>2
<1>7. ASSUME NEW s \in Session, txn'[s].pc = "flush", ~ poisoned', NEW x \in Family(txn'[s])
      PROVE  Kept(x)' \/ Waiting(x)'
  <2>1. CASE txn'[s] = txn[s] /\ F \cap Family(txn[s]) = {}
    <3>1. x \in Family(txn[s]) /\ x \notin F /\ txn[s].pc = "flush" /\ ~ poisoned /\ x \in Xid
      BY <1>2, <1>3, <1>7, <2>1 DEF Gentle
    <3>2. Kept(x) \/ Waiting(x)
      BY <3>1 DEF KeepInv
    <3>3. CASE Kept(x)
      BY <1>1, <1>2, <3>1, <3>3, KeptStays
    <3>4. CASE Waiting(x)
      BY <1>1, <1>2, <1>7, <3>1, <3>4, WaitingStays DEF KeepInv
    <3> QED  BY <3>2, <3>3, <3>4
  <2>2. CASE \A y \in Family(txn'[s]) : Waiting(y)'
    BY <1>7, <2>2
  <2> QED  BY <1>7, <2>1, <2>2 DEF Moves
<1>8. clog_file'.lsn <= meta'.durable_end
  <2>1. clog_file.lsn <= meta.durable_end /\ meta.durable_end <= meta'.durable_end
    BY <1>2 DEF Gentle, KeepInv
  <2>2. clog_file.lsn \in Nat /\ meta.durable_end \in Nat
    BY <1>1, OrderNats DEF Nats
  <2>3. meta'.durable_end \in Nat
    BY <1>1, OrderNatsNext DEF Nats
  <2> QED  BY <1>2, <2>1, <2>2, <2>3
<1>9. KeepInv'
  BY <1>6, <1>7, <1>8 DEF KeepInv
<1> QED  BY <1>5, <1>9 DEF InUse

-----------------------------------------------------------------------------
(* The page and its file.                                                  *)

\* The row version of x stays on the page, and in the page file.
Spares(x) ==
  /\ \A i \in 1..Len(wal') : i > Len(wal) /\ wal'[i].kind = "prune" => x \notin wal'[i].ids
  /\ x \in page.ids => x \in page'.ids
  /\ disk' = disk \/ x \in disk'.ids

\* An insert that is stored stays stored.
LEMMA StoredStays ==
  ASSUME LogTypes, LogTypes', NEW F, Gentle(F), NEW x \in Xid, Spares(x),
         NEW i \in DOMAIN wal, Stored(i, x), i <= Len(wal')
  PROVE  i \in DOMAIN wal' /\ Stored(i, x)'
<1>1. /\ DOMAIN wal = 1..Len(wal) /\ DOMAIN wal' = 1..Len(wal')
      /\ Len(wal) \in Nat /\ Len(wal') \in Nat
  BY DEF LogTypes
<1>2. i \in DOMAIN wal' /\ wal'[i] = wal[i]
  BY <1>1 DEF Gentle
<1>3. ASSUME NEW k \in DOMAIN wal', k > i PROVE ~ (wal'[k].kind = "prune" /\ x \in wal'[k].ids)
  <2>1. CASE k <= Len(wal)
    BY <1>1, <1>3, <2>1 DEF Gentle, Stored
  <2>2. CASE ~ k <= Len(wal)
    BY <1>1, <2>2 DEF Spares
  <2> QED  BY <2>1, <2>2
<1>4. i <= disk'.lsn => x \in disk'.ids
  BY DEF Spares, Stored
<1> QED  BY <1>2, <1>3, <1>4 DEF Stored

\* What StoreInv says of an id.
StoreOf(x) ==
  /\ Known(x) => \E i \in DOMAIN wal : i <= meta.durable_end /\ Stored(i, x)
  /\ InUse(x) /\ ~ poisoned => \E i \in DOMAIN wal : Stored(i, x)
  /\ (Known(x) \/ InUse(x)) /\ Up => x \in page.ids /\ clog.st[x] # "Aborted"

\* It stays true of an id that no step disturbs.
LEMMA StoreStays ==
  ASSUME LogTypes, LogTypes', NEW F, Gentle(F), NEW x \in Xid, StoreOf(x), Up' => Up,
         InUse(x)' => InUse(x), Known(x)' => Known(x) \/ (FlushOk /\ InUse(x)),
         Known(x) \/ InUse(x) => Spares(x),
         (Known(x)' \/ InUse(x)') /\ Up' => clog'.st[x] # "Aborted"
  PROVE  StoreOf(x)'
<1>1. /\ DOMAIN wal = 1..Len(wal) /\ DOMAIN wal' = 1..Len(wal')
      /\ Len(wal) \in Nat /\ Len(wal') \in Nat /\ meta.durable_end \in Nat
      /\ meta'.durable_end \in Nat
  BY DEF LogTypes
<1>2. /\ meta.durable_end <= meta'.durable_end /\ meta.durable_end <= Len(wal')
      /\ ~ poisoned' => ~ poisoned /\ Len(wal) <= Len(wal')
  BY DEF Gentle
<1>3. ASSUME Known(x)' PROVE \E i \in DOMAIN wal' : i <= meta'.durable_end /\ Stored(i, x)'
  <2>1. CASE Known(x)
    <3>1. PICK i \in DOMAIN wal : i <= meta.durable_end /\ Stored(i, x)
      BY <2>1 DEF StoreOf
    <3>2. i <= Len(wal') /\ i <= meta'.durable_end
      BY <1>1, <1>2, <3>1
    <3> QED  BY <2>1, <3>1, <3>2, StoredStays
  <2>2. CASE FlushOk /\ InUse(x)
    <3>1. ~ poisoned /\ wal' = wal /\ meta'.durable_end = Len(wal)
      BY <2>2, FlushFacts
    <3>2. PICK i \in DOMAIN wal : Stored(i, x)
      BY <2>2, <3>1 DEF StoreOf
    <3>3. i <= Len(wal') /\ i <= meta'.durable_end
      BY <1>1, <3>1
    <3> QED  BY <2>2, <3>2, <3>3, StoredStays
  <2> QED  BY <1>3, <2>1, <2>2
<1>4. ASSUME InUse(x)', ~ poisoned' PROVE \E i \in DOMAIN wal' : Stored(i, x)'
  <2>1. PICK i \in DOMAIN wal : Stored(i, x)
    BY <1>2, <1>4 DEF StoreOf
  <2>2. i <= Len(wal')
    BY <1>1, <1>2, <1>4
  <2> QED  BY <1>4, <2>1, <2>2, StoredStays
<1>5. ASSUME Known(x)' \/ InUse(x)', Up' PROVE x \in page'.ids /\ clog'.st[x] # "Aborted"
  BY <1>5 DEF StoreOf, Spares
<1> QED  BY <1>3, <1>4, <1>5 DEF StoreOf

\* What PageInv says of a position.
Redone(i) ==
  /\ Up /\ ~ poisoned => i <= page.lsn
  /\ i > disk.lsn => /\ i > control.redo
                     /\ ckpt.pc \in Taken => i > ckpt.redo
                     /\ Up => page.rec # NoLsn /\ i > page.rec

\* The positions of the page stay in order when neither the page nor its file changes
\* and no record of the page is written.
LEMMA PageStays ==
  ASSUME Types, Types', Ends, PageInv, NEW F, Gentle(F), page' = page, disk' = disk, Up' => Up,
         \A i \in 1..Len(wal') : i > Len(wal) => wal'[i].kind \notin {"insert", "prune"},
         control'.redo = control.redo \/ (ckpt.pc \in Taken /\ control'.redo = ckpt.redo),
         ckpt'.pc \in Taken => \/ ckpt.pc \in Taken /\ ckpt'.redo = ckpt.redo
                               \/ Up /\ page.rec # NoLsn /\ ckpt'.redo = page.rec
                               \/ Up /\ page.rec = NoLsn
  PROVE  PageInv'
<1>1. /\ DOMAIN wal = 1..Len(wal) /\ DOMAIN wal' = 1..Len(wal')
      /\ Len(wal) \in Nat /\ Len(wal') \in Nat /\ meta.durable_end \in Nat
      /\ meta'.durable_end \in Nat /\ disk.lsn \in Nat /\ page.lsn \in Nat
  BY DEF Types, LogTypes, FileTypes
<1>2. /\ meta.durable_end <= meta'.durable_end
      /\ ~ poisoned' => ~ poisoned /\ Len(wal) <= Len(wal')
  BY DEF Gentle
<1>3. disk'.lsn <= meta'.durable_end
  BY <1>1, <1>2 DEF PageInv
<1>4. Up' /\ ~ poisoned' => page'.lsn <= Len(wal')
  BY <1>1, <1>2 DEF PageInv
<1>5. ASSUME NEW i \in DOMAIN wal', wal'[i].kind \in {"insert", "prune"} PROVE Redone(i)'
  <2>1. i \in DOMAIN wal /\ wal[i].kind \in {"insert", "prune"}
    BY <1>1, <1>5 DEF Gentle
  <2>2. Redone(i)
    BY <2>1 DEF PageInv, Redone
  <2>3. Up' /\ ~ poisoned' => i <= page'.lsn
    BY <1>2, <2>2 DEF Redone
  <2>4. i > disk.lsn => i > control'.redo
    BY <2>2 DEF Redone
  <2>5. i > disk.lsn /\ ckpt'.pc \in Taken => i > ckpt'.redo
    BY <2>2 DEF Redone
  <2>6. i > disk.lsn /\ Up' => page'.rec # NoLsn /\ i > page'.rec
    BY <2>2 DEF Redone
  <2> QED  BY <2>3, <2>4, <2>5, <2>6 DEF Redone
<1> QED  BY <1>3, <1>4, <1>5 DEF PageInv, Redone

\* A record of the page, published on it with its position.
LEMMA PageGrows ==
  ASSUME OrderInv, Types', PageInv, Up, mode' = mode, ~ poisoned, meta' = meta, NEW F, Gentle(F),
         UNCHANGED <<disk, control, ckpt>>, Len(wal') = Len(wal) + 1,
         page'.lsn = Len(wal'), page'.rec = IF page.rec = NoLsn THEN Len(wal) ELSE page.rec
  PROVE  PageInv'
<1>1. /\ DOMAIN wal = 1..Len(wal) /\ DOMAIN wal' = 1..Len(wal')
      /\ Len(wal) \in Nat /\ Len(wal') \in Nat /\ meta.durable_end \in Nat /\ disk.lsn \in Nat
      /\ page.lsn \in Nat /\ page.rec \in Nat \cup {NoLsn} /\ control.redo \in Nat
      /\ control.end \in Nat /\ ckpt.redo \in Nat /\ ckpt.end \in Nat /\ meta.visible \in Nat
  BY DEF OrderInv, Types, LogTypes, FileTypes, ActorTypes, CkptRec
<1>2. control.redo <= control.end /\ control.end <= meta.durable_end
  BY DEF OrderInv, FilesInOrder
<1>3. meta.durable_end <= meta.visible /\ meta.visible <= Len(wal)
  BY DEF OrderInv, Ends
<1>4. control.redo <= Len(wal)
  BY <1>1, <1>2, <1>3
<1>5. ckpt.pc \in Taken => ckpt.redo <= ckpt.end /\ ckpt.end <= Len(wal)
  BY DEF OrderInv, CkptInOrder
<1>6. ckpt.pc \in Taken => ckpt.redo <= Len(wal)
  BY <1>1, <1>5
<1>7. page'.rec \in Nat /\ page'.rec # NoLsn /\ page'.rec <= Len(wal)
  BY <1>1 DEF OrderInv, FilesInOrder, NoLsn
<1>8. page.rec # NoLsn => page'.rec = page.rec
  OBVIOUS
<1>9. ASSUME NEW i \in DOMAIN wal', wal'[i].kind \in {"insert", "prune"} PROVE Redone(i)'
  <2>1. i <= page'.lsn
    BY <1>1
  <2>2. CASE i <= Len(wal)
    <3>1. i \in DOMAIN wal /\ wal[i].kind \in {"insert", "prune"}
      BY <1>1, <1>9, <2>2 DEF Gentle
    <3>2. Redone(i)
      BY <3>1 DEF PageInv, Redone
    <3> QED  BY <1>8, <2>1, <3>2 DEF Redone, Up
  <2>3. CASE ~ i <= Len(wal)
    <3>1. i > control.redo /\ (ckpt.pc \in Taken => i > ckpt.redo) /\ i > page'.rec
      BY <1>1, <1>4, <1>6, <1>7, <2>3
    <3> QED  BY <1>7, <2>1, <3>1 DEF Redone, Up
  <2> QED  BY <2>2, <2>3
<1>10. disk'.lsn <= meta'.durable_end
  BY DEF PageInv
<1>11. page'.lsn <= Len(wal')
  BY <1>1
<1> QED  BY <1>9, <1>10, <1>11 DEF PageInv, Redone

\* A step of a session, of VACUUM or of the writer of pages keeps the row versions.
LEMMA MovesStore ==
  ASSUME OrderInv, OrderInv', IdsInv, KeepInv, StoreInv, NEW F, NEW A, Moves(F, A),
         NEW x \in client.wrote, x \notin A, Known(x) \/ InUse(x) => Spares(x),
         x \in F /\ InUse(x)' => clog'.st[x] # "Aborted"
  PROVE  StoreOf(x)'
<1>1. LogTypes /\ LogTypes' /\ Gentle(F) /\ IdShape(A) /\ mode' = mode
  BY DEF OrderInv, Types, Moves
<1>2. x \in Xid
  BY DEF OrderInv, Types, ActorTypes, ClientRec
<1>3. StoreOf(x)
  BY DEF StoreInv, StoreOf
<1>4. Known(x)' => \/ Known(x) /\ x \notin F
                   \/ FlushOk /\ InUse(x) /\ x \notin F
  BY <1>2, MovesKeep
<1>5. InUse(x)' => InUse(x)
  BY <1>1 DEF InUse, IdShape
<1>6. x \notin F => clog'.st[x] \in {clog.st[x], "Committed"}
  BY <1>1, <1>2 DEF Gentle
<1>7. (Known(x)' \/ InUse(x)') /\ Up' => clog'.st[x] # "Aborted"
  BY <1>1, <1>3, <1>4, <1>5, <1>6 DEF StoreOf, Up
<1>8. Up' => Up
  BY <1>1 DEF Up
<1>9. Known(x)' => Known(x) \/ (FlushOk /\ InUse(x))
  BY <1>4
<1> QED  BY <1>1, <1>2, <1>3, <1>5, <1>7, <1>8, <1>9, StoreStays

\* A step that leaves the page alone.
Apart(F, A) ==
  /\ Moves(F, A) /\ UNCHANGED <<page, disk, control>> /\ client'.wrote = client.wrote \ A
  /\ \A i \in 1..Len(wal') : i > Len(wal) => wal'[i].kind \notin {"insert", "prune"}
  /\ \A x \in F : InUse(x)' => clog'.st[x] # "Aborted"

LEMMA ApartCommits ==
  ASSUME OrderInv, OrderInv', CommitInv, NEW F, NEW A, Apart(F, A)
  PROVE  CommitInv'
<1>1. IdsInv /\ KeepInv /\ PageInv /\ StoreInv /\ Moves(F, A) /\ IdShape(A) /\ Gentle(F)
  BY DEF CommitInv, Apart, Moves
<1>2. Types /\ Types' /\ Ends /\ mode' = mode /\ ckpt' = ckpt
  BY <1>1 DEF OrderInv, Moves
<1>3. IdsInv'
  BY <1>1, <1>2, MovesIds
<1>4. KeepInv'
  BY <1>1, MovesKeep
<1>5. PageInv'
  <2>1. Up' => Up
    BY <1>2 DEF Up
  <2>2. /\ page' = page /\ disk' = disk /\ control' = control
        /\ \A i \in 1..Len(wal') : i > Len(wal) => wal'[i].kind \notin {"insert", "prune"}
    BY DEF Apart
  <2> QED  BY <1>1, <1>2, <2>1, <2>2, PageStays
<1>6. ASSUME NEW x \in client'.wrote PROVE StoreOf(x)'
  <2>1. x \in client.wrote /\ x \notin A
    BY <1>6 DEF Apart
  <2>2. Spares(x)
    BY DEF Spares, Apart
  <2>3. x \in F /\ InUse(x)' => clog'.st[x] # "Aborted"
    BY DEF Apart
  <2> QED  BY <1>1, <2>1, <2>2, <2>3, MovesStore
<1>7. StoreInv'
  BY <1>6 DEF StoreInv, StoreOf
<1> QED  BY <1>3, <1>4, <1>5, <1>7 DEF CommitInv

-----------------------------------------------------------------------------
(* Steps of one session.                                                   *)

\* The ids of a running transaction are not known to be committed.
LEMMA RunningUnknown ==
  ASSUME IdsInv, ActorTypes, NEW s \in Session, txn[s].pc # "settle", NEW x \in Family(txn[s])
  PROVE  ~ Known(x)
<1>1. client.told[x] # "committed"
  BY DEF IdsInv
<1>2. \A r \in Session : x \in Family(txn[r]) => r = s
  BY DEF IdsInv
<1> QED  BY <1>1, <1>2 DEF Known

\* A step of session s that hands out no id.
LEMMA SessionShape ==
  ASSUME OrderInv, IdsInv, NEW s \in Session,
         \A r \in Session : r # s => txn'[r] = txn[r],
         txn'[s].sub \in {txn[s].sub, NoXid}, txn'[s].xid \in {txn[s].xid, NoXid},
         txn'[s].pc = "idle" => Family(txn'[s]) = {}, UNCHANGED <<next_xid, vac>>,
         \A x \in Xid : client'.told[x] = "committed" =>
           \/ client.told[x] = "committed"
           \/ txn[s].pc = "settle" /\ x \in Family(txn[s]) /\ Family(txn'[s]) = {}
  PROVE  IdShape({})
<1>1. next_xid \in Nat
  BY DurabilityAssumption DEF OrderInv, Types, ActorTypes, FIRST_NORMAL_XID
<1>2. next_xid <= next_xid'
  BY <1>1
<1>3. \A r \in Session : Family(txn'[r]) \subseteq Family(txn[r])
  BY DEF Family
<1>4. \A r \in Session : txn'[r].pc = "idle" => Family(txn'[r]) = {}
  BY DEF IdsInv
<1>5. \A r \in Session : txn'[r].sub # NoXid => txn'[r].xid # txn'[r].sub
  BY DEF IdsInv
<1>6. vac'.xid # NoXid => vac'.pc # "idle"
  BY DEF IdsInv
<1> QED  BY <1>2, <1>3, <1>4, <1>5, <1>6 DEF IdShape

\* A step of session s that hands out no id, neither appends nor flushes a commit of
\* its own, and disturbs at most the ids of its own transaction.
SessionStep(s, F) ==
  /\ \A r \in Session : r # s => txn'[r] = txn[r]
  /\ txn'[s].sub \in {txn[s].sub, NoXid} /\ txn'[s].xid \in {txn[s].xid, NoXid}
  /\ txn'[s].pc = "idle" => Family(txn'[s]) = {}
  /\ txn'[s].pc \notin {"settle", "flush"}
  /\ UNCHANGED <<next_xid, vac, clog_file, ckpt, mode>>
  /\ \A x \in Xid : client'.told[x] = "committed" => client.told[x] = "committed"
  /\ F \subseteq Family(txn[s]) /\ txn[s].pc # "settle" /\ Gentle(F)

LEMMA SessionMoves ==
  ASSUME OrderInv, IdsInv, NEW s \in Session, NEW F, SessionStep(s, F)
  PROVE  Moves(F, {})
<1>1. ActorTypes
  BY DEF OrderInv, Types
<1>2. IdShape({})
  BY SessionShape DEF SessionStep
<1>3. \A x \in F : ~ Known(x)
  BY <1>1, RunningUnknown DEF SessionStep
<1>4. \A r \in Session : r # s => F \cap Family(txn[r]) = {}
  BY DEF SessionStep, IdsInv
<1>5. \A r \in Session : txn'[r].pc \in {"settle", "flush"} => r # s /\ txn'[r] = txn[r]
  BY DEF SessionStep
<1> QED  BY <1>2, <1>3, <1>4, <1>5 DEF Moves, SessionStep

\* Such a step keeps the commits when it leaves the page alone.
LEMMA SessionCommits ==
  ASSUME OrderInv, OrderInv', CommitInv, NEW s \in Session, NEW F, SessionStep(s, F),
         UNCHANGED <<page, disk, control>>, client'.wrote = client.wrote,
         \A i \in 1..Len(wal') : i > Len(wal) => wal'[i].kind \notin {"insert", "prune"},
         \A x \in F : clog'.st[x] # "Aborted" \/ x \notin Family(txn'[s])
  PROVE  CommitInv'
<1>1. IdsInv
  BY DEF CommitInv
<1>2. Moves(F, {})
  BY <1>1, SessionMoves
<1>3. ASSUME NEW x \in F, InUse(x)' PROVE clog'.st[x] # "Aborted"
  <2>1. PICK r \in Session : x \in Family(txn'[r])
    BY <1>3 DEF InUse
  <2>2. r = s
    BY <1>1, <1>3, <2>1 DEF SessionStep, IdsInv
  <2> QED  BY <2>1, <2>2
<1>4. Apart(F, {})
  BY <1>2, <1>3 DEF Apart
<1> QED  BY <1>4, ApartCommits

\* The family of an idle session, and of one that moves.
LEMMA FamilyFacts ==
  /\ Family(Idle) = {}
  /\ \A t, u : t.xid = u.xid /\ t.sub = u.sub => Family(t) = Family(u)
BY DEF Family, Idle, NoXid

\* A record that is not of the page.
LEMMA OtherRecords ==
  ASSUME LogTypes, NEW r \in Rec, r.kind \notin {"insert", "prune"}, AppendRecord(r)
  PROVE  \A i \in 1..Len(wal') : i > Len(wal) => wal'[i].kind \notin {"insert", "prune"}
<1>1. Len(wal) \in Nat
  BY DEF LogTypes
<1>2. CASE poisoned
  <2>1. wal' = wal
    BY <1>2, AppendFacts
  <2> QED  BY <1>1, <2>1
<1>3. CASE ~ poisoned
  <2>1. Len(wal') = Len(wal) + 1 /\ wal'[Len(wal) + 1] = r
    BY <1>3, AppendFacts
  <2>2. \A i \in 1..Len(wal') : i > Len(wal) => i = Len(wal) + 1
    BY <1>1, <2>1
  <2> QED  BY <2>1, <2>2
<1> QED  BY <1>2, <1>3

LEMMA RollbackToCommits ==
  ASSUME OrderInv, OrderInv', CommitInv, NEW s \in Session, RollbackTo(s)
  PROVE  CommitInv'
<1>1. Types /\ LogTypes /\ ActorTypes /\ Ends
  BY DEF OrderInv, Types
<1>2. PICK x : x = txn[s].sub
  OBVIOUS
<1>3. x \in Xid /\ txn[s].pc = "open" /\ txn[s] \in TxnRec
  BY <1>1, <1>2 DEF RollbackTo, ActorTypes, TxnRec
<1>4. PICK r : r = Record(x, "abort", {}, 0)
  OBVIOUS
<1>5. r \in Rec /\ r.xid = x /\ r.kind = "abort"
  BY <1>3, <1>4, RecordFacts DEF Kinds
<1>6. AppendRecord(r)
  BY <1>2, <1>4 DEF RollbackTo
<1>7. Gentle({x})
  BY <1>1, <1>5, <1>6, AppendGentle
<1>8. /\ \A q \in Session : q # s => txn'[q] = txn[q]
      /\ txn'[s].pc = "open" /\ txn'[s].xid = txn[s].xid /\ txn'[s].sub = NoXid
  BY <1>1, <1>3 DEF RollbackTo, ActorTypes, TxnRec
<1>9. Family(txn'[s]) \subseteq Family(txn[s]) /\ x \in Family(txn[s])
  BY <1>2, <1>3, <1>8, DurabilityAssumption DEF Family, NoXid, Xid, FIRST_NORMAL_XID
<1>10. x \notin Family(txn'[s])
  <2>1. txn[s].xid # x
    BY <1>2, DurabilityAssumption DEF CommitInv, IdsInv, RollbackTo
  <2> QED  BY <1>2, <1>3, <1>8, <2>1 DEF Family
<1>12. client'.wrote = client.wrote /\ \A y \in Xid : y # x => client'.told[y] = client.told[y]
  BY <1>1, <1>2 DEF RollbackTo, ActorTypes, ClientRec
<1>13. client'.told[x] = "failed"
  BY <1>1, <1>2, <1>3 DEF RollbackTo, ActorTypes, ClientRec
<1>14. SessionStep(s, {x})
  <2>1. UNCHANGED <<next_xid, vac, clog_file, ckpt, mode>>
    BY DEF RollbackTo, files
  <2> QED  BY <1>3, <1>7, <1>8, <1>9, <1>12, <1>13, <2>1 DEF SessionStep
<1>15. \A i \in 1..Len(wal') : i > Len(wal) => wal'[i].kind \notin {"insert", "prune"}
  BY <1>1, <1>5, <1>6, OtherRecords
<1>16. UNCHANGED <<page, disk, control>>
  BY DEF RollbackTo, files
<1> QED  BY <1>10, <1>12, <1>14, <1>15, <1>16, SessionCommits

\* The abort of a transaction.
LEMMA AbortCommits ==
  ASSUME OrderInv, OrderInv', CommitInv, NEW s \in Session, Abort(s)
  PROVE  CommitInv'
<1>1. Types /\ LogTypes /\ ActorTypes /\ Ends
  BY DEF OrderInv, Types
<1>2. /\ AbortFamily(s) /\ txn[s].pc # "settle" /\ txn[s].pc # "idle"
      /\ UNCHANGED <<page, disk, control, next_xid, vac, clog_file, ckpt, mode>>
  BY DEF Abort, files
<1>3. txn[s].xid \in Xid /\ txn \in [Session -> TxnRec]
  BY <1>1, <1>2 DEF ActorTypes
<1>4. Gentle(Family(txn[s]))
  BY <1>1, <1>2, <1>3, FamilyGentle
<1>5. /\ txn'[s] = Idle /\ \A r \in Session : r # s => txn'[r] = txn[r]
  BY <1>2, <1>3 DEF AbortFamily
<1>6. /\ client'.wrote = client.wrote
      /\ \A x \in Xid : client'.told[x] = IF x \in Family(txn[s]) THEN "failed" ELSE client.told[x]
  <2>1. PICK F : F = Family(txn[s])
    OBVIOUS
  <2>2. client' = [client EXCEPT !.told = [x \in Xid |-> IF x \in F THEN "failed" ELSE @[x]]]
    BY <1>2, <2>1 DEF AbortFamily
  <2> QED  BY <1>1, <2>1, <2>2, ToldFacts
<1>7. Family(txn'[s]) = {} /\ txn'[s].sub = NoXid /\ txn'[s].xid = NoXid /\ txn'[s].pc = "idle"
  BY <1>5, FamilyFacts DEF Idle
<1>8. SessionStep(s, Family(txn[s]))
  BY <1>2, <1>4, <1>5, <1>6, <1>7 DEF SessionStep
<1>9. \A i \in 1..Len(wal') : i > Len(wal) => wal'[i].kind \notin {"insert", "prune"}
  <2>1. /\ poisoned => wal' = wal
        /\ ~ poisoned =>
             /\ Len(wal') \in {Len(wal) + 1, Len(wal) + 2}
             /\ \A i \in (Len(wal) + 1)..Len(wal') : wal'[i].kind = "abort"
    BY <1>1, <1>2, <1>3, AppendFamilyFacts
  <2>2. Len(wal) \in Nat
    BY <1>1 DEF LogTypes
  <2>3. CASE poisoned
    BY <2>1, <2>2, <2>3
  <2>4. CASE ~ poisoned
    <3>1. \A i \in 1..Len(wal') : i > Len(wal) => i \in (Len(wal) + 1)..Len(wal')
      BY <2>1, <2>2, <2>4
    <3> QED  BY <2>1, <2>4, <3>1
  <2> QED  BY <2>3, <2>4
<1> QED  BY <1>2, <1>6, <1>7, <1>8, <1>9, SessionCommits

\* The end of a transaction without writes.
LEMMA EndReadOnlyCommits ==
  ASSUME OrderInv, OrderInv', CommitInv, NEW s \in Session, EndReadOnly(s)
  PROVE  CommitInv'
<1>1. Types /\ LogTypes /\ ActorTypes /\ Ends
  BY DEF OrderInv, Types
<1>2. /\ txn[s].pc = "open" /\ UNCHANGED log
      /\ UNCHANGED <<page, disk, control, next_xid, vac, clog_file, ckpt, mode, client, wal>>
  BY DEF EndReadOnly, files, log
<1>3. /\ txn'[s] = Idle /\ \A r \in Session : r # s => txn'[r] = txn[r]
  BY <1>1 DEF EndReadOnly, ActorTypes
<1>4. Family(txn'[s]) = {} /\ txn'[s].sub = NoXid /\ txn'[s].xid = NoXid /\ txn'[s].pc = "idle"
  BY <1>3, FamilyFacts DEF Idle
<1>5. Gentle({})
  BY <1>1, <1>2, KeptGentle
<1>6. SessionStep(s, {})
  BY <1>2, <1>3, <1>4, <1>5 DEF SessionStep
<1>7. \A i \in 1..Len(wal') : i > Len(wal) => wal'[i].kind \notin {"insert", "prune"}
  BY <1>1, <1>2 DEF LogTypes
<1> QED  BY <1>2, <1>6, <1>7, SessionCommits

\* A flush adds no record, whatever becomes of it.
LEMMA FlushRecords ==
  ASSUME LogTypes, Ends, FlushOk \/ FlushFails \/ FlushUnknown \/ FlushRefused
  PROVE  /\ Gentle({})
         /\ \A i \in 1..Len(wal') : i > Len(wal) => wal'[i].kind \notin {"insert", "prune"}
         /\ ~ FlushOk => poisoned'
<1>1. Len(wal) \in Nat /\ meta.durable_end \in Nat /\ meta.visible \in Nat
  BY DEF LogTypes
<1>2. meta.durable_end <= Len(wal)
  BY <1>1 DEF Ends
<1>3. Gentle({}) /\ (~ FlushOk => poisoned')
  BY FlushGentle, FailGentle
<1>4. Len(wal') <= Len(wal) /\ Len(wal') \in Nat
  <2>1. CASE FlushOk
    BY <1>1, <2>1, FlushFacts
  <2>2. CASE FlushFails
    BY <1>1, <1>2, <2>2, FailFacts
  <2>3. CASE FlushUnknown \/ FlushRefused
    BY <1>1, <1>2, <2>3, FailFacts
  <2> QED  BY <2>1, <2>2, <2>3
<1> QED  BY <1>1, <1>3, <1>4

\* The commit of a session fails to be flushed.
LEMMA CommitFlushFailsCommits ==
  ASSUME OrderInv, OrderInv', CommitInv, NEW s \in Session, CommitFlushFails(s)
  PROVE  CommitInv'
<1>1. Types /\ LogTypes /\ ActorTypes /\ Ends
  BY DEF OrderInv, Types
<1>2. /\ txn[s].pc = "flush" /\ (FlushFails \/ FlushRefused)
      /\ UNCHANGED <<page, disk, control, next_xid, vac, clog_file, ckpt, mode, client>>
      /\ txn' = [txn EXCEPT ![s].pc = "abort"]
  BY DEF CommitFlushFails, files, FlushError
<1>3. /\ txn'[s].pc = "abort" /\ txn'[s].xid = txn[s].xid /\ txn'[s].sub = txn[s].sub
      /\ \A r \in Session : r # s => txn'[r] = txn[r]
  BY <1>1, <1>2, MoveFacts
<1>4. /\ Gentle({})
      /\ \A i \in 1..Len(wal') : i > Len(wal) => wal'[i].kind \notin {"insert", "prune"}
  BY <1>1, <1>2, FlushRecords
<1>5. SessionStep(s, {})
  BY <1>2, <1>3, <1>4 DEF SessionStep
<1> QED  BY <1>2, <1>4, <1>5, SessionCommits

\* The steps of nextval.
LEMMA NextvalCommits ==
  ASSUME OrderInv, OrderInv', CommitInv, NEW s \in Session,
         NextvalAppend(s) \/ NextvalReturn(s) \/ NextvalFails(s)
  PROVE  CommitInv'
<1>1. Types /\ LogTypes /\ ActorTypes /\ Ends
  BY DEF OrderInv, Types
<1>2. CASE NextvalAppend(s)
  <2>1. /\ UNCHANGED <<page, disk, control, next_xid, vac, clog_file, ckpt, mode, client>>
        /\ txn'[s].pc = "nextval" /\ txn[s].pc = "open" /\ txn[s].xid \in Xid
        /\ txn'[s].xid = txn[s].xid /\ txn'[s].sub = txn[s].sub
        /\ \A q \in Session : q # s => txn'[q] = txn[q]
        /\ clog'.st[txn[s].xid] = "InProgress"
    BY <1>1, <1>2, NextvalAppendFacts
  <2>2. PICK r : r = Record(txn[s].xid, "advance", {}, sequence + 1)
    OBVIOUS
  <2>3. sequence + 1 \in Nat
    BY <1>1 DEF ActorTypes
  <2>4. r \in Rec /\ r.xid = txn[s].xid /\ r.kind = "advance"
    BY <2>1, <2>2, <2>3, RecordFacts DEF Kinds
  <2>5. AppendRecord(r)
    BY <1>2, <2>2 DEF NextvalAppend
  <2>6. Gentle({txn[s].xid})
    BY <1>1, <2>4, <2>5, AppendGentle
  <2>7. \A i \in 1..Len(wal') : i > Len(wal) => wal'[i].kind \notin {"insert", "prune"}
    BY <1>1, <2>4, <2>5, OtherRecords
  <2>8. txn[s].xid \in Family(txn[s])
    BY <1>1, <2>1, NewestFacts
  <2>9. SessionStep(s, {txn[s].xid})
    BY <2>1, <2>6, <2>8 DEF SessionStep
  <2> QED  BY <2>1, <2>7, <2>9, SessionCommits
<1>3. CASE NextvalReturn(s)
  <2>1. /\ FlushOk /\ UNCHANGED <<page, disk, control, next_xid, vac, clog_file, ckpt, mode>>
        /\ txn[s].pc = "nextval" /\ txn'[s].pc = "open" /\ txn'[s].xid = txn[s].xid
        /\ txn'[s].sub = txn[s].sub /\ \A q \in Session : q # s => txn'[q] = txn[q]
        /\ client'.told = client.told /\ client'.wrote = client.wrote
    BY <1>1, <1>3, NextvalReturnFacts
  <2>2. /\ Gentle({})
        /\ \A i \in 1..Len(wal') : i > Len(wal) => wal'[i].kind \notin {"insert", "prune"}
    BY <1>1, <2>1, FlushRecords
  <2>3. SessionStep(s, {})
    BY <2>1, <2>2 DEF SessionStep
  <2> QED  BY <2>1, <2>2, <2>3, SessionCommits
<1>4. CASE NextvalFails(s)
  <2>1. /\ txn[s].pc = "nextval" /\ (FlushFails \/ FlushRefused \/ FlushUnknown)
        /\ UNCHANGED <<page, disk, control, next_xid, vac, clog_file, ckpt, mode, client>>
        /\ txn' = [txn EXCEPT ![s].pc = "open"]
    BY <1>4 DEF NextvalFails, files, FlushError
  <2>2. /\ txn'[s].pc = "open" /\ txn'[s].xid = txn[s].xid /\ txn'[s].sub = txn[s].sub
        /\ \A r \in Session : r # s => txn'[r] = txn[r]
    BY <1>1, <2>1, MoveFacts
  <2>3. /\ Gentle({})
        /\ \A i \in 1..Len(wal') : i > Len(wal) => wal'[i].kind \notin {"insert", "prune"}
    BY <1>1, <2>1, FlushRecords
  <2>4. SessionStep(s, {})
    BY <2>1, <2>2, <2>3 DEF SessionStep
  <2> QED  BY <2>1, <2>3, <2>4, SessionCommits
<1> QED  BY <1>2, <1>3, <1>4

\* The commit record of a session: its commit waits for the flush.
LEMMA CommitAppendCommits ==
  ASSUME OrderInv, OrderInv', CommitInv, NEW s \in Session, CommitAppend(s)
  PROVE  CommitInv'
<1>1. Types /\ LogTypes /\ ActorTypes /\ Ends /\ IdsInv /\ LogTypes'
  BY DEF OrderInv, Types, CommitInv
<1>2. /\ txn[s].pc = "open" /\ ~ poisoned
      /\ UNCHANGED <<page, disk, control, next_xid, vac, clog_file, ckpt, mode>>
      /\ txn' = [txn EXCEPT ![s].pc = "flush"]
  BY DEF CommitAppend, files
<1>3. /\ txn'[s].pc = "flush" /\ txn'[s].xid = txn[s].xid /\ txn'[s].sub = txn[s].sub
      /\ \A r \in Session : r # s => txn'[r] = txn[r]
  BY <1>1, <1>2, MoveFacts
<1>4. Family(txn[s]) \in SUBSET Xid /\ txn[s].xid \in Family(txn[s])
  BY <1>1, <1>2, NewestFacts
<1>5. PICK r : r = Record(txn[s].xid, "commit", Family(txn[s]) \ {txn[s].xid}, 0)
  OBVIOUS
<1>6. /\ r \in Rec /\ r.xid = txn[s].xid /\ r.kind = "commit"
      /\ r.ids = Family(txn[s]) \ {txn[s].xid}
  BY <1>4, <1>5, RecordFacts DEF Kinds
<1>7. AppendRecord(r)
  BY <1>5 DEF CommitAppend
<1>8. /\ meta' = meta /\ Len(wal') = Len(wal) + 1 /\ wal'[Len(wal) + 1] = r
      /\ pending' = pending \cup ({r.xid} \cup r.ids)
      /\ clog'.st[r.xid] # "Aborted"
  <2>1. /\ meta' = meta /\ Len(wal') = Len(wal) + 1 /\ wal'[Len(wal) + 1] = r
        /\ pending' = pending \cup (IF r.kind = "commit" THEN {r.xid} \cup r.ids ELSE {})
    BY <1>1, <1>2, <1>6, <1>7, AppendFacts
  <2>2. \A x \in Xid : clog'.st[x] = IF x = r.xid /\ r.kind = "abort" THEN "Aborted"
                                      ELSE IF x = r.xid /\ represents_transaction(r)
                                      THEN "InProgress" ELSE clog.st[x]
    BY <1>1, <1>6, <1>7, AppendFacts
  <2>3. represents_transaction(r) /\ r.xid \in Xid
    BY <1>4, <1>6, DurabilityAssumption
       DEF represents_transaction, Xid, FIRST_NORMAL_XID, VACUUM_TXN
  <2>4. clog'.st[r.xid] = "InProgress"
    BY <1>6, <2>2, <2>3
  <2> QED  BY <1>6, <2>1, <2>4
<1>9. Gentle({txn[s].xid})
  BY <1>1, <1>6, <1>7, AppendGentle
<1>10. \A i \in 1..Len(wal') : i > Len(wal) => wal'[i].kind \notin {"insert", "prune"}
  BY <1>1, <1>6, <1>7, OtherRecords
<1>11. client'.told = client.told /\ client'.wrote = client.wrote
  BY <1>1 DEF CommitAppend, ActorTypes, ClientRec
<1>12. IdShape({})
  BY <1>1, <1>2, <1>3, <1>11, SessionShape
<1>13. ~ Known(txn[s].xid)
  BY <1>1, <1>2, <1>4, RunningUnknown
<1>14. Family(txn'[s]) = Family(txn[s])
  BY <1>3, FamilyFacts
<1>15. ASSUME NEW x \in Family(txn[s]) PROVE Waiting(x)'
  <2>1. /\ DOMAIN wal' = 1..Len(wal') /\ Len(wal) \in Nat /\ meta.durable_end \in Nat
        /\ meta.visible \in Nat
    BY <1>1 DEF LogTypes
  <2>2. meta.durable_end <= Len(wal)
    BY <1>1, <2>1 DEF Ends
  <2>3. PICK j : j = Len(wal) + 1
    OBVIOUS
  <2>4. /\ j \in DOMAIN wal' /\ j > meta'.durable_end /\ \A i \in DOMAIN wal' : ~ i > j
    BY <1>8, <2>1, <2>2, <2>3
  <2>5. CommitAt(j, x)'
    BY <1>6, <1>8, <1>15, <2>3 DEF CommitAt
  <2>6. x \in pending'
    BY <1>6, <1>8, <1>15
  <2> QED  BY <2>4, <2>5, <2>6 DEF Waiting, Lasting
<1>16. \A q \in Session : q # s => {txn[s].xid} \cap Family(txn[q]) = {}
  BY <1>1, <1>4 DEF IdsInv
<1>17. Moves({txn[s].xid}, {})
  BY <1>2, <1>3, <1>9, <1>12, <1>13, <1>14, <1>15, <1>16 DEF Moves
<1>18. Apart({txn[s].xid}, {})
  BY <1>2, <1>4, <1>6, <1>8, <1>10, <1>11, <1>17 DEF Apart
<1> QED  BY <1>18, ApartCommits

\* The flush of a commit.
LEMMA CommitFlushCommits ==
  ASSUME OrderInv, OrderInv', CommitInv, NEW s \in Session, CommitFlush(s)
  PROVE  CommitInv'
<1>1. Types /\ LogTypes /\ ActorTypes /\ Ends /\ IdsInv /\ LogTypes'
  BY DEF OrderInv, Types, CommitInv
<1>2. /\ txn[s].pc = "flush" /\ FlushOk
      /\ UNCHANGED <<page, disk, control, next_xid, vac, clog_file, ckpt, mode, client>>
      /\ txn' = [txn EXCEPT ![s].pc = "settle"]
  BY DEF CommitFlush, files
<1>3. /\ txn'[s].pc = "settle" /\ txn'[s].xid = txn[s].xid /\ txn'[s].sub = txn[s].sub
      /\ \A r \in Session : r # s => txn'[r] = txn[r]
  BY <1>1, <1>2, MoveFacts
<1>4. /\ Gentle({})
      /\ \A i \in 1..Len(wal') : i > Len(wal) => wal'[i].kind \notin {"insert", "prune"}
  BY <1>1, <1>2, FlushRecords
<1>5. IdShape({})
  BY <1>1, <1>2, <1>3, SessionShape
<1>6. Family(txn'[s]) = Family(txn[s])
  BY <1>3, FamilyFacts
<1>7. Moves({}, {})
  BY <1>2, <1>3, <1>4, <1>5, <1>6 DEF Moves
<1>8. Apart({}, {})
  BY <1>2, <1>4, <1>7 DEF Apart
<1> QED  BY <1>8, ApartCommits

\* The client is told of the commit.
LEMMA CommitSettleCommits ==
  ASSUME OrderInv, OrderInv', CommitInv, NEW s \in Session, CommitSettle(s)
  PROVE  CommitInv'
<1>1. Types /\ LogTypes /\ ActorTypes /\ Ends /\ IdsInv /\ LogTypes'
  BY DEF OrderInv, Types, CommitInv
<1>2. /\ txn[s].pc = "settle" /\ UNCHANGED log /\ wal' = wal
      /\ UNCHANGED <<page, disk, control, next_xid, vac, clog_file, ckpt, mode>>
  BY DEF CommitSettle, files, log
<1>3. /\ txn'[s] = Idle /\ \A r \in Session : r # s => txn'[r] = txn[r]
  BY <1>1 DEF CommitSettle, ActorTypes
<1>4. Family(txn'[s]) = {} /\ txn'[s].sub = NoXid /\ txn'[s].xid = NoXid /\ txn'[s].pc = "idle"
  BY <1>3, FamilyFacts DEF Idle
<1>5. /\ client'.wrote = client.wrote
      /\ \A x \in Xid : client'.told[x] = IF x \in Family(txn[s]) THEN "committed"
                                          ELSE client.told[x]
  <2>1. PICK F : F = Family(txn[s])
    OBVIOUS
  <2>2. client' = [client EXCEPT !.told = [x \in Xid |-> IF x \in F THEN "committed" ELSE @[x]]]
    BY <2>1 DEF CommitSettle
  <2> QED  BY <1>1, <2>1, <2>2, ToldFacts
<1>6. Gentle({})
  BY <1>1, <1>2, KeptGentle
<1>7. IdShape({})
  BY <1>1, <1>2, <1>3, <1>4, <1>5, SessionShape
<1>8. Moves({}, {})
  BY <1>2, <1>3, <1>4, <1>6, <1>7 DEF Moves
<1>9. \A i \in 1..Len(wal') : i > Len(wal) => wal'[i].kind \notin {"insert", "prune"}
  BY <1>1, <1>2 DEF LogTypes
<1>10. Apart({}, {})
  BY <1>2, <1>5, <1>8, <1>9 DEF Apart
<1> QED  BY <1>10, ApartCommits

-----------------------------------------------------------------------------
(* Steps that hand out an id.                                              *)

\* An id handed out is nobody's.
LEMMA FreshFacts ==
  ASSUME OrderInv, IdsInv
  PROVE  /\ next_xid \in Nat
         /\ \A s \in Session : next_xid \notin Family(txn[s])
<1>1. next_xid \in Nat
  BY DurabilityAssumption DEF OrderInv, Types, ActorTypes, FIRST_NORMAL_XID
<1>2. ASSUME NEW s \in Session, next_xid \in Family(txn[s]) PROVE FALSE
  <2>1. next_xid < next_xid
    BY <1>2 DEF IdsInv
  <2> QED  BY <1>1, <2>1
<1> QED  BY <1>1, <1>2

\* A session gets the id.
LEMMA AllocateCommits ==
  ASSUME OrderInv, OrderInv', CommitInv, NEW s \in Session, Allocate, UNCHANGED log,
         UNCHANGED <<page, disk, control, vac, clog_file, ckpt, mode>>,
         \A r \in Session : r # s => txn'[r] = txn[r], txn'[s].pc = "open",
         \/ txn'[s].xid = next_xid /\ txn'[s].sub = NoXid
         \/ txn'[s].xid = txn[s].xid /\ txn'[s].sub = next_xid
  PROVE  CommitInv'
<1>1. Types /\ LogTypes /\ ActorTypes /\ Ends /\ IdsInv /\ LogTypes'
  BY DEF OrderInv, Types, CommitInv
<1>2. /\ next_xid \in Xid /\ next_xid' = next_xid + 1
      /\ client'.wrote = client.wrote \ {next_xid}
      /\ \A x \in Xid : client'.told[x] = IF x = next_xid THEN "none" ELSE client.told[x]
  BY <1>1, AllocateFacts
<1>3. next_xid \in Nat /\ \A r \in Session : next_xid \notin Family(txn[r])
  BY <1>1, FreshFacts
<1>4. Family(txn'[s]) \subseteq Family(txn[s]) \cup {next_xid}
  BY DEF Family
<1>5. \A r \in Session : Family(txn'[r]) \subseteq Family(txn[r]) \cup {next_xid}
  BY <1>4
<1>6. \A r \in Session : r # s => next_xid \notin Family(txn'[r])
  BY <1>3
<1>7. \A r \in Session : txn'[r].pc = "idle" => Family(txn'[r]) = {}
  BY <1>1 DEF IdsInv
<1>8. txn'[s].sub # NoXid => txn'[s].xid # txn'[s].sub
  <2>1. CASE txn'[s].xid = txn[s].xid /\ txn'[s].sub = next_xid
    <3>1. next_xid # NoXid
      BY <1>3 DEF NoXid
    <3>2. txn[s].xid # next_xid
      BY <1>3, <3>1 DEF Family
    <3> QED  BY <2>1, <3>2
  <2> QED  BY <2>1
<1>9. \A r \in Session : txn'[r].sub # NoXid => txn'[r].xid # txn'[r].sub
  BY <1>1, <1>8 DEF IdsInv
<1>10. next_xid <= next_xid' /\ vac'.xid = vac.xid
  BY <1>2, <1>3
<1>11. vac.xid = next_xid => FALSE
  <2> SUFFICES ASSUME vac.xid = next_xid PROVE FALSE
    OBVIOUS
  <2>1. next_xid # NoXid
    BY <1>3 DEF NoXid
  <2>2. next_xid < next_xid
    BY <1>1, <2>1 DEF IdsInv
  <2> QED  BY <1>3, <2>2
<1>12. IdShape({next_xid})
  <2>1. \A x \in Xid : client'.told[x] = "committed" =>
          x \notin {next_xid} /\ client.told[x] = "committed"
    BY <1>2
  <2>2. \A q, r \in Session : q # r => {next_xid} \cap Family(txn'[q]) \cap Family(txn'[r]) = {}
    BY <1>6
  <2>3. vac'.xid # NoXid => vac'.pc # "idle"
    BY <1>1 DEF IdsInv
  <2> QED  BY <1>2, <1>5, <1>7, <1>9, <1>10, <1>11, <2>1, <2>2, <2>3 DEF IdShape
<1>13. Gentle({}) /\ wal' = wal
  BY <1>1, KeptGentle DEF log
<1>14. Moves({}, {next_xid})
  BY <1>12, <1>13 DEF Moves
<1>15. \A i \in 1..Len(wal') : i > Len(wal) => wal'[i].kind \notin {"insert", "prune"}
  BY <1>1, <1>13 DEF LogTypes
<1>16. Apart({}, {next_xid})
  BY <1>2, <1>14, <1>15 DEF Apart
<1> QED  BY <1>16, ApartCommits

LEMMA BeginCommits ==
  ASSUME OrderInv, OrderInv', CommitInv, NEW s \in Session, Begin(s) \/ Savepoint(s)
  PROVE  CommitInv'
<1>1. txn \in [Session -> TxnRec]
  BY DEF OrderInv, Types, ActorTypes
<1>2. CASE Begin(s)
  <2>1. /\ Allocate /\ UNCHANGED log
        /\ UNCHANGED <<page, disk, control, vac, clog_file, ckpt, mode>>
    BY <1>2 DEF Begin, files
  <2>2. /\ \A r \in Session : r # s => txn'[r] = txn[r]
        /\ txn'[s].pc = "open" /\ txn'[s].xid = next_xid /\ txn'[s].sub = NoXid
    BY <1>1, <1>2 DEF Begin, Idle
  <2> QED  BY <2>1, <2>2, AllocateCommits
<1>3. CASE Savepoint(s)
  <2>1. /\ Allocate /\ UNCHANGED log
        /\ UNCHANGED <<page, disk, control, vac, clog_file, ckpt, mode>>
    BY <1>3 DEF Savepoint, files
  <2>2. /\ \A r \in Session : r # s => txn'[r] = txn[r]
        /\ txn'[s].pc = "open" /\ txn'[s].xid = txn[s].xid /\ txn'[s].sub = next_xid
    BY <1>1, <1>3 DEF Savepoint, TxnRec
  <2> QED  BY <2>1, <2>2, AllocateCommits
<1> QED  BY <1>2, <1>3

-----------------------------------------------------------------------------
(* Steps of VACUUM and of the writer of pages.                             *)

\* The id of VACUUM is not known to be committed.
LEMMA VacuumUnknown ==
  ASSUME IdsInv, vac.xid # NoXid
  PROVE  ~ Known(vac.xid) /\ \A s \in Session : vac.xid \notin Family(txn[s])
BY DEF IdsInv, Known

\* A step that leaves the sessions alone and disturbs at most the id of VACUUM.
VacStep(F) ==
  /\ Gentle(F) /\ F \subseteq {vac.xid} \ {NoXid}
  /\ UNCHANGED <<txn, next_xid, clog_file, ckpt, mode>>
  /\ client'.told = client.told /\ client'.wrote = client.wrote
  /\ vac'.xid \in {vac.xid, NoXid} /\ (vac'.pc # "idle" => vac.pc # "idle")
  /\ vac'.xid # NoXid => vac'.pc # "idle"

LEMMA VacMoves ==
  ASSUME OrderInv, IdsInv, NEW F, VacStep(F)
  PROVE  Moves(F, {}) /\ \A x \in F : ~ InUse(x)'
<1>1. next_xid \in Nat
  BY DurabilityAssumption DEF OrderInv, Types, ActorTypes, FIRST_NORMAL_XID
<1>2. next_xid <= next_xid' /\ txn' = txn
  BY <1>1 DEF VacStep
<1>3. IdShape({})
  BY <1>2 DEF IdShape, VacStep, IdsInv
<1>4. \A x \in F : ~ Known(x) /\ \A s \in Session : x \notin Family(txn[s])
  BY VacuumUnknown DEF VacStep
<1>5. Moves(F, {})
  BY <1>2, <1>3, <1>4 DEF Moves, VacStep
<1> QED  BY <1>2, <1>4, <1>5 DEF InUse

LEMMA VacCommits ==
  ASSUME OrderInv, OrderInv', CommitInv, NEW F, VacStep(F), UNCHANGED <<page, disk, control>>,
         \A i \in 1..Len(wal') : i > Len(wal) => wal'[i].kind \notin {"insert", "prune"}
  PROVE  CommitInv'
<1>1. Moves(F, {}) /\ \A x \in F : ~ InUse(x)'
  BY VacMoves DEF CommitInv
<1>2. Apart(F, {})
  BY <1>1 DEF Apart, VacStep
<1> QED  BY <1>2, ApartCommits

\* The start of VACUUM.
LEMMA VacuumBeginCommits ==
  ASSUME OrderInv, OrderInv', CommitInv, VacuumBegin
  PROVE  CommitInv'
<1>1. Types /\ LogTypes /\ ActorTypes /\ Ends /\ IdsInv /\ LogTypes'
  BY DEF OrderInv, Types, CommitInv
<1>2. /\ Allocate /\ UNCHANGED log /\ mode = "up" /\ vac'.xid = next_xid /\ vac'.pc # "idle"
      /\ UNCHANGED <<page, disk, control, clog_file, ckpt, mode, txn>>
  BY DEF VacuumBegin, files
<1>3. /\ next_xid \in Xid /\ next_xid' = next_xid + 1
      /\ client'.wrote = client.wrote \ {next_xid}
      /\ \A x \in Xid : client'.told[x] = IF x = next_xid THEN "none" ELSE client.told[x]
  BY <1>1, <1>2, AllocateFacts
<1>4. next_xid \in Nat /\ \A r \in Session : next_xid \notin Family(txn[r])
  BY <1>1, FreshFacts
<1>5. next_xid <= next_xid'
  BY <1>3, <1>4
<1>6. IdShape({next_xid})
  <2>1. \A x \in Xid : client'.told[x] = "committed" =>
          x \notin {next_xid} /\ client.told[x] = "committed"
    BY <1>3
  <2> QED  BY <1>1, <1>2, <1>3, <1>4, <1>5, <2>1 DEF IdShape, IdsInv
<1>7. Gentle({}) /\ wal' = wal
  BY <1>1, <1>2, KeptGentle DEF log
<1>8. Moves({}, {next_xid})
  BY <1>2, <1>6, <1>7 DEF Moves
<1>9. \A i \in 1..Len(wal') : i > Len(wal) => wal'[i].kind \notin {"insert", "prune"}
  BY <1>1, <1>7 DEF LogTypes
<1>10. Apart({}, {next_xid})
  BY <1>2, <1>3, <1>8, <1>9 DEF Apart
<1> QED  BY <1>10, ApartCommits

\* The record of VACUUM's own transaction.
LEMMA VacuumAppendCommits ==
  ASSUME OrderInv, OrderInv', CommitInv, VacuumCommit \/ VacuumAbort
  PROVE  CommitInv'
<1>1. Types /\ LogTypes /\ ActorTypes /\ Ends
  BY DEF OrderInv, Types
<1>2. PICK k \in {"commit", "abort"} :
        /\ AppendRecord(Record(vac.xid, k, {}, 0)) /\ vac.pc # "idle"
        /\ vac' = [vac EXCEPT !.pc = "flush"] \/ vac' = NoVacuum
        /\ UNCHANGED <<page, disk, control, clog_file, ckpt, mode, txn, next_xid>>
        /\ client' = client \/ client' = [client EXCEPT !.asked = @ \cup {vac.xid}]
  BY DEF VacuumCommit, VacuumAbort, files
<1>3. vac.xid \in Xid /\ vac.xid # NoXid
  BY <1>1, <1>2, DurabilityAssumption DEF ActorTypes, Xid, FIRST_NORMAL_XID, NoXid
<1>4. PICK r : r = Record(vac.xid, k, {}, 0)
  OBVIOUS
<1>5. r \in Rec /\ r.xid = vac.xid /\ r.kind = k
  BY <1>3, <1>4, RecordFacts DEF Kinds
<1>6. AppendRecord(r)
  BY <1>2, <1>4
<1>7. Gentle({vac.xid})
  BY <1>1, <1>5, <1>6, AppendGentle
<1>8. \A i \in 1..Len(wal') : i > Len(wal) => wal'[i].kind \notin {"insert", "prune"}
  BY <1>1, <1>5, <1>6, OtherRecords
<1>9. client'.told = client.told /\ client'.wrote = client.wrote
  BY <1>1, <1>2 DEF ActorTypes, ClientRec
<1>10. /\ vac'.xid \in {vac.xid, NoXid} /\ (vac'.pc # "idle" => vac.pc # "idle")
       /\ vac'.xid # NoXid => vac'.pc # "idle"
  BY <1>1, <1>2 DEF ActorTypes, VacRec, NoVacuum
<1>11. VacStep({vac.xid})
  BY <1>2, <1>3, <1>7, <1>9, <1>10 DEF VacStep
<1> QED  BY <1>2, <1>8, <1>11, VacCommits

\* The flush of its commit, and a write of the page that fails.
LEMMA VacuumFlushCommits ==
  ASSUME OrderInv, OrderInv', CommitInv, VacuumFlush \/ VacuumFlushFails \/ WritePageFails
  PROVE  CommitInv'
<1>1. Types /\ LogTypes /\ ActorTypes /\ Ends
  BY DEF OrderInv, Types
<1>2. /\ FlushOk \/ FlushFails \/ FlushUnknown \/ FlushRefused
      /\ \/ vac' = vac
         \/ vac.pc # "idle" /\ \E f \in {"prune", "abort"} : vac' = [vac EXCEPT !.pc = f]
      /\ UNCHANGED <<page, disk, control, clog_file, ckpt, mode, txn, next_xid, client>>
  BY DEF VacuumFlush, VacuumFlushFails, WritePageFails, FlushError, files
<1>3. /\ Gentle({})
      /\ \A i \in 1..Len(wal') : i > Len(wal) => wal'[i].kind \notin {"insert", "prune"}
  BY <1>1, <1>2, FlushRecords
<1>4. /\ vac'.xid = vac.xid /\ (vac'.pc # "idle" => vac.pc # "idle")
      /\ vac'.xid # NoXid => vac'.pc # "idle"
  BY <1>1, <1>2 DEF ActorTypes, VacRec, CommitInv, IdsInv
<1>5. VacStep({})
  BY <1>2, <1>3, <1>4 DEF VacStep
<1> QED  BY <1>2, <1>3, <1>5, VacCommits

\* A step that changes neither the log nor the page, and may end VACUUM.
LEMMA QuietCommits ==
  ASSUME OrderInv, OrderInv', CommitInv, UNCHANGED <<wal, meta, pending, poisoned, clog>>,
         UNCHANGED <<page, disk, control, clog_file, ckpt, mode, txn, next_xid, client>>,
         vac'.xid \in {vac.xid, NoXid}, vac'.pc # "idle" => vac.pc # "idle",
         vac'.xid # NoXid => vac'.pc # "idle"
  PROVE  CommitInv'
<1>1. Types /\ LogTypes /\ ActorTypes /\ Ends
  BY DEF OrderInv, Types
<1>2. Gentle({})
  BY <1>1, KeptGentle DEF log
<1>3. \A i \in 1..Len(wal') : i > Len(wal) => wal'[i].kind \notin {"insert", "prune"}
  BY <1>1 DEF LogTypes
<1>4. VacStep({})
  BY <1>2 DEF VacStep
<1> QED  BY <1>3, <1>4, VacCommits

\* What VACUUM prunes is aborted, so it is nobody's and nobody's known commit.
LEMMA VacuumPruneCommits ==
  ASSUME OrderInv, OrderInv', CommitInv, VacuumPrune
  PROVE  CommitInv'
<1>1. Types /\ LogTypes /\ ActorTypes /\ Ends /\ FileTypes /\ Types'
  BY DEF OrderInv, Types
<1>2. /\ vac.pc = "prune" /\ UNCHANGED <<disk, control, clog_file, ckpt, mode, txn, next_xid, client>>
      /\ vac' = [vac EXCEPT !.pc = "floor"] \/ vac' = NoVacuum
  BY DEF VacuumPrune, files
<1>3. /\ vac'.xid \in {vac.xid, NoXid} /\ (vac'.pc # "idle" => vac.pc # "idle")
      /\ vac'.xid # NoXid => vac'.pc # "idle"
  BY <1>1, <1>2 DEF ActorTypes, VacRec, NoVacuum
<1>4. CASE Dead = {}
  <2>1. UNCHANGED <<wal, meta, pending, poisoned, clog>> /\ page' = page
    BY <1>4 DEF VacuumPrune, log
  <2> QED  BY <1>2, <1>3, <2>1, QuietCommits
<1>5. CASE Dead # {}
  <2>1. PICK r : r = Record(VACUUM_TXN, "prune", Dead, 0)
    OBVIOUS
  <2>2. Dead \in SUBSET Xid
    BY <1>1 DEF Dead, FileTypes
  <2>3. r \in Rec /\ r.xid = VACUUM_TXN /\ r.kind = "prune" /\ r.ids = Dead
    BY <2>1, <2>2, RecordFacts, DurabilityAssumption DEF VACUUM_TXN
  <2>4. AppendRecord(r)
    BY <1>5, <2>1 DEF VacuumPrune
  <2>5. ~ represents_transaction(r)
    BY <2>3 DEF represents_transaction
  <2>6. Gentle({})
    BY <1>1, <2>3, <2>4, <2>5, AppendGentle
  <2>7. VacStep({})
    BY <1>2, <1>3, <2>6 DEF VacStep
  <2>8. CASE poisoned
    <3>1. wal' = wal /\ page' = page
      BY <1>1, <1>5, <2>3, <2>4, <2>8, AppendFacts DEF VacuumPrune
    <3>2. \A i \in 1..Len(wal') : i > Len(wal) => wal'[i].kind \notin {"insert", "prune"}
      BY <1>1, <3>1 DEF LogTypes
    <3> QED  BY <1>2, <2>7, <3>1, <3>2, VacCommits
  <2>9. CASE ~ poisoned
    <3>1. /\ page' = [ids |-> page.ids \ Dead, lsn |-> Len(wal'),
                      rec |-> IF page.rec = NoLsn THEN Len(wal) ELSE page.rec]
      BY <1>5, <2>9 DEF VacuumPrune
    <3>2. /\ meta' = meta /\ Len(wal') = Len(wal) + 1 /\ wal'[Len(wal) + 1] = r
          /\ Len(wal) \in Nat
      BY <1>1, <2>3, <2>4, <2>9, AppendFacts DEF LogTypes
    <3>3. Up /\ IdsInv /\ KeepInv /\ PageInv /\ StoreInv
      BY <1>2 DEF CommitInv, IdsInv, Up
    <3>4. Moves({}, {}) /\ IdShape({})
      BY <2>7, <3>3, VacMoves DEF Moves
    <3>5. IdsInv' /\ KeepInv'
      BY <1>1, <1>2, <3>3, <3>4, MovesIds, MovesKeep
    <3>6. PageInv'
      BY <1>1, <1>2, <2>6, <2>9, <3>1, <3>2, <3>3, PageGrows
    <3>7. ASSUME NEW x \in client'.wrote PROVE StoreOf(x)'
      <4>1. x \in client.wrote /\ x \in Xid
        BY <1>1, <1>2, <3>7 DEF ActorTypes, ClientRec
      <4>2. ASSUME Known(x) \/ InUse(x) PROVE Spares(x)
        <5>1. clog.st[x] # "Aborted"
          BY <3>3, <4>1, <4>2 DEF StoreInv
        <5>2. x \notin Dead
          BY <4>1, <5>1, DurabilityAssumption DEF Dead, status, Xid
        <5>3. \A i \in 1..Len(wal') : i > Len(wal) => wal'[i] = r
          BY <3>2
        <5> QED  BY <1>2, <2>3, <3>1, <5>2, <5>3 DEF Spares
      <4> QED  BY <3>3, <3>4, <4>1, <4>2, MovesStore
    <3> QED  BY <3>5, <3>6, <3>7 DEF CommitInv, StoreInv, StoreOf
  <2> QED  BY <2>8, <2>9
<1> QED  BY <1>4, <1>5

\* A write of the page puts every protected row version into the file.
LEMMA WritePageCommits ==
  ASSUME OrderInv, OrderInv', CommitInv, WritePage
  PROVE  CommitInv'
<1>1. Types /\ LogTypes /\ ActorTypes /\ Ends /\ FileTypes /\ Types'
  BY DEF OrderInv, Types
<1>2. /\ FlushOk /\ Up
      /\ disk' = [ids |-> page.ids, lsn |-> page.lsn] /\ page' = [page EXCEPT !.rec = NoLsn]
      /\ UNCHANGED <<control, clog_file, ckpt, mode, txn, next_xid, client, vac>>
  BY DEF WritePage, Up
<1>3. /\ page'.ids = page.ids /\ page'.lsn = page.lsn
  BY <1>1, <1>2 DEF FileTypes
<1>4. /\ Gentle({})
      /\ \A i \in 1..Len(wal') : i > Len(wal) => wal'[i].kind \notin {"insert", "prune"}
  BY <1>1, <1>2, FlushRecords
<1>5. VacStep({})
  BY <1>2, <1>4 DEF VacStep, CommitInv, IdsInv
<1>6. IdsInv /\ KeepInv /\ PageInv /\ StoreInv
  BY DEF CommitInv
<1>7. Moves({}, {}) /\ IdShape({})
  BY <1>5, <1>6, VacMoves DEF Moves
<1>8. IdsInv' /\ KeepInv'
  BY <1>1, <1>2, <1>6, <1>7, MovesIds, MovesKeep
<1>9. ~ poisoned /\ wal' = wal /\ meta'.durable_end = Len(wal)
  BY <1>1, <1>2, FlushFacts
<1>10. page.lsn <= Len(wal)
  BY <1>2, <1>6, <1>9 DEF PageInv
<1>11. ASSUME NEW i \in DOMAIN wal', wal'[i].kind \in {"insert", "prune"} PROVE Redone(i)'
  <2>1. i <= page.lsn /\ i \in Nat /\ page.lsn \in Nat
    BY <1>1, <1>2, <1>6, <1>9, <1>11 DEF PageInv, LogTypes, FileTypes
  <2> QED  BY <1>2, <1>3, <2>1 DEF Redone
<1>12. PageInv'
  BY <1>2, <1>3, <1>9, <1>10, <1>11 DEF PageInv, Redone
<1>13. ASSUME NEW x \in client'.wrote PROVE StoreOf(x)'
  <2>1. x \in client.wrote /\ x \in Xid
    BY <1>1, <1>2, <1>13 DEF ActorTypes, ClientRec
  <2>2. ASSUME Known(x) \/ InUse(x) PROVE Spares(x)
    <3>1. x \in page.ids
      BY <1>2, <1>6, <2>1, <2>2 DEF StoreInv
    <3> QED  BY <1>2, <1>3, <1>4, <3>1 DEF Spares
  <2> QED  BY <1>6, <1>7, <2>1, <2>2, MovesStore
<1> QED  BY <1>8, <1>12, <1>13 DEF CommitInv, StoreInv, StoreOf

\* A row version is logged and published.
LEMMA InsertCommits ==
  ASSUME OrderInv, OrderInv', CommitInv, SeqInv, NEW s \in Session, Insert(s)
  PROVE  CommitInv'
<1>1. Types /\ LogTypes /\ ActorTypes /\ Ends /\ FileTypes /\ Types'
  BY DEF OrderInv, Types
<1>2. /\ txn[s].pc = "open" /\ UNCHANGED <<disk, control, clog_file, ckpt, mode, next_xid, vac>>
  BY DEF Insert, files
<1>3. PICK x : x = Max(Family(txn[s]))
  OBVIOUS
<1>4. x \in Family(txn[s]) /\ x \in Xid
  BY <1>1, <1>2, <1>3, NewestFacts
<1>5. PICK r : r = Record(x, "insert", {}, 0)
  OBVIOUS
<1>6. r \in Rec /\ r.xid = x /\ r.kind = "insert"
  BY <1>4, <1>5, RecordFacts DEF Kinds
<1>7. AppendRecord(r)
  BY <1>3, <1>5 DEF Insert
<1>8. Gentle({x})
  BY <1>1, <1>6, <1>7, AppendGentle
<1>9. clog'.st[x] # "Aborted"
  <2>1. represents_transaction(r)
    BY <1>4, <1>6, DurabilityAssumption
       DEF represents_transaction, Xid, FIRST_NORMAL_XID, VACUUM_TXN
  <2>2. clog'.st[x] = IF x = r.xid /\ r.kind = "abort" THEN "Aborted"
                      ELSE IF x = r.xid /\ represents_transaction(r)
                      THEN "InProgress" ELSE clog.st[x]
    BY <1>1, <1>4, <1>6, <1>7, AppendFacts
  <2> QED  BY <1>6, <2>1, <2>2
<1>10. CASE poisoned
  <2>1. UNCHANGED <<page, txn, client>>
    BY <1>10 DEF Insert
  <2>2. wal' = wal
    BY <1>1, <1>6, <1>7, <1>10, AppendFacts
  <2>3. \A i \in 1..Len(wal') : i > Len(wal) => wal'[i].kind \notin {"insert", "prune"}
    BY <1>1, <2>2 DEF LogTypes
  <2>4. SessionStep(s, {x})
    BY <1>2, <1>4, <1>8, <2>1 DEF SessionStep
  <2> QED  BY <1>2, <1>9, <2>1, <2>3, <2>4, SessionCommits
<1>11. CASE ~ poisoned
  <2>1. page' = [ids |-> page.ids \cup {x}, lsn |-> Len(wal'),
                 rec |-> IF page.rec = NoLsn THEN Len(wal) ELSE page.rec]
    BY <1>3, <1>11 DEF Insert
  <2>2. /\ txn' = [txn EXCEPT ![s].wrote = TRUE]
        /\ client' = [client EXCEPT !.wrote = @ \cup {x}]
    BY <1>3, <1>11 DEF Insert
  <2>3. /\ txn'[s].pc = "open" /\ txn'[s].xid = txn[s].xid /\ txn'[s].sub = txn[s].sub
        /\ \A q \in Session : q # s => txn'[q] = txn[q]
    BY <1>1, <1>2, <2>2 DEF ActorTypes, TxnRec
  <2>4. client'.told = client.told /\ client'.wrote = client.wrote \cup {x}
    BY <1>1, <2>2 DEF ActorTypes, ClientRec
  <2>5. SessionStep(s, {x})
    BY <1>2, <1>4, <1>8, <2>3, <2>4 DEF SessionStep
  <2>6. Up /\ mode = "up" /\ IdsInv /\ KeepInv /\ PageInv /\ StoreInv
    BY <1>2 DEF CommitInv, SeqInv, Up
  <2>7. Moves({x}, {}) /\ IdShape({})
    BY <2>5, <2>6, SessionMoves DEF Moves
  <2>8. IdsInv' /\ KeepInv'
    BY <1>1, <1>2, <2>6, <2>7, MovesIds, MovesKeep
  <2>9. /\ meta' = meta /\ Len(wal') = Len(wal) + 1 /\ wal'[Len(wal) + 1] = r
        /\ Len(wal) \in Nat
    BY <1>1, <1>6, <1>7, <1>11, AppendFacts DEF LogTypes
  <2>10. PageInv'
    BY <1>1, <1>2, <1>8, <1>11, <2>1, <2>6, <2>9, PageGrows
  <2>11. ASSUME NEW y \in client.wrote PROVE StoreOf(y)'
    <3>1. \A i \in 1..Len(wal') : i > Len(wal) => wal'[i] = r
      BY <2>9
    <3>2. Spares(y)
      BY <1>2, <1>6, <2>1, <3>1 DEF Spares
    <3>3. y \in {x} => clog'.st[y] # "Aborted"
      BY <1>9
    <3> QED  BY <2>6, <2>7, <3>2, <3>3, MovesStore
  <2>12. StoreOf(x)'
    <3>1. ~ Known(x)'
      BY <1>4, <2>6, <2>7, MovesKeep
    <3>2. PICK j : j = Len(wal) + 1
      OBVIOUS
    <3>3. DOMAIN wal' = 1..Len(wal')
      BY <1>1 DEF Types, LogTypes
    <3>4. j \in DOMAIN wal' /\ wal'[j] = r /\ \A k \in DOMAIN wal' : ~ k > j
      BY <2>9, <3>2, <3>3
    <3>5. ~ j <= disk'.lsn
      <4>1. disk.lsn \in Nat /\ meta.durable_end \in Nat /\ meta.visible \in Nat
        BY <1>1 DEF FileTypes, LogTypes
      <4>2. disk.lsn <= meta.durable_end
        BY <2>6 DEF PageInv
      <4>3. meta.durable_end <= Len(wal)
        BY <1>1, <2>9, <4>1 DEF Ends
      <4> QED  BY <1>2, <2>9, <3>2, <4>1, <4>2, <4>3
    <3>6. Stored(j, x)'
      BY <1>6, <3>4, <3>5 DEF Stored
    <3>7. x \in page'.ids
      BY <2>1
    <3> QED  BY <1>9, <3>1, <3>4, <3>6, <3>7 DEF StoreOf
  <2>13. \A y \in client'.wrote : StoreOf(y)'
    BY <2>4, <2>11, <2>12
  <2> QED  BY <2>8, <2>10, <2>13 DEF CommitInv, StoreInv, StoreOf
<1> QED  BY <1>10, <1>11

-----------------------------------------------------------------------------
(* Steps of the checkpoint.                                                *)

\* What a step of the checkpoint does, the replacement of clog.dat apart.
LEMMA CkptGentle ==
  ASSUME OrderInv, CkptStep, ~ CkptWriteClog
  PROVE  /\ Gentle({}) /\ clog_file' = clog_file
         /\ \A i \in 1..Len(wal') : i > Len(wal) => wal'[i].kind \notin {"insert", "prune"}
<1>1. Types /\ LogTypes /\ ActorTypes /\ Ends
  BY DEF OrderInv, Types
<1>2. Len(wal) \in Nat /\ meta.durable_end \in Nat /\ meta.visible \in Nat
  BY <1>1 DEF LogTypes
<1>3. CASE CkptBoundary \/ CkptEnd \/ CkptSnapshot \/ CkptControl
  <2>1. UNCHANGED log /\ clog_file' = clog_file /\ wal' = wal
    BY <1>3 DEF CkptBoundary, CkptEnd, CkptSnapshot, CkptControl, files, log
  <2> QED  BY <1>1, <1>2, <2>1, KeptGentle
<1>4. CASE CkptMarker
  <2>1. PICK r : r = Record(ckpt.boundary - 1, "checkpoint", {}, 0)
    OBVIOUS
  <2>2. ckpt.boundary - 1 \in 0..MaxXid
    BY <1>1, <1>4, DurabilityAssumption DEF CkptMarker, ActorTypes, FIRST_NORMAL_XID
  <2>3. r \in Rec /\ r.kind = "checkpoint"
    BY <2>1, <2>2, RecordFacts
  <2>4. AppendRecord(r) /\ clog_file' = clog_file
    BY <1>4, <2>1 DEF CkptMarker, files
  <2>5. ~ represents_transaction(r)
    BY <2>3 DEF represents_transaction
  <2>6. Gentle({})
    BY <1>1, <2>3, <2>4, <2>5, AppendGentle
  <2> QED  BY <1>1, <2>3, <2>4, <2>6, OtherRecords
<1>5. CASE CkptFlush
  BY <1>1, <1>5, FlushRecords DEF CkptFlush, files
<1>6. CASE CkptRecycle
  <2>1. /\ wal' = wal /\ pending' = pending /\ poisoned' = poisoned /\ clog' = clog
        /\ clog_file' = clog_file /\ meta'.durable_end = meta.durable_end
    BY <1>1, <1>6 DEF CkptRecycle, files, LogTypes
  <2> QED  BY <1>1, <1>2, <2>1 DEF Gentle, Ends
<1>7. CASE CkptFails
  <2>1. clog_file' = clog_file
    BY <1>7 DEF CkptFails, files
  <2>2. CASE UNCHANGED log
    BY <1>1, <1>2, <2>1, <2>2, KeptGentle DEF log
  <2>3. CASE FlushFails \/ FlushUnknown
    BY <1>1, <2>1, <2>3, FlushRecords
  <2>4. CASE /\ wal' = wal /\ pending' = pending /\ poisoned' = TRUE /\ clog' = clog
             /\ \E floor \in {meta.replay_floor, ckpt.redo} :
                  meta' = [meta EXCEPT !.replay_floor = floor]
    <3>1. meta'.durable_end = meta.durable_end
      BY <1>1, <2>4 DEF LogTypes
    <3> QED  BY <1>1, <1>2, <2>1, <2>4, <3>1 DEF Gentle, Ends
  <2> QED  BY <1>7, <2>2, <2>3, <2>4 DEF CkptFails
<1> QED  BY <1>3, <1>4, <1>5, <1>6, <1>7 DEF CkptStep

\* Nothing changes for the sessions, and the server runs.
LEMMA CkptActors ==
  ASSUME OrderInv, CkptStep
  PROVE  /\ Up /\ mode' \in {mode, "up"}
         /\ UNCHANGED <<page, next_xid, txn, vac, client, disk>>
         /\ \A x : Known(x)' = Known(x) /\ InUse(x)' = InUse(x)
         /\ IdsInv => IdsInv'
<1>1. UNCHANGED <<page, next_xid, txn, vac, client, disk>>
  BY CkptFrame
<1>2. Up
  BY DEF OrderInv, CkptInOrder, CkptStep, CkptBoundary, CkptEnd, CkptMarker, CkptFlush,
         CkptSnapshot, CkptWriteClog, CkptControl, CkptRecycle, CkptFails, Up
<1>3. mode' \in {mode, "up"}
  BY DEF CkptStep, CkptBoundary, CkptEnd, CkptMarker, CkptFlush,
         CkptSnapshot, CkptWriteClog, CkptControl, CkptRecycle, CkptFails
<1>4. \A x : Known(x)' = Known(x)
  BY <1>1 DEF Known
<1>5. \A x : InUse(x)' = InUse(x)
  BY <1>1 DEF InUse
<1>6. IdsInv => IdsInv'
  BY <1>1, <1>3 DEF IdsInv
<1> QED  BY <1>1, <1>2, <1>3, <1>4, <1>5, <1>6

\* The positions a checkpoint reads.
LEMMA CkptRedo ==
  ASSUME OrderInv, CkptStep
  PROVE  /\ \/ control'.redo = control.redo
            \/ ckpt.pc \in Taken /\ control'.redo = ckpt.redo
         /\ ckpt'.pc \in Taken => \/ ckpt.pc \in Taken /\ ckpt'.redo = ckpt.redo
                                  \/ page.rec # NoLsn /\ ckpt'.redo = page.rec
                                  \/ page.rec = NoLsn
<1>1. Types /\ ckpt \in CkptRec
  BY DEF OrderInv, Types, ActorTypes
<1>2. \/ control'.redo = control.redo
      \/ ckpt.pc \in Taken /\ control'.redo = ckpt.redo
  BY DEF CkptStep, CkptBoundary, CkptEnd, CkptMarker, CkptFlush, CkptSnapshot, CkptWriteClog,
         CkptControl, CkptRecycle, CkptFails, files, Taken
<1>3. CkptEnd => page.rec = NoLsn \/ ckpt'.redo = page.rec
  BY <1>1 DEF CkptEnd, CkptMove, CkptRec
<1>4. CkptBoundary /\ ckpt'.pc = "bounded" => ckpt'.pc \notin Taken
  BY DEF Taken
<1>5. ckpt'.pc = "idle" => ckpt'.pc \notin Taken
  BY DEF Taken
<1> QED  BY <1>1, <1>2, <1>3, <1>4, <1>5, CkptReads

\* A step that does not replace clog.dat keeps the page and the row versions.
LEMMA CkptPage ==
  ASSUME OrderInv, OrderInv', CommitInv, CkptStep, ~ CkptWriteClog
  PROVE  PageInv' /\ StoreInv'
<1>1. Types /\ LogTypes /\ Ends /\ Types' /\ LogTypes' /\ ActorTypes
  BY DEF OrderInv, Types
<1>2. /\ Gentle({})
      /\ \A i \in 1..Len(wal') : i > Len(wal) => wal'[i].kind \notin {"insert", "prune"}
  BY CkptGentle
<1>3. /\ Up /\ UNCHANGED <<page, client, disk>>
      /\ \A x : Known(x)' = Known(x) /\ InUse(x)' = InUse(x)
  BY CkptActors
<1>4. PageInv'
  BY <1>1, <1>2, <1>3, CkptRedo, PageStays DEF CommitInv
<1>5. ASSUME NEW x \in client'.wrote PROVE StoreOf(x)'
  <2>1. x \in client.wrote /\ x \in Xid
    BY <1>1, <1>3, <1>5 DEF ActorTypes, ClientRec
  <2>2. StoreOf(x)
    BY <2>1 DEF CommitInv, StoreInv, StoreOf
  <2>3. Spares(x)
    BY <1>2, <1>3 DEF Spares
  <2>4. clog'.st[x] \in {clog.st[x], "Committed"}
    BY <1>2, <2>1 DEF Gentle
  <2>5. (Known(x)' \/ InUse(x)') /\ Up' => clog'.st[x] # "Aborted"
    BY <1>3, <2>2, <2>4 DEF StoreOf
  <2> QED  BY <1>1, <1>2, <1>3, <2>1, <2>2, <2>3, <2>5, StoreStays
<1> QED  BY <1>4, <1>5 DEF StoreInv, StoreOf

\* It keeps the commits; the snapshot apart.
LEMMA CkptKeep ==
  ASSUME OrderInv, OrderInv', CommitInv, CkptStep, ~ CkptWriteClog, ~ CkptSnapshot
  PROVE  KeepInv'
<1>1. /\ Types /\ LogTypes /\ Ends /\ Types' /\ LogTypes' /\ CkptInOrder /\ KeepInv
      /\ clog_file.lsn <= meta.durable_end
  BY DEF OrderInv, Types, CommitInv, KeepInv
<1>2. Gentle({}) /\ clog_file' = clog_file
  BY CkptGentle
<1>3. Up /\ txn' = txn /\ \A x : Known(x)' = Known(x)
  BY CkptActors
<1>4. ckpt'.pc # "write"
  <2>1. ckpt \in CkptRec
    BY <1>1 DEF Types, ActorTypes
  <2>2. CASE CkptRecycle \/ CkptFails
    <3>1. ckpt' = NoCheckpoint
      BY <2>2 DEF CkptRecycle, CkptFails, CkptMove
    <3> QED  BY <3>1 DEF NoCheckpoint
  <2>5. CASE CkptBoundary
    <3>1. ckpt.pc \notin Taken
      BY <2>5 DEF CkptBoundary, Taken
    <3> QED  BY <1>1, <3>1, CkptReads
  <2>3. CASE CkptEnd
    BY <2>1, <2>3 DEF CkptEnd, CkptMove, CkptRec
  <2>4. CASE CkptMarker \/ CkptFlush \/ CkptControl
    BY <2>1, <2>4 DEF CkptMarker, CkptFlush, CkptControl, CkptMove, CkptRec
  <2> QED  BY <2>2, <2>3, <2>4, <2>5 DEF CkptStep
<1>5. ASSUME NEW x \in Xid, Known(x)' PROVE Kept(x)'
  <2>1. Kept(x)
    BY <1>1, <1>3, <1>5 DEF KeepInv
  <2> QED  BY <1>1, <1>2, <1>3, <1>4, <2>1, KeptStays
<1>6. ASSUME NEW s \in Session, txn'[s].pc = "flush", ~ poisoned', NEW x \in Family(txn'[s])
      PROVE  Kept(x)' \/ Waiting(x)'
  <2>1. x \in Xid
    BY <1>1, <1>6, FamilyXidNext DEF Types
  <2>2. ~ poisoned
    BY <1>2, <1>6 DEF Gentle
  <2>3. Kept(x) \/ Waiting(x)
    BY <1>1, <1>3, <1>6, <2>2 DEF KeepInv
  <2>4. CASE Kept(x)
    BY <1>1, <1>2, <1>3, <1>4, <2>1, <2>4, KeptStays
  <2>5. CASE Waiting(x)
    BY <1>1, <1>2, <1>4, <1>6, <2>1, <2>5, WaitingStays
  <2> QED  BY <2>3, <2>4, <2>5
<1>7. clog_file'.lsn <= meta'.durable_end
  <2>1. clog_file.lsn \in Nat /\ meta.durable_end \in Nat
    BY <1>1, OrderNats DEF Nats
  <2>2. meta'.durable_end \in Nat
    BY <1>1, OrderNatsNext DEF Nats
  <2>3. meta.durable_end <= meta'.durable_end
    BY <1>2 DEF Gentle
  <2> QED  BY <1>1, <1>2, <2>1, <2>2, <2>3
<1> QED  BY <1>5, <1>6, <1>7 DEF KeepInv

\* The snapshot has every status that is committed.
LEMMA CkptSnapshotKeep ==
  ASSUME OrderInv, CommitInv, CkptSnapshot
  PROVE  KeepInv'
<1>1. Types /\ LogTypes /\ ActorTypes /\ FileTypes /\ KeepInv /\ CkptStep
  BY DEF OrderInv, Types, CommitInv, CkptStep
<1>2. UNCHANGED <<wal, meta, pending, poisoned, clog, clog_file, mode>>
  BY DEF CkptSnapshot, log, files
<1>3. Up /\ txn' = txn /\ \A x : Known(x)' = Known(x)
  BY <1>1, CkptActors
<1>4. PICK f : f = live_snapshot(clog, meta.durable_end, ckpt.redo, vacuum_floor, ckpt.active,
                                 ckpt.boundary)
  OBVIOUS
<1>5. ckpt'.snapshot = f
  BY <1>1, <1>4 DEF CkptSnapshot, CkptMove, ActorTypes, CkptRec
<1>6. /\ clog \in Clog /\ meta.durable_end \in Nat /\ ckpt.redo \in Nat /\ vacuum_floor \in Nat
      /\ ckpt.active \in SUBSET Xid /\ ckpt.boundary \in Nat
  BY <1>1 DEF LogTypes, ActorTypes, FileTypes, CkptRec
<1>7. /\ clog.floor <= f.floor /\ f \in ClogFile
      /\ \A x \in Xid : f.st[x] = IF x < f.floor THEN "None"
                                  ELSE IF x \in ckpt.active /\ status(clog, x) = "InProgress"
                                  THEN "InProgress" ELSE clog.st[x]
  <2>1. ASSUME NEW c \in Clog, NEW l \in Nat, NEW a \in Nat, NEW v \in Nat,
               NEW k \in SUBSET Xid, NEW b \in Nat, f = live_snapshot(c, l, a, v, k, b)
        PROVE  c.floor <= f.floor /\ f \in ClogFile
    BY <2>1, SnapshotFacts
  <2>2. PICK m : m = snapshot_floor(clog, vacuum_floor, ckpt.active, ckpt.boundary)
    OBVIOUS
  <2>3. /\ f.floor = m
        /\ f.st = [x \in Xid |-> IF x < m THEN "None"
                                 ELSE IF x \in ckpt.active /\ status(clog, x) = "InProgress"
                                 THEN "InProgress" ELSE clog.st[x]]
    BY <1>4, <2>2 DEF live_snapshot
  <2> QED  BY <1>4, <1>6, <2>1, <2>3
<1>8. ASSUME NEW x \in Xid, Kept(x) PROVE Kept(x)'
  <2>1. status(clog, x) = "Committed"
    BY <1>3, <1>8 DEF Kept
  <2>2. x \in Nat /\ clog.floor \in Nat /\ f.floor \in Nat /\ ~ x < FIRST_NORMAL_XID
    BY <1>6, <1>7, DurabilityAssumption DEF Clog, ClogFile, Xid, FIRST_NORMAL_XID
  <2>3. clog.st[x] = "Committed" \/ (clog.st[x] = "None" /\ x < clog.floor)
    BY <2>1, <2>2 DEF status
  <2>4. status(f, x) = "Committed"
    <3>1. CASE x < f.floor
      <4>1. f.st[x] = "None"
        BY <1>7, <3>1
      <4> QED  BY <2>2, <3>1, <4>1 DEF status
    <3>2. CASE ~ x < f.floor
      <4>1. ~ x < clog.floor
        BY <1>7, <2>2, <3>2
      <4>2. f.st[x] = "Committed"
        BY <1>7, <2>1, <2>3, <3>2, <4>1
      <4> QED  BY <2>2, <4>2 DEF status
    <3> QED  BY <3>1, <3>2
  <2>5. FileHas(ckpt.snapshot, x)'
    BY <1>5, <2>4 DEF FileHas
  <2>6. Durable(x)' /\ FileHas(clog_file, x)'
    BY <1>2, <1>8 DEF Kept, Durable, FileHas, Lasting, CommitAt, AbortAt
  <2> QED  BY <1>2, <2>1, <2>5, <2>6 DEF Kept
<1>9. \A x : Waiting(x) => Waiting(x)'
  BY <1>2 DEF Waiting, Lasting, CommitAt, AbortAt
<1>10. \A s \in Session : Family(txn[s]) \in SUBSET Xid
  BY <1>1, FamilyXid
<1>11. \A x \in Xid : Known(x)' => Kept(x)'
  BY <1>1, <1>3, <1>8 DEF KeepInv
<1>12. ASSUME NEW s \in Session, txn'[s].pc = "flush", ~ poisoned', NEW x \in Family(txn'[s])
       PROVE  Kept(x)' \/ Waiting(x)'
  <2>1. Kept(x) \/ Waiting(x)
    BY <1>1, <1>2, <1>3, <1>12 DEF KeepInv
  <2> QED  BY <1>3, <1>8, <1>9, <1>10, <1>12, <2>1
<1> QED  BY <1>1, <1>2, <1>11, <1>12 DEF KeepInv

\* The snapshot becomes the file, and the statuses below its floor are forgotten.
LEMMA CkptWriteClogCommits ==
  ASSUME OrderInv, CommitInv, CkptWriteClog
  PROVE  CommitInv'
<1>1. /\ Types /\ LogTypes /\ ActorTypes /\ FileTypes /\ CkptStep
      /\ IdsInv /\ KeepInv /\ PageInv /\ StoreInv
  BY DEF OrderInv, Types, CommitInv, CkptStep
<1>2. /\ UNCHANGED <<wal, meta, pending, poisoned, control, disk, mode>>
      /\ ckpt.pc = "write" /\ clog_file' = ckpt.snapshot
      /\ clog' = prune_to(clog, ckpt.snapshot.floor)
  BY DEF CkptWriteClog
<1>3. /\ Up /\ UNCHANGED <<page, txn, client>> /\ IdsInv'
      /\ \A x : Known(x)' = Known(x) /\ InUse(x)' = InUse(x)
  BY <1>1, CkptActors
<1>4. ckpt'.pc = "control" /\ ckpt'.redo = ckpt.redo
  BY <1>1 DEF CkptWriteClog, CkptMove, ActorTypes, CkptRec
<1>5. clog \in Clog /\ clog.floor \in Nat /\ ckpt.snapshot.floor \in Nat
  BY <1>1, <1>2 DEF LogTypes, ActorTypes, Clog, ClogFile
<1>6. PICK m : m = Max({clog.floor, ckpt.snapshot.floor})
  OBVIOUS
<1>7. /\ clog'.floor = m /\ m \in Nat /\ clog.floor <= m
      /\ \A x \in Xid : clog'.st[x] = IF x < m THEN "None" ELSE clog.st[x]
  BY <1>2, <1>5, <1>6, PruneFacts, PairFacts
<1>8. ASSUME NEW x \in Xid, Kept(x) PROVE Kept(x)'
  <2>1. FileHas(ckpt.snapshot, x) /\ status(clog, x) = "Committed"
    BY <1>2, <1>3, <1>8 DEF Kept
  <2>2. FileHas(clog_file, x)'
    BY <1>2, <2>1 DEF FileHas, CommitAt
  <2>3. Durable(x)'
    BY <1>2, <1>8 DEF Kept, Durable, Lasting, CommitAt, AbortAt
  <2>4. x \in Nat /\ ~ x < FIRST_NORMAL_XID
    BY DurabilityAssumption DEF Xid, FIRST_NORMAL_XID
  <2>5. status(clog', x) = "Committed"
    <3>1. CASE x < m
      <4>1. clog'.st[x] = "None" /\ x < clog'.floor
        BY <1>7, <3>1
      <4> QED  BY <2>4, <4>1 DEF status
    <3>2. CASE ~ x < m
      <4>1. clog'.st[x] = clog.st[x] /\ ~ x < clog.floor
        BY <1>5, <1>7, <2>4, <3>2
      <4> QED  BY <2>1, <2>4, <4>1 DEF status
    <3> QED  BY <3>1, <3>2
  <2> QED  BY <1>4, <2>2, <2>3, <2>5 DEF Kept
<1>9. \A x : Waiting(x) => Waiting(x)'
  BY <1>2 DEF Waiting, Lasting, CommitAt, AbortAt
<1>10. \A s \in Session : Family(txn[s]) \in SUBSET Xid
  BY <1>1, FamilyXid
<1>11. \A x \in Xid : Known(x)' => Kept(x)'
  BY <1>1, <1>3, <1>8 DEF KeepInv
<1>12. ASSUME NEW s \in Session, txn'[s].pc = "flush", ~ poisoned', NEW x \in Family(txn'[s])
       PROVE  Kept(x)' \/ Waiting(x)'
  <2>1. Kept(x) \/ Waiting(x)
    BY <1>1, <1>2, <1>3, <1>12 DEF KeepInv
  <2> QED  BY <1>3, <1>8, <1>9, <1>10, <1>12, <2>1
<1>13. clog_file'.lsn <= meta'.durable_end
  BY <1>2 DEF OrderInv, CkptInOrder
<1>14. KeepInv'
  BY <1>11, <1>12, <1>13 DEF KeepInv
<1>15. PageInv'
  <2>1. Up' = Up /\ ckpt.pc \in Taken
    BY <1>2 DEF Up, Taken
  <2> QED  BY <1>1, <1>2, <1>3, <1>4, <2>1 DEF PageInv
<1>16. ASSUME NEW x \in client'.wrote PROVE StoreOf(x)'
  <2>1. x \in client.wrote /\ x \in Xid
    BY <1>1, <1>3, <1>16 DEF ActorTypes, ClientRec
  <2>2. StoreOf(x)
    BY <1>1, <2>1 DEF StoreInv, StoreOf
  <2>3. clog'.st[x] \in {clog.st[x], "None"}
    BY <1>7, <2>1
  <2>4. \A i : Stored(i, x) => Stored(i, x)'
    BY <1>2 DEF Stored
  <2> QED  BY <1>2, <1>3, <2>2, <2>3, <2>4 DEF StoreOf
<1>17. StoreInv'
  BY <1>16 DEF StoreInv, StoreOf
<1> QED  BY <1>3, <1>14, <1>15, <1>17 DEF CommitInv

\* Every step of the checkpoint keeps the commits.
LEMMA CkptCommits ==
  ASSUME OrderInv, OrderInv', CommitInv, CkptStep
  PROVE  CommitInv'
<1>1. CASE CkptWriteClog
  BY <1>1, CkptWriteClogCommits
<1>2. CASE ~ CkptWriteClog
  <2>1. KeepInv'
    BY <1>2, CkptKeep, CkptSnapshotKeep
  <2>2. IdsInv'
    BY CkptActors DEF CommitInv
  <2> QED  BY <1>2, <2>1, <2>2, CkptPage DEF CommitInv
<1> QED  BY <1>1, <1>2

-----------------------------------------------------------------------------
(* Crash and recovery.                                                     *)

\* A crash loses nothing that is durable.
LEMMA DownCommits ==
  ASSUME OrderInv, OrderInv', CommitInv, Crash \/ ExitUnknown
  PROVE  CommitInv'
<1>1. Types /\ LogTypes /\ ActorTypes /\ FileTypes /\ Ends /\ IdsInv /\ KeepInv /\ PageInv /\ StoreInv
  BY DEF OrderInv, Types, CommitInv
<1>2. /\ mode' = "down" /\ ckpt' = NoCheckpoint /\ vac' = NoVacuum
      /\ \A s \in Session : txn'[s] = Idle
      /\ UNCHANGED <<clog, clog_file, control, disk, next_xid, client>>
  BY <1>1, DownFacts
<1>3. PICK end \in Nat :
        /\ meta.durable_end <= end /\ end <= Len(wal) /\ meta'.durable_end = end
        /\ Len(wal') = end /\ \A i \in 1..end : wal'[i] = wal[i]
  BY <1>1, DownFacts
<1>4. /\ DOMAIN wal = 1..Len(wal) /\ DOMAIN wal' = 1..end /\ Len(wal) \in Nat
      /\ meta.durable_end \in Nat /\ clog_file.lsn \in Nat /\ disk.lsn \in Nat
  BY <1>1, <1>3 DEF LogTypes, FileTypes, ClogFile, OrderInv, Types
<1>5. ~ Up' /\ ckpt'.pc = "idle" /\ ckpt'.pc \notin Taken
  BY <1>2 DEF Up, NoCheckpoint, Taken
<1>6. \A s \in Session : Family(txn'[s]) = {} /\ txn'[s].pc = "idle" /\ txn'[s].sub = NoXid
  BY <1>2, FamilyFacts DEF Idle
<1>7. \A x : ~ InUse(x)' /\ (Known(x)' => Known(x))
  BY <1>2, <1>6 DEF InUse, Known
<1>8. IdsInv'
  BY <1>2, <1>6 DEF IdsInv, NoVacuum
<1>9. ASSUME NEW x \in Xid, Known(x)' PROVE Kept(x)'
  <2>1. Kept(x)
    BY <1>1, <1>7, <1>9 DEF KeepInv
  <2>2. \A j \in DOMAIN wal : j <= meta.durable_end =>
          j \in DOMAIN wal' /\ wal'[j] = wal[j] /\ j <= meta'.durable_end
    BY <1>3, <1>4
  <2>3. \A j \in DOMAIN wal' : j \in DOMAIN wal /\ wal'[j] = wal[j]
    BY <1>3, <1>4
  <2>4. Durable(x)'
    <3>1. PICK j \in DOMAIN wal : j <= meta.durable_end /\ Lasting(j, x)
      BY <2>1 DEF Kept, Durable
    <3>2. Lasting(j, x)'
      BY <2>2, <2>3, <3>1 DEF Lasting, CommitAt, AbortAt
    <3> QED  BY <2>2, <3>1, <3>2 DEF Durable
  <2>5. FileHas(clog_file, x)'
    <3>1. CASE status(clog_file, x) = "Committed"
      BY <1>2, <3>1 DEF FileHas
    <3>2. CASE \E i \in DOMAIN wal : clog_file.lsn < i /\ i <= meta.durable_end /\ CommitAt(i, x)
      BY <1>2, <2>2, <3>2 DEF FileHas, CommitAt
    <3> QED  BY <2>1, <3>1, <3>2 DEF Kept, FileHas
  <2> QED  BY <1>5, <2>4, <2>5 DEF Kept
<1>10. clog_file'.lsn <= meta'.durable_end
  <2>1. clog_file.lsn <= meta.durable_end
    BY <1>1 DEF KeepInv
  <2> QED  BY <1>2, <1>3, <1>4, <2>1
<1>11. KeepInv'
  BY <1>6, <1>9, <1>10 DEF KeepInv
<1>12. PageInv'
  <2>1. disk.lsn <= meta.durable_end
    BY <1>1 DEF PageInv
  <2>2. disk'.lsn <= meta'.durable_end
    BY <1>2, <1>3, <1>4, <2>1
  <2>3. ASSUME NEW i \in DOMAIN wal', wal'[i].kind \in {"insert", "prune"} PROVE Redone(i)'
    <3>1. i \in DOMAIN wal /\ wal[i].kind \in {"insert", "prune"}
      BY <1>3, <1>4, <2>3
    <3>2. i > disk.lsn => i > control.redo
      BY <1>1, <3>1 DEF PageInv
    <3> QED  BY <1>2, <1>5, <3>2 DEF Redone
  <2> QED  BY <1>5, <2>2, <2>3 DEF PageInv, Redone
<1>13. ASSUME NEW x \in client'.wrote PROVE StoreOf(x)'
  <2>1. ASSUME Known(x)' PROVE \E i \in DOMAIN wal' : i <= meta'.durable_end /\ Stored(i, x)'
    <3>1. PICK i \in DOMAIN wal : i <= meta.durable_end /\ Stored(i, x)
      BY <1>1, <1>2, <1>7, <1>13, <2>1 DEF StoreInv
    <3>2. i \in DOMAIN wal' /\ i <= meta'.durable_end
      BY <1>3, <1>4, <3>1
    <3>3. \A k \in DOMAIN wal' : k \in DOMAIN wal /\ wal'[k] = wal[k]
      BY <1>3, <1>4
    <3>4. Stored(i, x)'
      BY <1>2, <3>1, <3>2, <3>3 DEF Stored
    <3> QED  BY <3>2, <3>4
  <2> QED  BY <1>5, <1>7, <2>1 DEF StoreOf
<1>14. StoreInv'
  BY <1>13 DEF StoreInv, StoreOf
<1> QED  BY <1>8, <1>11, <1>12, <1>14 DEF CommitInv

\* Recovery finds a kept commit: the last record that settles it is not an abort, and
\* without such a record the file has it.
LEMMA RestartStatus ==
  ASSUME OrderInv, Restart, NEW x \in Xid, Durable(x), FileHas(clog_file, x)
  PROVE  status(clog', x) = "Committed"
<1>1. Types /\ LogTypes /\ Ends /\ FileTypes /\ ~ Refuses
  BY RestartOrder DEF OrderInv, Types
<1>2. PICK S : S = {i \in DOMAIN wal : i > clog_file.lsn /\ Settles(wal[i], x)}
  OBVIOUS
<1>3. /\ clog_file.floor <= clog'.floor /\ Types'
      /\ S # {} /\ wal[Max(S)].kind = "commit" => clog'.st[x] = "Committed"
      /\ S = {} /\ status(clog_file, x) = "Committed" => clog'.st[x] = clog_file.st[x]
  BY <1>1, <1>2, RestartFacts
<1>4. /\ clog_file.floor \in Nat /\ clog'.floor \in Nat /\ clog_file.lsn \in Nat
      /\ x \in Nat /\ ~ x < FIRST_NORMAL_XID /\ DOMAIN wal \subseteq Nat
  <2>1. clog_file \in ClogFile /\ clog' \in Clog /\ wal \in Seq(Rec)
    BY <1>1, <1>3 DEF Types, LogTypes, FileTypes
  <2>2. clog_file.floor \in Nat /\ clog'.floor \in Nat /\ clog_file.lsn \in Nat
    BY <2>1 DEF Clog, ClogFile
  <2>3. DOMAIN wal \subseteq Nat
    BY <2>1
  <2>4. x \in Nat /\ ~ x < FIRST_NORMAL_XID
    BY DurabilityAssumption DEF Xid, FIRST_NORMAL_XID
  <2> QED  BY <2>2, <2>3, <2>4
<1>5. CASE S # {}
  <2>1. PICK m : m = Max(S)
    OBVIOUS
  <2>2. m \in S /\ \A i \in S : i <= m
    BY <1>1, <1>2, <1>5, <2>1, PositionFacts
  <2>3. PICK j \in DOMAIN wal : Lasting(j, x)
    BY DEF Durable
  <2>4. m \in DOMAIN wal /\ m > clog_file.lsn /\ Settles(wal[m], x)
    BY <1>2, <2>2
  <2>5. m >= j
    <3>1. CASE j > clog_file.lsn
      <4>1. j \in S
        BY <1>2, <2>3, <3>1 DEF Lasting, CommitAt, Settles
      <4> QED  BY <1>4, <2>2, <2>4, <4>1
    <3>2. CASE ~ j > clog_file.lsn
      BY <1>4, <2>4, <3>2
    <3> QED  BY <3>1, <3>2
  <2>6. ~ AbortAt(m, x)
    <3>1. CASE m = j
      BY <2>3, <3>1 DEF Lasting, CommitAt, AbortAt
    <3>2. CASE m > j
      BY <2>3, <2>4, <3>2 DEF Lasting
    <3> QED  BY <1>4, <2>4, <2>5, <3>1, <3>2
  <2>7. wal[m].kind = "commit"
    BY <2>4, <2>6 DEF Settles, AbortAt
  <2>8. clog'.st[x] = "Committed"
    BY <1>3, <1>5, <2>1, <2>7
  <2> QED  BY <1>4, <2>8 DEF status
<1>6. CASE S = {}
  <2>1. status(clog_file, x) = "Committed"
    BY <1>2, <1>6 DEF FileHas, CommitAt, Settles
  <2>2. clog'.st[x] = clog_file.st[x]
    BY <1>3, <1>6, <2>1
  <2>3. x < clog_file.floor => x < clog'.floor
    BY <1>3, <1>4
  <2> QED  BY <1>4, <2>1, <2>2, <2>3 DEF status
<1> QED  BY <1>5, <1>6

\* Recovery keeps the commits.
LEMMA RestartCommits ==
  ASSUME OrderInv, OrderInv', CommitInv, SeqInv, Restart
  PROVE  CommitInv'
<1>1. Types /\ LogTypes /\ ActorTypes /\ FileTypes /\ Ends /\ IdsInv /\ KeepInv /\ PageInv /\ StoreInv
  BY DEF OrderInv, Types, CommitInv
<1>2. ~ Refuses
  BY RestartOrder
<1>3. /\ mode = "down" /\ mode' \in {"up", "recovered"} /\ page' = redo_page
      /\ UNCHANGED <<wal, meta, pending, poisoned, clog_file, control, disk, txn, vac, ckpt, client>>
  BY <1>1, <1>2, RestartFacts
<1>4. ckpt.pc = "idle" /\ ckpt.pc \notin Taken /\ ckpt.pc # "write"
  BY <1>3 DEF OrderInv, CkptInOrder, Taken
<1>5. \A s \in Session : txn[s].pc = "idle" /\ Family(txn[s]) = {}
  BY <1>1, <1>3 DEF SeqInv, IdsInv
<1>6. \A x : ~ InUse(x)' /\ (Known(x)' => Known(x))
  BY <1>3, <1>5 DEF InUse, Known
<1>7. vac.pc = "idle" /\ vac.xid = NoXid
  BY <1>1, <1>3 DEF IdsInv
<1>8. IdsInv'
  BY <1>1, <1>3, <1>5, <1>7 DEF IdsInv
<1>9. ASSUME NEW x \in Xid, Known(x)' PROVE Kept(x)' /\ status(clog', x) = "Committed"
  <2>1. Kept(x)
    BY <1>1, <1>6, <1>9 DEF KeepInv
  <2>2. status(clog', x) = "Committed"
    BY <2>1, RestartStatus DEF Kept
  <2>3. Durable(x)' /\ FileHas(clog_file, x)'
    BY <1>3, <2>1 DEF Kept, Durable, FileHas, Lasting, CommitAt, AbortAt
  <2> QED  BY <1>3, <1>4, <2>2, <2>3 DEF Kept
<1>10. KeepInv'
  BY <1>1, <1>3, <1>5, <1>9 DEF KeepInv
<1>11. /\ DOMAIN wal = 1..Len(wal) /\ Len(wal) \in Nat /\ disk.lsn \in Nat /\ meta.durable_end \in Nat
       /\ meta.visible \in Nat
  BY <1>1 DEF LogTypes, FileTypes
<1>12. /\ redo_page.lsn \in Nat /\ disk.lsn <= redo_page.lsn
       /\ redo_page.lsn = disk.lsn \/ redo_page.lsn \in DOMAIN wal
       /\ \A i \in DOMAIN wal :
            wal[i].kind \in {"insert", "prune"} /\ i > control.redo /\ i > disk.lsn =>
              /\ redo_page.rec # NoLsn /\ i > redo_page.rec /\ i <= redo_page.lsn
  BY <1>1, RedoPageFacts
<1>13. PageInv'
  <2>1. disk.lsn <= meta.durable_end /\ meta.durable_end <= Len(wal)
    BY <1>1, <1>11 DEF PageInv, Ends
  <2>2. page'.lsn <= Len(wal')
    BY <1>3, <1>11, <1>12, <2>1
  <2>3. ASSUME NEW i \in DOMAIN wal, wal[i].kind \in {"insert", "prune"} PROVE Redone(i)'
    <3>1. i > disk.lsn => i > control.redo
      BY <1>1, <2>3 DEF PageInv
    <3>2. CASE i > disk.lsn
      BY <1>3, <1>4, <1>12, <2>3, <3>1, <3>2 DEF Redone
    <3>3. CASE ~ i > disk.lsn
      <4>1. i <= redo_page.lsn
        BY <1>11, <1>12, <3>3
      <4> QED  BY <1>3, <3>3, <4>1 DEF Redone
    <3> QED  BY <3>2, <3>3
  <2> QED  BY <1>3, <2>1, <2>2, <2>3 DEF PageInv, Redone
<1>14. ASSUME NEW x \in client'.wrote PROVE StoreOf(x)'
  <2>1. x \in client.wrote /\ x \in Xid
    BY <1>1, <1>3, <1>14 DEF ActorTypes, ClientRec
  <2>2. ASSUME Known(x)'
        PROVE  /\ \E i \in DOMAIN wal' : i <= meta'.durable_end /\ Stored(i, x)'
               /\ x \in page'.ids /\ clog'.st[x] # "Aborted"
    <3>1. PICK i \in DOMAIN wal : i <= meta.durable_end /\ Stored(i, x)
      BY <1>1, <1>6, <2>1, <2>2 DEF StoreInv
    <3>2. i > disk.lsn => i > control.redo
      BY <1>1, <3>1 DEF PageInv, Stored
    <3>3. x \in redo_page.ids
      BY <1>1, <2>1, <3>1, <3>2, RedoPageFacts
    <3>4. Stored(i, x)'
      BY <1>3, <3>1 DEF Stored
    <3>5. clog'.st[x] # "Aborted"
      <4>1. status(clog', x) = "Committed"
        BY <1>9, <2>1, <2>2
      <4>2. ~ x < FIRST_NORMAL_XID
        BY <2>1, DurabilityAssumption DEF Xid, FIRST_NORMAL_XID
      <4> QED  BY <4>1, <4>2 DEF status
    <3> QED  BY <1>3, <3>1, <3>3, <3>4, <3>5
  <2> QED  BY <1>6, <2>2 DEF StoreOf
<1>15. StoreInv'
  BY <1>14 DEF StoreInv, StoreOf
<1> QED  BY <1>8, <1>10, <1>13, <1>15 DEF CommitInv

-----------------------------------------------------------------------------
(* The theorem.                                                            *)

LEMMA CommitInit ==
  ASSUME Init
  PROVE  CommitInv
<1>1. /\ wal = <<>> /\ meta.durable_end = 0 /\ clog_file.lsn = 0 /\ disk.lsn = 0 /\ page.lsn = 0
      /\ client.wrote = {} /\ vac.xid = NoXid /\ vac.pc = "idle"
      /\ client.told = [x \in Xid |-> "none"]
      /\ \A s \in Session : txn[s].pc = "idle" /\ Family(txn[s]) = {} /\ txn[s].sub = NoXid
  BY FamilyFacts DEF Init, NoClogFile, NoVacuum, Idle
<1>2. \A x \in Xid : ~ Known(x)
  BY <1>1 DEF Known
<1>3. DOMAIN wal = {} /\ Len(wal) = 0
  BY <1>1
<1>4. IdsInv
  BY <1>1 DEF IdsInv
<1>5. KeepInv
  BY <1>1, <1>2 DEF KeepInv
<1>6. PageInv
  BY <1>1, <1>3 DEF PageInv
<1>7. StoreInv
  BY <1>1 DEF StoreInv
<1> QED  BY <1>4, <1>5, <1>6, <1>7 DEF CommitInv

\* A step of a session.
LEMMA SessionNext ==
  ASSUME OrderInv, OrderInv', CommitInv, SeqInv, NEW s \in Session,
         \/ Begin(s) \/ Savepoint(s) \/ Insert(s) \/ RollbackTo(s) \/ Abort(s)
         \/ EndReadOnly(s) \/ CommitAppend(s) \/ CommitFlush(s) \/ CommitFlushFails(s)
         \/ CommitSettle(s) \/ NextvalAppend(s) \/ NextvalReturn(s) \/ NextvalFails(s)
  PROVE  CommitInv'
BY BeginCommits, InsertCommits, RollbackToCommits, AbortCommits, EndReadOnlyCommits,
   CommitAppendCommits, CommitFlushCommits, CommitFlushFailsCommits, CommitSettleCommits,
   NextvalCommits

\* The raise of the floor, and a step that changes nothing.
LEMMA FloorCommits ==
  ASSUME OrderInv, OrderInv', CommitInv, VacuumFloor \/ UNCHANGED vars
  PROVE  CommitInv'
<1>1. CASE VacuumFloor
  <2>1. /\ UNCHANGED <<wal, meta, pending, poisoned, clog>>
        /\ UNCHANGED <<page, disk, control, clog_file, ckpt, mode, txn, next_xid, client>>
        /\ vac' = NoVacuum
    BY <1>1 DEF VacuumFloor, log, files
  <2>2. vac'.xid = NoXid /\ vac'.pc = "idle"
    BY <2>1 DEF NoVacuum
  <2> QED  BY <2>1, <2>2, QuietCommits
<1>2. CASE UNCHANGED vars
  BY <1>2, QuietCommits DEF vars, CommitInv, IdsInv
<1> QED  BY <1>1, <1>2

LEMMA CommitStep ==
  ASSUME OrderInv, SeqInv, CommitInv, [Next]_vars
  PROVE  CommitInv'
<1>1. OrderInv'
  BY OrderStep
<1>2. CASE \E s \in Session :
             \/ Begin(s) \/ Savepoint(s) \/ Insert(s) \/ RollbackTo(s) \/ Abort(s)
             \/ EndReadOnly(s) \/ CommitAppend(s) \/ CommitFlush(s) \/ CommitFlushFails(s)
             \/ CommitSettle(s) \/ NextvalAppend(s) \/ NextvalReturn(s) \/ NextvalFails(s)
  BY <1>1, <1>2, SessionNext
<1>3. CASE \/ VacuumBegin \/ VacuumCommit \/ VacuumFlush \/ VacuumFlushFails \/ VacuumAbort
           \/ VacuumPrune \/ VacuumFloor \/ WritePage \/ WritePageFails \/ UNCHANGED vars
  BY <1>1, <1>3, VacuumBeginCommits, VacuumAppendCommits, VacuumFlushCommits, VacuumPruneCommits,
     FloorCommits, WritePageCommits
<1>4. CASE CkptStep
  BY <1>1, <1>4, CkptCommits
<1>5. CASE Crash \/ ExitUnknown
  BY <1>1, <1>5, DownCommits
<1>6. CASE Restart
  BY <1>1, <1>6, RestartCommits
<1> QED  BY <1>2, <1>3, <1>4, <1>5, <1>6 DEF Next, CkptStep

(***************************************************************************)
(* A commit the client was told of is never lost: whenever the server      *)
(* runs, its status is committed and its row version is on the page,       *)
(* whatever flush failed or was left of unknown outcome, whatever a        *)
(* checkpoint forgot and wherever a crash struck (append_and_flush_commit, *)
(* Clog::live_snapshot and prune_to, FileWalManager::open, open_app).      *)
(***************************************************************************)
THEOREM CommitsAlwaysDurable == Spec => []CommitsDurable
<1> DEFINE Inv == OrderInv /\ SeqInv /\ CommitInv
<1>1. Init => Inv
  BY OrderInit, SeqInit, CommitInit
<1>2. Inv /\ [Next]_vars => Inv'
  BY OrderStep, SeqStep, CommitStep
<1>3. Inv => CommitsDurable
  BY DEF CommitInv, KeepInv, StoreInv, Kept, Known, Up, CommitsDurable
<1> QED  BY <1>1, <1>2, <1>3, PTL DEF Spec
=============================================================================
