--------------------------- MODULE SessionProofs ---------------------------
(* What holds of every server, whatever its clients send and whenever they       *)
(* cancel, for any set of connections and any configuration.  Around the          *)
(* statements: the counters that trigger background work are exact, shutdown does *)
(* not sleep through the last query's end, and the server is quiet when it takes  *)
(* its final checkpoint.  In the sessions: no statement is canceled by a request  *)
(* that was not meant for it, no cycle has two errors, no cursor outlives its     *)
(* transaction, no disconnected client leaves its transaction behind, no durable  *)
(* statement of the extended protocol is reported as failed.                  *)
EXTENDS Session, FiniteSetTheorems, TLAPS

-----------------------------------------------------------------------------
(* The steps, sorted by what they change                                    *)

(* A step that only changes sessions.                                       *)
Inner == UNCHANGED lvars

(* A statement's end or a COPY worker's end, which may have something to count. *)
Committing(c) ==
  /\ Counting(c, TRUE) \/ UNCHANGED counter_vars
  /\ UNCHANGED <<scale, down>> /\ UNCHANGED shutdown_vars /\ UNCHANGED worker_vars

(* A refused query's guard goes back.                                       *)
Refusing(c) ==
  /\ guard[c] = "refused"
  /\ guard' = [guard EXCEPT ![c] = "none"]
  /\ UNCHANGED <<scale, accepting, in_flight, permit, down>>
  /\ UNCHANGED counter_vars /\ UNCHANGED worker_vars

Guarding(c) ==
  /\ \/ BeginLoad(c) \/ BeginAdd(c) \/ BeginRecheck(c) \/ BeginRefused(c)
     \/ GuardDrop(c) \/ GuardNotify(c)
  /\ UNCHANGED <<scale, down>> /\ UNCHANGED counter_vars /\ UNCHANGED worker_vars

LifecycleStep ==
  \/ Inner
  \/ \E c \in Client : Committing(c) \/ Refusing(c) \/ Guarding(c) \/ Count(c)
  \/ Pass \/ CkptWorker \/ MaintWorker \/ Shutdown

(* A step that ends a statement or a COPY counts at most one commit (the calls *)
(* after commit_transaction).                                                *)
LEMMA CountsOne ==
  ASSUME NEW c \in Client, NEW wrote, Counting(c, wrote)
  PROVE  Counting(c, TRUE) \/ UNCHANGED counter_vars
BY DEF Counting

(* A COPY worker's step leaves the coordinators alone, except that a durable    *)
(* COPY has something to count (drive_copy_in).                              *)
LEMMA DriveCommits ==
  ASSUME NEW c \in Client, drive_copy_in(c)
  PROVE  Committing(c)
<1>1. \/ UNCHANGED counter_vars
      \/ Counting(c, ses[c].work.txn = "none")
  BY DEF drive_copy_in
<1> QED
  BY <1>1, CountsOne DEF Committing, drive_copy_in

(* Every step of the server is one of a few kinds as far as the coordinators    *)
(* see it (the calls of shutdown.rs, checkpoint.rs and maintenance.rs made by   *)
(* the protocol loop).                                                       *)
LEMMA StepKinds ==
  ASSUME [Next]_svars
  PROVE  LifecycleStep
<1>1. CASE UNCHANGED svars
  BY <1>1 DEF svars, LifecycleStep, Inner
<1>2. ASSUME NEW c \in Client, Message(c) PROVE Inner
  BY <1>2 DEF Message, run_query, Sync, process_parse, process_bind, process_close,
     run_execute, BeforeMessage, Disconnect, Own, Inner
<1>3. ASSUME NEW c \in Client,
             \/ TimerWakes(c) \/ CancelWakes(c) \/ request_cancel(c) \/ notify_cancel(c)
             \/ TimerFires(c)
      PROVE  Inner
  BY <1>3 DEF TimerWakes, CancelWakes, request_cancel, notify_cancel, TimerFires, Own, Inner
<1>4. ASSUME NEW c \in Client, GuardStep(c) PROVE Guarding(c)
  BY <1>4 DEF GuardStep, Guarding
<1>5. ASSUME NEW c \in Client, Refused(c) PROVE Refusing(c)
  BY <1>5 DEF Refused, Refusing
<1>6. ASSUME NEW c \in Client, Statement(c) PROVE Inner \/ Committing(c)
  <2>1. CASE RunStatement(c)
    <3>1. PICK o \in Outcomes(ses[c].stmt, ses[c].txn, ses[c].reason # None) :
            Counting(c, o.wrote)
      BY <2>1 DEF RunStatement
    <3> QED
      BY <2>1, <3>1, CountsOne DEF RunStatement, Committing
  <2>2. CASE run_sql_cursor_statement(c)
    BY <2>2 DEF run_sql_cursor_statement, Own, Inner
  <2>3. CASE run_limited_bound_execute(c)
    BY <2>3 DEF run_limited_bound_execute, Own, Inner
  <2>4. CASE run_suspended_execute(c)
    BY <2>4 DEF run_suspended_execute, Own, Inner
  <2> QED
    BY <1>6, <2>1, <2>2, <2>3, <2>4 DEF Statement
<1>7. ASSUME NEW c \in Client, FinishStatement(c) \/ Reply(c) PROVE Inner
  BY <1>7 DEF FinishStatement, Reply, Own, Inner
<1>8. ASSUME NEW c \in Client, Copy(c) PROVE Inner
  BY <1>8 DEF Copy, begin_copy_in, handle_copy_data, finish_copy_in, join_copy_in,
     cancel_copy_in, Own, Inner
<1>9. CASE Background
  BY <1>9 DEF Background, LifecycleStep
<1> QED
  BY <1>1, <1>2, <1>3, <1>4, <1>5, <1>6, <1>7, <1>8, <1>9, DriveCommits
  DEF Next, LifecycleStep

-----------------------------------------------------------------------------
(* Types                                                                    *)

GuardState == {"none", "loaded", "added", "held", "refused", "notify", "notify_refused"}
DownState == {"serving", "stopped", "look", "parked", "timed_out", "stop_maintenance",
              "join_maintenance", "join_checkpoint", "final", "done"}
PassState == {None, "load", "clog", "body", "marker", "subtract", "ok", "failed"}
CkptState == {"wait", "run", "retry", "backoff", "exited"}
MaintState == {"wait", "load", "work", "ok", "err", "retry", "exited"}
PostState == {"none", "dead", "changed", "request_vacuum", "request_analyze", "count",
              "bytes", "request"}

DoorTypes ==
  /\ accepting \in BOOLEAN /\ permit \in BOOLEAN
  /\ guard \in [Client -> GuardState]
  /\ down \in DownState

WorkerTypes ==
  /\ scale \in Scales
  /\ ckpt \in [pc : CkptState, stop : BOOLEAN, pending : BOOLEAN, skipped : BOOLEAN]
  /\ pass \in [who : {None, "worker", "shutdown"}, at : PassState, represented : Nat]
  /\ maint \in [pc : MaintState, stop : BOOLEAN, vacuum : BOOLEAN, analyze : BOOLEAN,
                last : BOOLEAN, job : Jobs \cup {None}, represented : Nat]
  /\ maint.pc \in {"load", "work", "ok", "err"} => maint.job \in Jobs

CounterTypes ==
  /\ commits \in Nat /\ dead \in Nat /\ changed \in Nat
  /\ since \in [Kept -> [total : Nat, running : Nat]]
  /\ post \in [Client -> PostState]

LifecycleTypeOK == DoorTypes /\ WorkerTypes /\ CounterTypes

(* Subtracting what a pass represents leaves a natural number (the saturating   *)
(* fetch_update of the counters).                                            *)
LEMMA LessNat ==
  ASSUME NEW a \in Nat, NEW b \in Nat
  PROVE  Less(a, b) \in Nat
BY DEF Less

(* Counting an event keeps the history's shape (the atomic additions of          *)
(* add_dead_versions, add_changed_rows and record_commit_and_maybe_checkpoint). *)
LEMMA CountedType ==
  ASSUME since \in [Kept -> [total : Nat, running : Nat]], NEW k \in Kept
  PROVE  /\ counted(k, since) \in [Kept -> [total : Nat, running : Nat]]
         /\ counted(k, since)[k].total = since[k].total + 1
         /\ counted(k, since)[k].running = since[k].running + 1
         /\ \A j \in Kept \ {k} : counted(k, since)[j] = since[j]
<1> DEFINE f == [since EXCEPT ![k].total = @ + 1]
<1>1. since[k] \in [total : Nat, running : Nat]
  OBVIOUS
<1>2. /\ f \in [Kept -> [total : Nat, running : Nat]]
      /\ f[k] = [total |-> since[k].total + 1, running |-> since[k].running]
      /\ \A j \in Kept \ {k} : f[j] = since[j]
  BY <1>1
<1>3. counted(k, since) = [f EXCEPT ![k].running = @ + 1]
  BY DEF counted
<1> HIDE DEF f
<1> QED
  BY <1>1, <1>2, <1>3

(* The coordinators' state keeps its shape (shutdown.rs, checkpoint.rs,         *)
(* maintenance.rs).                                                          *)
LEMMA DoorTypeStep ==
  ASSUME DoorTypes, LifecycleStep
  PROVE  DoorTypes'
<1> USE DEF DoorTypes, GuardState, DownState
<1>1. CASE Inner
  BY <1>1 DEF Inner, lvars
<1>2. ASSUME NEW c \in Client, Committing(c) PROVE DoorTypes'
  BY <1>2 DEF Committing, shutdown_vars
<1>3. ASSUME NEW c \in Client, Refusing(c) PROVE DoorTypes'
  BY <1>3 DEF Refusing
<1>4. ASSUME NEW c \in Client, Guarding(c) PROVE DoorTypes'
  BY <1>4 DEF Guarding, BeginLoad, BeginAdd, BeginRecheck, BeginRefused, GuardDrop, GuardNotify
<1>5. ASSUME NEW c \in Client, Count(c) PROVE DoorTypes'
  BY <1>5 DEF Count, shutdown_vars
<1>6. CASE Pass \/ CkptWorker \/ MaintWorker
  BY <1>6 DEF Pass, CkptWorker, MaintWorker, shutdown_vars, pass_rest
<1>7. CASE Shutdown
  BY <1>7 DEF Shutdown, StopAccepting, StopNotify, WaitForIdle, WokenIdle, WaitTimedOut,
     StopMaintenance, StopCheckpoint, FinalCheckpoint, FinalFlush
<1> QED
  BY <1>1, <1>2, <1>3, <1>4, <1>5, <1>6, <1>7 DEF LifecycleStep

(* The coordinators, their workers and the running pass keep their types (the       *)
(* states of CheckpointCoordinator and MaintenanceCoordinator).              *)
LEMMA WorkerTypeStep ==
  ASSUME WorkerTypes, commits \in Nat, dead \in Nat, changed \in Nat, LifecycleStep
  PROVE  WorkerTypes'
<1> USE DEF WorkerTypes
<1>1. CASE Inner
  BY <1>1 DEF Inner, lvars
<1>2. ASSUME NEW c \in Client, Committing(c) \/ Refusing(c) \/ Guarding(c) PROVE WorkerTypes'
  BY <1>2 DEF Committing, Refusing, Guarding, worker_vars
<1>3. ASSUME NEW c \in Client, Count(c) PROVE WorkerTypes'
  BY <1>3 DEF Count, add_dead_versions, add_changed_rows, request_vacuum, request_analyze,
     record_commit, maybe_checkpoint, request
<1>4. CASE Pass
  <2>0. UNCHANGED scale
    BY <1>4 DEF Pass, pass_rest
  <2>1. CASE PassLoad \/ PassMarker \/ PassFail \/ PassTrigger
    BY <2>0, <2>1 DEF PassLoad, PassMarker, PassFail, PassTrigger, PassState
  <2>2. CASE PassClog
    BY <2>0, <2>2, LifecycleAssumption DEF PassClog, PassState
  <2>3. CASE PassSubtract
    BY <2>0, <2>3, LifecycleAssumption DEF PassSubtract, PassState
  <2> QED
    BY <1>4, <2>1, <2>2, <2>3 DEF Pass
<1>5. CASE CkptWorker
  <2>1. UNCHANGED <<scale, maint>>
    BY <1>5 DEF CkptWorker
  <2>2. CASE CkptTake
    BY <2>1, <2>2 DEF CkptTake, Start, CkptState, PassState
  <2>3. CASE CkptSucceeds
    BY <2>1, <2>3 DEF CkptSucceeds, Idle, CkptState, PassState, checkpoint_followup_required
  <2>4. CASE CkptErrs \/ CkptRetry \/ wait_for_busy_retry \/ CkptExit
    BY <2>1, <2>4 DEF CkptErrs, CkptRetry, wait_for_busy_retry, CkptExit, Idle, CkptState, PassState
  <2> QED
    BY <1>5, <2>2, <2>3, <2>4 DEF CkptWorker
<1>6. CASE MaintWorker
  <2>1. UNCHANGED <<scale, ckpt, pass>>
    BY <1>6 DEF MaintWorker
  <2>2. CASE MaintTake
    BY <2>1, <2>2 DEF MaintTake, choose_maintenance_job, MaintState, Jobs
  <2>3. CASE MaintLoad \/ MaintWork \/ MaintFail
    BY <2>1, <2>3 DEF MaintLoad, MaintWork, MaintFail, MaintState, Jobs
  <2>4. CASE MaintSettle
    BY <2>1, <2>4 DEF MaintSettle, MaintState, Jobs
  <2>5. CASE MaintRetry \/ MaintExit
    BY <2>1, <2>5 DEF MaintRetry, MaintExit, MaintState, Jobs
  <2> QED
    BY <1>6, <2>2, <2>3, <2>4, <2>5 DEF MaintWorker
<1>7. CASE Shutdown
  <2>1. UNCHANGED scale
    BY <1>7 DEF Shutdown
  <2>2. CASE StopAccepting \/ StopNotify \/ WaitForIdle \/ WokenIdle \/ WaitTimedOut
    BY <2>1, <2>2 DEF StopAccepting, StopNotify, WaitForIdle, WokenIdle, WaitTimedOut
  <2>3. CASE StopMaintenance
    BY <2>1, <2>3 DEF StopMaintenance
  <2>4. CASE StopCheckpoint
    BY <2>1, <2>4 DEF StopCheckpoint
  <2>5. CASE FinalCheckpoint
    BY <2>1, <2>5 DEF FinalCheckpoint, Start, PassState
  <2>6. CASE FinalFlush
    BY <2>1, <2>6 DEF FinalFlush, Idle, PassState
  <2> QED
    BY <1>7, <2>2, <2>3, <2>4, <2>5, <2>6 DEF Shutdown
<1> QED
  BY <1>1, <1>2, <1>3, <1>4, <1>5, <1>6, <1>7 DEF LifecycleStep

(* The counters and their history keep their shape (app.rs, checkpoint.rs).   *)
LEMMA CounterTypeStep ==
  ASSUME WorkerTypes, CounterTypes, LifecycleStep
  PROVE  CounterTypes'
<1> USE DEF CounterTypes
<1>1. CASE Inner
  BY <1>1 DEF Inner, lvars
<1>2. ASSUME NEW c \in Client, Committing(c) PROVE CounterTypes'
  BY <1>2 DEF Committing, Counting, counter_vars, PostState
<1>3. ASSUME NEW c \in Client, Refusing(c) \/ Guarding(c) PROVE CounterTypes'
  BY <1>3 DEF Refusing, Guarding, counter_vars
<1>4. ASSUME NEW c \in Client, Count(c) PROVE CounterTypes'
  <2> USE DEF PostState
  <2>1. CASE add_dead_versions(c)
    <3>1. counted("vacuum", since) \in [Kept -> [total : Nat, running : Nat]]
      BY CountedType DEF Kept
    <3> QED
      BY <2>1, <3>1 DEF add_dead_versions
  <2>2. CASE add_changed_rows(c)
    <3>1. counted("analyze", since) \in [Kept -> [total : Nat, running : Nat]]
      BY CountedType DEF Kept
    <3> QED
      BY <2>2, <3>1 DEF add_changed_rows
  <2>3. CASE record_commit(c)
    <3>1. counted("ckpt", since) \in [Kept -> [total : Nat, running : Nat]]
      BY CountedType DEF Kept
    <3> QED
      BY <2>3, <3>1 DEF record_commit
  <2>4. CASE request_vacuum(c) \/ request_analyze(c) \/ maybe_checkpoint(c) \/ request(c)
    BY <2>4 DEF request_vacuum, request_analyze, maybe_checkpoint, request
  <2> QED
    BY <1>4, <2>1, <2>2, <2>3, <2>4 DEF Count
<1>5. CASE Pass
  <2>1. UNCHANGED <<dead, changed, post>>
    BY <1>5 DEF Pass, pass_rest
  <2>2. CASE PassLoad
    BY <2>1, <2>2 DEF PassLoad, Kept
  <2>3. CASE PassClog \/ PassMarker \/ PassFail \/ PassTrigger
    BY <2>1, <2>3 DEF PassClog, PassMarker, PassFail, PassTrigger
  <2>4. CASE PassSubtract
    <3>1. Less(commits, pass.represented) \in Nat
      BY LessNat DEF WorkerTypes
    <3> QED
      BY <2>1, <2>4, <3>1 DEF PassSubtract, Kept
  <2> QED
    BY <1>5, <2>2, <2>3, <2>4 DEF Pass
<1>6. CASE CkptWorker \/ Shutdown
  BY <1>6 DEF CkptWorker, Shutdown, counter_vars
<1>7. CASE MaintWorker
  <2>1. UNCHANGED post
    BY <1>7 DEF MaintWorker
  <2>2. CASE MaintLoad
    BY <2>1, <2>2 DEF MaintLoad, WorkerTypes, Jobs, Kept
  <2>3. CASE MaintWork
    <3>1. Less(dead, maint.represented) \in Nat /\ Less(changed, maint.represented) \in Nat
      BY LessNat DEF WorkerTypes
    <3> QED
      BY <2>1, <2>3, <3>1 DEF MaintWork, WorkerTypes, Jobs, Kept
  <2>4. CASE MaintTake \/ MaintFail \/ MaintSettle \/ MaintRetry \/ MaintExit
    BY <2>1, <2>4 DEF MaintTake, MaintFail, MaintSettle, MaintRetry, MaintExit
  <2> QED
    BY <1>7, <2>2, <2>3, <2>4 DEF MaintWorker
<1> QED
  BY <1>1, <1>2, <1>3, <1>4, <1>5, <1>6, <1>7 DEF LifecycleStep

(* The state of the door, of the workers and of the counters always has its     *)
(* type, in every step of a session too (shutdown.rs, checkpoint.rs,            *)
(* maintenance.rs).                                                          *)
LEMMA LifecycleTyped == Spec => []LifecycleTypeOK
<1>1. Init => LifecycleTypeOK
  <2> SUFFICES ASSUME LifecycleInit PROVE LifecycleTypeOK
    BY DEF Init
  <2>1. DoorTypes
    BY DEF LifecycleInit, DoorTypes, GuardState, DownState
  <2>2. WorkerTypes
    BY DEF LifecycleInit, WorkerTypes, PassState, CkptState, MaintState
  <2>3. CounterTypes
    BY DEF LifecycleInit, CounterTypes, PostState
  <2> QED
    BY <2>1, <2>2, <2>3 DEF LifecycleTypeOK
<1>2. LifecycleTypeOK /\ [Next]_svars => LifecycleTypeOK'
  <2> SUFFICES ASSUME LifecycleTypeOK, [Next]_svars PROVE LifecycleTypeOK'
    OBVIOUS
  <2>1. LifecycleStep
    BY StepKinds
  <2>2. DoorTypes /\ WorkerTypes /\ CounterTypes
    BY DEF LifecycleTypeOK
  <2>3. commits \in Nat /\ dead \in Nat /\ changed \in Nat
    BY <2>2 DEF CounterTypes
  <2> QED
    BY <2>1, <2>2, <2>3, DoorTypeStep, WorkerTypeStep, CounterTypeStep DEF LifecycleTypeOK
<1> QED
  BY <1>1, <1>2, PTL DEF Spec

-----------------------------------------------------------------------------
(* Counters                                                                 *)

(* While a pass runs its counter is what the pass represents and what arrived   *)
(* since it loaded the counter.                                              *)
PassShare ==
  pass.at \in {"clog", "body", "marker", "subtract"} =>
    commits = pass.represented + since["ckpt"].running

MaintShare ==
  maint.pc = "work" =>
    /\ maint.job = "vacuum" => dead = maint.represented + since["vacuum"].running
    /\ maint.job = "analyze" => changed = maint.represented + since["analyze"].running

CountersInv == CountersExact /\ PassShare /\ MaintShare

(* Subtracting what a pass represents from the counter leaves exactly what       *)
(* arrived while it ran (the fetch_update at a pass's end).                   *)
LEMMA LessShare ==
  ASSUME NEW a \in Nat, NEW b \in Nat
  PROVE  Less(a + b, a) = b
BY DEF Less

(* No step makes a counter forget or count twice an event that a pass does not   *)
(* represent (the triggers against run_checkpoint and maintenance_worker).    *)
LEMMA CountersStep ==
  ASSUME LifecycleTypeOK, CountersInv, LifecycleStep
  PROVE  CountersInv'
<1> USE DEF CountersInv, CountersExact, PassShare, MaintShare
<1>0. /\ commits \in Nat /\ dead \in Nat /\ changed \in Nat
      /\ since \in [Kept -> [total : Nat, running : Nat]]
      /\ pass.represented \in Nat /\ maint.represented \in Nat
      /\ WorkerTypes
  BY DEF LifecycleTypeOK, WorkerTypes, CounterTypes
<1>1. CASE Inner
  BY <1>1 DEF Inner, lvars
<1>2. ASSUME NEW c \in Client, Committing(c) \/ Refusing(c) \/ Guarding(c) PROVE CountersInv'
  BY <1>2 DEF Committing, Refusing, Guarding, Counting, counter_vars, worker_vars
<1>3. ASSUME NEW c \in Client, Count(c) PROVE CountersInv'
  <2>0. UNCHANGED pass
    BY <1>3 DEF Count
  <2>1. CASE add_dead_versions(c)
    BY <1>0, <2>0, <2>1, CountedType DEF add_dead_versions, Kept
  <2>2. CASE add_changed_rows(c)
    BY <1>0, <2>0, <2>2, CountedType DEF add_changed_rows, Kept
  <2>3. CASE record_commit(c)
    BY <1>0, <2>0, <2>3, CountedType DEF record_commit, Kept
  <2>4. CASE request_vacuum(c) \/ request_analyze(c) \/ maybe_checkpoint(c) \/ request(c)
    BY <1>0, <2>0, <2>4 DEF request_vacuum, request_analyze, maybe_checkpoint, request, WorkerTypes
  <2> QED
    BY <1>3, <2>1, <2>2, <2>3, <2>4 DEF Count
<1>4. CASE Pass
  <2>0. UNCHANGED <<dead, changed>>
    BY <1>4 DEF Pass, pass_rest
  <2>1. CASE PassLoad
    BY <1>0, <2>0, <2>1 DEF PassLoad, WorkerTypes, Kept
  <2>2. CASE PassClog
    BY <1>0, <2>0, <2>2 DEF PassClog, WorkerTypes
  <2>3. CASE PassMarker \/ PassFail \/ PassTrigger
    BY <1>0, <2>0, <2>3 DEF PassMarker, PassFail, PassTrigger, WorkerTypes
  <2>4. CASE PassSubtract
    <3>1. Less(commits, pass.represented) = since["ckpt"].running
      BY <1>0, <2>4, LessShare DEF PassSubtract, Kept
    <3> QED
      BY <1>0, <2>0, <2>4, <3>1 DEF PassSubtract, WorkerTypes, Kept
  <2> QED
    BY <1>4, <2>1, <2>2, <2>3, <2>4 DEF Pass
<1>5. CASE CkptWorker
  BY <1>0, <1>5, LifecycleAssumption DEF CkptWorker, counter_vars, CkptTake, CkptSucceeds, CkptErrs,
     CkptRetry, wait_for_busy_retry, CkptExit, Start, Idle
<1>6. CASE MaintWorker
  <2>0. UNCHANGED pass
    BY <1>6 DEF MaintWorker
  <2>1. CASE MaintTake \/ MaintFail \/ MaintRetry \/ MaintExit
    BY <1>0, <2>0, <2>1 DEF MaintTake, MaintFail, MaintRetry, MaintExit, WorkerTypes
  <2>2. CASE MaintLoad
    BY <1>0, <2>0, <2>2 DEF MaintLoad, WorkerTypes, Jobs, Kept
  <2>3. CASE MaintWork
    <3>1. CASE maint.job = "vacuum"
      <4>1. Less(dead, maint.represented) = since["vacuum"].running
        BY <1>0, <2>3, <3>1, LessShare DEF MaintWork, Kept
      <4> QED
        BY <1>0, <2>0, <2>3, <3>1, <4>1 DEF MaintWork, WorkerTypes, Kept
    <3>2. CASE maint.job = "analyze"
      <4>1. Less(changed, maint.represented) = since["analyze"].running
        BY <1>0, <2>3, <3>2, LessShare DEF MaintWork, Kept
      <4> QED
        BY <1>0, <2>0, <2>3, <3>2, <4>1 DEF MaintWork, WorkerTypes, Kept
    <3> QED
      BY <1>0, <2>3, <3>1, <3>2 DEF MaintWork, WorkerTypes, Jobs
  <2>4. CASE MaintSettle
    BY <1>0, <2>0, <2>4 DEF MaintSettle, WorkerTypes
  <2> QED
    BY <1>6, <2>1, <2>2, <2>3, <2>4 DEF MaintWorker
<1>7. CASE Shutdown
  BY <1>0, <1>7, LifecycleAssumption DEF Shutdown, StopAccepting, StopNotify, WaitForIdle, WokenIdle,
     WaitTimedOut, StopMaintenance, StopCheckpoint, FinalCheckpoint, FinalFlush, counter_vars,
     WorkerTypes, Start, Idle
<1> QED
  BY <1>1, <1>2, <1>3, <1>4, <1>5, <1>6, <1>7 DEF LifecycleStep

(* In every server, whatever its connections and its configuration, each         *)
(* trigger's counter holds exactly what happened since the last successful pass   *)
(* began (the counters of app.rs and checkpoint.rs, maintenance_worker).      *)
THEOREM CountersAlwaysExact == Spec => []CountersExact
<1>1. Init => CountersInv
  BY LifecycleAssumption DEF Init, LifecycleInit, CountersInv, CountersExact, PassShare, MaintShare, Kept
<1>2. LifecycleTypeOK /\ CountersInv /\ [Next]_svars => CountersInv'
  BY StepKinds, CountersStep
<1>3. CountersInv => CountersExact
  BY DEF CountersInv
<1> QED
  BY <1>1, <1>2, <1>3, LifecycleTyped, PTL DEF Spec

-----------------------------------------------------------------------------
(* Admission and draining                                                   *)

(* The queries that in_flight counts.                                       *)
Admitted == {c \in Client : guard[c] \in {"added", "held"}}

InFlightExact == in_flight = Cardinality(Admitted)

(* From the moment wait_for_idle has seen nothing in flight, nothing is         *)
(* admitted any more.                                                        *)
Drained == {"stop_maintenance", "join_maintenance", "join_checkpoint", "final", "done"}

DoorShut ==
  /\ down # "serving" => ~accepting
  /\ down \in Drained => \A c \in Client : guard[c] # "held"

DoorInv == InFlightExact /\ IdleNotMissed /\ DoorShut

(* The counted queries are finitely many (begin_query counts each once).      *)
LEMMA AdmittedFinite ==
  /\ IsFiniteSet(Admitted)
  /\ Cardinality(Admitted) \in Nat
BY LifecycleAssumption, FS_Subset, FS_CardinalityType DEF Admitted

(* A guard's step counts its query in, counts it out, or leaves the count: what  *)
(* in_flight and the guards say of each other never drifts (begin_query, Drop of *)
(* InFlightQueryGuard).                                                      *)
LEMMA InFlightStep ==
  ASSUME DoorTypes, InFlightExact, NEW c \in Client, Guarding(c)
  PROVE  InFlightExact'
<1>1. guard \in [Client -> GuardState]
  BY DEF DoorTypes
<1>2. CASE BeginAdd(c)
  <2>1. Admitted' = Admitted \cup {c} /\ c \notin Admitted
    BY <1>1, <1>2 DEF BeginAdd, Admitted
  <2> QED
    BY <1>2, <2>1, AdmittedFinite, FS_AddElement DEF BeginAdd, InFlightExact
<1>3. CASE guard[c] \in {"added", "held"} /\ guard'[c] \notin {"added", "held"}
           /\ guard' = [guard EXCEPT ![c] = guard'[c]] /\ in_flight' = in_flight - 1
  <2>1. Admitted' = Admitted \ {c} /\ c \in Admitted
    BY <1>1, <1>3 DEF Admitted
  <2> QED
    BY <1>3, <2>1, AdmittedFinite, FS_RemoveElement DEF InFlightExact
<1>4. CASE (BeginRecheck(c) /\ ~accepting) \/ GuardDrop(c)
  <2>1. guard[c] \in {"added", "held"} /\ guard'[c] \notin {"added", "held"}
    BY <1>1, <1>4 DEF BeginRecheck, GuardDrop
  <2>2. guard' = [guard EXCEPT ![c] = guard'[c]] /\ in_flight' = in_flight - 1
    BY <1>1, <1>4 DEF BeginRecheck, GuardDrop
  <2> QED
    BY <1>3, <2>1, <2>2
<1>5. CASE BeginLoad(c) \/ BeginRefused(c) \/ GuardNotify(c) \/ (BeginRecheck(c) /\ accepting)
  <2>1. Admitted' = Admitted
    BY <1>1, <1>5 DEF BeginLoad, BeginRefused, GuardNotify, BeginRecheck, Admitted
  <2>2. in_flight' = in_flight
    BY <1>5 DEF BeginLoad, BeginRefused, GuardNotify, BeginRecheck
  <2> QED
    BY <2>1, <2>2 DEF InFlightExact
<1>6. CASE BeginRecheck(c)
  <2>1. accepting \/ ~accepting
    OBVIOUS
  <2> QED
    BY <1>4, <1>5, <1>6, <2>1
<1> QED
  BY <1>2, <1>4, <1>5, <1>6 DEF Guarding

(* No guard's step loses the last query's notice or admits a query behind        *)
(* shutdown's back (begin_query's second look at accepting).                  *)
LEMMA DoorGuardStep ==
  ASSUME DoorTypes, DoorInv, NEW c \in Client, Guarding(c)
  PROVE  DoorInv'
<1>1. guard \in [Client -> GuardState] /\ accepting \in BOOLEAN /\ UNCHANGED down
  BY DEF DoorTypes, Guarding
<1>2. in_flight \in Nat
  BY AdmittedFinite DEF DoorInv, InFlightExact
<1>3. InFlightExact'
  BY InFlightStep DEF DoorInv
<1>4. IdleNotMissed'
  BY <1>1, <1>2 DEF DoorInv, IdleNotMissed, Guarding, BeginLoad, BeginAdd, BeginRecheck,
     BeginRefused, GuardDrop, GuardNotify
<1>5. DoorShut'
  BY <1>1 DEF DoorInv, DoorShut, Drained, Guarding, BeginLoad, BeginAdd, BeginRecheck,
     BeginRefused, GuardDrop, GuardNotify
<1> QED
  BY <1>3, <1>4, <1>5 DEF DoorInv

(* Shutdown parks only while something is in flight and goes on only when        *)
(* nothing is (wait_for_idle).                                               *)
LEMMA DoorShutdownStep ==
  ASSUME DoorTypes, DoorInv, Shutdown
  PROVE  DoorInv'
<1>1. UNCHANGED <<in_flight, guard>>
  BY DEF Shutdown
<1>2. InFlightExact'
  BY <1>1 DEF DoorInv, InFlightExact, Admitted
<1>3. IdleNotMissed'
  BY <1>1 DEF DoorInv, IdleNotMissed, Shutdown, StopAccepting, StopNotify, WaitForIdle, WokenIdle,
     WaitTimedOut, StopMaintenance, StopCheckpoint, FinalCheckpoint, FinalFlush
<1>4. ASSUME in_flight = 0 PROVE \A c \in Client : guard[c] # "held"
  <2>1. Admitted = {}
    BY <1>4, AdmittedFinite, FS_EmptySet DEF DoorInv, InFlightExact
  <2> QED
    BY <2>1 DEF Admitted
<1>5. DoorShut'
  BY <1>1, <1>4 DEF DoorTypes, DoorInv, DoorShut, Drained, Shutdown, StopAccepting, StopNotify,
     WaitForIdle, WokenIdle, WaitTimedOut, StopMaintenance, StopCheckpoint, FinalCheckpoint, FinalFlush
<1> QED
  BY <1>2, <1>3, <1>5 DEF DoorInv

(* The door's invariant in every step of the server (shutdown.rs).           *)
LEMMA DoorStep ==
  ASSUME DoorTypes, DoorInv, LifecycleStep
  PROVE  DoorInv'
<1>1. CASE UNCHANGED <<accepting, in_flight, permit, guard, down>>
  BY <1>1 DEF DoorInv, InFlightExact, Admitted, IdleNotMissed, DoorShut
<1>2. ASSUME NEW c \in Client, Refusing(c) PROVE DoorInv'
  <2>1. guard' \in [Client -> GuardState] /\ \A d \in Client : d # c => guard'[d] = guard[d]
    BY <1>2 DEF DoorTypes, Refusing, GuardState
  <2>2. guard[c] = "refused" /\ guard'[c] = "none"
    BY <1>2 DEF DoorTypes, Refusing
  <2>3. Admitted' = Admitted
    BY <2>1, <2>2 DEF Admitted
  <2> QED
    BY <1>2, <2>1, <2>2, <2>3 DEF Refusing, DoorInv, InFlightExact, IdleNotMissed, DoorShut
<1>3. CASE Inner
  BY <1>1, <1>3 DEF Inner, lvars
<1>4. ASSUME NEW c \in Client, Committing(c) \/ Count(c) PROVE DoorInv'
  BY <1>1, <1>4 DEF Committing, Count, shutdown_vars
<1>5. CASE Pass \/ CkptWorker \/ MaintWorker
  BY <1>1, <1>5 DEF Pass, CkptWorker, MaintWorker, shutdown_vars, pass_rest
<1> QED
  BY <1>2, <1>3, <1>4, <1>5, DoorGuardStep, DoorShutdownStep DEF LifecycleStep

(* The door's invariant holds of every server (begin_query, stop_accepting,      *)
(* wait_for_idle).                                                           *)
LEMMA DoorKept == Spec => []DoorInv
<1>1. Init => DoorInv
  <2> SUFFICES ASSUME LifecycleInit PROVE DoorInv
    BY DEF Init
  <2>1. Admitted = {}
    BY DEF LifecycleInit, Admitted
  <2> QED
    BY <2>1, FS_EmptySet DEF LifecycleInit, DoorInv, InFlightExact, IdleNotMissed, DoorShut, Drained
<1>2. LifecycleTypeOK /\ DoorInv /\ [Next]_svars => DoorInv'
  BY StepKinds, DoorStep DEF LifecycleTypeOK
<1> QED
  BY <1>1, <1>2, LifecycleTyped, PTL DEF Spec

(* However many connections there are, shutdown never sleeps through the end of   *)
(* the last query: parked with nothing in flight, it finds a permit or somebody   *)
(* is about to leave one (wait_for_idle against the three notify_one).        *)
THEOREM IdleNeverMissed == Spec => []IdleNotMissed
<1>1. DoorInv => IdleNotMissed
  BY DEF DoorInv
<1> QED
  BY <1>1, DoorKept, PTL

-----------------------------------------------------------------------------
(* The session record                                                       *)

Phases == {"idle", "begin", "join", "reply", "copy_begin", "copy_join", "copy_cancel", "gone"}
Paths == {None, "simple", "extended", "limited", "resume"}
Outs == {None, "err", "canceled", "Direct", "Durable", "SessionReset", "copyin"}
Txns == {"none", "open", "failed", "shell"}
Timers == {"Idle", "Armed", "Expired"}
Reasons == {None, "user", "timeout"}
Portals == PreparedKinds \cup {None, "suspended", "suspended_autocommit"}
Stmts == SimpleKinds \cup Portals
CursorStates == {None, "open"}
Leftovers == SUBSET {"cursor", "portal"}
Copies == {None, "running", "draining"}
Works == {None, "run", "ok", "err", "aborted"}
Ends == {None, "done", "fail", "closed"}
Faults == {"stale_cancel", "durable_simple", "durable_extended"}

WorkRecord == [at : Works, txn : Txns, data : BOOLEAN, end : Ends]

SessionRecord ==
  [phase : Phases, path : Paths, stmt : Stmts, out : Outs, wrote : BOOLEAN,
   txn : Txns, reg : BOOLEAN, failed : BOOLEAN,
   active : BOOLEAN, timer : Timers, reason : Reasons, fresh : BOOLEAN,
   notify : BOOLEAN, wake : BOOLEAN,
   portal : Portals, cursor : CursorStates, old : Leftovers,
   copy : Copies, work : WorkRecord, errs : {0, 1, 2}, bad : SUBSET Faults]

(* A statement is active from the message that starts it to its reply.         *)
InStatement == {"begin", "join", "reply", "copy_begin", "copy_join", "copy_cancel"}

(* The timer, the token and the errors of a cycle.                           *)
Cycle(r) ==
  /\ r.phase \in InStatement => r.active
  /\ r.copy = "running" => r.active
  /\ r.timer # "Idle" => r.active
  /\ r.active /\ r.reason # None => r.fresh
  /\ r.failed \/ r.copy = "draining" => ~r.active
  /\ r.errs > 0 => r.errs = 1 /\ (r.failed \/ r.copy = "draining")
  /\ "stale_cancel" \notin r.bad

(* COPY and its worker.                                                     *)
Copying(r) ==
  /\ r.phase \in {"copy_join", "copy_cancel"} => r.copy = "running"
  /\ r.copy = "running" => r.phase \in {"idle", "copy_join", "copy_cancel"}
  /\ r.copy = "running" => r.txn = "none"
  /\ r.copy = "running" <=> r.work.at # None /\ r.phase # "gone"
  /\ r.work.at = "ok" => r.phase = "copy_join"
  /\ r.work.at = "aborted" => r.phase = "gone"
  /\ r.work.at = "run" /\ r.work.end = "done" => r.phase = "copy_join"
  /\ r.work.at = "run" => (r.work.end = "closed" <=> r.phase = "gone")
  /\ r.phase = "gone" /\ r.reg => r.work.at \in {"run", "err"}

(* What is reported of a durable commit.                                    *)
Reported(r) ==
  /\ r.wrote => r.phase \in {"join", "reply"} /\ r.out # "copyin"
  /\ r.wrote /\ r.path # "simple" => r.out = "Durable"
  /\ "durable_extended" \notin r.bad

(* Nothing that a transaction t owned is left of an earlier one.             *)
Fresh(r, t) ==
  /\ t = "open" => r.old = {}
  /\ t = "none" => r.old = {} /\ r.cursor = None /\ r.portal # "suspended"

Current(r) ==
  /\ r.phase = "gone" => r.txn = "none"
  /\ r.phase # "join" => Fresh(r, IF r.copy = "running" THEN r.work.txn ELSE r.txn)
  /\ r.phase = "join" /\ r.txn = "open" /\ r.old # {} =>
       r.path = "simple" /\ r.stmt = "rollbackto" /\ r.out = "Durable"
  /\ r.phase \in {"begin", "join"} /\ r.stmt = "rollbackto" => r.path = "simple"
  /\ r.phase = "begin" /\ r.path = "resume" /\ r.stmt = "suspended" => r.txn # "none"
  /\ r.path = "resume" /\ r.phase = "begin" => r.stmt \in {"suspended", "suspended_autocommit"}

SessionOK(r) == Cycle(r) /\ Copying(r) /\ Reported(r) /\ Current(r)

SessionsInv ==
  /\ ses \in [Client -> SessionRecord]
  /\ \A c \in Client : SessionOK(ses[c])

(* The guard is held from admission to the end of the statement's task, by a     *)
(* COPY until it is joined; what a commit still has to count is counted under it. *)
Guarded(c) ==
  /\ post[c] # "none" => ses[c].phase \in {"join", "copy_join"}
  /\ ses[c].phase \in {"join", "copy_begin"} \/ ses[c].copy = "running" => guard[c] = "held"

GuardedInv == \A c \in Client : Guarded(c)

-----------------------------------------------------------------------------
(* What the handlers do to a session gives a session again                  *)

(* An assignment to one field keeps the record's type (struct Session).       *)
LEMMA FieldTyped ==
  ASSUME NEW r \in SessionRecord
  PROVE  /\ \A v \in Phases : [r EXCEPT !.phase = v] \in SessionRecord
         /\ \A v \in Paths : [r EXCEPT !.path = v] \in SessionRecord
         /\ \A v \in Stmts : [r EXCEPT !.stmt = v] \in SessionRecord
         /\ \A v \in Outs : [r EXCEPT !.out = v] \in SessionRecord
         /\ \A v \in BOOLEAN : [r EXCEPT !.wrote = v] \in SessionRecord
         /\ \A v \in Txns : [r EXCEPT !.txn = v] \in SessionRecord
         /\ \A v \in BOOLEAN : [r EXCEPT !.reg = v] \in SessionRecord
         /\ \A v \in BOOLEAN : [r EXCEPT !.failed = v] \in SessionRecord
         /\ \A v \in BOOLEAN : [r EXCEPT !.active = v] \in SessionRecord
         /\ \A v \in Timers : [r EXCEPT !.timer = v] \in SessionRecord
         /\ \A v \in Reasons : [r EXCEPT !.reason = v] \in SessionRecord
         /\ \A v \in BOOLEAN : [r EXCEPT !.fresh = v] \in SessionRecord
         /\ \A v \in BOOLEAN : [r EXCEPT !.notify = v] \in SessionRecord
         /\ \A v \in BOOLEAN : [r EXCEPT !.wake = v] \in SessionRecord
         /\ \A v \in Portals : [r EXCEPT !.portal = v] \in SessionRecord
         /\ \A v \in CursorStates : [r EXCEPT !.cursor = v] \in SessionRecord
         /\ \A v \in Leftovers : [r EXCEPT !.old = v] \in SessionRecord
         /\ \A v \in Copies : [r EXCEPT !.copy = v] \in SessionRecord
         /\ \A v \in WorkRecord : [r EXCEPT !.work = v] \in SessionRecord
         /\ \A v \in {0, 1, 2} : [r EXCEPT !.errs = v] \in SessionRecord
         /\ \A v \in SUBSET Faults : [r EXCEPT !.bad = v] \in SessionRecord
<1>1. \A v \in Phases : [r EXCEPT !.phase = v] \in SessionRecord
  BY DEF SessionRecord
<1>2. \A v \in Paths : [r EXCEPT !.path = v] \in SessionRecord
  BY DEF SessionRecord
<1>3. \A v \in Stmts : [r EXCEPT !.stmt = v] \in SessionRecord
  BY DEF SessionRecord
<1>4. \A v \in Outs : [r EXCEPT !.out = v] \in SessionRecord
  BY DEF SessionRecord
<1>5. \A v \in BOOLEAN : [r EXCEPT !.wrote = v] \in SessionRecord
  BY DEF SessionRecord
<1>6. \A v \in Txns : [r EXCEPT !.txn = v] \in SessionRecord
  BY DEF SessionRecord
<1>7. \A v \in BOOLEAN : [r EXCEPT !.reg = v] \in SessionRecord
  BY DEF SessionRecord
<1>8. \A v \in BOOLEAN : [r EXCEPT !.failed = v] \in SessionRecord
  BY DEF SessionRecord
<1>9. \A v \in BOOLEAN : [r EXCEPT !.active = v] \in SessionRecord
  BY DEF SessionRecord
<1>10. \A v \in Timers : [r EXCEPT !.timer = v] \in SessionRecord
  BY DEF SessionRecord
<1>11. \A v \in Reasons : [r EXCEPT !.reason = v] \in SessionRecord
  BY DEF SessionRecord
<1>12. \A v \in BOOLEAN : [r EXCEPT !.fresh = v] \in SessionRecord
  BY DEF SessionRecord
<1>13. \A v \in BOOLEAN : [r EXCEPT !.notify = v] \in SessionRecord
  BY DEF SessionRecord
<1>14. \A v \in BOOLEAN : [r EXCEPT !.wake = v] \in SessionRecord
  BY DEF SessionRecord
<1>15. \A v \in Portals : [r EXCEPT !.portal = v] \in SessionRecord
  BY DEF SessionRecord
<1>16. \A v \in CursorStates : [r EXCEPT !.cursor = v] \in SessionRecord
  BY DEF SessionRecord
<1>17. \A v \in Leftovers : [r EXCEPT !.old = v] \in SessionRecord
  BY DEF SessionRecord
<1>18. \A v \in Copies : [r EXCEPT !.copy = v] \in SessionRecord
  BY DEF SessionRecord
<1>19. \A v \in WorkRecord : [r EXCEPT !.work = v] \in SessionRecord
  BY DEF SessionRecord
<1>20. \A v \in {0, 1, 2} : [r EXCEPT !.errs = v] \in SessionRecord
  BY DEF SessionRecord
<1>21. \A v \in SUBSET Faults : [r EXCEPT !.bad = v] \in SessionRecord
  BY DEF SessionRecord
<1> QED
  BY <1>1, <1>2, <1>3, <1>4, <1>5, <1>6, <1>7, <1>8, <1>9, <1>10, <1>11,
     <1>12, <1>13, <1>14, <1>15, <1>16, <1>17, <1>18, <1>19, <1>20, <1>21

(* Every field has its type (struct Session).                                *)
LEMMA FieldOf ==
  ASSUME NEW r \in SessionRecord
  PROVE  /\ r.phase \in Phases /\ r.path \in Paths /\ r.stmt \in Stmts
         /\ r.out \in Outs /\ r.wrote \in BOOLEAN /\ r.txn \in Txns
         /\ r.reg \in BOOLEAN /\ r.failed \in BOOLEAN /\ r.active \in BOOLEAN
         /\ r.timer \in Timers /\ r.reason \in Reasons /\ r.fresh \in BOOLEAN
         /\ r.notify \in BOOLEAN /\ r.wake \in BOOLEAN /\ r.portal \in Portals
         /\ r.cursor \in CursorStates /\ r.old \in Leftovers /\ r.copy \in Copies
         /\ r.work \in WorkRecord /\ r.errs \in {0, 1, 2} /\ r.bad \in SUBSET Faults
BY DEF SessionRecord

(* A new connection's session has its type (Session::new).                   *)
LEMMA NewTyped == NewSession \in SessionRecord
BY DEF NewSession, SessionRecord, Txns, Portals, WorkRecord, Phases, Paths, Outs, Timers,
   Reasons, Stmts, CursorStates, Leftovers, Copies, Works, Ends

(* Arming and disarming the statement timer (disarm, arm_new, rearm).         *)
LEMMA TimerTyped ==
  ASSUME NEW r \in SessionRecord, NEW armed \in {"Idle", "Armed"}
  PROVE  /\ disarm(r) \in SessionRecord
         /\ arm_new(r, armed) \in SessionRecord
         /\ rearm(r, armed) \in SessionRecord
<1>1. {"Idle", "Armed", "Expired"} = Timers /\ None \in Reasons /\ armed \in Timers
  BY DEF Timers, Reasons
<1>2. disarm(r) \in SessionRecord
  BY <1>1, FieldTyped DEF disarm
<1>3. [disarm(r) EXCEPT !.reason = None] \in SessionRecord
  BY <1>1, <1>2, FieldTyped
<1>4. [disarm(r) EXCEPT !.reason = None, !.fresh = FALSE] \in SessionRecord
  BY <1>3, FieldTyped
<1>5. arm_new(r, armed) \in SessionRecord
  BY <1>1, <1>4, FieldTyped DEF arm_new
<1>6. rearm(r, armed) \in SessionRecord
  BY <1>1, <1>2, FieldTyped DEF rearm
<1> QED
  BY <1>2, <1>5, <1>6

(* Starting and stopping it with a statement (start_statement_timer,            *)
(* stop_statement_timer).                                                    *)
LEMMA StartTyped ==
  ASSUME NEW r \in SessionRecord, NEW armed \in {"Idle", "Armed"}
  PROVE  start_statement_timer(r, armed) \in SessionRecord
<1>1. \A q \in SessionRecord : [q EXCEPT !.active = TRUE, !.bad = {}] \in SessionRecord
  BY FieldTyped
<1> QED
  BY <1>1, TimerTyped DEF start_statement_timer

(* The end of a statement (stop_statement_timer).                            *)
LEMMA StopTyped ==
  ASSUME NEW r \in SessionRecord
  PROVE  stop_statement_timer(r) \in SessionRecord
BY TimerTyped, FieldTyped DEF stop_statement_timer

(* Closing portals and cursors (close_autocommit_suspended_portals,            *)
(* close_transaction_scoped_suspended_portals, close_sql_cursors).            *)
LEMMA CloseTyped ==
  ASSUME NEW r \in SessionRecord
  PROVE  /\ close_autocommit_suspended_portals(r) \in SessionRecord
         /\ close_transaction_scoped_suspended_portals(r) \in SessionRecord
         /\ close_sql_cursors(r) \in SessionRecord
         /\ CloseScoped(r) \in SessionRecord
         /\ Cleanup(r) \in SessionRecord
<1>1. None \in Portals /\ None \in CursorStates /\ \A o \in Leftovers : \A w : o \ {w} \in Leftovers
  BY DEF Portals, CursorStates, Leftovers
<1>2. close_autocommit_suspended_portals(r) \in SessionRecord
  BY <1>1, FieldOf, FieldTyped DEF close_autocommit_suspended_portals
<1>3. close_transaction_scoped_suspended_portals(r) \in SessionRecord
  <2> DEFINE q == [r EXCEPT !.portal = IF @ = "suspended" THEN None ELSE @]
  <2>1. q \in SessionRecord
    BY <1>1, FieldOf, FieldTyped
  <2>2. q.old \ {"portal"} \in Leftovers
    BY <1>1, <2>1, FieldOf
  <2>3. close_transaction_scoped_suspended_portals(r) = [q EXCEPT !.old = q.old \ {"portal"}]
    BY DEF close_transaction_scoped_suspended_portals
  <2> HIDE DEF q
  <2>4. [q EXCEPT !.old = q.old \ {"portal"}] \in SessionRecord
    BY <2>1, <2>2, FieldTyped
  <2> QED
    BY <2>3, <2>4
<1>4. \A q \in SessionRecord : close_sql_cursors(q) \in SessionRecord
  BY <1>1, FieldOf, FieldTyped DEF close_sql_cursors
<1> QED
  BY <1>2, <1>3, <1>4 DEF CloseScoped, Cleanup

(* The slot after a failure or an end of its transaction (mark_failed,           *)
(* mark_current_transaction_failed, the registry's abort and commit).         *)
LEMMA SlotTyped ==
  ASSUME NEW r \in SessionRecord, NEW t \in Txns
  PROVE  /\ mark_failed(r) \in SessionRecord
         /\ mark_current_transaction_failed(r) \in SessionRecord
         /\ Outlived(r) \in SessionRecord
         /\ Settle(r, t) \in SessionRecord
<1>1. r.txn \in Txns /\ "failed" \in Txns
  BY FieldOf DEF Txns
<1>2. mark_failed(r) \in SessionRecord
  BY <1>1, FieldTyped DEF mark_failed
<1>3. Outlived(r) \in SessionRecord
  <2>1. ((IF r.cursor # None THEN {"cursor"} ELSE {})
           \cup (IF r.portal = "suspended" THEN {"portal"} ELSE {})) \in Leftovers
    BY DEF Leftovers
  <2> QED
    BY <2>1, FieldTyped DEF Outlived
<1>4. Settle(r, t) \in SessionRecord
  BY <1>3, FieldTyped DEF Settle
<1> QED
  BY <1>2, <1>3, <1>4, CloseTyped DEF mark_current_transaction_failed

(* Reporting errors and canceled statements (ErrorResponse).                 *)
LEMMA ErrorTyped ==
  ASSUME NEW r \in SessionRecord
  PROVE  /\ Error(r) \in SessionRecord
         /\ Canceled(r) \in SessionRecord
         /\ Misreported(r) \in SessionRecord
<1>1. Least(r.errs + 1, 2) \in {0, 1, 2}
  BY FieldOf DEF Least
<1>2. Error(r) \in SessionRecord
  BY <1>1, FieldTyped DEF Error
<1>3. \A q \in SessionRecord, b \in SUBSET Faults : q.bad \cup b \in SUBSET Faults
  BY FieldOf
<1>4. Canceled(r) \in SessionRecord
  <2>1. (IF r.reason # None /\ ~r.fresh THEN {"stale_cancel"} ELSE {}) \in SUBSET Faults
    BY DEF Faults
  <2> QED
    BY <1>2, <1>3, <2>1, FieldTyped DEF Canceled
<1>5. Misreported(r) \in SessionRecord
  <2>1. (IF r.wrote /\ r.out \in {"err", "canceled"}
         THEN {IF r.path = "simple" THEN "durable_simple" ELSE "durable_extended"}
         ELSE {}) \in SUBSET Faults
    BY DEF Faults
  <2> QED
    BY <1>3, <2>1, FieldTyped DEF Misreported
<1> QED
  BY <1>2, <1>4, <1>5

(* Between statements, and after ReadyForQuery (the protocol loop).            *)
LEMMA BetweenTyped ==
  ASSUME NEW r \in SessionRecord
  PROVE  Between(r) \in SessionRecord /\ ReadyForQuery(r) \in SessionRecord
<1>1. "idle" \in Phases /\ None \in Paths /\ None \in Stmts /\ None \in Outs
  BY DEF Phases, Paths, Stmts, Portals, Outs
<1>2. [r EXCEPT !.phase = "idle", !.path = None] \in SessionRecord
  BY <1>1, FieldTyped
<1>3. [r EXCEPT !.phase = "idle", !.path = None, !.stmt = None, !.out = None] \in SessionRecord
  BY <1>1, <1>2, FieldTyped
<1>4. Between(r) \in SessionRecord
  BY <1>3, FieldTyped DEF Between
<1> QED
  BY <1>4, FieldTyped DEF ReadyForQuery

(* A dropped session (Drop of Session).                                     *)
LEMMA DropTyped ==
  ASSUME NEW r \in SessionRecord
  PROVE  Drop(r) \in SessionRecord
<1>1. /\ "gone" \in Phases /\ None \in Reasons /\ r.work \in WorkRecord
      /\ [r.work EXCEPT !.end = "closed"] \in WorkRecord
  BY FieldOf DEF Phases, Reasons, WorkRecord, Ends
<1>2. [NewSession EXCEPT !.phase = "gone", !.reg = r.reg /\ r.work.at # None] \in SessionRecord
  BY <1>1, NewTyped, FieldTyped
<1>3. (IF r.work.at = "run" THEN r.reason ELSE None) \in Reasons
  BY <1>1, FieldOf
<1>4. [NewSession EXCEPT !.phase = "gone", !.reg = r.reg /\ r.work.at # None,
                         !.reason = IF r.work.at = "run" THEN r.reason ELSE None]
        \in SessionRecord
  BY <1>2, <1>3, FieldTyped
<1>5. (IF r.work.at = "run" THEN [r.work EXCEPT !.end = "closed"] ELSE r.work) \in WorkRecord
  BY <1>1
<1> QED
  BY <1>4, <1>5, FieldTyped DEF Drop

(* The session after an idle timeout or cancel (handle_idle_statement_timeout). *)
LEMMA IdleTimeoutTyped ==
  ASSUME NEW r \in SessionRecord
  PROVE  handle_idle_statement_timeout(r) \in SessionRecord
<1>1. [stop_statement_timer(Canceled(r)) EXCEPT !.failed = TRUE] \in SessionRecord
  BY ErrorTyped, StopTyped, FieldTyped
<1>2. "copy_cancel" \in Phases /\ [r.work EXCEPT !.end = "fail"] \in WorkRecord
  BY FieldOf DEF Phases, WorkRecord, Ends
<1>3. [r EXCEPT !.phase = "copy_cancel", !.work.end = "fail"] \in SessionRecord
  <2> DEFINE q == [r EXCEPT !.phase = "copy_cancel"]
  <2>1. q \in SessionRecord
    BY <1>2, FieldTyped
  <2>2. q.work \in WorkRecord
    BY <2>1, FieldOf
  <2>3. [q.work EXCEPT !.end = "fail"] \in WorkRecord
    BY <2>2 DEF WorkRecord, Ends
  <2>4. [q EXCEPT !.work.end = "fail"] = [q EXCEPT !.work = [q.work EXCEPT !.end = "fail"]]
    OBVIOUS
  <2> QED
    BY <2>1, <2>3, <2>4, FieldTyped
<1>4. "none" \in Txns
  BY DEF Txns
<1> QED
  BY <1>1, <1>3, <1>4, SlotTyped DEF handle_idle_statement_timeout

-----------------------------------------------------------------------------
(* What the handlers leave alone                                            *)

SameStatement(r, s) ==
  /\ s.phase = r.phase /\ s.path = r.path /\ s.stmt = r.stmt /\ s.out = r.out
  /\ s.wrote = r.wrote
SameToken(r, s) ==
  /\ s.active = r.active /\ s.timer = r.timer /\ s.reason = r.reason /\ s.fresh = r.fresh
SameSlot(r, s) == s.txn = r.txn /\ s.reg = r.reg
SameScoped(r, s) == s.portal = r.portal /\ s.cursor = r.cursor /\ s.old = r.old
SameCopy(r, s) == s.copy = r.copy /\ s.work = r.work
SameReport(r, s) == s.errs = r.errs /\ s.bad = r.bad /\ s.failed = r.failed

(* A statement's start touches the timer, the token and the last report        *)
(* (start_statement_timer).                                                  *)
LEMMA StartEffect ==
  ASSUME NEW r \in SessionRecord, NEW armed \in {"Idle", "Armed"},
         NEW s, s = start_statement_timer(r, armed)
  PROVE  /\ SameStatement(r, s) /\ SameSlot(r, s) /\ SameScoped(r, s) /\ SameCopy(r, s)
         /\ s.errs = r.errs /\ s.failed = r.failed /\ s.bad = {} /\ s.active = TRUE
         /\ r.active => s.reason = r.reason /\ s.fresh = r.fresh
         /\ ~r.active => s.reason = None
<1>1. CASE r.active
  BY <1>1 DEF start_statement_timer, rearm, disarm, SessionRecord, SameStatement, SameSlot,
     SameScoped, SameCopy
<1>2. CASE ~r.active
  BY <1>2 DEF start_statement_timer, arm_new, disarm, SessionRecord, SameStatement, SameSlot,
     SameScoped, SameCopy
<1> QED
  BY <1>1, <1>2

(* A statement's end disarms the timer and leaves the token's reason            *)
(* (stop_statement_timer).                                                   *)
LEMMA StopEffect ==
  ASSUME NEW r \in SessionRecord, NEW s, s = stop_statement_timer(r)
  PROVE  /\ SameStatement(r, s) /\ SameSlot(r, s) /\ SameScoped(r, s) /\ SameCopy(r, s)
         /\ SameReport(r, s) /\ s.reason = r.reason
         /\ s.active = FALSE /\ s.fresh = FALSE /\ s.timer = "Idle"
BY DEF stop_statement_timer, disarm, SessionRecord, SameStatement, SameSlot, SameScoped, SameCopy,
   SameReport

(* Cleanup closes what a transaction that is gone owned, and nothing else       *)
(* (transaction_resources_released and its callers).                         *)
LEMMA CloseScopedEffect ==
  ASSUME NEW r \in SessionRecord, NEW s, s = CloseScoped(r)
  PROVE  /\ SameStatement(r, s) /\ SameToken(r, s) /\ SameSlot(r, s) /\ SameCopy(r, s)
         /\ SameReport(r, s)
         /\ s.old = {} /\ s.cursor = None /\ s.portal # "suspended"
<1> DEFINE q == close_transaction_scoped_suspended_portals(r)
<1>1. /\ SameStatement(r, q) /\ SameToken(r, q) /\ SameSlot(r, q) /\ SameCopy(r, q)
      /\ SameReport(r, q)
  BY DEF close_transaction_scoped_suspended_portals, SessionRecord, SameStatement,
     SameToken, SameSlot, SameCopy, SameReport
<1>2. q.portal # "suspended" /\ q.old = r.old \ {"portal"}
  BY SessionAssumption DEF close_transaction_scoped_suspended_portals, SessionRecord
<1>3. q \in SessionRecord /\ s = close_sql_cursors(q)
  BY CloseTyped DEF CloseScoped
<1> HIDE DEF q
<1>4. /\ SameStatement(q, s) /\ SameToken(q, s) /\ SameSlot(q, s) /\ SameCopy(q, s)
      /\ SameReport(q, s)
  BY <1>3 DEF close_sql_cursors, SessionRecord, SameStatement,
     SameToken, SameSlot, SameCopy, SameReport
<1>5. s.portal = q.portal /\ s.cursor = None /\ s.old = q.old \ {"cursor"}
  BY <1>3 DEF close_sql_cursors, SessionRecord
<1>6. r.old \subseteq {"cursor", "portal"}
  BY DEF SessionRecord, Leftovers
<1> QED
  BY <1>1, <1>2, <1>4, <1>5, <1>6 DEF SameStatement, SameToken, SameSlot, SameCopy, SameReport

(* The same when it depends on the slot (transaction_resources_released).     *)
LEMMA CleanupEffect ==
  ASSUME NEW r \in SessionRecord, NEW s, s = Cleanup(r)
  PROVE  /\ SameStatement(r, s) /\ SameToken(r, s) /\ SameSlot(r, s) /\ SameCopy(r, s)
         /\ SameReport(r, s)
         /\ r.txn \in {"none", "shell"} => s.old = {} /\ s.cursor = None /\ s.portal # "suspended"
         /\ r.txn \notin {"none", "shell"} => SameScoped(r, s)
<1>1. CASE r.txn \in {"none", "shell"}
  BY <1>1, CloseScopedEffect DEF Cleanup, transaction_resources_released
<1>2. CASE r.txn \notin {"none", "shell"}
  BY <1>2 DEF Cleanup, transaction_resources_released, SameStatement, SameToken, SameSlot,
     SameCopy, SameReport, SameScoped
<1> QED
  BY <1>1, <1>2

(* A failed statement fails its block, and leaves nothing scoped behind outside  *)
(* one (mark_failed, mark_current_transaction_failed).                       *)
LEMMA MarkFailedEffect ==
  ASSUME NEW r \in SessionRecord, NEW s, s = mark_failed(r)
  PROVE  /\ SameStatement(r, s) /\ SameToken(r, s) /\ SameScoped(r, s) /\ SameCopy(r, s)
         /\ SameReport(r, s) /\ s.reg = r.reg
         /\ s.txn = IF r.txn = "open" THEN "failed" ELSE r.txn
BY DEF mark_failed, SessionRecord, SameStatement, SameToken, SameScoped, SameCopy, SameReport

(* The same with the cleanup that follows (mark_current_transaction_failed).  *)
LEMMA MarkCurrentEffect ==
  ASSUME NEW r \in SessionRecord, NEW s, s = mark_current_transaction_failed(r)
  PROVE  /\ SameStatement(r, s) /\ SameToken(r, s) /\ SameCopy(r, s) /\ SameReport(r, s)
         /\ s.reg = r.reg
         /\ s.txn = IF r.txn = "open" THEN "failed" ELSE r.txn
         /\ r.txn \in {"none", "shell"} => s.old = {} /\ s.cursor = None /\ s.portal # "suspended"
<1> DEFINE q == mark_failed(r)
<1>1. q \in SessionRecord /\ s = Cleanup(q)
  BY SlotTyped DEF mark_current_transaction_failed, Txns
<1>2. /\ SameStatement(r, q) /\ SameToken(r, q) /\ SameCopy(r, q) /\ SameReport(r, q)
      /\ q.reg = r.reg /\ q.txn = IF r.txn = "open" THEN "failed" ELSE r.txn
  BY MarkFailedEffect
<1> HIDE DEF q
<1>3. /\ SameStatement(q, s) /\ SameToken(q, s) /\ SameCopy(q, s) /\ SameReport(q, s)
      /\ SameSlot(q, s)
      /\ q.txn \in {"none", "shell"} => s.old = {} /\ s.cursor = None /\ s.portal # "suspended"
  BY <1>1, CleanupEffect
<1> QED
  BY <1>2, <1>3 DEF SameStatement, SameToken, SameSlot, SameCopy, SameReport

(* An error is counted, a canceled statement is judged by its token             *)
(* (ErrorResponse, canceled statements).                                     *)
LEMMA ErrorEffect ==
  ASSUME NEW r \in SessionRecord, NEW s, s = Error(r)
  PROVE  /\ SameStatement(r, s) /\ SameToken(r, s) /\ SameSlot(r, s) /\ SameScoped(r, s)
         /\ SameCopy(r, s)
         /\ s.failed = r.failed /\ s.bad = r.bad /\ (r.errs = 0 => s.errs = 1)
BY DEF Error, Least, SessionRecord, SameStatement, SameToken, SameSlot, SameScoped, SameCopy

(* A canceled statement is one error, and a fault unless the reason in the token  *)
(* is its own (the canceled branch of a reply).                              *)
LEMMA CanceledEffect ==
  ASSUME NEW r \in SessionRecord, NEW s, s = Canceled(r)
  PROVE  /\ SameStatement(r, s) /\ SameToken(r, s) /\ SameSlot(r, s) /\ SameScoped(r, s)
         /\ SameCopy(r, s)
         /\ s.failed = r.failed /\ (r.errs = 0 => s.errs = 1)
         /\ r.reason = None \/ r.fresh => s.bad = r.bad
<1> DEFINE q == Error(r)
<1>1. q \in SessionRecord
  BY ErrorTyped
<1>2. /\ SameStatement(r, q) /\ SameToken(r, q) /\ SameSlot(r, q) /\ SameScoped(r, q)
      /\ SameCopy(r, q)
      /\ q.failed = r.failed /\ q.bad = r.bad /\ (r.errs = 0 => q.errs = 1)
  BY ErrorEffect
<1>3. s = [q EXCEPT !.bad = @ \cup IF r.reason # None /\ ~r.fresh THEN {"stale_cancel"} ELSE {}]
  BY DEF Canceled
<1> HIDE DEF q
<1>4. /\ SameStatement(q, s) /\ SameToken(q, s) /\ SameSlot(q, s) /\ SameScoped(q, s)
      /\ SameCopy(q, s) /\ s.failed = q.failed /\ s.errs = q.errs
  BY <1>1, <1>3 DEF SessionRecord, SameStatement, SameToken, SameSlot, SameScoped, SameCopy
<1>5. r.reason = None \/ r.fresh => s.bad = q.bad
  BY <1>1, <1>3 DEF SessionRecord
<1> QED
  BY <1>2, <1>4, <1>5 DEF SameStatement, SameToken, SameSlot, SameScoped, SameCopy

(* The skip to Sync is one flag of the session (failed).                      *)
LEMMA FailingEffect ==
  ASSUME NEW r \in SessionRecord, NEW s, s = [r EXCEPT !.failed = TRUE]
  PROVE  /\ s \in SessionRecord
         /\ SameStatement(r, s) /\ SameToken(r, s) /\ SameSlot(r, s) /\ SameScoped(r, s)
         /\ SameCopy(r, s)
         /\ s.errs = r.errs /\ s.bad = r.bad /\ s.failed = TRUE
<1>1. s \in SessionRecord
  BY FieldTyped
<1>2. SameStatement(r, s) /\ SameToken(r, s) /\ SameSlot(r, s)
  BY DEF SessionRecord, SameStatement, SameToken, SameSlot
<1>3. SameScoped(r, s) /\ SameCopy(r, s) /\ s.errs = r.errs /\ s.bad = r.bad /\ s.failed = TRUE
  BY DEF SessionRecord, SameScoped, SameCopy
<1> QED
  BY <1>1, <1>2, <1>3

(* The end of a cycle closes the portals of autocommit reads                    *)
(* (close_autocommit_suspended_portals).                                     *)
LEMMA CloseAutocommitEffect ==
  ASSUME NEW r \in SessionRecord, NEW s, s = close_autocommit_suspended_portals(r)
  PROVE  /\ SameStatement(r, s) /\ SameToken(r, s) /\ SameSlot(r, s) /\ SameCopy(r, s)
         /\ SameReport(r, s)
         /\ s.cursor = r.cursor /\ s.old = r.old /\ (r.portal # "suspended" => s.portal # "suspended")
BY SessionAssumption DEF close_autocommit_suspended_portals, SessionRecord, SameStatement, SameToken,
   SameSlot, SameCopy, SameReport

(* The slot is only marked, the cursors' contexts are gone (Outlived, Settle). *)
LEMMA OutlivedEffect ==
  ASSUME NEW r \in SessionRecord, NEW s, s = Outlived(r)
  PROVE  /\ SameStatement(r, s) /\ SameToken(r, s) /\ SameSlot(r, s) /\ SameCopy(r, s)
         /\ SameReport(r, s)
         /\ s.cursor = r.cursor /\ s.portal = r.portal
         /\ r.cursor = None /\ r.portal # "suspended" => s.old = {}
BY DEF Outlived, SessionRecord, SameStatement, SameToken, SameSlot, SameCopy, SameReport

(* A transaction that ends leaves the registry with its slot (Settle).        *)
LEMMA SettleEffect ==
  ASSUME NEW r \in SessionRecord, NEW t \in Txns, NEW s, s = Settle(r, t)
  PROVE  /\ SameStatement(r, s) /\ SameToken(r, s) /\ SameCopy(r, s) /\ SameReport(r, s)
         /\ s.cursor = r.cursor /\ s.portal = r.portal
         /\ s.txn = t /\ s.reg = FALSE
<1> DEFINE q == Outlived(r)
<1>1. q \in SessionRecord
  BY SlotTyped
<1>2. /\ SameStatement(r, q) /\ SameToken(r, q) /\ SameCopy(r, q) /\ SameReport(r, q)
      /\ q.cursor = r.cursor /\ q.portal = r.portal
  BY OutlivedEffect
<1>3. s = [q EXCEPT !.txn = t, !.reg = FALSE]
  BY DEF Settle
<1> HIDE DEF q
<1>4. /\ SameStatement(q, s) /\ SameToken(q, s) /\ SameCopy(q, s) /\ SameReport(q, s)
      /\ s.cursor = q.cursor /\ s.portal = q.portal
      /\ s.txn = t /\ s.reg = FALSE
  BY <1>1, <1>3 DEF SessionRecord, SameStatement, SameToken, SameCopy, SameReport
<1> QED
  BY <1>2, <1>4 DEF SameStatement, SameToken, SameCopy, SameReport

(* Between two statements nothing of the last one is left (the protocol loop,    *)
(* ReadyForQuery).                                                           *)
LEMMA BetweenEffect ==
  ASSUME NEW r \in SessionRecord, NEW s, s = Between(r)
  PROVE  /\ SameToken(r, s) /\ SameSlot(r, s) /\ SameScoped(r, s) /\ SameCopy(r, s)
         /\ SameReport(r, s)
         /\ s.phase = "idle" /\ s.path = None /\ s.wrote = FALSE
BY DEF Between, SessionRecord, SameToken, SameSlot, SameScoped, SameCopy, SameReport

(* ReadyForQuery also forgets the errors of its cycle.                       *)
LEMMA ReadyEffect ==
  ASSUME NEW r \in SessionRecord, NEW s, s = ReadyForQuery(r)
  PROVE  /\ SameToken(r, s) /\ SameSlot(r, s) /\ SameScoped(r, s) /\ SameCopy(r, s)
         /\ s.failed = r.failed /\ s.bad = r.bad /\ s.errs = 0
         /\ s.phase = "idle" /\ s.path = None /\ s.wrote = FALSE
<1> DEFINE q == Between(r)
<1>1. q \in SessionRecord
  BY BetweenTyped
<1>2. /\ SameToken(r, q) /\ SameSlot(r, q) /\ SameScoped(r, q) /\ SameCopy(r, q)
      /\ SameReport(r, q) /\ q.phase = "idle" /\ q.path = None /\ q.wrote = FALSE
  BY BetweenEffect
<1>3. s = [q EXCEPT !.errs = 0]
  BY DEF ReadyForQuery
<1> HIDE DEF q
<1>4. /\ SameStatement(q, s) /\ SameToken(q, s) /\ SameSlot(q, s) /\ SameScoped(q, s)
      /\ SameCopy(q, s) /\ s.failed = q.failed /\ s.bad = q.bad /\ s.errs = 0
  BY <1>1, <1>3 DEF SessionRecord, SameStatement, SameToken, SameSlot, SameScoped, SameCopy
<1> QED
  BY <1>2, <1>4 DEF SameStatement, SameToken, SameSlot, SameScoped, SameCopy, SameReport

(* A dropped session keeps only a COPY worker that still runs, with its channel   *)
(* closed, and the transaction that the worker has (Drop of Session).         *)
LEMMA DropEffect ==
  ASSUME NEW r \in SessionRecord, NEW s, s = Drop(r)
  PROVE  /\ s.phase = "gone" /\ s.path = None /\ s.wrote = FALSE /\ s.txn = "none"
         /\ s.failed = FALSE /\ s.active = FALSE /\ s.timer = "Idle"
         /\ s.portal = None /\ s.cursor = None /\ s.old = {} /\ s.copy = None
         /\ s.errs = 0 /\ s.bad = {}
         /\ s.reg = (r.reg /\ r.work.at # None)
         /\ s.work.at = r.work.at
         /\ s.work.end = IF r.work.at = "run" THEN "closed" ELSE r.work.end
<1> DEFINE w == IF r.work.at = "run" THEN [r.work EXCEPT !.end = "closed"] ELSE r.work
<1>1. r.work \in WorkRecord
  BY FieldOf
<1>2. w.at = r.work.at /\ w.end = IF r.work.at = "run" THEN "closed" ELSE r.work.end
  BY <1>1 DEF WorkRecord
<1>3. s.work = w
  BY DEF Drop, NewSession
<1>4. s.reg = (r.reg /\ r.work.at # None)
  BY DEF Drop, NewSession
<1>5. /\ s.phase = "gone" /\ s.path = None /\ s.wrote = FALSE /\ s.txn = "none"
      /\ s.failed = FALSE /\ s.active = FALSE /\ s.timer = "Idle"
  BY DEF Drop, NewSession
<1>6. /\ s.portal = None /\ s.cursor = None /\ s.old = {} /\ s.copy = None
      /\ s.errs = 0 /\ s.bad = {}
  BY DEF Drop, NewSession
<1> QED
  BY <1>2, <1>3, <1>4, <1>5, <1>6

-----------------------------------------------------------------------------
(* The invariant of a session, message by message                           *)

OK(r) == r \in SessionRecord /\ SessionOK(r)

(* A new session (Session::new).                                            *)
LEMMA NewOK == OK(NewSession)
<1>1. SessionOK(NewSession)
  BY SessionAssumption DEF NewSession, SessionOK, Cycle, Copying, Reported, Current, Fresh, InStatement
<1> QED
  BY <1>1, NewTyped DEF OK

(* A session may be dropped wherever the loop drops it: everywhere but in the     *)
(* wait for a COPY worker's end (Drop of Session).                           *)
LEMMA DropOK ==
  ASSUME NEW r, OK(r), r.phase \notin {"copy_join", "gone"}
  PROVE  OK(Drop(r))
<1>1. r \in SessionRecord /\ Copying(r)
  BY DEF OK, SessionOK
<1>2. PICK s : s = Drop(r)
  OBVIOUS
<1>3. s \in SessionRecord
  BY <1>1, <1>2, DropTyped
<1>4. r.work.at \in Works
  BY <1>1, FieldOf DEF WorkRecord
<1>5. /\ s.phase = "gone" /\ s.path = None /\ s.wrote = FALSE /\ s.txn = "none"
      /\ s.failed = FALSE /\ s.active = FALSE /\ s.timer = "Idle"
      /\ s.portal = None /\ s.cursor = None /\ s.old = {} /\ s.copy = None
      /\ s.errs = 0 /\ s.bad = {}
      /\ s.reg = (r.reg /\ r.work.at # None)
      /\ s.work.at = r.work.at
      /\ s.work.end = IF r.work.at = "run" THEN "closed" ELSE r.work.end
  BY <1>1, <1>2, DropEffect
<1>6. Cycle(s) /\ Reported(s) /\ Current(s)
  BY <1>5, SessionAssumption DEF Cycle, Reported, Current, Fresh, InStatement
<1>7. Copying(s)
  BY <1>1, <1>4, <1>5, SessionAssumption DEF Copying, Works
<1> QED
  BY <1>2, <1>3, <1>6, <1>7 DEF OK, SessionOK

(* The loop waits for a message of a cycle that has not failed.              *)
AtMessage(r) == OK(r) /\ r.phase = "idle" /\ r.copy = None /\ ~r.failed

(* Starting a statement's timer keeps the session in order: what was requested   *)
(* between statements is forgotten, what was requested in this cycle stays       *)
(* (start_statement_timer).                                                  *)
LEMMA StartOK ==
  ASSUME NEW r, AtMessage(r), NEW armed \in {"Idle", "Armed"}
  PROVE  /\ AtMessage(start_statement_timer(r, armed))
         /\ start_statement_timer(r, armed).active
         /\ start_statement_timer(r, armed).errs = 0
<1>1. r \in SessionRecord /\ SessionOK(r) /\ r.phase = "idle" /\ r.copy = None /\ ~r.failed
  BY DEF AtMessage, OK
<1>2. PICK s : s = start_statement_timer(r, armed)
  OBVIOUS
<1>3. s \in SessionRecord
  BY <1>1, <1>2, StartTyped
<1>4. /\ SameStatement(r, s) /\ SameSlot(r, s) /\ SameScoped(r, s) /\ SameCopy(r, s)
      /\ s.errs = r.errs /\ s.failed = r.failed /\ s.bad = {} /\ s.active = TRUE
      /\ r.active => s.reason = r.reason /\ s.fresh = r.fresh
      /\ ~r.active => s.reason = None
  BY <1>1, <1>2, StartEffect
<1>5. r.errs = 0
  BY <1>1, FieldOf, SessionAssumption DEF SessionOK, Cycle
<1>6. Cycle(s)
  BY <1>1, <1>4, <1>5, SessionAssumption DEF SessionOK, Cycle, SameStatement, SameCopy
<1>7. Copying(s) /\ Reported(s) /\ Current(s)
  BY <1>1, <1>4 DEF SessionOK, Copying, Reported, Current, Fresh, SameStatement, SameSlot, SameScoped, SameCopy
<1> QED
  BY <1>1, <1>2, <1>3, <1>4, <1>5, <1>6, <1>7 DEF AtMessage, OK, SessionOK, SameStatement, SameCopy

(* A message of the extended protocol that fails reports its one error and       *)
(* skips to Sync (reply_or_fail).                                            *)
LEMMA FailOK ==
  ASSUME NEW r, AtMessage(r), r.errs = 0
  PROVE  OK(reply_or_fail(r))
<1>1. r \in SessionRecord /\ SessionOK(r) /\ r.phase = "idle" /\ r.copy = None
  BY DEF AtMessage, OK
<1>2. PICK q : q = stop_statement_timer(r)
  OBVIOUS
<1>3. /\ q \in SessionRecord
      /\ SameStatement(r, q) /\ SameSlot(r, q) /\ SameScoped(r, q) /\ SameCopy(r, q)
      /\ SameReport(r, q) /\ q.active = FALSE /\ q.timer = "Idle"
  BY <1>1, <1>2, StopTyped, StopEffect
<1>4. PICK p : p = [q EXCEPT !.failed = TRUE]
  OBVIOUS
<1>5. /\ p \in SessionRecord
      /\ SameStatement(q, p) /\ SameSlot(q, p) /\ SameScoped(q, p) /\ SameCopy(q, p)
      /\ SameToken(q, p) /\ p.errs = q.errs /\ p.bad = q.bad /\ p.failed = TRUE
  BY <1>3, <1>4, FailingEffect
<1>6. PICK m : m = mark_current_transaction_failed(p)
  OBVIOUS
<1>7. /\ m \in SessionRecord
      /\ SameStatement(p, m) /\ SameToken(p, m) /\ SameCopy(p, m) /\ SameReport(p, m)
      /\ m.reg = p.reg
      /\ m.txn = IF p.txn = "open" THEN "failed" ELSE p.txn
      /\ p.txn \in {"none", "shell"} => m.old = {} /\ m.cursor = None /\ m.portal # "suspended"
  BY <1>5, <1>6, SlotTyped, MarkCurrentEffect DEF Txns
<1>8. PICK s : s = Error(m)
  OBVIOUS
<1>9. /\ s \in SessionRecord
      /\ SameStatement(m, s) /\ SameToken(m, s) /\ SameSlot(m, s) /\ SameScoped(m, s)
      /\ SameCopy(m, s)
      /\ s.failed = m.failed /\ s.bad = m.bad /\ (m.errs = 0 => s.errs = 1)
  BY <1>7, <1>8, ErrorTyped, ErrorEffect
<1>10. Cycle(s)
  BY <1>1, <1>3, <1>5, <1>7, <1>9, SessionAssumption DEF SessionOK, Cycle, InStatement, SameStatement, SameToken, SameCopy, SameReport
<1>11. Copying(s) /\ Reported(s)
  BY <1>1, <1>3, <1>5, <1>7, <1>9, SessionAssumption DEF SessionOK, Copying, Reported, SameStatement, SameSlot, SameCopy, SameReport
<1>12. Current(s)
  BY <1>1, <1>3, <1>5, <1>7, <1>9, SessionAssumption DEF SessionOK, Current, Fresh, SameStatement, SameSlot, SameScoped, SameCopy, SameReport
<1>13. s = reply_or_fail(r)
  BY <1>2, <1>4, <1>6, <1>8 DEF reply_or_fail
<1> QED
  BY <1>9, <1>10, <1>11, <1>12, <1>13 DEF OK, SessionOK

(* An Execute refused before admission reports its one error too               *)
(* (RefusedExecute), from the wait for a message or from admission.          *)
LEMMA RefuseOK ==
  ASSUME NEW r, OK(r), ~r.failed, r.errs = 0, r.copy = None, r.phase \in {"idle", "begin"}
  PROVE  OK(Between(RefusedExecute(r))) /\ (r.phase = "idle" => OK(RefusedExecute(r)))
<1>1. r \in SessionRecord /\ SessionOK(r)
  BY DEF OK
<1>2. PICK q : q = stop_statement_timer(r)
  OBVIOUS
<1>3. /\ q \in SessionRecord
      /\ SameStatement(r, q) /\ SameSlot(r, q) /\ SameScoped(r, q) /\ SameCopy(r, q)
      /\ SameReport(r, q) /\ q.active = FALSE /\ q.timer = "Idle"
  BY <1>1, <1>2, StopTyped, StopEffect
<1>4. PICK p : p = [q EXCEPT !.failed = TRUE]
  OBVIOUS
<1>5. /\ p \in SessionRecord
      /\ SameStatement(q, p) /\ SameToken(q, p) /\ SameSlot(q, p) /\ SameScoped(q, p)
      /\ SameCopy(q, p) /\ p.errs = q.errs /\ p.bad = q.bad /\ p.failed = TRUE
  BY <1>3, <1>4, FailingEffect
<1>6. PICK s : s = Error(p)
  OBVIOUS
<1>7. /\ s \in SessionRecord
      /\ SameStatement(p, s) /\ SameToken(p, s) /\ SameSlot(p, s) /\ SameScoped(p, s)
      /\ SameCopy(p, s)
      /\ s.failed = p.failed /\ s.bad = p.bad /\ (p.errs = 0 => s.errs = 1)
  BY <1>5, <1>6, ErrorTyped, ErrorEffect
<1>8. s = RefusedExecute(r)
  BY <1>2, <1>4, <1>6 DEF RefusedExecute
<1>9. /\ s.active = FALSE /\ s.timer = "Idle" /\ s.failed = TRUE /\ s.errs = 1
      /\ s.bad = r.bad
      /\ SameStatement(r, s) /\ SameSlot(r, s) /\ SameScoped(r, s) /\ SameCopy(r, s)
  BY <1>3, <1>5, <1>7 DEF SameStatement, SameToken, SameSlot, SameScoped, SameCopy, SameReport
<1>10. ASSUME NEW t, t \in SessionRecord, t.phase = "idle", ~t.wrote,
              t.active = FALSE, t.timer = "Idle", t.failed = TRUE, t.errs = 1, t.bad = r.bad,
              SameSlot(r, t), SameScoped(r, t), SameCopy(r, t)
       PROVE  OK(t)
  <2>1. Cycle(t)
    BY <1>1, <1>10, SessionAssumption DEF SessionOK, Cycle, InStatement, SameCopy
  <2>2. Copying(t) /\ Reported(t) /\ Current(t)
    BY <1>1, <1>10, SessionAssumption
    DEF SessionOK, Copying, Reported, Current, Fresh, SameSlot, SameScoped, SameCopy
  <2> QED
    BY <1>10, <2>1, <2>2 DEF OK, SessionOK
<1>11. r.phase = "idle" => OK(s)
  BY <1>1, <1>7, <1>9, <1>10 DEF SameStatement, SessionOK, Reported
<1>12. PICK b : b = Between(s)
  OBVIOUS
<1>13. /\ b \in SessionRecord /\ SameToken(s, b) /\ SameSlot(s, b) /\ SameScoped(s, b)
       /\ SameCopy(s, b) /\ SameReport(s, b) /\ b.phase = "idle" /\ b.wrote = FALSE
  BY <1>7, <1>12, BetweenTyped, BetweenEffect
<1>14. OK(b)
  BY <1>9, <1>10, <1>13 DEF SameToken, SameSlot, SameScoped, SameCopy, SameReport
<1> QED
  BY <1>8, <1>11, <1>12, <1>14

(* A timeout or a cancel that finds the loop waiting fails the block and the       *)
(* cycle, or starts the end of a COPY (handle_idle_statement_timeout).        *)
LEMMA IdleTimeoutOK ==
  ASSUME NEW r, OK(r), r.phase = "idle", r.active
  PROVE  OK(handle_idle_statement_timeout(r))
<1>1. r \in SessionRecord /\ SessionOK(r)
  BY DEF OK
<1>2. PICK s : s = handle_idle_statement_timeout(r)
  OBVIOUS
<1>3. s \in SessionRecord
  BY <1>1, <1>2, IdleTimeoutTyped
<1>4. CASE r.copy # None
  <2>1. r.copy = "running"
    BY <1>1, <1>4, FieldOf DEF Copies, SessionOK, Cycle
  <2>2. s = [r EXCEPT !.phase = "copy_cancel", !.work.end = "fail"]
    BY <1>2, <1>4, <2>1 DEF handle_idle_statement_timeout
  <2>3. r.work \in WorkRecord
    BY <1>1, FieldOf
  <2>4. /\ SameToken(r, s) /\ SameSlot(r, s) /\ SameScoped(r, s) /\ SameReport(r, s)
        /\ s.phase = "copy_cancel" /\ s.copy = r.copy /\ s.wrote = r.wrote /\ s.path = r.path
        /\ s.work = [r.work EXCEPT !.end = "fail"] /\ s.out = r.out
    BY <1>1, <2>2 DEF SessionRecord, SameToken, SameSlot, SameScoped, SameReport
  <2>5. s.work.at = r.work.at /\ s.work.txn = r.work.txn /\ s.work.end = "fail"
    BY <2>3, <2>4 DEF WorkRecord
  <2>6. Cycle(s)
    BY <1>1, <2>1, <2>4 DEF SessionOK, Cycle, SameToken, SameReport
  <2>7. Copying(s)
    BY <1>1, <2>1, <2>4, <2>5 DEF SessionOK, Copying, SameSlot
  <2>8. Reported(s) /\ Current(s)
    BY <1>1, <2>1, <2>4, <2>5 DEF SessionOK, Reported, Current, Fresh, SameSlot, SameScoped, SameReport
  <2> QED
    BY <1>2, <1>3, <2>6, <2>7, <2>8 DEF OK, SessionOK
<1>5. CASE r.copy = None
  <2>1. PICK q : q = Canceled(r)
    OBVIOUS
  <2>2. r.reason = None \/ r.fresh
    BY <1>1 DEF SessionOK, Cycle
  <2>3. r.errs = 0
    BY <1>1, <1>5, FieldOf, SessionAssumption DEF SessionOK, Cycle
  <2>4. /\ q \in SessionRecord
        /\ SameStatement(r, q) /\ SameToken(r, q) /\ SameSlot(r, q) /\ SameScoped(r, q)
        /\ SameCopy(r, q) /\ q.failed = r.failed /\ q.errs = 1 /\ q.bad = r.bad
    BY <1>1, <2>1, <2>2, <2>3, ErrorTyped, CanceledEffect
  <2>5. PICK p : p = stop_statement_timer(q)
    OBVIOUS
  <2>6. /\ p \in SessionRecord
        /\ SameStatement(q, p) /\ SameSlot(q, p) /\ SameScoped(q, p) /\ SameCopy(q, p)
        /\ SameReport(q, p) /\ p.active = FALSE /\ p.timer = "Idle"
    BY <2>4, <2>5, StopTyped, StopEffect
  <2>7. PICK m : m = [p EXCEPT !.failed = TRUE]
    OBVIOUS
  <2>8. /\ m \in SessionRecord
        /\ SameStatement(p, m) /\ SameToken(p, m) /\ SameSlot(p, m) /\ SameScoped(p, m)
        /\ SameCopy(p, m) /\ m.errs = p.errs /\ m.bad = p.bad /\ m.failed = TRUE
    BY <2>6, <2>7, FailingEffect
  <2>9. s = mark_current_transaction_failed(m)
    BY <1>2, <1>5, <2>1, <2>5, <2>7 DEF handle_idle_statement_timeout
  <2>10. /\ SameStatement(m, s) /\ SameToken(m, s) /\ SameCopy(m, s) /\ SameReport(m, s)
         /\ s.reg = m.reg
         /\ s.txn = IF m.txn = "open" THEN "failed" ELSE m.txn
         /\ m.txn \in {"none", "shell"} => s.old = {} /\ s.cursor = None /\ s.portal # "suspended"
    BY <2>8, <2>9, MarkCurrentEffect
  <2>11. Cycle(s)
    BY <1>1, <1>5, <2>4, <2>6, <2>8, <2>10, SessionAssumption
    DEF SessionOK, Cycle, InStatement, SameStatement, SameToken, SameCopy, SameReport
  <2>12. Copying(s) /\ Reported(s)
    BY <1>1, <1>5, <2>4, <2>6, <2>8, <2>10, SessionAssumption
    DEF SessionOK, Copying, Reported, SameStatement, SameSlot, SameCopy, SameReport
  <2>13. Current(s)
    BY <1>1, <1>5, <2>4, <2>6, <2>8, <2>10, SessionAssumption
    DEF SessionOK, Current, Fresh, SameStatement, SameSlot, SameScoped, SameCopy
  <2> QED
    BY <1>2, <1>3, <2>11, <2>12, <2>13 DEF OK, SessionOK
<1> QED
  BY <1>4, <1>5

(* A step of one client's session keeps every session in order if it keeps that  *)
(* one (each connection has its own Session).                                *)
LEMMA OneSession ==
  ASSUME SessionsInv, NEW c \in Client, NEW s, OK(s), ses' = [ses EXCEPT ![c] = s]
  PROVE  SessionsInv'
BY DEF SessionsInv, OK

(* Each client's session is in order (the sessions of the server).           *)
LEMMA OfClient ==
  ASSUME SessionsInv, NEW c \in Client
  PROVE  OK(ses[c])
BY DEF SessionsInv, OK

(* A simple query is taken (run_query).                                     *)
LEMMA QueryOK ==
  ASSUME NEW r, AtMessage(r), NEW armed \in {"Idle", "Armed"}, NEW k \in SimpleKinds
  PROVE  OK([close_autocommit_suspended_portals(start_statement_timer(r, armed)) EXCEPT
               !.phase = "begin", !.path = "simple", !.stmt = k])
<1>1. PICK q : q = start_statement_timer(r, armed)
  OBVIOUS
<1>2. q \in SessionRecord /\ SessionOK(q) /\ q.copy = None /\ ~q.failed /\ q.active /\ q.errs = 0
      /\ q.phase = "idle"
  BY <1>1, StartOK DEF AtMessage, OK
<1>3. PICK p : p = close_autocommit_suspended_portals(q)
  OBVIOUS
<1>4. /\ p \in SessionRecord
      /\ SameStatement(q, p) /\ SameToken(q, p) /\ SameSlot(q, p) /\ SameCopy(q, p)
      /\ SameReport(q, p)
      /\ p.cursor = q.cursor /\ p.old = q.old /\ (q.portal # "suspended" => p.portal # "suspended")
  BY <1>2, <1>3, CloseTyped, CloseAutocommitEffect
<1>5. PICK s : s = [p EXCEPT !.phase = "begin", !.path = "simple", !.stmt = k]
  OBVIOUS
<1>6. s \in SessionRecord
  <2>1. "begin" \in Phases /\ "simple" \in Paths /\ k \in Stmts
    BY DEF Phases, Paths, Stmts
  <2>2. [p EXCEPT !.phase = "begin"] \in SessionRecord
    BY <1>4, <2>1, FieldTyped
  <2>3. [p EXCEPT !.phase = "begin", !.path = "simple"] \in SessionRecord
    BY <2>1, <2>2, FieldTyped
  <2> QED
    BY <1>5, <2>1, <2>3, FieldTyped
<1>7. /\ SameToken(p, s) /\ SameSlot(p, s) /\ SameScoped(p, s) /\ SameCopy(p, s)
      /\ SameReport(p, s) /\ s.phase = "begin" /\ s.path = "simple" /\ s.stmt = k
      /\ s.wrote = p.wrote
  BY <1>4, <1>5 DEF SessionRecord, SameToken, SameSlot, SameScoped, SameCopy, SameReport
<1>8. Cycle(s)
  BY <1>2, <1>4, <1>7, SessionAssumption
  DEF SessionOK, Cycle, SameStatement, SameToken, SameCopy, SameReport
<1>9. Copying(s) /\ Reported(s)
  BY <1>2, <1>4, <1>7, SessionAssumption
  DEF SessionOK, Copying, Reported, SameStatement, SameSlot, SameCopy, SameReport
<1>10. Current(s)
  BY <1>2, <1>4, <1>7, SessionAssumption
  DEF SessionOK, Current, Fresh, SameStatement, SameSlot, SameScoped, SameCopy
<1> QED
  BY <1>1, <1>3, <1>5, <1>6, <1>8, <1>9, <1>10 DEF OK, SessionOK

(* Sync ends the cycle (Sync).                                              *)
LEMMA SyncOK ==
  ASSUME NEW r, OK(r), r.phase = "idle", r.copy = None
  PROVE  OK(ReadyForQuery(close_autocommit_suspended_portals(
              [stop_statement_timer(r) EXCEPT !.failed = FALSE])))
<1>1. r \in SessionRecord /\ SessionOK(r)
  BY DEF OK
<1>2. PICK q : q = stop_statement_timer(r)
  OBVIOUS
<1>3. /\ q \in SessionRecord
      /\ SameStatement(r, q) /\ SameSlot(r, q) /\ SameScoped(r, q) /\ SameCopy(r, q)
      /\ SameReport(r, q) /\ q.active = FALSE /\ q.timer = "Idle"
  BY <1>1, <1>2, StopTyped, StopEffect
<1>4. PICK f : f = [q EXCEPT !.failed = FALSE]
  OBVIOUS
<1>5. f \in SessionRecord
  BY <1>3, <1>4, FieldTyped
<1>6. /\ SameToken(q, f) /\ SameSlot(q, f) /\ SameScoped(q, f) /\ SameCopy(q, f)
      /\ f.failed = FALSE /\ f.bad = q.bad
  BY <1>3, <1>4 DEF SessionRecord, SameToken, SameSlot, SameScoped, SameCopy
<1>7. PICK p : p = close_autocommit_suspended_portals(f)
  OBVIOUS
<1>8. /\ p \in SessionRecord
      /\ SameStatement(f, p) /\ SameToken(f, p) /\ SameSlot(f, p) /\ SameCopy(f, p)
      /\ SameReport(f, p)
      /\ p.cursor = f.cursor /\ p.old = f.old /\ (f.portal # "suspended" => p.portal # "suspended")
  BY <1>5, <1>7, CloseTyped, CloseAutocommitEffect
<1>9. PICK s : s = ReadyForQuery(p)
  OBVIOUS
<1>10. /\ s \in SessionRecord
       /\ SameToken(p, s) /\ SameSlot(p, s) /\ SameScoped(p, s) /\ SameCopy(p, s)
       /\ s.failed = p.failed /\ s.bad = p.bad /\ s.errs = 0
       /\ s.phase = "idle" /\ s.path = None /\ s.wrote = FALSE
  BY <1>8, <1>9, BetweenTyped, ReadyEffect
<1>11. Cycle(s)
  BY <1>1, <1>3, <1>6, <1>8, <1>10, SessionAssumption
  DEF SessionOK, Cycle, InStatement, SameStatement, SameToken, SameCopy, SameReport
<1>12. Copying(s) /\ Reported(s)
  BY <1>1, <1>3, <1>6, <1>8, <1>10, SessionAssumption
  DEF SessionOK, Copying, Reported, SameStatement, SameSlot, SameCopy, SameReport
<1>13. Current(s)
  BY <1>1, <1>3, <1>6, <1>8, <1>10, SessionAssumption
  DEF SessionOK, Current, Fresh, SameSlot, SameScoped, SameCopy
<1> QED
  BY <1>2, <1>4, <1>7, <1>9, <1>10, <1>11, <1>12, <1>13 DEF OK, SessionOK

(* A portal is bound or closed while the loop waits (process_bind,             *)
(* process_close).                                                           *)
LEMMA PortalOK ==
  ASSUME NEW r, OK(r), r.phase = "idle", r.copy = None, NEW k \in PreparedKinds \cup {None}
  PROVE  OK([r EXCEPT !.portal = k, !.old = @ \ {"portal"}])
<1>1. r \in SessionRecord /\ SessionOK(r)
  BY DEF OK
<1>2. PICK q : q = [r EXCEPT !.portal = k]
  OBVIOUS
<1>3. q \in SessionRecord
  BY <1>1, <1>2, FieldTyped DEF Portals
<1>4. PICK s : s = [q EXCEPT !.old = q.old \ {"portal"}]
  OBVIOUS
<1>5. s \in SessionRecord
  <2>1. q.old \ {"portal"} \in Leftovers
    BY <1>3, FieldOf DEF Leftovers
  <2> QED
    BY <1>3, <1>4, <2>1, FieldTyped
<1>6. /\ SameStatement(r, q) /\ SameToken(r, q) /\ SameSlot(r, q) /\ SameCopy(r, q)
      /\ SameReport(r, q) /\ q.portal = k /\ q.cursor = r.cursor /\ q.old = r.old
  BY <1>1, <1>2 DEF SessionRecord, SameStatement, SameToken, SameSlot, SameCopy, SameReport
<1>7. /\ SameStatement(q, s) /\ SameToken(q, s) /\ SameSlot(q, s) /\ SameCopy(q, s)
      /\ SameReport(q, s) /\ s.portal = q.portal /\ s.cursor = q.cursor
      /\ s.old = q.old \ {"portal"}
  BY <1>3, <1>4 DEF SessionRecord, SameStatement, SameToken, SameSlot, SameCopy, SameReport
<1>8. Cycle(s)
  BY <1>1, <1>6, <1>7 DEF SessionOK, Cycle, SameStatement, SameToken, SameCopy, SameReport
<1>9. Copying(s) /\ Reported(s)
  BY <1>1, <1>6, <1>7 DEF SessionOK, Copying, Reported, SameStatement, SameSlot, SameCopy, SameReport
<1>10. k # "suspended"
  BY SessionAssumption DEF PreparedKinds, Control, Data
<1>11. Current(s)
  BY <1>1, <1>6, <1>7, <1>10, SessionAssumption DEF SessionOK, Current, Fresh, SameStatement, SameSlot, SameCopy
<1> QED
  BY <1>2, <1>4, <1>5, <1>8, <1>9, <1>11 DEF OK, SessionOK

(* An Execute goes to admission with its portal, taken out of the session if it   *)
(* is suspended or has a row limit (run_execute).                            *)
LEMMA ExecuteOK ==
  ASSUME NEW r, AtMessage(r), r.active, r.errs = 0,
         NEW path \in {"resume", "limited", "extended"},
         path = "resume" <=> r.portal \in {"suspended", "suspended_autocommit"},
         NEW portal \in {None, r.portal}
  PROVE  OK([r EXCEPT !.phase = "begin", !.stmt = r.portal, !.path = path, !.portal = portal])
<1>1. r \in SessionRecord /\ SessionOK(r) /\ r.phase = "idle" /\ r.copy = None /\ ~r.failed
  BY DEF AtMessage, OK
<1>2. PICK s : s = [r EXCEPT !.phase = "begin", !.stmt = r.portal, !.path = path, !.portal = portal]
  OBVIOUS
<1>3. s \in SessionRecord
  <2>1. "begin" \in Phases /\ path \in Paths /\ r.portal \in Stmts /\ portal \in Portals
    BY <1>1, FieldOf DEF Phases, Paths, Stmts, Portals
  <2>2. [r EXCEPT !.phase = "begin", !.stmt = r.portal] \in SessionRecord
    BY <1>1, <2>1, FieldTyped
  <2>3. [r EXCEPT !.phase = "begin", !.stmt = r.portal, !.path = path] \in SessionRecord
    BY <2>1, <2>2, FieldTyped
  <2> QED
    BY <1>2, <2>1, <2>3, FieldTyped
<1>4. /\ SameToken(r, s) /\ SameSlot(r, s) /\ SameCopy(r, s) /\ SameReport(r, s)
      /\ s.phase = "begin" /\ s.stmt = r.portal /\ s.path = path /\ s.portal = portal
      /\ s.cursor = r.cursor /\ s.old = r.old /\ s.wrote = r.wrote
  BY <1>1, <1>2 DEF SessionRecord, SameToken, SameSlot, SameCopy, SameReport
<1>5. r.portal # "rollbackto"
  BY <1>1, FieldOf, SessionAssumption
  DEF Portals, PreparedKinds, Control, Data, SimpleKinds
<1>6. Cycle(s)
  BY <1>1, <1>4, SessionAssumption DEF SessionOK, Cycle, SameToken, SameCopy, SameReport
<1>7. Copying(s) /\ Reported(s)
  BY <1>1, <1>4, SessionAssumption DEF SessionOK, Copying, Reported, SameSlot, SameCopy, SameReport
<1>8. Current(s)
  BY <1>1, <1>4, <1>5, SessionAssumption DEF SessionOK, Current, Fresh, SameSlot, SameCopy
<1> QED
  BY <1>2, <1>3, <1>6, <1>7, <1>8 DEF OK, SessionOK

(* Every message keeps the sessions in order (the protocol loop).            *)
LEMMA MessageStep ==
  ASSUME SessionsInv, scale \in Scales, NEW c \in Client, Message(c)
  PROVE  SessionsInv'
<1>1. OK(ses[c])
  BY OfClient
<1>2. \A armed \in Timeouts : armed \in {"Idle", "Armed"}
  BY DEF Timeouts
<1>3. Waiting(c) /\ ~ses[c].failed => AtMessage(ses[c])
  BY <1>1 DEF Waiting, AtMessage
<1>4. CASE run_query(c)
  <2>1. PICK k \in scale.simple, armed \in Timeouts :
          ses' = [ses EXCEPT ![c] =
            [close_autocommit_suspended_portals(start_statement_timer(ses[c], armed)) EXCEPT
               !.phase = "begin", !.path = "simple", !.stmt = k]]
    BY <1>4 DEF run_query, Own
  <2>2. k \in SimpleKinds
    BY SessionAssumption
  <2>3. AtMessage(ses[c])
    BY <1>3, <1>4 DEF run_query
  <2> QED
    BY <1>2, <2>1, <2>2, <2>3, QueryOK, OneSession
<1>5. CASE Sync(c)
  BY <1>1, <1>5, SyncOK, OneSession DEF Sync, Waiting, Own
<1>6. ASSUME Extended(c), NEW armed \in Timeouts
      PROVE  /\ AtMessage(Started(c, armed)) /\ Started(c, armed).active
             /\ Started(c, armed).errs = 0
  BY <1>2, <1>3, <1>6, StartOK DEF Extended, Started
<1>7. CASE process_parse(c)
  <2>1. PICK armed \in Timeouts :
          \/ ses' = [ses EXCEPT ![c] = Started(c, armed)]
          \/ ses' = [ses EXCEPT ![c] = reply_or_fail(Started(c, armed))]
    BY <1>7 DEF process_parse, Own
  <2>2. AtMessage(Started(c, armed)) /\ Started(c, armed).errs = 0
    BY <1>6, <1>7 DEF process_parse
  <2>3. OK(Started(c, armed)) /\ OK(reply_or_fail(Started(c, armed)))
    BY <2>2, FailOK DEF AtMessage
  <2> QED
    BY <2>1, <2>3, OneSession
<1>8. CASE process_bind(c)
  <2>1. PICK armed \in Timeouts :
          \/ \E k \in scale.prepared :
               ses' = [ses EXCEPT ![c] =
                         [Started(c, armed) EXCEPT !.portal = k, !.old = @ \ {"portal"}]]
          \/ ses' = [ses EXCEPT ![c] = reply_or_fail(Started(c, armed))]
    BY <1>8 DEF process_bind, Own
  <2>2. AtMessage(Started(c, armed)) /\ Started(c, armed).errs = 0
    BY <1>6, <1>8 DEF process_bind
  <2>3. OK(reply_or_fail(Started(c, armed)))
    BY <2>2, FailOK
  <2>4. ASSUME NEW k \in scale.prepared
        PROVE  OK([Started(c, armed) EXCEPT !.portal = k, !.old = @ \ {"portal"}])
    <3>1. k \in PreparedKinds \cup {None}
      BY SessionAssumption
    <3> QED
      BY <2>2, <3>1, PortalOK DEF AtMessage
  <2> QED
    BY <2>1, <2>3, <2>4, OneSession
<1>9. CASE process_close(c)
  <2>1. AtMessage(ses[c]) /\ ses' = [ses EXCEPT ![c] = [ses[c] EXCEPT !.portal = None, !.old = @ \ {"portal"}]]
    BY <1>3, <1>9 DEF process_close, Extended, Own
  <2> QED
    BY <2>1, PortalOK, OneSession DEF AtMessage
<1>10. CASE run_execute(c)
  <2>1. PICK armed \in Timeouts, limited \in BOOLEAN :
          LET r == Started(c, armed)
              p == r.portal
              parked == p \in {"suspended", "suspended_autocommit"}
              taken == parked \/ (limited /\ p = "read")
          IN  IF p = None \/ (taken /\ r.txn \in {"failed", "shell"})
              THEN Own(c, RefusedExecute(r))
              ELSE Own(c, [r EXCEPT !.phase = "begin", !.stmt = p,
                             !.path = IF parked THEN "resume" ELSE IF taken THEN "limited"
                                      ELSE "extended",
                             !.portal = IF taken THEN None ELSE @])
    BY <1>10 DEF run_execute
  <2>2. AtMessage(Started(c, armed)) /\ Started(c, armed).active /\ Started(c, armed).errs = 0
    BY <1>6, <1>10 DEF run_execute
  <2>3. PICK r : r = Started(c, armed)
    OBVIOUS
  <2> DEFINE parked == r.portal \in {"suspended", "suspended_autocommit"}
             taken == parked \/ (limited /\ r.portal = "read")
             path == IF parked THEN "resume" ELSE IF taken THEN "limited" ELSE "extended"
             portal == IF taken THEN None ELSE r.portal
             s == [r EXCEPT !.phase = "begin", !.stmt = r.portal, !.path = path, !.portal = portal]
  <2>4. r \in SessionRecord
    BY <2>2, <2>3 DEF AtMessage, OK
  <2>5. OK(RefusedExecute(r))
    BY <2>2, <2>3, RefuseOK DEF AtMessage
  <2>6. OK(s)
    <3>1. path \in {"resume", "limited", "extended"} /\ portal \in {None, r.portal}
      OBVIOUS
    <3>2. path = "resume" <=> r.portal \in {"suspended", "suspended_autocommit"}
      OBVIOUS
    <3> HIDE DEF path, portal
    <3> QED
      BY <2>2, <2>3, <3>1, <3>2, ExecuteOK
  <2>7. s = [r EXCEPT !.phase = "begin", !.stmt = r.portal,
                      !.path = IF parked THEN "resume" ELSE IF taken THEN "limited" ELSE "extended",
                      !.portal = IF taken THEN None ELSE @]
    BY <2>4 DEF SessionRecord
  <2>8. \/ ses' = [ses EXCEPT ![c] = RefusedExecute(r)]
        \/ ses' = [ses EXCEPT ![c] = s]
    BY <2>1, <2>3, <2>7 DEF Own
  <2> HIDE DEF s
  <2> QED
    BY <2>5, <2>6, <2>8, OneSession
<1>11. CASE BeforeMessage(c)
  BY <1>1, <1>11, IdleTimeoutOK, OneSession DEF BeforeMessage, Canceling, Own
<1>12. CASE Disconnect(c)
  BY <1>1, <1>12, DropOK, OneSession DEF Disconnect, Own
<1> QED
  BY <1>4, <1>5, <1>7, <1>8, <1>9, <1>10, <1>11, <1>12 DEF Message

-----------------------------------------------------------------------------
(* Cancellation                                                             *)

(* The wake-up of a canceled session changes nothing else (cancel_wake).      *)
LEMMA WakeOK ==
  ASSUME NEW r, OK(r), NEW b \in BOOLEAN
  PROVE  /\ OK([r EXCEPT !.wake = b]) /\ OK([r EXCEPT !.notify = b])
         /\ [r EXCEPT !.wake = b].phase = r.phase /\ [r EXCEPT !.wake = b].active = r.active
<1>1. r \in SessionRecord /\ SessionOK(r)
  BY DEF OK
<1>2. ASSUME NEW s \in SessionRecord, SameStatement(r, s), SameToken(r, s), SameSlot(r, s),
             SameScoped(r, s), SameCopy(r, s), SameReport(r, s)
      PROVE  OK(s)
  <2>1. Cycle(s)
    BY <1>1, <1>2 DEF SessionOK, Cycle, SameStatement, SameToken, SameCopy, SameReport
  <2>2. Copying(s) /\ Reported(s)
    BY <1>1, <1>2 DEF SessionOK, Copying, Reported, SameStatement, SameSlot, SameCopy, SameReport
  <2>3. Current(s)
    BY <1>1, <1>2 DEF SessionOK, Current, Fresh, SameStatement, SameSlot, SameScoped, SameCopy
  <2> QED
    BY <2>1, <2>2, <2>3 DEF OK, SessionOK
<1>3. [r EXCEPT !.wake = b] \in SessionRecord /\ [r EXCEPT !.notify = b] \in SessionRecord
  BY <1>1, FieldTyped
<1>4. PICK s : s = [r EXCEPT !.wake = b]
  OBVIOUS
<1>5. /\ SameStatement(r, s) /\ SameToken(r, s) /\ SameSlot(r, s) /\ SameScoped(r, s)
      /\ SameCopy(r, s) /\ SameReport(r, s)
  BY <1>1, <1>4 DEF SessionRecord, SameStatement, SameToken, SameSlot, SameScoped, SameCopy, SameReport
<1>6. PICK q : q = [r EXCEPT !.notify = b]
  OBVIOUS
<1>7. /\ SameStatement(r, q) /\ SameToken(r, q) /\ SameSlot(r, q) /\ SameScoped(r, q)
      /\ SameCopy(r, q) /\ SameReport(r, q)
  BY <1>1, <1>6 DEF SessionRecord, SameStatement, SameToken, SameSlot, SameScoped, SameCopy, SameReport
<1> QED
  BY <1>2, <1>3, <1>4, <1>5, <1>6, <1>7 DEF SameStatement, SameToken

(* A request for cancellation is remembered as belonging to the active             *)
(* statement, if there is one (CancelToken's request).                       *)
LEMMA RequestedOK ==
  ASSUME NEW r, OK(r), NEW why \in {"user", "timeout"}
  PROVE  OK(Requested(r, why)) /\ Requested(r, why).active = r.active
<1>1. r \in SessionRecord /\ SessionOK(r)
  BY DEF OK
<1>2. CASE r.reason # None
  BY <1>2 DEF Requested
<1>3. CASE r.reason = None
  <2>1. PICK s : s = [r EXCEPT !.reason = why, !.fresh = r.active]
    OBVIOUS
  <2>2. s \in SessionRecord
    <3>1. why \in Reasons /\ r.active \in BOOLEAN
      BY <1>1, FieldOf DEF Reasons
    <3>2. [r EXCEPT !.reason = why] \in SessionRecord
      BY <1>1, <3>1, FieldTyped
    <3> QED
      BY <2>1, <3>1, <3>2, FieldTyped
  <2>3. /\ SameStatement(r, s) /\ SameSlot(r, s) /\ SameScoped(r, s) /\ SameCopy(r, s)
        /\ SameReport(r, s) /\ s.active = r.active /\ s.timer = r.timer
        /\ s.fresh = r.active
    BY <1>1, <2>1 DEF SessionRecord, SameStatement, SameSlot, SameScoped, SameCopy, SameReport
  <2>4. Cycle(s)
    BY <1>1, <2>3 DEF SessionOK, Cycle, SameStatement, SameCopy, SameReport
  <2>5. Copying(s) /\ Reported(s)
    BY <1>1, <2>3 DEF SessionOK, Copying, Reported, SameStatement, SameSlot, SameCopy, SameReport
  <2>6. Current(s)
    BY <1>1, <2>3 DEF SessionOK, Current, Fresh, SameStatement, SameSlot, SameScoped, SameCopy
  <2>7. s = Requested(r, why)
    BY <1>3, <2>1 DEF Requested
  <2> QED
    BY <2>2, <2>3, <2>4, <2>5, <2>6, <2>7 DEF OK, SessionOK
<1> QED
  BY <1>2, <1>3

(* Cancel requests, their wake-ups and the timer keep the sessions in order        *)
(* (request_cancel, cancel_wake, StatementTimer).                            *)
LEMMA CancelStep ==
  ASSUME SessionsInv, NEW c \in Client,
         \/ TimerWakes(c) \/ CancelWakes(c) \/ request_cancel(c) \/ notify_cancel(c)
         \/ TimerFires(c)
  PROVE  SessionsInv'
<1>1. OK(ses[c])
  BY OfClient
<1>2. ses[c].timer # "Idle" => ses[c].active
  BY <1>1 DEF OK, SessionOK, Cycle
<1>3. CASE TimerWakes(c)
  BY <1>1, <1>2, <1>3, IdleTimeoutOK, OneSession DEF TimerWakes, Own
<1>4. CASE CancelWakes(c)
  <2>1. PICK r : r = [ses[c] EXCEPT !.wake = FALSE]
    OBVIOUS
  <2>2. OK(r) /\ r.phase = "idle"
    BY <1>1, <1>4, <2>1, WakeOK DEF CancelWakes
  <2>3. ses' = [ses EXCEPT ![c] = IF Canceling(r) THEN handle_idle_statement_timeout(r) ELSE r]
    BY <1>4, <2>1 DEF CancelWakes, Own
  <2>4. Canceling(r) => OK(handle_idle_statement_timeout(r))
    BY <2>2, IdleTimeoutOK DEF Canceling
  <2> QED
    BY <2>2, <2>3, <2>4, OneSession
<1>5. CASE request_cancel(c)
  <2>1. OK([Requested(ses[c], "user") EXCEPT !.notify = TRUE])
    BY <1>1, RequestedOK, WakeOK
  <2> QED
    BY <1>5, <2>1, OneSession DEF request_cancel, Own
<1>6. CASE notify_cancel(c)
  <2>1. OK([[ses[c] EXCEPT !.notify = FALSE] EXCEPT !.wake = TRUE])
    BY <1>1, WakeOK
  <2>2. ses' = [ses EXCEPT ![c] = [[ses[c] EXCEPT !.notify = FALSE] EXCEPT !.wake = TRUE]]
    BY <1>6 DEF notify_cancel, Own
  <2> QED
    BY <2>1, <2>2, OneSession
<1>7. CASE TimerFires(c)
  <2>1. PICK r : r = Requested(ses[c], "timeout")
    OBVIOUS
  <2>2. OK(r) /\ r.active
    BY <1>1, <1>2, <1>7, <2>1, RequestedOK DEF TimerFires
  <2>3. r \in SessionRecord /\ SessionOK(r)
    BY <2>2 DEF OK
  <2>4. PICK s : s = [r EXCEPT !.timer = "Expired"]
    OBVIOUS
  <2>5. s \in SessionRecord
    BY <2>3, <2>4, FieldTyped DEF Timers
  <2>6. /\ SameStatement(r, s) /\ SameSlot(r, s) /\ SameScoped(r, s) /\ SameCopy(r, s)
        /\ SameReport(r, s) /\ s.active = r.active /\ s.reason = r.reason /\ s.fresh = r.fresh
    BY <2>3, <2>4 DEF SessionRecord, SameStatement, SameSlot, SameScoped, SameCopy, SameReport
  <2>7. Cycle(s)
    BY <2>2, <2>3, <2>6 DEF SessionOK, Cycle, SameStatement, SameCopy, SameReport
  <2>8. Copying(s) /\ Reported(s)
    BY <2>3, <2>6 DEF SessionOK, Copying, Reported, SameStatement, SameSlot, SameCopy, SameReport
  <2>9. Current(s)
    BY <2>3, <2>6 DEF SessionOK, Current, Fresh, SameStatement, SameSlot, SameScoped, SameCopy
  <2>10. OK(s)
    BY <2>5, <2>7, <2>8, <2>9 DEF OK, SessionOK
  <2> QED
    BY <1>7, <2>1, <2>4, <2>10, OneSession DEF TimerFires, Own
<1> QED
  BY <1>3, <1>4, <1>5, <1>6, <1>7

-----------------------------------------------------------------------------
(* Statements                                                               *)

(* During a statement no COPY runs, no error has been reported and the skip to     *)
(* Sync is closed (the protocol loop takes a message only then).             *)
LEMMA Busy ==
  ASSUME NEW r, OK(r), r.phase \in {"begin", "join", "reply", "copy_begin"}
  PROVE  /\ r \in SessionRecord /\ SessionOK(r) /\ r.copy = None /\ r.work.at = None
         /\ r.active /\ ~r.failed /\ r.errs = 0
<1>1. r \in SessionRecord /\ Cycle(r) /\ Copying(r) /\ SessionOK(r)
  BY DEF OK, SessionOK
<1>2. r.active
  BY <1>1 DEF Cycle, InStatement
<1>3. r.copy = None
  BY <1>1, <1>2, FieldOf DEF Cycle, Copying, Copies
<1>4. ~r.failed /\ r.errs = 0
  BY <1>1, <1>2, <1>3, FieldOf, SessionAssumption DEF Cycle
<1>5. r.work.at = None
  BY <1>1, <1>3, SessionAssumption DEF Copying
<1> QED
  BY <1>1, <1>2, <1>3, <1>4, <1>5

(* Outside the wait for a message, a statement that only changed its place, its    *)
(* slot and what the slot owns is in order if nothing is left over.          *)
LEMMA StatementOK ==
  ASSUME NEW r, OK(r), r.phase \in {"begin", "join"},
         NEW s \in SessionRecord, s.phase \in {"reply", "copy_begin"},
         SameToken(r, s), SameCopy(r, s), SameReport(r, s),
         Fresh(s, s.txn), s.wrote = r.wrote, r.wrote => s.phase = "reply" /\ s.out # "copyin",
         r.wrote /\ s.path # "simple" => s.out = "Durable"
  PROVE  OK(s)
<1>1. /\ SessionOK(r) /\ r.copy = None /\ r.work.at = None
      /\ r.active /\ ~r.failed /\ r.errs = 0
  BY Busy
<1>2. Cycle(s)
  BY <1>1, SessionAssumption DEF SessionOK, Cycle, SameToken, SameCopy, SameReport
<1>3. Copying(s) /\ Reported(s)
  BY <1>1, SessionAssumption DEF SessionOK, Copying, Reported, SameCopy, SameReport
<1>4. Current(s)
  BY <1>1, SessionAssumption DEF Current, SameCopy
<1> QED
  BY <1>2, <1>3, <1>4 DEF OK, SessionOK

(* A query that shutdown refuses ends its cycle or its connection (the error of    *)
(* begin_query).                                                             *)
LEMMA RefusedStep ==
  ASSUME SessionsInv, NEW c \in Client, Refused(c)
  PROVE  SessionsInv'
<1>1. OK(ses[c]) /\ ses[c].phase = "begin"
  BY OfClient DEF Refused
<1>2. ses[c].copy = None /\ ~ses[c].failed /\ ses[c].errs = 0
  BY <1>1, Busy
<1>3. OK(Drop(ses[c])) /\ OK(Between(RefusedExecute(ses[c])))
  BY <1>1, <1>2, DropOK, RefuseOK
<1> QED
  BY <1>3, OneSession DEF Refused

(* What comes of a statement: a durable commit is a success of a COMMIT or of an    *)
(* autocommit write, a transaction that left the registry leaves the slot empty or  *)
(* a shell, and only BEGIN and ROLLBACK TO make the slot healthy (dispatch,         *)
(* execute_prepared_in_session).                                             *)
OutcomeOK(k, t, o) ==
  /\ o.txn \in Txns /\ o.out \in {"ok", "err"} /\ o.wrote \in BOOLEAN /\ o.settled \in BOOLEAN
  /\ o.wrote => o.out = "ok" /\ \/ k = "commit" /\ t = "open"
                                \/ k = "write" /\ t = "none"
  /\ o.settled => o.txn \in {"none", "shell"}
  /\ o.txn = "open" => t \in {"none", "open"} \/ (k = "rollbackto" /\ o.out = "ok")

(* The fields of an outcome (Outcome, a statement's result).                 *)
LEMMA OutcomeIs ==
  ASSUME NEW k, NEW t, NEW u \in Txns, NEW out \in {"ok", "err"}, NEW w \in BOOLEAN,
         NEW e \in BOOLEAN,
         w => (k = "commit" /\ t = "open") \/ (k = "write" /\ t = "none"),
         w => out = "ok",
         e => u \in {"none", "shell"},
         u = "open" => t \in {"none", "open"} \/ (k = "rollbackto" /\ out = "ok")
  PROVE  OutcomeOK(k, t, Outcome(u, out, w, e))
<1>1. PICK o : o = Outcome(u, out, w, e)
  OBVIOUS
<1>2. o.txn = u /\ o.out = out /\ o.wrote = w /\ o.settled = e
  BY <1>1 DEF Outcome
<1> QED
  BY <1>1, <1>2 DEF OutcomeOK

(* Every outcome that dispatch and execute_prepared_in_session can give.        *)
LEMMA OutcomeFacts ==
  ASSUME NEW k, NEW t \in Txns, NEW pending \in BOOLEAN, NEW o \in Outcomes(k, t, pending)
  PROVE  OutcomeOK(k, t, o)
<1> USE DEF Txns
<1>1. CASE k = "begin"
  <2>1. \/ t = "none" /\ o = Outcome("open", "ok", FALSE, FALSE)
        \/ t = "none" /\ o = Outcome("none", "err", FALSE, FALSE)
        \/ o = Outcome(t, "ok", FALSE, FALSE)
    BY <1>1 DEF Outcomes, Stays
  <2> QED
    BY <2>1, OutcomeIs
<1>2. CASE k = "commit"
  <2>1. \/ o = Outcome("failed", "err", FALSE, FALSE)
        \/ t = "open" /\ \E w \in BOOLEAN : o = Outcome("none", "ok", w, TRUE)
        \/ o = Outcome("none", "err", FALSE, TRUE)
        \/ o = Outcome("none", "ok", FALSE, t = "failed")
    BY <1>2 DEF Outcomes, Stays
  <2>2. (t = "failed") \in BOOLEAN
    OBVIOUS
  <2> QED
    BY <1>2, <2>1, <2>2, OutcomeIs
<1>3. CASE k = "rollback"
  <2>1. o = Outcome("none", "ok", FALSE, t \in {"open", "failed"})
    BY <1>3 DEF Outcomes
  <2>2. (t \in {"open", "failed"}) \in BOOLEAN
    OBVIOUS
  <2> QED
    BY <2>1, <2>2, OutcomeIs
<1>4. CASE k = "rollbackto"
  <2>1. \/ t \in {"none", "shell"} /\ o = Outcome(t, "err", FALSE, FALSE)
        \/ o = Outcome("open", "ok", FALSE, FALSE)
        \/ o = Outcome("failed", "err", FALSE, FALSE)
    BY <1>4 DEF Outcomes, Stays
  <2> QED
    BY <1>4, <2>1, OutcomeIs
<1>5. CASE k = "reset"
  <2>1. \/ o = Outcome("none", "ok", FALSE, FALSE)
        \/ o = Outcome("none", "err", FALSE, FALSE)
        \/ o = Outcome("failed", "err", FALSE, FALSE)
        \/ o = Outcome(t, "err", FALSE, FALSE)
    BY <1>5 DEF Outcomes, Stays
  <2> QED
    BY <2>1, OutcomeIs
<1>6. CASE k \notin {"begin", "commit", "rollback", "rollbackto", "reset"}
  <2>1. \/ o = Outcome("none", "err", FALSE, FALSE)
        \/ t = "none" /\ k = "write" /\ o = Outcome("none", "ok", TRUE, FALSE)
        \/ o = Outcome("none", "ok", FALSE, FALSE)
        \/ t = "open" /\ o = Outcome("open", "ok", FALSE, FALSE)
        \/ o = Outcome("failed", "err", FALSE, FALSE)
        \/ o = Outcome("shell", "err", FALSE, TRUE)
        \/ o = Outcome(t, "err", FALSE, FALSE)
    BY <1>6 DEF Outcomes, Stays
  <2> QED
    BY <2>1, OutcomeIs
<1> QED
  BY <1>1, <1>2, <1>3, <1>4, <1>5, <1>6

(* The outcome's name: what must not be undone by a cancel is Durable on the       *)
(* extended path (StreamOutcome).                                            *)
LEMMA StreamFacts ==
  ASSUME NEW path, NEW k, NEW t
  PROVE  /\ StreamOutcome(path, k, t) \in {"SessionReset", "Durable", "copyin", "Direct"}
         /\ k = "rollbackto" => StreamOutcome(path, k, t) = "Durable"
         /\ path = "extended" /\ k = "commit" /\ t = "open" => StreamOutcome(path, k, t) = "Durable"
         /\ path = "extended" /\ k = "write" /\ t = "none" => StreamOutcome(path, k, t) = "Durable"
         /\ k \in {"commit", "write"} => StreamOutcome(path, k, t) # "copyin"
BY DEF StreamOutcome

(* A statement's task ends: what it did to the slot is in order until it is        *)
(* joined (dispatch, execute_prepared_in_session).                           *)
LEMMA RunStatementStep ==
  ASSUME SessionsInv, NEW c \in Client, RunStatement(c)
  PROVE  SessionsInv'
<1> DEFINE r == ses[c]
<1>2. OK(r) /\ r.phase = "begin" /\ r.path \in {"simple", "extended"}
  BY OfClient DEF RunStatement, Running
<1>3. /\ r \in SessionRecord /\ SessionOK(r) /\ r.copy = None /\ r.work.at = None
      /\ r.active /\ ~r.failed /\ r.errs = 0
  BY <1>2, Busy
<1> DEFINE ran(o) == IF o.settled THEN Settle(r, o.txn)
                     ELSE IF r.stmt = "rollbackto" /\ o.out = "ok" THEN [Outlived(r) EXCEPT !.txn = o.txn]
                     ELSE [r EXCEPT !.txn = o.txn, !.reg = @ \/ o.txn = "open"]
<1>4. PICK o \in Outcomes(r.stmt, r.txn, r.reason # None) :
        ses' = [ses EXCEPT ![c] =
                  [ran(o) EXCEPT !.phase = "join", !.wrote = o.wrote,
                     !.reg = @ \/ (r.stmt = "copyin" /\ o.out = "ok"),
                     !.out = IF o.out = "err" THEN "err" ELSE StreamOutcome(r.path, r.stmt, r.txn)]]
  BY DEF RunStatement
<1> HIDE DEF r
<1>5. OutcomeOK(r.stmt, r.txn, o)
  <2>1. r.txn \in Txns /\ (r.reason # None) \in BOOLEAN
    BY <1>3, FieldOf
  <2> QED
    BY <1>4, <2>1, OutcomeFacts
<1>6. PICK q : q = ran(o)
  OBVIOUS
<1>7. /\ q \in SessionRecord
      /\ SameStatement(r, q) /\ SameToken(r, q) /\ SameCopy(r, q) /\ SameReport(r, q)
      /\ q.txn = o.txn
      /\ o.txn = "open" /\ q.old # {} => r.stmt = "rollbackto" /\ o.out = "ok"
  <2>1. CASE o.settled
    <3>1. q = Settle(r, o.txn) /\ o.txn \in Txns /\ o.txn # "open"
      BY <1>5, <1>6, <2>1 DEF OutcomeOK
    <3>2. q \in SessionRecord
      BY <1>3, <3>1, SlotTyped
    <3>3. /\ SameStatement(r, q) /\ SameToken(r, q) /\ SameCopy(r, q) /\ SameReport(r, q)
          /\ q.txn = o.txn
      BY <1>3, <3>1, SettleEffect
    <3> QED
      BY <3>1, <3>2, <3>3
  <2>2. CASE ~o.settled /\ r.stmt = "rollbackto" /\ o.out = "ok"
    <3>1. PICK p : p = Outlived(r)
      OBVIOUS
    <3>2. o.txn \in Txns
      BY <1>5 DEF OutcomeOK
    <3>3. /\ p \in SessionRecord /\ SameStatement(r, p) /\ SameToken(r, p) /\ SameCopy(r, p)
          /\ SameReport(r, p)
      BY <1>3, <3>1, <3>2, SlotTyped, OutlivedEffect
    <3>4. q = [p EXCEPT !.txn = o.txn]
      BY <1>6, <2>2, <3>1
    <3>5. q \in SessionRecord
      BY <3>2, <3>3, <3>4, FieldTyped
    <3>6. /\ SameStatement(p, q) /\ SameToken(p, q) /\ SameCopy(p, q) /\ SameReport(p, q)
          /\ q.txn = o.txn
      BY <3>3, <3>4 DEF SessionRecord, SameStatement, SameToken, SameCopy, SameReport
    <3> QED
      BY <2>2, <3>3, <3>5, <3>6 DEF SameStatement, SameToken, SameCopy, SameReport
  <2>3. CASE ~o.settled /\ ~(r.stmt = "rollbackto" /\ o.out = "ok")
    <3>1. o.txn \in Txns
      BY <1>5 DEF OutcomeOK
    <3>2. PICK p : p = [r EXCEPT !.txn = o.txn]
      OBVIOUS
    <3>3. p \in SessionRecord
      BY <1>3, <3>1, <3>2, FieldTyped
    <3>4. q = [p EXCEPT !.reg = @ \/ o.txn = "open"]
      BY <1>6, <2>3, <3>2
    <3>5. q \in SessionRecord
      <4>1. (p.reg \/ o.txn = "open") \in BOOLEAN
        OBVIOUS
      <4> QED
        BY <3>3, <3>4, <4>1, FieldTyped
    <3>6. /\ SameStatement(r, p) /\ SameToken(r, p) /\ SameCopy(r, p) /\ SameReport(r, p)
          /\ p.txn = o.txn /\ p.old = r.old
      BY <1>3, <3>2 DEF SessionRecord, SameStatement, SameToken, SameCopy, SameReport
    <3>7. /\ SameStatement(p, q) /\ SameToken(p, q) /\ SameCopy(p, q) /\ SameReport(p, q)
          /\ q.txn = p.txn /\ q.old = p.old
      BY <3>3, <3>4 DEF SessionRecord, SameStatement, SameToken, SameCopy, SameReport
    <3>8. o.txn = "open" => r.old = {}
      BY <1>2, <1>3, <1>5, <2>3, SessionAssumption DEF OutcomeOK, SessionOK, Current, Fresh
    <3> QED
      BY <3>5, <3>6, <3>7, <3>8 DEF SameStatement, SameToken, SameCopy, SameReport
  <2> QED
    BY <2>1, <2>2, <2>3
<1> HIDE DEF ran
<1>8. PICK out : out = IF o.out = "err" THEN "err" ELSE StreamOutcome(r.path, r.stmt, r.txn)
  OBVIOUS
<1>9. PICK s : s = [q EXCEPT !.phase = "join", !.wrote = o.wrote,
                             !.reg = @ \/ (r.stmt = "copyin" /\ o.out = "ok"), !.out = out]
  OBVIOUS
<1>10. s \in SessionRecord
  <2>1. "join" \in Phases /\ o.wrote \in BOOLEAN /\ out \in Outs
    BY <1>5, <1>8, StreamFacts DEF Phases, OutcomeOK, Outs
  <2>2. PICK p : p = [q EXCEPT !.phase = "join", !.wrote = o.wrote]
    OBVIOUS
  <2>3. [q EXCEPT !.phase = "join"] \in SessionRecord
    BY <1>7, <2>1, FieldTyped
  <2>4. p \in SessionRecord
    BY <2>1, <2>2, <2>3, FieldTyped
  <2>5. PICK b \in BOOLEAN : b = (p.reg \/ (r.stmt = "copyin" /\ o.out = "ok"))
    OBVIOUS
  <2>6. [p EXCEPT !.reg = b] \in SessionRecord
    BY <2>4, FieldTyped
  <2>7. s = [[p EXCEPT !.reg = b] EXCEPT !.out = out]
    BY <1>9, <2>2, <2>5
  <2> QED
    BY <2>1, <2>6, <2>7, FieldTyped
<1>11. /\ SameToken(q, s) /\ SameCopy(q, s) /\ SameReport(q, s) /\ SameScoped(q, s)
       /\ s.phase = "join" /\ s.out = out /\ s.txn = q.txn /\ s.path = q.path /\ s.stmt = q.stmt
  BY <1>7, <1>9 DEF SessionRecord, SameToken, SameCopy, SameReport, SameScoped
<1>12. s.wrote = o.wrote
  BY <1>7, <1>9 DEF SessionRecord
<1>13. Cycle(s)
  BY <1>3, <1>7, <1>11, SessionAssumption DEF SessionOK, Cycle, SameToken, SameCopy, SameReport
<1>14. Copying(s)
  BY <1>3, <1>7, <1>11, SessionAssumption DEF SessionOK, Copying, SameCopy
<1>15. Reported(s)
  <2>1. s.wrote => out # "copyin" /\ (r.path = "extended" => out = "Durable")
    BY <1>5, <1>8, <1>12, StreamFacts DEF OutcomeOK
  <2>2. "durable_extended" \notin s.bad
    BY <1>3, <1>7, <1>11 DEF SessionOK, Reported, SameReport
  <2> QED
    BY <1>2, <1>7, <1>11, <2>1, <2>2 DEF Reported, SameStatement
<1>16. Current(s)
  <2>1. r.stmt = "rollbackto" => r.path = "simple"
    BY <1>2, <1>3 DEF SessionOK, Current
  <2>2. s.txn = "open" /\ s.old # {} => r.stmt = "rollbackto" /\ out = "Durable"
    BY <1>7, <1>8, <1>11, StreamFacts DEF SameScoped
  <2> QED
    BY <1>7, <1>11, <2>1, <2>2 DEF Current, SameStatement
<1>17. OK(s)
  BY <1>10, <1>13, <1>14, <1>15, <1>16 DEF OK, SessionOK
<1> QED
  BY <1>4, <1>6, <1>8, <1>9, <1>17, OneSession

(* A cancel that the consumer saw wins over a success that can be taken back, and   *)
(* over no other (apply_stream_consumer_cancel).                             *)
LEMMA ConsumerEffect ==
  ASSUME NEW r \in SessionRecord, NEW s, s = apply_stream_consumer_cancel(r)
  PROVE  /\ s \in SessionRecord
         /\ SameToken(r, s) /\ SameScoped(r, s) /\ SameCopy(r, s) /\ SameReport(r, s)
         /\ s.phase = r.phase /\ s.path = r.path /\ s.stmt = r.stmt /\ s.wrote = r.wrote
         /\ s.txn \in {r.txn, "failed"} /\ (r.txn = "none" => s.txn = "none")
         /\ s.out = r.out \/ (s.out = "canceled" /\ s.txn # "open")
         /\ r.out = "Durable" => s.out = "Durable"
<1>1. CASE r.reason = None \/ r.out \in {"err", "Durable", "SessionReset"}
  BY <1>1 DEF apply_stream_consumer_cancel, SameToken, SameScoped, SameCopy, SameReport
<1>2. CASE ~(r.reason = None \/ r.out \in {"err", "Durable", "SessionReset"})
  <2>1. PICK q : q = mark_failed(r)
    OBVIOUS
  <2>2. /\ q \in SessionRecord
        /\ SameStatement(r, q) /\ SameToken(r, q) /\ SameScoped(r, q) /\ SameCopy(r, q)
        /\ SameReport(r, q) /\ q.txn = IF r.txn = "open" THEN "failed" ELSE r.txn
    BY <2>1, SlotTyped, MarkFailedEffect DEF Txns
  <2>3. s = [q EXCEPT !.out = "canceled"]
    BY <1>2, <2>1 DEF apply_stream_consumer_cancel
  <2>4. s \in SessionRecord
    BY <2>2, <2>3, FieldTyped DEF Outs
  <2>5. /\ SameToken(q, s) /\ SameScoped(q, s) /\ SameCopy(q, s) /\ SameReport(q, s)
        /\ s.phase = q.phase /\ s.path = q.path /\ s.stmt = q.stmt /\ s.wrote = q.wrote
        /\ s.txn = q.txn /\ s.out = "canceled"
    BY <2>2, <2>3 DEF SessionRecord, SameToken, SameScoped, SameCopy, SameReport
  <2> QED
    BY <1>2, <2>2, <2>4, <2>5 DEF SameStatement, SameToken, SameScoped, SameCopy, SameReport
<1> QED
  BY <1>1, <1>2

(* The join of a statement's task leaves nothing of a transaction that is gone,     *)
(* and nothing of the savepoint it rolled back to (finish of the streamed          *)
(* statement).                                                               *)
LEMMA FinishStatementStep ==
  ASSUME SessionsInv, NEW c \in Client, FinishStatement(c)
  PROVE  SessionsInv'
<1> DEFINE r == ses[c]
           s == apply_stream_consumer_cancel(r)
           t == IF r.stmt = "copyin" /\ s.txn = "none" /\ s.out = "canceled"
                THEN [s EXCEPT !.reg = FALSE] ELSE s
           closing == r.path = "simple" /\ r.stmt = "rollbackto" /\ t.out \notin {"err", "canceled"}
           u == IF closing THEN CloseScoped(t) ELSE Cleanup(t)
           v == IF t.out = "SessionReset" THEN [u EXCEPT !.portal = None] ELSE u
           x == [v EXCEPT !.phase = IF t.out = "copyin" THEN "copy_begin" ELSE "reply"]
<1>1. ses' = [ses EXCEPT ![c] = x]
  BY DEF FinishStatement, Own
<1>2. OK(r) /\ r.phase = "join"
  BY OfClient DEF FinishStatement
<1>3. r \in SessionRecord /\ SessionOK(r)
  BY <1>2 DEF OK
<1> HIDE DEF r
<1>4. /\ s \in SessionRecord
      /\ SameToken(r, s) /\ SameScoped(r, s) /\ SameCopy(r, s) /\ SameReport(r, s)
      /\ s.phase = r.phase /\ s.path = r.path /\ s.stmt = r.stmt /\ s.wrote = r.wrote
      /\ s.txn \in {r.txn, "failed"}
      /\ s.out = r.out \/ (s.out = "canceled" /\ s.txn # "open")
      /\ r.out = "Durable" => s.out = "Durable"
  BY <1>3, ConsumerEffect
<1> HIDE DEF s
<1>5. /\ t \in SessionRecord
      /\ SameStatement(s, t) /\ SameToken(s, t) /\ SameScoped(s, t) /\ SameCopy(s, t)
      /\ SameReport(s, t) /\ t.txn = s.txn
  <2>1. PICK p : p = [s EXCEPT !.reg = FALSE]
    OBVIOUS
  <2>2. p \in SessionRecord
    BY <1>4, <2>1, FieldTyped
  <2>3. /\ SameStatement(s, p) /\ SameToken(s, p) /\ SameScoped(s, p) /\ SameCopy(s, p)
        /\ SameReport(s, p) /\ p.txn = s.txn
    BY <1>4, <2>1 DEF SessionRecord, SameStatement, SameToken, SameScoped, SameCopy, SameReport
  <2>4. t = p \/ t = s
    BY <2>1
  <2> QED
    BY <1>4, <2>2, <2>3, <2>4 DEF SameStatement, SameToken, SameScoped, SameCopy, SameReport
<1> HIDE DEF t
<1>6. /\ u \in SessionRecord
      /\ SameStatement(t, u) /\ SameToken(t, u) /\ SameSlot(t, u) /\ SameCopy(t, u)
      /\ SameReport(t, u)
      /\ closing \/ t.txn \in {"none", "shell"} => u.old = {} /\ u.cursor = None /\ u.portal # "suspended"
      /\ ~closing /\ t.txn \notin {"none", "shell"} => SameScoped(t, u)
  BY <1>5, CloseTyped, CloseScopedEffect, CleanupEffect
<1>7. t.txn = "open" /\ t.old # {} => closing
  BY <1>2, <1>3, <1>4, <1>5 DEF SessionOK, Current, SameStatement, SameScoped
<1>8. Fresh(u, u.txn)
  BY <1>6, <1>7 DEF Fresh, SameSlot, SameScoped
<1> HIDE DEF u
<1>9. /\ v \in SessionRecord
      /\ SameStatement(u, v) /\ SameToken(u, v) /\ SameSlot(u, v) /\ SameCopy(u, v)
      /\ SameReport(u, v) /\ v.old = u.old /\ v.cursor = u.cursor
      /\ v.portal = u.portal \/ v.portal = None
  <2>1. PICK p : p = [u EXCEPT !.portal = None]
    OBVIOUS
  <2>2. p \in SessionRecord
    BY <1>6, <2>1, FieldTyped DEF Portals
  <2>3. /\ SameStatement(u, p) /\ SameToken(u, p) /\ SameSlot(u, p) /\ SameCopy(u, p)
        /\ SameReport(u, p) /\ p.old = u.old /\ p.cursor = u.cursor /\ p.portal = None
    BY <1>6, <2>1 DEF SessionRecord, SameStatement, SameToken, SameSlot, SameCopy, SameReport
  <2>4. v = p \/ v = u
    BY <2>1
  <2> QED
    BY <1>6, <2>2, <2>3, <2>4 DEF SameStatement, SameToken, SameSlot, SameCopy, SameReport
<1>10. Fresh(v, v.txn)
  BY <1>8, <1>9, SessionAssumption DEF Fresh, SameSlot
<1> HIDE DEF v
<1>11. x \in SessionRecord
  BY <1>9, FieldTyped DEF Phases
<1>12. /\ SameToken(v, x) /\ SameSlot(v, x) /\ SameScoped(v, x) /\ SameCopy(v, x) /\ SameReport(v, x)
       /\ x.phase = (IF t.out = "copyin" THEN "copy_begin" ELSE "reply")
       /\ x.wrote = v.wrote /\ x.out = v.out /\ x.path = v.path
  BY <1>9 DEF SessionRecord, SameToken, SameSlot, SameScoped, SameCopy, SameReport
<1> HIDE DEF x
<1>13. /\ SameToken(r, x) /\ SameCopy(r, x) /\ SameReport(r, x)
       /\ x.wrote = r.wrote /\ x.out = t.out /\ x.path = r.path
  BY <1>4, <1>5, <1>6, <1>9, <1>12 DEF SameStatement, SameToken, SameCopy, SameReport
<1>14. Fresh(x, x.txn)
  BY <1>10, <1>12 DEF Fresh, SameSlot, SameScoped
<1>15. r.wrote => t.out # "copyin"
  BY <1>3, <1>4, <1>5 DEF SessionOK, Reported, SameStatement
<1>16. r.wrote /\ r.path # "simple" => t.out = "Durable"
  BY <1>3, <1>4, <1>5 DEF SessionOK, Reported, SameStatement
<1>17. OK(x)
  BY <1>2, <1>11, <1>12, <1>13, <1>14, <1>15, <1>16, StatementOK
<1> QED
  BY <1>1, <1>17, OneSession DEF r

(* What is noted of a durable commit that is reported as failed: never on the       *)
(* extended path (apply_stream_consumer_cancel).                             *)
LEMMA MisreportedOK ==
  ASSUME NEW r, OK(r), r.phase = "reply"
  PROVE  OK(Misreported(r)) /\ SameStatement(r, Misreported(r))
<1>1. r \in SessionRecord /\ SessionOK(r)
  BY DEF OK
<1>2. PICK s : s = Misreported(r)
  OBVIOUS
<1>3. s \in SessionRecord
  BY <1>1, <1>2, ErrorTyped
<1>4. /\ SameStatement(r, s) /\ SameToken(r, s) /\ SameSlot(r, s) /\ SameScoped(r, s)
      /\ SameCopy(r, s) /\ s.errs = r.errs /\ s.failed = r.failed
  BY <1>1, <1>2 DEF Misreported, SessionRecord, SameStatement, SameToken, SameSlot, SameScoped, SameCopy
<1>5. s.bad = r.bad \cup IF r.wrote /\ r.out \in {"err", "canceled"}
                         THEN {IF r.path = "simple" THEN "durable_simple" ELSE "durable_extended"}
                         ELSE {}
  BY <1>1, <1>2 DEF Misreported, SessionRecord
<1>6. Cycle(s)
  BY <1>1, <1>4, <1>5 DEF SessionOK, Cycle, SameStatement, SameToken, SameCopy
<1>7. Copying(s)
  BY <1>1, <1>4 DEF SessionOK, Copying, SameStatement, SameSlot, SameCopy
<1>8. Reported(s)
  BY <1>1, <1>4, <1>5 DEF SessionOK, Reported, SameStatement
<1>9. Current(s)
  BY <1>1, <1>4 DEF SessionOK, Current, Fresh, SameStatement, SameSlot, SameScoped, SameCopy
<1> QED
  BY <1>2, <1>3, <1>4, <1>6, <1>7, <1>8, <1>9 DEF OK, SessionOK

(* The reply ends a simple query's cycle, and an Execute's only after a success     *)
(* leaves it open (write_outcome, ReadyForQuery).                            *)
LEMMA ReplyStep ==
  ASSUME SessionsInv, NEW c \in Client, Reply(c)
  PROVE  SessionsInv'
<1> DEFINE r == Misreported(ses[c])
           e == CASE r.out = "err" -> Error(r) [] r.out = "canceled" -> Canceled(r) [] OTHER -> r
           bad == r.out \in {"err", "canceled"}
           f == [stop_statement_timer(e) EXCEPT !.failed = @ \/ bad]
<1>1. \/ ses' = [ses EXCEPT ![c] = IF r.path = "simple" THEN ReadyForQuery(stop_statement_timer(e))
                                   ELSE Between(f)]
      \/ ses' = [ses EXCEPT ![c] = Drop(r)]
  BY DEF Reply, Own
<1>2. OK(r) /\ r.phase = "reply"
  BY OfClient, MisreportedOK DEF Reply, SameStatement
<1>3. /\ r \in SessionRecord /\ SessionOK(r) /\ r.copy = None /\ r.work.at = None
      /\ r.active /\ ~r.failed /\ r.errs = 0
  BY <1>2, Busy
<1> HIDE DEF r
<1>4. OK(Drop(r))
  BY <1>2, DropOK
<1>5. /\ e \in SessionRecord
      /\ SameStatement(r, e) /\ SameSlot(r, e) /\ SameScoped(r, e) /\ SameCopy(r, e)
      /\ e.failed = r.failed /\ e.bad = r.bad /\ e.errs = IF bad THEN 1 ELSE 0
  <2>1. CASE r.out = "err"
    <3>1. e = Error(r)
      BY <2>1
    <3> HIDE DEF e
    <3> QED
      BY <1>3, <2>1, <3>1, ErrorTyped, ErrorEffect
  <2>2. CASE r.out = "canceled"
    <3>1. e = Canceled(r) /\ (r.reason = None \/ r.fresh)
      BY <1>3, <2>2 DEF SessionOK, Cycle
    <3> HIDE DEF e
    <3> QED
      BY <1>3, <2>2, <3>1, ErrorTyped, CanceledEffect
  <2>3. CASE r.out \notin {"err", "canceled"}
    <3>1. e = r
      BY <2>3
    <3> HIDE DEF e
    <3> QED
      BY <1>3, <2>3, <3>1 DEF SameStatement, SameSlot, SameScoped, SameCopy
  <2> QED
    BY <2>1, <2>2, <2>3
<1> HIDE DEF e
<1>6. PICK p : p = stop_statement_timer(e)
  OBVIOUS
<1>7. /\ p \in SessionRecord
      /\ SameStatement(e, p) /\ SameSlot(e, p) /\ SameScoped(e, p) /\ SameCopy(e, p)
      /\ SameReport(e, p) /\ p.active = FALSE /\ p.timer = "Idle"
  BY <1>5, <1>6, StopTyped, StopEffect
<1>8. ASSUME NEW s \in SessionRecord, s.phase = "idle", s.active = FALSE, s.timer = "Idle",
             s.wrote = FALSE, SameSlot(p, s), SameScoped(p, s), SameCopy(p, s), s.bad = p.bad,
             s.errs = 0 \/ (s.errs = 1 /\ s.failed)
      PROVE  OK(s)
  <2>1. Cycle(s)
    BY <1>3, <1>5, <1>7, <1>8, SessionAssumption
    DEF SessionOK, Cycle, InStatement, SameCopy, SameReport
  <2>2. Copying(s)
    BY <1>3, <1>5, <1>7, <1>8, SessionAssumption DEF SessionOK, Copying, SameSlot, SameCopy
  <2>3. Reported(s)
    BY <1>3, <1>5, <1>7, <1>8 DEF SessionOK, Reported, SameReport
  <2>4. Current(s)
    BY <1>2, <1>3, <1>5, <1>7, <1>8, SessionAssumption
    DEF SessionOK, Current, Fresh, SameSlot, SameScoped, SameCopy
  <2> QED
    BY <2>1, <2>2, <2>3, <2>4 DEF OK, SessionOK
<1>9. OK(ReadyForQuery(p))
  <2>1. PICK s : s = ReadyForQuery(p)
    OBVIOUS
  <2>2. /\ s \in SessionRecord /\ SameToken(p, s) /\ SameSlot(p, s) /\ SameScoped(p, s)
        /\ SameCopy(p, s) /\ s.bad = p.bad /\ s.errs = 0 /\ s.phase = "idle" /\ s.wrote = FALSE
    BY <1>7, <2>1, BetweenTyped, ReadyEffect
  <2> QED
    BY <1>7, <1>8, <2>1, <2>2 DEF SameToken
<1>10. OK(Between(f))
  <2>1. f = [p EXCEPT !.failed = @ \/ bad]
    BY <1>6
  <2>2. PICK b \in BOOLEAN : b = (p.failed \/ bad)
    OBVIOUS
  <2>3. f = [p EXCEPT !.failed = b]
    BY <2>1, <2>2
  <2> HIDE DEF f
  <2>4. f \in SessionRecord
    BY <1>7, <2>3, FieldTyped
  <2>5. /\ SameToken(p, f) /\ SameSlot(p, f) /\ SameScoped(p, f) /\ SameCopy(p, f)
        /\ f.errs = p.errs /\ f.bad = p.bad
    BY <1>7, <2>3 DEF SessionRecord, SameToken, SameSlot, SameScoped, SameCopy
  <2>6. f.failed = b
    BY <1>7, <2>3 DEF SessionRecord
  <2>7. PICK s : s = Between(f)
    OBVIOUS
  <2>8. /\ s \in SessionRecord /\ SameToken(f, s) /\ SameSlot(f, s) /\ SameScoped(f, s)
        /\ SameCopy(f, s) /\ SameReport(f, s) /\ s.phase = "idle" /\ s.wrote = FALSE
    BY <2>4, <2>7, BetweenTyped, BetweenEffect
  <2>9. s.errs = 0 \/ (s.errs = 1 /\ s.failed)
    BY <1>5, <1>7, <2>2, <2>5, <2>6, <2>8 DEF SameReport
  <2> QED
    BY <1>7, <1>8, <2>5, <2>7, <2>8, <2>9
    DEF SameToken, SameSlot, SameScoped, SameCopy, SameReport
<1> QED
  BY <1>1, <1>4, <1>6, <1>9, <1>10, OneSession

(* What a statement on a cursor or a portal may do to its session.            *)
Tended(r, q) ==
  /\ q \in SessionRecord
  /\ SameToken(r, q) /\ SameCopy(r, q) /\ SameReport(r, q) /\ q.wrote = r.wrote
  /\ Fresh(q, q.txn)

(* Naming the outcome changes nothing else (StreamOutcome).                  *)
LEMMA OutTended ==
  ASSUME NEW r, NEW m, Tended(r, m), NEW v \in {"err", "Direct"}
  PROVE  /\ Tended(r, [m EXCEPT !.out = v])
         /\ [m EXCEPT !.out = v].txn = m.txn /\ [m EXCEPT !.out = v].stmt = m.stmt
         /\ [m EXCEPT !.out = v].phase = m.phase
         /\ SameScoped(m, [m EXCEPT !.out = v])
<1>1. PICK q : q = [m EXCEPT !.out = v]
  OBVIOUS
<1>2. m \in SessionRecord
  BY DEF Tended
<1>3. q \in SessionRecord
  BY <1>1, <1>2, FieldTyped DEF Outs
<1>4. /\ SameToken(m, q) /\ SameCopy(m, q) /\ SameReport(m, q) /\ q.wrote = m.wrote
      /\ SameScoped(m, q) /\ q.txn = m.txn /\ q.stmt = m.stmt /\ q.phase = m.phase
  BY <1>1, <1>2 DEF SessionRecord, SameToken, SameCopy, SameReport, SameScoped
<1> QED
  BY <1>1, <1>3, <1>4 DEF Tended, SameToken, SameCopy, SameReport, SameScoped, Fresh

(* Going on to the reply changes nothing else (the protocol loop).           *)
LEMMA ReplyTended ==
  ASSUME NEW r, OK(r), r.phase = "begin", NEW m, Tended(r, m)
  PROVE  OK([m EXCEPT !.phase = "reply"]) /\ (m.phase = "reply" => OK(m))
<1>1. PICK q : q = [m EXCEPT !.phase = "reply"]
  OBVIOUS
<1>2. m \in SessionRecord
  BY DEF Tended
<1>3. q \in SessionRecord
  BY <1>1, <1>2, FieldTyped DEF Phases
<1>4. /\ SameToken(m, q) /\ SameCopy(m, q) /\ SameReport(m, q) /\ q.wrote = m.wrote
      /\ SameScoped(m, q) /\ q.txn = m.txn /\ q.phase = "reply"
  BY <1>1, <1>2 DEF SessionRecord, SameToken, SameCopy, SameReport, SameScoped
<1>5. /\ SameToken(r, q) /\ SameCopy(r, q) /\ SameReport(r, q) /\ q.wrote = r.wrote
      /\ Fresh(q, q.txn)
  BY <1>4 DEF Tended, SameToken, SameCopy, SameReport, SameScoped, Fresh
<1>6. ~r.wrote
  BY DEF OK, SessionOK, Reported
<1>7. OK(q)
  BY <1>3, <1>4, <1>5, <1>6, StatementOK
<1>8. m.phase = "reply" => OK(m)
  BY <1>2, <1>6, StatementOK DEF Tended
<1> QED
  BY <1>1, <1>7, <1>8

(* A statement that fails, closes its cursors or loses its transaction tends its     *)
(* session (mark_failed, mark_current_transaction_failed, close_sql_cursors).  *)
LEMMA FailTended ==
  ASSUME NEW r, NEW m, Tended(r, m)
  PROVE  /\ Tended(r, mark_failed(m)) /\ Tended(r, mark_current_transaction_failed(m))
         /\ Tended(r, close_sql_cursors(m)) /\ Tended(r, Cleanup(Settle(m, "shell")))
         /\ mark_current_transaction_failed(m).phase = m.phase
         /\ Cleanup(Settle(m, "shell")).phase = m.phase
<1>1. m \in SessionRecord
  BY DEF Tended
<1>2. Tended(r, mark_failed(m))
  <2>1. PICK q : q = mark_failed(m)
    OBVIOUS
  <2>2. /\ q \in SessionRecord
        /\ SameStatement(m, q) /\ SameToken(m, q) /\ SameScoped(m, q) /\ SameCopy(m, q)
        /\ SameReport(m, q) /\ q.txn = IF m.txn = "open" THEN "failed" ELSE m.txn
    BY <1>1, <2>1, SlotTyped, MarkFailedEffect DEF Txns
  <2> QED
    BY <2>1, <2>2 DEF Tended, Fresh, SameStatement, SameToken, SameScoped, SameCopy, SameReport
<1>3. /\ Tended(r, mark_current_transaction_failed(m))
      /\ mark_current_transaction_failed(m).phase = m.phase
  <2>1. PICK q : q = mark_current_transaction_failed(m)
    OBVIOUS
  <2>2. /\ q \in SessionRecord
        /\ SameStatement(m, q) /\ SameToken(m, q) /\ SameCopy(m, q) /\ SameReport(m, q)
        /\ q.txn = IF m.txn = "open" THEN "failed" ELSE m.txn
        /\ m.txn \in {"none", "shell"} => q.old = {} /\ q.cursor = None /\ q.portal # "suspended"
    BY <1>1, <2>1, SlotTyped, MarkCurrentEffect DEF Txns
  <2> QED
    BY <2>1, <2>2 DEF Tended, Fresh, SameStatement, SameToken, SameCopy, SameReport
<1>4. Tended(r, close_sql_cursors(m))
  <2>1. PICK q : q = close_sql_cursors(m)
    OBVIOUS
  <2>2. q \in SessionRecord
    BY <1>1, <2>1, CloseTyped
  <2>3. /\ SameStatement(m, q) /\ SameToken(m, q) /\ SameSlot(m, q) /\ SameCopy(m, q)
        /\ SameReport(m, q) /\ q.portal = m.portal /\ q.cursor = None /\ q.old = m.old \ {"cursor"}
    BY <1>1, <2>1 DEF close_sql_cursors, SessionRecord, SameStatement, SameToken, SameSlot, SameCopy,
       SameReport
  <2> QED
    BY <2>1, <2>2, <2>3 DEF Tended, Fresh, SameStatement, SameToken, SameSlot, SameCopy, SameReport
<1>5. /\ Tended(r, Cleanup(Settle(m, "shell")))
      /\ Cleanup(Settle(m, "shell")).phase = m.phase
  <2>1. PICK p : p = Settle(m, "shell")
    OBVIOUS
  <2>2. "shell" \in Txns
    BY DEF Txns
  <2>3. /\ p \in SessionRecord
        /\ SameStatement(m, p) /\ SameToken(m, p) /\ SameCopy(m, p) /\ SameReport(m, p)
        /\ p.txn = "shell"
    BY <1>1, <2>1, <2>2, SlotTyped, SettleEffect
  <2>4. PICK q : q = Cleanup(p)
    OBVIOUS
  <2>5. /\ q \in SessionRecord
        /\ SameStatement(p, q) /\ SameToken(p, q) /\ SameSlot(p, q) /\ SameCopy(p, q)
        /\ SameReport(p, q)
    BY <2>3, <2>4, CloseTyped, CleanupEffect
  <2> QED
    BY <2>1, <2>3, <2>4, <2>5 DEF Tended, Fresh, SameStatement, SameToken, SameSlot, SameCopy, SameReport
<1> QED
  BY <1>2, <1>3, <1>4, <1>5

(* A session at the start of its statement's task.                           *)
LEMMA BeginTended ==
  ASSUME NEW r, OK(r), r.phase = "begin"
  PROVE  Tended(r, r)
<1>1. /\ r \in SessionRecord /\ SessionOK(r) /\ r.copy = None
  BY Busy
<1>2. Fresh(r, r.txn)
  BY <1>1, SessionAssumption DEF SessionOK, Current
<1> QED
  BY <1>1, <1>2 DEF Tended, SameToken, SameCopy, SameReport

(* DECLARE, FETCH and CLOSE leave a cursor only in a healthy transaction              *)
(* (run_sql_cursor_statement).                                               *)
LEMMA CursorStep ==
  ASSUME SessionsInv, NEW c \in Client, run_sql_cursor_statement(c)
  PROVE  SessionsInv'
<1> DEFINE r == ses[c]
           ok == [r EXCEPT !.out = "Direct"]
           err(q) == [q EXCEPT !.out = "err"]
<1>1. PICK s \in CursorOutcomes(r) : ses' = [ses EXCEPT ![c] = [s EXCEPT !.phase = "reply"]]
  BY DEF run_sql_cursor_statement, Own
<1>2. OK(r) /\ r.phase = "begin"
  BY OfClient DEF run_sql_cursor_statement, Running
<1> HIDE DEF r
<1>3. Tended(r, r)
  BY <1>2, BeginTended
<1>4. /\ Tended(r, ok) /\ ok.txn = r.txn /\ SameScoped(r, ok)
  BY <1>3, OutTended
<1>5. \/ s = err(r)
      \/ s = err(mark_current_transaction_failed(r))
      \/ r.txn = "open" /\ s = [ok EXCEPT !.cursor = "open"]
      \/ s = err(mark_failed(r))
      \/ s = err(Cleanup(Settle(r, "shell")))
      \/ s = ok
      \/ s = err(mark_current_transaction_failed(close_sql_cursors(r)))
      \/ s = close_sql_cursors(ok)
  BY <1>1 DEF CursorOutcomes
<1>6. ASSUME r.txn = "open", s = [ok EXCEPT !.cursor = "open"] PROVE Tended(r, s)
  <2> HIDE DEF ok
  <2>1. ok \in SessionRecord
    BY <1>4 DEF Tended
  <2>2. s \in SessionRecord
    BY <1>6, <2>1, FieldTyped DEF CursorStates
  <2>3. /\ SameToken(ok, s) /\ SameCopy(ok, s) /\ SameReport(ok, s) /\ s.wrote = ok.wrote
        /\ s.txn = ok.txn /\ s.old = ok.old
    BY <1>6, <2>1 DEF SessionRecord, SameToken, SameCopy, SameReport
  <2> QED
    BY <1>4, <1>6, <2>2, <2>3 DEF Tended, Fresh, SameToken, SameCopy, SameReport
<1>7. \A m : Tended(r, m) => Tended(r, err(m))
  BY OutTended
<1> HIDE DEF ok, err
<1>8. Tended(r, mark_failed(r)) /\ Tended(r, mark_current_transaction_failed(r))
  BY <1>3, FailTended
<1>9. Tended(r, Cleanup(Settle(r, "shell"))) /\ Tended(r, close_sql_cursors(ok))
  BY <1>3, <1>4, FailTended
<1>10. Tended(r, mark_current_transaction_failed(close_sql_cursors(r)))
  BY <1>3, FailTended
<1>11. Tended(r, s)
  BY <1>3, <1>4, <1>5, <1>6, <1>7, <1>8, <1>9, <1>10
<1>12. OK([s EXCEPT !.phase = "reply"])
  BY <1>2, <1>11, ReplyTended
<1> QED
  BY <1>1, <1>12, OneSession

(* A portal changes hands in a session whose transaction may own it.          *)
LEMMA PortalTended ==
  ASSUME NEW r, NEW m, Tended(r, m), NEW k \in Portals, m.txn = "none" => k # "suspended"
  PROVE  Tended(r, [m EXCEPT !.portal = k]) /\ [m EXCEPT !.portal = k].phase = m.phase
<1>1. PICK q : q = [m EXCEPT !.portal = k]
  OBVIOUS
<1>2. m \in SessionRecord
  BY DEF Tended
<1>3. q \in SessionRecord
  BY <1>1, <1>2, FieldTyped
<1>4. /\ SameStatement(m, q) /\ SameToken(m, q) /\ SameCopy(m, q) /\ SameReport(m, q)
      /\ q.txn = m.txn /\ q.old = m.old /\ q.cursor = m.cursor /\ q.portal = k
  BY <1>1, <1>2 DEF SessionRecord, SameStatement, SameToken, SameCopy, SameReport
<1> QED
  BY <1>1, <1>3, <1>4 DEF Tended, Fresh, SameStatement, SameToken, SameCopy, SameReport

(* A portal that is used up is not left over.                               *)
LEMMA UsedTended ==
  ASSUME NEW r, NEW m, Tended(r, m)
  PROVE  Tended(r, [m EXCEPT !.old = @ \ {"portal"}]) /\ [m EXCEPT !.old = @ \ {"portal"}].phase = m.phase
<1>1. PICK q : q = [m EXCEPT !.old = m.old \ {"portal"}]
  OBVIOUS
<1>2. m \in SessionRecord
  BY DEF Tended
<1>3. m.old \ {"portal"} \in Leftovers
  BY <1>2, FieldOf DEF Leftovers
<1>4. q \in SessionRecord
  BY <1>1, <1>2, <1>3, FieldTyped
<1>5. /\ SameStatement(m, q) /\ SameToken(m, q) /\ SameCopy(m, q) /\ SameReport(m, q)
      /\ q.txn = m.txn /\ q.old = m.old \ {"portal"} /\ q.cursor = m.cursor /\ q.portal = m.portal
  BY <1>1, <1>2 DEF SessionRecord, SameStatement, SameToken, SameCopy, SameReport
<1> QED
  BY <1>1, <1>4, <1>5 DEF Tended, Fresh, SameStatement, SameToken, SameCopy, SameReport

(* A statement on a portal starts from its session, its reply ahead.          *)
LEMMA Replying ==
  ASSUME NEW r, OK(r), r.phase = "begin",
         NEW m, m = [r EXCEPT !.phase = "reply", !.out = "Direct"],
         NEW e, e = [m EXCEPT !.out = "err"]
  PROVE  /\ Tended(r, m) /\ m.phase = "reply" /\ m.txn = r.txn /\ m.stmt = r.stmt
         /\ Tended(r, e) /\ e.phase = "reply"
<1>1. Tended(r, r) /\ r \in SessionRecord
  BY BeginTended DEF OK
<1>2. PICK q : q = [r EXCEPT !.phase = "reply"]
  OBVIOUS
<1>3. q \in SessionRecord
  BY <1>1, <1>2, FieldTyped DEF Phases
<1>4. /\ SameToken(r, q) /\ SameCopy(r, q) /\ SameReport(r, q) /\ SameScoped(r, q)
      /\ q.txn = r.txn /\ q.wrote = r.wrote /\ q.stmt = r.stmt /\ q.phase = "reply"
  BY <1>1, <1>2 DEF SessionRecord, SameToken, SameCopy, SameReport, SameScoped
<1>5. Tended(r, q)
  BY <1>1, <1>3, <1>4 DEF Tended, Fresh, SameToken, SameCopy, SameReport, SameScoped
<1>6. m = [q EXCEPT !.out = "Direct"]
  BY <1>2
<1>7. /\ Tended(r, [q EXCEPT !.out = "Direct"])
      /\ [q EXCEPT !.out = "Direct"].phase = q.phase
      /\ [q EXCEPT !.out = "Direct"].txn = q.txn /\ [q EXCEPT !.out = "Direct"].stmt = q.stmt
  BY <1>5, OutTended
<1>8. Tended(r, m) /\ m.phase = "reply" /\ m.txn = r.txn /\ m.stmt = r.stmt
  BY <1>4, <1>6, <1>7
<1> QED
  BY <1>8, OutTended

(* An Execute with a row limit suspends its portal in the transaction it read in       *)
(* (run_limited_bound_execute).                                              *)
LEMMA LimitedStep ==
  ASSUME SessionsInv, NEW c \in Client, run_limited_bound_execute(c)
  PROVE  SessionsInv'
<1> DEFINE r == ses[c]
           m == [r EXCEPT !.phase = "reply", !.out = "Direct"]
           e == [m EXCEPT !.out = "err"]
           portal == IF m.txn = "none" THEN "suspended_autocommit" ELSE "suspended"
<1>1. \/ ses' = [ses EXCEPT ![c] = [m EXCEPT !.portal = portal]]
      \/ ses' = [ses EXCEPT ![c] = m]
      \/ ses' = [ses EXCEPT ![c] = mark_current_transaction_failed(e)]
      \/ ses' = [ses EXCEPT ![c] = Cleanup(Settle(e, "shell"))]
  BY DEF run_limited_bound_execute, Own
<1>2. OK(r) /\ r.phase = "begin"
  BY OfClient DEF run_limited_bound_execute, Running
<1> HIDE DEF r
<1>3. Tended(r, m) /\ m.phase = "reply" /\ Tended(r, e) /\ e.phase = "reply"
  BY <1>2, Replying
<1> HIDE DEF m, e
<1>4. portal \in Portals /\ (m.txn = "none" => portal # "suspended")
  BY DEF Portals
<1> HIDE DEF portal
<1>5. OK([m EXCEPT !.portal = portal])
  BY <1>2, <1>3, <1>4, PortalTended, ReplyTended
<1>6. OK(m)
  BY <1>2, <1>3, ReplyTended
<1>7. OK(mark_current_transaction_failed(e)) /\ OK(Cleanup(Settle(e, "shell")))
  BY <1>2, <1>3, FailTended, ReplyTended
<1> QED
  BY <1>1, <1>5, <1>6, <1>7, OneSession

(* A resumed portal is suspended again where it was, used up, or failed with its        *)
(* block (run_suspended_execute).                                            *)
LEMMA SuspendedStep ==
  ASSUME SessionsInv, NEW c \in Client, run_suspended_execute(c)
  PROVE  SessionsInv'
<1> DEFINE r == ses[c]
           m == [r EXCEPT !.phase = "reply", !.out = "Direct"]
           e == [m EXCEPT !.out = "err"]
           d == [e EXCEPT !.old = @ \ {"portal"}]
<1>1. \/ ses' = [ses EXCEPT ![c] = [m EXCEPT !.portal = m.stmt]]
      \/ ses' = [ses EXCEPT ![c] = [m EXCEPT !.old = @ \ {"portal"}]]
      \/ ses' = [ses EXCEPT ![c] = mark_current_transaction_failed(d)]
  BY DEF run_suspended_execute, Own
<1>2. OK(r) /\ r.phase = "begin" /\ r.path = "resume"
  BY OfClient DEF run_suspended_execute, Running
<1> HIDE DEF r
<1>3. /\ Tended(r, m) /\ m.phase = "reply" /\ Tended(r, e) /\ e.phase = "reply"
      /\ m.stmt = r.stmt /\ m.txn = r.txn
  BY <1>2, Replying
<1> HIDE DEF m, e
<1>4. m.stmt \in Portals /\ (m.txn = "none" => m.stmt # "suspended")
  BY <1>2, <1>3 DEF Portals, OK, SessionOK, Current
<1>5. OK([m EXCEPT !.portal = m.stmt])
  BY <1>2, <1>3, <1>4, PortalTended, ReplyTended
<1>6. OK([m EXCEPT !.old = @ \ {"portal"}])
  BY <1>2, <1>3, UsedTended, ReplyTended
<1>7. Tended(r, d) /\ d.phase = "reply"
  BY <1>3, UsedTended
<1> HIDE DEF d
<1>8. OK(mark_current_transaction_failed(d))
  BY <1>2, <1>7, FailTended, ReplyTended
<1> QED
  BY <1>1, <1>5, <1>6, <1>8, OneSession

-----------------------------------------------------------------------------
(* COPY FROM STDIN                                                          *)

(* While COPY runs its statement is active, and the transaction is the worker's       *)
(* (CopyInSession).                                                          *)
LEMMA CopyBusy ==
  ASSUME NEW r, OK(r), r.copy = "running"
  PROVE  /\ r \in SessionRecord /\ SessionOK(r) /\ r.work \in WorkRecord
         /\ r.active /\ ~r.failed /\ r.errs = 0 /\ r.txn = "none" /\ r.phase # "gone"
         /\ r.work.at # None /\ ~r.wrote
         /\ Fresh(r, r.work.txn)
<1>1. r \in SessionRecord /\ SessionOK(r) /\ r.work \in WorkRecord
  BY FieldOf DEF OK
<1>2. r.active /\ ~r.failed
  BY <1>1 DEF SessionOK, Cycle
<1>3. r.errs = 0
  BY <1>1, <1>2, FieldOf DEF SessionOK, Cycle
<1>4. r.txn = "none" /\ r.phase # "gone" /\ r.work.at # None /\ ~r.wrote
  BY <1>1 DEF SessionOK, Copying, Reported
<1>5. Fresh(r, r.work.txn)
  BY <1>1 DEF SessionOK, Current, Copying
<1> QED
  BY <1>1, <1>2, <1>3, <1>4, <1>5

(* COPY begins: the transaction moves to the worker, or is dropped with the session   *)
(* (begin_copy_in).                                                          *)
LEMMA BeginCopyStep ==
  ASSUME SessionsInv, NEW c \in Client, begin_copy_in(c)
  PROVE  SessionsInv'
<1> DEFINE r == ses[c]
           b == Between(r)
           w == [NoWork EXCEPT !.at = "run", !.txn = r.txn]
           s == [b EXCEPT !.copy = "running", !.txn = "none", !.work = w]
<1>1. ses' = [ses EXCEPT ![c] = s] \/ ses' = [ses EXCEPT ![c] = Drop(r)]
  BY DEF begin_copy_in, Own
<1>2. OK(r) /\ r.phase = "copy_begin"
  BY OfClient DEF begin_copy_in
<1> HIDE DEF r
<1>3. /\ r \in SessionRecord /\ SessionOK(r) /\ r.copy = None /\ r.work.at = None
      /\ r.active /\ ~r.failed /\ r.errs = 0
  BY <1>2, Busy
<1>4. OK(Drop(r))
  BY <1>2, DropOK
<1>5. /\ b \in SessionRecord /\ SameToken(r, b) /\ SameSlot(r, b) /\ SameScoped(r, b)
      /\ SameCopy(r, b) /\ SameReport(r, b)
      /\ b.phase = "idle" /\ b.path = None /\ b.wrote = FALSE
  BY <1>3, BetweenTyped, BetweenEffect
<1> HIDE DEF b
<1>6. w \in WorkRecord /\ w.at = "run" /\ w.txn = r.txn /\ w.end = None
  <2>1. r.txn \in Txns
    BY <1>3, FieldOf
  <2> QED
    BY <2>1 DEF NoWork, NewSession, WorkRecord, Works, Ends
<1> HIDE DEF w
<1>7. s \in SessionRecord
  <2>1. "running" \in Copies /\ "none" \in Txns
    BY DEF Copies, Txns
  <2>2. [b EXCEPT !.copy = "running", !.txn = "none"] \in SessionRecord
    BY <1>5, <2>1, FieldTyped
  <2> QED
    BY <1>6, <2>2, FieldTyped
<1>8. /\ SameToken(b, s) /\ SameScoped(b, s) /\ SameReport(b, s)
      /\ s.phase = b.phase /\ s.path = b.path /\ s.wrote = b.wrote
      /\ s.copy = "running" /\ s.txn = "none" /\ s.work = w
  BY <1>5 DEF SessionRecord, SameToken, SameScoped, SameReport
<1> HIDE DEF s
<1>9. Cycle(s)
  BY <1>3, <1>5, <1>8 DEF SessionOK, Cycle, SameToken, SameReport
<1>10. Copying(s)
  BY <1>5, <1>6, <1>8, SessionAssumption DEF Copying
<1>11. Reported(s)
  BY <1>3, <1>5, <1>8 DEF SessionOK, Reported, SameReport
<1>12. Current(s)
  BY <1>2, <1>3, <1>5, <1>6, <1>8, SessionAssumption DEF SessionOK, Current, Fresh, SameScoped
<1>13. OK(s)
  BY <1>7, <1>9, <1>10, <1>11, <1>12 DEF OK, SessionOK
<1> QED
  BY <1>1, <1>4, <1>13, OneSession

(* A chunk goes into the channel or comes out of it (handle_copy_data, the worker's     *)
(* loop).                                                                    *)
LEMMA DataOK ==
  ASSUME NEW r, OK(r), NEW b \in BOOLEAN
  PROVE  OK([r EXCEPT !.work.data = b])
<1>1. r \in SessionRecord /\ SessionOK(r) /\ r.work \in WorkRecord
  BY FieldOf DEF OK
<1>2. PICK w : w = [r.work EXCEPT !.data = b]
  OBVIOUS
<1>3. w \in WorkRecord /\ w.at = r.work.at /\ w.txn = r.work.txn /\ w.end = r.work.end
  BY <1>1, <1>2 DEF WorkRecord
<1>4. PICK s : s = [r EXCEPT !.work = w]
  OBVIOUS
<1>5. s = [r EXCEPT !.work.data = b]
  BY <1>2, <1>4
<1>6. s \in SessionRecord
  BY <1>1, <1>3, <1>4, FieldTyped
<1>7. /\ SameStatement(r, s) /\ SameToken(r, s) /\ SameSlot(r, s) /\ SameScoped(r, s)
      /\ SameReport(r, s) /\ s.copy = r.copy /\ s.work = w
  BY <1>1, <1>4 DEF SessionRecord, SameStatement, SameToken, SameSlot, SameScoped, SameReport
<1>8. Cycle(s)
  BY <1>1, <1>7 DEF SessionOK, Cycle, SameStatement, SameToken, SameReport
<1>9. Copying(s)
  BY <1>1, <1>3, <1>7 DEF SessionOK, Copying, SameStatement, SameSlot
<1>10. Reported(s)
  BY <1>1, <1>7 DEF SessionOK, Reported, SameStatement, SameReport
<1>11. Current(s)
  BY <1>1, <1>3, <1>7 DEF SessionOK, Current, Fresh, SameStatement, SameSlot, SameScoped
<1> QED
  BY <1>5, <1>6, <1>8, <1>9, <1>10, <1>11 DEF OK, SessionOK

(* CopyDone and CopyFail end the channel, or the draining of a canceled COPY              *)
(* (finish_copy_in).                                                         *)
LEMMA FinishCopyStep ==
  ASSUME SessionsInv, NEW c \in Client, finish_copy_in(c)
  PROVE  SessionsInv'
<1> DEFINE r == ses[c]
<1>1. OK(r) /\ r.phase = "idle" /\ r.copy # None
  BY OfClient DEF finish_copy_in
<1>2. \/ r.copy = "draining" /\ ses' = [ses EXCEPT ![c] =
           ReadyForQuery([stop_statement_timer(r) EXCEPT !.copy = None])]
      \/ r.copy # "draining" /\ \E end \in {"done", "fail"} :
           ses' = [ses EXCEPT ![c] = [r EXCEPT !.phase = "copy_join", !.work.end = end]]
  BY DEF finish_copy_in, Own
<1> HIDE DEF r
<1>3. r \in SessionRecord /\ SessionOK(r)
  BY <1>1 DEF OK
<1>4. ASSUME r.copy = "draining"
      PROVE  OK(ReadyForQuery([stop_statement_timer(r) EXCEPT !.copy = None]))
  <2>1. PICK p : p = stop_statement_timer(r)
    OBVIOUS
  <2>2. /\ p \in SessionRecord
        /\ SameStatement(r, p) /\ SameSlot(r, p) /\ SameScoped(r, p) /\ SameCopy(r, p)
        /\ SameReport(r, p) /\ p.active = FALSE /\ p.timer = "Idle"
    BY <1>3, <2>1, StopTyped, StopEffect
  <2>3. PICK q : q = [p EXCEPT !.copy = None]
    OBVIOUS
  <2>4. q \in SessionRecord
    BY <2>2, <2>3, FieldTyped DEF Copies
  <2>5. /\ SameToken(p, q) /\ SameSlot(p, q) /\ SameScoped(p, q)
        /\ SameReport(p, q) /\ q.copy = None /\ q.work = p.work
    BY <2>2, <2>3 DEF SessionRecord, SameToken, SameSlot, SameScoped, SameReport
  <2>6. PICK s : s = ReadyForQuery(q)
    OBVIOUS
  <2>7. /\ s \in SessionRecord /\ SameToken(q, s) /\ SameSlot(q, s) /\ SameScoped(q, s)
        /\ SameCopy(q, s) /\ s.failed = q.failed /\ s.bad = q.bad /\ s.errs = 0
        /\ s.phase = "idle" /\ s.path = None /\ s.wrote = FALSE
    BY <2>4, <2>6, BetweenTyped, ReadyEffect
  <2>8. Cycle(s)
    BY <1>1, <1>3, <2>2, <2>5, <2>7, SessionAssumption
    DEF SessionOK, Cycle, InStatement, SameToken, SameCopy, SameReport
  <2>9. Copying(s)
    BY <1>1, <1>3, <1>4, <2>2, <2>5, <2>7, SessionAssumption DEF SessionOK, Copying, SameSlot, SameCopy
  <2>10. Reported(s)
    BY <1>3, <2>2, <2>5, <2>7 DEF SessionOK, Reported, SameReport
  <2>11. Current(s)
    BY <1>1, <1>3, <1>4, <2>2, <2>5, <2>7, SessionAssumption
    DEF SessionOK, Current, Fresh, SameSlot, SameScoped, SameCopy
  <2> QED
    BY <2>1, <2>3, <2>6, <2>7, <2>8, <2>9, <2>10, <2>11 DEF OK, SessionOK
<1>5. ASSUME r.copy # "draining", NEW end \in {"done", "fail"}
      PROVE  OK([r EXCEPT !.phase = "copy_join", !.work.end = end])
  <2>1. r.copy = "running"
    BY <1>1, <1>3, <1>5, FieldOf DEF Copies
  <2>2. r.work \in WorkRecord
    BY <1>3, FieldOf
  <2>3. PICK q : q = [r EXCEPT !.phase = "copy_join"]
    OBVIOUS
  <2>4. q \in SessionRecord
    BY <1>3, <2>3, FieldTyped DEF Phases
  <2>5. /\ q.path = r.path /\ q.wrote = r.wrote /\ q.phase = "copy_join"
        /\ SameToken(r, q) /\ SameSlot(r, q) /\ SameScoped(r, q) /\ SameCopy(r, q) /\ SameReport(r, q)
    BY <1>3, <2>3 DEF SessionRecord, SameToken, SameSlot, SameScoped, SameCopy, SameReport
  <2>6. PICK w : w = [q.work EXCEPT !.end = end]
    OBVIOUS
  <2>7. w \in WorkRecord /\ w.at = r.work.at /\ w.txn = r.work.txn /\ w.end = end
    BY <2>2, <2>5, <2>6 DEF WorkRecord, Ends, SameCopy
  <2>8. PICK s : s = [q EXCEPT !.work = w]
    OBVIOUS
  <2>9. s = [r EXCEPT !.phase = "copy_join", !.work.end = end]
    BY <2>3, <2>6, <2>8
  <2>10. s \in SessionRecord
    BY <2>4, <2>7, <2>8, FieldTyped
  <2>11. /\ s.path = q.path /\ s.wrote = q.wrote /\ s.phase = q.phase
         /\ SameToken(q, s) /\ SameSlot(q, s) /\ SameScoped(q, s) /\ SameReport(q, s)
         /\ s.copy = q.copy /\ s.work = w
    BY <2>4, <2>8 DEF SessionRecord, SameToken, SameSlot, SameScoped, SameReport
  <2>12. Cycle(s)
    BY <1>3, <2>1, <2>5, <2>11 DEF SessionOK, Cycle, SameToken, SameCopy, SameReport
  <2>13. Copying(s)
    BY <1>1, <1>3, <2>1, <2>5, <2>7, <2>11 DEF SessionOK, Copying, SameSlot, SameCopy
  <2>14. Reported(s)
    BY <1>1, <1>3, <2>5, <2>11 DEF SessionOK, Reported, SameReport
  <2>15. Current(s)
    BY <1>1, <1>3, <2>1, <2>5, <2>7, <2>11 DEF SessionOK, Current, Fresh, SameScoped, SameSlot, SameCopy
  <2> QED
    BY <2>9, <2>10, <2>12, <2>13, <2>14, <2>15 DEF OK, SessionOK
<1> QED
  BY <1>2, <1>4, <1>5, OneSession
(* A chunk of the client's data is sent to the worker (handle_copy_data).    *)
LEMMA DataStep ==
  ASSUME SessionsInv, NEW c \in Client, handle_copy_data(c)
  PROVE  SessionsInv'
<1>1. OK([ses[c] EXCEPT !.work.data = TRUE])
  BY OfClient, DataOK
<1> QED
  BY <1>1, OneSession DEF handle_copy_data, Own

(* The session when its COPY worker has returned the slot t.                  *)
Returned(r, at, t) ==
  LET auto == r.work.txn = "none"
      ends == auto \/ t \in {"none", "shell"}
      s == IF ends THEN [Outlived(r) EXCEPT !.reg = FALSE] ELSE r
  IN  [s EXCEPT !.work = [@ EXCEPT !.at = at, !.data = FALSE,
                                   !.txn = IF auto THEN "none" ELSE t]]

(* A COPY worker that returns hands back the slot it was given, failed, emptied or  *)
(* as it was, and leaves nothing of a transaction that it ended (drive_copy_in).  *)
LEMMA ReturnedOK ==
  ASSUME NEW r, OK(r), r.work.at = "run",
         NEW at \in {"ok", "err", "aborted"}, NEW t \in Txns,
         at = "ok" => r.phase = "copy_join",
         at = "aborted" => r.phase = "gone" /\ t = "none",
         t \in {"failed", "shell", r.work.txn} \/ r.phase = "gone"
  PROVE  OK(Returned(r, at, t))
<1> DEFINE auto == r.work.txn = "none"
           ends == auto \/ t \in {"none", "shell"}
           s == IF ends THEN [Outlived(r) EXCEPT !.reg = FALSE] ELSE r
           w == [s.work EXCEPT !.at = at, !.data = FALSE, !.txn = IF auto THEN "none" ELSE t]
           x == [s EXCEPT !.work = w]
<1>1. r \in SessionRecord /\ SessionOK(r) /\ r.work \in WorkRecord
  BY FieldOf DEF OK
<1>2. /\ s \in SessionRecord
      /\ SameStatement(r, s) /\ SameToken(r, s) /\ SameCopy(r, s) /\ SameReport(r, s)
      /\ s.txn = r.txn /\ s.cursor = r.cursor /\ s.portal = r.portal
      /\ ends => s.reg = FALSE
      /\ ends /\ r.cursor = None /\ r.portal # "suspended" => s.old = {}
      /\ ~ends => s = r
  <2>1. PICK o : o = Outlived(r)
    OBVIOUS
  <2>2. /\ o \in SessionRecord
        /\ SameStatement(r, o) /\ SameToken(r, o) /\ SameSlot(r, o) /\ SameCopy(r, o)
        /\ SameReport(r, o) /\ o.cursor = r.cursor /\ o.portal = r.portal
        /\ r.cursor = None /\ r.portal # "suspended" => o.old = {}
    BY <1>1, <2>1, SlotTyped, OutlivedEffect
  <2>3. PICK p : p = [o EXCEPT !.reg = FALSE]
    OBVIOUS
  <2>4. p \in SessionRecord
    BY <2>2, <2>3, FieldTyped
  <2>5. /\ SameStatement(o, p) /\ SameToken(o, p) /\ SameCopy(o, p) /\ SameReport(o, p)
        /\ SameScoped(o, p) /\ p.txn = o.txn /\ p.reg = FALSE
    BY <2>2, <2>3 DEF SessionRecord, SameStatement, SameToken, SameCopy, SameReport, SameScoped
  <2>6. IF ends THEN s = p ELSE s = r
    BY <2>1, <2>3
  <2>7. CASE ends
    BY <2>2, <2>4, <2>5, <2>6, <2>7 DEF SameStatement, SameToken, SameSlot, SameCopy, SameReport, SameScoped
  <2>8. CASE ~ends
    BY <1>1, <2>6, <2>8 DEF SameStatement, SameToken, SameSlot, SameCopy, SameReport, SameScoped
  <2> QED
    BY <2>7, <2>8
<1>3. Returned(r, at, t) = x
  BY DEF Returned
<1> HIDE DEF s
<1>4. /\ w \in WorkRecord /\ w.at = at /\ w.end = r.work.end
      /\ w.txn = IF auto THEN "none" ELSE t
  <2>1. s.work \in WorkRecord /\ s.work = r.work
    BY <1>1, <1>2 DEF SameCopy
  <2>2. (IF auto THEN "none" ELSE t) \in Txns /\ at \in Works
    BY DEF Txns, Works
  <2> QED
    BY <2>1, <2>2 DEF WorkRecord
<1> HIDE DEF w
<1>5. x \in SessionRecord
  BY <1>2, <1>4, FieldTyped
<1>6. /\ SameStatement(s, x) /\ SameToken(s, x) /\ SameSlot(s, x) /\ SameScoped(s, x)
      /\ SameReport(s, x) /\ x.copy = s.copy /\ x.work = w
  BY <1>2 DEF SessionRecord, SameStatement, SameToken, SameSlot, SameScoped, SameReport
<1> HIDE DEF x
<1>7. Cycle(x)
  BY <1>1, <1>2, <1>6 DEF SessionOK, Cycle, SameStatement, SameToken, SameCopy, SameReport
<1>8. at # None /\ r.work.at # None
  BY SessionAssumption
<1>9. Copying(x)
  <2>1. r.phase = "gone" => ends \/ at = "err"
    OBVIOUS
  <2> QED
    BY <1>1, <1>2, <1>4, <1>6, <1>8, <2>1 DEF SessionOK, Copying, SameStatement, SameSlot, SameCopy
<1>10. Reported(x)
  BY <1>1, <1>2, <1>6 DEF SessionOK, Reported, SameStatement, SameReport
<1>11. Current(x)
  <2>1. r.phase \in {"idle", "copy_join", "copy_cancel", "gone"} /\ (r.copy = "running" <=> r.phase # "gone")
    BY <1>1, <1>8, FieldOf DEF SessionOK, Copying
  <2>2. CASE r.phase = "gone"
    <3>1. r.txn = "none" /\ Fresh(r, r.txn)
      BY <1>1, <2>1, <2>2 DEF SessionOK, Current
    <3>2. Fresh(x, "none")
      BY <1>2, <1>6, <3>1 DEF Fresh, SameScoped
    <3> QED
      BY <1>2, <1>6, <2>1, <2>2, <3>1, <3>2 DEF Current, SameStatement, SameSlot, SameCopy
  <2>3. CASE r.phase # "gone"
    <3>1. Fresh(r, r.work.txn)
      BY <1>1, <2>1, <2>3 DEF SessionOK, Current
    <3>2. Fresh(x, x.work.txn)
      BY <1>2, <1>4, <1>6, <2>3, <3>1 DEF Fresh, SameScoped
    <3> QED
      BY <1>2, <1>6, <2>1, <2>3, <3>2 DEF Current, SameStatement, SameSlot, SameCopy
  <2> QED
    BY <2>2, <2>3
<1> QED
  BY <1>3, <1>5, <1>7, <1>9, <1>10, <1>11 DEF OK, SessionOK

(* The COPY worker takes a chunk, or returns: with an error at any time, with        *)
(* success once the client is done, aborted once its channel is closed            *)
(* (drive_copy_in).                                                          *)
LEMMA DriveCopyStep ==
  ASSUME SessionsInv, NEW c \in Client, drive_copy_in(c)
  PROVE  SessionsInv'
<1> DEFINE r == ses[c]
<1>1. OK(r) /\ r.work.at = "run"
  BY OfClient DEF drive_copy_in
<1>2. r.work \in WorkRecord /\ Copying(r)
  BY <1>1, FieldOf DEF OK, SessionOK
<1>3. r.work.txn \in Txns /\ {"none", "failed", "shell"} \subseteq Txns
  BY <1>2 DEF WorkRecord, Txns
<1>4. \A at, t : WorkerReturns(c, at, t) <=> ses' = [ses EXCEPT ![c] = Returned(r, at, t)]
  BY DEF WorkerReturns, Returned
<1>5. \/ \E t \in {"failed", "shell"} : WorkerReturns(c, "err", t)
      \/ ses' = [ses EXCEPT ![c] = [r EXCEPT !.work.data = FALSE]]
      \/ r.work.end = "done" /\ WorkerReturns(c, "ok", r.work.txn)
      \/ r.work.end = "closed" /\ WorkerReturns(c, "aborted", "none")
  BY DEF drive_copy_in
<1> HIDE DEF r
<1>6. OK([r EXCEPT !.work.data = FALSE])
  BY <1>1, DataOK
<1>7. \A t \in {"failed", "shell"} : OK(Returned(r, "err", t))
  BY <1>1, <1>3, ReturnedOK
<1>8. r.work.end = "done" => OK(Returned(r, "ok", r.work.txn))
  <2>1. r.work.end = "done" => r.phase = "copy_join"
    BY <1>1, <1>2 DEF Copying
  <2> QED
    BY <1>1, <1>3, <2>1, ReturnedOK
<1>9. r.work.end = "closed" => OK(Returned(r, "aborted", "none"))
  <2>1. r.work.end = "closed" => r.phase = "gone"
    BY <1>1, <1>2 DEF Copying
  <2> QED
    BY <1>1, <1>3, <2>1, ReturnedOK
<1>10. ASSUME NEW at, NEW t, WorkerReturns(c, at, t), OK(Returned(r, at, t)) PROVE SessionsInv'
  BY <1>4, <1>10, OneSession
<1>11. CASE \E t \in {"failed", "shell"} : WorkerReturns(c, "err", t)
  BY <1>7, <1>10, <1>11
<1>12. CASE ses' = [ses EXCEPT ![c] = [r EXCEPT !.work.data = FALSE]]
  BY <1>6, <1>12, OneSession
<1>13. CASE r.work.end = "done" /\ WorkerReturns(c, "ok", r.work.txn)
  BY <1>8, <1>10, <1>13
<1>14. CASE r.work.end = "closed" /\ WorkerReturns(c, "aborted", "none")
  BY <1>9, <1>10, <1>14
<1> QED
  BY <1>5, <1>11, <1>12, <1>13, <1>14

(* A joined COPY gives its slot back, and what the slot owned goes where it went      *)
(* (CopyInSession::finish).                                                  *)
LEMMA JoinedEffect ==
  ASSUME NEW r \in SessionRecord, NEW s, s = Joined(r)
  PROVE  /\ s \in SessionRecord
         /\ SameStatement(r, s) /\ SameToken(r, s) /\ SameScoped(r, s) /\ SameReport(r, s)
         /\ s.copy = r.copy /\ s.txn = r.work.txn /\ s.work.at = None
<1>1. NoWork \in WorkRecord /\ NoWork.at = None
  BY DEF NoWork, NewSession, WorkRecord, Works, Txns, Ends
<1>2. r.work.txn \in Txns
  BY FieldOf DEF WorkRecord
<1>3. s \in SessionRecord
  BY <1>1, <1>2, FieldTyped DEF Joined
<1>4. /\ SameStatement(r, s) /\ SameToken(r, s) /\ SameScoped(r, s) /\ SameReport(r, s)
      /\ s.copy = r.copy /\ s.txn = r.work.txn /\ s.work = NoWork
  BY DEF Joined, SessionRecord, SameStatement, SameToken, SameScoped, SameReport
<1> QED
  BY <1>1, <1>3, <1>4

(* The end of a COPY that the client ended: an autocommit COPY is reported as it      *)
(* went, one in a block may still be canceled (finish_copy_in).               *)
LEMMA JoinCopyStep ==
  ASSUME SessionsInv, NEW c \in Client, join_copy_in(c)
  PROVE  SessionsInv'
<1> DEFINE r == ses[c]
           ok == r.work.at = "ok"
           d == Joined(r)
           m == [d EXCEPT !.copy = None, !.phase = "reply", !.path = "simple", !.stmt = "copyin"]
           out == IF ok THEN "Direct" ELSE "err"
           wrote == ok /\ r.work.txn = "none"
           j == [m EXCEPT !.wrote = wrote, !.out = out]
           a == IF ok /\ j.txn # "none" THEN apply_stream_consumer_cancel(j) ELSE j
           x == Cleanup(a)
<1>1. ses' = [ses EXCEPT ![c] = x]
  BY DEF join_copy_in, Own
<1>2. OK(r) /\ r.phase = "copy_join"
  BY OfClient DEF join_copy_in
<1> HIDE DEF r
<1>3. r.copy = "running"
  BY <1>2 DEF OK, SessionOK, Copying
<1>4. /\ r \in SessionRecord /\ SessionOK(r)
      /\ r.active /\ ~r.failed /\ r.errs = 0 /\ Fresh(r, r.work.txn)
  BY <1>2, <1>3, CopyBusy
<1>5. /\ d \in SessionRecord
      /\ SameStatement(r, d) /\ SameToken(r, d) /\ SameScoped(r, d) /\ SameReport(r, d)
      /\ d.txn = r.work.txn /\ d.work.at = None
  BY <1>4, JoinedEffect
<1> HIDE DEF d
<1>6. m \in SessionRecord
  <2>1. None \in Copies /\ "reply" \in Phases /\ "simple" \in Paths /\ "copyin" \in Stmts
    BY DEF Copies, Phases, Paths, Stmts, SimpleKinds
  <2>2. [d EXCEPT !.copy = None, !.phase = "reply"] \in SessionRecord
    BY <1>5, <2>1, FieldTyped
  <2>3. [d EXCEPT !.copy = None, !.phase = "reply", !.path = "simple"] \in SessionRecord
    BY <2>1, <2>2, FieldTyped
  <2> QED
    BY <2>1, <2>3, FieldTyped
<1>7. /\ SameToken(d, m) /\ SameSlot(d, m) /\ SameScoped(d, m) /\ SameReport(d, m)
      /\ m.copy = None /\ m.phase = "reply" /\ m.path = "simple" /\ m.work = d.work
  BY <1>5 DEF SessionRecord, SameToken, SameSlot, SameScoped, SameReport
<1> HIDE DEF m
<1>8. out \in Outs /\ wrote \in BOOLEAN /\ out # "copyin"
  BY DEF Outs
<1> HIDE DEF out, wrote
<1>9. j \in SessionRecord
  BY <1>6, <1>8, FieldTyped
<1>10. /\ SameToken(m, j) /\ SameSlot(m, j) /\ SameScoped(m, j) /\ SameReport(m, j) /\ SameCopy(m, j)
       /\ j.phase = m.phase /\ j.path = m.path /\ j.out = out
  BY <1>6 DEF SessionRecord, SameToken, SameSlot, SameScoped, SameReport, SameCopy
<1> HIDE DEF j
<1>11. /\ a \in SessionRecord
       /\ SameToken(j, a) /\ SameScoped(j, a) /\ SameCopy(j, a) /\ SameReport(j, a)
       /\ a.phase = j.phase /\ a.path = j.path /\ a.txn \in {j.txn, "failed"}
       /\ a.out \in {out, "canceled"}
  <2>1. PICK q : q = apply_stream_consumer_cancel(j)
    OBVIOUS
  <2>2. /\ q \in SessionRecord
        /\ SameToken(j, q) /\ SameScoped(j, q) /\ SameCopy(j, q) /\ SameReport(j, q)
        /\ q.phase = j.phase /\ q.path = j.path /\ q.txn \in {j.txn, "failed"}
        /\ q.out = j.out \/ q.out = "canceled"
    BY <1>9, <2>1, ConsumerEffect
  <2>3. a = q \/ a = j
    BY <2>1
  <2> QED
    BY <1>9, <1>10, <2>2, <2>3 DEF SameToken, SameScoped, SameCopy, SameReport
<1> HIDE DEF a
<1>12. /\ x \in SessionRecord
       /\ SameStatement(a, x) /\ SameToken(a, x) /\ SameSlot(a, x) /\ SameCopy(a, x) /\ SameReport(a, x)
       /\ a.txn \in {"none", "shell"} => x.old = {} /\ x.cursor = None /\ x.portal # "suspended"
       /\ a.txn \notin {"none", "shell"} => SameScoped(a, x)
  BY <1>11, CloseTyped, CleanupEffect
<1> HIDE DEF x
<1>13. /\ SameToken(r, x) /\ SameReport(r, x) /\ x.copy = None /\ x.work.at = None
       /\ x.phase = "reply" /\ x.path = "simple" /\ x.out \in {out, "canceled"}
  BY <1>5, <1>7, <1>10, <1>11, <1>12 DEF SameStatement, SameToken, SameReport, SameCopy
<1>14. Cycle(x)
  BY <1>4, <1>13, SessionAssumption DEF SessionOK, Cycle, SameToken, SameReport
<1>15. Copying(x)
  BY <1>13, SessionAssumption DEF Copying
<1>16. Reported(x)
  BY <1>4, <1>8, <1>13 DEF SessionOK, Reported, SameReport
<1>17. Fresh(x, x.txn)
  <2>1. a.txn = "open" => a.old = {}
    BY <1>4, <1>5, <1>7, <1>10, <1>11 DEF Fresh, SameSlot, SameScoped
  <2> QED
    BY <1>12, <2>1 DEF Fresh, SameSlot, SameScoped
<1>18. Current(x)
  BY <1>13, <1>17, SessionAssumption DEF Current
<1>19. OK(x)
  BY <1>12, <1>14, <1>15, <1>16, <1>18 DEF OK, SessionOK
<1> QED
  BY <1>1, <1>19, OneSession DEF r

(* The end of a COPY that was canceled: its one error is reported, then the rest of     *)
(* the client's data is skipped (cancel_copy_in).                            *)
LEMMA CancelCopyStep ==
  ASSUME SessionsInv, NEW c \in Client, cancel_copy_in(c)
  PROVE  SessionsInv'
<1> DEFINE r == ses[c]
           d == Joined(r)
           k == Canceled(d)
           p == stop_statement_timer(k)
           e == [p EXCEPT !.copy = "draining", !.phase = "idle"]
<1>1. ses' = [ses EXCEPT ![c] = e] \/ ses' = [ses EXCEPT ![c] = Drop(e)]
  BY DEF cancel_copy_in, Own
<1>2. OK(r) /\ r.phase = "copy_cancel"
  BY OfClient DEF cancel_copy_in
<1> HIDE DEF r
<1>3. r.copy = "running"
  BY <1>2 DEF OK, SessionOK, Copying
<1>4. /\ r \in SessionRecord /\ SessionOK(r)
      /\ r.active /\ ~r.failed /\ r.errs = 0 /\ ~r.wrote /\ Fresh(r, r.work.txn)
  BY <1>2, <1>3, CopyBusy
<1>5. r.reason = None \/ r.fresh
  BY <1>4 DEF SessionOK, Cycle
<1>6. /\ d \in SessionRecord
      /\ SameStatement(r, d) /\ SameToken(r, d) /\ SameScoped(r, d) /\ SameReport(r, d)
      /\ d.txn = r.work.txn /\ d.work.at = None
  BY <1>4, JoinedEffect
<1> HIDE DEF d
<1>7. /\ k \in SessionRecord
      /\ SameStatement(d, k) /\ SameToken(d, k) /\ SameSlot(d, k) /\ SameScoped(d, k) /\ SameCopy(d, k)
      /\ k.failed = d.failed /\ (d.errs = 0 => k.errs = 1)
      /\ d.reason = None \/ d.fresh => k.bad = d.bad
  BY <1>6, ErrorTyped, CanceledEffect
<1> HIDE DEF k
<1>8. /\ p \in SessionRecord
      /\ SameStatement(k, p) /\ SameSlot(k, p) /\ SameScoped(k, p) /\ SameCopy(k, p)
      /\ SameReport(k, p) /\ p.active = FALSE /\ p.timer = "Idle"
  BY <1>7, StopTyped, StopEffect
<1> HIDE DEF p
<1>9. e \in SessionRecord
  <2>1. "draining" \in Copies /\ "idle" \in Phases
    BY DEF Copies, Phases
  <2> QED
    BY <1>8, <2>1, FieldTyped
<1>10. /\ SameToken(p, e) /\ SameSlot(p, e) /\ SameScoped(p, e) /\ SameReport(p, e)
       /\ e.phase = "idle" /\ e.copy = "draining" /\ e.work = p.work
       /\ e.wrote = p.wrote /\ e.path = p.path
  BY <1>8 DEF SessionRecord, SameToken, SameSlot, SameScoped, SameReport
<1> HIDE DEF e
<1>11. /\ e.active = FALSE /\ e.timer = "Idle" /\ e.errs = 1 /\ e.failed = FALSE /\ e.bad = r.bad
       /\ e.wrote = FALSE /\ e.txn = r.work.txn /\ e.work.at = None /\ SameScoped(r, e)
  <2>1. e.errs = 1 /\ e.failed = FALSE
    BY <1>4, <1>6, <1>7, <1>8, <1>10, FieldOf DEF SameReport
  <2>2. e.bad = r.bad
    BY <1>5, <1>6, <1>7, <1>8, <1>10 DEF SameReport, SameToken
  <2>3. e.wrote = FALSE
    BY <1>4, <1>6, <1>7, <1>8, <1>10, FieldOf DEF SameStatement
  <2> QED
    BY <1>6, <1>7, <1>8, <1>10, <2>1, <2>2, <2>3
    DEF SameStatement, SameToken, SameReport, SameSlot, SameScoped, SameCopy
<1>12. Cycle(e)
  BY <1>4, <1>10, <1>11 DEF SessionOK, Cycle, InStatement
<1>13. Copying(e)
  BY <1>10, <1>11, SessionAssumption DEF Copying
<1>14. Reported(e)
  BY <1>4, <1>11 DEF SessionOK, Reported
<1>15. Current(e)
  BY <1>4, <1>10, <1>11 DEF Current, Fresh, SameScoped
<1>16. OK(e)
  BY <1>9, <1>12, <1>13, <1>14, <1>15 DEF OK, SessionOK
<1>17. OK(Drop(e))
  BY <1>10, <1>16, DropOK
<1> QED
  BY <1>1, <1>16, <1>17, OneSession DEF r

-----------------------------------------------------------------------------
(* Every session of every server                                            *)

(* Every step of the server keeps every session in order (the protocol loop, the       *)
(* statements' tasks, COPY and its worker).                                  *)
LEMMA SessionsStep ==
  ASSUME SessionsInv, scale \in Scales, [Next]_svars
  PROVE  SessionsInv'
<1>1. CASE UNCHANGED ses
  BY <1>1 DEF SessionsInv
<1>2. ASSUME NEW c \in Client, GuardStep(c) \/ (Count(c) /\ UNCHANGED ses) PROVE SessionsInv'
  BY <1>1, <1>2 DEF GuardStep
<1>3. ASSUME NEW c \in Client,
             TimerWakes(c) \/ CancelWakes(c) \/ request_cancel(c) \/ notify_cancel(c) \/ TimerFires(c)
      PROVE  SessionsInv'
  BY <1>3, CancelStep
<1>4. ASSUME NEW c \in Client, Statement(c) PROVE SessionsInv'
  BY <1>4, RunStatementStep, CursorStep, LimitedStep, SuspendedStep DEF Statement
<1>5. ASSUME NEW c \in Client, Copy(c) PROVE SessionsInv'
  BY <1>5, BeginCopyStep, DataStep, FinishCopyStep, JoinCopyStep, CancelCopyStep DEF Copy
<1>6. CASE Background
  BY <1>1, <1>6 DEF Background
<1>7. CASE UNCHANGED svars
  BY <1>1, <1>7 DEF svars
<1>8. CASE Next
  BY <1>2, <1>3, <1>4, <1>5, <1>6, <1>8, MessageStep, RefusedStep, FinishStatementStep,
     ReplyStep, DriveCopyStep DEF Next
<1> QED
  BY <1>7, <1>8

(* The invariant of the sessions holds of every server.                      *)
LEMMA SessionsKept == Spec => []SessionsInv
<1>1. Init => SessionsInv
  <2> SUFFICES ASSUME Init PROVE SessionsInv
    OBVIOUS
  <2>1. NewSession \in SessionRecord /\ SessionOK(NewSession)
    BY NewOK DEF OK
  <2>2. ses = [c \in Client |-> NewSession]
    BY DEF Init
  <2> QED
    BY <2>1, <2>2 DEF SessionsInv
<1>2. LifecycleTypeOK /\ SessionsInv /\ [Next]_svars => SessionsInv'
  BY SessionsStep DEF LifecycleTypeOK, WorkerTypes
<1> QED
  BY <1>1, <1>2, LifecycleTyped, PTL DEF Spec

(* Whatever clients send and whenever they cancel, a statement is canceled only by a   *)
(* request or a timeout of its own (arm_new's reset, disarm, statement_active).  *)
THEOREM StatementsCanceledByOwn == Spec => []CancelsOwnStatement
<1>1. SessionsInv => CancelsOwnStatement
  BY DEF SessionsInv, SessionOK, Cycle, CancelsOwnStatement
<1> QED
  BY <1>1, SessionsKept, PTL

(* However cancels, timeouts and failures meet in a cycle, at most one ErrorResponse   *)
(* precedes its ReadyForQuery (failed and the skip to Sync, the draining of a          *)
(* canceled COPY).                                                           *)
THEOREM ErrorsOncePerCycle == Spec => []OneErrorPerCycle
<1>1. SessionsInv => OneErrorPerCycle
  <2> SUFFICES ASSUME SessionsInv, NEW c \in Client PROVE ses[c].errs <= 1
    BY DEF OneErrorPerCycle
  <2>1. ses[c] \in SessionRecord /\ Cycle(ses[c])
    BY DEF SessionsInv, SessionOK
  <2>2. ses[c].errs \in {0, 1, 2}
    BY <2>1, FieldOf
  <2> QED
    BY <2>1, <2>2 DEF Cycle
<1> QED
  BY <1>1, SessionsKept, PTL

(* In every session, no cursor and no suspended portal outlives the transaction or     *)
(* the savepoint it was opened in (transaction_resources_released and its callers).  *)
THEOREM CursorsAlwaysCurrent == Spec => []CursorsCurrent
<1>1. SessionsInv => CursorsCurrent
  <2> SUFFICES ASSUME SessionsInv, NEW c \in Client, ses[c].phase = "idle", ses[c].copy = None
               PROVE  /\ ses[c].txn = "open" => ses[c].old = {}
                      /\ ses[c].txn = "none" => "portal" \notin ses[c].old
    BY DEF CursorsCurrent
  <2>1. Current(ses[c])
    BY DEF SessionsInv, SessionOK
  <2>2. ses[c].copy # "running"
    BY SessionAssumption
  <2> QED
    BY <2>1, <2>2 DEF Current, Fresh
<1> QED
  BY <1>1, SessionsKept, PTL

(* When a client is gone its transaction leaves the registry, unless a COPY worker       *)
(* still runs for it or had failed by itself (Drop of Session, drive_copy_in).  *)
THEOREM DisconnectsSettle == Spec => []DisconnectSettles
<1>1. SessionsInv => DisconnectSettles
  BY DEF SessionsInv, SessionOK, Copying, DisconnectSettles
<1> QED
  BY <1>1, SessionsKept, PTL

(* A statement of the extended protocol whose commit is durable is never reported as      *)
(* failed or canceled (apply_stream_consumer_cancel).                        *)
THEOREM DurableIsReported == Spec => []DurableReported
<1>1. SessionsInv => DurableReported
  BY DEF SessionsInv, SessionOK, Reported, DurableReported
<1> QED
  BY <1>1, SessionsKept, PTL

-----------------------------------------------------------------------------
(* The final checkpoint finds the server quiet                              *)

(* The shutdown thread waits for each worker before it goes on.               *)
WorkersEnded ==
  /\ down \in {"join_checkpoint", "final", "done"} => maint.pc = "exited"
  /\ down \in {"final", "done"} => ckpt.pc = "exited"

(* A worker that has ended stays so (the joins of run_graceful_shutdown).      *)
LEMMA WorkersEndedStep ==
  ASSUME WorkerTypes, WorkersEnded, LifecycleStep
  PROVE  WorkersEnded'
<1>1. CASE Inner
  BY <1>1 DEF Inner, lvars, WorkersEnded
<1>2. ASSUME NEW c \in Client, Committing(c) \/ Refusing(c) \/ Guarding(c) PROVE WorkersEnded'
  BY <1>2 DEF Committing, Refusing, Guarding, worker_vars, WorkersEnded
<1>3. ASSUME NEW c \in Client, Count(c) PROVE WorkersEnded'
  <2>1. maint'.pc = maint.pc /\ ckpt'.pc = ckpt.pc /\ down' = down
    BY <1>3 DEF Count, add_dead_versions, add_changed_rows, request_vacuum, request_analyze,
       record_commit, maybe_checkpoint, request, WorkerTypes
  <2> QED
    BY <2>1 DEF WorkersEnded
<1>4. CASE Pass
  <2>1. maint'.pc = maint.pc /\ ckpt'.pc = ckpt.pc /\ down' = down
    BY <1>4 DEF Pass, PassLoad, PassClog, PassMarker, PassFail, PassTrigger, PassSubtract,
       pass_rest, WorkerTypes
  <2> QED
    BY <2>1 DEF WorkersEnded
<1>5. CASE CkptWorker
  <2>1. ckpt.pc # "exited" /\ UNCHANGED <<down, maint>>
    BY <1>5 DEF CkptWorker, CkptTake, CkptSucceeds, CkptErrs, CkptRetry, wait_for_busy_retry, CkptExit
  <2> QED
    BY <2>1 DEF WorkersEnded
<1>6. CASE MaintWorker
  <2>1. maint.pc # "exited" /\ UNCHANGED <<down, ckpt>>
    BY <1>6 DEF MaintWorker, MaintTake, MaintLoad, MaintWork, MaintFail, MaintSettle, MaintRetry,
       MaintExit
  <2> QED
    BY <2>1 DEF WorkersEnded
<1>7. CASE Shutdown
  <2>1. CASE StopMaintenance
    BY <2>1 DEF StopMaintenance, WorkersEnded
  <2>2. CASE StopCheckpoint
    BY <2>2 DEF StopCheckpoint, WorkersEnded
  <2>3. CASE FinalCheckpoint \/ FinalFlush
    BY <2>3 DEF FinalCheckpoint, FinalFlush, WorkersEnded
  <2>4. CASE StopAccepting \/ StopNotify \/ WaitForIdle \/ WokenIdle \/ WaitTimedOut
    BY <2>4 DEF StopAccepting, StopNotify, WaitForIdle, WokenIdle, WaitTimedOut, WorkersEnded
  <2> QED
    BY <1>7, <2>1, <2>2, <2>3, <2>4 DEF Shutdown
<1> QED
  BY <1>1, <1>2, <1>3, <1>4, <1>5, <1>6, <1>7 DEF LifecycleStep

(* A handler that changes neither where the session stands nor its COPY.       *)
SamePlace(r, s) == s.phase = r.phase /\ s.copy = r.copy

(* A failed message leaves the session where it stands (reply_or_fail,           *)
(* RefusedExecute).                                                          *)
LEMMA FailPlace ==
  ASSUME NEW r \in SessionRecord
  PROVE  SamePlace(r, reply_or_fail(r)) /\ SamePlace(r, RefusedExecute(r))
<1>1. PICK q : q = stop_statement_timer(r)
  OBVIOUS
<1>2. q \in SessionRecord /\ SamePlace(r, q)
  BY <1>1, StopTyped, StopEffect DEF SamePlace, SameStatement, SameCopy
<1>3. PICK p : p = [q EXCEPT !.failed = TRUE]
  OBVIOUS
<1>4. p \in SessionRecord /\ SamePlace(q, p)
  BY <1>2, <1>3, FailingEffect DEF SamePlace, SameStatement, SameCopy
<1>5. PICK m : m = mark_current_transaction_failed(p)
  OBVIOUS
<1>6. m \in SessionRecord /\ SamePlace(p, m)
  BY <1>4, <1>5, SlotTyped, MarkCurrentEffect DEF SamePlace, SameStatement, SameCopy, Txns
<1>7. SamePlace(m, Error(m)) /\ SamePlace(p, Error(p))
  BY <1>4, <1>6, ErrorEffect DEF SamePlace, SameStatement, SameCopy
<1> QED
  BY <1>1, <1>2, <1>3, <1>4, <1>5, <1>6, <1>7 DEF SamePlace, reply_or_fail, RefusedExecute

(* A cancel that meets the waiting loop begins the end of a COPY, or leaves the          *)
(* session where it stands (handle_idle_statement_timeout).                  *)
LEMMA IdleTimeoutPlace ==
  ASSUME NEW r \in SessionRecord
  PROVE  /\ handle_idle_statement_timeout(r).copy = r.copy
         /\ handle_idle_statement_timeout(r).phase \in {r.phase, "copy_cancel"}
<1>1. CASE r.copy # None
  <2>1. r.work \in WorkRecord
    BY FieldOf
  <2>2. /\ [r EXCEPT !.phase = "copy_cancel", !.work.end = "fail"].copy = r.copy
        /\ [r EXCEPT !.phase = "copy_cancel", !.work.end = "fail"].phase = "copy_cancel"
    BY DEF SessionRecord
  <2> QED
    BY <1>1, <2>2 DEF handle_idle_statement_timeout
<1>2. CASE r.copy = None
  <2>1. PICK k : k = Canceled(r)
    OBVIOUS
  <2>2. k \in SessionRecord /\ SamePlace(r, k)
    BY <2>1, ErrorTyped, CanceledEffect DEF SamePlace, SameStatement, SameCopy
  <2>3. PICK q : q = stop_statement_timer(k)
    OBVIOUS
  <2>4. q \in SessionRecord /\ SamePlace(k, q)
    BY <2>2, <2>3, StopTyped, StopEffect DEF SamePlace, SameStatement, SameCopy
  <2>5. PICK p : p = [q EXCEPT !.failed = TRUE]
    OBVIOUS
  <2>6. p \in SessionRecord /\ SamePlace(q, p)
    BY <2>4, <2>5, FailingEffect DEF SamePlace, SameStatement, SameCopy
  <2>7. SamePlace(p, mark_current_transaction_failed(p))
    BY <2>6, MarkCurrentEffect DEF SamePlace, SameStatement, SameCopy
  <2>8. handle_idle_statement_timeout(r) = mark_current_transaction_failed(p)
    BY <1>2, <2>1, <2>3, <2>5 DEF handle_idle_statement_timeout
  <2> QED
    BY <2>2, <2>4, <2>6, <2>7, <2>8 DEF SamePlace
<1> QED
  BY <1>1, <1>2

(* Sync leaves the session where it stands (Sync).                          *)
LEMMA SyncPlace ==
  ASSUME NEW r \in SessionRecord, r.phase = "idle"
  PROVE  SamePlace(r, ReadyForQuery(close_autocommit_suspended_portals(
                        [stop_statement_timer(r) EXCEPT !.failed = FALSE])))
<1>1. PICK q : q = stop_statement_timer(r)
  OBVIOUS
<1>2. q \in SessionRecord /\ SamePlace(r, q)
  BY <1>1, StopTyped, StopEffect DEF SamePlace, SameStatement, SameCopy
<1>3. PICK p : p = [q EXCEPT !.failed = FALSE]
  OBVIOUS
<1>4. p \in SessionRecord
  BY <1>2, <1>3, FieldTyped
<1>5. SamePlace(q, p)
  BY <1>2, <1>3 DEF SessionRecord, SamePlace
<1>6. PICK m : m = close_autocommit_suspended_portals(p)
  OBVIOUS
<1>7. m \in SessionRecord /\ SamePlace(p, m)
  BY <1>4, <1>6, CloseTyped, CloseAutocommitEffect DEF SamePlace, SameStatement, SameCopy
<1>8. ReadyForQuery(m).phase = "idle" /\ ReadyForQuery(m).copy = m.copy
  BY <1>7, ReadyEffect DEF SameCopy
<1> QED
  BY <1>1, <1>2, <1>3, <1>5, <1>6, <1>7, <1>8 DEF SamePlace

(* A session that needs no guard.                                           *)
Unguarded(s) == s.phase \notin {"join", "copy_begin"} /\ s.copy # "running"

(* A step of one session that ends unguarded or held keeps the guards, if it leaves a   *)
(* statement that has something to count where it is.                        *)
LEMMA OwnGuarded ==
  ASSUME SessionsInv, GuardedInv, NEW c \in Client, NEW s, Own(c, s),
         post[c] = "none" \/ s.phase = ses[c].phase,
         Unguarded(s) \/ guard[c] = "held"
  PROVE  GuardedInv'
BY DEF SessionsInv, GuardedInv, Guarded, Own, lvars, Unguarded

(* Nothing is left to count outside the joins (commit_transaction's callers count         *)
(* before the task is joined).                                               *)
LEMMA NothingToCount ==
  ASSUME GuardedInv, NEW c \in Client, ses[c].phase \notin {"join", "copy_join"}
  PROVE  post[c] = "none"
BY DEF GuardedInv, Guarded

(* A dropped session needs no guard (Drop of Session).                       *)
LEMMA DropUnguarded ==
  ASSUME NEW r \in SessionRecord
  PROVE  Unguarded(Drop(r))
BY DropEffect, SessionAssumption DEF Unguarded

(* No message starts what needs a guard before it is admitted (the protocol loop).       *)
LEMMA MessageGuarded ==
  ASSUME SessionsInv, SessionsInv', GuardedInv, NEW c \in Client, Message(c)
  PROVE  GuardedInv'
<1>1. OK(ses[c]) /\ ses[c] \in SessionRecord
  BY OfClient DEF OK
<1>2. OK(ses'[c]) /\ ses'[c] \in SessionRecord
  BY DEF SessionsInv, OK
<1>3. \A s : Own(c, s) => ses'[c] = s
  BY DEF Own, SessionsInv
<1>4. ses[c].phase = "idle" /\ post[c] = "none"
  BY NothingToCount DEF Message, run_query, Sync, process_parse, process_bind, process_close,
     run_execute, BeforeMessage, Disconnect, Extended, Waiting
<1>5. \A s : Own(c, s) /\ Unguarded(s) => GuardedInv'
  BY <1>4, OwnGuarded
<1>6. \A s : Own(c, s) /\ s.phase = "begin" => GuardedInv'
  <2>1. ses'[c].phase = "begin" => Unguarded(ses'[c])
    BY <1>2 DEF OK, SessionOK, Copying, Unguarded
  <2> QED
    BY <1>3, <1>5, <2>1
<1>7. Waiting(c) => \A armed \in Timeouts :
        LET p == start_statement_timer(ses[c], armed) IN p \in SessionRecord /\ Unguarded(p)
  <2> SUFFICES ASSUME Waiting(c), NEW armed \in Timeouts, NEW p, p = start_statement_timer(ses[c], armed)
               PROVE  p \in SessionRecord /\ Unguarded(p)
    OBVIOUS
  <2>1. armed \in {"Idle", "Armed"}
    BY DEF Timeouts
  <2>2. p \in SessionRecord /\ SameStatement(ses[c], p) /\ SameCopy(ses[c], p)
    BY <1>1, <2>1, StartTyped, StartEffect
  <2> QED
    BY <2>2, SessionAssumption DEF Waiting, Unguarded, SameStatement, SameCopy
<1>8. CASE run_query(c)
  <2>1. PICK k \in scale.simple, armed \in Timeouts :
          Own(c, [close_autocommit_suspended_portals(start_statement_timer(ses[c], armed)) EXCEPT
                    !.phase = "begin", !.path = "simple", !.stmt = k])
    BY <1>8 DEF run_query
  <2>2. PICK q : q = close_autocommit_suspended_portals(start_statement_timer(ses[c], armed))
    OBVIOUS
  <2>3. q \in SessionRecord
    BY <1>7, <1>8, <2>2, CloseTyped DEF run_query
  <2>4. [q EXCEPT !.phase = "begin", !.path = "simple", !.stmt = k].phase = "begin"
    BY <2>3 DEF SessionRecord
  <2> QED
    BY <1>6, <2>1, <2>2, <2>4
<1>9. CASE Sync(c)
  <2>1. PICK s : s = ReadyForQuery(close_autocommit_suspended_portals(
                       [stop_statement_timer(ses[c]) EXCEPT !.failed = FALSE]))
    OBVIOUS
  <2>2. Own(c, s) /\ ses[c].copy = None
    BY <1>9, <2>1 DEF Sync, Waiting
  <2>3. Unguarded(s)
    BY <1>1, <1>4, <2>1, <2>2, SyncPlace, SessionAssumption DEF Unguarded, SamePlace
  <2> QED
    BY <1>5, <2>2, <2>3
<1>10. ASSUME Extended(c), NEW armed \in Timeouts, Own(c, reply_or_fail(Started(c, armed)))
       PROVE  GuardedInv'
  <2>1. PICK p : p = Started(c, armed)
    OBVIOUS
  <2>2. p \in SessionRecord /\ Unguarded(p)
    BY <1>7, <1>10, <2>1 DEF Extended, Started
  <2>3. Unguarded(reply_or_fail(p))
    BY <2>2, FailPlace DEF SamePlace, Unguarded
  <2> QED
    BY <1>5, <1>10, <2>1, <2>3
<1>11. CASE process_parse(c)
  <2>1. PICK armed \in Timeouts :
          Own(c, Started(c, armed)) \/ Own(c, reply_or_fail(Started(c, armed)))
    BY <1>11 DEF process_parse
  <2>2. Unguarded(Started(c, armed))
    BY <1>7, <1>11 DEF process_parse, Extended, Started
  <2> QED
    BY <1>5, <1>10, <1>11, <2>1, <2>2 DEF process_parse
<1>12. CASE process_bind(c)
  <2>1. PICK armed \in Timeouts :
          \/ \E k \in scale.prepared :
               Own(c, [Started(c, armed) EXCEPT !.portal = k, !.old = @ \ {"portal"}])
          \/ Own(c, reply_or_fail(Started(c, armed)))
    BY <1>12 DEF process_bind
  <2>2. PICK p : p = Started(c, armed)
    OBVIOUS
  <2>3. p \in SessionRecord /\ Unguarded(p)
    BY <1>7, <1>12, <2>2 DEF process_bind, Extended, Started
  <2>4. \A k : Unguarded([p EXCEPT !.portal = k, !.old = @ \ {"portal"}])
    BY <2>3 DEF SessionRecord, Unguarded
  <2> QED
    BY <1>5, <1>10, <1>12, <2>1, <2>2, <2>4 DEF process_bind
<1>13. CASE process_close(c)
  <2>1. Unguarded([ses[c] EXCEPT !.portal = None, !.old = @ \ {"portal"}])
    <3>1. PICK r : r = ses[c]
      OBVIOUS
    <3>2. r \in SessionRecord /\ r.phase = "idle" /\ r.copy = None
      BY <1>1, <1>4, <1>13, <3>1 DEF process_close, Extended, Waiting
    <3>3. Unguarded([r EXCEPT !.portal = None, !.old = @ \ {"portal"}])
      BY <3>2, SessionAssumption DEF SessionRecord, Unguarded
    <3> QED
      BY <3>1, <3>3
  <2> QED
    BY <1>5, <1>13, <2>1 DEF process_close
<1>14. CASE run_execute(c)
  <2>1. PICK armed \in Timeouts, limited \in BOOLEAN :
          LET r == Started(c, armed)
              p == r.portal
              parked == p \in {"suspended", "suspended_autocommit"}
              taken == parked \/ (limited /\ p = "read")
          IN  IF p = None \/ (taken /\ r.txn \in {"failed", "shell"})
              THEN Own(c, RefusedExecute(r))
              ELSE Own(c, [r EXCEPT !.phase = "begin", !.stmt = p,
                             !.path = IF parked THEN "resume" ELSE IF taken THEN "limited"
                                      ELSE "extended",
                             !.portal = IF taken THEN None ELSE @])
    BY <1>14 DEF run_execute
  <2>2. PICK r : r = Started(c, armed)
    OBVIOUS
  <2> DEFINE parked == r.portal \in {"suspended", "suspended_autocommit"}
             taken == parked \/ (limited /\ r.portal = "read")
             s == [r EXCEPT !.phase = "begin", !.stmt = r.portal,
                            !.path = IF parked THEN "resume" ELSE IF taken THEN "limited" ELSE "extended",
                            !.portal = IF taken THEN None ELSE @]
  <2>3. r \in SessionRecord /\ Unguarded(r)
    BY <1>7, <1>14, <2>2 DEF run_execute, Extended, Started
  <2>4. Unguarded(RefusedExecute(r))
    BY <2>3, FailPlace DEF SamePlace, Unguarded
  <2>5. s.phase = "begin"
    BY <2>3 DEF SessionRecord
  <2>6. Own(c, RefusedExecute(r)) \/ Own(c, s)
    BY <2>1, <2>2
  <2> HIDE DEF s
  <2> QED
    BY <1>5, <1>6, <2>4, <2>5, <2>6
<1>15. CASE BeforeMessage(c)
  <2>1. PICK s : s = handle_idle_statement_timeout(ses[c])
    OBVIOUS
  <2>2. s.copy = ses[c].copy /\ s.phase \in {"idle", "copy_cancel"}
    BY <1>1, <1>4, <2>1, IdleTimeoutPlace
  <2>3. Unguarded(s) \/ guard[c] = "held"
    BY <2>2 DEF Unguarded, GuardedInv, Guarded
  <2> QED
    BY <1>4, <1>15, <2>1, <2>3, OwnGuarded DEF BeforeMessage
<1>16. CASE Disconnect(c)
  BY <1>1, <1>5, <1>16, DropUnguarded DEF Disconnect
<1> QED
  BY <1>8, <1>9, <1>11, <1>12, <1>13, <1>14, <1>15, <1>16 DEF Message

(* Cancel requests, wake-ups and timers leave the guards alone (request_cancel,           *)
(* cancel_wake, StatementTimer).                                             *)
LEMMA CancelGuarded ==
  ASSUME SessionsInv, GuardedInv, NEW c \in Client,
         \/ TimerWakes(c) \/ CancelWakes(c) \/ request_cancel(c) \/ notify_cancel(c)
         \/ TimerFires(c)
  PROVE  GuardedInv'
<1>1. ses[c] \in SessionRecord
  BY OfClient DEF OK
<1>2. PICK r : r = ses[c]
  OBVIOUS
<1>3. ASSUME NEW s, SamePlace(r, s), Own(c, s) PROVE GuardedInv'
  <2>1. Unguarded(s) \/ guard[c] = "held"
    BY <1>2, <1>3 DEF SamePlace, Unguarded, GuardedInv, Guarded
  <2> QED
    BY <1>2, <1>3, <2>1, OwnGuarded DEF SamePlace
<1>4. ASSUME NEW q \in SessionRecord, SamePlace(r, q), r.phase = "idle",
             Own(c, handle_idle_statement_timeout(q))
      PROVE  GuardedInv'
  <2>1. PICK s : s = handle_idle_statement_timeout(q)
    OBVIOUS
  <2>2. s.copy = r.copy /\ s.phase \in {"idle", "copy_cancel"}
    BY <1>4, <2>1, IdleTimeoutPlace DEF SamePlace
  <2>3. Unguarded(s) \/ guard[c] = "held"
    BY <1>2, <2>2 DEF Unguarded, GuardedInv, Guarded
  <2>4. post[c] = "none"
    BY <1>2, <1>4, NothingToCount
  <2> QED
    BY <1>4, <2>1, <2>3, <2>4, OwnGuarded
<1>5. SamePlace(r, r)
  BY DEF SamePlace
<1>6. CASE TimerWakes(c)
  BY <1>1, <1>2, <1>4, <1>5, <1>6 DEF TimerWakes
<1>7. CASE CancelWakes(c)
  <2>1. PICK q : q = [r EXCEPT !.wake = FALSE]
    OBVIOUS
  <2>2. q \in SessionRecord /\ SamePlace(r, q)
    <3>1. q \in SessionRecord
      BY <1>1, <1>2, <2>1, FieldTyped
    <3>2. SamePlace(r, q)
      BY <1>1, <1>2, <2>1 DEF SessionRecord, SamePlace
    <3> QED
      BY <3>1, <3>2
  <2>3. Own(c, handle_idle_statement_timeout(q)) \/ Own(c, q)
    BY <1>2, <1>7, <2>1 DEF CancelWakes
  <2> QED
    BY <1>2, <1>3, <1>4, <1>7, <2>2, <2>3 DEF CancelWakes
<1>8. \A why : SamePlace(r, [Requested(r, why) EXCEPT !.notify = TRUE])
            /\ SamePlace(r, [Requested(r, why) EXCEPT !.timer = "Expired"])
  BY <1>1, <1>2 DEF SessionRecord, Requested, SamePlace
<1>9. CASE request_cancel(c)
  BY <1>2, <1>3, <1>8, <1>9 DEF request_cancel
<1>10. CASE notify_cancel(c)
  <2>1. SamePlace(r, [r EXCEPT !.notify = FALSE, !.wake = TRUE])
    BY <1>1, <1>2 DEF SessionRecord, SamePlace
  <2> QED
    BY <1>2, <1>3, <1>10, <2>1 DEF notify_cancel
<1>11. CASE TimerFires(c)
  BY <1>2, <1>3, <1>8, <1>11 DEF TimerFires
<1> QED
  BY <1>6, <1>7, <1>9, <1>10, <1>11

(* A statement whose task has run waits to be joined (RunStatement).          *)
LEMMA RanPhase ==
  ASSUME SessionsInv, NEW c \in Client, RunStatement(c)
  PROVE  ses'[c].phase = "join"
<1> DEFINE r == ses[c]
<1>1. r \in SessionRecord
  BY OfClient DEF OK
<1>2. PICK o, s :
        /\ \/ s = Settle(r, o.txn)
           \/ s = [Outlived(r) EXCEPT !.txn = o.txn]
           \/ s = [r EXCEPT !.txn = o.txn, !.reg = @ \/ o.txn = "open"]
        /\ ses' = [ses EXCEPT ![c] =
             [s EXCEPT !.phase = "join", !.wrote = o.wrote,
                !.reg = @ \/ (r.stmt = "copyin" /\ o.out = "ok"),
                !.out = IF o.out = "err" THEN "err" ELSE StreamOutcome(r.path, r.stmt, r.txn)]]
  BY DEF RunStatement
<1>3. "phase" \in DOMAIN s
  BY <1>1, <1>2 DEF SessionRecord, Settle, Outlived
<1> QED
  BY <1>2, <1>3 DEF SessionsInv

(* A statement's task counts its commit before it is joined, and is joined under its    *)
(* guard (RunStatement, FinishStatement, the statements on cursors and portals).  *)
LEMMA StatementGuarded ==
  ASSUME SessionsInv, SessionsInv', GuardedInv, CounterTypes, NEW c \in Client,
         Statement(c) \/ FinishStatement(c)
  PROVE  GuardedInv'
<1>1. CASE RunStatement(c)
  <2>1. PICK o, s : /\ ses' = [ses EXCEPT ![c] = [s EXCEPT !.phase = "join", !.wrote = o.wrote,
                         !.reg = @ \/ (ses[c].stmt = "copyin" /\ o.out = "ok"),
                         !.out = IF o.out = "err" THEN "err"
                                 ELSE StreamOutcome(ses[c].path, ses[c].stmt, ses[c].txn)]]
                    /\ Counting(c, o.wrote)
    BY <1>1 DEF RunStatement
  <2>2. guard[c] = "held" /\ guard' = guard
    BY <1>1 DEF RunStatement, Running, shutdown_vars
  <2>3. PICK x : ses' = [ses EXCEPT ![c] = x]
    BY <2>1
  <2>4. \A d \in Client : d # c => ses'[d] = ses[d]
    BY <2>3 DEF SessionsInv
  <2>5. \A d \in Client : d # c => post'[d] = post[d]
    BY <2>1 DEF Counting, counter_vars, CounterTypes
  <2>6. ses'[c].phase = "join"
    BY <1>1, RanPhase
  <2> QED
    BY <2>2, <2>4, <2>5, <2>6 DEF GuardedInv, Guarded
<1>2. CASE FinishStatement(c)
  <2>1. guard[c] = "held" /\ post[c] = "none"
    BY <1>2 DEF FinishStatement, GuardedInv, Guarded
  <2>2. PICK s : Own(c, s)
    BY <1>2 DEF FinishStatement
  <2> QED
    BY <2>1, <2>2, OwnGuarded
<1>3. CASE run_sql_cursor_statement(c) \/ run_limited_bound_execute(c) \/ run_suspended_execute(c)
  <2>1. ses[c].phase = "begin" /\ guard[c] = "held"
    BY <1>3 DEF run_sql_cursor_statement, run_limited_bound_execute, run_suspended_execute, Running
  <2>2. PICK s : Own(c, s)
    BY <1>3 DEF run_sql_cursor_statement, run_limited_bound_execute, run_suspended_execute
  <2> QED
    BY <2>1, <2>2, NothingToCount, OwnGuarded
<1> QED
  BY <1>1, <1>2, <1>3 DEF Statement

(* A reply ends its statement or its connection (send of the reply).          *)
LEMMA ReplyGuarded ==
  ASSUME SessionsInv, GuardedInv, NEW c \in Client, Reply(c)
  PROVE  GuardedInv'
<1> DEFINE r == Misreported(ses[c])
           e == CASE r.out = "err" -> Error(r) [] r.out = "canceled" -> Canceled(r) [] OTHER -> r
           p == stop_statement_timer(e)
           failed == p.failed \/ r.out \in {"err", "canceled"}
           q == [p EXCEPT !.failed = failed]
<1>1. OK(ses[c]) /\ ses[c].phase = "reply"
  BY OfClient DEF Reply
<1>2. ses[c] \in SessionRecord /\ ses[c].copy = None
  BY <1>1, Busy
<1>3. Own(c, ReadyForQuery(p)) \/ Own(c, Between(q)) \/ Own(c, Drop(r))
  BY DEF Reply
<1>4. post[c] = "none"
  BY <1>1, NothingToCount
<1>5. r \in SessionRecord /\ r.copy = None
  <2>1. r \in SessionRecord
    BY <1>2, ErrorTyped
  <2>2. r.copy = ses[c].copy
    BY <1>2 DEF SessionRecord, Misreported
  <2> QED
    BY <1>2, <2>1, <2>2
<1> HIDE DEF r
<1>6. e \in SessionRecord /\ e.copy = None
  <2>1. Error(r) \in SessionRecord /\ Error(r).copy = None
    BY <1>5, ErrorTyped, ErrorEffect DEF SameCopy
  <2>2. Canceled(r) \in SessionRecord /\ Canceled(r).copy = None
    BY <1>5, ErrorTyped, CanceledEffect DEF SameCopy
  <2>3. e \in {r, Error(r), Canceled(r)}
    OBVIOUS
  <2> QED
    BY <1>5, <2>1, <2>2, <2>3
<1> HIDE DEF e
<1>7. p \in SessionRecord /\ p.copy = None
  BY <1>6, StopTyped, StopEffect DEF SameCopy
<1> HIDE DEF p
<1>8. failed \in BOOLEAN
  OBVIOUS
<1> HIDE DEF failed
<1>9. q \in SessionRecord /\ q.copy = None
  <2>1. q \in SessionRecord
    BY <1>7, <1>8, FieldTyped
  <2>2. q.copy = p.copy
    BY <1>7 DEF SessionRecord
  <2> QED
    BY <1>7, <2>1, <2>2
<1> HIDE DEF q
<1>10. Unguarded(ReadyForQuery(p))
  BY <1>7, ReadyEffect, SessionAssumption DEF Unguarded, SameCopy
<1>11. Unguarded(Between(q))
  BY <1>9, BetweenEffect, SessionAssumption DEF Unguarded, SameCopy
<1>12. Unguarded(Drop(r))
  BY <1>5, DropUnguarded
<1> QED
  BY <1>3, <1>4, <1>10, <1>11, <1>12, OwnGuarded

(* COPY is admitted like a statement and keeps its guard until it is joined               *)
(* (begin_copy_in, finish_copy_in, cancel_copy_in).                          *)
LEMMA CopyGuarded ==
  ASSUME SessionsInv, GuardedInv, NEW c \in Client, Copy(c)
  PROVE  GuardedInv'
<1>1. ses[c] \in SessionRecord /\ Copying(ses[c])
  BY OfClient DEF OK, SessionOK
<1>2. CASE finish_copy_in(c) /\ ses[c].copy = "draining"
  <2>1. PICK q : q = [stop_statement_timer(ses[c]) EXCEPT !.copy = None]
    OBVIOUS
  <2>2. PICK p : p = stop_statement_timer(ses[c])
    OBVIOUS
  <2>3. p \in SessionRecord
    BY <1>1, <2>2, StopTyped
  <2>4. q \in SessionRecord
    BY <2>1, <2>2, <2>3, FieldTyped DEF Copies
  <2>5. q.copy = None
    BY <2>1, <2>2, <2>3 DEF SessionRecord
  <2>6. Unguarded(ReadyForQuery(q))
    BY <2>4, <2>5, ReadyEffect, SessionAssumption DEF Unguarded, SameCopy
  <2> QED
    BY <1>2, <2>1, <2>6, NothingToCount, OwnGuarded DEF finish_copy_in
<1>3. CASE finish_copy_in(c) /\ ses[c].copy # "draining"
  <2>1. ses[c].copy = "running" /\ ses[c].phase = "idle"
    BY <1>1, <1>3, FieldOf DEF finish_copy_in, Copies
  <2>2. PICK s : Own(c, s)
    BY <1>3 DEF finish_copy_in
  <2> QED
    BY <2>1, <2>2, NothingToCount, OwnGuarded DEF GuardedInv, Guarded
<1>4. CASE begin_copy_in(c) \/ handle_copy_data(c) \/ cancel_copy_in(c)
  <2>1. ses[c].phase \in {"copy_begin", "copy_cancel"} \/ (ses[c].phase = "idle" /\ ses[c].copy = "running")
    BY <1>4 DEF begin_copy_in, handle_copy_data, cancel_copy_in
  <2>2. guard[c] = "held"
    BY <1>1, <2>1 DEF Copying, GuardedInv, Guarded
  <2>3. PICK s : Own(c, s)
    BY <1>4 DEF begin_copy_in, handle_copy_data, cancel_copy_in
  <2> QED
    BY <2>1, <2>2, <2>3, NothingToCount, OwnGuarded
<1>5. CASE join_copy_in(c)
  <2>1. guard[c] = "held" /\ post[c] = "none"
    BY <1>1, <1>5 DEF join_copy_in, Copying, GuardedInv, Guarded
  <2>2. PICK s : Own(c, s)
    BY <1>5 DEF join_copy_in
  <2> QED
    BY <2>1, <2>2, OwnGuarded
<1> QED
  BY <1>2, <1>3, <1>4, <1>5 DEF Copy

(* A COPY worker counts its commit before the COPY is joined (drive_copy_in).      *)
LEMMA DriveGuarded ==
  ASSUME SessionsInv, GuardedInv, CounterTypes, NEW c \in Client, drive_copy_in(c)
  PROVE  GuardedInv'
<1> DEFINE r == ses[c]
<1>1. r \in SessionRecord /\ Copying(r) /\ r.work.at = "run"
  BY OfClient DEF OK, SessionOK, drive_copy_in
<1>2. \A at, t : WorkerReturns(c, at, t) <=> ses' = [ses EXCEPT ![c] = Returned(r, at, t)]
  BY DEF WorkerReturns, Returned
<1>3. PICK s : /\ ses' = [ses EXCEPT ![c] = s]
               /\ (\E at, t : s = Returned(r, at, t)) \/ s = [r EXCEPT !.work.data = FALSE]
  BY <1>2 DEF drive_copy_in
<1>4. UNCHANGED guard
  BY DEF drive_copy_in, shutdown_vars
<1>5. post' = post \/ (r.work.end = "done" /\ post' = [post EXCEPT ![c] = "dead"])
  BY DEF drive_copy_in, Counting, counter_vars
<1>6. ses'[c] = s /\ \A d \in Client : d # c => ses'[d] = ses[d] /\ post'[d] = post[d]
  BY <1>3, <1>5 DEF SessionsInv, CounterTypes
<1> HIDE DEF r
<1>7. SamePlace(r, s)
  <2>1. SamePlace(r, [r EXCEPT !.work.data = FALSE])
    BY <1>1 DEF SessionRecord, SamePlace
  <2>2. ASSUME NEW at, NEW t PROVE SamePlace(r, Returned(r, at, t))
    BY <1>1 DEF SessionRecord, Outlived, Returned, SamePlace
  <2> QED
    BY <1>3, <2>1, <2>2
<1>8. r.work.end = "done" => r.phase = "copy_join"
  BY <1>1 DEF Copying
<1> QED
  BY <1>4, <1>5, <1>6, <1>7, <1>8 DEF r, GuardedInv, Guarded, SamePlace

(* begin_query admits before a statement runs; the guard goes when its task is joined or  *)
(* its reply is written (InFlightQueryGuard).                                *)
LEMMA AdmissionGuarded ==
  ASSUME SessionsInv, GuardedInv, DoorTypes, NEW c \in Client, GuardStep(c) \/ Refused(c)
  PROVE  GuardedInv'
<1>1. ses[c] \in SessionRecord /\ Copying(ses[c])
  BY OfClient DEF OK, SessionOK
<1>2. post' = post
  BY DEF GuardStep, Refused, counter_vars
<1>3. CASE GuardStep(c)
  <2>1. guard[c] # "held" \/ Unguarded(ses[c])
    BY <1>1, <1>3 DEF GuardStep, BeginLoad, BeginAdd, BeginRecheck, BeginRefused, GuardNotify,
       Unguarded, Copying
  <2>2. Unguarded(ses[c])
    BY <2>1 DEF GuardedInv, Guarded, Unguarded
  <2>3. \A d \in Client : d # c => guard'[d] = guard[d]
    BY <1>3 DEF GuardStep, BeginLoad, BeginAdd, BeginRecheck, BeginRefused, GuardDrop, GuardNotify,
       DoorTypes
  <2>4. ses' = ses
    BY <1>3 DEF GuardStep
  <2> QED
    BY <1>2, <2>2, <2>3, <2>4 DEF GuardedInv, Guarded, Unguarded
<1>4. CASE Refused(c)
  <2>1. PICK s : /\ ses' = [ses EXCEPT ![c] = s]
                 /\ s = Drop(ses[c]) \/ s = Between(RefusedExecute(ses[c]))
    BY <1>4 DEF Refused
  <2>2. ses[c].phase = "begin" /\ guard' = [guard EXCEPT ![c] = "none"]
    BY <1>4 DEF Refused
  <2>3. Unguarded(s)
    <3>1. PICK q : q = RefusedExecute(ses[c])
      OBVIOUS
    <3>2. q.copy = ses[c].copy /\ ses[c].copy # "running"
      BY <1>1, <2>2, <3>1, FailPlace DEF SamePlace, Copying
    <3>3. q \in SessionRecord
      <4>1. [stop_statement_timer(ses[c]) EXCEPT !.failed = TRUE] \in SessionRecord
        BY <1>1, StopTyped, FieldTyped
      <4> QED
        BY <3>1, <4>1, ErrorTyped DEF RefusedExecute
    <3>4. Unguarded(Between(q))
      BY <3>2, <3>3, BetweenEffect DEF Unguarded, SameCopy
    <3> QED
      BY <1>1, <2>1, <3>1, <3>4, DropUnguarded
  <2>4. post[c] = "none"
    BY <2>2, NothingToCount
  <2>5. ses'[c] = s /\ \A d \in Client : d # c => ses'[d] = ses[d] /\ guard'[d] = guard[d]
    BY <2>1, <2>2 DEF SessionsInv, DoorTypes
  <2> QED
    BY <1>2, <2>3, <2>4, <2>5 DEF GuardedInv, Guarded, Unguarded
<1> QED
  BY <1>3, <1>4

(* What is counted after a commit is counted under its guard (add_dead_versions,            *)
(* add_changed_rows, record_commit_and_maybe_checkpoint).                    *)
LEMMA GuardedStep ==
  ASSUME LifecycleTypeOK, SessionsInv, SessionsInv', GuardedInv, [Next]_svars
  PROVE  GuardedInv'
<1>1. CASE UNCHANGED <<guard, post, ses>>
  BY <1>1 DEF GuardedInv, Guarded
<1>2. ASSUME NEW c \in Client, Count(c), UNCHANGED ses PROVE GuardedInv'
  <2>1. guard' = guard /\ post[c] # "none"
    BY <1>2 DEF Count, add_dead_versions, add_changed_rows, request_vacuum, request_analyze,
       record_commit, maybe_checkpoint, request, shutdown_vars
  <2>2. \A d \in Client : d # c => post'[d] = post[d]
    BY <1>2 DEF Count, add_dead_versions, add_changed_rows, request_vacuum, request_analyze,
       record_commit, maybe_checkpoint, request, LifecycleTypeOK, CounterTypes
  <2> QED
    BY <1>2, <2>1, <2>2 DEF GuardedInv, Guarded
<1>3. CASE Background
  BY <1>1, <1>3 DEF Background, Pass, CkptWorker, MaintWorker, Shutdown, pass_rest, shutdown_vars,
     counter_vars
<1>4. CASE UNCHANGED svars
  BY <1>1, <1>4 DEF svars, lvars
<1>5. CASE Next
  BY <1>2, <1>3, <1>5, MessageGuarded, CancelGuarded, StatementGuarded, ReplyGuarded, CopyGuarded,
     DriveGuarded, AdmissionGuarded DEF Next, LifecycleTypeOK
<1> QED
  BY <1>4, <1>5

(* While shutdown takes its final checkpoint no admitted query runs, no commit is still    *)
(* being counted and both workers have ended, for any number of connections                *)
(* (begin_query against stop_accepting and wait_for_idle, the two joins).     *)
THEOREM FinishesQuietly == Spec => []QuietFinish
<1>1. Init => GuardedInv /\ WorkersEnded
  BY SessionAssumption DEF Init, LifecycleInit, NewSession, GuardedInv, Guarded, WorkersEnded
<1>2. LifecycleTypeOK /\ SessionsInv /\ SessionsInv' /\ GuardedInv /\ WorkersEnded /\ [Next]_svars
        => GuardedInv' /\ WorkersEnded'
  BY StepKinds, GuardedStep, WorkersEndedStep DEF LifecycleTypeOK
<1>3. SessionsInv /\ GuardedInv /\ WorkersEnded /\ DoorInv => QuietFinish
  <2> SUFFICES ASSUME SessionsInv, GuardedInv, WorkersEnded, DoorInv, down \in {"final", "done"}
               PROVE  /\ \A c \in Client : guard[c] # "held" /\ post[c] = "none"
                      /\ ckpt.pc = "exited" /\ maint.pc = "exited"
    BY DEF QuietFinish
  <2>1. \A c \in Client : guard[c] # "held"
    BY DEF DoorInv, DoorShut, Drained
  <2>2. \A c \in Client : ses[c].phase \notin {"join", "copy_begin"} /\ ses[c].copy # "running"
    BY <2>1 DEF GuardedInv, Guarded
  <2>3. \A c \in Client : ses[c].phase # "copy_join"
    BY <2>2 DEF SessionsInv, SessionOK, Copying
  <2>4. \A c \in Client : post[c] = "none"
    BY <2>2, <2>3, NothingToCount
  <2> QED
    BY <2>1, <2>4 DEF WorkersEnded
<1> QED
  BY <1>1, <1>2, <1>3, LifecycleTyped, SessionsKept, DoorKept, PTL DEF Spec

=============================================================================
