----------------------------- MODULE Lifecycle -----------------------------
(* What goes on around the statements of a running server: the admission and  *)
(* draining of queries (shutdown.rs), the background checkpoint with its       *)
(* triggers (checkpoint.rs), automatic VACUUM and ANALYZE with theirs          *)
(* (maintenance.rs, app.rs) and graceful shutdown, which ends them in order.   *)
(* One action is one atomic access or one critical section of a coordinator's  *)
(* mutex; the atomics are taken as sequentially consistent.                    *)
EXTENDS Naturals, FiniteSets

CONSTANTS
  Client,        \* connections, each with at most one statement in flight
  None,          \* no value
  Scales         \* instances: clients, statements, configuration, and bounds on
                 \* the counters (max_commits, max_dead, max_changed)

ASSUME LifecycleAssumption ==
  /\ IsFiniteSet(Client)
  /\ \A s \in Scales :
       /\ s.every_n > 0 /\ s.wal_bytes > 0 /\ s.clients \subseteq Client
       /\ s.clog_full \subseteq BOOLEAN /\ s.busy \subseteq BOOLEAN
  /\ None \notin {"load", "clog", "body", "marker", "subtract", "ok", "failed",
                  "vacuum", "analyze"}

VARIABLES
  scale,         \* the instance, chosen initially
  accepting, in_flight,   \* ShutdownState
  permit,        \* the Notify of ShutdownState holds a permit
  guard,         \* per client: where begin_query and the guard's drop stand
  down,          \* the shutdown thread
  commits, dead, changed, \* counters that trigger background work
  bytes, tail,   \* log since the last checkpoint's marker, since the running one's
  post,          \* per client: what it still has to count after its commit
  ckpt,          \* CheckpointCoordinator and its worker
  pass,          \* the checkpoint pass that holds run_lock
  maint,         \* MaintenanceCoordinator and its worker
  since          \* history: what happened since the last pass began that succeeded

lvars == <<scale, accepting, in_flight, permit, guard, down, commits, dead, changed,
           bytes, tail, post, ckpt, pass, maint, since>>

Least(a, b) == IF a < b THEN a ELSE b
Less(a, b) == IF b < a THEN a - b ELSE 0

Jobs == {"vacuum", "analyze"}
Kept == {"ckpt", "vacuum", "analyze"}

LifecycleInit ==
  /\ scale \in Scales
  /\ accepting = TRUE /\ in_flight = 0 /\ permit = FALSE
  /\ guard = [c \in Client |-> "none"]
  /\ down = "serving"
  /\ commits = 0 /\ dead = 0 /\ changed = 0 /\ bytes = 0 /\ tail = 0
  /\ post = [c \in Client |-> "none"]
  /\ ckpt = [pc |-> "wait", stop |-> FALSE, pending |-> FALSE, skipped |-> FALSE]
  /\ pass = [who |-> None, at |-> None, represented |-> 0]
  /\ maint = [pc |-> "wait", stop |-> FALSE, vacuum |-> FALSE, analyze |-> FALSE,
              last |-> FALSE, job |-> None, represented |-> 0]
  /\ since = [k \in Kept |-> [total |-> 0, running |-> 0]]

-----------------------------------------------------------------------------
(* Admission and draining                                                   *)

shutdown_vars == <<accepting, in_flight, permit, guard>>
counter_vars == <<commits, dead, changed, bytes, tail, post, since>>
worker_vars == <<ckpt, pass, maint>>

BeginLoad(c) ==
  /\ guard[c] = "none" /\ accepting
  /\ guard' = [guard EXCEPT ![c] = "loaded"]
  /\ UNCHANGED <<accepting, in_flight, permit>>

BeginAdd(c) ==
  /\ guard[c] = "loaded"
  /\ in_flight' = in_flight + 1
  /\ guard' = [guard EXCEPT ![c] = "added"]
  /\ UNCHANGED <<accepting, permit>>

BeginRecheck_Trusting(c) ==
  /\ guard[c] = "added"
  /\ guard' = [guard EXCEPT ![c] = "held"]
  /\ UNCHANGED <<in_flight, accepting, permit>>

BeginRecheck_Silent(c) ==
  /\ guard[c] = "added"
  /\ IF accepting
     THEN guard' = [guard EXCEPT ![c] = "held"] /\ UNCHANGED in_flight
     ELSE in_flight' = in_flight - 1 /\ guard' = [guard EXCEPT ![c] = "refused"]
  /\ UNCHANGED <<accepting, permit>>

(* The second look at accepting: a query counted after shutdown began backs  *)
(* out, and is the one to report idleness if it was the last.               *)
BeginRecheck(c) ==
  /\ guard[c] = "added"
  /\ IF accepting
     THEN guard' = [guard EXCEPT ![c] = "held"] /\ UNCHANGED in_flight
     ELSE /\ in_flight' = in_flight - 1
          /\ guard' = [guard EXCEPT ![c] = IF in_flight = 1 THEN "notify_refused" ELSE "refused"]
  /\ UNCHANGED <<accepting, permit>>

BeginRefused(c) ==
  /\ guard[c] = "none" /\ ~accepting
  /\ guard' = [guard EXCEPT ![c] = "refused"]
  /\ UNCHANGED <<accepting, in_flight, permit>>

(* Drop of an InFlightQueryGuard: subtract, then notify if it was the last.  *)
GuardDrop(c) ==
  /\ guard[c] = "held"
  /\ in_flight' = in_flight - 1
  /\ guard' = [guard EXCEPT ![c] = IF in_flight = 1 THEN "notify" ELSE "none"]
  /\ UNCHANGED <<accepting, permit>>

GuardNotify(c) ==
  /\ guard[c] \in {"notify", "notify_refused"}
  /\ permit' = TRUE
  /\ guard' = [guard EXCEPT ![c] = IF guard[c] = "notify" THEN "none" ELSE "refused"]
  /\ UNCHANGED <<accepting, in_flight>>

-----------------------------------------------------------------------------
(* After a durable commit: add_dead_versions, add_changed_rows and            *)
(* record_commit_and_maybe_checkpoint, each an atomic addition followed, over  *)
(* its threshold, by a request under the coordinator's mutex.                 *)

counted(k, s) == [s EXCEPT ![k].total = @ + 1, ![k].running = @ + 1]

Logged == bytes' = Least(bytes + 1, scale.wal_bytes) /\ tail' = Least(tail + 1, scale.wal_bytes)

add_dead_versions(c) ==
  /\ post[c] = "dead"
  /\ \E count \in {0, 1} :
       /\ dead + count <= scale.max_dead
       /\ IF count = 0
          THEN post' = [post EXCEPT ![c] = "changed"] /\ UNCHANGED <<dead, since>>
          ELSE /\ dead' = dead + 1
               /\ since' = counted("vacuum", since)
               /\ post' = [post EXCEPT ![c] =
                    IF scale.dead_rows # 0 /\ dead + 1 >= scale.dead_rows THEN "request_vacuum"
                                                                        ELSE "changed"]
  /\ UNCHANGED <<commits, changed, bytes, tail, maint, ckpt>>

add_changed_rows(c) ==
  /\ post[c] = "changed"
  /\ \E count \in {0, 1} :
       /\ changed + count <= scale.max_changed
       /\ IF count = 0
          THEN post' = [post EXCEPT ![c] = "count"] /\ UNCHANGED <<changed, since>>
          ELSE /\ changed' = changed + 1
               /\ since' = counted("analyze", since)
               /\ post' = [post EXCEPT ![c] =
                    IF scale.changed_rows # 0 /\ changed + 1 >= scale.changed_rows
                    THEN "request_analyze" ELSE "count"]
  /\ UNCHANGED <<commits, dead, bytes, tail, maint, ckpt>>

request_vacuum(c) ==
  /\ post[c] = "request_vacuum"
  /\ maint' = [maint EXCEPT !.vacuum = TRUE]
  /\ post' = [post EXCEPT ![c] = "changed"]
  /\ UNCHANGED <<commits, dead, changed, bytes, tail, since, ckpt>>

request_analyze(c) ==
  /\ post[c] = "request_analyze"
  /\ maint' = [maint EXCEPT !.analyze = TRUE]
  /\ post' = [post EXCEPT ![c] = "count"]
  /\ UNCHANGED <<commits, dead, changed, bytes, tail, since, ckpt>>

record_commit(c) ==
  /\ post[c] = "count"
  /\ commits' = commits + 1
  /\ since' = counted("ckpt", since)
  /\ post' = [post EXCEPT ![c] = IF commits + 1 >= scale.every_n THEN "request" ELSE "bytes"]
  /\ UNCHANGED <<dead, changed, bytes, tail, maint, ckpt>>

maybe_checkpoint(c) ==
  /\ post[c] = "bytes"
  /\ post' = [post EXCEPT ![c] = IF bytes >= scale.wal_bytes THEN "request" ELSE "none"]
  /\ UNCHANGED <<commits, dead, changed, bytes, tail, since, maint, ckpt>>

(* request: a new generation is asked for only when none is outstanding, so   *)
(* the requested and the completed generation differ by at most one:          *)
(* `pending` says whether they differ.                                        *)
request(c) ==
  /\ post[c] = "request"
  /\ ckpt' = [ckpt EXCEPT !.pending = TRUE]
  /\ post' = [post EXCEPT ![c] = "none"]
  /\ UNCHANGED <<commits, dead, changed, bytes, tail, since, maint>>

Count(c) ==
  /\ \/ add_dead_versions(c) \/ add_changed_rows(c) \/ request_vacuum(c)
     \/ request_analyze(c) \/ record_commit(c) \/ maybe_checkpoint(c) \/ request(c)
  /\ UNCHANGED <<scale, down, pass>> /\ UNCHANGED shutdown_vars

-----------------------------------------------------------------------------
(* run_checkpoint, as far as triggers and coordinators see it                *)

pass_rest == <<scale, down, dead, changed, post>>

PassLoad ==
  /\ pass.at = "load"
  /\ pass' = [pass EXCEPT !.at = "clog", !.represented = commits]
  /\ since' = [since EXCEPT !["ckpt"].running = 0]
  /\ UNCHANGED <<commits, bytes, tail, ckpt, maint>>

(* needs_clog_maintenance depends on how full the commit log is.             *)
PassClog ==
  /\ pass.at = "clog"
  /\ \E full \in scale.clog_full : maint' = [maint EXCEPT !.vacuum = @ \/ full]
  /\ pass' = [pass EXCEPT !.at = "body"]
  /\ UNCHANGED <<commits, bytes, tail, since, ckpt>>

PassMarker ==
  /\ pass.at = "body"
  /\ tail' = 0
  /\ pass' = [pass EXCEPT !.at = "marker"]
  /\ UNCHANGED <<commits, bytes, since, ckpt, maint>>

PassFail ==
  /\ pass.at \in {"clog", "body", "marker"}
  /\ pass' = [pass EXCEPT !.at = "failed"]
  /\ UNCHANGED <<commits, bytes, tail, since, ckpt, maint>>

PassTrigger ==
  /\ pass.at = "marker"
  /\ bytes' = tail
  /\ pass' = [pass EXCEPT !.at = "subtract"]
  /\ UNCHANGED <<commits, tail, since, ckpt, maint>>

PassSubtract_Reset ==
  /\ pass.at = "subtract"
  /\ commits' = 0
  /\ since' = [since EXCEPT !["ckpt"].total = since["ckpt"].running]
  /\ \E busy \in scale.busy : ckpt' = [ckpt EXCEPT !.skipped = busy]
  /\ pass' = [pass EXCEPT !.at = "ok"]
  /\ UNCHANGED <<bytes, tail, maint>>

PassSubtract ==
  /\ pass.at = "subtract"
  /\ commits' = Less(commits, pass.represented)
  /\ since' = [since EXCEPT !["ckpt"].total = since["ckpt"].running]
  /\ \E busy \in scale.busy : ckpt' = [ckpt EXCEPT !.skipped = busy]
  /\ pass' = [pass EXCEPT !.at = "ok"]
  /\ UNCHANGED <<bytes, tail, maint>>

Pass ==
  /\ PassLoad \/ PassClog \/ PassMarker \/ PassFail \/ PassTrigger \/ PassSubtract
  /\ UNCHANGED pass_rest /\ UNCHANGED shutdown_vars

Idle == [who |-> None, at |-> None, represented |-> 0]
Start(who) == [who |-> who, at |-> "load", represented |-> 0]

-----------------------------------------------------------------------------
(* checkpoint_worker                                                         *)

CkptTake ==
  /\ ckpt.pc = "wait" /\ ~ckpt.stop /\ ckpt.pending
  /\ pass = Idle
  /\ ckpt' = [ckpt EXCEPT !.pc = "run"]
  /\ pass' = Start("worker")

checkpoint_followup_required ==
  commits >= scale.every_n \/ bytes >= scale.wal_bytes \/ ckpt.skipped

(* As if a completed pass settled every request made while it ran.          *)
CkptSucceeds_Forgets ==
  /\ ckpt.pc = "run" /\ pass.at = "ok"
  /\ ckpt' = [ckpt EXCEPT !.pc = IF ckpt.skipped THEN "backoff" ELSE "wait",
                          !.pending = ckpt.skipped]
  /\ pass' = Idle

CkptSucceeds ==
  /\ ckpt.pc = "run" /\ pass.at = "ok"
  /\ ckpt' = [ckpt EXCEPT !.pc = IF ckpt.skipped THEN "backoff" ELSE "wait",
                          !.pending = checkpoint_followup_required]
  /\ pass' = Idle

CkptErrs ==
  /\ ckpt.pc = "run" /\ pass.at = "failed"
  /\ ckpt' = [ckpt EXCEPT !.pc = "retry"]
  /\ pass' = Idle

CkptRetry ==
  /\ ckpt.pc = "retry"
  /\ ckpt' = [ckpt EXCEPT !.pc = "wait"]
  /\ UNCHANGED pass

wait_for_busy_retry ==
  /\ ckpt.pc = "backoff"
  /\ ckpt' = [ckpt EXCEPT !.pc = IF ckpt.stop THEN "exited" ELSE "wait"]
  /\ UNCHANGED pass

CkptExit ==
  /\ ckpt.pc = "wait" /\ ckpt.stop
  /\ ckpt' = [ckpt EXCEPT !.pc = "exited"]
  /\ UNCHANGED pass

CkptWorker ==
  /\ CkptTake \/ CkptSucceeds \/ CkptErrs \/ CkptRetry \/ wait_for_busy_retry \/ CkptExit
  /\ UNCHANGED <<scale, down, maint>> /\ UNCHANGED counter_vars /\ UNCHANGED shutdown_vars

-----------------------------------------------------------------------------
(* maintenance_worker                                                        *)

choose_maintenance_job ==
  IF maint.vacuum /\ (~maint.analyze \/ ~maint.last) THEN "vacuum" ELSE "analyze"

MaintTake ==
  /\ maint.pc = "wait" /\ ~maint.stop /\ (maint.vacuum \/ maint.analyze)
  /\ maint' = [maint EXCEPT !.pc = "load", !.job = choose_maintenance_job,
                            !.last = choose_maintenance_job = "vacuum"]
  /\ UNCHANGED <<commits, dead, changed, bytes, tail, since>>

MaintLoad ==
  /\ maint.pc = "load"
  /\ maint' = [maint EXCEPT !.pc = "work",
                            !.represented = IF maint.job = "vacuum" THEN dead ELSE changed]
  /\ since' = [since EXCEPT ![maint.job].running = 0]
  /\ UNCHANGED <<commits, dead, changed, bytes, tail>>

(* The pass commits, and what it represents is subtracted.                  *)
MaintWork ==
  /\ maint.pc = "work"
  /\ IF maint.job = "vacuum"
     THEN dead' = Less(dead, maint.represented) /\ UNCHANGED changed
     ELSE changed' = Less(changed, maint.represented) /\ UNCHANGED dead
  /\ since' = [since EXCEPT ![maint.job].total = since[maint.job].running]
  /\ maint' = [maint EXCEPT !.pc = "ok"]
  /\ Logged
  /\ UNCHANGED commits

MaintFail ==
  /\ maint.pc = "work"
  /\ maint' = [maint EXCEPT !.pc = "err"]
  /\ UNCHANGED <<commits, dead, changed, bytes, tail, since>>

(* As if the turn passed to the other job only after a success.             *)
MaintSettle_TurnOnSuccess ==
  /\ maint.pc \in {"ok", "err"}
  /\ maint' =
       IF maint.stop
       THEN [maint EXCEPT !.pc = "exited", !.job = None, !.represented = 0]
       ELSE IF maint.pc = "err"
       THEN [maint EXCEPT !.pc = "retry", !.job = None, !.represented = 0, !.last = FALSE]
       ELSE IF maint.job = "vacuum"
       THEN [maint EXCEPT !.pc = "wait", !.job = None, !.represented = 0,
               !.vacuum = scale.dead_rows # 0 /\ dead >= scale.dead_rows]
       ELSE [maint EXCEPT !.pc = "wait", !.job = None, !.represented = 0,
               !.analyze = scale.changed_rows # 0 /\ changed >= scale.changed_rows]
  /\ UNCHANGED <<commits, dead, changed, bytes, tail, since>>

(* The worker's second critical section: stop wins, success recomputes the    *)
(* request of its job from what remains, failure leaves both and waits.      *)
MaintSettle ==
  /\ maint.pc \in {"ok", "err"}
  /\ maint' =
       IF maint.stop
       THEN [maint EXCEPT !.pc = "exited", !.job = None, !.represented = 0]
       ELSE IF maint.pc = "err"
       THEN [maint EXCEPT !.pc = "retry", !.job = None, !.represented = 0]
       ELSE IF maint.job = "vacuum"
       THEN [maint EXCEPT !.pc = "wait", !.job = None, !.represented = 0,
               !.vacuum = scale.dead_rows # 0 /\ dead >= scale.dead_rows]
       ELSE [maint EXCEPT !.pc = "wait", !.job = None, !.represented = 0,
               !.analyze = scale.changed_rows # 0 /\ changed >= scale.changed_rows]
  /\ UNCHANGED <<commits, dead, changed, bytes, tail, since>>

MaintRetry ==
  /\ maint.pc = "retry"
  /\ maint' = [maint EXCEPT !.pc = "wait"]
  /\ UNCHANGED <<commits, dead, changed, bytes, tail, since>>

MaintExit ==
  /\ maint.pc = "wait" /\ maint.stop
  /\ maint' = [maint EXCEPT !.pc = "exited"]
  /\ UNCHANGED <<commits, dead, changed, bytes, tail, since>>

MaintWorker ==
  /\ MaintTake \/ MaintLoad \/ MaintWork \/ MaintFail \/ MaintSettle \/ MaintRetry \/ MaintExit
  /\ UNCHANGED <<scale, down, post, ckpt, pass>> /\ UNCHANGED shutdown_vars

-----------------------------------------------------------------------------
(* run_graceful_shutdown                                                     *)

StopAccepting ==
  /\ down = "serving"
  /\ accepting' = FALSE
  /\ down' = "stopped"
  /\ UNCHANGED <<permit, ckpt, pass, maint>>

StopNotify ==
  /\ down = "stopped"
  /\ permit' = (permit \/ in_flight = 0)
  /\ down' = "look"
  /\ UNCHANGED <<accepting, ckpt, pass, maint>>

WaitForIdle ==
  /\ down = "look"
  /\ down' = IF in_flight = 0 THEN "stop_maintenance" ELSE "parked"
  /\ UNCHANGED <<accepting, permit, ckpt, pass, maint>>

WokenIdle ==
  /\ down = "parked" /\ permit
  /\ permit' = FALSE
  /\ down' = "look"
  /\ UNCHANGED <<accepting, ckpt, pass, maint>>

(* The timeout, if no permit is there to be looked at first: no checkpoint, no *)
(* flush.                                                                    *)
WaitTimedOut ==
  /\ down = "parked" /\ ~permit
  /\ down' = "timed_out"
  /\ UNCHANGED <<accepting, permit, ckpt, pass, maint>>

StopMaintenance ==
  /\ down = "stop_maintenance"
  /\ maint' = [maint EXCEPT !.stop = TRUE]
  /\ down' = "join_maintenance"
  /\ UNCHANGED <<accepting, permit, ckpt, pass>>

StopCheckpoint ==
  /\ down = "join_maintenance" /\ maint.pc = "exited"
  /\ ckpt' = [ckpt EXCEPT !.stop = TRUE]
  /\ down' = "join_checkpoint"
  /\ UNCHANGED <<accepting, permit, pass, maint>>

FinalCheckpoint ==
  /\ down = "join_checkpoint" /\ ckpt.pc = "exited"
  /\ pass = Idle
  /\ pass' = Start("shutdown")
  /\ down' = "final"
  /\ UNCHANGED <<accepting, permit, ckpt, maint>>

FinalFlush ==
  /\ down = "final" /\ pass.at \in {"ok", "failed"}
  /\ pass' = Idle
  /\ down' = "done"
  /\ UNCHANGED <<accepting, permit, ckpt, maint>>

Shutdown ==
  /\ \/ StopAccepting \/ StopNotify \/ WaitForIdle \/ WokenIdle \/ WaitTimedOut
     \/ StopMaintenance \/ StopCheckpoint \/ FinalCheckpoint \/ FinalFlush
  /\ UNCHANGED <<scale, in_flight, guard>> /\ UNCHANGED counter_vars

Ended == down \in {"timed_out", "done"}

-----------------------------------------------------------------------------
(* Properties                                                               *)

(* While shutdown takes its final checkpoint, no admitted query runs and both *)
(* workers have ended: a query that slipped past the closing of the door would *)
(* write under the checkpoint that claims to hold everything (begin_query      *)
(* against stop_accepting and wait_for_idle).                                 *)
QuietFinish ==
  down \in {"final", "done"} =>
    /\ \A c \in Client : guard[c] # "held" /\ post[c] = "none"
    /\ ckpt.pc = "exited" /\ maint.pc = "exited"

(* Shutdown never sleeps through the end of the last query: when it is parked  *)
(* and nothing is in flight, a permit is there or somebody is about to leave   *)
(* one (wait_for_idle's look and notified() against the three notify_one).     *)
IdleNotMissed ==
  (down = "parked" /\ in_flight = 0) =>
    permit \/ \E c \in Client : guard[c] \in {"notify", "notify_refused"}

(* Each counter holds exactly what happened since the last successful pass    *)
(* began: nothing that arrived while a pass ran is subtracted with what the    *)
(* pass represents (the load at a pass's start, the fetch_update at its end).  *)
CountersExact ==
  /\ commits = since["ckpt"].total
  /\ dead = since["vacuum"].total
  /\ changed = since["analyze"].total

(* Once commits reach checkpoint_every_n_commits a checkpoint still to come     *)
(* succeeds, unless the server stops; also when the request joined a pass       *)
(* that had already loaded the counter (request, and the follow-up in           *)
(* checkpoint_worker).                                                       *)
DueCheckpointRuns == (commits >= scale.every_n) ~> (pass.at = "ok" \/ ~accepting)

(* A requested ANALYZE gets its turn although VACUUM is requested again and    *)
(* again or fails every time (choose_maintenance_job and last_job_was_vacuum). *)
AnalyzeGetsTurn == maint.analyze ~> (maint.job = "analyze" \/ ~accepting)
=============================================================================
