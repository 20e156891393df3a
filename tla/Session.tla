------------------------------ MODULE Session ------------------------------
(* The connections of the server: the protocol loop of each session with its   *)
(* transaction slot, statement timer and cancellation token, its cursors and   *)
(* suspended portals and COPY FROM with its worker, composed with what goes on *)
(* around the statements (Lifecycle).  A message is taken in one step up to    *)
(* the query's admission; then the statement's task runs, is joined, and the   *)
(* reply is written, with cancellation, timeouts, shutdown and the background  *)
(* workers in between.  What a statement computes is left out: every outcome   *)
(* the code can give it is a choice.                                          *)
EXTENDS Lifecycle

VARIABLE ses    \* per client: the Session of its connection
svars == <<lvars, ses>>

(* Statements of the simple and of the extended protocol; savepoint commands,  *)
(* SQL cursors and COPY are refused by Parse.  COPY TO is a read whose rows     *)
(* are written as CopyData.                                                  *)
Control == {"begin", "commit", "rollback", "rollbackto"}
Cursors == {"declare", "fetch", "close"}
Data == {"read", "write"}
SimpleKinds == Control \cup Cursors \cup Data \cup {"reset", "copyin"}
PreparedKinds == (Control \ {"rollbackto"}) \cup Data \cup {"reset"}

ASSUME SessionAssumption ==
  /\ \A s \in Scales : s.simple \subseteq SimpleKinds /\ s.prepared \subseteq PreparedKinds
  /\ None \notin SimpleKinds \cup
       {"simple", "extended", "limited", "resume", "suspended", "suspended_autocommit",
        "err", "canceled", "Direct", "Durable", "SessionReset", "user", "timeout", "open",
        "running", "draining", "run", "ok", "aborted", "done", "fail", "closed"}

(* txn is the session's slot: "shell" is a transaction aborted as a deadlock    *)
(* victim, kept until the client ends the block.  reg, old, errs and bad are    *)
(* history: whether the transaction is in the active registry, whether the      *)
(* cursor and the suspended portal outlived the statement context they were     *)
(* opened in, the errors reported since the last ReadyForQuery, and what the   *)
(* last report got wrong.  fresh says of a pending reason that it was requested       *)
(* during the statement now active.                                           *)
NewSession ==
  [phase |-> "idle", path |-> None, stmt |-> None, out |-> None, wrote |-> FALSE,
   txn |-> "none", reg |-> FALSE, failed |-> FALSE,
   active |-> FALSE, timer |-> "Idle", reason |-> None, fresh |-> FALSE,
   notify |-> FALSE, wake |-> FALSE,
   portal |-> None, cursor |-> None, old |-> {},
   copy |-> None, work |-> [at |-> None, txn |-> "none", data |-> FALSE, end |-> None],
   errs |-> 0, bad |-> {}]

Init == LifecycleInit /\ ses = [c \in Client |-> NewSession]

-----------------------------------------------------------------------------
(* What the handlers do to a session r                                      *)

disarm(r) == [r EXCEPT !.timer = "Idle"]

(* As if a new statement kept the token as it is.                            *)
arm_new_Keeps(r, armed) == [disarm(r) EXCEPT !.timer = armed]

(* arm_new clears what was requested while idle, rearm keeps what was requested *)
(* in the same cycle.  A timeout of zero arms no timer.                       *)
arm_new(r, armed) == [disarm(r) EXCEPT !.reason = None, !.fresh = FALSE, !.timer = armed]
rearm(r, armed) == [disarm(r) EXCEPT !.timer = IF r.reason # None THEN "Expired" ELSE armed]

start_statement_timer(r, armed) ==
  [IF r.active THEN rearm(r, armed) ELSE arm_new(r, armed) EXCEPT !.active = TRUE, !.bad = {}]

stop_statement_timer(r) == [disarm(r) EXCEPT !.active = FALSE, !.fresh = FALSE]

transaction_resources_released(r) == r.txn \in {"none", "shell"}

close_autocommit_suspended_portals(r) ==
  [r EXCEPT !.portal = IF @ = "suspended_autocommit" THEN None ELSE @]

close_transaction_scoped_suspended_portals(r) ==
  [r EXCEPT !.portal = IF @ = "suspended" THEN None ELSE @, !.old = @ \ {"portal"}]

close_sql_cursors(r) == [r EXCEPT !.cursor = None, !.old = @ \ {"cursor"}]

(* As if only the statements that end a block dropped its cursors, not its     *)
(* suspended portals.                                                        *)
Cleanup_CursorsOnly(r) == IF transaction_resources_released(r) THEN close_sql_cursors(r) ELSE r

CloseScoped(r) == close_sql_cursors(close_transaction_scoped_suspended_portals(r))
Cleanup(r) == IF transaction_resources_released(r) THEN CloseScoped(r) ELSE r

mark_failed(r) == [r EXCEPT !.txn = IF @ = "open" THEN "failed" ELSE @]
mark_current_transaction_failed(r) == Cleanup(mark_failed(r))

(* The statement contexts of the cursor and the portal are gone.              *)
Outlived(r) ==
  [r EXCEPT !.old = (IF r.cursor # None THEN {"cursor"} ELSE {})
                      \cup (IF r.portal = "suspended" THEN {"portal"} ELSE {})]

(* The transaction leaves the registry, and the slot becomes t.               *)
Settle(r, t) == [Outlived(r) EXCEPT !.txn = t, !.reg = FALSE]

Error(r) == [r EXCEPT !.errs = Least(@ + 1, 2)]
Canceled(r) ==
  [Error(r) EXCEPT !.bad = @ \cup IF r.reason # None /\ ~r.fresh THEN {"stale_cancel"} ELSE {}]

Between(r) == [r EXCEPT !.phase = "idle", !.path = None, !.stmt = None, !.out = None,
                        !.wrote = FALSE]
ReadyForQuery(r) == [Between(r) EXCEPT !.errs = 0]

(* As if an open transaction were left to its fate.                          *)
Drop_NoAbort(r) ==
  [NewSession EXCEPT
     !.phase = "gone",
     !.reg = r.reg,
     !.reason = IF r.work.at = "run" THEN r.reason ELSE None,
     !.work = IF r.work.at = "run" THEN [r.work EXCEPT !.end = "closed"] ELSE r.work]

(* Drop of a Session: its key is gone, its cursors and portals with it, an open *)
(* transaction is aborted.  A COPY worker is left alone with a closed channel. *)
Drop(r) ==
  [NewSession EXCEPT
     !.phase = "gone",
     !.reg = r.reg /\ r.work.at # None,
     !.reason = IF r.work.at = "run" THEN r.reason ELSE None,
     !.work = IF r.work.at = "run" THEN [r.work EXCEPT !.end = "closed"] ELSE r.work]

(* As if the error did not open the wait for Sync.                           *)
handle_idle_statement_timeout_NoSkip(r) ==
  IF r.copy # None
  THEN IF r.copy = "draining" THEN r
       ELSE [r EXCEPT !.phase = "copy_cancel", !.work.end = "fail"]
  ELSE mark_current_transaction_failed(stop_statement_timer(Canceled(r)))

handle_idle_statement_timeout(r) ==
  IF r.copy # None
  THEN IF r.copy = "draining" THEN r
       ELSE [r EXCEPT !.phase = "copy_cancel", !.work.end = "fail"]
  ELSE mark_current_transaction_failed([stop_statement_timer(Canceled(r)) EXCEPT !.failed = TRUE])

-----------------------------------------------------------------------------
(* Messages                                                                  *)

Live(c) == c \in scale.clients /\ down # "done" /\ down # "timed_out"

(* A step of c's session alone.                                             *)
Own(c, r) == ses' = [ses EXCEPT ![c] = r] /\ UNCHANGED lvars

Canceling(r) == r.active /\ r.reason # None

(* Where a message may be taken: the loop waits, the last statement's guard is *)
(* dropped, no COPY runs.                                                    *)
Waiting(c) ==
  /\ Live(c) /\ ses[c].phase = "idle" /\ ses[c].copy = None
  /\ guard[c] = "none"

Timeouts == IF scale.cancels THEN {"Idle", "Armed"} ELSE {"Idle"}

run_query(c) ==
  /\ Waiting(c) /\ ~ses[c].failed
  /\ \E k \in scale.simple, armed \in Timeouts :
       Own(c, [close_autocommit_suspended_portals(start_statement_timer(ses[c], armed)) EXCEPT
                 !.phase = "begin", !.path = "simple", !.stmt = k])

Sync(c) ==
  /\ Waiting(c) /\ scale.prepared # {} /\ ~Canceling(ses[c])
  /\ Own(c, ReadyForQuery(close_autocommit_suspended_portals(
              [stop_statement_timer(ses[c]) EXCEPT !.failed = FALSE])))

(* Parse, Bind, Describe and Execute start or restart the timer.              *)
Extended(c) == Waiting(c) /\ ~ses[c].failed /\ scale.prepared # {} /\ ~Canceling(ses[c])
Started(c, armed) == start_statement_timer(ses[c], armed)

reply_or_fail(r) ==
  Error(mark_current_transaction_failed([stop_statement_timer(r) EXCEPT !.failed = TRUE]))

process_parse(c) ==
  /\ Extended(c)
  /\ \E armed \in Timeouts :
       \/ Own(c, Started(c, armed))
       \/ Own(c, reply_or_fail(Started(c, armed)))

process_bind(c) ==
  /\ Extended(c)
  /\ \E armed \in Timeouts :
       \/ \E k \in scale.prepared :
            Own(c, [Started(c, armed) EXCEPT !.portal = k, !.old = @ \ {"portal"}])
       \/ Own(c, reply_or_fail(Started(c, armed)))

process_close(c) ==
  /\ Extended(c)
  /\ Own(c, [ses[c] EXCEPT !.portal = None, !.old = @ \ {"portal"}])

(* An Execute that is refused before admission leaves the transaction as it is. *)
RefusedExecute(r) == Error([stop_statement_timer(r) EXCEPT !.failed = TRUE])

run_execute(c) ==
  /\ Extended(c)
  /\ \E armed \in Timeouts, limited \in BOOLEAN :
       LET r == Started(c, armed)
           p == r.portal
           parked == p \in {"suspended", "suspended_autocommit"}
           taken == parked \/ (limited /\ p = "read")
       IN  IF p = None \/ (taken /\ r.txn \in {"failed", "shell"})
           THEN Own(c, RefusedExecute(r))
           ELSE Own(c, [r EXCEPT !.phase = "begin", !.stmt = p,
                          !.path = IF parked THEN "resume" ELSE IF taken THEN "limited"
                                   ELSE "extended",
                          !.portal = IF taken THEN None ELSE @])

(* The loop looks at the token before every message, and is woken by the timer  *)
(* and by CancelRequest; biased select or not, each may be the one.           *)
BeforeMessage(c) ==
  /\ Live(c) /\ ses[c].phase = "idle" /\ Canceling(ses[c])
  /\ Own(c, handle_idle_statement_timeout(ses[c]))

TimerWakes(c) ==
  /\ Live(c) /\ ses[c].phase = "idle" /\ ses[c].timer = "Expired"
  /\ Own(c, handle_idle_statement_timeout(ses[c]))

CancelWakes(c) ==
  /\ Live(c) /\ ses[c].phase = "idle" /\ ses[c].wake
  /\ LET r == [ses[c] EXCEPT !.wake = FALSE]
     IN  Own(c, IF Canceling(r) THEN handle_idle_statement_timeout(r) ELSE r)

(* Terminate, end of input, bytes that do not decode, a message that COPY does *)
(* not allow.                                                               *)
Disconnect(c) ==
  /\ Live(c) /\ ses[c].phase = "idle" /\ scale.cancels
  /\ Own(c, Drop(ses[c]))

Message(c) ==
  \/ run_query(c) \/ Sync(c) \/ process_parse(c) \/ process_bind(c) \/ process_close(c)
  \/ run_execute(c) \/ BeforeMessage(c) \/ Disconnect(c)

-----------------------------------------------------------------------------
(* Cancellation                                                             *)

Requested(r, why) == IF r.reason = None THEN [r EXCEPT !.reason = why, !.fresh = r.active] ELSE r

(* request_cancel: the token, then the wake-up.                              *)
request_cancel(c) ==
  /\ Live(c) /\ scale.cancels /\ ses[c].phase # "gone" /\ ~ses[c].notify
  /\ Own(c, [Requested(ses[c], "user") EXCEPT !.notify = TRUE])

(* As if only the token were set.                                           *)
notify_cancel_Skipped(c) ==
  /\ ses[c].notify
  /\ Own(c, [ses[c] EXCEPT !.notify = FALSE])

notify_cancel(c) ==
  /\ ses[c].notify
  /\ Own(c, [ses[c] EXCEPT !.notify = FALSE, !.wake = TRUE])

TimerFires(c) ==
  /\ Live(c) /\ ses[c].timer = "Armed"
  /\ Own(c, [Requested(ses[c], "timeout") EXCEPT !.timer = "Expired"])

-----------------------------------------------------------------------------
(* Statements                                                                *)

(* begin_query and the guard's drop, for the statement of c.  A transaction    *)
(* that holds the write token keeps the guard until its reply is written, and   *)
(* whether it holds it is left open.                                         *)
GuardStep(c) ==
  /\ \/ ses[c].phase = "begin" /\ (BeginLoad(c) \/ BeginAdd(c) \/ BeginRecheck(c) \/ BeginRefused(c))
     \/ GuardDrop(c) /\ (\/ ses[c].phase \in {"reply", "gone"}
                         \/ ses[c].phase = "idle" /\ ses[c].copy # "running")
     \/ GuardNotify(c)
  /\ UNCHANGED <<scale, down, ses>> /\ UNCHANGED counter_vars /\ UNCHANGED worker_vars

(* Refused by shutdown: a simple query closes the connection, an Execute fails *)
(* its cycle.                                                               *)
Refused(c) ==
  /\ Live(c) /\ ses[c].phase = "begin" /\ guard[c] = "refused"
  /\ guard' = [guard EXCEPT ![c] = "none"]
  /\ ses' = [ses EXCEPT ![c] = IF ses[c].path = "simple" THEN Drop(ses[c])
                               ELSE Between(RefusedExecute(ses[c]))]
  /\ UNCHANGED <<scale, accepting, in_flight, permit, down>>
  /\ UNCHANGED counter_vars /\ UNCHANGED worker_vars

(* Whether the slot's transaction may still work.                            *)
Outcome(t, out, wrote, settled) == [txn |-> t, out |-> out, wrote |-> wrote, settled |-> settled]
Stays(t, out) == Outcome(t, out, FALSE, FALSE)

(* dispatch and execute_prepared_in_session: what comes of statement k in slot  *)
(* t.  wrote: a commit record of it is durable; settled: the transaction left   *)
(* the registry.  Every cancelable statement looks at the token before its       *)
(* last step that cannot be undone, so a durable outcome needs an empty token   *)
(* at that point.                                                            *)
Outcomes(k, t, pending) ==
  CASE k = "begin" -> IF t = "none" THEN {Stays("open", "ok"), Stays("none", "err")}
                      ELSE {Stays(t, "ok")}
    [] k = "commit" ->
         IF t = "open"
         THEN IF pending THEN {Stays("failed", "err")}
              ELSE {Outcome("none", "ok", w, TRUE) : w \in BOOLEAN} \cup {Outcome("none", "err", FALSE, TRUE)}
         ELSE {Outcome("none", "ok", FALSE, t = "failed")}
    [] k = "rollback" -> {Outcome("none", "ok", FALSE, t \in {"open", "failed"})}
    [] k = "rollbackto" ->
         IF t \in {"none", "shell"} THEN {Stays(t, "err")}
         ELSE (IF pending THEN {} ELSE {Stays("open", "ok")}) \cup {Stays("failed", "err")}
    [] k = "reset" -> IF t = "none" THEN {Stays("none", "ok"), Stays("none", "err")}
                      ELSE {Stays(IF t = "open" THEN "failed" ELSE t, "err")}
    [] OTHER ->
         IF t = "none"
         THEN {Stays("none", "err")}
                \cup (IF k = "write" THEN IF pending THEN {} ELSE {Outcome("none", "ok", TRUE, FALSE)}
                      ELSE {Stays("none", "ok")})
         ELSE IF t = "open"
         THEN {Stays("open", "ok"), Stays("failed", "err"), Outcome("shell", "err", FALSE, TRUE)}
         ELSE {Stays(t, "err")}

(* The StreamOutcome of a success.  The simple path calls an autocommit write   *)
(* and a COMMIT Direct, the extended path calls them Durable.                *)
StreamOutcome(path, k, t) ==
  CASE k = "reset" -> "SessionReset"
    [] k = "rollbackto" -> "Durable"
    [] path = "extended" /\ k \in {"commit", "rollback"} /\ t # "none" -> "Durable"
    [] path = "extended" /\ k = "write" /\ t = "none" -> "Durable"
    [] k = "copyin" -> "copyin"
    [] OTHER -> "Direct"

(* What follows a commit whose record is durable: the counters, bounded by       *)
(* max_commits (zero: an instance in which nothing is counted).              *)
Counting(c, wrote) ==
  IF wrote /\ scale.max_commits > 0
  THEN /\ commits + Cardinality({d \in Client : post[d] # "none"}) < scale.max_commits
       /\ Logged
       /\ post' = [post EXCEPT ![c] = "dead"]
       /\ UNCHANGED <<commits, dead, changed, since>>
  ELSE UNCHANGED counter_vars

Running(c) == Live(c) /\ ses[c].phase = "begin" /\ guard[c] = "held"

(* The statement's task runs to its end.                                     *)
RunStatement(c) ==
  /\ Running(c) /\ ses[c].path \in {"simple", "extended"} /\ ses[c].stmt \notin Cursors
  /\ LET r == ses[c] IN
     \E o \in Outcomes(r.stmt, r.txn, r.reason # None) :
       LET s == IF o.settled THEN Settle(r, o.txn)
                ELSE IF r.stmt = "rollbackto" /\ o.out = "ok" THEN [Outlived(r) EXCEPT !.txn = o.txn]
                ELSE [r EXCEPT !.txn = o.txn, !.reg = @ \/ o.txn = "open"]
       IN  /\ ses' = [ses EXCEPT ![c] =
                [s EXCEPT !.phase = "join", !.wrote = o.wrote,
                   !.reg = @ \/ (r.stmt = "copyin" /\ o.out = "ok"),
                   !.out = IF o.out = "err" THEN "err" ELSE StreamOutcome(r.path, r.stmt, r.txn)]]
           /\ Counting(c, o.wrote)
  /\ UNCHANGED <<scale, down>> /\ UNCHANGED shutdown_vars /\ UNCHANGED worker_vars

(* As if the consumer's view always won.                                     *)
apply_stream_consumer_cancel_Always(r) ==
  IF r.reason = None \/ r.out = "err" THEN r
  ELSE [mark_failed(r) EXCEPT !.out = "canceled"]

apply_stream_consumer_cancel(r) ==
  IF r.reason = None \/ r.out \in {"err", "Durable", "SessionReset"} THEN r
  ELSE [mark_failed(r) EXCEPT !.out = "canceled"]

(* The task is joined: cancellation, cleanup of what the transaction owned.  A  *)
(* COPY that is canceled here never began, and gives its transaction id back.  *)
FinishStatement(c) ==
  /\ Live(c) /\ ses[c].phase = "join" /\ post[c] = "none"
  /\ LET r == ses[c]
         s == apply_stream_consumer_cancel(r)
         t == IF r.stmt = "copyin" /\ s.txn = "none" /\ s.out = "canceled"
              THEN [s EXCEPT !.reg = FALSE] ELSE s
         closing == r.path = "simple" /\ r.stmt = "rollbackto" /\ t.out \notin {"err", "canceled"}
         u == IF closing THEN CloseScoped(t) ELSE Cleanup(t)
         v == IF t.out = "SessionReset" THEN [u EXCEPT !.portal = None] ELSE u
     IN  Own(c, [v EXCEPT !.phase = IF t.out = "copyin" THEN "copy_begin" ELSE "reply"])

(* The reply: Ready after a simple query, the wait for Sync after an Execute     *)
(* that failed.  A write that fails, or that is canceled half way, ends the      *)
(* connection.                                                               *)
Misreported(r) ==
  [r EXCEPT !.bad = @ \cup IF r.wrote /\ r.out \in {"err", "canceled"} THEN {IF r.path = "simple" THEN "durable_simple" ELSE "durable_extended"} ELSE {}]

Reply(c) ==
  /\ Live(c) /\ ses[c].phase = "reply"
  /\ guard[c] = "none" \/ (guard[c] = "held" /\ ses[c].txn \in {"open", "failed"})
  /\ LET r == Misreported(ses[c])
         e == CASE r.out = "err" -> Error(r) [] r.out = "canceled" -> Canceled(r) [] OTHER -> r
     IN  \/ Own(c, IF r.path = "simple" THEN ReadyForQuery(stop_statement_timer(e))
                   ELSE Between([stop_statement_timer(e) EXCEPT
                                   !.failed = @ \/ r.out \in {"err", "canceled"}]))
         \/ scale.cancels /\ Own(c, Drop(r))

(* DECLARE, FETCH and CLOSE of an SQL cursor, in a healthy transaction.        *)
CursorOutcomes(r) ==
  LET ok == [r EXCEPT !.out = "Direct"]
      err(s) == [s EXCEPT !.out = "err"]
      without(s) == close_sql_cursors(s)
  IN  IF r.txn # "open" THEN {err(r)}
      ELSE CASE r.stmt = "declare" ->
                  IF r.cursor # None THEN {err(mark_current_transaction_failed(r))}
                  ELSE {[ok EXCEPT !.cursor = "open"], err(mark_failed(r)),
                        err(Cleanup(Settle(r, "shell")))}
             [] r.cursor = None -> {err(mark_current_transaction_failed(r))}
             [] r.stmt = "fetch" -> {ok, err(mark_current_transaction_failed(without(r)))}
             [] OTHER -> {without(ok)}

run_sql_cursor_statement(c) ==
  /\ Running(c) /\ ses[c].path = "simple" /\ ses[c].stmt \in Cursors
  /\ \E s \in CursorOutcomes(ses[c]) : Own(c, [s EXCEPT !.phase = "reply"])

(* An Execute with a row limit starts a cursor worker, resuming one fetches     *)
(* again: the portal is suspended or exhausted, or the fetch fails.           *)
run_limited_bound_execute(c) ==
  /\ Running(c) /\ ses[c].path = "limited"
  /\ LET r == [ses[c] EXCEPT !.phase = "reply", !.out = "Direct"]
         e == [r EXCEPT !.out = "err"]
     IN  \/ Own(c, [r EXCEPT !.portal = IF r.txn = "none" THEN "suspended_autocommit" ELSE "suspended"])
         \/ Own(c, r)
         \/ Own(c, mark_current_transaction_failed(e))
         \/ r.txn = "open" /\ Own(c, Cleanup(Settle(e, "shell")))

run_suspended_execute(c) ==
  /\ Running(c) /\ ses[c].path = "resume"
  /\ LET r == [ses[c] EXCEPT !.phase = "reply", !.out = "Direct"]
         e == [r EXCEPT !.out = "err"]
     IN  \/ Own(c, [r EXCEPT !.portal = r.stmt])
         \/ Own(c, [r EXCEPT !.old = @ \ {"portal"}])
         \/ Own(c, mark_current_transaction_failed([e EXCEPT !.old = @ \ {"portal"}]))

Statement(c) ==
  \/ RunStatement(c) \/ run_sql_cursor_statement(c)
  \/ run_limited_bound_execute(c) \/ run_suspended_execute(c)

-----------------------------------------------------------------------------
(* COPY FROM STDIN                                                           *)

NoWork == NewSession.work

(* CopyInResponse is written, then the transaction moves to the worker.  If the *)
(* write fails the session is dropped with the transaction, or with the id an   *)
(* autocommit COPY registered, still its own.                                *)
begin_copy_in(c) ==
  /\ Live(c) /\ ses[c].phase = "copy_begin"
  /\ \/ Own(c, [Between(ses[c]) EXCEPT
                  !.copy = "running", !.txn = "none",
                  !.work = [NoWork EXCEPT !.at = "run", !.txn = ses[c].txn]])
     \/ scale.cancels /\ Own(c, Drop(ses[c]))

handle_copy_data(c) ==
  /\ Live(c) /\ ses[c].phase = "idle" /\ ses[c].copy = "running" /\ ~Canceling(ses[c])
  /\ ses[c].work.at = "run"
  /\ Own(c, [ses[c] EXCEPT !.work.data = TRUE])

(* CopyDone or CopyFail.                                                    *)
finish_copy_in(c) ==
  /\ Live(c) /\ ses[c].phase = "idle" /\ ses[c].copy # None /\ ~Canceling(ses[c])
  /\ IF ses[c].copy = "draining"
     THEN Own(c, ReadyForQuery([stop_statement_timer(ses[c]) EXCEPT !.copy = None]))
     ELSE \E end \in {"done", "fail"} :
            Own(c, [ses[c] EXCEPT !.phase = "copy_join", !.work.end = end])

(* The worker of c looks at the token, then takes the next chunk.  An error     *)
(* hands the transaction back failed, a closed channel makes the worker abort   *)
(* it; an autocommit COPY ends its transaction itself in every case.          *)
WorkerReturns(c, at, t) ==
  LET r == ses[c]
      auto == r.work.txn = "none"
      ends == auto \/ t \in {"none", "shell"}
      s == IF ends THEN [Outlived(r) EXCEPT !.reg = FALSE] ELSE r
  IN  ses' = [ses EXCEPT ![c] = [s EXCEPT !.work = [@ EXCEPT !.at = at, !.data = FALSE,
                                                     !.txn = IF auto THEN "none" ELSE t]]]

drive_copy_in(c) ==
  /\ ses[c].work.at = "run"
  /\ LET r == ses[c]
         w == r.work
     IN  \/ r.reason # None /\ WorkerReturns(c, "err", "failed") /\ UNCHANGED counter_vars
         \/ w.data /\ ses' = [ses EXCEPT ![c].work.data = FALSE] /\ UNCHANGED counter_vars
         \/ w.data /\ (\E t \in {"failed", "shell"} : WorkerReturns(c, "err", t)) /\ UNCHANGED counter_vars
         \/ ~w.data /\ r.reason = None /\ w.end = "done"
              /\ \/ WorkerReturns(c, "ok", w.txn) /\ Counting(c, w.txn = "none")
                 \/ WorkerReturns(c, "err", "failed") /\ UNCHANGED counter_vars
         \/ ~w.data /\ w.end = "fail" /\ WorkerReturns(c, "err", "failed") /\ UNCHANGED counter_vars
         \/ ~w.data /\ w.end = "closed" /\ WorkerReturns(c, "aborted", "none") /\ UNCHANGED counter_vars
  /\ UNCHANGED <<scale, down>> /\ UNCHANGED shutdown_vars /\ UNCHANGED worker_vars

Joined(r) == [r EXCEPT !.txn = r.work.txn, !.work = NoWork]

(* The end of finish_copy_in: the slot comes back, and a success inside a block *)
(* may still be canceled.                                                    *)
join_copy_in(c) ==
  /\ Live(c) /\ ses[c].phase = "copy_join" /\ ses[c].work.at # "run" /\ post[c] = "none"
  /\ LET r == ses[c]
         ok == r.work.at = "ok"
         j == [Joined(r) EXCEPT !.copy = None, !.phase = "reply", !.path = "simple", !.stmt = "copyin",
                                !.wrote = ok /\ r.work.txn = "none",
                                !.out = IF ok THEN "Direct" ELSE "err"]
     IN  Own(c, Cleanup(IF ok /\ j.txn # "none" THEN apply_stream_consumer_cancel(j) ELSE j))

(* The end of cancel_copy_in: the error is reported, the rest of the client's   *)
(* data is skipped.  Cursors are not closed here.                            *)
cancel_copy_in(c) ==
  /\ Live(c) /\ ses[c].phase = "copy_cancel" /\ ses[c].work.at # "run"
  /\ LET e == [stop_statement_timer(Canceled(Joined(ses[c]))) EXCEPT
                 !.copy = "draining", !.phase = "idle"]
     IN  Own(c, e) \/ (scale.cancels /\ Own(c, Drop(e)))

Copy(c) ==
  \/ begin_copy_in(c) \/ handle_copy_data(c) \/ finish_copy_in(c)
  \/ join_copy_in(c) \/ cancel_copy_in(c)

-----------------------------------------------------------------------------

Serve(c) ==
  \/ Refused(c) \/ Statement(c) \/ FinishStatement(c) \/ Reply(c)
  \/ begin_copy_in(c) \/ join_copy_in(c) \/ cancel_copy_in(c)

Background == (Pass \/ CkptWorker \/ MaintWorker \/ (scale.stops /\ Shutdown)) /\ UNCHANGED ses

Next ==
  \/ \E c \in Client :
       \/ Message(c) \/ TimerWakes(c) \/ CancelWakes(c)
       \/ request_cancel(c) \/ notify_cancel(c) \/ TimerFires(c)
       \/ GuardStep(c) \/ Refused(c) \/ Statement(c) \/ FinishStatement(c) \/ Reply(c)
       \/ Copy(c) \/ drive_copy_in(c)
       \/ Count(c) /\ UNCHANGED ses
  \/ Background

(* What the runtime gives: tasks that are ready run, a statement and a worker    *)
(* come to their end, and a checkpoint does not fail for ever.  Clients may be   *)
(* silent, and nothing is promised of timers and cancel requests.            *)
Fairness ==
  /\ \A c \in Client :
       /\ WF_svars(Serve(c)) /\ WF_svars(GuardStep(c)) /\ WF_svars(drive_copy_in(c))
       /\ WF_svars(TimerWakes(c)) /\ WF_svars(CancelWakes(c)) /\ WF_svars(notify_cancel(c))
       /\ WF_svars(Count(c) /\ UNCHANGED ses)
  /\ WF_svars(CkptWorker /\ UNCHANGED ses) /\ WF_svars(MaintWorker /\ UNCHANGED ses)
  /\ WF_svars(Pass /\ UNCHANGED ses)
  /\ SF_svars(PassClog /\ Pass /\ UNCHANGED ses) /\ SF_svars(PassMarker /\ Pass /\ UNCHANGED ses)
  /\ SF_svars(PassTrigger /\ Pass /\ UNCHANGED ses)

Spec == Init /\ [][Next]_svars /\ Fairness

-----------------------------------------------------------------------------
(* Properties                                                               *)

(* A statement is canceled only by a request or a timeout of its own: one that  *)
(* arrives between statements is forgotten (arm_new's reset, disarm, and         *)
(* statement_active in the protocol loop).                                   *)
CancelsOwnStatement == \A c \in Client : "stale_cancel" \notin ses[c].bad

(* At most one ErrorResponse precedes each ReadyForQuery, whatever cancels,     *)
(* timeouts and failures meet in one cycle (failed and the skip to Sync, the    *)
(* draining of a canceled COPY).                                             *)
OneErrorPerCycle == \A c \in Client : ses[c].errs <= 1

(* No cursor and no suspended portal can be fetched from after the transaction   *)
(* or the savepoint it was opened in is gone: in a healthy block neither is      *)
(* left over, outside a block no portal is (transaction_resources_released and   *)
(* its callers).                                                             *)
CursorsCurrent ==
  \A c \in Client : LET r == ses[c] IN
    r.phase = "idle" /\ r.copy = None =>
      /\ r.txn = "open" => r.old = {}
      /\ r.txn = "none" => "portal" \notin r.old

(* When a client is gone its transaction leaves the registry, unless a COPY      *)
(* worker that had failed by itself handed it back to nobody (Drop of Session,   *)
(* drive_copy_in on a closed channel).                                       *)
DisconnectSettles ==
  \A c \in Client :
    ses[c].phase = "gone" /\ ses[c].reg => ses[c].work.at \in {"run", "err"}

(* When a client is gone and no worker runs for it, its transaction has left     *)
(* the registry, as docs/specs/crates/server.md says of a disconnect.         *)
DisconnectLeaksNothing ==
  \A c \in Client : ses[c].phase = "gone" /\ ses[c].reg => ses[c].work.at = "run"

(* A statement of the extended protocol whose commit is durable is never         *)
(* reported as failed or canceled (apply_stream_consumer_cancel).            *)
DurableReported == \A c \in Client : "durable_extended" \notin ses[c].bad

(* No statement whose commit is durable is reported as failed or canceled,       *)
(* whichever protocol it came by.                                            *)
DurableAlwaysReported ==
  \A c \in Client : ses[c].bad \cap {"durable_simple", "durable_extended"} = {}

(* A cancel that meets a session waiting for its client is answered although     *)
(* the client sends nothing more (cancel_wake, the timer's channel).         *)
CancelAnswered ==
  \A c \in Client :
    (ses[c].phase = "idle" /\ Canceling(ses[c])) ~> (~Canceling(ses[c]) \/ Ended)
=============================================================================
