----------------------------- MODULE MCSession -----------------------------
(* Instances of Session for TLC.                                            *)
EXTENDS Session

CONSTANTS c1, c2

Quiet == [clients |-> {c1}, simple |-> {}, prepared |-> {}, cancels |-> FALSE, stops |-> FALSE,
          every_n |-> 1, wal_bytes |-> 2, dead_rows |-> 0, changed_rows |-> 0,
          clog_full |-> {FALSE}, busy |-> {FALSE},
          max_commits |-> 0, max_dead |-> 0, max_changed |-> 0]

(* One client of the whole protocol.                                        *)
Protocol == [Quiet EXCEPT !.simple = SimpleKinds, !.prepared = PreparedKinds, !.cancels = TRUE]

(* Two clients and a shutdown.                                              *)
Stopping == [Quiet EXCEPT !.clients = {c1, c2}, !.simple = {"read"}, !.stops = TRUE]

(* A client whose commit wakes one of the workers, and a shutdown.           *)
StoppingVacuum == [Quiet EXCEPT !.simple = {"write"}, !.stops = TRUE, !.max_commits = 1,
                                !.every_n = 2, !.wal_bytes = 4, !.dead_rows = 1, !.max_dead = 1]
StoppingCheckpoint == [Quiet EXCEPT !.simple = {"write"}, !.stops = TRUE, !.max_commits = 1]

(* A client of the extended protocol and a shutdown.                         *)
StoppingExtended == [Quiet EXCEPT !.prepared = {"read", "begin"}, !.stops = TRUE]

(* One client whose commits ask for checkpoints.                            *)
Checkpoints == [Quiet EXCEPT !.simple = {"write"}, !.max_commits = 2, !.busy = BOOLEAN]

(* The same, with a commit log so full that checkpoints ask for VACUUM.      *)
ClogPressure == [Quiet EXCEPT !.simple = {"write"}, !.max_commits = 1, !.wal_bytes = 1,
                              !.clog_full = {TRUE}]

(* One client whose commits ask for VACUUM and ANALYZE, not for checkpoints. *)
Maintenance == [Quiet EXCEPT !.simple = {"write"}, !.max_commits = 2, !.max_dead = 2, !.max_changed = 2,
                             !.every_n = 3, !.wal_bytes = 11, !.dead_rows = 1, !.changed_rows = 1]

All == {Protocol, Stopping, StoppingExtended, StoppingVacuum, StoppingCheckpoint,
        Checkpoints, ClogPressure, Maintenance}
OneClient == {Protocol}
=============================================================================
