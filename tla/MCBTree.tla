------------------------------ MODULE MCBTree ------------------------------
(* Instances of BTree for TLC.                                              *)
EXTENDS BTree

Bare == [entries |-> {}, ranges |-> {}, leaf |-> 2, node |-> 2, inserts |-> 0,
         failures |-> 0, vacuums |-> 0]

(* A writer alone: splits of internal nodes, with writes that fail.          *)
Tall == [Bare EXCEPT !.entries = {<<k, 1>> : k \in 1..8}, !.inserts = 8, !.failures = 1]

(* A writer alone, with entries of one key, leaves emptied by VACUUM and entries *)
(* inserted again.                                                           *)
Emptied == [Bare EXCEPT !.entries = {<<1, 1>>, <<2, 1>>, <<2, 2>>, <<3, 1>>, <<4, 1>>}, !.inserts = 8,
                        !.failures = 2, !.vacuums = 1]

(* A scan and a VACUUM among splits of leaves.                               *)
Scanned == [Bare EXCEPT !.entries = {<<1, 1>>, <<2, 1>>, <<2, 2>>, <<2, 3>>, <<3, 1>>}, !.inserts = 5,
                        !.ranges = {<<0, 9>>, <<2, 2>>}, !.vacuums = 1]

(* A scan among splits of internal nodes.                                    *)
ScannedTall == [Bare EXCEPT !.entries = {<<k, 1>> : k \in 1..7}, !.inserts = 7,
                            !.ranges = {<<0, 9>>, <<6, 6>>}]

All == {Tall, Emptied, Scanned, ScannedTall}
=============================================================================
