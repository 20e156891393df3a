---------------------------- MODULE MCDurability ----------------------------
(* Instances of Durability for TLC.                                        *)
EXTENDS Durability, TLC

Sessions == Permutations(Session)

(* One session with many events, two with few.                             *)
Wide == {[sessions |-> 1, events |-> 3], [sessions |-> 2, events |-> 2]}
=============================================================================
