------------------------------- MODULE MCSsi --------------------------------
(* Instances of Ssi for TLC.                                               *)
EXTENDS Ssi, TLC

RowSymmetry == Permutations(Row)
=============================================================================
