---------------------------- MODULE MCBufferPool ----------------------------
(* Model values for the runs of BufferPool. *)
EXTENDS BufferPool

CONSTANTS p1, p2, p3, t1, t2
=============================================================================
