------------------------------ MODULE MCMemory ------------------------------
(* Model values for Memory: two kernel threads and two processes. *)
EXTENDS Memory

CONSTANTS k1, k2, p1, p2
=============================================================================
