---------------------------- MODULE MCRunMetrics ----------------------------
(* A small instance of RunMetrics: r1 and r2 compete for the instance i1   *)
(* from two processes.                                                     *)
EXTENDS RunMetrics

CONSTANTS r1, r2, i1, p1, p2

MCInstanceOf == [r \in Recorders |-> i1]
MCProcessOf == [r \in Recorders |-> IF r = r2 THEN p2 ELSE p1]
=============================================================================
