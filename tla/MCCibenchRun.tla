---------------------------- MODULE MCCibenchRun ----------------------------
(* Instances of CibenchRun for TLC.                                        *)
EXTENDS CibenchRun, TLC

CONSTANTS i1, i2, w1, w2

MCTwo == {i1, i2}
MCThreads == {w1, w2}

\* A run without a pool that starts over, and one with two threads that resumes.
MCCommandLines == {[pool |-> {w1}, redo |-> TRUE], [pool |-> {w1, w2}, redo |-> FALSE]}

MCFaults == {"crash", "write", "trajectory", "start", "interrupt"}
=============================================================================
