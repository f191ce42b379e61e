---------------------------- MODULE MCPhase2Jobs -----------------------------
EXTENDS Phase2Jobs
CONSTANTS t1, w1, w2
MCThreads == {t1}
MCWorkers == {w1, w2}
=============================================================================
