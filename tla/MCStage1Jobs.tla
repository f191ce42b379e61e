---------------------------- MODULE MCStage1Jobs -----------------------------
EXTENDS Stage1Jobs, TLC
CONSTANTS t1, t2, w1, w2
MCThreads == {t1, t2}
MCWorkers == {w1, w2}
=============================================================================
