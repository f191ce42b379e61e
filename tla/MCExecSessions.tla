---------------------------- MODULE MCExecSessions ----------------------------
EXTENDS ExecSessions
CONSTANTS w1, w2
MCWrites == {w1, w2}
=============================================================================
