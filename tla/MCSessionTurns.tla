--------------------------- MODULE MCSessionTurns ---------------------------
(* Instance of SessionTurns for TLC.                                       *)
EXTENDS SessionTurns

CONSTANTS u1, c1, x1, m1, s1, j1
=============================================================================
