---------------------------- MODULE MCCommandExec ----------------------------
(***************************************************************************)
(* Instance of CommandExec: one connection that starts two commands with   *)
(* the same process id (s1, s2) and controls them (x).                     *)
(***************************************************************************)
EXTENDS CommandExec

CONSTANTS s1, s2, x, k1, c1

MCKeyOf  == [r \in Requests |-> k1]
MCConnOf == [r \in Requests |-> c1]
=============================================================================
