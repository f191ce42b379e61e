--------------------------- MODULE MCRequestQueues ---------------------------
(***************************************************************************)
(* Instance of RequestQueues: on the key k1 two shared reads of different  *)
(* connections and exclusive background work; the second connection also   *)
(* sends a request without a key.                                          *)
(***************************************************************************)
EXTENDS RequestQueues

CONSTANTS r1, r2, r3, r4, k1, c1, c2

MCKeyOf == [r \in Requests |-> k1]
MCConnOf == [r \in Requests |-> IF r = r1 THEN c1 ELSE c2]
=============================================================================
