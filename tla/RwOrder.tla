------------------------------- MODULE RwOrder -------------------------------
(***************************************************************************)
(* What the serialized request queues of the Codex app server promise,     *)
(* without saying how: requests on one key are granted as by a lock for    *)
(* readers and writers that is handed out in the order of arrival.  A      *)
(* request may run next to earlier requests of its key only if all of them *)
(* and itself are shared reads; nobody overtakes a request he conflicts    *)
(* with.  Requests without a key are not ordered at all.                   *)
(***************************************************************************)
EXTENDS Naturals

CONSTANTS
    Requests,     \* requests clients and the server itself may submit
    Keyed,        \* the requests that are serialized on some key
    KeyOf,        \* the key of each request
    SharedRead    \* the requests that only read the resource of their key

VARIABLES
    phase,        \* "new", "waiting", "running" or "over"
    stamp,        \* order of arrival; 0 before the request arrives
    arrived       \* number of requests that arrived so far

vars == <<phase, stamp, arrived>>

Conflict(r, q) ==
    /\ r \in Keyed /\ q \in Keyed /\ KeyOf[r] = KeyOf[q]
    /\ ~(r \in SharedRead /\ q \in SharedRead)

Init ==
    /\ phase = [r \in Requests |-> "new"]
    /\ stamp = [r \in Requests |-> 0]
    /\ arrived = 0

Submit(r) ==
    /\ phase[r] = "new"
    /\ phase' = [phase EXCEPT ![r] = "waiting"]
    /\ arrived' = arrived + 1
    /\ stamp' = [stamp EXCEPT ![r] = arrived + 1]

Grant(r) ==
    /\ phase[r] = "waiting"
    /\ \A q \in Requests :
          phase[q] # "new" /\ stamp[q] < stamp[r] /\ Conflict(q, r) => phase[q] = "over"
    /\ phase' = [phase EXCEPT ![r] = "running"]
    /\ UNCHANGED <<stamp, arrived>>

\* Requests end by returning, by being refused before they start, or
\* together when the task that runs them dies.
End(R) ==
    /\ \A r \in R : phase[r] \in {"waiting", "running"}
    /\ phase' = [r \in Requests |-> IF r \in R THEN "over" ELSE phase[r]]
    /\ UNCHANGED <<stamp, arrived>>

Next ==
    \/ \E r \in Requests : Submit(r) \/ Grant(r)
    \/ \E R \in SUBSET Requests : End(R)

Spec == Init /\ [][Next]_vars
=============================================================================
