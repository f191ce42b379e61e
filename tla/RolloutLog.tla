----------------------------- MODULE RolloutLog ------------------------------
(***************************************************************************)
(* What a rollout recorder promises its callers: the items of a session    *)
(* form one growing log, in the order in which they were recorded.  An     *)
(* item is only ever missing because the process died before it was        *)
(* logged; what was acknowledged is never missing.                         *)
(*                                                                         *)
(* Items are numbered in the order of recording; item 0 is the session     *)
(* metadata every rollout starts with.                                     *)
(***************************************************************************)
EXTENDS Naturals

VARIABLES
    log,      \* pairs <<ordinal, item>>
    sent,     \* last item that was recorded
    lost,     \* items that died with a process
    acked     \* items covered by an acknowledged persist, flush or shutdown

vars == <<log, sent, lost, acked>>

Logged == {p[2] : p \in log}

Init == log = {} /\ sent = 0 /\ lost = {} /\ acked = {}

Record == sent' = sent + 1 /\ UNCHANGED <<log, lost, acked>>

\* The ordinal after the last one of the log.
IsNext(n) == (\A p \in log : p[1] < n) /\ (n = 0 \/ \E p \in log : p[1] + 1 = n)

Grow(i) == \E n \in {0} \cup {p[1] + 1 : p \in log} : IsNext(n) /\ log' = log \cup {<<n, i>>}

\* The next item that is not lost goes to the next ordinal.
Commit(i) ==
    /\ i \in 0..sent /\ i \notin Logged \cup lost
    /\ \A j \in 0..sent : j < i => j \in Logged \cup lost
    /\ Grow(i)
    /\ UNCHANGED <<sent, lost, acked>>

\* An item that is recorded and logged at once, or lost at once.
RecordAndCommit ==
    /\ sent' = sent + 1
    /\ \A j \in 0..sent : j \in Logged \cup lost
    /\ \/ Grow(sent + 1) /\ lost' = lost
       \/ log' = log /\ lost' = lost \cup {sent + 1}
    /\ acked' \in {acked, acked \cup ({sent + 1} \ lost')}

Lose == lost' = (0..sent) \ Logged /\ UNCHANGED <<log, sent, acked>>

Acknowledge(n) ==
    /\ n \in 0..sent
    /\ \A j \in 1..n : j \in Logged \cup lost
    /\ acked' = acked \cup ((1..n) \ lost)
    /\ UNCHANGED <<log, sent>>
    /\ lost' \in {lost, (0..sent) \ Logged}

Next ==
    \/ Record \/ RecordAndCommit \/ Lose
    \/ \E i \in 0..sent : Commit(i) \/ Acknowledge(i)

Spec == Init /\ [][Next]_vars
=============================================================================
