---------------------------- MODULE RequestQueues ----------------------------
(***************************************************************************)
(* How the Codex app server runs the requests of its connections           *)
(* (app-server/src/request_serialization.rs, connection_rpc_gate.rs and    *)
(* their callers in message_processor.rs and lib.rs).                      *)
(*                                                                         *)
(* Requests on one key wait in a queue that lives in a map while a drain   *)
(* task works on it; the enqueuer that creates the map entry spawns the    *)
(* task.  The task takes one exclusive request, or all shared reads up to  *)
(* the next exclusive one, runs them concurrently and waits for all.       *)
(* Before it runs, a request passes the gate of its connection, which is   *)
(* closed when the connection is.  The handlers themselves are opaque here *)
(* (module CommandExec gives some of them a body).                         *)
(***************************************************************************)
EXTENDS Naturals, Sequences

CONSTANTS
    Requests,     \* requests, with the properties below
    Keys,         \* RequestSerializationQueueKey
    Conns,        \* ConnectionId
    Keyed,        \* requests with a serialization scope
    KeyOf,        \* key of each request (meaningless if not in Keyed)
    SharedRead,   \* requests whose RequestSerializationAccess is SharedRead
    Gated,        \* requests of a connection; the others are background work
    ConnOf,       \* connection of each request (meaningless if not in Gated)
    MaxPanics     \* bound: handlers that panic

ASSUME RequestsAssumption ==
    /\ Keyed \subseteq Requests /\ Gated \subseteq Requests
    /\ SharedRead \subseteq Requests
    /\ KeyOf \in [Requests -> Keys] /\ ConnOf \in [Requests -> Conns]
    /\ MaxPanics \in Nat

VARIABLES
    queue,        \* key -> requests of its VecDeque, if it has an entry
    entry,        \* keys with an entry in the map
    drainer,      \* request -> pc of the drain task spawned when it was enqueued
    batch,        \* request -> requests that drain task is joined on
    st,           \* request -> where it is
    stamp,        \* history: order in which requests arrived
    arrived,      \* history: number of arrivals
    accepting,    \* connections whose gate is open
    conn,         \* connection -> progress of its teardown
    panics        \* handlers that panicked so far

queueVars == <<queue, entry, drainer, batch, stamp, arrived>>
connVars  == <<accepting, conn>>
vars == <<queue, entry, drainer, batch, st, stamp, arrived, accepting, conn, panics>>

Places == {"new", "queued", "taken", "running", "done", "refused", "cancelled"}
Over   == {"done", "refused", "cancelled"}

Init ==
    /\ queue = [k \in Keys |-> <<>>]
    /\ entry = {}
    /\ drainer = [r \in Requests |-> "none"]
    /\ batch = [r \in Requests |-> {}]
    /\ st = [r \in Requests |-> "new"]
    /\ stamp = [r \in Requests |-> 0]
    /\ arrived = 0
    /\ accepting = Conns
    /\ conn = [c \in Conns |-> "open"]
    /\ panics = 0

(***************************************************************************)
(* dispatch_initialized_client_request and enqueue_background.  A request  *)
(* of a connection the main loop has already removed is dropped there.     *)
(***************************************************************************)
Arrive(r) ==
    /\ st[r] = "new"
    /\ r \in Gated => conn[ConnOf[r]] = "open"
    /\ arrived' = arrived + 1
    /\ stamp' = [stamp EXCEPT ![r] = arrived + 1]
    /\ UNCHANGED <<batch, accepting, conn, panics>>

\* tokio::spawn(request.run()) for a request without serialization scope.
Dispatch(r) ==
    /\ Arrive(r)
    /\ r \notin Keyed
    /\ st' = [st EXCEPT ![r] = "taken"]
    /\ UNCHANGED <<queue, entry, drainer>>

EnqueueAlwaysSpawns(r) ==
    /\ Arrive(r)
    /\ r \in Keyed
    /\ st' = [st EXCEPT ![r] = "queued"]
    /\ queue' = [queue EXCEPT ![KeyOf[r]] = Append(@, r)]
    /\ entry' = entry \cup {KeyOf[r]}
    /\ drainer' = [drainer EXCEPT ![r] = "loop"]

\* should_spawn: whoever creates the entry also spawns its drain task.
Enqueue(r) ==
    /\ Arrive(r)
    /\ r \in Keyed
    /\ st' = [st EXCEPT ![r] = "queued"]
    /\ queue' = [queue EXCEPT ![KeyOf[r]] = Append(@, r)]
    /\ entry' = entry \cup {KeyOf[r]}
    /\ drainer' = IF KeyOf[r] \in entry THEN drainer ELSE [drainer EXCEPT ![r] = "loop"]

\* The first n requests of a queue make up the next batch: the first one,
\* and if it is a shared read all shared reads that follow directly.
IsBatch(q, n) ==
    \/ q[1] \notin SharedRead /\ n = 1
    \/ /\ \A i \in 1..n : q[i] \in SharedRead
       /\ n < Len(q) => q[n + 1] \notin SharedRead

Take(t) ==
    /\ drainer[t] = "loop"
    /\ LET k == KeyOf[t]
       IN  /\ k \in entry
           /\ \E n \in 1..Len(queue[k]) :
                 /\ IsBatch(queue[k], n)
                 /\ LET front == {queue[k][i] : i \in 1..n}
                    IN  /\ batch' = [batch EXCEPT ![t] = front]
                        /\ st' = [r \in Requests |-> IF r \in front THEN "taken" ELSE st[r]]
                 /\ queue' = [queue EXCEPT ![k] = SubSeq(@, n + 1, Len(@))]
    /\ drainer' = [drainer EXCEPT ![t] = "join"]
    /\ UNCHANGED <<entry, stamp, arrived, accepting, conn, panics>>

\* join_all returned: all requests of the batch are over.
Joined(t) ==
    /\ drainer[t] = "join"
    /\ \A r \in batch[t] : st[r] \in Over
    /\ drainer' = [drainer EXCEPT ![t] = "loop"]
    /\ batch' = [batch EXCEPT ![t] = {}]
    /\ UNCHANGED <<queue, entry, st, stamp, arrived, accepting, conn, panics>>

RetireKeepsEntry(t) ==
    /\ drainer[t] = "loop"
    /\ KeyOf[t] \notin entry \/ queue[KeyOf[t]] = <<>>
    /\ drainer' = [drainer EXCEPT ![t] = "ended"]
    /\ UNCHANGED <<queue, entry, batch, st, stamp, arrived, accepting, conn, panics>>

\* The queue is empty: the entry goes, and the task with it, in one step
\* under the lock of the map.
Retire(t) ==
    /\ drainer[t] = "loop"
    /\ KeyOf[t] \notin entry \/ queue[KeyOf[t]] = <<>>
    /\ entry' = entry \ {KeyOf[t]}
    /\ drainer' = [drainer EXCEPT ![t] = "ended"]
    /\ UNCHANGED <<queue, batch, st, stamp, arrived, accepting, conn, panics>>

(***************************************************************************)
(* ConnectionRpcGate::run: the token is taken under the lock that guards   *)
(* accepting.                                                              *)
(***************************************************************************)
EnterUngated(r) ==
    /\ st[r] = "taken"
    /\ st' = [st EXCEPT ![r] = "running"]
    /\ UNCHANGED <<queueVars, connVars, panics>>

Enter(r) ==
    /\ st[r] = "taken"
    /\ r \in Gated => ConnOf[r] \in accepting
    /\ st' = [st EXCEPT ![r] = "running"]
    /\ UNCHANGED <<queueVars, connVars, panics>>

Refuse(r) ==
    /\ st[r] = "taken"
    /\ r \in Gated /\ ConnOf[r] \notin accepting
    /\ st' = [st EXCEPT ![r] = "refused"]
    /\ UNCHANGED <<queueVars, connVars, panics>>

Finish(r) ==
    /\ st[r] = "running"
    /\ st' = [st EXCEPT ![r] = "done"]
    /\ UNCHANGED <<queueVars, connVars, panics>>

\* A panic unwinds the task that polls the handler.  For a serialized
\* request that is the drain task: the rest of its batch is dropped with
\* it, and the entry of the map stays behind without a task.
Panic(r) ==
    /\ st[r] = "running" /\ panics < MaxPanics
    /\ panics' = panics + 1
    /\ \/ /\ r \notin Keyed
          /\ st' = [st EXCEPT ![r] = "cancelled"]
          /\ UNCHANGED <<drainer, batch>>
       \/ \E t \in Requests :
             /\ drainer[t] = "join" /\ r \in batch[t]
             /\ st' = [q \in Requests |->
                         IF q \in batch[t] /\ st[q] \notin Over THEN "cancelled" ELSE st[q]]
             /\ drainer' = [drainer EXCEPT ![t] = "dead"]
             /\ batch' = [batch EXCEPT ![t] = {}]
    /\ UNCHANGED <<queue, entry, stamp, arrived, connVars>>

(***************************************************************************)
(* A connection goes away: the main loop closes its gate, then a cleanup   *)
(* task waits for the handlers that are running, up to                     *)
(* CONNECTION_RPC_DRAIN_TIMEOUT.                                           *)
(***************************************************************************)
Close(c) ==
    /\ conn[c] = "open"
    /\ accepting' = accepting \ {c}
    /\ conn' = [conn EXCEPT ![c] = "draining"]
    /\ UNCHANGED <<queueVars, st, panics>>

HandlersOf(c) == {r \in Gated : ConnOf[r] = c /\ st[r] = "running"}

Drained(c) ==
    /\ conn[c] = "draining"
    /\ HandlersOf(c) = {}
    /\ conn' = [conn EXCEPT ![c] = "drained"]
    /\ UNCHANGED <<queueVars, st, accepting, panics>>

DrainTimeout(c) ==
    /\ conn[c] = "draining"
    /\ HandlersOf(c) # {}
    /\ conn' = [conn EXCEPT ![c] = "timedout"]
    /\ UNCHANGED <<queueVars, st, accepting, panics>>

QueueStep ==
    \/ \E r \in Requests : Dispatch(r) \/ Enqueue(r) \/ Enter(r) \/ Refuse(r)
    \/ \E t \in Requests : Take(t) \/ Joined(t) \/ Retire(t)

ConnStep == \E c \in Conns : Close(c) \/ Drained(c) \/ DrainTimeout(c)

HandlerStep == \E r \in Requests : Finish(r) \/ Panic(r)

Next == QueueStep \/ ConnStep \/ HandlerStep

Spec == Init /\ [][Next]_vars

\* tokio polls every task that is ready; handlers come to an end.
Fairness ==
    /\ \A r \in Requests : WF_vars(Enter(r) \/ Refuse(r)) /\ WF_vars(Finish(r))
    /\ \A t \in Requests : WF_vars(Take(t) \/ Joined(t) \/ Retire(t))
    /\ \A c \in Conns : WF_vars(Drained(c))

LiveSpec == Spec /\ Fairness

(***************************************************************************)
(* Properties                                                              *)
(***************************************************************************)
\* Type invariant of the queues, the drain tasks and the gates; requests wait
\* only in queues that have an entry in the map.
TypeOK ==
    /\ queue \in [Keys -> Seq(Requests)]
    /\ entry \subseteq Keys /\ \A k \in Keys \ entry : queue[k] = <<>>
    /\ drainer \in [Requests -> {"none", "loop", "join", "ended", "dead"}]
    /\ batch \in [Requests -> SUBSET Requests]
    /\ st \in [Requests -> Places]
    /\ stamp \in [Requests -> Nat] /\ arrived \in Nat
    /\ accepting \subseteq Conns
    /\ conn \in [Conns -> {"open", "draining", "drained", "timedout"}]
    /\ panics \in 0..MaxPanics

\* The serialized queues behave like a readers-writer lock per key that is
\* granted in the order of arrival, whatever the batches, the drain tasks
\* that come and go, panics and closed connections.
Phase == [r \in Requests |->
    CASE st[r] = "new" -> "new"
      [] st[r] \in {"queued", "taken"} -> "waiting"
      [] st[r] = "running" -> "running"
      [] OTHER -> "over"]
RW == INSTANCE RwOrder WITH phase <- Phase
GrantedInOrder == RW!Spec

\* Closing a connection is final: once its cleanup found no handler running,
\* no handler of it ever starts, although its requests may still be queued
\* or already taken by a drain task.
QuietAfterDrain ==
    [][\A c \in Conns : conn[c] = "drained" => HandlersOf(c)' = {}]_vars

\* Every request that is queued comes out of the queue and is run or refused,
\* unless a handler of its key has panicked (then its drain task is gone and
\* the entry left in the map keeps anyone from spawning another one).
Served == \A r \in Requests :
    st[r] = "queued" ~> \/ st[r] \in Over
                        \/ \E t \in Requests : drainer[t] = "dead" /\ KeyOf[t] = KeyOf[r]
=============================================================================
