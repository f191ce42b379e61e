----------------------------- MODULE ExecSessions -----------------------------
(***************************************************************************)
(* Sessions of the Codex exec-server and their client: a session outlives  *)
(* its connection for a while so that the client can resume it             *)
(* (server/session_registry.rs, server/processor.rs), a request is         *)
(* cancelled when its connection goes, wherever it waits                   *)
(* (local_process.rs), and the client retries writes and cleans up after   *)
(* starts whose answer was lost (client.rs, client_recovery.rs).           *)
(*                                                                         *)
(* One session, one process id.  The caller starts the process again under *)
(* the same id only after a start has failed.  What the process says is    *)
(* the subject of ProcessEvents.                                           *)
(***************************************************************************)
EXTENDS Naturals, Sequences, FiniteSets, Functions

CONSTANTS
    Writes,       \* ids of the writes to stdin
    MaxStarts,    \* bound: starts of the process
    MaxDrops      \* bound: lost connections

ASSUME SessionsAssumption == IsFiniteSet(Writes) /\ MaxStarts \in Nat \ {0} /\ MaxDrops \in Nat

VARIABLES
    conn, up, drops,   \* the newest connection, whether it is up
    inbox, replies,    \* requests the server has not begun, answers on their way
    session,           \* "live", "removed" from the registry, processes "shut" down
    att,               \* AttachmentState
    timers,            \* connections whose expire_if_detached is pending
    request,           \* the request being handled, NoRequest if none
    entry,             \* the process map at the id: none, Starting(k) or Running(k)
    child,             \* the operating system process of each start
    accepted, stdin,   \* accepted write ids and what the writer of stdin got, by start
    client,            \* "connected", "recovering", "candidate" or "failed"
    start,             \* the latest start: its number and what became of it
    write              \* the state of each write call

network == <<conn, up, drops>>
calls == <<inbox, replies>>
registry == <<session, att, timers>>
processes == <<entry, child, accepted, stdin>>
vars == <<conn, up, drops, inbox, replies, session, att, timers, request,
          entry, child, accepted, stdin, client, start, write>>

Starts == 1..MaxStarts
NoRequest == [op |-> "none", of |-> 0, pc |-> "idle"]
NoEntry == [st |-> "none", of |-> 0]

Init ==
    /\ conn = 1 /\ up = TRUE /\ drops = 0
    /\ inbox = << >> /\ replies = {}
    /\ session = "live" /\ att = [cur |-> 1, det |-> 0, overdue |-> FALSE] /\ timers = {}
    /\ request = NoRequest /\ entry = NoEntry
    /\ child = [k \in Starts |-> "none"]
    /\ accepted = [k \in Starts |-> {}] /\ stdin = [k \in Starts |-> << >>]
    /\ client = "connected" /\ start = [st |-> "idle", of |-> 0]
    /\ write = [w \in Writes |-> "idle"]

(***************************************************************************)
(* The network.  The server may still have received any of the requests    *)
(* that were sent; answers that have not been read are lost, and every     *)
(* pending call fails (drain_pending).                                     *)
(***************************************************************************)
Drop ==
    /\ up /\ drops < MaxDrops
    /\ up' = FALSE /\ drops' = drops + 1
    /\ \E n \in 0..Len(inbox) : inbox' = SubSeq(inbox, 1, n)
    /\ replies' = {}
    /\ write' = [w \in Writes |-> IF write[w] = "calling" THEN "retry" ELSE write[w]]
    /\ start' = [start EXCEPT !.st = CASE @ = "calling" -> "lost" [] @ = "cleaning" -> "cleanup"
                                       [] OTHER -> @]
    /\ UNCHANGED <<conn, registry, request, processes, client>>

(***************************************************************************)
(* The server: one request at a time per connection.                       *)
(***************************************************************************)
Begin ==
    /\ att.cur # 0 /\ request = NoRequest /\ inbox # << >>
    /\ request' = [op |-> Head(inbox)[1], of |-> Head(inbox)[2], pc |-> "begin"]
    /\ inbox' = Tail(inbox)
    /\ UNCHANGED <<network, replies, registry, processes, client, start, write>>

\* An answer to a connection that is gone goes nowhere.
Answer(result) ==
    /\ request' = NoRequest
    /\ replies' = IF up THEN replies \cup {<<request.op, request.of, result>>} ELSE replies

At(op, pc) == request.op = op /\ request.pc = pc
Goto(pc) == request' = [request EXCEPT !.pc = pc] /\ UNCHANGED replies
Starting(k) == entry = [st |-> "starting", of |-> k]

ExecInsert ==
    /\ At("exec", "begin")
    /\ \/ /\ entry.st # "none"
          /\ Answer("error") /\ UNCHANGED entry
       \/ /\ entry.st = "none"
          /\ entry' = [st |-> "starting", of |-> request.of] /\ Goto("spawn")
    /\ UNCHANGED <<network, inbox, registry, child, accepted, stdin, client, start, write>>

ExecSpawn ==
    /\ At("exec", "spawn")
    /\ \/ /\ child' = [child EXCEPT ![request.of] = "alive"]
          /\ Goto("publish") /\ UNCHANGED entry
       \/ /\ entry' = IF Starting(request.of) THEN NoEntry ELSE entry
          /\ Answer("error") /\ UNCHANGED child
    /\ UNCHANGED <<network, inbox, registry, accepted, stdin, client, start, write>>

ExecPublish ==
    /\ At("exec", "publish")
    /\ IF Starting(request.of)
       THEN /\ entry' = [st |-> "running", of |-> request.of]
            /\ Answer("ok") /\ UNCHANGED child
       ELSE /\ child' = [child EXCEPT ![request.of] = "dead"]
            /\ Answer("error") /\ UNCHANGED entry
    /\ UNCHANGED <<network, inbox, registry, accepted, stdin, client, start, write>>

\* The id is looked up, then the write waits for room in the pipe.
WriteBegin ==
    /\ At("write", "begin")
    /\ IF entry.st # "running" THEN Answer("refused")
       ELSE IF request.of \in accepted[entry.of] THEN Answer("ok")
       ELSE request' = [request EXCEPT !.pc = "reserve"] /\ UNCHANGED replies
    /\ UNCHANGED <<network, inbox, registry, processes, client, start, write>>

\* Mutant: the id is noted with the answer, which a lost connection prevents.
WriteSendNotedLate ==
    /\ At("write", "reserve")
    /\ \/ /\ ~(entry.st = "running" /\ child[entry.of] = "alive")
          /\ Answer("refused") /\ UNCHANGED <<accepted, stdin>>
       \/ /\ entry.st = "running"
          /\ stdin' = [stdin EXCEPT ![entry.of] = Append(@, request.of)]
          /\ accepted' = [accepted EXCEPT ![entry.of] = IF up THEN @ \cup {request.of} ELSE @]
          /\ Answer("ok")
    /\ UNCHANGED <<network, inbox, registry, entry, child, client, start, write>>

\* Nothing is awaited between the send and the note of its id.  The channel
\* is gone with the entry; that of a child that has exited may still be there.
WriteSend ==
    /\ At("write", "reserve")
    /\ \/ /\ ~(entry.st = "running" /\ child[entry.of] = "alive")
          /\ Answer("refused") /\ UNCHANGED <<accepted, stdin>>
       \/ /\ entry.st = "running"
          /\ stdin' = [stdin EXCEPT ![entry.of] = Append(@, request.of)]
          /\ accepted' = [accepted EXCEPT ![entry.of] = @ \cup {request.of}]
          /\ Answer("ok")
    /\ UNCHANGED <<network, inbox, registry, entry, child, client, start, write>>

\* Mutant: only a running process is terminated.
TerminateRunning ==
    /\ At("terminate", "begin")
    /\ Answer("ok")
    /\ child' = IF entry.st = "running" THEN [child EXCEPT ![entry.of] = "dead"] ELSE child
    /\ UNCHANGED <<network, inbox, registry, entry, accepted, stdin, client, start, write>>

TerminateProcess ==
    /\ At("terminate", "begin")
    /\ Answer("ok")
    /\ CASE entry.st = "running" ->
              child' = [child EXCEPT ![entry.of] = "dead"] /\ UNCHANGED entry
         [] entry.st = "starting" -> entry' = NoEntry /\ UNCHANGED child
         [] OTHER -> UNCHANGED <<entry, child>>
    /\ UNCHANGED <<network, inbox, registry, accepted, stdin, client, start, write>>

ChildExits ==
    /\ entry.st = "running" /\ child[entry.of] = "alive"
    /\ child' = [child EXCEPT ![entry.of] = "dead"]
    /\ UNCHANGED <<network, calls, registry, request, entry, accepted, stdin, client, start, write>>

\* EXITED_PROCESS_RETENTION after Closed.
EntryRetired ==
    /\ entry.st = "running" /\ child[entry.of] = "dead"
    /\ entry' = NoEntry
    /\ UNCHANGED <<network, calls, registry, request, child, accepted, stdin, client, start, write>>

\* The connection's loop ends: the future of the request is dropped where it
\* waits, a child it has spawned and not published dies with it, and the session
\* is detached.
Detach ==
    /\ att.cur # 0 /\ (att.cur # conn \/ ~up)
    /\ child' = IF At("exec", "publish") THEN [child EXCEPT ![request.of] = "dead"] ELSE child
    /\ request' = NoRequest /\ inbox' = << >>
    /\ att' = [cur |-> 0, det |-> att.cur, overdue |-> FALSE]
    /\ timers' = timers \cup {att.cur}
    /\ UNCHANGED <<network, replies, session, entry, accepted, stdin, client, start, write>>

\* DETACHED_SESSION_TTL passes.
Overdue ==
    /\ att.cur = 0 /\ ~att.overdue
    /\ att' = [att EXCEPT !.overdue = TRUE]
    /\ UNCHANGED <<network, calls, session, timers, request, processes, client, start, write>>

\* The timer of a detached connection goes off after its own deadline.
TimerMayFire(c) == c \in timers /\ (att.det = c => att.overdue)

\* Mutant: does not ask whether the session was resumed meanwhile.
ExpireUnchecked(c) ==
    /\ TimerMayFire(c)
    /\ timers' = timers \ {c}
    /\ session' = IF session = "live" THEN "removed" ELSE session
    /\ UNCHANGED <<network, calls, att, request, processes, client, start, write>>

ExpireIfDetached(c) ==
    /\ TimerMayFire(c)
    /\ timers' = timers \ {c}
    /\ session' = IF session = "live" /\ att.cur = 0 /\ att.det = c /\ att.overdue
                  THEN "removed" ELSE session
    /\ UNCHANGED <<network, calls, att, request, processes, client, start, write>>

\* process.shutdown() of a session that left the registry.
Shutdown ==
    /\ session = "removed"
    /\ session' = "shut" /\ entry' = NoEntry
    /\ child' = IF entry.st = "running" THEN [child EXCEPT ![entry.of] = "dead"] ELSE child
    /\ UNCHANGED <<network, calls, att, timers, request, accepted, stdin, client, start, write>>

(***************************************************************************)
(* The client.                                                             *)
(***************************************************************************)
Usable == client = "connected" /\ up
Send(op, of) == inbox' = Append(inbox, <<op, of>>)

StartProcess ==
    /\ Usable /\ start.st = "idle" /\ start.of < MaxStarts
    /\ start' = [st |-> "calling", of |-> start.of + 1]
    /\ Send("exec", start.of + 1)
    /\ UNCHANGED <<network, replies, registry, request, processes, client, write>>

\* The caller may have gone by the time of the answer.
StartAnswered ==
    \E r \in replies :
       /\ start.st = "calling" /\ r[1] = "exec"
       /\ replies' = replies \ {r}
       /\ \/ r[3] = "ok" /\ start' = [start EXCEPT !.st = "ok"]
          \/ r[3] = "ok" /\ start' = [start EXCEPT !.st = "cleanup"]
          \/ r[3] = "error" /\ start' = [start EXCEPT !.st = "idle"]
       /\ UNCHANGED <<network, inbox, registry, request, processes, client, write>>

\* Mutant: a start whose answer was lost is reported and forgotten.
StartForgotten ==
    /\ start.st = "lost"
    /\ start' = [start EXCEPT !.st = "idle"]
    /\ UNCHANGED <<network, calls, registry, request, processes, client, write>>

StartLost ==
    /\ start.st = "lost"
    /\ start' = [start EXCEPT !.st = "cleanup"]
    /\ UNCHANGED <<network, calls, registry, request, processes, client, write>>

\* cleanup_process_start: terminate until it is answered or the client failed.
Cleanup ==
    /\ start.st = "cleanup" /\ Usable
    /\ start' = [start EXCEPT !.st = "cleaning"] /\ Send("terminate", start.of)
    /\ UNCHANGED <<network, replies, registry, request, processes, client, write>>

CleanupAnswered ==
    \E r \in replies :
       /\ start.st = "cleaning" /\ r[1] = "terminate"
       /\ replies' = replies \ {r}
       /\ start' = [start EXCEPT !.st = "idle"]
       /\ UNCHANGED <<network, inbox, registry, request, processes, client, write>>

CleanupGivesUp ==
    /\ start.st = "cleanup" /\ client = "failed"
    /\ start' = [start EXCEPT !.st = "idle"]
    /\ UNCHANGED <<network, calls, registry, request, processes, client, write>>

Terminate ==
    /\ Usable /\ start.st = "ok"
    /\ start' = [start EXCEPT !.st = "ended"] /\ Send("terminate", start.of)
    /\ UNCHANGED <<network, replies, registry, request, processes, client, write>>

WriteChunk(w) ==
    /\ Usable /\ \/ write[w] = "idle" /\ start.st = "ok"
                 \/ write[w] = "retry"
    /\ write' = [write EXCEPT ![w] = "calling"] /\ Send("write", w)
    /\ UNCHANGED <<network, replies, registry, request, processes, client, start>>

WriteAnswered(w) ==
    \E r \in replies :
       /\ write[w] = "calling" /\ r[1] = "write" /\ r[2] = w
       /\ replies' = replies \ {r}
       /\ write' = [write EXCEPT ![w] = r[3]]
       /\ UNCHANGED <<network, inbox, registry, request, processes, client, start>>

WriteFails(w) ==
    /\ write[w] = "retry" /\ client = "failed"
    /\ write' = [write EXCEPT ![w] = "failed"]
    /\ UNCHANGED <<network, calls, registry, request, processes, client, start>>

\* request_recovery; the recovery waits until no start is in flight.
RequestRecovery ==
    /\ client = "connected" /\ ~up
    /\ client' = "recovering"
    /\ UNCHANGED <<network, calls, registry, request, processes, start, write>>

Resuming == client = "recovering" /\ ~up /\ start.st # "lost"

\* SessionRegistry::attach.  While the server has not noticed that the old
\* connection is gone it refuses, and the client tries again.
Attach ==
    /\ Resuming /\ session = "live" /\ ~att.overdue /\ att.cur = 0
    /\ conn' = conn + 1 /\ up' = TRUE
    /\ att' = [cur |-> conn + 1, det |-> 0, overdue |-> FALSE]
    /\ client' = "candidate"
    /\ UNCHANGED <<drops, calls, session, timers, request, processes, start, write>>

AttachRefused ==
    /\ Resuming /\ (session # "live" \/ att.overdue)
    /\ session' = IF session = "live" THEN "removed" ELSE session
    /\ client' = "failed"
    /\ UNCHANGED <<network, calls, att, timers, request, processes, start, write>>

InstallRecoveredClient ==
    /\ client = "candidate"
    /\ client' = IF up THEN "connected" ELSE "recovering"
    /\ UNCHANGED <<network, calls, registry, request, processes, start, write>>

\* SESSION_RECOVERY_TIMEOUT passes; a candidate connection is closed.
RecoveryTimeout ==
    /\ client \in {"recovering", "candidate"}
    /\ client' = "failed" /\ up' = FALSE
    /\ UNCHANGED <<conn, drops, calls, registry, request, processes, start, write>>

ServerStep ==
    \/ Begin \/ ExecInsert \/ ExecSpawn \/ ExecPublish
    \/ WriteBegin \/ WriteSend \/ TerminateProcess \/ Shutdown

ClientStep ==
    \/ StartAnswered \/ StartLost \/ Cleanup \/ CleanupAnswered \/ CleanupGivesUp
    \/ RequestRecovery \/ Attach \/ AttachRefused \/ InstallRecoveredClient

Next ==
    \/ ServerStep \/ ClientStep
    \/ ChildExits \/ EntryRetired \/ Detach \/ Overdue
    \/ \E c \in timers : ExpireIfDetached(c)
    \/ StartProcess \/ Terminate \/ RecoveryTimeout \/ Drop
    \/ \E w \in Writes : WriteChunk(w) \/ WriteAnswered(w) \/ WriteFails(w)

Spec == Init /\ [][Next]_vars

\* The server works through its requests, notices dead connections and its clock
\* runs; the client goes on with what it has begun.
LiveSpec ==
    /\ Spec
    /\ WF_vars(ServerStep) /\ WF_vars(ClientStep)
    /\ WF_vars(Detach) /\ WF_vars(Overdue)
    /\ \A c \in 1..(MaxDrops + 1) : WF_vars(c \in timers /\ ExpireIfDetached(c))

(***************************************************************************)
(* Properties.                                                             *)
(***************************************************************************)
\* Type invariant; an attached session has no mark of a detached connection.
TypeOK ==
    /\ conn \in 1..(MaxDrops + 1) /\ up \in BOOLEAN /\ drops \in 0..MaxDrops
    /\ session \in {"live", "removed", "shut"} /\ timers \subseteq 1..conn
    /\ att \in [cur : 0..conn, det : 0..conn, overdue : BOOLEAN]
    /\ request.op \in {"none", "exec", "write", "terminate"}
    /\ entry \in [st : {"none", "starting", "running"}, of : 0..MaxStarts]
    /\ child \in [Starts -> {"none", "alive", "dead"}]
    /\ accepted \in [Starts -> SUBSET Writes] /\ stdin \in [Starts -> Seq(Writes)]
    /\ client \in {"connected", "recovering", "candidate", "failed"}
    /\ start \in [st : {"idle", "calling", "lost", "ok", "cleanup", "cleaning", "ended"}, of : 0..MaxStarts]
    /\ write \in [Writes -> {"idle", "calling", "retry", "ok", "refused", "failed"}]
    /\ att.cur # 0 => att.det = 0

\* A write that is retried after a reconnect is handed to the writer of stdin
\* once, and one that was acknowledged has been handed to it.
WrittenOnce ==
    /\ \A k \in Starts : IsInjective(stdin[k])
    /\ \A w \in Writes : write[w] = "ok" => \E k \in Starts : w \in Range(stdin[k])

\* A session a connection is attached to is in the registry and its processes
\* have not been shut down, whichever timers of earlier connections go off.
AttachedIsLive == att.cur # 0 => session = "live"

Abandoned(k) ==
    \/ k < start.of \/ client = "failed"
    \/ k = start.of /\ start.st \in {"idle", "cleanup", "cleaning"}

\* A process nobody waits for any more does not stay alive: the clean-up
\* terminates it, or the session expires and takes it along.
NoOrphans == \A k \in Starts : (child[k] = "alive" /\ Abandoned(k)) ~> (child[k] = "dead")

\* A cancelled start does not block its process id for good.
StartingResolves == (entry.st = "starting") ~> (entry.st # "starting")
=============================================================================
