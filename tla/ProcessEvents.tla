---------------------------- MODULE ProcessEvents ----------------------------
(***************************************************************************)
(* How the events of a remote process reach the subscribers of a client of *)
(* the Codex exec-server, across lost connections (exec-server/src:        *)
(* local_process.rs numbers the events, client.rs puts them back in order, *)
(* client_recovery.rs resumes the session and fills the gaps).             *)
(*                                                                         *)
(* One task per output stream and one for the exit append to the log of    *)
(* the process under its lock and notify the client after releasing it, so *)
(* notifications overtake each other; a notification sent to a dead        *)
(* connection is lost.  After a reconnect the client reads what is         *)
(* retained: output has numbers, the exit is only known to have happened   *)
(* and its place is inferred from the numbers that are missing.            *)
(*                                                                         *)
(* A process is followed from the moment it started.  Streams of a session *)
(* are independent, so one process is enough.  Time is abstracted: the     *)
(* session may expire whenever it is detached, the entry of a process may  *)
(* go whenever it is closed, and the client may give up at any time.       *)
(***************************************************************************)
EXTENDS Naturals, Sequences, FiniteSets, SequencesExt

CONSTANTS
    Streams,      \* the output streams of the process
    MaxOutputs,   \* bound: chunks of output
    Retained,     \* RETAINED_OUTPUT_CHUNKS_PER_PROCESS
    MaxPending,   \* MAX_PENDING_PROCESS_EVENTS
    MaxLosses     \* bound: lost connections

ASSUME EventsAssumption ==
    /\ IsFiniteSet(Streams) /\ "exit" \notin Streams
    /\ {MaxOutputs, Retained, MaxPending, MaxLosses} \subseteq Nat

VARIABLES
    log,        \* kinds of the numbered events; the next number is Len(log) + 1
    retained,   \* numbers of the output chunks the server still has
    task,       \* what each task of the server does next
    note,       \* the number of the event a task has to notify
    procEntry,  \* "kept", "removed" from the process map, session "expired"
    sender,     \* connection the server notifies: "none", "stale" or "live"
    link,       \* is the newest connection up?
    losses,
    wire,       \* numbers of the notifications on their way to the client
    recovery,   \* ConnectionStatus, with the step of a recovery
    response,   \* answer to the read of a recovery, NoResponse, or Unknown
    feed,       \* OrderedSessionEvents: published and pending events
    failed      \* why the feed failed: "no", "gap", "overflow", "gaveup"

server == <<log, retained, task, note, procEntry>>
eventVars == <<log, retained, task, note, procEntry, sender, link, losses, wire, recovery,
               response, feed, failed>>

Tasks == Streams \cup {"exit"}
Logged(kind) == \E n \in DOMAIN log : log[n] = kind
Outputs == {n \in DOMAIN log : log[n] = "out"}
Kinds == {"out", "exit", "close"}
NoResponse == [status |-> "none", chunks |-> {}, last |-> 0, exited |-> FALSE, closed |-> FALSE]

EventsInit ==
    /\ log = << >> /\ retained = {}
    /\ task = [t \in Tasks |-> "run"] /\ note = [t \in Tasks |-> 0]
    /\ procEntry = "kept" /\ sender = "live" /\ link = TRUE /\ losses = 0
    /\ wire = << >> /\ recovery = "connected" /\ response = NoResponse
    /\ feed = [pub |-> << >>, pend |-> {}] /\ failed = "no"

(***************************************************************************)
(* The server.                                                             *)
(***************************************************************************)
\* An event gets its number and its place under the lock, its task notifies later.
Number(t, kind) ==
    /\ log' = Append(log, kind)
    /\ note' = [note EXCEPT ![t] = Len(log) + 1]
    /\ task' = [task EXCEPT ![t] = "notify"]

Evicted(chunks) ==
    {n \in chunks : Cardinality({m \in chunks : m >= n}) > Retained}

Output(s) ==
    /\ s \in Streams /\ task[s] = "run" /\ procEntry = "kept"
    /\ Cardinality(Outputs) < MaxOutputs
    /\ Number(s, "out")
    /\ LET chunks == retained \cup {Len(log) + 1}
       IN  retained' = chunks \ Evicted(chunks)
    /\ UNCHANGED <<procEntry, sender, link, losses, wire, recovery, response, feed, failed>>

FinishOutput(s) ==
    /\ s \in Streams /\ task[s] = "run" /\ procEntry = "kept"
    /\ task' = [task EXCEPT ![s] = "check"]
    /\ UNCHANGED <<log, retained, note, procEntry, sender, link, losses, wire, recovery,
                   response, feed, failed>>

WatchExit ==
    /\ task["exit"] = "run" /\ procEntry = "kept"
    /\ Number("exit", "exit")
    /\ UNCHANGED <<retained, procEntry, sender, link, losses, wire, recovery, response, feed, failed>>

OpenStreams == {s \in Streams : task[s] = "run" \/ (task[s] = "notify" /\ log[note[s]] = "out")}

MaybeEmitClosed(t) ==
    /\ task[t] = "check" /\ procEntry = "kept"
    /\ IF Logged("close") \/ OpenStreams # {} \/ ~Logged("exit")
       THEN task' = [task EXCEPT ![t] = "done"] /\ UNCHANGED <<log, note>>
       ELSE Number(t, "close")
    /\ UNCHANGED <<retained, procEntry, sender, link, losses, wire, recovery, response, feed, failed>>

AfterNotify(t) ==
    CASE log[note[t]] = "out" -> "run" [] log[note[t]] = "exit" -> "check" [] OTHER -> "done"

\* The sender is looked up now, after the event was numbered.
Notify(t) ==
    /\ task[t] = "notify"
    /\ task' = [task EXCEPT ![t] = AfterNotify(t)]
    /\ note' = [note EXCEPT ![t] = 0]
    /\ wire' = IF sender = "live" THEN Append(wire, note[t]) ELSE wire
    /\ UNCHANGED <<log, retained, procEntry, sender, link, losses, recovery, response, feed, failed>>

\* EXITED_PROCESS_RETENTION after Closed the entry goes.
RemoveClosed ==
    /\ procEntry = "kept" /\ Logged("close")
    /\ procEntry' = "removed"
    /\ UNCHANGED <<log, retained, task, note, sender, link, losses, wire, recovery, response, feed, failed>>

\* The server notices that the connection is gone.
DetachSender ==
    /\ sender = "stale" /\ sender' = "none"
    /\ UNCHANGED <<server, link, losses, wire, recovery, response, feed, failed>>

Expire ==
    /\ sender = "none" /\ procEntry # "expired"
    /\ procEntry' = "expired"
    /\ UNCHANGED <<log, retained, task, note, sender, link, losses, wire, recovery, response, feed, failed>>

(***************************************************************************)
(* The network: with the connection go the messages on it.                 *)
(***************************************************************************)
LoseConnection ==
    /\ link /\ losses < MaxLosses
    /\ link' = FALSE /\ losses' = losses + 1
    /\ sender' = IF sender = "live" THEN "stale" ELSE sender
    /\ wire' = << >> /\ response' = NoResponse
    /\ UNCHANGED <<server, recovery, feed, failed>>

(***************************************************************************)
(* The ordered feed of the client.                                         *)
(***************************************************************************)
Published(kind) == \E n \in DOMAIN feed.pub : feed.pub[n] = kind
Registered == failed = "no" /\ ~Published("close")
Numbers(events) == {e[1] : e \in events}

\* The first number that neither was published nor is in events.
FirstMissing(events) ==
    CHOOSE n \in (Len(feed.pub) + 1)..(Len(feed.pub) + Cardinality(events) + 1) :
       /\ n \notin Numbers(events)
       /\ \A m \in (Len(feed.pub) + 1)..(n - 1) : m \in Numbers(events)

\* publish_ready, with events for the reorder buffer.
PublishReady(events) ==
    LET hole == FirstMissing(events)
        kind(n) == CHOOSE k \in Kinds : <<n, k>> \in events
    IN  [pub |-> feed.pub \o [i \in 1..(hole - Len(feed.pub) - 1) |-> kind(Len(feed.pub) + i)],
         pend |-> {e \in events : e[1] > hole}]

\* An event that does not close the gap needs room in the reorder buffer.
Overflow(seq) == seq # Len(feed.pub) + 1 /\ Cardinality(feed.pend) >= MaxPending

\* publish_ordered_event, on behalf of the reader of the newest connection.
Deliver ==
    /\ link /\ wire # << >>
    /\ wire' = Tail(wire)
    /\ LET seq == Head(wire)
       IN  IF ~Registered \/ seq <= Len(feed.pub) \/ seq \in Numbers(feed.pend)
           THEN UNCHANGED <<feed, failed>>
           ELSE IF Overflow(seq)
           THEN failed' = "overflow" /\ feed' = [feed EXCEPT !.pend = {}]
           ELSE feed' = PublishReady(feed.pend \cup {<<seq, log[seq]>>}) /\ UNCHANGED failed
    /\ UNCHANGED <<server, sender, link, losses, recovery, response>>

(***************************************************************************)
(* Recovery.                                                               *)
(***************************************************************************)
StartRecovery ==
    /\ recovery = "connected" /\ ~link
    /\ recovery' = "connect"
    /\ UNCHANGED <<server, sender, link, losses, wire, response, feed, failed>>

\* Mutant: the resumed session goes on without a connection to notify.
ResumeSilently ==
    /\ recovery = "connect" /\ sender = "none" /\ procEntry # "expired"
    /\ link' = TRUE /\ sender' = "stale"
    /\ recovery' = IF Registered THEN "read" ELSE "install"
    /\ UNCHANGED <<server, losses, wire, response, feed, failed>>

\* Until the server has noticed the disconnect it refuses and the client retries.
Resume ==
    /\ recovery = "connect" /\ sender = "none" /\ procEntry # "expired"
    /\ link' = TRUE /\ sender' = "live"
    /\ recovery' = IF Registered THEN "read" ELSE "install"
    /\ UNCHANGED <<server, losses, wire, response, feed, failed>>

\* Mutant: the first chunk the client has not published is skipped.
ExecReadOffByOne ==
    /\ recovery = "read" /\ link /\ response.status = "none"
    /\ response' = [status |-> IF procEntry = "kept" THEN "found" ELSE "unknown",
                    chunks |-> {n \in retained : n > Len(feed.pub) + 1},
                    last |-> Len(log), exited |-> Logged("exit"), closed |-> Logged("close")]
    /\ UNCHANGED <<server, sender, link, losses, wire, recovery, feed, failed>>

ExecRead ==
    /\ recovery = "read" /\ link /\ response.status = "none"
    /\ response' = [status |-> IF procEntry = "kept" THEN "found" ELSE "unknown",
                    chunks |-> {n \in retained : n > Len(feed.pub)},
                    last |-> Len(log), exited |-> Logged("exit"), closed |-> Logged("close")]
    /\ UNCHANGED <<server, sender, link, losses, wire, recovery, feed, failed>>

Conflict ==
    /\ response.closed
    /\ \/ \E e \in feed.pend : e[1] = response.last /\ e[2] # "close"
       \/ response.last \in response.chunks

ExitKnown ==
    Published("exit") \/ \E e \in feed.pend : e[1] <= response.last /\ e[2] = "exit"

\* What the answer adds to the buffer: its chunks and, by its number, Closed.
Recovered ==
    feed.pend \cup {<<n, "out">> : n \in response.chunks}
              \cup IF response.closed THEN {<<response.last, "close">>} ELSE {}

Missing(events) == ((Len(feed.pub) + 1)..response.last) \ Numbers(events)

\* Mutant: the exit is taken to be the last event that is not Closed.
WithExitLast ==
    IF response.exited /\ ~ExitKnown /\ Cardinality(Missing(Recovered)) = 1
    THEN {<<IF e[1] >= FirstMissing(Recovered) /\ e[2] = "out" THEN e[1] - 1 ELSE e[1], e[2]>> : e \in Recovered}
         \cup {<<response.last - (IF response.closed THEN 1 ELSE 0), "exit">>}
    ELSE Recovered

\* The exit is taken to be the first number missing before a retained chunk, or
\* else the only number missing.  The source inserts and publishes chunk by
\* chunk; what can be published is the same in any order.
WithExit ==
    LET hole == FirstMissing(Recovered)
    IN  IF /\ response.exited /\ ~ExitKnown
           /\ (\E n \in response.chunks : n > hole) \/ Missing(Recovered) = {hole}
        THEN Recovered \cup {<<hole, "exit">>}
        ELSE Recovered

\* recover_events: what it makes of the feed, and whether it fails.
RecoverEvents ==
    IF ~Registered \/ response.last <= Len(feed.pub) THEN [feed |-> feed, err |-> FALSE]
    ELSE IF Conflict THEN [feed |-> feed, err |-> TRUE]
    ELSE [feed |-> PublishReady(WithExit), err |-> Missing(WithExit) # {}]

Recover ==
    /\ recovery = "read" /\ link /\ response.status # "none"
    /\ IF response.status = "unknown"
       THEN recovery' = "gap" /\ UNCHANGED feed
       ELSE /\ feed' = RecoverEvents.feed
            /\ recovery' = IF RecoverEvents.err THEN "gap" ELSE "install"
    /\ response' = NoResponse
    /\ UNCHANGED <<server, sender, link, losses, wire, failed>>

\* The process is terminated, then its feed fails.
FailFeed ==
    /\ recovery = "gap" /\ link
    /\ recovery' = "install"
    /\ IF Registered THEN failed' = "gap" /\ feed' = [feed EXCEPT !.pend = {}]
       ELSE UNCHANGED <<feed, failed>>
    /\ UNCHANGED <<server, sender, link, losses, wire, response>>

InstallClient ==
    /\ recovery = "install" /\ link
    /\ recovery' = "connected"
    /\ UNCHANGED <<server, sender, link, losses, wire, response, feed, failed>>

\* The candidate connection died: the attempt is repeated on a new one.
RetryRecovery ==
    /\ recovery \in {"read", "gap", "install"} /\ ~link
    /\ recovery' = "connect"
    /\ UNCHANGED <<server, sender, link, losses, wire, response, feed, failed>>

Fail ==
    /\ recovery' = "failed" /\ link' = FALSE
    /\ sender' = IF sender = "live" THEN "stale" ELSE sender
    /\ wire' = << >> /\ response' = NoResponse
    /\ IF Registered THEN failed' = "gaveup" /\ feed' = [feed EXCEPT !.pend = {}]
       ELSE UNCHANGED <<feed, failed>>
    /\ UNCHANGED <<server, losses>>

\* The server no longer knows the session: not worth a retry.
ResumeRefused == recovery = "connect" /\ procEntry = "expired" /\ Fail

\* SESSION_RECOVERY_TIMEOUT passes.
RecoveryTimesOut == recovery \in {"connect", "read", "gap", "install"} /\ Fail

TaskStep(t) == Output(t) \/ FinishOutput(t) \/ MaybeEmitClosed(t) \/ Notify(t)
RecoveryStep ==
    \/ StartRecovery \/ Resume \/ ExecRead \/ Recover \/ FailFeed
    \/ InstallClient \/ RetryRecovery \/ ResumeRefused

EventsNext ==
    \/ \E t \in Tasks : TaskStep(t)
    \/ WatchExit \/ RemoveClosed \/ DetachSender \/ Expire
    \/ LoseConnection \/ Deliver \/ RecoveryStep \/ RecoveryTimesOut

EventsSpec == EventsInit /\ [][EventsNext]_eventVars

\* Tasks run, streams end, what is on the wire arrives, the server notices a
\* dead connection and a recovery goes on.
EventsLiveSpec ==
    /\ EventsSpec
    /\ \A t \in Tasks : WF_eventVars(Notify(t)) /\ WF_eventVars(MaybeEmitClosed(t))
    /\ WF_eventVars(DetachSender) /\ WF_eventVars(Deliver) /\ WF_eventVars(RecoveryStep)

(***************************************************************************)
(* Properties.                                                             *)
(***************************************************************************)
\* Type invariant; what is pending is beyond a gap.
EventsTypeOK ==
    /\ log \in Seq(Kinds) /\ retained \subseteq Outputs
    /\ task \in [Tasks -> {"run", "notify", "check", "done"}] /\ note \in [Tasks -> 0..Len(log)]
    /\ procEntry \in {"kept", "removed", "expired"} /\ sender \in {"none", "stale", "live"}
    /\ link \in BOOLEAN /\ losses \in 0..MaxLosses /\ Range(wire) \subseteq DOMAIN log
    /\ recovery \in {"connected", "connect", "read", "gap", "install", "failed"}
    /\ feed.pub \in Seq(Kinds) /\ \A e \in feed.pend : e[1] > Len(feed.pub) + 1 /\ e[2] \in Kinds
    /\ failed \in {"no", "gap", "overflow", "gaveup"}

\* While the server has all output, subscribers have seen a beginning of the
\* log: nothing twice, nothing out of order, the inferred exit in its place.
FeedIsPrefix == Outputs = retained => IsPrefix(feed.pub, log)

\* A process is given up as not recoverable only if the server no longer had
\* its output or its entry.
GapIsReal == failed = "gap" => (Outputs # retained \/ procEntry # "kept")

\* Subscribers learn that the process closed, or that its feed failed.
CloseDelivered == Logged("close") ~> (Published("close") \/ failed # "no")
=============================================================================
