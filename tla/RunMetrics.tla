----------------------------- MODULE RunMetrics -----------------------------
(***************************************************************************)
(* The durable cost and time ledger of utilities/run_metrics.py.           *)
(*                                                                         *)
(* Every attempt at a benchmark instance owns one RunMetricsRecorder.  Its *)
(* main thread starts the attempt, brackets API calls and finishes it; its *)
(* daemon heartbeat thread checkpoints the attempt in between.  All of     *)
(* them, in every thread of every process that shares the output           *)
(* directory, read, change and rewrite one file, run_metrics.json, under   *)
(* _PROCESS_LOCK and flock, and then rewrite the two reports derived from  *)
(* it.  A write replaces its file atomically, but the three writes are     *)
(* three steps: a process may die, or a write fail, between any two.       *)
(*                                                                         *)
(* A recorder is used for one attempt, so recorders name attempts.  Times, *)
(* token counts and amounts of money are left out.                         *)
(***************************************************************************)
EXTENDS Naturals, Sequences, FiniteSets

CONSTANTS
    Recorders,     \* RunMetricsRecorder objects; each is one attempt
    Instances,     \* benchmark instances
    Processes,     \* benchmark processes sharing the output directory
    InstanceOf,    \* the instance a recorder was built for
    ProcessOf,     \* the process a recorder lives in
    MaxCalls,      \* bound: API calls per attempt
    MaxFaults,     \* bound: crashes and failed reads or writes
    ReadsCanFail   \* whether reading an existing run_metrics.json may fail

ASSUME ConstantsAssumption ==
    /\ IsFiniteSet(Recorders)
    /\ InstanceOf \in [Recorders -> Instances]
    /\ ProcessOf \in [Recorders -> Processes]
    /\ MaxCalls \in Nat
    /\ MaxFaults \in Nat
    /\ ReadsCanFail \in BOOLEAN

VARIABLES
    ledger,     \* run_metrics.json: attempt of each recorder
    report,     \* cost_time_report.json
    csv,        \* cost_time_report.csv
    lock,       \* holder of _PROCESS_LOCK and of the flock
    work,       \* what each thread does inside _locked_ledger
    phase,      \* life cycle of each recorder
    heartbeat,  \* state of each heartbeat thread
    call,       \* the API call each main thread is in; 0 when in none
    ncalls,     \* API calls each main thread has made
    faults,     \* crashes and I/O errors so far
    begun,      \* history: calls whose marker reached run_metrics.json
    dropped     \* history: recorders that swallowed a failed ledger write

vars == <<ledger, report, csv, lock, work, phase, heartbeat, call, ncalls,
          faults, begun, dropped>>

-----------------------------------------------------------------------------
(* The contents of run_metrics.json.                                       *)

Main(r) == <<r, "main">>
Heart(r) == <<r, "heartbeat">>
Threads == Recorders \X {"main", "heartbeat"}
Free == <<"free">>

EndStatus == {"completed", "failed", "interrupted"}

\* The API calls an attempt may list; an entry of api_calls is known by the
\* call it stands for.
ApiCalls == 1..MaxCalls

\* An attempt; status "absent" when the ledger has none for the recorder,
\* pending 0 when there is no in_progress_api_call, reason "none" when there
\* is no interruption_reason.
Attempt == [status : {"absent", "running"} \cup EndStatus,
            calls : Seq(ApiCalls), pending : 0..MaxCalls,
            reason : {"none", "superseded"}]

NoAttempt == [status |-> "absent", calls |-> <<>>, pending |-> 0,
              reason |-> "none"]

NewAttempt == [NoAttempt EXCEPT !.status = "running"]

\* What _load_ledger returns for a missing or an unreadable file.
EmptyLedger == [r \in Recorders |-> NoAttempt]

Ledgers == [Recorders -> Attempt]

\* Variant: the pending call is forgotten.
SettleForgets(a) == [a EXCEPT !.pending = 0]

\* A pending in_progress_api_call becomes an entry of api_calls.
Settle(a) ==
    [a EXCEPT !.pending = 0,
              !.calls = IF a.pending = 0 THEN a.calls
                        ELSE Append(a.calls, a.pending)]

\* Variants: running attempts are left alone; every earlier attempt is
\* interrupted.
StartAttemptKeepsRunning(l, r) == [l EXCEPT ![r] = NewAttempt]

StartAttemptInterruptsAll(l, r) ==
    [q \in Recorders |->
        IF q = r THEN NewAttempt
        ELSE IF InstanceOf[q] = InstanceOf[r] /\ l[q].status # "absent"
             THEN [Settle(l[q])
                     EXCEPT !.status = "interrupted", !.reason = "superseded"]
             ELSE l[q]]

\* Every running attempt at the instance is interrupted, then the new one
\* is appended.
StartAttempt(l, r) ==
    [q \in Recorders |->
        IF q = r THEN NewAttempt
        ELSE IF InstanceOf[q] = InstanceOf[r] /\ l[q].status = "running"
             THEN [Settle(l[q])
                     EXCEPT !.status = "interrupted", !.reason = "superseded"]
             ELSE l[q]]

BeginApiCall(l, r, n) == [l EXCEPT ![r].pending = n]

RecordApiCall(l, r, n) ==
    [l EXCEPT ![r] = [@ EXCEPT !.pending = 0, !.calls = Append(l[r].calls, n)]]

FinishAttempt(l, r, s) ==
    [l EXCEPT ![r] = [Settle(l[r]) EXCEPT !.status = s]]

\* completed_instance_ids: what a resumed run regards as done.
CompletedInstanceIds(l) ==
    {InstanceOf[r] : r \in {q \in Recorders : l[q].status = "completed"}}

\* _build_report: per instance, its attempts by status and its calls.
AttemptsOf(l, i, S) ==
    Cardinality({r \in Recorders : InstanceOf[r] = i /\ l[r].status \in S})

CallsOf(l, i) ==
    UNION {{<<r, k>> : k \in DOMAIN l[r].calls} :
             r \in {q \in Recorders : InstanceOf[q] = i}}

InstanceSummary(l, i) ==
    [attempts     |-> AttemptsOf(l, i, {"running"} \cup EndStatus),
     completed    |-> AttemptsOf(l, i, {"completed"}),
     interrupted  |-> AttemptsOf(l, i, {"interrupted"}),
     failed       |-> AttemptsOf(l, i, {"failed"}),
     apiCalls     |-> Cardinality(CallsOf(l, i))]

BuildReport(l) == [i \in Instances |-> InstanceSummary(l, i)]
-----------------------------------------------------------------------------
(* _locked_ledger: lock, load, change, write the ledger, write the two     *)
(* reports, unlock.                                                        *)

Idle == [stage |-> "idle", data |-> EmptyLedger]

\* Variant: no lock is taken.
EnterUnlocked(t, l, raises, new) ==
    /\ l = ledger /\ faults' = faults
    /\ lock' = t
    /\ work' = [work EXCEPT ![t] = [stage |-> "ledger", data |-> new]]
    /\ UNCHANGED <<ledger, report, csv, begun, dropped>>

\* Thread t takes the locks and loads l, which is the ledger or, when the
\* file cannot be read, an empty one; the body of the with statement turns
\* it into new, unless it raises.
EnterLocked(t, l, raises, new) ==
    /\ lock = Free
    /\ \/ l = ledger /\ faults' = faults
       \/ /\ ReadsCanFail /\ l = EmptyLedger
          /\ faults < MaxFaults /\ faults' = faults + 1
    /\ lock' = t
    /\ work' = [work EXCEPT ![t] =
                  [stage |-> IF raises THEN "raise" ELSE "ledger",
                   data |-> IF raises THEN l ELSE new]]
    /\ UNCHANGED <<ledger, report, csv, begun, dropped>>

\* _find_attempt raises KeyError when the loaded ledger lacks the attempt.
Missing(l, r) == l[r].status = "absent"

\* What thread t of recorder r goes on to once it has left the locks.
PhaseAfter(t, ok) ==
    LET r == t[1] IN
    IF t # Main(r) THEN phase
    ELSE [phase EXCEPT ![r] =
            CASE @ = "starting" -> IF ok THEN "open" ELSE "closed"
              [] @ = "closing"  -> "closed"
              [] OTHER          -> @]

HeartbeatAfter(t, ok) ==
    LET r == t[1] IN
    IF t = Main(r)
    THEN [heartbeat EXCEPT ![r] =
            IF phase[r] = "starting" /\ ok THEN "asleep" ELSE @]
    ELSE [heartbeat EXCEPT ![r] =
            IF @ = "returning" THEN "stopped" ELSE "asleep"]

LeaveLocked(t, ok) ==
    /\ lock' = Free
    /\ work' = [work EXCEPT ![t] = Idle]
    /\ phase' = PhaseAfter(t, ok)
    /\ heartbeat' = HeartbeatAfter(t, ok)

WriteLedger(t) ==
    /\ work[t].stage = "ledger"
    /\ ledger' = work[t].data
    /\ work' = [work EXCEPT ![t].stage = "report"]
    /\ begun' = begun \cup
                  {<<r, work[t].data[r].pending>> :
                     r \in {q \in Recorders : work[t].data[q].pending # 0}}
    /\ UNCHANGED <<report, csv, lock, phase, heartbeat, call, ncalls, faults,
                   dropped>>

\* Variant: the report is only written when the attempt ends.
WriteReportAtEnd(t) ==
    /\ work[t].stage = "report"
    /\ report' = IF phase[t[1]] = "closing" THEN BuildReport(work[t].data)
                 ELSE report
    /\ work' = [work EXCEPT ![t].stage = "csv"]
    /\ UNCHANGED <<ledger, csv, lock, phase, heartbeat, call, ncalls, faults,
                   begun, dropped>>

WriteReport(t) ==
    /\ work[t].stage = "report"
    /\ report' = BuildReport(work[t].data)
    /\ work' = [work EXCEPT ![t].stage = "csv"]
    /\ UNCHANGED <<ledger, csv, lock, phase, heartbeat, call, ncalls, faults,
                   begun, dropped>>

WriteCsv(t) ==
    /\ work[t].stage = "csv"
    /\ csv' = BuildReport(work[t].data)
    /\ LeaveLocked(t, TRUE)
    /\ UNCHANGED <<ledger, report, call, ncalls, faults, begun, dropped>>

\* The body raised, or a write did: the locks are released and nothing
\* more is written.  _start_attempt lets the exception out of the
\* constructor; safe_metrics_call and the heartbeat loop swallow it.
Raise(t) ==
    /\ \/ work[t].stage = "raise" /\ faults' = faults
       \/ /\ work[t].stage \in {"ledger", "report", "csv"}
          /\ faults < MaxFaults /\ faults' = faults + 1
    /\ dropped' = IF work[t].stage \in {"raise", "ledger"} /\ t = Main(t[1])
                  THEN dropped \cup {t[1]} ELSE dropped
    /\ LeaveLocked(t, FALSE)
    /\ UNCHANGED <<ledger, report, csv, call, ncalls, begun>>

-----------------------------------------------------------------------------
(* The recorder's operations.                                              *)

\* RunMetricsRecorder(...): _start_attempt.
Start(r) ==
    /\ phase[r] = "new"
    /\ \E l \in {ledger, EmptyLedger} :
         EnterLocked(Main(r), l, FALSE, StartAttempt(l, r))
    /\ phase' = [phase EXCEPT ![r] = "starting"]
    /\ UNCHANGED <<heartbeat, call, ncalls>>

\* The main thread is between two operations of its recorder.
Ready(r) == phase[r] = "open" /\ work[Main(r)].stage = "idle"

\* begin_api_call, just before a model is asked.
BeginCall(r) ==
    /\ Ready(r) /\ call[r] = 0 /\ ncalls[r] < MaxCalls
    /\ \E l \in {ledger, EmptyLedger} :
         EnterLocked(Main(r), l, Missing(l, r),
                     BeginApiCall(l, r, ncalls[r] + 1))
    /\ ncalls' = [ncalls EXCEPT ![r] = @ + 1]
    /\ call' = [call EXCEPT ![r] = ncalls[r] + 1]
    /\ UNCHANGED <<phase, heartbeat>>

\* record_api_call: the answer, or the failure, of the call in progress, or
\* one more usage event for which no call was begun.
RecordCall(r) ==
    /\ Ready(r) /\ (call[r] # 0 \/ ncalls[r] < MaxCalls)
    /\ LET n == IF call[r] # 0 THEN call[r] ELSE ncalls[r] + 1 IN
       /\ \E l \in {ledger, EmptyLedger} :
            EnterLocked(Main(r), l, Missing(l, r), RecordApiCall(l, r, n))
       /\ ncalls' = [ncalls EXCEPT ![r] = IF call[r] # 0 THEN @ ELSE n]
    /\ call' = [call EXCEPT ![r] = 0]
    /\ UNCHANGED <<phase, heartbeat>>

\* finish, with or without a call in progress; the caller does not use the
\* recorder afterwards.
Finish(r) ==
    /\ Ready(r)
    /\ \E l \in {ledger, EmptyLedger}, s \in EndStatus :
         EnterLocked(Main(r), l, Missing(l, r), FinishAttempt(l, r, s))
    /\ phase' = [phase EXCEPT ![r] = "closing"]
    /\ call' = [call EXCEPT ![r] = 0]
    /\ UNCHANGED <<heartbeat, ncalls>>

\* _heartbeat_loop: _heartbeat_stop.wait times out ...
HeartbeatWake(r) ==
    /\ heartbeat[r] = "asleep" /\ phase[r] = "open"
    /\ heartbeat' = [heartbeat EXCEPT ![r] = "awake"]
    /\ UNCHANGED <<ledger, report, csv, lock, work, phase, call, ncalls,
                   faults, begun, dropped>>

\* ... and, as soon as the locks are free, the loop checkpoints the attempt
\* or finds that it is no longer running and returns.
HeartbeatCheckpoint(r) ==
    /\ heartbeat[r] = "awake"
    /\ \E l \in {ledger, EmptyLedger} :
         /\ EnterLocked(Heart(r), l, Missing(l, r), l)
         /\ heartbeat' = [heartbeat EXCEPT ![r] =
                IF ~Missing(l, r) /\ l[r].status # "running"
                THEN "returning" ELSE "beating"]
    /\ UNCHANGED <<phase, call, ncalls>>

\* The stop event that finish sets ends the wait.
HeartbeatExit(r) ==
    /\ heartbeat[r] = "asleep" /\ phase[r] \in {"closing", "closed"}
    /\ heartbeat' = [heartbeat EXCEPT ![r] = "stopped"]
    /\ UNCHANGED <<ledger, report, csv, lock, work, phase, call, ncalls,
                   faults, begun, dropped>>

\* A process dies: its threads stop where they are and the kernel drops its
\* flock.  Files replaced so far stay replaced.  Recorders not built yet
\* belong to a later run of the benchmark under the same process name.
Crash(p) ==
    LET gone == {r \in Recorders : ProcessOf[r] = p /\ phase[r] # "new"} IN
    /\ faults < MaxFaults /\ faults' = faults + 1
    /\ phase' = [r \in Recorders |-> IF r \in gone THEN "dead" ELSE phase[r]]
    /\ heartbeat' = [r \in Recorders |-> IF r \in gone THEN "stopped"
                                         ELSE heartbeat[r]]
    /\ call' = [r \in Recorders |-> IF r \in gone THEN 0 ELSE call[r]]
    /\ work' = [t \in Threads |-> IF t[1] \in gone THEN Idle ELSE work[t]]
    /\ lock' = IF lock # Free /\ lock[1] \in gone THEN Free ELSE lock
    /\ UNCHANGED <<ledger, report, csv, ncalls, begun, dropped>>

-----------------------------------------------------------------------------
Init ==
    /\ ledger = EmptyLedger
    /\ report = BuildReport(EmptyLedger) /\ csv = BuildReport(EmptyLedger)
    /\ lock = Free
    /\ work = [t \in Threads |-> Idle]
    /\ phase = [r \in Recorders |-> "new"]
    /\ heartbeat = [r \in Recorders |-> "none"]
    /\ call = [r \in Recorders |-> 0]
    /\ ncalls = [r \in Recorders |-> 0]
    /\ faults = 0
    /\ begun = {} /\ dropped = {}

Write(t) == WriteLedger(t) \/ WriteReport(t) \/ WriteCsv(t)

Next ==
    \/ \E r \in Recorders :
         \/ Start(r) \/ BeginCall(r) \/ RecordCall(r) \/ Finish(r)
         \/ HeartbeatWake(r) \/ HeartbeatCheckpoint(r) \/ HeartbeatExit(r)
    \/ \E t \in Threads : Write(t) \/ Raise(t)
    \/ \E p \in Processes : Crash(p)

Spec == Init /\ [][Next]_vars
\* Threads inside _locked_ledger keep going, and a heartbeat thread's wait
\* ends.  Waiting for the locks is strongly fair: every other holder lets go
\* after three writes, and the heartbeats that could take them again first
\* sleep for RUN_METRICS_HEARTBEAT_SECONDS.  Nothing is assumed about main
\* threads outside the locks: a model may take arbitrarily long.
Fairness ==
    /\ \A t \in Threads : WF_vars(Write(t))
    /\ \A r \in Recorders : /\ WF_vars(HeartbeatWake(r))
                            /\ SF_vars(HeartbeatCheckpoint(r))
                            /\ WF_vars(HeartbeatExit(r))

LiveSpec == Spec /\ Fairness

-----------------------------------------------------------------------------
(* Properties.                                                             *)

\* Type invariant of the ledger, its copies and the threads of the recorders.
TypeOK ==
    /\ ledger \in Ledgers
    /\ lock \in Threads \cup {Free}
    /\ work \in [Threads -> [stage : {"idle", "raise", "ledger", "report", "csv"},
                             data : Ledgers]]
    /\ phase \in [Recorders -> {"new", "starting", "open", "closing", "closed",
                                "dead"}]
    /\ heartbeat \in [Recorders -> {"none", "asleep", "awake", "beating",
                                    "returning", "stopped"}]
    /\ call \in [Recorders -> 0..MaxCalls]
    /\ ncalls \in [Recorders -> 0..MaxCalls]
    /\ faults \in 0..MaxFaults
    /\ begun \subseteq Recorders \X (1..MaxCalls)
    /\ dropped \subseteq Recorders

\* An instance has at most one running attempt in the ledger, although
\* recorders for it may be alive in several processes: _start_attempt
\* interrupts whatever it finds running in the same locked step.
OneRunningIn(l) ==
    \A q, r \in Recorders :
        /\ InstanceOf[q] = InstanceOf[r]
        /\ l[q].status = "running" /\ l[r].status = "running"
        => q = r

OneRunning == OneRunningIn(ledger)

\* An API call whose begin_api_call marker reached the disk is never lost:
\* it is still marked as in progress or it is one of the attempt's calls,
\* whatever crashed since, unless its own recorder swallowed a failed write.
CallsAccounted ==
    \A c \in begun :
        c[1] \notin dropped =>
            \/ ledger[c[1]].pending = c[2]
            \/ \E k \in DOMAIN ledger[c[1]].calls :
                  ledger[c[1]].calls[k] = c[2]

\* The reports never claim what the ledger does not hold: whatever step a
\* process dies in, no attempt, completed attempt or API call is counted in
\* cost_time_report.csv and not in the .json, or in the .json and not in
\* run_metrics.json.
Behind(x, y) ==
    \A i \in Instances : /\ x[i].attempts <= y[i].attempts
                         /\ x[i].completed <= y[i].completed
                         /\ x[i].apiCalls <= y[i].apiCalls

ReportNeverAhead == Behind(csv, report) /\ Behind(report, BuildReport(ledger))

\* No step of any process removes an attempt from the ledger or a call from
\* an attempt, and calls already listed are not rewritten.
Retains(l, m) ==
    \A r \in Recorders :
        l[r].status # "absent" =>
            /\ m[r].status # "absent"
            /\ Len(l[r].calls) <= Len(m[r].calls)
            /\ \A k \in 1..Len(l[r].calls) : m[r].calls[k] = l[r].calls[k]

HistoryRetained == [][Retains(ledger, ledger')]_ledger

\* An instance that a resumed run would skip as completed stays completed,
\* even while another attempt at it starts, beats or ends.
CompletedStable ==
    [][CompletedInstanceIds(ledger) \subseteq CompletedInstanceIds(ledger')]_ledger

\* Reports left behind by a crash or a failed write catch up as long as some
\* heartbeat thread runs, because every heartbeat rewrites them.
Stale == BuildReport(ledger) # report \/ BuildReport(ledger) # csv

ReportHeals ==
    \A r \in Recorders :
        (Stale /\ heartbeat[r] \in {"asleep", "awake"})
            ~> (~Stale \/ heartbeat[r] = "stopped")
=============================================================================
