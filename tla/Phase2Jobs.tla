------------------------------ MODULE Phase2Jobs ------------------------------
(***************************************************************************)
(* Phase 2 of the Codex memory pipeline: one global job, claimed with a    *)
(* lease, under which a session copies the stage-1 outputs into the memory *)
(* workspace, lets an agent consolidate what changed since the baseline of *)
(* the workspace's git repository, and makes the result the new baseline   *)
(* (state/src/runtime/memories.rs, memories/write/src/phase2.rs).          *)
(*                                                                         *)
(* A snapshot <<t, s>> is the stage-1 output of thread t at source s; what *)
(* the model keeps of the workspace are the snapshots it holds.  Times are *)
(* kept as what is left of them, as in Stage1Jobs.                         *)
(***************************************************************************)
EXTENDS Naturals

CONSTANTS
    Threads, Workers, None,
    Lease,         \* JOB_LEASE_SECONDS, in ticks
    Backoff,       \* JOB_RETRY_DELAY_SECONDS, in ticks
    Cooldown,      \* PHASE2_SUCCESS_COOLDOWN_SECONDS, in ticks
    MaxSource,     \* bound: outputs of a thread
    MaxFaults      \* bound: failed steps and dead workers

ASSUME Phase2Assumption ==
    /\ None \notin Workers
    /\ Lease \in Nat \ {0} /\ Backoff \in Nat /\ Cooldown \in Nat
    /\ MaxSource \in Nat /\ MaxFaults \in Nat

VARIABLES
    source,     \* last source stage 1 has extracted from a thread
    output,     \* source of its row in stage1_outputs, 0 if there is none
    selected,   \* selected_for_phase2_source_updated_at, 0 if not selected
    enabled,    \* threads with memory_mode 'enabled'
    polluting,  \* place of mark_thread_memory_mode_polluted, "no" if not running
    row,        \* the row of the global job
    ws, base,   \* snapshots in the workspace and in its git baseline
    usable,     \* the git repository is usable
    worker,     \* [pc, sel, saw]: a session running phase 2
    done,       \* history: snapshots an agent has consolidated
    faults

dbVars == <<source, output, selected, enabled, polluting>>
wsVars == <<ws, base, usable>>
vars == <<source, output, selected, enabled, polluting, row, ws, base, usable, worker, done, faults>>

Snapshot == Threads \X (1..MaxSource)
Row == [status : {"none", "pending", "running", "done", "error"}, owner : Workers \cup {None},
        lease : 0..Lease, retry : 0..Backoff, cool : 0..Cooldown]
Idle == [pc |-> "idle", sel |-> {}, saw |-> {}]

Init ==
    /\ source = [t \in Threads |-> 0] /\ output = [t \in Threads |-> 0]
    /\ selected = [t \in Threads |-> 0]
    /\ enabled = Threads /\ polluting = [t \in Threads |-> "no"]
    /\ row = [status |-> "none", owner |-> None, lease |-> 0, retry |-> 0, cool |-> 0]
    /\ ws = {} /\ base = {} /\ usable = FALSE
    /\ worker = [w \in Workers |-> Idle]
    /\ done = {} /\ faults = 0

Goto(w, pc) == worker' = [worker EXCEPT ![w].pc = pc]
GoIdle(w) == worker' = [worker EXCEPT ![w] = Idle]
Owns(w) == row.status = "running" /\ row.owner = w
FaultHappens == faults < MaxFaults /\ faults' = faults + 1

\* enqueue_global_consolidation_with_executor
Enqueued == IF row.status = "running" THEN row
            ELSE [row EXCEPT !.status = "pending", !.retry = 0]

(***************************************************************************)
(* The worker                                                              *)
(***************************************************************************)
ClaimIgnoringLease(w) ==
    /\ worker[w].pc = "idle"
    /\ row.retry = 0 /\ row.status # "running" /\ row.cool = 0
    /\ row' = [row EXCEPT !.status = "running", !.owner = w, !.lease = Lease]
    /\ Goto(w, "prepare")
    /\ UNCHANGED <<dbVars, wsVars, done, faults>>

\* try_claim_global_phase2_job; a failed job has no cooldown.
Claim(w) ==
    /\ worker[w].pc = "idle"
    /\ row.retry = 0
    /\ ~(row.status = "running" /\ row.lease > 0)
    /\ row.cool = 0
    /\ row' = [row EXCEPT !.status = "running", !.owner = w, !.lease = Lease]
    /\ Goto(w, "prepare")
    /\ UNCHANGED <<dbVars, wsVars, done, faults>>

\* prepare_memory_workspace: a repository that is missing or unusable is
\* replaced by one whose baseline is the workspace as it is.
Prepare(w) ==
    /\ worker[w].pc = "prepare"
    /\ base' = IF usable THEN base ELSE ws
    /\ usable' = TRUE
    /\ Goto(w, "keys")
    /\ UNCHANGED <<dbVars, row, ws, done, faults>>

Visible == {<<t, output[t]>> : t \in {u \in enabled : output[u] # 0}}

\* get_phase2_input_selection: the keys first, then each row by its key.
SelectKeys(w) ==
    /\ worker[w].pc = "keys"
    /\ worker' = [worker EXCEPT ![w] = [@ EXCEPT !.pc = "rows", !.sel = Visible]]
    /\ UNCHANGED <<dbVars, row, wsVars, done, faults>>

SelectRows(w) ==
    /\ worker[w].pc = "rows"
    /\ worker' = [worker EXCEPT ![w] = [@ EXCEPT !.pc = "sync",
                                                   !.sel = worker[w].sel \cap Visible]]
    /\ UNCHANGED <<dbVars, row, wsVars, done, faults>>

Sync(w) ==
    /\ worker[w].pc = "sync"
    /\ ws' = worker[w].sel
    /\ Goto(w, "diff")
    /\ UNCHANGED <<dbVars, row, base, usable, done, faults>>

\* Without changes (and with valid artifacts) the agent is not needed.  The
\* files of an earlier agent count as changes too.
Diff(w) ==
    /\ worker[w].pc = "diff"
    /\ \/ ws = base /\ Goto(w, "succeed")
       \/ worker' = [worker EXCEPT ![w] = [@ EXCEPT !.pc = "agent", !.saw = ws]]
    /\ UNCHANGED <<dbVars, row, wsVars, done, faults>>

\* A heartbeat of loop_agent: a worker that has lost the job gives up; its
\* job::failed finds neither its own row nor one without an owner.
Heartbeat(w) ==
    /\ worker[w].pc = "agent"
    /\ \/ /\ Owns(w) /\ row' = [row EXCEPT !.lease = Lease] /\ UNCHANGED worker
       \/ ~Owns(w) /\ GoIdle(w) /\ UNCHANGED row
    /\ UNCHANGED <<dbVars, wsVars, done, faults>>

AgentCompletes(w) ==
    /\ worker[w].pc = "agent"
    /\ done' = done \cup worker[w].saw
    /\ Goto(w, "confirm")
    /\ UNCHANGED <<dbVars, row, wsVars, faults>>

ConfirmUnchecked(w) ==
    /\ worker[w].pc = "confirm"
    /\ Goto(w, "reset")
    /\ UNCHANGED <<dbVars, row, wsVars, done, faults>>

\* "Do not reset the workspace baseline if we lost the lock."
Confirm(w) ==
    /\ worker[w].pc = "confirm" /\ Owns(w)
    /\ row' = [row EXCEPT !.lease = Lease]
    /\ Goto(w, "reset")
    /\ UNCHANGED <<dbVars, wsVars, done, faults>>

LostLock(w) ==
    /\ worker[w].pc = "confirm" /\ ~Owns(w)
    /\ GoIdle(w)
    /\ UNCHANGED <<dbVars, row, wsVars, done, faults>>

\* reset_git_repository_sync removes the repository and makes a new one.
RemoveRepository(w) ==
    /\ worker[w].pc = "reset"
    /\ usable' = FALSE
    /\ Goto(w, "commit")
    /\ UNCHANGED <<dbVars, row, ws, base, done, faults>>

CommitBaseline(w) ==
    /\ worker[w].pc = "commit"
    /\ base' = ws /\ usable' = TRUE
    /\ Goto(w, "succeed")
    /\ UNCHANGED <<dbVars, row, ws, done, faults>>

SelectAnySource(w) ==
    selected' = [t \in Threads |-> IF \E s \in worker[w].sel : s[1] = t THEN output[t] ELSE 0]

\* Only rows that still are the selected snapshot are marked.
SelectSnapshots(w) ==
    selected' = [t \in Threads |-> IF <<t, output[t]>> \in worker[w].sel THEN output[t] ELSE 0]

\* mark_global_phase2_job_succeeded, for the owner only.
Succeed(w) ==
    /\ worker[w].pc = "succeed"
    /\ Owns(w)   \* always so here: it owned the job when it confirmed
    /\ row' = [row EXCEPT !.status = "done", !.owner = None, !.lease = 0, !.cool = Cooldown]
    /\ SelectSnapshots(w)
    /\ GoIdle(w)
    /\ UNCHANGED <<source, output, enabled, polluting, wsVars, done, faults>>

\* mark_global_phase2_job_failed, after any step that returned an error.
Fail(w) ==
    /\ worker[w].pc \notin {"idle", "succeed"}
    /\ FaultHappens
    /\ row' = IF Owns(w) THEN [row EXCEPT !.status = "error", !.owner = None, !.lease = 0, !.retry = Backoff]
              ELSE row
    /\ GoIdle(w)
    /\ UNCHANGED <<dbVars, wsVars, done>>

\* The session ends, or the database refuses the result: the row stays.
Dies(w) ==
    /\ worker[w].pc # "idle"
    /\ FaultHappens
    /\ GoIdle(w)
    /\ UNCHANGED <<dbVars, row, wsVars, done>>

(***************************************************************************)
(* The rest of the system.  All steps but those of the agent are quick: an *)
(* hour, the lease, does not pass within them.                             *)
(***************************************************************************)
Quick == {"prepare", "keys", "rows", "sync", "diff", "reset", "commit", "succeed"}

Less(n) == IF n > 0 THEN n - 1 ELSE 0

Tick ==
    /\ row.lease > 0 \/ row.retry > 0 \/ row.cool > 0
    /\ row.lease = 1 => \A w \in Workers : worker[w].pc \notin Quick
    /\ row' = [row EXCEPT !.lease = Less(@), !.retry = Less(@), !.cool = Less(@)]
    /\ UNCHANGED <<dbVars, wsVars, worker, done, faults>>

\* mark_stage1_job_succeeded keeps the mark of the snapshot it replaces.
NewOutput(t) ==
    /\ source[t] < MaxSource
    /\ source' = [source EXCEPT ![t] = @ + 1]
    /\ output' = [output EXCEPT ![t] = source[t] + 1]
    /\ row' = Enqueued
    /\ UNCHANGED <<selected, enabled, polluting, wsVars, worker, done, faults>>

\* mark_stage1_job_succeeded_no_output
NoOutput(t) ==
    /\ output[t] # 0
    /\ output' = [output EXCEPT ![t] = 0] /\ selected' = [selected EXCEPT ![t] = 0]
    /\ row' = Enqueued
    /\ UNCHANGED <<source, enabled, polluting, wsVars, worker, done, faults>>

\* prune_stage1_outputs_for_retention
Prune(t) ==
    /\ output[t] # 0 /\ selected[t] = 0
    /\ output' = [output EXCEPT ![t] = 0]
    /\ UNCHANGED <<source, selected, enabled, polluting, row, wsVars, worker, done, faults>>

\* mark_thread_memory_mode_polluted: three statements on two databases.
PolluteRead(t) ==
    /\ polluting[t] = "no"
    /\ polluting' = [polluting EXCEPT ![t] = IF selected[t] # 0 THEN "selected" ELSE "unselected"]
    /\ UNCHANGED <<source, output, selected, enabled, row, wsVars, worker, done, faults>>

PolluteMark(t) ==
    /\ polluting[t] \in {"selected", "unselected"}
    /\ enabled' = enabled \ {t}
    /\ polluting' = [polluting EXCEPT ![t] = IF @ = "selected" THEN "enqueue" ELSE "no"]
    /\ UNCHANGED <<source, output, selected, row, wsVars, worker, done, faults>>

PolluteEnqueue(t) ==
    /\ polluting[t] = "enqueue"
    /\ polluting' = [polluting EXCEPT ![t] = "no"]
    /\ row' = Enqueued
    /\ UNCHANGED <<source, output, selected, enabled, wsVars, worker, done, faults>>

\* set_thread_memory_mode, for thread/memoryMode/set and reconcile_rollout: the
\* mode is overwritten whatever it was, 'polluted' too, and nothing is enqueued.
SetMemoryMode(t) ==
    /\ enabled' \in {enabled \cup {t}, enabled \ {t}}
    /\ UNCHANGED <<source, output, selected, polluting, row, wsVars, worker, done, faults>>

Work(w) ==
    \/ Prepare(w) \/ SelectKeys(w) \/ SelectRows(w) \/ Sync(w) \/ Diff(w)
    \/ AgentCompletes(w) \/ LostLock(w) \/ RemoveRepository(w) \/ CommitBaseline(w) \/ Succeed(w)

Next ==
    \/ \E w \in Workers : Claim(w) \/ Work(w) \/ Heartbeat(w) \/ Confirm(w) \/ Fail(w) \/ Dies(w)
    \/ \E t \in Threads : \/ NewOutput(t) \/ NoOutput(t) \/ Prune(t)
                          \/ PolluteRead(t) \/ PolluteMark(t) \/ PolluteEnqueue(t)
                          \/ SetMemoryMode(t)
    \/ Tick

Spec == Init /\ [][Next]_vars

\* Sessions keep starting, their steps and agents end, and not every agent
\* is so slow between two heartbeats that it loses the job.
Fairness ==
    /\ WF_vars(Tick) /\ WF_vars(\E w \in Workers : Claim(w))
    /\ \A w \in Workers : WF_vars(Work(w) \/ Confirm(w))
    /\ SF_vars(\E w \in Workers : Owns(w) /\ AgentCompletes(w))
    /\ SF_vars(\E w \in Workers : Confirm(w))

LiveSpec == Spec /\ Fairness

(***************************************************************************)
(* Properties                                                              *)
(***************************************************************************)
\* Type invariant; only the owner of the job touches the workspace.
TypeOK ==
    /\ source \in [Threads -> 0..MaxSource] /\ output \in [Threads -> 0..MaxSource]
    /\ selected \in [Threads -> 0..MaxSource] /\ enabled \subseteq Threads
    /\ polluting \in [Threads -> {"no", "selected", "unselected", "enqueue"}]
    /\ row \in Row
    /\ ws \subseteq Snapshot /\ base \subseteq Snapshot /\ done \subseteq Snapshot /\ usable \in BOOLEAN
    /\ worker \in [Workers -> [pc : Quick \cup {"idle", "agent", "confirm"},
                               sel : SUBSET Snapshot, saw : SUBSET Snapshot]]
    /\ \A w \in Workers : worker[w].pc \in Quick => Owns(w)
    /\ faults \in 0..MaxFaults

\* What is in the baseline was consolidated by an agent: an output that
\* another session copied into the workspace while an agent that has lost
\* the job was finishing does not slip into the baseline unread, although
\* the later diff would then never show it again.
BaselineConsolidated == base \subseteq done

\* A stage-1 output is only marked as selected for what an agent has seen,
\* even if stage 1 replaced or removed it during the consolidation.
SelectedConsolidated == \A t \in Threads : selected[t] # 0 => <<t, selected[t]>> \in done

\* Forgetting: the memory of a thread that stays polluted or disabled leaves the
\* baseline for good, whatever was being consolidated at the time, whoever lost
\* the job meanwhile, and even if nobody enqueued the job for it.
Forgets ==
    \A t \in Threads : <>[](t \notin enabled) => <>[](\A s \in base : s[1] # t)
=============================================================================
