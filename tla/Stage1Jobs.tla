------------------------------ MODULE Stage1Jobs ------------------------------
(***************************************************************************)
(* The stage-1 jobs of the Codex memory pipeline: every session that       *)
(* starts scans the threads of the state database and claims, in the       *)
(* `jobs` table of the memories database, the extraction of threads whose  *)
(* memory is older than the thread (state/src/runtime/memories.rs,         *)
(* memories/write/src/phase1.rs).  A claim has a lease and no heartbeat:   *)
(* extraction may outlast it.                                              *)
(*                                                                         *)
(* The times in a row are only compared with the present, so they are kept *)
(* as what is left of them: 0 stands for a time in the past and for NULL.  *)
(* A worker is one extraction at a time of some session; it drops a claim  *)
(* before it makes the next, so its name serves as the ownership token.    *)
(***************************************************************************)
EXTENDS Naturals, FiniteSets

CONSTANTS
    Threads, Workers, None,
    MaxRunning,    \* max_rollouts_per_startup, the cap on running jobs
    Lease,         \* JOB_LEASE_SECONDS, in ticks
    Backoff,       \* JOB_RETRY_DELAY_SECONDS, in ticks
    Retries,       \* DEFAULT_RETRY_REMAINING
    MaxSource,     \* bound: updates of a thread
    MaxFaults      \* bound: dead workers, deleted threads and resets of all memories

ASSUME Stage1Assumption ==
    /\ None \notin Workers /\ IsFiniteSet(Threads)
    /\ MaxRunning \in Nat /\ Lease \in Nat \ {0} /\ Backoff \in Nat
    /\ Retries \in Nat \ {0} /\ MaxSource \in Nat \ {0} /\ MaxFaults \in Nat

VARIABLES
    updated,   \* updated_at of a thread
    removal,   \* "no", "memory" once its memory is deleted, then "row"
    job,       \* the row of the thread in jobs
    output,    \* source_updated_at of its row in stage1_outputs, 0 if none
    worker,    \* [pc, thread, src]: what the worker read and claimed
    faults

vars == <<updated, removal, job, output, worker, faults>>

\* A row of the jobs table: lease and retry count down to 0, left is
\* retry_remaining, input and success are the two watermarks.
NoRow == [status |-> "none", owner |-> None, lease |-> 0, retry |-> 0, left |-> 0,
          input |-> 0, success |-> 0]

NoClaim == [pc |-> "idle", thread |-> CHOOSE t \in Threads : TRUE, src |-> 1]

Idle(w) == worker' = [worker EXCEPT ![w] = NoClaim]

Init ==
    /\ updated = [t \in Threads |-> 1]
    /\ removal = [t \in Threads |-> "no"]
    /\ job = [t \in Threads |-> NoRow]
    /\ output = [t \in Threads |-> 0]
    /\ worker = [w \in Workers |-> NoClaim]
    /\ faults = 0

(***************************************************************************)
(* claim_stage1_jobs_for_startup: the scan of the state database, then one *)
(* transaction per thread on the memories database.                        *)
(***************************************************************************)
Scan(w, t) ==
    /\ worker[w].pc = "idle" /\ removal[t] # "row"
    /\ worker' = [worker EXCEPT ![w] = [pc |-> "scanned", thread |-> t, src |-> updated[t]]]
    /\ UNCHANGED <<updated, removal, job, output, faults>>

\* stage1_source_needs_update, asked again inside the transaction.
UpToDate(t, src) == output[t] >= src \/ job[t].success >= src

ActiveForever(t) == job[t].status = "running"

Active(t) == job[t].status = "running" /\ job[t].lease > 0

ClaimableNoCap(t, src) == ~Active(t)

\* The conditions of the INSERT ... ON CONFLICT statement: the job itself is
\* not active when it is claimed, so both counts are of all active jobs.
Claimable(t, src) ==
    /\ Cardinality({u \in Threads : Active(u)}) < MaxRunning
    /\ \/ job[t].status = "none"
       \/ /\ ~Active(t)
          /\ job[t].retry = 0 \/ src > job[t].input
          /\ job[t].left > 0 \/ src > job[t].input

Claim(w) ==
    LET t == worker[w].thread
        src == worker[w].src
    IN  /\ worker[w].pc = "scanned"
        /\ ~UpToDate(t, src) /\ Claimable(t, src)
        /\ job' = [job EXCEPT ![t] =
              [status |-> "running", owner |-> w, lease |-> Lease, retry |-> 0,
               left |-> IF job[t].status = "none" \/ src > job[t].input THEN Retries ELSE job[t].left,
               input |-> src, success |-> job[t].success]]
        /\ worker' = [worker EXCEPT ![w].pc = "claimed"]
        /\ UNCHANGED <<updated, removal, output, faults>>

Skip(w) ==
    /\ worker[w].pc = "scanned"
    /\ \/ UpToDate(worker[w].thread, worker[w].src)
       \/ ~Claimable(worker[w].thread, worker[w].src)
    /\ Idle(w)
    /\ UNCHANGED <<updated, removal, job, output, faults>>

(***************************************************************************)
(* job::run: the result of the extraction.  Only the owner of a running    *)
(* row changes anything, in one transaction.                               *)
(***************************************************************************)
OwnsAny(w, t) == job[t].status = "running"

Owns(w, t) == job[t].status = "running" /\ job[t].owner = w

\* The token is only read in running rows; it is forgotten with the lease.
MarkDone(t) == job' = [job EXCEPT ![t] = [@ EXCEPT !.status = "done", !.owner = None, !.lease = 0,
                                                   !.success = job[t].input]]

Succeeded(w) ==
    LET t == worker[w].thread
        src == worker[w].src
    IN  /\ worker[w].pc = "claimed" /\ Owns(w, t)
        /\ MarkDone(t)
        /\ output' = IF src >= output[t] THEN [output EXCEPT ![t] = src] ELSE output
        /\ Idle(w)
        /\ UNCHANGED <<updated, removal, faults>>

NoOutput(w) ==
    LET t == worker[w].thread
    IN  /\ worker[w].pc = "claimed" /\ Owns(w, t)
        /\ MarkDone(t)
        /\ output' = [output EXCEPT ![t] = 0]
        /\ Idle(w)
        /\ UNCHANGED <<updated, removal, faults>>

Failed(w) ==
    LET t == worker[w].thread
    IN  /\ worker[w].pc = "claimed" /\ Owns(w, t)
        /\ job' = [job EXCEPT ![t] = [@ EXCEPT !.status = "error", !.owner = None, !.lease = 0,
                                               !.retry = Backoff, !.left = job[t].left - 1]]
        /\ Idle(w)
        /\ UNCHANGED <<updated, removal, output, faults>>

Fenced(w) ==
    /\ worker[w].pc = "claimed" /\ ~Owns(w, worker[w].thread)
    /\ Idle(w)
    /\ UNCHANGED <<updated, removal, job, output, faults>>

\* The session ends, or the database refuses the result: the row stays.
Dies(w) ==
    /\ worker[w].pc # "idle" /\ faults < MaxFaults
    /\ faults' = faults + 1
    /\ Idle(w)
    /\ UNCHANGED <<updated, removal, job, output>>

(***************************************************************************)
(* The rest of the system                                                  *)
(***************************************************************************)
Tick ==
    /\ \E t \in Threads : job[t].lease > 0 \/ job[t].retry > 0
    /\ job' = [t \in Threads |-> [job[t] EXCEPT !.lease = IF @ > 0 THEN @ - 1 ELSE 0,
                                                !.retry = IF @ > 0 THEN @ - 1 ELSE 0]]
    /\ UNCHANGED <<updated, removal, output, worker, faults>>

ThreadUpdated(t) ==
    /\ removal[t] = "no" /\ updated[t] < MaxSource
    /\ updated' = [updated EXCEPT ![t] = @ + 1]
    /\ UNCHANGED <<removal, job, output, worker, faults>>

\* prune_stage1_outputs_for_retention keeps the watermarks of the jobs.
Prune(t) ==
    /\ output[t] # 0
    /\ output' = [output EXCEPT ![t] = 0]
    /\ UNCHANGED <<updated, removal, job, worker, faults>>

\* delete_threads_strict: first the memory of the thread, its row last.
DeleteMemory(t) ==
    /\ removal[t] = "no" /\ faults < MaxFaults
    /\ faults' = faults + 1
    /\ removal' = [removal EXCEPT ![t] = "memory"]
    /\ job' = [job EXCEPT ![t] = NoRow]
    /\ output' = [output EXCEPT ![t] = 0]
    /\ UNCHANGED <<updated, worker>>

DeleteRow(t) ==
    /\ removal[t] = "memory"
    /\ removal' = [removal EXCEPT ![t] = "row"]
    /\ UNCHANGED <<updated, job, output, worker, faults>>

ClearMemories ==
    /\ faults < MaxFaults /\ faults' = faults + 1
    /\ job' = [t \in Threads |-> NoRow]
    /\ output' = [t \in Threads |-> 0]
    /\ UNCHANGED <<updated, removal, worker>>

Finishes(w) == Succeeded(w) \/ NoOutput(w) \/ Failed(w)
Extract(w) == Finishes(w) \/ Fenced(w)

Next ==
    \/ \E w \in Workers : \/ \E t \in Threads : Scan(w, t)
                          \/ Claim(w) \/ Skip(w) \/ Extract(w) \/ Dies(w)
    \/ \E t \in Threads : ThreadUpdated(t) \/ Prune(t) \/ DeleteMemory(t) \/ DeleteRow(t)
    \/ Tick \/ ClearMemories

Spec == Init /\ [][Next]_vars

\* Sessions keep starting, each tries every thread, and extractions end.  The
\* third line says that extraction is not always slower than the lease: if it
\* were, every worker would find its job taken over by the next.
Fairness ==
    /\ WF_vars(Tick)
    /\ \A t \in Threads : SF_vars(\E w \in Workers : Scan(w, t))
    /\ \A t \in Threads : SF_vars(\E w \in Workers : worker[w].thread = t /\ Finishes(w))
    /\ \A w \in Workers : WF_vars(Claim(w) \/ Skip(w)) /\ WF_vars(Extract(w))

LiveSpec == Spec /\ Fairness

(***************************************************************************)
(* Properties                                                              *)
(***************************************************************************)
Row == [status : {"none", "running", "done", "error"}, owner : Workers \cup {None},
        lease : 0..Lease, retry : 0..Backoff, left : 0..Retries,
        input : 0..MaxSource, success : 0..MaxSource]

\* Type invariant of the tables and of what the workers hold.
TypeOK ==
    /\ updated \in [Threads -> 1..MaxSource]
    /\ removal \in [Threads -> {"no", "memory", "row"}]
    /\ job \in [Threads -> Row]
    /\ output \in [Threads -> 0..MaxSource]
    /\ worker \in [Workers -> [pc : {"idle", "scanned", "claimed"},
                               thread : Threads \cup {NoClaim.thread}, src : 1..MaxSource]]
    /\ faults \in 0..MaxFaults

\* However many sessions start, at most max_running_jobs jobs are running
\* with a live lease.
RunningCapped == Cardinality({t \in Threads : Active(t)}) <= MaxRunning

\* The memory of a thread is the one its last successful job extracted: an
\* extraction that outlived its lease, its row or a reset of all memories
\* leaves neither an output nor a watermark behind.
OutputIsLatest == \A t \in Threads : output[t] # 0 => job[t].success = output[t]

\* The watermark of a thread never goes back while its row lives, although a
\* claim made from a stale scan may lower input_watermark.
WatermarkGrows ==
    [][\A t \in Threads : job'[t] = NoRow \/ job'[t].success >= job[t].success]_vars

\* A thread whose memory is out of date is extracted up to its last update,
\* in spite of workers that die with their lease, unless its retries are
\* used up or it is deleted.
Settled(t) ==
    \/ job[t].success >= updated[t]
    \/ job[t].status # "none" /\ job[t].left = 0
    \/ removal[t] # "no"
EventuallyExtracted == \A t \in Threads : []<>Settled(t)
=============================================================================
