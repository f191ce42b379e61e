----------------------------- MODULE CibenchRun -----------------------------
(***************************************************************************)
(* A batch run of the mini-SWE CI benchmark (run/benchmarks/cibench.py):   *)
(* main selects the instances still to do and hands them to a pool of      *)
(* worker threads; process_instance prepares the problems, clones the      *)
(* repository, runs the agent, closes the metrics attempt and rewrites the *)
(* shared result files preds.json, costs.json and problems.json.           *)
(*                                                                         *)
(* A result file is read and rewritten as a whole under _OUTPUT_FILE_LOCK. *)
(* write_text truncates the file before it writes, so a process that dies  *)
(* in between leaves a file that does not parse; readers take such a file  *)
(* for an empty one.  Later runs resume from whatever the files say.       *)
(*                                                                         *)
(* The metrics ledger (module RunMetrics) is seen through the two          *)
(* questions main asks it: which instances it knows, and which of them     *)
(* have a completed attempt.                                               *)
(***************************************************************************)
EXTENDS Integers, FiniteSets

CONSTANTS
    Instances,       \* benchmark instances of the dataset
    Workers,         \* worker threads
    CommandLines,    \* the threads of a run (--workers) and --redo-existing
    MemoryEnabled,   \* --memory-enabled
    Faults,          \* what may go wrong: see FaultKinds
    MaxFaults,       \* bound: faults in a behaviour
    MaxLaunches,     \* bound: runs over the same output directory
    MaxQueries       \* bound: model calls of the agent per attempt

FaultKinds == {"crash", "write", "trajectory", "start", "metrics", "interrupt"}

ASSUME CibenchAssumption ==
    /\ IsFiniteSet(Workers) /\ MemoryEnabled \in BOOLEAN
    /\ CommandLines \subseteq [pool : (SUBSET Workers) \ {{}}, redo : BOOLEAN]
    /\ Faults \subseteq FaultKinds
    /\ MaxFaults \in Nat /\ MaxLaunches \in Nat /\ MaxQueries \in Nat

Files == {"preds", "costs", "problems"}

\* How the problem list handed to the agent came about.
Modes == {"memory",    \* problems from the memory plugin
          "empty",     \* the memory plugin returned no problems
          "fallback",  \* memory enabled, but its result is empty or it raised
          "baseline",  \* memory disabled: the raw logs
          "unbound"}   \* preprocessing raised before verification was set

VARIABLES
    files,      \* the three result files
    known,      \* metric_instance_ids of the metrics ledger
    completed,  \* completed_instance_ids of the metrics ledger
    run,        \* "down", "up", "stopping" (KeyboardInterrupt pending), "done"
    pool,       \* the threads of this run; a single one is main itself
    redo,       \* this run was given --redo-existing
    todo,       \* instances submitted and not started
    worker,     \* state of each worker thread
    outputLock, \* holders of _OUTPUT_FILE_LOCK
    globalCost, \* GLOBAL_MODEL_STATS.cost of the process
    nfaults, nlaunches,
    spent,      \* history: what the agent's calls of the latest attempt cost
    billed,     \* history: spent, and whether the run had one thread, when the
                \* instance's cost was last recorded
    saved,      \* history: entries whose write returned, of files not torn since
    removed     \* history: instances whose prediction was removed

batchVars == <<files, known, completed, run, pool, redo, todo, worker, outputLock,
          globalCost, nfaults, nlaunches, spent, billed, saved, removed>>

metricsVars == <<known, completed>>
lineVars == <<pool, redo, nlaunches>>
runVars == <<run, todo, lineVars>>
savedVars == <<saved, removed>>
costVars == <<globalCost, spent, billed>>

-----------------------------------------------------------------------------
(* Result files.  An entry is absent (<<>>) or holds the mode and the cost *)
(* of the attempt it came from.                                            *)

Absent == <<>>
NoEntries == [i \in Instances |-> Absent]
Contents == [Instances -> {Absent} \cup (Modes \X Nat)]

\* _read_preds, and the reading half of update_cost_tracking.
Read(f) == IF files[f].torn THEN NoEntries ELSE files[f].data

\* Steps of process_instance, in the order it takes them.
Steps == {"idle", "remove", "prepare", "setup", "agent", "finish",
          "trajectory", "preds", "costs", "problems", "end"}

Idle == [pc |-> "idle", inst |-> {}, mode |-> "baseline", agent |-> FALSE,
         ready |-> FALSE, writing |-> FALSE, start |-> 0, cost |-> 0, data |-> NoEntries]

inst(k) == CHOOSE i \in worker[k].inst : TRUE
At(k, pc) == worker[k].pc = pc

Fault(kind) == /\ kind \in Faults /\ nfaults < MaxFaults
               /\ nfaults' = nfaults + 1

-----------------------------------------------------------------------------
(* How a run, or the work on one instance, ends.                           *)

\* main's loop logs the exception that left process_instance.  An exception
\* raised while a KeyboardInterrupt is being handled replaces it, so the run
\* goes on.
Escapes(k) ==
    /\ worker' = [worker EXCEPT ![k] = Idle]
    /\ run' = "up"

\* What a file left truncated held is given up.
Intact == {e \in saved : ~files[e[1]].torn}

\* The process is gone; its files stay as they are.
Die ==
    /\ run' = "down" /\ todo' = {} /\ outputLock' = {}
    /\ worker' = [k \in Workers |-> Idle]
    /\ saved' = Intact
    /\ UNCHANGED <<files, metricsVars, costVars, lineVars, removed>>

Crash == run \in {"up", "stopping"} /\ Fault("crash") /\ Die

\* ^C in the pool: pending futures are cancelled, running ones go on.
CancelPending ==
    /\ run = "up" /\ Cardinality(pool) > 1 /\ Fault("interrupt")
    /\ todo' = {}
    /\ UNCHANGED <<files, metricsVars, run, lineVars, worker, outputLock,
                   costVars, savedVars>>

\* ^C without a pool: inside the try statement of process_instance it runs
\* the finally clause, anywhere else it ends the process at once.
InterruptSerial(k) ==
    /\ run = "up" /\ pool = {k} /\ Fault("interrupt")
    /\ IF worker[k].pc \in {"setup", "agent"}
       THEN /\ run' = "stopping"
            /\ worker' = [worker EXCEPT ![k].pc = "finish"]
            /\ UNCHANGED <<files, metricsVars, todo, lineVars, outputLock,
                           costVars, savedVars>>
       ELSE Die

-----------------------------------------------------------------------------
(* main.                                                                   *)

\* Instances main does not skip.
Selected(again) ==
    IF again THEN Instances
    ELSE {i \in Instances : \/ Read("preds")[i] = Absent
                            \/ i \in known /\ i \notin completed}

Launch ==
    /\ run \in {"down", "done"} /\ nlaunches < MaxLaunches
    /\ nlaunches' = nlaunches + 1
    /\ run' = "up"
    /\ \E line \in CommandLines :
         pool' = line.pool /\ redo' = line.redo /\ todo' = Selected(line.redo)
    /\ globalCost' = 0
    /\ UNCHANGED <<files, metricsVars, worker, outputLock, nfaults, spent,
                   billed, savedVars>>

Done ==
    /\ run = "up" /\ todo = {} /\ \A k \in Workers : At(k, "idle")
    /\ run' = "done"
    /\ UNCHANGED <<files, metricsVars, todo, worker, outputLock, costVars,
                   nfaults, lineVars, savedVars>>

\* The bound on runs is reached.
Stopped ==
    /\ run \in {"down", "done"} /\ nlaunches = MaxLaunches
    /\ UNCHANGED batchVars

-----------------------------------------------------------------------------
(* process_instance.                                                       *)

\* RunMetricsRecorder is constructed.
StartInstance(k, i) ==
    /\ run = "up" /\ k \in pool /\ At(k, "idle") /\ i \in todo
    /\ todo' = todo \ {i}
    /\ worker' = [worker EXCEPT ![k] = [Idle EXCEPT !.pc = "remove", !.inst = {i}]]
    /\ known' = known \cup {i}
    /\ spent' = [spent EXCEPT ![i] = 0]
    /\ UNCHANGED <<files, completed, run, lineVars, outputLock, globalCost,
                   billed, nfaults, savedVars>>

\* The constructor raises, before or after it stored the new attempt.
StartFails(k, i) ==
    /\ run = "up" /\ k \in pool /\ At(k, "idle") /\ i \in todo /\ Fault("start")
    /\ todo' = todo \ {i}
    /\ known' \in {known, known \cup {i}}
    /\ UNCHANGED <<files, completed, run, lineVars, worker, outputLock,
                   costVars, savedVars>>

\* Phase 1 of process_instance.  An error in the memory plugin, or an empty
\* result, selects the branch meant for runs without memory.
Prepare(k) ==
    /\ At(k, "prepare")
    /\ \E m \in IF MemoryEnabled THEN {"memory", "empty", "fallback", "unbound"}
                 ELSE {"baseline", "unbound"} :
         worker' = [worker EXCEPT ![k] = [@ EXCEPT !.pc = "setup", !.mode = m]]
    /\ UNCHANGED <<files, metricsVars, runVars, outputLock, costVars, nfaults, savedVars>>

\* Phase 2: clone, check out and build the agent, or fail to.
SetUp(k) ==
    /\ At(k, "setup")
    /\ \E ok \in BOOLEAN :
         worker' = [worker EXCEPT ![k] = [@ EXCEPT !.pc = IF ok THEN "agent" ELSE "finish",
                                                    !.agent = ok]]
    /\ UNCHANGED <<files, metricsVars, runVars, outputLock, costVars, nfaults, savedVars>>

\* There is something for _run_sequential_repair to do.
HasProblems(k) == worker[k].mode \in {"memory", "fallback", "baseline"}

\* A model call of the agent adds its cost to GLOBAL_MODEL_STATS.
Query(k) ==
    /\ At(k, "agent") /\ HasProblems(k) /\ spent[inst(k)] < MaxQueries
    /\ globalCost' = globalCost + 1
    /\ spent' = [spent EXCEPT ![inst(k)] = @ + 1]
    /\ UNCHANGED <<files, metricsVars, runVars, worker, outputLock, billed,
                   nfaults, savedVars>>

\* Phase 3 ends: submitted with a diff, or anything else.
EndRepair(k) ==
    /\ At(k, "agent")
    /\ \E r \in BOOLEAN :
         /\ r => HasProblems(k)
         /\ worker' = [worker EXCEPT ![k] = [@ EXCEPT !.pc = "finish", !.ready = r]]
    /\ UNCHANGED <<files, metricsVars, runVars, outputLock, costVars, nfaults, savedVars>>

\* Variant: the attempt is closed without its result.
FinishMetricsAsFailed(k) ==
    /\ At(k, "finish")
    /\ worker' = [worker EXCEPT ![k].pc = "trajectory"]
    /\ UNCHANGED <<files, metricsVars, runVars, outputLock, costVars, nfaults, savedVars>>

\* The finally clause closes the metrics attempt.  safe_metrics_call hides
\* an error of the recorder, which may or may not have stored the status.
FinishMetrics(k) ==
    LET with == IF worker[k].ready THEN completed \cup {inst(k)} ELSE completed IN
    /\ At(k, "finish")
    /\ \/ completed' = with /\ UNCHANGED nfaults
       \/ Fault("metrics") /\ completed' \in {completed, with}
    /\ worker' = [worker EXCEPT ![k].pc = "trajectory"]
    /\ UNCHANGED <<files, known, runVars, outputLock, costVars, savedVars>>

\* instance_cost, from the process-wide counter.
InstanceCost(k) == globalCost - worker[k].start

\* agent.save; then the result files follow if there is a prediction.
SaveTrajectory(k) ==
    /\ At(k, "trajectory")
    /\ worker' = [worker EXCEPT ![k] = [@ EXCEPT !.pc = IF worker[k].ready THEN "preds" ELSE "end",
                                                !.cost = InstanceCost(k)]]
    /\ UNCHANGED <<files, metricsVars, runVars, outputLock, costVars, nfaults, savedVars>>

TrajectoryFails(k) ==
    /\ At(k, "trajectory") /\ worker[k].agent /\ Fault("trajectory")
    /\ Escapes(k)
    /\ UNCHANGED <<files, metricsVars, todo, lineVars, outputLock, costVars, savedVars>>

-----------------------------------------------------------------------------
(* remove_from_preds_file, update_preds_file, update_cost_tracking and     *)
(* update_problems_file: read, change and rewrite one file under the lock. *)

FileOf(pc) == IF pc = "remove" THEN "preds" ELSE pc

\* Variant: the costs are forgotten.
NextPcNoCosts(pc) == CASE pc = "remove" -> "prepare"
                       [] pc = "preds" -> "problems"
                       [] pc = "problems" -> "end"


NextPc(pc) == CASE pc = "remove" -> "prepare"
                [] pc = "preds" -> "costs"
                [] pc = "costs" -> "problems"
                [] pc = "problems" -> "end"

NewEntry(k) == IF At(k, "remove") THEN Absent ELSE <<worker[k].mode, worker[k].cost>>

\* Variant: the cost counter is not noted.
AdvanceNoStart(k) ==
    worker' = [worker EXCEPT ![k] =
                 [@ EXCEPT !.pc = NextPc(worker[k].pc), !.writing = FALSE, !.data = NoEntries]]

\* Worker k goes on behind a file step; once the old prediction is gone it
\* notes where the cost counter stands.
Advance(k) ==
    worker' = [worker EXCEPT ![k] =
                 [@ EXCEPT !.pc = NextPc(worker[k].pc), !.writing = FALSE, !.data = NoEntries,
                           !.start = IF At(k, "remove") THEN globalCost ELSE worker[k].start]]

\* There is no prediction to remove.
SkipRemove(k) ==
    /\ At(k, "remove") /\ outputLock = {}
    /\ Read("preds")[inst(k)] = Absent
    /\ Advance(k)
    /\ UNCHANGED <<files, metricsVars, runVars, outputLock, costVars, nfaults, savedVars>>

\* Variant: the read and the rewrite are not made under the lock.
BeginWriteUnlocked(k) ==
    LET f == FileOf(worker[k].pc) IN
    /\ ~worker[k].writing
    /\ outputLock' = outputLock \cup {k}
    /\ worker' = [worker EXCEPT ![k] = [@ EXCEPT !.writing = TRUE,
                 !.data = [Read(f) EXCEPT ![inst(k)] = NewEntry(k)]]]
    /\ files' = [files EXCEPT ![f].torn = TRUE]
    /\ UNCHANGED <<metricsVars, runVars, costVars, nfaults, savedVars>>

\* Take the lock, read, change the copy and truncate the file.
BeginWrite(k) ==
    LET f == FileOf(worker[k].pc) IN
    /\ outputLock = {}
    /\ outputLock' = {k}
    /\ worker' = [worker EXCEPT ![k] = [@ EXCEPT !.writing = TRUE,
                 !.data = [Read(f) EXCEPT ![inst(k)] = NewEntry(k)]]]
    /\ files' = [files EXCEPT ![f].torn = TRUE]
    /\ UNCHANGED <<metricsVars, runVars, costVars, nfaults, savedVars>>

RemoveFromPreds(k) ==
    At(k, "remove") /\ Read("preds")[inst(k)] # Absent /\ BeginWrite(k)

UpdatePreds(k) == At(k, "preds") /\ BeginWrite(k)

UpdateCostTracking(k) == At(k, "costs") /\ BeginWrite(k)

UpdateProblems(k) == At(k, "problems") /\ BeginWrite(k)

Rewrite(k) == \/ RemoveFromPreds(k) \/ UpdatePreds(k)
              \/ UpdateCostTracking(k) \/ UpdateProblems(k)

\* The truncated file receives its new contents and the lock is released.
EndWrite(k) ==
    LET pc == worker[k].pc
        f == FileOf(pc)
        i == inst(k) IN
    /\ worker[k].writing
    /\ outputLock' = outputLock \ {k}
    /\ files' = [files EXCEPT ![f] = [torn |-> FALSE, data |-> worker[k].data]]
    /\ Advance(k)
    /\ saved' = IF pc = "remove" THEN saved \ {<<f, i>>} ELSE saved \cup {<<f, i>>}
    /\ removed' = IF pc = "remove" THEN removed \cup {i} ELSE removed
    /\ billed' = IF pc = "costs" THEN [billed EXCEPT ![i] = <<spent[i], Cardinality(pool) = 1>>]
                 ELSE billed
    /\ UNCHANGED <<metricsVars, runVars, globalCost, nfaults, spent>>

\* Variant: the lock is not released on the error path.
FailWriteKeepsLock(k) ==
    /\ worker[k].writing /\ Fault("write")
    /\ saved' = Intact
    /\ Escapes(k)
    /\ UNCHANGED <<files, metricsVars, todo, lineVars, outputLock, costVars, removed>>

\* Writing raises after the file was truncated.
FailWrite(k) ==
    /\ worker[k].writing /\ Fault("write")
    /\ saved' = Intact
    /\ outputLock' = outputLock \ {k}
    /\ Escapes(k)
    /\ UNCHANGED <<files, metricsVars, todo, lineVars, costVars, removed>>

\* on_instance_end; a pending KeyboardInterrupt then ends the process.
End(k) ==
    /\ At(k, "end")
    /\ worker' = [worker EXCEPT ![k] = Idle]
    /\ IF run = "stopping" THEN run' = "down" /\ todo' = {} ELSE UNCHANGED <<run, todo>>
    /\ UNCHANGED <<files, metricsVars, lineVars, outputLock, costVars, nfaults, savedVars>>

-----------------------------------------------------------------------------
BatchInit ==
    /\ files = [f \in Files |-> [torn |-> FALSE, data |-> NoEntries]]
    /\ known = {} /\ completed = {}
    /\ run = "down" /\ pool = {} /\ redo = FALSE /\ todo = {} /\ nlaunches = 0
    /\ worker = [k \in Workers |-> Idle]
    /\ outputLock = {} /\ globalCost = 0 /\ nfaults = 0
    /\ spent = [i \in Instances |-> 0]
    /\ billed = NoEntries
    /\ saved = {} /\ removed = {}

WorkerStep(k) ==
    \/ Prepare(k) \/ SetUp(k) \/ Query(k) \/ EndRepair(k)
    \/ FinishMetrics(k) \/ SaveTrajectory(k) \/ TrajectoryFails(k)
    \/ SkipRemove(k) \/ Rewrite(k) \/ EndWrite(k) \/ FailWrite(k) \/ End(k)
    \/ \E i \in Instances : StartInstance(k, i) \/ StartFails(k, i)

BatchNext ==
    \/ Launch \/ Done \/ Crash \/ CancelPending \/ Stopped
    \/ \E k \in Workers : WorkerStep(k) \/ InterruptSerial(k)

BatchSpec == BatchInit /\ [][BatchNext]_batchVars

\* Threads get to run, the agent's limits end its work, and main returns
\* once its futures are done.
Fairness == (\A k \in Workers : WF_batchVars(WorkerStep(k)) /\ SF_batchVars(Rewrite(k))
                                  /\ SF_batchVars(SkipRemove(k)))
            /\ WF_batchVars(Done)

BatchLiveSpec == BatchSpec /\ Fairness

-----------------------------------------------------------------------------
(* Correctness.                                                            *)

\* No update of a result file undoes another: whenever no one is writing,
\* every entry whose write returned can be read, unless the file itself was
\* left truncated by a crash or a failed write (_OUTPUT_FILE_LOCK, read,
\* change and rewrite in update_preds_file and its siblings).
EntriesSurvive ==
    outputLock = {} => \A e \in saved : Read(e[1])[e[2]] # Absent

\* When nothing went wrong and no work is in progress, the metrics ledger
\* and the three result files name the same instances as solved: the finally
\* clause of process_instance leaves no file behind.  Only an instance whose
\* prediction --redo-existing removed may be left without one.
ResultsAgree ==
    (nfaults = 0 /\ run \in {"down", "done"}) =>
        \A f \in Files, i \in Instances :
            /\ Read(f)[i] # Absent => i \in completed
            /\ i \in completed => \/ Read(f)[i] # Absent
                                  \/ f = "preds" /\ i \in removed

\* Without --redo-existing, a later run does not work again on an instance
\* that has a prediction: the attempt is recorded as completed before the
\* prediction is written, so main's skip rule holds on to it after any crash.
PredictedNotRerun ==
    [][(run' = "up" /\ run \in {"down", "done"} /\ ~redo') =>
         \A i \in todo' : Read("preds")[i] = Absent]_batchVars

\* The cost costs.json gives for an instance covers what the agent's calls in
\* the attempt behind the entry cost, and in a run with one thread it is
\* exactly that: nothing of any other attempt.
CostExact ==
    \A i \in Instances :
        Read("costs")[i] # Absent =>
            LET cost == Read("costs")[i][2]
            IN  cost >= billed[i][1] /\ (billed[i][2] => cost = billed[i][1])

\* A run that is up ends: no worker waits forever for _OUTPUT_FILE_LOCK.
RunEnds == (run = "up") ~> (run \in {"down", "done"})
=============================================================================
