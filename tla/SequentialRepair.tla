-------------------------- MODULE SequentialRepair --------------------------
(***************************************************************************)
(* _run_sequential_repair of cibench.py: one agent (module AgentLoop) is   *)
(* run once per problem in the same working tree, with a fresh budget and  *)
(* its own time limit, and the final diff is taken from the working tree.  *)
(***************************************************************************)
EXTENDS AgentLoop, Sequences

CONSTANTS
    NumProblems,  \* problems of the instance
    OrigWall,     \* wall_time_limit_seconds of the configuration, in ticks
    ProblemWall,  \* per_problem_timeout, in ticks
    Interrupts,   \* whether ^C may arrive
    DiffFails,    \* whether git diff may fail
    CheckTimesOut \* whether git apply --check may exceed its timeout

ASSUME RepairAssumption ==
    /\ NumProblems \in Nat \ {0} /\ OrigWall \in Nat /\ ProblemWall \in Nat \ {0}
    /\ Interrupts \in BOOLEAN /\ DiffFails \in BOOLEAN /\ CheckTimesOut \in BOOLEAN

VARIABLES
    problem,   \* problems begun
    fixes,     \* partial_fixes: problem and whether its patch is blank
    stopped,   \* the loop was left by break
    outcome,   \* what _run_sequential_repair did: see Outcomes
    savedWall  \* previous_wall_limit

repairVars == <<problem, fixes, stopped, outcome, savedWall>>
vars == <<agentVars, repairVars>>

Outcomes == {"none", "submitted", "failed", "raised", "interrupted"}

-----------------------------------------------------------------------------
\* Variant: the counters of the previous problem go on.
StartProblemKeepsCounters ==
    /\ phase = "ready" /\ outcome = "none" /\ ~stopped /\ problem < NumProblems
    /\ problem' = problem + 1
    /\ savedWall' = wallLimit
    /\ clock' = 0
    /\ wallLimit' = ProblemWall
    /\ BeginRun
    /\ UNCHANGED <<nCalls, cost, fixes, stopped, outcome>>

\* The next problem: counters back to zero, its own time limit.
StartProblem ==
    /\ phase = "ready" /\ outcome = "none" /\ ~stopped /\ problem < NumProblems
    /\ problem' = problem + 1
    /\ savedWall' = wallLimit
    /\ nCalls' = 0 /\ cost' = 0 /\ clock' = 0
    /\ wallLimit' = ProblemWall
    /\ BeginRun
    /\ UNCHANGED <<fixes, stopped, outcome>>

\* The inner finally clause puts the configured limit back.
Restore == wallLimit' = savedWall

\* An agent run that took less than a second ends the repair.
ImmediateExit ==
    /\ phase = "returned" /\ clock = 0
    /\ stopped' = TRUE
    /\ phase' = "ready"
    /\ Restore
    /\ UNCHANGED <<limitSeen, talk, nCalls, cost, clock, status, open, paid, dirty,
                   problem, fixes, outcome, savedWall>>

\* Blank patches among the last three partial fixes; none is ever stored, so
\* the stop rule of NoPatch does not apply.
RecentFailures ==
    LET tail == SubSeq(fixes, IF Len(fixes) > 3 THEN Len(fixes) - 2 ELSE 1, Len(fixes))
    IN  Len(SelectSeq(tail, LAMBDA f : f.blank))

\* The agent returned nothing that _extract_diff recognises as a patch.
NoPatch ==
    /\ phase = "returned"
    /\ stopped' = (RecentFailures >= 3)
    /\ phase' = "ready"
    /\ Restore
    /\ UNCHANGED <<limitSeen, talk, nCalls, cost, clock, status, open, paid, dirty,
                   problem, fixes, outcome, savedWall>>

\* The agent returned a patch: only a submission can hold one.
SavePatch ==
    /\ phase = "returned" /\ status = "Submitted"
    /\ fixes' = Append(fixes, [problem |-> problem, blank |-> FALSE])
    /\ phase' = "ready"
    /\ Restore
    /\ UNCHANGED <<limitSeen, talk, nCalls, cost, clock, status, open, paid, dirty,
                   problem, stopped, outcome, savedWall>>

\* agent.run raised: an Exception is logged and the next problem follows, a
\* KeyboardInterrupt leaves the repair.
SkipProblem ==
    /\ phase = "raised"
    /\ outcome' = IF status = "interrupt" THEN "interrupted" ELSE outcome
    /\ phase' = "ready"
    /\ Restore
    /\ UNCHANGED <<limitSeen, talk, nCalls, cost, clock, status, open, paid, dirty,
                   problem, fixes, stopped, savedWall>>

\* _collect_final_workspace_diff: whether the working tree yields a diff.
WorkspaceDiff == IF DiffFails THEN {FALSE, dirty} ELSE {dirty}

\* The loop is over.  Without a diff of the working tree the partial patches
\* are joined; the repair counts as submitted if anything came of either.
Collect ==
    /\ phase = "ready" /\ outcome = "none" /\ (stopped \/ problem = NumProblems)
    /\ \E diff \in WorkspaceDiff :
         outcome' = IF diff \/ fixes # <<>> THEN "submitted" ELSE "failed"
    /\ UNCHANGED <<agentVars, problem, fixes, stopped, savedWall>>

\* The check of the collected diff runs outside of the try statement: its
\* timeout leaves _run_sequential_repair as an exception.
CollectRaises ==
    /\ phase = "ready" /\ outcome = "none" /\ (stopped \/ problem = NumProblems)
    /\ CheckTimesOut /\ dirty
    /\ outcome' = "raised"
    /\ UNCHANGED <<agentVars, problem, fixes, stopped, savedWall>>

\* The repair is over.
Over == outcome # "none" /\ UNCHANGED vars

-----------------------------------------------------------------------------
Init ==
    /\ phase = "ready" /\ limitSeen = FALSE /\ last = "system" /\ dangling = FALSE
    /\ nCalls = 0 /\ cost = 0 /\ wallLimit = OrigWall /\ clock = 0
    /\ status = "none" /\ open = 0 /\ paid = 0 /\ dirty = FALSE
    /\ problem = 0 /\ fixes = <<>> /\ stopped = FALSE /\ outcome = "none"
    /\ savedWall = OrigWall

RepairStep ==
    \/ StartProblem \/ ImmediateExit \/ NoPatch \/ SavePatch \/ SkipProblem
    \/ Collect \/ CollectRaises
    \/ AgentStep /\ UNCHANGED repairVars

Next ==
    \/ RepairStep
    \/ Tick /\ UNCHANGED repairVars
    \/ Interrupts /\ (Interrupted \/ InterruptedRecord) /\ UNCHANGED repairVars
    \/ Over

Spec == Init /\ [][Next]_vars

\* The thread keeps running; the clock is not relied upon.
LiveSpec == Spec /\ WF_vars(RepairStep)

-----------------------------------------------------------------------------
\* Type invariant of the repair loop and of its agent.
TypeOK ==
    /\ AgentTypeOK
    /\ problem \in 0..NumProblems
    /\ fixes \in Seq([problem : 1..NumProblems, blank : BOOLEAN])
    /\ stopped \in BOOLEAN /\ outcome \in Outcomes
    /\ savedWall \in Nat

-----------------------------------------------------------------------------
(* Correctness.                                                            *)

\* Every API call announced to the metrics ledger by ProgressTrackingAgent.query
\* is recorded before the agent does anything else, however the call ended, a
\* limit that is reached between the two checks included.  Only a ^C that hits
\* the hook itself leaves one open, and after that the agent is not run again.
CallsMatched ==
    phase \notin {"query", "model"} =>
        open = 0 \/ (open = 1 /\ status = "interrupt" /\ (phase = "raised" \/ outcome = "interrupted"))

\* Whenever the model is called, the conversation ends with a question and
\* every command the model asked for is followed by its result: providers
\* refuse other conversations (DefaultAgent.run, FormatError handling).
ConversationWellFormed == phase = "model" => last \in {"user", "tool"} /\ ~dangling

\* A problem is given up for a limit only when its own agent run used that
\* limit up, never because of earlier problems (the counters are reset in
\* _run_sequential_repair).
BudgetOwn ==
    phase = "returned" =>
        /\ status = "LimitsExceeded" =>
             \/ 0 < StepLimit /\ StepLimit <= paid
             \/ 0 < CostLimit /\ CostLimit <= paid
        /\ status = "TimeExceeded" => ProblemWall <= clock

\* Between problems, and after the last, the agent has its configured time
\* limit again, also when its run raised or was interrupted.
WallRestored == phase = "ready" => wallLimit = OrigWall

\* Once the repair is over without an interrupt, a patch that was submitted
\* for some problem has not been lost: the repair counts as submitted.
PatchKept ==
    outcome \in {"submitted", "failed", "raised"} /\ fixes # <<>> => outcome = "submitted"

\* The repair ends by the step limit alone, however the model answers.
RepairEnds == <>(outcome # "none")
=============================================================================
