--------------------------- MODULE BenchmarkProofs ---------------------------
(***************************************************************************)
(* Proofs about the CI benchmark (run/benchmarks/cibench.py): the repair   *)
(* loop, for any limits and any number of problems, and the batch run, for *)
(* any set of instances, any number of threads and any faults.  The two    *)
(* components share no state; each theorem is about the specification it   *)
(* names.                                                                  *)
(***************************************************************************)
EXTENDS SequentialRepair, CibenchRun, FiniteSetTheorems, TLAPS

-----------------------------------------------------------------------------
(* The repair loop.                                                        *)

\* The metrics marker is set exactly while an announced call is under way,
\* except that an interrupt, which ends the repair, may leave it set; and a
\* limit the hook saw is still reached when DefaultAgent.query looks.
Marker ==
    /\ status # "interrupt" => open = IF phase \in {"query", "model"} /\ ~limitSeen THEN 1 ELSE 0
    /\ status = "interrupt" => phase = "raised" \/ (phase = "ready" /\ outcome = "interrupted")
    /\ phase = "model" => ~limitSeen
    /\ phase = "query" /\ limitSeen => OverBudget \/ OverTime

\* The conversation before a call, and while commands run.
Talk ==
    /\ phase \in {"gate", "query", "model"} => last \in {"user", "tool"} /\ ~dangling
    /\ phase = "act" => last = "assistant" /\ ~dangling

\* The agent's counters never run ahead of the calls of its own run.
Within(n) == n <= paid \/ paid = MaxPaid
Counters ==
    /\ phase \in {"gate", "query", "act"} => Within(nCalls)
    /\ phase = "model" => Within(nCalls - 1)
    /\ phase \in {"gate", "query", "model", "act"} => Within(cost)

\* Which time limit is in force, and which one will be put back.
Walls ==
    IF phase = "ready" THEN wallLimit = OrigWall
    ELSE wallLimit = ProblemWall /\ savedWall = OrigWall

\* The agent only runs for a problem of a repair that is not over.
Begun == phase # "ready" => problem >= 1 /\ outcome = "none"

IInv == TypeOK /\ Marker /\ Talk /\ Counters /\ BudgetOwn /\ Walls /\ Begun

\* The initial state of a repair satisfies the inductive invariant.
LEMMA InitIInv == Init => IInv
  <1> SUFFICES ASSUME Init PROVE IInv
    OBVIOUS
  <1> USE AgentAssumption, RepairAssumption DEF Init
  <1>1. AgentTypeOK
    <2>1. {limitSeen, dangling, dirty} \subseteq BOOLEAN
      BY Zenon
    <2>2. {nCalls, cost, wallLimit, clock} \subseteq Nat
      OBVIOUS
    <2>3. /\ phase \in Phases /\ status \in Statuses /\ last \in Roles
          /\ open \in 0..1 /\ paid \in 0..MaxPaid
      BY DEF Phases, Statuses, Roles
    <2> QED
      BY <2>1, <2>2, <2>3 DEF AgentTypeOK
  <1>2. TypeOK
    <2>1. stopped \in BOOLEAN
      BY Zenon
    <2> QED
      BY <1>1, <2>1 DEF TypeOK, Outcomes
  <1>3. Marker /\ Talk /\ Counters /\ BudgetOwn /\ Walls /\ Begun
    BY DEF Marker, Talk, Counters, BudgetOwn, Walls, Begun
  <1> QED
    BY <1>2, <1>3 DEF IInv

\* Time passing disturbs nothing: a limit that was reached stays reached.
LEMMA TickIInv == IInv /\ Tick /\ UNCHANGED repairVars => IInv'
  <1> SUFFICES ASSUME IInv, Tick /\ UNCHANGED repairVars PROVE IInv'
    OBVIOUS
  <1> USE AgentAssumption, RepairAssumption DEF IInv, Tick, budget, talk, repairVars
  <1>1. AgentTypeOK'
    BY DEF TypeOK, AgentTypeOK, Phases, Statuses, Roles, Marker
  <1>2. TypeOK'
    BY <1>1 DEF TypeOK, Outcomes
  <1>3. Marker'
    BY DEF Marker, OverBudget, OverTime, TypeOK, AgentTypeOK
  <1>4. Talk' /\ Walls' /\ Begun'
    BY DEF Talk, Walls, Begun, TypeOK
  <1>5. Counters'
    BY DEF Counters, Within, TypeOK, AgentTypeOK
  <1>6. BudgetOwn'
    BY DEF BudgetOwn, Counters, Within, OverBudget, OverTime, Walls, TypeOK, AgentTypeOK
  <1> QED
    BY <1>2, <1>3, <1>4, <1>5, <1>6

\* The hook sets the marker unless it saw a limit.
LEMMA GateIInv == IInv /\ Gate /\ UNCHANGED repairVars => IInv'
  <1> SUFFICES ASSUME IInv, Gate /\ UNCHANGED repairVars PROVE IInv'
    OBVIOUS
  <1> USE AgentAssumption, RepairAssumption DEF IInv, Gate, budget, talk, repairVars
  <1>1. AgentTypeOK'
    BY DEF TypeOK, AgentTypeOK, Phases, Statuses, Roles, Marker
  <1>2. TypeOK'
    BY <1>1 DEF TypeOK, Outcomes
  <1>3. Marker'
    <2>1. CASE OverBudget \/ OverTime
      <3>1. limitSeen' = TRUE
        BY <2>1, Zenon
      <3> QED
        BY <2>1, <3>1 DEF Marker, OverBudget, OverTime
    <2>2. CASE ~(OverBudget \/ OverTime)
      <3>1. limitSeen' = FALSE
        BY <2>2, Zenon
      <3> QED
        BY <2>2, <3>1 DEF Marker, OverBudget, OverTime
    <2> QED
      BY <2>1, <2>2
  <1>4. Talk' /\ Walls' /\ Begun'
    BY DEF Talk, Walls, Begun, TypeOK
  <1>5. Counters'
    BY DEF Counters, Within, TypeOK, AgentTypeOK
  <1>6. BudgetOwn'
    BY DEF BudgetOwn, Counters, Within, OverBudget, OverTime, Walls, TypeOK, AgentTypeOK
  <1> QED
    BY <1>2, <1>3, <1>4, <1>5, <1>6

\* A limit ends the run with its marker, if any, cleared.
LEMMA LimitsIInv == IInv /\ Limits /\ UNCHANGED repairVars => IInv'
  <1> SUFFICES ASSUME IInv, Limits /\ UNCHANGED repairVars PROVE IInv'
    OBVIOUS
  <1> USE AgentAssumption, RepairAssumption DEF IInv, Limits, Leave, Say, RecordFailed, OverBudget, OverTime, budget, repairVars
  <1>1. AgentTypeOK'
    BY DEF TypeOK, AgentTypeOK, Phases, Statuses, Roles, Marker
  <1>2. TypeOK'
    BY <1>1 DEF TypeOK, Outcomes
  <1>3. Marker'
    BY DEF Marker, OverBudget, OverTime, TypeOK, AgentTypeOK
  <1>4. Talk' /\ Walls' /\ Begun'
    BY DEF Talk, Walls, Begun, TypeOK
  <1>5. Counters'
    BY DEF Counters, Within, TypeOK, AgentTypeOK
  <1>6. BudgetOwn'
    BY DEF BudgetOwn, Counters, Within, OverBudget, OverTime, Walls, TypeOK, AgentTypeOK
  <1> QED
    BY <1>2, <1>3, <1>4, <1>5, <1>6

\* Every call is counted before it is made.
LEMMA CallModelIInv == IInv /\ CallModel /\ UNCHANGED repairVars => IInv'
  <1> SUFFICES ASSUME IInv, CallModel /\ UNCHANGED repairVars PROVE IInv'
    OBVIOUS
  <1> USE AgentAssumption, RepairAssumption DEF IInv, CallModel, talk, repairVars
  <1>1. AgentTypeOK'
    BY DEF TypeOK, AgentTypeOK, Phases, Statuses, Roles, Marker
  <1>2. TypeOK'
    BY <1>1 DEF TypeOK, Outcomes
  <1>3. Marker'
    BY DEF Marker, OverBudget, OverTime, TypeOK, AgentTypeOK
  <1>4. Talk' /\ Walls' /\ Begun'
    BY DEF Talk, Walls, Begun, TypeOK
  <1>5. Counters'
    BY DEF Counters, Within, TypeOK, AgentTypeOK
  <1>6. BudgetOwn'
    BY DEF BudgetOwn, Counters, Within, OverBudget, OverTime, Walls, TypeOK, AgentTypeOK
  <1> QED
    BY <1>2, <1>3, <1>4, <1>5, <1>6

\* A usable answer.
LEMMA ReplyIInv == IInv /\ Reply /\ UNCHANGED repairVars => IInv'
  <1> SUFFICES ASSUME IInv, Reply /\ UNCHANGED repairVars PROVE IInv'
    OBVIOUS
  <1> USE AgentAssumption, RepairAssumption DEF IInv, Reply, Pay, Say, repairVars
  <1>1. AgentTypeOK'
    BY DEF TypeOK, AgentTypeOK, Phases, Statuses, Roles, Marker
  <1>2. TypeOK'
    BY <1>1 DEF TypeOK, Outcomes
  <1>3. Marker'
    BY DEF Marker, OverBudget, OverTime, TypeOK, AgentTypeOK
  <1>4. Talk' /\ Walls' /\ Begun'
    BY DEF Talk, Walls, Begun, TypeOK
  <1>5. Counters'
    BY DEF Counters, Within, TypeOK, AgentTypeOK
  <1>6. BudgetOwn'
    BY DEF BudgetOwn, Counters, Within, OverBudget, OverTime, Walls, TypeOK, AgentTypeOK
  <1> QED
    BY <1>2, <1>3, <1>4, <1>5, <1>6

\* An unusable answer.
LEMMA FormatErrorIInv == IInv /\ FormatError /\ UNCHANGED repairVars => IInv'
  <1> SUFFICES ASSUME IInv, FormatError /\ UNCHANGED repairVars PROVE IInv'
    OBVIOUS
  <1> USE AgentAssumption, RepairAssumption DEF IInv, FormatError, Pay, Say, RecordFailed, budget, repairVars
  <1>1. AgentTypeOK'
    BY DEF TypeOK, AgentTypeOK, Phases, Statuses, Roles, Marker
  <1>2. TypeOK'
    BY <1>1 DEF TypeOK, Outcomes
  <1>3. Marker'
    BY DEF Marker, OverBudget, OverTime, TypeOK, AgentTypeOK
  <1>4. Talk' /\ Walls' /\ Begun'
    BY DEF Talk, Walls, Begun, TypeOK
  <1>5. Counters'
    BY DEF Counters, Within, TypeOK, AgentTypeOK
  <1>6. BudgetOwn'
    BY DEF BudgetOwn, Counters, Within, OverBudget, OverTime, Walls, TypeOK, AgentTypeOK
  <1> QED
    BY <1>2, <1>3, <1>4, <1>5, <1>6

\* A conversation that is too long.
LEMMA ContextIInv == IInv /\ ContextWindowExceeded /\ UNCHANGED repairVars => IInv'
  <1> SUFFICES ASSUME IInv, ContextWindowExceeded /\ UNCHANGED repairVars PROVE IInv'
    OBVIOUS
  <1> USE AgentAssumption, RepairAssumption DEF IInv, ContextWindowExceeded, Leave, RecordFailed, budget, talk, repairVars
  <1>1. AgentTypeOK'
    BY DEF TypeOK, AgentTypeOK, Phases, Statuses, Roles, Marker
  <1>2. TypeOK'
    BY <1>1 DEF TypeOK, Outcomes
  <1>3. Marker'
    BY DEF Marker, OverBudget, OverTime, TypeOK, AgentTypeOK
  <1>4. Talk' /\ Walls' /\ Begun'
    BY DEF Talk, Walls, Begun, TypeOK
  <1>5. Counters'
    BY DEF Counters, Within, TypeOK, AgentTypeOK
  <1>6. BudgetOwn'
    BY DEF BudgetOwn, Counters, Within, OverBudget, OverTime, Walls, TypeOK, AgentTypeOK
  <1> QED
    BY <1>2, <1>3, <1>4, <1>5, <1>6

\* A failed call.
LEMMA ModelErrorIInv == IInv /\ ModelError /\ UNCHANGED repairVars => IInv'
  <1> SUFFICES ASSUME IInv, ModelError /\ UNCHANGED repairVars PROVE IInv'
    OBVIOUS
  <1> USE AgentAssumption, RepairAssumption DEF IInv, ModelError, Pay, Leave, Say, RecordFailed, budget, repairVars
  <1>1. AgentTypeOK'
    BY DEF TypeOK, AgentTypeOK, Phases, Statuses, Roles, Marker
  <1>2. TypeOK'
    BY <1>1 DEF TypeOK, Outcomes
  <1>3. Marker'
    BY DEF Marker, OverBudget, OverTime, TypeOK, AgentTypeOK
  <1>4. Talk' /\ Walls' /\ Begun'
    BY DEF Talk, Walls, Begun, TypeOK
  <1>5. Counters'
    BY DEF Counters, Within, TypeOK, AgentTypeOK
  <1>6. BudgetOwn'
    BY DEF BudgetOwn, Counters, Within, OverBudget, OverTime, Walls, TypeOK, AgentTypeOK
  <1> QED
    BY <1>2, <1>3, <1>4, <1>5, <1>6

\* Commands were executed.
LEMMA ObserveIInv == IInv /\ Observe /\ UNCHANGED repairVars => IInv'
  <1> SUFFICES ASSUME IInv, Observe /\ UNCHANGED repairVars PROVE IInv'
    OBVIOUS
  <1> USE AgentAssumption, RepairAssumption DEF IInv, Observe, Say, budget, repairVars
  <1>1. AgentTypeOK'
    BY DEF TypeOK, AgentTypeOK, Phases, Statuses, Roles, Marker
  <1>2. TypeOK'
    BY <1>1 DEF TypeOK, Outcomes
  <1>3. Marker'
    BY DEF Marker, OverBudget, OverTime, TypeOK, AgentTypeOK
  <1>4. Talk' /\ Walls' /\ Begun'
    BY DEF Talk, Walls, Begun, TypeOK
  <1>5. Counters'
    BY DEF Counters, Within, TypeOK, AgentTypeOK
  <1>6. BudgetOwn'
    BY DEF BudgetOwn, Counters, Within, OverBudget, OverTime, Walls, TypeOK, AgentTypeOK
  <1> QED
    BY <1>2, <1>3, <1>4, <1>5, <1>6

\* The agent submits.
LEMMA SubmitIInv == IInv /\ Submit /\ UNCHANGED repairVars => IInv'
  <1> SUFFICES ASSUME IInv, Submit /\ UNCHANGED repairVars PROVE IInv'
    OBVIOUS
  <1> USE AgentAssumption, RepairAssumption DEF IInv, Submit, Leave, Say, budget, repairVars
  <1>1. AgentTypeOK'
    BY DEF TypeOK, AgentTypeOK, Phases, Statuses, Roles, Marker
  <1>2. TypeOK'
    BY <1>1 DEF TypeOK, Outcomes
  <1>3. Marker'
    BY DEF Marker, OverBudget, OverTime, TypeOK, AgentTypeOK
  <1>4. Talk' /\ Walls' /\ Begun'
    BY DEF Talk, Walls, Begun, TypeOK
  <1>5. Counters'
    BY DEF Counters, Within, TypeOK, AgentTypeOK
  <1>6. BudgetOwn'
    BY DEF BudgetOwn, Counters, Within, OverBudget, OverTime, Walls, TypeOK, AgentTypeOK
  <1> QED
    BY <1>2, <1>3, <1>4, <1>5, <1>6

\* The user interrupts.
LEMMA InterruptedIInv == IInv /\ Interrupted /\ UNCHANGED repairVars => IInv'
  <1> SUFFICES ASSUME IInv, Interrupted /\ UNCHANGED repairVars PROVE IInv'
    OBVIOUS
  <1> USE AgentAssumption, RepairAssumption DEF IInv, Interrupted, Leave, RecordFailed, budget, talk, repairVars
  <1>1. AgentTypeOK'
    <2>1. {limitSeen', dangling', dirty'} \subseteq BOOLEAN
      BY Zenon DEF TypeOK, AgentTypeOK
    <2>2. open' \in 0..1
      BY DEF TypeOK, AgentTypeOK, Marker
    <2>3. paid' \in 0..MaxPaid
      BY DEF TypeOK, AgentTypeOK, Pay
    <2> QED
      BY <2>1, <2>2, <2>3 DEF TypeOK, AgentTypeOK, Phases, Statuses, Roles
  <1>2. TypeOK'
    BY <1>1 DEF TypeOK, Outcomes
  <1>3. Marker'
    BY DEF Marker, OverBudget, OverTime, TypeOK, AgentTypeOK
  <1>4. Talk' /\ Walls' /\ Begun'
    BY DEF Talk, Walls, Begun, TypeOK
  <1>5. Counters'
    BY DEF Counters, Within, TypeOK, AgentTypeOK
  <1>6. BudgetOwn'
    BY DEF BudgetOwn, Counters, Within, OverBudget, OverTime, Walls, TypeOK, AgentTypeOK
  <1> QED
    BY <1>2, <1>3, <1>4, <1>5, <1>6

\* The user interrupts while an answer is recorded.
LEMMA InterruptedRecordIInv == IInv /\ InterruptedRecord /\ UNCHANGED repairVars => IInv'
  <1> SUFFICES ASSUME IInv, InterruptedRecord /\ UNCHANGED repairVars PROVE IInv'
    OBVIOUS
  <1> USE AgentAssumption, RepairAssumption DEF IInv, InterruptedRecord, Leave, Pay, Say, repairVars
  <1>1. AgentTypeOK'
    BY DEF TypeOK, AgentTypeOK, Phases, Statuses, Roles, Marker
  <1>2. TypeOK'
    BY <1>1 DEF TypeOK, Outcomes
  <1>3. Marker'
    BY DEF Marker
  <1>4. Talk' /\ Walls' /\ Begun'
    BY DEF Talk, Walls, Begun, TypeOK
  <1>5. Counters' /\ BudgetOwn'
    BY DEF Counters, BudgetOwn
  <1> QED
    BY <1>2, <1>3, <1>4, <1>5

\* A problem starts with fresh counters and its own time limit.
LEMMA StartProblemIInv == IInv /\ StartProblem => IInv'
  <1> SUFFICES ASSUME IInv, StartProblem PROVE IInv'
    OBVIOUS
  <1> USE AgentAssumption, RepairAssumption DEF IInv, StartProblem, BeginRun
  <1>1. AgentTypeOK'
    <2>1. dangling' \in BOOLEAN
      BY Zenon
    <2> QED
      BY <2>1 DEF TypeOK, AgentTypeOK, Phases, Statuses, Roles
  <1>2. TypeOK'
    <2>1. savedWall' \in Nat
      BY DEF TypeOK, AgentTypeOK
    <2> QED
      BY <1>1, <2>1 DEF TypeOK, Outcomes
  <1>3. Marker'
    BY DEF Marker, OverBudget, OverTime, TypeOK, AgentTypeOK
  <1>4. Talk' /\ Walls' /\ Begun'
    BY DEF Talk, Walls, Begun, TypeOK
  <1>5. Counters'
    BY DEF Counters, Within, TypeOK, AgentTypeOK
  <1>6. BudgetOwn'
    BY DEF BudgetOwn, Counters, Within, OverBudget, OverTime, Walls, TypeOK, AgentTypeOK
  <1> QED
    BY <1>2, <1>3, <1>4, <1>5, <1>6

\* An immediate exit stops the loop.
LEMMA ImmediateExitIInv == IInv /\ ImmediateExit => IInv'
  <1> SUFFICES ASSUME IInv, ImmediateExit PROVE IInv'
    OBVIOUS
  <1> USE AgentAssumption, RepairAssumption DEF IInv, ImmediateExit, Restore, talk
  <1>1. AgentTypeOK'
    BY DEF TypeOK, AgentTypeOK, Phases, Statuses, Roles, Marker
  <1>2. TypeOK'
    BY <1>1 DEF TypeOK, Outcomes
  <1>3. Marker'
    BY DEF Marker, OverBudget, OverTime, TypeOK, AgentTypeOK
  <1>4. Talk' /\ Walls' /\ Begun'
    BY DEF Talk, Walls, Begun, TypeOK
  <1>5. Counters'
    BY DEF Counters, Within, TypeOK, AgentTypeOK
  <1>6. BudgetOwn'
    BY DEF BudgetOwn, Counters, Within, OverBudget, OverTime, Walls, TypeOK, AgentTypeOK
  <1> QED
    BY <1>2, <1>3, <1>4, <1>5, <1>6

\* A problem without a patch.
LEMMA NoPatchIInv == IInv /\ NoPatch => IInv'
  <1> SUFFICES ASSUME IInv, NoPatch PROVE IInv'
    OBVIOUS
  <1> USE AgentAssumption, RepairAssumption DEF IInv, NoPatch, Restore, talk
  <1>1. AgentTypeOK'
    BY DEF TypeOK, AgentTypeOK, Phases, Statuses, Roles, Marker
  <1>2. TypeOK'
    BY <1>1 DEF TypeOK, Outcomes
  <1>3. Marker'
    BY DEF Marker, OverBudget, OverTime, TypeOK, AgentTypeOK
  <1>4. Talk' /\ Walls' /\ Begun'
    BY DEF Talk, Walls, Begun, TypeOK
  <1>5. Counters'
    BY DEF Counters, Within, TypeOK, AgentTypeOK
  <1>6. BudgetOwn'
    BY DEF BudgetOwn, Counters, Within, OverBudget, OverTime, Walls, TypeOK, AgentTypeOK
  <1> QED
    BY <1>2, <1>3, <1>4, <1>5, <1>6

\* A problem with a patch.
LEMMA SavePatchIInv == IInv /\ SavePatch => IInv'
  <1> SUFFICES ASSUME IInv, SavePatch PROVE IInv'
    OBVIOUS
  <1> USE AgentAssumption, RepairAssumption DEF IInv, SavePatch, Restore, talk
  <1>1. AgentTypeOK'
    BY DEF TypeOK, AgentTypeOK, Phases, Statuses, Roles, Marker
  <1>2. TypeOK'
    <2>1. problem \in 1..NumProblems
      BY DEF TypeOK, Begun
    <2>2. [problem |-> problem, blank |-> FALSE] \in [problem : 1..NumProblems, blank : BOOLEAN]
      BY <2>1, Zenon
    <2>3. fixes' \in Seq([problem : 1..NumProblems, blank : BOOLEAN])
      BY <2>2 DEF TypeOK
    <2> QED
      BY <1>1, <2>3 DEF TypeOK, Outcomes
  <1>3. Marker'
    BY DEF Marker, OverBudget, OverTime, TypeOK, AgentTypeOK
  <1>4. Talk' /\ Walls' /\ Begun'
    BY DEF Talk, Walls, Begun, TypeOK
  <1>5. Counters'
    BY DEF Counters, Within, TypeOK, AgentTypeOK
  <1>6. BudgetOwn'
    BY DEF BudgetOwn, Counters, Within, OverBudget, OverTime, Walls, TypeOK, AgentTypeOK
  <1> QED
    BY <1>2, <1>3, <1>4, <1>5, <1>6

\* A problem whose agent run raised.
LEMMA SkipProblemIInv == IInv /\ SkipProblem => IInv'
  <1> SUFFICES ASSUME IInv, SkipProblem PROVE IInv'
    OBVIOUS
  <1> USE AgentAssumption, RepairAssumption DEF IInv, SkipProblem, Restore, talk
  <1>1. AgentTypeOK'
    BY DEF TypeOK, AgentTypeOK, Phases, Statuses, Roles, Marker
  <1>2. TypeOK'
    BY <1>1 DEF TypeOK, Outcomes
  <1>3. Marker'
    BY DEF Marker, OverBudget, OverTime, TypeOK, AgentTypeOK
  <1>4. Talk' /\ Walls' /\ Begun'
    BY DEF Talk, Walls, Begun, TypeOK
  <1>5. Counters'
    BY DEF Counters, Within, TypeOK, AgentTypeOK
  <1>6. BudgetOwn'
    BY DEF BudgetOwn, Counters, Within, OverBudget, OverTime, Walls, TypeOK, AgentTypeOK
  <1> QED
    BY <1>2, <1>3, <1>4, <1>5, <1>6

\* Collecting the diff, or failing to, and standing still.
LEMMA CollectIInv == IInv /\ (Collect \/ CollectRaises) => IInv'
  <1> SUFFICES ASSUME IInv, Collect \/ CollectRaises PROVE IInv'
    OBVIOUS
  <1> USE DEF IInv
  <1>1. UNCHANGED <<agentVars, problem, fixes, stopped, savedWall>>
    BY DEF Collect, CollectRaises
  <1>2. phase = "ready" /\ outcome = "none" /\ outcome' \in Outcomes
    BY DEF Collect, CollectRaises, Outcomes
  <1>3. TypeOK'
    BY <1>1, <1>2 DEF TypeOK, AgentTypeOK, agentVars
  <1>4. Marker' /\ Talk' /\ Counters' /\ BudgetOwn' /\ Walls' /\ Begun'
    BY <1>1, <1>2 DEF Marker, OverBudget, OverTime, Talk, Counters, Within,
       BudgetOwn, Walls, Begun, agentVars
  <1> QED
    BY <1>3, <1>4

\* A step that changes nothing preserves it.
LEMMA StutterIInv == IInv /\ UNCHANGED vars => IInv'
  BY DEF IInv, TypeOK, AgentTypeOK, Marker, OverBudget, OverTime, Talk, Counters,
     Within, BudgetOwn, Walls, Begun, vars, agentVars, repairVars

\* Every step of the repair preserves the inductive invariant.
LEMMA NextIInv == IInv /\ [Next]_vars => IInv'
  <1> SUFFICES ASSUME IInv, [Next]_vars PROVE IInv'
    OBVIOUS
  <1>1. CASE AgentStep /\ UNCHANGED repairVars
    BY <1>1, GateIInv, LimitsIInv, CallModelIInv, ReplyIInv, FormatErrorIInv,
       ContextIInv, ModelErrorIInv, ObserveIInv, SubmitIInv DEF AgentStep
  <1>2. CASE StartProblem \/ ImmediateExit \/ NoPatch \/ SavePatch \/ SkipProblem
    BY <1>2, StartProblemIInv, ImmediateExitIInv, NoPatchIInv, SavePatchIInv,
       SkipProblemIInv
  <1>3. CASE Collect \/ CollectRaises
    BY <1>3, CollectIInv
  <1>4. CASE Tick /\ UNCHANGED repairVars
    BY <1>4, TickIInv
  <1>5. CASE (Interrupted \/ InterruptedRecord) /\ UNCHANGED repairVars
    BY <1>5, InterruptedIInv, InterruptedRecordIInv
  <1>6. CASE UNCHANGED vars
    BY <1>6, StutterIInv
  <1> QED
    BY <1>1, <1>2, <1>3, <1>4, <1>5, <1>6 DEF Next, RepairStep, Over

\* The inductive invariant holds throughout a repair.
THEOREM RepairInvariant == Spec => []IInv
  BY InitIInv, NextIInv, PTL DEF Spec

\* Type correctness of the repair loop and its agent.
THEOREM RepairTypeCorrect == Spec => []TypeOK
  <1>1. IInv => TypeOK
    BY DEF IInv
  <1> QED
    BY <1>1, RepairInvariant, PTL

\* Announced and recorded API calls match at every limit, for any limits; only an
\* interrupt that hits the hook itself leaves one open, and it ends the repair.
THEOREM CallsAlwaysMatched == Spec => []CallsMatched
  <1>1. IInv => CallsMatched
    BY DEF IInv, Marker, CallsMatched, TypeOK, AgentTypeOK
  <1> QED
    BY <1>1, RepairInvariant, PTL

\* The model is only ever called with a well-formed conversation.
THEOREM ConversationSound == Spec => []ConversationWellFormed
  <1>1. IInv => ConversationWellFormed
    BY DEF IInv, Talk, ConversationWellFormed
  <1> QED
    BY <1>1, RepairInvariant, PTL

\* No problem is given up for a limit that earlier problems used up.
THEOREM NoBorrowedBudget == Spec => []BudgetOwn
  <1>1. IInv => BudgetOwn
    BY DEF IInv
  <1> QED
    BY <1>1, RepairInvariant, PTL

\* The configured time limit is in force whenever no problem is worked on.
THEOREM WallAlwaysRestored == Spec => []WallRestored
  <1>1. IInv => WallRestored
    BY DEF IInv, Walls, WallRestored
  <1> QED
    BY <1>1, RepairInvariant, PTL

\* As long as the check of the collected diff does not time out, no submitted
\* patch is lost, whatever git diff does.
THEOREM SubmittedPatchKept ==
  ASSUME ~CheckTimesOut
  PROVE  Spec => []PatchKept
  <1>1. Init => PatchKept
    BY DEF Init, PatchKept
  <1>2. IInv /\ PatchKept /\ [Next]_vars => PatchKept'
    <2> SUFFICES ASSUME IInv, PatchKept, [Next]_vars PROVE PatchKept'
      OBVIOUS
    <2>1. CASE UNCHANGED <<fixes, outcome>>
      BY <2>1 DEF PatchKept
    <2>2. CASE SavePatch
      BY <2>2 DEF SavePatch, PatchKept, IInv, Begun
    <2>3. CASE SkipProblem
      BY <2>3 DEF SkipProblem, PatchKept
    <2>4. CASE Collect
      BY <2>4 DEF Collect, PatchKept
    <2>5. CASE StartProblem \/ ImmediateExit \/ NoPatch
      BY <2>1, <2>5 DEF StartProblem, ImmediateExit, NoPatch
    <2>6. CASE UNCHANGED repairVars \/ UNCHANGED vars
      BY <2>1, <2>6 DEF repairVars, vars
    <2> QED
      BY <2>2, <2>3, <2>4, <2>5, <2>6 DEF Next, RepairStep, CollectRaises, Over
  <1> QED
    BY <1>1, <1>2, RepairInvariant, PTL DEF Spec

-----------------------------------------------------------------------------
(* The batch run: the inductive invariant.                                 *)

Job == [pc : Steps, inst : SUBSET Instances, mode : Modes, agent : BOOLEAN, ready : BOOLEAN,
        writing : BOOLEAN, start : Nat, cost : Nat, data : Contents]

BatchTypes ==
    /\ files \in [Files -> [torn : BOOLEAN, data : Contents]]
    /\ worker \in [Workers -> Job]
    /\ completed \subseteq Instances /\ todo \subseteq Instances
    /\ run \in {"down", "up", "stopping", "done"} /\ pool \subseteq Workers
    /\ globalCost \in Nat /\ nfaults \in Nat /\ spent \in [Instances -> Nat]
    /\ billed \in [Instances -> {Absent} \cup (Nat \X BOOLEAN)]
    /\ saved \subseteq Files \X Instances

Busy(k) == ~At(k, "idle")

\* The threads of the pool work on different instances, none of which is
\* waiting, and nobody works when no run is up.
Assigned ==
    /\ \A k \in Workers : Busy(k) => k \in pool /\ \E i \in Instances : worker[k].inst = {i} /\ i \notin todo
    /\ \A k, l \in Workers : Busy(k) /\ Busy(l) /\ worker[k].inst = worker[l].inst => k = l
    /\ run \in {"down", "done"} => \A k \in Workers : ~Busy(k)
    /\ run = "stopping" => \E k \in Workers : pool = {k}

\* The one who rewrites a file holds the lock; the file is truncated, and the
\* copy in hand has the new entry.
Locked ==
    /\ outputLock = {k \in Workers : worker[k].writing}
    /\ \A k, l \in Workers : worker[k].writing /\ worker[l].writing => k = l
    /\ \A k \in Workers : worker[k].writing =>
         /\ worker[k].pc \in {"remove", "preds", "costs", "problems"}
         /\ files[FileOf(worker[k].pc)].torn
         /\ worker[k].data[inst(k)] = NewEntry(k)

\* Worker k has the entry of i in its copy of f, or is removing it.
Carries(k, f, i) ==
    /\ worker[k].writing /\ FileOf(worker[k].pc) = f
    /\ worker[k].data[i] # Absent \/ (At(k, "remove") /\ worker[k].inst = {i})

\* The entry of i in file f has not been lost.
Held(f, i) ==
    \/ ~files[f].torn /\ files[f].data[i] # Absent
    \/ \E k \in Workers : Carries(k, f, i)

SavedHeld == \A e \in saved : Held(e[1], e[2])

\* Model calls since the worker noted the cost counter are its own, and in a
\* run with one thread only its own.
Counted(k) ==
    /\ At(k, "remove") => spent[inst(k)] = 0
    /\ worker[k].pc \in {"prepare", "setup", "agent", "finish", "trajectory"} =>
         /\ globalCost >= worker[k].start + spent[inst(k)]
         /\ Cardinality(pool) = 1 => globalCost = worker[k].start + spent[inst(k)]
    /\ worker[k].pc \in {"preds", "costs", "problems"} =>
         /\ worker[k].cost >= spent[inst(k)]
         /\ Cardinality(pool) = 1 => worker[k].cost = spent[inst(k)]

\* An entry of costs.json fits what was billed when it was written.
Fits(e, b) == e # Absent => e[2] >= b[1] /\ (b[2] => e[2] = b[1])

Costs ==
    /\ ~files["costs"].torn => \A i \in Instances : Fits(files["costs"].data[i], billed[i])
    /\ \A k \in Workers : worker[k].writing /\ At(k, "costs") =>
         \A i \in Instances \ worker[k].inst : Fits(worker[k].data[i], billed[i])

\* No error of the metrics recorder was hidden.
Trusted == "metrics" \notin Faults \/ nfaults = 0

\* Results are only written for attempts that are completed in the ledger.
Backed ==
    /\ \A f \in Files, i \in Instances : ~files[f].torn /\ files[f].data[i] # Absent => i \in completed
    /\ \A k \in Workers : worker[k].writing =>
         \A i \in Instances : worker[k].data[i] # Absent => i \in completed
    /\ \A k \in Workers : worker[k].pc \in {"trajectory", "preds", "costs", "problems"} /\ worker[k].ready
         => inst(k) \in completed

Reported == \A k \in Workers : worker[k].pc \in {"preds", "costs", "problems"} => worker[k].ready

\* Where a worker is until it has written file f.
Before(f) == {"trajectory", "preds"} \cup (IF f = "preds" THEN {} ELSE {"costs"})
                \cup (IF f = "problems" THEN {"problems"} ELSE {})

\* Worker k is going to write its result for i to f.
Coming(k, f, i) == worker[k].inst = {i} /\ worker[k].ready /\ worker[k].pc \in Before(f)

\* Without faults every file is whole or being rewritten, and an instance that
\* is completed in the ledger has its entry or will get it.
Complete ==
    /\ \A f \in Files : files[f].torn => \E k \in Workers : worker[k].writing /\ FileOf(worker[k].pc) = f
    /\ \A f \in Files, i \in completed :
         \/ Held(f, i)
         \/ f = "preds" /\ i \in removed
         \/ \E k \in Workers : Coming(k, f, i)

BatchInv ==
    /\ BatchTypes /\ Assigned /\ Locked /\ SavedHeld /\ (\A k \in Workers : Counted(k)) /\ Costs /\ Reported
    /\ Trusted => Backed
    /\ nfaults = 0 => Complete

-----------------------------------------------------------------------------
(* Lemmas.                                                                 *)

\* An entry is not an absent one.
LEMMA EntryPresent == ASSUME NEW m, NEW c PROVE <<m, c>> # Absent
BY DEF Absent

\* The instance of a worker, before and after a step.
LEMMA InstIs == ASSUME NEW k, NEW i, worker[k].inst = {i} PROVE inst(k) = i
BY DEF inst

LEMMA InstWillBe == ASSUME NEW k, NEW i, worker'[k].inst = {i} PROVE inst(k)' = i
BY DEF inst

\* The fields of a worker's record.
LEMMA JobFields ==
    ASSUME NEW w \in Job
    PROVE  /\ w.pc \in Steps /\ w.inst \subseteq Instances /\ w.mode \in Modes
           /\ w.agent \in BOOLEAN /\ w.ready \in BOOLEAN /\ w.writing \in BOOLEAN
           /\ w.start \in Nat /\ w.cost \in Nat /\ w.data \in Contents
BY DEF Job

\* A record made of such fields.
LEMMA JobMade ==
    ASSUME NEW p \in Steps, NEW s \in SUBSET Instances, NEW m \in Modes, NEW a \in BOOLEAN,
           NEW r \in BOOLEAN, NEW v \in BOOLEAN, NEW b \in Nat, NEW c \in Nat, NEW d \in Contents
    PROVE  [pc |-> p, inst |-> s, mode |-> m, agent |-> a, ready |-> r, writing |-> v,
            start |-> b, cost |-> c, data |-> d] \in Job
BY DEF Job

\* An idle worker.
LEMMA IdleJob ==
    /\ Idle \in Job /\ Idle.pc = "idle" /\ ~Idle.writing /\ ~Idle.ready /\ NoEntries \in Contents
    /\ Idle.inst = {}
<1>1. NoEntries \in Contents
  BY DEF NoEntries, Contents
<1>2. "idle" \in Steps /\ "baseline" \in Modes /\ 0 \in Nat
  BY DEF Steps, Modes
<1>3. Idle \in Job
  BY <1>1, <1>2, JobMade DEF Idle
<1> QED BY <1>1, <1>3 DEF Idle

\* Whoever works has one instance, and a writer works.
LEMMA Working ==
    ASSUME BatchInv, NEW k \in Workers, Busy(k)
    PROVE  /\ k \in pool /\ inst(k) \in Instances /\ worker[k].inst = {inst(k)} /\ inst(k) \notin todo
           /\ worker[k] \in Job
<1>1. PICK i \in Instances : worker[k].inst = {i} /\ i \notin todo
  BY DEF BatchInv, Assigned
<1>2. inst(k) = i
  BY <1>1, InstIs
<1> QED BY <1>1, <1>2 DEF BatchInv, Assigned, BatchTypes

LEMMA WriterWorks == ASSUME BatchInv, NEW k \in Workers, worker[k].writing PROVE Busy(k)
BY DEF BatchInv, Locked, Busy, At

\* What holds of the files and the workers is kept by a step that changes
\* neither the files nor a worker that rewrites one.
LEMMA Quiet ==
    ASSUME BatchInv, BatchTypes', Assigned', (\A k \in Workers : Counted(k))', Reported',
           UNCHANGED <<files, outputLock, saved, removed, billed>>,
           \A k \in Workers : worker[k].writing => worker'[k] = worker[k],
           \A k \in Workers : worker'[k].writing => worker[k].writing,
           completed \subseteq completed', nfaults <= nfaults',
           Trusted' => \A k \in Workers :
               worker'[k].pc \in {"trajectory", "preds", "costs", "problems"} /\ worker'[k].ready
                  => inst(k)' \in completed',
           nfaults' = 0 => \A f \in Files, i \in Instances :
               /\ \A k \in Workers : Coming(k, f, i) => Coming(k, f, i)'
               /\ i \in completed' \ completed => \E k \in Workers : Coming(k, f, i)'
    PROVE  BatchInv'
<1>0. /\ \A k \in Workers : worker'[k].writing => worker'[k] = worker[k]
      /\ \A k \in Workers : worker[k].writing <=> worker'[k].writing
  OBVIOUS
<1>1. Locked'
  <2>1. outputLock' = {k \in Workers : worker'[k].writing}
    BY <1>0 DEF BatchInv, Locked
  <2>2. ASSUME NEW k \in Workers, worker'[k].writing
        PROVE  /\ worker'[k].pc \in {"remove", "preds", "costs", "problems"}
               /\ files'[FileOf(worker'[k].pc)].torn
               /\ worker'[k].data[inst(k)'] = NewEntry(k)'
    <3>1. worker'[k] = worker[k] /\ worker[k].writing
      BY <1>0, <2>2
    <3>2. inst(k)' = inst(k) /\ NewEntry(k)' = NewEntry(k)
      BY <3>1 DEF inst, NewEntry, At
    <3> QED BY <3>1, <3>2 DEF BatchInv, Locked
  <2>3. \A k, l \in Workers : worker'[k].writing /\ worker'[l].writing => k = l
    BY <1>0 DEF BatchInv, Locked
  <2> QED BY <2>1, <2>2, <2>3 DEF Locked
<1>2. \A f, i : Held(f, i) => Held(f, i)'
  BY <1>0 DEF Held, Carries, At
<1>3. SavedHeld'
  BY <1>2 DEF BatchInv, SavedHeld
<1>4. Costs'
  BY <1>0 DEF BatchInv, Costs, At
<1>5. Trusted' => Trusted /\ (nfaults' = 0 => nfaults = 0)
  BY DEF Trusted, BatchInv, BatchTypes
<1>6. Trusted' => Backed'
  <2> SUFFICES ASSUME Trusted' PROVE Backed'
    OBVIOUS
  <2>1. Backed
    BY <1>5 DEF BatchInv
  <2> QED BY <1>0, <2>1 DEF Backed
<1>7. nfaults' = 0 => Complete'
  <2> SUFFICES ASSUME nfaults' = 0 PROVE Complete'
    OBVIOUS
  <2>1. Complete
    BY <1>5 DEF BatchInv, BatchTypes, Trusted
  <2>2. \A f \in Files : files'[f].torn => \E k \in Workers : worker'[k].writing /\ FileOf(worker'[k].pc) = f
    BY <2>1 DEF Complete
  <2>3. ASSUME NEW f \in Files, NEW i \in completed'
        PROVE  Held(f, i)' \/ (f = "preds" /\ i \in removed') \/ \E k \in Workers : Coming(k, f, i)'
    <3>1. i \in Instances
      BY DEF BatchTypes
    <3> QED BY <1>2, <2>1, <3>1 DEF Complete
  <2> QED BY <2>2, <2>3 DEF Complete
<1> QED BY <1>1, <1>3, <1>4, <1>6, <1>7 DEF BatchInv

-----------------------------------------------------------------------------
(* Steps of a worker that does not rewrite a file.                         *)

\* Worker k goes on with its instance.
LEMMA GoesOn ==
    ASSUME BatchInv, NEW k \in Workers, NEW w \in Job, worker' = [worker EXCEPT ![k] = w],
           Busy(k), ~worker[k].writing, ~w.writing, w.pc # "idle", w.inst = worker[k].inst,
           UNCHANGED <<files, outputLock, saved, removed, billed, pool, todo, globalCost, spent>>,
           completed \subseteq completed', completed' \subseteq completed \cup {inst(k)},
           nfaults' \in Nat, nfaults <= nfaults',
           run' = run \/ (run' = "stopping" /\ pool = {k}),
           Counted(k)', w.pc \in {"preds", "costs", "problems"} => w.ready,
           Trusted' => (w.pc \in {"trajectory", "preds", "costs", "problems"} /\ w.ready => inst(k) \in completed'),
           nfaults' = 0 => \A f \in Files :
               \/ w.ready /\ w.pc \in Before(f)
               \/ completed' = completed /\ ~(worker[k].ready /\ worker[k].pc \in Before(f))
    PROVE  BatchInv'
<1>0. /\ worker[k].inst = {inst(k)} /\ inst(k) \in Instances /\ k \in pool /\ inst(k) \notin todo
      /\ worker \in [Workers -> Job]
  BY Working DEF BatchInv, BatchTypes
<1>1. /\ worker' \in [Workers -> Job] /\ worker'[k] = w
      /\ \A l \in Workers : l # k => worker'[l] = worker[l]
  BY <1>0
<1>2. inst(k)' = inst(k)
  BY <1>0, <1>1, InstWillBe
<1>3. BatchTypes'
  BY <1>0, <1>1 DEF BatchInv, BatchTypes
<1>4. \A l \in Workers : (Busy(l)' <=> Busy(l)) /\ worker'[l].inst = worker[l].inst
  BY <1>1 DEF Busy, At
<1>5. Assigned'
  <2>1. run' \in {"down", "done"} => \A l \in Workers : ~Busy(l)'
    BY <1>4 DEF BatchInv, Assigned
  <2> QED BY <1>4, <2>1 DEF BatchInv, Assigned
<1>6. (\A l \in Workers : Counted(l))'
  <2> SUFFICES ASSUME NEW l \in Workers, l # k PROVE Counted(l)'
    OBVIOUS
  <2>1. worker'[l] = worker[l] /\ inst(l)' = inst(l)
    BY <1>1 DEF inst
  <2> QED BY <2>1 DEF BatchInv, Counted, At
<1>7. Reported'
  BY <1>1 DEF BatchInv, Reported
<1>8. ASSUME Trusted', NEW l \in Workers,
             worker'[l].pc \in {"trajectory", "preds", "costs", "problems"}, worker'[l].ready
      PROVE  inst(l)' \in completed'
  <2>1. CASE l = k
    BY <1>1, <1>2, <1>8, <2>1
  <2>2. CASE l # k
    <3>1. worker'[l] = worker[l] /\ inst(l)' = inst(l)
      BY <1>1, <2>2 DEF inst
    <3>2. Trusted
      BY <1>8 DEF Trusted, BatchInv, BatchTypes
    <3> QED BY <1>8, <3>1, <3>2 DEF BatchInv, Backed
  <2> QED BY <2>1, <2>2
<1>9. ASSUME nfaults' = 0, NEW f \in Files, NEW i \in Instances
      PROVE  /\ \A l \in Workers : Coming(l, f, i) => Coming(l, f, i)'
             /\ i \in completed' \ completed => \E l \in Workers : Coming(l, f, i)'
  <2>1. \A l \in Workers : Coming(l, f, i) => Coming(l, f, i)'
    BY <1>1, <1>9 DEF Coming
  <2>2. i \in completed' \ completed => Coming(k, f, i)'
    BY <1>0, <1>1, <1>9 DEF Coming
  <2> QED BY <2>1, <2>2
<1> QED BY <1>1, <1>3, <1>5, <1>6, <1>7, <1>8, <1>9, Quiet

\* Worker k is through with its instance.
LEMMA Leaves ==
    ASSUME BatchInv, NEW k \in Workers, worker' = [worker EXCEPT ![k] = Idle], Busy(k), ~worker[k].writing,
           UNCHANGED <<files, outputLock, saved, removed, billed, pool, globalCost, spent, completed>>,
           \/ todo' = todo /\ (run' = run \/ run' = "up")
           \/ todo' = {} /\ run = "stopping" /\ run' = "down",
           nfaults' \in Nat, nfaults <= nfaults',
           nfaults' = 0 => \A f \in Files : ~(worker[k].ready /\ worker[k].pc \in Before(f))
    PROVE  BatchInv'
<1>0. worker \in [Workers -> Job] /\ run # "down" /\ run # "done" /\ k \in pool
  BY DEF BatchInv, BatchTypes, Assigned
<1>1. /\ worker' \in [Workers -> Job] /\ worker'[k] = Idle
      /\ \A l \in Workers : l # k => worker'[l] = worker[l]
  BY <1>0, IdleJob
<1>2. BatchTypes'
  BY <1>1 DEF BatchInv, BatchTypes
<1>3. ~Busy(k)' /\ \A l \in Workers : Busy(l)' => Busy(l) /\ worker'[l] = worker[l]
  BY <1>1, IdleJob DEF Busy, At
<1>4. Assigned'
  <2>1. ASSUME run' \in {"down", "done"}, NEW l \in Workers PROVE ~Busy(l)'
    <3>1. run = "stopping"
      BY <1>0, <2>1
    <3>2. pool = {k}
      BY <1>0, <3>1 DEF BatchInv, Assigned
    <3> QED BY <1>3, <3>2 DEF BatchInv, Assigned
  <2>2. \A l \in Workers : Busy(l)' =>
          l \in pool' /\ \E i \in Instances : worker'[l].inst = {i} /\ i \notin todo'
    BY <1>3 DEF BatchInv, Assigned
  <2>3. \A l, m \in Workers : Busy(l)' /\ Busy(m)' /\ worker'[l].inst = worker'[m].inst => l = m
    BY <1>3 DEF BatchInv, Assigned
  <2> QED BY <2>1, <2>2, <2>3 DEF BatchInv, Assigned
<1>5. (\A l \in Workers : Counted(l))'
  <2> SUFFICES ASSUME NEW l \in Workers PROVE Counted(l)'
    OBVIOUS
  <2>1. CASE l = k
    BY <1>1, <2>1, IdleJob DEF Counted, At
  <2>2. CASE l # k
    <3>1. worker'[l] = worker[l] /\ inst(l)' = inst(l)
      BY <1>1, <2>2 DEF inst
    <3> QED BY <3>1 DEF BatchInv, Counted, At
  <2> QED BY <2>1, <2>2
<1>6. Reported'
  BY <1>1, IdleJob DEF BatchInv, Reported
<1>7. ASSUME Trusted', NEW l \in Workers,
             worker'[l].pc \in {"trajectory", "preds", "costs", "problems"}, worker'[l].ready
      PROVE  inst(l)' \in completed'
  <2>1. worker'[l] = worker[l] /\ inst(l)' = inst(l)
    BY <1>1, <1>7, IdleJob DEF inst
  <2>2. Trusted
    BY <1>7 DEF Trusted, BatchInv, BatchTypes
  <2> QED BY <1>7, <2>1, <2>2 DEF BatchInv, Backed
<1>8. ASSUME nfaults' = 0, NEW f \in Files, NEW i \in Instances, NEW l \in Workers, Coming(l, f, i)
      PROVE  Coming(l, f, i)'
  BY <1>1, <1>8 DEF Coming
<1>9. \A l \in Workers : worker'[l].writing => worker[l].writing
  BY <1>1, IdleJob
<1> QED BY <1>1, <1>2, <1>4, <1>5, <1>6, <1>7, <1>8, <1>9, Quiet

\* The workers stay where they are.
LEMMA Stays ==
    ASSUME BatchInv, UNCHANGED <<worker, files, outputLock, saved, removed, billed, completed>>,
           BatchTypes', Assigned', (\A k \in Workers : Counted(k))', nfaults <= nfaults'
    PROVE  BatchInv'
<1>1. \A k : inst(k)' = inst(k)
  BY DEF inst
<1>2. Reported'
  BY DEF BatchInv, Reported
<1>3. Trusted' => Trusted
  BY DEF Trusted, BatchInv, BatchTypes
<1>4. Trusted' => \A k \in Workers :
           worker'[k].pc \in {"trajectory", "preds", "costs", "problems"} /\ worker'[k].ready
              => inst(k)' \in completed'
  BY <1>1, <1>3 DEF BatchInv, Backed
<1>5. \A f \in Files, i \in Instances, k \in Workers : Coming(k, f, i) => Coming(k, f, i)'
  BY DEF Coming
<1> QED BY <1>2, <1>4, <1>5, Quiet

-----------------------------------------------------------------------------
(* The actions of process_instance.                                        *)

\* Who writes.
LEMMA NotWriting ==
    ASSUME BatchInv, NEW k \in Workers,
           outputLock = {} \/ worker[k].pc \notin {"remove", "preds", "costs", "problems"}
    PROVE  ~worker[k].writing
BY DEF BatchInv, Locked

LEMMA PrepareInv == ASSUME BatchInv, NEW k \in Workers, Prepare(k) PROVE BatchInv'
<1>1. PICK m \in Modes : worker' = [worker EXCEPT ![k] = [@ EXCEPT !.pc = "setup", !.mode = m]]
  BY DEF Prepare, Modes
<1>2. /\ At(k, "prepare") /\ Busy(k) /\ ~worker[k].writing
      /\ UNCHANGED <<files, outputLock, saved, removed, billed, pool, todo, globalCost, spent, completed,
                     nfaults, run>>
  BY NotWriting DEF Prepare, At, Busy, metricsVars, runVars, lineVars, costVars, savedVars
<1> DEFINE w == [worker[k] EXCEPT !.pc = "setup", !.mode = m]
<1>3. worker' = [worker EXCEPT ![k] = w] /\ worker'[k] = w
  BY <1>1 DEF BatchInv, BatchTypes
<1>4. worker[k] \in Job /\ worker[k].inst = {inst(k)}
  BY <1>2, Working
<1>6. w \in Job /\ w.pc = "setup" /\ w.inst = worker[k].inst /\ w.writing = worker[k].writing /\ w.start = worker[k].start
  BY <1>4 DEF Job, Steps
<1> HIDE DEF w
<1>7. inst(k)' = inst(k)
  BY <1>3, <1>4, <1>6, InstWillBe
<1>8. Counted(k)'
  BY <1>2, <1>3, <1>6, <1>7 DEF BatchInv, Counted, At
<1>9. \A f \in Files : worker[k].pc \notin Before(f)
  BY <1>2 DEF Before, At
<1>10. /\ completed \subseteq completed' /\ completed' \subseteq completed \cup {inst(k)} /\ run' = run
       /\ nfaults' \in Nat /\ nfaults <= nfaults' /\ completed' = completed
  BY <1>2 DEF BatchInv, BatchTypes
<1> QED BY <1>2, <1>3, <1>6, <1>8, <1>9, <1>10, GoesOn

LEMMA SetUpInv == ASSUME BatchInv, NEW k \in Workers, SetUp(k) PROVE BatchInv'
<1>1. PICK ok \in BOOLEAN :
        worker' = [worker EXCEPT ![k] = [@ EXCEPT !.pc = IF ok THEN "agent" ELSE "finish", !.agent = ok]]
  BY DEF SetUp
<1>2. /\ At(k, "setup") /\ Busy(k) /\ ~worker[k].writing
      /\ UNCHANGED <<files, outputLock, saved, removed, billed, pool, todo, globalCost, spent, completed,
                     nfaults, run>>
  BY NotWriting DEF SetUp, At, Busy, metricsVars, runVars, lineVars, costVars, savedVars
<1> DEFINE p == IF ok THEN "agent" ELSE "finish"
           w == [worker[k] EXCEPT !.pc = p, !.agent = ok]
<1>3. worker' = [worker EXCEPT ![k] = w] /\ worker'[k] = w
  BY <1>1 DEF BatchInv, BatchTypes
<1>4. worker[k] \in Job /\ worker[k].inst = {inst(k)} /\ p \in {"agent", "finish"}
  BY <1>2, Working
<1> HIDE DEF p
<1>6. w \in Job /\ w.pc = p /\ w.inst = worker[k].inst /\ w.writing = worker[k].writing /\ w.start = worker[k].start
  BY <1>4 DEF Job, Steps
<1> HIDE DEF w
<1>7. inst(k)' = inst(k)
  BY <1>3, <1>4, <1>6, InstWillBe
<1>8. Counted(k)'
  BY <1>2, <1>3, <1>4, <1>6, <1>7 DEF BatchInv, Counted, At
<1>9. \A f \in Files : worker[k].pc \notin Before(f)
  BY <1>2 DEF Before, At
<1>10. /\ completed \subseteq completed' /\ completed' \subseteq completed \cup {inst(k)} /\ run' = run
       /\ nfaults' \in Nat /\ nfaults <= nfaults' /\ completed' = completed
  BY <1>2 DEF BatchInv, BatchTypes
<1> QED BY <1>2, <1>3, <1>4, <1>6, <1>8, <1>9, <1>10, GoesOn

LEMMA EndRepairInv == ASSUME BatchInv, NEW k \in Workers, EndRepair(k) PROVE BatchInv'
<1>1. PICK r \in BOOLEAN : worker' = [worker EXCEPT ![k] = [@ EXCEPT !.pc = "finish", !.ready = r]]
  BY DEF EndRepair
<1>2. /\ At(k, "agent") /\ Busy(k) /\ ~worker[k].writing
      /\ UNCHANGED <<files, outputLock, saved, removed, billed, pool, todo, globalCost, spent, completed,
                     nfaults, run>>
  BY NotWriting DEF EndRepair, At, Busy, metricsVars, runVars, lineVars, costVars, savedVars
<1> DEFINE w == [worker[k] EXCEPT !.pc = "finish", !.ready = r]
<1>3. worker' = [worker EXCEPT ![k] = w] /\ worker'[k] = w
  BY <1>1 DEF BatchInv, BatchTypes
<1>4. worker[k] \in Job /\ worker[k].inst = {inst(k)}
  BY <1>2, Working
<1>6. w \in Job /\ w.pc = "finish" /\ w.inst = worker[k].inst /\ w.writing = worker[k].writing /\ w.start = worker[k].start
  BY <1>4 DEF Job, Steps
<1> HIDE DEF w
<1>7. inst(k)' = inst(k)
  BY <1>3, <1>4, <1>6, InstWillBe
<1>8. Counted(k)'
  BY <1>2, <1>3, <1>6, <1>7 DEF BatchInv, Counted, At
<1>9. \A f \in Files : worker[k].pc \notin Before(f)
  BY <1>2 DEF Before, At
<1>10. /\ completed \subseteq completed' /\ completed' \subseteq completed \cup {inst(k)} /\ run' = run
       /\ nfaults' \in Nat /\ nfaults <= nfaults' /\ completed' = completed
  BY <1>2 DEF BatchInv, BatchTypes
<1> QED BY <1>2, <1>3, <1>6, <1>8, <1>9, <1>10, GoesOn

\* The attempt is completed in the ledger before anything is written.
LEMMA FinishMetricsInv == ASSUME BatchInv, NEW k \in Workers, FinishMetrics(k) PROVE BatchInv'
<1> DEFINE with == IF worker[k].ready THEN completed \cup {inst(k)} ELSE completed
<1>1. /\ worker' = [worker EXCEPT ![k].pc = "trajectory"]
      /\ At(k, "finish") /\ Busy(k) /\ ~worker[k].writing
      /\ UNCHANGED <<files, outputLock, saved, removed, billed, pool, todo, globalCost, spent, run>>
  BY NotWriting DEF FinishMetrics, At, Busy, runVars, lineVars, costVars, savedVars
<1>2. \/ completed' = with /\ nfaults' = nfaults
      \/ "metrics" \in Faults /\ nfaults' = nfaults + 1 /\ completed' \in {completed, with}
  BY DEF FinishMetrics, Fault
<1> DEFINE w == [worker[k] EXCEPT !.pc = "trajectory"]
<1>3. worker' = [worker EXCEPT ![k] = w] /\ worker'[k] = w
  BY <1>1 DEF BatchInv, BatchTypes
<1>4. worker[k] \in Job /\ worker[k].inst = {inst(k)} /\ nfaults \in Nat
  BY <1>1, Working DEF BatchInv, BatchTypes
<1>6. /\ w \in Job /\ w.pc = "trajectory" /\ w.inst = worker[k].inst /\ ~w.writing /\ w.start = worker[k].start
      /\ w.ready = worker[k].ready
  BY <1>1, <1>4 DEF Job, Steps
<1> HIDE DEF w
<1>7. inst(k)' = inst(k)
  BY <1>3, <1>4, <1>6, InstWillBe
<1>8. Counted(k)'
  BY <1>1, <1>3, <1>6, <1>7 DEF BatchInv, Counted, At
<1>9. \A f \in Files : worker[k].pc \notin Before(f) /\ w.pc \in Before(f)
  BY <1>1, <1>6 DEF Before, At
<1>10. /\ completed \subseteq completed' /\ completed' \subseteq completed \cup {inst(k)}
       /\ nfaults' \in Nat /\ nfaults <= nfaults'
  BY <1>2, <1>4
<1>11. Trusted' => completed' = with
  BY <1>2, <1>4 DEF Trusted
<1>12. Trusted' => (w.ready => inst(k) \in completed')
  BY <1>6, <1>11
<1>13. nfaults' = 0 => (w.ready \/ completed' = completed)
  BY <1>2, <1>4, <1>6
<1> HIDE DEF with
<1> QED BY <1>1, <1>3, <1>6, <1>8, <1>9, <1>10, <1>12, <1>13, GoesOn

LEMMA SaveTrajectoryInv == ASSUME BatchInv, NEW k \in Workers, SaveTrajectory(k) PROVE BatchInv'
<1> DEFINE p == IF worker[k].ready THEN "preds" ELSE "end"
           c == InstanceCost(k)
           w == [worker[k] EXCEPT !.pc = p, !.cost = c]
<1>1. /\ At(k, "trajectory") /\ Busy(k) /\ ~worker[k].writing
      /\ UNCHANGED <<files, outputLock, saved, removed, billed, pool, todo, globalCost, spent, completed,
                     nfaults, run>>
  BY NotWriting DEF SaveTrajectory, At, Busy, metricsVars, runVars, lineVars, costVars, savedVars
<1>2. worker' = [worker EXCEPT ![k] = w] /\ worker'[k] = w
  BY DEF SaveTrajectory, BatchInv, BatchTypes
<1>3. worker[k] \in Job /\ worker[k].inst = {inst(k)} /\ inst(k) \in Instances
  BY <1>1, Working
<1>4. /\ p \in {"preds", "end"} /\ (p = "preds" <=> worker[k].ready)
      /\ globalCost \in Nat /\ spent[inst(k)] \in Nat /\ worker[k].start \in Nat
  BY <1>3, JobFields DEF BatchInv, BatchTypes
<1>5. c \in Nat /\ c >= spent[inst(k)] /\ (Cardinality(pool) = 1 => c = spent[inst(k)])
  BY <1>1, <1>4 DEF BatchInv, Counted, At, InstanceCost
<1> HIDE DEF p, c
<1>6. /\ w \in Job /\ w.pc = p /\ w.inst = worker[k].inst /\ w.writing = worker[k].writing
      /\ w.cost = c /\ w.ready = worker[k].ready
  BY <1>3, <1>4, <1>5 DEF Job, Steps
<1> HIDE DEF w
<1>7. inst(k)' = inst(k)
  BY <1>2, <1>3, <1>6, InstWillBe
<1>8. Counted(k)'
  BY <1>1, <1>2, <1>4, <1>5, <1>6, <1>7 DEF Counted, At
<1>9. \A f \in Files : (w.ready /\ w.pc \in Before(f)) \/ ~worker[k].ready
  BY <1>4, <1>6 DEF Before
<1>10. Trusted' => (w.ready => inst(k) \in completed)
  BY <1>1, <1>6 DEF BatchInv, Backed, Trusted, At
<1>11. /\ completed \subseteq completed' /\ completed' \subseteq completed \cup {inst(k)} /\ run' = run
       /\ nfaults' \in Nat /\ nfaults <= nfaults' /\ completed' = completed
  BY <1>1 DEF BatchInv, BatchTypes
<1> QED BY <1>1, <1>2, <1>4, <1>6, <1>8, <1>9, <1>10, <1>11, GoesOn

LEMMA TrajectoryFailsInv == ASSUME BatchInv, NEW k \in Workers, TrajectoryFails(k) PROVE BatchInv'
<1>1. /\ worker' = [worker EXCEPT ![k] = Idle] /\ Busy(k) /\ ~worker[k].writing
      /\ UNCHANGED <<files, outputLock, saved, removed, billed, pool, todo, globalCost, spent, completed>>
      /\ run' = "up" /\ nfaults' = nfaults + 1
  BY NotWriting DEF TrajectoryFails, Escapes, Fault, At, Busy, metricsVars, lineVars, costVars, savedVars
<1>2. nfaults' \in Nat /\ nfaults <= nfaults' /\ nfaults' # 0
  BY <1>1 DEF BatchInv, BatchTypes
<1> QED BY <1>1, <1>2, Leaves

LEMMA EndInv == ASSUME BatchInv, NEW k \in Workers, End(k) PROVE BatchInv'
<1>1. /\ worker' = [worker EXCEPT ![k] = Idle] /\ At(k, "end") /\ Busy(k) /\ ~worker[k].writing
      /\ UNCHANGED <<files, outputLock, saved, removed, billed, pool, globalCost, spent, completed, nfaults>>
      /\ IF run = "stopping" THEN run' = "down" /\ todo' = {} ELSE run' = run /\ todo' = todo
  BY NotWriting DEF End, At, Busy, metricsVars, lineVars, costVars, savedVars
<1>2. nfaults' \in Nat /\ nfaults <= nfaults'
  BY <1>1 DEF BatchInv, BatchTypes
<1>3. \A f \in Files : worker[k].pc \notin Before(f)
  BY <1>1 DEF Before, At
<1> QED BY <1>1, <1>2, <1>3, Leaves

\* What Advance leaves of a worker's record.
LEMMA Advances ==
    ASSUME BatchInv, NEW k \in Workers, Advance(k), worker[k].pc \in {"remove", "preds", "costs", "problems"}
    PROVE  \E w \in Job : /\ worker' = [worker EXCEPT ![k] = w] /\ worker'[k] = w
                          /\ w.pc = NextPc(worker[k].pc) /\ w.inst = worker[k].inst /\ ~w.writing
                          /\ w.ready = worker[k].ready /\ w.cost = worker[k].cost
                          /\ At(k, "remove") => w.start = globalCost
<1> DEFINE p == NextPc(worker[k].pc)
           b == IF At(k, "remove") THEN globalCost ELSE worker[k].start
           w == [worker[k] EXCEPT !.pc = p, !.writing = FALSE, !.data = NoEntries, !.start = b]
<1>1. worker[k] \in Job /\ worker \in [Workers -> Job] /\ globalCost \in Nat
  BY DEF BatchInv, BatchTypes
<1>2. p \in Steps /\ b \in Nat /\ (At(k, "remove") => b = globalCost)
  BY <1>1, JobFields DEF NextPc, Steps, At
<1>3. worker' = [worker EXCEPT ![k] = w] /\ worker'[k] = w
  BY <1>1 DEF Advance
<1> HIDE DEF p, b
<1>4. /\ w \in Job /\ w.pc = p /\ w.inst = worker[k].inst /\ ~w.writing /\ w.ready = worker[k].ready
      /\ w.cost = worker[k].cost /\ w.start = b
  BY <1>1, <1>2, IdleJob DEF Job
<1> HIDE DEF w
<1>5. p = NextPc(worker[k].pc)
  BY DEF p
<1> QED BY <1>2, <1>3, <1>4, <1>5

LEMMA SkipRemoveInv == ASSUME BatchInv, NEW k \in Workers, SkipRemove(k) PROVE BatchInv'
<1>1. /\ At(k, "remove") /\ Busy(k) /\ ~worker[k].writing
      /\ UNCHANGED <<files, outputLock, saved, removed, billed, pool, todo, globalCost, spent, completed,
                     nfaults, run>>
  BY NotWriting DEF SkipRemove, At, Busy, metricsVars, runVars, lineVars, costVars, savedVars
<1>2. PICK w \in Job : /\ worker' = [worker EXCEPT ![k] = w] /\ worker'[k] = w /\ w.start = globalCost
                       /\ w.pc = "prepare" /\ w.inst = worker[k].inst /\ ~w.writing
  BY <1>1, Advances DEF SkipRemove, NextPc, At
<1>3. /\ worker[k] \in Job /\ worker[k].inst = {inst(k)} /\ inst(k) \in Instances
      /\ globalCost \in Nat /\ spent[inst(k)] \in Nat
  BY <1>1, Working DEF BatchInv, BatchTypes
<1>4. inst(k)' = inst(k)
  BY <1>2, <1>3, InstWillBe
<1>5. Counted(k)'
  BY <1>1, <1>2, <1>3, <1>4 DEF BatchInv, Counted, At
<1>6. \A f \in Files : worker[k].pc \notin Before(f)
  BY <1>1 DEF Before, At
<1>7. /\ completed \subseteq completed' /\ completed' \subseteq completed \cup {inst(k)} /\ run' = run
      /\ nfaults' \in Nat /\ nfaults <= nfaults' /\ completed' = completed
  BY <1>1 DEF BatchInv, BatchTypes
<1> QED BY <1>1, <1>2, <1>5, <1>6, <1>7, GoesOn

\* ^C moves the only thread to the finally clause, or ends the process.
LEMMA InterruptedInv ==
    ASSUME BatchInv, NEW k \in Workers, InterruptSerial(k), worker[k].pc \in {"setup", "agent"}
    PROVE  BatchInv'
<1> DEFINE w == [worker[k] EXCEPT !.pc = "finish"]
<1>1. /\ Busy(k) /\ ~worker[k].writing /\ run' = "stopping" /\ pool = {k}
      /\ UNCHANGED <<files, outputLock, saved, removed, billed, pool, todo, globalCost, spent, completed>>
      /\ nfaults' = nfaults + 1
  BY NotWriting DEF InterruptSerial, Fault, At, Busy, metricsVars, lineVars, costVars, savedVars
<1>2. worker' = [worker EXCEPT ![k] = w] /\ worker'[k] = w
  BY DEF InterruptSerial, BatchInv, BatchTypes
<1>3. worker[k] \in Job /\ worker[k].inst = {inst(k)} /\ nfaults \in Nat
  BY <1>1, Working DEF BatchInv, BatchTypes
<1>4. w \in Job /\ w.pc = "finish" /\ w.inst = worker[k].inst /\ w.writing = worker[k].writing /\ w.start = worker[k].start
  BY <1>3 DEF Job, Steps
<1> HIDE DEF w
<1>5. inst(k)' = inst(k)
  BY <1>2, <1>3, <1>4, InstWillBe
<1>6. Counted(k)'
  BY <1>1, <1>2, <1>4, <1>5 DEF BatchInv, Counted, At
<1>7. /\ completed \subseteq completed' /\ completed' \subseteq completed \cup {inst(k)}
      /\ nfaults' \in Nat /\ nfaults <= nfaults' /\ nfaults' # 0
  BY <1>1, <1>3
<1> QED BY <1>1, <1>2, <1>4, <1>6, <1>7, GoesOn

\* Two workers are never the same run's only thread.
LEMMA OnlyThread ==
    ASSUME BatchInv, Cardinality(pool) = 1, NEW k \in pool, NEW l \in pool PROVE k = l
<1>1. IsFiniteSet(pool)
  BY CibenchAssumption, FS_Subset DEF BatchInv, BatchTypes
<1>2. PICK x : pool = {x}
  BY <1>1, FS_Singleton
<1> QED BY <1>2

LEMMA QueryInv == ASSUME BatchInv, NEW k \in Workers, Query(k) PROVE BatchInv'
<1>1. /\ At(k, "agent") /\ Busy(k) /\ globalCost' = globalCost + 1
      /\ spent' = [spent EXCEPT ![inst(k)] = @ + 1]
      /\ UNCHANGED <<worker, files, outputLock, saved, removed, billed, completed, run, pool, todo, nfaults>>
  BY DEF Query, At, Busy, metricsVars, runVars, lineVars, savedVars
<1>2. k \in pool /\ inst(k) \in Instances /\ worker[k].inst = {inst(k)} /\ worker[k] \in Job
  BY <1>1, Working
<1>3. BatchTypes' /\ nfaults <= nfaults'
  BY <1>1, <1>2 DEF BatchInv, BatchTypes
<1>4. Assigned'
  BY <1>1 DEF BatchInv, Assigned, Busy, At
<1>5. \A l : inst(l)' = inst(l)
  BY <1>1 DEF inst
<1>6. ASSUME NEW l \in Workers PROVE Counted(l)'
  <2>1. CASE l = k
    <3>1. globalCost \in Nat /\ spent[inst(k)] \in Nat /\ worker[k].start \in Nat /\ spent'[inst(k)] = spent[inst(k)] + 1
      BY <1>1, <1>2, JobFields DEF BatchInv, BatchTypes
    <3> QED BY <1>1, <1>5, <2>1, <3>1 DEF BatchInv, Counted, At
  <2>2. CASE l # k /\ Busy(l)
    <3>1. l \in pool /\ inst(l) \in Instances /\ worker[l].inst = {inst(l)} /\ worker[l] \in Job
      BY <2>2, Working
    <3>2. inst(l) # inst(k)
      BY <1>1, <1>2, <2>2, <3>1 DEF BatchInv, Assigned
    <3>3. spent'[inst(l)] = spent[inst(l)] /\ globalCost \in Nat /\ spent[inst(l)] \in Nat /\ worker[l].start \in Nat
      BY <1>1, <3>1, <3>2, JobFields DEF BatchInv, BatchTypes
    <3>4. Cardinality(pool) # 1
      BY <1>2, <2>2, <3>1, OnlyThread
    <3> QED BY <1>1, <1>5, <3>3, <3>4 DEF BatchInv, Counted, At
  <2>3. CASE ~Busy(l)
    BY <1>1, <2>3 DEF Counted, Busy, At
  <2> QED BY <2>1, <2>2, <2>3
<1> QED BY <1>1, <1>3, <1>4, <1>6, Stays

LEMMA StartInstanceInv ==
    ASSUME BatchInv, NEW k \in Workers, NEW i \in Instances, StartInstance(k, i) PROVE BatchInv'
<1> DEFINE w == [Idle EXCEPT !.pc = "remove", !.inst = {i}]
<1>1. /\ run = "up" /\ k \in pool /\ ~Busy(k) /\ i \in todo /\ todo' = todo \ {i}
      /\ worker' = [worker EXCEPT ![k] = w] /\ spent' = [spent EXCEPT ![i] = 0]
      /\ UNCHANGED <<files, outputLock, saved, removed, billed, completed, run, pool, nfaults, globalCost>>
  BY DEF StartInstance, At, Busy, lineVars, savedVars
<1>2. w \in Job /\ w.pc = "remove" /\ w.inst = {i} /\ ~w.writing /\ ~w.ready
  <2>1. Idle \in Job /\ ~Idle.writing /\ ~Idle.ready
    BY IdleJob
  <2> HIDE DEF Idle
  <2> QED BY <2>1 DEF Job, Steps
<1>3. worker \in [Workers -> Job] /\ spent \in [Instances -> Nat] /\ ~worker[k].writing
  BY <1>1, WriterWorks DEF BatchInv, BatchTypes
<1> HIDE DEF w
<1>4. /\ worker' \in [Workers -> Job] /\ worker'[k] = w /\ \A l \in Workers : l # k => worker'[l] = worker[l]
      /\ spent'[i] = 0 /\ \A j \in Instances : j # i => spent'[j] = spent[j]
  BY <1>1, <1>2, <1>3
<1>5. BatchTypes'
  BY <1>1, <1>2, <1>3, <1>4 DEF BatchInv, BatchTypes
<1>6. \A l \in Workers : l # k => (Busy(l)' <=> Busy(l)) /\ worker'[l].inst = worker[l].inst
  BY <1>4 DEF Busy, At
<1>7. Assigned'
  <2>1. \A l \in Workers : Busy(l)' => l \in pool' /\ \E j \in Instances : worker'[l].inst = {j} /\ j \notin todo'
    BY <1>1, <1>2, <1>4, <1>6 DEF BatchInv, Assigned
  <2>2. \A l \in Workers : l # k /\ Busy(l) => worker[l].inst # {i}
    BY <1>1 DEF BatchInv, Assigned
  <2>3. \A l, m \in Workers : Busy(l)' /\ Busy(m)' /\ worker'[l].inst = worker'[m].inst => l = m
    BY <1>2, <1>4, <1>6, <2>2 DEF BatchInv, Assigned
  <2> QED BY <1>1, <2>1, <2>3 DEF Assigned
<1>8. ASSUME NEW l \in Workers PROVE Counted(l)'
  <2>1. CASE l = k
    <3>1. inst(k)' = i
      BY <1>2, <1>4, InstWillBe
    <3> QED BY <1>2, <1>4, <2>1, <3>1 DEF Counted, At
  <2>2. CASE l # k /\ Busy(l)
    <3>1. inst(l) \in Instances /\ inst(l) # i
      BY <1>1, <2>2, Working
    <3>2. worker'[l] = worker[l] /\ inst(l)' = inst(l)
      BY <1>4, <2>2 DEF inst
    <3> QED BY <1>1, <1>4, <3>1, <3>2 DEF BatchInv, Counted, At
  <2>3. CASE l # k /\ ~Busy(l)
    BY <1>4, <2>3 DEF Counted, Busy, At
  <2> QED BY <2>1, <2>2, <2>3
<1>9. Reported'
  BY <1>2, <1>4 DEF BatchInv, Reported
<1>10. ASSUME Trusted', NEW l \in Workers,
              worker'[l].pc \in {"trajectory", "preds", "costs", "problems"}, worker'[l].ready
       PROVE  inst(l)' \in completed'
  <2>1. worker'[l] = worker[l] /\ inst(l)' = inst(l)
    BY <1>2, <1>4, <1>10 DEF inst
  <2> QED BY <1>1, <1>10, <2>1 DEF BatchInv, Backed, Trusted
<1>11. ASSUME NEW f \in Files, NEW j \in Instances, NEW l \in Workers, Coming(l, f, j)
       PROVE  Coming(l, f, j)'
  <2>1. l # k
    BY <1>1, <1>11 DEF Coming, Before, Busy, At
  <2> QED BY <1>4, <1>11, <2>1 DEF Coming
<1>12. nfaults <= nfaults'
  BY <1>1 DEF BatchInv, BatchTypes
<1> QED BY <1>1, <1>2, <1>3, <1>4, <1>5, <1>7, <1>8, <1>9, <1>10, <1>11, <1>12, Quiet

\* Steps that leave the workers, and what they count, as they are.
LEMMA CountStays ==
    ASSUME BatchInv, UNCHANGED <<worker, pool, globalCost, spent>>
    PROVE  (\A k \in Workers : Counted(k))'
<1>1. \A k : inst(k)' = inst(k)
  BY DEF inst
<1> QED BY <1>1 DEF BatchInv, Counted, At

LEMMA StartFailsInv ==
    ASSUME BatchInv, NEW k \in Workers, NEW i \in Instances, StartFails(k, i) PROVE BatchInv'
<1>1. /\ nfaults' = nfaults + 1 /\ todo' = todo \ {i}
      /\ UNCHANGED <<files, completed, run, pool, worker, outputLock, globalCost, spent, billed, saved, removed>>
  BY DEF StartFails, Fault, lineVars, costVars, savedVars
<1>2. BatchTypes' /\ nfaults <= nfaults'
  BY <1>1 DEF BatchInv, BatchTypes
<1>3. Assigned'
  BY <1>1 DEF BatchInv, Assigned, Busy, At
<1> QED BY <1>1, <1>2, <1>3, CountStays, Stays

LEMMA CancelPendingInv == ASSUME BatchInv, CancelPending PROVE BatchInv'
<1>1. /\ nfaults' = nfaults + 1 /\ todo' = {}
      /\ UNCHANGED <<files, completed, run, pool, worker, outputLock, globalCost, spent, billed, saved, removed>>
  BY DEF CancelPending, Fault, metricsVars, lineVars, costVars, savedVars
<1>2. BatchTypes' /\ nfaults <= nfaults'
  BY <1>1 DEF BatchInv, BatchTypes
<1>3. Assigned'
  BY <1>1 DEF BatchInv, Assigned, Busy, At
<1> QED BY <1>1, <1>2, <1>3, CountStays, Stays

LEMMA DoneInv == ASSUME BatchInv, Done PROVE BatchInv'
<1>1. /\ run' = "done" /\ \A k \in Workers : ~Busy(k)
      /\ UNCHANGED <<files, completed, pool, todo, worker, outputLock, globalCost, spent, billed, saved,
                     removed, nfaults>>
  BY DEF Done, Busy, metricsVars, lineVars, costVars, savedVars
<1>2. BatchTypes' /\ nfaults <= nfaults'
  BY <1>1 DEF BatchInv, BatchTypes
<1>3. Assigned'
  BY <1>1 DEF BatchInv, Assigned, Busy, At
<1> QED BY <1>1, <1>2, <1>3, CountStays, Stays

LEMMA LaunchInv == ASSUME BatchInv, Launch PROVE BatchInv'
<1>1. /\ run \in {"down", "done"} /\ run' = "up" /\ globalCost' = 0
      /\ UNCHANGED <<files, completed, worker, outputLock, nfaults, spent, billed, saved, removed>>
  BY DEF Launch, metricsVars, savedVars
<1>2. pool' \subseteq Workers /\ todo' \subseteq Instances
  BY CibenchAssumption DEF Launch, Selected
<1>3. \A k \in Workers : ~Busy(k) /\ ~Busy(k)' /\ worker'[k].pc = "idle"
  BY <1>1 DEF BatchInv, Assigned, Busy, At
<1>4. BatchTypes' /\ nfaults <= nfaults'
  BY <1>1, <1>2 DEF BatchInv, BatchTypes
<1>5. Assigned'
  BY <1>1, <1>3 DEF Assigned
<1>6. (\A k \in Workers : Counted(k))'
  BY <1>3 DEF Counted, At
<1> QED BY <1>1, <1>4, <1>5, <1>6, Stays

\* The process is gone: a file that was being rewritten is given up.
LEMMA DieInv == ASSUME BatchInv, Die, nfaults' = nfaults + 1 PROVE BatchInv'
<1>1. /\ run' = "down" /\ todo' = {} /\ outputLock' = {} /\ saved' = Intact
      /\ worker' = [k \in Workers |-> Idle]
      /\ UNCHANGED <<files, completed, pool, globalCost, spent, billed>>
  BY DEF Die, metricsVars, costVars, lineVars
<1>2. \A k \in Workers : worker'[k] = Idle /\ worker'[k].pc = "idle" /\ ~worker'[k].writing /\ ~Busy(k)'
  BY <1>1, IdleJob DEF Busy, At
<1>3. nfaults' \in Nat /\ nfaults' # 0 /\ saved' \subseteq saved
  BY <1>1 DEF BatchInv, BatchTypes, Intact
<1>4. BatchTypes'
  BY <1>1, <1>3, IdleJob DEF BatchInv, BatchTypes
<1>5. Assigned' /\ Locked' /\ Reported' /\ (\A k \in Workers : Counted(k))'
  BY <1>1, <1>2 DEF Assigned, Locked, Reported, Counted, At
<1>6. SavedHeld'
  <2> SUFFICES ASSUME NEW e \in saved' PROVE Held(e[1], e[2])'
    BY DEF SavedHeld
  <2>1. e \in saved /\ ~files[e[1]].torn
    BY <1>1 DEF Intact
  <2>2. files[e[1]].data[e[2]] # Absent
    BY <2>1 DEF BatchInv, SavedHeld, Held, Carries, Locked
  <2> QED BY <1>1, <2>1, <2>2 DEF Held
<1>7. Costs'
  BY <1>1, <1>2 DEF BatchInv, Costs
<1>8. Trusted' => Backed'
  <2>1. Trusted' => Backed
    BY <1>3 DEF BatchInv, Trusted
  <2> QED BY <1>1, <1>2, <2>1 DEF Backed
<1> QED BY <1>3, <1>4, <1>5, <1>6, <1>7, <1>8 DEF BatchInv

-----------------------------------------------------------------------------
(* Rewriting a file.                                                       *)

\* A reader sees the contents of a whole file, and of a truncated one nothing.
LEMMA ReadIs ==
    ASSUME BatchInv, NEW f \in Files
    PROVE  /\ Read(f) \in Contents
           /\ \A i \in Instances : Read(f)[i] # Absent => ~files[f].torn /\ files[f].data[i] = Read(f)[i]
           /\ ~files[f].torn => Read(f) = files[f].data
           /\ files[f].data \in Contents
<1>1. files[f] \in [torn : BOOLEAN, data : Contents]
  BY DEF BatchInv, BatchTypes
<1> QED BY <1>1, IdleJob DEF Read, NoEntries

\* The file, the copy and the lock once worker k has truncated the file.
LEMMA WriteBegun ==
    ASSUME BatchInv, NEW k \in Workers, BeginWrite(k), worker[k].pc \in {"remove", "preds", "costs", "problems"}
    PROVE  \E w \in Job, d \in Contents :
             LET f == FileOf(worker[k].pc) IN
             /\ worker' = [worker EXCEPT ![k] = w] /\ worker'[k] = w
             /\ w.pc = worker[k].pc /\ w.inst = worker[k].inst /\ w.mode = worker[k].mode /\ w.cost = worker[k].cost
             /\ w.ready = worker[k].ready /\ w.start = worker[k].start /\ w.writing /\ w.data = d
             /\ d[inst(k)] = NewEntry(k) /\ \A i \in Instances : i # inst(k) => d[i] = Read(f)[i]
             /\ f \in Files /\ files' \in [Files -> [torn : BOOLEAN, data : Contents]] /\ files'[f].torn
             /\ \A g \in Files : g # f => files'[g] = files[g]
<1> DEFINE f == FileOf(worker[k].pc)
           d == [Read(f) EXCEPT ![inst(k)] = NewEntry(k)]
           w == [worker[k] EXCEPT !.writing = TRUE, !.data = d]
<1>1. /\ worker[k] \in Job /\ inst(k) \in Instances /\ worker \in [Workers -> Job] /\ f \in Files
      /\ files \in [Files -> [torn : BOOLEAN, data : Contents]]
  BY Working DEF BatchInv, BatchTypes, Busy, At, FileOf, Files
<1>2. NewEntry(k) \in {Absent} \cup (Modes \X Nat)
  BY <1>1, JobFields DEF NewEntry
<1>3. Read(f) \in Contents
  BY <1>1, ReadIs
<1>4. d \in Contents /\ d[inst(k)] = NewEntry(k) /\ \A i \in Instances : i # inst(k) => d[i] = Read(f)[i]
  BY <1>1, <1>2, <1>3 DEF Contents
<1>5. worker' = [worker EXCEPT ![k] = w] /\ worker'[k] = w
  BY <1>1 DEF BeginWrite
<1>6. files' = [files EXCEPT ![f].torn = TRUE]
  BY DEF BeginWrite
<1> HIDE DEF d, f
<1>7. /\ w \in Job /\ w.pc = worker[k].pc /\ w.inst = worker[k].inst /\ w.mode = worker[k].mode
      /\ w.cost = worker[k].cost /\ w.ready = worker[k].ready /\ w.start = worker[k].start /\ w.writing
      /\ w.data = d
  BY <1>1, <1>4 DEF Job
<1> HIDE DEF w
<1>8. /\ files' \in [Files -> [torn : BOOLEAN, data : Contents]] /\ files'[f].torn
      /\ \A g \in Files : g # f => files'[g] = files[g]
  BY <1>1, <1>6
<1> QED BY <1>1, <1>4, <1>5, <1>7, <1>8 DEF f

\* Whoever begins to rewrite a file holds every entry it can read in the copy.
LEMMA BeginWriteInv ==
    ASSUME BatchInv, NEW k \in Workers, BeginWrite(k), worker[k].pc \in {"remove", "preds", "costs", "problems"}
    PROVE  BatchInv'
<1> DEFINE f == FileOf(worker[k].pc)
<1>1. PICK w \in Job, d \in Contents :
             /\ worker' = [worker EXCEPT ![k] = w] /\ worker'[k] = w
             /\ w.pc = worker[k].pc /\ w.inst = worker[k].inst /\ w.mode = worker[k].mode /\ w.cost = worker[k].cost
             /\ w.ready = worker[k].ready /\ w.start = worker[k].start /\ w.writing /\ w.data = d
             /\ d[inst(k)] = NewEntry(k) /\ \A i \in Instances : i # inst(k) => d[i] = Read(f)[i]
             /\ f \in Files /\ files' \in [Files -> [torn : BOOLEAN, data : Contents]] /\ files'[f].torn
             /\ \A g \in Files : g # f => files'[g] = files[g]
  BY WriteBegun
<1>2. /\ outputLock = {} /\ outputLock' = {k}
      /\ UNCHANGED <<completed, run, pool, todo, globalCost, spent, billed, nfaults, saved, removed>>
  BY DEF BeginWrite, metricsVars, runVars, lineVars, costVars, savedVars
<1>3. /\ \A l \in Workers : ~worker[l].writing
      /\ \A l \in Workers : l # k => worker'[l] = worker[l]
      /\ worker' \in [Workers -> Job]
  BY <1>1, <1>2 DEF BatchInv, BatchTypes, Locked
<1>4. Busy(k) /\ worker[k].inst = {inst(k)} /\ inst(k) \in Instances
  BY Working DEF Busy, At
<1>5. /\ \A l \in Workers : worker'[l].pc = worker[l].pc /\ worker'[l].inst = worker[l].inst
              /\ worker'[l].ready = worker[l].ready /\ worker'[l].cost = worker[l].cost
              /\ worker'[l].start = worker[l].start
      /\ \A l \in Workers : inst(l)' = inst(l)
      /\ NewEntry(k)' = NewEntry(k)
  <2>1. \A l \in Workers : worker'[l].pc = worker[l].pc /\ worker'[l].inst = worker[l].inst
              /\ worker'[l].ready = worker[l].ready /\ worker'[l].cost = worker[l].cost
              /\ worker'[l].start = worker[l].start
    BY <1>1, <1>3
  <2>2. \A l \in Workers : inst(l)' = inst(l)
    BY <2>1 DEF inst
  <2> QED BY <1>1, <2>1, <2>2 DEF NewEntry, At
<1>6. BatchTypes'
  BY <1>1, <1>2, <1>3 DEF BatchInv, BatchTypes
<1>7. Assigned' /\ Reported' /\ (\A l \in Workers : Counted(l))'
  <2>1. Assigned' /\ Reported'
    BY <1>2, <1>5 DEF BatchInv, Assigned, Reported, Busy, At
  <2> QED BY <1>2, <1>5, <2>1 DEF BatchInv, Counted, At
<1>8. Locked'
  BY <1>1, <1>2, <1>3, <1>5 DEF Locked
<1>9. ASSUME NEW g \in Files, NEW i \in Instances, Held(g, i) PROVE Held(g, i)'
  <2>1. ~files[g].torn /\ files[g].data[i] # Absent
    BY <1>3, <1>9 DEF Held, Carries
  <2>2. CASE g = f
    <3>1. i # inst(k) => d[i] # Absent
      BY <1>1, <2>1, <2>2, ReadIs
    <3>2. i = inst(k) => d[i] # Absent \/ At(k, "remove")
      BY <1>1, EntryPresent DEF NewEntry
    <3>3. Carries(k, g, i)'
      BY <1>1, <1>4, <2>2, <3>1, <3>2 DEF Carries, At
    <3> QED BY <3>3 DEF Held
  <2>3. CASE g # f
    BY <1>1, <2>1, <2>3 DEF Held
  <2> QED BY <2>2, <2>3
<1>10. SavedHeld'
  BY <1>2, <1>9 DEF BatchInv, SavedHeld, BatchTypes
<1>11. Costs'
  <2>1. ~files'["costs"].torn => \A i \in Instances : Fits(files'["costs"].data[i], billed'[i])
    BY <1>1, <1>2 DEF BatchInv, Costs, Files
  <2>2. ASSUME NEW l \in Workers, worker'[l].writing, At(l, "costs")', NEW i \in Instances \ worker'[l].inst
        PROVE  Fits(worker'[l].data[i], billed'[i])
    <3>1. l = k /\ f = "costs" /\ i # inst(k)
      BY <1>1, <1>3, <1>4, <2>2 DEF At, FileOf
    <3>2. d[i] = Absent \/ (~files["costs"].torn /\ d[i] = files["costs"].data[i])
      BY <1>1, <3>1, ReadIs
    <3> QED BY <1>1, <1>2, <3>1, <3>2 DEF BatchInv, Costs, Fits
  <2> QED BY <2>1, <2>2 DEF Costs
<1>12. Trusted' => Backed'
  <2> SUFFICES ASSUME Trusted' PROVE Backed'
    OBVIOUS
  <2>1. Backed
    BY <1>2 DEF BatchInv, Trusted
  <2>2. \A g \in Files, i \in Instances : ~files'[g].torn /\ files'[g].data[i] # Absent => i \in completed'
    BY <1>1, <1>2, <2>1 DEF Backed
  <2>3. ASSUME NEW l \in Workers, worker'[l].writing, NEW i \in Instances, worker'[l].data[i] # Absent
        PROVE  i \in completed'
    <3>1. l = k /\ d[i] # Absent
      BY <1>1, <1>3, <2>3
    <3>2. CASE i = inst(k)
      <4>1. worker[k].pc \in {"preds", "costs", "problems"}
        BY <1>1, <3>1, <3>2 DEF NewEntry, At
      <4>2. worker[k].ready
        BY <4>1 DEF BatchInv, Reported
      <4> QED BY <1>2, <2>1, <3>2, <4>1, <4>2 DEF Backed
    <3>3. CASE i # inst(k)
      BY <1>1, <1>2, <2>1, <3>1, <3>3, ReadIs DEF Backed
    <3> QED BY <3>2, <3>3
  <2>4. \A l \in Workers : worker'[l].pc \in {"trajectory", "preds", "costs", "problems"} /\ worker'[l].ready
           => inst(l)' \in completed'
    BY <1>2, <1>5, <2>1 DEF Backed
  <2> QED BY <2>2, <2>3, <2>4 DEF Backed
<1>13. nfaults' = 0 => Complete'
  <2> SUFFICES ASSUME nfaults' = 0 PROVE Complete'
    OBVIOUS
  <2>1. Complete
    BY <1>2 DEF BatchInv
  <2>2. \A g \in Files : files'[g].torn => \E l \in Workers : worker'[l].writing /\ FileOf(worker'[l].pc) = g
    BY <1>1, <1>3, <2>1 DEF Complete
  <2>3. \A l \in Workers, g \in Files, i \in Instances : Coming(l, g, i) => Coming(l, g, i)'
    BY <1>5 DEF Coming
  <2>4. completed \subseteq Instances
    BY DEF BatchInv, BatchTypes
  <2> QED BY <1>2, <1>9, <2>1, <2>2, <2>3, <2>4 DEF Complete
<1> QED BY <1>6, <1>7, <1>8, <1>10, <1>11, <1>12, <1>13 DEF BatchInv

\* The copy becomes the file: only what was to be removed is gone.
LEMMA EndWriteInv == ASSUME BatchInv, NEW k \in Workers, EndWrite(k) PROVE BatchInv'
<1>1. PICK p \in {"remove", "preds", "costs", "problems"}, f \in Files, j \in Instances, d \in Contents :
        /\ p = worker[k].pc /\ f = FileOf(p) /\ files[f].torn
        /\ j = inst(k) /\ worker[k].inst = {j} /\ d = worker[k].data /\ d[j] = NewEntry(k)
        /\ worker[k].writing /\ outputLock = {k} /\ \A l \in Workers : worker[l].writing => l = k
  <2>1. /\ worker[k].pc \in {"remove", "preds", "costs", "problems"} /\ files[FileOf(worker[k].pc)].torn
        /\ worker[k].data[inst(k)] = NewEntry(k)
        /\ worker[k].writing /\ outputLock = {k} /\ \A l \in Workers : worker[l].writing => l = k
    BY DEF EndWrite, BatchInv, Locked
  <2>2. worker[k].inst = {inst(k)} /\ inst(k) \in Instances /\ worker[k].data \in Contents
    BY <2>1, WriterWorks, Working, JobFields
  <2>3. FileOf(worker[k].pc) \in Files
    BY <2>1 DEF FileOf, Files
  <2> QED BY <2>1, <2>2, <2>3
<1>2. PICK w \in Job : /\ worker' = [worker EXCEPT ![k] = w] /\ worker'[k] = w
                       /\ w.pc = NextPc(p) /\ w.inst = worker[k].inst /\ ~w.writing
                       /\ w.ready = worker[k].ready /\ w.cost = worker[k].cost
                       /\ At(k, "remove") => w.start = globalCost
  BY <1>1, Advances DEF EndWrite
<1>3. /\ outputLock' = {} /\ files' = [files EXCEPT ![f] = [torn |-> FALSE, data |-> d]]
      /\ saved' = IF p = "remove" THEN saved \ {<<f, j>>} ELSE saved \cup {<<f, j>>}
      /\ removed' = IF p = "remove" THEN removed \cup {j} ELSE removed
      /\ billed' = IF p = "costs" THEN [billed EXCEPT ![j] = <<spent[j], Cardinality(pool) = 1>>]
                   ELSE billed
      /\ UNCHANGED <<completed, run, pool, todo, globalCost, nfaults, spent>>
  BY <1>1 DEF EndWrite, metricsVars, runVars, lineVars
<1>4. /\ files \in [Files -> [torn : BOOLEAN, data : Contents]] /\ worker \in [Workers -> Job]
      /\ spent[j] \in Nat /\ globalCost \in Nat
      /\ billed \in [Instances -> {Absent} \cup (Nat \X BOOLEAN)]
  BY <1>1 DEF BatchInv, BatchTypes
<1>5. /\ files' \in [Files -> [torn : BOOLEAN, data : Contents]] /\ ~files'[f].torn /\ files'[f].data = d
      /\ \A g \in Files : g # f => files'[g] = files[g]
  BY <1>1, <1>3, <1>4
<1>6. /\ worker' \in [Workers -> Job] /\ \A l \in Workers : l # k => worker'[l] = worker[l]
      /\ \A l \in Workers : ~worker'[l].writing
  BY <1>1, <1>2, <1>4
<1>7. /\ billed' \in [Instances -> {Absent} \cup (Nat \X BOOLEAN)]
      /\ \A i \in Instances : (i # j \/ p # "costs") => billed'[i] = billed[i]
      /\ p = "costs" => billed'[j] = <<spent[j], Cardinality(pool) = 1>>
  <2>1. <<spent[j], Cardinality(pool) = 1>> \in Nat \X BOOLEAN
    BY <1>4
  <2> QED BY <1>1, <1>3, <1>4, <2>1
<1>8. BatchTypes'
  <2>1. saved' \subseteq Files \X Instances
    BY <1>1, <1>3 DEF BatchInv, BatchTypes
  <2> QED BY <1>3, <1>5, <1>6, <1>7, <2>1 DEF BatchInv, BatchTypes
<1>9. /\ p = "remove" => w.pc = "prepare" /\ f = "preds"
      /\ p = "preds" => w.pc = "costs" /\ f = "preds"
      /\ p = "costs" => w.pc = "problems" /\ f = "costs"
      /\ p = "problems" => w.pc = "end" /\ f = "problems"
  BY <1>1, <1>2 DEF NextPc, FileOf
<1>10. /\ \A l \in Workers : (Busy(l)' <=> Busy(l)) /\ worker'[l].inst = worker[l].inst
       /\ \A l \in Workers : inst(l)' = inst(l)
  <2>1. \A l \in Workers : (Busy(l)' <=> Busy(l)) /\ worker'[l].inst = worker[l].inst
    BY <1>1, <1>2, <1>6, <1>9 DEF Busy, At
  <2> QED BY <2>1 DEF inst
<1>11. Assigned'
  BY <1>3, <1>10 DEF BatchInv, Assigned
<1>12. Reported'
  BY <1>1, <1>2, <1>6, <1>9 DEF BatchInv, Reported
<1>13. (\A l \in Workers : Counted(l))'
  <2>1. Counted(k)'
    BY <1>1, <1>2, <1>3, <1>4, <1>9, <1>10 DEF BatchInv, Counted, At
  <2>2. ASSUME NEW l \in Workers, l # k PROVE Counted(l)'
    BY <1>1, <1>3, <1>6, <1>10, <2>2 DEF BatchInv, Counted, At
  <2> QED BY <2>1, <2>2
<1>14. Locked'
  BY <1>3, <1>6 DEF Locked
<1>15. p # "remove" => d[j] = <<worker[k].mode, worker[k].cost>> /\ d[j] # Absent
  BY <1>1, EntryPresent DEF NewEntry, At
<1>16. ASSUME NEW g \in Files, NEW i \in Instances, Held(g, i)
       PROVE  Held(g, i)' \/ (p = "remove" /\ g = "preds" /\ i = j)
  <2>1. CASE g = f
    <3>1. PICK l \in Workers : Carries(l, g, i)
      BY <1>1, <1>16, <2>1 DEF Held
    <3>2. d[i] # Absent \/ (At(k, "remove") /\ worker[k].inst = {i})
      BY <1>1, <3>1 DEF Carries
    <3>3. d[i] # Absent => Held(g, i)'
      BY <1>1, <1>5, <2>1 DEF Held
    <3> QED BY <1>1, <1>9, <2>1, <3>2, <3>3 DEF At
  <2>2. CASE g # f
    BY <1>1, <1>5, <1>16, <2>2 DEF Held, Carries
  <2> QED BY <2>1, <2>2
<1>17. p # "remove" => Held(f, j)'
  BY <1>1, <1>5, <1>15 DEF Held
<1>18. SavedHeld'
  <2> SUFFICES ASSUME NEW e \in saved' PROVE Held(e[1], e[2])'
    BY DEF SavedHeld
  <2>1. CASE e \in saved
    <3>1. e[1] \in Files /\ e[2] \in Instances /\ e = <<e[1], e[2]>>
      BY <2>1 DEF BatchInv, BatchTypes
    <3>2. Held(e[1], e[2])
      BY <1>1, <2>1 DEF BatchInv, SavedHeld
    <3>3. p = "remove" => e # <<"preds", j>>
      BY <1>3, <1>9
    <3> QED BY <1>16, <3>1, <3>2, <3>3
  <2>2. CASE e \notin saved
    <3>1. e = <<f, j>> /\ p # "remove"
      BY <1>3, <2>2
    <3> QED BY <1>17, <3>1
  <2> QED BY <2>1, <2>2
<1>19. Costs'
  <2>1. ASSUME ~files'["costs"].torn, NEW i \in Instances
        PROVE  Fits(files'["costs"].data[i], billed'[i])
    <3>1. CASE f # "costs"
      <4>1. files'["costs"] = files["costs"] /\ billed'[i] = billed[i]
        BY <1>5, <1>7, <1>9, <3>1 DEF Files
      <4> QED BY <1>1, <2>1, <4>1 DEF BatchInv, Costs
    <3>2. CASE f = "costs" /\ i # j
      <4>1. p = "costs" /\ files'["costs"].data = d /\ billed'[i] = billed[i]
        BY <1>1, <1>5, <1>7, <1>9, <3>2
      <4> QED BY <1>1, <3>2, <4>1 DEF BatchInv, Costs, At
    <3>3. CASE f = "costs" /\ i = j
      <4>1. p = "costs" /\ files'["costs"].data = d
        BY <1>1, <1>5, <1>9, <3>3
      <4>2. PICK b \in BOOLEAN : b = (Cardinality(pool) = 1)
        OBVIOUS
      <4>3. d[i] = <<worker[k].mode, worker[k].cost>> /\ billed'[i] = <<spent[i], b>>
        BY <1>7, <1>15, <3>3, <4>1, <4>2
      <4>4. worker[k].cost >= spent[i] /\ (Cardinality(pool) = 1 => worker[k].cost = spent[i])
        BY <1>1, <3>3, <4>1 DEF BatchInv, Counted
      <4>5. d[i][2] = worker[k].cost /\ billed'[i][1] = spent[i] /\ billed'[i][2] = b
        BY <4>3
      <4>6. d[i][2] >= billed'[i][1] /\ (billed'[i][2] => d[i][2] = billed'[i][1])
        BY <4>2, <4>4, <4>5
      <4> QED BY <4>1, <4>6 DEF Fits
    <3> QED BY <3>1, <3>2, <3>3
  <2> QED BY <1>1, <1>6, <2>1 DEF Costs
<1>20. Trusted' => Backed'
  <2> SUFFICES ASSUME Trusted' PROVE Backed'
    OBVIOUS
  <2>1. Backed
    BY <1>3 DEF BatchInv, Trusted
  <2>2. \A g \in Files, i \in Instances : ~files'[g].torn /\ files'[g].data[i] # Absent => i \in completed'
    BY <1>1, <1>3, <1>5, <2>1 DEF Backed
  <2>3. ASSUME NEW l \in Workers, worker'[l].pc \in {"trajectory", "preds", "costs", "problems"}, worker'[l].ready
        PROVE  inst(l)' \in completed'
    <3>1. CASE l = k
      BY <1>1, <1>2, <1>3, <1>9, <1>10, <2>1, <2>3, <3>1 DEF Backed
    <3>2. CASE l # k
      BY <1>1, <1>3, <1>6, <1>10, <2>1, <2>3, <3>2 DEF Backed
    <3> QED BY <3>1, <3>2
  <2> QED BY <1>1, <1>6, <2>2, <2>3 DEF Backed
<1>21. nfaults' = 0 => Complete'
  <2> SUFFICES ASSUME nfaults' = 0 PROVE Complete'
    OBVIOUS
  <2>1. Complete
    BY <1>3 DEF BatchInv
  <2>2. \A g \in Files : ~files'[g].torn
    BY <1>1, <1>5, <2>1 DEF Complete
  <2>3. ASSUME NEW l \in Workers, NEW g \in Files, NEW i \in Instances, Coming(l, g, i)
        PROVE  Held(g, i)' \/ Coming(l, g, i)'
    <3>1. CASE l # k
      BY <1>1, <1>6, <2>3, <3>1 DEF Coming
    <3>2. CASE l = k
      <4>1. worker[k].inst = {i} /\ worker[k].ready /\ p \in Before(g) /\ i = j
        BY <1>1, <2>3, <3>2 DEF Coming
      <4>2. p # "remove" /\ (g = f \/ w.pc \in Before(g))
        BY <1>1, <1>9, <4>1 DEF Before, Files
      <4> QED BY <1>1, <1>2, <1>17, <3>2, <4>1, <4>2 DEF Coming
    <3> QED BY <3>1, <3>2
  <2>4. ASSUME NEW g \in Files, NEW i \in completed'
        PROVE  Held(g, i)' \/ (g = "preds" /\ i \in removed') \/ \E l \in Workers : Coming(l, g, i)'
    <3>1. i \in completed /\ i \in Instances
      BY <1>3 DEF BatchInv, BatchTypes
    <3>2. CASE Held(g, i)
      BY <1>3, <1>16, <3>1, <3>2
    <3>3. CASE g = "preds" /\ i \in removed
      BY <1>3, <3>3
    <3>4. CASE \E l \in Workers : Coming(l, g, i)
      BY <2>3, <3>1, <3>4
    <3> QED BY <2>1, <3>1, <3>2, <3>3, <3>4 DEF Complete
  <2> QED BY <2>2, <2>4 DEF Complete
<1> QED BY <1>8, <1>11, <1>12, <1>13, <1>14, <1>18, <1>19, <1>20, <1>21 DEF BatchInv

\* Writing raised: the truncated file is given up and the lock is free.
LEMMA FailWriteInv == ASSUME BatchInv, NEW k \in Workers, FailWrite(k) PROVE BatchInv'
<1>1. /\ worker[k].writing /\ outputLock = {k} /\ (\A l \in Workers : worker[l].writing => l = k)
      /\ worker \in [Workers -> Job] /\ run \notin {"down", "done"}
  BY WriterWorks DEF FailWrite, BatchInv, Locked, BatchTypes, Assigned
<1>2. /\ worker' = [worker EXCEPT ![k] = Idle] /\ run' = "up" /\ saved' = Intact /\ outputLock' = {}
      /\ nfaults' = nfaults + 1
      /\ UNCHANGED <<files, completed, todo, pool, globalCost, spent, billed, removed>>
  BY <1>1 DEF FailWrite, Escapes, Fault, metricsVars, lineVars, costVars
<1>3. /\ worker' \in [Workers -> Job] /\ worker'[k] = Idle /\ \A l \in Workers : l # k => worker'[l] = worker[l]
      /\ \A l \in Workers : ~worker'[l].writing
  BY <1>1, <1>2, IdleJob
<1>4. nfaults' \in Nat /\ nfaults' # 0 /\ saved' \subseteq saved
  BY <1>2 DEF BatchInv, BatchTypes, Intact
<1>5. BatchTypes'
  BY <1>2, <1>3, <1>4 DEF BatchInv, BatchTypes
<1>6. ~Busy(k)' /\ \A l \in Workers : Busy(l)' => Busy(l) /\ worker'[l] = worker[l] /\ inst(l)' = inst(l)
  BY <1>3, IdleJob DEF Busy, At, inst
<1>7. Assigned'
  <2>1. \A l, m \in Workers : Busy(l)' /\ Busy(m)' /\ worker'[l].inst = worker'[m].inst => l = m
    BY <1>6 DEF BatchInv, Assigned
  <2>2. \A l \in Workers : Busy(l)' => l \in pool' /\ \E i \in Instances : worker'[l].inst = {i} /\ i \notin todo'
    BY <1>2, <1>6 DEF BatchInv, Assigned
  <2> QED BY <1>2, <2>1, <2>2 DEF Assigned
<1>8. Locked'
  BY <1>2, <1>3 DEF Locked
<1>9. Reported'
  BY <1>3, IdleJob DEF BatchInv, Reported
<1>10. ASSUME NEW l \in Workers PROVE Counted(l)'
  <2>1. CASE Busy(l)'
    <3>1. worker'[l] = worker[l] /\ inst(l)' = inst(l)
      BY <1>6, <2>1
    <3> QED BY <1>2, <3>1 DEF BatchInv, Counted, At
  <2>2. CASE ~Busy(l)'
    BY <2>2 DEF Busy, Counted, At
  <2> QED BY <2>1, <2>2
<1>11. SavedHeld'
  <2> SUFFICES ASSUME NEW e \in saved' PROVE Held(e[1], e[2])'
    BY DEF SavedHeld
  <2>1. e \in saved /\ ~files[e[1]].torn
    BY <1>2 DEF Intact
  <2>2. files[e[1]].data[e[2]] # Absent
    BY <2>1 DEF BatchInv, SavedHeld, Held, Carries, Locked
  <2> QED BY <1>2, <2>1, <2>2 DEF Held
<1>12. Costs'
  BY <1>2, <1>3 DEF BatchInv, Costs
<1>13. Trusted' => Backed'
  <2> SUFFICES ASSUME Trusted' PROVE Backed'
    OBVIOUS
  <2>1. Backed
    BY <1>4 DEF BatchInv, Trusted
  <2>2. ASSUME NEW l \in Workers, worker'[l].pc \in {"trajectory", "preds", "costs", "problems"}, worker'[l].ready
        PROVE  inst(l)' \in completed'
    <3>1. worker'[l] = worker[l] /\ inst(l)' = inst(l)
      BY <1>6, <2>2 DEF Busy, At
    <3> QED BY <1>2, <2>1, <2>2, <3>1 DEF Backed
  <2> QED BY <1>2, <1>3, <2>1, <2>2 DEF Backed
<1> QED BY <1>4, <1>5, <1>7, <1>8, <1>9, <1>10, <1>11, <1>12, <1>13 DEF BatchInv

-----------------------------------------------------------------------------
(* The invariant, and what it gives.                                       *)

LEMMA BatchStarts == BatchInit => BatchInv
<1> SUFFICES ASSUME BatchInit PROVE BatchInv
  OBVIOUS
<1>1. /\ \A k \in Workers : worker[k] = Idle /\ worker[k].pc = "idle" /\ ~worker[k].writing
      /\ worker \in [Workers -> Job]
  BY IdleJob DEF BatchInit
<1>2. /\ \A f \in Files : ~files[f].torn /\ files[f].data = NoEntries
      /\ \A i \in Instances : NoEntries[i] = Absent
  BY DEF BatchInit, NoEntries
<1>3. BatchTypes
  BY <1>1, IdleJob DEF BatchInit, BatchTypes, NoEntries
<1>4. Assigned /\ Locked /\ SavedHeld /\ Reported /\ (\A k \in Workers : Counted(k))
  BY <1>1 DEF BatchInit, Assigned, Busy, At, Locked, SavedHeld, Reported, Counted
<1>5. Costs /\ Backed /\ Complete
  BY <1>1, <1>2 DEF BatchInit, Costs, Fits, Backed, Complete, Files
<1> QED BY <1>3, <1>4, <1>5 DEF BatchInv

LEMMA BatchSteps == ASSUME BatchInv, [BatchNext]_batchVars PROVE BatchInv'
<1>1. CASE UNCHANGED batchVars
  <2>1. /\ UNCHANGED <<worker, files, outputLock, saved, removed, billed, completed>>
        /\ UNCHANGED <<pool, globalCost, spent, nfaults, run, todo>>
    BY <1>1 DEF batchVars
  <2>2. BatchTypes' /\ Assigned' /\ nfaults <= nfaults'
    BY <2>1 DEF BatchInv, BatchTypes, Assigned, Busy, At
  <2> QED BY <2>1, <2>2, CountStays, Stays
<1>2. CASE Launch
  BY <1>2, LaunchInv
<1>3. CASE Done
  BY <1>3, DoneInv
<1>4. CASE Crash
  BY <1>4, DieInv DEF Crash, Fault
<1>5. CASE CancelPending
  BY <1>5, CancelPendingInv
<1>6. CASE Stopped
  BY <1>1, <1>6 DEF Stopped
<1>7. ASSUME NEW k \in Workers, InterruptSerial(k) PROVE BatchInv'
  <2>1. CASE worker[k].pc \in {"setup", "agent"}
    BY <1>7, <2>1, InterruptedInv
  <2>2. CASE worker[k].pc \notin {"setup", "agent"}
    BY <1>7, <2>2, DieInv DEF InterruptSerial, Fault
  <2> QED BY <2>1, <2>2
<1>8. ASSUME NEW k \in Workers, WorkerStep(k) PROVE BatchInv'
  <2>1. CASE Rewrite(k)
    BY <2>1, BeginWriteInv
       DEF Rewrite, RemoveFromPreds, UpdatePreds, UpdateCostTracking, UpdateProblems, At
  <2>2. ASSUME NEW i \in Instances, StartInstance(k, i) \/ StartFails(k, i) PROVE BatchInv'
    BY <2>2, StartInstanceInv, StartFailsInv
  <2> QED BY <1>8, <2>1, <2>2, PrepareInv, SetUpInv, QueryInv, EndRepairInv, FinishMetricsInv,
             SaveTrajectoryInv, TrajectoryFailsInv, SkipRemoveInv, EndWriteInv, FailWriteInv, EndInv
          DEF WorkerStep
<1> QED BY <1>1, <1>2, <1>3, <1>4, <1>5, <1>6, <1>7, <1>8 DEF BatchNext

\* The invariant holds of every batch, whatever the faults.
THEOREM BatchInvariant == BatchSpec => []BatchInv
<1> QED BY BatchStarts, BatchSteps, PTL DEF BatchSpec

\* Whenever nobody holds _OUTPUT_FILE_LOCK, every entry whose write returned can
\* be read, unless its file was left truncated (update_preds_file and its
\* siblings): for any number of threads and instances, and any faults.
THEOREM EntriesAlwaysSurvive == BatchSpec => []EntriesSurvive
<1>1. BatchInv => EntriesSurvive
  <2> SUFFICES ASSUME BatchInv, outputLock = {}, NEW e \in saved PROVE Read(e[1])[e[2]] # Absent
    BY DEF EntriesSurvive
  <2>1. \A k \in Workers : ~worker[k].writing
    BY DEF BatchInv, Locked
  <2>2. ~files[e[1]].torn /\ files[e[1]].data[e[2]] # Absent
    BY <2>1 DEF BatchInv, SavedHeld, Held, Carries
  <2> QED BY <2>2 DEF Read
<1> QED BY <1>1, BatchInvariant, PTL

\* Without faults the metrics ledger and the three result files name the same
\* instances as solved whenever no run is up (process_instance).
THEOREM ResultsAlwaysAgree == BatchSpec => []ResultsAgree
<1>1. BatchInv => ResultsAgree
  <2> SUFFICES ASSUME BatchInv, nfaults = 0, run \in {"down", "done"}, NEW f \in Files, NEW i \in Instances
               PROVE  /\ Read(f)[i] # Absent => i \in completed
                      /\ i \in completed => Read(f)[i] # Absent \/ (f = "preds" /\ i \in removed)
    BY DEF ResultsAgree
  <2>1. Backed /\ Complete
    BY DEF BatchInv, Trusted
  <2>2. \A k \in Workers : worker[k].pc = "idle" /\ ~worker[k].writing
    BY WriterWorks DEF BatchInv, Assigned, Busy, At
  <2>3. ~files[f].torn /\ Read(f) = files[f].data
    BY <2>1, <2>2 DEF Complete, Read
  <2>4. \A k \in Workers : ~Coming(k, f, i) /\ ~Carries(k, f, i)
    BY <2>2 DEF Coming, Before, Carries
  <2> QED BY <2>1, <2>3, <2>4 DEF Backed, Complete, Held
<1> QED BY <1>1, BatchInvariant, PTL

\* What costs.json says of an instance covers its model calls, and in a run
\* with one thread is exactly their cost (InstanceCost, update_cost_tracking).
THEOREM CostsExact == BatchSpec => []CostExact
<1>1. BatchInv => CostExact
  <2> SUFFICES ASSUME BatchInv, NEW i \in Instances, Read("costs")[i] # Absent
               PROVE  /\ Read("costs")[i][2] >= billed[i][1]
                      /\ billed[i][2] => Read("costs")[i][2] = billed[i][1]
    BY DEF CostExact
  <2>1. "costs" \in Files
    BY DEF Files
  <2>2. ~files["costs"].torn /\ files["costs"].data[i] = Read("costs")[i]
    BY <2>1, ReadIs
  <2>3. Fits(Read("costs")[i], billed[i])
    BY <2>2 DEF BatchInv, Costs
  <2> QED BY <2>3 DEF Fits
<1> QED BY <1>1, BatchInvariant, PTL

\* If the metrics recorder does not fail, a run without --redo-existing never
\* works again on an instance that has a prediction, whatever else failed
\* before (main's skip rule).
THEOREM PredictedStaysDone == ASSUME "metrics" \notin Faults PROVE BatchSpec => PredictedNotRerun
<1>1. ASSUME BatchInv, [BatchNext]_batchVars, run' = "up", run \in {"down", "done"}, ~redo', NEW i \in todo'
      PROVE  Read("preds")[i] = Absent
  <2>1. \A k \in Workers : ~Busy(k)
    BY <1>1 DEF BatchInv, Assigned
  <2>2. Launch
    <3>1. ~UNCHANGED batchVars /\ ~Stopped
      BY <1>1 DEF batchVars, Stopped
    <3>2. ~Done /\ ~Crash /\ ~CancelPending
      BY <1>1 DEF Done, Crash, CancelPending
    <3>3. ASSUME NEW k \in Workers PROVE ~WorkerStep(k) /\ ~InterruptSerial(k)
      <4>1. worker[k].pc = "idle" /\ ~worker[k].writing
        BY <2>1, WriterWorks, <1>1 DEF Busy, At
      <4> QED BY <1>1, <4>1 DEF WorkerStep, InterruptSerial, Prepare, SetUp, Query, EndRepair, FinishMetrics,
             SaveTrajectory, TrajectoryFails, SkipRemove, Rewrite, RemoveFromPreds, UpdatePreds,
             UpdateCostTracking, UpdateProblems, EndWrite, FailWrite, End, StartInstance, StartFails, At
    <3> QED BY <1>1, <3>1, <3>2, <3>3 DEF BatchNext
  <2>3. PICK line \in CommandLines : redo' = line.redo /\ todo' = Selected(line.redo)
    BY <2>2 DEF Launch
  <2>4. i \in Instances /\ (Read("preds")[i] = Absent \/ i \notin completed)
    BY <1>1, <2>3 DEF Selected
  <2>5. Backed /\ "preds" \in Files
    BY <1>1 DEF BatchInv, Trusted, Files
  <2> QED BY <1>1, <2>4, <2>5, ReadIs DEF Backed
<1>2. BatchInv /\ [BatchNext]_batchVars =>
        [(run' = "up" /\ run \in {"down", "done"} /\ ~redo') => \A i \in todo' : Read("preds")[i] = Absent]_batchVars
  BY <1>1
<1> QED BY <1>2, BatchInvariant, PTL DEF BatchSpec, PredictedNotRerun
=============================================================================
