----------------------------- MODULE AgentLoop ------------------------------
(***************************************************************************)
(* The agent of a benchmark run: DefaultAgent.run of agents/default.py     *)
(* with the query hook of ProgressTrackingAgent (benchmarks/utils/         *)
(* common.py), over the LiteLLM model and the local environment.           *)
(*                                                                         *)
(* One step of the loop is a query (limits checked by the hook, then again *)
(* by DefaultAgent; metrics marker; model call) and the execution of the   *)
(* commands in the answer.  Flow is steered by exceptions: an              *)
(* InterruptAgentFlow adds its messages to the conversation, and the loop  *)
(* ends when the last message has the role "exit".                         *)
(*                                                                         *)
(* Every model call costs one unit.  Retries inside model.query are not    *)
(* told apart: only their last outcome matters to the loop.                *)
(***************************************************************************)
EXTENDS Integers

CONSTANTS
    StepLimit,   \* agent.config.step_limit, 0 for none
    CostLimit,   \* agent.config.cost_limit, 0 for none
    MaxPaid      \* bound: the history of paid calls stops counting here

ASSUME AgentAssumption ==
    /\ StepLimit \in Nat /\ CostLimit \in Nat /\ MaxPaid \in Nat
    /\ StepLimit <= MaxPaid /\ CostLimit <= MaxPaid

VARIABLES
    phase,      \* where the agent is: see Phases
    limitSeen,  \* limit_reached of the hook
    last,       \* role of the last message of the conversation
    dangling,   \* some commands of the model were followed by another message
                \* than their results
    nCalls,     \* agent.n_calls
    cost,       \* agent.cost
    wallLimit,  \* agent.config.wall_time_limit_seconds, in ticks
    clock,      \* ticks since agent._start_time
    status,     \* how the run ended: see Statuses
    open,       \* begin_api_call made and not yet matched by a record
    paid,       \* history: calls charged by the provider in this run
    dirty       \* the working tree differs from the failing commit

agentVars == <<phase, limitSeen, last, dangling, nCalls, cost, wallLimit,
               clock, status, open, paid, dirty>>
budget == <<nCalls, cost, wallLimit>>

Phases == {"ready",    \* outside of agent.run
           "gate",     \* step begins: the hook of ProgressTrackingAgent
           "query",    \* DefaultAgent.query checks the limits
           "model",    \* model.query is running
           "act",      \* execute_actions
           "returned", \* agent.run returned
           "raised"}   \* agent.run raised

Statuses == {"none", "Submitted", "LimitsExceeded", "TimeExceeded", "error",
             "ContextWindow", "interrupt"}

Roles == {"system", "user", "assistant", "tool", "exit"}

-----------------------------------------------------------------------------
OverBudget == \/ 0 < StepLimit /\ StepLimit <= nCalls
              \/ 0 < CostLimit /\ CostLimit <= cost

OverTime == 0 < wallLimit /\ wallLimit <= clock

\* agent.run resets the conversation and enters its loop.
BeginRun ==
    /\ phase' = "gate"
    /\ last' = "user" /\ dangling' = FALSE
    /\ status' = "none" /\ paid' = 0
    /\ UNCHANGED <<limitSeen, open, dirty>>

\* add_messages, for one message.
Say(role) ==
    /\ last' = role
    /\ dangling' = (dangling \/ (last = "assistant" /\ role \notin {"tool", "exit"}))

talk == <<last, dangling>>

\* The loop ends: agent.run returns, or raises.
Leave(how, why) == phase' = how /\ status' = why

\* Time passes while the agent runs.
Tick ==
    /\ phase \in {"gate", "query", "model", "act"}
    /\ clock < wallLimit
    /\ clock' = clock + 1
    /\ UNCHANGED <<phase, limitSeen, talk, budget, status, open, paid, dirty>>

\* ProgressTrackingAgent.query: the metrics marker is set unless a limit is
\* reached already.
Gate ==
    /\ phase = "gate"
    /\ limitSeen' = (OverBudget \/ OverTime)
    /\ open' = IF OverBudget \/ OverTime THEN open ELSE open + 1
    /\ phase' = "query"
    /\ UNCHANGED <<talk, budget, clock, status, paid, dirty>>

\* Variant: the call that was announced is not recorded.
RecordFailedNever == UNCHANGED open

\* The hook's exception handler records the call it announced.
RecordFailed == open' = IF limitSeen THEN open ELSE open - 1

\* DefaultAgent.query: the limits are looked at once more.
Limits ==
    /\ phase = "query" /\ (OverBudget \/ OverTime)
    /\ Leave("returned", IF OverBudget THEN "LimitsExceeded" ELSE "TimeExceeded")
    /\ Say("exit")
    /\ RecordFailed
    /\ UNCHANGED <<limitSeen, budget, clock, paid, dirty>>

\* Variant: the call is counted when it returned, not when it is made.
CallModelUncounted ==
    /\ phase = "query" /\ ~OverBudget /\ ~OverTime
    /\ phase' = "model"
    /\ UNCHANGED <<limitSeen, talk, budget, clock, status, open, paid, dirty>>


CallModel ==
    /\ phase = "query" /\ ~OverBudget /\ ~OverTime
    /\ nCalls' = nCalls + 1
    /\ phase' = "model"
    /\ UNCHANGED <<limitSeen, talk, cost, wallLimit, clock, status, open, paid, dirty>>

\* The provider charges for an answer.
Pay == paid' = IF paid < MaxPaid THEN paid + 1 ELSE paid

\* An answer with commands.
Reply ==
    /\ phase = "model"
    /\ Pay
    /\ cost' = cost + 1
    /\ Say("assistant")
    /\ open' = open - 1
    /\ phase' = "act"
    /\ UNCHANGED <<limitSeen, nCalls, wallLimit, clock, status, dirty>>

\* Variant: the unusable answer joins the conversation.
FormatErrorKeepsAnswer ==
    /\ phase = "model"
    /\ Pay
    /\ last' = "user" /\ dangling' = TRUE
    /\ RecordFailed
    /\ phase' = "gate"
    /\ UNCHANGED <<limitSeen, budget, clock, status, dirty>>

\* An answer without a usable command: model.query raises FormatError after
\* the provider charged for it and before agent.cost is updated.
FormatError ==
    /\ phase = "model"
    /\ Pay
    /\ Say("user")
    /\ RecordFailed
    /\ phase' = "gate"
    /\ UNCHANGED <<limitSeen, budget, clock, status, dirty>>

\* The prompt does not fit.  The handler in DefaultAgent.run refers to a name
\* "logger" that its module does not define, so its own first line raises.
ContextWindowExceeded ==
    /\ phase = "model"
    /\ Leave("raised", "ContextWindow")
    /\ RecordFailed
    /\ UNCHANGED <<limitSeen, talk, budget, clock, paid, dirty>>

\* Retries are used up, or GLOBAL_MODEL_STATS.add raises after a paid call:
\* handle_uncaught_exception adds an exit message and the exception goes on.
ModelError ==
    /\ phase = "model"
    /\ Pay \/ UNCHANGED paid
    /\ Leave("raised", "error") /\ Say("exit")
    /\ RecordFailed
    /\ UNCHANGED <<limitSeen, budget, clock, dirty>>

\* The commands run, may change the working tree, and their output joins
\* the conversation.
Observe ==
    /\ phase = "act"
    /\ Say("tool")
    /\ dirty' \in {dirty, TRUE}
    /\ phase' = "gate"
    /\ UNCHANGED <<limitSeen, budget, clock, status, open, paid>>

\* One of the commands printed the completion marker.
Submit ==
    /\ phase = "act"
    /\ Leave("returned", "Submitted") /\ Say("exit")
    /\ dirty' \in {dirty, TRUE}
    /\ UNCHANGED <<limitSeen, budget, clock, open, paid>>

\* A KeyboardInterrupt is not an Exception: it passes every handler of run.
\* The hook records the call under way, unless the interrupt hits the hook
\* while it announces the call or while it records another failure.
Interrupted ==
    /\ phase \in {"gate", "query", "model", "act"}
    /\ Leave("raised", "interrupt")
    /\ \/ phase \in {"query", "model"} /\ RecordFailed
       \/ phase = "gate" /\ ~OverBudget /\ ~OverTime /\ open' = open + 1
       \/ UNCHANGED open
    /\ UNCHANGED paid \/ (phase = "model" /\ Pay)
    /\ dirty' \in {dirty, dirty \/ phase = "act"}
    /\ UNCHANGED <<limitSeen, talk, budget, clock>>

\* The interrupt hits the hook while it records an answer.
InterruptedRecord ==
    /\ phase = "model"
    /\ Leave("raised", "interrupt")
    /\ Pay
    /\ cost' = cost + 1
    /\ Say("assistant")
    /\ open' \in {open, open - 1}
    /\ UNCHANGED <<limitSeen, nCalls, wallLimit, clock, dirty>>

AgentStep ==
    \/ Gate \/ Limits \/ CallModel \/ Reply \/ FormatError
    \/ ContextWindowExceeded \/ ModelError \/ Observe \/ Submit

AgentTypeOK ==
    /\ phase \in Phases /\ status \in Statuses
    /\ limitSeen \in BOOLEAN /\ dirty \in BOOLEAN
    /\ last \in Roles /\ dangling \in BOOLEAN
    /\ {nCalls, cost, wallLimit, clock} \subseteq Nat
    /\ open \in 0..1
    /\ paid \in 0..MaxPaid
=============================================================================
