---------------------------- MODULE SessionTurns ----------------------------
(***************************************************************************)
(* The turns of a Codex session (core/src/tasks/mod.rs, tasks/regular.rs,  *)
(* session/input_queue.rs, session/inject.rs, session/handlers.rs and the  *)
(* input side of session/turn.rs).                                         *)
(*                                                                         *)
(* A session has one slot for its active turn (Session::active_turn, a     *)
(* mutex around Option<ActiveTurn>).  An ActiveTurn holds the running task *)
(* and a shared TurnState with the input that waits for the turn.  The     *)
(* slot is changed by the submission loop, which takes the client's        *)
(* operations one at a time, by a turn that has finished its work and      *)
(* looks for more, and by the guardian, which interrupts a turn.  Each of  *)
(* them takes and releases the mutex several times on its way, so that     *)
(* the others act in between: every action below is one such critical      *)
(* section, with the code up to the next await that matters.               *)
(***************************************************************************)
EXTENDS Naturals, FiniteSets

CONSTANTS
    Users,        \* Op::UserInput operations, one input each
    Compacts,     \* operations that spawn a task which cannot be steered
    Interrupts,   \* Op::Interrupt operations
    Mails,        \* Op::InterAgentCommunication operations, one mail each
    Trigger,      \* mails with trigger_turn
    Steers,       \* inputs of turn/steer requests
    Injects,      \* items given to inject_no_new_turn
    MaxOps,       \* bound: operations, steers and injects
    MaxTwists,    \* bound: interrupts of the guardian, requests that need a
                  \* follow-up, requests and preparations that fail
    MaxTurns,     \* bound: turns
    MaxObjs,      \* bound: ActiveTurn objects alive at the same time
    Loop, Guardian

Turns  == 1..MaxTurns
Objs   == 1..MaxObjs
Ops    == Users \cup Compacts \cup Interrupts \cup Mails \cup Steers \cup Injects
Items  == Users \cup Mails \cup Steers \cup Injects
Actors == {Loop, Guardian} \cup Turns
None   == 0

ASSUME SessionAssumption ==
    /\ Trigger \subseteq Mails
    /\ \A b \in {MaxOps, MaxTwists, MaxTurns, MaxObjs} : b \in Nat
    /\ Loop \notin Turns /\ Guardian \notin Turns /\ Loop # Guardian

VARIABLES
    slot,       \* active_turn: its object and that object's task, or None
    mailbox,    \* mailbox_pending_mails
    pending,    \* object -> pending_input of its TurnState
    later,      \* objects whose mailbox_delivery_phase is NextTurn
    nturns,     \* turns spawned so far
    kind,       \* turn -> TaskKind
    pc,         \* turn -> place of its task
    hand,       \* turn -> inputs its task holds and has not recorded
    cancelled,  \* turns whose cancellation token is cancelled
    ev,         \* turn -> last lifecycle event sent to the client
    act,        \* actor -> what it is doing about the slot
    todo,       \* operations, steers and injects not made yet
    history,    \* items recorded in the conversation
    accepted,   \* inputs that steer_input accepted
    discarded,  \* items dropped with a task or a turn that was cut off
    swept,      \* an interrupt emptied the slot of a turn that was finishing
    twists      \* what is left of MaxTwists

turnVars  == <<nturns, kind>>
queueVars == <<mailbox, pending, later>>
logVars   == <<history, accepted, discarded>>
taskVars  == <<pc, hand, cancelled, ev>>
vars == <<slot, queueVars, turnVars, taskVars, act, todo, logVars, swept, twists>>

Empty == [obj |-> None, task |-> None]
Resting == [pc |-> "idle", obj |-> None, turn |-> None, new |-> "regular",
            input |-> {}, found |-> {}, then |-> "idle"]

Init ==
    /\ slot = Empty
    /\ mailbox = {} /\ pending = [o \in Objs |-> {}] /\ later = {}
    /\ nturns = 0 /\ kind = [t \in Turns |-> "regular"]
    /\ pc = [t \in Turns |-> "none"] /\ hand = [t \in Turns |-> {}]
    /\ cancelled = {} /\ ev = [t \in Turns |-> "none"]
    /\ act = [a \in Actors |-> Resting]
    /\ todo = Ops
    /\ history = {} /\ accepted = {} /\ discarded = {} /\ swept = FALSE
    /\ twists = MaxTwists

-----------------------------------------------------------------------------
(* The slot and its objects.  An object lives while the slot or an actor   *)
(* holds on to it.                                                         *)

Held == {slot.obj} \cup {act[a].obj : a \in Actors}

\* ActiveTurn::default(): an object nobody holds, with a fresh TurnState.
Fresh(o) == o \in Objs \ Held /\ \A p \in Objs \ Held : o <= p

\* active.get_or_insert_with(ActiveTurn::default)
GetOrInsert(o) == IF slot.obj # None THEN o = slot.obj ELSE Fresh(o)

\* What is left in an object that is let go is gone.
Cleared(o) == [pending EXCEPT ![o] = {}]

\* InputQueue::get_pending_input: what the active turn and the mailbox have
\* for the caller.  Whose turn is active does not matter here.
TurnTakes == slot.obj = None \/ slot.obj \notin later
Takes == IF ~TurnTakes THEN {}
         ELSE mailbox \cup (IF slot.obj = None THEN {} ELSE pending[slot.obj])

GetPendingInput ==
    /\ mailbox' = IF TurnTakes THEN {} ELSE mailbox
    /\ pending' = IF TurnTakes /\ slot.obj # None THEN Cleared(slot.obj) ELSE pending
    /\ UNCHANGED later

\* InputQueue::has_pending_input
HasPendingInput == Takes # {}

\* extend_pending_input_and_accept_mailbox_delivery_for_turn_state
Extend(o, items) ==
    /\ pending' = [pending EXCEPT ![o] = @ \cup items]
    /\ later' = later \ {o}
    /\ UNCHANGED mailbox

\* The task of turn t stops for good; what it holds is lost.
Kill(t) ==
    /\ pc' = [pc EXCEPT ![t] = "dead"]
    /\ hand' = [hand EXCEPT ![t] = {}]
    /\ discarded' = discarded \cup hand[t]

Twist == twists > 0 /\ twists' = twists - 1

Go(a, step) == act' = [act EXCEPT ![a].pc = step]
Rest(a) == act' = [act EXCEPT ![a] = Resting]

-----------------------------------------------------------------------------
(* abort_all_tasks, abort_turn_if_active and handle_task_abort.            *)

\* take_active_turn and the cancellation of its task.  Without a task there
\* is nothing to abort: a spawning operation goes on, an interrupt is over.
TakeTurn(a) ==
    /\ act[a].pc = "take"
    /\ slot' = Empty
    /\ IF slot.task # None
       THEN /\ cancelled' = cancelled \cup {slot.task}
            /\ act' = [act EXCEPT ![a] = [@ EXCEPT !.pc = "wait", !.obj = slot.obj,
                                                   !.turn = slot.task]]
            /\ UNCHANGED <<pending, later, swept>>
       ELSE LET finishing == \E b \in Actors : act[b].obj = slot.obj
            IN  /\ IF act[a].then = "check" THEN Rest(a) ELSE Go(a, "gather")
                /\ swept' = (swept \/ (act[a].then = "check" /\ slot.obj # None /\ finishing))
                /\ IF slot.obj = None \/ finishing THEN UNCHANGED <<pending, later>>
                   ELSE pending' = Cleared(slot.obj) /\ later' = later \ {slot.obj}
                /\ UNCHANGED cancelled
    /\ UNCHANGED <<mailbox, turnVars, pc, hand, ev, todo, logVars, twists>>

\* The guardian's circuit breaker: abort_turn_if_active for the turn it saw.
GuardianAborts ==
    /\ act[Guardian].pc = "idle" /\ slot.task # None
    /\ Twist
    /\ cancelled' = cancelled \cup {slot.task}
    /\ act' = [act EXCEPT ![Guardian] = [Resting EXCEPT !.pc = "wait", !.obj = slot.obj,
                                           !.turn = slot.task, !.then = "check"]]
    /\ slot' = Empty
    /\ UNCHANGED <<queueVars, turnVars, pc, hand, ev, todo, logVars, swept>>

\* Variant: the handle is not aborted.
GraceOverNoAbort(a) ==
    /\ act[a].pc = "wait"
    /\ Go(a, "report")
    /\ UNCHANGED <<slot, queueVars, turnVars, taskVars, todo, logVars, swept, twists>>

\* The task notified, or GRACEFULL_INTERRUPTION_TIMEOUT_MS passed: its handle
\* is aborted either way.
GraceOver(a) ==
    /\ act[a].pc = "wait"
    /\ Kill(act[a].turn)
    /\ Go(a, "report")
    /\ UNCHANGED <<slot, queueVars, turnVars, cancelled, ev, todo, history, accepted,
                   swept, twists>>

\* The event TurnAborted.
ReportAborted(a) ==
    /\ act[a].pc = "report"
    /\ ev' = [ev EXCEPT ![act[a].turn] = "aborted"]
    /\ Go(a, "clear")
    /\ UNCHANGED <<slot, queueVars, turnVars, pc, hand, cancelled, todo, logVars,
                   swept, twists>>

\* clear_pending: what still waited for the aborted turn is dropped.
ClearPending(a) ==
    /\ act[a].pc = "clear"
    /\ discarded' = discarded \cup pending[act[a].obj]
    /\ pending' = Cleared(act[a].obj) /\ later' = later \ {act[a].obj}
    /\ act' = [act EXCEPT ![a] = [@ EXCEPT !.pc = act[a].then, !.obj = None, !.turn = None]]
    /\ UNCHANGED <<slot, mailbox, turnVars, taskVars, todo, history, accepted, swept, twists>>

-----------------------------------------------------------------------------
(* maybe_start_turn_for_pending_work and start_task.                       *)

\* Is there mail that asks for a turn?
CheckMail(a) ==
    /\ act[a].pc = "check"
    /\ IF mailbox \cap Trigger = {} THEN Rest(a) ELSE Go(a, "reserve")
    /\ UNCHANGED <<slot, queueVars, turnVars, taskVars, todo, logVars, swept, twists>>

\* An idle session's slot is reserved with an object that has no task yet.
Reserve(a) ==
    /\ act[a].pc = "reserve"
    /\ IF slot.obj # None
       THEN Rest(a) /\ UNCHANGED slot
       ELSE \E o \in Objs :
              /\ Fresh(o)
              /\ slot' = [obj |-> o, task |-> None]
              /\ act' = [act EXCEPT ![a] = [Resting EXCEPT !.pc = "gather"]]
    /\ UNCHANGED <<queueVars, turnVars, taskVars, todo, logVars, swept, twists>>

\* start_task fetches what is pending for the new turn ...
Gather(a) ==
    /\ act[a].pc = "gather"
    /\ act' = [act EXCEPT ![a] = [@ EXCEPT !.pc = "attach", !.found = Takes]]
    /\ GetPendingInput
    /\ UNCHANGED <<slot, turnVars, taskVars, todo, logVars, swept, twists>>

\* ... puts it into the TurnState of the slot's object ...
Attach(a) ==
    /\ act[a].pc = "attach"
    /\ \E o \in Objs :
         /\ GetOrInsert(o)
         /\ slot' = [slot EXCEPT !.obj = o]
         /\ pending' = [pending EXCEPT ![o] = @ \cup act[a].found]
    /\ act' = [act EXCEPT ![a] = [@ EXCEPT !.pc = "install", !.found = {}]]
    /\ UNCHANGED <<mailbox, later, turnVars, taskVars, todo, logVars, swept, twists>>

\* Variant: dropping a task leaves it running.
InstallDetached(a) ==
    /\ act[a].pc = "install" /\ nturns < MaxTurns
    /\ nturns' = nturns + 1
    /\ \E o \in Objs :
         /\ GetOrInsert(o)
         /\ slot' = [obj |-> o, task |-> nturns + 1]
    /\ kind' = [kind EXCEPT ![nturns + 1] = act[a].new]
    /\ pc' = [pc EXCEPT ![nturns + 1] = "spawned"]
    /\ hand' = [hand EXCEPT ![nturns + 1] = act[a].input]
    /\ Rest(a)
    /\ UNCHANGED <<queueVars, cancelled, ev, todo, logVars, swept, twists>>

\* ... and, under the mutex again, spawns the task and stores it.  A task that
\* is there already is dropped, which aborts it (AbortOnDropHandle).
Install(a) ==
    /\ act[a].pc = "install" /\ nturns < MaxTurns
    /\ nturns' = nturns + 1
    /\ \E o \in Objs :
         /\ GetOrInsert(o)
         /\ slot' = [obj |-> o, task |-> nturns + 1]
    /\ kind' = [kind EXCEPT ![nturns + 1] = act[a].new]
    /\ pc' = [t \in Turns |-> IF t = nturns + 1 THEN "spawned"
                               ELSE IF t = slot.task THEN "dead" ELSE pc[t]]
    /\ hand' = [t \in Turns |-> IF t = nturns + 1 THEN act[a].input
                                 ELSE IF t = slot.task THEN {} ELSE hand[t]]
    /\ discarded' = discarded \cup (IF slot.task = None THEN {} ELSE hand[slot.task])
    /\ Rest(a)
    /\ UNCHANGED <<queueVars, cancelled, ev, todo, history, accepted, swept, twists>>

-----------------------------------------------------------------------------
(* The submission loop, and callers outside of it.                         *)

\* A call of any thread.
Call(c) ==
    /\ c \in todo /\ Cardinality(Ops \ todo) < MaxOps
    /\ todo' = todo \ {c}

\* submission_loop takes an operation when it is done with the one before.
Submit(op) == act[Loop].pc = "idle" /\ Call(op)

Steerable == slot.task # None /\ kind[slot.task] = "regular"

\* Session::steer_input accepts the input for the active turn.
AcceptSteer(u) ==
    /\ Steerable
    /\ Extend(slot.obj, {u})
    /\ accepted' = accepted \cup {u}
    /\ UNCHANGED <<slot, turnVars, taskVars, act, history, discarded, swept, twists>>

SteerUserInput(u) == Submit(u) /\ AcceptSteer(u)

\* The active turn cannot be steered: the client gets an error.
RefuseUserInput(u) ==
    /\ Submit(u) /\ slot.task # None /\ ~Steerable
    /\ UNCHANGED <<slot, queueVars, turnVars, taskVars, act, logVars, swept, twists>>

\* spawn_task: abort what runs, then start.
SpawnTask(op, what, input) ==
    /\ Submit(op)
    /\ act' = [act EXCEPT ![Loop] = [Resting EXCEPT !.pc = "take", !.then = "gather",
                                       !.new = what, !.input = input]]
    /\ UNCHANGED <<slot, queueVars, turnVars, taskVars, logVars, swept, twists>>

StartUserTurn(u) == slot.task = None /\ SpawnTask(u, "regular", {u})

Compact(c) == SpawnTask(c, "compact", {})

Interrupt(x) ==
    /\ Submit(x)
    /\ act' = [act EXCEPT ![Loop] = [Resting EXCEPT !.pc = "take", !.then = "check"]]
    /\ UNCHANGED <<slot, queueVars, turnVars, taskVars, logVars, swept, twists>>

\* inter_agent_communication
ReceiveMail(m) ==
    /\ Submit(m)
    /\ mailbox' = mailbox \cup {m}
    /\ IF m \in Trigger THEN Go(Loop, "check") ELSE UNCHANGED act
    /\ UNCHANGED <<slot, pending, later, turnVars, taskVars, logVars, swept, twists>>

\* turn/steer for a turn the client knows of.
Steer(s) ==
    /\ Call(s)
    /\ AcceptSteer(s) /\ ev[slot.task] = "started"

\* inject_no_new_turn: to the active turn, otherwise straight to the history.
Inject(j) ==
    /\ Call(j)
    /\ IF slot.obj # None
       THEN Extend(slot.obj, {j}) /\ UNCHANGED history
       ELSE history' = history \cup {j} /\ UNCHANGED queueVars
    /\ UNCHANGED <<slot, turnVars, taskVars, act, accepted, discarded, swept, twists>>

-----------------------------------------------------------------------------
(* The task of a turn: RegularTask::run and run_turn.  A task that cannot  *)
(* be steered (CompactTask) only makes its request.                        *)

At(t, place) == pc[t] = place
Move(t, place) == pc' = [pc EXCEPT ![t] = place]
Regular(t) == kind[t] = "regular"

\* TurnStarted; the input of the turn is recorded before the first request,
\* and only a turn without input starts with what is pending.
Begin(t) ==
    /\ At(t, "spawned")
    /\ ev' = [ev EXCEPT ![t] = "started"]
    /\ history' = history \cup hand[t] /\ hand' = [hand EXCEPT ![t] = {}]
    /\ Move(t, IF Regular(t) /\ hand[t] = {} THEN "drain" ELSE "sample")
    /\ UNCHANGED <<slot, queueVars, turnVars, cancelled, act, todo, accepted, discarded,
                   swept, twists>>

\* Preparing the first request fails before the input is recorded.
BeginFails(t) ==
    /\ At(t, "spawned") /\ Regular(t) /\ Twist
    /\ ev' = [ev EXCEPT ![t] = "started"]
    /\ discarded' = discarded \cup hand[t] /\ hand' = [hand EXCEPT ![t] = {}]
    /\ \E place \in {"settle", "returned"} : Move(t, place)
    /\ UNCHANGED <<slot, queueVars, turnVars, cancelled, act, todo, history, accepted, swept>>

Drain(t) ==
    /\ At(t, "drain")
    /\ hand' = [hand EXCEPT ![t] = Takes]
    /\ GetPendingInput
    /\ Move(t, "record")
    /\ UNCHANGED <<slot, turnVars, cancelled, ev, act, todo, logVars, swept, twists>>

\* run_hooks_and_record_inputs
Record(t) ==
    /\ At(t, "record")
    /\ history' = history \cup hand[t] /\ hand' = [hand EXCEPT ![t] = {}]
    /\ Move(t, "sample")
    /\ UNCHANGED <<slot, queueVars, turnVars, cancelled, ev, act, todo, accepted, discarded,
                   swept, twists>>

\* The answer calls tools.  After a compaction the next request goes out
\* before anything pending is taken.
FollowUp(t) ==
    /\ At(t, "sample") /\ Regular(t) /\ Twist
    /\ later' = IF slot.task = t THEN later \ {slot.obj} ELSE later
    /\ \E place \in {"drain", "sample"} : Move(t, place)
    /\ UNCHANGED <<slot, mailbox, pending, turnVars, hand, cancelled, ev, act, todo, logVars,
                   swept>>

\* The answer is final.  Text the user sees defers mail to the next turn,
\* unless more than queue-only mail waits for this one.
Answer(t) ==
    /\ At(t, "sample")
    /\ \E shown \in BOOLEAN :
         later' = IF shown /\ Regular(t) /\ slot.task = t
                     /\ pending[slot.obj] \subseteq Mails \ Trigger
                  THEN later \cup {slot.obj} ELSE later
    /\ Move(t, IF Regular(t) THEN "settle" ELSE "returned")
    /\ UNCHANGED <<slot, mailbox, pending, turnVars, hand, cancelled, ev, act, todo, logVars,
                   swept, twists>>

\* The request, the compaction after it or the preparation of the next one
\* fails; only some of these errors leave RegularTask::run at once.
SampleFails(t) ==
    /\ At(t, "sample") /\ Twist
    /\ \E place \in IF Regular(t) THEN {"settle", "returned"} ELSE {"returned"} : Move(t, place)
    /\ UNCHANGED <<slot, queueVars, turnVars, hand, cancelled, ev, act, todo, logVars, swept>>

\* The turn goes on while input is pending, otherwise run returns; so it
\* does if run_turn fails before it has taken what is pending.
Settle(t) ==
    /\ At(t, "settle")
    /\ \/ Move(t, IF HasPendingInput THEN "drain" ELSE "returned") /\ UNCHANGED twists
       \/ HasPendingInput /\ Twist /\ Move(t, "returned")
    /\ UNCHANGED <<slot, queueVars, turnVars, hand, cancelled, ev, act, todo, logVars, swept>>

\* A cancelled task notices at its next request, or when run has returned.
Quit(t) ==
    /\ t \in cancelled /\ pc[t] \in {"sample", "returned"}
    /\ Move(t, "dead")
    /\ UNCHANGED <<slot, queueVars, turnVars, hand, cancelled, ev, act, todo, logVars,
                   swept, twists>>

-----------------------------------------------------------------------------
(* on_task_finished.                                                       *)

\* The task leaves the slot, whose object stays there until the end.  Between
\* the look at the token and the mutex there is nothing to wait for, so that
\* both are one step.
Finish(t) ==
    /\ At(t, "returned") /\ t \notin cancelled
    /\ IF slot.task = None
       THEN Move(t, "dead") /\ UNCHANGED <<slot, act>>
       ELSE /\ slot' = [slot EXCEPT !.task = None]
            /\ act' = [act EXCEPT ![t].obj = slot.obj]
            /\ Move(t, "collect")
    /\ UNCHANGED <<queueVars, turnVars, hand, cancelled, ev, todo, logVars, swept, twists>>

\* Variant: input that came after the last check is dropped.
CollectNothing(t) ==
    /\ At(t, "collect")
    /\ pending' = Cleared(act[t].obj)
    /\ Move(t, "report")
    /\ UNCHANGED <<slot, mailbox, later, turnVars, hand, cancelled, ev, act, todo, logVars,
                   swept, twists>>

\* take_pending_input_for_turn_state
Collect(t) ==
    /\ At(t, "collect")
    /\ hand' = [hand EXCEPT ![t] = pending[act[t].obj]]
    /\ pending' = Cleared(act[t].obj)
    /\ Move(t, "report")
    /\ UNCHANGED <<slot, mailbox, later, turnVars, cancelled, ev, act, todo, logVars,
                   swept, twists>>

\* The late input is recorded and TurnComplete sent.
ReportComplete(t) ==
    /\ At(t, "report")
    /\ history' = history \cup hand[t] /\ hand' = [hand EXCEPT ![t] = {}]
    /\ ev' = [ev EXCEPT ![t] = "completed"]
    /\ Move(t, "release")
    /\ UNCHANGED <<slot, queueVars, turnVars, cancelled, act, todo, accepted, discarded,
                   swept, twists>>

\* Variant: a turn that is over does not look for pending work.
ReleaseUnchecked(t) ==
    LET own == act[t].obj = slot.obj /\ slot.task = None
        shared == \/ act[t].obj = slot.obj /\ ~own
                  \/ \E b \in Actors \ {t} : act[b].obj = act[t].obj
    IN
    /\ At(t, "release")
    /\ slot' = IF own THEN Empty ELSE slot
    /\ Rest(t)
    /\ IF shared THEN UNCHANGED <<pending, later>>
       ELSE pending' = Cleared(act[t].obj) /\ later' = later \ {act[t].obj}
    /\ Move(t, "dead")
    /\ UNCHANGED <<mailbox, turnVars, hand, cancelled, ev, todo, logVars, swept, twists>>

\* The slot is emptied if it still holds this turn's object and no task;
\* only then the turn looks for pending work.  The object is gone unless the
\* slot or another actor has it too.
Release(t) ==
    LET own == act[t].obj = slot.obj /\ slot.task = None
        shared == \/ act[t].obj = slot.obj /\ ~own
                  \/ \E b \in Actors \ {t} : act[b].obj = act[t].obj
    IN
    /\ At(t, "release")
    /\ slot' = IF own THEN Empty ELSE slot
    /\ act' = [act EXCEPT ![t] = [Resting EXCEPT !.pc = IF own THEN "check" ELSE "idle"]]
    /\ IF shared THEN UNCHANGED <<pending, later>>
       ELSE pending' = Cleared(act[t].obj) /\ later' = later \ {act[t].obj}
    /\ Move(t, "dead")
    /\ UNCHANGED <<mailbox, turnVars, hand, cancelled, ev, todo, logVars, swept, twists>>

-----------------------------------------------------------------------------
ActorStep(a) ==
    \/ TakeTurn(a) \/ GraceOver(a) \/ ReportAborted(a) \/ ClearPending(a)
    \/ CheckMail(a) \/ Reserve(a) \/ Gather(a) \/ Attach(a) \/ Install(a)

TaskStep(t) ==
    \/ Begin(t) \/ BeginFails(t) \/ Drain(t) \/ Record(t) \/ FollowUp(t) \/ Answer(t)
    \/ SampleFails(t) \/ Settle(t) \/ Quit(t)
    \/ Finish(t) \/ Collect(t) \/ ReportComplete(t) \/ Release(t)

ClientStep ==
    \/ \E u \in Users : SteerUserInput(u) \/ RefuseUserInput(u) \/ StartUserTurn(u)
    \/ \E c \in Compacts : Compact(c)
    \/ \E x \in Interrupts : Interrupt(x)
    \/ \E m \in Mails : ReceiveMail(m)
    \/ \E s \in Steers : Steer(s)
    \/ \E j \in Injects : Inject(j)

Next ==
    \/ ClientStep \/ GuardianAborts
    \/ \E a \in Actors : ActorStep(a)
    \/ \E t \in Turns : TaskStep(t)

Spec == Init /\ [][Next]_vars

\* Tasks and actors run on; requests to the model return.  Clients and the
\* guardian need not do anything.
Fairness == /\ \A a \in Actors : WF_vars(ActorStep(a))
            /\ \A t \in Turns : WF_vars(TaskStep(t))

LiveSpec == Spec /\ Fairness

-----------------------------------------------------------------------------
(* Correctness.                                                            *)

\* Places of a task that has not finished, and all places.
Running == {"spawned", "drain", "record", "sample", "settle", "returned"}
Places  == Running \cup {"none", "collect", "report", "release", "dead"}

Steps == {"idle", "take", "wait", "report", "clear", "check", "reserve", "gather",
          "attach", "install"}

Terminal == {"completed", "aborted"}

\* What an actor is doing about the slot.
ActRecord == [pc : Steps, obj : Objs \cup {None}, turn : Turns \cup {None},
              new : {"regular", "compact"}, input : SUBSET Items,
              found : SUBSET Items, then : Steps]

SlotType  == slot \in [obj : Objs \cup {None}, task : Turns \cup {None}]
QueueType == /\ mailbox \subseteq Mails
             /\ pending \in [Objs -> SUBSET Items] /\ later \subseteq Objs
TurnType  == nturns \in 0..MaxTurns /\ kind \in [Turns -> {"regular", "compact"}]
TaskType  == /\ pc \in [Turns -> Places] /\ hand \in [Turns -> SUBSET Items]
             /\ cancelled \subseteq Turns
             /\ ev \in [Turns -> {"none", "started"} \cup Terminal]
ActType   == act \in [Actors -> ActRecord]
LogType   == /\ todo \subseteq Ops
             /\ history \subseteq Items /\ accepted \subseteq Items
             /\ discarded \subseteq Items
             /\ swept \in BOOLEAN /\ twists \in Nat

TypeOK == SlotType /\ QueueType /\ TurnType /\ TaskType /\ ActType /\ LogType

\* A task that runs and was not cancelled is the active one: interrupts,
\* steers and approvals reach it, and no second task works on the session
\* behind its back, whatever starts and aborts were made at the same time.
RunningIsActive ==
    \A t \in Turns : pc[t] \in Running /\ t \notin cancelled => slot.task = t

\* TurnComplete or TurnAborted is the last of a turn (on_task_finished and
\* handle_task_abort): no other such event, no recorded input and no work of
\* its task follow it.
TerminalIsFinal ==
    [][\A t \in Turns : ev[t] \in Terminal =>
          /\ ev'[t] = ev[t] /\ hand'[t] = {}
          /\ pc'[t] \in {"release", "dead"}]_vars

\* An actor that has emptied or reserved the slot and not installed a task yet.
Starting(a) ==
    \/ act[a].pc \in {"gather", "attach", "install"}
    \/ act[a].pc \in {"wait", "report", "clear"} /\ act[a].then = "gather"

\* Turns are started one at a time, as the assertions of start_task suppose.
OneStarter ==
    \A a \in Actors : Starting(a) => \A b \in Actors : Starting(b) => a = b

\* Input that steer_input accepted is recorded, even if the turn was about to
\* finish: it is only dropped with a task or a turn that is cut off.  Where two
\* turns are started at a time, one may gather the input of the other and
\* put it back when that one has finished (tasks/mod.rs:353 and 362).
SteeredKept ==
    []OneStarter =>
        \A u \in Users \cup Steers : u \in accepted ~> u \in history \cup discarded

\* Mail that asks for a turn does not stay in the mailbox of a session that
\* is at rest, unless an interrupt hit the moments in which a turn finishes:
\* then the interrupt starts nothing, as it aborted nothing, and neither does
\* the turn, as its slot is gone (tasks/mod.rs:534 and 838).
MailTaken ==
    \A m \in Trigger : m \in mailbox ~> (m \notin mailbox \/ swept)

\* debug_assert!(turn.task.is_none()) in start_task.
InstallsIntoFreeSlot ==
    [][nturns' = nturns \/ slot.task = None]_vars
=============================================================================
