-------------------------- MODULE SessionTurnsProofs --------------------------
(***************************************************************************)
(* Theorems about SessionTurns, for every set of operations and every      *)
(* bound: the running task is the active one, the event that ends a turn   *)
(* is its last, and, while turns are started one at a time, input that was *)
(* accepted is never forgotten.                                            *)
(***************************************************************************)
EXTENDS SessionTurns, TLAPS

-----------------------------------------------------------------------------
(* The inductive invariant.                                                *)

\* The slot's task runs and is not cancelled; an empty slot has none.
SlotInv ==
    /\ slot.obj = None => slot.task = None
    /\ slot.task # None => pc[slot.task] \in Running /\ slot.task \notin cancelled

\* Turns not spawned yet have left no trace.
NewInv ==
    /\ \A t \in Turns : t > nturns => pc[t] = "none"
    /\ \A t \in Turns : t \in cancelled => pc[t] # "none"

\* Only a task on its way to record something holds inputs.
HandInv ==
    \A t \in Turns : pc[t] \notin {"spawned", "record", "report"} => hand[t] = {}

\* A turn whose terminal event is out has nothing left to do.
EndInv ==
    \A t \in Turns : ev[t] \in Terminal => pc[t] \in {"release", "dead"}

\* What an actor aborts is cancelled, has not finished, and is its alone.
Aborting(a) == act[a].pc \in {"wait", "report"}
Holding(a)  == act[a].pc \in {"wait", "report", "clear"}

AbortInv ==
    /\ \A a \in Actors : Holding(a) => act[a].obj # None
    /\ \A a \in Actors :
          Holding(a) \/ act[a].pc = "take" => act[a].then \in {"check", "gather"}
    /\ \A a \in Actors : Aborting(a) =>
          /\ act[a].turn \in cancelled
          /\ pc[act[a].turn] \in Running \cup {"dead"}
          /\ act[a].pc = "report" => pc[act[a].turn] = "dead"
          /\ ev[act[a].turn] \notin Terminal
    /\ \A a, b \in Actors :
          Aborting(a) /\ Aborting(b) /\ a # b => act[a].turn # act[b].turn

\* A turn looks for pending work after its task is done; while it finishes
\* it holds on to its object.
ClosingInv ==
    \A t \in Turns : /\ pc[t] # "dead" => act[t].pc = "idle"
                     /\ pc[t] = "collect" => act[t].obj # None

IInv == /\ TypeOK /\ SlotInv /\ RunningIsActive /\ NewInv /\ HandInv
        /\ EndInv /\ AbortInv /\ ClosingInv

-----------------------------------------------------------------------------
(* Facts about the constants and about a step of one actor.                *)

LEMMA Consts ==
    /\ MaxTurns \in Nat /\ MaxObjs \in Nat /\ MaxTwists \in Nat /\ None = 0
    /\ Turns = 1..MaxTurns /\ Objs = 1..MaxObjs /\ None \notin Turns /\ None \notin Objs
    /\ Turns \subseteq Actors /\ Loop \in Actors /\ Guardian \in Actors
    /\ Loop \notin Turns /\ Guardian \notin Turns /\ Loop # Guardian
    /\ Users \subseteq Items /\ Mails \subseteq Items /\ Steers \subseteq Items
    /\ Injects \subseteq Items
  BY SessionAssumption DEF Turns, Objs, Actors, None, Items

LEMMA ActChanged ==
    ASSUME ActType, NEW a \in Actors, NEW r \in ActRecord, act' = [act EXCEPT ![a] = r]
    PROVE  /\ ActType' /\ act'[a] = r
           /\ \A b \in Actors \ {a} : act'[b] = act[b]
  BY DEF ActType

LEMMA GoActor ==
    ASSUME ActType, NEW a \in Actors, NEW s \in Steps, Go(a, s)
    PROVE  /\ ActType'
           /\ act'[a].pc = s /\ act'[a].obj = act[a].obj /\ act'[a].turn = act[a].turn
           /\ act'[a].then = act[a].then
           /\ \A b \in Actors \ {a} : act'[b] = act[b]
<1> DEFINE r == [act[a] EXCEPT !.pc = s]
<1>1. /\ r \in ActRecord
      /\ r.pc = s /\ r.obj = act[a].obj /\ r.turn = act[a].turn /\ r.then = act[a].then
  BY DEF ActType, ActRecord
<1>2. act' = [act EXCEPT ![a] = r]
  BY DEF Go
<1> HIDE DEF r
<1> QED BY <1>1, <1>2, ActChanged

LEMMA RestActor ==
    ASSUME ActType, NEW a \in Actors, Rest(a)
    PROVE  /\ ActType' /\ act'[a].pc = "idle" /\ act'[a].obj = None
           /\ \A b \in Actors \ {a} : act'[b] = act[b]
<1>1. Resting \in ActRecord /\ Resting.pc = "idle" /\ Resting.obj = None
  BY DEF Resting, ActRecord, Steps
<1> QED BY <1>1, ActChanged DEF Rest

\* An actor that moves on without a task in its hands: the tasks and what the
\* slot runs stay as they are.
LEMMA ActorMoves ==
    ASSUME IInv, TypeOK', NEW a \in Actors, act[a].pc # "idle" \/ a \notin Turns,
           \A b \in Actors \ {a} : act'[b] = act[b],
           act'[a].pc \notin {"wait", "report", "clear"},
           act'[a].pc = "take" => act'[a].then \in {"check", "gather"},
           slot'.task = slot.task, slot'.obj = None => slot'.task = None,
           UNCHANGED <<nturns, pc, hand, cancelled, ev>>
    PROVE  IInv'
<1>1. TaskType /\ ActType
  BY DEF IInv, TypeOK
<1>2. AbortInv'
  BY <1>1 DEF IInv, AbortInv, Aborting, Holding
<1>3. ClosingInv'
  BY <1>1, Consts DEF IInv, ClosingInv
<1>4. SlotInv' /\ RunningIsActive'
  BY DEF IInv, SlotInv, RunningIsActive
<1>5. NewInv' /\ HandInv' /\ EndInv'
  BY DEF IInv, NewInv, HandInv, EndInv
<1> QED BY <1>2, <1>3, <1>4, <1>5 DEF IInv

\* A task that works on.
LEMMA TaskMoves ==
    ASSUME IInv, TypeOK', NEW t \in Turns, pc[t] \in Running, pc'[t] \in Running,
           pc'[t] \notin {"spawned", "record"} => hand'[t] = {}, ev'[t] \notin Terminal,
           \A s \in Turns \ {t} : pc'[s] = pc[s] /\ hand'[s] = hand[s] /\ ev'[s] = ev[s],
           UNCHANGED <<slot, nturns, cancelled, act>>
    PROVE  IInv'
<1>1. SlotType /\ TurnType /\ TaskType /\ ActType
  BY DEF IInv, TypeOK
<1>2. SlotInv' /\ RunningIsActive'
  BY <1>1, Consts DEF IInv, SlotInv, RunningIsActive, SlotType
<1>3. NewInv'
  BY <1>1 DEF IInv, NewInv, Running
<1>4. HandInv' /\ EndInv'
  BY <1>1 DEF IInv, HandInv, EndInv, Running
<1>5. AbortInv'
  BY <1>1 DEF IInv, AbortInv, Aborting, Holding, TaskType, Running
<1>6. ClosingInv'
  BY <1>1, Consts DEF IInv, ClosingInv, Running
<1> QED BY <1>2, <1>3, <1>4, <1>5, <1>6 DEF IInv

\* The active turn is taken out of the slot to be aborted.
LEMMA AbortStarts ==
    ASSUME IInv, TypeOK', NEW a \in Actors, act[a].pc # "idle" \/ a \notin Turns,
           slot.task # None, slot' = Empty, cancelled' = cancelled \cup {slot.task},
           act'[a].pc = "wait", act'[a].obj = slot.obj, act'[a].turn = slot.task,
           act'[a].then \in {"check", "gather"},
           \A b \in Actors \ {a} : act'[b] = act[b],
           UNCHANGED <<nturns, pc, hand, ev>>
    PROVE  IInv'
<1>1. SlotType /\ TaskType /\ ActType
  BY DEF IInv, TypeOK
<1>2. /\ slot.obj # None /\ slot.task \in Turns /\ slot.task \notin cancelled
      /\ pc[slot.task] \in Running /\ ev[slot.task] \notin Terminal
  BY <1>1 DEF IInv, SlotInv, EndInv, SlotType, Running
<1>3. SlotInv' /\ RunningIsActive'
  BY DEF IInv, RunningIsActive, SlotInv, Empty
<1>4. NewInv' /\ HandInv' /\ EndInv'
  BY <1>2 DEF IInv, NewInv, HandInv, EndInv, Running
<1>5. AbortInv'
  <2>1. \A b \in Actors \ {a} : Aborting(b) => act[b].turn # slot.task
    BY <1>2 DEF IInv, AbortInv
  <2> QED BY <1>1, <1>2, <2>1 DEF IInv, AbortInv, Aborting, Holding
<1>6. ClosingInv'
  BY Consts DEF IInv, ClosingInv
<1> QED BY <1>3, <1>4, <1>5, <1>6 DEF IInv

\* Steps that leave the slot, the tasks and the actors alone.
LEMMA CoreUnchanged ==
    ASSUME IInv, TypeOK', UNCHANGED <<slot, nturns, pc, hand, cancelled, ev, act>>
    PROVE  IInv'
  BY DEF IInv, SlotInv, RunningIsActive, NewInv, HandInv, EndInv, AbortInv, Aborting,
         Holding, ClosingInv

-----------------------------------------------------------------------------
(* Each action keeps the invariant: those of the actors, ...               *)

LEMMA TakeTurnInv ==
    ASSUME IInv, NEW a \in Actors, TakeTurn(a)
    PROVE  IInv'
<1>0. SlotType /\ QueueType /\ TurnType /\ TaskType /\ ActType /\ LogType
  BY DEF IInv, TypeOK
<1>a. /\ ActType'
      /\ slot.task # None =>
            /\ act'[a].pc = "wait" /\ act'[a].obj = slot.obj /\ act'[a].turn = slot.task
            /\ act'[a].then = act[a].then
      /\ slot.task = None => act'[a].pc \in {"idle", "gather"}
      /\ \A b \in Actors \ {a} : act'[b] = act[b]
  <2>1. CASE slot.task # None
    <3> DEFINE r == [act[a] EXCEPT !.pc = "wait", !.obj = slot.obj, !.turn = slot.task]
    <3>1. /\ r \in ActRecord /\ r.pc = "wait" /\ r.obj = slot.obj
          /\ r.turn = slot.task /\ r.then = act[a].then
      BY <1>0, ZenonT(40) DEF ActType, ActRecord, SlotType, Steps
    <3>2. act' = [act EXCEPT ![a] = r]
      BY <2>1 DEF TakeTurn
    <3> HIDE DEF r
    <3> QED BY <1>0, <2>1, <3>1, <3>2, ActChanged
  <2>2. CASE slot.task = None /\ act[a].then = "check"
    BY <1>0, <2>2, RestActor DEF TakeTurn
  <2>3. CASE slot.task = None /\ act[a].then # "check"
    <3>1. Go(a, "gather") /\ "gather" \in Steps
      BY <2>3 DEF TakeTurn, Steps
    <3> QED BY <1>0, <2>3, <3>1, GoActor
  <2> QED BY <2>1, <2>2, <2>3
<1>1. TypeOK'
  <2>1. SlotType'
    BY DEF SlotType, TakeTurn, Empty
  <2>4. QueueType'
    BY <1>0, Consts DEF SlotType, QueueType, TakeTurn, Cleared
  <2>2. TurnType' /\ LogType'
    BY <1>0, <1>a, Consts DEF IInv, AbortInv, Aborting, Holding, SlotType,
       QueueType, TurnType, TaskType, ActType, ActRecord, LogType, TakeTurn,
       Cleared, Empty, turnVars, logVars
  <2>3. TaskType'
    BY <1>0, <1>a, Consts DEF IInv, AbortInv, Aborting, ClosingInv, SlotType,
       QueueType, TurnType, TaskType, ActType, ActRecord, Places, Running, Terminal,
       TakeTurn, Cleared, Empty, turnVars, logVars
  <2> QED BY <1>a, <2>1, <2>2, <2>3, <2>4 DEF TypeOK
<1>2. CASE slot.task # None
  BY <1>0, <1>1, <1>2, <1>a, AbortStarts DEF IInv, AbortInv, TakeTurn, turnVars
<1>3. CASE slot.task = None
  BY <1>1, <1>3, <1>a, ActorMoves DEF TakeTurn, Empty, turnVars
<1> QED BY <1>2, <1>3

LEMMA GraceOverInv ==
    ASSUME IInv, NEW a \in Actors, GraceOver(a)
    PROVE  IInv'
<1>0. SlotType /\ QueueType /\ TurnType /\ TaskType /\ ActType /\ LogType
  BY DEF IInv, TypeOK
<1>a. /\ ActType'
      /\ act'[a].pc = "report"
      /\ act'[a].obj = act[a].obj /\ act'[a].turn = act[a].turn /\ act'[a].then = act[a].then
      /\ \A b \in Actors \ {a} : act'[b] = act[b]
  BY <1>0, GoActor DEF GraceOver, Steps
<1>1. TypeOK'
  <2>1. SlotType' /\ QueueType'
    BY <1>0, <1>a, Consts DEF IInv, SlotInv, AbortInv, Holding, ClosingInv,
       SlotType, QueueType, ActType, ActRecord, TurnType, GraceOver, Kill,
       queueVars, turnVars
  <2>2. TurnType' /\ LogType'
    BY <1>0, <1>a, Consts DEF IInv, AbortInv, Aborting, Holding, SlotType,
       QueueType, TurnType, TaskType, ActType, ActRecord, LogType, GraceOver, Kill,
       queueVars, turnVars
  <2>3. TaskType'
    BY <1>0, <1>a, Consts DEF IInv, AbortInv, Aborting, ClosingInv, SlotType,
       QueueType, TurnType, TaskType, ActType, ActRecord, Places, Running, Terminal,
       GraceOver, Kill, queueVars, turnVars
  <2> QED BY <1>a, <2>1, <2>2, <2>3 DEF TypeOK
<1>2. SlotInv' /\ RunningIsActive'
  BY <1>0, <1>a, Consts DEF IInv, SlotType, TurnType, TaskType, ActType, ActRecord,
     SlotInv, RunningIsActive, AbortInv, Aborting, NewInv, Running, GraceOver, Kill,
     queueVars, turnVars
<1>3. NewInv'
  BY <1>0, <1>a, Consts DEF IInv, SlotType, TurnType, TaskType, ActType, ActRecord,
     SlotInv, NewInv, AbortInv, Aborting, Running, GraceOver, Kill, queueVars,
     turnVars
<1>4. HandInv' /\ EndInv'
  BY <1>0, <1>a, Consts DEF IInv, SlotType, TurnType, TaskType, ActType, ActRecord,
     SlotInv, NewInv, HandInv, EndInv, AbortInv, Aborting, Running, Terminal,
     GraceOver, Kill, queueVars, turnVars
<1>5. AbortInv'
  <2>1. act[a].turn \in Turns /\ act[a].turn \in cancelled
    BY <1>0 DEF IInv, AbortInv, Aborting, TaskType, GraceOver
  <2>2. \A b \in Actors \ {a} : Aborting(b) => act[b].turn \in Turns \ {act[a].turn}
    BY <1>0 DEF IInv, AbortInv, Aborting, TaskType, GraceOver
  <2> QED BY <1>0, <1>a, <2>1, <2>2 DEF IInv, AbortInv, Aborting, Holding, TaskType, GraceOver, Kill
<1>6. ClosingInv'
  BY <1>0, <1>a, Consts DEF IInv, SlotType, TurnType, TaskType, ActType, ActRecord,
     SlotInv, NewInv, ClosingInv, Running, GraceOver, Kill, queueVars, turnVars
<1> QED BY <1>1, <1>2, <1>3, <1>4, <1>5, <1>6 DEF IInv

LEMMA ReportAbortedInv ==
    ASSUME IInv, NEW a \in Actors, ReportAborted(a)
    PROVE  IInv'
<1>0. SlotType /\ QueueType /\ TurnType /\ TaskType /\ ActType /\ LogType
  BY DEF IInv, TypeOK
<1>a. /\ ActType'
      /\ act'[a].pc = "clear"
      /\ act'[a].obj = act[a].obj /\ act'[a].turn = act[a].turn /\ act'[a].then = act[a].then
      /\ \A b \in Actors \ {a} : act'[b] = act[b]
  BY <1>0, GoActor DEF ReportAborted, Steps
<1>1. TypeOK'
  <2>1. SlotType' /\ QueueType'
    BY <1>0, <1>a, Consts DEF IInv, SlotInv, AbortInv, Holding, ClosingInv,
       SlotType, QueueType, ActType, ActRecord, TurnType, ReportAborted, queueVars,
       turnVars, logVars
  <2>2. TurnType' /\ LogType'
    BY <1>0, <1>a, Consts DEF IInv, AbortInv, Aborting, Holding, SlotType,
       QueueType, TurnType, TaskType, ActType, ActRecord, LogType, ReportAborted,
       queueVars, turnVars, logVars
  <2>3. TaskType'
    BY <1>0, <1>a, Consts DEF IInv, AbortInv, Aborting, ClosingInv, SlotType,
       QueueType, TurnType, TaskType, ActType, ActRecord, Places, Running, Terminal,
       ReportAborted, queueVars, turnVars, logVars
  <2> QED BY <1>a, <2>1, <2>2, <2>3 DEF TypeOK
<1>2. SlotInv' /\ RunningIsActive'
  BY <1>0, <1>a, Consts DEF IInv, SlotType, TurnType, TaskType, ActType, ActRecord,
     SlotInv, RunningIsActive, AbortInv, Aborting, NewInv, Running, ReportAborted,
     queueVars, turnVars, logVars
<1>3. NewInv'
  BY <1>0, <1>a, Consts DEF IInv, SlotType, TurnType, TaskType, ActType, ActRecord,
     SlotInv, NewInv, AbortInv, Aborting, Running, ReportAborted, queueVars,
     turnVars, logVars
<1>4. HandInv' /\ EndInv'
  BY <1>0, <1>a, Consts DEF IInv, SlotType, TurnType, TaskType, ActType, ActRecord,
     SlotInv, NewInv, HandInv, EndInv, AbortInv, Aborting, Running, Terminal,
     ReportAborted, queueVars, turnVars, logVars
<1>5. AbortInv'
  <2>1. act[a].turn \in Turns /\ act[a].turn \in cancelled
    BY <1>0 DEF IInv, AbortInv, Aborting, TaskType, ReportAborted
  <2>2. \A b \in Actors \ {a} : Aborting(b) => act[b].turn \in Turns \ {act[a].turn}
    BY <1>0 DEF IInv, AbortInv, Aborting, TaskType, ReportAborted
  <2> QED BY <1>0, <1>a, <2>1, <2>2 DEF IInv, AbortInv, Aborting, Holding, TaskType, ReportAborted
<1>6. ClosingInv'
  BY <1>0, <1>a, Consts DEF IInv, SlotType, TurnType, TaskType, ActType, ActRecord,
     SlotInv, NewInv, ClosingInv, Running, ReportAborted, queueVars, turnVars,
     logVars
<1> QED BY <1>1, <1>2, <1>3, <1>4, <1>5, <1>6 DEF IInv

LEMMA ClearPendingInv ==
    ASSUME IInv, NEW a \in Actors, ClearPending(a)
    PROVE  IInv'
<1>0. SlotType /\ QueueType /\ TurnType /\ TaskType /\ ActType /\ LogType
  BY DEF IInv, TypeOK
<1>a. /\ ActType'
      /\ act'[a].pc = act[a].then
      /\ \A b \in Actors \ {a} : act'[b] = act[b]
  <2> DEFINE r == [act[a] EXCEPT !.pc = act[a].then, !.obj = None, !.turn = None]
  <2>1. r \in ActRecord /\ r.pc = act[a].then
    BY <1>0 DEF ActType, ActRecord, Steps
  <2>2. act' = [act EXCEPT ![a] = r]
    BY DEF ClearPending
  <2> HIDE DEF r
  <2> QED BY <1>0, Consts, <2>1, <2>2, ActChanged
<1>1. TypeOK'
  <2>1. SlotType' /\ QueueType'
    BY <1>0, <1>a, Consts DEF IInv, SlotInv, AbortInv, Holding, ClosingInv,
       SlotType, QueueType, ActType, ActRecord, TurnType, ClearPending, Cleared,
       turnVars, taskVars
  <2>2. TurnType' /\ LogType'
    BY <1>0, <1>a, Consts DEF IInv, AbortInv, Aborting, Holding, SlotType,
       QueueType, TurnType, TaskType, ActType, ActRecord, LogType, ClearPending,
       Cleared, turnVars, taskVars
  <2>3. TaskType'
    BY <1>0, <1>a, Consts DEF IInv, AbortInv, Aborting, ClosingInv, SlotType,
       QueueType, TurnType, TaskType, ActType, ActRecord, Places, Running, Terminal,
       ClearPending, Cleared, turnVars, taskVars
  <2> QED BY <1>a, <2>1, <2>2, <2>3 DEF TypeOK
<1> QED BY <1>0, <1>1, <1>a, Consts, ActorMoves DEF IInv, AbortInv, Holding,
   SlotInv, SlotType, ClearPending, Cleared, turnVars, taskVars

LEMMA CheckMailInv ==
    ASSUME IInv, NEW a \in Actors, CheckMail(a)
    PROVE  IInv'
<1>0. SlotType /\ QueueType /\ TurnType /\ TaskType /\ ActType /\ LogType
  BY DEF IInv, TypeOK
<1>a. /\ ActType'
      /\ act'[a].pc \in {"idle", "reserve"}
      /\ \A b \in Actors \ {a} : act'[b] = act[b]
  <2>1. CASE mailbox \cap Trigger = {}
    BY <1>0, <2>1, RestActor DEF CheckMail
  <2>2. CASE mailbox \cap Trigger # {}
    <3>1. Go(a, "reserve") /\ "reserve" \in Steps
      BY <2>2 DEF CheckMail, Steps
    <3> QED BY <1>0, <3>1, GoActor
  <2> QED BY <2>1, <2>2
<1>1. TypeOK'
  <2>1. SlotType' /\ QueueType'
    BY <1>0, <1>a, Consts DEF IInv, SlotInv, AbortInv, Holding, ClosingInv,
       SlotType, QueueType, ActType, ActRecord, TurnType, CheckMail, queueVars,
       turnVars, taskVars, logVars
  <2>2. TurnType' /\ LogType'
    BY <1>0, <1>a, Consts DEF IInv, AbortInv, Aborting, Holding, SlotType,
       QueueType, TurnType, TaskType, ActType, ActRecord, LogType, CheckMail,
       queueVars, turnVars, taskVars, logVars
  <2>3. TaskType'
    BY <1>0, <1>a, Consts DEF IInv, AbortInv, Aborting, ClosingInv, SlotType,
       QueueType, TurnType, TaskType, ActType, ActRecord, Places, Running, Terminal,
       CheckMail, queueVars, turnVars, taskVars, logVars
  <2> QED BY <1>a, <2>1, <2>2, <2>3 DEF TypeOK
<1> QED BY <1>0, <1>1, <1>a, Consts, ActorMoves DEF IInv, AbortInv, Holding,
   SlotInv, SlotType, CheckMail, queueVars, turnVars, taskVars, logVars

LEMMA ReserveInv ==
    ASSUME IInv, NEW a \in Actors, Reserve(a)
    PROVE  IInv'
<1>0. SlotType /\ QueueType /\ TurnType /\ TaskType /\ ActType /\ LogType
  BY DEF IInv, TypeOK
<1>a. /\ ActType'
      /\ act'[a].pc \in {"idle", "gather"}
      /\ \A b \in Actors \ {a} : act'[b] = act[b]
  <2>1. CASE slot.obj # None
    BY <1>0, <2>1, RestActor DEF Reserve
  <2>2. CASE slot.obj = None
    <3> DEFINE r == [Resting EXCEPT !.pc = "gather"]
    <3>1. r \in ActRecord /\ r.pc = "gather"
      BY Consts DEF Resting, ActRecord, Steps
    <3>2. act' = [act EXCEPT ![a] = r]
      BY <2>2 DEF Reserve
    <3> HIDE DEF r
    <3> QED BY <1>0, <3>1, <3>2, ActChanged
  <2> QED BY <2>1, <2>2
<1>1. TypeOK'
  <2>1. SlotType' /\ QueueType'
    BY <1>0, <1>a, Consts DEF IInv, SlotInv, AbortInv, Holding, ClosingInv,
       SlotType, QueueType, ActType, ActRecord, TurnType, Reserve, Fresh, queueVars,
       turnVars, taskVars, logVars
  <2>2. TurnType' /\ LogType'
    BY <1>0, <1>a, Consts DEF IInv, AbortInv, Aborting, Holding, SlotType,
       QueueType, TurnType, TaskType, ActType, ActRecord, LogType, Reserve, Fresh,
       queueVars, turnVars, taskVars, logVars
  <2>3. TaskType'
    BY <1>0, <1>a, Consts DEF IInv, AbortInv, Aborting, ClosingInv, SlotType,
       QueueType, TurnType, TaskType, ActType, ActRecord, Places, Running, Terminal,
       Reserve, Fresh, queueVars, turnVars, taskVars, logVars
  <2> QED BY <1>a, <2>1, <2>2, <2>3 DEF TypeOK
<1> QED BY <1>0, <1>1, <1>a, Consts, ActorMoves DEF IInv, AbortInv, Holding,
   SlotInv, SlotType, Reserve, Fresh, queueVars, turnVars, taskVars, logVars

LEMMA GatherInv ==
    ASSUME IInv, NEW a \in Actors, Gather(a)
    PROVE  IInv'
<1>0. SlotType /\ QueueType /\ TurnType /\ TaskType /\ ActType /\ LogType
  BY DEF IInv, TypeOK
<1>a. /\ ActType'
      /\ act'[a].pc = "attach"
      /\ \A b \in Actors \ {a} : act'[b] = act[b]
  <2>1. Takes \subseteq Items
    BY <1>0, Consts DEF SlotType, QueueType, Takes, TurnTakes
  <2> DEFINE r == [act[a] EXCEPT !.pc = "attach", !.found = Takes]
  <2>2. r \in ActRecord /\ r.pc = "attach"
    BY <1>0, <2>1 DEF ActType, ActRecord, Steps
  <2>3. act' = [act EXCEPT ![a] = r]
    BY DEF Gather
  <2> HIDE DEF r
  <2> QED BY <1>0, Consts, <2>2, <2>3, ActChanged
<1>1. TypeOK'
  <2>1. SlotType' /\ QueueType'
    BY <1>0, <1>a, Consts DEF IInv, SlotInv, AbortInv, Holding, ClosingInv,
       SlotType, QueueType, ActType, ActRecord, TurnType, Gather, GetPendingInput,
       Cleared, TurnTakes, Takes, turnVars, taskVars, logVars
  <2>2. TurnType' /\ LogType'
    BY <1>0, <1>a, Consts DEF IInv, AbortInv, Aborting, Holding, SlotType,
       QueueType, TurnType, TaskType, ActType, ActRecord, LogType, Gather,
       GetPendingInput, Cleared, TurnTakes, Takes, turnVars, taskVars, logVars
  <2>3. TaskType'
    BY <1>0, <1>a, Consts DEF IInv, AbortInv, Aborting, ClosingInv, SlotType,
       QueueType, TurnType, TaskType, ActType, ActRecord, Places, Running, Terminal,
       Gather, GetPendingInput, Cleared, TurnTakes, Takes, turnVars, taskVars,
       logVars
  <2> QED BY <1>a, <2>1, <2>2, <2>3 DEF TypeOK
<1> QED BY <1>0, <1>1, <1>a, Consts, ActorMoves DEF IInv, AbortInv, Holding,
   SlotInv, SlotType, Gather, GetPendingInput, Cleared, TurnTakes, Takes, turnVars,
   taskVars, logVars

LEMMA AttachInv ==
    ASSUME IInv, NEW a \in Actors, Attach(a)
    PROVE  IInv'
<1>0. SlotType /\ QueueType /\ TurnType /\ TaskType /\ ActType /\ LogType
  BY DEF IInv, TypeOK
<1>a. /\ ActType'
      /\ act'[a].pc = "install"
      /\ \A b \in Actors \ {a} : act'[b] = act[b]
  <2> DEFINE r == [act[a] EXCEPT !.pc = "install", !.found = {}]
  <2>1. r \in ActRecord /\ r.pc = "install"
    BY <1>0 DEF ActType, ActRecord, Steps
  <2>2. act' = [act EXCEPT ![a] = r]
    BY DEF Attach
  <2> HIDE DEF r
  <2> QED BY <1>0, Consts, <2>1, <2>2, ActChanged
<1>1. TypeOK'
  <2>1. SlotType' /\ QueueType'
    BY <1>0, <1>a, Consts DEF IInv, SlotInv, AbortInv, Holding, ClosingInv,
       SlotType, QueueType, ActType, ActRecord, TurnType, Attach, GetOrInsert,
       Fresh, turnVars, taskVars, logVars
  <2>2. TurnType' /\ LogType'
    BY <1>0, <1>a, Consts DEF IInv, AbortInv, Aborting, Holding, SlotType,
       QueueType, TurnType, TaskType, ActType, ActRecord, LogType, Attach,
       GetOrInsert, Fresh, turnVars, taskVars, logVars
  <2>3. TaskType'
    BY <1>0, <1>a, Consts DEF IInv, AbortInv, Aborting, ClosingInv, SlotType,
       QueueType, TurnType, TaskType, ActType, ActRecord, Places, Running, Terminal,
       Attach, GetOrInsert, Fresh, turnVars, taskVars, logVars
  <2> QED BY <1>a, <2>1, <2>2, <2>3 DEF TypeOK
<1> QED BY <1>0, <1>1, <1>a, Consts, ActorMoves DEF IInv, AbortInv, Holding,
   SlotInv, SlotType, Attach, GetOrInsert, Fresh, turnVars, taskVars, logVars

LEMMA InstallInv ==
    ASSUME IInv, NEW a \in Actors, Install(a)
    PROVE  IInv'
<1>0. SlotType /\ QueueType /\ TurnType /\ TaskType /\ ActType /\ LogType
  BY DEF IInv, TypeOK
<1>a. /\ ActType'
      /\ act'[a].pc = "idle"
      /\ \A b \in Actors \ {a} : act'[b] = act[b]
  BY <1>0, RestActor DEF Install
<1>1. TypeOK'
  <2>1. SlotType' /\ QueueType'
    BY <1>0, <1>a, Consts DEF IInv, SlotInv, AbortInv, Holding, ClosingInv,
       SlotType, QueueType, ActType, ActRecord, TurnType, Install, GetOrInsert,
       Fresh, queueVars
  <2>2. TurnType' /\ LogType'
    BY <1>0, <1>a, Consts DEF IInv, AbortInv, Aborting, Holding, SlotType,
       QueueType, TurnType, TaskType, ActType, ActRecord, LogType, Install,
       GetOrInsert, Fresh, queueVars
  <2>3. TaskType'
    BY <1>0, <1>a, Consts DEF IInv, AbortInv, Aborting, ClosingInv, SlotType,
       QueueType, TurnType, TaskType, ActType, ActRecord, Places, Running, Terminal,
       Install, GetOrInsert, Fresh, queueVars
  <2> QED BY <1>a, <2>1, <2>2, <2>3 DEF TypeOK
<1>2. SlotInv' /\ RunningIsActive'
  BY <1>0, <1>a, Consts DEF IInv, SlotType, TurnType, TaskType, ActType, ActRecord,
     SlotInv, RunningIsActive, AbortInv, Aborting, NewInv, Running, Install,
     GetOrInsert, Fresh, queueVars
<1>3. NewInv'
  BY <1>0, <1>a, Consts DEF IInv, SlotType, TurnType, TaskType, ActType, ActRecord,
     SlotInv, NewInv, AbortInv, Aborting, Running, Install, GetOrInsert, Fresh,
     queueVars
<1>4. HandInv' /\ EndInv'
  BY <1>0, <1>a, Consts DEF IInv, SlotType, TurnType, TaskType, ActType, ActRecord,
     SlotInv, NewInv, HandInv, EndInv, AbortInv, Aborting, Running, Terminal,
     Install, GetOrInsert, Fresh, queueVars
<1>5. AbortInv'
  <2>1. nturns + 1 \in Turns /\ nturns + 1 \notin cancelled
    BY <1>0, Consts DEF IInv, NewInv, TurnType, Install
  <2>2. \A b \in Actors : Aborting(b) =>
           act[b].turn \in Turns /\ act[b].turn # nturns + 1 /\ act[b].turn # slot.task
    BY <1>0, <2>1, Consts DEF IInv, AbortInv, SlotInv, TaskType
  <2> QED BY <1>0, <1>a, <2>2 DEF IInv, AbortInv, Aborting, Holding, Install
<1>6. ClosingInv'
  BY <1>0, <1>a, Consts DEF IInv, SlotType, TurnType, TaskType, ActType, ActRecord,
     SlotInv, NewInv, ClosingInv, Running, Install, GetOrInsert, Fresh, queueVars
<1> QED BY <1>1, <1>2, <1>3, <1>4, <1>5, <1>6 DEF IInv

LEMMA GuardianAbortsInv ==
    ASSUME IInv, GuardianAborts
    PROVE  IInv'
<1>0. SlotType /\ QueueType /\ TurnType /\ TaskType /\ ActType /\ LogType
  BY DEF IInv, TypeOK
<1>a. /\ ActType'
      /\ act'[Guardian].pc = "wait" /\ act'[Guardian].obj = slot.obj
      /\ act'[Guardian].turn = slot.task /\ act'[Guardian].then = "check"
      /\ \A b \in Actors \ {Guardian} : act'[b] = act[b]
  <2> DEFINE r == [Resting EXCEPT !.pc = "wait", !.obj = slot.obj, !.turn = slot.task, !.then = "check"]
  <2>1. /\ r \in ActRecord
        /\ r.pc = "wait" /\ r.obj = slot.obj
        /\ r.turn = slot.task /\ r.then = "check"
    BY <1>0, Consts DEF ActType, ActRecord, Steps, SlotType, Resting
  <2>2. act' = [act EXCEPT ![Guardian] = r]
    BY DEF GuardianAborts
  <2> HIDE DEF r
  <2> QED BY <1>0, Consts, <2>1, <2>2, ActChanged
<1>1. TypeOK'
  <2>1. SlotType' /\ QueueType'
    BY <1>0, <1>a, Consts DEF IInv, SlotInv, AbortInv, Holding, ClosingInv,
       SlotType, QueueType, ActType, ActRecord, TurnType, GuardianAborts, Twist,
       Empty, queueVars, turnVars, logVars
  <2>2. TurnType' /\ LogType'
    BY <1>0, <1>a, Consts DEF IInv, AbortInv, Aborting, Holding, SlotType,
       QueueType, TurnType, TaskType, ActType, ActRecord, LogType, GuardianAborts,
       Twist, Empty, queueVars, turnVars, logVars
  <2>3. TaskType'
    BY <1>0, <1>a, Consts DEF IInv, AbortInv, Aborting, ClosingInv, SlotType,
       QueueType, TurnType, TaskType, ActType, ActRecord, Places, Running, Terminal,
       GuardianAborts, Twist, Empty, queueVars, turnVars, logVars
  <2> QED BY <1>a, <2>1, <2>2, <2>3 DEF TypeOK
<1> QED BY <1>1, <1>a, Consts, AbortStarts DEF GuardianAborts, turnVars

-----------------------------------------------------------------------------
(* ... those of a task, ...                                                *)

LEMMA BeginInv ==
    ASSUME IInv, NEW t \in Turns, Begin(t)
    PROVE  IInv'
<1>0. SlotType /\ QueueType /\ TurnType /\ TaskType /\ ActType /\ LogType
  BY DEF IInv, TypeOK
<1>1. TypeOK'
  <2>1. SlotType' /\ QueueType'
    BY <1>0, Consts DEF IInv, SlotInv, AbortInv, Holding, ClosingInv, SlotType,
       QueueType, ActType, ActRecord, TurnType, Begin, Move, At, Regular, queueVars,
       turnVars
  <2>2. TurnType' /\ LogType'
    BY <1>0, Consts DEF IInv, AbortInv, Aborting, Holding, SlotType, QueueType,
       TurnType, TaskType, ActType, ActRecord, LogType, Begin, Move, At, Regular,
       queueVars, turnVars
  <2>3. TaskType'
    BY <1>0, Consts DEF IInv, AbortInv, Aborting, ClosingInv, SlotType, QueueType,
       TurnType, TaskType, ActType, ActRecord, Places, Running, Terminal, Begin,
       Move, At, Regular, queueVars, turnVars
  <2>4. ActType'
    BY <1>0, Consts DEF ActType, ActRecord, Steps, SlotType, Begin, Move, At,
       Regular, queueVars, turnVars
  <2> QED BY <2>1, <2>2, <2>3, <2>4 DEF TypeOK
<1> QED BY <1>0, <1>1, TaskMoves DEF IInv, HandInv, EndInv, TaskType, Running,
   Terminal, Begin, Move, At, Regular, queueVars, turnVars

LEMMA BeginFailsInv ==
    ASSUME IInv, NEW t \in Turns, BeginFails(t)
    PROVE  IInv'
<1>0. SlotType /\ QueueType /\ TurnType /\ TaskType /\ ActType /\ LogType
  BY DEF IInv, TypeOK
<1>1. TypeOK'
  <2>1. SlotType' /\ QueueType'
    BY <1>0, Consts DEF IInv, SlotInv, AbortInv, Holding, ClosingInv, SlotType,
       QueueType, ActType, ActRecord, TurnType, BeginFails, Move, At, Regular,
       Twist, queueVars, turnVars
  <2>2. TurnType' /\ LogType'
    BY <1>0, Consts DEF IInv, AbortInv, Aborting, Holding, SlotType, QueueType,
       TurnType, TaskType, ActType, ActRecord, LogType, BeginFails, Move, At,
       Regular, Twist, queueVars, turnVars
  <2>3. TaskType'
    BY <1>0, Consts DEF IInv, AbortInv, Aborting, ClosingInv, SlotType, QueueType,
       TurnType, TaskType, ActType, ActRecord, Places, Running, Terminal,
       BeginFails, Move, At, Regular, Twist, queueVars, turnVars
  <2>4. ActType'
    BY <1>0, Consts DEF ActType, ActRecord, Steps, SlotType, BeginFails, Move, At,
       Regular, Twist, queueVars, turnVars
  <2> QED BY <2>1, <2>2, <2>3, <2>4 DEF TypeOK
<1> QED BY <1>0, <1>1, TaskMoves DEF IInv, HandInv, EndInv, TaskType, Running,
   Terminal, BeginFails, Move, At, Regular, Twist, queueVars, turnVars

LEMMA DrainInv ==
    ASSUME IInv, NEW t \in Turns, Drain(t)
    PROVE  IInv'
<1>0. SlotType /\ QueueType /\ TurnType /\ TaskType /\ ActType /\ LogType
  BY DEF IInv, TypeOK
<1>1. TypeOK'
  <2>1. SlotType' /\ QueueType'
    BY <1>0, Consts DEF IInv, SlotInv, AbortInv, Holding, ClosingInv, SlotType,
       QueueType, ActType, ActRecord, TurnType, Drain, Move, At, GetPendingInput,
       Cleared, TurnTakes, Takes, turnVars, logVars
  <2>2. TurnType' /\ LogType'
    BY <1>0, Consts DEF IInv, AbortInv, Aborting, Holding, SlotType, QueueType,
       TurnType, TaskType, ActType, ActRecord, LogType, Drain, Move, At,
       GetPendingInput, Cleared, TurnTakes, Takes, turnVars, logVars
  <2>3. TaskType'
    BY <1>0, Consts DEF IInv, AbortInv, Aborting, ClosingInv, SlotType, QueueType,
       TurnType, TaskType, ActType, ActRecord, Places, Running, Terminal, Drain,
       Move, At, GetPendingInput, Cleared, TurnTakes, Takes, turnVars, logVars
  <2>4. ActType'
    BY <1>0, Consts DEF ActType, ActRecord, Steps, SlotType, Drain, Move, At,
       GetPendingInput, Cleared, TurnTakes, Takes, turnVars, logVars
  <2> QED BY <2>1, <2>2, <2>3, <2>4 DEF TypeOK
<1> QED BY <1>0, <1>1, TaskMoves DEF IInv, HandInv, EndInv, TaskType, Running,
   Terminal, Drain, Move, At, GetPendingInput, Cleared, TurnTakes, Takes, turnVars,
   logVars

LEMMA RecordInv ==
    ASSUME IInv, NEW t \in Turns, Record(t)
    PROVE  IInv'
<1>0. SlotType /\ QueueType /\ TurnType /\ TaskType /\ ActType /\ LogType
  BY DEF IInv, TypeOK
<1>1. TypeOK'
  <2>1. SlotType' /\ QueueType'
    BY <1>0, Consts DEF IInv, SlotInv, AbortInv, Holding, ClosingInv, SlotType,
       QueueType, ActType, ActRecord, TurnType, Record, Move, At, queueVars,
       turnVars
  <2>2. TurnType' /\ LogType'
    BY <1>0, Consts DEF IInv, AbortInv, Aborting, Holding, SlotType, QueueType,
       TurnType, TaskType, ActType, ActRecord, LogType, Record, Move, At, queueVars,
       turnVars
  <2>3. TaskType'
    BY <1>0, Consts DEF IInv, AbortInv, Aborting, ClosingInv, SlotType, QueueType,
       TurnType, TaskType, ActType, ActRecord, Places, Running, Terminal, Record,
       Move, At, queueVars, turnVars
  <2>4. ActType'
    BY <1>0, Consts DEF ActType, ActRecord, Steps, SlotType, Record, Move, At,
       queueVars, turnVars
  <2> QED BY <2>1, <2>2, <2>3, <2>4 DEF TypeOK
<1> QED BY <1>0, <1>1, TaskMoves DEF IInv, HandInv, EndInv, TaskType, Running,
   Terminal, Record, Move, At, queueVars, turnVars

LEMMA FollowUpInv ==
    ASSUME IInv, NEW t \in Turns, FollowUp(t)
    PROVE  IInv'
<1>0. SlotType /\ QueueType /\ TurnType /\ TaskType /\ ActType /\ LogType
  BY DEF IInv, TypeOK
<1>1. TypeOK'
  <2>1. SlotType' /\ QueueType'
    BY <1>0, Consts DEF IInv, SlotInv, AbortInv, Holding, ClosingInv, SlotType,
       QueueType, ActType, ActRecord, TurnType, FollowUp, Move, At, Regular, Twist,
       turnVars, logVars
  <2>2. TurnType' /\ LogType'
    BY <1>0, Consts DEF IInv, AbortInv, Aborting, Holding, SlotType, QueueType,
       TurnType, TaskType, ActType, ActRecord, LogType, FollowUp, Move, At, Regular,
       Twist, turnVars, logVars
  <2>3. TaskType'
    BY <1>0, Consts DEF IInv, AbortInv, Aborting, ClosingInv, SlotType, QueueType,
       TurnType, TaskType, ActType, ActRecord, Places, Running, Terminal, FollowUp,
       Move, At, Regular, Twist, turnVars, logVars
  <2>4. ActType'
    BY <1>0, Consts DEF ActType, ActRecord, Steps, SlotType, FollowUp, Move, At,
       Regular, Twist, turnVars, logVars
  <2> QED BY <2>1, <2>2, <2>3, <2>4 DEF TypeOK
<1> QED BY <1>0, <1>1, TaskMoves DEF IInv, HandInv, EndInv, TaskType, Running,
   Terminal, FollowUp, Move, At, Regular, Twist, turnVars, logVars

LEMMA AnswerInv ==
    ASSUME IInv, NEW t \in Turns, Answer(t)
    PROVE  IInv'
<1>0. SlotType /\ QueueType /\ TurnType /\ TaskType /\ ActType /\ LogType
  BY DEF IInv, TypeOK
<1>1. TypeOK'
  <2>1. SlotType' /\ QueueType'
    BY <1>0, Consts, ZenonT(40) DEF IInv, SlotInv, AbortInv, Holding, ClosingInv, SlotType,
       QueueType, ActType, ActRecord, TurnType, Answer, Move, At, Regular, turnVars,
       logVars
  <2>2. TurnType' /\ LogType'
    BY <1>0, Consts DEF IInv, AbortInv, Aborting, Holding, SlotType, QueueType,
       TurnType, TaskType, ActType, ActRecord, LogType, Answer, Move, At, Regular,
       turnVars, logVars
  <2>3. TaskType'
    BY <1>0, Consts DEF IInv, AbortInv, Aborting, ClosingInv, SlotType, QueueType,
       TurnType, TaskType, ActType, ActRecord, Places, Running, Terminal, Answer,
       Move, At, Regular, turnVars, logVars
  <2>4. ActType'
    BY <1>0, Consts DEF ActType, ActRecord, Steps, SlotType, Answer, Move, At,
       Regular, turnVars, logVars
  <2> QED BY <2>1, <2>2, <2>3, <2>4 DEF TypeOK
<1> QED BY <1>0, <1>1, TaskMoves DEF IInv, HandInv, EndInv, TaskType, Running,
   Terminal, Answer, Move, At, Regular, turnVars, logVars

LEMMA SampleFailsInv ==
    ASSUME IInv, NEW t \in Turns, SampleFails(t)
    PROVE  IInv'
<1>0. SlotType /\ QueueType /\ TurnType /\ TaskType /\ ActType /\ LogType
  BY DEF IInv, TypeOK
<1>1. TypeOK'
  <2>1. SlotType' /\ QueueType'
    BY <1>0, Consts DEF IInv, SlotInv, AbortInv, Holding, ClosingInv, SlotType,
       QueueType, ActType, ActRecord, TurnType, SampleFails, Move, At, Regular,
       Twist, queueVars, turnVars, logVars
  <2>2. TurnType' /\ LogType'
    BY <1>0, Consts DEF IInv, AbortInv, Aborting, Holding, SlotType, QueueType,
       TurnType, TaskType, ActType, ActRecord, LogType, SampleFails, Move, At,
       Regular, Twist, queueVars, turnVars, logVars
  <2>3. TaskType'
    BY <1>0, Consts DEF IInv, AbortInv, Aborting, ClosingInv, SlotType, QueueType,
       TurnType, TaskType, ActType, ActRecord, Places, Running, Terminal,
       SampleFails, Move, At, Regular, Twist, queueVars, turnVars, logVars
  <2>4. ActType'
    BY <1>0, Consts DEF ActType, ActRecord, Steps, SlotType, SampleFails, Move, At,
       Regular, Twist, queueVars, turnVars, logVars
  <2> QED BY <2>1, <2>2, <2>3, <2>4 DEF TypeOK
<1> QED BY <1>0, <1>1, TaskMoves DEF IInv, HandInv, EndInv, TaskType, Running,
   Terminal, SampleFails, Move, At, Regular, Twist, queueVars, turnVars, logVars

LEMMA SettleInv ==
    ASSUME IInv, NEW t \in Turns, Settle(t)
    PROVE  IInv'
<1>0. SlotType /\ QueueType /\ TurnType /\ TaskType /\ ActType /\ LogType
  BY DEF IInv, TypeOK
<1>1. TypeOK'
  <2>1. SlotType' /\ QueueType'
    BY <1>0, Consts DEF IInv, SlotInv, AbortInv, Holding, ClosingInv, SlotType,
       QueueType, ActType, ActRecord, TurnType, Settle, Twist, Move, At, HasPendingInput,
       Takes, TurnTakes, queueVars, turnVars, logVars
  <2>2. TurnType' /\ LogType'
    BY <1>0, Consts DEF IInv, AbortInv, Aborting, Holding, SlotType, QueueType,
       TurnType, TaskType, ActType, ActRecord, LogType, Settle, Twist, Move, At,
       HasPendingInput, Takes, TurnTakes, queueVars, turnVars, logVars
  <2>3. TaskType'
    BY <1>0, Consts DEF IInv, AbortInv, Aborting, ClosingInv, SlotType, QueueType,
       TurnType, TaskType, ActType, ActRecord, Places, Running, Terminal, Settle, Twist,
       Move, At, HasPendingInput, Takes, TurnTakes, queueVars, turnVars, logVars
  <2>4. ActType'
    BY <1>0, Consts DEF ActType, ActRecord, Steps, SlotType, Settle, Twist, Move, At,
       HasPendingInput, Takes, TurnTakes, queueVars, turnVars, logVars
  <2> QED BY <2>1, <2>2, <2>3, <2>4 DEF TypeOK
<1> QED BY <1>0, <1>1, TaskMoves DEF IInv, HandInv, EndInv, TaskType, Running,
   Terminal, Settle, Twist, Twist, Move, At, HasPendingInput, Takes, TurnTakes, queueVars,
   turnVars, logVars

LEMMA QuitInv ==
    ASSUME IInv, NEW t \in Turns, Quit(t)
    PROVE  IInv'
<1>0. SlotType /\ QueueType /\ TurnType /\ TaskType /\ ActType /\ LogType
  BY DEF IInv, TypeOK
<1>1. TypeOK'
  <2>1. SlotType' /\ QueueType'
    BY <1>0, Consts DEF IInv, SlotInv, AbortInv, Holding, ClosingInv, SlotType,
       QueueType, ActType, ActRecord, TurnType, Quit, Move, queueVars, turnVars,
       logVars
  <2>2. TurnType' /\ LogType'
    BY <1>0, Consts DEF IInv, AbortInv, Aborting, Holding, SlotType, QueueType,
       TurnType, TaskType, ActType, ActRecord, LogType, Quit, Move, queueVars,
       turnVars, logVars
  <2>3. TaskType'
    BY <1>0, Consts DEF IInv, AbortInv, Aborting, ClosingInv, SlotType, QueueType,
       TurnType, TaskType, ActType, ActRecord, Places, Running, Terminal, Quit,
       Move, queueVars, turnVars, logVars
  <2>4. ActType'
    BY <1>0, Consts DEF ActType, ActRecord, Steps, SlotType, Quit, Move, queueVars,
       turnVars, logVars
  <2> QED BY <2>1, <2>2, <2>3, <2>4 DEF TypeOK
<1>2. SlotInv' /\ RunningIsActive'
  BY <1>0, Consts DEF IInv, SlotType, TurnType, TaskType, ActType, ActRecord,
     SlotInv, RunningIsActive, AbortInv, Aborting, NewInv, Running, Quit, Move,
     queueVars, turnVars, logVars
<1>3. NewInv'
  BY <1>0, Consts DEF IInv, SlotType, TurnType, TaskType, ActType, ActRecord,
     SlotInv, NewInv, AbortInv, Aborting, Running, Quit, Move, queueVars, turnVars,
     logVars
<1>4. HandInv' /\ EndInv'
  BY <1>0, Consts DEF IInv, SlotType, TurnType, TaskType, ActType, ActRecord,
     SlotInv, NewInv, HandInv, EndInv, AbortInv, Aborting, Running, Terminal, Quit,
     Move, queueVars, turnVars, logVars
<1>5. AbortInv'
  BY <1>0, Consts DEF IInv, SlotType, TurnType, TaskType, ActType, ActRecord,
     SlotInv, RunningIsActive, NewInv, EndInv, AbortInv, Aborting, Holding,
     ClosingInv, Running, Terminal, Quit, Move, queueVars, turnVars, logVars
<1>6. ClosingInv'
  BY <1>0, Consts DEF IInv, SlotType, TurnType, TaskType, ActType, ActRecord,
     SlotInv, NewInv, ClosingInv, Running, Quit, Move, queueVars, turnVars, logVars
<1> QED BY <1>1, <1>2, <1>3, <1>4, <1>5, <1>6 DEF IInv

LEMMA FinishInv ==
    ASSUME IInv, NEW t \in Turns, Finish(t)
    PROVE  IInv'
<1>0. SlotType /\ QueueType /\ TurnType /\ TaskType /\ ActType /\ LogType
  BY DEF IInv, TypeOK
<1>b. slot.task = t /\ slot.obj # None /\ slot.task # None
  BY Consts DEF IInv, RunningIsActive, SlotInv, Finish, At, Running
<1>c. /\ slot' = [slot EXCEPT !.task = None] /\ pc' = [pc EXCEPT ![t] = "collect"]
      /\ act' = [act EXCEPT ![t].obj = slot.obj] /\ pc[t] = "returned" /\ t \notin cancelled
      /\ UNCHANGED <<queueVars, turnVars, hand, cancelled, ev, todo, logVars, swept, twists>>
  BY <1>b DEF Finish, Move, At
<1>a. /\ ActType'
      /\ act'[t].pc = act[t].pc /\ act'[t].obj = slot.obj
      /\ \A b \in Actors \ {t} : act'[b] = act[b]
  <2> DEFINE r == [act[t] EXCEPT !.obj = slot.obj]
  <2>1. r \in ActRecord /\ r.pc = act[t].pc /\ r.obj = slot.obj
    BY <1>0, Consts, SMTT(30) DEF ActType, ActRecord, SlotType
  <2>2. act' = [act EXCEPT ![t] = r]
    BY <1>c
  <2> HIDE DEF r
  <2> QED BY <1>0, Consts, <2>1, <2>2, ActChanged
<1>1. TypeOK'
  BY <1>0, <1>a, <1>c, Consts DEF TypeOK, SlotType, QueueType, TurnType, TaskType, Places,
     LogType, queueVars, turnVars, logVars
<1>2. SlotInv' /\ RunningIsActive'
  BY <1>0, <1>b, <1>c DEF IInv, SlotInv, RunningIsActive, SlotType, TaskType, Running
<1>3. NewInv' /\ HandInv' /\ EndInv'
  BY <1>0, <1>c, Consts DEF IInv, NewInv, HandInv, EndInv, TaskType, TurnType, turnVars
<1>4. AbortInv'
  <2>1. act[t].pc = "idle"
    BY <1>c DEF IInv, ClosingInv
  <2>2. \A b \in Actors : Aborting(b) => act[b].turn \in Turns \ {t}
    BY <1>0, <1>c DEF IInv, AbortInv, TaskType
  <2> QED BY <1>0, <1>a, <1>c, <2>1, <2>2 DEF IInv, AbortInv, Aborting, Holding, TaskType
<1>5. ClosingInv'
  BY <1>0, <1>a, <1>b, <1>c, Consts DEF IInv, ClosingInv, TaskType
<1> QED BY <1>1, <1>2, <1>3, <1>4, <1>5 DEF IInv

LEMMA CollectInv ==
    ASSUME IInv, NEW t \in Turns, Collect(t)
    PROVE  IInv'
<1>0. SlotType /\ QueueType /\ TurnType /\ TaskType /\ ActType /\ LogType
  BY DEF IInv, TypeOK
<1>1. TypeOK'
  <2>1. SlotType' /\ QueueType'
    BY <1>0, Consts DEF IInv, SlotInv, AbortInv, Holding, ClosingInv, SlotType,
       QueueType, ActType, ActRecord, TurnType, Collect, Move, At, Cleared,
       turnVars, logVars
  <2>2. TurnType' /\ LogType'
    BY <1>0, Consts DEF IInv, AbortInv, Aborting, Holding, SlotType, QueueType,
       TurnType, TaskType, ActType, ActRecord, LogType, Collect, Move, At, Cleared,
       turnVars, logVars
  <2>3. TaskType'
    BY <1>0, Consts DEF IInv, AbortInv, Aborting, ClosingInv, SlotType, QueueType,
       TurnType, TaskType, ActType, ActRecord, Places, Running, Terminal, Collect,
       Move, At, Cleared, turnVars, logVars
  <2>4. ActType'
    BY <1>0, Consts DEF ActType, ActRecord, Steps, SlotType, Collect, Move, At,
       Cleared, turnVars, logVars
  <2> QED BY <2>1, <2>2, <2>3, <2>4 DEF TypeOK
<1>2. SlotInv' /\ RunningIsActive'
  BY <1>0, Consts DEF IInv, SlotType, TurnType, TaskType, ActType, ActRecord,
     SlotInv, RunningIsActive, AbortInv, Aborting, NewInv, Running, Collect, Move,
     At, Cleared, turnVars, logVars
<1>3. NewInv'
  BY <1>0, Consts DEF IInv, SlotType, TurnType, TaskType, ActType, ActRecord,
     SlotInv, NewInv, AbortInv, Aborting, Running, Collect, Move, At, Cleared,
     turnVars, logVars
<1>4. HandInv' /\ EndInv'
  <2>1. HandInv'
    BY <1>0 DEF IInv, HandInv, TaskType, Collect, Move
  <2>2. EndInv'
    BY <1>0 DEF IInv, EndInv, TaskType, Collect, Move, At
  <2> QED BY <2>1, <2>2
<1>5. AbortInv'
  BY <1>0, Consts DEF IInv, SlotType, TurnType, TaskType, ActType, ActRecord,
     SlotInv, RunningIsActive, NewInv, EndInv, AbortInv, Aborting, Holding,
     ClosingInv, Running, Terminal, Collect, Move, At, Cleared, turnVars, logVars
<1>6. ClosingInv'
  BY <1>0, Consts DEF IInv, SlotType, TurnType, TaskType, ActType, ActRecord,
     SlotInv, NewInv, ClosingInv, Running, Collect, Move, At, Cleared, turnVars,
     logVars
<1> QED BY <1>1, <1>2, <1>3, <1>4, <1>5, <1>6 DEF IInv

LEMMA ReportCompleteInv ==
    ASSUME IInv, NEW t \in Turns, ReportComplete(t)
    PROVE  IInv'
<1>0. SlotType /\ QueueType /\ TurnType /\ TaskType /\ ActType /\ LogType
  BY DEF IInv, TypeOK
<1>1. TypeOK'
  <2>1. SlotType' /\ QueueType'
    BY <1>0, Consts DEF IInv, SlotInv, AbortInv, Holding, ClosingInv, SlotType,
       QueueType, ActType, ActRecord, TurnType, ReportComplete, Move, At, queueVars,
       turnVars
  <2>2. TurnType' /\ LogType'
    BY <1>0, Consts DEF IInv, AbortInv, Aborting, Holding, SlotType, QueueType,
       TurnType, TaskType, ActType, ActRecord, LogType, ReportComplete, Move, At,
       queueVars, turnVars
  <2>3. TaskType'
    BY <1>0, Consts DEF IInv, AbortInv, Aborting, ClosingInv, SlotType, QueueType,
       TurnType, TaskType, ActType, ActRecord, Places, Running, Terminal,
       ReportComplete, Move, At, queueVars, turnVars
  <2>4. ActType'
    BY <1>0, Consts DEF ActType, ActRecord, Steps, SlotType, ReportComplete, Move,
       At, queueVars, turnVars
  <2> QED BY <2>1, <2>2, <2>3, <2>4 DEF TypeOK
<1>2. SlotInv' /\ RunningIsActive'
  BY <1>0, Consts DEF IInv, SlotType, TurnType, TaskType, ActType, ActRecord,
     SlotInv, RunningIsActive, AbortInv, Aborting, NewInv, Running, ReportComplete,
     Move, At, queueVars, turnVars
<1>3. NewInv'
  BY <1>0, Consts DEF IInv, SlotType, TurnType, TaskType, ActType, ActRecord,
     SlotInv, NewInv, AbortInv, Aborting, Running, ReportComplete, Move, At,
     queueVars, turnVars
<1>4. HandInv' /\ EndInv'
  BY <1>0, Consts DEF IInv, SlotType, TurnType, TaskType, ActType, ActRecord,
     SlotInv, NewInv, HandInv, EndInv, AbortInv, Aborting, Running, Terminal,
     ReportComplete, Move, At, queueVars, turnVars
<1>5. AbortInv'
  BY <1>0, Consts DEF IInv, SlotType, TurnType, TaskType, ActType, ActRecord,
     SlotInv, RunningIsActive, NewInv, EndInv, AbortInv, Aborting, Holding,
     ClosingInv, Running, Terminal, ReportComplete, Move, At, queueVars, turnVars
<1>6. ClosingInv'
  BY <1>0, Consts DEF IInv, SlotType, TurnType, TaskType, ActType, ActRecord,
     SlotInv, NewInv, ClosingInv, Running, ReportComplete, Move, At, queueVars,
     turnVars
<1> QED BY <1>1, <1>2, <1>3, <1>4, <1>5, <1>6 DEF IInv

LEMMA ReleaseInv ==
    ASSUME IInv, NEW t \in Turns, Release(t)
    PROVE  IInv'
<1>0. SlotType /\ QueueType /\ TurnType /\ TaskType /\ ActType /\ LogType
  BY DEF IInv, TypeOK
<1>a. /\ ActType'
      /\ act'[t].pc \in {"idle", "check"}
      /\ \A b \in Actors \ {t} : act'[b] = act[b]
  <2> DEFINE s == IF act[t].obj = slot.obj /\ slot.task = None THEN "check" ELSE "idle"
             r == [Resting EXCEPT !.pc = s]
  <2>1. r \in ActRecord /\ r.pc \in {"idle", "check"}
    BY Consts DEF Resting, ActRecord, Steps
  <2>2. act' = [act EXCEPT ![t] = r]
    BY DEF Release
  <2> HIDE DEF r
  <2> QED BY <1>0, Consts, <2>1, <2>2, ActChanged
<1>1. TypeOK'
  <2>1. SlotType'
    BY <1>0 DEF SlotType, Release, Empty
  <2>4. QueueType'
    BY <1>0, Consts DEF QueueType, Release, Cleared
  <2>2. TurnType' /\ LogType'
    BY <1>0, <1>a, Consts DEF IInv, AbortInv, Aborting, Holding, SlotType,
       QueueType, TurnType, TaskType, ActType, ActRecord, LogType, Release, Move,
       At, Cleared, Empty, turnVars, logVars
  <2>3. TaskType'
    BY <1>0, <1>a, Consts DEF IInv, AbortInv, Aborting, ClosingInv, SlotType,
       QueueType, TurnType, TaskType, ActType, ActRecord, Places, Running, Terminal,
       Release, Move, At, Cleared, Empty, turnVars, logVars
  <2> QED BY <1>a, <2>1, <2>2, <2>3, <2>4 DEF TypeOK
<1>2. SlotInv' /\ RunningIsActive'
  BY <1>0, <1>a, Consts DEF IInv, SlotType, TurnType, TaskType, ActType, ActRecord,
     SlotInv, RunningIsActive, AbortInv, Aborting, NewInv, Running, Release, Move,
     At, Cleared, Empty, turnVars, logVars
<1>3. NewInv'
  BY <1>0, <1>a, Consts DEF IInv, SlotType, TurnType, TaskType, ActType, ActRecord,
     SlotInv, NewInv, AbortInv, Aborting, Running, Release, Move, At, Cleared,
     Empty, turnVars, logVars
<1>4. HandInv' /\ EndInv'
  BY <1>0, <1>a, Consts DEF IInv, SlotType, TurnType, TaskType, ActType, ActRecord,
     SlotInv, NewInv, HandInv, EndInv, AbortInv, Aborting, Running, Terminal,
     Release, Move, At, Cleared, Empty, turnVars, logVars
<1>5. AbortInv'
  BY <1>0, <1>a, Consts DEF IInv, SlotType, TurnType, TaskType, ActType, ActRecord,
     SlotInv, RunningIsActive, NewInv, EndInv, AbortInv, Aborting, Holding,
     ClosingInv, Running, Terminal, Release, Move, At, Cleared, Empty, turnVars,
     logVars
<1>6. ClosingInv'
  BY <1>0, <1>a, Consts DEF IInv, SlotType, TurnType, TaskType, ActType, ActRecord,
     SlotInv, NewInv, ClosingInv, Running, Release, Move, At, Cleared, Empty,
     turnVars, logVars
<1> QED BY <1>1, <1>2, <1>3, <1>4, <1>5, <1>6 DEF IInv

-----------------------------------------------------------------------------
(* ... and those of the clients.                                           *)

LEMMA SteerUserInputInv ==
    ASSUME IInv, NEW c \in Users, SteerUserInput(c)
    PROVE  IInv'
<1>0. SlotType /\ QueueType /\ TurnType /\ TaskType /\ ActType /\ LogType
  BY DEF IInv, TypeOK
<1>1. TypeOK'
  <2>1. SlotType' /\ QueueType'
    BY <1>0, Consts DEF IInv, SlotInv, AbortInv, Holding, ClosingInv, SlotType,
       QueueType, ActType, ActRecord, TurnType, SteerUserInput, Submit, Call,
       AcceptSteer, Extend, Steerable, turnVars, taskVars
  <2>2. TurnType' /\ LogType'
    BY <1>0, Consts DEF IInv, AbortInv, Aborting, Holding, SlotType, QueueType,
       TurnType, TaskType, ActType, ActRecord, LogType, SteerUserInput, Submit,
       Call, AcceptSteer, Extend, Steerable, turnVars, taskVars
  <2>3. TaskType'
    BY <1>0, Consts DEF IInv, AbortInv, Aborting, ClosingInv, SlotType, QueueType,
       TurnType, TaskType, ActType, ActRecord, Places, Running, Terminal,
       SteerUserInput, Submit, Call, AcceptSteer, Extend, Steerable, turnVars,
       taskVars
  <2>4. ActType'
    BY <1>0, Consts DEF ActType, ActRecord, Steps, SlotType, SteerUserInput, Submit,
       Call, AcceptSteer, Extend, Steerable, turnVars, taskVars
  <2> QED BY <2>1, <2>2, <2>3, <2>4 DEF TypeOK
<1> QED BY <1>1, CoreUnchanged DEF SteerUserInput, Submit, Call, AcceptSteer,
   Extend, Steerable, turnVars, taskVars

LEMMA RefuseUserInputInv ==
    ASSUME IInv, NEW c \in Users, RefuseUserInput(c)
    PROVE  IInv'
<1>0. SlotType /\ QueueType /\ TurnType /\ TaskType /\ ActType /\ LogType
  BY DEF IInv, TypeOK
<1>1. TypeOK'
  <2>1. SlotType' /\ QueueType'
    BY <1>0, Consts DEF IInv, SlotInv, AbortInv, Holding, ClosingInv, SlotType,
       QueueType, ActType, ActRecord, TurnType, RefuseUserInput, Submit, Call,
       Steerable, queueVars, turnVars, taskVars, logVars
  <2>2. TurnType' /\ LogType'
    BY <1>0, Consts DEF IInv, AbortInv, Aborting, Holding, SlotType, QueueType,
       TurnType, TaskType, ActType, ActRecord, LogType, RefuseUserInput, Submit,
       Call, Steerable, queueVars, turnVars, taskVars, logVars
  <2>3. TaskType'
    BY <1>0, Consts DEF IInv, AbortInv, Aborting, ClosingInv, SlotType, QueueType,
       TurnType, TaskType, ActType, ActRecord, Places, Running, Terminal,
       RefuseUserInput, Submit, Call, Steerable, queueVars, turnVars, taskVars,
       logVars
  <2>4. ActType'
    BY <1>0, Consts DEF ActType, ActRecord, Steps, SlotType, RefuseUserInput,
       Submit, Call, Steerable, queueVars, turnVars, taskVars, logVars
  <2> QED BY <2>1, <2>2, <2>3, <2>4 DEF TypeOK
<1> QED BY <1>1, CoreUnchanged DEF RefuseUserInput, Submit, Call, Steerable,
   queueVars, turnVars, taskVars, logVars

LEMMA StartUserTurnInv ==
    ASSUME IInv, NEW c \in Users, StartUserTurn(c)
    PROVE  IInv'
<1>0. SlotType /\ QueueType /\ TurnType /\ TaskType /\ ActType /\ LogType
  BY DEF IInv, TypeOK
<1>a. /\ ActType'
      /\ act'[Loop].pc = "take" /\ act'[Loop].then = "gather"
      /\ \A b \in Actors \ {Loop} : act'[b] = act[b]
  <2> DEFINE r == [Resting EXCEPT !.pc = "take", !.then = "gather", !.new = "regular", !.input = {c}]
  <2>1. r \in ActRecord /\ r.pc = "take" /\ r.then = "gather"
    BY <1>0, Consts DEF ActType, ActRecord, Steps, Resting
  <2>2. act' = [act EXCEPT ![Loop] = r]
    BY DEF StartUserTurn, SpawnTask
  <2> HIDE DEF r
  <2> QED BY <1>0, Consts, <2>1, <2>2, ActChanged
<1>1. TypeOK'
  <2>1. SlotType' /\ QueueType'
    BY <1>0, <1>a, Consts DEF IInv, SlotInv, AbortInv, Holding, ClosingInv,
       SlotType, QueueType, ActType, ActRecord, TurnType, StartUserTurn, SpawnTask,
       Submit, Call, queueVars, turnVars, taskVars, logVars
  <2>2. TurnType' /\ LogType'
    BY <1>0, <1>a, Consts DEF IInv, AbortInv, Aborting, Holding, SlotType,
       QueueType, TurnType, TaskType, ActType, ActRecord, LogType, StartUserTurn,
       SpawnTask, Submit, Call, queueVars, turnVars, taskVars, logVars
  <2>3. TaskType'
    BY <1>0, <1>a, Consts DEF IInv, AbortInv, Aborting, ClosingInv, SlotType,
       QueueType, TurnType, TaskType, ActType, ActRecord, Places, Running, Terminal,
       StartUserTurn, SpawnTask, Submit, Call, queueVars, turnVars, taskVars,
       logVars
  <2> QED BY <1>a, <2>1, <2>2, <2>3 DEF TypeOK
<1> QED BY <1>0, <1>1, <1>a, Consts, ActorMoves DEF IInv, AbortInv, Holding,
   SlotInv, SlotType, StartUserTurn, SpawnTask, Submit, Call, queueVars, turnVars,
   taskVars, logVars

LEMMA CompactInv ==
    ASSUME IInv, NEW c \in Compacts, Compact(c)
    PROVE  IInv'
<1>0. SlotType /\ QueueType /\ TurnType /\ TaskType /\ ActType /\ LogType
  BY DEF IInv, TypeOK
<1>a. /\ ActType'
      /\ act'[Loop].pc = "take" /\ act'[Loop].then = "gather"
      /\ \A b \in Actors \ {Loop} : act'[b] = act[b]
  <2> DEFINE r == [Resting EXCEPT !.pc = "take", !.then = "gather", !.new = "compact", !.input = {}]
  <2>1. r \in ActRecord /\ r.pc = "take" /\ r.then = "gather"
    BY <1>0, Consts DEF ActType, ActRecord, Steps, Resting
  <2>2. act' = [act EXCEPT ![Loop] = r]
    BY DEF Compact, SpawnTask
  <2> HIDE DEF r
  <2> QED BY <1>0, Consts, <2>1, <2>2, ActChanged
<1>1. TypeOK'
  <2>1. SlotType' /\ QueueType'
    BY <1>0, <1>a, Consts DEF IInv, SlotInv, AbortInv, Holding, ClosingInv,
       SlotType, QueueType, ActType, ActRecord, TurnType, Compact, SpawnTask,
       Submit, Call, queueVars, turnVars, taskVars, logVars
  <2>2. TurnType' /\ LogType'
    BY <1>0, <1>a, Consts DEF IInv, AbortInv, Aborting, Holding, SlotType,
       QueueType, TurnType, TaskType, ActType, ActRecord, LogType, Compact,
       SpawnTask, Submit, Call, queueVars, turnVars, taskVars, logVars
  <2>3. TaskType'
    BY <1>0, <1>a, Consts DEF IInv, AbortInv, Aborting, ClosingInv, SlotType,
       QueueType, TurnType, TaskType, ActType, ActRecord, Places, Running, Terminal,
       Compact, SpawnTask, Submit, Call, queueVars, turnVars, taskVars, logVars
  <2> QED BY <1>a, <2>1, <2>2, <2>3 DEF TypeOK
<1> QED BY <1>0, <1>1, <1>a, Consts, ActorMoves DEF IInv, AbortInv, Holding,
   SlotInv, SlotType, Compact, SpawnTask, Submit, Call, queueVars, turnVars,
   taskVars, logVars

LEMMA InterruptInv ==
    ASSUME IInv, NEW c \in Interrupts, Interrupt(c)
    PROVE  IInv'
<1>0. SlotType /\ QueueType /\ TurnType /\ TaskType /\ ActType /\ LogType
  BY DEF IInv, TypeOK
<1>a. /\ ActType'
      /\ act'[Loop].pc = "take" /\ act'[Loop].then = "check"
      /\ \A b \in Actors \ {Loop} : act'[b] = act[b]
  <2> DEFINE r == [Resting EXCEPT !.pc = "take", !.then = "check"]
  <2>1. r \in ActRecord /\ r.pc = "take" /\ r.then = "check"
    BY <1>0, Consts DEF ActType, ActRecord, Steps, Resting
  <2>2. act' = [act EXCEPT ![Loop] = r]
    BY DEF Interrupt
  <2> HIDE DEF r
  <2> QED BY <1>0, Consts, <2>1, <2>2, ActChanged
<1>1. TypeOK'
  <2>1. SlotType' /\ QueueType'
    BY <1>0, <1>a, Consts DEF IInv, SlotInv, AbortInv, Holding, ClosingInv,
       SlotType, QueueType, ActType, ActRecord, TurnType, Interrupt, Submit, Call,
       queueVars, turnVars, taskVars, logVars
  <2>2. TurnType' /\ LogType'
    BY <1>0, <1>a, Consts DEF IInv, AbortInv, Aborting, Holding, SlotType,
       QueueType, TurnType, TaskType, ActType, ActRecord, LogType, Interrupt,
       Submit, Call, queueVars, turnVars, taskVars, logVars
  <2>3. TaskType'
    BY <1>0, <1>a, Consts DEF IInv, AbortInv, Aborting, ClosingInv, SlotType,
       QueueType, TurnType, TaskType, ActType, ActRecord, Places, Running, Terminal,
       Interrupt, Submit, Call, queueVars, turnVars, taskVars, logVars
  <2> QED BY <1>a, <2>1, <2>2, <2>3 DEF TypeOK
<1> QED BY <1>0, <1>1, <1>a, Consts, ActorMoves DEF IInv, AbortInv, Holding,
   SlotInv, SlotType, Interrupt, Submit, Call, queueVars, turnVars, taskVars,
   logVars

LEMMA ReceiveMailInv ==
    ASSUME IInv, NEW c \in Mails, ReceiveMail(c)
    PROVE  IInv'
<1>0. SlotType /\ QueueType /\ TurnType /\ TaskType /\ ActType /\ LogType
  BY DEF IInv, TypeOK
<1>a. /\ ActType'
      /\ act'[Loop].pc \in {"idle", "check"}
      /\ \A b \in Actors \ {Loop} : act'[b] = act[b]
  <2>1. CASE c \in Trigger
    <3>1. Go(Loop, "check") /\ "check" \in Steps
      BY <2>1 DEF ReceiveMail, Steps
    <3> QED BY <1>0, <3>1, GoActor, Consts
  <2>2. CASE c \notin Trigger
    BY <1>0, <2>2, Consts DEF ReceiveMail, Submit, ActType
  <2> QED BY <2>1, <2>2
<1>1. TypeOK'
  <2>1. SlotType' /\ QueueType'
    BY <1>0, <1>a, Consts DEF IInv, SlotInv, AbortInv, Holding, ClosingInv,
       SlotType, QueueType, ActType, ActRecord, TurnType, ReceiveMail, Submit, Call,
       turnVars, taskVars, logVars
  <2>2. TurnType' /\ LogType'
    BY <1>0, <1>a, Consts DEF IInv, AbortInv, Aborting, Holding, SlotType,
       QueueType, TurnType, TaskType, ActType, ActRecord, LogType, ReceiveMail,
       Submit, Call, turnVars, taskVars, logVars
  <2>3. TaskType'
    BY <1>0, <1>a, Consts DEF IInv, AbortInv, Aborting, ClosingInv, SlotType,
       QueueType, TurnType, TaskType, ActType, ActRecord, Places, Running, Terminal,
       ReceiveMail, Submit, Call, turnVars, taskVars, logVars
  <2> QED BY <1>a, <2>1, <2>2, <2>3 DEF TypeOK
<1> QED BY <1>0, <1>1, <1>a, Consts, ActorMoves DEF IInv, AbortInv, Holding,
   SlotInv, SlotType, ReceiveMail, Submit, Call, turnVars, taskVars, logVars

LEMMA SteerInv ==
    ASSUME IInv, NEW c \in Steers, Steer(c)
    PROVE  IInv'
<1>0. SlotType /\ QueueType /\ TurnType /\ TaskType /\ ActType /\ LogType
  BY DEF IInv, TypeOK
<1>1. TypeOK'
  <2>1. SlotType' /\ QueueType'
    BY <1>0, Consts, ZenonT(40) DEF IInv, SlotInv, AbortInv, Holding, ClosingInv, SlotType,
       QueueType, ActType, ActRecord, TurnType, Steer, Call, AcceptSteer, Extend,
       Steerable, turnVars, taskVars
  <2>2. TurnType' /\ LogType'
    BY <1>0, Consts DEF IInv, AbortInv, Aborting, Holding, SlotType, QueueType,
       TurnType, TaskType, ActType, ActRecord, LogType, Steer, Call, AcceptSteer,
       Extend, Steerable, turnVars, taskVars
  <2>3. TaskType'
    BY <1>0, Consts DEF IInv, AbortInv, Aborting, ClosingInv, SlotType, QueueType,
       TurnType, TaskType, ActType, ActRecord, Places, Running, Terminal, Steer,
       Call, AcceptSteer, Extend, Steerable, turnVars, taskVars
  <2>4. ActType'
    BY <1>0, Consts DEF ActType, ActRecord, Steps, SlotType, Steer, Call,
       AcceptSteer, Extend, Steerable, turnVars, taskVars
  <2> QED BY <2>1, <2>2, <2>3, <2>4 DEF TypeOK
<1> QED BY <1>1, CoreUnchanged DEF Steer, Call, AcceptSteer, Extend, Steerable,
   turnVars, taskVars

LEMMA InjectInv ==
    ASSUME IInv, NEW c \in Injects, Inject(c)
    PROVE  IInv'
<1>0. SlotType /\ QueueType /\ TurnType /\ TaskType /\ ActType /\ LogType
  BY DEF IInv, TypeOK
<1>1. TypeOK'
  <2>1. SlotType' /\ QueueType'
    <3>1. CASE slot.obj # None
      <4>1. Extend(slot.obj, {c}) /\ UNCHANGED slot
        BY <3>1 DEF Inject
      <4>2. slot.obj \in Objs /\ {c} \subseteq Items
        BY <1>0, <3>1, Consts DEF SlotType
      <4> QED BY <1>0, <4>1, <4>2 DEF SlotType, QueueType, Extend
    <3>2. CASE slot.obj = None
      BY <1>0, <3>2 DEF SlotType, QueueType, Inject, queueVars
    <3> QED BY <3>1, <3>2
  <2>2. TurnType' /\ LogType'
    BY <1>0, Consts DEF IInv, AbortInv, Aborting, Holding, SlotType, QueueType,
       TurnType, TaskType, ActType, ActRecord, LogType, Inject, Extend, Call,
       queueVars, turnVars, taskVars
  <2>3. TaskType'
    BY <1>0, Consts DEF IInv, AbortInv, Aborting, ClosingInv, SlotType, QueueType,
       TurnType, TaskType, ActType, ActRecord, Places, Running, Terminal, Inject,
       Extend, Call, queueVars, turnVars, taskVars
  <2>4. ActType'
    BY <1>0, Consts DEF ActType, ActRecord, Steps, SlotType, Inject, Extend, Call,
       queueVars, turnVars, taskVars
  <2> QED BY <2>1, <2>2, <2>3, <2>4 DEF TypeOK
<1> QED BY <1>1, CoreUnchanged DEF Inject, Extend, Call, queueVars, turnVars,
   taskVars

-----------------------------------------------------------------------------
(* The theorems.                                                           *)

LEMMA InitInv == Init => IInv
<1> SUFFICES ASSUME Init PROVE IInv
  OBVIOUS
<1>1. Resting \in ActRecord /\ Resting.pc = "idle" /\ Resting.obj = None
  BY DEF Resting, ActRecord, Steps
<1>2. TypeOK
  <2>1. SlotType /\ QueueType
    BY DEF Init, Empty, SlotType, QueueType
  <2>2. TurnType
    BY Consts DEF Init, TurnType
  <2>3. TaskType /\ ActType
    BY <1>1 DEF Init, TaskType, Places, ActType
  <2>4. LogType
    BY Consts, Zenon DEF Init, LogType
  <2> QED BY <2>1, <2>2, <2>3, <2>4 DEF TypeOK
<1>3. SlotInv /\ RunningIsActive /\ NewInv /\ HandInv /\ EndInv
  BY DEF Init, Empty, SlotInv, RunningIsActive, Running, NewInv, HandInv, EndInv, Terminal
<1>4. AbortInv /\ ClosingInv
  BY <1>1, Consts DEF Init, AbortInv, Aborting, Holding, ClosingInv
<1> QED BY <1>2, <1>3, <1>4 DEF IInv

LEMMA ActorStepInv == ASSUME IInv, NEW a \in Actors, ActorStep(a) PROVE IInv'
  BY TakeTurnInv, GraceOverInv, ReportAbortedInv, ClearPendingInv, CheckMailInv,
     ReserveInv, GatherInv, AttachInv, InstallInv DEF ActorStep

LEMMA TaskStepInv == ASSUME IInv, NEW t \in Turns, TaskStep(t) PROVE IInv'
  BY BeginInv, BeginFailsInv, DrainInv, RecordInv, FollowUpInv, AnswerInv,
     SampleFailsInv, SettleInv, QuitInv, FinishInv, CollectInv, ReportCompleteInv,
     ReleaseInv DEF TaskStep

LEMMA ClientStepInv == ASSUME IInv, ClientStep PROVE IInv'
  BY SteerUserInputInv, RefuseUserInputInv, StartUserTurnInv, CompactInv, InterruptInv,
     ReceiveMailInv, SteerInv, InjectInv DEF ClientStep

LEMMA NextInv == IInv /\ [Next]_vars => IInv'
<1> SUFFICES ASSUME IInv, [Next]_vars PROVE IInv'
  OBVIOUS
<1>1. CASE Next
  BY <1>1, ActorStepInv, TaskStepInv, ClientStepInv, GuardianAbortsInv DEF Next
<1>2. CASE UNCHANGED vars
  <2>1. TypeOK'
    BY <1>2 DEF IInv, TypeOK, SlotType, QueueType, TurnType, TaskType, ActType, LogType,
       vars, queueVars, turnVars, taskVars, logVars
  <2> QED BY <1>2, <2>1, CoreUnchanged DEF vars, turnVars, taskVars
<1> QED BY <1>1, <1>2

\* The inductive invariant holds throughout.
THEOREM SessionInvariant == Spec => []IInv
  BY InitInv, NextInv, PTL DEF Spec

\* Every state is well-typed, whatever operations, bounds and turns: in
\* particular the objects and turns that start_task, handle_task_abort and
\* on_task_finished dereference exist.
THEOREM SessionTypeCorrect == Spec => []TypeOK
<1>1. IInv => TypeOK
  BY DEF IInv
<1> QED BY <1>1, SessionInvariant, PTL

\* A task that runs and was not cancelled is the session's active task,
\* although abort_all_tasks, maybe_start_turn_for_pending_work and start_task
\* let go of the mutex between looking at the slot and changing it.
THEOREM ActiveIsRunning == Spec => []RunningIsActive
<1>1. IInv => RunningIsActive
  BY DEF IInv
<1> QED BY <1>1, SessionInvariant, PTL

\* Only a turn without terminal event gets one.
LEMMA EventsFinal ==
    ASSUME IInv, Next, NEW t \in Turns, ev[t] \in Terminal
    PROVE  ev'[t] = ev[t]
<1>0. TaskType /\ pc[t] \in {"release", "dead"}
  BY DEF IInv, TypeOK, EndInv
<1>1. CASE \E a \in Actors : ActorStep(a)
  <2>1. CASE \E a \in Actors : ReportAborted(a)
    BY <1>0, <2>1 DEF IInv, AbortInv, Aborting, TaskType, ReportAborted
  <2>2. CASE ~ \E a \in Actors : ReportAborted(a)
    BY <1>1, <2>2 DEF ActorStep, TakeTurn, GraceOver, ClearPending, CheckMail, Reserve,
       Gather, Attach, Install, taskVars
  <2> QED BY <2>1, <2>2
<1>2. CASE \E s \in Turns : TaskStep(s)
  <2> PICK s \in Turns : TaskStep(s)
    BY <1>2
  <2>1. CASE Begin(s) \/ BeginFails(s) \/ ReportComplete(s)
    BY <1>0, <2>1 DEF TaskType, Begin, BeginFails, ReportComplete, At
  <2>2. CASE ~ (Begin(s) \/ BeginFails(s) \/ ReportComplete(s))
    BY <2>2 DEF TaskStep, Drain, Record, FollowUp, Answer, SampleFails, Settle, Quit,
       Finish, Collect, Release
  <2> QED BY <2>1, <2>2
<1>3. CASE ClientStep \/ GuardianAborts
  BY <1>3 DEF ClientStep, SteerUserInput, RefuseUserInput, StartUserTurn, Compact, SpawnTask,
     Interrupt, ReceiveMail, Steer, Inject, AcceptSteer, GuardianAborts, taskVars
<1> QED BY <1>1, <1>2, <1>3 DEF Next

\* TurnComplete or TurnAborted is the last that happens to a turn: on_task_finished
\* and handle_task_abort never both end it, and its task neither records nor
\* works afterwards, however the grace period and the finish of the task race.
THEOREM TerminalEventsFinal == Spec => TerminalIsFinal
<1>1. ASSUME IInv, IInv', [Next]_vars
      PROVE  [\A t \in Turns : ev[t] \in Terminal =>
                 /\ ev'[t] = ev[t] /\ hand'[t] = {}
                 /\ pc'[t] \in {"release", "dead"}]_vars
  <2> SUFFICES ASSUME Next, NEW t \in Turns, ev[t] \in Terminal
               PROVE  ev'[t] = ev[t] /\ hand'[t] = {} /\ pc'[t] \in {"release", "dead"}
    BY <1>1
  <2>1. ev'[t] = ev[t]
    BY <1>1, EventsFinal
  <2>2. pc'[t] \in {"release", "dead"}
    BY <1>1, <2>1 DEF IInv, EndInv
  <2>3. hand'[t] = {}
    BY <1>1, <2>2 DEF IInv, HandInv
  <2> QED BY <2>1, <2>2, <2>3
<1> QED BY <1>1, SessionInvariant, PTL DEF Spec, TerminalIsFinal

-----------------------------------------------------------------------------
(* What becomes of accepted input, while turns are started one at a time.  *)

\* Somebody is going to look into object o: the active task, the actor that
\* aborts its turn, or a turn that finishes.
Anchored(o) ==
    \/ slot.obj = o /\ slot.task # None
    \/ \E a \in Actors : Holding(a) /\ act[a].obj = o
    \/ \E t \in Turns : pc[t] = "collect" /\ act[t].obj = o

Logs == history \cup discarded

\* Accepted input is recorded, discarded with a turn that was cut off, in the
\* hands of a task, or where somebody is going to look.
InputKept ==
    \A u \in accepted :
        \/ u \in Logs
        \/ \E t \in Turns : u \in hand[t]
        \/ \E o \in Objs : u \in pending[o] /\ Anchored(o)

\* Who starts a turn has the slot for itself.
StartAlone ==
    \A a \in Actors : Starting(a) =>
        slot.task = None /\ (slot.obj # None => \A b \in Actors : act[b].obj # slot.obj)

\* A step after which nothing accepted is lost.
LEMMA KeptMoves ==
    ASSUME InputKept, accepted' = accepted, Logs \subseteq Logs',
           \A t \in Turns : \A x \in hand[t] : x \in Logs' \/ x \in hand'[t],
           \A o \in Objs : Anchored(o) =>
              \A x \in pending[o] : \/ x \in Logs' \/ \E t \in Turns : x \in hand'[t]
                                    \/ x \in pending'[o] /\ Anchored(o)'
    PROVE  InputKept'
<1> SUFFICES ASSUME NEW u \in accepted
             PROVE  \/ u \in Logs' \/ \E t \in Turns : u \in hand'[t]
                    \/ \E o \in Objs : u \in pending'[o] /\ Anchored(o)'
  BY DEF InputKept
<1>1. CASE u \in Logs
  BY <1>1
<1>2. CASE \E t \in Turns : u \in hand[t]
  BY <1>2
<1>3. CASE \E o \in Objs : u \in pending[o] /\ Anchored(o)
  BY <1>3
<1> QED BY <1>1, <1>2, <1>3 DEF InputKept

\* Whoever was going to look still is.
LEMMA AnchorsStay ==
    ASSUME slot.task # None => slot'.obj = slot.obj /\ slot'.task # None,
           \A a \in Actors : Holding(a) => Holding(a)' /\ act'[a].obj = act[a].obj,
           \A t \in Turns : pc[t] = "collect" => pc'[t] = "collect" /\ act'[t].obj = act[t].obj
    PROVE  \A o \in Objs : Anchored(o) => Anchored(o)'
  BY DEF Anchored

\* Nobody begins to start a turn, and nobody takes the slot's object.
LEMMA StartMoves ==
    ASSUME StartAlone, \A a \in Actors : Starting(a)' => Starting(a),
           \A b \in Actors : act'[b].obj \in {act[b].obj, None}, slot' = slot \/ slot' = Empty
    PROVE  StartAlone'
<1>1. CASE slot' = slot
  BY <1>1 DEF StartAlone
<1>2. CASE slot' = Empty
  BY <1>2 DEF StartAlone, Empty
<1> QED BY <1>1, <1>2

\* Steps of clients and tasks that leave slot, actors and anchors alone.
LEMMA NothingMoves ==
    ASSUME IInv, InputKept, StartAlone, UNCHANGED <<slot, act, accepted>>, Logs \subseteq Logs',
           \A t \in Turns : pc[t] = "collect" => pc'[t] = "collect",
           \A t \in Turns : \A x \in hand[t] : x \in Logs' \/ x \in hand'[t],
           \A o \in Objs : pending[o] \subseteq pending'[o]
    PROVE  InputKept' /\ StartAlone'
<1>1. \A o \in Objs : Anchored(o) => Anchored(o)'
  BY AnchorsStay DEF Holding
<1>2. StartAlone'
  BY DEF StartAlone, Starting
<1> QED BY <1>1, <1>2, KeptMoves

-----------------------------------------------------------------------------
(* Steps of the tasks.                                                     *)

LEMMA TaskKeeps ==
    ASSUME IInv, InputKept, StartAlone, NEW t \in Turns,
           Begin(t) \/ BeginFails(t) \/ Record(t) \/ FollowUp(t) \/ Answer(t) \/ SampleFails(t)
             \/ Settle(t) \/ Quit(t) \/ ReportComplete(t)
    PROVE  InputKept' /\ StartAlone'
<1>0. TaskType /\ QueueType
  BY DEF IInv, TypeOK
<1>1. UNCHANGED <<slot, act, accepted, pending>>
  BY DEF Begin, BeginFails, Record, FollowUp, Answer, SampleFails, Settle, Quit, ReportComplete,
         queueVars, logVars
<1>2. pc[t] # "collect" /\ \A s \in Turns \ {t} : pc'[s] = pc[s]
  BY <1>0 DEF Begin, BeginFails, Record, FollowUp, Answer, SampleFails, Settle, Quit, ReportComplete,
         At, Move, TaskType
<1>3. CASE Begin(t) \/ Record(t) \/ ReportComplete(t)
  <2>1. history' = history \cup hand[t] /\ hand' = [hand EXCEPT ![t] = {}] /\ UNCHANGED discarded
    BY <1>3 DEF Begin, Record, ReportComplete
  <2>2. \A s \in Turns : \A x \in hand[s] : x \in Logs' \/ x \in hand'[s]
    BY <1>0, <2>1 DEF TaskType, Logs
  <2>3. Logs \subseteq Logs'
    BY <2>1 DEF Logs
  <2> QED BY <1>1, <1>2, <2>2, <2>3, NothingMoves
<1>4. CASE BeginFails(t)
  <2>1. discarded' = discarded \cup hand[t] /\ hand' = [hand EXCEPT ![t] = {}] /\ UNCHANGED history
    BY <1>4 DEF BeginFails
  <2>2. \A s \in Turns : \A x \in hand[s] : x \in Logs' \/ x \in hand'[s]
    BY <1>0, <2>1 DEF TaskType, Logs
  <2>3. Logs \subseteq Logs'
    BY <2>1 DEF Logs
  <2> QED BY <1>1, <1>2, <2>2, <2>3, NothingMoves
<1>5. CASE FollowUp(t) \/ Answer(t) \/ SampleFails(t) \/ Settle(t) \/ Quit(t)
  <2>1. UNCHANGED <<hand, history, discarded>>
    BY <1>5 DEF FollowUp, Answer, SampleFails, Settle, Quit, logVars
  <2> QED BY <1>1, <1>2, <2>1, NothingMoves DEF Logs
<1> QED BY <1>3, <1>4, <1>5

\* What get_pending_input takes goes to the task's hands.
LEMMA DrainKeeps ==
    ASSUME IInv, InputKept, StartAlone, NEW t \in Turns, Drain(t)
    PROVE  InputKept' /\ StartAlone'
<1>0. TaskType /\ QueueType /\ SlotType
  BY DEF IInv, TypeOK
<1>1. /\ pc[t] = "drain" /\ hand' = [hand EXCEPT ![t] = Takes] /\ GetPendingInput
      /\ pc' = [pc EXCEPT ![t] = "record"]
      /\ UNCHANGED <<slot, act, history, accepted, discarded>>
  BY DEF Drain, At, Move, logVars
<1>2. hand[t] = {} /\ hand'[t] = Takes /\ \A s \in Turns \ {t} : hand'[s] = hand[s] /\ pc'[s] = pc[s]
  BY <1>0, <1>1 DEF IInv, HandInv, TaskType
<1>3. \A o \in Objs : \A x \in pending[o] : x \in pending'[o] \/ x \in Takes
  BY <1>0, <1>1 DEF GetPendingInput, Takes, Cleared, QueueType, SlotType
<1>4. \A o \in Objs : Anchored(o) => Anchored(o)'
  BY <1>1, <1>2, AnchorsStay DEF Holding
<1>5. Logs' = Logs
  BY <1>1 DEF Logs
<1>6. InputKept'
  BY <1>1, <1>2, <1>3, <1>4, <1>5, KeptMoves
<1>7. StartAlone'
  BY <1>1 DEF StartAlone, Starting
<1> QED BY <1>6, <1>7

\* The task leaves the slot and looks into its object once more.
LEMMA FinishKeeps ==
    ASSUME IInv, InputKept, StartAlone, NEW t \in Turns, Finish(t)
    PROVE  InputKept' /\ StartAlone'
<1>0. TaskType /\ QueueType /\ SlotType /\ ActType
  BY DEF IInv, TypeOK
<1>1. pc[t] = "returned" /\ slot.task = t /\ t # None /\ act[t].pc = "idle" /\ t \in Actors
  BY Consts DEF Finish, At, IInv, RunningIsActive, Running, ClosingInv
<1>2. /\ slot' = [slot EXCEPT !.task = None] /\ act' = [act EXCEPT ![t].obj = slot.obj]
      /\ pc' = [pc EXCEPT ![t] = "collect"]
      /\ UNCHANGED <<pending, hand, history, accepted, discarded>>
  BY <1>1 DEF Finish, Move, queueVars, logVars
<1>3. /\ act'[t].obj = slot.obj /\ act'[t].pc = "idle" /\ \A b \in Actors \ {t} : act'[b] = act[b]
      /\ pc'[t] = "collect" /\ \A s \in Turns \ {t} : pc'[s] = pc[s]
      /\ slot'.obj = slot.obj /\ slot'.task = None
  BY <1>0, <1>1, <1>2 DEF ActType, ActRecord, TaskType, SlotType
<1>4. \A o \in Objs : Anchored(o) => Anchored(o)'
  BY <1>1, <1>3, Consts DEF Anchored, Holding
<1>5. InputKept'
  BY <1>2, <1>4, KeptMoves DEF Logs
<1>6. \A a \in Actors : ~Starting(a)'
  BY <1>1, <1>3 DEF StartAlone, Starting
<1> QED BY <1>5, <1>6 DEF StartAlone

\* What came late goes to the hands of the task.
LEMMA CollectKeeps ==
    ASSUME IInv, InputKept, StartAlone, NEW t \in Turns, Collect(t)
    PROVE  InputKept' /\ StartAlone'
<1>0. TaskType /\ QueueType /\ ActType
  BY DEF IInv, TypeOK
<1>1. /\ pc[t] = "collect" /\ hand' = [hand EXCEPT ![t] = pending[act[t].obj]]
      /\ pending' = Cleared(act[t].obj) /\ pc' = [pc EXCEPT ![t] = "report"]
      /\ UNCHANGED <<slot, act, history, accepted, discarded>>
  BY DEF Collect, At, Move, logVars
<1>2. /\ hand[t] = {} /\ hand'[t] = pending[act[t].obj]
      /\ \A s \in Turns \ {t} : hand'[s] = hand[s] /\ pc'[s] = pc[s]
  BY <1>0, <1>1 DEF IInv, HandInv, TaskType
<1>3. \A o \in Objs : o # act[t].obj => pending'[o] = pending[o]
  BY <1>0, <1>1 DEF QueueType, Cleared
<1>4. \A o \in Objs : o # act[t].obj /\ Anchored(o) => Anchored(o)'
  BY <1>1, <1>2 DEF Anchored, Holding
<1>5. InputKept'
  BY <1>1, <1>2, <1>3, <1>4, KeptMoves DEF Logs
<1>6. StartAlone'
  BY <1>1 DEF StartAlone, Starting
<1> QED BY <1>5, <1>6

\* An object that somebody else looks into is not let go.
LEMMA ReleaseKeeps ==
    ASSUME IInv, InputKept, StartAlone, NEW t \in Turns, Release(t)
    PROVE  InputKept' /\ StartAlone'
<1>0. TaskType /\ QueueType /\ SlotType /\ ActType /\ t \in Actors /\ pc[t] = "release" /\ act[t].pc = "idle"
  BY Consts DEF IInv, TypeOK, Release, At, ClosingInv
<1>1. /\ slot' = slot \/ (slot.task = None /\ slot' = Empty)
      /\ pc' = [pc EXCEPT ![t] = "dead"] /\ UNCHANGED <<hand, history, accepted, discarded>>
  BY DEF Release, Move, logVars
<1>2. act'[t].pc \in {"idle", "check"} /\ act'[t].obj = None /\ \A b \in Actors \ {t} : act'[b] = act[b]
  <2> DEFINE s == IF act[t].obj = slot.obj /\ slot.task = None THEN "check" ELSE "idle"
             r == [Resting EXCEPT !.pc = s]
  <2>1. r \in ActRecord /\ r.pc \in {"idle", "check"} /\ r.obj = None
    BY Consts DEF Resting, ActRecord, Steps
  <2>2. act' = [act EXCEPT ![t] = r]
    BY DEF Release
  <2> HIDE DEF r
  <2> QED BY <1>0, <2>1, <2>2, ActChanged
<1>3. \A s \in Turns : pc[s] = "collect" => s # t /\ pc'[s] = "collect"
  BY <1>0, <1>1 DEF TaskType
<1>4. \A o \in Objs : Anchored(o) => Anchored(o)'
  BY <1>0, <1>1, <1>2, <1>3, Consts, AnchorsStay DEF Holding
<1>5. \A o \in Objs : Anchored(o) => pending'[o] = pending[o]
  <2>1. CASE UNCHANGED pending
    BY <2>1
  <2>2. CASE /\ ~(act[t].obj = slot.obj /\ slot.task # None)
             /\ \A b \in Actors \ {t} : act[b].obj # act[t].obj
             /\ pending' = Cleared(act[t].obj)
    <3>1. \A o \in Objs : o # act[t].obj => pending'[o] = pending[o]
      BY <1>0, <2>2 DEF QueueType, Cleared
    <3>2. \A o \in Objs : Anchored(o) => o # act[t].obj
      BY <1>0, <1>3, <2>2, Consts DEF Anchored, Holding
    <3> QED BY <3>1, <3>2
  <2> QED BY <2>1, <2>2 DEF Release
<1>6. InputKept'
  BY <1>1, <1>4, <1>5, KeptMoves DEF Logs
<1>7. StartAlone'
  <2>1. \A a \in Actors : Starting(a)' => Starting(a)
    BY <1>2 DEF Starting
  <2>2. \A b \in Actors : act'[b].obj \in {act[b].obj, None}
    BY <1>2
  <2> QED BY <1>1, <2>1, <2>2, StartMoves
<1> QED BY <1>6, <1>7

-----------------------------------------------------------------------------
(* Steps of the actors.                                                    *)

\* The active turn, if there is one, is taken out to be aborted; what is in
\* the slot without a task nobody is going to look into.
LEMMA TakeTurnKeeps ==
    ASSUME IInv, InputKept, StartAlone, NEW a \in Actors, TakeTurn(a)
    PROVE  InputKept' /\ StartAlone'
<1>0. TaskType /\ QueueType /\ SlotType /\ ActType
  BY DEF IInv, TypeOK
<1>1. /\ act[a].pc = "take" /\ slot' = Empty /\ UNCHANGED <<pc, hand, history, accepted, discarded>>
      /\ a \in Turns => pc[a] = "dead"
  BY DEF TakeTurn, logVars, IInv, ClosingInv
<1>2. StartAlone'
  BY <1>1 DEF StartAlone, Empty
<1>3. CASE slot.task # None
  <2> DEFINE r == [act[a] EXCEPT !.pc = "wait", !.obj = slot.obj, !.turn = slot.task]
  <2>1. r \in ActRecord /\ r.pc = "wait" /\ r.obj = slot.obj
    BY <1>0, ZenonT(40) DEF ActType, ActRecord, SlotType, Steps
  <2>2. act' = [act EXCEPT ![a] = r] /\ UNCHANGED pending
    BY <1>3 DEF TakeTurn
  <2> HIDE DEF r
  <2>3. act'[a].pc = "wait" /\ act'[a].obj = slot.obj /\ \A b \in Actors \ {a} : act'[b] = act[b]
    BY <1>0, <2>1, <2>2, ActChanged
  <2>4. \A o \in Objs : Anchored(o) => Anchored(o)'
    BY <1>1, <2>3, Consts DEF Anchored, Holding
  <2> QED BY <1>1, <1>2, <2>2, <2>4, KeptMoves DEF Logs
<1>4. CASE slot.task = None
  <2>1. act'[a].pc \in {"idle", "gather"} /\ \A b \in Actors \ {a} : act'[b] = act[b]
    <3>1. CASE act[a].then = "check"
      BY <1>0, <1>4, <3>1, RestActor DEF TakeTurn
    <3>2. CASE act[a].then # "check"
      <4>1. Go(a, "gather") /\ "gather" \in Steps
        BY <1>4, <3>2 DEF TakeTurn, Steps
      <4> QED BY <1>0, <4>1, GoActor
    <3> QED BY <3>1, <3>2
  <2>2. \A o \in Objs : Anchored(o) => Anchored(o)'
    BY <1>1, <1>4, <2>1, Consts DEF Anchored, Holding
  <2>3. \A o \in Objs : Anchored(o) => pending'[o] = pending[o]
    <3>1. CASE UNCHANGED pending
      BY <3>1
    <3>2. CASE (\A b \in Actors : act[b].obj # slot.obj) /\ pending' = Cleared(slot.obj)
      <4>1. \A o \in Objs : o # slot.obj => pending'[o] = pending[o]
        BY <1>0, <3>2 DEF QueueType, Cleared
      <4>2. \A o \in Objs : Anchored(o) => o # slot.obj
        BY <1>4, <3>2, Consts DEF Anchored
      <4> QED BY <4>1, <4>2
    <3> QED BY <1>4, <3>1, <3>2 DEF TakeTurn
  <2> QED BY <1>1, <1>2, <2>2, <2>3, KeptMoves DEF Logs
<1> QED BY <1>3, <1>4

\* The guardian takes the active turn.
LEMMA GuardianKeeps ==
    ASSUME IInv, InputKept, StartAlone, GuardianAborts
    PROVE  InputKept' /\ StartAlone'
<1>0. SlotType /\ ActType
  BY DEF IInv, TypeOK
<1>1. /\ act[Guardian].pc = "idle" /\ slot.task # None /\ slot' = Empty
      /\ UNCHANGED <<pc, hand, pending, history, accepted, discarded>>
  BY DEF GuardianAborts, logVars, queueVars
<1> DEFINE r == [Resting EXCEPT !.pc = "wait", !.obj = slot.obj, !.turn = slot.task, !.then = "check"]
<1>2. r \in ActRecord /\ r.pc = "wait" /\ r.obj = slot.obj
  BY <1>0, Consts, ZenonT(40) DEF Resting, ActRecord, SlotType, Steps
<1>3. act' = [act EXCEPT ![Guardian] = r]
  BY DEF GuardianAborts
<1> HIDE DEF r
<1>4. /\ act'[Guardian].pc = "wait" /\ act'[Guardian].obj = slot.obj
      /\ \A b \in Actors \ {Guardian} : act'[b] = act[b]
  BY <1>0, <1>2, <1>3, Consts, ActChanged
<1>5. \A o \in Objs : Anchored(o) => Anchored(o)'
  BY <1>1, <1>4, Consts DEF Anchored, Holding
<1>6. InputKept'
  BY <1>1, <1>5, KeptMoves DEF Logs
<1>7. StartAlone'
  BY <1>1 DEF StartAlone, Empty
<1> QED BY <1>6, <1>7

\* The task is killed with what it holds, or its end is reported.
LEMMA AbortKeeps ==
    ASSUME IInv, InputKept, StartAlone, NEW a \in Actors, GraceOver(a) \/ ReportAborted(a)
    PROVE  InputKept' /\ StartAlone'
<1>0. TaskType /\ ActType
  BY DEF IInv, TypeOK
<1>1. /\ Holding(a) /\ act'[a].pc \in {"report", "clear"}
      /\ act'[a].obj = act[a].obj /\ act'[a].then = act[a].then
      /\ \A b \in Actors \ {a} : act'[b] = act[b]
  BY <1>0, GoActor DEF GraceOver, ReportAborted, Steps, Holding
<1>2. UNCHANGED <<slot, pending, accepted, history>>
  BY DEF GraceOver, ReportAborted, queueVars, logVars
<1>3. Logs \subseteq Logs' /\ \A t \in Turns : \A x \in hand[t] : x \in Logs' \/ x \in hand'[t]
  <2>1. CASE GraceOver(a)
    BY <1>0, <1>2, <2>1 DEF GraceOver, Kill, TaskType, Logs
  <2>2. CASE ReportAborted(a)
    BY <2>2 DEF ReportAborted, logVars, Logs
  <2> QED BY <2>1, <2>2
<1>4. \A t \in Turns : pc[t] = "collect" => pc'[t] = "collect" /\ t # a
  <2>1. \A t \in Turns : pc[t] = "collect" => t # a
    BY <1>1 DEF IInv, ClosingInv, Holding
  <2>2. CASE GraceOver(a)
    <3>1. act[a].turn \in Turns /\ pc[act[a].turn] # "collect"
      BY <1>0, <2>2 DEF GraceOver, IInv, AbortInv, Aborting, TaskType, Running
    <3> QED BY <1>0, <2>1, <2>2, <3>1 DEF GraceOver, Kill, TaskType
  <2>3. CASE ReportAborted(a)
    BY <2>1, <2>3 DEF ReportAborted
  <2> QED BY <2>2, <2>3
<1>5. \A o \in Objs : Anchored(o) => Anchored(o)'
  BY <1>1, <1>2, <1>4, Consts, AnchorsStay DEF Holding
<1>6. InputKept'
  BY <1>2, <1>3, <1>5, KeptMoves
<1>7. StartAlone'
  <2>1. \A b \in Actors : Starting(b)' => Starting(b)
    BY <1>1 DEF Starting, Holding
  <2> QED BY <1>1, <1>2, <2>1, StartMoves
<1> QED BY <1>6, <1>7

\* What still waited for the aborted turn is discarded.
LEMMA ClearPendingKeeps ==
    ASSUME IInv, InputKept, StartAlone, NEW a \in Actors, ClearPending(a)
    PROVE  InputKept' /\ StartAlone'
<1>0. TaskType /\ QueueType /\ ActType
  BY DEF IInv, TypeOK
<1>1. /\ Holding(a) /\ act[a].pc = "clear" /\ act[a].then \in {"check", "gather"}
      /\ UNCHANGED <<slot, pc, hand, accepted, history>>
      /\ discarded' = discarded \cup pending[act[a].obj] /\ pending' = Cleared(act[a].obj)
  BY DEF ClearPending, Holding, taskVars, IInv, AbortInv
<1>2. /\ act'[a].pc = act[a].then /\ act'[a].obj = None /\ \A b \in Actors \ {a} : act'[b] = act[b]
  <2> DEFINE r == [act[a] EXCEPT !.pc = act[a].then, !.obj = None, !.turn = None]
  <2>1. r \in ActRecord /\ r.pc = act[a].then
    BY <1>0 DEF ActType, ActRecord, Steps
  <2>2. r.obj = None
    BY <1>0, ZenonT(40) DEF ActType, ActRecord
  <2>3. act' = [act EXCEPT ![a] = r]
    BY DEF ClearPending
  <2> HIDE DEF r
  <2> QED BY <1>0, <2>1, <2>2, <2>3, ActChanged
<1>3. \A o \in Objs : o # act[a].obj => pending'[o] = pending[o]
  BY <1>0, <1>1 DEF QueueType, Cleared
<1>4. \A t \in Turns : pc[t] = "collect" => t # a
  BY <1>1 DEF IInv, ClosingInv
<1>5. \A o \in Objs : o # act[a].obj /\ Anchored(o) => Anchored(o)'
  BY <1>1, <1>2, <1>4, Consts DEF Anchored, Holding
<1>6. InputKept'
  BY <1>1, <1>3, <1>5, KeptMoves DEF Logs
<1>7. StartAlone'
  <2>1. \A b \in Actors : Starting(b)' => Starting(b)
    BY <1>1, <1>2 DEF Starting
  <2> QED BY <1>1, <1>2, <2>1, StartMoves
<1> QED BY <1>6, <1>7

\* Looking for mail touches nothing.
LEMMA CheckMailKeeps ==
    ASSUME IInv, InputKept, StartAlone, NEW a \in Actors, CheckMail(a)
    PROVE  InputKept' /\ StartAlone'
<1>0. ActType
  BY DEF IInv, TypeOK
<1>1. act[a].pc = "check" /\ UNCHANGED <<slot, pending, pc, hand, history, accepted, discarded>>
  BY DEF CheckMail, queueVars, taskVars, logVars
<1>2. /\ act'[a].pc \in {"idle", "reserve"} /\ act'[a].obj \in {act[a].obj, None}
      /\ \A b \in Actors \ {a} : act'[b] = act[b]
  <2>1. CASE mailbox \cap Trigger = {}
    BY <1>0, <2>1, RestActor DEF CheckMail
  <2>2. CASE mailbox \cap Trigger # {}
    <3>1. Go(a, "reserve") /\ "reserve" \in Steps
      BY <2>2 DEF CheckMail, Steps
    <3> QED BY <1>0, <3>1, GoActor
  <2> QED BY <2>1, <2>2
<1>3. \A t \in Turns : pc[t] = "collect" => t # a
  BY <1>1 DEF IInv, ClosingInv
<1>4. \A o \in Objs : Anchored(o) => Anchored(o)'
  BY <1>1, <1>2, <1>3, Consts, AnchorsStay DEF Holding
<1>5. InputKept'
  BY <1>1, <1>4, KeptMoves DEF Logs
<1>6. StartAlone'
  <2>1. \A b \in Actors : Starting(b)' => Starting(b)
    BY <1>2 DEF Starting
  <2> QED BY <1>1, <1>2, <2>1, StartMoves
<1> QED BY <1>5, <1>6

\* The slot is reserved with an object nobody knows.
LEMMA ReserveKeeps ==
    ASSUME IInv, InputKept, StartAlone, OneStarter', NEW a \in Actors, Reserve(a)
    PROVE  InputKept' /\ StartAlone'
<1>0. ActType /\ SlotType
  BY DEF IInv, TypeOK
<1>1. act[a].pc = "reserve" /\ UNCHANGED <<pending, pc, hand, history, accepted, discarded>>
  BY DEF Reserve, queueVars, taskVars, logVars
<1>2. \A t \in Turns : pc[t] = "collect" => t # a
  BY <1>1 DEF IInv, ClosingInv
<1>3. CASE slot.obj # None
  <2>1. /\ act'[a].pc = "idle" /\ act'[a].obj = None
        /\ (\A b \in Actors \ {a} : act'[b] = act[b]) /\ UNCHANGED slot
    BY <1>0, <1>3, RestActor DEF Reserve
  <2>2. \A o \in Objs : Anchored(o) => Anchored(o)'
    BY <1>1, <1>2, <2>1, Consts, AnchorsStay DEF Holding
  <2>3. \A b \in Actors : Starting(b)' => Starting(b)
    BY <2>1 DEF Starting
  <2>4. StartAlone'
    BY <2>1, <2>3, StartMoves
  <2> QED BY <1>1, <2>2, <2>4, KeptMoves DEF Logs
<1>4. CASE slot.obj = None
  <2>1. PICK o \in Objs : Fresh(o) /\ slot' = [obj |-> o, task |-> None]
    BY <1>4 DEF Reserve
  <2>2. act'[a].pc = "gather" /\ act'[a].obj = None /\ \A b \in Actors \ {a} : act'[b] = act[b]
    <3> DEFINE r == [Resting EXCEPT !.pc = "gather"]
    <3>1. r \in ActRecord /\ r.pc = "gather" /\ r.obj = None
      BY Consts DEF Resting, ActRecord, Steps
    <3>2. act' = [act EXCEPT ![a] = r]
      BY <1>4 DEF Reserve
    <3> HIDE DEF r
    <3> QED BY <1>0, <3>1, <3>2, ActChanged
  <2>3. slot.task = None
    BY <1>4 DEF IInv, SlotInv
  <2>4. \A p \in Objs : Anchored(p) => Anchored(p)'
    BY <1>1, <1>2, <2>2, <2>3, Consts, AnchorsStay DEF Holding
  <2>5. \A b \in Actors : act[b].obj # o
    BY <2>1 DEF Fresh, Held
  <2>6. slot'.task = None /\ slot'.obj = o /\ o # None /\ \A b \in Actors : act'[b].obj # o
    BY <2>1, <2>2, <2>5, Consts
  <2>7. StartAlone'
    BY <2>6 DEF StartAlone
  <2> QED BY <1>1, <2>4, <2>7, KeptMoves DEF Logs
<1> QED BY <1>3, <1>4

\* Who starts a turn alone gathers nothing that somebody else would look at.
LEMMA GatherKeeps ==
    ASSUME IInv, InputKept, StartAlone, NEW a \in Actors, Gather(a)
    PROVE  InputKept' /\ StartAlone'
<1>0. ActType /\ QueueType /\ SlotType
  BY DEF IInv, TypeOK
<1>1. /\ act[a].pc = "gather" /\ GetPendingInput
      /\ UNCHANGED <<slot, pc, hand, history, accepted, discarded>>
  BY DEF Gather, taskVars, logVars
<1>2. /\ act'[a].pc = "attach" /\ act'[a].obj = act[a].obj /\ \A b \in Actors \ {a} : act'[b] = act[b]
  <2> DEFINE r == [act[a] EXCEPT !.pc = "attach", !.found = Takes]
  <2>0. Takes \subseteq Items
    BY <1>0, Consts DEF Takes, QueueType, SlotType
  <2>1. r \in ActRecord /\ r.pc = "attach" /\ r.obj = act[a].obj
    BY <1>0, <2>0 DEF ActType, ActRecord, Steps
  <2>2. act' = [act EXCEPT ![a] = r]
    BY DEF Gather
  <2> HIDE DEF r
  <2> QED BY <1>0, <2>1, <2>2, ActChanged
<1>3. \A t \in Turns : pc[t] = "collect" => t # a
  BY <1>1 DEF IInv, ClosingInv
<1>4. \A o \in Objs : Anchored(o) => Anchored(o)'
  BY <1>1, <1>2, <1>3, Consts, AnchorsStay DEF Holding
<1>5. slot.task = None /\ (slot.obj # None => \A b \in Actors : act[b].obj # slot.obj)
  BY <1>1 DEF StartAlone, Starting
<1>6. \A o \in Objs : Anchored(o) => o # slot.obj
  BY <1>5, Consts DEF Anchored
<1>7. \A o \in Objs : o # slot.obj => pending'[o] = pending[o]
  BY <1>0, <1>1 DEF GetPendingInput, Cleared, QueueType
<1>8. InputKept'
  BY <1>1, <1>4, <1>6, <1>7, KeptMoves DEF Logs
<1>9. StartAlone'
  <2>1. \A b \in Actors : Starting(b)' => Starting(b)
    BY <1>1, <1>2 DEF Starting
  <2> QED BY <1>1, <1>2, <2>1, StartMoves
<1> QED BY <1>8, <1>9

\* What was gathered is added to the slot's object, or to a fresh one.
LEMMA AttachKeeps ==
    ASSUME IInv, InputKept, StartAlone, NEW a \in Actors, Attach(a)
    PROVE  InputKept' /\ StartAlone'
<1>0. ActType /\ QueueType /\ SlotType
  BY DEF IInv, TypeOK
<1>1. act[a].pc = "attach" /\ UNCHANGED <<pc, hand, history, accepted, discarded>>
  BY DEF Attach, taskVars, logVars
<1>2. PICK o \in Objs : /\ GetOrInsert(o) /\ slot' = [slot EXCEPT !.obj = o]
                        /\ pending' = [pending EXCEPT ![o] = @ \cup act[a].found]
  BY DEF Attach
<1>3. /\ act'[a].pc = "install" /\ act'[a].obj = act[a].obj /\ \A b \in Actors \ {a} : act'[b] = act[b]
  <2> DEFINE r == [act[a] EXCEPT !.pc = "install", !.found = {}]
  <2>1. r \in ActRecord /\ r.pc = "install" /\ r.obj = act[a].obj
    BY <1>0 DEF ActType, ActRecord, Steps
  <2>2. act' = [act EXCEPT ![a] = r]
    BY DEF Attach
  <2> HIDE DEF r
  <2> QED BY <1>0, <2>1, <2>2, ActChanged
<1>4. \A t \in Turns : pc[t] = "collect" => t # a
  BY <1>1 DEF IInv, ClosingInv
<1>5. slot'.task = slot.task /\ slot'.obj = o /\ (slot.obj # None => o = slot.obj)
  BY <1>0, <1>2 DEF SlotType, GetOrInsert
<1>6. \A p \in Objs : Anchored(p) => Anchored(p)'
  BY <1>1, <1>3, <1>4, <1>5, Consts, AnchorsStay DEF Holding, IInv, SlotInv
<1>7. \A p \in Objs : pending[p] \subseteq pending'[p]
  BY <1>0, <1>2 DEF QueueType
<1>8. InputKept'
  BY <1>1, <1>6, <1>7, KeptMoves DEF Logs
<1>9. StartAlone'
  <2>1. slot.task = None /\ (slot.obj # None => \A b \in Actors : act[b].obj # slot.obj)
    BY <1>1 DEF StartAlone, Starting
  <2>2. \A b \in Actors : act[b].obj # o
    BY <1>2, <2>1 DEF GetOrInsert, Fresh, Held
  <2>3. \A b \in Actors : act'[b].obj # o
    BY <1>3, <2>2
  <2> QED BY <1>5, <2>1, <2>3 DEF StartAlone
<1> QED BY <1>8, <1>9

\* The task is installed; one that was there is dropped with what it holds.
LEMMA InstallKeeps ==
    ASSUME IInv, InputKept, StartAlone, OneStarter, NEW a \in Actors, Install(a)
    PROVE  InputKept' /\ StartAlone'
<1>0. ActType /\ QueueType /\ SlotType /\ TaskType /\ TurnType
  BY DEF IInv, TypeOK
<1>1. /\ act[a].pc = "install" /\ UNCHANGED <<pending, history, accepted>>
      /\ nturns < MaxTurns /\ nturns + 1 \in Turns
  BY <1>0, Consts DEF Install, queueVars, TurnType
<1>2. PICK o \in Objs : GetOrInsert(o) /\ slot' = [obj |-> o, task |-> nturns + 1]
  BY DEF Install
<1>3. /\ act'[a].pc = "idle" /\ act'[a].obj = None /\ \A b \in Actors \ {a} : act'[b] = act[b]
  BY <1>0, RestActor DEF Install
<1>4. slot.task = None /\ discarded' = discarded
  BY <1>1 DEF StartAlone, Starting, Install
<1>5. pc[nturns + 1] = "none" /\ hand[nturns + 1] = {}
  BY <1>0, <1>1 DEF IInv, NewInv, HandInv, TurnType
<1>6. \A t \in Turns \ {nturns + 1} : pc'[t] = pc[t] /\ hand'[t] = hand[t]
  BY <1>4, Consts DEF Install
<1>7. \A t \in Turns : pc[t] = "collect" => t # a /\ pc'[t] = "collect"
  BY <1>1, <1>5, <1>6 DEF IInv, ClosingInv
<1>8. \A p \in Objs : Anchored(p) => Anchored(p)'
  BY <1>1, <1>3, <1>4, <1>7, Consts, AnchorsStay DEF Holding
<1>9. InputKept'
  BY <1>1, <1>4, <1>5, <1>6, <1>8, KeptMoves DEF Logs
<1>10. StartAlone'
  <2>1. \A b \in Actors : ~Starting(b)'
    BY <1>1, <1>3 DEF OneStarter, Starting
  <2> QED BY <2>1 DEF StartAlone
<1> QED BY <1>9, <1>10

-----------------------------------------------------------------------------
(* Steps of the clients, and the theorem.                                  *)

\* Input is accepted for a task that is in the slot.
LEMMA AcceptKeeps ==
    ASSUME IInv, InputKept, StartAlone, NEW u \in Items, AcceptSteer(u)
    PROVE  InputKept' /\ StartAlone'
<1>0. QueueType /\ SlotType
  BY DEF IInv, TypeOK
<1>1. /\ slot.task # None /\ slot.obj \in Objs /\ accepted' = accepted \cup {u}
      /\ pending' = [pending EXCEPT ![slot.obj] = @ \cup {u}]
      /\ UNCHANGED <<slot, pc, hand, act, history, discarded>>
  BY <1>0 DEF AcceptSteer, Steerable, Extend, taskVars, IInv, SlotInv, SlotType
<1>2. (\A o \in Objs : pending[o] \subseteq pending'[o]) /\ u \in pending'[slot.obj]
  BY <1>0, <1>1 DEF QueueType
<1>3. (\A o \in Objs : Anchored(o) => Anchored(o)') /\ Anchored(slot.obj)'
  BY <1>1 DEF Anchored, Holding
<1>4. Logs' = Logs
  BY <1>1 DEF Logs
<1>5. InputKept'
  <2> SUFFICES ASSUME NEW x \in accepted'
               PROVE  \/ x \in Logs' \/ \E t \in Turns : x \in hand'[t]
                      \/ \E o \in Objs : x \in pending'[o] /\ Anchored(o)'
    BY DEF InputKept
  <2>1. CASE x = u
    BY <1>1, <1>2, <1>3, <2>1
  <2>2. CASE x \in accepted
    BY <1>1, <1>2, <1>3, <1>4, <2>2 DEF InputKept
  <2> QED BY <1>1, <2>1, <2>2
<1>6. StartAlone'
  BY <1>1 DEF StartAlone, Starting
<1> QED BY <1>5, <1>6

\* An operation makes the idle submission loop begin.
LEMMA LoopKeeps ==
    ASSUME IInv, InputKept, StartAlone, act[Loop].pc = "idle", act'[Loop].pc \in {"take", "check"},
           act'[Loop].obj \in {act[Loop].obj, None}, \A b \in Actors \ {Loop} : act'[b] = act[b],
           UNCHANGED <<slot, pending, taskVars, logVars>>
    PROVE  InputKept' /\ StartAlone'
<1>1. \A o \in Objs : Anchored(o) => Anchored(o)'
  BY Consts, AnchorsStay DEF Holding, taskVars
<1>2. \A b \in Actors : Starting(b)' => Starting(b)
  BY DEF Starting
<1>3. InputKept'
  BY <1>1, KeptMoves DEF Logs, taskVars, logVars
<1> QED BY <1>2, <1>3, StartMoves

LEMMA ClientKeeps ==
    ASSUME IInv, InputKept, StartAlone, ClientStep
    PROVE  InputKept' /\ StartAlone'
<1>0. ActType /\ QueueType /\ SlotType
  BY DEF IInv, TypeOK
<1>1. ASSUME NEW u \in Users, SteerUserInput(u) PROVE InputKept' /\ StartAlone'
  BY <1>1, Consts, AcceptKeeps DEF SteerUserInput
<1>2. ASSUME NEW s \in Steers, Steer(s) PROVE InputKept' /\ StartAlone'
  BY <1>2, Consts, AcceptKeeps DEF Steer
<1>3. ASSUME NEW u \in Users, RefuseUserInput(u) PROVE InputKept' /\ StartAlone'
  BY <1>3, NothingMoves DEF RefuseUserInput, queueVars, taskVars, logVars, Logs
<1>4. ASSUME NEW op, NEW what \in {"regular", "compact"}, NEW input \in SUBSET Items,
             SpawnTask(op, what, input)
      PROVE  InputKept' /\ StartAlone'
  <2> DEFINE r == [Resting EXCEPT !.pc = "take", !.then = "gather", !.new = what, !.input = input]
  <2>1. r \in ActRecord /\ r.pc = "take" /\ r.obj = None
    BY Consts DEF Resting, ActRecord, Steps
  <2>2. act' = [act EXCEPT ![Loop] = r]
    BY <1>4 DEF SpawnTask
  <2> HIDE DEF r
  <2>3. act'[Loop].pc = "take" /\ act'[Loop].obj = None /\ \A b \in Actors \ {Loop} : act'[b] = act[b]
    BY <1>0, <2>1, <2>2, Consts, ActChanged
  <2> QED BY <1>4, <2>3, LoopKeeps DEF SpawnTask, Submit, queueVars
<1>5. ASSUME NEW x \in Interrupts, Interrupt(x) PROVE InputKept' /\ StartAlone'
  <2> DEFINE r == [Resting EXCEPT !.pc = "take", !.then = "check"]
  <2>1. r \in ActRecord /\ r.pc = "take" /\ r.obj = None
    BY Consts DEF Resting, ActRecord, Steps
  <2>2. act' = [act EXCEPT ![Loop] = r]
    BY <1>5 DEF Interrupt
  <2> HIDE DEF r
  <2>3. act'[Loop].pc = "take" /\ act'[Loop].obj = None /\ \A b \in Actors \ {Loop} : act'[b] = act[b]
    BY <1>0, <2>1, <2>2, Consts, ActChanged
  <2> QED BY <1>5, <2>3, LoopKeeps DEF Interrupt, Submit, queueVars
<1>6. ASSUME NEW m \in Mails, ReceiveMail(m) PROVE InputKept' /\ StartAlone'
  <2>1. CASE m \in Trigger
    <3>1. Go(Loop, "check") /\ "check" \in Steps
      BY <1>6, <2>1 DEF ReceiveMail, Steps
    <3>2. /\ act'[Loop].pc = "check" /\ act'[Loop].obj = act[Loop].obj
          /\ \A b \in Actors \ {Loop} : act'[b] = act[b]
      BY <1>0, <3>1, Consts, GoActor
    <3> QED BY <1>6, <3>2, LoopKeeps DEF ReceiveMail, Submit
  <2>2. CASE m \notin Trigger
    BY <1>6, <2>2, NothingMoves DEF ReceiveMail, taskVars, logVars, Logs
  <2> QED BY <2>1, <2>2
<1>7. ASSUME NEW j \in Injects, Inject(j) PROVE InputKept' /\ StartAlone'
  <2>1. UNCHANGED <<slot, act, pc, hand, accepted, discarded>>
    BY <1>7 DEF Inject, taskVars
  <2>2. CASE slot.obj # None
    <3>1. UNCHANGED history /\ \A o \in Objs : pending[o] \subseteq pending'[o]
      BY <1>0, <1>7, <2>2 DEF Inject, Extend, QueueType
    <3> QED BY <2>1, <3>1, NothingMoves DEF Logs
  <2>3. CASE slot.obj = None
    <3>1. UNCHANGED pending /\ history' = history \cup {j}
      BY <1>7, <2>3 DEF Inject, queueVars
    <3> QED BY <2>1, <3>1, NothingMoves DEF Logs
  <2> QED BY <2>2, <2>3
<1>8. ASSUME NEW u \in Users, StartUserTurn(u) PROVE InputKept' /\ StartAlone'
  BY <1>4, <1>8, Consts DEF StartUserTurn
<1>9. ASSUME NEW c \in Compacts, Compact(c) PROVE InputKept' /\ StartAlone'
  BY <1>4, <1>9 DEF Compact
<1> QED BY <1>1, <1>2, <1>3, <1>5, <1>6, <1>7, <1>8, <1>9 DEF ClientStep

\* Every step keeps what was accepted, as long as turns start one at a time.
LEMMA NextKeeps ==
    ASSUME IInv, InputKept, StartAlone, OneStarter, OneStarter', [Next]_vars
    PROVE  InputKept' /\ StartAlone'
<1>1. ASSUME NEW a \in Actors, ActorStep(a) PROVE InputKept' /\ StartAlone'
  BY <1>1, TakeTurnKeeps, AbortKeeps, ClearPendingKeeps, CheckMailKeeps, ReserveKeeps,
     GatherKeeps, AttachKeeps, InstallKeeps DEF ActorStep
<1>2. ASSUME NEW t \in Turns, TaskStep(t) PROVE InputKept' /\ StartAlone'
  BY <1>2, TaskKeeps, DrainKeeps, FinishKeeps, CollectKeeps, ReleaseKeeps DEF TaskStep
<1>3. CASE UNCHANGED vars
  BY <1>3, NothingMoves DEF vars, queueVars, taskVars, logVars, Logs
<1> QED BY <1>1, <1>2, <1>3, ClientKeeps, GuardianKeeps DEF Next

\* As long as turns are started one at a time, input that steer_input accepted is
\* never forgotten: it is recorded, dropped with a task or a turn that was cut
\* off, in the hands of a task, or in an object that the active task, the
\* actor that aborts it or the finishing turn is going to look into (steer_input,
\* on_task_finished and handle_task_abort).
THEOREM AcceptedInputKept == Spec /\ []OneStarter => []InputKept
<1>1. Init => InputKept /\ StartAlone
  <2> SUFFICES ASSUME Init PROVE InputKept /\ StartAlone
    OBVIOUS
  <2>1. accepted = {} /\ \A a \in Actors : act[a].pc = "idle"
    BY DEF Init, Resting
  <2> QED BY <2>1 DEF InputKept, StartAlone, Starting
<1>2. IInv /\ InputKept /\ StartAlone /\ OneStarter /\ OneStarter' /\ [Next]_vars
        => InputKept' /\ StartAlone'
  BY NextKeeps
<1> QED BY <1>1, <1>2, SessionInvariant, PTL DEF Spec
=============================================================================
