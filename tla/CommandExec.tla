----------------------------- MODULE CommandExec -----------------------------
(***************************************************************************)
(* The command/exec requests of the Codex app server                       *)
(* (app-server/src/command_exec.rs; process_exec_processor.rs is built the *)
(* same way) as handlers of RequestQueues, together with the driver task   *)
(* of each command and the cleanup of a closed connection.                 *)
(*                                                                         *)
(* A command is named by the request that started it.  Its driver is       *)
(* run_command: it takes control requests, kills the child when the time   *)
(* is up, and after the exit drains the output, answers the start request  *)
(* and removes the session.  Whether the child reads its input, and so     *)
(* whether a write goes through, is up to the child.                       *)
(***************************************************************************)
EXTENDS RequestQueues

CONSTANTS
    Starts,       \* command/exec requests; the others are command/exec/write,
                  \* resize or terminate requests
    CtlCap        \* capacity of a command's control channel

\* All requests come from connections and are serialized exclusively by
\* connection and process id, except for starts without a process id.
ASSUME CommandAssumption ==
    /\ Starts \subseteq Requests /\ CtlCap \in Nat \ {0}
    /\ Gated = Requests /\ SharedRead = {} /\ Requests \ Starts \subseteq Keyed
    /\ \A q, r \in Keyed : KeyOf[q] = KeyOf[r] => ConnOf[q] = ConnOf[r]
    /\ {"closer", "none"} \cap Requests = {}

VARIABLES
    sess,         \* commands whose control channel is in the sessions map
    hpc,          \* request -> place in its handler
    target,       \* request -> command whose control_tx its handler cloned
    ctl,          \* command -> control channel: requests, or Closer
    drv,          \* command -> place in run_command
    child,        \* command -> its operating system process
    ans,          \* request -> result of its control request
    doomed,       \* connection -> commands its cleanup must still terminate
    cleaned       \* connections whose cleanup of commands is over

procVars == <<sess, hpc, target, ctl, drv, child, ans, doomed, cleaned>>
allVars  == <<vars, procVars>>

\* Terminate requests of connection_closed, which nobody waits for.
Closer == "closer"
NoCommand == "none"

\* Requests without a client-supplied process id get a generated, unique one.
SamePid(r, p) == IF r \in Keyed THEN p \in Keyed /\ KeyOf[p] = KeyOf[r] ELSE p = r

ExecInit ==
    /\ Init
    /\ sess = {}
    /\ hpc = [r \in Requests |-> "begin"]
    /\ target = [r \in Requests |-> NoCommand]
    /\ ctl = [r \in Requests |-> <<>>]
    /\ drv = [r \in Requests |-> "none"]
    /\ child = [r \in Requests |-> "none"]
    /\ ans = [r \in Requests |-> "none"]
    /\ doomed = [c \in Conns |-> {}]
    /\ cleaned = {}

(***************************************************************************)
(* CommandExecManager::start                                               *)
(***************************************************************************)
InHandler(r, ops, pc) == st[r] = "running" /\ r \in ops /\ hpc[r] = pc

\* The id is in use, or a parameter (which is not modelled) is refused.
StartRejected(r) ==
    /\ InHandler(r, Starts, "begin")
    /\ ans' = [ans EXCEPT ![r] = "err"]
    /\ Finish(r)
    /\ UNCHANGED <<sess, hpc, target, ctl, drv, child, doomed, cleaned>>

StartOverwrites(r) ==
    /\ InHandler(r, Starts, "begin")
    /\ sess' = {p \in sess : ~SamePid(r, p)} \cup {r}
    /\ hpc' = [hpc EXCEPT ![r] = "spawn"]
    /\ UNCHANGED <<vars, target, ctl, drv, child, ans, doomed, cleaned>>

\* The session is registered before the child is spawned.
StartRegisters(r) ==
    /\ InHandler(r, Starts, "begin")
    /\ \A p \in sess : ~SamePid(r, p)
    /\ sess' = sess \cup {r}
    /\ hpc' = [hpc EXCEPT ![r] = "spawn"]
    /\ UNCHANGED <<vars, target, ctl, drv, child, ans, doomed, cleaned>>

StartSpawned(r) ==
    /\ InHandler(r, Starts, "spawn")
    /\ drv' = [drv EXCEPT ![r] = "loop"]
    /\ child' = [child EXCEPT ![r] = "alive"]
    /\ Finish(r)
    /\ UNCHANGED <<sess, hpc, target, ctl, ans, doomed, cleaned>>

StartFails(r) ==
    /\ InHandler(r, Starts, "spawn")
    /\ sess' = {p \in sess : ~SamePid(r, p)}
    /\ ctl' = [ctl EXCEPT ![r] = <<>>]
    /\ drv' = [drv EXCEPT ![r] = "ended"]
    /\ ans' = [ans EXCEPT ![r] = "err"]
    /\ Finish(r)
    /\ UNCHANGED <<hpc, target, child, doomed, cleaned>>

(***************************************************************************)
(* CommandExecManager::send_control for write, resize and terminate        *)
(***************************************************************************)
Controls == Requests \ Starts

LookUp(r) ==
    /\ InHandler(r, Controls, "begin")
    /\ \E p \in sess :
          /\ SamePid(r, p)
          /\ target' = [target EXCEPT ![r] = p]
    /\ hpc' = [hpc EXCEPT ![r] = "send"]
    /\ UNCHANGED <<vars, sess, ctl, drv, child, ans, doomed, cleaned>>

\* No session of this id, or a parameter (which is not modelled) is refused.
ControlRejected(r) ==
    /\ InHandler(r, Controls, "begin")
    /\ ans' = [ans EXCEPT ![r] = "err"]
    /\ Finish(r)
    /\ UNCHANGED <<sess, hpc, target, ctl, drv, child, doomed, cleaned>>

\* run_command, or start until it hands it over, owns the receiver.
ReceiverGone(p) == drv[p] \in {"returned", "ended"}

Send(r) ==
    /\ InHandler(r, Controls, "send")
    /\ ~ReceiverGone(target[r])
    /\ Len(ctl[target[r]]) < CtlCap
    /\ ctl' = [ctl EXCEPT ![target[r]] = Append(@, r)]
    /\ hpc' = [hpc EXCEPT ![r] = "wait"]
    /\ UNCHANGED <<vars, sess, target, drv, child, ans, doomed, cleaned>>

SendFails(r) ==
    /\ InHandler(r, Controls, "send")
    /\ ReceiverGone(target[r])
    /\ ans' = [ans EXCEPT ![r] = "err"]
    /\ Finish(r)
    /\ UNCHANGED <<sess, hpc, target, ctl, drv, child, doomed, cleaned>>

Answered(r) ==
    /\ InHandler(r, Controls, "wait")
    /\ ans[r] # "none"
    /\ Finish(r)
    /\ UNCHANGED procVars

(***************************************************************************)
(* run_command                                                             *)
(***************************************************************************)
Kill(p) == child' = [child EXCEPT ![p] = IF @ = "alive" THEN "dying" ELSE @]

TakeControl(p) ==
    /\ drv[p] = "loop" /\ ctl[p] # <<>>
    /\ ctl' = [ctl EXCEPT ![p] = Tail(@)]

\* Which control a request carries is chosen when the driver takes it.
TakeTerminate(p) ==
    /\ TakeControl(p)
    /\ Kill(p)
    /\ ans' = IF Head(ctl[p]) = Closer THEN ans ELSE [ans EXCEPT ![Head(ctl[p])] = "ok"]
    /\ UNCHANGED <<vars, sess, hpc, target, drv, doomed, cleaned>>

TakeResize(p) ==
    /\ TakeControl(p)
    /\ Head(ctl[p]) # Closer
    /\ \E a \in {"ok", "err"} : ans' = [ans EXCEPT ![Head(ctl[p])] = a]
    /\ UNCHANGED <<vars, sess, hpc, target, drv, child, doomed, cleaned>>

\* handle_process_write awaits room in the channel of the child's input, in
\* the body of the select: until then the loop takes no other event.
TakeWrite(p) ==
    /\ drv[p] = "loop" /\ ctl[p] # <<>>
    /\ Head(ctl[p]) # Closer
    /\ drv' = [drv EXCEPT ![p] = "write"]
    /\ UNCHANGED <<vars, sess, hpc, target, ctl, child, ans, doomed, cleaned>>

\* Written, or refused because input is closed or not streamed.
WriteDone(p) ==
    /\ drv[p] = "write"
    /\ drv' = [drv EXCEPT ![p] = "loop"]
    /\ ctl' = [ctl EXCEPT ![p] = Tail(@)]
    /\ \E a \in {"ok", "err"} : ans' = [ans EXCEPT ![Head(ctl[p])] = a]
    /\ UNCHANGED <<vars, sess, hpc, target, child, doomed, cleaned>>

\* control_rx.recv() returns None: no sender is left.
ControlClosed(p) ==
    /\ drv[p] = "loop" /\ ctl[p] = <<>>
    /\ p \notin sess /\ \A c \in Conns : p \notin doomed[c]
    /\ \A r \in Requests : target[r] = p => st[r] # "running"
    /\ child[p] = "alive"
    /\ Kill(p)
    /\ UNCHANGED <<vars, sess, hpc, target, ctl, drv, ans, doomed, cleaned>>

Expire(p) ==
    /\ drv[p] = "loop" /\ child[p] = "alive"
    /\ Kill(p)
    /\ UNCHANGED <<vars, sess, hpc, target, ctl, drv, ans, doomed, cleaned>>

SeeExit(p) ==
    /\ drv[p] = "loop" /\ child[p] = "gone"
    /\ drv' = [drv EXCEPT ![p] = "flush"]
    /\ UNCHANGED <<vars, sess, hpc, target, ctl, child, ans, doomed, cleaned>>

ReturnForgetsWaiters(p) ==
    /\ drv[p] = "flush"
    /\ drv' = [drv EXCEPT ![p] = "returned"]
    /\ ans' = [ans EXCEPT ![p] = "ok"]
    /\ ctl' = [ctl EXCEPT ![p] = <<>>]
    /\ UNCHANGED <<vars, sess, hpc, target, child, doomed, cleaned>>

\* Both output tasks have ended (at the latest IO_DRAIN_TIMEOUT_MS after the
\* exit), the start request is answered and run_command returns, which drops
\* the control channel and fails what is still in it.
Return(p) ==
    /\ drv[p] = "flush"
    /\ drv' = [drv EXCEPT ![p] = "returned"]
    /\ ans' = [r \in Requests |->
                 IF r = p THEN "ok"
                 ELSE IF \E i \in 1..Len(ctl[p]) : ctl[p][i] = r THEN "err" ELSE ans[r]]
    /\ ctl' = [ctl EXCEPT ![p] = <<>>]
    /\ UNCHANGED <<vars, sess, hpc, target, child, doomed, cleaned>>

RemoveSession(p) ==
    /\ drv[p] = "returned"
    /\ sess' = {q \in sess : ~SamePid(p, q)}
    /\ drv' = [drv EXCEPT ![p] = "ended"]
    /\ UNCHANGED <<vars, hpc, target, ctl, child, ans, doomed, cleaned>>

ChildExits(p) ==
    /\ child[p] \in {"alive", "dying"}
    /\ child' = [child EXCEPT ![p] = "gone"]
    /\ UNCHANGED <<vars, sess, hpc, target, ctl, drv, ans, doomed, cleaned>>

(***************************************************************************)
(* CommandExecManager::connection_closed, run by the cleanup task          *)
(***************************************************************************)
CleanupOthers(c) ==
    /\ conn[c] \in {"drained", "timedout"} /\ c \notin cleaned
    /\ doomed' = [doomed EXCEPT ![c] = {p \in sess : ConnOf[p] # c}]
    /\ sess' = {p \in sess : ConnOf[p] = c}
    /\ cleaned' = cleaned \cup {c}
    /\ UNCHANGED <<vars, hpc, target, ctl, drv, child, ans>>

Cleanup(c) ==
    /\ conn[c] \in {"drained", "timedout"} /\ c \notin cleaned
    /\ doomed' = [doomed EXCEPT ![c] = {p \in sess : ConnOf[p] = c}]
    /\ sess' = {p \in sess : ConnOf[p] # c}
    /\ cleaned' = cleaned \cup {c}
    /\ UNCHANGED <<vars, hpc, target, ctl, drv, child, ans>>

SendTerminate(c, p) ==
    /\ p \in doomed[c]
    /\ ReceiverGone(p) \/ Len(ctl[p]) < CtlCap
    /\ ctl' = IF ReceiverGone(p) THEN ctl ELSE [ctl EXCEPT ![p] = Append(@, Closer)]
    /\ doomed' = [doomed EXCEPT ![c] = @ \ {p}]
    /\ UNCHANGED <<vars, sess, hpc, target, drv, child, ans, cleaned>>

HandleStep(r) ==
    \/ StartRejected(r) \/ StartRegisters(r) \/ StartSpawned(r) \/ StartFails(r)
    \/ LookUp(r) \/ ControlRejected(r) \/ Send(r) \/ SendFails(r) \/ Answered(r)

DriverStep(p) ==
    \/ TakeTerminate(p) \/ TakeResize(p) \/ TakeWrite(p) \/ ControlClosed(p)
    \/ SeeExit(p) \/ Return(p) \/ RemoveSession(p)

ExecNext ==
    \/ (QueueStep \/ ConnStep) /\ UNCHANGED procVars
    \/ \E r \in Requests : HandleStep(r)
    \/ \E p \in Requests : DriverStep(p) \/ WriteDone(p) \/ Expire(p) \/ ChildExits(p)
    \/ \E c \in Conns : Cleanup(c) \/ \E p \in Requests : SendTerminate(c, p)

(***************************************************************************)
(* tokio polls ready tasks, a killed child exits, and writing to a child   *)
(* that is gone fails.  Nothing makes a living child read its input or     *)
(* exit, and a command may run without a time limit (disableTimeout).      *)
(***************************************************************************)
ExecFairness ==
    /\ \A r \in Requests :
          /\ WF_allVars((Enter(r) \/ Refuse(r)) /\ UNCHANGED procVars)
          /\ WF_allVars(HandleStep(r))
          /\ WF_allVars((Take(r) \/ Joined(r) \/ Retire(r)) /\ UNCHANGED procVars)
    /\ \A p \in Requests :
          /\ WF_allVars(DriverStep(p))
          /\ WF_allVars(child[p] = "gone" /\ WriteDone(p))
          /\ WF_allVars(child[p] = "dying" /\ ChildExits(p))
    /\ \A c \in Conns :
          /\ WF_allVars(Drained(c) /\ UNCHANGED procVars)
          /\ WF_allVars(Cleanup(c))
          /\ \A p \in Requests : WF_allVars(SendTerminate(c, p))

ExecSpec == ExecInit /\ [][ExecNext]_allVars /\ ExecFairness

(***************************************************************************)
(* Properties                                                              *)
(***************************************************************************)
\* As long as its connection has not been cleaned up, a command that runs can
\* be reached under its process id: its session is in the map, and no other
\* command of that id is.
Reachable == \A p \in Requests :
    drv[p] \in {"loop", "write", "flush"} /\ ConnOf[p] \notin cleaned
    => p \in sess /\ \A q \in sess : SamePid(p, q) => q = p

\* Provided that children do not stop reading for good, every handler that
\* was started returns: nobody waits forever for a control request, be it
\* taken, still in the channel when the driver returns, or sent too late.
HandlersReturn ==
    (\A p \in Requests : []<>(drv[p] # "write"))
    => \A r \in Requests : st[r] = "running" ~> st[r] \in Over

\* When the cleanup of a closed connection found its handlers finished, every
\* command of that connection comes to its end, even one that has no time
\* limit and never exits by itself.
DrainedCommandsEnd == \A p \in Requests :
    conn[ConnOf[p]] = "drained" ~> drv[p] \in {"none", "ended"}
=============================================================================
