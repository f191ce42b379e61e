---------------------------- MODULE RolloutWriter ----------------------------
(***************************************************************************)
(* The rollout recorder of Codex (rollout/src/recorder.rs and ordinal.rs): *)
(* callers queue items and barriers (persist, flush, shutdown) for a       *)
(* writer task that owns the JSONL file of a session with paginated        *)
(* history, i.e. with an ordinal on every line.                            *)
(*                                                                         *)
(* Opening and writing may fail, and a failed write may leave any part of  *)
(* its line in the file.  The process may die between any two steps; the   *)
(* session is then resumed from the file.  Items are numbered in the order *)
(* in which they enter the channel, item 0 is the session metadata.        *)
(***************************************************************************)
EXTENDS Naturals, Sequences

CONSTANTS
    ChanCap,      \* capacity of the command channel
    MaxOrdinal,   \* largest ordinal (u64::MAX)
    Prefix,       \* items copied from the parent of a subagent:
                  \* subagent_history_start_ordinal is Prefix + 1
    MaxItems,     \* bound: items recorded
    MaxFaults,    \* bound: failures of the file system
    MaxCrashes    \* bound: times the process dies

ASSUME RolloutAssumption ==
    /\ ChanCap \in Nat \ {0} /\ MaxOrdinal \in Nat /\ Prefix \in Nat
    /\ MaxItems \in Nat /\ MaxFaults \in Nat /\ MaxCrashes \in Nat

VARIABLES
    file,         \* lines of the file: [ok, ord, item]; a torn line is not ok
    nl,           \* the file is empty or ends with a newline
    up,           \* the writer task is running
    dropped,      \* all senders of the channel are gone
    writer,       \* "deferred", "closed" or "open"
    meta,         \* the session metadata is still to be written
    pending,      \* pending_items
    next,         \* ordinal_state: next ordinal; MaxOrdinal + 1 after overflow
    chan,         \* commands in the channel: [op, n] where n is the last item
                  \* recorded before it (for "add": the item it carries)
    cmd,          \* command the task is working on
    pc,           \* place of the task in the code
    attempt,      \* 1 or 2: tries of write_pending_with_recovery
    sent, lost, acked,   \* history, as in RolloutLog
    faults, crashes

fileVars == <<file, nl>>
taskVars == <<writer, meta, pending, next, cmd, pc, attempt>>
histVars == <<sent, lost, acked>>
vars == <<file, nl, up, dropped, writer, meta, pending, next, chan, cmd, pc, attempt,
          sent, lost, acked, faults, crashes>>

Ops == {"add", "persist", "flush", "shutdown"}
Line == [ok : BOOLEAN, ord : 0..MaxOrdinal, item : 0..MaxItems]
Torn == [ok |-> FALSE, ord |-> 0, item |-> 0]

\* The log a reader finds in the file: the lines that parse.
Log == {<<file[i].ord, file[i].item>> : i \in {j \in 1..Len(file) : file[j].ok}}
LoggedItems == {p[2] : p \in Log}
Unlogged(n) == (0..n) \ LoggedItems

Init ==
    /\ file = <<>> /\ nl = TRUE
    /\ up = TRUE /\ dropped = FALSE
    /\ writer = "deferred" /\ meta = TRUE /\ pending = <<>> /\ next = 0
    /\ chan = <<>> /\ cmd = [op |-> "add", n |-> 0] /\ pc = "recv" /\ attempt = 1
    /\ sent = 0 /\ lost = {} /\ acked = {}
    /\ faults = 0 /\ crashes = 0

(***************************************************************************)
(* Callers                                                                 *)
(***************************************************************************)
\* record_canonical_items
Record ==
    /\ up /\ ~dropped /\ Len(chan) < ChanCap /\ sent < MaxItems
    /\ sent' = sent + 1
    /\ chan' = Append(chan, [op |-> "add", n |-> sent + 1])
    /\ UNCHANGED <<fileVars, up, dropped, taskVars, lost, acked, faults, crashes>>

\* persist, flush and shutdown queue a command and wait for its answer.
Barrier(op) ==
    /\ up /\ ~dropped /\ Len(chan) < ChanCap
    /\ \A i \in 1..Len(chan) : chan[i].op = "add"   \* bound: one barrier at a time
    /\ chan' = Append(chan, [op |-> op, n |-> sent])
    /\ UNCHANGED <<fileVars, up, dropped, taskVars, histVars, faults, crashes>>

DropRecorder ==
    /\ up /\ ~dropped
    /\ dropped' = TRUE
    /\ UNCHANGED <<fileVars, up, taskVars, chan, histVars, faults, crashes>>

(***************************************************************************)
(* rollout_writer                                                          *)
(***************************************************************************)
Deferred == writer = "deferred"

Receive ==
    /\ up /\ pc = "recv" /\ chan # <<>>
    /\ cmd' = Head(chan) /\ chan' = Tail(chan) /\ attempt' = 1
    /\ \/ /\ Head(chan).op = "add"
          /\ pending' = Append(pending, Head(chan).n)
          /\ pc' = IF Deferred THEN "recv" ELSE "open"
       \/ /\ Head(chan).op = "persist"
          /\ pc' = "open" /\ pending' = pending
       \/ /\ Head(chan).op \in {"flush", "shutdown"}
          /\ pc' = IF Deferred /\ pending = <<>> THEN "ok" ELSE "open"
          /\ pending' = pending
    /\ UNCHANGED <<fileVars, up, dropped, writer, meta, next, histVars, faults, crashes>>

\* All senders are gone and the channel is empty: the task ends, and items
\* that were never persisted with it.
Hangup ==
    /\ up /\ pc = "recv" /\ chan = <<>> /\ dropped
    /\ up' = FALSE
    /\ lost' = Unlogged(sent)
    /\ UNCHANGED <<fileVars, dropped, taskVars, chan, sent, acked, faults, crashes>>

\* enter_recovery_mode, and the second try of write_pending_with_recovery.
Failed ==
    /\ writer' = IF writer = "open" THEN "closed" ELSE writer
    /\ pc' = IF attempt = 1 THEN "open" ELSE "err"
    /\ attempt' = 2

FaultHappens == faults < MaxFaults /\ faults' = faults + 1

\* ensure_writer_open: opens the file if needed and terminates its last line.
Open ==
    /\ up /\ pc = "open"
    /\ writer' = "open" /\ pc' = "meta"
    /\ nl' = IF writer = "open" THEN nl ELSE TRUE
    /\ UNCHANGED <<file, up, dropped, meta, pending, next, chan, cmd, attempt, histVars, faults, crashes>>

OpenFails ==
    /\ up /\ pc = "open" /\ writer # "open"
    /\ FaultHappens /\ Failed
    /\ nl' \in {nl, TRUE}
    /\ UNCHANGED <<file, up, dropped, meta, pending, next, chan, cmd, histVars, crashes>>

\* Bytes that follow an unterminated line become part of it.
Put(line, terminated) ==
    /\ file' = IF nl THEN Append(file, line) ELSE [file EXCEPT ![Len(file)] = Torn]
    /\ nl' = terminated

Row(i) == [ok |-> TRUE, ord |-> next, item |-> i]

\* A failed write leaves nothing, a part of the line, all but its newline,
\* or all of it (the error then comes from flushing).
PutFails(i) ==
    /\ FaultHappens
    /\ \/ UNCHANGED fileVars
       \/ Put(Torn, FALSE)
       \/ \E terminated \in BOOLEAN : Put(Row(i), terminated)

AdvanceWrapping == next' = (next + 1) % (MaxOrdinal + 1)

\* checked_add: no ordinal after the last one.
Advance == next' = next + 1

WriteMeta ==
    /\ up /\ pc = "meta"
    /\ \/ /\ meta /\ next <= MaxOrdinal
          /\ Put(Row(0), TRUE)
          /\ Advance /\ meta' = FALSE
       \/ ~meta /\ UNCHANGED <<fileVars, next, meta>>
    /\ pc' = "items"
    /\ UNCHANGED <<up, dropped, writer, pending, chan, cmd, attempt, histVars, faults, crashes>>

WriteMetaFails ==
    /\ up /\ pc = "meta" /\ meta
    /\ PutFails(0) /\ Failed
    /\ UNCHANGED <<up, dropped, meta, pending, next, chan, cmd, histVars, crashes>>

WriteItem ==
    /\ up /\ pc = "items" /\ pending # <<>> /\ next <= MaxOrdinal
    /\ Put(Row(Head(pending)), TRUE)
    /\ Advance
    /\ pending' = Tail(pending)
    /\ UNCHANGED <<up, dropped, writer, meta, chan, cmd, pc, attempt, histVars, faults, crashes>>

WriteItemDropsFailed ==
    /\ up /\ pc = "items" /\ pending # <<>> /\ next <= MaxOrdinal
    /\ PutFails(Head(pending)) /\ Failed
    /\ pending' = Tail(pending)
    /\ UNCHANGED <<up, dropped, meta, next, chan, cmd, histVars, crashes>>

\* The items before the failed one are already off the queue.
WriteItemFails ==
    /\ up /\ pc = "items" /\ pending # <<>> /\ next <= MaxOrdinal
    /\ PutFails(Head(pending)) /\ Failed
    /\ UNCHANGED <<up, dropped, meta, pending, next, chan, cmd, histVars, crashes>>

\* "paginated rollout record ordinal overflow"
Overflow ==
    /\ up /\ pc = "items" /\ pending # <<>> /\ next > MaxOrdinal
    /\ Failed
    /\ UNCHANGED <<fileVars, up, dropped, meta, pending, next, chan, cmd, histVars, faults, crashes>>

Sync ==
    /\ up /\ pc = "items" /\ pending = <<>>
    /\ pc' = "ok"
    /\ UNCHANGED <<fileVars, up, dropped, writer, meta, pending, next, chan, cmd, attempt, histVars, faults, crashes>>

SyncFails ==
    /\ up /\ pc = "items" /\ pending = <<>>
    /\ FaultHappens /\ Failed
    /\ UNCHANGED <<fileVars, up, dropped, meta, pending, next, chan, cmd, histVars, crashes>>

\* The answer to the caller; only a shutdown that succeeded ends the task,
\* and with it what is still in the channel.
Reply ==
    /\ up /\ pc \in {"ok", "err"}
    /\ pc' = "recv"
    /\ acked' = IF pc = "ok" /\ cmd.op # "add" THEN acked \cup ((1..cmd.n) \ lost) ELSE acked
    /\ IF pc = "ok" /\ cmd.op = "shutdown"
       THEN /\ up' = FALSE /\ chan' = <<>>
            /\ lost' = Unlogged(sent)
       ELSE UNCHANGED <<up, chan, lost>>
    /\ UNCHANGED <<fileVars, dropped, writer, meta, pending, next, cmd, attempt, sent, faults, crashes>>

(***************************************************************************)
(* The process dies; the session is resumed, or an item is appended while  *)
(* it is not loaded (append_rollout_item_to_path).                         *)
(***************************************************************************)
Crash ==
    /\ up /\ crashes < MaxCrashes
    /\ crashes' = crashes + 1
    /\ up' = FALSE /\ chan' = <<>> /\ pc' = "recv"
    /\ lost' = Unlogged(sent)
    /\ UNCHANGED <<fileVars, dropped, writer, meta, pending, next, cmd, attempt, sent, acked, faults>>

ResumableUnchecked ==
    /\ ~up /\ file # <<>>
    /\ file[1].ok /\ file[1].item = 0

LastRow == CHOOSE i \in 1..Len(file) : file[i].ok /\ \A j \in 1..Len(file) : file[j].ok => j <= i

\* open_rollout_for_append: the file starts with the session metadata and
\* holds all of the inherited prefix.
Resumable ==
    /\ ~up /\ file # <<>>
    /\ file[1].ok /\ file[1].item = 0
    /\ file[LastRow].ord >= Prefix

Resume ==
    /\ Resumable
    /\ up' = TRUE /\ dropped' = FALSE
    /\ nl' = TRUE /\ writer' = "open" /\ meta' = FALSE /\ pending' = <<>>
    /\ next' = file[LastRow].ord + 1
    /\ pc' = "recv" /\ attempt' = 1
    /\ UNCHANGED <<file, chan, cmd, histVars, faults, crashes>>

\* A rollout that cannot be continued only gets its last line terminated.
ResumeRefused ==
    /\ ~up /\ file # <<>> /\ ~Resumable
    /\ nl' = TRUE
    /\ UNCHANGED <<file, up, dropped, taskVars, chan, histVars, faults, crashes>>

AppendUnloaded ==
    /\ Resumable /\ sent < MaxItems /\ file[LastRow].ord < MaxOrdinal
    /\ sent' = sent + 1
    /\ LET row == [ok |-> TRUE, ord |-> file[LastRow].ord + 1, item |-> sent + 1]
       IN  \/ /\ file' = Append(file, row) /\ nl' = TRUE
              /\ acked' = acked \cup {sent + 1}
              /\ UNCHANGED <<lost, faults>>
           \/ /\ FaultHappens
              /\ \E l \in {Torn, row}, terminated \in BOOLEAN :
                    /\ l = Torn => ~terminated
                    /\ file' = Append(file, l) /\ nl' = terminated
                    /\ lost' = IF l = Torn THEN lost \cup {sent + 1} ELSE lost
              /\ acked' = acked
    /\ UNCHANGED <<up, dropped, taskVars, chan, crashes>>

Next ==
    \/ Record \/ DropRecorder \/ \E op \in Ops \ {"add"} : Barrier(op)
    \/ Receive \/ Hangup \/ Open \/ OpenFails \/ WriteMeta \/ WriteMetaFails
    \/ WriteItem \/ WriteItemFails \/ Overflow \/ Sync \/ SyncFails \/ Reply
    \/ Crash \/ Resume \/ ResumeRefused \/ AppendUnloaded

Spec == Init /\ [][Next]_vars

(***************************************************************************)
(* Properties                                                              *)
(***************************************************************************)
\* Type invariant; the task only writes to a file that ends with a newline.
TypeOK ==
    /\ file \in Seq(Line) /\ nl \in BOOLEAN
    /\ up \in BOOLEAN /\ dropped \in BOOLEAN /\ meta \in BOOLEAN
    /\ writer \in {"deferred", "closed", "open"}
    /\ up /\ writer = "open" => nl
    /\ pending \in Seq(0..MaxItems) /\ next \in 0..(MaxOrdinal + 1)
    /\ chan \in Seq([op : Ops, n : 0..MaxItems]) /\ cmd \in [op : Ops, n : 0..MaxItems]
    /\ pc \in {"recv", "open", "meta", "items", "ok", "err"} /\ attempt \in {1, 2}
    /\ sent \in 0..MaxItems /\ lost \subseteq 0..MaxItems /\ acked \subseteq 0..MaxItems
    /\ faults \in 0..MaxFaults /\ crashes \in 0..MaxCrashes

\* Read as a set of lines that parse, the file is the log of RolloutLog: in
\* spite of torn, repeated and retried lines, of crashes and of resumes, it
\* only grows, item by item in the order of recording, and an answered
\* barrier covers all items recorded before it.
L == INSTANCE RolloutLog WITH log <- Log
KeepsLog == L!Spec

\* Ordinals identify items and leave no gap: two lines that parse and have
\* the same ordinal are copies of the same item.
OrdinalsDense ==
    /\ \A p, q \in Log : p[1] = q[1] => p = q
    /\ \A p \in Log : \A n \in 0..p[1] : \E q \in Log : q[1] = n

\* Records of a subagent never come before the boundary that separates them
\* from what it inherited, even if it died while copying and was resumed.
PrefixIntact == \A p \in Log : p[2] > Prefix => p[1] > Prefix
=============================================================================
