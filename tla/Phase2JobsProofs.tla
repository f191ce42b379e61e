--------------------------- MODULE Phase2JobsProofs ---------------------------
(***************************************************************************)
(* Theorems about Phase2Jobs, for any number of sessions and threads, any  *)
(* lease, backoff and cooldown.                                            *)
(***************************************************************************)
EXTENDS Phase2Jobs, TLAPS

-----------------------------------------------------------------------------
(* The inductive invariant.                                                *)

Job == [pc : Quick \cup {"idle", "agent", "confirm"}, sel : SUBSET Snapshot, saw : SUBSET Snapshot]

\* The types, without what they say of the owner.
DbTypes ==
    /\ source \in [Threads -> 0..MaxSource] /\ output \in [Threads -> 0..MaxSource]
    /\ selected \in [Threads -> 0..MaxSource] /\ enabled \subseteq Threads
    /\ polluting \in [Threads -> {"no", "selected", "unselected", "enqueue"}]
    /\ row \in Row /\ faults \in 0..MaxFaults

WsTypes ==
    /\ ws \subseteq Snapshot /\ base \subseteq Snapshot /\ done \subseteq Snapshot /\ usable \in BOOLEAN
    /\ worker \in [Workers -> Job]

\* A worker in one of its quick steps owns the job, and its lease is running.
HeldBy(w) == worker[w].pc \in Quick => Owns(w) /\ row.lease > 0

\* What the worker knows: the agent was shown what was selected; as long as it
\* owns the job that is what the workspace holds; it only goes on to the new
\* baseline with what an agent has consolidated, and it only changes a
\* workspace whose baseline exists.
Follows(w) ==
    /\ worker[w].pc \in {"agent", "confirm", "reset", "commit"} => worker[w].saw = worker[w].sel
    /\ Owns(w) /\ worker[w].pc \in {"diff", "agent", "confirm", "reset", "commit"} => ws = worker[w].sel
    /\ worker[w].pc \in {"confirm", "reset", "commit", "succeed"} => worker[w].sel \subseteq done
    /\ worker[w].pc \in {"keys", "rows", "sync", "diff"} => usable

\* A baseline that has been removed is made again from what was consolidated.
Baseline == BaselineConsolidated /\ (usable \/ ws \subseteq done)

IInv ==
    /\ DbTypes /\ WsTypes
    /\ \A w \in Workers : HeldBy(w) /\ Follows(w)
    /\ Baseline /\ SelectedConsolidated

-----------------------------------------------------------------------------
(* Rows.                                                                   *)

\* The fields of the row.
LEMMA RowFields ==
    ASSUME NEW r \in Row
    PROVE  /\ r.status \in {"none", "pending", "running", "done", "error"}
           /\ r.owner \in Workers \cup {None}
           /\ r.lease \in 0..Lease /\ r.retry \in 0..Backoff /\ r.cool \in 0..Cooldown
BY DEF Row

\* A heartbeat.
LEMMA RowRenewed ==
    ASSUME NEW r \in Row, NEW s, s = [r EXCEPT !.lease = Lease]
    PROVE  s \in Row /\ s.status = r.status /\ s.owner = r.owner /\ s.lease = Lease
<1>1. s = [status |-> r.status, owner |-> r.owner, lease |-> Lease, retry |-> r.retry, cool |-> r.cool]
  BY DEF Row
<1> QED BY <1>1, RowFields, Phase2Assumption DEF Row

\* The result of a job.
LEMMA RowEnded ==
    ASSUME NEW r \in Row, NEW s,
           \/ s = [r EXCEPT !.status = "done", !.owner = None, !.lease = 0, !.cool = Cooldown]
           \/ s = [r EXCEPT !.status = "error", !.owner = None, !.lease = 0, !.retry = Backoff]
    PROVE  s \in Row /\ s.status # "running"
<1>1. \/ s = [status |-> "done", owner |-> None, lease |-> 0, retry |-> r.retry, cool |-> Cooldown]
      \/ s = [status |-> "error", owner |-> None, lease |-> 0, retry |-> Backoff, cool |-> r.cool]
  BY DEF Row
<1> QED BY <1>1, RowFields, Phase2Assumption DEF Row

\* A job that is enqueued.
LEMMA RowEnqueued ==
    ASSUME row \in Row
    PROVE  Enqueued \in Row /\ (Enqueued.status = "running" \/ row.status = "running" => Enqueued = row)
<1>1. CASE row.status = "running"
  BY <1>1 DEF Enqueued
<1>2. CASE row.status # "running"
  <2>1. Enqueued = [status |-> "pending", owner |-> row.owner, lease |-> row.lease, retry |-> 0,
                    cool |-> row.cool]
    BY <1>2 DEF Enqueued, Row
  <2> QED BY <1>2, <2>1, RowFields, Phase2Assumption DEF Row
<1> QED BY <1>1, <1>2

\* Time passes.
LEMMA RowTicked ==
    ASSUME NEW r \in Row, NEW s,
           s = [r EXCEPT !.lease = Less(@), !.retry = Less(@), !.cool = Less(@)]
    PROVE  s \in Row /\ s.status = r.status /\ s.owner = r.owner /\ s.lease = Less(r.lease)
<1>1. s = [status |-> r.status, owner |-> r.owner, lease |-> Less(r.lease), retry |-> Less(r.retry),
           cool |-> Less(r.cool)]
  BY DEF Row
<1>2. Less(r.lease) \in 0..Lease /\ Less(r.retry) \in 0..Backoff /\ Less(r.cool) \in 0..Cooldown
  BY RowFields, Phase2Assumption DEF Less
<1> QED BY <1>1, <1>2, RowFields DEF Row

-----------------------------------------------------------------------------
(* Steps of a worker.                                                      *)

\* A step of worker w that leaves w in state k: what the step does to the job
\* and to the workspace does not concern the others, because they do not own
\* the job when w changes the workspace.
LEMMA WorkerStep ==
    ASSUME IInv, NEW w \in Workers, NEW k \in Job, worker' = [worker EXCEPT ![w] = k],
           DbTypes', ws' \subseteq Snapshot, base' \subseteq Snapshot, done' \subseteq Snapshot,
           usable' \in BOOLEAN, done \subseteq done',
           \A v \in Workers \ {w} : Owns(v)' => Owns(v),
           \A v \in Workers \ {w} : worker[v].pc \in Quick => Owns(v)' /\ row'.lease > 0,
           ws' = ws \/ Owns(w),
           usable' = usable \/ usable' = TRUE \/ Owns(w),
           k.pc \in Quick => Owns(w)' /\ row'.lease > 0,
           k.pc \in {"agent", "confirm", "reset", "commit"} => k.saw = k.sel,
           Owns(w)' /\ k.pc \in {"diff", "agent", "confirm", "reset", "commit"} => ws' = k.sel,
           k.pc \in {"confirm", "reset", "commit", "succeed"} => k.sel \subseteq done',
           k.pc \in {"keys", "rows", "sync", "diff"} => usable',
           Baseline', SelectedConsolidated'
    PROVE  IInv'
<1>1. worker' \in [Workers -> Job] /\ worker'[w] = k
  BY DEF IInv, WsTypes
<1>2. \A v \in Workers \ {w} : worker'[v] = worker[v]
  BY DEF IInv, WsTypes
<1>3. HeldBy(w)' /\ Follows(w)'
  BY <1>1 DEF HeldBy, Follows
<1>4. ASSUME NEW v \in Workers \ {w} PROVE HeldBy(v)' /\ Follows(v)'
  <2>1. worker'[v] = worker[v]
    BY <1>2
  <2>2. HeldBy(v)'
    BY <2>1 DEF HeldBy
  <2>3. Owns(v) => ~Owns(w)
    BY DEF Owns
  <2>4. worker[v].pc \in Quick => Owns(v)
    BY DEF IInv, HeldBy
  <2>5. Owns(v)' /\ worker[v].pc \in {"diff", "agent", "confirm", "reset", "commit"} => ws' = worker[v].sel
    BY <2>3 DEF IInv, Follows
  <2>6. worker[v].pc \in {"keys", "rows", "sync", "diff"} => usable'
    <3>1. worker[v].pc \in {"keys", "rows", "sync", "diff"} => usable /\ Owns(v)
      BY <2>4 DEF IInv, Follows, Quick
    <3> QED BY <2>3, <3>1
  <2>7. worker[v].pc \in {"confirm", "reset", "commit", "succeed"} => worker[v].sel \subseteq done'
    BY DEF IInv, Follows
  <2>8. worker[v].pc \in {"agent", "confirm", "reset", "commit"} => worker[v].saw = worker[v].sel
    BY DEF IInv, Follows
  <2> QED BY <2>1, <2>2, <2>5, <2>6, <2>7, <2>8 DEF Follows
<1>5. WsTypes'
  BY <1>1 DEF WsTypes
<1> QED BY <1>3, <1>4, <1>5 DEF IInv

\* A worker that only moves on.
LEMMA GotoJob ==
    ASSUME worker \in [Workers -> Job], NEW w \in Workers,
           NEW pc \in Quick \cup {"idle", "agent", "confirm"}, Goto(w, pc)
    PROVE  \E k \in Job : /\ worker' = [worker EXCEPT ![w] = k] /\ k.pc = pc
                          /\ k.sel = worker[w].sel /\ k.saw = worker[w].saw
<1> DEFINE k == [worker[w] EXCEPT !.pc = pc]
<1>1. k \in Job /\ k.pc = pc /\ k.sel = worker[w].sel /\ k.saw = worker[w].saw
  BY DEF Job
<1>2. worker' = [worker EXCEPT ![w] = k]
  BY DEF Goto
<1> HIDE DEF k
<1> QED BY <1>1, <1>2

\* A worker that gives up or is done.
LEMMA IdleJob == Idle \in Job /\ Idle.pc = "idle" /\ "idle" \notin Quick
BY DEF Idle, Job, Quick

\* The claim: nobody else is in a quick step, for its lease would be running.
LEMMA ClaimInv == ASSUME IInv, NEW w \in Workers, Claim(w) PROVE IInv'
<1>1. row \in Row /\ worker \in [Workers -> Job]
  BY DEF IInv, DbTypes, WsTypes
<1>2. /\ row' = [row EXCEPT !.status = "running", !.owner = w, !.lease = Lease] /\ Goto(w, "prepare")
      /\ ~(row.status = "running" /\ row.lease > 0)
      /\ UNCHANGED <<source, output, selected, enabled, polluting, ws, base, usable, done, faults>>
  BY DEF Claim, dbVars, wsVars
<1>3. row' \in Row /\ row'.status = "running" /\ row'.owner = w /\ row'.lease = Lease
  <2>1. row' = [row EXCEPT !.status = "running", !.owner = w, !.lease = Lease]
    BY <1>2
  <2>2. row' = [status |-> "running", owner |-> w, lease |-> Lease, retry |-> row.retry, cool |-> row.cool]
    BY <1>1, <2>1 DEF Row
  <2> QED BY <1>1, <2>2, RowFields, Phase2Assumption DEF Row
<1>4. PICK k \in Job : worker' = [worker EXCEPT ![w] = k] /\ k.pc = "prepare"
  BY <1>1, <1>2, GotoJob DEF Quick
<1>5. \A v \in Workers : worker[v].pc \notin Quick
  BY <1>2 DEF IInv, HeldBy, Owns
<1>6. Owns(w)' /\ row'.lease > 0 /\ \A v \in Workers \ {w} : ~Owns(v)'
  BY <1>3, Phase2Assumption DEF Owns
<1>7. DbTypes'
  BY <1>2, <1>3 DEF IInv, DbTypes
<1>8. Baseline' /\ SelectedConsolidated'
  BY <1>2 DEF IInv, Baseline, BaselineConsolidated, SelectedConsolidated
<1>9. /\ ws' \subseteq Snapshot /\ base' \subseteq Snapshot /\ done' \subseteq Snapshot
      /\ usable' \in BOOLEAN /\ done \subseteq done' /\ ws' = ws /\ usable' = usable
  BY <1>2 DEF IInv, WsTypes
<1> QED BY <1>4, <1>5, <1>6, <1>7, <1>8, <1>9, WorkerStep

\* A step that leaves the row and the database alone.
LEMMA QuietStep ==
    ASSUME IInv, NEW w \in Workers, NEW k \in Job, worker' = [worker EXCEPT ![w] = k],
           UNCHANGED <<source, output, selected, enabled, polluting, row, done>>,
           faults' \in 0..MaxFaults,
           ws' \subseteq Snapshot, base' \subseteq Snapshot, usable' \in BOOLEAN,
           ws' = ws \/ Owns(w),
           usable' = usable \/ usable' = TRUE \/ Owns(w),
           k.pc \in Quick => Owns(w) /\ row.lease > 0,
           k.pc \in {"agent", "confirm", "reset", "commit"} => k.saw = k.sel,
           Owns(w) /\ k.pc \in {"diff", "agent", "confirm", "reset", "commit"} => ws' = k.sel,
           k.pc \in {"confirm", "reset", "commit", "succeed"} => k.sel \subseteq done,
           k.pc \in {"keys", "rows", "sync", "diff"} => usable',
           base' \subseteq done, usable' \/ ws' \subseteq done
    PROVE  IInv'
<1>1. DbTypes' /\ done' \subseteq Snapshot /\ done \subseteq done' /\ row' = row /\ done' = done
  BY DEF IInv, DbTypes, WsTypes
<1>2. \A v \in Workers : Owns(v)' <=> Owns(v)
  BY <1>1 DEF Owns
<1>3. \A v \in Workers \ {w} : worker[v].pc \in Quick => Owns(v)' /\ row'.lease > 0
  BY <1>1, <1>2 DEF IInv, HeldBy
<1>4. Baseline' /\ SelectedConsolidated'
  BY <1>1 DEF IInv, Baseline, BaselineConsolidated, SelectedConsolidated
<1> QED BY <1>1, <1>2, <1>3, <1>4, WorkerStep

\* Selecting yields snapshots of threads.
LEMMA VisibleSnapshots == ASSUME DbTypes PROVE Visible \subseteq Snapshot
BY Phase2Assumption DEF DbTypes, Visible, Snapshot

\* From the claim to the new baseline, and giving up.
LEMMA QuickInv ==
    ASSUME IInv, NEW w \in Workers,
           \/ Prepare(w) \/ SelectKeys(w) \/ SelectRows(w) \/ Sync(w) \/ Diff(w)
           \/ LostLock(w) \/ RemoveRepository(w) \/ CommitBaseline(w) \/ Dies(w)
    PROVE  IInv'
<1>1. /\ worker \in [Workers -> Job] /\ worker[w] \in Job
      /\ ws \subseteq Snapshot /\ base \subseteq Snapshot /\ usable \in BOOLEAN
  BY DEF IInv, WsTypes
<1>2. /\ worker[w].pc \in Quick => Owns(w) /\ row.lease > 0
      /\ worker[w].pc \in {"agent", "confirm", "reset", "commit"} => worker[w].saw = worker[w].sel
      /\ Owns(w) /\ worker[w].pc \in {"diff", "agent", "confirm", "reset", "commit"} => ws = worker[w].sel
      /\ worker[w].pc \in {"confirm", "reset", "commit", "succeed"} => worker[w].sel \subseteq done
      /\ worker[w].pc \in {"keys", "rows", "sync", "diff"} => usable
      /\ base \subseteq done /\ (usable \/ ws \subseteq done)
  BY DEF IInv, HeldBy, Follows, Baseline, BaselineConsolidated
<1>3. UNCHANGED <<source, output, selected, enabled, polluting, row, done>>
  BY DEF Prepare, SelectKeys, SelectRows, Sync, Diff, LostLock, RemoveRepository, CommitBaseline,
     Dies, dbVars
<1>4. faults' \in 0..MaxFaults
  BY Phase2Assumption DEF Prepare, SelectKeys, SelectRows, Sync, Diff, LostLock, RemoveRepository,
     CommitBaseline, Dies, FaultHappens, IInv, DbTypes
<1>5. CASE Prepare(w)
  <2>1. /\ worker[w].pc = "prepare" /\ base' = (IF usable THEN base ELSE ws) /\ usable' = TRUE
        /\ ws' = ws /\ Goto(w, "keys")
    BY <1>5 DEF Prepare
  <2>2. PICK k \in Job : worker' = [worker EXCEPT ![w] = k] /\ k.pc = "keys"
    BY <1>1, <2>1, GotoJob DEF Quick
  <2>3. base' \subseteq done /\ base' \subseteq Snapshot /\ usable' \in BOOLEAN
    BY <1>1, <1>2, <2>1
  <2>4. Owns(w) /\ row.lease > 0
    BY <1>2, <2>1 DEF Quick
  <2> QED BY <1>1, <1>3, <1>4, <2>1, <2>2, <2>3, <2>4, QuietStep
<1>6. CASE SelectKeys(w) \/ SelectRows(w)
  <2>1. worker[w].pc \in {"keys", "rows"} /\ UNCHANGED <<ws, base, usable>>
    BY <1>6 DEF SelectKeys, SelectRows, wsVars
  <2>2. Visible \subseteq Snapshot /\ worker[w].sel \subseteq Snapshot
    BY <1>1, VisibleSnapshots DEF IInv, Job
  <2>3. PICK pc \in {"rows", "sync"}, S \in SUBSET Snapshot :
          worker' = [worker EXCEPT ![w] = [worker[w] EXCEPT !.pc = pc, !.sel = S]]
    BY <1>6, <2>2 DEF SelectKeys, SelectRows
  <2> DEFINE k == [worker[w] EXCEPT !.pc = pc, !.sel = S]
  <2>4. k \in Job /\ k.pc = pc
    <3>1. PICK j \in Job : j = worker[w]
      BY <1>1
    <3>2. PICK i : i = [j EXCEPT !.pc = pc, !.sel = S]
      OBVIOUS
    <3>3. i = [pc |-> pc, sel |-> S, saw |-> j.saw]
      BY <3>2 DEF Job
    <3>4. i \in Job /\ i.pc = pc
      BY <3>3 DEF Job, Quick
    <3> QED BY <3>1, <3>2, <3>4
  <2>5. worker' = [worker EXCEPT ![w] = k]
    BY <2>3
  <2> HIDE DEF k
  <2>6. Owns(w) /\ row.lease > 0 /\ usable
    BY <1>2, <2>1 DEF Quick
  <2> QED BY <1>1, <1>2, <1>3, <1>4, <2>1, <2>4, <2>5, <2>6, QuietStep
<1>7. CASE Sync(w)
  <2>1. worker[w].pc = "sync" /\ ws' = worker[w].sel /\ Goto(w, "diff") /\ UNCHANGED <<base, usable>>
    BY <1>7 DEF Sync
  <2>2. PICK k \in Job : worker' = [worker EXCEPT ![w] = k] /\ k.pc = "diff" /\ k.sel = worker[w].sel
    BY <1>1, <2>1, GotoJob DEF Quick
  <2>3. Owns(w) /\ row.lease > 0 /\ usable /\ ws' \subseteq Snapshot
    BY <1>1, <1>2, <2>1 DEF Quick, Job
  <2> QED BY <1>1, <1>2, <1>3, <1>4, <2>1, <2>2, <2>3, QuietStep
<1>8. CASE Diff(w)
  <2>1. worker[w].pc = "diff" /\ UNCHANGED <<ws, base, usable>>
    BY <1>8 DEF Diff, wsVars
  <2>2. Owns(w) /\ row.lease > 0 /\ usable /\ ws = worker[w].sel
    BY <1>2, <2>1 DEF Quick
  <2>3. CASE ws = base /\ Goto(w, "succeed")
    <3>1. PICK k \in Job : worker' = [worker EXCEPT ![w] = k] /\ k.pc = "succeed" /\ k.sel = worker[w].sel
      BY <1>1, <2>3, GotoJob DEF Quick
    <3> QED BY <1>1, <1>2, <1>3, <1>4, <2>1, <2>2, <2>3, <3>1, QuietStep
  <2>4. CASE worker' = [worker EXCEPT ![w] = [worker[w] EXCEPT !.pc = "agent", !.saw = ws]]
    <3> DEFINE k == [worker[w] EXCEPT !.pc = "agent", !.saw = ws]
    <3>1. k \in Job /\ k.pc = "agent" /\ k.saw = k.sel /\ k.sel = ws
      <4>1. PICK j \in Job : j = worker[w]
        BY <1>1
      <4>2. PICK i : i = [j EXCEPT !.pc = "agent", !.saw = ws]
        OBVIOUS
      <4>3. i = [pc |-> "agent", sel |-> j.sel, saw |-> ws]
        BY <4>2 DEF Job
      <4>4. i \in Job /\ i.pc = "agent" /\ i.saw = i.sel /\ i.sel = ws
        BY <1>1, <2>2, <4>1, <4>3 DEF Job
      <4> QED BY <4>1, <4>2, <4>4
    <3>2. worker' = [worker EXCEPT ![w] = k]
      BY <2>4
    <3> HIDE DEF k
    <3> QED BY <1>1, <1>2, <1>3, <1>4, <2>1, <2>2, <3>1, <3>2, QuietStep DEF Quick
  <2> QED BY <1>8, <2>3, <2>4 DEF Diff
<1>9. CASE LostLock(w) \/ Dies(w)
  <2>1. worker' = [worker EXCEPT ![w] = Idle] /\ UNCHANGED <<ws, base, usable>>
    BY <1>9 DEF LostLock, Dies, GoIdle, wsVars
  <2> QED BY <1>1, <1>2, <1>3, <1>4, <2>1, IdleJob, QuietStep
<1>10. CASE RemoveRepository(w)
  <2>1. worker[w].pc = "reset" /\ usable' = FALSE /\ Goto(w, "commit") /\ UNCHANGED <<ws, base>>
    BY <1>10 DEF RemoveRepository
  <2>2. PICK k \in Job : /\ worker' = [worker EXCEPT ![w] = k] /\ k.pc = "commit"
                         /\ k.sel = worker[w].sel /\ k.saw = worker[w].saw
    BY <1>1, <2>1, GotoJob DEF Quick
  <2>3. Owns(w) /\ row.lease > 0 /\ ws = worker[w].sel /\ worker[w].saw = worker[w].sel /\ ws \subseteq done
    BY <1>2, <2>1 DEF Quick
  <2>4. usable' \in BOOLEAN
    BY <2>1
  <2> QED BY <1>1, <1>2, <1>3, <1>4, <2>1, <2>2, <2>3, <2>4, QuietStep
<1>11. CASE CommitBaseline(w)
  <2>1. /\ worker[w].pc = "commit" /\ base' = ws /\ usable' = TRUE /\ Goto(w, "succeed")
        /\ UNCHANGED ws
    BY <1>11 DEF CommitBaseline
  <2>2. PICK k \in Job : worker' = [worker EXCEPT ![w] = k] /\ k.pc = "succeed" /\ k.sel = worker[w].sel
    BY <1>1, <2>1, GotoJob DEF Quick
  <2>3. Owns(w) /\ row.lease > 0 /\ ws = worker[w].sel /\ ws \subseteq done
    BY <1>2, <2>1 DEF Quick
  <2>4. usable' \in BOOLEAN
    BY <2>1
  <2> QED BY <1>1, <1>2, <1>3, <1>4, <2>1, <2>2, <2>3, <2>4, QuietStep
<1> QED BY <1>5, <1>6, <1>7, <1>8, <1>9, <1>10, <1>11

\* A step that leaves the workers and the workspace alone, and the job to
\* whoever needs it.
LEMMA RowStep ==
    ASSUME IInv, UNCHANGED <<ws, base, usable, worker, done>>, DbTypes',
           \A w \in Workers : Owns(w)' => Owns(w),
           \A w \in Workers : worker[w].pc \in Quick => Owns(w)' /\ row'.lease > 0,
           \A t \in Threads : selected'[t] = selected[t] \/ selected'[t] = 0
    PROVE  IInv'
<1>1. WsTypes' /\ Baseline'
  BY DEF IInv, WsTypes, Baseline, BaselineConsolidated
<1>2. SelectedConsolidated'
  BY DEF IInv, SelectedConsolidated
<1>3. ASSUME NEW w \in Workers PROVE HeldBy(w)' /\ Follows(w)'
  <2>1. HeldBy(w) /\ Follows(w)
    BY DEF IInv
  <2> QED BY <2>1 DEF HeldBy, Follows
<1> QED BY <1>1, <1>2, <1>3 DEF IInv

\* The agent: heartbeats, the end of the consolidation, the confirmation.
LEMMA AgentInv ==
    ASSUME IInv, NEW w \in Workers, Heartbeat(w) \/ AgentCompletes(w) \/ Confirm(w)
    PROVE  IInv'
<1>1. /\ row \in Row /\ worker \in [Workers -> Job] /\ worker[w] \in Job
      /\ ws \subseteq Snapshot /\ base \subseteq Snapshot /\ done \subseteq Snapshot /\ usable \in BOOLEAN
      /\ base \subseteq done /\ (usable \/ ws \subseteq done)
  BY DEF IInv, DbTypes, WsTypes, Baseline, BaselineConsolidated
<1>2. ASSUME Owns(w), row' = [row EXCEPT !.lease = Lease]
      PROVE  /\ row' \in Row /\ row'.lease > 0 /\ \A v \in Workers : Owns(v)' <=> Owns(v)
             /\ \A v \in Workers : worker[v].pc \in Quick => Owns(v)'
  <2>1. row' \in Row /\ row'.status = row.status /\ row'.owner = row.owner /\ row'.lease = Lease
    BY <1>1, <1>2, RowRenewed
  <2>2. \A v \in Workers : Owns(v)' <=> Owns(v)
    BY <2>1 DEF Owns
  <2> QED BY <2>1, <2>2, Phase2Assumption DEF IInv, HeldBy
<1>3. UNCHANGED <<source, output, selected, enabled, polluting, ws, base, usable, faults>>
  BY DEF Heartbeat, AgentCompletes, Confirm, dbVars, wsVars
<1>4. CASE Heartbeat(w) /\ Owns(w)
  <2>1. row' = [row EXCEPT !.lease = Lease] /\ UNCHANGED <<worker, done>>
    BY <1>4 DEF Heartbeat
  <2>2. row' \in Row /\ row'.lease > 0
        /\ (\A v \in Workers : Owns(v)' <=> Owns(v))
        /\ (\A v \in Workers : worker[v].pc \in Quick => Owns(v)')
    BY <1>2, <1>4, <2>1
  <2>3. DbTypes'
    BY <1>3, <2>2 DEF IInv, DbTypes
  <2> QED BY <1>3, <2>1, <2>2, <2>3, RowStep
<1>5. CASE Heartbeat(w) /\ ~Owns(w)
  <2>1. worker' = [worker EXCEPT ![w] = Idle] /\ UNCHANGED <<row, done>>
    BY <1>5 DEF Heartbeat, GoIdle
  <2>2. faults' \in 0..MaxFaults
    BY <1>3 DEF IInv, DbTypes
  <2> QED BY <1>1, <1>3, <2>1, <2>2, IdleJob, QuietStep
<1>6. CASE AgentCompletes(w)
  <2>1. worker[w].pc = "agent" /\ done' = done \cup worker[w].saw /\ Goto(w, "confirm") /\ row' = row
    BY <1>6 DEF AgentCompletes
  <2>2. PICK k \in Job : /\ worker' = [worker EXCEPT ![w] = k] /\ k.pc = "confirm"
                         /\ k.sel = worker[w].sel /\ k.saw = worker[w].saw
    BY <1>1, <2>1, GotoJob
  <2>3. worker[w].saw = worker[w].sel /\ (Owns(w) => ws = worker[w].sel) /\ worker[w].saw \subseteq Snapshot
    BY <1>1, <2>1 DEF IInv, Follows, Job
  <2>4. \A v \in Workers : Owns(v)' <=> Owns(v)
    BY <2>1 DEF Owns
  <2>5. DbTypes'
    BY <1>3, <2>1 DEF IInv, DbTypes
  <2>6. Baseline' /\ SelectedConsolidated' /\ done' \subseteq Snapshot /\ done \subseteq done'
    BY <1>1, <1>3, <2>1, <2>3 DEF IInv, Baseline, BaselineConsolidated, SelectedConsolidated
  <2>7. \A v \in Workers : worker[v].pc \in Quick => Owns(v)' /\ row'.lease > 0
    BY <2>1, <2>4 DEF IInv, HeldBy
  <2>8. "confirm" \notin Quick
    BY DEF Quick
  <2> QED BY <1>1, <1>3, <2>1, <2>2, <2>3, <2>4, <2>5, <2>6, <2>7, <2>8, WorkerStep
<1>7. CASE Confirm(w)
  <2>1. /\ worker[w].pc = "confirm" /\ Owns(w) /\ row' = [row EXCEPT !.lease = Lease]
        /\ Goto(w, "reset") /\ done' = done
    BY <1>7 DEF Confirm
  <2>2. PICK k \in Job : /\ worker' = [worker EXCEPT ![w] = k] /\ k.pc = "reset"
                         /\ k.sel = worker[w].sel /\ k.saw = worker[w].saw
    BY <1>1, <2>1, GotoJob DEF Quick
  <2>3. worker[w].saw = worker[w].sel /\ ws = worker[w].sel /\ worker[w].sel \subseteq done
    BY <2>1 DEF IInv, Follows
  <2>4. /\ row' \in Row /\ row'.lease > 0 /\ (\A v \in Workers : Owns(v)' <=> Owns(v))
        /\ (\A v \in Workers : worker[v].pc \in Quick => Owns(v)')
    BY <1>2, <2>1
  <2>5. DbTypes'
    BY <1>3, <2>4 DEF IInv, DbTypes
  <2>6. Baseline' /\ SelectedConsolidated'
    BY <1>3, <2>1 DEF IInv, Baseline, BaselineConsolidated, SelectedConsolidated
  <2> QED BY <1>1, <1>3, <2>1, <2>2, <2>3, <2>4, <2>5, <2>6, WorkerStep
<1> QED BY <1>4, <1>5, <1>6, <1>7

\* The result of the job, reported by its owner or by one that has lost it.
LEMMA EndInv == ASSUME IInv, NEW w \in Workers, Succeed(w) \/ Fail(w) PROVE IInv'
<1>1. /\ row \in Row /\ worker \in [Workers -> Job] /\ worker[w] \in Job
      /\ ws \subseteq Snapshot /\ base \subseteq Snapshot /\ done \subseteq Snapshot /\ usable \in BOOLEAN
      /\ base \subseteq done /\ (usable \/ ws \subseteq done)
  BY DEF IInv, DbTypes, WsTypes, Baseline, BaselineConsolidated
<1>2. /\ UNCHANGED <<source, output, enabled, polluting, ws, base, usable, done>>
      /\ worker' = [worker EXCEPT ![w] = Idle]
  BY DEF Succeed, Fail, GoIdle, dbVars, wsVars
<1>3. faults' \in 0..MaxFaults
  BY Phase2Assumption DEF Succeed, Fail, FaultHappens, IInv, DbTypes
<1>4. row' = row \/ (row' \in Row /\ row'.status # "running" /\ Owns(w))
  <2>1. CASE Succeed(w)
    <3>1. row' = [row EXCEPT !.status = "done", !.owner = None, !.lease = 0, !.cool = Cooldown] /\ Owns(w)
      BY <2>1 DEF Succeed
    <3> QED BY <1>1, <3>1, RowEnded
  <2>2. CASE Fail(w) /\ Owns(w)
    <3>1. row' = [row EXCEPT !.status = "error", !.owner = None, !.lease = 0, !.retry = Backoff]
      BY <2>2 DEF Fail
    <3> QED BY <1>1, <2>2, <3>1, RowEnded
  <2>3. CASE Fail(w) /\ ~Owns(w)
    BY <2>3 DEF Fail
  <2> QED BY <2>1, <2>2, <2>3
<1>5. \A v \in Workers : Owns(v)' => Owns(v)
  BY <1>4 DEF Owns
<1>6. \A v \in Workers \ {w} : worker[v].pc \in Quick => Owns(v)' /\ row'.lease > 0
  <2> SUFFICES ASSUME NEW v \in Workers \ {w}, worker[v].pc \in Quick PROVE Owns(v)' /\ row'.lease > 0
    OBVIOUS
  <2>1. Owns(v) /\ row.lease > 0
    BY DEF IInv, HeldBy
  <2>2. row' = row
    BY <1>4, <2>1 DEF Owns
  <2> QED BY <2>1, <2>2 DEF Owns
<1>7. selected' \in [Threads -> 0..MaxSource] /\ SelectedConsolidated'
  <2>1. CASE Succeed(w)
    <3>1. worker[w].sel \subseteq done
      BY <2>1 DEF Succeed, IInv, Follows
    <3>2. selected' = [t \in Threads |-> IF <<t, output[t]>> \in worker[w].sel THEN output[t] ELSE 0]
      BY <2>1 DEF Succeed, SelectSnapshots
    <3>3. output \in [Threads -> 0..MaxSource] /\ 0 \in 0..MaxSource
      BY Phase2Assumption DEF IInv, DbTypes
    <3> QED BY <1>2, <3>1, <3>2, <3>3 DEF SelectedConsolidated
  <2>2. CASE Fail(w)
    <3>1. selected' = selected
      BY <2>2 DEF Fail, dbVars
    <3> QED BY <1>2, <3>1 DEF IInv, DbTypes, SelectedConsolidated
  <2> QED BY <2>1, <2>2
<1>8. DbTypes'
  BY <1>1, <1>2, <1>3, <1>4, <1>7 DEF IInv, DbTypes
<1>9. Baseline'
  BY <1>2 DEF IInv, Baseline, BaselineConsolidated
<1> QED BY <1>1, <1>2, <1>5, <1>6, <1>7, <1>8, <1>9, IdleJob, WorkerStep, ZenonT(40)

-----------------------------------------------------------------------------
(* The rest of the system.                                                 *)

\* Stage 1 and the mode of threads: a running job is left to its owner.
LEMMA ThreadInv ==
    ASSUME IInv, NEW t \in Threads,
           \/ NewOutput(t) \/ NoOutput(t) \/ Prune(t)
           \/ PolluteRead(t) \/ PolluteMark(t) \/ PolluteEnqueue(t) \/ SetMemoryMode(t)
    PROVE  IInv'
<1>1. UNCHANGED <<ws, base, usable, worker, done, faults>>
  BY DEF NewOutput, NoOutput, Prune, PolluteRead, PolluteMark, PolluteEnqueue, SetMemoryMode, wsVars
<1>2. row' \in Row /\ (row'.status = "running" \/ row.status = "running" => row' = row)
  <2>1. row \in Row
    BY DEF IInv, DbTypes
  <2>2. row' = row \/ row' = Enqueued
    BY DEF NewOutput, NoOutput, Prune, PolluteRead, PolluteMark, PolluteEnqueue, SetMemoryMode
  <2> QED BY <2>1, <2>2, RowEnqueued
<1>3. \A w \in Workers : Owns(w)' <=> Owns(w)
  BY <1>2 DEF Owns
<1>4. \A w \in Workers : worker[w].pc \in Quick => Owns(w)' /\ row'.lease > 0
  <2>1. \A w \in Workers : worker[w].pc \in Quick => Owns(w) /\ row.lease > 0
    BY DEF IInv, HeldBy
  <2> QED BY <1>2, <2>1 DEF Owns
<1>5. /\ source' \in [Threads -> 0..MaxSource] /\ output' \in [Threads -> 0..MaxSource]
      /\ selected' \in [Threads -> 0..MaxSource] /\ enabled' \subseteq Threads
      /\ polluting' \in [Threads -> {"no", "selected", "unselected", "enqueue"}]
      /\ \A u \in Threads : selected'[u] = selected[u] \/ selected'[u] = 0
  <2>1. /\ source \in [Threads -> 0..MaxSource] /\ output \in [Threads -> 0..MaxSource]
        /\ selected \in [Threads -> 0..MaxSource] /\ enabled \subseteq Threads
        /\ polluting \in [Threads -> {"no", "selected", "unselected", "enqueue"}]
    BY DEF IInv, DbTypes
  <2>2. CASE NewOutput(t)
    BY <2>1, <2>2, Phase2Assumption DEF NewOutput
  <2>3. CASE NoOutput(t) \/ Prune(t)
    BY <2>1, <2>3, Phase2Assumption DEF NoOutput, Prune
  <2>4. CASE PolluteRead(t) \/ PolluteMark(t) \/ PolluteEnqueue(t)
    BY <2>1, <2>4 DEF PolluteRead, PolluteMark, PolluteEnqueue
  <2>5. CASE SetMemoryMode(t)
    BY <2>1, <2>5 DEF SetMemoryMode
  <2> QED BY <2>2, <2>3, <2>4, <2>5
<1>6. DbTypes'
  BY <1>1, <1>2, <1>5 DEF IInv, DbTypes
<1> QED BY <1>1, <1>3, <1>4, <1>5, <1>6, RowStep

\* Time does not pass the lease of a worker in a quick step.
LEMMA TickInv == ASSUME IInv, Tick PROVE IInv'
<1>1. /\ row' = [row EXCEPT !.lease = Less(@), !.retry = Less(@), !.cool = Less(@)] /\ row \in Row
      /\ UNCHANGED <<source, output, selected, enabled, polluting, ws, base, usable, worker, done, faults>>
  BY DEF Tick, dbVars, wsVars, IInv, DbTypes
<1>2. row' \in Row /\ row'.status = row.status /\ row'.owner = row.owner /\ row'.lease = Less(row.lease)
  BY <1>1, RowTicked
<1>3. \A w \in Workers : Owns(w)' <=> Owns(w)
  BY <1>2 DEF Owns
<1>4. \A w \in Workers : worker[w].pc \in Quick => Owns(w)' /\ row'.lease > 0
  <2> SUFFICES ASSUME NEW w \in Workers, worker[w].pc \in Quick PROVE Owns(w)' /\ row'.lease > 0
    OBVIOUS
  <2>1. Owns(w) /\ row.lease > 0 /\ row.lease # 1
    BY DEF IInv, HeldBy, Tick
  <2>2. row.lease \in Nat
    BY <1>1, RowFields, Phase2Assumption
  <2>3. Less(row.lease) > 0
    BY <2>1, <2>2 DEF Less
  <2> QED BY <1>2, <1>3, <2>1, <2>3
<1>5. DbTypes'
  BY <1>1, <1>2 DEF IInv, DbTypes
<1> QED BY <1>1, <1>3, <1>4, <1>5, RowStep

\* An empty workspace and an idle job.
LEMMA InitInv == Init => IInv
<1> SUFFICES ASSUME Init PROVE IInv
  OBVIOUS
<1>1. DbTypes
  BY Phase2Assumption DEF Init, DbTypes, Row
<1>2. WsTypes
  BY IdleJob DEF Init, WsTypes
<1>3. \A w \in Workers : HeldBy(w) /\ Follows(w)
  BY IdleJob DEF Init, HeldBy, Follows
<1> QED BY <1>1, <1>2, <1>3 DEF Init, IInv, Baseline, BaselineConsolidated, SelectedConsolidated

\* Every step.
LEMMA NextInv == ASSUME IInv, [Next]_vars PROVE IInv'
<1>1. CASE UNCHANGED vars
  <2>1. DbTypes'
    BY <1>1 DEF vars, IInv, DbTypes
  <2>2. \A w \in Workers : Owns(w)' <=> Owns(w)
    BY <1>1 DEF vars, Owns
  <2>3. \A w \in Workers : worker[w].pc \in Quick => Owns(w)' /\ row'.lease > 0
    BY <1>1, <2>2 DEF vars, IInv, HeldBy
  <2> QED BY <1>1, <2>1, <2>2, <2>3, RowStep DEF vars
<1> QED BY <1>1, ClaimInv, QuickInv, AgentInv, EndInv, ThreadInv, TickInv DEF Next, Work

-----------------------------------------------------------------------------
(* Theorems.                                                               *)

\* The inductive invariant holds in every reachable state.
THEOREM Phase2Invariant == Spec => []IInv
BY InitInv, NextInv, PTL DEF Spec

\* Type invariant; and whoever prepares, syncs or resets the workspace owns the
\* global job, so that two sessions never do so at the same time.
THEOREM WorkspaceOwned == Spec => []TypeOK
<1>1. IInv => TypeOK
  BY DEF IInv, DbTypes, WsTypes, Job, HeldBy, TypeOK
<1> QED BY Phase2Invariant, <1>1, PTL

\* What is in the git baseline of the workspace was consolidated by an agent,
\* whichever sessions lose the job, die or fail on the way (phase2.rs, run).
THEOREM BaselineRead == Spec => []BaselineConsolidated
<1>1. IInv => BaselineConsolidated
  BY DEF IInv, Baseline
<1> QED BY Phase2Invariant, <1>1, PTL

\* A stage-1 output is marked as selected only for what an agent has seen, even
\* if it was replaced meanwhile (mark_global_phase2_job_succeeded).
THEOREM SelectedRead == Spec => []SelectedConsolidated
<1>1. IInv => SelectedConsolidated
  BY DEF IInv
<1> QED BY Phase2Invariant, <1>1, PTL
=============================================================================
