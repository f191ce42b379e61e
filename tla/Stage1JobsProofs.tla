--------------------------- MODULE Stage1JobsProofs ---------------------------
(***************************************************************************)
(* Theorems about Stage1Jobs, for any number of sessions and threads, any  *)
(* cap, lease and number of retries.                                       *)
(***************************************************************************)
EXTENDS Stage1Jobs, FiniteSetTheorems, TLAPS

-----------------------------------------------------------------------------
(* The inductive invariant.                                                *)

\* A running job extracts something newer than the memory there is and than
\* what was extracted before, and has a try left.
RunningIsNews ==
    \A t \in Threads : job[t].status = "running" =>
        output[t] < job[t].input /\ job[t].success < job[t].input /\ 0 < job[t].left

\* A worker that is busy is about a thread; while it owns the row of that
\* thread, the row says what it read.
ClaimIsRow ==
    \A w \in Workers :
        /\ worker[w].pc # "idle" => worker[w].thread \in Threads
        /\ worker[w].pc = "claimed" /\ Owns(w, worker[w].thread)
             => worker[w].src = job[worker[w].thread].input

IInv == TypeOK /\ RunningCapped /\ OutputIsLatest /\ RunningIsNews /\ ClaimIsRow

-----------------------------------------------------------------------------
(* Lemmas.                                                                 *)

ActiveJobs == {t \in Threads : Active(t)}

\* Fewer active jobs are no more than the cap.
LEMMA FewerActive ==
    ASSUME RunningCapped, ActiveJobs' \subseteq ActiveJobs
    PROVE  RunningCapped'
<1>1. IsFiniteSet(ActiveJobs)
  BY FS_Subset, Stage1Assumption DEF ActiveJobs
<1>2. IsFiniteSet(ActiveJobs') /\ Cardinality(ActiveJobs') <= Cardinality(ActiveJobs)
  BY <1>1, FS_Subset
<1>3. Cardinality(ActiveJobs) \in Nat /\ Cardinality(ActiveJobs') \in Nat
  BY <1>1, <1>2, FS_CardinalityType
<1> QED BY <1>2, <1>3, Stage1Assumption DEF RunningCapped, ActiveJobs

\* One more is no more than the cap if there was room.
LEMMA OneMoreActive ==
    ASSUME NEW t \in Threads, Cardinality(ActiveJobs) < MaxRunning,
           ActiveJobs' \subseteq ActiveJobs \cup {t}
    PROVE  RunningCapped'
<1>1. IsFiniteSet(ActiveJobs)
  BY FS_Subset, Stage1Assumption DEF ActiveJobs
<1>2. /\ IsFiniteSet(ActiveJobs \cup {t}) /\ Cardinality(ActiveJobs) \in Nat
      /\ Cardinality(ActiveJobs \cup {t}) <= Cardinality(ActiveJobs) + 1
  BY <1>1, FS_AddElement, FS_CardinalityType
<1>3. IsFiniteSet(ActiveJobs') /\ Cardinality(ActiveJobs') <= Cardinality(ActiveJobs \cup {t})
  BY <1>2, FS_Subset
<1>4. Cardinality(ActiveJobs') \in Nat /\ Cardinality(ActiveJobs \cup {t}) \in Nat
  BY <1>2, <1>3, FS_CardinalityType
<1> QED BY <1>2, <1>3, <1>4, Stage1Assumption DEF RunningCapped, ActiveJobs

\* The fields of a row.
LEMMA RowFields ==
    ASSUME NEW r \in Row
    PROVE  /\ r.status \in {"none", "running", "done", "error"} /\ r.owner \in Workers \cup {None}
           /\ r.lease \in 0..Lease /\ r.retry \in 0..Backoff /\ r.left \in 0..Retries
           /\ r.input \in 0..MaxSource /\ r.success \in 0..MaxSource
BY DEF Row

\* What MarkDone makes of a row.
LEMMA RowDone ==
    ASSUME NEW r \in Row, NEW s,
           s = [r EXCEPT !.status = "done", !.owner = None, !.lease = 0, !.success = r.input]
    PROVE  s \in Row /\ s.status # "running" /\ s.lease = 0 /\ s.success = r.input
<1>1. s = [status |-> "done", owner |-> None, lease |-> 0, retry |-> r.retry, left |-> r.left,
           input |-> r.input, success |-> r.input]
  BY DEF Row
<1> QED BY <1>1, RowFields, Stage1Assumption DEF Row

\* What a reported failure makes of a row that has a try left.
LEMMA RowFailed ==
    ASSUME NEW r \in Row, 0 < r.left, NEW s,
           s = [r EXCEPT !.status = "error", !.owner = None, !.lease = 0, !.retry = Backoff,
                         !.left = r.left - 1]
    PROVE  s \in Row /\ s.status # "running" /\ s.lease = 0 /\ s.success = r.success
<1>1. s = [status |-> "error", owner |-> None, lease |-> 0, retry |-> Backoff, left |-> r.left - 1,
           input |-> r.input, success |-> r.success]
  BY DEF Row
<1> QED BY <1>1, RowFields, Stage1Assumption DEF Row

\* What a tick makes of a row.
LEMMA RowTicked ==
    ASSUME NEW r \in Row, NEW s,
           s = [r EXCEPT !.lease = IF @ > 0 THEN @ - 1 ELSE 0, !.retry = IF @ > 0 THEN @ - 1 ELSE 0]
    PROVE  /\ s \in Row
           /\ s.status = r.status /\ s.owner = r.owner /\ s.left = r.left /\ s.input = r.input
           /\ s.success = r.success
           /\ s.lease > 0 => r.lease > 0
<1> DEFINE l == IF r.lease > 0 THEN r.lease - 1 ELSE 0
           d == IF r.retry > 0 THEN r.retry - 1 ELSE 0
<1>1. s = [status |-> r.status, owner |-> r.owner, lease |-> l, retry |-> d, left |-> r.left,
           input |-> r.input, success |-> r.success]
  BY DEF Row
<1>2. l \in 0..Lease /\ d \in 0..Backoff /\ (l > 0 => r.lease > 0)
  BY RowFields, Stage1Assumption
<1> HIDE DEF l, d
<1> QED BY <1>1, <1>2, RowFields DEF Row

\* The initial state satisfies the invariant.
LEMMA InitInv == Init => IInv
<1> SUFFICES ASSUME Init PROVE IInv
  OBVIOUS
<1>1. TypeOK
  BY Stage1Assumption DEF Init, TypeOK, Row, NoRow, NoClaim
<1>2. ActiveJobs = {}
  BY DEF Init, ActiveJobs, Active, NoRow
<1>3. RunningCapped
  BY <1>2, FS_EmptySet, Stage1Assumption DEF RunningCapped, ActiveJobs
<1> QED BY <1>1, <1>3 DEF Init, IInv, OutputIsLatest, RunningIsNews, ClaimIsRow, NoRow, NoClaim

\* Steps of the scan.
LEMMA ScanInv == ASSUME IInv, NEW w \in Workers, NEW t \in Threads, Scan(w, t) PROVE IInv'
<1>1. TypeOK'
  BY DEF IInv, TypeOK, Row, Scan
<1>2. RunningCapped'
  BY FewerActive DEF IInv, Scan, ActiveJobs, Active
<1> QED BY <1>1, <1>2 DEF IInv, TypeOK, Row, Scan, OutputIsLatest, RunningIsNews, ClaimIsRow, Owns

\* A worker that lets go of what it read or claimed.
LEMMA IdleInv ==
    ASSUME IInv, NEW w \in Workers, Idle(w), UNCHANGED <<updated, removal, job, output>>,
           faults' \in 0..MaxFaults
    PROVE  IInv'
<1>1. TypeOK'
  BY Stage1Assumption DEF IInv, TypeOK, Row, Idle, NoClaim
<1>2. RunningCapped'
  BY FewerActive DEF IInv, ActiveJobs, Active
<1> QED BY <1>1, <1>2 DEF IInv, TypeOK, Row, Idle, NoClaim, OutputIsLatest, RunningIsNews, ClaimIsRow, Owns

\* A claim: the row becomes active where there was room for one more.
LEMMA ClaimInv == ASSUME IInv, NEW w \in Workers, Claim(w) PROVE IInv'
<1> DEFINE t == worker[w].thread
           src == worker[w].src
<1>1. t \in Threads /\ src \in 1..MaxSource /\ ~UpToDate(t, src) /\ Claimable(t, src)
  BY DEF IInv, TypeOK, Row, ClaimIsRow, Claim
<1>2. PICK l \in 0..Retries : /\ 0 < l
                              /\ job' = [job EXCEPT ![t] = [status |-> "running", owner |-> w,
                                   lease |-> Lease, retry |-> 0, left |-> l,
                                   input |-> src, success |-> job[t].success]]
  <2>1. job[t].left \in 0..Retries
    BY <1>1 DEF IInv, TypeOK, Row
  <2>2. job[t].status = "none" \/ src > job[t].input \/ 0 < job[t].left
    BY <1>1, <2>1 DEF Claimable
  <2> DEFINE l == IF job[t].status = "none" \/ src > job[t].input THEN Retries ELSE job[t].left
  <2>3. l \in 0..Retries /\ 0 < l
    BY <2>1, <2>2, Stage1Assumption
  <2>4. job' = [job EXCEPT ![t] = [status |-> "running", owner |-> w, lease |-> Lease, retry |-> 0,
                                  left |-> l, input |-> src, success |-> job[t].success]]
    BY DEF Claim
  <2> HIDE DEF l
  <2> QED BY <2>3, <2>4
<1>3. /\ worker' = [worker EXCEPT ![w].pc = "claimed"]
      /\ UNCHANGED <<updated, removal, output, faults>>
  BY DEF Claim
<1>4. TypeOK'
  BY <1>1, <1>2, <1>3, Stage1Assumption DEF IInv, TypeOK, Row
<1>5. RunningCapped'
  <2>1. ActiveJobs' \subseteq ActiveJobs \cup {t}
    BY <1>1, <1>2 DEF IInv, TypeOK, Row, ActiveJobs, Active
  <2>2. Cardinality(ActiveJobs) < MaxRunning
    BY <1>1 DEF Claimable, ActiveJobs
  <2> QED BY <1>1, <2>1, <2>2, OneMoreActive
<1>6. OutputIsLatest'
  BY <1>1, <1>2, <1>3 DEF IInv, TypeOK, Row, OutputIsLatest
<1>7. RunningIsNews'
  BY <1>1, <1>2, <1>3 DEF IInv, TypeOK, Row, RunningIsNews, UpToDate
<1>8. ClaimIsRow'
  BY <1>1, <1>2, <1>3 DEF IInv, TypeOK, Row, ClaimIsRow, Owns
<1> QED BY <1>4, <1>5, <1>6, <1>7, <1>8 DEF IInv

\* A result of the owner, accepted: its row is no longer running.
LEMMA FinishInv ==
    ASSUME IInv, NEW w \in Workers, Finishes(w)
    PROVE  IInv'
<1> DEFINE t == worker[w].thread
<1>1. t \in Threads /\ job[t].status = "running" /\ job[t].owner = w /\ worker[w].src = job[t].input
  BY DEF IInv, ClaimIsRow, Finishes, Succeeded, NoOutput, Failed, Owns
<1>2. /\ output[t] < job[t].input /\ 0 < job[t].left /\ job[t].input \in 0..MaxSource
      /\ job[t].left \in 0..Retries /\ output[t] \in 0..MaxSource
  BY <1>1 DEF IInv, TypeOK, Row, RunningIsNews
<1>3. UNCHANGED <<updated, removal, faults>> /\ worker' = [worker EXCEPT ![w] = NoClaim]
  BY DEF Finishes, Succeeded, NoOutput, Failed, Idle
<1>4. /\ job[t] \in Row /\ job'[t] \in Row
      /\ job' = [job EXCEPT ![t] = job'[t]] /\ output' = [output EXCEPT ![t] = output'[t]]
      /\ job'[t].status # "running" /\ job'[t].lease = 0
      /\ \/ job'[t].success = job[t].input /\ output'[t] \in {0, job[t].input}
         \/ job'[t].success = job[t].success /\ output'[t] = output[t]
  <2>1. job[t] \in Row
    BY <1>1 DEF IInv, TypeOK, Row
  <2>2. CASE Succeeded(w) \/ NoOutput(w)
    <3> DEFINE r == [job[t] EXCEPT !.status = "done", !.owner = None, !.lease = 0,
                                   !.success = job[t].input]
    <3>1. job' = [job EXCEPT ![t] = r]
      BY <2>2 DEF Succeeded, NoOutput, MarkDone
    <3>2. r \in Row /\ r.status # "running" /\ r.lease = 0 /\ r.success = job[t].input
      BY <2>1, RowDone
    <3>3. \/ output' = [output EXCEPT ![t] = job[t].input]
          \/ output' = [output EXCEPT ![t] = 0]
      BY <1>1, <1>2, <2>2 DEF Succeeded, NoOutput
    <3> HIDE DEF r
    <3> QED BY <1>1, <2>1, <3>1, <3>2, <3>3, ZenonT(60) DEF IInv, TypeOK, Row
  <2>3. CASE Failed(w)
    <3> DEFINE r == [job[t] EXCEPT !.status = "error", !.owner = None, !.lease = 0,
                                   !.retry = Backoff, !.left = job[t].left - 1]
    <3>1. job' = [job EXCEPT ![t] = r] /\ output' = output
      BY <2>3 DEF Failed
    <3>2. r \in Row /\ r.status # "running" /\ r.lease = 0 /\ r.success = job[t].success
      BY <1>2, <2>1, RowFailed
    <3> HIDE DEF r
    <3> QED BY <1>1, <2>1, <3>1, <3>2 DEF IInv, TypeOK, Row
  <2> QED BY <2>2, <2>3 DEF Finishes
<1>5. /\ output'[t] # 0 => job'[t].success = output'[t]
      /\ \A u \in Threads \ {t} : job'[u] = job[u] /\ output'[u] = output[u]
  BY <1>1, <1>4 DEF IInv, TypeOK, Row, OutputIsLatest
<1>6. TypeOK'
  <2>1. job' \in [Threads -> Row]
    BY <1>1, <1>4 DEF IInv, TypeOK
  <2>2. output' \in [Threads -> 0..MaxSource]
    BY <1>1, <1>2, <1>4, Stage1Assumption DEF IInv, TypeOK
  <2> QED BY <1>3, <2>1, <2>2, Stage1Assumption DEF IInv, TypeOK, Row, NoClaim
<1>7. RunningCapped'
  BY <1>4, <1>5, FewerActive DEF IInv, ActiveJobs, Active
<1>8. OutputIsLatest' /\ RunningIsNews'
  BY <1>4, <1>5 DEF IInv, OutputIsLatest, RunningIsNews
<1>9. ClaimIsRow'
  BY <1>3, <1>4, <1>5 DEF IInv, TypeOK, Row, ClaimIsRow, Owns, NoClaim
<1> QED BY <1>6, <1>7, <1>8, <1>9 DEF IInv

\* Time passes: leases and delays run down, nothing becomes active.
LEMMA TickInv == ASSUME IInv, Tick PROVE IInv'
<1>1. \A t \in Threads :
        /\ job'[t].status = job[t].status /\ job'[t].owner = job[t].owner
        /\ job'[t].left = job[t].left /\ job'[t].input = job[t].input
        /\ job'[t].success = job[t].success
        /\ job'[t].lease > 0 => job[t].lease > 0
        /\ job'[t] \in Row
  <2> SUFFICES ASSUME NEW t \in Threads
               PROVE  /\ job'[t].status = job[t].status /\ job'[t].owner = job[t].owner
                      /\ job'[t].left = job[t].left /\ job'[t].input = job[t].input
                      /\ job'[t].success = job[t].success
                      /\ job'[t].lease > 0 => job[t].lease > 0
                      /\ job'[t] \in Row
    OBVIOUS
  <2>1. job[t] \in Row
    BY DEF IInv, TypeOK
  <2>2. job'[t] = [job[t] EXCEPT !.lease = IF @ > 0 THEN @ - 1 ELSE 0,
                                 !.retry = IF @ > 0 THEN @ - 1 ELSE 0]
    BY DEF Tick
  <2> QED BY <2>1, <2>2, RowTicked
<1>2. UNCHANGED <<updated, removal, output, worker, faults>>
  BY ZenonT(40) DEF Tick
<1>3. TypeOK'
  BY <1>1, <1>2 DEF IInv, TypeOK, Tick
<1>4. RunningCapped'
  BY <1>1, FewerActive DEF IInv, ActiveJobs, Active
<1> QED BY <1>1, <1>2, <1>3, <1>4 DEF IInv, OutputIsLatest, RunningIsNews, ClaimIsRow, Owns

\* The threads change and their outputs are pruned.
LEMMA ThreadInv ==
    ASSUME IInv, NEW t \in Threads, ThreadUpdated(t) \/ Prune(t) \/ DeleteRow(t)
    PROVE  IInv'
<1>1. TypeOK' /\ UNCHANGED <<job, worker>>
  BY Stage1Assumption DEF IInv, TypeOK, ThreadUpdated, Prune, DeleteRow
<1>2. \A u \in Threads : output'[u] = output[u] \/ output'[u] = 0
  BY DEF IInv, TypeOK, ThreadUpdated, Prune, DeleteRow
<1>3. RunningCapped'
  BY <1>1, FewerActive DEF IInv, ActiveJobs, Active
<1>4. OutputIsLatest' /\ RunningIsNews'
  BY <1>1, <1>2 DEF IInv, TypeOK, Row, OutputIsLatest, RunningIsNews
<1> QED BY <1>1, <1>3, <1>4 DEF IInv, ClaimIsRow, Owns

\* Rows are removed, of one thread or of all.
LEMMA RemoveInv ==
    ASSUME IInv, (\E t \in Threads : DeleteMemory(t)) \/ ClearMemories
    PROVE  IInv'
<1>1. \A u \in Threads : \/ job'[u] = NoRow /\ output'[u] = 0
                         \/ job'[u] = job[u] /\ output'[u] = output[u]
  BY DEF IInv, TypeOK, Row, DeleteMemory, ClearMemories
<1>2. TypeOK' /\ UNCHANGED worker
  <2>1. NoRow \in Row
    BY Stage1Assumption DEF NoRow, Row
  <2> QED BY <2>1, Stage1Assumption DEF IInv, TypeOK, DeleteMemory, ClearMemories
<1>3. RunningCapped'
  BY <1>1, FewerActive DEF IInv, ActiveJobs, Active, NoRow
<1> QED BY <1>1, <1>2, <1>3 DEF IInv, OutputIsLatest, RunningIsNews, ClaimIsRow, Owns, NoRow

\* Every step keeps the invariant.
LEMMA NextInv == ASSUME IInv, [Next]_vars PROVE IInv'
<1>1. ASSUME NEW w \in Workers, \E t \in Threads : Scan(w, t) PROVE IInv'
  BY <1>1, ScanInv
<1>2. ASSUME NEW w \in Workers, Skip(w) \/ Fenced(w) \/ Dies(w) PROVE IInv'
  <2>1. faults' \in 0..MaxFaults
    BY <1>2, Stage1Assumption DEF IInv, TypeOK, Row, Skip, Fenced, Dies
  <2> QED BY <1>2, <2>1, IdleInv DEF Skip, Fenced, Dies
<1>3. CASE UNCHANGED vars
  <2>1. RunningCapped'
    BY <1>3, FewerActive DEF IInv, ActiveJobs, Active, vars
  <2> QED BY <1>3, <2>1 DEF IInv, TypeOK, Row, OutputIsLatest, RunningIsNews, ClaimIsRow, Owns, vars
<1> QED BY <1>1, <1>2, <1>3, ClaimInv, FinishInv, TickInv, ThreadInv, RemoveInv DEF Next, Extract

-----------------------------------------------------------------------------
(* Theorems.                                                               *)

\* The inductive invariant holds in every reachable state.
THEOREM Stage1Invariant == Spec => []IInv
BY InitInv, NextInv, PTL DEF Spec

\* Type invariant of the jobs table; retry_remaining never falls below zero.
THEOREM Stage1TypeCorrect == Spec => []TypeOK
<1>1. IInv => TypeOK
  BY DEF IInv
<1> QED BY Stage1Invariant, <1>1, PTL

\* However many sessions claim jobs (try_claim_stage1_job), at most the
\* allowed number is running with a live lease.
THEOREM CapHolds == Spec => []RunningCapped
<1>1. IInv => RunningCapped
  BY DEF IInv
<1> QED BY Stage1Invariant, <1>1, PTL

\* Whatever extraction outlives its lease, its row or a reset, the memory of a
\* thread is the one its last successful job extracted.
THEOREM OutputsFenced == Spec => []OutputIsLatest
<1>1. IInv => OutputIsLatest
  BY DEF IInv
<1> QED BY Stage1Invariant, <1>1, PTL

\* No step takes the success watermark of a living row back, although a stale
\* scan may lower its input watermark.
THEOREM WatermarkNeverBack == Spec => WatermarkGrows
<1>1. ASSUME IInv, [Next]_vars
      PROVE  [\A t \in Threads : job'[t] = NoRow \/ job'[t].success >= job[t].success]_vars
  <2> SUFFICES ASSUME NEW t \in Threads, Next
               PROVE  job'[t] = NoRow \/ job'[t].success >= job[t].success
    BY <1>1
  <2>1. job[t].success \in Nat /\ job[t].input \in Nat
    BY <1>1 DEF IInv, TypeOK, Row
  <2>2. ASSUME NEW w \in Workers, Claim(w) PROVE job'[t].success = job[t].success
    BY <1>1, <2>2 DEF IInv, TypeOK, Row, Claim
  <2>3. ASSUME NEW w \in Workers, Finishes(w) PROVE job'[t].success >= job[t].success
    <3>1. \A u \in Threads : Owns(w, u) => job[u].success < job[u].input
      BY <1>1 DEF IInv, RunningIsNews, Owns
    <3>2. CASE Succeeded(w) \/ NoOutput(w)
      <4> DEFINE Done(r) == [r EXCEPT !.status = "done", !.owner = None, !.lease = 0,
                                      !.success = r.input]
      <4>1. PICK u : Owns(w, u) /\ job' = [job EXCEPT ![u] = Done(job[u])]
        BY <3>2 DEF Succeeded, NoOutput, MarkDone
      <4>2. CASE u = t
        <5>1. job[t] \in Row /\ job'[t] = Done(job[t])
          BY <1>1, <4>1, <4>2 DEF IInv, TypeOK
        <5>2. job'[t].success = job[t].input
          BY <5>1, RowDone
        <5> QED BY <2>1, <3>1, <4>1, <4>2, <5>2
      <4>3. CASE u # t
        BY <1>1, <2>1, <4>1, <4>3 DEF IInv, TypeOK
      <4> QED BY <4>2, <4>3
    <3>3. CASE Failed(w)
      BY <1>1, <2>1, <3>3 DEF IInv, TypeOK, Row, Failed
    <3> QED BY <2>3, <3>2, <3>3 DEF Finishes
  <2>4. ASSUME Tick PROVE job'[t].success = job[t].success
    BY <1>1, <2>4, ZenonT(60) DEF IInv, TypeOK, Row, Tick
  <2>5. ASSUME NEW u \in Threads, DeleteMemory(u) PROVE job'[t] = NoRow \/ job'[t] = job[t]
    BY <1>1, <2>5 DEF IInv, TypeOK, Row, DeleteMemory
  <2>6. ASSUME ClearMemories PROVE job'[t] = NoRow
    BY <2>6 DEF ClearMemories
  <2>7. ASSUME UNCHANGED job PROVE job'[t].success >= job[t].success
    BY <2>1, <2>7
  <2> QED BY <2>1, <2>2, <2>3, <2>4, <2>5, <2>6, <2>7
       DEF Next, Extract, Scan, Skip, Fenced, Dies, ThreadUpdated, Prune, DeleteRow
<1> QED BY Stage1Invariant, <1>1, PTL DEF WatermarkGrows, Spec
=============================================================================
