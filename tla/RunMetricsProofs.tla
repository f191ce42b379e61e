-------------------------- MODULE RunMetricsProofs --------------------------
(***************************************************************************)
(* Theorems about RunMetrics for any number of recorders, instances and    *)
(* processes.                                                              *)
(***************************************************************************)
EXTENDS RunMetrics, FiniteSetTheorems, TLAPS

(***************************************************************************)
(* What an operation makes of a ledger.                                    *)
(***************************************************************************)

\* Popping the marker and replacing the list of calls leaves an attempt.
LEMMA PopAndList ==
    ASSUME NEW a \in Attempt, NEW c \in Seq(ApiCalls)
    PROVE  [a EXCEPT !.pending = 0, !.calls = c] \in Attempt
<1> DEFINE b == [a EXCEPT !.pending = 0]
<1>1. b \in Attempt
    BY ConstantsAssumption DEF Attempt
<1>2. [b EXCEPT !.calls = c] \in Attempt
    <2> HIDE DEF b
    <2> QED BY <1>1 DEF Attempt
<1> QED BY <1>2

\* Settling a pending call yields an attempt and keeps status and calls.
LEMMA SettleType ==
    ASSUME NEW a \in Attempt
    PROVE  /\ Settle(a) \in Attempt
           /\ Settle(a).status = a.status
           /\ Len(a.calls) <= Len(Settle(a).calls)
           /\ \A k \in 1..Len(a.calls) : Settle(a).calls[k] = a.calls[k]
<1> DEFINE c == IF a.pending = 0 THEN a.calls ELSE Append(a.calls, a.pending)
<1>1. a.calls \in Seq(ApiCalls)
    BY DEF Attempt
<1>2. a.pending # 0 => a.pending \in ApiCalls
    BY ConstantsAssumption DEF Attempt, ApiCalls
<1>3. /\ c \in Seq(ApiCalls)
      /\ Len(a.calls) <= Len(c)
      /\ \A k \in 1..Len(a.calls) : c[k] = a.calls[k]
    BY <1>1, <1>2
<1>4. Settle(a) = [a EXCEPT !.pending = 0, !.calls = c]
    BY DEF Settle
<1> HIDE DEF c
<1>5. Settle(a) \in Attempt
    BY <1>3, <1>4, PopAndList
<1>6. Settle(a).status = a.status /\ Settle(a).calls = c
    BY <1>4 DEF Attempt
<1> QED BY <1>3, <1>5, <1>6

\* What _start_attempt makes of a running attempt is an attempt.
LEMMA SupersedeType ==
    ASSUME NEW a \in Attempt
    PROVE  [a EXCEPT !.status = "interrupted", !.reason = "superseded"]
             \in Attempt
<1> DEFINE b == [a EXCEPT !.status = "interrupted"]
<1>1. b \in Attempt
    BY DEF Attempt, EndStatus
<1>2. [b EXCEPT !.reason = "superseded"] \in Attempt
    <2> HIDE DEF b
    <2> QED BY <1>1 DEF Attempt
<1> QED BY <1>2

\* The attempts _start_attempt creates, and the absent one, are well typed.
LEMMA FreshTypes == NoAttempt \in Attempt /\ NewAttempt \in Attempt
<1>1. <<>> \in Seq(ApiCalls) OBVIOUS
<1>2. 0 \in 0..MaxCalls BY ConstantsAssumption
<1> QED BY <1>1, <1>2 DEF NewAttempt, NoAttempt, Attempt, EndStatus

\* _start_attempt: the attempts it does not touch, and those it touches.
LEMMA StartAttemptFacts ==
    ASSUME NEW l \in Ledgers, NEW r \in Recorders
    PROVE  /\ StartAttempt(l, r) \in Ledgers
           /\ StartAttempt(l, r)[r] = NewAttempt
           /\ \A q \in Recorders \ {r} :
                IF InstanceOf[q] = InstanceOf[r] /\ l[q].status = "running"
                THEN /\ StartAttempt(l, r)[q].status = "interrupted"
                     /\ Len(l[q].calls) <= Len(StartAttempt(l, r)[q].calls)
                     /\ \A k \in 1..Len(l[q].calls) :
                          StartAttempt(l, r)[q].calls[k] = l[q].calls[k]
                ELSE StartAttempt(l, r)[q] = l[q]
<1> DEFINE S(q) == [Settle(l[q]) EXCEPT !.status = "interrupted",
                                        !.reason = "superseded"]
<1>1. ASSUME NEW q \in Recorders
      PROVE  /\ S(q) \in Attempt
             /\ S(q).status = "interrupted"
             /\ S(q).calls = Settle(l[q]).calls
             /\ Len(l[q].calls) <= Len(Settle(l[q]).calls)
             /\ \A k \in 1..Len(l[q].calls) :
                  Settle(l[q]).calls[k] = l[q].calls[k]
    <2>1. l[q] \in Attempt BY DEF Ledgers
    <2>2. Settle(l[q]) \in Attempt BY <2>1, SettleType
    <2>3. S(q) \in Attempt BY <2>2, SupersedeType
    <2>4. S(q).status = "interrupted" /\ S(q).calls = Settle(l[q]).calls
        BY <2>2 DEF Attempt
    <2> QED BY <2>1, <2>3, <2>4, SettleType
<1>2. \A q \in Recorders : l[q] \in Attempt
    BY DEF Ledgers
<1>3. StartAttempt(l, r) =
        [q \in Recorders |->
           IF q = r THEN NewAttempt
           ELSE IF InstanceOf[q] = InstanceOf[r] /\ l[q].status = "running"
                THEN S(q) ELSE l[q]]
    BY DEF StartAttempt
<1> HIDE DEF S
<1> QED BY <1>1, <1>2, <1>3, FreshTypes DEF Ledgers

\* The operations of one recorder change its own attempt and no other.
LEMMA OperationFacts ==
    ASSUME NEW l \in Ledgers, NEW r \in Recorders, NEW m,
           \/ \E n \in ApiCalls : m = BeginApiCall(l, r, n)
           \/ \E n \in ApiCalls : m = RecordApiCall(l, r, n)
           \/ \E s \in EndStatus : m = FinishAttempt(l, r, s)
    PROVE  /\ m \in Ledgers
           /\ \A q \in Recorders \ {r} : m[q] = l[q]
           /\ Len(l[r].calls) <= Len(m[r].calls)
           /\ \A k \in 1..Len(l[r].calls) : m[r].calls[k] = l[r].calls[k]
           /\ m[r].status = l[r].status \/ m[r].status \in EndStatus
<1>0. l[r] \in Attempt /\ l[r].calls \in Seq(ApiCalls)
    BY DEF Ledgers, Attempt
<1>1. ASSUME NEW a \in Attempt, m = [l EXCEPT ![r] = a]
      PROVE  m \in Ledgers /\ m[r] = a /\ \A q \in Recorders \ {r} : m[q] = l[q]
    BY <1>1 DEF Ledgers
<1>2. CASE \E n \in ApiCalls : m = BeginApiCall(l, r, n)
    <2>1. PICK n \in ApiCalls : m = BeginApiCall(l, r, n) BY <1>2
    <2> DEFINE a == [l[r] EXCEPT !.pending = n]
    <2>2. n \in 0..MaxCalls BY ConstantsAssumption DEF ApiCalls
    <2>3. a \in Attempt /\ a.calls = l[r].calls /\ a.status = l[r].status
        BY <1>0, <2>2 DEF Attempt
    <2>4. m = [l EXCEPT ![r] = a] BY <2>1 DEF BeginApiCall
    <2> HIDE DEF a
    <2>5. m \in Ledgers /\ m[r] = a /\ \A q \in Recorders \ {r} : m[q] = l[q]
        BY <2>3, <2>4, <1>1
    <2> QED BY <1>0, <2>3, <2>5
<1>3. CASE \E n \in ApiCalls : m = RecordApiCall(l, r, n)
    <2>1. PICK n \in ApiCalls : m = RecordApiCall(l, r, n) BY <1>3
    <2> DEFINE c == Append(l[r].calls, n)
               a == [l[r] EXCEPT !.pending = 0, !.calls = c]
    <2>2. /\ c \in Seq(ApiCalls) /\ Len(l[r].calls) <= Len(c)
          /\ \A k \in 1..Len(l[r].calls) : c[k] = l[r].calls[k]
        BY <1>0
    <2>3. m = [l EXCEPT ![r] = a] BY <2>1 DEF RecordApiCall
    <2> HIDE DEF c
    <2>4. a \in Attempt BY <1>0, <2>2, PopAndList
    <2>5. a.calls = c /\ a.status = l[r].status BY <1>0 DEF Attempt
    <2> HIDE DEF a
    <2>6. m \in Ledgers /\ m[r] = a /\ \A q \in Recorders \ {r} : m[q] = l[q]
        BY <2>3, <2>4, <1>1
    <2> QED BY <2>2, <2>5, <2>6
<1>4. CASE \E s \in EndStatus : m = FinishAttempt(l, r, s)
    <2>1. PICK s \in EndStatus : m = FinishAttempt(l, r, s) BY <1>4
    <2> DEFINE a == [Settle(l[r]) EXCEPT !.status = s]
    <2>2. Settle(l[r]) \in Attempt BY <1>0, SettleType
    <2>3. a \in Attempt /\ a.calls = Settle(l[r]).calls /\ a.status = s
        BY <2>2 DEF Attempt
    <2>4. m = [l EXCEPT ![r] = a] BY <2>1 DEF FinishAttempt
    <2> HIDE DEF a
    <2>5. m \in Ledgers /\ m[r] = a /\ \A q \in Recorders \ {r} : m[q] = l[q]
        BY <2>3, <2>4, <1>1
    <2> QED BY <1>0, <2>3, <2>5, SettleType
<1> QED BY <1>2, <1>3, <1>4
(***************************************************************************)
(* The inductive invariant.  The ledger, and every copy of it a thread is  *)
(* about to write, is sane with respect to the recorders' life cycles, and *)
(* a copy about to be written extends the file it replaces.  The latter    *)
(* needs the lock: only its holder has a copy.                             *)
(***************************************************************************)
Unfinished == {"new", "starting", "open"}

Sane(l, ph) ==
    /\ OneRunningIn(l)
    /\ \A r \in Recorders : ph[r] = "new" => l[r].status = "absent"
    /\ \A r \in Recorders : ph[r] \in Unfinished => l[r].status # "completed"

Extends(l, m) ==
    /\ Retains(l, m)
    /\ \A r \in Recorders : l[r].status = "completed" => m[r].status = "completed"

LockInv == \A t \in Threads : work[t].stage # "idle" => lock = t

CopyInv ==
    ~ReadsCanFail =>
        \A t \in Threads : work[t].stage = "ledger" => Extends(ledger, work[t].data)

IInv ==
    /\ TypeOK
    /\ LockInv
    /\ Sane(ledger, phase)
    /\ \A t \in Threads : Sane(work[t].data, phase)
    /\ CopyInv

Stages == {"idle", "raise", "ledger", "report", "csv"}

\* The two threads of a recorder name it, and no thread stands for a free lock.
LEMMA ThreadFacts ==
    /\ \A r \in Recorders : Main(r) \in Threads /\ Heart(r) \in Threads
    /\ \A r \in Recorders : Main(r)[1] = r /\ Heart(r)[1] = r
    /\ \A t \in Threads : t[1] \in Recorders
    /\ Free \notin Threads
BY DEF Threads, Main, Heart, Free

\* An empty run_metrics.json is sane, so a failed read yields a sane copy.
LEMMA EmptySane ==
    ASSUME NEW ph
    PROVE  /\ EmptyLedger \in Ledgers
           /\ Sane(EmptyLedger, ph)
<1>1. \A r \in Recorders : EmptyLedger[r].status = "absent"
    BY DEF EmptyLedger, NoAttempt
<1>2. EmptyLedger \in Ledgers
    BY FreshTypes DEF EmptyLedger, Ledgers
<1> QED BY <1>1, <1>2 DEF Sane, OneRunningIn

\* Recorders only move forward through their phases, which keeps a ledger
\* sane.
LEMMA SaneForward ==
    ASSUME NEW l, NEW ph, NEW qh, Sane(l, ph),
           \A r \in Recorders : /\ qh[r] = "new" => ph[r] = "new"
                                /\ qh[r] \in Unfinished => ph[r] \in Unfinished
    PROVE  Sane(l, qh)
BY DEF Sane

\* Taking the locks: other threads hold no copy, so it is enough that the
\* copy just made is sane and extends the file.
LEMMA EnterLockedStep ==
    ASSUME IInv, NEW t \in Threads, NEW l \in Ledgers, NEW raises,
           NEW new \in Ledgers,
           EnterLocked(t, l, raises, new),
           phase' \in [Recorders -> {"new", "starting", "open", "closing",
                                    "closed", "dead"}],
           heartbeat' \in [Recorders -> {"none", "asleep", "awake", "beating",
                                        "returning", "stopped"}],
           call' \in [Recorders -> 0..MaxCalls],
           ncalls' \in [Recorders -> 0..MaxCalls],
           \A r \in Recorders :
               /\ phase'[r] = "new" => phase[r] = "new"
               /\ phase'[r] \in Unfinished => phase[r] \in Unfinished,
           Sane(l, phase'), Sane(new, phase'),
           (~ReadsCanFail /\ ~raises) => Extends(ledger, new)
    PROVE  IInv'
<1> DEFINE w == [stage |-> IF raises THEN "raise" ELSE "ledger",
                 data |-> IF raises THEN l ELSE new]
<1>1. work' = [work EXCEPT ![t] = w] /\ lock = Free /\ lock' = t
    BY DEF EnterLocked
<1>2. /\ w \in [stage : Stages, data : Ledgers]
      /\ Sane(w.data, phase')
      /\ w.stage = "ledger" => ~raises /\ w.data = new
    BY DEF Stages
<1> HIDE DEF w
<1>3. UNCHANGED <<ledger, begun, dropped>>
    BY DEF EnterLocked
<1>4. faults' \in 0..MaxFaults
    BY ConstantsAssumption DEF EnterLocked, IInv, TypeOK
<1>5. work \in [Threads -> [stage : Stages, data : Ledgers]]
    BY DEF IInv, TypeOK, Stages
<1>6. \A u \in Threads : work[u].stage = "idle"
    BY <1>1, ThreadFacts DEF IInv, LockInv
<1>7. TypeOK'
    BY <1>1, <1>2, <1>3, <1>4, <1>5 DEF IInv, TypeOK, Stages
<1>8. LockInv'
    BY <1>1, <1>5, <1>6 DEF LockInv
<1>9. Sane(ledger, phase)' /\ \A u \in Threads : Sane(work[u].data, phase)'
    <2>1. Sane(ledger, phase)'
        BY <1>3, SaneForward DEF IInv
    <2>2. ASSUME NEW u \in Threads PROVE Sane(work'[u].data, phase')
        <3>1. CASE u = t
            BY <1>1, <1>2, <1>5, <3>1
        <3>2. CASE u # t
            <4>1. work'[u] = work[u] BY <1>1, <1>5, <3>2
            <4> QED BY <4>1, SaneForward DEF IInv
        <3> QED BY <3>1, <3>2
    <2> QED BY <2>1, <2>2
<1>10. CopyInv'
    BY <1>1, <1>2, <1>3, <1>5, <1>6 DEF CopyInv
<1> QED BY <1>7, <1>8, <1>9, <1>10 DEF IInv
\* Leaving the locks: the copy is gone and the phases have moved forward.
LEMMA LeaveLockedStep ==
    ASSUME IInv, NEW t \in Threads, NEW ok \in BOOLEAN, LeaveLocked(t, ok),
           UNCHANGED <<ledger, call, ncalls, begun>>,
           faults' \in 0..MaxFaults, dropped' \subseteq Recorders,
           work[t].stage # "idle"
    PROVE  IInv'
<1> DEFINE r == t[1]
<1>1. r \in Recorders BY ThreadFacts
<1>2. /\ phase' \in [Recorders -> {"new", "starting", "open", "closing",
                                   "closed", "dead"}]
      /\ \A q \in Recorders :
            /\ phase'[q] = "new" => phase[q] = "new"
            /\ phase'[q] \in Unfinished => phase[q] \in Unfinished
    BY <1>1 DEF LeaveLocked, PhaseAfter, Unfinished, IInv, TypeOK
<1>3. heartbeat' \in [Recorders -> {"none", "asleep", "awake", "beating",
                                    "returning", "stopped"}]
    BY <1>1 DEF LeaveLocked, HeartbeatAfter, IInv, TypeOK
<1>4. /\ work' = [work EXCEPT ![t] = Idle] /\ lock' = Free
      /\ work \in [Threads -> [stage : Stages, data : Ledgers]]
    BY DEF LeaveLocked, IInv, TypeOK, Stages
<1>5. /\ Idle \in [stage : Stages, data : Ledgers]
      /\ Idle.stage = "idle" /\ Idle.data = EmptyLedger
    BY EmptySane DEF Idle, Stages
<1>6. \A u \in Threads : u # t => work[u].stage = "idle"
    BY DEF IInv, LockInv
<1>7. TypeOK'
    BY <1>2, <1>3, <1>4, <1>5 DEF IInv, TypeOK, Stages
<1>8. \A u \in Threads : work'[u].stage = "idle"
    BY <1>4, <1>5, <1>6
<1>9. Sane(ledger, phase)'
    BY <1>2, SaneForward DEF IInv
<1>10. ASSUME NEW u \in Threads PROVE Sane(work'[u].data, phase')
    <2>1. CASE u = t
        BY <1>4, <1>5, <2>1, EmptySane
    <2>2. CASE u # t
        <3>1. work'[u] = work[u] BY <1>4, <2>2
        <3> QED BY <1>2, <3>1, SaneForward DEF IInv
    <2> QED BY <2>1, <2>2
<1> QED BY <1>7, <1>8, <1>9, <1>10 DEF IInv, LockInv, CopyInv

\* Whatever a thread loads is a sane ledger.
LEMMA LoadedLedger ==
    ASSUME IInv, NEW l \in {ledger, EmptyLedger}
    PROVE  l \in Ledgers /\ Sane(l, phase)
BY EmptySane DEF IInv, TypeOK

\* _start_attempt preserves the invariant.
LEMMA StartStep ==
    ASSUME IInv, NEW r \in Recorders, Start(r)
    PROVE  IInv'
<1>1. PICK l \in {ledger, EmptyLedger} :
        EnterLocked(Main(r), l, FALSE, StartAttempt(l, r))
    BY DEF Start
<1>2. /\ phase[r] = "new" /\ phase' = [phase EXCEPT ![r] = "starting"]
      /\ UNCHANGED <<heartbeat, call, ncalls>>
    BY DEF Start
<1>3. l \in Ledgers /\ Sane(l, phase) /\ (~ReadsCanFail => l = ledger)
    BY <1>1, LoadedLedger DEF EnterLocked
<1> DEFINE m == StartAttempt(l, r)
<1>4. /\ m \in Ledgers /\ m[r].status = "running"
      /\ \A q \in Recorders \ {r} :
            /\ m[q].status = l[q].status \/ m[q].status = "interrupted"
            /\ l[q].status # "absent" => m[q].status # "absent"
            /\ l[q].status = "completed" => m[q].status = "completed"
            /\ InstanceOf[q] = InstanceOf[r] => m[q].status # "running"
            /\ m[q].status = "running" => l[q].status = "running"
            /\ m[q].status = "absent" => l[q].status = "absent"
            /\ l[q].status = "absent" => m[q].status = "absent"
            /\ Len(l[q].calls) <= Len(m[q].calls)
            /\ \A k \in 1..Len(l[q].calls) : m[q].calls[k] = l[q].calls[k]
    <2>1. NewAttempt.status = "running" BY DEF NewAttempt, NoAttempt
    <2>2. \A q \in Recorders : l[q].calls \in Seq(ApiCalls)
        BY <1>3 DEF Ledgers, Attempt
    <2> QED BY <1>3, <2>1, <2>2, StartAttemptFacts
<1> HIDE DEF m
<1>5. phase \in [Recorders -> {"new", "starting", "open", "closing",
                               "closed", "dead"}]
    BY DEF IInv, TypeOK
<1>6. phase' \in [Recorders -> {"new", "starting", "open", "closing",
                                "closed", "dead"}]
    BY <1>2, <1>5
<1>7. \A q \in Recorders :
        /\ phase'[q] = "new" => phase[q] = "new" /\ q # r
        /\ phase'[q] \in Unfinished => phase[q] \in Unfinished
    BY <1>2, <1>5 DEF Unfinished
<1>8. Sane(l, phase') BY <1>3, <1>7, SaneForward
<1>9. Sane(m, phase') BY <1>4, <1>7, <1>8 DEF Sane, OneRunningIn
<1>10. ~ReadsCanFail => Extends(ledger, m)
    <2>1. ledger[r].status = "absent" BY <1>2 DEF IInv, Sane
    <2> QED BY <1>3, <1>4, <2>1 DEF Extends, Retains
<1>11. Main(r) \in Threads BY ThreadFacts
<1>12. EnterLocked(Main(r), l, FALSE, m) BY <1>1 DEF m
<1>13. /\ heartbeat' \in [Recorders -> {"none", "asleep", "awake", "beating",
                                        "returning", "stopped"}]
       /\ call' \in [Recorders -> 0..MaxCalls]
       /\ ncalls' \in [Recorders -> 0..MaxCalls]
    BY <1>2 DEF IInv, TypeOK
<1> QED
    BY <1>3, <1>4, <1>6, <1>7, <1>8, <1>9, <1>10, <1>11, <1>12, <1>13,
       EnterLockedStep
\* begin_api_call, record_api_call and finish, seen from the ledger.
LEMMA OperationStep ==
    ASSUME IInv, NEW r \in Recorders, NEW l \in {ledger, EmptyLedger}, NEW m,
           EnterLocked(Main(r), l, Missing(l, r), m),
           phase[r] = "open",
           \/ \E n \in ApiCalls : m = BeginApiCall(l, r, n)
           \/ \E n \in ApiCalls : m = RecordApiCall(l, r, n)
           \/ \E s \in EndStatus : m = FinishAttempt(l, r, s),
           \/ phase' = phase /\ m[r].status = l[r].status
           \/ phase' = [phase EXCEPT ![r] = "closing"],
           heartbeat' = heartbeat,
           call' \in [Recorders -> 0..MaxCalls],
           ncalls' \in [Recorders -> 0..MaxCalls]
    PROVE  IInv'
<1>1. l \in Ledgers /\ Sane(l, phase)
    BY LoadedLedger
<1>2. /\ m \in Ledgers
      /\ \A q \in Recorders \ {r} : m[q] = l[q]
      /\ Len(l[r].calls) <= Len(m[r].calls)
      /\ \A k \in 1..Len(l[r].calls) : m[r].calls[k] = l[r].calls[k]
      /\ m[r].status = l[r].status \/ m[r].status \in EndStatus
    BY <1>1, OperationFacts
<1>3. phase \in [Recorders -> {"new", "starting", "open", "closing",
                               "closed", "dead"}]
    BY DEF IInv, TypeOK
<1>4. /\ phase' \in [Recorders -> {"new", "starting", "open", "closing",
                                   "closed", "dead"}]
      /\ phase'[r] = "closing" \/ (phase'[r] = "open" /\ m[r].status = l[r].status)
      /\ \A q \in Recorders :
            /\ phase'[q] = "new" => phase[q] = "new"
            /\ phase'[q] \in Unfinished => phase[q] \in Unfinished
    BY <1>3 DEF Unfinished
<1>5. Sane(l, phase')
    BY <1>1, <1>4, SaneForward
<1>6. m[r].status = "running" => l[r].status = "running"
    BY <1>2 DEF EndStatus
<1>7. Sane(m, phase')
    <2>1. \A q \in Recorders : m[q].status = "running" => l[q].status = "running"
        BY <1>2, <1>6
    <2>2. OneRunningIn(m)
        BY <1>5, <2>1 DEF Sane, OneRunningIn
    <2>3. ASSUME NEW q \in Recorders
          PROVE  /\ phase'[q] = "new" => m[q].status = "absent"
                 /\ phase'[q] \in Unfinished => m[q].status # "completed"
        <3>1. CASE q = r BY <1>4, <1>5, <3>1 DEF Sane, Unfinished
        <3>2. CASE q # r BY <1>2, <1>5, <3>2 DEF Sane
        <3> QED BY <3>1, <3>2
    <2> QED BY <2>2, <2>3 DEF Sane
<1>8. (~ReadsCanFail /\ ~Missing(l, r)) => Extends(ledger, m)
    <2>1. l[r].status # "completed"
        BY <1>1 DEF Sane, Unfinished
    <2>2. ~ReadsCanFail => l = ledger
        BY DEF EnterLocked
    <2>3. l[r].status # "absent" => m[r].status # "absent"
        BY <1>2 DEF EndStatus
    <2>4. ASSUME NEW q \in Recorders
          PROVE  /\ l[q].status # "absent" =>
                      /\ m[q].status # "absent"
                      /\ Len(l[q].calls) <= Len(m[q].calls)
                      /\ \A k \in 1..Len(l[q].calls) :
                           m[q].calls[k] = l[q].calls[k]
                 /\ l[q].status = "completed" => m[q].status = "completed"
        <3>1. CASE q = r BY <1>2, <2>1, <2>3, <3>1
        <3>2. CASE q # r
            <4>1. m[q] = l[q] BY <1>2, <3>2
            <4>2. Len(l[q].calls) \in Nat BY <1>1 DEF Ledgers, Attempt
            <4> QED BY <4>1, <4>2
        <3> QED BY <3>1, <3>2
    <2> QED BY <2>2, <2>4 DEF Extends, Retains
<1>9. Main(r) \in Threads BY ThreadFacts
<1>10. heartbeat' \in [Recorders -> {"none", "asleep", "awake", "beating",
                                     "returning", "stopped"}]
    BY DEF IInv, TypeOK
<1> DEFINE raises == Missing(l, r)
<1>11. EnterLocked(Main(r), l, raises, m) OBVIOUS
<1> HIDE DEF raises
<1> QED
    BY <1>1, <1>2, <1>4, <1>5, <1>7, <1>8, <1>9, <1>10, <1>11, EnterLockedStep
       DEF raises

\* begin_api_call preserves the invariant.
LEMMA BeginStep ==
    ASSUME IInv, NEW r \in Recorders, BeginCall(r)
    PROVE  IInv'
<1> DEFINE n == ncalls[r] + 1
<1>1. n \in ApiCalls
    BY ConstantsAssumption DEF BeginCall, IInv, TypeOK, ApiCalls
<1>2. /\ call' \in [Recorders -> 0..MaxCalls]
      /\ ncalls' \in [Recorders -> 0..MaxCalls]
      /\ phase[r] = "open" /\ phase' = phase /\ heartbeat' = heartbeat
    BY <1>1, ConstantsAssumption DEF BeginCall, Ready, IInv, TypeOK, ApiCalls
<1>3. PICK l \in {ledger, EmptyLedger} :
        EnterLocked(Main(r), l, Missing(l, r), BeginApiCall(l, r, n))
    BY DEF BeginCall
<1>4. BeginApiCall(l, r, n)[r].status = l[r].status
    BY LoadedLedger DEF BeginApiCall, Ledgers, Attempt
<1> HIDE DEF n
<1> QED BY <1>1, <1>2, <1>3, <1>4, OperationStep

\* record_api_call preserves the invariant.
LEMMA RecordStep ==
    ASSUME IInv, NEW r \in Recorders, RecordCall(r)
    PROVE  IInv'
<1> DEFINE n == IF call[r] # 0 THEN call[r] ELSE ncalls[r] + 1
<1>1. n \in ApiCalls
    BY ConstantsAssumption DEF RecordCall, IInv, TypeOK, ApiCalls
<1>2. /\ call' \in [Recorders -> 0..MaxCalls]
      /\ ncalls' \in [Recorders -> 0..MaxCalls]
      /\ phase[r] = "open" /\ phase' = phase /\ heartbeat' = heartbeat
    BY <1>1, ConstantsAssumption DEF RecordCall, Ready, IInv, TypeOK, ApiCalls
<1>3. PICK l \in {ledger, EmptyLedger} :
        EnterLocked(Main(r), l, Missing(l, r), RecordApiCall(l, r, n))
    BY DEF RecordCall
<1> HIDE DEF n
<1>4. RecordApiCall(l, r, n)[r].status = l[r].status
    BY LoadedLedger DEF RecordApiCall, Ledgers, Attempt
<1> QED BY <1>1, <1>2, <1>3, <1>4, OperationStep

\* finish preserves the invariant.
LEMMA FinishStep ==
    ASSUME IInv, NEW r \in Recorders, Finish(r)
    PROVE  IInv'
<1>1. /\ call' \in [Recorders -> 0..MaxCalls]
      /\ ncalls' \in [Recorders -> 0..MaxCalls]
      /\ phase[r] = "open" /\ phase' = [phase EXCEPT ![r] = "closing"]
      /\ heartbeat' = heartbeat
    BY ConstantsAssumption DEF Finish, Ready, IInv, TypeOK
<1>2. PICK l \in {ledger, EmptyLedger}, s \in EndStatus :
        EnterLocked(Main(r), l, Missing(l, r), FinishAttempt(l, r, s))
    BY DEF Finish
<1> QED BY <1>1, <1>2, OperationStep

\* Waking, checkpointing and leaving of the heartbeat thread preserve it.
LEMMA HeartbeatStep ==
    ASSUME IInv, NEW r \in Recorders, HeartbeatCheckpoint(r)
    PROVE  IInv'
<1>1. PICK l \in {ledger, EmptyLedger} :
        /\ EnterLocked(Heart(r), l, Missing(l, r), l)
        /\ heartbeat' = [heartbeat EXCEPT ![r] =
               IF ~Missing(l, r) /\ l[r].status # "running"
               THEN "returning" ELSE "beating"]
    BY DEF HeartbeatCheckpoint
<1>2. /\ heartbeat' \in [Recorders -> {"none", "asleep", "awake", "beating",
                                       "returning", "stopped"}]
      /\ UNCHANGED <<phase, call, ncalls>>
    BY <1>1 DEF HeartbeatCheckpoint, IInv, TypeOK
<1>3. l \in Ledgers /\ Sane(l, phase)
    BY LoadedLedger
<1>4. ~ReadsCanFail => Extends(ledger, l)
    <2>1. ~ReadsCanFail => l = ledger
        BY <1>1 DEF EnterLocked
    <2>2. \A q \in Recorders : Len(l[q].calls) \in Nat
        BY <1>3 DEF Ledgers, Attempt
    <2> QED BY <2>1, <2>2 DEF Extends, Retains
<1> DEFINE raises == Missing(l, r)
<1>5. EnterLocked(Heart(r), l, raises, l) BY <1>1
<1>6. Heart(r) \in Threads BY ThreadFacts
<1>7. /\ call' \in [Recorders -> 0..MaxCalls]
      /\ ncalls' \in [Recorders -> 0..MaxCalls]
      /\ phase' \in [Recorders -> {"new", "starting", "open", "closing",
                                   "closed", "dead"}]
    BY <1>2 DEF IInv, TypeOK
<1> HIDE DEF raises
<1> QED BY <1>2, <1>3, <1>4, <1>5, <1>6, <1>7, EnterLockedStep
\* Replacing run_metrics.json by the copy made under the lock preserves it.
LEMMA WriteLedgerStep ==
    ASSUME IInv, NEW t \in Threads, WriteLedger(t)
    PROVE  IInv'
<1>1. /\ work[t].stage = "ledger" /\ ledger' = work[t].data
      /\ work' = [work EXCEPT ![t].stage = "report"]
      /\ UNCHANGED <<lock, phase, heartbeat, call, ncalls, faults, dropped>>
    BY DEF WriteLedger
<1>2. work \in [Threads -> [stage : Stages, data : Ledgers]]
    BY DEF IInv, TypeOK, Stages
<1>3. /\ work' \in [Threads -> [stage : Stages, data : Ledgers]]
      /\ \A u \in Threads : work'[u].data = work[u].data
      /\ \A u \in Threads : u # t => work'[u] = work[u]
      /\ work'[t].stage = "report"
    BY <1>1, <1>2 DEF Stages
<1>4. begun' \subseteq Recorders \X (1..MaxCalls)
    <2>1. work[t].data \in Ledgers BY <1>2
    <2>2. \A r \in Recorders : work[t].data[r].pending # 0 =>
              work[t].data[r].pending \in 1..MaxCalls
        BY <2>1, ConstantsAssumption DEF Ledgers, Attempt
    <2> QED BY <2>2 DEF WriteLedger, IInv, TypeOK
<1>5. TypeOK'
    BY <1>1, <1>2, <1>3, <1>4 DEF IInv, TypeOK, Stages
<1>6. \A u \in Threads : u # t => work[u].stage = "idle"
    BY <1>1 DEF IInv, LockInv
<1>7. LockInv' /\ CopyInv'
    BY <1>1, <1>3, <1>6 DEF IInv, LockInv, CopyInv
<1>8. Sane(ledger, phase)' /\ \A u \in Threads : Sane(work[u].data, phase)'
    BY <1>1, <1>3 DEF IInv
<1> QED BY <1>5, <1>7, <1>8 DEF IInv

\* Replacing cost_time_report.json preserves the invariant.
LEMMA WriteReportStep ==
    ASSUME IInv, NEW t \in Threads, WriteReport(t)
    PROVE  IInv'
<1>1. /\ work[t].stage = "report"
      /\ work' = [work EXCEPT ![t].stage = "csv"]
      /\ UNCHANGED <<ledger, lock, phase, heartbeat, call, ncalls, faults,
                     begun, dropped>>
    BY DEF WriteReport
<1>2. work \in [Threads -> [stage : Stages, data : Ledgers]]
    BY DEF IInv, TypeOK, Stages
<1>3. /\ work' \in [Threads -> [stage : Stages, data : Ledgers]]
      /\ \A u \in Threads : work'[u].data = work[u].data
      /\ \A u \in Threads : u # t => work'[u] = work[u]
      /\ work'[t].stage = "csv"
    BY <1>1, <1>2 DEF Stages
<1>4. TypeOK'
    BY <1>1, <1>3 DEF IInv, TypeOK, Stages
<1>5. LockInv' /\ CopyInv'
    BY <1>1, <1>3 DEF IInv, LockInv, CopyInv
<1>6. Sane(ledger, phase)' /\ \A u \in Threads : Sane(work[u].data, phase)'
    BY <1>1, <1>3 DEF IInv
<1> QED BY <1>4, <1>5, <1>6 DEF IInv

\* Replacing cost_time_report.csv and releasing the lock preserve it.
LEMMA WriteCsvStep ==
    ASSUME IInv, NEW t \in Threads, WriteCsv(t)
    PROVE  IInv'
<1>1. /\ work[t].stage # "idle" /\ LeaveLocked(t, TRUE)
      /\ UNCHANGED <<ledger, call, ncalls, begun>>
      /\ faults' \in 0..MaxFaults /\ dropped' \subseteq Recorders
    BY DEF WriteCsv, IInv, TypeOK
<1> QED BY <1>1, LeaveLockedStep

\* An operation that raises without writing preserves the invariant.
LEMMA RaiseStep ==
    ASSUME IInv, NEW t \in Threads, Raise(t)
    PROVE  IInv'
<1>1. /\ work[t].stage # "idle" /\ LeaveLocked(t, FALSE)
      /\ UNCHANGED <<ledger, call, ncalls, begun>>
    BY DEF Raise
<1>2. faults' \in 0..MaxFaults
    BY ConstantsAssumption DEF Raise, IInv, TypeOK
<1>3. dropped' \subseteq Recorders
    BY ThreadFacts DEF Raise, IInv, TypeOK
<1> QED BY <1>1, <1>2, <1>3, LeaveLockedStep

\* The death of a process, which frees its lock, preserves the invariant.
LEMMA CrashStep ==
    ASSUME IInv, NEW p \in Processes, Crash(p)
    PROVE  IInv'
<1> DEFINE gone == {r \in Recorders : ProcessOf[r] = p /\ phase[r] # "new"}
<1>1. /\ phase' = [r \in Recorders |-> IF r \in gone THEN "dead" ELSE phase[r]]
      /\ heartbeat' = [r \in Recorders |-> IF r \in gone THEN "stopped"
                                           ELSE heartbeat[r]]
      /\ call' = [r \in Recorders |-> IF r \in gone THEN 0 ELSE call[r]]
      /\ work' = [t \in Threads |-> IF t[1] \in gone THEN Idle ELSE work[t]]
      /\ lock' = IF lock # Free /\ lock[1] \in gone THEN Free ELSE lock
      /\ UNCHANGED <<ledger, ncalls, begun, dropped>>
    BY DEF Crash
<1>2. faults' \in 0..MaxFaults
    BY ConstantsAssumption DEF Crash, IInv, TypeOK
<1> HIDE DEF gone
<1>3. /\ Idle \in [stage : Stages, data : Ledgers]
      /\ Idle.stage = "idle" /\ Idle.data = EmptyLedger
    BY EmptySane DEF Idle, Stages
<1>4. work' \in [Threads -> [stage : Stages, data : Ledgers]]
    BY <1>1, <1>3 DEF IInv, TypeOK, Stages
<1>5. /\ phase' \in [Recorders -> {"new", "starting", "open", "closing",
                                   "closed", "dead"}]
      /\ heartbeat' \in [Recorders -> {"none", "asleep", "awake", "beating",
                                       "returning", "stopped"}]
      /\ call' \in [Recorders -> 0..MaxCalls]
      /\ lock' \in Threads \cup {Free}
    BY <1>1, ConstantsAssumption DEF IInv, TypeOK
<1>6. TypeOK'
    BY <1>1, <1>2, <1>4, <1>5 DEF IInv, TypeOK, Stages
<1>7. LockInv'
    <2> SUFFICES ASSUME NEW t \in Threads, work'[t].stage # "idle"
                 PROVE  lock' = t
        BY DEF LockInv
    <2>1. t[1] \notin gone /\ work'[t] = work[t]
        BY <1>1, <1>3
    <2>2. lock = t
        BY <2>1 DEF IInv, LockInv
    <2> QED BY <1>1, <2>1, <2>2
<1>8. \A r \in Recorders : /\ phase'[r] = "new" => phase[r] = "new"
                           /\ phase'[r] \in Unfinished => phase[r] \in Unfinished
    BY <1>1 DEF Unfinished
<1>9. Sane(ledger, phase)'
    BY <1>1, <1>8, SaneForward DEF IInv
<1>10. ASSUME NEW t \in Threads PROVE Sane(work'[t].data, phase')
    <2>1. CASE t[1] \in gone
        BY <1>1, <1>3, <2>1, EmptySane
    <2>2. CASE t[1] \notin gone
        <3>1. work'[t] = work[t] BY <1>1, <2>2
        <3> QED BY <1>8, <3>1, SaneForward DEF IInv
    <2> QED BY <2>1, <2>2
<1>11. CopyInv'
    BY <1>1, <1>3 DEF IInv, CopyInv
<1> QED BY <1>6, <1>7, <1>9, <1>10, <1>11 DEF IInv

\* The empty output directory satisfies the invariant.
LEMMA InitIInv == Init => IInv
<1> SUFFICES ASSUME Init PROVE IInv OBVIOUS
<1>1. /\ Idle \in [stage : Stages, data : Ledgers]
      /\ Idle.stage = "idle" /\ Idle.data = EmptyLedger
    BY EmptySane DEF Idle, Stages
<1>2. TypeOK
    BY <1>1, EmptySane, ConstantsAssumption DEF Init, TypeOK, Stages
<1> QED BY <1>1, <1>2, EmptySane DEF Init, IInv, LockInv, CopyInv

\* Steps that change nothing preserve the invariant.
LEMMA StutterStep ==
    ASSUME IInv, UNCHANGED <<ledger, lock, work, phase, call, ncalls, faults,
                             begun, dropped>>,
           heartbeat' \in [Recorders -> {"none", "asleep", "awake", "beating",
                                        "returning", "stopped"}]
    PROVE  IInv'
BY DEF IInv, TypeOK, LockInv, CopyInv

\* Every step of every process preserves the invariant.
LEMMA NextIInv == IInv /\ [Next]_vars => IInv'
<1> SUFFICES ASSUME IInv, [Next]_vars PROVE IInv' OBVIOUS
<1>1. CASE UNCHANGED vars
    <2>1. heartbeat' \in [Recorders -> {"none", "asleep", "awake", "beating",
                                        "returning", "stopped"}]
        BY <1>1 DEF vars, IInv, TypeOK
    <2> QED BY <1>1, <2>1, StutterStep DEF vars
<1>2. CASE \E r \in Recorders : HeartbeatWake(r) \/ HeartbeatExit(r)
    <2>1. heartbeat' \in [Recorders -> {"none", "asleep", "awake", "beating",
                                        "returning", "stopped"}]
        BY <1>2 DEF HeartbeatWake, HeartbeatExit, IInv, TypeOK
    <2> QED BY <1>2, <2>1, StutterStep DEF HeartbeatWake, HeartbeatExit
<1>3. CASE \E r \in Recorders : Start(r)
    BY <1>3, StartStep
<1>4. CASE \E r \in Recorders : BeginCall(r)
    BY <1>4, BeginStep
<1>5. CASE \E r \in Recorders : RecordCall(r)
    BY <1>5, RecordStep
<1>6. CASE \E r \in Recorders : Finish(r)
    BY <1>6, FinishStep
<1>7. CASE \E r \in Recorders : HeartbeatCheckpoint(r)
    BY <1>7, HeartbeatStep
<1>8. CASE \E t \in Threads : Write(t)
    BY <1>8, WriteLedgerStep, WriteReportStep, WriteCsvStep DEF Write
<1>9. CASE \E t \in Threads : Raise(t)
    BY <1>9, RaiseStep
<1>10. CASE \E p \in Processes : Crash(p)
    BY <1>10, CrashStep
<1> QED
    BY <1>1, <1>2, <1>3, <1>4, <1>5, <1>6, <1>7, <1>8, <1>9, <1>10 DEF Next

\* The inductive invariant holds throughout.
LEMMA Invariance == Spec => []IInv
<1> QED BY InitIInv, NextIInv, PTL DEF Spec

(***************************************************************************)
(* The theorems.                                                           *)
(***************************************************************************)

\* The ledger, its copies and the recorders' states have their types.
THEOREM TypeCorrect == Spec => []TypeOK
<1>1. IInv => TypeOK BY DEF IInv
<1> QED BY <1>1, Invariance, PTL

\* However many processes share the output directory, whatever crashes and
\* whatever reads or writes fail, run_metrics.json never shows two running
\* attempts at one instance.
THEOREM AtMostOneRunning == Spec => []OneRunning
<1>1. IInv => OneRunning BY DEF IInv, Sane, OneRunning
<1> QED BY <1>1, Invariance, PTL

\* Only WriteLedger changes the ledger, and what it writes extends it.
LEMMA LedgerGrows ==
    ASSUME ~ReadsCanFail, IInv, [Next]_vars
    PROVE  ledger' = ledger \/ Extends(ledger, ledger')
<1>1. CASE \E t \in Threads : WriteLedger(t)
    <2>1. PICK t \in Threads : WriteLedger(t) BY <1>1
    <2>2. work[t].stage = "ledger" /\ ledger' = work[t].data
        BY <2>1 DEF WriteLedger
    <2> QED BY <2>2 DEF IInv, CopyInv
<1>2. CASE ~\E t \in Threads : WriteLedger(t)
    BY <1>2 DEF Next, vars, Write, WriteReport, WriteCsv, Raise, Crash, Start,
       BeginCall, RecordCall, Finish, HeartbeatWake, HeartbeatCheckpoint,
       HeartbeatExit, EnterLocked
<1> QED BY <1>1, <1>2

\* As long as an existing run_metrics.json can be read, no step of any
\* process, crashes and failed writes included, removes an attempt or a
\* recorded call.
THEOREM NothingForgotten == ~ReadsCanFail => (Spec => HistoryRetained)
<1> SUFFICES ASSUME ~ReadsCanFail PROVE Spec => HistoryRetained OBVIOUS
<1>1. IInv /\ [Next]_vars => [Retains(ledger, ledger')]_ledger
    BY LedgerGrows DEF Extends
<1> QED BY <1>1, Invariance, PTL DEF Spec, HistoryRetained

\* Under the same assumption an instance counted as completed stays so.
THEOREM CompletedForever == ~ReadsCanFail => (Spec => CompletedStable)
<1> SUFFICES ASSUME ~ReadsCanFail PROVE Spec => CompletedStable OBVIOUS
<1>1. IInv /\ [Next]_vars =>
        [CompletedInstanceIds(ledger) \subseteq CompletedInstanceIds(ledger')]_ledger
    BY LedgerGrows DEF Extends, CompletedInstanceIds
<1> QED BY <1>1, Invariance, PTL DEF Spec, CompletedStable

(***************************************************************************)
(* The books: every call is accounted for and the reports are never ahead. *)
(* While the ledger can be read, the copy the holder of the lock is about  *)
(* to write keeps every call of a recorder that has not swallowed a failed *)
(* write; the marker such a recorder left is that of the call it is in.    *)
(* A main thread that holds a copy not yet written may already be in       *)
(* another call, or in none: if it never writes, it has dropped a write.   *)
(***************************************************************************)
Accounted(l, r, n) ==
    l[r].pending = n \/ \E k \in DOMAIN l[r].calls : l[r].calls[k] = n

\* What is left of the calls of recorder r in ledger l is left in m.
KeepsCalls(l, m, r) == \A n \in ApiCalls : Accounted(l, r, n) => Accounted(m, r, n)

\* An attempt that is not there has no calls.
AbsentEmpty(l) ==
    \A r \in Recorders : l[r].status = "absent" => l[r].pending = 0 /\ l[r].calls = <<>>

\* The marker in l, if there is one, is that of the call c.
MarkerOf(l, r, c) == l[r].pending = 0 \/ l[r].pending = c

NothingMissing == AbsentEmpty(ledger) /\ \A t \in Threads : AbsentEmpty(work[t].data)

MarkerInv ==
    \A r \in Recorders \ dropped :
        phase[r] \in Unfinished /\ work[Main(r)].stage \notin {"ledger", "raise"}
            => MarkerOf(ledger, r, call[r])

CopyKeeps ==
    \A t \in Threads : work[t].stage = "ledger" =>
        \A r \in Recorders \ dropped :
            /\ KeepsCalls(ledger, work[t].data, r)
            /\ phase[r] \in Unfinished => MarkerOf(work[t].data, r, call[r])

Calls == CallsAccounted /\ NothingMissing /\ MarkerInv /\ CopyKeeps

\* Once the ledger is written, the copy in hand is what the file holds, and
\* once the report is, the report is that of the file.
Summaries == [Instances -> [attempts : Nat, completed : Nat, interrupted : Nat, failed : Nat,
                            apiCalls : Nat]]

Reports ==
    /\ report \in Summaries /\ csv \in Summaries
    /\ ReportNeverAhead
    /\ \A t \in Threads :
         /\ work[t].stage \in {"report", "csv"} => work[t].data = ledger
         /\ work[t].stage = "csv" => report = BuildReport(ledger)

\* Settling a call accounts for it.
LEMMA SettleKeeps ==
    ASSUME NEW a \in Attempt, NEW n \in ApiCalls,
           a.pending = n \/ \E k \in DOMAIN a.calls : a.calls[k] = n
    PROVE  /\ Settle(a).pending = 0
           /\ \E k \in DOMAIN Settle(a).calls : Settle(a).calls[k] = n
<1> DEFINE c == IF a.pending = 0 THEN a.calls ELSE Append(a.calls, a.pending)
<1>1. /\ a.calls \in Seq(ApiCalls) /\ n # 0
      /\ a.pending # 0 => a.pending \in ApiCalls
    BY ConstantsAssumption DEF Attempt, ApiCalls
<1>2. \E k \in DOMAIN c : c[k] = n
    <2>1. CASE a.pending = 0
        BY <1>1, <2>1
    <2>2. CASE a.pending # 0
        <3>1. c = Append(a.calls, a.pending) BY <2>2
        <3>2. /\ Len(c) = Len(a.calls) + 1 /\ Len(a.calls) \in Nat /\ DOMAIN c = 1..Len(c)
              /\ c[Len(c)] = a.pending
              /\ \A k \in 1..Len(a.calls) : c[k] = a.calls[k]
            BY <1>1, <2>2, <3>1
        <3>3. DOMAIN a.calls = 1..Len(a.calls) BY <1>1
        <3> QED BY <3>2, <3>3
    <2> QED BY <2>1, <2>2
<1>3. Settle(a) = [a EXCEPT !.pending = 0, !.calls = c]
    BY DEF Settle
<1> HIDE DEF c
<1>4. Settle(a).pending = 0 /\ Settle(a).calls = c
    BY <1>3 DEF Attempt
<1> QED BY <1>2, <1>4

\* _start_attempt keeps the calls of every attempt but the one it creates,
\* and leaves no marker that was not there.
LEMMA StartKeeps ==
    ASSUME NEW l \in Ledgers, NEW r \in Recorders, AbsentEmpty(l)
    PROVE  /\ AbsentEmpty(StartAttempt(l, r))
           /\ \A q \in Recorders \ {r} :
                /\ KeepsCalls(l, StartAttempt(l, r), q)
                /\ MarkerOf(StartAttempt(l, r), q, l[q].pending)
           /\ StartAttempt(l, r)[r].pending = 0
<1> DEFINE S(q) == [Settle(l[q]) EXCEPT !.status = "interrupted",
                                        !.reason = "superseded"]
           m == StartAttempt(l, r)
<1>1. ASSUME NEW q \in Recorders
      PROVE  /\ S(q).status = "interrupted" /\ S(q).pending = 0
             /\ S(q).calls = Settle(l[q]).calls
    <2>1. l[q] \in Attempt BY DEF Ledgers
    <2>2. Settle(l[q]) \in Attempt BY <2>1, SettleType
    <2>3. Settle(l[q]).pending = 0 BY <2>1 DEF Settle, Attempt
    <2> QED BY <2>2, <2>3 DEF Attempt
<1>2. m = [q \in Recorders |->
             IF q = r THEN NewAttempt
             ELSE IF InstanceOf[q] = InstanceOf[r] /\ l[q].status = "running"
                  THEN S(q) ELSE l[q]]
    BY DEF StartAttempt
<1> HIDE DEF S, m
<1>3. NewAttempt.status = "running" /\ NewAttempt.pending = 0
    BY DEF NewAttempt, NoAttempt
<1>4. AbsentEmpty(m)
    BY <1>1, <1>2, <1>3 DEF AbsentEmpty
<1>5. ASSUME NEW q \in Recorders \ {r} PROVE KeepsCalls(l, m, q)
    <2> SUFFICES ASSUME NEW n \in ApiCalls, Accounted(l, q, n) PROVE Accounted(m, q, n)
        BY DEF KeepsCalls
    <2>1. CASE m[q] = l[q]
        BY <2>1 DEF Accounted
    <2>2. CASE m[q] = S(q)
        <3>1. l[q] \in Attempt BY DEF Ledgers
        <3>2. \E k \in DOMAIN Settle(l[q]).calls : Settle(l[q]).calls[k] = n
            BY <3>1, SettleKeeps DEF Accounted
        <3> QED BY <1>1, <2>2, <3>2 DEF Accounted
    <2> QED BY <1>2, <2>1, <2>2
<1>6. \A q \in Recorders \ {r} : MarkerOf(m, q, l[q].pending)
    BY <1>1, <1>2 DEF MarkerOf
<1> QED BY <1>2, <1>3, <1>4, <1>5, <1>6 DEF m

\* The operations of a recorder keep its calls, provided that the marker they
\* pop or replace is that of the call they are about.
LEMMA OperationKeeps ==
    ASSUME NEW l \in Ledgers, NEW r \in Recorders, NEW m, NEW c, AbsentEmpty(l),
           l[r].status # "absent",
           \/ \E n \in ApiCalls : m = BeginApiCall(l, r, n) /\ l[r].pending = 0 /\ c = n
           \/ \E n \in ApiCalls : m = RecordApiCall(l, r, n) /\ MarkerOf(l, r, n) /\ c = 0
           \/ \E s \in EndStatus : m = FinishAttempt(l, r, s) /\ c = 0
    PROVE  KeepsCalls(l, m, r) /\ MarkerOf(m, r, c) /\ AbsentEmpty(m)
<1>0. l[r] \in Attempt /\ l[r].calls \in Seq(ApiCalls) /\ DOMAIN l[r].calls = 1..Len(l[r].calls)
    BY DEF Ledgers, Attempt
<1>1. ASSUME NEW a, m = [l EXCEPT ![r] = a] PROVE m[r] = a /\ \A q \in Recorders \ {r} : m[q] = l[q]
    BY <1>1 DEF Ledgers
<1>2. ASSUME NEW a, m = [l EXCEPT ![r] = a], a.status # "absent" PROVE AbsentEmpty(m)
    BY <1>1, <1>2 DEF AbsentEmpty
<1>3. CASE \E n \in ApiCalls : m = BeginApiCall(l, r, n) /\ l[r].pending = 0 /\ c = n
    <2>1. PICK n \in ApiCalls : m = BeginApiCall(l, r, n) /\ l[r].pending = 0 /\ c = n BY <1>3
    <2> DEFINE a == [l[r] EXCEPT !.pending = n]
    <2>2. a.calls = l[r].calls /\ a.status = l[r].status /\ a.pending = n
        BY <1>0 DEF Attempt
    <2>3. m = [l EXCEPT ![r] = a] BY <2>1 DEF BeginApiCall
    <2>4. 0 \notin ApiCalls BY ConstantsAssumption DEF ApiCalls
    <2> HIDE DEF a
    <2>5. m[r] = a BY <1>1, <2>3
    <2> QED BY <1>2, <2>1, <2>2, <2>3, <2>4, <2>5 DEF KeepsCalls, Accounted, MarkerOf
<1>4. CASE \E n \in ApiCalls : m = RecordApiCall(l, r, n) /\ MarkerOf(l, r, n) /\ c = 0
    <2>1. PICK n \in ApiCalls : m = RecordApiCall(l, r, n) /\ MarkerOf(l, r, n) /\ c = 0 BY <1>4
    <2> DEFINE d == Append(l[r].calls, n)
               a == [l[r] EXCEPT !.pending = 0, !.calls = d]
    <2>2. m = [l EXCEPT ![r] = a] BY <2>1 DEF RecordApiCall
    <2>3. /\ DOMAIN d = 1..(Len(l[r].calls) + 1) /\ d[Len(l[r].calls) + 1] = n
          /\ Len(l[r].calls) \in Nat /\ \A k \in 1..Len(l[r].calls) : d[k] = l[r].calls[k]
        BY <1>0
    <2> HIDE DEF d
    <2>4. a.calls = d /\ a.status = l[r].status /\ a.pending = 0
        BY <1>0 DEF Attempt
    <2>5. 0 \notin ApiCalls BY ConstantsAssumption DEF ApiCalls
    <2> HIDE DEF a
    <2>6. m[r] = a BY <1>1, <2>2
    <2>7. KeepsCalls(l, m, r)
        BY <1>0, <2>1, <2>3, <2>4, <2>5, <2>6 DEF KeepsCalls, Accounted, MarkerOf
    <2> QED BY <1>2, <2>2, <2>4, <2>6, <2>7 DEF MarkerOf
<1>5. CASE \E s \in EndStatus : m = FinishAttempt(l, r, s) /\ c = 0
    <2>1. PICK s \in EndStatus : m = FinishAttempt(l, r, s) /\ c = 0 BY <1>5
    <2> DEFINE a == [Settle(l[r]) EXCEPT !.status = s]
    <2>2. Settle(l[r]) \in Attempt BY <1>0, SettleType
    <2>3. a.calls = Settle(l[r]).calls /\ a.status # "absent" /\ a.pending = Settle(l[r]).pending
        BY <2>2 DEF Attempt, EndStatus
    <2>4. Settle(l[r]).pending = 0 BY <1>0 DEF Settle, Attempt
    <2>5. m = [l EXCEPT ![r] = a] BY <2>1 DEF FinishAttempt
    <2> HIDE DEF a
    <2>6. m[r] = a BY <1>1, <2>5
    <2>7. KeepsCalls(l, m, r)
        <3> SUFFICES ASSUME NEW n \in ApiCalls, Accounted(l, r, n) PROVE Accounted(m, r, n)
            BY DEF KeepsCalls
        <3>1. \E k \in DOMAIN Settle(l[r]).calls : Settle(l[r]).calls[k] = n
            BY <1>0, SettleKeeps DEF Accounted
        <3> QED BY <2>3, <2>6, <3>1 DEF Accounted
    <2> QED BY <1>2, <2>3, <2>4, <2>5, <2>6, <2>7 DEF MarkerOf
<1> QED BY <1>3, <1>4, <1>5

\* Taking the locks with a copy that keeps the calls.
LEMMA EnterCalls ==
    ASSUME ~ReadsCanFail, IInv, Calls, NEW t \in Threads, NEW l, NEW raises \in BOOLEAN,
           NEW new \in Ledgers, EnterLocked(t, l, raises, new),
           \A q \in Recorders : t # Main(q) => phase'[q] = phase[q] /\ call'[q] = call[q],
           ~raises => AbsentEmpty(new),
           ~raises => \A q \in Recorders \ dropped :
                        /\ KeepsCalls(ledger, new, q)
                        /\ phase'[q] \in Unfinished => MarkerOf(new, q, call'[q])
    PROVE  Calls'
<1> DEFINE w == [stage |-> IF raises THEN "raise" ELSE "ledger",
                 data |-> IF raises THEN l ELSE new]
<1>1. /\ work' = [work EXCEPT ![t] = w] /\ lock = Free /\ l = ledger
      /\ UNCHANGED <<ledger, begun, dropped>>
    BY DEF EnterLocked
<1>2. /\ w.stage = IF raises THEN "raise" ELSE "ledger"
      /\ w.data = IF raises THEN ledger ELSE new
    BY <1>1
<1> HIDE DEF w
<1>3. work \in [Threads -> [stage : Stages, data : Ledgers]]
    BY DEF IInv, TypeOK, Stages
<1>4. \A u \in Threads : work[u].stage = "idle"
    BY <1>1, ThreadFacts DEF IInv, LockInv
<1>5. work'[t] = w /\ \A u \in Threads \ {t} : work'[u] = work[u]
    BY <1>1, <1>3
<1>6. CallsAccounted'
    BY <1>1 DEF Calls, CallsAccounted
<1>7. NothingMissing'
    BY <1>1, <1>2, <1>5 DEF Calls, NothingMissing, AbsentEmpty
<1>8. MarkerInv'
    <2> SUFFICES ASSUME NEW q \in Recorders \ dropped, phase'[q] \in Unfinished,
                        work'[Main(q)].stage \notin {"ledger", "raise"}
                 PROVE  MarkerOf(ledger, q, call'[q])
        BY <1>1 DEF MarkerInv, MarkerOf
    <2>1. Main(q) # t /\ Main(q) \in Threads BY <1>2, <1>5, ThreadFacts
    <2>2. work[Main(q)].stage \notin {"ledger", "raise"} BY <1>4, <2>1
    <2> QED BY <2>1, <2>2 DEF Calls, MarkerInv
<1>9. CopyKeeps'
    <2> SUFFICES ASSUME NEW u \in Threads, work'[u].stage = "ledger", NEW q \in Recorders \ dropped
                 PROVE  /\ KeepsCalls(ledger, work'[u].data, q)
                        /\ phase'[q] \in Unfinished => MarkerOf(work'[u].data, q, call'[q])
        BY <1>1 DEF CopyKeeps, KeepsCalls, MarkerOf, Accounted
    <2>1. u = t /\ ~raises /\ work'[u].data = new BY <1>2, <1>4, <1>5
    <2> QED BY <2>1
<1> QED BY <1>6, <1>7, <1>8, <1>9 DEF Calls

\* What an operation of an open recorder writes keeps the calls.
LEMMA OperationCalls ==
    ASSUME ~ReadsCanFail, IInv, Calls, NEW r \in Recorders, NEW l \in {ledger, EmptyLedger}, NEW m,
           Ready(r), EnterLocked(Main(r), l, Missing(l, r), m), NEW c, call' = [call EXCEPT ![r] = c],
           \A q \in Recorders \ {r} : phase'[q] = phase[q],
           \/ \E n \in ApiCalls : m = BeginApiCall(l, r, n) /\ call[r] = 0 /\ c = n
           \/ \E n \in ApiCalls : m = RecordApiCall(l, r, n) /\ call[r] \in {0, n} /\ c = 0
           \/ \E s \in EndStatus : m = FinishAttempt(l, r, s) /\ c = 0
    PROVE  Calls'
<1>1. l = ledger /\ lock = Free BY DEF EnterLocked
<1>2. l \in Ledgers /\ AbsentEmpty(l) BY <1>1 DEF IInv, TypeOK, Calls, NothingMissing
<1>3. m \in Ledgers /\ \A q \in Recorders \ {r} : m[q] = l[q] BY <1>2, OperationFacts
<1>4. \A q \in Recorders : Main(r) # Main(q) => phase'[q] = phase[q] /\ call'[q] = call[q]
    BY DEF IInv, TypeOK
<1>5. call'[r] = c /\ call \in [Recorders -> 0..MaxCalls] BY DEF IInv, TypeOK
<1>6. ASSUME ~Missing(l, r)
      PROVE  AbsentEmpty(m) /\ \A q \in Recorders \ dropped :
                                  /\ KeepsCalls(ledger, m, q)
                                  /\ phase'[q] \in Unfinished => MarkerOf(m, q, call'[q])
    <2>1. \A q \in Recorders \ dropped :
             work[Main(q)].stage = "idle" /\ (phase[q] \in Unfinished => MarkerOf(ledger, q, call[q]))
        BY <1>1, ThreadFacts DEF IInv, LockInv, Calls, MarkerInv
    <2>2. ASSUME r \notin dropped PROVE KeepsCalls(l, m, r) /\ MarkerOf(m, r, c)
        <3>1. MarkerOf(l, r, call[r]) BY <1>1, <2>1, <2>2 DEF Ready, Unfinished
        <3>2. call[r] = 0 => l[r].pending = 0 BY <3>1 DEF MarkerOf
        <3>3. \A n : call[r] \in {0, n} => MarkerOf(l, r, n) BY <3>1 DEF MarkerOf
        <3> QED BY <1>2, <1>6, <3>2, <3>3, OperationKeeps DEF Missing
    <2>3. AbsentEmpty(m)
        <3>1. m[r].status = l[r].status \/ m[r].status \in EndStatus
            BY <1>2, OperationFacts
        <3>2. m[r].status # "absent" BY <1>6, <3>1 DEF Missing, EndStatus
        <3> QED BY <1>2, <1>3, <3>2 DEF AbsentEmpty
    <2>4. ASSUME NEW q \in Recorders \ dropped
          PROVE  KeepsCalls(ledger, m, q) /\ (phase'[q] \in Unfinished => MarkerOf(m, q, call'[q]))
        <3>1. CASE q = r
            BY <1>1, <1>5, <2>2, <3>1
        <3>2. CASE q # r
            <4>1. call'[q] = call[q] /\ phase'[q] = phase[q] BY <1>5, <3>2
            <4> QED BY <1>1, <1>3, <2>1, <3>2, <4>1 DEF KeepsCalls, Accounted, MarkerOf
        <3> QED BY <3>1, <3>2
    <2> QED BY <2>3, <2>4
<1>7. Missing(l, r) \in BOOLEAN BY DEF Missing
<1>8. Main(r) \in Threads BY ThreadFacts
<1> DEFINE raises == Missing(l, r)
<1>9. raises \in BOOLEAN /\ EnterLocked(Main(r), l, raises, m) BY <1>7
<1>10. ~raises => AbsentEmpty(m) BY <1>6
<1>11. ~raises => \A q \in Recorders \ dropped :
                    /\ KeepsCalls(ledger, m, q)
                    /\ phase'[q] \in Unfinished => MarkerOf(m, q, call'[q])
    BY <1>6
<1> HIDE DEF raises
<1> QED BY <1>3, <1>4, <1>8, <1>9, <1>10, <1>11, EnterCalls

\* Starting, calling and finishing keep the calls.
LEMMA MainCalls ==
    ASSUME ~ReadsCanFail, IInv, Calls, NEW r \in Recorders,
           Start(r) \/ BeginCall(r) \/ RecordCall(r) \/ Finish(r)
    PROVE  Calls'
<1>1. CASE Start(r)
    <2>1. PICK l \in {ledger, EmptyLedger} : EnterLocked(Main(r), l, FALSE, StartAttempt(l, r))
        BY <1>1 DEF Start
    <2>2. /\ l = ledger /\ lock = Free /\ phase[r] = "new" /\ call' = call
          /\ phase' = [phase EXCEPT ![r] = "starting"]
        BY <1>1, <2>1 DEF Start, EnterLocked
    <2>3. l \in Ledgers /\ AbsentEmpty(l) /\ l[r].status = "absent"
        BY <2>2 DEF IInv, TypeOK, Calls, NothingMissing, Sane
    <2> DEFINE m == StartAttempt(l, r)
    <2>4. m \in Ledgers BY <2>3, StartAttemptFacts
    <2>5. /\ AbsentEmpty(m) /\ m[r].pending = 0
          /\ \A q \in Recorders \ {r} : KeepsCalls(l, m, q) /\ MarkerOf(m, q, l[q].pending)
        BY <2>3, StartKeeps
    <2>6. KeepsCalls(l, m, r)
        <3>1. 0 \notin ApiCalls BY ConstantsAssumption DEF ApiCalls
        <3>2. l[r].pending = 0 /\ l[r].calls = <<>> BY <2>3 DEF AbsentEmpty
        <3>3. DOMAIN l[r].calls = {} BY <3>2
        <3> QED BY <3>1, <3>2, <3>3 DEF KeepsCalls, Accounted
    <2> HIDE DEF m
    <2>7. \A q \in Recorders : Main(r) # Main(q) => phase'[q] = phase[q] /\ call'[q] = call[q]
        BY <2>2 DEF IInv, TypeOK
    <2>8. ASSUME NEW q \in Recorders \ dropped, phase'[q] \in Unfinished PROVE MarkerOf(m, q, call'[q])
        <3>1. CASE q = r
            BY <2>5, <3>1 DEF MarkerOf
        <3>2. CASE q # r
            <4>1. work[Main(q)].stage = "idle" BY <2>2, ThreadFacts DEF IInv, LockInv
            <4>2. phase[q] \in Unfinished BY <2>2, <2>8, <3>2 DEF IInv, TypeOK
            <4>3. MarkerOf(ledger, q, call[q]) BY <4>1, <4>2 DEF Calls, MarkerInv
            <4> QED BY <2>2, <2>5, <3>2, <4>3 DEF MarkerOf
        <3> QED BY <3>1, <3>2
    <2>9. EnterLocked(Main(r), l, FALSE, m) /\ Main(r) \in Threads BY <2>1, ThreadFacts DEF m
    <2> QED BY <2>2, <2>4, <2>5, <2>6, <2>7, <2>8, <2>9, EnterCalls
<1>2. CASE BeginCall(r)
    <2> DEFINE n == ncalls[r] + 1
    <2>1. PICK l \in {ledger, EmptyLedger} :
            EnterLocked(Main(r), l, Missing(l, r), BeginApiCall(l, r, n))
        BY <1>2 DEF BeginCall
    <2>2. n \in ApiCalls
        BY <1>2, ConstantsAssumption DEF BeginCall, IInv, TypeOK, ApiCalls
    <2>3. Ready(r) /\ call[r] = 0 /\ call' = [call EXCEPT ![r] = n] /\ phase' = phase
        BY <1>2 DEF BeginCall
    <2> HIDE DEF n
    <2> QED BY <2>1, <2>2, <2>3, OperationCalls
<1>3. CASE RecordCall(r)
    <2> DEFINE n == IF call[r] # 0 THEN call[r] ELSE ncalls[r] + 1
    <2>1. PICK l \in {ledger, EmptyLedger} :
            EnterLocked(Main(r), l, Missing(l, r), RecordApiCall(l, r, n))
        BY <1>3 DEF RecordCall
    <2>2. n \in ApiCalls /\ call[r] \in {0, n}
        BY <1>3, ConstantsAssumption DEF RecordCall, IInv, TypeOK, ApiCalls
    <2>3. Ready(r) /\ call' = [call EXCEPT ![r] = 0] /\ phase' = phase
        BY <1>3 DEF RecordCall
    <2> HIDE DEF n
    <2> QED BY <2>1, <2>2, <2>3, OperationCalls
<1>4. CASE Finish(r)
    <2>1. PICK l \in {ledger, EmptyLedger}, s \in EndStatus :
            EnterLocked(Main(r), l, Missing(l, r), FinishAttempt(l, r, s))
        BY <1>4 DEF Finish
    <2>2. /\ Ready(r) /\ call' = [call EXCEPT ![r] = 0]
          /\ \A q \in Recorders \ {r} : phase'[q] = phase[q]
        BY <1>4 DEF Finish, IInv, TypeOK
    <2> QED BY <2>1, <2>2, OperationCalls
<1> QED BY <1>1, <1>2, <1>3, <1>4

\* A checkpoint keeps the calls.
LEMMA HeartbeatCalls ==
    ASSUME ~ReadsCanFail, IInv, Calls, NEW r \in Recorders, HeartbeatCheckpoint(r)
    PROVE  Calls'
<1>1. PICK l \in {ledger, EmptyLedger} : EnterLocked(Heart(r), l, Missing(l, r), l)
    BY DEF HeartbeatCheckpoint
<1>2. l = ledger /\ lock = Free /\ UNCHANGED <<phase, call>>
    BY <1>1 DEF EnterLocked, HeartbeatCheckpoint
<1>3. l \in Ledgers /\ AbsentEmpty(l) BY <1>2 DEF IInv, TypeOK, Calls, NothingMissing
<1>4. \A q \in Recorders \ dropped :
        /\ KeepsCalls(ledger, l, q)
        /\ phase'[q] \in Unfinished => MarkerOf(l, q, call'[q])
    <2>1. \A q \in Recorders : work[Main(q)].stage = "idle"
        BY <1>2, ThreadFacts DEF IInv, LockInv
    <2> QED BY <1>2, <2>1 DEF Calls, MarkerInv, KeepsCalls
<1> DEFINE raises == Missing(l, r)
<1>5. raises \in BOOLEAN /\ EnterLocked(Heart(r), l, raises, l) BY <1>1 DEF Missing
<1>6. Heart(r) \in Threads BY ThreadFacts
<1> HIDE DEF raises
<1> QED BY <1>2, <1>3, <1>4, <1>5, <1>6, EnterCalls

\* Replacing run_metrics.json keeps the calls that were begun, and adds those
\* whose markers it writes.
LEMMA WriteLedgerCalls ==
    ASSUME IInv, Calls, NEW t \in Threads, WriteLedger(t)
    PROVE  Calls'
<1> DEFINE new == {<<r, work[t].data[r].pending>> :
                     r \in {q \in Recorders : work[t].data[q].pending # 0}}
<1>1. /\ work[t].stage = "ledger" /\ ledger' = work[t].data
      /\ work' = [work EXCEPT ![t].stage = "report"]
      /\ begun' = begun \cup new
      /\ UNCHANGED <<phase, call, dropped>>
    BY DEF WriteLedger
<1>2. \A c \in new : c[1] \in Recorders /\ work[t].data[c[1]].pending = c[2]
    OBVIOUS
<1> HIDE DEF new
<1>3. work \in [Threads -> [stage : Stages, data : Ledgers]]
    BY DEF IInv, TypeOK, Stages
<1>4. /\ \A u \in Threads : work'[u].data = work[u].data
      /\ \A u \in Threads : u # t => work'[u] = work[u]
      /\ work'[t].stage = "report"
    BY <1>1, <1>3
<1>5. \A u \in Threads : u # t => work[u].stage = "idle"
    BY <1>1 DEF IInv, LockInv
<1>6. \A u \in Threads : work'[u].stage \notin {"ledger", "raise"}
    BY <1>4, <1>5
<1>7. CallsAccounted'
    <2> SUFFICES ASSUME NEW c \in begun', c[1] \notin dropped
                 PROVE  Accounted(ledger', c[1], c[2])
        BY <1>1 DEF CallsAccounted, Accounted
    <2>1. CASE c \in new
        BY <1>1, <1>2, <2>1 DEF Accounted
    <2>2. CASE c \in begun
        <3>1. c[1] \in Recorders /\ c[2] \in ApiCalls BY <2>2 DEF IInv, TypeOK, ApiCalls
        <3>2. Accounted(ledger, c[1], c[2]) BY <2>2 DEF Calls, CallsAccounted, Accounted
        <3>3. KeepsCalls(ledger, work[t].data, c[1]) BY <1>1, <3>1 DEF Calls, CopyKeeps
        <3> QED BY <1>1, <3>1, <3>2, <3>3 DEF KeepsCalls
    <2> QED BY <1>1, <2>1, <2>2
<1>8. NothingMissing'
    BY <1>1, <1>4 DEF Calls, NothingMissing, AbsentEmpty
<1>9. MarkerInv'
    BY <1>1 DEF Calls, MarkerInv, CopyKeeps, MarkerOf
<1>10. CopyKeeps'
    BY <1>6 DEF CopyKeeps
<1> QED BY <1>7, <1>8, <1>9, <1>10 DEF Calls

\* The other steps: the report is written, the locks are released.
LEMMA ReleaseCalls ==
    ASSUME IInv, Calls, NEW t \in Threads, WriteReport(t) \/ WriteCsv(t) \/ Raise(t)
    PROVE  Calls'
<1>1. work \in [Threads -> [stage : Stages, data : Ledgers]]
    BY DEF IInv, TypeOK, Stages
<1>2. UNCHANGED <<ledger, begun, call>> /\ dropped \subseteq dropped' /\ work[t].stage # "idle"
    BY DEF WriteReport, WriteCsv, Raise
<1>3. \A u \in Threads : u # t => work[u].stage = "idle" /\ work'[u] = work[u]
    BY <1>1, <1>2 DEF IInv, LockInv, WriteReport, WriteCsv, Raise, LeaveLocked
<1>4. /\ work'[t].stage \in {"idle", "csv"}
      /\ work'[t].data = work[t].data \/ work'[t].data = EmptyLedger
    <2>1. Idle.stage = "idle" /\ Idle.data = EmptyLedger BY DEF Idle
    <2>2. work' = [work EXCEPT ![t] = Idle] \/ work' = [work EXCEPT ![t].stage = "csv"]
        BY DEF WriteReport, WriteCsv, Raise, LeaveLocked
    <2> QED BY <1>1, <2>1, <2>2
<1>5. \A q \in Recorders : phase'[q] \in Unfinished => phase[q] \in Unfinished
    BY ThreadFacts, ZenonT(60) DEF WriteReport, WriteCsv, Raise, LeaveLocked, PhaseAfter, Unfinished, IInv, TypeOK
<1>6. CallsAccounted'
    BY <1>2 DEF Calls, CallsAccounted
<1>7. NothingMissing'
    <2>1. AbsentEmpty(EmptyLedger) BY DEF AbsentEmpty, EmptyLedger, NoAttempt
    <2> QED BY <1>2, <1>3, <1>4, <2>1 DEF Calls, NothingMissing, AbsentEmpty
<1>8. MarkerInv'
    <2> SUFFICES ASSUME NEW q \in Recorders, q \notin dropped', phase'[q] \in Unfinished
                 PROVE  MarkerOf(ledger, q, call[q])
        BY <1>2 DEF MarkerInv, MarkerOf
    <2>1. work[Main(q)].stage \notin {"ledger", "raise"}
        <3>1. CASE Main(q) # t
            BY <1>3, <3>1, ThreadFacts
        <3>2. CASE Main(q) = t
            <4>1. t[1] = q BY <3>2, ThreadFacts
            <4> QED BY <3>2, <4>1 DEF WriteReport, WriteCsv, Raise
        <3> QED BY <3>1, <3>2
    <2> QED BY <1>2, <1>5, <2>1 DEF Calls, MarkerInv
<1>9. CopyKeeps'
    BY <1>3, <1>4 DEF CopyKeeps
<1> QED BY <1>6, <1>7, <1>8, <1>9 DEF Calls

\* A process dies: its recorders make no more calls.
LEMMA CrashCalls ==
    ASSUME IInv, Calls, NEW p \in Processes, Crash(p)
    PROVE  Calls'
<1> DEFINE gone == {r \in Recorders : ProcessOf[r] = p /\ phase[r] # "new"}
<1>1. /\ phase' = [r \in Recorders |-> IF r \in gone THEN "dead" ELSE phase[r]]
      /\ call' = [r \in Recorders |-> IF r \in gone THEN 0 ELSE call[r]]
      /\ work' = [t \in Threads |-> IF t[1] \in gone THEN Idle ELSE work[t]]
      /\ UNCHANGED <<ledger, begun, dropped>>
    BY DEF Crash
<1> HIDE DEF gone
<1>2. Idle.stage = "idle" /\ Idle.data = EmptyLedger /\ AbsentEmpty(EmptyLedger)
    BY DEF Idle, AbsentEmpty, EmptyLedger, NoAttempt
<1>3. CallsAccounted'
    BY <1>1 DEF Calls, CallsAccounted
<1>4. NothingMissing'
    BY <1>1, <1>2 DEF Calls, NothingMissing, AbsentEmpty
<1>5. \A r \in Recorders : phase'[r] \in Unfinished =>
         r \notin gone /\ phase[r] \in Unfinished /\ call'[r] = call[r]
    BY <1>1 DEF Unfinished
<1>6. MarkerInv'
    <2> SUFFICES ASSUME NEW q \in Recorders \ dropped, phase'[q] \in Unfinished,
                        work'[Main(q)].stage \notin {"ledger", "raise"}
                 PROVE  MarkerOf(ledger, q, call'[q])
        BY <1>1 DEF MarkerInv, MarkerOf
    <2>1. work'[Main(q)] = work[Main(q)] BY <1>1, <1>5, ThreadFacts
    <2> QED BY <1>5, <2>1 DEF Calls, MarkerInv
<1>7. CopyKeeps'
    <2> SUFFICES ASSUME NEW u \in Threads, work'[u].stage = "ledger", NEW q \in Recorders \ dropped
                 PROVE  /\ KeepsCalls(ledger, work'[u].data, q)
                        /\ phase'[q] \in Unfinished => MarkerOf(work'[u].data, q, call'[q])
        BY <1>1 DEF CopyKeeps, KeepsCalls, MarkerOf, Accounted
    <2>1. work'[u] = work[u] BY <1>1, <1>2
    <2> QED BY <1>5, <2>1 DEF Calls, CopyKeeps
<1> QED BY <1>3, <1>4, <1>6, <1>7 DEF Calls

\* Every step keeps the calls.
LEMMA NextCalls ==
    ASSUME ~ReadsCanFail, IInv, Calls, [Next]_vars
    PROVE  Calls'
<1>1. CASE UNCHANGED <<ledger, work, phase, call, begun, dropped>>
    BY <1>1 DEF Calls, CallsAccounted, NothingMissing, AbsentEmpty, MarkerInv, MarkerOf, CopyKeeps,
                KeepsCalls, Accounted
<1>2. CASE \E r \in Recorders : Start(r) \/ BeginCall(r) \/ RecordCall(r) \/ Finish(r)
    BY <1>2, MainCalls
<1>3. CASE \E r \in Recorders : HeartbeatCheckpoint(r)
    BY <1>3, HeartbeatCalls
<1>4. CASE \E t \in Threads : Write(t) \/ Raise(t)
    BY <1>4, WriteLedgerCalls, ReleaseCalls DEF Write
<1>5. CASE \E p \in Processes : Crash(p)
    BY <1>5, CrashCalls
<1> QED BY <1>1, <1>2, <1>3, <1>4, <1>5 DEF Next, vars, HeartbeatWake, HeartbeatExit

\* The empty output directory accounts for every call.
LEMMA InitCalls == Init => Calls
BY DEF Init, Calls, CallsAccounted, NothingMissing, AbsentEmpty, MarkerInv, MarkerOf, CopyKeeps,
       EmptyLedger, NoAttempt, Idle

\* As long as an existing run_metrics.json can be read, a call whose marker
\* begin_api_call wrote is in progress or recorded for ever, unless its own
\* recorder swallowed a failed write.
THEOREM EveryCallAccounted == ~ReadsCanFail => (Spec => []CallsAccounted)
<1> SUFFICES ASSUME ~ReadsCanFail PROVE Spec => []CallsAccounted OBVIOUS
<1>1. IInv /\ Calls /\ [Next]_vars => Calls' BY NextCalls
<1>2. Calls => CallsAccounted BY DEF Calls
<1> QED BY <1>1, <1>2, InitCalls, Invariance, PTL DEF Spec

\* The calls of an instance in a ledger are finitely many.
LEMMA CallsFinite ==
    ASSUME NEW l \in Ledgers, NEW i \in Instances
    PROVE  IsFiniteSet(CallsOf(l, i))
<1> DEFINE R == {q \in Recorders : InstanceOf[q] = i}
           C == {{<<r, k>> : k \in DOMAIN l[r].calls} : r \in R}
<1>1. IsFiniteSet(R)
    BY FS_Subset, ConstantsAssumption
<1>2. IsFiniteSet(C)
    <2> DEFINE F(r) == {<<r, k>> : k \in DOMAIN l[r].calls}
               f == [r \in R |-> F(r)]
    <2>1. f \in Surjection(R, C) BY DEF Surjection
    <2> HIDE DEF R, C, f
    <2> QED BY <1>1, <2>1, FS_Surjection
<1>3. ASSUME NEW S \in C PROVE IsFiniteSet(S)
    <2>1. PICK r \in R : S = {<<r, k>> : k \in DOMAIN l[r].calls} BY <1>3
    <2>2. l[r].calls \in Seq(ApiCalls) BY DEF Ledgers, Attempt
    <2>3. /\ DOMAIN l[r].calls = 1..Len(l[r].calls) /\ Len(l[r].calls) \in Nat BY <2>2
    <2>4. IsFiniteSet(1..Len(l[r].calls)) BY <2>3, FS_Interval
    <2> DEFINE D == 1..Len(l[r].calls)
               g == [k \in D |-> <<r, k>>]
    <2>5. g \in Surjection(D, S) BY <2>1, <2>3 DEF Surjection
    <2> HIDE DEF g
    <2> QED BY <2>4, <2>5, FS_Surjection
<1>4. CallsOf(l, i) = UNION C BY DEF CallsOf
<1> HIDE DEF C
<1> QED BY <1>2, <1>3, <1>4, FS_UNION

\* A ledger that extends another and lists no fewer calls has a report that
\* is not behind that of the other.
LEMMA LongerReport ==
    ASSUME NEW l \in Ledgers, NEW m \in Ledgers, Extends(l, m), AbsentEmpty(l)
    PROVE  Behind(BuildReport(l), BuildReport(m))
<1> SUFFICES ASSUME NEW i \in Instances
             PROVE  /\ InstanceSummary(l, i).attempts <= InstanceSummary(m, i).attempts
                    /\ InstanceSummary(l, i).completed <= InstanceSummary(m, i).completed
                    /\ InstanceSummary(l, i).apiCalls <= InstanceSummary(m, i).apiCalls
    BY DEF Behind, BuildReport
<1>1. \A S, T : S \subseteq T /\ IsFiniteSet(T) => Cardinality(S) <= Cardinality(T)
    BY FS_Subset
<1>2. ASSUME NEW S, \A r \in Recorders : l[r].status \in S => m[r].status \in S
      PROVE  AttemptsOf(l, i, S) <= AttemptsOf(m, i, S)
    <2>1. {r \in Recorders : InstanceOf[r] = i /\ l[r].status \in S}
            \subseteq {r \in Recorders : InstanceOf[r] = i /\ m[r].status \in S}
        BY <1>2
    <2>2. IsFiniteSet({r \in Recorders : InstanceOf[r] = i /\ m[r].status \in S})
        BY FS_Subset, ConstantsAssumption
    <2> QED BY <1>1, <2>1, <2>2 DEF AttemptsOf
<1>3. \A r \in Recorders : /\ l[r].status \in {"absent", "running"} \cup EndStatus
                           /\ m[r].status \in {"absent", "running"} \cup EndStatus
                           /\ l[r].calls \in Seq(ApiCalls) /\ m[r].calls \in Seq(ApiCalls)
    BY DEF Ledgers, Attempt
<1>4. InstanceSummary(l, i).attempts <= InstanceSummary(m, i).attempts
    <2>1. \A r \in Recorders : l[r].status \in {"running"} \cup EndStatus =>
                                 m[r].status \in {"running"} \cup EndStatus
        BY <1>3 DEF Extends, Retains, EndStatus
    <2> QED BY <1>2, <2>1 DEF InstanceSummary
<1>5. InstanceSummary(l, i).completed <= InstanceSummary(m, i).completed
    <2>1. \A r \in Recorders : l[r].status \in {"completed"} => m[r].status \in {"completed"}
        BY DEF Extends
    <2> QED BY <1>2, <2>1 DEF InstanceSummary
<1>6. \A r \in Recorders : DOMAIN l[r].calls \subseteq DOMAIN m[r].calls
    <2> SUFFICES ASSUME NEW r \in Recorders PROVE DOMAIN l[r].calls \subseteq DOMAIN m[r].calls
        OBVIOUS
    <2>1. CASE l[r].status = "absent"
        <3>1. l[r].calls = <<>> BY <2>1 DEF AbsentEmpty
        <3> QED BY <3>1
    <2>2. CASE l[r].status # "absent"
        <3>1. Len(l[r].calls) <= Len(m[r].calls) BY <2>2 DEF Extends, Retains
        <3> QED BY <1>3, <3>1
    <2> QED BY <2>1, <2>2
<1>7. CallsOf(l, i) \subseteq CallsOf(m, i)
    BY <1>6 DEF CallsOf
<1>8. IsFiniteSet(CallsOf(m, i)) BY CallsFinite
<1>9. InstanceSummary(l, i).apiCalls <= InstanceSummary(m, i).apiCalls
    BY <1>1, <1>7, <1>8 DEF InstanceSummary
<1> QED BY <1>4, <1>5, <1>9

\* _build_report counts.
LEMMA ReportCounts ==
    ASSUME NEW l \in Ledgers
    PROVE  BuildReport(l) \in Summaries
<1> SUFFICES ASSUME NEW i \in Instances
             PROVE  InstanceSummary(l, i) \in [attempts : Nat, completed : Nat, interrupted : Nat,
                                               failed : Nat, apiCalls : Nat]
    BY DEF BuildReport, Summaries
<1>1. ASSUME NEW S PROVE AttemptsOf(l, i, S) \in Nat
    <2>1. IsFiniteSet({r \in Recorders : InstanceOf[r] = i /\ l[r].status \in S})
        BY FS_Subset, ConstantsAssumption
    <2> QED BY <2>1, FS_CardinalityType DEF AttemptsOf
<1>2. Cardinality(CallsOf(l, i)) \in Nat
    BY CallsFinite, FS_CardinalityType
<1> QED BY <1>1, <1>2 DEF InstanceSummary

\* Being behind is transitive.
LEMMA BehindTransitive ==
    ASSUME NEW x \in Summaries, NEW y \in Summaries, NEW z \in Summaries, Behind(x, y), Behind(y, z)
    PROVE  Behind(x, z)
BY DEF Behind, Summaries

\* A summary is not behind itself.
LEMMA BehindReflexive == ASSUME NEW x \in Summaries PROVE Behind(x, x)
BY DEF Behind, Summaries

\* Every step leaves the reports behind the ledger.
LEMMA NextReports ==
    ASSUME ~ReadsCanFail, IInv, Calls, Reports, [Next]_vars
    PROVE  Reports'
<1>1. work \in [Threads -> [stage : Stages, data : Ledgers]] /\ ledger \in Ledgers
    BY DEF IInv, TypeOK, Stages
<1>2. BuildReport(ledger) \in Summaries
    BY <1>1, ReportCounts
<1>3. ASSUME UNCHANGED <<ledger, report, csv>>,
             \A t \in Threads : work'[t].stage \in {"report", "csv"} => work'[t] = work[t]
      PROVE  Reports'
    BY <1>3 DEF Reports, ReportNeverAhead
<1>4. ASSUME NEW t \in Threads, WriteLedger(t) PROVE Reports'
    <2>1. /\ work[t].stage = "ledger" /\ ledger' = work[t].data
          /\ work' = [work EXCEPT ![t].stage = "report"] /\ UNCHANGED <<report, csv>>
        BY <1>4 DEF WriteLedger
    <2>2. \A u \in Threads : u # t => work'[u].stage = "idle"
        BY <1>1, <2>1 DEF IInv, LockInv
    <2>3. work'[t].stage = "report" /\ work'[t].data = ledger' /\ ledger' \in Ledgers
        BY <1>1, <2>1
    <2>4. Extends(ledger, ledger') /\ AbsentEmpty(ledger)
        BY <2>1 DEF IInv, CopyInv, Calls, NothingMissing
    <2>5. Behind(BuildReport(ledger), BuildReport(ledger')) /\ BuildReport(ledger') \in Summaries
        BY <1>1, <2>3, <2>4, LongerReport, ReportCounts
    <2>6. Behind(report, BuildReport(ledger'))
        BY <1>2, <2>5, BehindTransitive DEF Reports, ReportNeverAhead
    <2> QED BY <2>1, <2>2, <2>3, <2>6 DEF Reports, ReportNeverAhead
<1>5. ASSUME NEW t \in Threads, WriteReport(t) PROVE Reports'
    <2>1. /\ work[t].stage = "report" /\ work[t].data = ledger /\ report' = BuildReport(ledger)
          /\ work' = [work EXCEPT ![t].stage = "csv"] /\ UNCHANGED <<ledger, csv>>
        BY <1>5 DEF WriteReport, Reports
    <2>2. \A u \in Threads : u # t => work'[u].stage = "idle"
        BY <1>1, <2>1 DEF IInv, LockInv
    <2>3. work'[t].stage = "csv" /\ work'[t].data = ledger
        BY <1>1, <2>1
    <2>4. Behind(csv, report') /\ Behind(report', BuildReport(ledger))
        BY <1>2, <2>1, BehindTransitive, BehindReflexive DEF Reports, ReportNeverAhead
    <2>5. BuildReport(ledger)' = BuildReport(ledger)
        BY <2>1
    <2> QED BY <1>2, <2>1, <2>2, <2>3, <2>4, <2>5 DEF Reports, ReportNeverAhead
<1>6. ASSUME NEW t \in Threads, WriteCsv(t) PROVE Reports'
    <2>1. /\ work[t].stage = "csv" /\ work[t].data = ledger /\ report = BuildReport(ledger)
          /\ csv' = report /\ work' = [work EXCEPT ![t] = Idle] /\ UNCHANGED <<ledger, report>>
        BY <1>6 DEF WriteCsv, LeaveLocked, Reports
    <2>2. \A u \in Threads : work'[u].stage = "idle"
        BY <1>1, <2>1 DEF IInv, LockInv, Idle
    <2>3. Behind(csv', report)
        BY <2>1, BehindReflexive DEF Reports
    <2> QED BY <2>1, <2>2, <2>3 DEF Reports, ReportNeverAhead
<1>7. CASE UNCHANGED <<ledger, report, csv, work>>
    BY <1>3, <1>7
<1>8. ASSUME NEW t \in Threads, NEW w, work' = [work EXCEPT ![t] = w],
             w.stage \notin {"report", "csv"}, UNCHANGED <<ledger, report, csv>>
      PROVE  Reports'
    BY <1>1, <1>3, <1>8
<1>9. ASSUME NEW r \in Recorders,
             \/ Start(r) \/ BeginCall(r) \/ RecordCall(r) \/ Finish(r) \/ HeartbeatCheckpoint(r)
      PROVE  Reports'
    <2>1. PICK t \in Threads : \E l, raises, new : EnterLocked(t, l, raises, new)
        BY <1>9, ThreadFacts DEF Start, BeginCall, RecordCall, Finish, HeartbeatCheckpoint
    <2>2. PICK l, raises, new : EnterLocked(t, l, raises, new)
        BY <2>1
    <2> DEFINE w == [stage |-> IF raises THEN "raise" ELSE "ledger",
                     data |-> IF raises THEN l ELSE new]
    <2>3. work' = [work EXCEPT ![t] = w] /\ UNCHANGED <<ledger, report, csv>>
        BY <2>2 DEF EnterLocked
    <2>4. w.stage \notin {"report", "csv"} OBVIOUS
    <2> HIDE DEF w
    <2> QED BY <1>8, <2>3, <2>4
<1>10. ASSUME NEW t \in Threads, Raise(t) PROVE Reports'
    BY <1>8, <1>10 DEF Raise, LeaveLocked, Idle
<1>11. ASSUME NEW p \in Processes, Crash(p) PROVE Reports'
    BY <1>3, <1>11 DEF Crash, Idle
<1> QED BY <1>4, <1>5, <1>6, <1>7, <1>9, <1>10, <1>11
     DEF Next, vars, Write, HeartbeatWake, HeartbeatExit

\* The reports of an empty output directory are those of an empty ledger.
LEMMA InitReports == Init => Reports
<1> SUFFICES ASSUME Init PROVE Reports OBVIOUS
<1>1. BuildReport(EmptyLedger) \in Summaries BY EmptySane, ReportCounts
<1>2. \A t \in Threads : work[t].stage = "idle" BY DEF Init, Idle
<1> QED BY <1>1, <1>2, BehindReflexive DEF Init, Reports, ReportNeverAhead

\* As long as an existing run_metrics.json can be read, neither report counts
\* an attempt, a completed attempt or a call that the file behind it lacks,
\* whichever write a process dies before.
THEOREM ReportsBehind == ~ReadsCanFail => (Spec => []ReportNeverAhead)
<1> SUFFICES ASSUME ~ReadsCanFail PROVE Spec => []ReportNeverAhead OBVIOUS
<1>1. IInv /\ Calls /\ [Next]_vars => Calls' BY NextCalls
<1>2. IInv /\ Calls /\ Reports /\ [Next]_vars => Reports' BY NextReports
<1>3. Reports => ReportNeverAhead BY DEF Reports
<1> QED BY <1>1, <1>2, <1>3, InitCalls, InitReports, Invariance, PTL DEF Spec
=============================================================================
