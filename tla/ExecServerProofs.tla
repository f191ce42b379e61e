--------------------------- MODULE ExecServerProofs ---------------------------
(***************************************************************************)
(* Theorems about ExecSessions, for any number of writes, starts and lost  *)
(* connections, and about ProcessEvents, for any number of streams, chunks *)
(* of output and lost connections and for every size of its two buffers.   *)
(***************************************************************************)
EXTENDS ExecSessions, ProcessEvents, FiniteSetTheorems, SequenceTheorems,
        WellFoundedInduction, TLAPS

-----------------------------------------------------------------------------
(* The registry.  An attached session is not overdue, so that no timer and *)
(* no refused attachment removes it; and a connection is only made after   *)
(* one was lost.                                                           *)

RegistryInv ==
    /\ conn \in 1..(MaxDrops + 1) /\ up \in BOOLEAN /\ drops \in 0..MaxDrops
    /\ session \in {"live", "removed", "shut"} /\ timers \subseteq 1..conn
    /\ att \in [cur : 0..conn, det : 0..conn, overdue : BOOLEAN]
    /\ client \in {"connected", "recovering", "candidate", "failed"}
    /\ att.cur # 0 => att.det = 0 /\ ~att.overdue
    /\ AttachedIsLive
    /\ conn <= drops + 1
    /\ ~up /\ client # "failed" => conn <= drops

\* The first connection is attached to a session of the registry.
LEMMA InitRegistry == Init => RegistryInv
BY SessionsAssumption DEF Init, RegistryInv, AttachedIsLive

\* Every step of the server, of the client and of the network keeps it so.
LEMMA NextRegistry == ASSUME RegistryInv, [Next]_vars PROVE RegistryInv'
<1>1. ASSUME UNCHANGED <<conn, up, drops, session, att, timers, client>> PROVE RegistryInv'
  BY <1>1 DEF RegistryInv, AttachedIsLive
<1>2. CASE Drop
  <2>1. up' = FALSE /\ drops < MaxDrops /\ drops' = drops + 1
        /\ UNCHANGED <<conn, session, att, timers, client>>
    BY <1>2 DEF Drop, registry
  <2>2. drops' \in 0..MaxDrops /\ conn <= drops' + 1 /\ conn <= drops'
    BY <2>1, SessionsAssumption DEF RegistryInv
  <2>3. up' \in BOOLEAN
    BY <2>1
  <2> QED BY <2>1, <2>2, <2>3 DEF RegistryInv, AttachedIsLive
<1>3. CASE Detach
  <2>1. /\ att' = [cur |-> 0, det |-> att.cur, overdue |-> FALSE] /\ timers' = timers \cup {att.cur}
        /\ att.cur # 0 /\ UNCHANGED <<conn, up, drops, session, client>>
    BY <1>3 DEF Detach, network
  <2>2. att.cur \in 1..conn
    BY <2>1 DEF RegistryInv
  <2> QED BY <2>1, <2>2 DEF RegistryInv, AttachedIsLive
<1>4. CASE Overdue
  BY <1>4, SessionsAssumption DEF Overdue, network, RegistryInv, AttachedIsLive
<1>5. CASE \E c \in timers : ExpireIfDetached(c)
  BY <1>5, SessionsAssumption DEF ExpireIfDetached, network, RegistryInv, AttachedIsLive
<1>6. CASE Shutdown
  BY <1>6, SessionsAssumption DEF Shutdown, network, RegistryInv, AttachedIsLive
<1>7. CASE RequestRecovery \/ InstallRecoveredClient
  BY <1>7, SessionsAssumption
     DEF RequestRecovery, InstallRecoveredClient, network, registry, RegistryInv, AttachedIsLive
<1>8. CASE Attach
  BY <1>8, SessionsAssumption DEF Attach, Resuming, network, registry, RegistryInv, AttachedIsLive
<1>9. CASE AttachRefused
  BY <1>9, SessionsAssumption DEF AttachRefused, Resuming, network, RegistryInv, AttachedIsLive
<1>10. CASE RecoveryTimeout
  BY <1>10, SessionsAssumption DEF RecoveryTimeout, registry, RegistryInv, AttachedIsLive
<1>11. CASE \/ Begin \/ ExecInsert \/ ExecSpawn \/ ExecPublish \/ WriteBegin \/ WriteSend
            \/ TerminateProcess \/ ChildExits \/ EntryRetired
  BY <1>1, <1>11 DEF Begin, ExecInsert, ExecSpawn, ExecPublish, WriteBegin, WriteSend,
     TerminateProcess, ChildExits, EntryRetired, network, registry
<1>12. CASE \/ StartProcess \/ StartAnswered \/ StartLost \/ Cleanup \/ CleanupAnswered
            \/ CleanupGivesUp \/ Terminate
            \/ \E w \in Writes : WriteChunk(w) \/ WriteAnswered(w) \/ WriteFails(w)
  BY <1>1, <1>12 DEF StartProcess, StartAnswered, StartLost, Cleanup, CleanupAnswered,
     CleanupGivesUp, Terminate, WriteChunk, WriteAnswered, WriteFails, network, registry
<1>13. CASE UNCHANGED vars
  BY <1>1, <1>13 DEF vars
<1> QED BY <1>2, <1>3, <1>4, <1>5, <1>6, <1>7, <1>8, <1>9, <1>10, <1>11, <1>12, <1>13
     DEF Next, ServerStep, ClientStep

\* A session a connection is attached to is in the registry and is not shut
\* down, whichever timers of earlier connections go off and however often the
\* client reconnects (SessionRegistry::attach, expire_if_detached).
THEOREM AttachedStaysLive == Spec => []AttachedIsLive
<1>1. RegistryInv => AttachedIsLive BY DEF RegistryInv
<1> QED BY <1>1, InitRegistry, NextRegistry, PTL DEF Spec

-----------------------------------------------------------------------------
(* The requests and the processes.                                         *)

Message == ({"exec"} \X Starts) \cup ({"terminate"} \X (0..MaxStarts)) \cup ({"write"} \X Writes)

Handled ==
    {NoRequest} \cup [op : {"exec"}, of : Starts, pc : {"begin", "spawn", "publish"}]
                \cup [op : {"terminate"}, of : 0..MaxStarts, pc : {"begin"}]
                \cup [op : {"write"}, of : Writes, pc : {"begin", "reserve"}]

Reply == ({"exec"} \X Starts \X {"ok", "error"}) \cup ({"terminate"} \X (0..MaxStarts) \X {"ok"})
            \cup ({"write"} \X Writes \X {"ok", "refused"})

CallTypes == inbox \in Seq(Message) /\ replies \subseteq Reply /\ request \in Handled

ProcessTypes ==
    /\ entry \in [st : {"none", "starting", "running"}, of : 0..MaxStarts]
    /\ entry.st # "none" => entry.of \in Starts
    /\ child \in [Starts -> {"none", "alive", "dead"}]
    /\ accepted \in [Starts -> SUBSET Writes] /\ stdin \in [Starts -> Seq(Writes)]

ClientTypes ==
    /\ start \in [st : {"idle", "calling", "lost", "ok", "cleanup", "cleaning", "ended"}, of : 0..MaxStarts]
    /\ start.st # "idle" => start.of \in Starts
    /\ write \in [Writes -> {"idle", "calling", "retry", "ok", "refused", "failed"}]

Types == CallTypes /\ ProcessTypes /\ ClientTypes

\* The fields of a request by what it asks for.
LEMMA RequestFields ==
    ASSUME CallTypes
    PROVE  /\ request.op \in {"none", "exec", "terminate", "write"}
           /\ request.op = "exec" => request.of \in Starts /\ request.pc \in {"begin", "spawn", "publish"}
           /\ request.op = "terminate" => request.of \in 0..MaxStarts /\ request.pc = "begin"
           /\ request.op = "write" => request.of \in Writes /\ request.pc \in {"begin", "reserve"}
BY DEF CallTypes, Handled, NoRequest

\* An answer to the request that is handled.
LEMMA AnswerTypes ==
    ASSUME CallTypes, NEW r, Answer(r), inbox' = inbox, <<request.op, request.of, r>> \in Reply
    PROVE  CallTypes'
BY DEF CallTypes, Answer, Handled

\* The request moves on to a place that exists for what it asks.
LEMMA GotoTypes ==
    ASSUME CallTypes, NEW pc, Goto(pc), inbox' = inbox,
           \/ request.op = "exec" /\ pc \in {"spawn", "publish"}
           \/ request.op = "write" /\ pc = "reserve"
    PROVE  CallTypes' /\ request'.op = request.op /\ request'.of = request.of /\ request'.pc = pc
<1>1. request # NoRequest
  BY DEF NoRequest
<1>2. request' \in Handled /\ request'.op = request.op /\ request'.of = request.of /\ request'.pc = pc
  BY <1>1 DEF CallTypes, Goto, Handled
<1> QED BY <1>2 DEF CallTypes, Goto

\* A message is sent.
LEMMA SendTypes ==
    ASSUME CallTypes, NEW op, NEW of, Send(op, of), UNCHANGED <<replies, request>>,
           <<op, of>> \in Message
    PROVE  CallTypes'
BY DEF CallTypes, Send

\* An entry is removed, marks a start or is left alone, and a child of a start
\* changes state or none does.
LEMMA EntryTypes ==
    ASSUME ProcessTypes, UNCHANGED <<accepted, stdin>>,
           \/ entry' = entry \/ entry' = NoEntry
           \/ \E k \in Starts : entry' = [st |-> "starting", of |-> k] \/ entry' = [st |-> "running", of |-> k],
           \/ child' = child
           \/ \E k \in Starts : \E c \in {"alive", "dead"} : child' = [child EXCEPT ![k] = c]
    PROVE  ProcessTypes'
<1>1. /\ entry' \in [st : {"none", "starting", "running"}, of : 0..MaxStarts]
      /\ entry'.st # "none" => entry'.of \in Starts
  BY SessionsAssumption DEF ProcessTypes, NoEntry, Starts
<1>2. child' \in [Starts -> {"none", "alive", "dead"}]
  BY DEF ProcessTypes
<1> QED BY <1>1, <1>2 DEF ProcessTypes

\* Nobody has asked for anything yet.
LEMMA InitTypes == Init => Types
BY SessionsAssumption
   DEF Init, Types, CallTypes, ProcessTypes, ClientTypes, Handled, NoEntry, Starts

\* Steps of the server that handle a request.
LEMMA ServerTypes ==
    ASSUME Types, \/ Begin \/ ExecInsert \/ ExecSpawn \/ ExecPublish \/ WriteBegin \/ WriteSend
                  \/ TerminateProcess
    PROVE  Types'
<1> USE DEF Types
<1>1. UNCHANGED <<start, write>> /\ ClientTypes'
  BY DEF Begin, ExecInsert, ExecSpawn, ExecPublish, WriteBegin, WriteSend, TerminateProcess, ClientTypes
<1>2. CASE Begin
  <2>1. Head(inbox) \in Message /\ Tail(inbox) \in Seq(Message)
    BY <1>2 DEF Begin, CallTypes
  <2>2. /\ request' = [op |-> Head(inbox)[1], of |-> Head(inbox)[2], pc |-> "begin"]
        /\ inbox' = Tail(inbox) /\ UNCHANGED <<replies, entry, child, accepted, stdin>>
    BY <1>2 DEF Begin, processes
  <2>3. request' \in Handled
    BY <2>1, <2>2 DEF Message, Handled
  <2> QED BY <1>1, <2>1, <2>2, <2>3 DEF CallTypes, ProcessTypes
<1>3. CASE ExecInsert
  <2>1. request.op = "exec" /\ request.of \in Starts /\ UNCHANGED <<inbox, child, accepted, stdin>>
    BY <1>3, RequestFields DEF ExecInsert, At
  <2>2. CallTypes'
    BY <1>3, <2>1, AnswerTypes, GotoTypes DEF ExecInsert, Reply
  <2>3. entry' = entry \/ entry' = [st |-> "starting", of |-> request.of]
    BY <1>3 DEF ExecInsert
  <2> QED BY <1>1, <2>1, <2>2, <2>3, EntryTypes
<1>4. CASE ExecSpawn
  <2>1. request.op = "exec" /\ request.of \in Starts /\ UNCHANGED <<inbox, accepted, stdin>>
    BY <1>4, RequestFields DEF ExecSpawn, At
  <2>2. CallTypes'
    BY <1>4, <2>1, AnswerTypes, GotoTypes DEF ExecSpawn, Reply
  <2>3. /\ entry' = entry \/ entry' = NoEntry
        /\ child' = child \/ child' = [child EXCEPT ![request.of] = "alive"]
    BY <1>4 DEF ExecSpawn
  <2> QED BY <1>1, <2>1, <2>2, <2>3, EntryTypes
<1>5. CASE ExecPublish
  <2>1. request.op = "exec" /\ request.of \in Starts /\ UNCHANGED <<inbox, accepted, stdin>>
    BY <1>5, RequestFields DEF ExecPublish, At
  <2>2. CallTypes'
    BY <1>5, <2>1, AnswerTypes DEF ExecPublish, Reply
  <2>3. /\ entry' = entry \/ entry' = [st |-> "running", of |-> request.of]
        /\ child' = child \/ child' = [child EXCEPT ![request.of] = "dead"]
    BY <1>5 DEF ExecPublish
  <2> QED BY <1>1, <2>1, <2>2, <2>3, EntryTypes
<1>6. CASE WriteBegin
  <2>1. request.op = "write" /\ request.of \in Writes /\ UNCHANGED <<inbox, entry, child, accepted, stdin>>
    BY <1>6, RequestFields DEF WriteBegin, At, processes
  <2>2. Answer("refused") \/ Answer("ok") \/ Goto("reserve")
    BY <1>6 DEF WriteBegin, Goto
  <2>3. CallTypes'
    BY <2>1, <2>2, AnswerTypes, GotoTypes DEF Reply
  <2> QED BY <1>1, <2>1, <2>3 DEF ProcessTypes
<1>7. CASE WriteSend
  <2>1. request.op = "write" /\ request.of \in Writes /\ UNCHANGED <<inbox, entry, child>>
    BY <1>7, RequestFields DEF WriteSend, At
  <2>2. CallTypes'
    BY <1>7, <2>1, AnswerTypes DEF WriteSend, Reply
  <2>3. \/ UNCHANGED <<accepted, stdin>>
        \/ /\ entry.st = "running"
           /\ stdin' = [stdin EXCEPT ![entry.of] = Append(stdin[entry.of], request.of)]
           /\ accepted' = [accepted EXCEPT ![entry.of] = accepted[entry.of] \cup {request.of}]
    BY <1>7 DEF WriteSend
  <2>4. stdin' \in [Starts -> Seq(Writes)] /\ accepted' \in [Starts -> SUBSET Writes]
    <3>1. CASE UNCHANGED <<accepted, stdin>>
      BY <3>1 DEF ProcessTypes
    <3>2. CASE entry.st = "running"
      <4>1. entry.of \in Starts /\ stdin[entry.of] \in Seq(Writes) /\ accepted[entry.of] \subseteq Writes
        BY <3>2 DEF ProcessTypes
      <4>2. Append(stdin[entry.of], request.of) \in Seq(Writes)
        BY <2>1, <4>1
      <4>3. \A q \in Seq(Writes) : [stdin EXCEPT ![entry.of] = q] \in [Starts -> Seq(Writes)]
        BY DEF ProcessTypes
      <4>4. \A q \in SUBSET Writes : [accepted EXCEPT ![entry.of] = q] \in [Starts -> SUBSET Writes]
        BY DEF ProcessTypes
      <4>5. accepted[entry.of] \cup {request.of} \in SUBSET Writes
        BY <2>1, <4>1
      <4> QED BY <2>3, <3>1, <4>2, <4>3, <4>4, <4>5
    <3> QED BY <2>3, <3>1, <3>2
  <2> QED BY <1>1, <2>1, <2>2, <2>4 DEF ProcessTypes
<1>8. CASE TerminateProcess
  <2>1. request.op = "terminate" /\ request.of \in 0..MaxStarts /\ UNCHANGED <<inbox, accepted, stdin>>
    BY <1>8, RequestFields DEF TerminateProcess, At
  <2>2. CallTypes'
    BY <1>8, <2>1, AnswerTypes DEF TerminateProcess, Reply
  <2>3. /\ entry' = entry \/ entry' = NoEntry
        /\ \/ child' = child
           \/ entry.of \in Starts /\ child' = [child EXCEPT ![entry.of] = "dead"]
    BY <1>8 DEF TerminateProcess, ProcessTypes
  <2> QED BY <1>1, <2>1, <2>2, <2>3, EntryTypes
<1> QED BY <1>2, <1>3, <1>4, <1>5, <1>6, <1>7, <1>8

\* Steps of the server on its own account.
LEMMA HouseTypes ==
    ASSUME Types, \/ ChildExits \/ EntryRetired \/ Detach \/ Shutdown
    PROVE  Types'
<1> USE DEF Types
<1>1. UNCHANGED <<accepted, stdin, start, write>> /\ ClientTypes'
  BY DEF ChildExits, EntryRetired, Detach, Shutdown, ClientTypes
<1>2. CallTypes'
  <2>1. CASE ChildExits \/ EntryRetired \/ Shutdown
    BY <2>1 DEF ChildExits, EntryRetired, Shutdown, calls, CallTypes
  <2>2. CASE Detach
    BY <2>2 DEF Detach, CallTypes, Handled
  <2> QED BY <2>1, <2>2
<1>3. entry' = entry \/ entry' = NoEntry
  BY DEF ChildExits, EntryRetired, Detach, Shutdown
<1>4. \/ child' = child
      \/ \E k \in Starts : child' = [child EXCEPT ![k] = "dead"]
  <2>1. At("exec", "publish") => request.of \in Starts
    BY RequestFields DEF At
  <2>2. entry.st = "running" => entry.of \in Starts
    BY DEF ProcessTypes
  <2> QED BY <2>1, <2>2 DEF ChildExits, EntryRetired, Detach, Shutdown
<1> QED BY <1>1, <1>2, <1>3, <1>4, EntryTypes

\* Steps of the client and of the network.
LEMMA ClientStepTypes ==
    ASSUME Types, \/ StartProcess \/ StartAnswered \/ StartLost \/ Cleanup \/ CleanupAnswered
                  \/ CleanupGivesUp \/ Terminate \/ Drop
                  \/ \E w \in Writes : WriteChunk(w) \/ WriteAnswered(w) \/ WriteFails(w)
    PROVE  Types'
<1> USE DEF Types
<1>1. UNCHANGED <<request, entry, child, accepted, stdin>> /\ ProcessTypes'
  BY DEF StartProcess, StartAnswered, StartLost, Cleanup, CleanupAnswered, CleanupGivesUp,
     Terminate, Drop, WriteChunk, WriteAnswered, WriteFails, processes, ProcessTypes
<1>2. CASE StartProcess
  <2>1. start.of + 1 \in Starts
    BY <1>2, SessionsAssumption DEF StartProcess, ClientTypes, Starts
  <2>2. CallTypes'
    BY <1>1, <1>2, <2>1, SendTypes DEF StartProcess, Message
  <2> QED BY <1>1, <1>2, <2>1, <2>2, SessionsAssumption DEF StartProcess, ClientTypes, Starts
<1>3. CASE Cleanup \/ Terminate
  <2>1. start.of \in 0..MaxStarts /\ start.of \in Starts /\ Send("terminate", start.of)
    BY <1>3 DEF Cleanup, Terminate, ClientTypes
  <2>2. CallTypes'
    BY <1>1, <1>3, <2>1, SendTypes DEF Cleanup, Terminate, Message
  <2> QED BY <1>1, <1>3, <2>1, <2>2 DEF Cleanup, Terminate, ClientTypes
<1>4. CASE StartAnswered \/ CleanupAnswered
  <2>1. CallTypes'
    BY <1>1, <1>4 DEF StartAnswered, CleanupAnswered, CallTypes
  <2>2. PICK s \in {"ok", "cleanup", "idle"} : start' = [start EXCEPT !.st = s]
    BY <1>4 DEF StartAnswered, CleanupAnswered
  <2>3. start.of \in Starts /\ write' = write
    BY <1>4 DEF StartAnswered, CleanupAnswered, ClientTypes
  <2> QED BY <1>1, <2>1, <2>2, <2>3 DEF ClientTypes
<1>5. CASE StartLost \/ CleanupGivesUp
  <2>1. start.of \in Starts /\ UNCHANGED <<inbox, replies, write>>
    BY <1>5 DEF StartLost, CleanupGivesUp, ClientTypes, calls
  <2> QED BY <1>1, <1>5, <2>1 DEF StartLost, CleanupGivesUp, ClientTypes, CallTypes
<1>6. CASE Drop
  <2>1. PICK n \in 0..Len(inbox) : inbox' = SubSeq(inbox, 1, n)
    BY <1>6 DEF Drop
  <2>2. inbox' \in Seq(Message)
    BY <2>1 DEF CallTypes
  <2>3. CallTypes'
    BY <1>1, <1>6, <2>2 DEF Drop, CallTypes
  <2>4. start.st \in {"calling", "cleaning"} => start.of \in Starts
    BY DEF ClientTypes
  <2>5. \/ start' = start
        \/ start.of \in Starts /\ \E s \in {"lost", "cleanup"} : start' = [start EXCEPT !.st = s]
    BY <1>6, <2>4 DEF Drop, ClientTypes
  <2>6. start' \in [st : {"idle", "calling", "lost", "ok", "cleanup", "cleaning", "ended"},
                    of : 0..MaxStarts]
        /\ (start'.st # "idle" => start'.of \in Starts)
    BY <2>5 DEF ClientTypes
  <2>7. write' \in [Writes -> {"idle", "calling", "retry", "ok", "refused", "failed"}]
    BY <1>6 DEF Drop, ClientTypes
  <2> QED BY <1>1, <2>3, <2>6, <2>7 DEF ClientTypes
<1>7. ASSUME NEW w \in Writes, WriteChunk(w) PROVE Types'
  <2>1. CallTypes'
    BY <1>1, <1>7, SendTypes DEF WriteChunk, Message
  <2> QED BY <1>1, <1>7, <2>1 DEF WriteChunk, ClientTypes
<1>8. ASSUME NEW w \in Writes, WriteAnswered(w) PROVE Types'
  <2>1. PICK r \in replies : r[1] = "write" /\ write' = [write EXCEPT ![w] = r[3]]
                             /\ replies' = replies \ {r} /\ UNCHANGED <<inbox, start>>
    BY <1>8 DEF WriteAnswered
  <2>2. r[3] \in {"ok", "refused"}
    BY <2>1 DEF CallTypes, Reply
  <2> QED BY <1>1, <2>1, <2>2 DEF CallTypes, ClientTypes
<1>9. ASSUME NEW w \in Writes, WriteFails(w) PROVE Types'
  BY <1>1, <1>9 DEF WriteFails, calls, CallTypes, ClientTypes
<1> QED BY <1>2, <1>3, <1>4, <1>5, <1>6, <1>7, <1>8, <1>9

\* Every step.
LEMMA NextTypes == ASSUME Types, [Next]_vars PROVE Types'
<1>1. ASSUME UNCHANGED <<inbox, replies, request, entry, child, accepted, stdin, start, write>>
      PROVE  Types'
  BY <1>1 DEF Types, CallTypes, ProcessTypes, ClientTypes
<1>2. CASE \/ Overdue \/ RequestRecovery \/ Attach \/ AttachRefused \/ InstallRecoveredClient
           \/ RecoveryTimeout \/ (\E c \in timers : ExpireIfDetached(c)) \/ UNCHANGED vars
  BY <1>1, <1>2 DEF Overdue, RequestRecovery, Attach, AttachRefused, InstallRecoveredClient,
     RecoveryTimeout, ExpireIfDetached, calls, processes, vars
<1> QED BY <1>2, ServerTypes, HouseTypes, ClientStepTypes DEF Next, ServerStep, ClientStep

\* Type invariant of the exec-server and its client.
THEOREM SessionsTypeCorrect == Spec => []TypeOK
<1>1. RegistryInv /\ Types => TypeOK
  BY RequestFields DEF RegistryInv, Types, ProcessTypes, ClientTypes, TypeOK
<1> QED BY <1>1, InitRegistry, NextRegistry, InitTypes, NextTypes, PTL DEF Spec

-----------------------------------------------------------------------------
(* Writes.  The ids the server has accepted are those in stdin; a write    *)
(* that waits for room in the pipe is not among them, because requests are *)
(* handled one at a time; and an answer "ok" stands for an accepted id.    *)

StdinIsAccepted == \A k \in Starts : IsInjective(stdin[k]) /\ Range(stdin[k]) = accepted[k]

ReservedIsNew ==
    At("write", "reserve") /\ entry.st = "running" => request.of \notin accepted[entry.of]

Reached(w) == \E k \in Starts : w \in accepted[k]

AnswersTrue == \A r \in replies : r[1] = "write" /\ r[3] = "ok" => Reached(r[2])

CallersTrue == \A w \in Writes : write[w] = "ok" => Reached(w)

WriteInv == StdinIsAccepted /\ ReservedIsNew /\ AnswersTrue /\ CallersTrue

\* A new element at the end of a sequence without repetitions.
LEMMA AppendNew ==
    ASSUME NEW S, NEW s \in Seq(S), NEW e \in S, IsInjective(s), e \notin Range(s)
    PROVE  IsInjective(Append(s, e)) /\ Range(Append(s, e)) = Range(s) \cup {e}
<1> DEFINE a == Append(s, e)
<1>1. /\ DOMAIN s = 1..Len(s) /\ Len(s) \in Nat /\ DOMAIN a = 1..(Len(s) + 1)
      /\ \A i \in 1..Len(s) : a[i] = s[i]
      /\ a[Len(s) + 1] = e
  OBVIOUS
<1> HIDE DEF a
<1>2. \A i \in DOMAIN a : i \in DOMAIN s \/ i = Len(s) + 1
  BY <1>1
<1>3. \A i \in DOMAIN s : i \in DOMAIN a /\ a[i] = s[i] /\ a[i] \in Range(s)
  BY <1>1 DEF Range
<1>4. IsInjective(a)
  BY <1>1, <1>2, <1>3 DEF IsInjective
<1>5. Range(a) = Range(s) \cup {e}
  <2>1. Range(a) \subseteq Range(s) \cup {e}
    BY <1>1, <1>2, <1>3 DEF Range
  <2>2. Range(s) \subseteq Range(a)
    BY <1>3 DEF Range
  <2>3. Len(s) + 1 \in DOMAIN a
    BY <1>1
  <2>4. e \in Range(a)
    BY <1>1, <2>3 DEF Range
  <2> QED BY <2>1, <2>2, <2>4
<1> QED BY <1>4, <1>5 DEF a

\* Steps that accept nothing: answers are only forgotten or true, and a write
\* is reported as done only after such an answer.
LEMMA NothingAccepted ==
    ASSUME WriteInv, UNCHANGED <<accepted, stdin>>,
           At("write", "reserve")' /\ entry'.st = "running" => request'.of \notin accepted[entry'.of],
           \A r \in replies' : r \in replies \/ r[1] # "write" \/ r[3] # "ok" \/ Reached(r[2]),
           \A w \in Writes : write'[w] = "ok" => write[w] = "ok" \/ Reached(w)
    PROVE  WriteInv'
<1>1. \A w : Reached(w)' <=> Reached(w)
  BY DEF Reached
<1>2. StdinIsAccepted' /\ ReservedIsNew'
  BY DEF WriteInv, StdinIsAccepted, ReservedIsNew
<1>3. AnswersTrue' /\ CallersTrue'
  BY <1>1 DEF WriteInv, AnswersTrue, CallersTrue
<1> QED BY <1>2, <1>3 DEF WriteInv

\* Nothing has been written yet.
LEMMA InitWrites == Init => WriteInv
BY DEF Init, WriteInv, StdinIsAccepted, ReservedIsNew, AnswersTrue, CallersTrue, IsInjective, Range,
   At, NoRequest

\* Handling a write.
LEMMA WriteSteps == ASSUME Types, WriteInv, WriteBegin \/ WriteSend PROVE WriteInv'
<1> USE DEF Types
<1>1. /\ request.op = "write" /\ request.of \in Writes
      /\ UNCHANGED <<inbox, entry, child, start, write>>
  BY RequestFields DEF WriteBegin, WriteSend, At, processes
<1>2. entry.st = "running" => entry.of \in Starts
  BY DEF ProcessTypes
<1>3. ASSUME NEW res, Answer(res), UNCHANGED <<accepted, stdin>>, res = "ok" => Reached(request.of)
      PROVE  WriteInv'
  <2>1. ~At("write", "reserve")'
    BY <1>3 DEF Answer, At, NoRequest
  <2>2. \A r \in replies' : r \in replies \/ r = <<request.op, request.of, res>>
    BY <1>3 DEF Answer
  <2>3. \A r \in replies' : r \in replies \/ r[1] # "write" \/ r[3] # "ok" \/ Reached(r[2])
    BY <1>3, <2>2
  <2> QED BY <1>1, <1>3, <2>1, <2>3, NothingAccepted
<1>4. CASE WriteBegin
  <2>1. UNCHANGED <<accepted, stdin>>
    BY <1>4 DEF WriteBegin, processes
  <2>2. CASE entry.st = "running" /\ request.of \in accepted[entry.of] /\ Answer("ok")
    BY <1>2, <1>3, <2>1, <2>2 DEF Reached
  <2>3. CASE Answer("refused")
    BY <1>3, <2>1, <2>3
  <2>4. CASE /\ entry.st = "running" => request.of \notin accepted[entry.of]
             /\ request' = [request EXCEPT !.pc = "reserve"] /\ UNCHANGED replies
    <3>1. request'.of = request.of
      BY <1>1, <2>4, GotoTypes DEF Goto, Types
    <3> QED BY <1>1, <2>1, <2>4, <3>1, NothingAccepted
  <2> QED BY <1>4, <2>2, <2>3, <2>4 DEF WriteBegin
<1>5. CASE WriteSend
  <2>1. CASE Answer("refused") /\ UNCHANGED <<accepted, stdin>>
    BY <1>3, <2>1
  <2>2. CASE /\ entry.st = "running" /\ Answer("ok")
             /\ stdin' = [stdin EXCEPT ![entry.of] = Append(stdin[entry.of], request.of)]
             /\ accepted' = [accepted EXCEPT ![entry.of] = accepted[entry.of] \cup {request.of}]
    <3> DEFINE k == entry.of
    <3>1. /\ k \in Starts /\ request.of \notin accepted[k] /\ stdin[k] \in Seq(Writes)
          /\ IsInjective(stdin[k]) /\ Range(stdin[k]) = accepted[k]
      BY <1>2, <1>5, <2>2 DEF WriteSend, WriteInv, ReservedIsNew, StdinIsAccepted, ProcessTypes
    <3>2. /\ IsInjective(Append(stdin[k], request.of))
          /\ Range(Append(stdin[k], request.of)) = accepted[k] \cup {request.of}
      BY <1>1, <3>1, AppendNew
    <3>3. /\ stdin'[k] = Append(stdin[k], request.of) /\ accepted'[k] = accepted[k] \cup {request.of}
          /\ \A j \in Starts \ {k} : stdin'[j] = stdin[j] /\ accepted'[j] = accepted[j]
      BY <2>2, <3>1 DEF ProcessTypes
    <3>4. StdinIsAccepted'
      BY <3>2, <3>3 DEF WriteInv, StdinIsAccepted
    <3>5. ReservedIsNew'
      BY <2>2 DEF ReservedIsNew, Answer, At, NoRequest
    <3>6. (\A w : Reached(w) => Reached(w)') /\ (\A w : w = request.of => Reached(w)')
      BY <3>1, <3>3 DEF Reached
    <3>7. AnswersTrue'
      <4>1. \A r \in replies' : r \in replies \/ r = <<request.op, request.of, "ok">>
        BY <2>2 DEF Answer
      <4>2. \A r \in replies' : r[1] = "write" /\ r[3] = "ok" => Reached(r[2]) \/ r[2] = request.of
        BY <4>1 DEF WriteInv, AnswersTrue
      <4>3. \A r \in replies' : r[1] = "write" /\ r[3] = "ok" => Reached(r[2])'
        BY <3>6, <4>2
      <4> QED BY <4>3 DEF AnswersTrue
    <3>8. CallersTrue'
      BY <1>1, <3>6 DEF WriteInv, CallersTrue
    <3> QED BY <3>4, <3>5, <3>7, <3>8 DEF WriteInv
  <2> QED BY <1>5, <2>1, <2>2 DEF WriteSend
<1> QED BY <1>4, <1>5

\* Handling other requests, and the server on its own account.
LEMMA OtherServerSteps ==
    ASSUME Types, WriteInv,
           \/ Begin \/ ExecInsert \/ ExecSpawn \/ ExecPublish \/ TerminateProcess
           \/ ChildExits \/ EntryRetired \/ Detach \/ Shutdown
    PROVE  WriteInv'
<1>1. UNCHANGED <<accepted, stdin, write>>
  BY DEF Begin, ExecInsert, ExecSpawn, ExecPublish, TerminateProcess, ChildExits, EntryRetired,
     Detach, Shutdown, processes
<1>2. CASE Begin
  <2>1. ~At("write", "reserve")' /\ UNCHANGED replies
    BY <1>2 DEF Begin, At
  <2> QED BY <1>1, <2>1, NothingAccepted
<1>3. CASE ExecInsert \/ ExecSpawn \/ ExecPublish \/ TerminateProcess
  <2>1. request.op # "write"
    BY <1>3 DEF ExecInsert, ExecSpawn, ExecPublish, TerminateProcess, At
  <2>2. \/ \E res : Answer(res)
        \/ \E pc : Goto(pc) /\ request.op = "exec" /\ pc \in {"spawn", "publish"} /\ inbox' = inbox
    BY <1>3 DEF ExecInsert, ExecSpawn, ExecPublish, TerminateProcess, At
  <2>3. request'.op # "write"
    <3>1. ASSUME NEW pc, Goto(pc), request.op = "exec", pc \in {"spawn", "publish"}, inbox' = inbox
          PROVE  request'.op = "exec"
      BY <3>1, GotoTypes DEF Types
    <3>2. ASSUME NEW res, Answer(res) PROVE request'.op = "none"
      BY <3>2 DEF Answer, NoRequest
    <3> QED BY <2>2, <3>1, <3>2
  <2>4. \A r \in replies' : r \in replies \/ r[1] # "write"
    BY <2>1, <2>2 DEF Answer, Goto
  <2> QED BY <1>1, <2>3, <2>4, NothingAccepted DEF At
<1>4. CASE ChildExits \/ EntryRetired \/ Detach \/ Shutdown
  <2>1. UNCHANGED replies /\ (request' = request \/ request' = NoRequest)
        /\ (entry' = entry \/ entry' = NoEntry)
    BY <1>4 DEF ChildExits, EntryRetired, Detach, Shutdown, calls
  <2>2. At("write", "reserve")' /\ entry'.st = "running" => request'.of \notin accepted[entry'.of]
    BY <2>1 DEF WriteInv, ReservedIsNew, At, NoRequest, NoEntry
  <2> QED BY <1>1, <2>1, <2>2, NothingAccepted
<1> QED BY <1>2, <1>3, <1>4

\* The client and the network.
LEMMA ClientSteps ==
    ASSUME Types, WriteInv,
           \/ StartProcess \/ StartAnswered \/ StartLost \/ Cleanup \/ CleanupAnswered
           \/ CleanupGivesUp \/ Terminate \/ Drop
           \/ \E w \in Writes : WriteChunk(w) \/ WriteAnswered(w) \/ WriteFails(w)
    PROVE  WriteInv'
<1>1. UNCHANGED <<accepted, stdin, entry, request>> /\ replies' \subseteq replies
  BY DEF StartProcess, StartAnswered, StartLost, Cleanup, CleanupAnswered, CleanupGivesUp,
     Terminate, Drop, WriteChunk, WriteAnswered, WriteFails, processes, calls
<1>2. At("write", "reserve")' /\ entry'.st = "running" => request'.of \notin accepted[entry'.of]
  BY <1>1 DEF WriteInv, ReservedIsNew, At
<1>3. \A v \in Writes : write'[v] = "ok" => write[v] = "ok" \/ Reached(v)
  <2>1. CASE \/ StartProcess \/ StartAnswered \/ StartLost \/ Cleanup \/ CleanupAnswered
             \/ CleanupGivesUp \/ Terminate
    BY <2>1 DEF StartProcess, StartAnswered, StartLost, Cleanup, CleanupAnswered, CleanupGivesUp, Terminate
  <2>2. CASE Drop
    BY <2>2 DEF Drop
  <2>3. ASSUME NEW w \in Writes, WriteChunk(w) \/ WriteFails(w)
        PROVE  \A v \in Writes : write'[v] = "ok" => write[v] = "ok"
    BY <2>3 DEF WriteChunk, WriteFails, Types, ClientTypes
  <2>4. ASSUME NEW w \in Writes, WriteAnswered(w)
        PROVE  \A v \in Writes : write'[v] = "ok" => write[v] = "ok" \/ Reached(v)
    <3>1. PICK r \in replies : r[1] = "write" /\ r[2] = w /\ write' = [write EXCEPT ![w] = r[3]]
      BY <2>4 DEF WriteAnswered
    <3>2. r[3] = "ok" => Reached(w)
      BY <3>1 DEF WriteInv, AnswersTrue
    <3> QED BY <3>1, <3>2 DEF Types, ClientTypes
  <2> QED BY <2>1, <2>2, <2>3, <2>4
<1> QED BY <1>1, <1>2, <1>3, NothingAccepted

\* Every step.
LEMMA NextWrites == ASSUME Types, WriteInv, [Next]_vars PROVE WriteInv'
<1>1. CASE \/ Overdue \/ RequestRecovery \/ Attach \/ AttachRefused \/ InstallRecoveredClient
           \/ RecoveryTimeout \/ (\E c \in timers : ExpireIfDetached(c)) \/ UNCHANGED vars
  <2>1. UNCHANGED <<replies, request, entry, accepted, stdin, write>>
    BY <1>1 DEF Overdue, RequestRecovery, Attach, AttachRefused, InstallRecoveredClient,
       RecoveryTimeout, ExpireIfDetached, calls, processes, vars
  <2>2. At("write", "reserve")' /\ entry'.st = "running" => request'.of \notin accepted[entry'.of]
    BY <2>1 DEF WriteInv, ReservedIsNew, At
  <2> QED BY <2>1, <2>2, NothingAccepted
<1> QED BY <1>1, WriteSteps, OtherServerSteps, ClientSteps DEF Next, ServerStep, ClientStep

\* However often the connection is lost and the client retries, a write reaches
\* the stdin of a process at most once, and one that was acknowledged has
\* reached it (accepted_write_ids in local_process.rs).
THEOREM WritesReachOnce == Spec => []WrittenOnce
<1>1. WriteInv => WrittenOnce
  BY DEF WriteInv, StdinIsAccepted, CallersTrue, Reached, WrittenOnce
<1> QED BY <1>1, InitTypes, NextTypes, InitWrites, NextWrites, PTL DEF Spec

-----------------------------------------------------------------------------
(* The events of a process: the inductive invariant.                       *)

\* The server still has all output.
Whole == Outputs = retained

FeedType == [pub : Seq(Kinds), pend : SUBSET (Nat \X Kinds)]
ResponseType == [status : {"none", "found", "unknown"}, chunks : SUBSET Nat, last : Nat,
                 exited : BOOLEAN, closed : BOOLEAN]

EventTypes ==
    /\ log \in Seq(Kinds) /\ retained \subseteq Outputs
    /\ task \in [Tasks -> {"run", "notify", "check", "done"}] /\ note \in [Tasks -> 0..Len(log)]
    /\ procEntry \in {"kept", "removed", "expired"} /\ sender \in {"none", "stale", "live"}
    /\ link \in BOOLEAN /\ losses \in 0..MaxLosses
    /\ wire \in Seq(Nat) /\ \A n \in DOMAIN wire : wire[n] \in DOMAIN log
    /\ recovery \in {"connected", "connect", "read", "gap", "install", "failed"}
    /\ response \in ResponseType
    /\ feed \in FeedType /\ IsFiniteSet(feed.pend) /\ \A e \in feed.pend : e[1] > Len(feed.pub) + 1
    /\ failed \in {"no", "gap", "overflow", "gaveup"}

\* The exit is logged once, by its task; the close is the last event, logged
\* once all streams have ended and the exit is logged.
LogShape ==
    /\ task["exit"] = "run" <=> ~Logged("exit")
    /\ \A m, n \in DOMAIN log : log[m] = "exit" /\ log[n] = "exit" => m = n
    /\ Logged("close") => OpenStreams = {} /\ Logged("exit")
    /\ \A n \in DOMAIN log : log[n] = "close" => n = Len(log)
    /\ \A t \in Tasks : task[t] = "notify" => note[t] \in DOMAIN log
    /\ task["exit"] = "notify" => log[note["exit"]] # "out"

\* Events as the server numbered them.
Genuine(events) == \A e \in events : e[1] \in DOMAIN log /\ e[2] = log[e[1]]

Agrees(pub) == Len(pub) <= Len(log) /\ \A n \in 1..Len(pub) : pub[n] = log[n]

\* Subscribers have seen the log, and what is pending comes from it.
FeedTrue == Whole => Agrees(feed.pub) /\ Genuine(feed.pend)

\* The answer to a read is a view of the log up to its last number, with all
\* output the client still needs.
AnswerTrue ==
    response.status # "none" =>
        /\ response.last <= Len(log)
        /\ \A n \in response.chunks : n \in Outputs /\ n <= response.last
        /\ response.exited <=> \E n \in 1..response.last : log[n] = "exit"
        /\ IF response.closed THEN response.last \in DOMAIN log /\ log[response.last] = "close"
           ELSE \A n \in 1..response.last : log[n] # "close"
        /\ Whole => \A n \in Outputs : Len(feed.pub) < n /\ n <= response.last => n \in response.chunks
        /\ response.status = "unknown" => procEntry # "kept"

\* A gap is only met when the server lost output or the entry.
Lost == ~Whole \/ procEntry # "kept"

EventsInv ==
    /\ EventTypes /\ LogShape /\ FeedTrue /\ AnswerTrue
    /\ recovery = "gap" \/ failed = "gap" => Lost

-----------------------------------------------------------------------------
(* Lemmas about the reorder buffer.                                        *)

\* A set of numbers has a least one.
LEMMA Least == ASSUME NEW S \in SUBSET Nat, S # {} PROVE \E m \in S : \A n \in S : m <= n
<1>1. PICK m \in S : \A n \in S : ~(<<n, m>> \in OpToRel(<, Nat))
  BY WFMin, NatLessThanWellFounded
<1>2. ASSUME NEW n \in S PROVE m <= n
  <2>1. n \in Nat /\ m \in Nat
    OBVIOUS
  <2>2. ~(n < m)
    BY <1>1, <2>1 DEF OpToRel
  <2> QED BY <2>1, <2>2
<1> QED BY <1>2

\* The numbers of finitely many events are finite, and no more than the events.
LEMMA NumbersFinite ==
    ASSUME NEW events \in SUBSET (Nat \X Kinds), IsFiniteSet(events)
    PROVE  /\ Numbers(events) \subseteq Nat /\ IsFiniteSet(Numbers(events))
           /\ Cardinality(Numbers(events)) <= Cardinality(events) /\ Cardinality(events) \in Nat
           /\ Cardinality(Numbers(events)) \in Nat
<1> DEFINE f == [e \in events |-> e[1]]
<1>1. Numbers(events) \subseteq Nat
  BY DEF Numbers
<1>2. f \in [events -> Numbers(events)] /\ \A t \in Numbers(events) : \E s \in events : f[s] = t
  BY DEF Numbers
<1>3. f \in Surjection(events, Numbers(events))
  BY <1>2 DEF Surjection
<1> QED BY <1>1, <1>3, FS_Surjection, FS_CardinalityType

\* The first missing number exists.
LEMMA HoleExists ==
    ASSUME feed \in FeedType, NEW events \in SUBSET (Nat \X Kinds), IsFiniteSet(events)
    PROVE  LET hole == FirstMissing(events) IN
           /\ hole \in Nat /\ hole >= Len(feed.pub) + 1 /\ hole \notin Numbers(events)
           /\ \A m \in (Len(feed.pub) + 1)..(hole - 1) : m \in Numbers(events)
<1> DEFINE a == Len(feed.pub) + 1
           b == Len(feed.pub) + Cardinality(events) + 1
           N == Numbers(events)
           free == (a..b) \ N
<1>1. Len(feed.pub) \in Nat /\ Cardinality(events) \in Nat /\ IsFiniteSet(N) /\ Cardinality(N) \in Nat
      /\ Cardinality(N) <= Cardinality(events)
  BY NumbersFinite DEF FeedType
<1>2. a \in Int /\ b \in Int /\ a <= b /\ b - a + 1 = Cardinality(events) + 1
  BY <1>1
<1>3. IsFiniteSet(a..b) /\ Cardinality(a..b) = Cardinality(events) + 1
  <2> HIDE DEF a, b
  <2>1. IsFiniteSet(a..b) /\ Cardinality(a..b) = IF a > b THEN 0 ELSE b - a + 1
    BY <1>2, FS_Interval
  <2> QED BY <1>2, <2>1
<1>4. free # {}
  <2> SUFFICES ASSUME free = {} PROVE FALSE
    OBVIOUS
  <2>1. (a..b) \in SUBSET N
    OBVIOUS
  <2>2. Cardinality(a..b) <= Cardinality(N)
    BY <1>1, <2>1, FS_Subset
  <2> HIDE DEF a, b, N
  <2> QED BY <1>1, <1>3, <2>2
<1>5. free \in SUBSET Nat
  BY <1>1
<1>6. PICK m \in free : \A n \in free : m <= n
  BY <1>4, <1>5, Least
<1>7. \A n \in a..(m - 1) : n \in N
  BY <1>1, <1>6
<1>8. \E n \in a..b : n \notin N /\ \A q \in a..(n - 1) : q \in N
  BY <1>6, <1>7
<1> DEFINE hole == FirstMissing(events)
<1>9. hole \in a..b /\ hole \notin N /\ \A q \in a..(hole - 1) : q \in N
  BY <1>8 DEF FirstMissing
<1> QED BY <1>1, <1>9

\* What publish_ready publishes are the events up to the first missing one.
LEMMA Publishes ==
    ASSUME feed \in FeedType, NEW events \in SUBSET (Nat \X Kinds), IsFiniteSet(events)
    PROVE  LET hole == FirstMissing(events)
               next == PublishReady(events)
           IN  /\ next \in FeedType /\ Len(next.pub) = hole - 1 /\ Len(feed.pub) <= Len(next.pub)
               /\ next.pend \subseteq events /\ IsFiniteSet(next.pend)
               /\ \A e \in next.pend : e[1] > Len(next.pub) + 1
               /\ \A n \in 1..Len(feed.pub) : next.pub[n] = feed.pub[n]
               /\ \A n \in (Len(feed.pub) + 1)..Len(next.pub) : <<n, next.pub[n]>> \in events
<1> DEFINE hole == FirstMissing(events)
           len == Len(feed.pub)
           kind(n) == CHOOSE k \in Kinds : <<n, k>> \in events
           more == [i \in 1..(hole - len - 1) |-> kind(len + i)]
           next == PublishReady(events)
<1>1. /\ hole \in Nat /\ len \in Nat /\ hole >= len + 1 /\ feed.pub \in Seq(Kinds)
      /\ \A m \in (len + 1)..(hole - 1) : m \in Numbers(events)
  BY HoleExists DEF FeedType
<1>2. ASSUME NEW n \in (len + 1)..(hole - 1) PROVE kind(n) \in Kinds /\ <<n, kind(n)>> \in events
  <2>1. PICK e \in events : e[1] = n
    BY <1>1, <1>2 DEF Numbers
  <2>2. e = <<n, e[2]>> /\ e[2] \in Kinds
    BY <2>1
  <2> QED BY <2>1, <2>2
<1>3. next.pub = feed.pub \o more /\ next.pend = {e \in events : e[1] > hole}
      /\ next = [pub |-> next.pub, pend |-> next.pend]
  BY DEF PublishReady
<1> HIDE DEF hole, kind
<1>4. /\ hole - len - 1 \in Nat /\ DOMAIN more = 1..(hole - len - 1)
      /\ \A i \in 1..(hole - len - 1) : more[i] = kind(len + i) /\ more[i] \in Kinds
  <2>1. \A i \in 1..(hole - len - 1) : len + i \in (len + 1)..(hole - 1)
    BY <1>1
  <2>2. \A i \in 1..(hole - len - 1) : kind(len + i) \in Kinds
    BY <1>2, <2>1
  <2>3. hole - len - 1 \in Nat
    BY <1>1
  <2> HIDE DEF kind
  <2> QED BY <2>2, <2>3
<1>5. more \in Seq(Kinds) /\ Len(more) = hole - len - 1
  <2>1. more \in [1..(hole - len - 1) -> Kinds]
    BY <1>4
  <2> HIDE DEF more
  <2> QED BY <1>4, <2>1
<1> HIDE DEF more
<1>6. /\ next.pub \in Seq(Kinds) /\ Len(next.pub) = hole - 1
      /\ \A i \in 1..(hole - 1) : next.pub[i] = IF i <= len THEN feed.pub[i] ELSE more[i - len]
  BY <1>1, <1>3, <1>5, ConcatProperties
<1> HIDE DEF next
<1>7. ASSUME NEW n \in (len + 1)..(hole - 1) PROVE <<n, next.pub[n]>> \in events
  <2>1. next.pub[n] = more[n - len] /\ n - len \in 1..(hole - len - 1)
    BY <1>1, <1>6
  <2>2. more[n - len] = kind(n)
    <3>1. len + (n - len) = n
      BY <1>1
    <3> QED BY <1>4, <2>1, <3>1
  <2> QED BY <1>2, <2>1, <2>2
<1>8. next.pend \subseteq events /\ IsFiniteSet(next.pend)
  BY <1>3, FS_Subset
<1>9. next \in FeedType
  BY <1>3, <1>6, <1>8 DEF FeedType
<1>10. /\ \A e \in next.pend : e[1] > Len(next.pub) + 1
       /\ \A n \in 1..len : next.pub[n] = feed.pub[n]
       /\ len <= Len(next.pub)
  BY <1>1, <1>3, <1>6
<1>11. \A n \in (len + 1)..Len(next.pub) : <<n, next.pub[n]>> \in events
  BY <1>6, <1>7
<1> QED BY <1>6, <1>8, <1>9, <1>10, <1>11 DEF hole, next

-----------------------------------------------------------------------------
(* Steps of the server.                                                    *)

\* The tasks, and the numbers of the log.
LEMMA TaskFacts ==
    /\ "exit" \in Tasks /\ Streams \subseteq Tasks /\ "exit" \notin Streams
    /\ \A t \in Tasks : t # "exit" => t \in Streams
BY EventsAssumption DEF Tasks

\* The log is a sequence of events, the output the server has is in it.
LEMMA LogNumbers ==
    ASSUME EventTypes
    PROVE  /\ Len(log) \in Nat /\ DOMAIN log = 1..Len(log) /\ \A n \in DOMAIN log : log[n] \in Kinds
           /\ Outputs \subseteq Nat /\ retained \subseteq Outputs
BY DEF EventTypes, Outputs

\* The log never changes, it only grows.
Grows == /\ log' \in Seq(Kinds) /\ Len(log) <= Len(log')
         /\ \A n \in DOMAIN log : n \in DOMAIN log' /\ log'[n] = log[n]

\* An event is appended to the log.
LEMMA Numbered ==
    ASSUME EventTypes, NEW t \in Tasks, NEW kind \in Kinds, Number(t, kind)
    PROVE  /\ Grows /\ Len(log') = Len(log) + 1 /\ DOMAIN log' = 1..(Len(log) + 1)
           /\ log'[Len(log) + 1] = kind
           /\ note' \in [Tasks -> 0..Len(log')] /\ task' \in [Tasks -> {"run", "notify", "check", "done"}]
           /\ note'[t] = Len(log) + 1 /\ task'[t] = "notify"
           /\ \A u \in Tasks : u # t => note'[u] = note[u] /\ task'[u] = task[u]
<1>1. /\ log \in Seq(Kinds) /\ log' = Append(log, kind) /\ Len(log) \in Nat
      /\ note \in [Tasks -> 0..Len(log)] /\ task \in [Tasks -> {"run", "notify", "check", "done"}]
      /\ note' = [note EXCEPT ![t] = Len(log) + 1] /\ task' = [task EXCEPT ![t] = "notify"]
  BY DEF EventTypes, Number
<1>2. /\ log' \in Seq(Kinds) /\ Len(log') = Len(log) + 1 /\ DOMAIN log' = 1..(Len(log) + 1)
      /\ log'[Len(log) + 1] = kind
      /\ \A n \in DOMAIN log : n \in DOMAIN log' /\ log'[n] = log[n]
  BY <1>1
<1>3. note' \in [Tasks -> 0..Len(log')]
  BY <1>1, <1>2
<1> QED BY <1>1, <1>2, <1>3 DEF Grows

\* What is logged after an event of some kind was appended.
LEMMA LoggedThen ==
    ASSUME EventTypes, NEW t \in Tasks, NEW kind \in Kinds, Number(t, kind)
    PROVE  /\ \A x : Logged(x)' <=> Logged(x) \/ x = kind
           /\ Outputs' = IF kind = "out" THEN Outputs \cup {Len(log) + 1} ELSE Outputs
<1>1. /\ Grows /\ Len(log') = Len(log) + 1 /\ DOMAIN log' = 1..(Len(log) + 1) /\ log'[Len(log) + 1] = kind
      /\ DOMAIN log = 1..Len(log) /\ Len(log) \in Nat
  BY Numbered, LogNumbers
<1>2. \A n : n \in DOMAIN log' <=> n \in DOMAIN log \/ n = Len(log) + 1
  BY <1>1
<1>3. \A x : Logged(x)' <=> Logged(x) \/ x = kind
  BY <1>1, <1>2 DEF Logged, Grows
<1>4. Outputs' = IF kind = "out" THEN Outputs \cup {Len(log) + 1} ELSE Outputs
  BY <1>1, <1>2 DEF Outputs, Grows
<1> QED BY <1>3, <1>4

\* A step of the server keeps what the client knows true.
LEMMA LogStep ==
    ASSUME EventsInv, Grows, EventTypes', LogShape', Whole' => Whole,
           procEntry # "kept" => procEntry' # "kept",
           UNCHANGED <<recovery, response, feed, failed>>
    PROVE  EventsInv'
<1>1. DOMAIN log = 1..Len(log) /\ DOMAIN log' = 1..Len(log') /\ Len(log) \in Nat /\ Len(log') \in Nat
  BY LogNumbers DEF EventsInv, Grows
<1>2. /\ feed.pub \in Seq(Kinds) /\ feed.pend \in SUBSET (Nat \X Kinds) /\ Len(feed.pub) \in Nat
      /\ response.last \in Nat
  BY DEF EventsInv, EventTypes, FeedType, ResponseType
<1>3. FeedTrue'
  <2> SUFFICES ASSUME Whole' PROVE Agrees(feed.pub)' /\ Genuine(feed.pend)'
    BY DEF FeedTrue
  <2>1. Agrees(feed.pub) /\ Genuine(feed.pend)
    BY DEF EventsInv, FeedTrue
  <2>2. Agrees(feed.pub)'
    BY <1>1, <1>2, <2>1 DEF Agrees, Grows
  <2> QED BY <2>1, <2>2 DEF Genuine, Grows
<1>4. AnswerTrue'
  <2> SUFFICES ASSUME response.status # "none" PROVE AnswerTrue'
    BY DEF AnswerTrue
  <2>1. /\ response.last <= Len(log) /\ \A n \in 1..response.last : n \in DOMAIN log /\ log'[n] = log[n]
    BY <1>1, <1>2 DEF EventsInv, AnswerTrue, Grows
  <2>2. \A n \in Nat : n <= response.last => (n \in Outputs' <=> n \in Outputs)
    BY <1>1, <1>2, <2>1 DEF Outputs, Grows
  <2>3. response'.last <= Len(log')
    BY <1>1, <1>2, <2>1 DEF Grows
  <2>4. \A n \in response'.chunks : n \in Outputs' /\ n <= response'.last
    BY <2>2, LogNumbers DEF EventsInv, AnswerTrue
  <2>5. response'.exited <=> \E n \in 1..response'.last : log'[n] = "exit"
    BY <2>1 DEF EventsInv, AnswerTrue
  <2>6. IF response'.closed THEN response'.last \in DOMAIN log' /\ log'[response'.last] = "close"
        ELSE \A n \in 1..response'.last : log'[n] # "close"
    BY <2>1 DEF EventsInv, AnswerTrue, Grows
  <2>7. Whole' => \A n \in Outputs' : Len(feed'.pub) < n /\ n <= response'.last => n \in response'.chunks
    <3>1. Outputs' \subseteq Nat
      BY <1>1 DEF Outputs
    <3> QED BY <2>2, <3>1 DEF EventsInv, AnswerTrue
  <2>8. response'.status = "unknown" => procEntry' # "kept"
    BY DEF EventsInv, AnswerTrue
  <2> QED BY <2>3, <2>4, <2>5, <2>6, <2>7, <2>8 DEF AnswerTrue
<1> QED BY <1>3, <1>4 DEF EventsInv, Lost

\* Types while an event is logged, and while the log stays as it is.
LEMMA LoggingTypes ==
    ASSUME EventsInv, Grows, note' \in [Tasks -> 0..Len(log')],
           task' \in [Tasks -> {"run", "notify", "check", "done"}],
           retained' \subseteq Outputs',
           UNCHANGED <<procEntry, sender, link, losses, wire, recovery, response, feed, failed>>
    PROVE  EventTypes'
<1>1. \A n \in DOMAIN wire : wire[n] \in DOMAIN log'
  BY DEF EventsInv, EventTypes, Grows
<1> QED BY <1>1 DEF EventsInv, EventTypes, Grows

\* A step that does not number an event.
LEMMA LogStays ==
    ASSUME EventTypes, UNCHANGED log
    PROVE  Grows /\ Outputs' = Outputs /\ \A x : Logged(x)' <=> Logged(x)
BY DEF EventTypes, Grows, Outputs, Logged

\* stream_output numbers a chunk and may evict another.
LEMMA OutputInv == ASSUME EventsInv, NEW s \in Tasks, Output(s) PROVE EventsInv'
<1>0. EventTypes /\ "out" \in Kinds
  BY DEF EventsInv, Kinds
<1>1. /\ s \in Streams /\ task[s] = "run" /\ Number(s, "out") /\ s # "exit"
      /\ retained' \subseteq retained \cup {Len(log) + 1}
      /\ UNCHANGED <<procEntry, sender, link, losses, wire, recovery, response, feed, failed>>
  BY TaskFacts DEF Output
<1>2. /\ Grows /\ Len(log') = Len(log) + 1 /\ DOMAIN log' = 1..(Len(log) + 1)
      /\ log'[Len(log) + 1] = "out"
      /\ note' \in [Tasks -> 0..Len(log')] /\ task' \in [Tasks -> {"run", "notify", "check", "done"}]
      /\ note'[s] = Len(log) + 1 /\ task'[s] = "notify"
      /\ \A u \in Tasks : u # s => note'[u] = note[u] /\ task'[u] = task[u]
  BY <1>0, <1>1, Numbered
<1>3. (\A x : Logged(x)' <=> Logged(x) \/ x = "out") /\ Outputs' = Outputs \cup {Len(log) + 1}
  BY <1>0, <1>1, LoggedThen
<1>4. DOMAIN log = 1..Len(log) /\ Len(log) \in Nat /\ retained \subseteq Outputs /\ Outputs \subseteq DOMAIN log
  BY <1>0, LogNumbers DEF Outputs
<1>5. ~Logged("close")
  BY <1>1 DEF EventsInv, LogShape, OpenStreams
<1>6. LogShape'
  <2>1. \A n \in DOMAIN log : log[n] # "close"
    BY <1>5 DEF Logged
  <2>2. \A n \in DOMAIN log' : n \in DOMAIN log \/ n = Len(log) + 1
    BY <1>2, <1>4
  <2>3. /\ \A m, n \in DOMAIN log' : log'[m] = "exit" /\ log'[n] = "exit" => m = n
        /\ \A n \in DOMAIN log' : log'[n] = "close" => n = Len(log')
    BY <1>2, <2>1, <2>2 DEF EventsInv, LogShape, Grows
  <2>4. /\ \A t \in Tasks : task'[t] = "notify" => note'[t] \in DOMAIN log'
        /\ task'["exit"] = "notify" => log'[note'["exit"]] # "out"
    BY <1>1, <1>2, <1>4, TaskFacts DEF EventsInv, LogShape, Grows
  <2>5. task'["exit"] = "run" <=> ~Logged("exit")'
    BY <1>1, <1>2, <1>3, TaskFacts DEF EventsInv, LogShape
  <2>6. ~Logged("close")'
    BY <1>3, <1>5
  <2> QED BY <2>3, <2>4, <2>5, <2>6 DEF LogShape
<1>7. retained' \subseteq Outputs' /\ (Whole' => Whole)
  <2>1. retained' \subseteq Outputs'
    BY <1>1, <1>3, <1>4
  <2>2. \A n \in Outputs : n # Len(log) + 1
    BY <1>4
  <2>3. Whole' => \A n \in Outputs : n \in retained
    BY <1>1, <1>3, <2>2 DEF Whole
  <2> QED BY <1>4, <2>1, <2>3 DEF Whole
<1>8. EventTypes'
  BY <1>1, <1>2, <1>7, LoggingTypes
<1> QED BY <1>1, <1>2, <1>6, <1>7, <1>8, LogStep

\* A stream ends.
LEMMA FinishOutputInv == ASSUME EventsInv, NEW s \in Tasks, FinishOutput(s) PROVE EventsInv'
<1>1. /\ s \in Streams /\ task[s] = "run" /\ s # "exit" /\ task' = [task EXCEPT ![s] = "check"]
      /\ UNCHANGED <<log, retained, note, procEntry, sender, link, losses, wire, recovery, response, feed, failed>>
  BY TaskFacts DEF FinishOutput
<1>2. Grows /\ Outputs' = Outputs /\ \A x : Logged(x)' <=> Logged(x)
  BY <1>1, LogStays DEF EventsInv
<1>3. task \in [Tasks -> {"run", "notify", "check", "done"}] /\ note \in [Tasks -> 0..Len(log)]
      /\ retained \subseteq Outputs
  BY DEF EventsInv, EventTypes
<1>4. task'["exit"] = task["exit"] /\ task'[s] = "check" /\ \A u \in Tasks : u # s => task'[u] = task[u]
  BY <1>1, <1>3, TaskFacts
<1>5. OpenStreams' \subseteq OpenStreams
  BY <1>1, <1>4, TaskFacts DEF OpenStreams
<1>6. LogShape'
  BY <1>1, <1>2, <1>4, <1>5, TaskFacts DEF EventsInv, LogShape
<1>7. EventTypes'
  BY <1>1, <1>2, <1>3, LoggingTypes
<1> QED BY <1>1, <1>2, <1>6, <1>7, LogStep DEF Whole

\* The exit is numbered once.
LEMMA WatchExitInv == ASSUME EventsInv, WatchExit PROVE EventsInv'
<1>0. EventTypes /\ "exit" \in Kinds /\ "exit" \in Tasks
  BY TaskFacts DEF EventsInv, Kinds
<1>1. /\ task["exit"] = "run" /\ Number("exit", "exit")
      /\ UNCHANGED <<retained, procEntry, sender, link, losses, wire, recovery, response, feed, failed>>
  BY DEF WatchExit
<1>2. /\ Grows /\ Len(log') = Len(log) + 1 /\ DOMAIN log' = 1..(Len(log) + 1)
      /\ log'[Len(log) + 1] = "exit"
      /\ note' \in [Tasks -> 0..Len(log')] /\ task' \in [Tasks -> {"run", "notify", "check", "done"}]
      /\ note'["exit"] = Len(log) + 1 /\ task'["exit"] = "notify"
      /\ \A u \in Tasks : u # "exit" => note'[u] = note[u] /\ task'[u] = task[u]
  BY <1>0, <1>1, Numbered
<1>3. (\A x : Logged(x)' <=> Logged(x) \/ x = "exit") /\ Outputs' = Outputs
  BY <1>0, <1>1, LoggedThen
<1>4. DOMAIN log = 1..Len(log) /\ Len(log) \in Nat /\ retained \subseteq Outputs
  BY <1>0, LogNumbers
<1>5. ~Logged("exit") /\ ~Logged("close")
  BY <1>1 DEF EventsInv, LogShape
<1>6. LogShape'
  <2>1. \A n \in DOMAIN log : log[n] # "close" /\ log[n] # "exit"
    BY <1>5 DEF Logged
  <2>2. \A n \in DOMAIN log' : n \in DOMAIN log \/ n = Len(log) + 1
    BY <1>2, <1>4
  <2>3. /\ \A m, n \in DOMAIN log' : log'[m] = "exit" /\ log'[n] = "exit" => m = n
        /\ \A n \in DOMAIN log' : log'[n] = "close" => n = Len(log')
    BY <1>2, <2>1, <2>2 DEF Grows
  <2>4. /\ \A t \in Tasks : task'[t] = "notify" => note'[t] \in DOMAIN log'
        /\ task'["exit"] = "notify" => log'[note'["exit"]] # "out"
    BY <1>2, <1>4 DEF EventsInv, LogShape, Grows
  <2>5. task'["exit"] = "run" <=> ~Logged("exit")'
    BY <1>2, <1>3
  <2>6. ~Logged("close")'
    BY <1>3, <1>5
  <2> QED BY <2>3, <2>4, <2>5, <2>6 DEF LogShape
<1>7. EventTypes'
  BY <1>1, <1>2, <1>3, <1>4, LoggingTypes
<1> QED BY <1>1, <1>2, <1>3, <1>6, <1>7, LogStep DEF Whole

\* The close is numbered after everything else.
LEMMA MaybeEmitClosedInv == ASSUME EventsInv, NEW t \in Tasks, MaybeEmitClosed(t) PROVE EventsInv'
<1>0. EventTypes /\ "close" \in Kinds /\ task[t] = "check"
      /\ UNCHANGED <<retained, procEntry, sender, link, losses, wire, recovery, response, feed, failed>>
  BY DEF EventsInv, Kinds, MaybeEmitClosed
<1>a. task \in [Tasks -> {"run", "notify", "check", "done"}] /\ note \in [Tasks -> 0..Len(log)]
      /\ retained \subseteq Outputs
  BY DEF EventsInv, EventTypes
<1>1. CASE task' = [task EXCEPT ![t] = "done"] /\ UNCHANGED <<log, note>>
  <2>1. Grows /\ Outputs' = Outputs /\ \A x : Logged(x)' <=> Logged(x)
    BY <1>0, <1>1, LogStays
  <2>2. task'[t] = "done" /\ \A u \in Tasks : u # t => task'[u] = task[u]
    BY <1>1, <1>a
  <2>3. OpenStreams' \subseteq OpenStreams
    BY <1>1, <2>2, TaskFacts DEF OpenStreams
  <2>4. LogShape'
    BY <1>0, <1>1, <2>1, <2>2, <2>3, TaskFacts DEF EventsInv, LogShape
  <2>5. EventTypes'
    BY <1>0, <1>1, <1>a, <2>1, LoggingTypes
  <2> QED BY <1>0, <2>1, <2>4, <2>5, LogStep DEF Whole
<1>2. CASE Number(t, "close") /\ ~Logged("close") /\ OpenStreams = {} /\ Logged("exit")
  <2>1. /\ Grows /\ Len(log') = Len(log) + 1 /\ DOMAIN log' = 1..(Len(log) + 1)
        /\ log'[Len(log) + 1] = "close"
        /\ note' \in [Tasks -> 0..Len(log')] /\ task' \in [Tasks -> {"run", "notify", "check", "done"}]
        /\ note'[t] = Len(log) + 1 /\ task'[t] = "notify"
        /\ \A u \in Tasks : u # t => note'[u] = note[u] /\ task'[u] = task[u]
    BY <1>0, <1>2, Numbered
  <2>2. (\A x : Logged(x)' <=> Logged(x) \/ x = "close") /\ Outputs' = Outputs
    BY <1>0, <1>2, LoggedThen
  <2>3. DOMAIN log = 1..Len(log) /\ Len(log) \in Nat
    BY <1>0, LogNumbers
  <2>4. LogShape'
    <3>1. \A n \in DOMAIN log : log[n] # "close"
      BY <1>2 DEF Logged
    <3>2. \A n \in DOMAIN log' : n \in DOMAIN log \/ n = Len(log) + 1
      BY <2>1, <2>3
    <3>3. /\ \A m, n \in DOMAIN log' : log'[m] = "exit" /\ log'[n] = "exit" => m = n
          /\ \A n \in DOMAIN log' : log'[n] = "close" => n = Len(log')
      BY <2>1, <3>1, <3>2 DEF EventsInv, LogShape, Grows
    <3>4. /\ \A u \in Tasks : task'[u] = "notify" => note'[u] \in DOMAIN log'
          /\ task'["exit"] = "notify" => log'[note'["exit"]] # "out"
      BY <2>1, <2>3, TaskFacts DEF EventsInv, LogShape, Grows
    <3>5. task'["exit"] = "run" <=> ~Logged("exit")'
      BY <1>2, <2>1, <2>2, TaskFacts DEF EventsInv, LogShape
    <3>6. OpenStreams' = {}
      BY <1>2, <2>1, <2>3, TaskFacts DEF EventsInv, LogShape, OpenStreams, Grows
    <3> QED BY <1>2, <2>2, <3>3, <3>4, <3>5, <3>6 DEF LogShape
  <2>5. EventTypes'
    BY <1>0, <1>a, <2>1, <2>2, LoggingTypes
  <2> QED BY <1>0, <2>1, <2>2, <2>4, <2>5, LogStep DEF Whole
<1> QED BY <1>1, <1>2 DEF MaybeEmitClosed

\* A notification carries the number of an event of the log.
LEMMA NotifyInv == ASSUME EventsInv, NEW t \in Tasks, Notify(t) PROVE EventsInv'
<1>1. /\ task[t] = "notify" /\ task' = [task EXCEPT ![t] = AfterNotify(t)] /\ note' = [note EXCEPT ![t] = 0]
      /\ wire' = wire \/ wire' = Append(wire, note[t])
      /\ UNCHANGED <<log, retained, procEntry, sender, link, losses, recovery, response, feed, failed>>
  BY DEF Notify
<1>2. /\ task \in [Tasks -> {"run", "notify", "check", "done"}] /\ note \in [Tasks -> 0..Len(log)]
      /\ retained \subseteq Outputs /\ wire \in Seq(Nat) /\ \A n \in DOMAIN wire : wire[n] \in DOMAIN log
      /\ DOMAIN log = 1..Len(log) /\ Len(log) \in Nat
  BY LogNumbers DEF EventsInv, EventTypes
<1>3. Grows /\ Outputs' = Outputs /\ \A x : Logged(x)' <=> Logged(x)
  BY <1>1, LogStays DEF EventsInv
<1>4. /\ note[t] \in DOMAIN log /\ note[t] \in Nat
      /\ AfterNotify(t) \in {"run", "check", "done"} /\ (AfterNotify(t) = "run" <=> log[note[t]] = "out")
  BY <1>1, <1>2 DEF EventsInv, LogShape, AfterNotify
<1>5. /\ task' \in [Tasks -> {"run", "notify", "check", "done"}] /\ note' \in [Tasks -> 0..Len(log)]
      /\ task'[t] = AfterNotify(t) /\ \A u \in Tasks : u # t => task'[u] = task[u] /\ note'[u] = note[u]
  BY <1>1, <1>2, <1>4
<1>6. wire' \in Seq(Nat) /\ \A n \in DOMAIN wire' : wire'[n] \in DOMAIN log
  <2>1. CASE wire' = Append(wire, note[t])
    <3>1. /\ wire' \in Seq(Nat) /\ Len(wire') = Len(wire) + 1 /\ wire'[Len(wire) + 1] = note[t]
          /\ \A n \in 1..Len(wire) : wire'[n] = wire[n]
      BY <1>2, <1>4, <2>1
    <3>2. Len(wire) \in Nat /\ DOMAIN wire = 1..Len(wire) /\ DOMAIN wire' = 1..(Len(wire) + 1)
      BY <1>2, <3>1
    <3>3. \A n \in DOMAIN wire' : n \in DOMAIN wire \/ n = Len(wire) + 1
      BY <3>2
    <3>4. ASSUME NEW n \in DOMAIN wire' PROVE wire'[n] \in DOMAIN log
      BY <1>2, <1>4, <3>1, <3>2, <3>3
    <3> QED BY <3>1, <3>4
  <2> QED BY <1>1, <1>2, <2>1
<1>7. OpenStreams' \subseteq OpenStreams
  BY <1>1, <1>4, <1>5, TaskFacts DEF OpenStreams
<1>8. LogShape'
  <2>1. task'["exit"] = "run" <=> ~Logged("exit")'
    BY <1>1, <1>3, <1>4, <1>5, TaskFacts DEF EventsInv, LogShape
  <2>2. /\ \A u \in Tasks : task'[u] = "notify" => note'[u] \in DOMAIN log'
        /\ task'["exit"] = "notify" => log'[note'["exit"]] # "out"
    BY <1>1, <1>4, <1>5, TaskFacts DEF EventsInv, LogShape
  <2> QED BY <1>1, <1>3, <1>7, <2>1, <2>2 DEF EventsInv, LogShape
<1>9. EventTypes'
  BY <1>1, <1>2, <1>3, <1>5, <1>6 DEF EventsInv, EventTypes
<1> QED BY <1>1, <1>3, <1>8, <1>9, LogStep DEF Whole

\* Steps that leave the log and its tasks alone.
LEMMA ShapeStays == ASSUME EventsInv, UNCHANGED <<log, task, note>> PROVE LogShape'
BY DEF EventsInv, LogShape, Logged, OpenStreams

\* The entry of the process, its session or its sender goes.
LEMMA EntryStepInv ==
    ASSUME EventsInv, RemoveClosed \/ DetachSender \/ Expire PROVE EventsInv'
<1>1. /\ UNCHANGED <<log, retained, task, note, link, losses, wire, recovery, response, feed, failed>>
      /\ procEntry' \in {procEntry, "removed", "expired"} /\ sender' \in {sender, "none"}
  BY DEF RemoveClosed, DetachSender, Expire, server
<1>2. Grows /\ Outputs' = Outputs
  BY <1>1, LogStays DEF EventsInv
<1>3. LogShape'
  BY <1>1, ShapeStays
<1>4. EventTypes'
  BY <1>1, <1>2 DEF EventsInv, EventTypes
<1> QED BY <1>1, <1>2, <1>3, <1>4, LogStep DEF Whole

-----------------------------------------------------------------------------
(* Steps of the network and of the client.                                 *)

\* The server does nothing, the feed goes on with the log, an answer stays as
\* it is or goes, and a gap is only met where something was lost.
LEMMA FeedStep ==
    ASSUME EventsInv, UNCHANGED server, EventTypes',
           Whole => Agrees(feed'.pub) /\ Genuine(feed'.pend), Len(feed.pub) <= Len(feed'.pub),
           response' = response \/ response'.status = "none",
           recovery' = "gap" => recovery = "gap" \/ Lost,
           failed' = "gap" => failed = "gap" \/ recovery = "gap"
    PROVE  EventsInv'
<1>1. UNCHANGED <<log, retained, task, note, procEntry>>
      /\ Outputs' = Outputs /\ (Whole' <=> Whole) /\ (Lost' <=> Lost)
  BY DEF server, Outputs, Whole, Lost
<1>2. LogShape'
  BY <1>1, ShapeStays
<1>3. FeedTrue'
  BY <1>1 DEF FeedTrue, Agrees, Genuine
<1>4. AnswerTrue'
  <2>1. Len(feed.pub) \in Nat /\ Len(feed'.pub) \in Nat /\ Outputs \subseteq Nat
    BY LogNumbers DEF EventsInv, EventTypes, FeedType
  <2> SUFFICES ASSUME response'.status # "none" PROVE AnswerTrue'
    BY DEF AnswerTrue
  <2>2. response' = response /\ response.status # "none"
    OBVIOUS
  <2>3. Whole => \A n \in Outputs : Len(feed'.pub) < n /\ n <= response.last => n \in response.chunks
    BY <2>1, <2>2 DEF EventsInv, AnswerTrue
  <2> QED BY <1>1, <2>2, <2>3 DEF EventsInv, AnswerTrue
<1> QED BY <1>1, <1>2, <1>3, <1>4 DEF EventsInv

\* What can be said of the feed before a step.
LEMMA FeedFacts ==
    ASSUME EventsInv
    PROVE  /\ feed \in FeedType /\ feed.pub \in Seq(Kinds) /\ Len(feed.pub) \in Nat
           /\ feed.pend \in SUBSET (Nat \X Kinds) /\ IsFiniteSet(feed.pend)
           /\ Whole => Agrees(feed.pub) /\ Genuine(feed.pend)
           /\ response \in ResponseType /\ NoResponse \in ResponseType /\ NoResponse.status = "none"
           /\ wire \in Seq(Nat) /\ \A n \in DOMAIN wire : wire[n] \in DOMAIN log
           /\ << >> \in Seq(Nat) /\ DOMAIN << >> = {}
<1>1. << >> \in Seq(Nat) /\ DOMAIN << >> = {}
  <2>1. << >> \in Seq(Nat) /\ Len(<< >>) = 0
    BY EmptySeq
  <2>2. DOMAIN << >> = 1..0
    BY <2>1
  <2> QED BY <2>1, <2>2
<1>2. NoResponse \in ResponseType /\ NoResponse.status = "none"
  BY DEF NoResponse, ResponseType
<1> QED BY <1>1, <1>2 DEF EventsInv, EventTypes, FeedTrue, FeedType

\* A feed that failed keeps what it published and drops the rest.
LEMMA Emptied ==
    ASSUME EventsInv, feed' = [feed EXCEPT !.pend = {}]
    PROVE  /\ feed' \in FeedType /\ feed'.pub = feed.pub /\ feed'.pend = {} /\ IsFiniteSet(feed'.pend)
           /\ Whole => Agrees(feed'.pub) /\ Genuine(feed'.pend)
<1>1. feed' \in FeedType /\ feed'.pub = feed.pub /\ feed'.pend = {}
  BY FeedFacts DEF FeedType
<1> QED BY <1>1, FeedFacts, FS_EmptySet DEF Genuine

\* Steps that do not touch the feed.
LEMMA ConnectionStep ==
    ASSUME EventsInv, UNCHANGED server, UNCHANGED <<feed, failed>>,
           sender' \in {"none", "stale", "live"}, link' \in BOOLEAN, losses' \in 0..MaxLosses,
           wire' = wire \/ wire' = << >>, response' = response \/ response' = NoResponse,
           recovery' \in {"connected", "connect", "read", "gap", "install", "failed"},
           recovery' = "gap" => recovery = "gap" \/ Lost
    PROVE  EventsInv'
<1>1. UNCHANGED <<log, retained, task, note, procEntry>> /\ Outputs' = Outputs
  BY DEF server, Outputs
<1>2. EventTypes'
  <2>1. wire' \in Seq(Nat) /\ \A n \in DOMAIN wire' : wire'[n] \in DOMAIN log
    <3>1. CASE wire' = wire
      BY <3>1, FeedFacts
    <3>2. CASE wire' = << >>
      BY <3>2, FeedFacts
    <3> QED BY <3>1, <3>2
  <2>2. response' \in ResponseType
    BY FeedFacts
  <2> QED BY <1>1, <2>1, <2>2 DEF EventsInv, EventTypes
<1>3. response' = response \/ response'.status = "none"
  BY FeedFacts
<1> QED BY <1>2, <1>3, FeedFacts, FeedStep

\* The connection is lost, or replaced by a new one.
LEMMA LinkStepInv ==
    ASSUME EventsInv, LoseConnection \/ StartRecovery \/ Resume \/ InstallClient \/ RetryRecovery
    PROVE  EventsInv'
<1>1. sender \in {"none", "stale", "live"} /\ link \in BOOLEAN /\ losses \in 0..MaxLosses /\ MaxLosses \in Nat
      /\ recovery \in {"connected", "connect", "read", "gap", "install", "failed"}
  BY EventsAssumption DEF EventsInv, EventTypes
<1>2. UNCHANGED server /\ UNCHANGED <<feed, failed>>
  BY DEF LoseConnection, StartRecovery, Resume, InstallClient, RetryRecovery
<1>3. /\ sender' \in {"none", "stale", "live"} /\ link' \in BOOLEAN
      /\ wire' = wire \/ wire' = << >>
      /\ response' = response \/ response' = NoResponse
      /\ recovery' = recovery \/ recovery' \in {"connected", "connect", "read", "install"}
  BY <1>1 DEF LoseConnection, StartRecovery, Resume, InstallClient, RetryRecovery
<1>4. losses' \in 0..MaxLosses
  BY <1>1 DEF LoseConnection, StartRecovery, Resume, InstallClient, RetryRecovery
<1> QED BY <1>1, <1>2, <1>3, <1>4, ConnectionStep

\* The client gives up.
LEMMA FailInv == ASSUME EventsInv, Fail PROVE EventsInv'
<1>1. UNCHANGED server /\ UNCHANGED losses /\ recovery' = "failed" /\ link' = FALSE /\ wire' = << >>
      /\ response' = NoResponse /\ sender' \in {sender, "stale"}
  BY DEF Fail
<1>2. CASE UNCHANGED <<feed, failed>>
  BY <1>1, <1>2, ConnectionStep DEF EventsInv, EventTypes
<1>3. CASE failed' = "gaveup" /\ feed' = [feed EXCEPT !.pend = {}]
  <2>1. UNCHANGED <<log, retained, task, note, procEntry>> /\ Outputs' = Outputs
    BY <1>1 DEF server, Outputs
  <2>a. wire' \in Seq(Nat) /\ \A n \in DOMAIN wire' : wire'[n] \in DOMAIN log
    BY <1>1, FeedFacts
  <2>2. EventTypes'
    BY <1>1, <1>3, <2>1, <2>a, Emptied, FeedFacts DEF EventsInv, EventTypes
  <2> QED BY <1>1, <1>3, <2>2, Emptied, FeedFacts, FeedStep
<1> QED BY <1>2, <1>3 DEF Fail

\* The feed fails after a gap was met.
LEMMA FailFeedInv == ASSUME EventsInv, FailFeed PROVE EventsInv'
<1>1. /\ UNCHANGED server /\ UNCHANGED <<sender, link, losses, wire, response>>
      /\ recovery = "gap" /\ recovery' = "install"
  BY DEF FailFeed
<1>2. CASE UNCHANGED <<feed, failed>>
  BY <1>1, <1>2, ConnectionStep DEF EventsInv, EventTypes
<1>3. CASE failed' = "gap" /\ feed' = [feed EXCEPT !.pend = {}]
  <2>1. UNCHANGED <<log, retained, task, note, procEntry>> /\ Outputs' = Outputs
    BY <1>1 DEF server, Outputs
  <2>2. EventTypes'
    BY <1>1, <1>3, <2>1, Emptied, FeedFacts DEF EventsInv, EventTypes
  <2> QED BY <1>1, <1>3, <2>2, Emptied, FeedFacts, FeedStep
<1> QED BY <1>2, <1>3 DEF FailFeed

\* Publishing events of the log publishes the log.
LEMMA PublishTrue ==
    ASSUME EventsInv, NEW events \in SUBSET (Nat \X Kinds), IsFiniteSet(events), Whole => Genuine(events),
           feed' = PublishReady(events)
    PROVE  /\ feed' \in FeedType /\ IsFiniteSet(feed'.pend) /\ \A e \in feed'.pend : e[1] > Len(feed'.pub) + 1
           /\ Len(feed.pub) <= Len(feed'.pub)
           /\ Whole => Agrees(feed'.pub) /\ Genuine(feed'.pend)
<1>1. /\ feed' \in FeedType /\ Len(feed.pub) <= Len(feed'.pub)
      /\ feed'.pend \subseteq events /\ IsFiniteSet(feed'.pend)
      /\ \A e \in feed'.pend : e[1] > Len(feed'.pub) + 1
      /\ \A n \in 1..Len(feed.pub) : feed'.pub[n] = feed.pub[n]
      /\ \A n \in (Len(feed.pub) + 1)..Len(feed'.pub) : <<n, feed'.pub[n]>> \in events
  BY FeedFacts, Publishes
<1>2. Len(feed.pub) \in Nat /\ Len(feed'.pub) \in Nat /\ Len(log) \in Nat /\ DOMAIN log = 1..Len(log)
  BY <1>1, FeedFacts, LogNumbers DEF FeedType, EventsInv
<1>3. ASSUME Whole PROVE Agrees(feed'.pub) /\ Genuine(feed'.pend)
  <2>1. Agrees(feed.pub) /\ Genuine(events)
    BY <1>3, FeedFacts
  <2>2. ASSUME NEW n \in (Len(feed.pub) + 1)..Len(feed'.pub) PROVE n \in DOMAIN log /\ feed'.pub[n] = log[n]
    <3>1. <<n, feed'.pub[n]>> \in events
      BY <1>1
    <3>2. <<n, feed'.pub[n]>>[1] \in DOMAIN log /\ <<n, feed'.pub[n]>>[2] = log[<<n, feed'.pub[n]>>[1]]
      BY <2>1, <3>1 DEF Genuine
    <3> QED BY <3>2
  <2>3. Len(feed'.pub) <= Len(log)
    <3>1. CASE Len(feed'.pub) = Len(feed.pub)
      BY <2>1, <3>1 DEF Agrees
    <3>2. CASE Len(feed'.pub) # Len(feed.pub)
      BY <1>1, <1>2, <2>2, <3>2
    <3> QED BY <3>1, <3>2
  <2>4. ASSUME NEW n \in 1..Len(feed'.pub) PROVE feed'.pub[n] = log[n]
    <3>1. CASE n <= Len(feed.pub)
      BY <1>1, <1>2, <2>1, <3>1 DEF Agrees
    <3>2. CASE n > Len(feed.pub)
      BY <1>2, <2>2, <3>2
    <3> QED BY <1>2, <3>1, <3>2
  <2> QED BY <1>1, <2>1, <2>3, <2>4 DEF Agrees, Genuine
<1> QED BY <1>1, <1>3

\* A notification arrives: known, beyond the buffer, or published with what it releases.
LEMMA DeliverInv == ASSUME EventsInv, Deliver PROVE EventsInv'
<1>1. /\ wire # << >> /\ wire' = Tail(wire) /\ UNCHANGED server
      /\ UNCHANGED <<sender, link, losses, recovery, response>>
  BY DEF Deliver
<1>2. UNCHANGED <<log, retained, task, note, procEntry>> /\ Outputs' = Outputs
  BY <1>1 DEF server, Outputs
<1>3. wire' \in Seq(Nat) /\ (\A n \in DOMAIN wire' : wire'[n] \in DOMAIN log) /\ Head(wire) \in DOMAIN log
  <2>1. /\ wire \in Seq(Nat) /\ \A n \in DOMAIN wire : wire[n] \in DOMAIN log
    BY FeedFacts
  <2>2. wire' \in Seq(Nat) /\ Len(wire') = Len(wire) - 1 /\ \A i \in 1..Len(wire') : wire'[i] = wire[i + 1]
    BY <1>1, <2>1, HeadTailProperties
  <2>3. Len(wire) \in Nat /\ Len(wire) >= 1 /\ DOMAIN wire = 1..Len(wire)
        /\ DOMAIN wire' = 1..(Len(wire) - 1) /\ Head(wire) = wire[1]
    BY <1>1, <2>1, <2>2
  <2>4. ASSUME NEW n \in DOMAIN wire' PROVE wire'[n] \in DOMAIN log
    <3>1. n + 1 \in DOMAIN wire /\ wire'[n] = wire[n + 1]
      BY <2>2, <2>3
    <3> QED BY <2>1, <3>1
  <2>5. 1 \in DOMAIN wire
    BY <2>3
  <2> QED BY <2>1, <2>2, <2>3, <2>4, <2>5
<1> DEFINE seq == Head(wire)
           events == feed.pend \cup {<<seq, log[seq]>>}
<1>4. seq \in Nat /\ log[seq] \in Kinds /\ events \in SUBSET (Nat \X Kinds) /\ IsFiniteSet(events)
  <2>1. seq \in Nat /\ log[seq] \in Kinds
    BY <1>3, LogNumbers DEF EventsInv
  <2>2. <<seq, log[seq]>> \in Nat \X Kinds
    BY <2>1
  <2>3. IsFiniteSet(events)
    BY FeedFacts, FS_AddElement
  <2> QED BY <2>1, <2>2, <2>3, FeedFacts
<1>5. Whole => Genuine(events)
  BY <1>3, <1>4, FeedFacts DEF Genuine
<1>6. CASE UNCHANGED <<feed, failed>>
  <2>1. EventTypes'
    BY <1>1, <1>2, <1>3, <1>6 DEF EventsInv, EventTypes
  <2> QED BY <1>1, <1>6, <2>1, FeedFacts, FeedStep
<1>7. CASE failed' = "overflow" /\ feed' = [feed EXCEPT !.pend = {}]
  <2>1. EventTypes'
    BY <1>1, <1>2, <1>3, <1>7, Emptied DEF EventsInv, EventTypes
  <2> QED BY <1>1, <1>7, <2>1, Emptied, FeedFacts, FeedStep
<1>8. CASE feed' = PublishReady(events) /\ UNCHANGED failed
  <2> HIDE DEF events
  <2>1. /\ feed' \in FeedType /\ IsFiniteSet(feed'.pend) /\ \A e \in feed'.pend : e[1] > Len(feed'.pub) + 1
        /\ Len(feed.pub) <= Len(feed'.pub)
        /\ Whole => Agrees(feed'.pub) /\ Genuine(feed'.pend)
    BY <1>4, <1>5, <1>8, PublishTrue
  <2>2. EventTypes'
    BY <1>1, <1>2, <1>3, <1>8, <2>1 DEF EventsInv, EventTypes
  <2> QED BY <1>1, <1>8, <2>1, <2>2, FeedStep
<1> QED BY <1>6, <1>7, <1>8 DEF Deliver

\* The answer to a read shows the whole log.
LEMMA ExecReadInv == ASSUME EventsInv, ExecRead PROVE EventsInv'
<1>1. /\ UNCHANGED server /\ UNCHANGED <<sender, link, losses, wire, recovery, feed, failed>>
      /\ response' = [status |-> IF procEntry = "kept" THEN "found" ELSE "unknown",
                      chunks |-> {n \in retained : n > Len(feed.pub)},
                      last |-> Len(log), exited |-> Logged("exit"), closed |-> Logged("close")]
  BY DEF ExecRead
<1>2. UNCHANGED <<log, retained, task, note, procEntry>>
      /\ Outputs' = Outputs /\ (Whole' <=> Whole) /\ (Lost' <=> Lost)
  BY <1>1 DEF server, Outputs, Whole, Lost
<1>3. /\ Len(log) \in Nat /\ DOMAIN log = 1..Len(log) /\ Outputs \subseteq DOMAIN log /\ retained \subseteq Outputs
      /\ Len(feed.pub) \in Nat
  BY LogNumbers, FeedFacts DEF EventsInv, Outputs
<1>4. PICK x \in BOOLEAN, c \in BOOLEAN : x = Logged("exit") /\ c = Logged("close")
  BY DEF Logged
<1>5. /\ response'.chunks = {n \in retained : n > Len(feed.pub)} /\ response'.last = Len(log)
      /\ response'.exited = x /\ response'.closed = c
      /\ response'.status = IF procEntry = "kept" THEN "found" ELSE "unknown"
      /\ response' \in ResponseType
  <2>1. response' = [status |-> IF procEntry = "kept" THEN "found" ELSE "unknown",
                     chunks |-> {n \in retained : n > Len(feed.pub)},
                     last |-> Len(log), exited |-> x, closed |-> c]
    BY <1>1, <1>4
  <2>2. {n \in retained : n > Len(feed.pub)} \subseteq Nat
    BY <1>3
  <2> QED BY <1>3, <2>1, <2>2 DEF ResponseType
<1>6. EventTypes'
  BY <1>1, <1>2, <1>5 DEF EventsInv, EventTypes
<1>7. AnswerTrue'
  <2>1. x <=> \E n \in 1..Len(log) : log[n] = "exit"
    BY <1>3, <1>4 DEF Logged
  <2>2. IF c THEN Len(log) \in DOMAIN log /\ log[Len(log)] = "close" ELSE \A n \in 1..Len(log) : log[n] # "close"
    BY <1>3, <1>4 DEF Logged, EventsInv, LogShape
  <2>3. \A n \in response'.chunks : n \in Outputs /\ n <= Len(log)
    BY <1>3, <1>5
  <2>4. Whole => \A n \in Outputs : Len(feed.pub) < n /\ n <= Len(log) => n \in response'.chunks
    BY <1>3, <1>5 DEF Whole
  <2>5. response'.status = "unknown" => procEntry # "kept"
    BY <1>5
  <2> QED BY <1>1, <1>2, <1>3, <1>5, <2>1, <2>2, <2>3, <2>4, <2>5 DEF AnswerTrue
<1>8. LogShape'
  BY <1>2, ShapeStays
<1>9. FeedTrue'
  BY <1>1, <1>2 DEF EventsInv, FeedTrue, Agrees, Genuine
<1> QED BY <1>1, <1>2, <1>6, <1>7, <1>8, <1>9 DEF EventsInv


-----------------------------------------------------------------------------
(* Recovery: what the client makes of the answer to its read.              *)

\* What can be said of an answer.
LEMMA AnswerFacts ==
    ASSUME EventsInv, response.status # "none"
    PROVE  /\ response.last \in Nat /\ response.last <= Len(log) /\ Len(log) \in Nat /\ DOMAIN log = 1..Len(log)
           /\ response.chunks \subseteq 1..response.last
           /\ \A n \in response.chunks : n \in DOMAIN log /\ log[n] = "out"
           /\ response.closed => response.last \in DOMAIN log /\ log[response.last] = "close"
<1>1. /\ Len(log) \in Nat /\ DOMAIN log = 1..Len(log) /\ response.last \in Nat
  BY LogNumbers DEF EventsInv, EventTypes, ResponseType
<1>2. /\ response.last <= Len(log) /\ \A n \in response.chunks : n \in Outputs /\ n <= response.last
      /\ response.closed => response.last \in DOMAIN log /\ log[response.last] = "close"
  BY DEF EventsInv, AnswerTrue
<1>3. \A n \in response.chunks : n \in DOMAIN log /\ log[n] = "out"
  BY <1>2 DEF Outputs
<1> QED BY <1>1, <1>2, <1>3

\* What is recovered are finitely many events, and events of the log.
LEMMA RecoveredEvents ==
    ASSUME EventsInv, response.status # "none"
    PROVE  /\ Recovered \in SUBSET (Nat \X Kinds) /\ IsFiniteSet(Recovered)
           /\ Whole => Genuine(Recovered)
<1> DEFINE outs == {<<n, "out">> : n \in response.chunks}
           close == IF response.closed THEN {<<response.last, "close">>} ELSE {}
           f == [n \in response.chunks |-> <<n, "out">>]
<1>1. response.chunks \subseteq Nat /\ response.last \in Nat /\ "out" \in Kinds /\ "close" \in Kinds
  BY AnswerFacts DEF Kinds
<1>2. outs \subseteq Nat \X Kinds /\ close \subseteq Nat \X Kinds
  <2>1. outs \subseteq Nat \X Kinds
    BY <1>1
  <2>2. <<response.last, "close">> \in Nat \X Kinds
    BY <1>1
  <2> QED BY <2>1, <2>2
<1>3. IsFiniteSet(outs)
  <2>1. IsFiniteSet(1..response.last)
    BY <1>1, FS_Interval
  <2>2. IsFiniteSet(response.chunks)
    BY <2>1, AnswerFacts, FS_Subset
  <2>3. f \in [response.chunks -> outs] /\ \A t \in outs : \E s \in response.chunks : f[s] = t
    OBVIOUS
  <2>4. f \in Surjection(response.chunks, outs)
    BY <2>3 DEF Surjection
  <2> QED BY <2>2, <2>4, FS_Surjection
<1>4. IsFiniteSet(close)
  BY FS_EmptySet, FS_Singleton
<1>5. Recovered = (feed.pend \cup outs) \cup close
  BY DEF Recovered
<1>6. Whole => Genuine(Recovered)
  <2>1. \A e \in outs : e[1] \in DOMAIN log /\ e[2] = log[e[1]]
    BY AnswerFacts
  <2>2. \A e \in close : e[1] \in DOMAIN log /\ e[2] = log[e[1]]
    BY AnswerFacts
  <2> HIDE DEF outs, close
  <2> QED BY <1>5, <2>1, <2>2, FeedFacts DEF Genuine
<1>7. feed.pend \in SUBSET (Nat \X Kinds) /\ IsFiniteSet(feed.pend)
  BY FeedFacts
<1> HIDE DEF outs, close
<1>8. IsFiniteSet(feed.pend \cup outs)
  BY <1>3, <1>7, FS_Union
<1>9. IsFiniteSet((feed.pend \cup outs) \cup close)
  BY <1>4, <1>8, FS_Union
<1> QED BY <1>2, <1>5, <1>6, <1>7, <1>9

\* While the server has all output, all that an answer can leave open is the exit.
LEMMA MissingIsExit ==
    ASSUME EventsInv, response.status # "none", Whole, NEW n \in Missing(Recovered)
    PROVE  n \in DOMAIN log /\ log[n] = "exit"
<1>1. /\ n \in Nat /\ Len(feed.pub) < n /\ n <= response.last /\ n \notin Numbers(Recovered) /\ n \in DOMAIN log
      /\ Len(feed.pub) \in Nat /\ n \in 1..response.last
  BY AnswerFacts, FeedFacts DEF Missing
<1>2. log[n] # "out"
  <2> SUFFICES ASSUME log[n] = "out" PROVE FALSE
    OBVIOUS
  <2>1. n \in Outputs
    BY <1>1 DEF Outputs
  <2>2. n \in response.chunks
    BY <1>1, <2>1 DEF EventsInv, AnswerTrue
  <2>3. <<n, "out">> \in Recovered
    BY <2>2 DEF Recovered
  <2>4. <<n, "out">>[1] \in Numbers(Recovered)
    BY <2>3 DEF Numbers
  <2> QED BY <1>1, <2>4
<1>3. log[n] # "close"
  <2> SUFFICES ASSUME log[n] = "close" PROVE FALSE
    OBVIOUS
  <2>1. response.closed
    BY <1>1 DEF EventsInv, AnswerTrue
  <2>2. n = Len(log)
    BY <1>1 DEF EventsInv, LogShape
  <2>3. n = response.last
    BY <1>1, <2>2, AnswerFacts
  <2>4. <<n, "close">> \in Recovered
    BY <2>1, <2>3 DEF Recovered
  <2>5. <<n, "close">>[1] \in Numbers(Recovered)
    BY <2>4 DEF Numbers
  <2> QED BY <1>1, <2>5
<1> QED BY <1>1, <1>2, <1>3, LogNumbers DEF EventsInv, Kinds

\* Then the first missing number is the only one, if there is one in reach.
LEMMA HoleIsExit ==
    ASSUME EventsInv, response.status # "none", Whole
    PROVE  LET hole == FirstMissing(Recovered) IN
           /\ hole <= response.last => hole \in DOMAIN log /\ log[hole] = "exit"
           /\ Missing(Recovered) # {} =>
                 hole \in Nat /\ Missing(Recovered) = {hole} /\ response.exited /\ ~ExitKnown
<1> DEFINE hole == FirstMissing(Recovered)
<1>1. /\ hole \in Nat /\ hole >= Len(feed.pub) + 1 /\ hole \notin Numbers(Recovered)
      /\ \A m \in (Len(feed.pub) + 1)..(hole - 1) : m \in Numbers(Recovered)
      /\ Len(feed.pub) \in Nat /\ response.last \in Nat
  BY FeedFacts, RecoveredEvents, HoleExists, AnswerFacts
<1> HIDE DEF hole
<1>2. hole <= response.last => hole \in Missing(Recovered)
  BY <1>1 DEF Missing
<1>3. hole <= response.last => hole \in DOMAIN log /\ log[hole] = "exit"
  BY <1>2, MissingIsExit
<1>4. ASSUME NEW n \in Missing(Recovered)
      PROVE  Missing(Recovered) = {hole} /\ response.exited /\ ~ExitKnown
  <2>1. n \in Nat /\ n >= Len(feed.pub) + 1 /\ n <= response.last /\ n \notin Numbers(Recovered)
    BY <1>1 DEF Missing
  <2>2. hole <= n
    <3>1. ~(n \in (Len(feed.pub) + 1)..(hole - 1))
      BY <1>1, <2>1
    <3> QED BY <1>1, <2>1, <3>1
  <2>3. hole \in Missing(Recovered)
    BY <1>1, <1>2, <2>1, <2>2
  <2>4. n \in DOMAIN log /\ log[n] = "exit"
    BY MissingIsExit
  <2>5. Missing(Recovered) = {hole}
    BY <2>3, MissingIsExit DEF EventsInv, LogShape
  <2>6. response.exited
    <3>1. n \in 1..response.last
      BY <1>1, <2>1
    <3> QED BY <2>4, <3>1 DEF EventsInv, AnswerTrue
  <2>7. ~Published("exit")
    <3> SUFFICES ASSUME NEW m \in DOMAIN feed.pub, feed.pub[m] = "exit" PROVE FALSE
      BY DEF Published
    <3>1. m \in 1..Len(feed.pub) /\ m \in DOMAIN log /\ log[m] = "exit"
      BY FeedFacts, AnswerFacts DEF Agrees
    <3>2. m = n
      BY <2>4, <3>1 DEF EventsInv, LogShape
    <3> QED BY <1>1, <2>1, <3>1, <3>2
  <2>8. \A e \in feed.pend : e[2] # "exit"
    <3> SUFFICES ASSUME NEW e \in feed.pend, e[2] = "exit" PROVE FALSE
      OBVIOUS
    <3>1. e[1] \in DOMAIN log /\ log[e[1]] = "exit"
      BY FeedFacts DEF Genuine
    <3>2. e[1] = n
      BY <2>4, <3>1 DEF EventsInv, LogShape
    <3>3. e \in Recovered
      BY DEF Recovered
    <3> QED BY <2>1, <3>2, <3>3 DEF Numbers
  <2> QED BY <2>5, <2>6, <2>7, <2>8 DEF ExitKnown
<1> QED BY <1>1, <1>3, <1>4 DEF hole

\* The inferred exit is in its place, and nothing stays open.
LEMMA WithExitEvents ==
    ASSUME EventsInv, response.status # "none"
    PROVE  /\ WithExit \in SUBSET (Nat \X Kinds) /\ IsFiniteSet(WithExit)
           /\ Whole => Genuine(WithExit) /\ Missing(WithExit) = {}
<1> DEFINE hole == FirstMissing(Recovered)
<1>1. hole \in Nat /\ response.last \in Nat /\ "exit" \in Kinds
  BY FeedFacts, RecoveredEvents, HoleExists, AnswerFacts DEF Kinds
<1>2. <<hole, "exit">> \in Nat \X Kinds
  BY <1>1
<1>3. CASE /\ response.exited /\ ~ExitKnown
           /\ (\E n \in response.chunks : n > hole) \/ Missing(Recovered) = {hole}
  <2>1. WithExit = Recovered \cup {<<hole, "exit">>}
    BY <1>3 DEF WithExit
  <2>2. IsFiniteSet(WithExit)
    BY <2>1, RecoveredEvents, FS_AddElement
  <2>3. hole <= response.last
    BY <1>1, <1>3, AnswerFacts DEF Missing
  <2>4. ASSUME Whole PROVE Genuine(WithExit) /\ Missing(WithExit) = {}
    <3>1. hole \in DOMAIN log /\ log[hole] = "exit"
      BY <2>3, <2>4, HoleIsExit
    <3>2. Missing(Recovered) # {} => Missing(Recovered) = {hole}
      BY <2>4, HoleIsExit
    <3> HIDE DEF hole
    <3>3. <<hole, "exit">>[1] = hole /\ <<hole, "exit">>[2] = "exit"
      OBVIOUS
    <3>4. Genuine(WithExit)
      BY <2>1, <2>4, <3>1, <3>3, RecoveredEvents DEF Genuine
    <3>5. Numbers(WithExit) = Numbers(Recovered) \cup {hole}
      BY <2>1, <3>3 DEF Numbers
    <3>6. Missing(WithExit) = Missing(Recovered) \ {hole}
      BY <3>5 DEF Missing
    <3> QED BY <3>2, <3>4, <3>6
  <2> QED BY <1>2, <2>1, <2>2, <2>4, RecoveredEvents
<1>4. CASE ~(/\ response.exited /\ ~ExitKnown
             /\ (\E n \in response.chunks : n > hole) \/ Missing(Recovered) = {hole})
  <2>1. WithExit = Recovered
    BY <1>4 DEF WithExit
  <2>2. Whole => Missing(Recovered) = {}
    BY <1>4, HoleIsExit
  <2> QED BY <2>1, <2>2, RecoveredEvents
<1> QED BY <1>3, <1>4

\* While the server has all output, an answer and the buffer never disagree.
LEMMA NoConflict == ASSUME EventsInv, response.status # "none", Whole PROVE ~Conflict
<1> SUFFICES ASSUME Conflict PROVE FALSE
  OBVIOUS
<1>1. response.last \in DOMAIN log /\ log[response.last] = "close"
  BY AnswerFacts DEF Conflict
<1>2. response.last \notin response.chunks
  BY <1>1, AnswerFacts
<1>3. \A e \in feed.pend : e[1] = response.last => e[2] = "close"
  BY <1>1, FeedFacts DEF Genuine
<1> QED BY <1>2, <1>3 DEF Conflict

\* The answer to the read is applied; a gap is only met where something was lost.
LEMMA RecoverInv == ASSUME EventsInv, Recover PROVE EventsInv'
<1>1. /\ UNCHANGED server /\ UNCHANGED <<sender, link, losses, wire, failed>> /\ response' = NoResponse
      /\ recovery = "read" /\ response.status # "none"
  BY DEF Recover
<1>2. UNCHANGED <<log, retained, task, note, procEntry>> /\ Outputs' = Outputs
  BY <1>1 DEF server, Outputs
<1>3. recovery' \in {"gap", "install"}
  BY DEF Recover
<1>4. CASE response.status = "unknown"
  <2>1. recovery' = "gap" /\ UNCHANGED feed
    BY <1>4 DEF Recover
  <2>2. Lost
    BY <1>1, <1>4 DEF EventsInv, AnswerTrue, Lost
  <2>3. /\ sender \in {"none", "stale", "live"} /\ link \in BOOLEAN /\ losses \in 0..MaxLosses
    BY DEF EventsInv, EventTypes
  <2> QED BY <1>1, <2>1, <2>2, <2>3, ConnectionStep
<1>5. CASE response.status # "unknown"
  <2>1. feed' = RecoverEvents.feed /\ recovery' = IF RecoverEvents.err THEN "gap" ELSE "install"
    BY <1>5 DEF Recover
  <2>2. CASE ~Registered \/ response.last <= Len(feed.pub)
    <3>1. UNCHANGED feed /\ recovery' = "install"
      BY <2>1, <2>2 DEF RecoverEvents
    <3>2. /\ sender \in {"none", "stale", "live"} /\ link \in BOOLEAN /\ losses \in 0..MaxLosses
      BY DEF EventsInv, EventTypes
    <3> QED BY <1>1, <3>1, <3>2, ConnectionStep
  <2>3. CASE ~(~Registered \/ response.last <= Len(feed.pub)) /\ Conflict
    <3>1. UNCHANGED feed
      BY <2>1, <2>3 DEF RecoverEvents
    <3>2. Lost
      BY <1>1, <2>3, NoConflict DEF Lost
    <3>3. /\ sender \in {"none", "stale", "live"} /\ link \in BOOLEAN /\ losses \in 0..MaxLosses
      BY DEF EventsInv, EventTypes
    <3> QED BY <1>1, <1>3, <3>1, <3>2, <3>3, ConnectionStep
  <2>4. CASE ~(~Registered \/ response.last <= Len(feed.pub)) /\ ~Conflict
    <3>0. PICK gap \in BOOLEAN : gap = (Missing(WithExit) # {})
      OBVIOUS
    <3>1. RecoverEvents = [feed |-> PublishReady(WithExit), err |-> gap]
      BY <2>4, <3>0 DEF RecoverEvents
    <3>2. feed' = PublishReady(WithExit) /\ recovery' = IF gap THEN "gap" ELSE "install"
      BY <2>1, <3>1
    <3>3. /\ feed' \in FeedType /\ IsFiniteSet(feed'.pend) /\ \A e \in feed'.pend : e[1] > Len(feed'.pub) + 1
          /\ Len(feed.pub) <= Len(feed'.pub)
          /\ Whole => Agrees(feed'.pub) /\ Genuine(feed'.pend)
      BY <1>1, <3>2, WithExitEvents, PublishTrue
    <3>4. recovery' = "gap" => Lost
      BY <1>1, <3>0, <3>2, WithExitEvents DEF Lost
    <3>5. EventTypes'
      BY <1>1, <1>2, <1>3, <3>3, FeedFacts DEF EventsInv, EventTypes
    <3> QED BY <1>1, <3>3, <3>4, <3>5, FeedFacts, FeedStep
  <2> QED BY <2>2, <2>3, <2>4
<1> QED BY <1>4, <1>5

-----------------------------------------------------------------------------
(* The events of a process: the theorems.                                  *)

\* A process starts with nothing logged and nothing published.
LEMMA EventsStarts == EventsInit => EventsInv
<1> SUFFICES ASSUME EventsInit PROVE EventsInv
  OBVIOUS
<1>1. /\ log = << >> /\ retained = {} /\ wire = << >> /\ << >> \in Seq(Nat) /\ << >> \in Seq(Kinds)
      /\ Len(<< >>) = 0 /\ DOMAIN << >> = {}
  <2>1. << >> \in Seq(Nat) /\ << >> \in Seq(Kinds) /\ Len(<< >>) = 0
    BY EmptySeq
  <2>2. DOMAIN << >> = 1..0
    BY <2>1
  <2> QED BY <2>1, <2>2 DEF EventsInit
<1>2. Outputs = {} /\ \A x : ~Logged(x)
  BY <1>1 DEF Outputs, Logged
<1>3. /\ feed \in FeedType /\ feed.pub = << >> /\ feed.pend = {} /\ IsFiniteSet(feed.pend)
  BY <1>1, FS_EmptySet DEF EventsInit, FeedType
<1>4. response \in ResponseType /\ response.status = "none"
  BY DEF EventsInit, NoResponse, ResponseType
<1>5. /\ task = [t \in Tasks |-> "run"] /\ note = [t \in Tasks |-> 0] /\ procEntry = "kept" /\ sender = "live"
      /\ link = TRUE /\ losses = 0 /\ recovery = "connected" /\ failed = "no" /\ MaxLosses \in Nat
  BY EventsAssumption DEF EventsInit
<1>6. task \in [Tasks -> {"run", "notify", "check", "done"}] /\ note \in [Tasks -> 0..Len(log)]
  BY <1>1, <1>5
<1>7. EventTypes
  BY <1>1, <1>2, <1>3, <1>4, <1>5, <1>6 DEF EventTypes
<1>8. LogShape
  BY <1>1, <1>2, <1>5, TaskFacts DEF LogShape
<1>9. FeedTrue
  BY <1>1, <1>3 DEF FeedTrue, Agrees, Genuine
<1> QED BY <1>4, <1>5, <1>7, <1>8, <1>9 DEF EventsInv, AnswerTrue

\* Every step of the server, of the network and of the client keeps the invariant.
LEMMA EventsSteps == EventsInv /\ [EventsNext]_eventVars => EventsInv'
<1> SUFFICES ASSUME EventsInv, [EventsNext]_eventVars PROVE EventsInv'
  OBVIOUS
<1>1. ASSUME NEW t \in Tasks, TaskStep(t) PROVE EventsInv'
  BY <1>1, OutputInv, FinishOutputInv, MaybeEmitClosedInv, NotifyInv DEF TaskStep
<1>2. CASE WatchExit
  BY <1>2, WatchExitInv
<1>3. CASE RemoveClosed \/ DetachSender \/ Expire
  BY <1>3, EntryStepInv
<1>4. CASE LoseConnection
  BY <1>4, LinkStepInv
<1>5. CASE Deliver
  BY <1>5, DeliverInv
<1>6. CASE RecoveryStep
  BY <1>6, LinkStepInv, ExecReadInv, RecoverInv, FailFeedInv, FailInv DEF RecoveryStep, ResumeRefused
<1>7. CASE RecoveryTimesOut
  BY <1>7, FailInv DEF RecoveryTimesOut
<1>8. CASE UNCHANGED eventVars
  <2>1. /\ sender \in {"none", "stale", "live"} /\ link \in BOOLEAN /\ losses \in 0..MaxLosses
        /\ recovery \in {"connected", "connect", "read", "gap", "install", "failed"}
    BY DEF EventsInv, EventTypes
  <2>2. UNCHANGED server /\ UNCHANGED <<sender, link, losses, wire, recovery, response, feed, failed>>
    BY <1>8 DEF eventVars, server
  <2> QED BY <2>1, <2>2, ConnectionStep
<1> QED BY <1>1, <1>2, <1>3, <1>4, <1>5, <1>6, <1>7, <1>8 DEF EventsNext

\* The inductive invariant holds: the log has one exit and ends with its close,
\* what the client published or keeps comes from the log, and so does an
\* answer on its way (local_process.rs, client.rs, client_recovery.rs).
THEOREM EventsInvariant == EventsSpec => []EventsInv
<1>1. EventsInit => EventsInv
  BY EventsStarts
<1>2. EventsInv /\ [EventsNext]_eventVars => EventsInv'
  BY EventsSteps
<1> QED BY <1>1, <1>2, PTL DEF EventsSpec

\* As long as the server has all output of a process, what the subscribers of a
\* client have seen is a beginning of the log, across every loss of the
\* connection and every recovery (publish_ordered_event, recover_events).
THEOREM FeedAlwaysPrefix == EventsSpec => []FeedIsPrefix
<1>1. EventsInv => FeedIsPrefix
  <2> SUFFICES ASSUME EventsInv, Outputs = retained PROVE IsPrefix(feed.pub, log)
    BY DEF FeedIsPrefix
  <2>1. /\ log \in Seq(Kinds) /\ feed.pub \in Seq(Kinds) /\ Len(log) \in Nat /\ Len(feed.pub) \in Nat
        /\ Agrees(feed.pub)
    BY FeedFacts DEF EventsInv, EventTypes, Whole
  <2>2. Len(feed.pub) <= Len(log) /\ \A n \in 1..Len(feed.pub) : feed.pub[n] = log[n]
    BY <2>1 DEF Agrees
  <2>3. \A i \in 1..Len(feed.pub) : i \in 1..Len(log)
    BY <2>1, <2>2
  <2>4. /\ SubSeq(feed.pub, 1, Len(feed.pub)) = [i \in 1..Len(feed.pub) |-> feed.pub[i]]
        /\ SubSeq(log, 1, Len(feed.pub)) = [i \in 1..Len(feed.pub) |-> log[i]]
    BY <2>1
  <2>5. SubSeq(feed.pub, 1, Len(feed.pub)) = SubSeq(log, 1, Len(feed.pub))
    BY <2>2, <2>4
  <2> QED BY <2>2, <2>5 DEF IsPrefix
<1> QED BY <1>1, EventsInvariant, PTL

\* A feed fails with a gap only where the server had dropped output of the
\* process or no longer had its entry (recover_events, fail_process_sessions).
THEOREM GapsAreReal == EventsSpec => []GapIsReal
<1>1. EventsInv => GapIsReal
  BY DEF EventsInv, GapIsReal, Lost, Whole
<1> QED BY <1>1, EventsInvariant, PTL

\* The variables have their types; a pending event is beyond a gap.
THEOREM EventsTypeCorrect == EventsSpec => []EventsTypeOK
<1>1. EventsInv => EventsTypeOK
  <2> SUFFICES ASSUME EventsInv PROVE EventsTypeOK
    OBVIOUS
  <2>1. Range(wire) \subseteq DOMAIN log
    BY DEF Range, EventsInv, EventTypes
  <2>2. feed.pub \in Seq(Kinds) /\ \A e \in feed.pend : e[2] \in Kinds
    BY FeedFacts
  <2> QED BY <2>1, <2>2 DEF EventsTypeOK, EventsInv, EventTypes
<1> QED BY <1>1, EventsInvariant, PTL
=============================================================================
