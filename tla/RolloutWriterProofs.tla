------------------------- MODULE RolloutWriterProofs -------------------------
(***************************************************************************)
(* Proofs about the rollout recorder: for any capacity of the channel, any *)
(* number of items, failures and crashes, the file is a log of RolloutLog. *)
(***************************************************************************)
EXTENDS RolloutWriter, TLAPS

(***************************************************************************)
(* The inductive invariant.  Items are numbered, so that what is queued,   *)
(* pending and written can be told from a few numbers.                     *)
(***************************************************************************)
\* The last item recorded before command c entered the channel.
Before(c) == IF c.op = "add" THEN c.n - 1 ELSE c.n

\* The last item the task has received, the last one it is done with, and the
\* one it writes next.
Received == IF chan = <<>> THEN sent ELSE Before(chan[1])
Written == Received - Len(pending)
NextItem == IF meta THEN 0 ELSE Written + 1

\* The commands in the channel carry consecutive items, the last one recorded
\* at the end.
Queued ==
    /\ \A i \in 1..Len(chan) : chan[i].n \in 0..sent /\ Before(chan[i]) \in 0..sent
    /\ \A i \in 1..Len(chan) : i > 1 => Before(chan[i]) = chan[i - 1].n
    /\ chan # <<>> => chan[Len(chan)].n = sent
    /\ ~up => chan = <<>>

\* What is pending are the items received last.
Pending ==
    up => /\ Written \in Nat
          /\ \A i \in 1..Len(pending) : pending[i] = Written + i
          /\ meta => Written = 0

\* The place of the task; a barrier is about all items received before it.
Place ==
    up => /\ pc # "recv" => cmd.n = Received
          /\ pc = "ok" => pending = <<>>
          /\ pc = "items" => ~meta
          /\ pc \in {"meta", "items"} => writer = "open"

IsLast(i) == file[i].ok /\ \A j \in 1..Len(file) : file[j].ok => j <= i

\* Ordinals do not decrease in the file, and if a line parses there is a last
\* one that does.
Ordered ==
    /\ \A i, j \in 1..Len(file) : i <= j /\ file[i].ok /\ file[j].ok => file[i].ord <= file[j].ord
    /\ (\A i \in 1..Len(file) : ~file[i].ok) \/ (\E i \in 1..Len(file) : IsLast(i))

\* Ordinals identify items, without gaps; what is lost is not logged.
Sound ==
    /\ OrdinalsDense /\ PrefixIntact
    /\ \A p \in Log : p[2] \in 0..sent /\ p[2] \notin lost
    /\ lost \subseteq 0..sent

\* The log ends before the next ordinal, or with the item that is written next
\* (a line that was written by a write that failed).
Frontier ==
    up => /\ \A p \in Log : \/ p[1] < next /\ p[2] < NextItem
                            \/ p[1] = next /\ p[2] = NextItem
          /\ next = 0 \/ \E p \in Log : p[1] + 1 = next
          /\ meta => next = 0
          /\ next > Prefix \/ next = NextItem

\* Items the task is done with are logged or lost, the others are not lost.
Progress ==
    /\ up => /\ \A i \in 0..sent : i < NextItem => i \in LoggedItems \cup lost
             /\ \A i \in 0..sent : i >= NextItem => i \notin lost
    /\ ~up => \A i \in 0..sent : i \in LoggedItems \cup lost

IInv == TypeOK /\ Queued /\ Pending /\ Place /\ Ordered /\ Sound /\ Frontier /\ Progress

-----------------------------------------------------------------------------
(* Lines and the log.                                                      *)

\* A line that is appended adds its record to the log, if it parses.
LEMMA AppendLog ==
    ASSUME file \in Seq(Line), NEW l \in Line, file' = Append(file, l)
    PROVE  /\ file' \in Seq(Line)
           /\ l.ok => Log' = Log \cup {<<l.ord, l.item>>}
           /\ ~l.ok => Log' = Log
<1>1. /\ file' \in Seq(Line) /\ Len(file') = Len(file) + 1
      /\ \A i \in 1..Len(file) : file'[i] = file[i]
      /\ file'[Len(file) + 1] = l /\ Len(file) \in Nat
  OBVIOUS
<1>2. \A i \in 1..Len(file) : i \in 1..Len(file') /\ i # Len(file) + 1
  BY <1>1
<1>3. \A i \in 1..Len(file') : i \in 1..Len(file) \/ i = Len(file) + 1
  BY <1>1
<1>4. Len(file) + 1 \in 1..Len(file')
  BY <1>1
<1>5. \A i \in 1..Len(file) : file[i].ok => <<file[i].ord, file[i].item>> \in Log'
  BY <1>1, <1>2 DEF Log
<1>6. l.ok => <<l.ord, l.item>> \in Log'
  BY <1>1, <1>4 DEF Log
<1>7. Log \subseteq Log'
  BY <1>5 DEF Log
<1>8. \A p \in Log' : p \in Log \/ (l.ok /\ p = <<l.ord, l.item>>)
  <2> SUFFICES ASSUME NEW i \in 1..Len(file'), file'[i].ok
               PROVE  \/ <<file'[i].ord, file'[i].item>> \in Log
                      \/ l.ok /\ <<file'[i].ord, file'[i].item>> = <<l.ord, l.item>>
    BY DEF Log
  <2>1. CASE i \in 1..Len(file)
    BY <2>1, <1>1 DEF Log
  <2>2. CASE i = Len(file) + 1
    BY <2>2, <1>1
  <2> QED BY <2>1, <2>2, <1>3
<1> QED BY <1>1, <1>6, <1>7, <1>8

\* A torn line, or one whose ordinal is not less than those of the log, keeps
\* the lines in order.
LEMMA AppendOrdered ==
    ASSUME file \in Seq(Line), NEW l \in Line, file' = Append(file, l), Ordered,
           l.ok => \A p \in Log : p[1] <= l.ord
    PROVE  Ordered'
<1>1. /\ file' \in Seq(Line) /\ Len(file') = Len(file) + 1
      /\ \A i \in 1..Len(file) : file'[i] = file[i]
      /\ file'[Len(file) + 1] = l /\ Len(file) \in Nat
  OBVIOUS
<1>2. \A i \in 1..Len(file') : i \in 1..Len(file) \/ i = Len(file) + 1
  BY <1>1
<1>3. ASSUME l.ok, NEW i \in 1..Len(file), file[i].ok
      PROVE  file[i].ord <= l.ord
  <2>1. <<file[i].ord, file[i].item>> \in Log
    BY <1>3 DEF Log
  <2> QED BY <2>1, <1>3
<1>5. l.ord \in Nat
  BY RolloutAssumption DEF Line
<1>6. ASSUME NEW i \in 1..Len(file'), NEW j \in 1..Len(file'), i <= j, file'[i].ok, file'[j].ok
      PROVE  file'[i].ord <= file'[j].ord
  <2>1. CASE j \in 1..Len(file)
    <3>1. i \in 1..Len(file)
      BY <1>6, <2>1, <1>1
    <3> QED BY <1>6, <2>1, <3>1, <1>1 DEF Ordered
  <2>2. CASE j = Len(file) + 1 /\ i \in 1..Len(file)
    BY <1>6, <2>2, <1>1, <1>3
  <2>3. CASE j = Len(file) + 1 /\ i = Len(file) + 1
    BY <1>5, <2>3, <1>1
  <2> QED BY <2>1, <2>2, <2>3, <1>2
<1>7. (\A i \in 1..Len(file') : ~file'[i].ok) \/ (\E i \in 1..Len(file') : IsLast(i)')
  <2>1. CASE l.ok
    <3>1. PICK k \in Nat : k = Len(file) + 1
      BY <1>1
    <3>2. k \in 1..Len(file') /\ IsLast(k)'
      BY <2>1, <3>1, <1>1, <1>2 DEF IsLast
    <3> QED BY <3>2
  <2>2. CASE ~l.ok /\ \A i \in 1..Len(file) : ~file[i].ok
    BY <2>2, <1>1, <1>2
  <2>3. CASE ~l.ok /\ \E i \in 1..Len(file) : IsLast(i)
    <3>1. PICK i \in 1..Len(file) : IsLast(i)
      BY <2>3
    <3>2. i \in 1..Len(file') /\ IsLast(i)'
      BY <2>3, <3>1, <1>1, <1>2 DEF IsLast
    <3> QED BY <3>2
  <2> QED BY <2>1, <2>2, <2>3 DEF Ordered
<1> QED BY <1>6, <1>7 DEF Ordered

\* read_last_ordinal: the last line that parses has the largest ordinal.
LEMMA LastRowFacts ==
    ASSUME file \in Seq(Line), Ordered, file # <<>>, file[1].ok
    PROVE  /\ file[LastRow].ord \in 0..MaxOrdinal
           /\ <<file[1].ord, file[1].item>> \in Log
           /\ <<file[LastRow].ord, file[LastRow].item>> \in Log
           /\ \A p \in Log : p[1] <= file[LastRow].ord
<1>1. 1 \in 1..Len(file)
  OBVIOUS
<1>2. PICK k \in 1..Len(file) : IsLast(k)
  BY <1>1 DEF Ordered
<1>3. \E i \in 1..Len(file) : file[i].ok /\ \A j \in 1..Len(file) : file[j].ok => j <= i
  BY <1>2 DEF IsLast
<1> DEFINE r == LastRow
<1>4. r \in 1..Len(file) /\ file[r].ok /\ \A j \in 1..Len(file) : file[j].ok => j <= r
  BY <1>3 DEF LastRow
<1> HIDE DEF r
<1>5. file[r].ord \in 0..MaxOrdinal
  <2>1. file[r] \in Line
    BY <1>4
  <2> QED BY <2>1 DEF Line
<1>6. \A p \in Log : p[1] <= file[r].ord
  BY <1>4 DEF Log, Ordered
<1>7. <<file[r].ord, file[r].item>> \in Log /\ <<file[1].ord, file[1].item>> \in Log
  BY <1>1, <1>4 DEF Log
<1> QED BY <1>5, <1>6, <1>7 DEF r

\* Types of the log.
LEMMA LogTypes ==
    ASSUME file \in Seq(Line)
    PROVE  Log \subseteq (0..MaxOrdinal) \X (0..MaxItems)
<1>1. \A i \in 1..Len(file) : file[i] \in Line
  OBVIOUS
<1>2. \A i \in 1..Len(file) : file[i].ord \in 0..MaxOrdinal /\ file[i].item \in 0..MaxItems
  BY <1>1 DEF Line
<1> QED BY <1>2 DEF Log

-----------------------------------------------------------------------------
(* Steps of the task on the file.                                          *)

\* What a step that does not touch the file leaves alone.
LEMMA FileKept ==
    ASSUME file' = file
    PROVE  /\ Log' = Log /\ LoggedItems' = LoggedItems
           /\ OrdinalsDense' = OrdinalsDense /\ PrefixIntact' = PrefixIntact
           /\ Ordered => Ordered'
BY DEF Log, LoggedItems, OrdinalsDense, PrefixIntact, Ordered, IsLast

\* A step that only changes the newline at the end, or writes a part of a line.
LEMMA TornKept ==
    ASSUME IInv, file' = file \/ file' = Append(file, Torn), sent' = sent, lost' = lost
    PROVE  /\ file' \in Seq(Line) /\ Log' = Log /\ LoggedItems' = LoggedItems
           /\ Ordered' /\ Sound'
<1>1. Torn \in Line /\ ~Torn.ok
  BY RolloutAssumption DEF Torn, Line
<1>2. file \in Seq(Line) /\ Ordered /\ Sound
  BY DEF IInv, TypeOK
<1>3. file' \in Seq(Line) /\ Log' = Log
  BY <1>1, <1>2, AppendLog, FileKept
<1>4. Ordered'
  BY <1>1, <1>2, AppendOrdered, FileKept
<1> QED BY <1>2, <1>3, <1>4 DEF Sound, OrdinalsDense, PrefixIntact, LoggedItems

\* An item at the ordinal after the last one, or a copy of the last one, keeps
\* the lines in order and the ordinals dense.
LEMMA Grown ==
    ASSUME file \in Seq(Line), Ordered, OrdinalsDense, PrefixIntact,
           NEW n \in 0..MaxOrdinal, NEW i \in 0..MaxItems,
           \A p \in Log : p[1] < n \/ (p[1] = n /\ p[2] = i),
           n = 0 \/ \E p \in Log : p[1] + 1 = n,
           i > Prefix => n > Prefix,
           file' = Append(file, [ok |-> TRUE, ord |-> n, item |-> i])
    PROVE  /\ file' \in Seq(Line) /\ Log' = Log \cup {<<n, i>>}
           /\ LoggedItems' = LoggedItems \cup {i}
           /\ Ordered' /\ OrdinalsDense' /\ PrefixIntact'
<1> DEFINE l == [ok |-> TRUE, ord |-> n, item |-> i]
<1>1. n \in Nat /\ Log \subseteq (0..MaxOrdinal) \X (0..MaxItems)
  BY LogTypes, RolloutAssumption
<1>2. l \in Line /\ l.ok /\ l.ord = n /\ l.item = i
  BY DEF Line
<1> HIDE DEF l
<1>5. file' = Append(file, l)
  BY DEF l
<1>6. file' \in Seq(Line) /\ Log' = Log \cup {<<n, i>>}
  BY <1>2, <1>5, AppendLog
<1>7. LoggedItems' = LoggedItems \cup {i}
  <2>1. LoggedItems' = {p[2] : p \in Log'} /\ LoggedItems = {p[2] : p \in Log}
    BY DEF LoggedItems
  <2>2. \A p \in Log' : p \in Log \/ p[2] = i
    BY <1>6
  <2>3. <<n, i>> \in Log' /\ <<n, i>>[2] = i
    BY <1>6
  <2> QED BY <2>1, <2>2, <2>3, <1>6, Zenon
<1>8. Ordered'
  <2>1. \A p \in Log : p[1] <= l.ord
    BY <1>1, <1>2
  <2> QED BY <1>2, <1>5, <2>1, AppendOrdered
<1>9. OrdinalsDense'
  <2>1. ASSUME NEW p \in Log', NEW q \in Log', p[1] = q[1]
        PROVE  p = q
    <3>1. CASE p \in Log /\ q \in Log
      BY <2>1, <3>1 DEF OrdinalsDense
    <3>2. CASE p \in Log /\ q = <<n, i>>
      BY <2>1, <3>2, <1>1
    <3>3. CASE p = <<n, i>> /\ q \in Log
      BY <2>1, <3>3, <1>1
    <3> QED BY <3>1, <3>2, <3>3, <1>6
  <2>2. ASSUME NEW p \in Log', NEW k \in 0..p[1]
        PROVE  \E q \in Log' : q[1] = k
    <3>1. CASE p \in Log
      BY <3>1, <2>2, <1>6 DEF OrdinalsDense
    <3>2. CASE p = <<n, i>> /\ k = n
      BY <3>2, <1>6
    <3>3. CASE p = <<n, i>> /\ k # n
      <4>1. PICK q \in Log : q[1] + 1 = n
        BY <3>3, <2>2, <1>1
      <4>2. k \in 0..q[1]
        BY <3>3, <4>1, <2>2, <1>1
      <4> QED BY <4>1, <4>2, <1>6 DEF OrdinalsDense
    <3> QED BY <3>1, <3>2, <3>3, <1>6
  <2> QED BY <2>1, <2>2 DEF OrdinalsDense
<1>10. PrefixIntact'
  BY <1>6 DEF PrefixIntact
<1> QED BY <1>6, <1>7, <1>8, <1>9, <1>10

\* The next item is written at the next ordinal: the log gets it, or had it.
LEMMA RowWritten ==
    ASSUME IInv, up, next <= MaxOrdinal, NEW i \in 0..sent, i = NextItem,
           file' = Append(file, Row(i)), sent' = sent, lost' = lost
    PROVE  /\ file' \in Seq(Line) /\ Log' = Log \cup {<<next, i>>}
           /\ LoggedItems' = LoggedItems \cup {i}
           /\ Ordered' /\ Sound'
<1>1. file \in Seq(Line) /\ next \in 0..MaxOrdinal /\ i \in 0..MaxItems /\ sent \in Nat
  BY RolloutAssumption DEF IInv, TypeOK
<1>2. \A p \in Log : p[1] < next \/ (p[1] = next /\ p[2] = i)
  BY DEF IInv, Frontier
<1>3. (next = 0 \/ \E p \in Log : p[1] + 1 = next) /\ (i > Prefix => next > Prefix)
  BY DEF IInv, Frontier
<1>4. PICK n \in 0..MaxOrdinal : n = next
  BY <1>1
<1>5. /\ file' \in Seq(Line) /\ Log' = Log \cup {<<next, i>>}
      /\ LoggedItems' = LoggedItems \cup {i}
      /\ Ordered' /\ OrdinalsDense' /\ PrefixIntact'
  BY <1>1, <1>2, <1>3, <1>4, Grown DEF IInv, Sound, Row
<1>6. i \notin lost
  BY <1>1 DEF IInv, Progress
<1>7. /\ \A p \in Log' : p[2] \in 0..sent' /\ p[2] \notin lost'
      /\ lost' \subseteq 0..sent'
  BY <1>5, <1>6 DEF IInv, Sound
<1> QED BY <1>5, <1>7 DEF Sound

\* The bytes a write leaves in the file, while the task writes: nothing, a torn
\* line or the next row.
LEMMA Writes ==
    ASSUME IInv, up, pc \in {"meta", "items"}, NEW l, NEW t, Put(l, t)
    PROVE  file' = Append(file, l) /\ nl' = t
BY DEF IInv, TypeOK, Place, Put

-----------------------------------------------------------------------------
(* Actions preserve the invariant.                                         *)

\* The numbers depend on few variables.
LEMMA NumbersKept ==
    ASSUME UNCHANGED <<chan, sent, pending, meta>>
    PROVE  Received' = Received /\ Written' = Written /\ NextItem' = NextItem
BY DEF Received, Written, NextItem, Before

LEMMA QueueKept ==
    ASSUME IInv, UNCHANGED <<up, chan, sent, pending, meta>>
    PROVE  Queued' /\ Pending'
<1>1. Queued'
  BY DEF IInv, Queued, Before
<1>2. Pending'
  BY NumbersKept DEF IInv, Pending
<1> QED BY <1>1, <1>2

\* A step that leaves the file and the numbers alone.
LEMMA Kept ==
    ASSUME IInv, UNCHANGED <<file, up, chan, sent, pending, meta, next, lost>>
    PROVE  Queued' /\ Pending' /\ Ordered' /\ Sound' /\ Frontier' /\ Progress'
<1>1. Queued' /\ Pending'
  BY QueueKept
<1>2. Ordered' /\ Sound' /\ Log' = Log /\ LoggedItems' = LoggedItems
  BY TornKept
<1>3. NextItem' = NextItem
  BY NumbersKept
<1>4. Frontier'
  BY <1>2, <1>3 DEF IInv, Frontier
<1>5. Progress'
  BY <1>2, <1>3 DEF IInv, Progress
<1> QED BY <1>1, <1>2, <1>4, <1>5

LEMMA InitInv == Init => IInv
<1> SUFFICES ASSUME Init PROVE IInv
  OBVIOUS
<1>1. Log = {} /\ LoggedItems = {}
  <2>1. 1..Len(file) = {}
    BY DEF Init
  <2> QED BY <2>1 DEF Log, LoggedItems
<1>2. Received = 0 /\ Written = 0 /\ NextItem = 0
  <2>1. chan = <<>> /\ sent = 0 /\ Len(pending) = 0 /\ meta
    BY DEF Init
  <2> QED BY <2>1 DEF Received, Written, NextItem
<1>3. TypeOK
  <2>1. /\ file \in Seq(Line) /\ pending \in Seq(0..MaxItems)
        /\ chan \in Seq([op : Ops, n : 0..MaxItems])
    BY DEF Init
  <2>2. cmd \in [op : Ops, n : 0..MaxItems]
    BY RolloutAssumption DEF Init, Ops
  <2>3. /\ next \in 0..(MaxOrdinal + 1) /\ sent \in 0..MaxItems
        /\ faults \in 0..MaxFaults /\ crashes \in 0..MaxCrashes
    BY RolloutAssumption DEF Init
  <2> QED BY <2>1, <2>2, <2>3 DEF Init, TypeOK
<1>4. Queued /\ Pending /\ Place
  BY <1>2 DEF Init, Queued, Pending, Place
<1>5. Ordered
  BY DEF Init, Ordered
<1>6. Sound
  BY <1>1 DEF Init, Sound, OrdinalsDense, PrefixIntact
<1>7. Frontier /\ Progress
  BY <1>1, <1>2 DEF Init, Frontier, Progress
<1> QED BY <1>3, <1>4, <1>5, <1>6, <1>7 DEF IInv

LEMMA DropRecorderInv == IInv /\ DropRecorder => IInv'
<1> SUFFICES ASSUME IInv, DropRecorder PROVE IInv'
  OBVIOUS
<1> USE DEF DropRecorder, fileVars, taskVars, histVars
<1>1. TypeOK'
  BY DEF IInv, TypeOK
<1>2. Place'
  BY NumbersKept DEF IInv, Place
<1> QED BY <1>1, <1>2, Kept DEF IInv

LEMMA OpenInv == IInv /\ Open => IInv'
<1> SUFFICES ASSUME IInv, Open PROVE IInv'
  OBVIOUS
<1> USE DEF Open, histVars
<1>1. TypeOK'
  BY DEF IInv, TypeOK
<1>2. Place'
  BY NumbersKept DEF IInv, Place
<1> QED BY <1>1, <1>2, Kept DEF IInv

\* A step that fails closes the writer and goes on in the code.
LEMMA FailedInv ==
    ASSUME IInv, up, pc \in {"open", "meta", "items"}, Failed, nl' \in BOOLEAN,
           file' \in Seq(Line), faults' \in 0..MaxFaults,
           UNCHANGED <<up, dropped, meta, pending, next, chan, cmd, sent, lost, acked, crashes>>
    PROVE  TypeOK' /\ Place'
<1>1. /\ writer' \in {"deferred", "closed"} /\ pc' \in {"open", "err"} /\ attempt' = 2
  BY DEF IInv, TypeOK, Failed
<1>2. TypeOK'
  BY <1>1 DEF IInv, TypeOK
<1>3. Place'
  BY <1>1, NumbersKept DEF IInv, Place
<1> QED BY <1>2, <1>3

LEMMA FaultCounted ==
    ASSUME IInv, FaultHappens
    PROVE  faults' \in 0..MaxFaults
BY RolloutAssumption DEF IInv, TypeOK, FaultHappens

LEMMA OpenFailsInv == IInv /\ OpenFails => IInv'
<1> SUFFICES ASSUME IInv, OpenFails PROVE IInv'
  OBVIOUS
<1> USE DEF OpenFails, histVars
<1>1. nl' \in BOOLEAN /\ file' \in Seq(Line) /\ faults' \in 0..MaxFaults
  BY FaultCounted DEF IInv, TypeOK
<1>2. TypeOK' /\ Place'
  BY <1>1, FailedInv
<1> QED BY <1>2, Kept DEF IInv

LEMMA OverflowInv == IInv /\ Overflow => IInv'
<1> SUFFICES ASSUME IInv, Overflow PROVE IInv'
  OBVIOUS
<1> USE DEF Overflow, fileVars, histVars
<1>1. nl' \in BOOLEAN /\ file' \in Seq(Line) /\ faults' \in 0..MaxFaults
  BY DEF IInv, TypeOK
<1>2. TypeOK' /\ Place'
  BY <1>1, FailedInv
<1> QED BY <1>2, Kept DEF IInv

LEMMA SyncInv == IInv /\ Sync => IInv'
<1> SUFFICES ASSUME IInv, Sync PROVE IInv'
  OBVIOUS
<1> USE DEF Sync, fileVars, histVars
<1>1. TypeOK'
  BY DEF IInv, TypeOK
<1>2. Place'
  BY NumbersKept DEF IInv, Place
<1> QED BY <1>1, <1>2, Kept DEF IInv

LEMMA SyncFailsInv == IInv /\ SyncFails => IInv'
<1> SUFFICES ASSUME IInv, SyncFails PROVE IInv'
  OBVIOUS
<1> USE DEF SyncFails, fileVars, histVars
<1>1. nl' \in BOOLEAN /\ file' \in Seq(Line) /\ faults' \in 0..MaxFaults
  BY FaultCounted DEF IInv, TypeOK
<1>2. TypeOK' /\ Place'
  BY <1>1, FailedInv
<1> QED BY <1>2, Kept DEF IInv

\* A write that failed is tried again, or left to the next command: whatever it
\* left of its line, the numbers are as before.
LEMMA WriteFailedInv ==
    ASSUME IInv, up, pc \in {"meta", "items"}, next <= MaxOrdinal,
           NEW i \in 0..sent, i = NextItem, PutFails(i), Failed,
           UNCHANGED <<up, dropped, meta, pending, next, chan, cmd, sent, lost, acked, crashes>>
    PROVE  IInv'
<1>1. \/ file' = file \/ file' = Append(file, Torn)
      \/ file' = Append(file, Row(i))
  BY Writes DEF PutFails, fileVars
<1>2. nl' \in BOOLEAN
  BY Writes DEF PutFails, fileVars, IInv, TypeOK
<1>3. /\ file' \in Seq(Line) /\ Ordered' /\ Sound'
      /\ \/ Log' = Log /\ LoggedItems' = LoggedItems
         \/ Log' = Log \cup {<<next, i>>} /\ LoggedItems' = LoggedItems \cup {i}
  BY <1>1, TornKept, RowWritten
<1>4. NextItem' = NextItem
  BY NumbersKept
<1>5. Queued' /\ Pending'
  BY QueueKept
<1>6. TypeOK' /\ Place'
  BY <1>2, <1>3, FailedInv, FaultCounted DEF PutFails
<1>7. Frontier'
  <2>1. \A p \in Log' : p \in Log \/ (p[1] = next /\ p[2] = i)
    <3>1. <<next, i>>[1] = next /\ <<next, i>>[2] = i
      OBVIOUS
    <3> QED BY <3>1, <1>3, Zenon
  <2>2. Log \subseteq Log'
    BY <1>3
  <2> QED BY <2>1, <2>2, <1>4 DEF IInv, Frontier
<1>8. Progress'
  BY <1>3, <1>4 DEF IInv, Progress
<1> QED BY <1>3, <1>5, <1>6, <1>7, <1>8 DEF IInv

\* What is written next: the metadata, or the head of what is pending.
LEMMA MetaIsNext ==
    ASSUME IInv, up, meta
    PROVE  0 = NextItem /\ 0 \in 0..sent /\ next <= MaxOrdinal /\ next = 0
BY RolloutAssumption DEF IInv, TypeOK, Frontier, NextItem

LEMMA HeadIsNext ==
    ASSUME IInv, up, pc = "items", pending # <<>>
    PROVE  Head(pending) = NextItem /\ Head(pending) \in 0..sent /\ ~meta
<1>1. pending \in Seq(0..MaxItems) /\ Len(pending) \in Nat \ {0} /\ 1 \in 1..Len(pending) /\ ~meta
  BY DEF IInv, TypeOK, Place
<1>2. Head(pending) = Written + 1 /\ Written \in Nat
  BY <1>1 DEF IInv, Pending
<1>3. Received \in 0..sent
  BY DEF IInv, TypeOK, Queued, Received
<1>4. Written = Received - Len(pending)
  BY DEF Written
<1>5. sent \in Nat
  BY DEF IInv, TypeOK
<1> QED BY <1>1, <1>2, <1>3, <1>4, <1>5 DEF NextItem

LEMMA WriteMetaFailsInv == IInv /\ WriteMetaFails => IInv'
BY MetaIsNext, WriteFailedInv DEF WriteMetaFails, histVars

LEMMA WriteItemFailsInv == IInv /\ WriteItemFails => IInv'
BY HeadIsNext, WriteFailedInv DEF WriteItemFails, histVars

\* A write that succeeded moves on to the next item and the next ordinal.
LEMMA WriteDone ==
    ASSUME IInv, up, pc \in {"meta", "items"}, next <= MaxOrdinal,
           NEW i \in 0..sent, i = NextItem, Put(Row(i), TRUE), Advance,
           UNCHANGED <<up, sent, lost>>, ~meta', NextItem' = NextItem + 1
    PROVE  /\ file' \in Seq(Line) /\ nl' = TRUE /\ next' \in 0..(MaxOrdinal + 1)
           /\ Ordered' /\ Sound' /\ Frontier' /\ Progress'
<1>1. file' = Append(file, Row(i)) /\ nl' = TRUE
  BY Writes
<1>2. /\ file' \in Seq(Line) /\ Ordered' /\ Sound'
      /\ Log' = Log \cup {<<next, i>>} /\ LoggedItems' = LoggedItems \cup {i}
  BY <1>1, RowWritten
<1>3. next \in Nat /\ next' = next + 1 /\ i \in Nat /\ MaxOrdinal \in Nat /\ Prefix \in Nat
  BY RolloutAssumption DEF IInv, TypeOK, Advance
<1>4. Frontier'
  <2>1. \A p \in Log' : p[1] < next' /\ p[2] < NextItem'
    <3>1. ASSUME NEW p \in Log PROVE p[1] < next' /\ p[2] < NextItem'
      <4>1. p[1] \in Nat /\ p[2] \in Nat
        BY <1>3, LogTypes, RolloutAssumption DEF IInv, TypeOK
      <4>2. (p[1] < next /\ p[2] < i) \/ (p[1] = next /\ p[2] = i)
        BY DEF IInv, Frontier
      <4> QED BY <1>3, <4>1, <4>2
    <3> QED BY <3>1, <1>2, <1>3
  <2>2. \E p \in Log' : p[1] + 1 = next'
    <3>1. <<next, i>> \in Log' /\ <<next, i>>[1] + 1 = next'
      BY <1>2, <1>3
    <3> QED BY <3>1
  <2>3. next' > Prefix \/ next' = NextItem'
    BY <1>3 DEF IInv, Frontier
  <2> QED BY <2>1, <2>2, <2>3 DEF Frontier
<1>5. Progress'
  BY <1>2, <1>3 DEF IInv, Progress
<1> QED BY <1>1, <1>2, <1>3, <1>4, <1>5

LEMMA WriteMetaInv == IInv /\ WriteMeta => IInv'
<1> SUFFICES ASSUME IInv, WriteMeta PROVE IInv'
  OBVIOUS
<1> USE DEF histVars
<1>0. /\ up /\ pc = "meta" /\ pc' = "items"
      /\ UNCHANGED <<up, dropped, writer, pending, chan, cmd, attempt, sent, lost, acked, faults, crashes>>
  BY DEF WriteMeta
<1>1. CASE meta /\ Put(Row(0), TRUE) /\ Advance /\ meta' = FALSE
  <2>1. 0 = NextItem /\ 0 \in 0..sent /\ next <= MaxOrdinal /\ Written = 0
    BY <1>0, <1>1, MetaIsNext DEF IInv, Pending
  <2>2. Received' = Received /\ Written' = Written
    BY <1>0 DEF Received, Written, Before
  <2>3. ~meta' /\ NextItem' = NextItem + 1
    BY <1>1, <2>1, <2>2 DEF NextItem
  <2>4. /\ file' \in Seq(Line) /\ nl' = TRUE /\ next' \in 0..(MaxOrdinal + 1)
        /\ Ordered' /\ Sound' /\ Frontier' /\ Progress'
    BY <1>0, <1>1, <2>1, <2>3, WriteDone
  <2>5. TypeOK'
    BY <1>0, <1>1, <2>4 DEF IInv, TypeOK
  <2>6. Queued'
    BY <1>0 DEF IInv, Queued, Before
  <2>7. Pending' /\ Place'
    BY <1>0, <1>1, <2>2 DEF IInv, Pending, Place
  <2> QED BY <2>4, <2>5, <2>6, <2>7 DEF IInv
<1>2. CASE ~meta /\ UNCHANGED <<file, nl, next, meta>>
  <2>1. TypeOK'
    BY <1>0, <1>2 DEF IInv, TypeOK
  <2>2. Place'
    BY <1>0, <1>2, NumbersKept DEF IInv, Place
  <2> QED BY <1>0, <1>2, <2>1, <2>2, Kept DEF IInv
<1> QED BY <1>1, <1>2 DEF WriteMeta, fileVars

LEMMA WriteItemInv == IInv /\ WriteItem => IInv'
<1> SUFFICES ASSUME IInv, WriteItem PROVE IInv'
  OBVIOUS
<1> USE DEF histVars
<1>0. /\ up /\ pc = "items" /\ pending # <<>> /\ next <= MaxOrdinal
      /\ Put(Row(Head(pending)), TRUE) /\ Advance /\ pending' = Tail(pending)
      /\ UNCHANGED <<up, dropped, writer, meta, chan, cmd, pc, attempt, sent, lost, acked, faults, crashes>>
  BY DEF WriteItem
<1>1. Head(pending) = NextItem /\ Head(pending) \in 0..sent /\ ~meta /\ ~meta'
  BY <1>0, HeadIsNext
<1>2. /\ pending \in Seq(0..MaxItems) /\ Len(pending) \in Nat \ {0}
      /\ pending' \in Seq(0..MaxItems) /\ Len(pending') = Len(pending) - 1
      /\ \A k \in 1..Len(pending') : pending'[k] = pending[k + 1]
  BY <1>0 DEF IInv, TypeOK
<1>3. Received' = Received /\ Received \in Nat
  BY <1>0 DEF Received, Before, IInv, TypeOK, Queued
<1>4. Written' = Written + 1 /\ Written \in Nat
  <2>1. Written' = Received' - Len(pending') /\ Written = Received - Len(pending)
    BY DEF Written
  <2>2. Written \in Nat
    BY <1>0 DEF IInv, Pending
  <2> QED BY <2>1, <2>2, <1>2, <1>3
<1>5. NextItem' = NextItem + 1
  BY <1>1, <1>4 DEF NextItem
<1>6. /\ file' \in Seq(Line) /\ nl' = TRUE /\ next' \in 0..(MaxOrdinal + 1)
      /\ Ordered' /\ Sound' /\ Frontier' /\ Progress'
  <2>1. PICK i \in 0..sent : i = Head(pending)
    BY <1>1
  <2> QED BY <1>0, <1>1, <1>5, <2>1, WriteDone
<1>7. TypeOK'
  BY <1>0, <1>2, <1>6 DEF IInv, TypeOK
<1>8. Queued'
  BY <1>0 DEF IInv, Queued, Before
<1>9. Pending'
  <2>1. \A k \in 1..Len(pending') : pending'[k] = Written' + k
    BY <1>0, <1>2, <1>4 DEF IInv, Pending
  <2> QED BY <2>1, <1>1, <1>4 DEF Pending
<1>10. Place'
  BY <1>0, <1>3 DEF IInv, Place
<1> QED BY <1>6, <1>7, <1>8, <1>9, <1>10 DEF IInv

\* Bounds of the numbers.
LEMMA Numbers ==
    ASSUME IInv, up
    PROVE  /\ sent \in Nat /\ Received \in 0..sent /\ Written \in 0..Received
           /\ NextItem \in 0..(Written + 1) /\ Received = Written + Len(pending)
<1>1. sent \in Nat /\ pending \in Seq(0..MaxItems) /\ Len(pending) \in Nat
  BY DEF IInv, TypeOK
<1>2. chan # <<>> => 1 \in 1..Len(chan)
  BY DEF IInv, TypeOK
<1>3. Received \in 0..sent
  BY <1>1, <1>2 DEF IInv, Queued, Received
<1>4. Written \in Nat /\ Written = Received - Len(pending)
  BY DEF IInv, Pending, Written
<1> QED BY <1>1, <1>3, <1>4 DEF NextItem

\* A command enters the channel.
LEMMA Enqueued ==
    ASSUME IInv, up, up' = up, NEW c \in [op : Ops, n : 0..MaxItems], Before(c) = sent,
           c.n = sent', sent' \in Nat, sent <= sent', chan' = Append(chan, c)
    PROVE  Queued' /\ Received' = Received
<1>1. /\ chan \in Seq([op : Ops, n : 0..MaxItems]) /\ Len(chan) \in Nat /\ sent \in Nat
  BY DEF IInv, TypeOK
<1>2. /\ Len(chan') = Len(chan) + 1 /\ chan' # <<>> /\ chan'[Len(chan) + 1] = c
      /\ \A i \in 1..Len(chan) : chan'[i] = chan[i]
  BY <1>1
<1>3. \A i \in 1..Len(chan') : i \in 1..Len(chan) \/ i = Len(chan) + 1
  BY <1>1, <1>2
<1>4. \A i \in 1..Len(chan') : chan'[i].n \in 0..sent' /\ Before(chan'[i]) \in 0..sent'
  BY <1>1, <1>2, <1>3 DEF IInv, Queued
<1>5. ASSUME NEW i \in 1..Len(chan'), i > 1
      PROVE  Before(chan'[i]) = chan'[i - 1].n
  <2>1. i - 1 \in 1..Len(chan)
    BY <1>1, <1>2, <1>5
  <2>2. CASE i \in 1..Len(chan)
    BY <2>1, <2>2, <1>2, <1>5 DEF IInv, Queued
  <2>3. CASE i = Len(chan) + 1
    <3>1. chan # <<>> /\ i - 1 = Len(chan)
      BY <2>1, <2>3, <1>1
    <3> QED BY <3>1, <2>1, <2>3, <1>2 DEF IInv, Queued
  <2> QED BY <2>2, <2>3, <1>3
<1>6. Queued'
  BY <1>2, <1>4, <1>5 DEF Queued, Before
<1>7. Received' = Received
  <2>1. Received' = Before(chan'[1])
    BY <1>2 DEF Received, Before
  <2>2. CASE chan = <<>>
    BY <2>1, <2>2, <1>2 DEF Received
  <2>3. CASE chan # <<>>
    BY <2>1, <2>3, <1>1, <1>2 DEF Received
  <2> QED BY <2>2, <2>3
<1> QED BY <1>6, <1>7

\* What a step of a caller leaves: only the channel and the count change.
LEMMA CallerKept ==
    ASSUME IInv, up, up' = up, Queued', Received' = Received, sent' \in Nat, sent <= sent',
           UNCHANGED <<file, writer, meta, pending, next, cmd, pc, lost>>
    PROVE  Pending' /\ Place' /\ Ordered' /\ Sound' /\ Frontier' /\ Progress'
<1>1. Written' = Written /\ NextItem' = NextItem
  BY DEF Written, NextItem
<1>2. Pending' /\ Place'
  BY <1>1 DEF IInv, Pending, Place
<1>3. /\ Log' = Log /\ LoggedItems' = LoggedItems /\ Ordered'
      /\ OrdinalsDense' /\ PrefixIntact'
  BY FileKept DEF IInv, Sound
<1>4. sent \in Nat /\ NextItem \in Nat /\ NextItem <= sent + 1
  BY Numbers
<1>5. 0..sent \subseteq 0..sent' /\ \A i \in 0..sent' : i \in 0..sent \/ i > sent
  BY <1>4
<1>6. Sound'
  BY <1>3, <1>5 DEF IInv, Sound
<1>7. Frontier'
  BY <1>1, <1>3 DEF IInv, Frontier
<1>8. Progress'
  <2>1. ASSUME NEW i \in 0..sent', i < NextItem
        PROVE  i \in LoggedItems \cup lost
    <3>1. i \in 0..sent
      BY <2>1, <1>4
    <3> QED BY <2>1, <3>1 DEF IInv, Progress
  <2>2. ASSUME NEW i \in 0..sent', i >= NextItem
        PROVE  i \notin lost
    <3>1. CASE i \in 0..sent
      BY <2>2, <3>1 DEF IInv, Progress
    <3>2. CASE i > sent
      BY <3>2, <1>4 DEF IInv, Sound
    <3> QED BY <3>1, <3>2, <1>5
  <2> QED BY <2>1, <2>2, <1>1, <1>3 DEF Progress
<1> QED BY <1>2, <1>3, <1>6, <1>7, <1>8

LEMMA RecordInv == IInv /\ Record => IInv'
<1> SUFFICES ASSUME IInv, Record PROVE IInv'
  OBVIOUS
<1> USE DEF Record, fileVars, taskVars, histVars
<1>1. PICK c : c = [op |-> "add", n |-> sent + 1]
  OBVIOUS
<1>2. sent \in Nat /\ sent < MaxItems /\ MaxItems \in Nat
  BY RolloutAssumption DEF IInv, TypeOK
<1>3. c \in [op : Ops, n : 0..MaxItems] /\ Before(c) = sent /\ c.n = sent'
  BY <1>1, <1>2 DEF Ops, Before
<1>4. Queued' /\ Received' = Received
  BY <1>1, <1>2, <1>3, Enqueued
<1>5. TypeOK'
  <2>1. chan' \in Seq([op : Ops, n : 0..MaxItems]) /\ sent' \in 0..MaxItems
    BY <1>1, <1>2, <1>3 DEF IInv, TypeOK
  <2> QED BY <2>1 DEF IInv, TypeOK
<1> QED BY <1>2, <1>4, <1>5, CallerKept DEF IInv

LEMMA BarrierInv ==
    ASSUME IInv, NEW op \in Ops \ {"add"}, Barrier(op)
    PROVE  IInv'
<1> USE DEF Barrier, fileVars, taskVars, histVars
<1>1. PICK c : c = [op |-> op, n |-> sent]
  OBVIOUS
<1>2. sent \in 0..MaxItems /\ sent \in Nat
  BY RolloutAssumption DEF IInv, TypeOK
<1>3. c \in [op : Ops, n : 0..MaxItems] /\ Before(c) = sent /\ c.n = sent'
  BY <1>1, <1>2 DEF Ops, Before
<1>4. Queued' /\ Received' = Received
  BY <1>1, <1>2, <1>3, Enqueued
<1>5. TypeOK'
  <2>1. chan' \in Seq([op : Ops, n : 0..MaxItems])
    BY <1>1, <1>3 DEF IInv, TypeOK
  <2> QED BY <2>1 DEF IInv, TypeOK
<1> QED BY <1>2, <1>4, <1>5, CallerKept DEF IInv

\* The head of a sequence is one of its elements.
LEMMA HeadType ==
    ASSUME NEW S, NEW s \in Seq(S), s # <<>>
    PROVE  Head(s) \in S
OBVIOUS

\* The task takes the command at the head of the channel.
LEMMA Taken ==
    ASSUME IInv, up, up' = up, chan # <<>>, chan' = Tail(chan), sent' = sent
    PROVE  /\ Queued' /\ Received' = Head(chan).n /\ Received = Before(Head(chan))
           /\ Head(chan) \in [op : Ops, n : 0..MaxItems]
           /\ chan' \in Seq([op : Ops, n : 0..MaxItems])
<1>1. /\ chan \in Seq([op : Ops, n : 0..MaxItems]) /\ Len(chan) \in Nat \ {0} /\ sent \in Nat
      /\ 1 \in 1..Len(chan) /\ Head(chan) = chan[1]
  BY DEF IInv, TypeOK
<1>2. /\ chan' \in Seq([op : Ops, n : 0..MaxItems]) /\ Len(chan') = Len(chan) - 1
      /\ \A i \in 1..Len(chan') : chan'[i] = chan[i + 1]
  BY <1>1
<1>3. \A i \in 1..Len(chan') : i + 1 \in 1..Len(chan) /\ i + 1 > 1 /\ (i + 1) - 1 = i
  BY <1>1, <1>2
<1>4. \A i \in 1..Len(chan') : chan'[i].n \in 0..sent' /\ Before(chan'[i]) \in 0..sent'
  BY <1>2, <1>3 DEF IInv, Queued
<1>5. \A i \in 1..Len(chan') : Before(chan'[i]) = chan[i].n
  BY <1>2, <1>3 DEF IInv, Queued
<1>6. ASSUME NEW i \in 1..Len(chan'), i > 1
      PROVE  Before(chan'[i]) = chan'[i - 1].n
  <2>1. i - 1 \in 1..Len(chan') /\ (i - 1) + 1 = i
    BY <1>1, <1>2, <1>6
  <2> QED BY <2>1, <1>2, <1>5
<1>7. chan' # <<>> => chan'[Len(chan')].n = sent' /\ 1 \in 1..Len(chan')
  <2> SUFFICES ASSUME chan' # <<>> PROVE chan'[Len(chan')].n = sent' /\ 1 \in 1..Len(chan')
    OBVIOUS
  <2>1. Len(chan') \in 1..Len(chan') /\ 1 \in 1..Len(chan') /\ Len(chan') + 1 = Len(chan)
    BY <1>1, <1>2
  <2> QED BY <2>1, <1>2 DEF IInv, Queued
<1>8. Queued'
  BY <1>4, <1>6, <1>7 DEF Queued, Before
<1>9. Received' = Head(chan).n
  <2>1. CASE chan' = <<>>
    <3>1. Len(chan) = 1 /\ Received' = sent
      BY <2>1, <1>1, <1>2, SMTT(30) DEF Received
    <3> QED BY <3>1, <1>1 DEF IInv, Queued
  <2>2. CASE chan' # <<>>
    <3>1. Received' = Before(chan'[1])
      BY <2>2 DEF Received, Before
    <3> QED BY <3>1, <2>2, <1>1, <1>5, <1>7
  <2> QED BY <2>1, <2>2
<1>10. Received = Before(Head(chan))
  BY <1>1 DEF Received
<1>11. Head(chan) \in [op : Ops, n : 0..MaxItems]
  BY <1>1, HeadType
<1> QED BY <1>2, <1>8, <1>9, <1>10, <1>11

LEMMA ReceiveInv == IInv /\ Receive => IInv'
<1> SUFFICES ASSUME IInv, Receive PROVE IInv'
  OBVIOUS
<1> USE DEF fileVars, histVars
<1>0. /\ up /\ up' = up /\ pc = "recv" /\ chan # <<>> /\ cmd' = Head(chan) /\ chan' = Tail(chan)
      /\ attempt' = 1
      /\ UNCHANGED <<file, nl, dropped, writer, meta, next, sent, lost, acked, faults, crashes>>
  BY DEF Receive
<1>1. /\ Queued' /\ Received' = cmd'.n /\ Received = Before(cmd')
      /\ cmd' \in [op : Ops, n : 0..MaxItems] /\ chan' \in Seq([op : Ops, n : 0..MaxItems])
  BY <1>0, Taken
<1>2. /\ Received \in Nat /\ Written \in Nat /\ Received = Written + Len(pending)
      /\ pending \in Seq(0..MaxItems) /\ Len(pending) \in Nat /\ cmd'.n \in 0..MaxItems
      /\ MaxItems \in Nat
  BY <1>0, <1>1, Numbers, RolloutAssumption, SMTT(30) DEF IInv, TypeOK
<1>3. /\ pc' \in {"recv", "open", "ok"}
      /\ pc' = "ok" => pending' = <<>>
      /\ \/ cmd'.op = "add" /\ pending' = Append(pending, cmd'.n)
         \/ cmd'.op # "add" /\ pending' = pending
  BY <1>0, <1>2 DEF Receive
<1>4. /\ pending' \in Seq(0..MaxItems) /\ Written' = Written
      /\ \A i \in 1..Len(pending') : pending'[i] = Written' + i
  <2>0. Written' = Received' - Len(pending')
    BY DEF Written
  <2>1. CASE cmd'.op = "add" /\ pending' = Append(pending, cmd'.n)
    <3>1. cmd'.n = Received + 1
      BY <2>1, <1>1, <1>2 DEF Before
    <3>2. /\ pending' \in Seq(0..MaxItems) /\ Len(pending') = Len(pending) + 1
          /\ pending'[Len(pending) + 1] = cmd'.n
          /\ \A i \in 1..Len(pending) : pending'[i] = pending[i]
      BY <2>1, <1>2
    <3>3. Written' = Written
      BY <2>0, <3>1, <3>2, <1>1, <1>2
    <3>4. \A i \in 1..Len(pending') : i \in 1..Len(pending) \/ i = Len(pending) + 1
      BY <3>2, <1>2
    <3>5. \A i \in 1..Len(pending) : pending[i] = Written + i
      BY <1>0 DEF IInv, Pending
    <3>6. pending'[Len(pending) + 1] = Written + (Len(pending) + 1)
      BY <3>1, <3>2, <1>2
    <3> QED BY <3>2, <3>3, <3>4, <3>5, <3>6
  <2>2. CASE cmd'.op # "add" /\ pending' = pending
    <3>1. Received' = Received
      BY <2>2, <1>1 DEF Before
    <3>2. Written' = Written
      BY <2>2, <3>1 DEF Written
    <3> QED BY <2>2, <3>2, <1>0, <1>2 DEF IInv, Pending
  <2> QED BY <2>1, <2>2, <1>3
<1>5. NextItem' = NextItem
  BY <1>0, <1>4 DEF NextItem
<1>6. TypeOK'
  BY <1>0, <1>1, <1>3, <1>4 DEF IInv, TypeOK
<1>7. Pending'
  BY <1>0, <1>2, <1>4 DEF IInv, Pending
<1>8. Place'
  BY <1>0, <1>1, <1>3 DEF IInv, Place
<1>9. Ordered' /\ Sound' /\ Log' = Log /\ LoggedItems' = LoggedItems
  BY <1>0, TornKept
<1>10. Frontier'
  BY <1>0, <1>5, <1>9 DEF IInv, Frontier
<1>11. Progress'
  BY <1>0, <1>5, <1>9 DEF IInv, Progress
<1> QED BY <1>1, <1>6, <1>7, <1>8, <1>9, <1>10, <1>11 DEF IInv

\* The task ends, and what is not in the file is lost.
LEMMA Stopped ==
    ASSUME IInv, ~up', chan' = <<>>, UNCHANGED <<file, sent>>, lost' = Unlogged(sent)
    PROVE  /\ Queued' /\ Pending' /\ Place' /\ Ordered' /\ Sound' /\ Frontier' /\ Progress'
           /\ lost' \subseteq 0..MaxItems
<1>1. /\ Log' = Log /\ LoggedItems' = LoggedItems /\ Ordered'
      /\ OrdinalsDense' /\ PrefixIntact'
  BY FileKept DEF IInv, Sound
<1>2. Queued'
  BY DEF Queued
<1>3. Pending' /\ Place' /\ Frontier'
  BY DEF Pending, Place, Frontier
<1>4. Sound'
  <2>1. \A p \in Log : p[2] \in LoggedItems
    BY DEF LoggedItems
  <2> QED BY <2>1, <1>1 DEF IInv, Sound, Unlogged
<1>5. Progress'
  BY <1>1 DEF Progress, Unlogged
<1>6. 0..sent \subseteq 0..MaxItems
  BY RolloutAssumption DEF IInv, TypeOK
<1> QED BY <1>1, <1>2, <1>3, <1>4, <1>5, <1>6 DEF Unlogged

LEMMA HangupInv == IInv /\ Hangup => IInv'
<1> SUFFICES ASSUME IInv, Hangup PROVE IInv'
  OBVIOUS
<1> USE DEF Hangup, fileVars, taskVars
<1>1. up' \in BOOLEAN /\ ~up' /\ chan' = <<>>
  OBVIOUS
<1>2. TypeOK'
  BY <1>1, Stopped DEF IInv, TypeOK
<1> QED BY <1>1, <1>2, Stopped DEF IInv

LEMMA CrashInv == IInv /\ Crash => IInv'
<1> SUFFICES ASSUME IInv, Crash PROVE IInv'
  OBVIOUS
<1> USE DEF Crash, fileVars
<1>1. up' \in BOOLEAN /\ ~up' /\ chan' = <<>> /\ pc' = "recv"
  OBVIOUS
<1>2. crashes' \in 0..MaxCrashes
  BY RolloutAssumption DEF IInv, TypeOK
<1>3. chan' \in Seq([op : Ops, n : 0..MaxItems])
  BY <1>1
<1>4. TypeOK'
  BY <1>1, <1>2, <1>3, Stopped DEF IInv, TypeOK
<1> QED BY <1>1, <1>4, Stopped DEF IInv

LEMMA ReplyInv == IInv /\ Reply => IInv'
<1> SUFFICES ASSUME IInv, Reply PROVE IInv'
  OBVIOUS
<1> USE DEF fileVars
<1>0. /\ up /\ pc \in {"ok", "err"} /\ pc' = "recv"
      /\ acked' = IF pc = "ok" /\ cmd.op # "add" THEN acked \cup ((1..cmd.n) \ lost) ELSE acked
      /\ UNCHANGED <<file, nl, dropped, writer, meta, pending, next, cmd, attempt, sent, faults, crashes>>
  BY DEF Reply
<1>1. acked' \subseteq 0..MaxItems
  <2>1. cmd.n \in 0..MaxItems /\ MaxItems \in Nat
    BY RolloutAssumption DEF IInv, TypeOK
  <2>2. 1..cmd.n \subseteq 0..MaxItems
    BY <2>1
  <2> QED BY <1>0, <2>2 DEF IInv, TypeOK
<1>2. CASE up' = FALSE /\ chan' = <<>> /\ lost' = Unlogged(sent)
  <2>1. up' \in BOOLEAN /\ ~up'
    BY <1>2
  <2>2. TypeOK'
    <3>1. chan' \in Seq([op : Ops, n : 0..MaxItems])
      BY <1>2
    <3> QED BY <1>0, <1>1, <1>2, <2>1, <3>1, Stopped DEF IInv, TypeOK
  <2> QED BY <1>0, <1>2, <2>1, <2>2, Stopped DEF IInv
<1>3. CASE UNCHANGED <<up, chan, lost>>
  <2>1. TypeOK'
    BY <1>0, <1>1, <1>3 DEF IInv, TypeOK
  <2>2. Place'
    BY <1>0, <1>3 DEF IInv, Place
  <2> QED BY <1>0, <1>3, <2>1, <2>2, Kept DEF IInv
<1> QED BY <1>2, <1>3 DEF Reply

\* The session is resumed: the last line that parses gives the next ordinal.
LEMMA ResumeInv == IInv /\ Resume => IInv'
<1> SUFFICES ASSUME IInv, Resume PROVE IInv'
  OBVIOUS
<1> USE DEF histVars
<1>0. /\ ~up /\ file # <<>> /\ file[1].ok /\ file[1].item = 0 /\ file[LastRow].ord >= Prefix
      /\ up' = TRUE /\ dropped' = FALSE /\ nl' = TRUE /\ writer' = "open" /\ meta' = FALSE
      /\ pending' = <<>> /\ next' = file[LastRow].ord + 1 /\ pc' = "recv" /\ attempt' = 1
      /\ UNCHANGED <<file, chan, cmd, sent, lost, acked, faults, crashes>>
  BY DEF Resume, Resumable
<1>1. file \in Seq(Line) /\ Ordered /\ sent \in Nat /\ MaxOrdinal \in Nat /\ Prefix \in Nat
  BY RolloutAssumption DEF IInv, TypeOK
<1>2. /\ file[LastRow].ord \in 0..MaxOrdinal
      /\ <<file[LastRow].ord, file[LastRow].item>> \in Log
      /\ \A p \in Log : p[1] <= file[LastRow].ord
  BY <1>0, <1>1, LastRowFacts
<1>3. PICK n \in 0..MaxOrdinal : n = file[LastRow].ord
  BY <1>2
<1>4. /\ next' = n + 1 /\ n >= Prefix /\ <<n, file[LastRow].item>> \in Log
      /\ \A p \in Log : p[1] <= n
  BY <1>0, <1>2, <1>3
<1>5. chan' = <<>>
  BY <1>0 DEF IInv, Queued
<1>6. up' /\ ~meta' /\ Received' = sent
  BY <1>0, <1>5 DEF Received
<1>7. Len(pending') = 0 /\ pending' \in Seq(0..MaxItems)
  BY <1>0
<1>8. Written' = sent /\ NextItem' = sent + 1
  BY <1>1, <1>6, <1>7 DEF Written, NextItem
<1>9. TypeOK'
  <2>1. next' \in 0..(MaxOrdinal + 1)
    BY <1>1, <1>4
  <2> QED BY <1>0, <1>7, <2>1 DEF IInv, TypeOK
<1>10. Queued'
  BY <1>0, <1>5, <1>6 DEF Queued
<1>11. Pending'
  BY <1>1, <1>6, <1>7, <1>8 DEF Pending
<1>12. Place'
  BY <1>0 DEF Place
<1>13. Ordered' /\ Sound' /\ Log' = Log /\ LoggedItems' = LoggedItems
  BY <1>0, TornKept
<1>14. Frontier'
  <2>1. ASSUME NEW p \in Log PROVE p[1] < next' /\ p[2] < NextItem'
    <3>1. p[1] \in 0..MaxOrdinal /\ p[2] \in 0..sent /\ p[1] <= n
      BY <1>1, <1>4, LogTypes DEF IInv, Sound
    <3> QED BY <3>1, <1>1, <1>4, <1>8
  <2>2. \E p \in Log : p[1] + 1 = next'
    <3>1. <<n, file[LastRow].item>>[1] + 1 = next'
      BY <1>4
    <3> QED BY <3>1, <1>4
  <2>3. next' > Prefix
    BY <1>1, <1>4
  <2> QED BY <2>1, <2>2, <2>3, <1>6, <1>13 DEF Frontier
<1>15. Progress'
  <2>1. \A i \in 0..sent : i \in LoggedItems \cup lost
    BY <1>0 DEF IInv, Progress
  <2>2. \A i \in 0..sent : ~(i >= sent + 1)
    BY <1>1
  <2> QED BY <2>1, <2>2, <1>0, <1>6, <1>8, <1>13 DEF Progress
<1> QED BY <1>9, <1>10, <1>11, <1>12, <1>13, <1>14, <1>15 DEF IInv

LEMMA ResumeRefusedInv == IInv /\ ResumeRefused => IInv'
<1> SUFFICES ASSUME IInv, ResumeRefused PROVE IInv'
  OBVIOUS
<1> USE DEF ResumeRefused, taskVars, histVars
<1>1. TypeOK'
  BY DEF IInv, TypeOK
<1>2. Place'
  BY DEF IInv, Place
<1> QED BY <1>1, <1>2, Kept DEF IInv

\* What appending to a rollout that is not loaded makes of the file.
LEMMA Appended ==
    ASSUME IInv, AppendUnloaded
    PROVE  /\ ~up /\ sent \in Nat /\ sent < MaxItems /\ sent' = sent + 1
           /\ UNCHANGED <<up, dropped, taskVars, chan, crashes>>
           /\ file' \in Seq(Line) /\ nl' \in BOOLEAN /\ faults' \in 0..MaxFaults
           /\ Ordered' /\ OrdinalsDense' /\ PrefixIntact'
           /\ \E n \in 1..MaxOrdinal :
                 /\ \A p \in Log : p[1] < n
                 /\ \E p \in Log : p[1] + 1 = n
                 /\ \/ /\ Log' = Log \cup {<<n, sent + 1>>}
                       /\ LoggedItems' = LoggedItems \cup {sent + 1}
                       /\ lost' = lost /\ acked' \in {acked, acked \cup {sent + 1}}
                    \/ /\ Log' = Log /\ LoggedItems' = LoggedItems
                       /\ lost' = lost \cup {sent + 1} /\ acked' = acked
<1>0. /\ ~up /\ file # <<>> /\ file[1].ok /\ file[1].item = 0 /\ file[LastRow].ord >= Prefix
      /\ sent < MaxItems /\ file[LastRow].ord < MaxOrdinal /\ sent' = sent + 1
      /\ UNCHANGED <<up, dropped, taskVars, chan, crashes>>
  BY DEF AppendUnloaded, Resumable
<1>1. /\ file \in Seq(Line) /\ Ordered /\ OrdinalsDense /\ PrefixIntact
      /\ sent \in Nat /\ MaxOrdinal \in Nat /\ Prefix \in Nat /\ MaxItems \in Nat
      /\ faults \in 0..MaxFaults
  BY RolloutAssumption DEF IInv, TypeOK, Sound
<1>2. /\ file[LastRow].ord \in 0..MaxOrdinal
      /\ <<file[LastRow].ord, file[LastRow].item>> \in Log
      /\ \A p \in Log : p[1] <= file[LastRow].ord
  BY <1>0, <1>1, LastRowFacts
<1>3. PICK n \in 1..MaxOrdinal : n = file[LastRow].ord + 1
  BY <1>0, <1>1, <1>2
<1>4. PICK i \in 0..MaxItems : i = sent + 1
  BY <1>0, <1>1
<1>5. PICK row : row = [ok |-> TRUE, ord |-> n, item |-> i]
  OBVIOUS
<1>6. /\ \A p \in Log : p[1] < n
      /\ \E p \in Log : p[1] + 1 = n
      /\ n > Prefix
  <2>1. \A p \in Log : p[1] \in 0..MaxOrdinal
    BY <1>1, LogTypes
  <2>2. \A p \in Log : p[1] < n
    BY <2>1, <1>1, <1>2, <1>3
  <2>3. <<file[LastRow].ord, file[LastRow].item>>[1] + 1 = n
    BY <1>3
  <2>4. n > Prefix
    BY <1>0, <1>1, <1>2, <1>3
  <2> QED BY <2>2, <2>3, <2>4, <1>2
<1>7. file' = Append(file, row) =>
          /\ file' \in Seq(Line) /\ Log' = Log \cup {<<n, sent + 1>>}
          /\ LoggedItems' = LoggedItems \cup {sent + 1}
          /\ Ordered' /\ OrdinalsDense' /\ PrefixIntact'
  <2>1. n \in 0..MaxOrdinal
    BY <1>1
  <2> QED BY <2>1, <1>1, <1>4, <1>5, <1>6, Grown
<1>8. file' = Append(file, Torn) =>
          /\ file' \in Seq(Line) /\ Log' = Log /\ LoggedItems' = LoggedItems
          /\ Ordered' /\ OrdinalsDense' /\ PrefixIntact'
  <2> SUFFICES ASSUME file' = Append(file, Torn)
               PROVE  /\ file' \in Seq(Line) /\ Log' = Log /\ LoggedItems' = LoggedItems
                      /\ Ordered' /\ OrdinalsDense' /\ PrefixIntact'
    OBVIOUS
  <2>1. Torn \in Line /\ ~Torn.ok
    BY RolloutAssumption DEF Torn, Line
  <2>2. file' \in Seq(Line) /\ Log' = Log /\ Ordered'
    BY <2>1, <1>1, AppendLog, AppendOrdered
  <2> QED BY <2>2, <1>1 DEF OrdinalsDense, PrefixIntact, LoggedItems
<1>9. row # Torn
  BY <1>5 DEF Torn
<1>10. [ok |-> TRUE, ord |-> file[LastRow].ord + 1, item |-> sent + 1] = row
  BY <1>3, <1>4, <1>5
<1>11. \/ /\ file' = Append(file, row) /\ nl' = TRUE
          /\ acked' = acked \cup {sent + 1} /\ UNCHANGED <<lost, faults>>
       \/ /\ FaultHappens /\ acked' = acked /\ nl' \in BOOLEAN
          /\ \/ file' = Append(file, Torn) /\ lost' = lost \cup {sent + 1}
             \/ file' = Append(file, row) /\ lost' = lost
  BY <1>9, <1>10, Zenon DEF AppendUnloaded
<1>12. nl' \in BOOLEAN /\ faults' \in 0..MaxFaults
  BY <1>1, <1>11, FaultCounted
<1>13. \/ /\ file' = Append(file, row) /\ lost' = lost /\ acked' \in {acked, acked \cup {sent + 1}}
       \/ /\ file' = Append(file, Torn) /\ lost' = lost \cup {sent + 1} /\ acked' = acked
  BY <1>11
<1> QED BY <1>0, <1>1, <1>3, <1>6, <1>7, <1>8, <1>12, <1>13

LEMMA AppendUnloadedInv == IInv /\ AppendUnloaded => IInv'
<1> SUFFICES ASSUME IInv, AppendUnloaded PROVE IInv'
  OBVIOUS
<1> USE DEF taskVars
<1>1. /\ ~up /\ sent \in Nat /\ sent < MaxItems /\ sent' = sent + 1
      /\ UNCHANGED <<up, dropped, taskVars, chan, crashes>>
      /\ file' \in Seq(Line) /\ nl' \in BOOLEAN /\ faults' \in 0..MaxFaults
      /\ Ordered' /\ OrdinalsDense' /\ PrefixIntact'
  BY Appended
<1>2. \/ /\ \A p \in Log' : p \in Log \/ p[2] = sent + 1
         /\ LoggedItems' = LoggedItems \cup {sent + 1}
         /\ lost' = lost /\ acked' \in {acked, acked \cup {sent + 1}}
      \/ /\ Log' = Log /\ LoggedItems' = LoggedItems
         /\ lost' = lost \cup {sent + 1} /\ acked' = acked
  <2>1. \A n \in 1..MaxOrdinal : <<n, sent + 1>>[2] = sent + 1
    OBVIOUS
  <2> QED BY <2>1, Appended, Zenon
<1>3. /\ 0..sent \subseteq 0..sent' /\ sent + 1 \in 0..sent' /\ sent' \in 0..MaxItems
      /\ sent + 1 \in 0..MaxItems
      /\ sent + 1 \notin 0..sent /\ \A i \in 0..sent' : i \in 0..sent \/ i = sent + 1
  BY <1>1, RolloutAssumption
<1>4. lost' \subseteq 0..MaxItems /\ acked' \subseteq 0..MaxItems
  BY <1>2, <1>3 DEF IInv, TypeOK
<1>5. TypeOK'
  BY <1>1, <1>3, <1>4 DEF IInv, TypeOK
<1>6. Queued'
  <2>1. chan' = <<>>
    BY <1>1 DEF IInv, Queued
  <2> QED BY <2>1 DEF Queued
<1>7. Pending' /\ Place' /\ Frontier'
  BY <1>1 DEF Pending, Place, Frontier
<1>8. Sound'
  BY <1>1, <1>2, <1>3 DEF IInv, Sound
<1>9. Progress'
  BY <1>1, <1>2, <1>3 DEF IInv, Progress
<1> QED BY <1>1, <1>5, <1>6, <1>7, <1>8, <1>9 DEF IInv

LEMMA NextInv == IInv /\ [Next]_vars => IInv'
<1> SUFFICES ASSUME IInv, [Next]_vars PROVE IInv'
  OBVIOUS
<1>1. CASE UNCHANGED vars
  <2>1. TypeOK'
    BY <1>1 DEF IInv, TypeOK, vars
  <2>2. Place'
    BY <1>1, NumbersKept DEF IInv, Place, vars
  <2> QED BY <1>1, <2>1, <2>2, Kept DEF IInv, vars
<1>2. CASE \E op \in Ops \ {"add"} : Barrier(op)
  BY <1>2, BarrierInv
<1> QED BY <1>1, <1>2, RecordInv, DropRecorderInv, ReceiveInv, HangupInv, OpenInv, OpenFailsInv,
           WriteMetaInv, WriteMetaFailsInv, WriteItemInv, WriteItemFailsInv, OverflowInv, SyncInv,
           SyncFailsInv, ReplyInv, CrashInv, ResumeInv, ResumeRefusedInv, AppendUnloadedInv
        DEF Next

-----------------------------------------------------------------------------
(* Every step is a step of RolloutLog.                                     *)

LEMMA LoggedSame == L!Logged = LoggedItems
BY DEF L!Logged, LoggedItems

\* A line of the next item commits it, unless it is a copy.
LEMMA RowCommits ==
    ASSUME IInv, up, NEW i \in 0..sent, i = NextItem, next <= MaxOrdinal,
           Log' = Log \/ Log' = Log \cup {<<next, i>>}, UNCHANGED <<sent, lost, acked>>
    PROVE  L!Next \/ UNCHANGED L!vars
<1>1. CASE Log' = Log
  BY <1>1 DEF L!vars
<1>2. CASE Log' = Log \cup {<<next, i>>} /\ <<next, i>> \in Log
  BY <1>2 DEF L!vars
<1>3. CASE Log' = Log \cup {<<next, i>>} /\ <<next, i>> \notin Log
  <2>1. next \in Nat /\ Log \subseteq (0..MaxOrdinal) \X (0..MaxItems) /\ sent \in Nat
    BY LogTypes, RolloutAssumption DEF IInv, TypeOK
  <2>2. ASSUME NEW p \in Log PROVE p[1] < next /\ p[2] < i
    <3>1. p = <<p[1], p[2]>>
      BY <2>1
    <3>2. (p[1] < next /\ p[2] < i) \/ (p[1] = next /\ p[2] = i)
      BY DEF IInv, Frontier
    <3> QED BY <3>1, <3>2, <1>3
  <2>3. i \notin LoggedItems
    BY <2>1, <2>2 DEF LoggedItems
  <2>4. i \notin lost /\ \A j \in 0..sent : j < i => j \in LoggedItems \cup lost
    BY <2>1 DEF IInv, Progress
  <2>5. next = 0 \/ \E p \in Log : p[1] + 1 = next
    BY DEF IInv, Frontier
  <2>6. L!IsNext(next)
    BY <2>2, <2>5 DEF L!IsNext
  <2>7. next \in {0} \cup {p[1] + 1 : p \in Log}
    BY <2>5
  <2>8. L!Grow(i)
    BY <1>3, <2>6, <2>7 DEF L!Grow
  <2>9. L!Commit(i)
    BY <2>3, <2>4, <2>8, LoggedSame DEF L!Commit
  <2> QED BY <2>9 DEF L!Next
<1> QED BY <1>1, <1>2, <1>3

LEMMA FailedWriteRefines ==
    ASSUME IInv, up, pc \in {"meta", "items"}, next <= MaxOrdinal,
           NEW i \in 0..sent, i = NextItem, PutFails(i), UNCHANGED <<sent, lost, acked>>
    PROVE  L!Next \/ UNCHANGED L!vars
<1>1. \/ file' = file \/ file' = Append(file, Torn)
      \/ file' = Append(file, Row(i))
  BY Writes DEF PutFails, fileVars
<1>2. Log' = Log \/ Log' = Log \cup {<<next, i>>}
  BY <1>1, TornKept, RowWritten
<1> QED BY <1>2, RowCommits

\* An answered barrier: all items recorded before it are logged or lost.
LEMMA ReplyRefines == IInv /\ Reply => L!Next \/ UNCHANGED L!vars
<1> SUFFICES ASSUME IInv, Reply PROVE L!Next \/ UNCHANGED L!vars
  OBVIOUS
<1>0. up /\ Log' = Log /\ sent' = sent
  BY FileKept DEF Reply, fileVars
<1>1. CASE pc = "ok" /\ cmd.op # "add"
  <2>1. pending = <<>> /\ cmd.n = Received
    BY <1>0, <1>1 DEF IInv, Place
  <2>2. /\ sent \in Nat /\ cmd.n \in 0..sent /\ Written \in Nat /\ Written = cmd.n
    BY <1>0, <2>1, Numbers
  <2>3. \A j \in 1..cmd.n : j \in LoggedItems \cup lost
    <3>1. CASE meta
      <4>1. Written = 0
        BY <1>0, <3>1 DEF IInv, Pending
      <4> QED BY <4>1, <2>2
    <3>2. CASE ~meta
      BY <1>0, <2>2, <3>2 DEF IInv, Progress, NextItem
    <3> QED BY <3>1, <3>2
  <2>4. acked' = acked \cup ((1..cmd.n) \ lost)
    BY <1>1 DEF Reply
  <2>5. lost' \in {lost, (0..sent) \ LoggedItems}
    BY DEF Reply, Unlogged
  <2>6. L!Acknowledge(cmd.n)
    BY <1>0, <2>2, <2>3, <2>4, <2>5, LoggedSame DEF L!Acknowledge
  <2> QED BY <2>2, <2>6 DEF L!Next
<1>2. CASE ~(pc = "ok" /\ cmd.op # "add")
  BY <1>0, <1>2 DEF Reply, L!vars
<1> QED BY <1>1, <1>2

\* An item appended to a rollout that is not loaded is recorded and logged, or
\* recorded and lost.
LEMMA AppendRefines == IInv /\ AppendUnloaded => L!Next
<1> SUFFICES ASSUME IInv, AppendUnloaded PROVE L!Next
  OBVIOUS
<1>1. /\ ~up /\ sent \in Nat /\ sent' = sent + 1
      /\ \E n \in 1..MaxOrdinal :
            /\ \A p \in Log : p[1] < n
            /\ \E p \in Log : p[1] + 1 = n
            /\ \/ /\ Log' = Log \cup {<<n, sent + 1>>}
                  /\ lost' = lost /\ acked' \in {acked, acked \cup {sent + 1}}
               \/ /\ Log' = Log /\ lost' = lost \cup {sent + 1} /\ acked' = acked
  BY Appended
<1>2. \A j \in 0..sent : j \in LoggedItems \cup lost
  BY <1>1 DEF IInv, Progress
<1>3. sent + 1 \notin lost
  BY <1>1 DEF IInv, Sound
<1>4. PICK n \in 1..MaxOrdinal :
            /\ \A p \in Log : p[1] < n
            /\ \E p \in Log : p[1] + 1 = n
            /\ \/ /\ Log' = Log \cup {<<n, sent + 1>>}
                  /\ lost' = lost /\ acked' \in {acked, acked \cup {sent + 1}}
               \/ /\ Log' = Log /\ lost' = lost \cup {sent + 1} /\ acked' = acked
  BY <1>1
<1>5. L!IsNext(n) /\ n \in {0} \cup {p[1] + 1 : p \in Log}
  BY <1>4 DEF L!IsNext
<1>6. CASE Log' = Log \cup {<<n, sent + 1>>} /\ lost' = lost /\ acked' \in {acked, acked \cup {sent + 1}}
  <2>1. L!Grow(sent + 1)
    BY <1>5, <1>6 DEF L!Grow
  <2>2. acked' \in {acked, acked \cup ({sent + 1} \ lost')}
    BY <1>3, <1>6
  <2>3. L!RecordAndCommit
    BY <1>1, <1>2, <1>6, <2>1, <2>2, LoggedSame DEF L!RecordAndCommit
  <2> QED BY <2>3 DEF L!Next
<1>7. CASE Log' = Log /\ lost' = lost \cup {sent + 1} /\ acked' = acked
  <2>1. L!RecordAndCommit
    BY <1>1, <1>2, <1>7, LoggedSame DEF L!RecordAndCommit
  <2> QED BY <2>1 DEF L!Next
<1> QED BY <1>4, <1>6, <1>7

LEMMA StepRefines == IInv /\ [Next]_vars => [L!Next]_(L!vars)
<1> SUFFICES ASSUME IInv, [Next]_vars PROVE L!Next \/ UNCHANGED L!vars
  OBVIOUS
<1> USE DEF fileVars, taskVars, histVars
<1>1. CASE Record
  <2>1. L!Record
    BY <1>1, FileKept DEF Record, L!Record
  <2> QED BY <2>1 DEF L!Next
<1>2. CASE Hangup \/ Crash
  <2>1. L!Lose
    BY <1>2, FileKept, LoggedSame DEF Hangup, Crash, Unlogged, L!Lose
  <2> QED BY <2>1 DEF L!Next
<1>3. CASE WriteMeta
  <2>1. CASE meta
    <3>1. 0 = NextItem /\ 0 \in 0..sent /\ next <= MaxOrdinal /\ up
      BY <1>3, <2>1, MetaIsNext DEF WriteMeta
    <3>2. file' = Append(file, Row(0))
      BY <1>3, <2>1, Writes DEF WriteMeta
    <3>3. UNCHANGED <<sent, lost, acked>>
      BY <1>3 DEF WriteMeta
    <3>4. Log' = Log \cup {<<next, 0>>}
      BY <3>1, <3>2, <3>3, RowWritten
    <3> QED BY <3>1, <3>3, <3>4, RowCommits
  <2>2. CASE ~meta
    BY <1>3, <2>2, FileKept DEF WriteMeta, L!vars
  <2> QED BY <2>1, <2>2
<1>4. CASE WriteMetaFails
  BY <1>4, MetaIsNext, FailedWriteRefines DEF WriteMetaFails
<1>5. CASE WriteItem
  <2>1. Head(pending) = NextItem /\ Head(pending) \in 0..sent /\ next <= MaxOrdinal /\ up
    BY <1>5, HeadIsNext DEF WriteItem
  <2>2. PICK i \in 0..sent : i = Head(pending)
    BY <2>1
  <2>3. file' = Append(file, Row(i))
    BY <1>5, <2>2, Writes DEF WriteItem
  <2>4. UNCHANGED <<sent, lost, acked>>
    BY <1>5 DEF WriteItem
  <2>5. Log' = Log \cup {<<next, i>>}
    BY <2>1, <2>2, <2>3, <2>4, RowWritten
  <2> QED BY <2>1, <2>2, <2>4, <2>5, RowCommits
<1>6. CASE WriteItemFails
  BY <1>6, HeadIsNext, FailedWriteRefines DEF WriteItemFails
<1>7. CASE AppendUnloaded
  BY <1>7, AppendRefines
<1>8. CASE Reply
  BY <1>8, ReplyRefines
<1>9. CASE \/ DropRecorder \/ (\E op \in Ops \ {"add"} : Barrier(op)) \/ Receive \/ Open \/ OpenFails
           \/ Overflow \/ Sync \/ SyncFails \/ Resume \/ ResumeRefused \/ UNCHANGED vars
  <2>1. UNCHANGED <<file, sent, lost, acked>>
    BY <1>9 DEF DropRecorder, Barrier, Receive, Open, OpenFails, Overflow, Sync, SyncFails,
                Resume, ResumeRefused, vars
  <2> QED BY <2>1, FileKept DEF L!vars
<1> QED BY <1>1, <1>2, <1>3, <1>4, <1>5, <1>6, <1>7, <1>8, <1>9 DEF Next

-----------------------------------------------------------------------------
(* Theorems.                                                               *)

\* The inductive invariant holds in every reachable state.
THEOREM RolloutInvariant == Spec => []IInv
BY InitInv, NextInv, PTL DEF Spec

\* Type invariant; and whenever the writer is open the file ends with a newline,
\* so that no write is ever glued to a torn line (ensure_writer_open).
THEOREM RolloutTypeCorrect == Spec => []TypeOK
<1>1. IInv => TypeOK
  BY DEF IInv
<1> QED BY RolloutInvariant, <1>1, PTL

\* Ordinals identify items and leave no gap, whatever is torn, repeated, retried
\* or resumed (ordinal.rs, write_pending_with_recovery).
THEOREM OrdinalsIdentify == Spec => []OrdinalsDense
<1>1. IInv => OrdinalsDense
  BY DEF IInv, Sound
<1> QED BY RolloutInvariant, <1>1, PTL

\* Records of a subagent stay behind the boundary to what it inherited, whenever
\* it died and was resumed (open_rollout_for_append).
THEOREM BoundaryKept == Spec => []PrefixIntact
<1>1. IInv => PrefixIntact
  BY DEF IInv, Sound
<1> QED BY RolloutInvariant, <1>1, PTL

\* The recorder implements RolloutLog: one log that only grows, in the order of
\* recording; an answered barrier covers all items recorded before it, and what
\* it covers is never lost.
THEOREM RecorderKeepsLog == Spec => KeepsLog
<1>1. Init => L!Init
  <2> SUFFICES ASSUME Init PROVE L!Init
    OBVIOUS
  <2>1. 1..Len(file) = {}
    BY DEF Init
  <2>2. Log = {}
    BY <2>1 DEF Log
  <2> QED BY <2>2 DEF Init, L!Init
<1> QED BY <1>1, StepRefines, RolloutInvariant, PTL DEF Spec, KeepsLog, L!Spec

\* What a caller was told to be written is in the file.
AckedLogged == acked \subseteq LoggedItems

\* No step of RolloutLog takes an acknowledged item away.
LEMMA StepKeepsAcked == AckedLogged /\ [L!Next]_(L!vars) => AckedLogged'
<1> SUFFICES ASSUME acked \subseteq L!Logged, L!Next \/ UNCHANGED L!vars
             PROVE  acked' \subseteq L!Logged'
  BY LoggedSame DEF AckedLogged, LoggedItems, L!Logged
<1>1. ASSUME Log \subseteq Log' PROVE L!Logged \subseteq L!Logged'
  BY <1>1 DEF L!Logged
<1>2. ASSUME NEW i, L!Grow(i) PROVE Log \subseteq Log' /\ i \in L!Logged'
  <2>1. PICK n \in {0} \cup {p[1] + 1 : p \in Log} : Log' = Log \cup {<<n, i>>}
    BY <1>2 DEF L!Grow
  <2>2. <<n, i>> \in Log' /\ <<n, i>>[2] = i
    BY <2>1
  <2>3. i \in {p[2] : p \in Log'}
    BY <2>2, Zenon
  <2> QED BY <2>1, <2>3 DEF L!Logged
<1>3. CASE UNCHANGED L!vars \/ L!Record \/ L!Lose
  <2>1. Log' = Log /\ acked' = acked
    BY <1>3 DEF L!vars, L!Record, L!Lose
  <2> QED BY <2>1, <1>1
<1>4. CASE L!RecordAndCommit
  <2>1. CASE L!Grow(sent + 1)
    <3>1. acked' \subseteq acked \cup {sent + 1}
      BY <1>4 DEF L!RecordAndCommit
    <3> QED BY <2>1, <3>1, <1>1, <1>2
  <2>2. CASE Log' = Log /\ lost' = lost \cup {sent + 1}
    <3>1. acked' = acked
      BY <1>4, <2>2 DEF L!RecordAndCommit
    <3> QED BY <2>2, <3>1, <1>1
  <2> QED BY <1>4, <2>1, <2>2 DEF L!RecordAndCommit
<1>5. ASSUME NEW i \in 0..sent, L!Commit(i) PROVE acked' \subseteq L!Logged'
  BY <1>1, <1>2, <1>5 DEF L!Commit
<1>6. ASSUME NEW i \in 0..sent, L!Acknowledge(i) PROVE acked' \subseteq L!Logged'
  <2>1. Log' = Log /\ acked' \subseteq L!Logged
    BY <1>6 DEF L!Acknowledge
  <2> QED BY <2>1, <1>1
<1> QED BY <1>3, <1>4, <1>5, <1>6 DEF L!Next

\* An item covered by an answered persist, flush or shutdown is in the file for
\* good: no later failure, crash, resume or append takes it out.
THEOREM AckedSurvives == Spec => []AckedLogged
<1>1. Init => AckedLogged
  BY DEF Init, AckedLogged
<1> QED BY <1>1, StepRefines, StepKeepsAcked, RolloutInvariant, PTL DEF Spec
=============================================================================
