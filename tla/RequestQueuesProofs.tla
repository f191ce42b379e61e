------------------------- MODULE RequestQueuesProofs -------------------------
(***************************************************************************)
(* Proofs about RequestQueues, for any set of requests, keys and           *)
(* connections: the queues implement RwOrder, and a drained connection     *)
(* stays quiet.  The second part is about the commands of CommandExec,     *)
(* which runs its handlers in these queues.                                *)
(***************************************************************************)
EXTENDS CommandExec, TLAPS

Live(t) == drainer[t] \in {"loop", "join"}

\* A live drain task belongs to a key with an entry, and is the only one.
OneDrainer ==
    /\ \A t \in Requests : Live(t) => t \in Keyed /\ KeyOf[t] \in entry
    /\ \A t, u \in Requests : Live(t) /\ Live(u) /\ KeyOf[t] = KeyOf[u] => t = u

\* Queues hold exactly the queued requests of their key, oldest first.
QueueSorted ==
    /\ \A k \in Keys : \A i \in 1..Len(queue[k]) :
          /\ queue[k][i] \in Keyed /\ KeyOf[queue[k][i]] = k
          /\ st[queue[k][i]] = "queued"
    /\ \A k \in Keys : \A i, j \in 1..Len(queue[k]) :
          i < j => stamp[queue[k][i]] < stamp[queue[k][j]]
    /\ \A r \in Requests : st[r] = "queued" =>
          r \in Keyed /\ \E i \in 1..Len(queue[KeyOf[r]]) : queue[KeyOf[r]][i] = r

\* Whoever has left the queue of a key arrived before all who are in it.
LeftInOrder ==
    /\ \A r \in Requests : stamp[r] <= arrived
    /\ \A q, r \in Keyed :
          KeyOf[q] = KeyOf[r] /\ st[q] = "queued" /\ st[r] \notin {"new", "queued"}
          => stamp[r] < stamp[q]

\* The requests that were taken and are not over are in the batch of their
\* key's drain task; only shared reads share a batch.
Batched ==
    /\ \A t \in Requests : \A r \in batch[t] :
          drainer[t] = "join" /\ r \in Keyed /\ KeyOf[r] = KeyOf[t] /\ st[r] \notin {"new", "queued"}
    /\ \A r \in Keyed : st[r] \in {"taken", "running"} =>
          \E t \in Requests : drainer[t] = "join" /\ r \in batch[t]
    /\ \A t \in Requests : \A q, r \in batch[t] :
          q # r => q \in SharedRead /\ r \in SharedRead

\* Gates are open only on open connections, and drained ones have no handler.
Quiet ==
    /\ \A c \in accepting : conn[c] = "open"
    /\ \A c \in Conns : conn[c] = "drained" => HandlersOf(c) = {}

QInv == TypeOK /\ OneDrainer /\ QueueSorted /\ LeftInOrder /\ Batched /\ Quiet

\* The initial state satisfies the invariant.
LEMMA InitQInv == Init => QInv
BY RequestsAssumption DEF Init, QInv, TypeOK, OneDrainer, QueueSorted, LeftInOrder, Batched,
    Quiet, Live, Places, HandlersOf

\* What a batch of a queue looks like: its members are alone or all shared.
LEMMA BatchShape ==
    ASSUME NEW k \in Keys, TypeOK, QueueSorted, NEW n \in 1..Len(queue[k]), IsBatch(queue[k], n),
           NEW i \in 1..n, NEW j \in 1..n, queue[k][i] # queue[k][j]
    PROVE  queue[k][i] \in SharedRead /\ queue[k][j] \in SharedRead
BY DEF IsBatch, TypeOK

\* Arrivals keep the invariant.
LEMMA ArriveQInv ==
    ASSUME QInv, NEW r \in Requests, Dispatch(r) \/ Enqueue(r)
    PROVE  QInv'
<1> USE RequestsAssumption DEF QInv, Arrive
<1>1. TypeOK'
  <2>1. CASE Dispatch(r)
    BY <2>1 DEF TypeOK, Dispatch, Places
  <2>2. CASE Enqueue(r)
    <3>1. queue' \in [Keys -> Seq(Requests)] /\ entry' \subseteq Keys
      BY <2>2 DEF TypeOK, Enqueue
    <3>2. \A k \in Keys \ entry' : queue'[k] = <<>>
      BY <2>2 DEF TypeOK, Enqueue
    <3>3. drainer' \in [Requests -> {"none", "loop", "join", "ended", "dead"}]
      BY <2>2 DEF TypeOK, Enqueue
    <3> QED BY <2>2, <3>1, <3>2, <3>3 DEF TypeOK, Enqueue, Places
  <2> QED BY <2>1, <2>2
<1>2. st[r] = "new" /\ r \in DOMAIN st /\ arrived' = arrived + 1 /\ stamp' = [stamp EXCEPT ![r] = arrived + 1]
      /\ batch' = batch /\ accepting' = accepting /\ conn' = conn
  BY DEF Dispatch, Enqueue, TypeOK
<1>3. \A q \in Requests : q # r => st'[q] = st[q] /\ stamp'[q] = stamp[q]
  BY <1>2 DEF Dispatch, Enqueue, TypeOK
<1>4. stamp'[r] = arrived + 1 /\ st'[r] \in {"taken", "queued"} /\ (st'[r] = "queued" <=> r \in Keyed)
  BY <1>2 DEF Dispatch, Enqueue, TypeOK
<1>5. OneDrainer'
  <2>1. CASE Dispatch(r)
    BY <2>1 DEF Dispatch, OneDrainer, Live
  <2>2. CASE Enqueue(r)
    <3>1. KeyOf[r] \in Keys
      OBVIOUS
    <3>2. CASE KeyOf[r] \in entry
      BY <2>2, <3>2 DEF Enqueue, OneDrainer, Live
    <3>3. CASE KeyOf[r] \notin entry
      <4>1. \A t \in Requests : Live(t) => KeyOf[t] # KeyOf[r]
        BY <3>3 DEF OneDrainer
      <4>2. drainer' = [drainer EXCEPT ![r] = "loop"] /\ entry' = entry \cup {KeyOf[r]} /\ r \in Keyed
        BY <2>2, <3>3 DEF Enqueue
      <4>3. \A t \in Requests : Live(t)' <=> (t = r \/ Live(t))
        BY <4>2 DEF Live, TypeOK
      <4> QED BY <4>1, <4>2, <4>3 DEF OneDrainer
    <3> QED BY <3>2, <3>3
  <2> QED BY <2>1, <2>2
<1>6. QueueSorted'
  <2>1. CASE Dispatch(r)
    <3>1. queue' = queue
      BY <2>1 DEF Dispatch
    <3>2. \A k \in Keys : \A i \in 1..Len(queue[k]) : queue[k][i] # r /\ queue[k][i] \in Requests
      BY <1>2 DEF QueueSorted, TypeOK
    <3>3. st'[r] # "queued"
      BY <2>1, <1>4 DEF Dispatch
    <3> QED BY <3>1, <3>2, <3>3, <1>3, SMTT(30) DEF QueueSorted
  <2>2. CASE Enqueue(r)
    <3> DEFINE k0 == KeyOf[r]
    <3>1. k0 \in Keys /\ r \in Keyed /\ queue' = [queue EXCEPT ![k0] = Append(@, r)]
      BY <2>2 DEF Enqueue
    <3>2. \A k \in Keys : queue[k] \in Seq(Requests) /\ queue'[k] \in Seq(Requests)
      BY <1>1 DEF TypeOK
    <3>3. \A k \in Keys : k # k0 => queue'[k] = queue[k]
      BY <3>1 DEF TypeOK
    <3>4. Len(queue'[k0]) = Len(queue[k0]) + 1 /\ queue'[k0][Len(queue[k0]) + 1] = r
          /\ \A i \in 1..Len(queue[k0]) : queue'[k0][i] = queue[k0][i]
      BY <3>1, <3>2 DEF TypeOK
    <3>5. \A k \in Keys : \A i \in 1..Len(queue[k]) : queue[k][i] # r /\ queue[k][i] \in Requests
      BY <1>2 DEF QueueSorted, TypeOK
    <3>9. ASSUME NEW k \in Keys, NEW i \in 1..Len(queue'[k])
          PROVE  \/ i \in 1..Len(queue[k]) /\ queue'[k][i] = queue[k][i]
                 \/ k = k0 /\ i = Len(queue[k0]) + 1 /\ queue'[k][i] = r
      <4>1. Len(queue[k0]) \in Nat
        BY <3>1, <3>2
      <4>2. CASE k # k0
        BY <4>2, <3>3
      <4>3. CASE k = k0
        <5>1. i \in 1..(Len(queue[k0]) + 1)
          BY <4>3, <3>4
        <5> QED BY <5>1, <4>1, <4>3, <3>4
      <4> QED BY <4>2, <4>3
    <3>6. \A k \in Keys : \A i \in 1..Len(queue'[k]) :
             queue'[k][i] \in Keyed /\ KeyOf[queue'[k][i]] = k /\ st'[queue'[k][i]] = "queued"
      <4> SUFFICES ASSUME NEW k \in Keys, NEW i \in 1..Len(queue'[k])
                   PROVE  queue'[k][i] \in Keyed /\ KeyOf[queue'[k][i]] = k /\ st'[queue'[k][i]] = "queued"
        OBVIOUS
      <4>1. CASE i \in 1..Len(queue[k]) /\ queue'[k][i] = queue[k][i]
        BY <4>1, <3>5, <1>3 DEF QueueSorted
      <4>2. CASE k = k0 /\ queue'[k][i] = r
        BY <4>2, <3>1, <1>4
      <4> QED BY <4>1, <4>2, <3>9
    <3>7. \A k \in Keys : \A i, j \in 1..Len(queue'[k]) :
             i < j => stamp'[queue'[k][i]] < stamp'[queue'[k][j]]
      <4> SUFFICES ASSUME NEW k \in Keys, NEW i \in 1..Len(queue'[k]), NEW j \in 1..Len(queue'[k]), i < j
                   PROVE  stamp'[queue'[k][i]] < stamp'[queue'[k][j]]
        OBVIOUS
      <4>1. CASE k = k0 /\ j = Len(queue[k0]) + 1
        <5>1. i \in 1..Len(queue[k0]) /\ queue'[k][i] = queue[k][i] /\ queue'[k][j] = r
          BY <4>1, <3>2, <3>4
        <5>2. stamp[queue[k][i]] <= arrived /\ stamp[queue[k][i]] \in Nat /\ arrived \in Nat
          BY <5>1, <4>1, <3>5 DEF LeftInOrder, TypeOK
        <5>3. stamp'[queue[k][i]] = stamp[queue[k][i]]
          BY <5>1, <4>1, <3>5, <1>3
        <5> QED BY <5>1, <5>2, <5>3, <1>4
      <4>2. CASE ~(k = k0 /\ j = Len(queue[k0]) + 1)
        <5>1. i \in 1..Len(queue[k]) /\ j \in 1..Len(queue[k]) /\ queue'[k][i] = queue[k][i] /\ queue'[k][j] = queue[k][j]
          <6>1. Len(queue[k]) \in Nat /\ i \in Nat /\ j \in Nat
            BY <3>2
          <6>2. j \in 1..Len(queue[k]) /\ queue'[k][j] = queue[k][j]
            BY <4>2, <3>9
          <6>3. i < Len(queue[k]) + 1
            BY <6>1, <6>2
          <6>4. i \in 1..Len(queue[k]) /\ queue'[k][i] = queue[k][i]
            BY <3>9, <6>3
          <6> QED BY <6>2, <6>4
        <5> QED BY <5>1, <3>5, <1>3 DEF QueueSorted
      <4> QED BY <4>1, <4>2
    <3>8. ASSUME NEW q \in Requests, st'[q] = "queued"
          PROVE  q \in Keyed /\ \E i \in 1..Len(queue'[KeyOf[q]]) : queue'[KeyOf[q]][i] = q
      <4>1. CASE q = r
        BY <4>1, <3>1, <3>2, <3>4
      <4>2. CASE q # r
        <5>1. q \in Keyed /\ KeyOf[q] \in Keys /\ st[q] = "queued"
          BY <4>2, <3>8, <1>3 DEF QueueSorted
        <5>2. PICK i \in 1..Len(queue[KeyOf[q]]) : queue[KeyOf[q]][i] = q
          BY <5>1 DEF QueueSorted
        <5>3. i \in 1..Len(queue'[KeyOf[q]]) /\ queue'[KeyOf[q]][i] = q
          BY <5>1, <5>2, <3>2, <3>3, <3>4
        <5> QED BY <5>1, <5>3
      <4> QED BY <4>1, <4>2
    <3> QED BY <3>6, <3>7, <3>8 DEF QueueSorted
  <2> QED BY <2>1, <2>2
<1>7. LeftInOrder'
  <2>1. \A q \in Requests : stamp'[q] <= arrived'
    BY <1>2, <1>3, <1>4 DEF LeftInOrder, TypeOK
  <2>2. ASSUME NEW q \in Keyed, NEW p \in Keyed, KeyOf[q] = KeyOf[p],
               st'[q] = "queued", st'[p] \notin {"new", "queued"}
        PROVE  stamp'[p] < stamp'[q]
    <3>1. p # r /\ st[p] \notin {"new", "queued"} /\ stamp'[p] = stamp[p]
      BY <2>2, <1>3, <1>4
    <3>2. CASE q = r
      BY <3>1, <3>2, <1>4 DEF LeftInOrder, TypeOK
    <3>3. CASE q # r
      BY <3>1, <3>3, <2>2, <1>3 DEF LeftInOrder
    <3> QED BY <3>2, <3>3
  <2> QED BY <2>1, <2>2 DEF LeftInOrder
<1>8. Batched'
  <2>1. \A t \in Requests : drainer[t] = "join" => drainer'[t] = "join"
    <3>1. CASE Dispatch(r)
      BY <3>1 DEF Dispatch
    <3>2. CASE Enqueue(r)
      <4>1. drainer[r] # "join" \/ KeyOf[r] \in entry
        BY DEF OneDrainer, Live
      <4> QED BY <3>2, <4>1 DEF Enqueue, TypeOK
    <3> QED BY <3>1, <3>2
  <2>2. \A t \in Requests : r \notin batch[t]
    BY <1>2 DEF Batched
  <2>3. \A t \in Requests : \A q \in batch[t] : q \in Requests /\ q # r
    BY <2>2 DEF TypeOK
  <2>4. \A q \in Keyed : st'[q] \in {"taken", "running"} => q # r /\ st[q] \in {"taken", "running"}
    BY <1>3, <1>4
  <2> QED BY <1>2, <1>3, <2>1, <2>3, <2>4 DEF Batched
<1>9. Quiet'
  <2>1. \A c \in Conns : HandlersOf(c)' \subseteq HandlersOf(c)
    BY <1>3, <1>4 DEF HandlersOf
  <2> QED BY <1>2, <2>1 DEF Quiet, TypeOK
<1> QED BY <1>1, <1>5, <1>6, <1>7, <1>8, <1>9

\* Taking a batch keeps the invariant.
LEMMA TakeQInv ==
    ASSUME QInv, NEW t \in Requests, Take(t)
    PROVE  QInv'
<1> USE RequestsAssumption DEF QInv
<1> DEFINE k0 == KeyOf[t]
<1>1. k0 \in Keys /\ k0 \in entry /\ queue[k0] \in Seq(Requests) /\ drainer[t] = "loop"
  BY DEF Take, TypeOK
<1>2. PICK n \in 1..Len(queue[k0]) :
        /\ IsBatch(queue[k0], n)
        /\ batch' = [batch EXCEPT ![t] = {queue[k0][i] : i \in 1..n}]
        /\ st' = [r \in Requests |-> IF r \in {queue[k0][i] : i \in 1..n} THEN "taken" ELSE st[r]]
        /\ queue' = [queue EXCEPT ![k0] = SubSeq(@, n + 1, Len(@))]
  BY DEF Take
<1> DEFINE front == {queue[k0][i] : i \in 1..n}
<1>3. n \in Nat /\ Len(queue[k0]) \in Nat /\ n <= Len(queue[k0]) /\ 1 <= n
  BY <1>1, <1>2
<1>4. \A r \in front : r \in Keyed /\ KeyOf[r] = k0 /\ st[r] = "queued" /\ st'[r] = "taken"
  BY <1>1, <1>2, <1>3 DEF QueueSorted
<1>5. \A r \in Requests : r \notin front => st'[r] = st[r]
  BY <1>2
<1>6. /\ drainer' = [drainer EXCEPT ![t] = "join"] /\ entry' = entry /\ stamp' = stamp /\ arrived' = arrived
      /\ accepting' = accepting /\ conn' = conn /\ panics' = panics
  BY DEF Take
<1>7. front \subseteq Requests
  BY <1>4
<1>8. queue'[k0] = SubSeq(queue[k0], n + 1, Len(queue[k0])) /\ queue'[k0] \in Seq(Requests)
      /\ \A k \in Keys : k # k0 => queue'[k] = queue[k]
  BY <1>1, <1>2, <1>3, SMTT(30) DEF TypeOK
<1>9. Len(queue'[k0]) = Len(queue[k0]) - n
      /\ \A i \in 1..(Len(queue[k0]) - n) : queue'[k0][i] = queue[k0][i + n]
  BY <1>1, <1>3, <1>8, SMTT(30)
<1>10. TypeOK'
  <2>1. queue' \in [Keys -> Seq(Requests)]
    BY <1>2, <1>8 DEF TypeOK
  <2>2. batch' \in [Requests -> SUBSET Requests]
    BY <1>2, <1>7 DEF TypeOK
  <2>3. st' \in [Requests -> Places]
    BY <1>2 DEF TypeOK, Places
  <2>4. \A k \in Keys \ entry' : queue'[k] = <<>>
    BY <1>1, <1>6, <1>8 DEF TypeOK
  <2> QED BY <1>6, <2>1, <2>2, <2>3, <2>4 DEF TypeOK
<1>11. OneDrainer'
  <2>1. \A u \in Requests : Live(u)' <=> Live(u)
    BY <1>1, <1>6 DEF Live, TypeOK
  <2> QED BY <2>1, <1>6 DEF OneDrainer
\* Who is still in the queue sits n places further to the front.
<1>12. ASSUME NEW k \in Keys, NEW i \in 1..Len(queue'[k])
       PROVE  \E j \in 1..Len(queue[k]) : /\ queue'[k][i] = queue[k][j]
                                           /\ (k = k0 => j = i + n) /\ (k # k0 => j = i)
  <2>1. CASE k # k0
    BY <2>1, <1>8
  <2>2. CASE k = k0
    <3>1. i \in 1..(Len(queue[k0]) - n)
      BY <2>2, <1>9
    <3>2. i + n \in 1..Len(queue[k0]) /\ queue'[k0][i] = queue[k0][i + n]
      BY <3>1, <1>3, <1>9
    <3> QED BY <2>2, <3>2
  <2> QED BY <2>1, <2>2
\* The stamps of the batch are below those of the rest of the queue.
<1>13. ASSUME NEW i \in 1..n, NEW j \in 1..Len(queue[k0]), j > n
       PROVE  stamp[queue[k0][i]] < stamp[queue[k0][j]]
  <2>1. i \in 1..Len(queue[k0]) /\ i < j
    BY <1>3, <1>13
  <2> QED BY <2>1, <1>1 DEF QueueSorted
<1>14. \A j \in 1..Len(queue[k0]) : j > n => queue[k0][j] \notin front
  <2> SUFFICES ASSUME NEW j \in 1..Len(queue[k0]), j > n, NEW i \in 1..n, queue[k0][j] = queue[k0][i]
               PROVE  FALSE
    OBVIOUS
  <2>1. queue[k0][j] \in Requests
    BY <1>1 DEF QueueSorted
  <2>2. stamp[queue[k0][j]] \in Nat
    BY <2>1 DEF TypeOK
  <2> QED BY <1>13, <2>2
<1>15. ASSUME NEW k \in Keys, k # k0, NEW i \in 1..Len(queue[k])
       PROVE  queue[k][i] \notin front
  BY <1>4, <1>15 DEF QueueSorted
<1>16. QueueSorted'
  <2>1. \A k \in Keys : \A i \in 1..Len(queue'[k]) :
           queue'[k][i] \in Keyed /\ KeyOf[queue'[k][i]] = k /\ st'[queue'[k][i]] = "queued"
    <3> SUFFICES ASSUME NEW k \in Keys, NEW i \in 1..Len(queue'[k])
                 PROVE  queue'[k][i] \in Keyed /\ KeyOf[queue'[k][i]] = k /\ st'[queue'[k][i]] = "queued"
      OBVIOUS
    <3>1. PICK j \in 1..Len(queue[k]) : /\ queue'[k][i] = queue[k][j]
                                         /\ (k = k0 => j = i + n) /\ (k # k0 => j = i)
      BY <1>12
    <3>2. i \in Nat /\ i >= 1
      OBVIOUS
    <3>3. queue[k][j] \notin front
      <4>1. CASE k = k0
        BY <4>1, <3>1, <3>2, <1>3, <1>14
      <4>2. CASE k # k0
        BY <4>2, <1>15
      <4> QED BY <4>1, <4>2
    <3>4. queue[k][j] \in Keyed /\ KeyOf[queue[k][j]] = k /\ st[queue[k][j]] = "queued"
      BY DEF QueueSorted
    <3> QED BY <3>1, <3>3, <3>4, <1>5
  <2>2. \A k \in Keys : \A i, j \in 1..Len(queue'[k]) :
           i < j => stamp'[queue'[k][i]] < stamp'[queue'[k][j]]
    <3> SUFFICES ASSUME NEW k \in Keys, NEW i \in 1..Len(queue'[k]), NEW j \in 1..Len(queue'[k]), i < j
                 PROVE  stamp[queue'[k][i]] < stamp[queue'[k][j]]
      BY <1>6
    <3>1. PICK a \in 1..Len(queue[k]) : /\ queue'[k][i] = queue[k][a]
                                         /\ (k = k0 => a = i + n) /\ (k # k0 => a = i)
      BY <1>12
    <3>2. PICK b \in 1..Len(queue[k]) : /\ queue'[k][j] = queue[k][b]
                                         /\ (k = k0 => b = j + n) /\ (k # k0 => b = j)
      BY <1>12
    <3>3. a < b
      <4>1. i \in Nat /\ j \in Nat
        OBVIOUS
      <4> QED BY <3>1, <3>2, <4>1, <1>3
    <3> QED BY <3>1, <3>2, <3>3 DEF QueueSorted
  <2>3. ASSUME NEW r \in Requests, st'[r] = "queued"
        PROVE  r \in Keyed /\ \E i \in 1..Len(queue'[KeyOf[r]]) : queue'[KeyOf[r]][i] = r
    <3>1. r \notin front /\ st[r] = "queued"
      BY <2>3, <1>4, <1>5
    <3>2. r \in Keyed /\ KeyOf[r] \in Keys
      BY <3>1 DEF QueueSorted
    <3>3. PICK j \in 1..Len(queue[KeyOf[r]]) : queue[KeyOf[r]][j] = r
      BY <3>1 DEF QueueSorted
    <3>4. CASE KeyOf[r] # k0
      BY <3>2, <3>3, <3>4, <1>8
    <3>5. CASE KeyOf[r] = k0
      <4>1. ~(j \in 1..n)
        BY <3>1, <3>3, <3>5
      <4>2. j - n \in 1..(Len(queue[k0]) - n) /\ (j - n) + n = j
        BY <4>1, <3>3, <3>5, <1>3
      <4>3. queue'[k0][j - n] = r /\ j - n \in 1..Len(queue'[k0])
        BY <4>2, <1>9, <3>3, <3>5
      <4> QED BY <4>3, <3>2, <3>5
    <3> QED BY <3>4, <3>5
  <2> QED BY <2>1, <2>2, <2>3 DEF QueueSorted
<1>17. LeftInOrder'
  <2>1. ASSUME NEW q \in Keyed, NEW r \in Keyed, KeyOf[q] = KeyOf[r],
               st'[q] = "queued", st'[r] \notin {"new", "queued"}
        PROVE  stamp[r] < stamp[q]
    <3>1. q \notin front /\ st[q] = "queued"
      BY <2>1, <1>4, <1>5
    <3>2. CASE r \notin front
      BY <3>1, <3>2, <2>1, <1>5 DEF LeftInOrder
    <3>3. CASE r \in front
      <4>1. PICK i \in 1..n : r = queue[k0][i]
        BY <3>3
      <4>2. KeyOf[q] = k0
        BY <3>3, <2>1, <1>4
      <4>3. PICK j \in 1..Len(queue[k0]) : queue[k0][j] = q
        BY <3>1, <4>2 DEF QueueSorted
      <4>4. j > n
        <5>1. ~(j \in 1..n)
          BY <3>1, <4>3
        <5> QED BY <5>1, <1>3
      <4> QED BY <4>1, <4>3, <4>4, <1>13
    <3> QED BY <3>2, <3>3
  <2> QED BY <2>1, <1>6 DEF LeftInOrder
<1>18. Batched'
  <2>1. batch[t] = {}
    BY <1>1 DEF Batched
  <2>2. \A u \in Requests : batch'[u] = IF u = t THEN front ELSE batch[u]
    BY <1>2, <1>7 DEF TypeOK
  <2>3. \A u \in Requests : u # t => \A r \in batch[u] : r \notin front
    BY <1>4 DEF Batched
  <2>4. \A u \in Requests : \A r \in batch'[u] :
           drainer'[u] = "join" /\ r \in Keyed /\ KeyOf[r] = KeyOf[u] /\ st'[r] \notin {"new", "queued"}
    <3> SUFFICES ASSUME NEW u \in Requests, NEW r \in batch'[u]
                 PROVE  drainer'[u] = "join" /\ r \in Keyed /\ KeyOf[r] = KeyOf[u] /\ st'[r] \notin {"new", "queued"}
      OBVIOUS
    <3>1. CASE u = t
      BY <3>1, <2>2, <1>4, <1>6 DEF TypeOK
    <3>2. CASE u # t
      BY <3>2, <2>2, <2>3, <1>5, <1>6 DEF Batched, TypeOK
    <3> QED BY <3>1, <3>2
  <2>5. ASSUME NEW r \in Keyed, st'[r] \in {"taken", "running"}
        PROVE  \E u \in Requests : drainer'[u] = "join" /\ r \in batch'[u]
    <3>1. CASE r \in front
      BY <3>1, <2>2, <1>6 DEF TypeOK
    <3>2. CASE r \notin front
      <4>1. PICK u \in Requests : drainer[u] = "join" /\ r \in batch[u]
        BY <3>2, <2>5, <1>5 DEF Batched
      <4> QED BY <4>1, <2>1, <2>2, <1>6 DEF TypeOK
    <3> QED BY <3>1, <3>2
  <2>6. \A u \in Requests : \A q, r \in batch'[u] : q # r => q \in SharedRead /\ r \in SharedRead
    <3> SUFFICES ASSUME NEW u \in Requests, NEW q \in batch'[u], NEW r \in batch'[u], q # r
                 PROVE  q \in SharedRead /\ r \in SharedRead
      OBVIOUS
    <3>1. CASE u = t
      <4>0. q \in front /\ r \in front
        BY <3>1, <2>2
      <4>1. PICK i \in 1..n : q = queue[k0][i]
        BY <4>0
      <4>2. PICK j \in 1..n : r = queue[k0][j]
        BY <4>0
      <4>3. k0 \in Keys /\ IsBatch(queue[k0], n) /\ queue[k0][i] # queue[k0][j]
        BY <4>1, <4>2, <1>1, <1>2
      <4>4. queue[k0][i] \in SharedRead /\ queue[k0][j] \in SharedRead
        BY <4>3, BatchShape
      <4> QED BY <4>1, <4>2, <4>4
    <3>2. CASE u # t
      BY <3>2, <2>2 DEF Batched
    <3> QED BY <3>1, <3>2
  <2> QED BY <2>4, <2>5, <2>6 DEF Batched
<1>19. Quiet'
  <2>1. \A c \in Conns : HandlersOf(c)' \subseteq HandlersOf(c)
    BY <1>2 DEF HandlersOf
  <2> QED BY <1>6, <2>1 DEF Quiet, TypeOK
<1> QED BY <1>10, <1>11, <1>16, <1>17, <1>18, <1>19

\* Steps of a drain task between batches, of the gate and of handlers.
LEMMA RunQInv ==
    ASSUME QInv, NEW r \in Requests, Joined(r) \/ Retire(r) \/ Enter(r) \/ Refuse(r) \/ Finish(r)
    PROVE  QInv'
<1> USE RequestsAssumption DEF QInv
<1>1. CASE Joined(r)
  <2>1. TypeOK'
    BY <1>1 DEF Joined, TypeOK
  <2>2. \A u \in Requests : (Live(u)' <=> Live(u)) /\ batch'[u] = IF u = r THEN {} ELSE batch[u]
    BY <1>1 DEF Joined, TypeOK, Live
  <2>3. OneDrainer'
    BY <1>1, <2>2 DEF OneDrainer, Joined
  <2>4. QueueSorted' /\ LeftInOrder'
    BY <1>1 DEF Joined, QueueSorted, LeftInOrder
  <2>5. Batched'
    <3>1. \A q \in batch[r] : st[q] \notin {"taken", "running"}
      BY <1>1 DEF Joined, Over
    <3>2. \A u \in Requests : u # r => drainer'[u] = drainer[u]
      BY <1>1 DEF Joined, TypeOK
    <3>3. st' = st
      BY <1>1 DEF Joined
    <3> QED BY <2>2, <3>1, <3>2, <3>3 DEF Batched
  <2>6. Quiet'
    BY <1>1 DEF Joined, Quiet, HandlersOf
  <2> QED BY <2>1, <2>3, <2>4, <2>5, <2>6
<1>2. CASE Retire(r)
  <2>1. TypeOK'
    BY <1>2 DEF Retire, TypeOK
  <2>2. \A u \in Requests : Live(u)' <=> Live(u) /\ u # r
    BY <1>2 DEF Retire, TypeOK, Live
  <2>3. Live(r)
    BY <1>2 DEF Retire, Live
  <2>4. OneDrainer'
    BY <1>2, <2>2, <2>3 DEF OneDrainer, Retire
  <2>5. QueueSorted' /\ LeftInOrder'
    BY <1>2 DEF Retire, QueueSorted, LeftInOrder
  <2>6. Batched'
    BY <1>2 DEF Retire, Batched, TypeOK
  <2>7. Quiet'
    BY <1>2 DEF Retire, Quiet, HandlersOf
  <2> QED BY <2>1, <2>4, <2>5, <2>6, <2>7
<1>3. CASE Enter(r) \/ Refuse(r) \/ Finish(r)
  <2>1. /\ UNCHANGED <<queueVars, connVars, panics>>
        /\ st[r] \in {"taken", "running"}
        /\ \E v \in {"running", "refused", "done"} : st' = [st EXCEPT ![r] = v]
    BY <1>3 DEF Enter, Refuse, Finish
  <2>2. st'[r] \in {"running", "refused", "done"} /\ \A q \in Requests : q # r => st'[q] = st[q]
    BY <2>1 DEF TypeOK
  <2>3. TypeOK'
    BY <2>1 DEF TypeOK, Places, queueVars, connVars
  <2>4. OneDrainer'
    BY <2>1 DEF OneDrainer, Live, queueVars
  <2>5. QueueSorted'
    <3>1. \A k \in Keys : \A i \in 1..Len(queue[k]) : queue[k][i] \in Requests /\ queue[k][i] # r
      BY <2>1 DEF QueueSorted
    <3> QED BY <2>1, <2>2, <3>1 DEF QueueSorted, queueVars
  <2>6. LeftInOrder'
    BY <2>1, <2>2 DEF LeftInOrder, queueVars
  <2>7. Batched'
    BY <2>1, <2>2 DEF Batched, queueVars, TypeOK
  <2>8. Quiet'
    <3>1. ASSUME NEW c \in Conns, c \notin accepting
          PROVE  HandlersOf(c)' \subseteq HandlersOf(c)
      <4> SUFFICES ASSUME NEW q \in Gated, ConnOf[q] = c, st'[q] = "running"
                   PROVE  st[q] = "running"
        BY DEF HandlersOf
      <4>1. CASE q # r
        BY <4>1, <2>2
      <4>2. CASE q = r
        BY <4>2, <3>1, <1>3 DEF Enter, Refuse, Finish, TypeOK
      <4> QED BY <4>1, <4>2
    <3> QED BY <2>1, <3>1 DEF Quiet, connVars, TypeOK
  <2> QED BY <2>3, <2>4, <2>5, <2>6, <2>7, <2>8
<1> QED BY <1>1, <1>2, <1>3

\* What a panic does: the requests R end together, with their drain task
\* if they have one.
Wrecks(R) ==
    /\ \A q \in R : st[q] \in {"taken", "running"}
    /\ st' = [q \in Requests |-> IF q \in R THEN "cancelled" ELSE st[q]]
    /\ \/ UNCHANGED <<drainer, batch>> /\ R \cap Keyed = {}
       \/ \E t \in Requests : /\ drainer[t] = "join" /\ drainer' = [drainer EXCEPT ![t] = "dead"]
                               /\ batch' = [batch EXCEPT ![t] = {}]
                               /\ R = {q \in batch[t] : st[q] \notin Over}

\* A panic ends some set of requests.
LEMMA PanicShape ==
    ASSUME QInv, NEW r \in Requests, Panic(r)
    PROVE  \E R \in SUBSET Requests : Wrecks(R)
<1> USE RequestsAssumption DEF QInv
<1>1. CASE r \notin Keyed /\ st' = [st EXCEPT ![r] = "cancelled"] /\ UNCHANGED <<drainer, batch>>
  <2>1. st' = [q \in Requests |-> IF q \in {r} THEN "cancelled" ELSE st[q]]
    BY <1>1 DEF TypeOK
  <2>2. Wrecks({r})
    BY <1>1, <2>1, ZenonT(60) DEF Wrecks, Panic
  <2> QED BY <2>2
<1>2. ASSUME NEW t \in Requests, drainer[t] = "join", r \in batch[t],
             st' = [q \in Requests |-> IF q \in batch[t] /\ st[q] \notin Over THEN "cancelled" ELSE st[q]],
             drainer' = [drainer EXCEPT ![t] = "dead"], batch' = [batch EXCEPT ![t] = {}]
      PROVE  \E R \in SUBSET Requests : Wrecks(R)
  <2> DEFINE R == {q \in batch[t] : st[q] \notin Over}
  <2>1. R \subseteq Requests /\ \A q \in R : st[q] \in {"taken", "running"}
    BY DEF Batched, TypeOK, Places, Over
  <2>2. st' = [q \in Requests |-> IF q \in R THEN "cancelled" ELSE st[q]]
    BY <1>2
  <2>3. Wrecks(R)
    BY <1>2, <2>1, <2>2 DEF Wrecks
  <2> QED BY <2>1, <2>3
<1> QED BY <1>1, <1>2 DEF Panic

\* A panic keeps the invariant.
LEMMA PanicQInv ==
    ASSUME QInv, NEW r \in Requests, Panic(r)
    PROVE  QInv'
<1> USE RequestsAssumption DEF QInv
<1>1. UNCHANGED <<queue, entry, stamp, arrived, accepting, conn>> /\ panics' \in 0..MaxPanics
  BY DEF Panic, connVars, TypeOK
<1>2. PICK R \in SUBSET Requests : Wrecks(R)
  BY PanicShape
<1>3. \A q \in Requests : (q \in R => st[q] \in {"taken", "running"} /\ st'[q] = "cancelled")
                          /\ (q \notin R => st'[q] = st[q])
  BY <1>2 DEF Wrecks
<1>11. batch' \in [Requests -> SUBSET Requests] /\ st' \in [Requests -> Places]
       /\ drainer' \in [Requests -> {"none", "loop", "join", "ended", "dead"}]
  <2>1. CASE UNCHANGED <<drainer, batch>>
    BY <2>1, <1>2 DEF Wrecks, TypeOK, Places
  <2>2. CASE \E t \in Requests : drainer' = [drainer EXCEPT ![t] = "dead"] /\ batch' = [batch EXCEPT ![t] = {}]
    BY <2>2, <1>2 DEF Wrecks, TypeOK, Places
  <2> QED BY <2>1, <2>2, <1>2 DEF Wrecks
<1>4. TypeOK'
  BY <1>1, <1>11 DEF TypeOK
<1>5. \A t \in Requests : (Live(t)' => Live(t)) /\ batch'[t] \subseteq batch[t]
                          /\ (batch'[t] # {} => drainer'[t] = drainer[t])
  <2>1. CASE UNCHANGED <<drainer, batch>>
    BY <2>1 DEF Live
  <2>2. ASSUME NEW u \in Requests, drainer' = [drainer EXCEPT ![u] = "dead"],
               batch' = [batch EXCEPT ![u] = {}]
        PROVE  \A t \in Requests : (Live(t)' => Live(t)) /\ batch'[t] \subseteq batch[t]
                                  /\ (batch'[t] # {} => drainer'[t] = drainer[t])
    BY <2>2 DEF TypeOK, Live
  <2> QED BY <2>1, <2>2, <1>2 DEF Wrecks
<1>6. OneDrainer'
  BY <1>1, <1>5 DEF OneDrainer
<1>7. QueueSorted'
  <2>1. \A k \in Keys : \A i \in 1..Len(queue[k]) : queue[k][i] \in Requests /\ queue[k][i] \notin R
    BY <1>3 DEF QueueSorted
  <2> QED BY <1>1, <1>3, <2>1, SMTT(30) DEF QueueSorted
<1>8. LeftInOrder'
  BY <1>1, <1>3 DEF LeftInOrder
<1>9. Batched'
  <2>1. ASSUME NEW q \in Keyed, st'[q] \in {"taken", "running"}
        PROVE  \E t \in Requests : drainer'[t] = "join" /\ q \in batch'[t]
    <3>1. q \notin R /\ st[q] \in {"taken", "running"}
      BY <2>1, <1>3
    <3>2. PICK t \in Requests : drainer[t] = "join" /\ q \in batch[t]
      BY <3>1 DEF Batched
    <3>3. drainer'[t] = "join" /\ q \in batch'[t]
      BY <3>1, <3>2, <1>2 DEF Wrecks, Over, TypeOK
    <3> QED BY <3>3
  <2>2. \A t \in Requests : \A q \in batch'[t] :
           drainer'[t] = "join" /\ q \in Keyed /\ KeyOf[q] = KeyOf[t] /\ st'[q] \notin {"new", "queued"}
    BY <1>3, <1>5 DEF Batched
  <2>3. \A t \in Requests : \A p, q \in batch'[t] : p # q => p \in SharedRead /\ q \in SharedRead
    BY <1>5 DEF Batched
  <2> QED BY <2>1, <2>2, <2>3 DEF Batched
<1>10. Quiet'
  <2>1. \A c \in Conns : HandlersOf(c)' \subseteq HandlersOf(c)
    BY <1>3 DEF HandlersOf
  <2> QED BY <1>1, <2>1 DEF Quiet, TypeOK
<1> QED BY <1>4, <1>6, <1>7, <1>8, <1>9, <1>10

\* Closing and draining connections keeps the invariant.
LEMMA ConnQInv ==
    ASSUME QInv, NEW c \in Conns, Close(c) \/ Drained(c) \/ DrainTimeout(c)
    PROVE  QInv'
<1> USE DEF QInv, queueVars
<1>1. UNCHANGED <<queueVars, st, panics>>
  BY DEF Close, Drained, DrainTimeout
<1>2. TypeOK'
  BY <1>1 DEF TypeOK, Close, Drained, DrainTimeout
<1>3. OneDrainer' /\ QueueSorted' /\ LeftInOrder' /\ Batched'
  BY <1>1 DEF OneDrainer, QueueSorted, LeftInOrder, Batched, Live
<1>4. Quiet'
  BY <1>1 DEF Quiet, HandlersOf, Close, Drained, DrainTimeout, TypeOK
<1> QED BY <1>2, <1>3, <1>4

\* A stuttering step keeps the invariant.
LEMMA StutterQInv == QInv /\ UNCHANGED vars => QInv'
BY DEF QInv, vars, TypeOK, OneDrainer, QueueSorted, LeftInOrder, Batched, Quiet, Live, HandlersOf

\* QInv is an invariant of the queues.
THEOREM QueuesInvariant == Spec => []QInv
<1>1. ASSUME QInv, [Next]_vars PROVE QInv'
  <2>1. CASE UNCHANGED vars
    BY <1>1, <2>1, StutterQInv
  <2>2. CASE \E r \in Requests : Dispatch(r) \/ Enqueue(r)
    BY <1>1, <2>2, ArriveQInv
  <2>3. CASE \E t \in Requests : Take(t)
    BY <1>1, <2>3, TakeQInv
  <2>4. CASE \E r \in Requests : Joined(r) \/ Retire(r) \/ Enter(r) \/ Refuse(r) \/ Finish(r)
    BY <1>1, <2>4, RunQInv
  <2>5. CASE \E r \in Requests : Panic(r)
    BY <1>1, <2>5, PanicQInv
  <2>6. CASE ConnStep
    BY <1>1, <2>6, ConnQInv DEF ConnStep
  <2> QED BY <1>1, <2>1, <2>2, <2>3, <2>4, <2>5, <2>6 DEF Next, QueueStep, HandlerStep
<1> QED BY InitQInv, <1>1, PTL DEF Spec

\* The type invariant of the queues holds for any requests, keys and
\* connections.
THEOREM QueuesTypeCorrect == Spec => []TypeOK
BY QueuesInvariant, PTL DEF QInv

\* No handler of a connection starts once its cleanup saw it drained.
THEOREM DrainedStaysQuiet == Spec => QuietAfterDrain
<1>1. ASSUME QInv, QInv', [Next]_vars
      PROVE  [\A c \in Conns : conn[c] = "drained" => HandlersOf(c)' = {}]_vars
  <2> SUFFICES ASSUME NEW c \in Conns, conn[c] = "drained", Next
               PROVE  HandlersOf(c)' = {}
    BY <1>1, SMTT(30) DEF vars
  <2>1. conn'[c] = "drained"
    BY <1>1 DEF QInv, TypeOK, Next, QueueStep, ConnStep, HandlerStep, Dispatch, Enqueue, Arrive,
        Take, Joined, Retire, Enter, Refuse, Finish, Panic, Close, Drained, DrainTimeout, connVars
  <2> QED BY <2>1, <1>1 DEF QInv, Quiet
<1> QED BY QueuesInvariant, <1>1, PTL DEF QuietAfterDrain, Spec

\* The gate lets a request in only when every earlier request it conflicts
\* with is over: what was taken before it shares its batch, and what is
\* still queued came later.
LEMMA EnterGrants ==
    ASSUME QInv, NEW r \in Requests, Enter(r)
    PROVE  RW!Grant(r)
<1> USE RequestsAssumption DEF QInv
<1>1. st[r] = "taken" /\ st' = [st EXCEPT ![r] = "running"] /\ UNCHANGED <<stamp, arrived>>
  BY DEF Enter, queueVars
<1>2. Phase[r] = "waiting"
  BY <1>1 DEF Phase
<1>3. Phase' = [Phase EXCEPT ![r] = "running"]
  BY <1>1 DEF Phase, TypeOK
<1>4. ASSUME NEW q \in Requests, Phase[q] # "new", stamp[q] < stamp[r], RW!Conflict(q, r)
      PROVE  Phase[q] = "over"
  <2>1. q \in Keyed /\ r \in Keyed /\ KeyOf[q] = KeyOf[r] /\ ~(q \in SharedRead /\ r \in SharedRead)
    BY <1>4 DEF RW!Conflict
  <2>2. st[q] # "new"
    BY <1>4 DEF Phase
  <2>3. stamp[q] \in Nat /\ stamp[r] \in Nat
    BY DEF TypeOK
  <2>4. st[q] # "queued"
    BY <2>1, <2>3, <1>1, <1>4 DEF LeftInOrder
  <2>5. st[q] \notin {"taken", "running"}
    <3> SUFFICES ASSUME st[q] \in {"taken", "running"} PROVE FALSE
      OBVIOUS
    <3>1. PICK t \in Requests : drainer[t] = "join" /\ q \in batch[t]
      BY <2>1 DEF Batched
    <3>2. PICK u \in Requests : drainer[u] = "join" /\ r \in batch[u]
      BY <2>1, <1>1 DEF Batched
    <3>3. KeyOf[t] = KeyOf[u]
      BY <3>1, <3>2, <2>1 DEF Batched
    <3>4. t = u
      BY <3>1, <3>2, <3>3 DEF OneDrainer, Live
    <3>5. q # r
      BY <1>4, <2>3
    <3> QED BY <3>1, <3>2, <3>4, <3>5, <2>1 DEF Batched
  <2> QED BY <2>2, <2>4, <2>5 DEF Phase, TypeOK, Places
<1> QED BY <1>1, <1>2, <1>3, <1>4 DEF RW!Grant

\* Every step of the queues is a step of RwOrder or leaves it unchanged.
LEMMA StepRefines ==
    ASSUME QInv, [Next]_vars
    PROVE  [RW!Next]_(RW!vars)
<1> USE RequestsAssumption DEF QInv
<1>1. CASE UNCHANGED <<st, stamp, arrived>>
  BY <1>1 DEF RW!vars, Phase
<1>2. ASSUME NEW r \in Requests, Dispatch(r) \/ Enqueue(r)
      PROVE  RW!Submit(r)
  <2>1. st[r] = "new" /\ arrived' = arrived + 1 /\ stamp' = [stamp EXCEPT ![r] = arrived + 1]
        /\ \E v \in {"taken", "queued"} : st' = [st EXCEPT ![r] = v]
    BY <1>2 DEF Dispatch, Enqueue, Arrive
  <2>2. Phase' = [Phase EXCEPT ![r] = "waiting"] /\ Phase[r] = "new"
    BY <2>1, ZenonT(60) DEF Phase, TypeOK
  <2> QED BY <2>1, <2>2 DEF RW!Submit
<1>3. ASSUME NEW t \in Requests, Take(t)
      PROVE  UNCHANGED <<Phase, stamp, arrived>>
  <2>1. PICK F \in SUBSET Requests :
          /\ \A r \in F : st[r] = "queued"
          /\ st' = [r \in Requests |-> IF r \in F THEN "taken" ELSE st[r]]
    <3>1. KeyOf[t] \in Keys
      OBVIOUS
    <3>2. PICK n \in 1..Len(queue[KeyOf[t]]) :
            st' = [r \in Requests |-> IF r \in {queue[KeyOf[t]][i] : i \in 1..n} THEN "taken" ELSE st[r]]
      BY <1>3 DEF Take
    <3>3. \A i \in 1..n : i \in 1..Len(queue[KeyOf[t]])
      BY <3>1, <3>2 DEF TypeOK
    <3>4. \A r \in {queue[KeyOf[t]][i] : i \in 1..n} : r \in Requests /\ st[r] = "queued"
      BY <3>1, <3>3 DEF QueueSorted
    <3> QED BY <3>2, <3>4
  <2>2. Phase' = Phase
    BY <2>1 DEF Phase
  <2> QED BY <2>2, <1>3 DEF Take
<1>4. ASSUME NEW r \in Requests, Refuse(r) \/ Finish(r)
      PROVE  RW!End({r})
  <2>1. st[r] \in {"taken", "running"} /\ UNCHANGED <<stamp, arrived>>
        /\ \E v \in {"refused", "done"} : st' = [st EXCEPT ![r] = v]
    BY <1>4 DEF Refuse, Finish, queueVars
  <2>2. Phase[r] \in {"waiting", "running"}
        /\ Phase' = [q \in Requests |-> IF q \in {r} THEN "over" ELSE Phase[q]]
    BY <2>1 DEF Phase, TypeOK
  <2> QED BY <2>1, <2>2 DEF RW!End
<1>5. ASSUME NEW r \in Requests, Panic(r)
      PROVE  \E R \in SUBSET Requests : RW!End(R)
  <2>1. PICK R \in SUBSET Requests : Wrecks(R)
    BY <1>5, PanicShape
  <2>2. UNCHANGED <<stamp, arrived>>
    BY <1>5 DEF Panic
  <2>3. \A q \in R : Phase[q] \in {"waiting", "running"}
    BY <2>1 DEF Phase, Wrecks
  <2>4. Phase' = [q \in Requests |-> IF q \in R THEN "over" ELSE Phase[q]]
    BY <2>1 DEF Phase, Wrecks
  <2> QED BY <2>2, <2>3, <2>4 DEF RW!End
<1>6. CASE \E r \in Requests : Joined(r) \/ Retire(r)
  BY <1>6, <1>1 DEF Joined, Retire
<1>7. CASE ConnStep
  BY <1>7, <1>1 DEF ConnStep, Close, Drained, DrainTimeout, queueVars
<1>8. CASE \E r \in Requests : Dispatch(r) \/ Enqueue(r)
  BY <1>8, <1>2 DEF RW!Next
<1>9. CASE \E t \in Requests : Take(t)
  BY <1>9, <1>3 DEF RW!vars
<1>10. CASE \E r \in Requests : Enter(r)
  BY <1>10, EnterGrants DEF RW!Next
<1>11. CASE \E r \in Requests : Refuse(r) \/ Finish(r)
  <2>1. PICK r \in Requests : Refuse(r) \/ Finish(r)
    BY <1>11
  <2>2. RW!End({r}) /\ {r} \in SUBSET Requests
    BY <2>1, <1>4
  <2> QED BY <2>2 DEF RW!Next
<1>12. CASE \E r \in Requests : Panic(r)
  BY <1>12, <1>5 DEF RW!Next
<1>13. CASE UNCHANGED vars
  BY <1>13, <1>1 DEF vars
<1> QED BY <1>6, <1>7, <1>8, <1>9, <1>10, <1>11, <1>12, <1>13 DEF Next, QueueStep, HandlerStep

\* The queues with their drain tasks implement the readers-writer order per
\* key, for any number of requests, keys and connections.
THEOREM QueuesImplementOrder == Spec => GrantedInOrder
<1>1. Init => RW!Init
  BY DEF Init, RW!Init, Phase
<1> QED BY <1>1, StepRefines, QueuesInvariant, PTL DEF Spec, GrantedInOrder, RW!Spec

-----------------------------------------------------------------------------
(* CommandExec.                                                            *)

\* Requests whose handler has not begun have left no trace, and a command has
\* no driver before the handler that starts it is over.
Fresh == \A r \in Requests :
    /\ st[r] \in {"new", "queued", "taken"} => hpc[r] = "begin"
    /\ st[r] \in {"new", "queued", "taken", "running"} => drv[r] = "none"

\* Commands that start has registered and nobody has removed.
Registered(p) ==
    \/ st[p] = "running" /\ p \in Starts /\ hpc[p] = "spawn"
    \/ drv[p] \in {"loop", "write", "flush", "returned"}

\* The sessions map: one session per process id, and every registered command of
\* a connection that is not cleaned up.
SessionMap ==
    /\ sess \subseteq Starts
    /\ \A p, q \in sess : SamePid(p, q) => p = q
    /\ \A p \in Requests : Registered(p) /\ ConnOf[p] \notin cleaned => p \in sess

Holds(s, e) == \E i \in 1..Len(s) : s[i] = e

\* A handler that waits for an answer is in the channel of a driver that will
\* come to it, or has its answer.
WaiterHeard == \A r \in Controls :
    st[r] = "running" /\ hpc[r] = "wait" /\ ans[r] = "none"
    => /\ ~ReceiverGone(target[r])
       /\ Holds(ctl[target[r]], r)

\* Control requests go to a command of their own process id; a driver that
\* writes is working on a client's request.
Addressed ==
    /\ \A r \in Controls : hpc[r] \in {"send", "wait"} => target[r] \in Starts /\ SamePid(r, target[r])
    /\ \A p \in Requests : drv[p] = "write" => ctl[p] # <<>> /\ Head(ctl[p]) # Closer

\* After the cleanup of a connection whose handlers were finished, each of its
\* commands that is still alive has been told to end, or is about to be.
TerminateComing == \A p \in Requests :
    /\ conn[ConnOf[p]] = "drained" /\ ConnOf[p] \in cleaned
    /\ drv[p] \in {"loop", "write"} /\ child[p] = "alive"
    => p \in doomed[ConnOf[p]] \/ Holds(ctl[p], Closer)

Cleaned == \A c \in cleaned : conn[c] \in {"drained", "timedout"}

ExecTypes ==
    /\ hpc \in [Requests -> {"begin", "spawn", "send", "wait"}]
    /\ target \in [Requests -> Requests \cup {NoCommand}]
    /\ ctl \in [Requests -> Seq(Requests \cup {Closer})]
    /\ drv \in [Requests -> {"none", "loop", "write", "flush", "returned", "ended"}]
    /\ child \in [Requests -> {"none", "alive", "dying", "gone"}]
    /\ ans \in [Requests -> {"none", "ok", "err"}]
    /\ doomed \in [Conns -> SUBSET Requests] /\ cleaned \subseteq Conns

EInv == ExecTypes /\ Fresh /\ SessionMap /\ Addressed /\ WaiterHeard /\ TerminateComing /\ Cleaned

\* Two requests of one process id are of one connection, and no two of them run
\* at a time.
LEMMA SamePidFacts ==
    ASSUME NEW p \in Requests, NEW q \in Requests, SamePid(p, q)
    PROVE  SamePid(q, p) /\ ConnOf[p] = ConnOf[q]
BY CommandAssumption DEF SamePid

LEMMA OneRuns ==
    ASSUME QInv, NEW p \in Requests, NEW q \in Requests, SamePid(p, q),
           st[p] = "running", st[q] = "running"
    PROVE  p = q
<1>1. CASE p \notin Keyed
  BY <1>1 DEF SamePid
<1>2. CASE p \in Keyed
  <2>1. q \in Keyed /\ KeyOf[q] = KeyOf[p]
    BY <1>2 DEF SamePid
  <2>2. PICK t \in Requests : drainer[t] = "join" /\ p \in batch[t]
    BY <1>2 DEF QInv, Batched
  <2>3. PICK u \in Requests : drainer[u] = "join" /\ q \in batch[u]
    BY <2>1 DEF QInv, Batched
  <2>4. KeyOf[t] = KeyOf[u]
    BY <2>1, <2>2, <2>3 DEF QInv, Batched
  <2>5. t = u
    BY <2>2, <2>3, <2>4 DEF QInv, OneDrainer, Live
  <2> QED BY <2>2, <2>3, <2>5, CommandAssumption DEF QInv, Batched
<1> QED BY <1>1, <1>2

\* What the queues do to requests: nobody starts over, and a handler begins with
\* a request that was taken.
LEMMA QueueMoves ==
    ASSUME QInv, QueueStep \/ ConnStep, NEW r \in Requests
    PROVE  /\ st'[r] \in {"new", "queued", "taken"} => st[r] \in {"new", "queued", "taken"}
           /\ st'[r] = "running" => st[r] \in {"taken", "running"}
<1> USE DEF QInv, TypeOK
<1>1. ASSUME NEW q \in Requests, Dispatch(q) \/ Enqueue(q) \/ Enter(q) \/ Refuse(q)
      PROVE  \/ st[q] = "new" /\ \E v \in {"taken", "queued"} : st' = [st EXCEPT ![q] = v]
             \/ st[q] = "taken" /\ \E v \in {"running", "refused"} : st' = [st EXCEPT ![q] = v]
  BY <1>1 DEF Dispatch, Enqueue, Arrive, Enter, Refuse
<1>2. CASE \E q \in Requests : Dispatch(q) \/ Enqueue(q) \/ Enter(q) \/ Refuse(q)
  BY <1>1, <1>2
<1>3. ASSUME NEW t \in Requests, Take(t)
      PROVE  st'[r] = st[r] \/ (st[r] = "queued" /\ st'[r] = "taken")
  <2>1. KeyOf[t] \in Keys
    BY RequestsAssumption
  <2>2. PICK n \in 1..Len(queue[KeyOf[t]]) :
           st' = [q \in Requests |-> IF q \in {queue[KeyOf[t]][i] : i \in 1..n} THEN "taken" ELSE st[q]]
    BY <1>3 DEF Take
  <2>3. \A i \in 1..n : st[queue[KeyOf[t]][i]] = "queued"
    BY <2>1 DEF QueueSorted
  <2> QED BY <2>2, <2>3
<1>4. CASE \E t \in Requests : Take(t)
  BY <1>3, <1>4
<1>5. CASE (\E t \in Requests : Joined(t) \/ Retire(t)) \/ ConnStep
  BY <1>5 DEF Joined, Retire, ConnStep, Close, Drained, DrainTimeout
<1> QED BY <1>2, <1>4, <1>5 DEF QueueStep

\* The teardown of a connection does not go back.
LEMMA ConnMoves ==
    ASSUME QInv, QueueStep \/ ConnStep, NEW c \in Conns, conn[c] \in {"drained", "timedout"}
    PROVE  conn'[c] = conn[c]
BY DEF QInv, TypeOK, QueueStep, ConnStep, Dispatch, Enqueue, Arrive, Take, Joined, Retire, Enter,
       Refuse, Close, Drained, DrainTimeout, connVars

LEMMA ExecInitInv == ExecInit => EInv
<1> SUFFICES ASSUME ExecInit PROVE EInv
  OBVIOUS
<1> USE DEF ExecInit, Init
<1>1. ExecTypes
  <2>1. ctl \in [Requests -> Seq(Requests \cup {Closer})]
    OBVIOUS
  <2> QED BY <2>1 DEF ExecTypes
<1>2. Fresh /\ SessionMap /\ Addressed /\ WaiterHeard
  BY DEF Fresh, SessionMap, Registered, Addressed, WaiterHeard, Controls
<1>3. TerminateComing /\ Cleaned
  BY DEF TerminateComing, Cleaned
<1> QED BY <1>1, <1>2, <1>3 DEF EInv

LEMMA QueueStepEInv ==
    ASSUME QInv, EInv, QueueStep \/ ConnStep, UNCHANGED procVars
    PROVE  EInv'
<1> USE DEF procVars, EInv
<1>1. ExecTypes'
  BY DEF ExecTypes
<1>2. Fresh'
  BY QueueMoves DEF Fresh
<1>3. \A r \in Requests : st'[r] = "running" /\ hpc[r] # "begin" => st[r] = "running"
  BY QueueMoves DEF Fresh
<1>4. SessionMap'
  <2>1. \A p \in Requests : Registered(p)' => Registered(p)
    BY <1>3 DEF Registered
  <2> QED BY <2>1 DEF SessionMap, SamePid
<1>5. Addressed'
  BY DEF Addressed, SamePid, Controls
<1>6. WaiterHeard'
  BY <1>3 DEF WaiterHeard, ReceiverGone, Controls
<1>7. ASSUME NEW c \in cleaned PROVE conn'[c] = conn[c]
  BY <1>7, ConnMoves DEF Cleaned, ExecTypes
<1>8. TerminateComing'
  BY <1>7 DEF TerminateComing
<1>9. Cleaned'
  BY <1>7 DEF Cleaned
<1> QED BY <1>1, <1>2, <1>4, <1>5, <1>6, <1>8, <1>9

\* A handler that returns takes nothing with it that others rely on.
LEMMA ReturnsEInv ==
    ASSUME QInv, EInv, NEW r \in Requests, Finish(r),
           ans' = ans \/ ans' = [ans EXCEPT ![r] = "err"],
           UNCHANGED <<sess, hpc, target, ctl, drv, child, doomed, cleaned>>,
           r \notin Starts \/ hpc[r] # "spawn"
    PROVE  EInv'
<1> USE DEF EInv
<1>0. st' = [st EXCEPT ![r] = "done"] /\ st[r] = "running" /\ conn' = conn /\ st \in [Requests -> Places]
  BY DEF Finish, connVars, QInv, TypeOK
<1>1. ExecTypes'
  BY DEF ExecTypes
<1>2. Fresh'
  BY <1>0 DEF Fresh
<1>3. SessionMap'
  <2>1. \A p \in Requests : Registered(p)' => Registered(p)
    BY <1>0 DEF Registered
  <2> QED BY <2>1 DEF SessionMap, SamePid
<1>4. Addressed'
  BY DEF Addressed, SamePid, Controls
<1>5. WaiterHeard'
  <2>1. \A q \in Controls : st'[q] = "running" => st[q] = "running" /\ q # r
    BY <1>0 DEF Controls
  <2>2. \A q \in Controls : q # r => ans'[q] = ans[q]
    BY DEF ExecTypes, Controls
  <2> QED BY <2>1, <2>2 DEF WaiterHeard, ReceiverGone, Controls
<1>6. TerminateComing' /\ Cleaned'
  BY <1>0 DEF TerminateComing, Cleaned
<1> QED BY <1>1, <1>2, <1>3, <1>4, <1>5, <1>6

\* The handlers that are refused, fail to send, or have their answer.
LEMMA RefusedEInv ==
    ASSUME QInv, EInv, NEW r \in Requests,
           StartRejected(r) \/ ControlRejected(r) \/ SendFails(r) \/ Answered(r)
    PROVE  EInv'
<1>1. Finish(r) /\ UNCHANGED <<sess, hpc, target, ctl, drv, child, doomed, cleaned>>
  BY DEF StartRejected, ControlRejected, SendFails, Answered, procVars
<1>2. ans' = ans \/ ans' = [ans EXCEPT ![r] = "err"]
  BY DEF StartRejected, ControlRejected, SendFails, Answered, procVars
<1>3. r \notin Starts \/ hpc[r] # "spawn"
  BY DEF StartRejected, ControlRejected, SendFails, Answered, InHandler, Controls
<1> QED BY <1>1, <1>2, <1>3, ReturnsEInv

\* A start registers its session under an id that is free.
LEMMA RegistersEInv ==
    ASSUME QInv, EInv, NEW r \in Requests, StartRegisters(r)
    PROVE  EInv'
<1> USE DEF EInv
<1>0. /\ st[r] = "running" /\ r \in Starts /\ hpc[r] = "begin"
      /\ \A p \in sess : ~SamePid(r, p)
      /\ sess' = sess \cup {r} /\ hpc' = [hpc EXCEPT ![r] = "spawn"]
      /\ UNCHANGED <<vars, target, ctl, drv, child, ans, doomed, cleaned>>
  BY DEF StartRegisters, InHandler
<1>1. st' = st /\ conn' = conn
  BY <1>0 DEF vars
<1>2. /\ hpc \in [Requests -> {"begin", "spawn", "send", "wait"}] /\ hpc'[r] = "spawn"
      /\ \A q \in Requests : q # r => hpc'[q] = hpc[q]
  BY <1>0 DEF ExecTypes
<1>3. ExecTypes'
  BY <1>0 DEF ExecTypes
<1>4. Fresh'
  BY <1>0, <1>1, <1>2 DEF Fresh
<1>5. SessionMap'
  <2>1. sess' \subseteq Starts
    BY <1>0 DEF SessionMap
  <2>2. ASSUME NEW p \in sess', NEW q \in sess', SamePid(p, q) PROVE p = q
    <3>1. p \in Requests /\ q \in Requests
      BY <2>1, CommandAssumption
    <3>2. SamePid(q, p)
      BY <2>2, <3>1, SamePidFacts
    <3> QED BY <2>2, <3>2, <1>0 DEF SessionMap
  <2>3. ASSUME NEW p \in Requests, Registered(p)', ConnOf[p] \notin cleaned PROVE p \in sess'
    BY <2>3, <1>0, <1>1, <1>2 DEF SessionMap, Registered
  <2> QED BY <2>1, <2>2, <2>3, <1>0 DEF SessionMap, SamePid
<1>6. Addressed'
  BY <1>0, <1>2 DEF Addressed, SamePid, Controls
<1>7. WaiterHeard'
  BY <1>0, <1>1, <1>2 DEF WaiterHeard, ReceiverGone, Controls
<1>8. TerminateComing' /\ Cleaned'
  BY <1>0, <1>1 DEF TerminateComing, Cleaned
<1> QED BY <1>3, <1>4, <1>5, <1>6, <1>7, <1>8

\* The child is spawned and the driver takes over.
LEMMA SpawnedEInv ==
    ASSUME QInv, EInv, NEW r \in Requests, StartSpawned(r)
    PROVE  EInv'
<1> USE DEF EInv
<1>0. /\ st[r] = "running" /\ r \in Starts /\ hpc[r] = "spawn"
      /\ drv' = [drv EXCEPT ![r] = "loop"] /\ child' = [child EXCEPT ![r] = "alive"]
      /\ st' = [st EXCEPT ![r] = "done"] /\ conn' = conn /\ st \in [Requests -> Places]
      /\ UNCHANGED <<sess, hpc, target, ctl, ans, doomed, cleaned>>
  BY DEF StartSpawned, InHandler, Finish, connVars, QInv, TypeOK
<1>1. /\ drv'[r] = "loop" /\ \A q \in Requests : q # r => drv'[q] = drv[q] /\ child'[q] = child[q]
  BY <1>0 DEF ExecTypes
<1>2. st'[r] = "done" /\ \A q \in Requests : q # r => st'[q] = st[q]
  BY <1>0
<1>3. ExecTypes'
  BY <1>0 DEF ExecTypes
<1>4. Fresh'
  BY <1>0, <1>1, <1>2 DEF Fresh
<1>5. SessionMap'
  <2>1. \A p \in Requests : Registered(p)' => Registered(p)
    BY <1>0, <1>1, <1>2 DEF Registered
  <2> QED BY <2>1, <1>0 DEF SessionMap, SamePid
<1>6. Addressed'
  BY <1>0, <1>1 DEF Addressed, SamePid, Controls
<1>7. WaiterHeard'
  <2> SUFFICES ASSUME NEW q \in Controls, st'[q] = "running", hpc'[q] = "wait", ans'[q] = "none"
               PROVE  /\ drv'[target'[q]] \notin {"returned", "ended"}
                      /\ Holds(ctl'[target'[q]], q)
    BY DEF WaiterHeard, ReceiverGone, Controls
  <2>1. q \in Requests /\ st[q] = "running" /\ q # r
    BY <1>2 DEF Controls
  <2>2. target[q] \in Requests
    BY <1>0, CommandAssumption DEF Addressed
  <2> QED BY <2>1, <2>2, <1>0, <1>1 DEF WaiterHeard, ReceiverGone
<1>8. TerminateComing'
  <2>1. conn[ConnOf[r]] # "drained"
    BY <1>0, CommandAssumption, RequestsAssumption DEF QInv, Quiet, HandlersOf
  <2> QED BY <1>0, <1>1, <2>1 DEF TerminateComing
<1>9. Cleaned'
  BY <1>0 DEF Cleaned
<1> QED BY <1>3, <1>4, <1>5, <1>6, <1>7, <1>8, <1>9

\* The spawn fails: no other request of the id is running that could wait, and no
\* other command has the id.
LEMMA StartFailsEInv ==
    ASSUME QInv, EInv, NEW r \in Requests, StartFails(r)
    PROVE  EInv'
<1> USE DEF EInv
<1>0. /\ st[r] = "running" /\ r \in Starts /\ hpc[r] = "spawn"
      /\ sess' = {p \in sess : ~SamePid(r, p)}
      /\ ctl' = [ctl EXCEPT ![r] = <<>>] /\ drv' = [drv EXCEPT ![r] = "ended"]
      /\ ans' = [ans EXCEPT ![r] = "err"]
      /\ st' = [st EXCEPT ![r] = "done"] /\ conn' = conn /\ st \in [Requests -> Places]
      /\ UNCHANGED <<hpc, target, child, doomed, cleaned>>
  BY DEF StartFails, InHandler, Finish, connVars, QInv, TypeOK
<1>1. /\ drv'[r] = "ended"
      /\ \A q \in Requests : q # r => drv'[q] = drv[q] /\ ctl'[q] = ctl[q] /\ ans'[q] = ans[q]
  BY <1>0 DEF ExecTypes
<1>2. st'[r] = "done" /\ \A q \in Requests : q # r => st'[q] = st[q]
  BY <1>0
<1>3. ExecTypes'
  <2>1. ctl' \in [Requests -> Seq(Requests \cup {Closer})]
    BY <1>0 DEF ExecTypes
  <2> QED BY <2>1, <1>0 DEF ExecTypes
<1>4. Fresh'
  BY <1>0, <1>1, <1>2 DEF Fresh
<1>5. SessionMap'
  <2>1. ASSUME NEW p \in Requests, Registered(p)', ConnOf[p] \notin cleaned PROVE p \in sess'
    <3>1. p # r /\ Registered(p)
      BY <2>1, <1>0, <1>1, <1>2 DEF Registered
    <3>2. p \in sess
      BY <2>1, <3>1 DEF SessionMap
    <3>3. ASSUME SamePid(r, p) PROVE FALSE
      <4>1. ConnOf[r] = ConnOf[p]
        BY <3>3, SamePidFacts
      <4>2. r \in sess
        BY <4>1, <2>1, <1>0 DEF SessionMap, Registered
      <4> QED BY <4>2, <3>1, <3>2, <3>3 DEF SessionMap
    <3> QED BY <3>2, <3>3, <1>0
  <2> QED BY <2>1, <1>0 DEF SessionMap, SamePid
<1>6. Addressed'
  BY <1>0, <1>1 DEF Addressed, SamePid, Controls
<1>7. WaiterHeard'
  <2> SUFFICES ASSUME NEW q \in Controls, st'[q] = "running", hpc'[q] = "wait", ans'[q] = "none"
               PROVE  /\ drv'[target'[q]] \notin {"returned", "ended"}
                      /\ Holds(ctl'[target'[q]], q)
    BY DEF WaiterHeard, ReceiverGone, Controls
  <2>1. q \in Requests /\ st[q] = "running" /\ q # r
    BY <1>2 DEF Controls
  <2>2. target[q] \in Requests /\ SamePid(q, target[q])
    BY <1>0, CommandAssumption DEF Addressed
  <2>3. target[q] # r
    BY <2>1, <2>2, <1>0, OneRuns
  <2> QED BY <2>1, <2>2, <2>3, <1>0, <1>1 DEF WaiterHeard, ReceiverGone
<1>8. TerminateComing' /\ Cleaned'
  BY <1>0, <1>1 DEF TerminateComing, Cleaned
<1> QED BY <1>3, <1>4, <1>5, <1>6, <1>7, <1>8

\* A control request finds the session of its id.
LEMMA LookUpEInv ==
    ASSUME QInv, EInv, NEW r \in Requests, LookUp(r)
    PROVE  EInv'
<1> USE DEF EInv
<1>0. /\ st[r] = "running" /\ r \in Controls /\ hpc[r] = "begin"
      /\ hpc' = [hpc EXCEPT ![r] = "send"]
      /\ UNCHANGED <<vars, sess, ctl, drv, child, ans, doomed, cleaned>>
  BY DEF LookUp, InHandler
<1>1. PICK p \in sess : SamePid(r, p) /\ target' = [target EXCEPT ![r] = p]
  BY DEF LookUp
<1>2. st' = st /\ conn' = conn
  BY <1>0 DEF vars
<1>3. p \in Starts /\ p \in Requests
  BY CommandAssumption DEF SessionMap
<1>4. /\ hpc'[r] = "send" /\ target'[r] = p
      /\ \A q \in Requests : q # r => hpc'[q] = hpc[q] /\ target'[q] = target[q]
  BY <1>0, <1>1 DEF ExecTypes
<1>5. ExecTypes'
  BY <1>0, <1>1, <1>3 DEF ExecTypes
<1>6. Fresh'
  BY <1>0, <1>2, <1>4 DEF Fresh
<1>7. SessionMap'
  <2>1. \A q \in Requests : Registered(q)' => Registered(q)
    BY <1>0, <1>2, <1>4 DEF Registered
  <2> QED BY <2>1, <1>0 DEF SessionMap, SamePid
<1>8. Addressed'
  BY <1>0, <1>1, <1>3, <1>4 DEF Addressed, SamePid, Controls
<1>9. WaiterHeard'
  BY <1>0, <1>2, <1>4 DEF WaiterHeard, ReceiverGone, Controls
<1>10. TerminateComing' /\ Cleaned'
  BY <1>0, <1>2 DEF TerminateComing, Cleaned
<1> QED BY <1>5, <1>6, <1>7, <1>8, <1>9, <1>10

\* What stays in a channel when its head is taken or something is sent.
LEMMA HoldsTail ==
    ASSUME NEW S, NEW s \in Seq(S), s # <<>>, NEW e, Holds(s, e), e # Head(s)
    PROVE  Holds(Tail(s), e)
<1>1. PICK i \in 1..Len(s) : s[i] = e
  BY DEF Holds
<1>2. i # 1
  BY <1>1
<1>3. i - 1 \in 1..Len(Tail(s)) /\ Tail(s)[i - 1] = s[i]
  BY <1>2
<1> QED BY <1>1, <1>3 DEF Holds

LEMMA HoldsAppend ==
    ASSUME NEW S, NEW s \in Seq(S), NEW e \in S
    PROVE  /\ Holds(Append(s, e), e) /\ Append(s, e) # <<>>
           /\ \A f : Holds(s, f) => Holds(Append(s, e), f)
           /\ s # <<>> => Head(Append(s, e)) = Head(s)
<1>1. /\ Len(Append(s, e)) = Len(s) + 1 /\ Append(s, e)[Len(s) + 1] = e /\ Len(s) \in Nat
      /\ \A i \in 1..Len(s) : i \in 1..Len(Append(s, e)) /\ Append(s, e)[i] = s[i]
  OBVIOUS
<1>2. Len(s) + 1 \in 1..Len(Append(s, e)) /\ Append(s, e) # <<>>
  BY <1>1
<1>3. s # <<>> => Head(Append(s, e)) = Head(s)
  OBVIOUS
<1> QED BY <1>1, <1>2, <1>3 DEF Holds

\* Something is sent to a driver, by a handler or by the cleanup.
LEMMA SentFacts ==
    ASSUME EInv, NEW p \in Requests, NEW e \in Requests \cup {Closer},
           ctl' = [ctl EXCEPT ![p] = Append(@, e)]
    PROVE  /\ ctl' \in [Requests -> Seq(Requests \cup {Closer})]
           /\ Holds(ctl'[p], e)
           /\ \A q \in Requests : \A f : Holds(ctl[q], f) => Holds(ctl'[q], f)
           /\ \A q \in Requests : ctl[q] # <<>> => ctl'[q] # <<>> /\ Head(ctl'[q]) = Head(ctl[q])
<1>1. ctl \in [Requests -> Seq(Requests \cup {Closer})]
  BY DEF EInv, ExecTypes
<1>2. ctl'[p] = Append(ctl[p], e) /\ ctl[p] \in Seq(Requests \cup {Closer})
  BY <1>1
<1>3. \A q \in Requests : q # p => ctl'[q] = ctl[q]
  BY <1>1
<1>4. /\ Holds(ctl'[p], e) /\ ctl'[p] # <<>>
      /\ \A f : Holds(ctl[p], f) => Holds(ctl'[p], f)
      /\ ctl[p] # <<>> => Head(ctl'[p]) = Head(ctl[p])
  BY <1>2, HoldsAppend
<1>5. ctl' \in [Requests -> Seq(Requests \cup {Closer})]
  BY <1>1, <1>2
<1> QED BY <1>3, <1>4, <1>5

\* A driver takes the head of its channel.
LEMMA TakenFacts ==
    ASSUME EInv, NEW p \in Requests, ctl[p] # <<>>, ctl' = [ctl EXCEPT ![p] = Tail(@)]
    PROVE  /\ ctl' \in [Requests -> Seq(Requests \cup {Closer})]
           /\ Head(ctl[p]) \in Requests \cup {Closer}
           /\ \A q \in Requests : q # p => ctl'[q] = ctl[q]
           /\ \A f : Holds(ctl[p], f) /\ f # Head(ctl[p]) => Holds(ctl'[p], f)
<1>1. ctl \in [Requests -> Seq(Requests \cup {Closer})]
  BY DEF EInv, ExecTypes
<1>2. ctl'[p] = Tail(ctl[p]) /\ ctl[p] \in Seq(Requests \cup {Closer})
  BY <1>1
<1>3. Tail(ctl[p]) \in Seq(Requests \cup {Closer}) /\ Head(ctl[p]) \in Requests \cup {Closer}
  BY <1>2
<1>4. \A f : Holds(ctl[p], f) /\ f # Head(ctl[p]) => Holds(ctl'[p], f)
  BY <1>2, HoldsTail
<1> QED BY <1>1, <1>3, <1>4

LEMMA SendEInv ==
    ASSUME QInv, EInv, NEW r \in Requests, Send(r)
    PROVE  EInv'
<1> USE DEF EInv
<1>0. /\ st[r] = "running" /\ r \in Controls /\ hpc[r] = "send" /\ ~ReceiverGone(target[r])
      /\ ctl' = [ctl EXCEPT ![target[r]] = Append(@, r)]
      /\ hpc' = [hpc EXCEPT ![r] = "wait"]
      /\ UNCHANGED <<vars, sess, target, drv, child, ans, doomed, cleaned>>
  BY DEF Send, InHandler
<1>1. PICK p \in Requests : p = target[r]
  BY <1>0, CommandAssumption DEF Addressed
<1>2. st' = st /\ conn' = conn
  BY <1>0 DEF vars
<1>3. /\ hpc'[r] = "wait" /\ \A q \in Requests : q # r => hpc'[q] = hpc[q]
  BY <1>0 DEF ExecTypes
<1>4. /\ ctl' \in [Requests -> Seq(Requests \cup {Closer})]
      /\ Holds(ctl'[p], r)
      /\ \A q \in Requests : \A f : Holds(ctl[q], f) => Holds(ctl'[q], f)
      /\ \A q \in Requests : ctl[q] # <<>> => ctl'[q] # <<>> /\ Head(ctl'[q]) = Head(ctl[q])
  BY <1>0, <1>1, SentFacts
<1>5. ExecTypes'
  BY <1>0, <1>4 DEF ExecTypes
<1>6. Fresh'
  BY <1>0, <1>2, <1>3 DEF Fresh
<1>7. SessionMap'
  <2>1. \A q \in Requests : Registered(q)' => Registered(q)
    BY <1>0, <1>2, <1>3 DEF Registered
  <2> QED BY <2>1, <1>0 DEF SessionMap, SamePid
<1>8. Addressed'
  <2>1. \A q \in Controls : hpc'[q] \in {"send", "wait"} => target'[q] \in Starts /\ SamePid(q, target'[q])
    BY <1>0, <1>3 DEF Addressed, Controls
  <2>2. \A q \in Requests : drv'[q] = "write" => ctl'[q] # <<>> /\ Head(ctl'[q]) # Closer
    BY <1>0, <1>4 DEF Addressed
  <2> QED BY <2>1, <2>2 DEF Addressed, SamePid, Controls
<1>9. WaiterHeard'
  <2> SUFFICES ASSUME NEW q \in Controls, st'[q] = "running", hpc'[q] = "wait", ans'[q] = "none"
               PROVE  /\ drv'[target'[q]] \notin {"returned", "ended"}
                      /\ Holds(ctl'[target'[q]], q)
    BY DEF WaiterHeard, ReceiverGone, Controls
  <2>1. CASE q = r
    BY <2>1, <1>0, <1>1, <1>4 DEF ReceiverGone
  <2>2. CASE q # r
    <3>1. q \in Requests /\ hpc[q] = "wait"
      BY <2>2, <1>3 DEF Controls
    <3>2. target[q] \in Requests
      BY <3>1, CommandAssumption DEF Addressed
    <3> QED BY <3>1, <3>2, <1>0, <1>2, <1>4 DEF WaiterHeard, ReceiverGone
  <2> QED BY <2>1, <2>2
<1>10. TerminateComing' /\ Cleaned'
  BY <1>0, <1>2, <1>4 DEF TerminateComing, Cleaned
<1> QED BY <1>5, <1>6, <1>7, <1>8, <1>9, <1>10

Drivers == [Requests -> {"none", "loop", "write", "flush", "returned", "ended"}]

\* A driver moves on without leaving the map.
LEMMA DriverKept ==
    ASSUME EInv, UNCHANGED <<vars, sess, hpc, target, cleaned>>, drv' \in Drivers,
           \A q \in Requests : drv'[q] = drv[q] \/ /\ drv[q] \in {"loop", "write", "flush"}
                                                   /\ drv'[q] \in {"loop", "write", "flush", "returned"}
    PROVE  /\ st' = st /\ conn' = conn /\ Fresh' /\ SessionMap' /\ Cleaned'
           /\ \A r \in Controls : hpc'[r] \in {"send", "wait"} => target'[r] \in Starts /\ SamePid(r, target'[r])
<1> USE DEF EInv
<1>1. st' = st /\ conn' = conn
  BY DEF vars
<1>2. Fresh'
  BY <1>1 DEF Fresh
<1>3. SessionMap'
  <2>1. \A q \in Requests : Registered(q)' => Registered(q)
    BY <1>1 DEF Registered
  <2> QED BY <2>1 DEF SessionMap, SamePid
<1>4. Cleaned'
  BY <1>1 DEF Cleaned
<1> QED BY <1>1, <1>2, <1>3, <1>4 DEF Addressed

\* A driver is done with the head of its channel and has answered it.
LEMMA PopsEInv ==
    ASSUME EInv, NEW p \in Requests, ctl[p] # <<>>, drv[p] \in {"loop", "write"},
           ctl' = [ctl EXCEPT ![p] = Tail(@)], drv' = [drv EXCEPT ![p] = "loop"],
           UNCHANGED <<vars, sess, hpc, target, doomed, cleaned>>,
           child' \in [Requests -> {"none", "alive", "dying", "gone"}],
           \A q \in Requests : child'[q] = "alive" => child[q] = "alive",
           Head(ctl[p]) = Closer => child'[p] # "alive",
           ans' \in [Requests -> {"none", "ok", "err"}],
           \A q \in Requests : IF q = Head(ctl[p]) THEN ans'[q] # "none" ELSE ans'[q] = ans[q]
    PROVE  EInv'
<1> USE DEF EInv
<1>1. drv \in Drivers /\ drv' \in Drivers /\ drv'[p] = "loop" /\ \A q \in Requests : q # p => drv'[q] = drv[q]
  BY DEF ExecTypes, Drivers
<1>2. /\ st' = st /\ conn' = conn /\ Fresh' /\ SessionMap' /\ Cleaned'
      /\ \A r \in Controls : hpc'[r] \in {"send", "wait"} => target'[r] \in Starts /\ SamePid(r, target'[r])
  BY <1>1, DriverKept
<1>3. /\ ctl' \in [Requests -> Seq(Requests \cup {Closer})]
      /\ \A q \in Requests : q # p => ctl'[q] = ctl[q]
      /\ \A f : Holds(ctl[p], f) /\ f # Head(ctl[p]) => Holds(ctl'[p], f)
  BY TakenFacts
<1>4. ExecTypes'
  BY <1>1, <1>3 DEF ExecTypes, Drivers
<1>5. Addressed'
  <2>1. \A q \in Requests : drv'[q] = "write" => ctl'[q] # <<>> /\ Head(ctl'[q]) # Closer
    BY <1>1, <1>3 DEF Addressed
  <2> QED BY <1>2, <2>1 DEF Addressed, SamePid, Controls
<1>6. WaiterHeard'
  <2> SUFFICES ASSUME NEW q \in Controls, st'[q] = "running", hpc'[q] = "wait", ans'[q] = "none"
               PROVE  /\ drv'[target'[q]] \notin {"returned", "ended"}
                      /\ Holds(ctl'[target'[q]], q)
    BY DEF WaiterHeard, ReceiverGone, Controls
  <2>1. q \in Requests /\ q # Head(ctl[p]) /\ ans[q] = "none" /\ st[q] = "running" /\ hpc[q] = "wait"
    BY <1>2 DEF Controls
  <2>2. target[q] \in Requests
    BY <2>1, CommandAssumption DEF Addressed
  <2>3. drv[target[q]] \notin {"returned", "ended"} /\ Holds(ctl[target[q]], q)
    BY <2>1 DEF WaiterHeard, ReceiverGone
  <2> QED BY <2>1, <2>2, <2>3, <1>1, <1>3
<1>7. TerminateComing'
  <2> SUFFICES ASSUME NEW q \in Requests, conn'[ConnOf[q]] = "drained", ConnOf[q] \in cleaned',
                      drv'[q] \in {"loop", "write"}, child'[q] = "alive"
               PROVE  q \in doomed'[ConnOf[q]] \/ Holds(ctl'[q], Closer)
    BY DEF TerminateComing
  <2>1. q \in doomed[ConnOf[q]] \/ Holds(ctl[q], Closer)
    BY <1>1, <1>2 DEF TerminateComing
  <2> QED BY <2>1, <1>3
<1> QED BY <1>2, <1>4, <1>5, <1>6, <1>7

LEMMA TakeEInv ==
    ASSUME EInv, NEW p \in Requests, TakeTerminate(p) \/ TakeResize(p)
    PROVE  EInv'
<1>0. /\ drv[p] = "loop" /\ ctl[p] # <<>> /\ ctl' = [ctl EXCEPT ![p] = Tail(@)]
      /\ UNCHANGED <<vars, sess, hpc, target, drv, doomed, cleaned>>
  BY DEF TakeTerminate, TakeResize, TakeControl
<1>1. /\ drv \in Drivers /\ child \in [Requests -> {"none", "alive", "dying", "gone"}]
      /\ ans \in [Requests -> {"none", "ok", "err"}]
  BY DEF EInv, ExecTypes, Drivers
<1>2. drv' = [drv EXCEPT ![p] = "loop"]
  BY <1>0, <1>1 DEF Drivers
<1>3. Head(ctl[p]) \in Requests \cup {Closer} /\ Closer \notin Requests
  BY <1>0, TakenFacts, CommandAssumption DEF Closer
<1>4. /\ child' \in [Requests -> {"none", "alive", "dying", "gone"}]
      /\ \A q \in Requests : child'[q] = "alive" => child[q] = "alive"
      /\ Head(ctl[p]) = Closer => child'[p] # "alive"
  BY <1>1 DEF TakeTerminate, TakeResize, Kill
<1>5. /\ ans' \in [Requests -> {"none", "ok", "err"}]
      /\ \A q \in Requests : IF q = Head(ctl[p]) THEN ans'[q] # "none" ELSE ans'[q] = ans[q]
  BY <1>1, <1>3 DEF TakeTerminate, TakeResize
<1> QED BY <1>0, <1>2, <1>4, <1>5, PopsEInv

LEMMA WriteDoneEInv ==
    ASSUME EInv, NEW p \in Requests, WriteDone(p)
    PROVE  EInv'
<1>0. /\ drv[p] = "write" /\ ctl[p] # <<>> /\ Head(ctl[p]) # Closer
      /\ ctl' = [ctl EXCEPT ![p] = Tail(@)] /\ drv' = [drv EXCEPT ![p] = "loop"]
      /\ UNCHANGED <<vars, sess, hpc, target, child, doomed, cleaned>>
  BY DEF WriteDone, EInv, Addressed
<1>1. /\ child \in [Requests -> {"none", "alive", "dying", "gone"}]
      /\ ans \in [Requests -> {"none", "ok", "err"}]
  BY DEF EInv, ExecTypes
<1>2. Head(ctl[p]) \in Requests
  BY <1>0, TakenFacts
<1>3. /\ ans' \in [Requests -> {"none", "ok", "err"}]
      /\ \A q \in Requests : IF q = Head(ctl[p]) THEN ans'[q] # "none" ELSE ans'[q] = ans[q]
  BY <1>1, <1>2 DEF WriteDone
<1> QED BY <1>0, <1>1, <1>3, PopsEInv

\* Steps that leave the channels alone: a write begins, the child is killed or
\* exits, the driver sees the exit.
LEMMA DriverOnEInv ==
    ASSUME EInv, NEW p \in Requests,
           TakeWrite(p) \/ ControlClosed(p) \/ Expire(p) \/ SeeExit(p) \/ ChildExits(p)
    PROVE  EInv'
<1> USE DEF EInv
<1>0. UNCHANGED <<vars, sess, hpc, target, ctl, ans, doomed, cleaned>>
  BY DEF TakeWrite, ControlClosed, Expire, SeeExit, ChildExits
<1>1. drv \in Drivers /\ child \in [Requests -> {"none", "alive", "dying", "gone"}]
  BY DEF ExecTypes, Drivers
<1>2. /\ drv' \in Drivers
      /\ \A q \in Requests : \/ drv'[q] = drv[q]
                             \/ drv[q] = "loop" /\ drv'[q] = "flush"
                             \/ drv[q] = "loop" /\ drv'[q] = "write" /\ ctl[q] # <<>> /\ Head(ctl[q]) # Closer
  BY <1>1 DEF Drivers, TakeWrite, ControlClosed, Expire, SeeExit, ChildExits
<1>3. /\ child' \in [Requests -> {"none", "alive", "dying", "gone"}]
      /\ \A q \in Requests : child'[q] = "alive" => child[q] = "alive"
  BY <1>1 DEF TakeWrite, ControlClosed, Expire, SeeExit, ChildExits, Kill
<1>4. /\ st' = st /\ conn' = conn /\ Fresh' /\ SessionMap' /\ Cleaned'
      /\ \A r \in Controls : hpc'[r] \in {"send", "wait"} => target'[r] \in Starts /\ SamePid(r, target'[r])
  BY <1>0, <1>2, DriverKept
<1>5. ExecTypes'
  BY <1>0, <1>2, <1>3 DEF ExecTypes, Drivers
<1>6. Addressed'
  <2>1. \A q \in Requests : drv'[q] = "write" => ctl'[q] # <<>> /\ Head(ctl'[q]) # Closer
    BY <1>0, <1>2 DEF Addressed
  <2> QED BY <1>4, <2>1 DEF Addressed, SamePid, Controls
<1>7. WaiterHeard'
  <2> SUFFICES ASSUME NEW q \in Controls, st'[q] = "running", hpc'[q] = "wait", ans'[q] = "none"
               PROVE  /\ drv'[target'[q]] \notin {"returned", "ended"}
                      /\ Holds(ctl'[target'[q]], q)
    BY DEF WaiterHeard, ReceiverGone, Controls
  <2>1. target[q] \in Requests
    BY <1>0, CommandAssumption DEF Addressed
  <2>2. drv[target[q]] \notin {"returned", "ended"} /\ Holds(ctl[target[q]], q)
    BY <1>0, <1>4 DEF WaiterHeard, ReceiverGone
  <2> QED BY <2>1, <2>2, <1>0, <1>2
<1>8. TerminateComing'
  BY <1>0, <1>2, <1>3, <1>4 DEF TerminateComing
<1> QED BY <1>4, <1>5, <1>6, <1>7, <1>8

\* run_command returns: whoever is in its channel is told.
LEMMA ReturnEInv ==
    ASSUME EInv, NEW p \in Requests, Return(p)
    PROVE  EInv'
<1> USE DEF EInv
<1>0. /\ drv[p] = "flush" /\ drv' = [drv EXCEPT ![p] = "returned"]
      /\ ans' = [r \in Requests |-> IF r = p THEN "ok" ELSE IF Holds(ctl[p], r) THEN "err" ELSE ans[r]]
      /\ ctl' = [ctl EXCEPT ![p] = <<>>]
      /\ UNCHANGED <<vars, sess, hpc, target, child, doomed, cleaned>>
  BY DEF Return, Holds
<1>1. drv' \in Drivers /\ drv'[p] = "returned" /\ \A q \in Requests : q # p => drv'[q] = drv[q]
  BY <1>0 DEF ExecTypes, Drivers
<1>2. /\ st' = st /\ conn' = conn /\ Fresh' /\ SessionMap' /\ Cleaned'
      /\ \A r \in Controls : hpc'[r] \in {"send", "wait"} => target'[r] \in Starts /\ SamePid(r, target'[r])
  BY <1>0, <1>1, DriverKept
<1>3. ctl' \in [Requests -> Seq(Requests \cup {Closer})] /\ \A q \in Requests : q # p => ctl'[q] = ctl[q]
  BY <1>0 DEF ExecTypes
<1>4. ExecTypes'
  <2>1. ans' \in [Requests -> {"none", "ok", "err"}]
    BY <1>0 DEF ExecTypes
  <2> QED BY <1>0, <1>1, <1>3, <2>1 DEF ExecTypes, Drivers
<1>5. Addressed'
  <2>1. \A q \in Requests : drv'[q] = "write" => ctl'[q] # <<>> /\ Head(ctl'[q]) # Closer
    BY <1>1, <1>3 DEF Addressed
  <2> QED BY <1>2, <2>1 DEF Addressed, SamePid, Controls
<1>6. WaiterHeard'
  <2> SUFFICES ASSUME NEW q \in Controls, st'[q] = "running", hpc'[q] = "wait", ans'[q] = "none"
               PROVE  /\ drv'[target'[q]] \notin {"returned", "ended"}
                      /\ Holds(ctl'[target'[q]], q)
    BY DEF WaiterHeard, ReceiverGone, Controls
  <2>1. q \in Requests /\ ~Holds(ctl[p], q) /\ ans[q] = "none"
    BY <1>0 DEF Controls
  <2>2. target[q] \in Requests
    BY <1>0, CommandAssumption DEF Addressed
  <2>3. drv[target[q]] \notin {"returned", "ended"} /\ Holds(ctl[target[q]], q)
    BY <1>0, <1>2, <2>1 DEF WaiterHeard, ReceiverGone
  <2>4. target[q] # p
    BY <2>1, <2>3
  <2> QED BY <2>2, <2>3, <2>4, <1>0, <1>1, <1>3
<1>7. TerminateComing'
  BY <1>0, <1>1, <1>2, <1>3 DEF TerminateComing
<1> QED BY <1>2, <1>4, <1>5, <1>6, <1>7

\* The session leaves the map: its id is that of no other registered command.
LEMMA RemoveEInv ==
    ASSUME EInv, NEW p \in Requests, RemoveSession(p)
    PROVE  EInv'
<1> USE DEF EInv
<1>0. /\ drv[p] = "returned" /\ drv' = [drv EXCEPT ![p] = "ended"]
      /\ sess' = {q \in sess : ~SamePid(p, q)}
      /\ UNCHANGED <<vars, hpc, target, ctl, child, ans, doomed, cleaned>>
  BY DEF RemoveSession
<1>1. drv' \in Drivers /\ drv'[p] = "ended" /\ \A q \in Requests : q # p => drv'[q] = drv[q]
  BY <1>0 DEF ExecTypes, Drivers
<1>2. st' = st /\ conn' = conn
  BY <1>0 DEF vars
<1>3. ExecTypes'
  BY <1>0, <1>1 DEF ExecTypes, Drivers
<1>4. Fresh'
  BY <1>0, <1>1, <1>2 DEF Fresh
<1>5. SessionMap'
  <2>1. ASSUME NEW q \in Requests, Registered(q)', ConnOf[q] \notin cleaned, q # p PROVE q \in sess'
    <3>1. q \in sess
      BY <2>1, <1>0, <1>1, <1>2 DEF Registered, SessionMap
    <3>2. ASSUME SamePid(p, q) PROVE FALSE
      <4>1. ConnOf[p] = ConnOf[q]
        BY <3>2, SamePidFacts
      <4>2. p \in sess
        BY <4>1, <2>1, <1>0 DEF SessionMap, Registered
      <4> QED BY <4>2, <2>1, <3>1, <3>2 DEF SessionMap
    <3> QED BY <3>1, <3>2, <1>0
  <2>2. ASSUME Registered(p)', ConnOf[p] \notin cleaned PROVE p \in sess'
    <3>1. st[p] = "running" /\ p \in Starts /\ hpc[p] = "spawn"
      BY <2>2, <1>0, <1>1, <1>2 DEF Registered
    <3> QED BY <3>1, <1>0 DEF Fresh
  <2> QED BY <2>1, <2>2, <1>0 DEF SessionMap, SamePid
<1>6. Addressed'
  BY <1>0, <1>1 DEF Addressed, SamePid, Controls
<1>7. WaiterHeard'
  <2> SUFFICES ASSUME NEW q \in Controls, st'[q] = "running", hpc'[q] = "wait", ans'[q] = "none"
               PROVE  /\ drv'[target'[q]] \notin {"returned", "ended"}
                      /\ Holds(ctl'[target'[q]], q)
    BY DEF WaiterHeard, ReceiverGone, Controls
  <2>1. target[q] \in Requests
    BY <1>0, CommandAssumption DEF Addressed
  <2>2. drv[target[q]] \notin {"returned", "ended"} /\ Holds(ctl[target[q]], q)
    BY <1>0, <1>2 DEF WaiterHeard, ReceiverGone
  <2> QED BY <2>1, <2>2, <1>0, <1>1
<1>8. TerminateComing' /\ Cleaned'
  BY <1>0, <1>1, <1>2 DEF TerminateComing, Cleaned
<1> QED BY <1>3, <1>4, <1>5, <1>6, <1>7, <1>8

\* connection_closed takes the sessions of its connection out of the map.
LEMMA CleanupEInv ==
    ASSUME EInv, NEW c \in Conns, Cleanup(c)
    PROVE  EInv'
<1> USE DEF EInv
<1>0. /\ conn[c] \in {"drained", "timedout"} /\ c \notin cleaned
      /\ doomed' = [doomed EXCEPT ![c] = {p \in sess : ConnOf[p] = c}]
      /\ sess' = {p \in sess : ConnOf[p] # c} /\ cleaned' = cleaned \cup {c}
      /\ UNCHANGED <<vars, hpc, target, ctl, drv, child, ans>>
  BY DEF Cleanup
<1>1. st' = st /\ conn' = conn
  BY <1>0 DEF vars
<1>2. /\ doomed'[c] = {p \in sess : ConnOf[p] = c}
      /\ \A d \in Conns : d # c => doomed'[d] = doomed[d]
  BY <1>0 DEF ExecTypes
<1>3. ExecTypes'
  BY <1>0, CommandAssumption DEF ExecTypes, SessionMap
<1>4. Fresh'
  BY <1>0, <1>1 DEF Fresh
<1>5. SessionMap'
  <2>1. \A p \in Requests : Registered(p)' => Registered(p)
    BY <1>0, <1>1 DEF Registered
  <2> QED BY <2>1, <1>0 DEF SessionMap, SamePid
<1>6. Addressed'
  BY <1>0 DEF Addressed, SamePid, Controls
<1>7. WaiterHeard'
  BY <1>0, <1>1 DEF WaiterHeard, ReceiverGone, Controls
<1>8. TerminateComing'
  <2> SUFFICES ASSUME NEW q \in Requests, conn[ConnOf[q]] = "drained", ConnOf[q] \in cleaned',
                      drv[q] \in {"loop", "write"}, child[q] = "alive"
               PROVE  q \in doomed'[ConnOf[q]] \/ Holds(ctl[q], Closer)
    BY <1>0, <1>1 DEF TerminateComing
  <2>1. CASE ConnOf[q] = c
    <3>1. q \in sess
      BY <2>1, <1>0 DEF SessionMap, Registered
    <3> QED BY <2>1, <3>1, <1>2
  <2>2. CASE ConnOf[q] # c
    BY <2>2, <1>0, <1>2, RequestsAssumption DEF TerminateComing
  <2> QED BY <2>1, <2>2
<1>9. Cleaned'
  BY <1>0, <1>1 DEF Cleaned
<1> QED BY <1>3, <1>4, <1>5, <1>6, <1>7, <1>8, <1>9

\* ... and tells each to terminate.
LEMMA SendTerminateEInv ==
    ASSUME EInv, NEW c \in Conns, NEW p \in Requests, SendTerminate(c, p)
    PROVE  EInv'
<1> USE DEF EInv
<1>0. /\ ctl' = IF ReceiverGone(p) THEN ctl ELSE [ctl EXCEPT ![p] = Append(@, Closer)]
      /\ doomed' = [doomed EXCEPT ![c] = @ \ {p}]
      /\ UNCHANGED <<vars, sess, hpc, target, drv, child, ans, cleaned>>
  BY DEF SendTerminate
<1>1. st' = st /\ conn' = conn
  BY <1>0 DEF vars
<1>2. /\ ctl' \in [Requests -> Seq(Requests \cup {Closer})]
      /\ \A q \in Requests : \A f : Holds(ctl[q], f) => Holds(ctl'[q], f)
      /\ \A q \in Requests : ctl[q] # <<>> => ctl'[q] # <<>> /\ Head(ctl'[q]) = Head(ctl[q])
      /\ ~ReceiverGone(p) => Holds(ctl'[p], Closer)
  <2>1. CASE ReceiverGone(p)
    BY <1>0, <2>1 DEF ExecTypes
  <2>2. CASE ~ReceiverGone(p)
    <3>1. PICK e \in Requests \cup {Closer} : e = Closer
      OBVIOUS
    <3>2. ctl' = [ctl EXCEPT ![p] = Append(@, e)]
      BY <1>0, <2>2, <3>1
    <3> QED BY <3>1, <3>2, SentFacts
  <2> QED BY <2>1, <2>2
<1>3. \A d \in Conns : \A q \in doomed[d] : q # p => q \in doomed'[d]
  BY <1>0 DEF ExecTypes
<1>4. ExecTypes'
  BY <1>0, <1>2 DEF ExecTypes
<1>5. Fresh'
  BY <1>0, <1>1 DEF Fresh
<1>6. SessionMap'
  <2>1. \A q \in Requests : Registered(q)' => Registered(q)
    BY <1>0, <1>1 DEF Registered
  <2> QED BY <2>1, <1>0 DEF SessionMap, SamePid
<1>7. Addressed'
  <2>1. \A q \in Controls : hpc'[q] \in {"send", "wait"} => target'[q] \in Starts /\ SamePid(q, target'[q])
    BY <1>0 DEF Addressed
  <2>2. \A q \in Requests : drv'[q] = "write" => ctl'[q] # <<>> /\ Head(ctl'[q]) # Closer
    BY <1>0, <1>2 DEF Addressed
  <2> QED BY <2>1, <2>2 DEF Addressed, SamePid, Controls
<1>8. WaiterHeard'
  <2> SUFFICES ASSUME NEW q \in Controls, st'[q] = "running", hpc'[q] = "wait", ans'[q] = "none"
               PROVE  /\ drv'[target'[q]] \notin {"returned", "ended"}
                      /\ Holds(ctl'[target'[q]], q)
    BY DEF WaiterHeard, ReceiverGone, Controls
  <2>1. target[q] \in Requests
    BY <1>0, CommandAssumption DEF Addressed
  <2> QED BY <2>1, <1>0, <1>1, <1>2 DEF WaiterHeard, ReceiverGone
<1>9. TerminateComing'
  <2> SUFFICES ASSUME NEW q \in Requests, conn[ConnOf[q]] = "drained", ConnOf[q] \in cleaned,
                      drv[q] \in {"loop", "write"}, child[q] = "alive"
               PROVE  q \in doomed'[ConnOf[q]] \/ Holds(ctl'[q], Closer)
    BY <1>0, <1>1 DEF TerminateComing
  <2>1. q \in doomed[ConnOf[q]] \/ Holds(ctl[q], Closer)
    BY DEF TerminateComing
  <2>2. CASE q = p
    BY <2>2, <1>2 DEF ReceiverGone
  <2>3. CASE q # p
    BY <2>1, <2>3, <1>2, <1>3, RequestsAssumption
  <2> QED BY <2>2, <2>3
<1>10. Cleaned'
  BY <1>0, <1>1 DEF Cleaned
<1> QED BY <1>4, <1>5, <1>6, <1>7, <1>8, <1>9, <1>10

LEMMA ExecStutterEInv == EInv /\ UNCHANGED allVars => EInv'
<1> SUFFICES ASSUME EInv, UNCHANGED allVars PROVE EInv'
  OBVIOUS
<1> USE DEF EInv
<1>0. st' = st /\ conn' = conn /\ UNCHANGED <<sess, hpc, target, ctl, drv, child, ans, doomed, cleaned>>
  BY DEF allVars, vars, procVars
<1>1. ExecTypes' /\ Fresh' /\ Cleaned' /\ TerminateComing'
  BY <1>0 DEF ExecTypes, Fresh, Cleaned, TerminateComing
<1>2. SessionMap' /\ Addressed' /\ WaiterHeard'
  BY <1>0 DEF SessionMap, Registered, SamePid, Addressed, WaiterHeard, ReceiverGone, Controls
<1> QED BY <1>1, <1>2

\* Every step of the commands is one of the queues: a handler runs between the
\* gate and its end, and the rest does not touch the queues.
LEMMA ExecStepIsQueueStep == [ExecNext]_allVars => [Next]_vars
<1> SUFFICES ASSUME [ExecNext]_allVars PROVE Next \/ UNCHANGED vars
  OBVIOUS
<1>1. CASE UNCHANGED allVars
  BY <1>1 DEF allVars
<1>2. CASE (QueueStep \/ ConnStep) /\ UNCHANGED procVars
  BY <1>2 DEF Next
<1>3. ASSUME NEW r \in Requests, HandleStep(r) PROVE Finish(r) \/ UNCHANGED vars
  BY <1>3 DEF HandleStep, StartRejected, StartRegisters, StartSpawned, StartFails, LookUp,
              ControlRejected, Send, SendFails, Answered
<1>4. ASSUME NEW p \in Requests, DriverStep(p) \/ WriteDone(p) \/ Expire(p) \/ ChildExits(p)
      PROVE  UNCHANGED vars
  BY <1>4 DEF DriverStep, TakeTerminate, TakeResize, TakeWrite, ControlClosed, SeeExit, Return,
              RemoveSession, WriteDone, Expire, ChildExits
<1>5. ASSUME NEW c \in Conns, Cleanup(c) \/ \E p \in Requests : SendTerminate(c, p)
      PROVE  UNCHANGED vars
  BY <1>5 DEF Cleanup, SendTerminate
<1> QED BY <1>1, <1>2, <1>3, <1>4, <1>5 DEF ExecNext, Next, HandlerStep

LEMMA ExecNextEInv ==
    ASSUME QInv, EInv, [ExecNext]_allVars
    PROVE  EInv'
<1>1. ASSUME NEW r \in Requests, HandleStep(r) PROVE EInv'
  BY <1>1, RefusedEInv, RegistersEInv, SpawnedEInv, StartFailsEInv, LookUpEInv, SendEInv DEF HandleStep
<1>2. ASSUME NEW p \in Requests, DriverStep(p) \/ WriteDone(p) \/ Expire(p) \/ ChildExits(p) PROVE EInv'
  BY <1>2, TakeEInv, DriverOnEInv, ReturnEInv, RemoveEInv, WriteDoneEInv DEF DriverStep
<1>3. ASSUME NEW c \in Conns, Cleanup(c) \/ \E p \in Requests : SendTerminate(c, p) PROVE EInv'
  BY <1>3, CleanupEInv, SendTerminateEInv
<1> QED BY <1>1, <1>2, <1>3, QueueStepEInv, ExecStutterEInv DEF ExecNext

\* Commands run in the queues: whatever is proved of RequestQueues, the order
\* of requests included, holds while commands start, are controlled and end.
THEOREM ExecRunsInQueues == ExecSpec => Spec
<1>1. ExecInit => Init
  BY DEF ExecInit
<1> QED BY <1>1, ExecStepIsQueueStep, PTL DEF ExecSpec, Spec

\* The inductive invariant of the commands.
THEOREM ExecInvariant == ExecSpec => []EInv
BY ExecInitInv, ExecNextEInv, ExecRunsInQueues, QueuesInvariant, PTL DEF ExecSpec

\* A running command can be reached under its process id until its connection is
\* cleaned up, and is the only one of that id (CommandExecManager::start and
\* the removals from its sessions map).
THEOREM CommandsReachable == ExecSpec => []Reachable
<1>1. EInv => Reachable
  <2> SUFFICES ASSUME EInv, NEW p \in Requests, drv[p] \in {"loop", "write", "flush"},
                      ConnOf[p] \notin cleaned
               PROVE  p \in sess /\ \A q \in sess : SamePid(p, q) => q = p
    BY DEF Reachable
  <2>1. p \in sess
    BY DEF EInv, SessionMap, Registered
  <2> QED BY <2>1 DEF EInv, SessionMap
<1> QED BY <1>1, ExecInvariant, PTL

\* No waiter is forgotten: a handler that waits for the answer to a control
\* request has it, or its request is in the channel of a driver that has not
\* returned (send_control, and run_command at its end).
THEOREM WaitersHeard == ExecSpec => []WaiterHeard
<1>1. EInv => WaiterHeard
  BY DEF EInv
<1> QED BY <1>1, ExecInvariant, PTL

\* Every command of a connection that was cleaned up after its handlers were
\* finished is dead or dying, or a terminate is in its channel or about to be
\* sent (CommandExecManager::connection_closed).
THEOREM CleanupReachesAll == ExecSpec => []TerminateComing
<1>1. EInv => TerminateComing
  BY DEF EInv
<1> QED BY <1>1, ExecInvariant, PTL
=============================================================================
