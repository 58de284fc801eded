--------------------------- MODULE HttpProverProofs ---------------------------
(***************************************************************************)
(* Proofs about the request path of http-prover, for every number of       *)
(* slots, places to wait, requests, jobs and keys.                         *)
(*                                                                         *)
(* First the proving queue by itself: its invariant, and from it the order *)
(* of service.  Then that every step of the request path is a step of the  *)
(* proving queue or leaves it alone, so that what was proved of the queue  *)
(* holds there; then the registry and the outbox.                          *)
(***************************************************************************)
EXTENDS HttpProverProps, FiniteSetTheorems, SequenceTheorems, TLAPS

--------------------------------------------------------------------------------
(* Sets *)

\* The set of the first n elements of a sequence
Prefix(q, n) == {q[i] : i \in 1..n}

\* The first n elements of a sequence without repetitions are n elements.
LEMMA PrefixCardinality ==
  ASSUME NEW S, NEW q \in Seq(S), NEW n \in 0..Len(q),
         \A i, j \in DOMAIN q : q[i] = q[j] => i = j
  PROVE  IsFiniteSet(Prefix(q, n)) /\ Cardinality(Prefix(q, n)) = n
<1> DEFINE T == Prefix(q, n)
           f == [i \in 1..n |-> q[i]]
<1>1. 1..n \subseteq DOMAIN q
  OBVIOUS
<1>2. f \in Bijection(1..n, T)
  BY <1>1 DEF Prefix, Bijection, Injection, Surjection, IsInjective
<1>3. IsFiniteSet(1..n) /\ Cardinality(1..n) = n
  BY FS_Interval
<1> QED
  BY <1>2, <1>3, FS_Bijection DEF ExistsBijection

\* A part of a finite set replaced by new elements.
LEMMA ReplacedCardinality ==
  ASSUME NEW A, NEW R, NEW B, IsFiniteSet(A), R \subseteq A, IsFiniteSet(B),
         A \intersect B = {}
  PROVE  /\ IsFiniteSet((A \ R) \union B)
         /\ Cardinality((A \ R) \union B) = Cardinality(A) - Cardinality(R) + Cardinality(B)
         /\ Cardinality(R) <= Cardinality(A)
         /\ {Cardinality(A), Cardinality(R), Cardinality(B)} \subseteq Nat
<1>1. IsFiniteSet(R) /\ Cardinality(R) <= Cardinality(A)
  BY FS_Subset
<1>2. {Cardinality(A), Cardinality(R), Cardinality(B)} \subseteq Nat
  BY <1>1, FS_CardinalityType
<1>3. IsFiniteSet(A \ R) /\ Cardinality(A \ R) = Cardinality(A) - Cardinality(R)
  <2>1. A \intersect R = R
    OBVIOUS
  <2> QED
    BY <2>1, FS_Difference
<1>4. Cardinality((A \ R) \intersect B) = 0
  <2>1. (A \ R) \intersect B = {}
    OBVIOUS
  <2> QED
    BY <2>1, FS_EmptySet
<1>5. /\ IsFiniteSet((A \ R) \union B)
      /\ Cardinality((A \ R) \union B)
           = Cardinality(A \ R) + Cardinality(B) - Cardinality((A \ R) \intersect B)
  BY <1>3, FS_Union
<1> QED
  BY <1>1, <1>2, <1>3, <1>4, <1>5

--------------------------------------------------------------------------------
(* The proving queue *)

QueueInv == QueueTypeOK /\ SlotsAccounted /\ NoIdleSlot

Ended == {"proof", "error", "full", "lost"}

LEMMA InitQueueInv == QueueInit => QueueInv
<1> SUFFICES ASSUME QueueInit
             PROVE  QueueInv
  OBVIOUS
<1> USE ProvingQueueAssumption DEF QueueInit
<1>1. Cardinality(solving \union proving) = 0
  <2>1. solving \union proving = {}
    OBVIOUS
  <2> QED
    BY <2>1, FS_EmptySet
<1>2. QueueTypeOK
  BY DEF QueueTypeOK
<1>3. SlotsAccounted
  BY <1>1 DEF SlotsAccounted, OnePlaceEach, InPlay, Waiting
<1> QED
  BY <1>2, <1>3 DEF QueueInv, NoIdleSlot

\* How many waiters the releases of R start.
LEMMA StartedCount ==
  ASSUME QueueInv, NEW R, R \subseteq solving \union proving
  PROVE  /\ Cardinality(R) \in Nat
         /\ Cardinality(R) <= running
         /\ IsFiniteSet(solving \union proving)
         /\ Cardinality(Started(R)) \in 0..Len(queue)
         /\ Cardinality(Started(R)) <= Cardinality(R)
         /\ Cardinality(Started(R)) < Len(queue) => Cardinality(Started(R)) = Cardinality(R)
         /\ Started(R) = 1..Cardinality(Started(R))
<1> DEFINE n == IF Len(queue) < Cardinality(R) THEN Len(queue) ELSE Cardinality(R)
<1>1. IsFiniteSet(solving \union proving)
  <2>1. solving \union proving \subseteq Requests
    BY DEF QueueInv, QueueTypeOK
  <2> QED
    BY <2>1, FS_Subset, ProvingQueueAssumption
<1>2. /\ IsFiniteSet(R)
      /\ Cardinality(R) \in Nat
      /\ Cardinality(R) <= running
  <2>1. IsFiniteSet(R) /\ Cardinality(R) <= Cardinality(solving \union proving)
    BY <1>1, FS_Subset
  <2> QED
    BY <2>1, FS_CardinalityType DEF QueueInv, SlotsAccounted
<1>3. Len(queue) \in Nat
  BY DEF QueueInv, QueueTypeOK
<1>4. Started(R) = 1..n /\ n \in Nat
  BY <1>2, <1>3 DEF Started
<1> HIDE DEF n
<1>5. Cardinality(Started(R)) = n
  <2>1. Cardinality(1..n) = IF 1 > n THEN 0 ELSE n - 1 + 1
    BY <1>4, FS_Interval
  <2> QED
    BY <2>1, <1>4
<1> USE DEF n
<1> QED
  BY <1>1, <1>2, <1>3, <1>4, <1>5

\* What is left of the queue.
LEMMA QueueTail ==
  ASSUME NEW S, NEW q \in Seq(S), NEW n \in 0..Len(q)
  PROVE  /\ SubSeq(q, n + 1, Len(q)) \in Seq(S)
         /\ Len(SubSeq(q, n + 1, Len(q))) = Len(q) - n
         /\ \A i \in 1..(Len(q) - n) : SubSeq(q, n + 1, Len(q))[i] = q[n + i]
<1>1. \A i \in (n + 1)..Len(q) : q[i] \in S
  OBVIOUS
<1> QED
  BY <1>1, SubSeqProperties

\* A release keeps the invariant: it takes the requests of R out of the slots and
\* gives as many slots as there are waiters for to the oldest ones.
LEMMA ReleaseKeepsInv ==
  ASSUME QueueInv, NEW R, R \subseteq solving \union proving,
         NEW result \in Ended, Release(R, result), worker' \in {"up", "down"}
  PROVE  QueueInv'
<1> DEFINE n == Cardinality(Started(R))
           B == {queue[i] : i \in 1..n}
           A == solving \union proving
<1>1. /\ n \in 0..Len(queue)
      /\ n <= Cardinality(R)
      /\ n < Len(queue) => n = Cardinality(R)
      /\ Started(R) = 1..n
      /\ IsFiniteSet(A)
      /\ Cardinality(R) \in Nat
      /\ Cardinality(R) <= running
  BY StartedCount
<1> HIDE DEF n
<1>2. /\ queue \in Seq(Requests)
      /\ solving \subseteq Requests
      /\ proving \subseteq Requests
      /\ running \in Nat
      /\ outcome \in [Requests -> {"none"} \union Ended]
  BY DEF QueueInv, QueueTypeOK, Ended
<1>3. /\ solving \intersect proving = {}
      /\ Waiting \intersect A = {}
      /\ \A i, j \in DOMAIN queue : queue[i] = queue[j] => i = j
      /\ \A r \in InPlay : outcome[r] = "none"
      /\ running = Cardinality(A)
      /\ running <= MaxConcurrency
      /\ Len(queue) <= MaxQueue
      /\ queue # <<>> => running = MaxConcurrency
  BY DEF QueueInv, SlotsAccounted, OnePlaceEach, NoIdleSlot
<1>4. /\ queue' \in Seq(Requests)
      /\ Len(queue') = Len(queue) - n
      /\ \A i \in 1..(Len(queue) - n) : queue'[i] = queue[n + i]
  BY <1>1, <1>2, QueueTail DEF Release, n
<1>5. /\ running' = running - Cardinality(R) + n
      /\ solving' = (solving \ R) \union B
      /\ proving' = proving \ R
      /\ outcome' = [r \in Requests |-> IF r \in R THEN result ELSE outcome[r]]
  BY <1>1 DEF Release, n
<1>6. B \subseteq Waiting /\ B \subseteq Requests
  BY <1>1, <1>2 DEF Waiting
<1>7. IsFiniteSet(B) /\ Cardinality(B) = n
  <2>1. \A i, j \in DOMAIN queue : queue[i] = queue[j] => i = j
    BY <1>3
  <2>2. n \in 0..Len(queue) /\ queue \in Seq(Requests)
    BY <1>1, <1>2
  <2>3. B = Prefix(queue, n)
    BY DEF Prefix
  <2> HIDE DEF n, A, B
  <2>4. IsFiniteSet(Prefix(queue, n)) /\ Cardinality(Prefix(queue, n)) = n
    BY ONLY <2>1, <2>2, PrefixCardinality
  <2> QED
    BY <2>3, <2>4
<1>8. DOMAIN queue' = 1..(Len(queue) - n) /\ Len(queue) \in Nat
  BY <1>1, <1>2, <1>4
<1>9. Waiting' \subseteq Waiting \ B
  <2> SUFFICES ASSUME NEW i \in 1..(Len(queue) - n)
               PROVE  queue[n + i] \in Waiting \ B
    BY <1>4, <1>8 DEF Waiting
  <2>1. n + i \in DOMAIN queue
    BY <1>1, <1>2
  <2>2. ASSUME NEW k \in 1..n, queue[n + i] = queue[k]
        PROVE  FALSE
    <3>1. k \in DOMAIN queue
      BY <1>1, <1>2
    <3>2. n + i = k
      BY <2>1, <2>2, <3>1, <1>3
    <3> QED
      BY <3>2, <1>1
  <2> QED
    BY <2>1, <2>2 DEF Waiting
<1>10. running' = Cardinality((solving \union proving)')
  <2>1. (solving \union proving)' = (A \ R) \union B
    BY <1>3, <1>5, <1>6
  <2>2. Cardinality((A \ R) \union B) = Cardinality(A) - Cardinality(R) + Cardinality(B)
    <3>1. IsFiniteSet(A) /\ R \subseteq A /\ IsFiniteSet(B) /\ A \intersect B = {}
      BY <1>1, <1>3, <1>6, <1>7
    <3> HIDE DEF A, B
    <3>2. /\ IsFiniteSet((A \ R) \union B)
          /\ Cardinality((A \ R) \union B) = Cardinality(A) - Cardinality(R) + Cardinality(B)
          /\ Cardinality(R) <= Cardinality(A)
          /\ {Cardinality(A), Cardinality(R), Cardinality(B)} \subseteq Nat
      BY <3>1, ReplacedCardinality
    <3> QED
      BY <3>2
  <2> QED
    BY <2>1, <2>2, <1>3, <1>5, <1>7
<1>11. OnePlaceEach'
  <2>1. (solving \intersect proving)' = {}
    BY <1>3, <1>5, <1>6
  <2>2. (Waiting \intersect (solving \union proving))' = {}
    BY <1>3, <1>5, <1>6, <1>9
  <2>3. \A i, j \in DOMAIN queue' : queue'[i] = queue'[j] => i = j
    <3> SUFFICES ASSUME NEW i \in 1..(Len(queue) - n), NEW j \in 1..(Len(queue) - n),
                        queue[n + i] = queue[n + j]
                 PROVE  i = j
      BY <1>4, <1>8
    <3>1. n + i \in DOMAIN queue /\ n + j \in DOMAIN queue
      BY <1>1, <1>2
    <3>2. n + i = n + j
      BY <3>1, <1>3
    <3> QED
      BY <3>2, <1>1
  <2>4. \A r \in InPlay' : outcome'[r] = "none"
    <3>1. InPlay' \subseteq InPlay \ R
      BY <1>3, <1>5, <1>6, <1>9 DEF InPlay
    <3>2. InPlay \subseteq Requests
      BY <1>2 DEF InPlay, Waiting
    <3> QED
      BY <3>1, <3>2, <1>3, <1>5
  <2> QED
    BY <2>1, <2>2, <2>3, <2>4 DEF OnePlaceEach
<1>12. running' <= MaxConcurrency /\ running' \in Nat /\ Len(queue') <= MaxQueue
  BY <1>1, <1>2, <1>3, <1>4, <1>5, <1>8, ProvingQueueAssumption
<1>13. NoIdleSlot'
  <2> SUFFICES ASSUME queue' # <<>>
               PROVE  running' = MaxConcurrency
    BY DEF NoIdleSlot
  <2>1. Len(queue') # 0
    BY <1>4
  <2>2. n < Len(queue) /\ queue # <<>>
    BY <2>1, <1>1, <1>2, <1>4
  <2> QED
    BY <2>2, <1>1, <1>2, <1>3, <1>5
<1>14. QueueTypeOK'
  <2>1. outcome' \in [Requests -> {"none", "proof", "error", "full", "lost"}]
    BY <1>2, <1>5 DEF Ended
  <2>2. solving' \subseteq Requests /\ proving' \subseteq Requests
    BY <1>2, <1>5, <1>6
  <2> QED
    BY <2>1, <2>2, <1>4, <1>12 DEF QueueTypeOK
<1> QED
  BY <1>10, <1>11, <1>12, <1>13, <1>14 DEF QueueInv, SlotsAccounted

\* What a call of prove() does to the invariant.
LEMMA AcquireKeepsInv ==
  ASSUME QueueInv, NEW r \in Requests, Fresh(r), Acquire(r)
  PROVE  QueueInv'
<1>1. /\ queue \in Seq(Requests)
      /\ solving \subseteq Requests
      /\ proving \subseteq Requests
      /\ running \in Nat
      /\ worker \in {"up", "down"}
      /\ outcome \in [Requests -> {"none", "proof", "error", "full", "lost"}]
  BY DEF QueueInv, QueueTypeOK
<1>2. /\ solving \intersect proving = {}
      /\ Waiting \intersect (solving \union proving) = {}
      /\ \A i, j \in DOMAIN queue : queue[i] = queue[j] => i = j
      /\ \A x \in InPlay : outcome[x] = "none"
      /\ running = Cardinality(solving \union proving)
      /\ running <= MaxConcurrency
      /\ Len(queue) <= MaxQueue
      /\ queue # <<>> => running = MaxConcurrency
  BY DEF QueueInv, SlotsAccounted, OnePlaceEach, NoIdleSlot
<1>3. r \notin Waiting /\ r \notin solving /\ r \notin proving /\ outcome[r] = "none"
  BY DEF Fresh, InPlay
<1>4. CASE TakeSlot(r)
  <2>1. /\ running < MaxConcurrency
        /\ running' = running + 1
        /\ solving' = solving \union {r}
        /\ UNCHANGED <<queue, proving, worker, outcome>>
    BY <1>4 DEF TakeSlot
  <2>2. queue = <<>>
    BY <2>1, <1>1, <1>2, ProvingQueueAssumption
  <2>3. running' = Cardinality((solving \union proving)')
    <3>1. (solving \union proving)' = (solving \union proving) \union {r}
      BY <2>1
    <3>2. IsFiniteSet(solving \union proving)
      BY <1>1, FS_Subset, ProvingQueueAssumption
    <3>3. r \notin solving \union proving
      BY <1>3
    <3> QED
      BY <3>1, <3>2, <3>3, <2>1, <1>2, FS_AddElement
  <2>4. OnePlaceEach'
    BY <2>1, <1>2, <1>3 DEF OnePlaceEach, Waiting, InPlay
  <2>5. running' <= MaxConcurrency /\ running' \in Nat
    BY <2>1, <1>1, ProvingQueueAssumption
  <2>6. QueueTypeOK'
    BY <2>1, <2>5, <1>1 DEF QueueTypeOK
  <2>7. NoIdleSlot' /\ Len(queue') <= MaxQueue
    BY <2>1, <2>2, <1>2 DEF NoIdleSlot
  <2> QED
    BY <2>3, <2>4, <2>5, <2>6, <2>7 DEF QueueInv, SlotsAccounted
<1>5. CASE WaitForSlot(r)
  <2>1. /\ running >= MaxConcurrency
        /\ Len(queue) < MaxQueue
        /\ queue' = Append(queue, r)
        /\ UNCHANGED <<running, solving, proving, worker, outcome>>
    BY <1>5 DEF WaitForSlot
  <2>2. /\ queue' \in Seq(Requests)
        /\ Len(queue') = Len(queue) + 1
        /\ \A i \in 1..Len(queue) : queue'[i] = queue[i]
        /\ queue'[Len(queue) + 1] = r
    BY <2>1, <1>1, AppendProperties
  <2>3. \A i \in 1..Len(queue) : queue'[i] # r
    BY <2>2, <1>1, <1>3 DEF Waiting
  <2>4. Waiting' = Waiting \union {r}
    BY <2>2, <1>1 DEF Waiting
  <2>5. \A i, j \in DOMAIN queue' : queue'[i] = queue'[j] => i = j
    BY <2>2, <2>3, <1>1, <1>2
  <2>6. OnePlaceEach'
    BY <2>1, <2>4, <2>5, <1>2, <1>3 DEF OnePlaceEach, InPlay
  <2>7. QueueTypeOK'
    BY <2>1, <2>2, <1>1 DEF QueueTypeOK
  <2>8. NoIdleSlot' /\ Len(queue') <= MaxQueue
    BY <2>1, <2>2, <1>1, <1>2, ProvingQueueAssumption DEF NoIdleSlot
  <2> QED
    BY <2>1, <2>6, <2>7, <2>8, <1>2 DEF QueueInv, SlotsAccounted
<1>6. CASE Refuse(r)
  <2>1. /\ outcome' = [outcome EXCEPT ![r] = "full"]
        /\ UNCHANGED <<running, queue, solving, proving, worker>>
    BY <1>6 DEF Refuse
  <2>2. \A x \in InPlay : x \in Requests /\ x # r
    BY <1>1, <1>3 DEF InPlay, Waiting
  <2>3. OnePlaceEach'
    BY <2>1, <2>2, <1>1, <1>2 DEF OnePlaceEach, InPlay, Waiting
  <2>4. QueueTypeOK'
    BY <2>1, <1>1 DEF QueueTypeOK
  <2> QED
    BY <2>1, <2>3, <2>4, <1>2 DEF QueueInv, SlotsAccounted, NoIdleSlot
<1> QED
  BY <1>4, <1>5, <1>6 DEF Acquire

LEMMA WitnessSolvedKeepsInv ==
  ASSUME QueueInv, NEW r \in Requests, WitnessSolved(r)
  PROVE  QueueInv'
<1>1. /\ r \in solving
      /\ solving' = solving \ {r}
      /\ proving' = proving \union {r}
      /\ UNCHANGED <<running, queue, worker, outcome>>
  BY DEF WitnessSolved
<1>2. (solving \union proving)' = solving \union proving
  BY <1>1
<1>3. /\ solving \intersect proving = {}
      /\ Waiting \intersect (solving \union proving) = {}
      /\ \A i, j \in DOMAIN queue : queue[i] = queue[j] => i = j
      /\ \A x \in InPlay : outcome[x] = "none"
  BY DEF QueueInv, SlotsAccounted, OnePlaceEach
<1>4. OnePlaceEach'
  BY <1>1, <1>2, <1>3 DEF OnePlaceEach, InPlay, Waiting
<1>5. QueueTypeOK'
  BY <1>1 DEF QueueInv, QueueTypeOK
<1> QED
  BY <1>1, <1>2, <1>4, <1>5 DEF QueueInv, SlotsAccounted, NoIdleSlot

LEMMA ProverRestartKeepsInv ==
  ASSUME QueueInv, ProverRestart
  PROVE  QueueInv'
<1>1. /\ running' = 0
      /\ queue' = <<>>
      /\ solving' = {}
      /\ proving' = {}
      /\ worker' = "up"
      /\ outcome' = [r \in Requests |-> IF r \in InPlay THEN "lost" ELSE outcome[r]]
  BY DEF ProverRestart
<1>2. Cardinality((solving \union proving)') = 0
  <2>1. (solving \union proving)' = {}
    BY <1>1
  <2> QED
    BY <2>1, FS_EmptySet
<1>3. OnePlaceEach'
  BY <1>1 DEF OnePlaceEach, InPlay, Waiting
<1>4. QueueTypeOK'
  BY <1>1 DEF QueueInv, QueueTypeOK
<1> QED
  BY <1>1, <1>2, <1>3, <1>4, ProvingQueueAssumption
     DEF QueueInv, SlotsAccounted, NoIdleSlot

\* The actions that end by a release, and for which requests.
LEMMA Releases ==
  ASSUME QueueInv, NEW r \in Requests
  PROVE  /\ WitnessRejected(r) => {r} \subseteq solving /\ Release({r}, "error")
         /\ ProveFailed(r) => {r} \subseteq proving /\ Release({r}, "error")
         /\ ProveDone(r) => {r} \subseteq proving /\ Release({r}, "proof")
         /\ (WitnessRejected(r) \/ ProveFailed(r) \/ ProveDone(r)) => worker' \in {"up", "down"}
BY DEF WitnessRejected, ProveFailed, ProveDone, QueueInv, QueueTypeOK

LEMMA StepQueueInv ==
  ASSUME QueueInv, [QueueNext]_queueVars
  PROVE  QueueInv'
<1>1. ASSUME NEW r \in Requests, Fresh(r), Acquire(r)
      PROVE  QueueInv'
  BY <1>1, AcquireKeepsInv
<1>2. ASSUME NEW r \in Requests, WitnessAnswer(r)
      PROVE  QueueInv'
  <2>1. CASE WitnessSolved(r)
    BY <2>1, WitnessSolvedKeepsInv
  <2>2. CASE WitnessRejected(r)
    <3>1. /\ {r} \subseteq solving \union proving
          /\ Release({r}, "error")
          /\ worker' \in {"up", "down"}
          /\ "error" \in Ended
      BY <2>2, Releases DEF Ended
    <3> QED
      BY <3>1, ReleaseKeepsInv
  <2> QED
    BY <1>2, <2>1, <2>2 DEF WitnessAnswer
<1>3. ASSUME NEW r \in Requests, ProveAnswer(r)
      PROVE  QueueInv'
  <2>1. /\ {r} \subseteq solving \union proving
        /\ worker' \in {"up", "down"}
        /\ Release({r}, "error") \/ Release({r}, "proof")
        /\ {"error", "proof"} \subseteq Ended
    BY <1>3, Releases DEF ProveAnswer, Ended
  <2> QED
    BY <2>1, ReleaseKeepsInv
<1>4. CASE WorkerFails
  <2>1. /\ solving \subseteq solving \union proving
        /\ worker' \in {"up", "down"}
        /\ Release(solving, "error")
        /\ "error" \in Ended
    BY <1>4 DEF WorkerFails, Ended
  <2> QED
    BY <2>1, ReleaseKeepsInv
<1>5. CASE ProverRestart
  BY <1>5, ProverRestartKeepsInv
<1>6. CASE UNCHANGED queueVars
  BY <1>6 DEF queueVars, QueueInv, QueueTypeOK, SlotsAccounted, NoIdleSlot, OnePlaceEach,
              InPlay, Waiting
<1> QED
  BY <1>1, <1>2, <1>3, <1>4, <1>5, <1>6 DEF QueueNext

\* The queue keeps its types, its slots and its limits, and no waiter watches a free
\* slot, whatever the limits and the order of calls, answers, failures and restarts.
THEOREM QueueKeepsItsSlots == QueueSafety => [](QueueTypeOK /\ SlotsAccounted /\ NoIdleSlot)
<1>1. QueueInv /\ [QueueNext]_queueVars => QueueInv'
  BY StepQueueInv
<1>2. QueueInv => QueueTypeOK /\ SlotsAccounted /\ NoIdleSlot
  BY DEF QueueInv
<1> QED
  BY <1>1, <1>2, InitQueueInv, PTL DEF QueueSafety

\* NoOvertaking of one step.
InOrder ==
  \A r \in solving' \ solving :
    \A i \in DOMAIN queue : queue[i] \in Waiting' =>
      \E j \in 1..(i - 1) : queue[j] = r

\* A release starts the oldest waiters: one that is left stood behind all of them.
LEMMA ReleaseIsInOrder ==
  ASSUME QueueInv, NEW R, R \subseteq solving \union proving, NEW result, Release(R, result)
  PROVE  InOrder
<1> DEFINE n == Cardinality(Started(R))
<1>1. n \in 0..Len(queue) /\ Started(R) = 1..n
  BY StartedCount
<1> HIDE DEF n
<1>2. queue \in Seq(Requests) /\ \A i, j \in DOMAIN queue : queue[i] = queue[j] => i = j
  BY DEF QueueInv, QueueTypeOK, SlotsAccounted, OnePlaceEach
<1>3. /\ queue' \in Seq(Requests)
      /\ Len(queue') = Len(queue) - n
      /\ \A i \in 1..(Len(queue) - n) : queue'[i] = queue[n + i]
  BY <1>1, <1>2, QueueTail DEF Release, n
<1>4. solving' = (solving \ R) \union {queue[i] : i \in 1..n}
  BY <1>1 DEF Release
<1> SUFFICES ASSUME NEW r \in solving' \ solving, NEW i \in DOMAIN queue, queue[i] \in Waiting'
             PROVE  \E j \in 1..(i - 1) : queue[j] = r
  BY DEF InOrder
<1>5. PICK k \in 1..n : queue[k] = r
  BY <1>4
<1>6. PICK m \in 1..(Len(queue) - n) : queue[i] = queue[n + m]
  <2>1. PICK m \in DOMAIN queue' : queue[i] = queue'[m]
    BY DEF Waiting
  <2>2. m \in 1..(Len(queue) - n)
    BY <2>1, <1>3
  <2>3. queue'[m] = queue[n + m]
    BY <2>2, <1>3
  <2> QED
    BY <2>1, <2>2, <2>3
<1>7. n + m \in DOMAIN queue
  BY <1>1, <1>2
<1>8. i = n + m
  BY <1>2, <1>6, <1>7
<1>9. k \in 1..(i - 1)
  BY <1>1, <1>8
<1> QED
  BY <1>5, <1>9

LEMMA StepIsInOrder ==
  ASSUME QueueInv, [QueueNext]_queueVars
  PROVE  InOrder
<1>1. ASSUME NEW r \in Requests, Acquire(r)
      PROVE  InOrder
  <2>1. CASE TakeSlot(r)
    <3>1. running # MaxConcurrency
      BY <2>1, ProvingQueueAssumption DEF TakeSlot, QueueInv, QueueTypeOK
    <3>2. queue = <<>>
      BY <3>1 DEF QueueInv, NoIdleSlot
    <3> QED
      BY <3>2 DEF InOrder
  <2>2. CASE WaitForSlot(r) \/ Refuse(r)
    BY <2>2 DEF WaitForSlot, Refuse, InOrder
  <2> QED
    BY <1>1, <2>1, <2>2 DEF Acquire
<1>2. ASSUME NEW r \in Requests, WitnessAnswer(r) \/ ProveAnswer(r)
      PROVE  InOrder
  <2>1. CASE WitnessSolved(r)
    BY <2>1 DEF WitnessSolved, InOrder
  <2>2. CASE WitnessRejected(r) \/ ProveAnswer(r)
    <3>1. {r} \subseteq solving \union proving
      BY <2>2, Releases DEF ProveAnswer
    <3>2. PICK result : Release({r}, result)
      BY <2>2, Releases DEF ProveAnswer
    <3> QED
      BY <3>1, <3>2, ReleaseIsInOrder
  <2> QED
    BY <1>2, <2>1, <2>2 DEF WitnessAnswer
<1>3. CASE WorkerFails
  BY <1>3, ReleaseIsInOrder DEF WorkerFails
<1>4. CASE ProverRestart
  BY <1>4 DEF ProverRestart, InOrder
<1>5. CASE UNCHANGED queueVars
  BY <1>5 DEF queueVars, InOrder
<1> QED
  BY <1>1, <1>2, <1>3, <1>4, <1>5 DEF QueueNext

\* Slots are given in the order of the calls of prove().
THEOREM QueueServesInOrder == QueueSafety => NoOvertaking
<1>1. QueueInv /\ [QueueNext]_queueVars => QueueInv'
  BY StepQueueInv
<1>2. QueueInv /\ [QueueNext]_queueVars => [InOrder]_queueVars
  BY StepIsInOrder
<1>3. QueueSafety => [][InOrder]_queueVars
  BY <1>1, <1>2, InitQueueInv, PTL DEF QueueSafety
<1> QED
  BY <1>3 DEF NoOvertaking, InOrder

--------------------------------------------------------------------------------
(* The registry and the outbox *)

\* A request whose token is being checked has not called prove(), and the caller of
\* a job that is being worked on was told its key.
HttpPart ==
  /\ HttpTypeOK
  /\ RegistryIsTheWork
  /\ AlwaysFindable
  /\ OutcomesAreKept
  /\ \A r \in authenticating : Fresh(r)
  /\ \A j \in DOMAIN byId : told[j] = byId[j]

HttpInv == QueueInv /\ HttpPart

LEMMA InitHttpInv == HttpInit => HttpInv
<1> SUFFICES ASSUME HttpInit
             PROVE  HttpInv
  OBVIOUS
<1>1. QueueInv /\ InPlay = {} /\ \A r \in Requests : outcome[r] = "none"
  BY InitQueueInv DEF HttpInit, QueueInit, InPlay, Waiting
<1>2. /\ authenticating = {}
      /\ DOMAIN byKey = {}
      /\ DOMAIN byId = {}
      /\ stored = [j \in Jobs |-> NoRow]
      /\ told = [j \in Jobs |-> NoKey]
  BY DEF HttpInit
<1>3. HttpTypeOK
  BY <1>2 DEF HttpTypeOK
<1>4. RegistryIsTheWork /\ AlwaysFindable
  BY <1>1, <1>2 DEF RegistryIsTheWork, AlwaysFindable, Active, JobState
<1>5. OutcomesAreKept
  BY <1>1, HttpProverAssumption DEF OutcomesAreKept
<1> QED
  BY <1>1, <1>2, <1>3, <1>4, <1>5 DEF HttpInv, HttpPart

\* What Close(R, status) does to each key and job; with R empty, nothing.
Closed(R, status) ==
  /\ stored' \in [Jobs -> Row \union {NoRow}]
  /\ \A j \in Jobs : stored'[j] = IF j \in R \intersect DOMAIN byId
                                  THEN [key |-> byId[j], status |-> status]
                                  ELSE stored[j]
  /\ DOMAIN byId' = DOMAIN byId \ R
  /\ \A j \in DOMAIN byId' : byId'[j] = byId[j]
  /\ DOMAIN byKey' = {k \in DOMAIN byKey : byKey[k] \notin R}
  /\ \A k \in DOMAIN byKey' : byKey'[k] = byKey[k]

LEMMA CloseIsClosed ==
  ASSUME HttpPart, NEW R, NEW status \in {"ok", "error"}, Close(R, status)
  PROVE  Closed(R, status)
<1>1. \A j \in DOMAIN byId : byId[j] \in Keys
  BY DEF HttpPart, HttpTypeOK
<1>2. stored \in [Jobs -> Row \union {NoRow}]
  BY DEF HttpPart, HttpTypeOK
<1>3. stored' \in [Jobs -> Row \union {NoRow}]
  BY <1>1, <1>2 DEF Close, Row, Remove
<1> QED
  BY <1>3 DEF Closed, Close, Remove

LEMMA NothingIsClosed ==
  ASSUME HttpPart, UNCHANGED <<byKey, byId, stored>>
  PROVE  Closed({}, "error")
BY DEF HttpPart, HttpTypeOK, Closed

\* A step that ends the work on R keeps the registry and the outbox in order.
LEMMA ClosedKeepsPart ==
  ASSUME HttpPart, NEW R, R \subseteq Active, NEW status \in {"ok", "error"},
         Closed(R, status), UNCHANGED told,
         authenticating' \subseteq authenticating,
         Active' = Active \ R,
         authenticating' \intersect InPlay' = {},
         \A r \in Requests \ R : outcome'[r] = outcome[r]
  PROVE  HttpPart'
<1>1. /\ authenticating \subseteq Requests
      /\ DOMAIN byKey \subseteq Keys
      /\ \A k \in DOMAIN byKey : byKey[k] \in Jobs
      /\ DOMAIN byId \subseteq Jobs
      /\ \A j \in DOMAIN byId : byId[j] \in Keys
      /\ told \in [Jobs -> Keys \union {NoKey}]
  BY DEF HttpPart, HttpTypeOK
<1>2. /\ DOMAIN byId = Active \intersect Jobs
      /\ \A j \in DOMAIN byId : byId[j] \in DOMAIN byKey /\ byKey[byId[j]] = j
      /\ \A k \in DOMAIN byKey : byKey[k] \in DOMAIN byId /\ byId[byKey[k]] = k
  BY DEF HttpPart, RegistryIsTheWork
<1>3. \A j \in DOMAIN byId : told[j] = byId[j]
  BY DEF HttpPart
<1>4. /\ stored' \in [Jobs -> Row \union {NoRow}]
      /\ \A j \in Jobs : stored'[j] = IF j \in R \intersect DOMAIN byId
                                      THEN [key |-> byId[j], status |-> status]
                                      ELSE stored[j]
      /\ DOMAIN byId' = DOMAIN byId \ R
      /\ \A j \in DOMAIN byId' : byId'[j] = byId[j]
      /\ DOMAIN byKey' = {k \in DOMAIN byKey : byKey[k] \notin R}
      /\ \A k \in DOMAIN byKey' : byKey'[k] = byKey[k]
  BY DEF Closed
<1>5. R \intersect Jobs \subseteq DOMAIN byId
  BY <1>2
<1>6. \A j \in R \intersect Jobs : stored'[j] \in Row /\ stored'[j].key = told[j]
  BY <1>1, <1>3, <1>4, <1>5 DEF Row
<1>7. NoRow \notin Row
  BY HttpProverAssumption DEF Row
<1>8. HttpTypeOK'
  BY <1>1, <1>4 DEF HttpTypeOK
<1>9. RegistryIsTheWork'
  <2>1. DOMAIN byId' = Active' \intersect Jobs
    BY <1>2, <1>4
  <2>2. \A j \in DOMAIN byId' : byId'[j] \in DOMAIN byKey' /\ byKey'[byId'[j]] = j
    BY <1>2, <1>4
  <2>3. \A k \in DOMAIN byKey' : byKey'[k] \in DOMAIN byId' /\ byId'[byKey'[k]] = k
    BY <1>2, <1>4
  <2> QED
    BY <2>1, <2>2, <2>3 DEF RegistryIsTheWork
<1>10. AlwaysFindable'
  <2> SUFFICES ASSUME NEW j \in Jobs, told[j] # NoKey
               PROVE  \/ /\ j \in DOMAIN byId'
                         /\ byId'[j] = told[j]
                         /\ stored'[j] = NoRow
                      \/ /\ j \notin DOMAIN byId'
                         /\ stored'[j] # NoRow
                         /\ stored'[j].key = told[j]
    BY DEF AlwaysFindable, JobState
  <2>1. CASE j \in R
    BY <2>1, <1>4, <1>6, <1>7
  <2>2. CASE j \notin R
    <3>1. \/ j \in DOMAIN byId /\ byId[j] = told[j] /\ stored[j] = NoRow
          \/ j \notin DOMAIN byId /\ stored[j] # NoRow /\ stored[j].key = told[j]
      BY DEF HttpPart, AlwaysFindable, JobState
    <3>2. stored'[j] = stored[j]
      BY <2>2, <1>4
    <3> QED
      BY <3>1, <3>2, <2>2, <1>4
  <2> QED
    BY <2>1, <2>2
<1>11. OutcomesAreKept'
  <2> SUFFICES ASSUME NEW j \in Jobs, outcome'[j] \in {"proof", "error", "full"}
               PROVE  stored'[j] # NoRow
    BY DEF OutcomesAreKept
  <2>1. CASE j \in R
    BY <2>1, <1>6, <1>7
  <2>2. CASE j \notin R
    <3>1. j \in Requests
      BY HttpProverAssumption
    <3>2. outcome'[j] = outcome[j] /\ stored'[j] = stored[j]
      BY <2>2, <3>1, <1>4
    <3> QED
      BY <3>2 DEF HttpPart, OutcomesAreKept
  <2> QED
    BY <2>1, <2>2
<1>12. \A r \in authenticating' : Fresh(r)'
  <2> SUFFICES ASSUME NEW r \in authenticating'
               PROVE  r \notin InPlay' /\ outcome'[r] = "none"
    BY DEF Fresh
  <2>1. r \in Requests \ R
    BY <1>1 DEF Active
  <2> QED
    BY <2>1 DEF HttpPart, Fresh
<1>13. \A j \in DOMAIN byId' : told'[j] = byId'[j]
  BY <1>3, <1>4
<1> QED
  BY <1>8, <1>9, <1>10, <1>11, <1>12, <1>13 DEF HttpPart

\* A release takes R, and nothing else, out of play.
LEMMA ReleaseInPlay ==
  ASSUME QueueInv, NEW R, R \subseteq solving \union proving,
         NEW result \in Ended, Release(R, result)
  PROVE  /\ InPlay' = InPlay \ R
         /\ \A r \in Requests : outcome'[r] = IF r \in R THEN result ELSE outcome[r]
         /\ R \subseteq InPlay
<1> DEFINE n == Cardinality(Started(R))
           B == {queue[i] : i \in 1..n}
<1>1. n \in 0..Len(queue) /\ Started(R) = 1..n
  BY StartedCount
<1> HIDE DEF n
<1>2. /\ queue \in Seq(Requests)
      /\ Waiting \intersect (solving \union proving) = {}
  BY DEF QueueInv, QueueTypeOK, SlotsAccounted, OnePlaceEach
<1>3. /\ queue' \in Seq(Requests)
      /\ Len(queue') = Len(queue) - n
      /\ \A i \in 1..(Len(queue) - n) : queue'[i] = queue[n + i]
  BY <1>1, <1>2, QueueTail DEF Release, n
<1>4. solving' = (solving \ R) \union B /\ proving' = proving \ R
  BY <1>1 DEF Release
<1>5. Waiting' \subseteq Waiting
  <2> SUFFICES ASSUME NEW i \in 1..(Len(queue) - n)
               PROVE  queue[n + i] \in Waiting
    BY <1>1, <1>2, <1>3 DEF Waiting
  <2>1. n + i \in DOMAIN queue
    BY <1>1, <1>2
  <2> QED
    BY <2>1 DEF Waiting
<1>6. B \subseteq Waiting
  BY <1>1, <1>2 DEF Waiting
<1>7. Waiting \subseteq Waiting' \union B
  <2> SUFFICES ASSUME NEW i \in DOMAIN queue
               PROVE  queue[i] \in Waiting' \union B
    BY DEF Waiting
  <2>1. CASE i <= n
    BY <2>1, <1>1, <1>2
  <2>2. CASE i > n
    <3>1. i - n \in 1..(Len(queue) - n) /\ n + (i - n) = i
      BY <2>2, <1>1, <1>2
    <3>2. queue'[i - n] = queue[i] /\ i - n \in DOMAIN queue'
      BY <3>1, <1>1, <1>2, <1>3
    <3> QED
      BY <3>2 DEF Waiting
  <2> QED
    BY <2>1, <2>2, <1>1, <1>2
<1> QED
  BY <1>2, <1>4, <1>5, <1>6, <1>7 DEF InPlay, Release

\* A step of the event loop in which the requests of R are released and closed.
LEMMA ReleaseAndClose ==
  ASSUME HttpInv, NEW R, R \subseteq solving \union proving, NEW result \in Ended,
         NEW status \in {"ok", "error"}, Release(R, result), Close(R, status),
         UNCHANGED <<authenticating, told>>
  PROVE  HttpPart'
<1>1. QueueInv /\ HttpPart
  BY DEF HttpInv
<1>2. /\ InPlay' = InPlay \ R
      /\ \A r \in Requests : outcome'[r] = IF r \in R THEN result ELSE outcome[r]
      /\ R \subseteq InPlay
  BY <1>1, ReleaseInPlay
<1>3. authenticating \intersect InPlay = {}
  BY <1>1 DEF HttpPart, Fresh
<1>4. /\ R \subseteq Active
      /\ Active' = Active \ R
      /\ authenticating' \intersect InPlay' = {}
      /\ authenticating' \subseteq authenticating
      /\ \A r \in Requests \ R : outcome'[r] = outcome[r]
  BY <1>2, <1>3 DEF Active
<1>5. Closed(R, status)
  BY <1>1, CloseIsClosed
<1> QED
  BY <1>1, <1>4, <1>5, ClosedKeepsPart

LEMMA PostJobKeepsPart ==
  ASSUME HttpInv, NEW j \in Jobs, NEW k \in Keys, PostJob(j, k)
  PROVE  HttpPart'
<1>1. /\ FreshId(j)
      /\ k \notin DOMAIN byKey
      /\ byKey' = [x \in DOMAIN byKey \union {k} |-> IF x = k THEN j ELSE byKey[x]]
      /\ byId' = [x \in DOMAIN byId \union {j} |-> IF x = j THEN k ELSE byId[x]]
      /\ told' = [told EXCEPT ![j] = k]
      /\ authenticating' = authenticating \union {j}
      /\ UNCHANGED <<queueVars, stored>>
  BY DEF PostJob, Add
<1>2. /\ InPlay' = InPlay
      /\ outcome' = outcome
      /\ stored' = stored
  BY <1>1 DEF queueVars, InPlay, Waiting
<1>3. /\ Fresh(j)
      /\ j \notin Active
      /\ stored[j] = NoRow
      /\ told[j] = NoKey
      /\ j \in Requests
  BY <1>1, HttpProverAssumption DEF FreshId, Fresh, Active
<1>4. /\ authenticating \subseteq Requests
      /\ DOMAIN byKey \subseteq Keys
      /\ \A x \in DOMAIN byKey : byKey[x] \in Jobs
      /\ DOMAIN byId \subseteq Jobs
      /\ \A i \in DOMAIN byId : byId[i] \in Keys
      /\ stored \in [Jobs -> Row \union {NoRow}]
      /\ told \in [Jobs -> Keys \union {NoKey}]
  BY DEF HttpInv, HttpPart, HttpTypeOK
<1>5. /\ DOMAIN byId = Active \intersect Jobs
      /\ \A i \in DOMAIN byId : byId[i] \in DOMAIN byKey /\ byKey[byId[i]] = i
      /\ \A x \in DOMAIN byKey : byKey[x] \in DOMAIN byId /\ byId[byKey[x]] = x
  BY DEF HttpInv, HttpPart, RegistryIsTheWork
<1>6. j \notin DOMAIN byId
  BY <1>3, <1>5
<1>7. Active' = Active \union {j}
  BY <1>1, <1>2 DEF Active
<1>8. HttpTypeOK'
  BY <1>1, <1>2, <1>3, <1>4 DEF HttpTypeOK
<1>9. RegistryIsTheWork'
  BY <1>1, <1>5, <1>6, <1>7 DEF RegistryIsTheWork
<1>10. AlwaysFindable'
  <2> SUFFICES ASSUME NEW i \in Jobs, told'[i] # NoKey
               PROVE  \/ i \in DOMAIN byId' /\ byId'[i] = told'[i] /\ stored[i] = NoRow
                      \/ i \notin DOMAIN byId' /\ stored[i] # NoRow /\ stored[i].key = told'[i]
    BY <1>2 DEF AlwaysFindable, JobState
  <2>1. CASE i = j
    BY <2>1, <1>1, <1>3, <1>4
  <2>2. CASE i # j
    <3>1. told'[i] = told[i]
      BY <2>2, <1>1, <1>4
    <3> QED
      BY <3>1, <2>2, <1>1 DEF HttpInv, HttpPart, AlwaysFindable, JobState
  <2> QED
    BY <2>1, <2>2
<1>11. OutcomesAreKept'
  BY <1>2 DEF HttpInv, HttpPart, OutcomesAreKept
<1>12. \A r \in authenticating' : Fresh(r)'
  BY <1>1, <1>2, <1>3 DEF HttpInv, HttpPart, Fresh
<1>13. \A i \in DOMAIN byId' : told'[i] = byId'[i]
  BY <1>1, <1>4, <1>6 DEF HttpInv, HttpPart
<1> QED
  BY <1>8, <1>9, <1>10, <1>11, <1>12, <1>13 DEF HttpPart

LEMMA PostSyncKeepsPart ==
  ASSUME HttpInv, NEW r \in Requests, PostSync(r)
  PROVE  HttpPart'
<1>1. /\ r \in Requests \ Jobs
      /\ FreshId(r)
      /\ authenticating' = authenticating \union {r}
      /\ UNCHANGED <<queueVars, byKey, byId, stored, told>>
  BY DEF PostSync
<1>2. InPlay' = InPlay /\ outcome' = outcome
  BY <1>1 DEF queueVars, InPlay, Waiting
<1>3. (Active \intersect Jobs)' = Active \intersect Jobs
  BY <1>1, <1>2 DEF Active
<1>4. HttpTypeOK'
  BY <1>1 DEF HttpInv, HttpPart, HttpTypeOK
<1>5. RegistryIsTheWork'
  BY <1>1, <1>3 DEF HttpInv, HttpPart, RegistryIsTheWork
<1>6. AlwaysFindable' /\ OutcomesAreKept'
  BY <1>1, <1>2 DEF HttpInv, HttpPart, AlwaysFindable, OutcomesAreKept, JobState
<1>7. \A x \in authenticating' : Fresh(x)'
  BY <1>1, <1>2 DEF HttpInv, HttpPart, Fresh, FreshId
<1> QED
  BY <1>1, <1>4, <1>5, <1>6, <1>7 DEF HttpInv, HttpPart

LEMMA AuthAnswerKeepsPart ==
  ASSUME HttpInv, NEW r \in Requests, AuthAnswer(r)
  PROVE  HttpPart'
<1>1. QueueInv /\ HttpPart
  BY DEF HttpInv
<1>2. /\ r \in authenticating
      /\ authenticating' = authenticating \ {r}
      /\ UNCHANGED told
  BY DEF AuthAnswer, AuthFails, AuthOk
<1>3. authenticating \intersect InPlay = {} /\ {r} \subseteq Active
  BY <1>1, <1>2 DEF HttpPart, Fresh, Active
<1>4. authenticating' \subseteq authenticating
  BY <1>2
<1>5. CASE AuthFails(r)
  <2>1. InPlay' = InPlay /\ outcome' = outcome
    BY <1>5 DEF AuthFails, queueVars, InPlay, Waiting
  <2>2. /\ Active' = Active \ {r}
        /\ authenticating' \intersect InPlay' = {}
        /\ \A x \in Requests \ {r} : outcome'[x] = outcome[x]
    BY <1>2, <1>3, <2>1 DEF Active
  <2>3. Closed({r}, "error")
    BY <1>1, <1>5, CloseIsClosed DEF AuthFails
  <2> QED
    BY <1>1, <1>2, <1>3, <1>4, <2>2, <2>3, ClosedKeepsPart
<1>6. CASE AuthOk(r) /\ Refuse(r) /\ Close({r}, "error")
  <2>1. InPlay' = InPlay /\ outcome' = [outcome EXCEPT ![r] = "full"]
    BY <1>6 DEF Refuse, InPlay, Waiting
  <2>2. /\ Active' = Active \ {r}
        /\ authenticating' \intersect InPlay' = {}
        /\ \A x \in Requests \ {r} : outcome'[x] = outcome[x]
    BY <1>1, <1>2, <1>3, <2>1 DEF Active, QueueInv, QueueTypeOK
  <2>3. Closed({r}, "error")
    BY <1>1, <1>6, CloseIsClosed
  <2> QED
    BY <1>1, <1>2, <1>3, <1>4, <2>2, <2>3, ClosedKeepsPart
<1>7. CASE (TakeSlot(r) \/ WaitForSlot(r)) /\ UNCHANGED <<byKey, byId, stored>>
  <2>1. InPlay' = InPlay \union {r} /\ outcome' = outcome
    <3>1. CASE TakeSlot(r)
      BY <3>1 DEF TakeSlot, InPlay, Waiting
    <3>2. CASE WaitForSlot(r)
      <4>1. queue \in Seq(Requests) /\ queue' = Append(queue, r)
        BY <1>1, <3>2 DEF WaitForSlot, QueueInv, QueueTypeOK
      <4>2. Waiting' = Waiting \union {r}
        <5>1. /\ Len(queue') = Len(queue) + 1
              /\ queue' \in Seq(Requests)
              /\ \A i \in 1..Len(queue) : queue'[i] = queue[i]
              /\ queue'[Len(queue) + 1] = r
          BY <4>1, AppendProperties
        <5> QED
          BY <4>1, <5>1 DEF Waiting
      <4> QED
        BY <4>2, <3>2 DEF WaitForSlot, InPlay
    <3> QED
      BY <1>7, <3>1, <3>2
  <2>2. /\ Active' = Active \ {}
        /\ authenticating' \intersect InPlay' = {}
        /\ \A x \in Requests \ {} : outcome'[x] = outcome[x]
    BY <1>2, <1>3, <2>1 DEF Active
  <2>3. Closed({}, "error")
    BY <1>1, <1>7, NothingIsClosed
  <2>4. {} \subseteq Active
    OBVIOUS
  <2> QED
    BY <1>1, <1>2, <1>4, <2>2, <2>3, <2>4, ClosedKeepsPart
<1> QED
  BY <1>5, <1>6, <1>7 DEF AuthAnswer, AuthOk

LEMMA WitnessAndProveKeepPart ==
  ASSUME HttpInv, NEW r \in Requests, HttpWitnessAnswer(r) \/ HttpProveAnswer(r)
  PROVE  HttpPart'
<1>1. QueueInv /\ HttpPart
  BY DEF HttpInv
<1>2. UNCHANGED <<authenticating, told>>
  BY DEF HttpWitnessAnswer, HttpProveAnswer
<1>3. CASE WitnessSolved(r) /\ UNCHANGED <<byKey, byId, stored>>
  <2>1. InPlay' = InPlay /\ outcome' = outcome
    BY <1>3 DEF WitnessSolved, InPlay, Waiting
  <2>2. /\ Active' = Active \ {}
        /\ authenticating' \subseteq authenticating
        /\ authenticating' \intersect InPlay' = {}
        /\ \A x \in Requests \ {} : outcome'[x] = outcome[x]
        /\ {} \subseteq Active
    BY <1>1, <1>2, <2>1 DEF Active, HttpPart, Fresh
  <2>3. Closed({}, "error")
    BY <1>1, <1>3, NothingIsClosed
  <2> QED
    BY <1>1, <1>2, <2>2, <2>3, ClosedKeepsPart
<1>4. CASE WitnessRejected(r) /\ Close({r}, "error")
  <2>1. {r} \subseteq solving \union proving /\ Release({r}, "error") /\ "error" \in Ended
    BY <1>1, <1>4, Releases DEF Ended
  <2> QED
    BY <2>1, <1>2, <1>4, ReleaseAndClose
<1>5. CASE ProveDone(r) /\ (Close({r}, "ok") \/ Close({r}, "error"))
  <2>1. {r} \subseteq solving \union proving /\ Release({r}, "proof") /\ "proof" \in Ended
    BY <1>1, <1>5, Releases DEF Ended
  <2> QED
    BY <2>1, <1>2, <1>5, ReleaseAndClose
<1>6. CASE ProveFailed(r) /\ Close({r}, "error")
  <2>1. {r} \subseteq solving \union proving /\ Release({r}, "error") /\ "error" \in Ended
    BY <1>1, <1>6, Releases DEF Ended
  <2> QED
    BY <2>1, <1>2, <1>6, ReleaseAndClose
<1> QED
  BY <1>3, <1>4, <1>5, <1>6 DEF HttpWitnessAnswer, HttpProveAnswer

LEMMA HttpRestartKeepsPart ==
  ASSUME HttpInv, HttpRestart
  PROVE  HttpPart'
<1>1. /\ ProverRestart
      /\ authenticating' = {}
      /\ DOMAIN byKey' = {}
      /\ DOMAIN byId' = {}
      /\ told' = [j \in Jobs |-> NoKey]
      /\ stored' = stored
  BY DEF HttpRestart
<1>2. InPlay' = {}
  BY <1>1 DEF ProverRestart, InPlay, Waiting
<1>3. \A r \in Requests : outcome'[r] = outcome[r] \/ outcome'[r] = "lost"
  BY <1>1 DEF ProverRestart
<1>4. HttpTypeOK'
  BY <1>1 DEF HttpInv, HttpPart, HttpTypeOK
<1>5. RegistryIsTheWork' /\ AlwaysFindable'
  BY <1>1, <1>2 DEF RegistryIsTheWork, AlwaysFindable, Active, JobState
<1>6. OutcomesAreKept'
  <2> SUFFICES ASSUME NEW j \in Jobs, outcome'[j] \in {"proof", "error", "full"}
               PROVE  stored[j] # NoRow
    BY <1>1 DEF OutcomesAreKept
  <2>1. j \in Requests
    BY HttpProverAssumption
  <2>2. outcome'[j] = outcome[j]
    BY <1>3, <2>1
  <2> QED
    BY <2>2 DEF HttpInv, HttpPart, OutcomesAreKept
<1> QED
  BY <1>1, <1>4, <1>5, <1>6 DEF HttpPart

--------------------------------------------------------------------------------
(* The request path implements the proving queue *)

\* Whatever the request path does, it calls prove() once per request and is otherwise
\* driven by the queue: every step is a step of the queue or leaves it alone.
LEMMA HttpStepIsQueueStep ==
  ASSUME HttpInv, [HttpNext]_allVars
  PROVE  [QueueNext]_queueVars
<1>1. ASSUME NEW j \in Jobs, NEW k \in Keys, PostJob(j, k)
      PROVE  UNCHANGED queueVars
  BY <1>1 DEF PostJob, Add
<1>2. ASSUME NEW r \in Requests, PostSync(r)
      PROVE  UNCHANGED queueVars
  BY <1>2 DEF PostSync
<1>3. ASSUME NEW r \in Requests, AuthAnswer(r)
      PROVE  [QueueNext]_queueVars
  <2>1. CASE AuthFails(r)
    BY <2>1 DEF AuthFails
  <2>2. CASE AuthOk(r)
    <3>1. Fresh(r)
      BY <2>2 DEF AuthOk, HttpInv, HttpPart
    <3>2. Acquire(r)
      BY <2>2 DEF AuthOk, Acquire
    <3> QED
      BY <3>1, <3>2 DEF QueueNext
  <2> QED
    BY <1>3, <2>1, <2>2 DEF AuthAnswer
<1>4. ASSUME NEW r \in Requests, HttpWitnessAnswer(r) \/ HttpProveAnswer(r)
      PROVE  QueueNext
  <2>1. WitnessAnswer(r) \/ ProveAnswer(r)
    BY <1>4 DEF HttpWitnessAnswer, HttpProveAnswer, WitnessAnswer, ProveAnswer
  <2> QED
    BY <2>1 DEF QueueNext
<1>5. CASE HttpWorkerFails
  BY <1>5 DEF HttpWorkerFails, QueueNext
<1>6. CASE HttpRestart
  BY <1>6 DEF HttpRestart, QueueNext
<1>7. CASE UNCHANGED allVars
  BY <1>7 DEF allVars
<1> QED
  BY <1>1, <1>2, <1>3, <1>4, <1>5, <1>6, <1>7 DEF HttpNext

LEMMA StepHttpInv ==
  ASSUME HttpInv, [HttpNext]_allVars
  PROVE  HttpInv'
<1>1. QueueInv /\ HttpPart
  BY DEF HttpInv
<1>2. QueueInv'
  BY <1>1, HttpStepIsQueueStep, StepQueueInv
<1> SUFFICES HttpPart'
  BY <1>2 DEF HttpInv
<1>3. ASSUME NEW r \in Requests,
             AuthAnswer(r) \/ HttpWitnessAnswer(r) \/ HttpProveAnswer(r)
      PROVE  HttpPart'
  BY <1>3, AuthAnswerKeepsPart, WitnessAndProveKeepPart
<1>4. CASE HttpWorkerFails
  <2>1. /\ solving \subseteq solving \union proving
        /\ Release(solving, "error")
        /\ Close(solving, "error")
        /\ UNCHANGED <<authenticating, told>>
        /\ "error" \in Ended
    BY <1>4 DEF HttpWorkerFails, WorkerFails, Ended
  <2> QED
    BY <2>1, ReleaseAndClose
<1>5. CASE HttpRestart
  BY <1>5, HttpRestartKeepsPart
<1>6. CASE UNCHANGED allVars
  <2>1. UNCHANGED <<queueVars, authenticating, byKey, byId, stored, told>>
    BY <1>6 DEF allVars, httpVars
  <2>2. InPlay' = InPlay /\ outcome' = outcome
    BY <2>1 DEF queueVars, InPlay, Waiting
  <2>3. Active' = Active
    BY <2>1, <2>2 DEF Active
  <2>4. HttpTypeOK' /\ RegistryIsTheWork'
    BY <2>1, <2>3, <1>1 DEF HttpPart, HttpTypeOK, RegistryIsTheWork
  <2>5. AlwaysFindable' /\ OutcomesAreKept'
    BY <2>1, <2>2, <1>1 DEF HttpPart, AlwaysFindable, OutcomesAreKept, JobState
  <2> QED
    BY <2>1, <2>2, <2>4, <2>5, <1>1 DEF HttpPart, Fresh
<1> QED
  BY <1>3, <1>4, <1>5, <1>6, PostJobKeepsPart, PostSyncKeepsPart DEF HttpNext

\* The request path drives the proving queue as the queue's own specification allows.
THEOREM HttpImplementsQueue == HttpSafety => QueueSafety
<1>1. HttpInv /\ [HttpNext]_allVars => HttpInv'
  BY StepHttpInv
<1>2. HttpInv /\ [HttpNext]_allVars => [QueueNext]_queueVars
  BY HttpStepIsQueueStep
<1>3. HttpInit => QueueInit
  BY DEF HttpInit
<1> QED
  BY <1>1, <1>2, <1>3, InitHttpInv, PTL DEF HttpSafety, QueueSafety

\* So the limits on proofs and waiting requests hold of the service, and it serves
\* the calls of prove() in their order.
THEOREM HttpKeepsItsSlots ==
  HttpSafety => [](QueueTypeOK /\ SlotsAccounted /\ NoIdleSlot) /\ NoOvertaking
BY HttpImplementsQueue, QueueKeepsItsSlots, QueueServesInOrder, PTL

\* An accepted job is findable until its result is, under the key its caller asked
\* for; the registry holds the work going on and nothing else; an outcome is kept.
THEOREM JobsAreFindable ==
  HttpSafety => [](HttpTypeOK /\ RegistryIsTheWork /\ AlwaysFindable /\ OutcomesAreKept)
<1>1. HttpInv /\ [HttpNext]_allVars => HttpInv'
  BY StepHttpInv
<1>2. HttpInv => HttpTypeOK /\ RegistryIsTheWork /\ AlwaysFindable /\ OutcomesAreKept
  BY DEF HttpInv, HttpPart
<1> QED
  BY <1>1, <1>2, InitHttpInv, PTL DEF HttpSafety

\* The registry holds exactly the jobs whose proofs are under way, each under its key.
THEOREM RegistryStaysExact == HttpSafety => []RegistryIsTheWork
BY JobsAreFindable, PTL

\* What prove() ended with is in the outbox from then on, whatever restarts.
THEOREM OutcomesSurvive == HttpSafety => []OutcomesAreKept
BY JobsAreFindable, PTL

\* A repeated request never starts a second proof.
THEOREM OneProofAtATime == HttpSafety => []OneProofPerKey
<1>1. HttpInv /\ [HttpNext]_allVars => HttpInv'
  BY StepHttpInv
<1>2. HttpInv => OneProofPerKey
  <2> SUFFICES ASSUME HttpInv,
                      NEW i \in Active \intersect Jobs, NEW j \in Active \intersect Jobs,
                      told[i] = told[j]
               PROVE  i = j
    BY DEF OneProofPerKey
  <2>1. byId[i] = byId[j] /\ i \in DOMAIN byId /\ j \in DOMAIN byId
    BY DEF HttpInv, HttpPart, RegistryIsTheWork
  <2>2. byKey[byId[i]] = i /\ byKey[byId[j]] = j
    BY <2>1 DEF HttpInv, HttpPart, RegistryIsTheWork
  <2> QED
    BY <2>1, <2>2
<1> QED
  BY <1>1, <1>2, InitHttpInv, PTL DEF HttpSafety
=============================================================================
