----------------------------- MODULE ProvingQueue -----------------------------
(***************************************************************************)
(* The Prover of http-prover: a bounded number of proofs at a time, a      *)
(* bounded queue of requests waiting for a slot, one worker thread that    *)
(* solves witnesses and one bb process per proof.                          *)
(*                                                                         *)
(* The service is one event loop.  A step of the model is everything one   *)
(* event of that loop does, the promise continuations it makes runnable    *)
(* included: the waiter a release() starts has posted its inputs to the    *)
(* worker before the next event is taken.                                  *)
(*                                                                         *)
(* A definition placed before one with the same parameters, and used by no *)
(* action, is a mutant of it: a bug the properties must catch.             *)
(***************************************************************************)
EXTENDS Integers, Sequences, FiniteSets

CONSTANTS
  Requests,        \* calls of prove()
  MaxConcurrency,  \* cfg.maxConcurrency, at least 1
  MaxQueue         \* cfg.maxQueue

ASSUME ProvingQueueAssumption ==
  /\ IsFiniteSet(Requests)
  /\ MaxConcurrency \in Nat \ {0}
  /\ MaxQueue \in Nat

VARIABLES
  running,  \* slots taken
  queue,    \* requests waiting for a slot, oldest first
  solving,  \* requests whose witness the worker has been asked for: `pending`
  proving,  \* requests bb is proving
  worker,   \* "up", or "down" after its error event: it is never started again
  outcome   \* how a call of prove() ended

queueVars == <<running, queue, solving, proving, worker, outcome>>

Waiting == {queue[i] : i \in DOMAIN queue}

InPlay == Waiting \union solving \union proving

\* A call that has not been made yet.
Fresh(r) == r \notin InPlay /\ outcome[r] = "none"

QueueInit ==
  /\ running = 0
  /\ queue = <<>>
  /\ solving = {}
  /\ proving = {}
  /\ worker = "up"
  /\ outcome = [r \in Requests |-> "none"]

--------------------------------------------------------------------------------
(* acquire() *)

\* A slot is free: the inputs go to the worker, which nothing checks is alive.
TakeSlot(r) ==
  /\ running < MaxConcurrency
  /\ running' = running + 1
  /\ solving' = solving \union {r}
  /\ UNCHANGED <<queue, proving, worker, outcome>>

WaitForSlot(r) ==
  /\ running >= MaxConcurrency
  /\ Len(queue) < MaxQueue
  /\ queue' = Append(queue, r)
  /\ UNCHANGED <<running, solving, proving, worker, outcome>>

\* QueueFullError.
Refuse(r) ==
  /\ running >= MaxConcurrency
  /\ Len(queue) >= MaxQueue
  /\ outcome' = [outcome EXCEPT ![r] = "full"]
  /\ UNCHANGED <<running, queue, solving, proving, worker>>

Acquire(r) == TakeSlot(r) \/ WaitForSlot(r) \/ Refuse(r)

--------------------------------------------------------------------------------
(* release(), once for each request in R *)

\* The waiters that R's releases start.
Started(R) ==
  LET n == IF Len(queue) < Cardinality(R) THEN Len(queue) ELSE Cardinality(R)
  IN  1..n

\* Mutant: the slot is kept for the waiter, as if its closure did not take one.
ReleaseCountsTwice(R, result) ==
  /\ running' = running - Cardinality(R)
  /\ queue' = SubSeq(queue, Cardinality(Started(R)) + 1, Len(queue))
  /\ solving' = (solving \ R) \union {queue[i] : i \in Started(R)}
  /\ proving' = proving \ R
  /\ outcome' = [r \in Requests |-> IF r \in R THEN result ELSE outcome[r]]

\* Mutant: the newest waiter is started.
ReleaseNewest(R, result) ==
  LET n == Cardinality(Started(R))
  IN  /\ running' = running - Cardinality(R) + n
      /\ queue' = SubSeq(queue, 1, Len(queue) - n)
      /\ solving' = (solving \ R) \union {queue[Len(queue) + 1 - i] : i \in Started(R)}
      /\ proving' = proving \ R
      /\ outcome' = [r \in Requests |-> IF r \in R THEN result ELSE outcome[r]]

\* Mutant: a failed proof does not start the next waiter.
ReleaseOnSuccessOnly(R, result) ==
  LET n == IF result = "proof" THEN Cardinality(Started(R)) ELSE 0
  IN  /\ running' = running - Cardinality(R) + n
      /\ queue' = SubSeq(queue, n + 1, Len(queue))
      /\ solving' = (solving \ R) \union {queue[i] : i \in 1..n}
      /\ proving' = proving \ R
      /\ outcome' = [r \in Requests |-> IF r \in R THEN result ELSE outcome[r]]

Release(R, result) ==
  /\ running' = running - Cardinality(R) + Cardinality(Started(R))
  /\ queue' = SubSeq(queue, Cardinality(Started(R)) + 1, Len(queue))
  /\ solving' = (solving \ R) \union {queue[i] : i \in Started(R)}
  /\ proving' = proving \ R
  /\ outcome' = [r \in Requests |-> IF r \in R THEN result ELSE outcome[r]]

--------------------------------------------------------------------------------
(* The events that move a request on *)

WitnessSolved(r) ==
  /\ worker = "up"
  /\ r \in solving
  /\ solving' = solving \ {r}
  /\ proving' = proving \union {r}
  /\ UNCHANGED <<running, queue, worker, outcome>>

\* The circuit refuses the inputs.
WitnessRejected(r) ==
  /\ worker = "up"
  /\ r \in solving
  /\ Release({r}, "error")
  /\ UNCHANGED worker

\* bb fails, is killed by its timeout, or its files cannot be written or read.
ProveFailed(r) ==
  /\ r \in proving
  /\ Release({r}, "error")
  /\ UNCHANGED worker

ProveDone(r) ==
  /\ r \in proving
  /\ Release({r}, "proof")
  /\ UNCHANGED worker

\* The worker's error event rejects every pending solve. The waiters that this
\* starts are posted to the dead worker.
WorkerFails ==
  /\ worker = "up"
  /\ worker' = "down"
  /\ Release(solving, "error")

\* The process dies and is started again: nothing of the queue is kept.
ProverRestart ==
  /\ running' = 0
  /\ queue' = <<>>
  /\ solving' = {}
  /\ proving' = {}
  /\ worker' = "up"
  /\ outcome' = [r \in Requests |-> IF r \in InPlay THEN "lost" ELSE outcome[r]]

--------------------------------------------------------------------------------

\* The answers of the worker and of bb: a solve ends, bb has a timeout.
WitnessAnswer(r) == WitnessSolved(r) \/ WitnessRejected(r)
ProveAnswer(r) == ProveDone(r) \/ ProveFailed(r)

QueueNext ==
  \/ \E r \in Requests : Fresh(r) /\ Acquire(r)
  \/ \E r \in Requests : WitnessAnswer(r) \/ ProveAnswer(r)
  \/ WorkerFails
  \/ ProverRestart

QueueSafety == QueueInit /\ [][QueueNext]_queueVars

QueueSpec ==
  /\ QueueSafety
  /\ \A r \in Requests : WF_queueVars(WitnessAnswer(r)) /\ WF_queueVars(ProveAnswer(r))
===============================================================================
