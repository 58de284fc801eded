--------------------------- MODULE ProvingQueueProps ---------------------------
(***************************************************************************)
(* What the proving queue promises.                                        *)
(***************************************************************************)
EXTENDS ProvingQueue

\* The variables of the queue have their types.
QueueTypeOK ==
  /\ running \in Nat
  /\ queue \in Seq(Requests)
  /\ solving \subseteq Requests
  /\ proving \subseteq Requests
  /\ worker \in {"up", "down"}
  /\ outcome \in [Requests -> {"none", "proof", "error", "full", "lost"}]

\* A call is in one place only: it waits once, or it is at the worker, or at bb,
\* or it has ended, so that no slot is released twice for it.
OnePlaceEach ==
  /\ \A r \in InPlay : outcome[r] = "none"
  /\ solving \intersect proving = {}
  /\ Waiting \intersect (solving \union proving) = {}
  /\ \A i, j \in DOMAIN queue : queue[i] = queue[j] => i = j

\* The counter that gates the proofs counts the requests that hold a slot, on
\* every path a request can end by, and both limits hold: a slot is never leaked
\* nor given to two requests (Prover.acquire and release).
SlotsAccounted ==
  /\ OnePlaceEach
  /\ running = Cardinality(solving \union proving)
  /\ running <= MaxConcurrency
  /\ Len(queue) <= MaxQueue

\* Nobody waits while a slot is free.
NoIdleSlot == queue # <<>> => running = MaxConcurrency

\* Slots are given in the order of the calls: a waiter that gets one leaves no
\* older waiter behind, and a new call gets one only when nobody waits.
NoOvertaking ==
  [][\A r \in solving' \ solving :
       \A i \in DOMAIN queue : queue[i] \in Waiting' =>
         \E j \in 1..(i - 1) : queue[j] = r]_queueVars

\* Every call of prove() that was let in ends, with a proof or an error: no order
\* of answers, failures and refusals strands one. Only the loss of the worker can,
\* and not a call that bb is already proving.
EveryRequestSettles ==
  \A r \in Requests :
    r \in InPlay ~> \/ outcome[r] # "none"
                    \/ worker = "down" /\ r \notin proving
===============================================================================
