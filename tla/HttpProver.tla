------------------------------ MODULE HttpProver ------------------------------
(***************************************************************************)
(* The request path of http-prover: POST /attestations admits a request    *)
(* and answers it at once (callback job) or at its end (synchronous), the  *)
(* job registry finds repeated requests, the proving queue does the work   *)
(* and the outbox keeps the outcome of a job.  Delivery of the outcome is  *)
(* the module Outbox.                                                      *)
(*                                                                         *)
(* A job is registered in the event that accepts it, before the first      *)
(* await, and leaves the registry in the event that stores its outcome; in *)
(* between it waits for the token to be authenticated, for a slot, for the *)
(* worker and for bb.                                                      *)
(***************************************************************************)
EXTENDS ProvingQueue

CONSTANTS
  Jobs,       \* ids of callback jobs; the other requests are synchronous
  Keys,       \* InFlightJobs.key: identity type and value, wallet, callback URL
  NoKey,
  NoRow

ASSUME HttpProverAssumption ==
  /\ Jobs \subseteq Requests
  /\ NoKey \notin Keys
  /\ NoRow \notin [key: Keys, status: {"ok", "error"}]

VARIABLES
  authenticating,  \* requests whose token is being checked
  byKey,           \* InFlightJobs.byKey
  byId,            \* InFlightJobs.byId, the key of a job
  stored,          \* rows of the outbox: the receiver's key and the result
  told             \* history: the key a caller was answered 202 for, with this
                   \* job id, since the process started

httpVars == <<authenticating, byKey, byId, stored, told>>

allVars == <<queueVars, httpVars>>

Row == [key: Keys, status: {"ok", "error"}]

\* Job ids are random: none is used twice.
FreshId(r) ==
  /\ Fresh(r)
  /\ r \notin authenticating
  /\ r \in Jobs => stored[r] = NoRow /\ told[r] = NoKey

\* Only requests that hold or wait for a slot count, not those being authenticated.
Busy == Len(queue) >= MaxQueue /\ running >= MaxConcurrency

HttpInit ==
  /\ QueueInit
  /\ authenticating = {}
  /\ byKey = <<>>
  /\ byId = <<>>
  /\ stored = [j \in Jobs |-> NoRow]
  /\ told = [j \in Jobs |-> NoKey]

--------------------------------------------------------------------------------
(* The registry and GET /jobs/:id *)

Add(k, j) ==
  /\ byKey' = [x \in DOMAIN byKey \union {k} |-> IF x = k THEN j ELSE byKey[x]]
  /\ byId' = [x \in DOMAIN byId \union {j} |-> IF x = j THEN k ELSE byId[x]]

\* A key that another job has taken over stays with that job.
Remove(R) ==
  /\ byId' = [j \in DOMAIN byId \ R |-> byId[j]]
  /\ byKey' = [k \in {x \in DOMAIN byKey : byKey[x] \notin R} |-> byKey[k]]

\* What a caller who asks for a job is told; the outbox answers first.
JobState(j) ==
  IF stored[j] # NoRow THEN "stored" ELSE IF j \in DOMAIN byId THEN "proving" ELSE "unknown"

--------------------------------------------------------------------------------
(* POST /attestations *)

\* Mutant: a job is not looked up.
PostJobUnchecked(j, k) ==
  /\ j \in Jobs
  /\ FreshId(j)
  /\ ~Busy
  /\ Add(k, j)
  /\ told' = [told EXCEPT ![j] = k]
  /\ authenticating' = authenticating \union {j}
  /\ UNCHANGED <<queueVars, stored>>

\* A callback job is accepted with 202. A request with the key of a job in the
\* registry is answered with that job's id, busy or not, and changes nothing.
PostJob(j, k) ==
  /\ j \in Jobs
  /\ FreshId(j)
  /\ k \notin DOMAIN byKey
  /\ ~Busy
  /\ Add(k, j)
  /\ told' = [told EXCEPT ![j] = k]
  /\ authenticating' = authenticating \union {j}
  /\ UNCHANGED <<queueVars, stored>>

PostSync(r) ==
  /\ r \in Requests \ Jobs
  /\ FreshId(r)
  /\ ~Busy
  /\ authenticating' = authenticating \union {r}
  /\ UNCHANGED <<queueVars, byKey, byId, stored, told>>

--------------------------------------------------------------------------------
(* runWebhookJob(): the end of generate() *)

\* Mutant: the job leaves the registry and its failure is not stored.
CloseDropsErrors(R, status) ==
  /\ stored' = [j \in Jobs |-> IF j \in R \intersect DOMAIN byId /\ status = "ok"
                               THEN [key |-> byId[j], status |-> status]
                               ELSE stored[j]]
  /\ Remove(R)

\* Mutant: the registry is left only when there is a proof.
CloseLeavesErrors(R, status) ==
  LET gone == IF status = "ok" THEN R ELSE {}
  IN  /\ stored' = [j \in Jobs |-> IF j \in R \intersect DOMAIN byId
                                   THEN [key |-> byId[j], status |-> status]
                                   ELSE stored[j]]
      /\ Remove(gone)

\* The outcome of each job in R is stored and it leaves the registry. The outcome
\* of a synchronous request goes to its response.
Close(R, status) ==
  /\ stored' = [j \in Jobs |-> IF j \in R \intersect DOMAIN byId
                               THEN [key |-> byId[j], status |-> status]
                               ELSE stored[j]]
  /\ Remove(R)

--------------------------------------------------------------------------------
(* generate() *)

\* The token does not parse, no trusted key signed it, the trusted keys cannot be
\* fetched, or it does not hold the identity.
AuthFails(r) ==
  /\ r \in authenticating
  /\ authenticating' = authenticating \ {r}
  /\ Close({r}, "error")
  /\ UNCHANGED <<queueVars, told>>

\* prove() is called. The limits may have been reached since the request was admitted.
AuthOk(r) ==
  /\ r \in authenticating
  /\ authenticating' = authenticating \ {r}
  /\ \/ (TakeSlot(r) \/ WaitForSlot(r)) /\ UNCHANGED <<byKey, byId, stored>>
     \/ Refuse(r) /\ Close({r}, "error")
  /\ UNCHANGED told

HttpWitnessAnswer(r) ==
  /\ \/ WitnessSolved(r) /\ UNCHANGED <<byKey, byId, stored>>
     \/ WitnessRejected(r) /\ Close({r}, "error")
  /\ UNCHANGED <<authenticating, told>>

\* A proof whose public inputs are not the expected ones is an error.
HttpProveAnswer(r) ==
  /\ \/ ProveDone(r) /\ (Close({r}, "ok") \/ Close({r}, "error"))
     \/ ProveFailed(r) /\ Close({r}, "error")
  /\ UNCHANGED <<authenticating, told>>

HttpWorkerFails ==
  /\ WorkerFails
  /\ Close(solving, "error")
  /\ UNCHANGED <<authenticating, told>>

\* Mutant: the outbox is kept in memory.
HttpRestartInMemory ==
  /\ ProverRestart
  /\ authenticating' = {}
  /\ byKey' = <<>>
  /\ byId' = <<>>
  /\ stored' = [j \in Jobs |-> NoRow]
  /\ told' = [j \in Jobs |-> NoKey]

\* The process dies and is started again: only the outbox is kept.
HttpRestart ==
  /\ ProverRestart
  /\ authenticating' = {}
  /\ byKey' = <<>>
  /\ byId' = <<>>
  /\ told' = [j \in Jobs |-> NoKey]
  /\ UNCHANGED stored

--------------------------------------------------------------------------------

AuthAnswer(r) == AuthFails(r) \/ AuthOk(r)

HttpNext ==
  \/ \E j \in Jobs, k \in Keys : PostJob(j, k)
  \/ \E r \in Requests : PostSync(r)
  \/ \E r \in Requests : AuthAnswer(r) \/ HttpWitnessAnswer(r) \/ HttpProveAnswer(r)
  \/ HttpWorkerFails
  \/ HttpRestart

HttpSafety == HttpInit /\ [][HttpNext]_allVars

\* The key fetch ends by itself, the worker answers, bb has a timeout.
HttpSpec ==
  /\ HttpSafety
  /\ \A r \in Requests :
       /\ WF_allVars(AuthAnswer(r))
       /\ WF_allVars(HttpWitnessAnswer(r))
       /\ WF_allVars(HttpProveAnswer(r))
===============================================================================
