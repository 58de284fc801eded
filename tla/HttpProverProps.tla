---------------------------- MODULE HttpProverProps ----------------------------
(***************************************************************************)
(* What the request path promises.                                         *)
(***************************************************************************)
EXTENDS HttpProver, ProvingQueueProps

\* The variables of the request path have their types.
HttpTypeOK ==
  /\ authenticating \subseteq Requests
  /\ DOMAIN byKey \subseteq Keys
  /\ \A k \in DOMAIN byKey : byKey[k] \in Jobs
  /\ DOMAIN byId \subseteq Jobs
  /\ \A j \in DOMAIN byId : byId[j] \in Keys
  /\ stored \in [Jobs -> Row \union {NoRow}]
  /\ told \in [Jobs -> Keys \union {NoKey}]

\* The requests somebody is working on.
Active == authenticating \union InPlay

\* The two maps of the registry are each other's inverse and hold the jobs being
\* worked on, no more and no fewer: an ended job left there would answer every
\* repeated request with an id that never gets a result.
RegistryIsTheWork ==
  /\ DOMAIN byId = Active \intersect Jobs
  /\ \A j \in DOMAIN byId : byId[j] \in DOMAIN byKey /\ byKey[byId[j]] = j
  /\ \A k \in DOMAIN byKey : byKey[k] \in DOMAIN byId /\ byId[byKey[k]] = k

\* A job id that a caller was given is in the registry or in the outbox, in one of
\* them only, under the identity and the callback that the caller asked for: "the
\* job is always visible in one place or the other" (webhook.ts).
AlwaysFindable ==
  \A j \in Jobs : told[j] # NoKey =>
    \/ JobState(j) = "proving" /\ byId[j] = told[j]
    \/ JobState(j) = "stored" /\ j \notin DOMAIN byId /\ stored[j].key = told[j]

\* Two jobs for the same proof and the same receiver are never worked on at a time,
\* whatever repeated requests, failures and refusals come in between.
OneProofPerKey ==
  \A i, j \in Active \intersect Jobs : told[i] = told[j] => i = j

\* What prove() ended with is in the outbox, and a restart does not lose it.
OutcomesAreKept ==
  \A j \in Jobs : outcome[j] \in {"proof", "error", "full"} => stored[j] # NoRow

\* An accepted job gets a result unless the worker or the process dies.
AcceptedJobsAreStored ==
  \A j \in Jobs : told[j] # NoKey ~> \/ stored[j] # NoRow
                                     \/ told[j] = NoKey
                                     \/ worker = "down"

\* What the code says of QueueFullError: "the HTTP layer maps it to 503"
\* (prove.ts), so that no job accepted with 202 ends by it.
RefusalsAreAnswered503 ==
  \A j \in Jobs : outcome[j] = "full" => told[j] = NoKey
===============================================================================
