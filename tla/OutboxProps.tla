----------------------------- MODULE OutboxProps -----------------------------
(***************************************************************************)
(* What the outbox promises.                                               *)
(***************************************************************************)
EXTENDS Outbox

\* The variables of the outbox have their types.
OutboxTypeOK ==
  /\ now \in Nat
  /\ rows \in [Jobs -> Row \union {NoRow}]
  /\ DOMAIN sending \subseteq Jobs
  /\ \A j \in DOMAIN sending : Stored(j)
  /\ batch \in Seq({j \in Jobs : Stored(j)})
  /\ batchSince \in Nat
  /\ restarts \in Nat
  /\ acked \subseteq Jobs
  /\ rejected \subseteq Jobs

\* A row is closed for a reason that can be shown to the caller: `delivered` after
\* a 2xx, `failed` after a final status or once it is older than the limit, whichever
\* of two overlapping deliveries wrote last (Outbox.markAttemptFailed).
ClosedForCause ==
  \A j \in Jobs : Stored(j) =>
    /\ rows[j].status = "delivered" => j \in acked
    /\ rows[j].status = "failed" => \/ j \in rejected
                                    \/ now - rows[j].createdAt > GIVE_UP_AFTER

\* An open row is always due in the end: its next attempt lies at most one steady
\* delay after the moment it may be given up, so it never sleeps past its life.
NoLateRetry ==
  \A j \in Jobs : Stored(j) /\ rows[j].status = "pending" =>
    rows[j].nextAttemptAt <= rows[j].createdAt + GIVE_UP_AFTER + STEADY

\* Every result is delivered or given up, and after a while stays so: no schedule of
\* failures, overlapping deliveries and restarts keeps a row open for ever or lets
\* it be forgotten.
EveryRowCloses ==
  \A j \in Jobs : Stored(j) ~> [](Stored(j) /\ rows[j].status # "pending")

\* What http-prover/README.md says: "A 2xx response completes delivery."
AcknowledgedIsFinal ==
  [][\A j \in Jobs : Stored(j) /\ rows[j].status = "delivered" =>
                       rows'[j].status = "delivered"]_outboxVars
===============================================================================
