-------------------------------- MODULE Outbox --------------------------------
(***************************************************************************)
(* Delivery of the results of callback jobs by http-prover: a row of the   *)
(* SQLite outbox per result, a first delivery as soon as the row is        *)
(* written, and a dispatcher that delivers rows that are due, one at a     *)
(* time from a list it read when its tick began.                           *)
(*                                                                         *)
(* A delivery is a call to the receiver that may take up to its timeout;   *)
(* the first deliveries and the dispatcher's are under way together.  Only *)
(* the rows survive a restart.                                             *)
(*                                                                         *)
(* A definition placed before one with the same parameters, and used by no *)
(* action, is a mutant of it: a bug the properties must catch.             *)
(***************************************************************************)
EXTENDS Integers, Sequences, FiniteSets, SequencesExt

CONSTANTS
  Jobs,
  NoRow,
  Answers,        \* HTTP statuses of the receiver; 0: the call threw, or timed out
  BACKOFF,        \* BACKOFF_MS: delay after the first, second, ... failure
  STEADY,         \* STEADY_MS: delay after any later one
  GIVE_UP_AFTER,
  CALL_TIMEOUT,   \* AbortSignal.timeout of deliver()
  BATCH,          \* rows a tick of the dispatcher reads
  LastInsert,     \* bound of the model: no result is stored later
  MaxTime,        \* bound of the model: the clock stops
  MaxRestarts     \* bound of the model

ASSUME OutboxAssumption ==
  /\ IsFiniteSet(Jobs)
  /\ Answers \subseteq 0..599
  /\ BACKOFF \in Seq(Nat \ {0})
  /\ STEADY \in Nat \ {0}
  /\ \A i \in DOMAIN BACKOFF : BACKOFF[i] <= STEADY
  /\ GIVE_UP_AFTER \in Nat
  /\ CALL_TIMEOUT \in Nat
  /\ BATCH \in Nat \ {0}
  /\ {LastInsert, MaxRestarts} \subseteq Nat
  \* Every row is due, and too old to be kept, before the clock stops.
  /\ MaxTime \in Nat
  /\ MaxTime > LastInsert + GIVE_UP_AFTER + STEADY

Row == [status: {"pending", "delivered", "failed"}, attempts: Nat,
        nextAttemptAt: Nat, createdAt: Nat]

ASSUME NoRowAssumption == NoRow \notin Row

VARIABLES
  now,
  rows,       \* the table jobs
  sending,    \* first deliveries under way: when each began
  batch,      \* what is left of the list of a tick, its head being delivered
  batchSince, \* when the delivery of the head began
  restarts,
  acked,      \* history: jobs whose receiver has answered with a 2xx
  rejected    \* history: jobs whose receiver has answered with a final status

outboxVars == <<now, rows, sending, batch, batchSince, restarts, acked, rejected>>

Stored(j) == rows[j] # NoRow

\* res.ok
Ok(answer) == answer \in 200..299

\* A status deliver() says must not be retried.
Final(answer) == answer \in 400..499 \ {408, 429}

OutboxInit ==
  /\ now = 0
  /\ rows = [j \in Jobs |-> NoRow]
  /\ sending = <<>>
  /\ batch = <<>>
  /\ batchSince = 0
  /\ restarts = 0
  /\ acked = {}
  /\ rejected = {}

\* What the receiver said.
Hear(j, answer) ==
  /\ acked' = IF Ok(answer) THEN acked \union {j} ELSE acked
  /\ rejected' = IF Final(answer) THEN rejected \union {j} ELSE rejected

--------------------------------------------------------------------------------
(* class Outbox *)

\* Outbox.insert(): the row is due at once.
NewRow == [status |-> "pending", attempts |-> 0, nextAttemptAt |-> now, createdAt |-> now]

\* The delay after the given number of failures.
Delay(attempts) == IF attempts \in DOMAIN BACKOFF THEN BACKOFF[attempts] ELSE STEADY

\* Outbox.due(): rows as read by a tick, those that became due first.
Due == {j \in Jobs : /\ Stored(j)
                     /\ rows[j].status = "pending"
                     /\ rows[j].nextAttemptAt <= now}

IsBatch(s) ==
  LET chosen == {s[i] : i \in DOMAIN s}
  IN  /\ \A i, j \in DOMAIN s :
           i < j => rows[s[i]].nextAttemptAt <= rows[s[j]].nextAttemptAt
      /\ \A i \in DOMAIN s, d \in Due \ chosen :
           rows[s[i]].nextAttemptAt <= rows[d].nextAttemptAt
      /\ Len(s) < BATCH => Due \subseteq chosen
      /\ Len(s) <= BATCH

\* Mutant: the age of a row is never looked at.
FailedRowForEver(row, final) ==
  [row EXCEPT !.status = IF final THEN "failed" ELSE "pending",
              !.attempts = @ + 1,
              !.nextAttemptAt = now + Delay(row.attempts + 1)]

\* Mutant: the delays double for ever.
FailedRowDoubling(row, final) ==
  LET giveUp == final \/ now - row.createdAt > GIVE_UP_AFTER
  IN  [row EXCEPT !.status = IF giveUp THEN "failed" ELSE "pending",
                  !.attempts = @ + 1,
                  !.nextAttemptAt = now + STEADY * (row.attempts + 1)]

\* Mutant: a row is given up after as many failures as there are delays.
FailedRowCounting(row, final) ==
  [row EXCEPT !.status = IF final \/ row.attempts >= Len(BACKOFF) THEN "failed" ELSE "pending",
              !.attempts = @ + 1,
              !.nextAttemptAt = now + Delay(row.attempts + 1)]

\* Outbox.markAttemptFailed(): whatever the status was before.
FailedRow(row, final) ==
  LET giveUp == final \/ now - row.createdAt > GIVE_UP_AFTER
  IN  [row EXCEPT !.status = IF giveUp THEN "failed" ELSE "pending",
                  !.attempts = @ + 1,
                  !.nextAttemptAt = now + Delay(row.attempts + 1)]

\* markDelivered() or markAttemptFailed(), as deliver() resolved.
Mark(j, answer) ==
  rows' = [rows EXCEPT ![j] = IF Ok(answer)
                              THEN [@ EXCEPT !.status = "delivered"]
                              ELSE FailedRow(@, Final(answer))]

--------------------------------------------------------------------------------
(* runWebhookJob() *)

\* The result is stored and its first delivery begins.
StoreResult(j) ==
  /\ now <= LastInsert
  /\ ~Stored(j)
  /\ rows' = [rows EXCEPT ![j] = NewRow]
  /\ sending' = [i \in DOMAIN sending \union {j} |-> IF i = j THEN now ELSE sending[i]]
  /\ UNCHANGED <<now, batch, batchSince, restarts, acked, rejected>>

FirstAnswer(j, answer) ==
  /\ j \in DOMAIN sending
  /\ Hear(j, answer)
  /\ Mark(j, answer)
  /\ sending' = [i \in DOMAIN sending \ {j} |-> sending[i]]
  /\ UNCHANGED <<now, batch, batchSince, restarts>>

--------------------------------------------------------------------------------
(* class Dispatcher *)

\* A tick that finds nothing due ends at once. One that comes while another is
\* under way does nothing.
Tick ==
  /\ batch = <<>>
  /\ Due # {}
  /\ \E s \in UNION {SetToSeqs(S) : S \in SUBSET Due} : IsBatch(s) /\ batch' = s
  /\ batchSince' = now
  /\ UNCHANGED <<now, rows, sending, restarts, acked, rejected>>

\* The list is not read again between two deliveries.
BatchAnswer(answer) ==
  /\ batch # <<>>
  /\ Hear(Head(batch), answer)
  /\ Mark(Head(batch), answer)
  /\ batch' = Tail(batch)
  /\ batchSince' = now
  /\ UNCHANGED <<now, sending, restarts>>

--------------------------------------------------------------------------------

\* The process dies and is started again. The receiver may have had the calls that
\* were under way; nothing is written of them.
Restart ==
  /\ restarts < MaxRestarts
  /\ restarts' = restarts + 1
  /\ sending' = <<>>
  /\ batch' = <<>>
  /\ UNCHANGED <<now, rows, batchSince, acked, rejected>>

\* No call outlives its timeout.
OutboxClock ==
  /\ now < MaxTime
  /\ \A j \in DOMAIN sending : now - sending[j] < CALL_TIMEOUT
  /\ batch # <<>> => now - batchSince < CALL_TIMEOUT
  /\ now' = now + 1
  /\ UNCHANGED <<rows, sending, batch, batchSince, restarts, acked, rejected>>

FirstAnswered(j) == \E answer \in Answers : FirstAnswer(j, answer)
BatchAnswered == \E answer \in Answers : BatchAnswer(answer)

OutboxNext ==
  \/ \E j \in Jobs : StoreResult(j)
  \/ \E j \in Jobs : FirstAnswered(j)
  \/ Tick
  \/ BatchAnswered
  \/ Restart
  \/ OutboxClock

OutboxSafety == OutboxInit /\ [][OutboxNext]_outboxVars

\* Calls end by themselves, the interval timer keeps ticking, time passes.
OutboxSpec ==
  /\ OutboxSafety
  /\ \A j \in Jobs : WF_outboxVars(FirstAnswered(j))
  /\ WF_outboxVars(BatchAnswered)
  /\ WF_outboxVars(Tick)
  /\ WF_outboxVars(OutboxClock)
===============================================================================
