----------------------------- MODULE OutboxProofs -----------------------------
(***************************************************************************)
(* Proofs about the outbox, for any jobs, delays, limits, answers of the   *)
(* receiver, overlap of deliveries and number of restarts.  The three      *)
(* properties together are inductive.                                      *)
(***************************************************************************)
EXTENDS OutboxProps, FiniteSetTheorems, SequenceTheorems, TLAPS

OutboxInv == OutboxTypeOK /\ ClosedForCause /\ NoLateRetry

LEMMA InitOutboxInv == OutboxInit => OutboxInv
BY DEF OutboxInit, OutboxInv, OutboxTypeOK, ClosedForCause, NoLateRetry, Stored

\* A delay after a failure is positive and no longer than the steady one.
LEMMA DelayBound ==
  ASSUME NEW n \in Nat
  PROVE  Delay(n) \in Nat /\ Delay(n) <= STEADY
BY OutboxAssumption DEF Delay

LEMMA NewRowIsRow == now \in Nat => NewRow \in Row /\ NewRow # NoRow
BY NoRowAssumption DEF NewRow, Row

LEMMA FailedRowIsRow ==
  ASSUME now \in Nat, NEW row \in Row, NEW final \in BOOLEAN
  PROVE  /\ FailedRow(row, final) \in Row
         /\ FailedRow(row, final).createdAt = row.createdAt
         /\ FailedRow(row, final).nextAttemptAt = now + Delay(row.attempts + 1)
         /\ FailedRow(row, final).status
              = IF final \/ now - row.createdAt > GIVE_UP_AFTER THEN "failed" ELSE "pending"
<1>1. Delay(row.attempts + 1) \in Nat /\ row.attempts + 1 \in Nat
  BY DelayBound DEF Row
<1> DEFINE giveUp == final \/ now - row.createdAt > GIVE_UP_AFTER
           status == IF giveUp THEN "failed" ELSE "pending"
           next == now + Delay(row.attempts + 1)
<1>2. FailedRow(row, final)
        = [row EXCEPT !.status = status, !.attempts = @ + 1, !.nextAttemptAt = next]
  BY DEF FailedRow
<1>3. status \in {"pending", "failed"} /\ next \in Nat
  BY <1>1
<1> HIDE DEF status, next
<1>4. /\ FailedRow(row, final) \in Row
      /\ FailedRow(row, final).createdAt = row.createdAt
      /\ FailedRow(row, final).nextAttemptAt = next
      /\ FailedRow(row, final).status = status
  BY <1>1, <1>2, <1>3 DEF Row
<1> QED
  BY <1>4 DEF status, next

\* A sequence over a set is one over a larger set.
LEMMA SeqMonotone ==
  ASSUME NEW A, NEW B, A \subseteq B, NEW s \in Seq(A)
  PROVE  s \in Seq(B)
OBVIOUS

\* What an answer of the receiver does to the rows.
LEMMA AnswerKeepsInv ==
  ASSUME OutboxInv, NEW j \in Jobs, Stored(j), NEW answer \in Answers,
         Hear(j, answer), Mark(j, answer),
         UNCHANGED now
  PROVE  /\ rows' \in [Jobs -> Row \union {NoRow}]
         /\ \A i \in Jobs : Stored(i) => Stored(i)'
         /\ acked' \subseteq Jobs /\ rejected' \subseteq Jobs
         /\ ClosedForCause'
         /\ NoLateRetry'
<1>1. /\ now \in Nat
      /\ rows \in [Jobs -> Row \union {NoRow}]
      /\ acked \subseteq Jobs
      /\ rejected \subseteq Jobs
      /\ rows[j] \in Row
  BY DEF OutboxInv, OutboxTypeOK, Stored
<1>2. Final(answer) \in BOOLEAN /\ Ok(answer) \in BOOLEAN
  BY DEF Final, Ok
<1> DEFINE row == FailedRow(rows[j], Final(answer))
           sent == [rows[j] EXCEPT !.status = "delivered"]
<1>3. /\ row \in Row
      /\ row.createdAt = rows[j].createdAt
      /\ row.nextAttemptAt = now + Delay(rows[j].attempts + 1)
      /\ row.status = IF Final(answer) \/ now - rows[j].createdAt > GIVE_UP_AFTER
                      THEN "failed" ELSE "pending"
  BY <1>1, <1>2, FailedRowIsRow
<1>4. sent \in Row /\ sent.status = "delivered"
  BY <1>1 DEF Row
<1> HIDE DEF row, sent
<1>5. /\ \A i \in Jobs \ {j} : rows'[i] = rows[i]
      /\ Ok(answer) => rows'[j] = sent
      /\ ~Ok(answer) => rows'[j] = row
      /\ rows' \in [Jobs -> Row \union {NoRow}]
      /\ rows'[j] \in Row
  BY <1>1, <1>3, <1>4 DEF Mark, row, sent
<1>6. /\ acked \subseteq acked' /\ rejected \subseteq rejected'
      /\ acked' \subseteq Jobs /\ rejected' \subseteq Jobs
      /\ Ok(answer) => j \in acked'
      /\ Final(answer) => j \in rejected'
  BY <1>1 DEF Hear
<1>7. \A i \in Jobs : Stored(i) => Stored(i)'
  BY <1>5, NoRowAssumption DEF Stored
<1>8. now' = now
  OBVIOUS
<1>9. ClosedForCause'
  <2> SUFFICES ASSUME NEW i \in Jobs, rows'[i] # NoRow
               PROVE  /\ rows'[i].status = "delivered" => i \in acked'
                      /\ rows'[i].status = "failed" =>
                           i \in rejected' \/ now - rows'[i].createdAt > GIVE_UP_AFTER
    BY <1>8 DEF ClosedForCause, Stored
  <2>1. CASE i # j
    BY <2>1, <1>5, <1>6 DEF OutboxInv, ClosedForCause, Stored
  <2>2. CASE i = j /\ Ok(answer)
    BY <2>2, <1>4, <1>5, <1>6
  <2>3. CASE i = j /\ ~Ok(answer)
    BY <2>3, <1>3, <1>5, <1>6
  <2> QED
    BY <2>1, <2>2, <2>3
<1>10. NoLateRetry'
  <2> SUFFICES ASSUME NEW i \in Jobs, rows'[i] # NoRow, rows'[i].status = "pending"
               PROVE  rows'[i].nextAttemptAt <= rows'[i].createdAt + GIVE_UP_AFTER + STEADY
    BY DEF NoLateRetry, Stored
  <2>1. CASE i # j
    BY <2>1, <1>5 DEF OutboxInv, NoLateRetry, Stored
  <2>2. CASE i = j /\ Ok(answer)
    BY <2>2, <1>4, <1>5
  <2>3. CASE i = j /\ ~Ok(answer)
    <3>1. rows[j].createdAt \in Nat /\ rows[j].attempts + 1 \in Nat
      BY <1>1 DEF Row
    <3>2. Delay(rows[j].attempts + 1) \in Nat /\ Delay(rows[j].attempts + 1) <= STEADY
      BY <3>1, DelayBound
    <3>3. ~(now - rows[j].createdAt > GIVE_UP_AFTER)
      BY <2>3, <1>3, <1>5
    <3> QED
      BY <2>3, <3>1, <3>2, <3>3, <1>1, <1>3, <1>5, OutboxAssumption
  <2> QED
    BY <2>1, <2>2, <2>3
<1> QED
  BY <1>5, <1>6, <1>7, <1>9, <1>10

LEMMA StoreResultKeepsInv ==
  ASSUME OutboxInv, NEW j \in Jobs, StoreResult(j)
  PROVE  OutboxInv'
<1>1. /\ now \in Nat
      /\ rows \in [Jobs -> Row \union {NoRow}]
      /\ DOMAIN sending \subseteq Jobs
      /\ \A i \in DOMAIN sending : Stored(i)
      /\ batch \in Seq({i \in Jobs : Stored(i)})
  BY DEF OutboxInv, OutboxTypeOK
<1>2. /\ rows' = [rows EXCEPT ![j] = NewRow]
      /\ DOMAIN sending' = DOMAIN sending \union {j}
      /\ UNCHANGED <<now, batch, batchSince, restarts, acked, rejected>>
      /\ rows[j] = NoRow
  BY DEF StoreResult, Stored
<1>3. NewRow \in Row /\ NewRow # NoRow
  BY <1>1, NewRowIsRow
<1>4. /\ rows' \in [Jobs -> Row \union {NoRow}]
      /\ \A i \in Jobs : Stored(i)' <=> Stored(i) \/ i = j
      /\ \A i \in Jobs \ {j} : rows'[i] = rows[i]
      /\ rows'[j] = NewRow
  BY <1>1, <1>2, <1>3 DEF Stored
<1>5. batch' \in Seq({i \in Jobs : Stored(i)})'
  <2>1. {i \in Jobs : Stored(i)} \subseteq {i \in Jobs : Stored(i)}'
    BY <1>4
  <2> QED
    BY <2>1, <1>1, <1>2, SeqMonotone
<1>6. OutboxTypeOK'
  <2>1. DOMAIN sending' \subseteq Jobs /\ \A i \in DOMAIN sending' : Stored(i)'
    BY <1>1, <1>2, <1>4
  <2> QED
    BY <2>1, <1>2, <1>4, <1>5 DEF OutboxInv, OutboxTypeOK
<1>7. NewRow.status = "pending" /\ NewRow.nextAttemptAt = now /\ NewRow.createdAt = now
  BY DEF NewRow
<1>8. ClosedForCause'
  <2> SUFFICES ASSUME NEW i \in Jobs, Stored(i)'
               PROVE  /\ rows'[i].status = "delivered" => i \in acked
                      /\ rows'[i].status = "failed" =>
                           i \in rejected \/ now - rows'[i].createdAt > GIVE_UP_AFTER
    BY <1>2 DEF ClosedForCause
  <2>1. CASE i = j
    BY <2>1, <1>4, <1>7
  <2>2. CASE i # j
    BY <2>2, <1>4 DEF OutboxInv, ClosedForCause
  <2> QED
    BY <2>1, <2>2
<1>9. NoLateRetry'
  <2> SUFFICES ASSUME NEW i \in Jobs, Stored(i)', rows'[i].status = "pending"
               PROVE  rows'[i].nextAttemptAt <= rows'[i].createdAt + GIVE_UP_AFTER + STEADY
    BY DEF NoLateRetry
  <2>1. CASE i = j
    BY <2>1, <1>1, <1>4, <1>7, OutboxAssumption
  <2>2. CASE i # j
    BY <2>2, <1>4 DEF OutboxInv, NoLateRetry
  <2> QED
    BY <2>1, <2>2
<1> QED
  BY <1>6, <1>8, <1>9 DEF OutboxInv

LEMMA TickKeepsInv ==
  ASSUME OutboxInv, Tick
  PROVE  OutboxInv'
<1>1. /\ \E s \in UNION {SetToSeqs(S) : S \in SUBSET Due} : batch' = s
      /\ batchSince' = now
      /\ UNCHANGED <<now, rows, sending, restarts, acked, rejected>>
  BY DEF Tick
<1>2. PICK S \in SUBSET Due : batch' \in SetToSeqs(S)
  BY <1>1
<1>3. S \subseteq {j \in Jobs : Stored(j)} /\ S \subseteq Jobs
  BY <1>2 DEF Due
<1>4. Cardinality(S) \in Nat
  BY <1>3, FS_Subset, FS_CardinalityType, OutboxAssumption
<1>5. batch' \in [1..Cardinality(S) -> S]
  BY <1>2 DEF SetToSeqs
<1>6. batch' \in Seq({j \in Jobs : Stored(j)})
  BY <1>3, <1>4, <1>5
<1>7. {j \in Jobs : Stored(j)}' = {j \in Jobs : Stored(j)}
  BY <1>1 DEF Stored
<1>8. OutboxTypeOK'
  BY <1>1, <1>6, <1>7 DEF OutboxInv, OutboxTypeOK, Stored
<1> QED
  BY <1>1, <1>8 DEF OutboxInv, ClosedForCause, NoLateRetry, Stored

LEMMA StepOutboxInv ==
  ASSUME OutboxInv, [OutboxNext]_outboxVars
  PROVE  OutboxInv'
<1>1. /\ now \in Nat
      /\ rows \in [Jobs -> Row \union {NoRow}]
      /\ DOMAIN sending \subseteq Jobs
      /\ \A i \in DOMAIN sending : Stored(i)
      /\ batch \in Seq({i \in Jobs : Stored(i)})
      /\ batchSince \in Nat
      /\ restarts \in Nat
  BY DEF OutboxInv, OutboxTypeOK
<1>2. ASSUME NEW j \in Jobs, NEW answer \in Answers, FirstAnswer(j, answer)
      PROVE  OutboxInv'
  <2>1. /\ Stored(j)
        /\ Hear(j, answer)
        /\ Mark(j, answer)
        /\ DOMAIN sending' = DOMAIN sending \ {j}
        /\ UNCHANGED <<now, batch, batchSince, restarts>>
    BY <1>1, <1>2 DEF FirstAnswer
  <2>2. /\ rows' \in [Jobs -> Row \union {NoRow}]
        /\ \A i \in Jobs : Stored(i) => Stored(i)'
        /\ acked' \subseteq Jobs /\ rejected' \subseteq Jobs
        /\ ClosedForCause'
        /\ NoLateRetry'
    BY <2>1, AnswerKeepsInv
  <2>3. batch' \in Seq({i \in Jobs : Stored(i)})'
    <3>1. {i \in Jobs : Stored(i)} \subseteq {i \in Jobs : Stored(i)}'
      BY <2>2
    <3> QED
      BY <3>1, <2>1, <1>1, SeqMonotone
  <2>4. DOMAIN sending' \subseteq Jobs /\ \A i \in DOMAIN sending' : Stored(i)'
    BY <1>1, <2>1, <2>2
  <2> QED
    BY <2>1, <2>2, <2>3, <2>4, <1>1 DEF OutboxInv, OutboxTypeOK
<1>3. ASSUME NEW answer \in Answers, BatchAnswer(answer)
      PROVE  OutboxInv'
  <2>1. Head(batch) \in {i \in Jobs : Stored(i)} /\ Tail(batch) \in Seq({i \in Jobs : Stored(i)})
    BY <1>1, <1>3, HeadTailProperties DEF BatchAnswer
  <2>2. /\ Head(batch) \in Jobs
        /\ Stored(Head(batch))
        /\ Hear(Head(batch), answer)
        /\ Mark(Head(batch), answer)
        /\ batch' = Tail(batch)
        /\ batchSince' = now
        /\ UNCHANGED <<now, sending, restarts>>
    BY <2>1, <1>3 DEF BatchAnswer
  <2>3. /\ rows' \in [Jobs -> Row \union {NoRow}]
        /\ \A i \in Jobs : Stored(i) => Stored(i)'
        /\ acked' \subseteq Jobs /\ rejected' \subseteq Jobs
        /\ ClosedForCause'
        /\ NoLateRetry'
    BY <2>2, AnswerKeepsInv
  <2>4. batch' \in Seq({i \in Jobs : Stored(i)})'
    <3>1. {i \in Jobs : Stored(i)} \subseteq {i \in Jobs : Stored(i)}'
      BY <2>3
    <3> QED
      BY <3>1, <2>1, <2>2, SeqMonotone
  <2>5. DOMAIN sending' \subseteq Jobs /\ \A i \in DOMAIN sending' : Stored(i)'
    BY <1>1, <2>2, <2>3
  <2> QED
    BY <2>2, <2>3, <2>4, <2>5, <1>1 DEF OutboxInv, OutboxTypeOK
<1>4. CASE Restart
  <2>1. /\ restarts' = restarts + 1
        /\ sending' = <<>>
        /\ batch' = <<>>
        /\ UNCHANGED <<now, rows, batchSince, acked, rejected>>
    BY <1>4 DEF Restart
  <2>2. DOMAIN sending' = {} /\ batch' \in Seq({i \in Jobs : Stored(i)}')
    BY <2>1
  <2>3. OutboxTypeOK'
    BY <2>1, <2>2, <1>1 DEF OutboxInv, OutboxTypeOK
  <2> QED
    BY <2>1, <2>3 DEF OutboxInv, ClosedForCause, NoLateRetry, Stored
<1>5. CASE OutboxClock
  <2>1. /\ now' = now + 1
        /\ UNCHANGED <<rows, sending, batch, batchSince, restarts, acked, rejected>>
    BY <1>5 DEF OutboxClock
  <2>2. \A j \in Jobs : Stored(j)' <=> Stored(j)
    BY <2>1 DEF Stored
  <2>3. {i \in Jobs : Stored(i)}' = {i \in Jobs : Stored(i)}
    BY <2>2
  <2>4. OutboxTypeOK'
    BY <2>1, <2>2, <2>3, <1>1 DEF OutboxInv, OutboxTypeOK
  <2>5. ClosedForCause'
    <3> SUFFICES ASSUME NEW j \in Jobs, Stored(j)'
                 PROVE  (/\ rows[j].status = "delivered" => j \in acked
                         /\ rows[j].status = "failed" =>
                              j \in rejected \/ now - rows[j].createdAt > GIVE_UP_AFTER)'
      BY DEF ClosedForCause
    <3>1. Stored(j) /\ rows[j].createdAt \in Nat
      BY <1>1, <2>2 DEF Stored, Row
    <3>2. /\ rows[j].status = "delivered" => j \in acked
          /\ rows[j].status = "failed" =>
               j \in rejected \/ now + 1 - rows[j].createdAt > GIVE_UP_AFTER
      BY <3>1, <1>1, OutboxAssumption DEF OutboxInv, ClosedForCause
    <3>3. rows' = rows /\ acked' = acked /\ rejected' = rejected /\ now' = now + 1
      BY <2>1
    <3>4. rows'[j].status = "delivered" => j \in acked'
      BY <3>2, <3>3
    <3>5. ASSUME rows'[j].status = "failed", j \notin rejected'
          PROVE  now' - rows'[j].createdAt > GIVE_UP_AFTER
      BY <3>1, <3>2, <3>3, <3>5, <1>1, OutboxAssumption
    <3> QED
      BY <3>4, <3>5
  <2>6. NoLateRetry'
    BY <2>1, <2>2 DEF OutboxInv, NoLateRetry
  <2> QED
    BY <2>4, <2>5, <2>6 DEF OutboxInv
<1>6. CASE UNCHANGED outboxVars
  BY <1>6 DEF outboxVars, OutboxInv, OutboxTypeOK, ClosedForCause, NoLateRetry, Stored
<1> QED
  BY <1>2, <1>3, <1>4, <1>5, <1>6, StoreResultKeepsInv, TickKeepsInv
     DEF OutboxNext, FirstAnswered, BatchAnswered

\* A row is closed for a cause, however deliveries overlap and restarts fall.
THEOREM RowsCloseForCause == OutboxSafety => [](OutboxTypeOK /\ ClosedForCause)
<1>1. OutboxInv /\ [OutboxNext]_outboxVars => OutboxInv'
  BY StepOutboxInv
<1>2. OutboxInv => OutboxTypeOK /\ ClosedForCause
  BY DEF OutboxInv
<1> QED
  BY <1>1, <1>2, InitOutboxInv, PTL DEF OutboxSafety

\* No open row is put off past its life.
THEOREM RetriesAreNotLate == OutboxSafety => []NoLateRetry
<1>1. OutboxInv /\ [OutboxNext]_outboxVars => OutboxInv'
  BY StepOutboxInv
<1>2. OutboxInv => NoLateRetry
  BY DEF OutboxInv
<1> QED
  BY <1>1, <1>2, InitOutboxInv, PTL DEF OutboxSafety
===============================================================================
