----------------------------- MODULE VaultLedger -----------------------------
(***************************************************************************)
(* The money side of P2IDVault: deposit records, the (verifier,            *)
(* constraint, token) buckets with their claim cursors, the running        *)
(* totals, accrued fees and the vault's own token balances.                *)
(*                                                                         *)
(* Who may claim is left open here: a claim is enabled for whoever the     *)
(* owner cache or a presented proof names (P2IDVault composes the two), so *)
(* what is shown of the ledger does not depend on who is paid.             *)
(*                                                                         *)
(* Deposit ids are 1-based; the contract's id is one less.  A call that    *)
(* reverts leaves no trace, so an action is enabled only when the call     *)
(* goes through.                                                           *)
(*                                                                         *)
(* A definition no other one uses, placed before one with the same         *)
(* parameters, is a mutant of it: a bug the properties must catch.         *)
(***************************************************************************)
EXTENDS VaultBase, Sequences, FiniteSets, Sums

CONSTANTS
  Funders,         \* accounts that fund and may be refunded
  Tokens,          \* ERC-20 tokens and the native coin
  NATIVE,          \* the native coin
  Constraints,     \* constraint commitments, NoConstraint among them
  NoConstraint,    \* bytes32(0)
  Amounts,         \* amounts a transfer can carry
  Windows,         \* refund windows a funder asks for
  MinRefundWindow, MaxRefundWindow,
  UINT128_MAX,     \* the largest amount a record can hold
  Quotes,          \* answers of policy.feeBps
  NoAnswer,        \* a failed policy.feeBps query
  MAX_FEE_BPS, BPS,
  MAX_SWEEP_PAGE,
  MaxDeposits,     \* bound of the model: deposits made
  MaxBalance,      \* bound of the model: no plain transfer takes a balance beyond it ...
  MaxAccrued       \* ... or is made when more fees than this are owed

ASSUME VaultLedgerAssumption ==
  /\ NoConstraint \in Constraints
  /\ Amounts \subseteq Nat
  /\ Windows \subseteq Nat
  /\ MinRefundWindow \in Nat /\ MaxRefundWindow \in Nat
  /\ UINT128_MAX \in Nat
  /\ Quotes \subseteq Nat
  /\ NoAnswer \notin Nat
  /\ BPS \in Nat \ {0}
  /\ MAX_FEE_BPS \in 0..BPS
  /\ MAX_SWEEP_PAGE \in Nat \ {0}
  /\ MaxDeposits \in Nat
  /\ MaxBalance \in Nat
  /\ MaxAccrued \in Nat

VARIABLES
  deposits,          \* Deposit[]: every record ever made, consumed ones included
  bucketDeposits,    \* ids of a bucket in funding order
  bucketCursor,      \* how many of them the cursor has passed
  bucketTotal,       \* unconsumed amount of a bucket
  trackedTotal,      \* unconsumed amount of a token
  constraintDeposit, \* deposit that used a (constraint, funder), 0 when none did
  feesOwed,          \* fees accrued through a verifier in a token
  feesOwedTotal,     \* fees accrued in a token
  balance            \* what the vault holds of a token

ledgerVars == <<deposits, bucketDeposits, bucketCursor, bucketTotal, trackedTotal,
                constraintDeposit, feesOwed, feesOwedTotal, balance>>

Buckets == Verifiers \X Constraints \X Tokens

Deposit == [funder: Funders, fundedAt: Nat, consumed: BOOLEAN, token: Tokens,
            refundWindow: Nat, verifier: Verifiers, feeBps: 0..MAX_FEE_BPS,
            amount: 1..UINT128_MAX, constraint: Constraints]

BucketOf(d) == <<d.verifier, d.constraint, d.token>>
Ids == 1..Len(deposits)

LedgerInit ==
  /\ deposits = <<>>
  /\ bucketDeposits = [b \in Buckets |-> <<>>]
  /\ bucketCursor = [b \in Buckets |-> 0]
  /\ bucketTotal = [b \in Buckets |-> 0]
  /\ trackedTotal = [t \in Tokens |-> 0]
  /\ constraintDeposit = [cf \in Constraints \X Funders |-> 0]
  /\ feesOwed = [vt \in Verifiers \X Tokens |-> 0]
  /\ feesOwedTotal = [t \in Tokens |-> 0]
  /\ balance = [t \in Tokens |-> 0]

-----------------------------------------------------------------------------
(* Fees *)

\* The policy's rate, capped, and 0 when the query fails.
UncappedQuote(q) == IF q = NoAnswer THEN 0 ELSE q
QuoteFeeBps(q) ==
  IF q = NoAnswer THEN 0
  ELSE IF q > MAX_FEE_BPS THEN MAX_FEE_BPS ELSE q

FeeOf(amount, bps) == (amount * bps) \div BPS

\* What a set S of the records ds adds up to, and the fees at the rates fixed at funding.
AmountIn(ds, S) == [i \in 1..Len(ds) |-> IF i \in S THEN ds[i].amount ELSE 0]
FeeIn(ds, S) ==
  [i \in 1..Len(ds) |-> IF i \in S THEN FeeOf(ds[i].amount, ds[i].feeBps) ELSE 0]
Gross(S) == Total(AmountIn(deposits, S), Len(deposits))
Fee(S) == Total(FeeIn(deposits, S), Len(deposits))

-----------------------------------------------------------------------------
(* Funding *)

\* A deposit made with _fund.  `amount` is what the caller names; `credited` is the
\* increase of the vault's balance, which a token may make differ from it.
Fund(funder, v, c, t, amount, credited, window, q) ==
  /\ Len(deposits) < MaxDeposits
  /\ c # NoConstraint => constraintDeposit[<<c, funder>>] = 0
  /\ window \in MinRefundWindow..MaxRefundWindow
  /\ amount \in 1..UINT128_MAX
  /\ t = NATIVE => credited = amount
  /\ credited \in 1..UINT128_MAX
  /\ LET id == Len(deposits) + 1
         b  == <<v, c, t>>
     IN  /\ deposits' = Append(deposits,
              [funder |-> funder, fundedAt |-> now, consumed |-> FALSE, token |-> t,
               refundWindow |-> window, verifier |-> v, feeBps |-> QuoteFeeBps(q),
               amount |-> credited, constraint |-> c])
         /\ constraintDeposit' =
              IF c = NoConstraint THEN constraintDeposit
              ELSE [constraintDeposit EXCEPT ![<<c, funder>>] = id]
         /\ bucketDeposits' = [bucketDeposits EXCEPT ![b] = Append(@, id)]
         /\ bucketTotal' = [bucketTotal EXCEPT ![b] = @ + credited]
         /\ trackedTotal' = [trackedTotal EXCEPT ![t] = @ + credited]
         /\ balance' = [balance EXCEPT ![t] = @ + credited]
  /\ UNCHANGED <<bucketCursor, feesOwed, feesOwedTotal>>

-----------------------------------------------------------------------------
(* Paying out *)

\* Mark the deposits of S, all of bucket b, consumed (_consume on each).
Consume(b, S) ==
  /\ deposits' = [i \in Ids |-> IF i \in S THEN [deposits[i] EXCEPT !.consumed = TRUE]
                                ELSE deposits[i]]
  /\ bucketTotal' = [bucketTotal EXCEPT ![b] = @ - Gross(S)]
  /\ trackedTotal' = [trackedTotal EXCEPT ![b[3]] = @ - Gross(S)]

\* Move `net` of token t out of the vault; the transfer fails when it holds less.
TransferOut(t, net) ==
  /\ net <= balance[t]
  /\ balance' = [balance EXCEPT ![t] = @ - net]

\* Keep `fee` accrued for v and pay the rest of `gross` out (_payout).
Payout(v, t, gross, fee) ==
  /\ feesOwed' = [feesOwed EXCEPT ![<<v, t>>] = @ + fee]
  /\ feesOwedTotal' = [feesOwedTotal EXCEPT ![t] = @ + fee]
  /\ TransferOut(t, gross - fee)

BalanceOverDeposits(t) ==
  IF balance[t] > trackedTotal[t] THEN balance[t] - trackedTotal[t] ELSE 0
BalanceOverFees(t) ==
  IF balance[t] > feesOwedTotal[t] THEN balance[t] - feesOwedTotal[t] ELSE 0
UntrackedBalance(t) ==
  LET held == trackedTotal[t] + feesOwedTotal[t]
  IN  IF balance[t] > held THEN balance[t] - held ELSE 0

RefundReady(i) == now > deposits[i].fundedAt + deposits[i].refundWindow

\* The funder takes an unconsumed deposit back, whole, after its window.
RefundFreeingConstraint(i) ==
  /\ i \in Ids
  /\ ~ deposits[i].consumed
  /\ RefundReady(i)
  /\ Consume(BucketOf(deposits[i]), {i})
  /\ TransferOut(deposits[i].token, deposits[i].amount)
  /\ constraintDeposit' =
       [constraintDeposit EXCEPT ![<<deposits[i].constraint, deposits[i].funder>>] = 0]
  /\ UNCHANGED <<bucketDeposits, bucketCursor, feesOwed, feesOwedTotal>>
Refund(i) ==
  /\ i \in Ids
  /\ ~ deposits[i].consumed
  /\ RefundReady(i)
  /\ Consume(BucketOf(deposits[i]), {i})
  /\ TransferOut(deposits[i].token, deposits[i].amount)
  /\ UNCHANGED <<bucketDeposits, bucketCursor, constraintDeposit, feesOwed, feesOwedTotal>>

Page(limit) == IF limit = 0 \/ limit > MAX_SWEEP_PAGE THEN MAX_SWEEP_PAGE ELSE limit

\* Where a page that starts at the cursor of b ends.
PageEnd(b, limit) ==
  IF Len(bucketDeposits[b]) - bucketCursor[b] > Page(limit)
  THEN bucketCursor[b] + Page(limit)
  ELSE Len(bucketDeposits[b])

\* The deposits a page pays: those visited and not consumed yet.
PageIds(b, limit) ==
  {i \in Ids : /\ ~ deposits[i].consumed
               /\ \E k \in (bucketCursor[b] + 1)..PageEnd(b, limit) : bucketDeposits[b][k] = i}

\* sweep, refreshProofAndSweep, sweepBucket: consume a page from the cursor and pay it,
\* with the untracked surplus, read before anything is consumed, at the rate quoted now.
SweepPageByPaid(b, limit, q, paysUntracked) ==
  LET S         == PageIds(b, limit)
      untracked == IF paysUntracked THEN UntrackedBalance(b[3]) ELSE 0
  IN  /\ Consume(b, S)
      /\ bucketCursor' = [bucketCursor EXCEPT ![b] = @ + Cardinality(S)]
      /\ Payout(b[1], b[3], Gross(S) + untracked, Fee(S) + FeeOf(untracked, QuoteFeeBps(q)))
      /\ UNCHANGED <<bucketDeposits, constraintDeposit>>
SweepPage(b, limit, q, paysUntracked) ==
  LET S         == PageIds(b, limit)
      untracked == IF paysUntracked THEN UntrackedBalance(b[3]) ELSE 0
  IN  /\ Consume(b, S)
      /\ bucketCursor' = [bucketCursor EXCEPT ![b] = PageEnd(b, limit)]
      /\ Payout(b[1], b[3], Gross(S) + untracked, Fee(S) + FeeOf(untracked, QuoteFeeBps(q)))
      /\ UNCHANGED <<bucketDeposits, constraintDeposit>>

\* sweepDeposits, sweepBucketDeposits: the ids named, each of the bucket and
\* unconsumed; an id listed twice reverts, so a list that goes through is a set.
SweepIds(b, S) ==
  /\ S \subseteq Ids
  /\ \A i \in S : BucketOf(deposits[i]) = b /\ ~ deposits[i].consumed
  /\ Consume(b, S)
  /\ Payout(b[1], b[3], Gross(S), Fee(S))
  /\ UNCHANGED <<bucketDeposits, bucketCursor, constraintDeposit>>

\* sweepUntracked: only the surplus, to the owner under verifier v.
SweepUntracked(v, t, q) ==
  /\ Payout(v, t, UntrackedBalance(t), FeeOf(UntrackedBalance(t), QuoteFeeBps(q)))
  /\ UNCHANGED <<deposits, bucketDeposits, bucketCursor, bucketTotal, trackedTotal,
                 constraintDeposit>>

\* withdrawFees: the policy takes what is owed; of an ERC-20 it may take less, and what
\* left the vault is what is written off.
WithdrawFees(v, t, taken) ==
  /\ feesOwed[<<v, t>>] # 0
  /\ taken \in 0..feesOwed[<<v, t>>]
  /\ t = NATIVE => taken = feesOwed[<<v, t>>]
  /\ feesOwed' = [feesOwed EXCEPT ![<<v, t>>] = @ - taken]
  /\ feesOwedTotal' = [feesOwedTotal EXCEPT ![t] = @ - taken]
  /\ TransferOut(t, taken)
  /\ UNCHANGED <<deposits, bucketDeposits, bucketCursor, bucketTotal, trackedTotal,
                 constraintDeposit>>

\* Someone sends the vault a token or native coin without funding.
DirectTransfer(t, amount) ==
  /\ balance[t] + amount <= MaxBalance
  /\ feesOwedTotal[t] <= MaxAccrued
  /\ balance' = [balance EXCEPT ![t] = @ + amount]
  /\ UNCHANGED <<deposits, bucketDeposits, bucketCursor, bucketTotal, trackedTotal,
                 constraintDeposit, feesOwed, feesOwedTotal>>

-----------------------------------------------------------------------------
(* The ledger on its own: any claim may be made, whoever it is paid to *)

LedgerFund ==
  \E funder \in Funders, v \in Verifiers, c \in Constraints, t \in Tokens,
     amount \in Amounts, credited \in Amounts, window \in Windows,
     q \in Quotes \union {NoAnswer} :
       Fund(funder, v, c, t, amount, credited, window, q)

LedgerRefund == \E i \in Ids : Refund(i)

\* Only the default bucket is paid together with the surplus.
LedgerSweepPage ==
  \E b \in Buckets, limit \in 0..(MAX_SWEEP_PAGE + 1), q \in Quotes \union {NoAnswer},
     paysUntracked \in BOOLEAN :
       /\ paysUntracked => b[2] = NoConstraint
       /\ SweepPage(b, limit, q, paysUntracked)

LedgerSweepIds == \E b \in Buckets, S \in SUBSET Ids : SweepIds(b, S)

LedgerSweepUntracked ==
  \E v \in Verifiers, t \in Tokens, q \in Quotes \union {NoAnswer} : SweepUntracked(v, t, q)

LedgerWithdrawFees ==
  \E v \in Verifiers, t \in Tokens :
    \E taken \in 0..feesOwed[<<v, t>>] : WithdrawFees(v, t, taken)

LedgerDirectTransfer == \E t \in Tokens, amount \in Amounts : DirectTransfer(t, amount)

LedgerCall ==
  \/ LedgerFund
  \/ LedgerRefund
  \/ LedgerSweepPage
  \/ LedgerSweepIds
  \/ LedgerSweepUntracked
  \/ LedgerWithdrawFees
  \/ LedgerDirectTransfer

LedgerTick == ClockTick /\ UNCHANGED ledgerVars

LedgerNext == (LedgerCall /\ UNCHANGED now) \/ LedgerTick

LedgerStart == ClockInit /\ LedgerInit
LedgerSpec == LedgerStart /\ [][LedgerNext]_<<now, ledgerVars>>
=============================================================================
