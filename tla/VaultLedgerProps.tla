--------------------------- MODULE VaultLedgerProps ---------------------------
(***************************************************************************)
(* What the ledger promises.                                               *)
(***************************************************************************)
EXTENDS VaultLedger

\* Every ledger variable has its type: no total is negative (a checked subtraction
\* of P2IDVault never reverts) and a record's amount fits its uint128.
LedgerTypeOK ==
  /\ now \in Nat
  /\ deposits \in Seq(Deposit)
  /\ bucketDeposits \in [Buckets -> Seq(Nat)]
  /\ bucketCursor \in [Buckets -> Nat]
  /\ bucketTotal \in [Buckets -> Nat]
  /\ trackedTotal \in [Tokens -> Nat]
  /\ constraintDeposit \in [Constraints \X Funders -> Nat]
  /\ feesOwed \in [Verifiers \X Tokens -> Nat]
  /\ feesOwedTotal \in [Tokens -> Nat]
  /\ balance \in [Tokens -> Nat]

\* What is unconsumed of the records ds in a token, and in a bucket, by id.
OpenOfToken(ds, t) ==
  [i \in 1..Len(ds) |-> IF ~ ds[i].consumed /\ ds[i].token = t THEN ds[i].amount ELSE 0]
OpenOfBucket(ds, b) ==
  [i \in 1..Len(ds) |-> IF ~ ds[i].consumed /\ BucketOf(ds[i]) = b THEN ds[i].amount ELSE 0]

\* The fees owed in a token, by verifier.
FeesOfToken(owed, t) == [v \in Verifiers |-> owed[<<v, t>>]]

\* The running totals that funding, claiming and refunding keep agree with the records:
\* trackedTotal and bucketTotal are the sums of the unconsumed deposits, and
\* feesOwedTotal the sum of feesOwed.
TotalsAreSums ==
  /\ \A t \in Tokens : trackedTotal[t] = Total(OpenOfToken(deposits, t), Len(deposits))
  /\ \A b \in Buckets : bucketTotal[b] = Total(OpenOfBucket(deposits, b), Len(deposits))
  /\ \A t \in Tokens :
       feesOwedTotal[t] = Total(FeesOfToken(feesOwed, t), NumVerifiers)

\* The vault holds what it owes: unconsumed deposits and undistributed fees.
Solvent == \A t \in Tokens : balance[t] >= trackedTotal[t] + feesOwedTotal[t]

\* The list `ids` and the cursor of bucket b agree with the records ds.
Indexes(ids, cursor, ds, b) ==
  /\ \A k \in 1..Len(ids) : ids[k] \in 1..Len(ds) /\ BucketOf(ds[ids[k]]) = b
  /\ \A k, m \in 1..Len(ids) : k < m => ids[k] < ids[m]
  /\ \A i \in 1..Len(ds) : BucketOf(ds[i]) = b => \E k \in 1..Len(ids) : ids[k] = i
  /\ cursor <= Len(ids)
  /\ \A k \in 1..cursor : ds[ids[k]].consumed

\* A bucket lists exactly the deposits funded under its verifier, constraint and token, in
\* funding order, and everything its cursor has passed is consumed, so a claim that
\* starts at the cursor skips nobody's money.
BucketsIndexDeposits ==
  \A b \in Buckets : Indexes(bucketDeposits[b], bucketCursor[b], deposits, b)

\* A funder makes at most one deposit per nonzero constraint, ever: claiming or refunding
\* it does not free the constraint, whose record keeps naming the deposit that used it.
ConstraintUsedOnce ==
  \A i \in Ids :
    LET c == deposits[i].constraint
        f == deposits[i].funder
    IN  c # NoConstraint =>
          /\ constraintDeposit[<<c, f>>] = i
          /\ \A j \in Ids : deposits[j].constraint = c /\ deposits[j].funder = f => j = i

\* A deposit not paid yet can be taken back once its window is over: whatever was claimed,
\* refunded, donated or withdrawn meanwhile, none of the three checked subtractions of the
\* refund underflows, as the vault still holds the deposit whole.
RefundAlwaysOpen ==
  \A i \in Ids :
    ~ deposits[i].consumed =>
      /\ deposits[i].amount <= bucketTotal[BucketOf(deposits[i])]
      /\ deposits[i].amount <= trackedTotal[deposits[i].token]
      /\ deposits[i].amount <= balance[deposits[i].token]

-----------------------------------------------------------------------------
(* The abstract escrow this ledger implements *)

Escrow == INSTANCE Escrow WITH
  entries <- [i \in Ids |-> [token |-> deposits[i].token, amount |-> deposits[i].amount,
                             held |-> ~ deposits[i].consumed]],
  fees <- feesOwedTotal,
  cash <- balance

\* Every call of the vault is a step of a plain escrow that knows no buckets, cursors or
\* running totals: an entry is given back whole or claimed, once; a fee is at most the cap;
\* surplus is what is left when every held entry and every fee is set aside.
ImplementsEscrow == Escrow!Spec

-----------------------------------------------------------------------------
(* Progress *)

\* The owner of a bucket keeps sweeping it, a page at a time.
OwnersSweep ==
  \A b \in Buckets :
    WF_<<now, ledgerVars>>(SweepPage(b, 0, NoAnswer, FALSE) /\ UNCHANGED now)

LedgerLiveSpec == LedgerSpec /\ OwnersSweep

\* Every deposit is settled in the end: paging from the cursor gets past any number of
\* consumed records and other people's deposits to the last one.
EveryDepositSettles ==
  \A i \in 1..MaxDeposits :
    (i \in Ids) ~> (i \in Ids /\ deposits[i].consumed)
=============================================================================
