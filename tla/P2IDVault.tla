------------------------------ MODULE P2IDVault ------------------------------
(***************************************************************************)
(* A whole identity vault: the ledger of VaultLedger, paid out to the      *)
(* wallets of OwnerCache.  Each call anyone can make is one action, from   *)
(* its modifiers to its transfer.                                          *)
(*                                                                         *)
(* Left open: whether a verifier supports constraints and whether a        *)
(* constraint was signed (a proof is verified together with it), and the   *)
(* calldata an approval binds besides the method and the proof.            *)
(*                                                                         *)
(* A definition no other one uses, placed before one with the same         *)
(* parameters, is a mutant of it: a bug the properties must catch.         *)
(***************************************************************************)
EXTENDS VaultLedger, OwnerCache

VARIABLE payouts \* history, read by no action: what the last call paid an owner, if anything

vaultVars == <<now, ledgerVars, ownerVars, payouts>>

Rates == Quotes \union {NoAnswer}
Limits == 0..(MAX_SWEEP_PAGE + 1)

\* The call pays wallet `to` for the deposits S, and the surplus where `surplus` is true.
Pays(v, to, S, surplus) ==
  payouts' = {[verifier |-> v, to |-> to, deposits |-> S, surplus |-> surplus]}

PaysNobody == payouts' = {}

DefaultBucket(v, t) == <<v, NoConstraint, t>>

VaultStart == ClockInit /\ LedgerInit /\ OwnerInit /\ payouts = {}

-----------------------------------------------------------------------------
(* Funders *)

\* fund, fundWith and fundFor: new deposits are made under a verifier the policy approves,
\* the default verifier included.
FundVault ==
  /\ \E funder \in Funders, v \in approvedVerifiers, c \in Constraints, t \in Tokens,
        amount \in Amounts, credited \in Amounts, window \in Windows, q \in Rates :
       Fund(funder, v, c, t, amount, credited, window, q)
  /\ PaysNobody
  /\ UNCHANGED ownerVars

\* refund: whatever became of the verifier, the policy and the owner.
RefundDeposit == LedgerRefund /\ PaysNobody /\ UNCHANGED ownerVars

-----------------------------------------------------------------------------
(* Claims on the cached wallet *)

\* sweep
Sweep(v, t, limit, q) ==
  /\ OwnerPayable(v)
  /\ SweepPage(DefaultBucket(v, t), limit, q, PaysUntracked(v))
  /\ Pays(v, owner[v], PageIds(DefaultBucket(v, t), limit), PaysUntracked(v))
  /\ UNCHANGED ownerVars

\* sweepUntracked
SweepSurplusWhateverItsAge(t, q) ==
  /\ OwnerPayable(defaultVerifier)
  /\ SweepUntracked(defaultVerifier, t, q)
  /\ Pays(defaultVerifier, owner[defaultVerifier], {}, TRUE)
  /\ UNCHANGED ownerVars
SweepSurplus(t, q) ==
  LET v == defaultVerifier
  IN  /\ OwnerPayable(v)
      /\ latestProofIat[v] >= untrackedProofIat
      /\ SweepUntracked(v, t, q)
      /\ Pays(v, owner[v], {}, TRUE)
      /\ UNCHANGED ownerVars

\* sweepDeposits
SweepDeposits(v, t, S) ==
  /\ OwnerPayable(v)
  /\ SweepIds(DefaultBucket(v, t), S)
  /\ Pays(v, owner[v], S, FALSE)
  /\ UNCHANGED ownerVars

-----------------------------------------------------------------------------
(* Calls with a proof *)

Presenting(entry, call) ==
  /\ call.entry = entry
  /\ PresentProof(call)
  /\ UNCHANGED <<settings, verifierVars, approvals, voided>>

\* refreshProof
RefreshProof(call) ==
  /\ Presenting("refreshProof", call)
  /\ PaysNobody
  /\ UNCHANGED ledgerVars

\* refreshProofAndSweep: the cache is read again after the proof, which may have left a
\* revoked wallet in it.
RefreshProofAndSweepStale(call, t, limit, q) ==
  LET v == call.proof.verifier
  IN  /\ Presenting("refreshProofAndSweep", call)
      /\ SweepPage(DefaultBucket(v, t), limit, q, PaysUntracked(v)')
      /\ Pays(v, owner'[v], PageIds(DefaultBucket(v, t), limit), PaysUntracked(v)')
RefreshProofAndSweep(call, t, limit, q) ==
  LET v == call.proof.verifier
  IN  /\ Presenting("refreshProofAndSweep", call)
      /\ OwnerPayable(v)'
      /\ SweepPage(DefaultBucket(v, t), limit, q, PaysUntracked(v)')
      /\ Pays(v, owner'[v], PageIds(DefaultBucket(v, t), limit), PaysUntracked(v)')

\* sweepBucket: pays the wallet of the proof, whoever is cached.
SweepBucket(call, c, t, limit) ==
  LET b == <<call.proof.verifier, c, t>>
  IN  /\ c # NoConstraint
      /\ Presenting("sweepBucket", call)
      /\ SweepPage(b, limit, NoAnswer, FALSE)
      /\ Pays(call.proof.verifier, call.proof.wallet, PageIds(b, limit), FALSE)

\* sweepBucketDeposits
SweepBucketDeposits(call, c, t, S) ==
  LET b == <<call.proof.verifier, c, t>>
  IN  /\ c # NoConstraint
      /\ Presenting("sweepBucketDeposits", call)
      /\ SweepIds(b, S)
      /\ Pays(call.proof.verifier, call.proof.wallet, S, FALSE)

\* upgradeTo on the proxy, with its acceptOwnerProof hook.
Upgrade(call) ==
  /\ PresentUpgradeProof(call)
  /\ PaysNobody
  /\ UNCHANGED <<ledgerVars, settings, verifierVars, approvals, voided>>

-----------------------------------------------------------------------------
(* Everything else *)

\* withdrawFees, a plain transfer to the vault, and the factory, policy and verifiers.
PayFees == LedgerWithdrawFees /\ PaysNobody /\ UNCHANGED ownerVars
Donate == LedgerDirectTransfer /\ PaysNobody /\ UNCHANGED ownerVars
WorldStep == World /\ PaysNobody /\ UNCHANGED ledgerVars

VaultTick == ClockTick /\ PaysNobody /\ UNCHANGED <<ledgerVars, ownerVars>>

Claim ==
  \/ \E v \in Verifiers, t \in Tokens, limit \in Limits, q \in Rates : Sweep(v, t, limit, q)
  \/ \E t \in Tokens, q \in Rates : SweepSurplus(t, q)
  \/ \E v \in Verifiers, t \in Tokens, S \in SUBSET Ids : SweepDeposits(v, t, S)

ProofCall ==
  \E call \in Call :
    \/ RefreshProof(call)
    \/ \E t \in Tokens, limit \in Limits, q \in Rates : RefreshProofAndSweep(call, t, limit, q)
    \/ \E c \in Constraints, t \in Tokens, limit \in Limits : SweepBucket(call, c, t, limit)
    \/ \E c \in Constraints, t \in Tokens, S \in SUBSET Ids : SweepBucketDeposits(call, c, t, S)
    \/ Upgrade(call)

VaultCall ==
  \/ FundVault
  \/ RefundDeposit
  \/ Claim
  \/ ProofCall
  \/ PayFees
  \/ Donate
  \/ WorldStep

VaultNext == (VaultCall /\ UNCHANGED now) \/ VaultTick

VaultSpec == VaultStart /\ [][VaultNext]_vaultVars
=============================================================================
