---------------------------- MODULE P2IDVaultProps ----------------------------
(***************************************************************************)
(* What a whole vault promises: whose money goes to whom.                  *)
(***************************************************************************)
EXTENDS P2IDVault

\* The accepted proofs that entitle p.to to what is claimed through p.verifier: they name it,
\* none through the verifier is newer, their signer key is still accepted, they were made
\* under the verifier's current key and, while that is in alpha, an attester approved them.
Titles(p) ==
  {i \in 1..Len(presented) :
     LET proof == presented[i].proof
     IN  /\ proof.verifier = p.verifier
         /\ proof.wallet = p.to
         /\ \A j \in 1..Len(presented) :
              presented[j].proof.verifier = p.verifier => presented[j].proof.iat <= proof.iat
         /\ proof.signer \in signerKeys[p.verifier]
         /\ presented[i].vkHash = vkHash[p.verifier]
         /\ IsAlpha(vkHash[p.verifier]) => presented[i].approval # {}}

\* This step presented a proof through p.verifier that names p.to.
ProvenInThisCall(p) ==
  /\ Len(presented') = Len(presented) + 1
  /\ presented'[Len(presented')].proof.verifier = p.verifier
  /\ presented'[Len(presented')].proof.wallet = p.to

\* A deposit leaves the vault in one of two ways: back to its funder, whole, after its
\* window; or to a wallet that holds a title, in the moment of the payment, under the very
\* verifier it was funded with - and, when it is constrained, with a proof in the same call.
DepositsGoWhereTheyShould ==
  [][\A i \in Ids :
       ~ deposits[i].consumed /\ deposits'[i].consumed =>
         \/ RefundReady(i) /\ payouts' = {}
         \/ \E p \in payouts' :
              /\ i \in p.deposits
              /\ p.verifier = deposits[i].verifier
              /\ Titles(p)' # {}
              /\ deposits[i].constraint # NoConstraint => ProvenInThisCall(p)]_vaultVars

\* Money sent without a deposit goes to a wallet with a title under the current default
\* verifier, no older than any proof accepted through a default verifier before it.
SurplusGoesToNewest ==
  \A p \in payouts :
    p.surplus =>
      /\ p.verifier = defaultVerifier
      /\ \E i \in Titles(p) :
           \A j \in 1..Len(presented) :
             presented[j].throughDefault => presented[j].proof.iat <= presented[i].proof.iat

\* Whatever the vault does to its money is a step of VaultLedger, so the ledger's invariants
\* are the vault's.
ImplementsLedger == LedgerSpec

\* Whatever it does to its payout wallets is a step of OwnerCache.
ImplementsOwnerCache == OwnerSpec
=============================================================================
