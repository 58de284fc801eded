---------------------------- MODULE OwnerCacheProps ----------------------------
(***************************************************************************)
(* What the payout wallets promise.                                        *)
(***************************************************************************)
EXTENDS OwnerCache

\* The variables of the cache and of its surroundings have their types.
OwnerTypeOK ==
  /\ now \in Nat
  /\ owner \in [Verifiers -> Wallets \union {NoOwner}]
  /\ latestProofIat \in [Verifiers -> Nat]
  /\ ownerRevision \in [Verifiers -> Nat]
  /\ ownerVkHash \in [Verifiers -> VkHashes \union {NoVkHash}]
  /\ ownerAlphaRevision \in [Verifiers -> Nat]
  /\ untrackedProofIat \in Nat
  /\ alphaNonceUsed \subseteq Nonces
  /\ lastUpgrade \in [wallet: Wallets \union {NoOwner}, iat: Nat]
  /\ alphaUpgradeNonceUsed \subseteq Nonces
  /\ defaultVerifier \in Verifiers
  /\ approvedVerifiers \subseteq Verifiers
  /\ alphaReleased \in [VkHashes -> BOOLEAN]
  /\ alphaRevision \in [VkHashes -> Nat]
  /\ alphaEpoch \in Nat
  /\ defaultAttester \in Attesters
  /\ signerKeys \in [Verifiers -> SUBSET Signers]
  /\ revision \in [Verifiers -> Nat]
  /\ vkHash \in [Verifiers -> VkHashes \union {NoVkHash}]
  /\ approvals \subseteq Approval
  /\ voided \subseteq approvals
  /\ presented \in Seq([proof: Proof, vkHash: VkHashes \union {NoVkHash},
                        throughDefault: BOOLEAN, approval: SUBSET Approval, void: BOOLEAN])

\* The accepted proofs that went through v.
Through(v) == {i \in 1..Len(presented) : presented[i].proof.verifier = v}

\* Those that name the cached wallet of v with its issue time.
Vouchers(v) ==
  {i \in Through(v) : /\ presented[i].proof.wallet = owner[v]
                      /\ presented[i].proof.iat = latestProofIat[v]}

\* The cached wallet is that of the first proof of the newest issue time accepted: an older
\* proof, a replayed one or another wallet of an equally old token never displaces it.
OwnerIsFirstOfNewest ==
  \A v \in Verifiers :
    \/ owner[v] = NoOwner /\ Through(v) = {}
    \/ \E i \in Vouchers(v) :
         \A j \in Through(v) :
           /\ presented[j].proof.iat <= latestProofIat[v]
           /\ j < i => presented[j].proof.iat < latestProofIat[v]

\* Once a signer key is removed, no wallet it vouched for is payable from the cache until a
\* proof under a key still accepted names that wallet again.
PayableOwnerHasLiveSigner ==
  \A v \in Verifiers :
    OwnerPayable(v) => \E i \in Vouchers(v) : presented[i].proof.signer \in signerKeys[v]

\* While a key is in alpha, a payable cached wallet was vouched for by a proof under that key
\* that an attester approved: releasing the key and taking it back clears what came between.
AlphaOwnerIsAttested ==
  \A v \in Verifiers :
    OwnerPayable(v) /\ IsAlpha(vkHash[v]) =>
      \E i \in Vouchers(v) : presented[i].vkHash = vkHash[v] /\ presented[i].approval # {}

\* Funds sent without a deposit go to nobody whose proof is older than one that was accepted
\* through the default verifier of its time, however the default changed since.
UntrackedGoesToNewest ==
  \A v \in Verifiers :
    OwnerPayable(v) /\ PaysUntracked(v) =>
      \A i \in 1..Len(presented) :
        presented[i].throughDefault => presented[i].proof.iat <= latestProofIat[v]

\* No floor runs further ahead of the clock than the slack: a proof can lock an equally
\* rightful wallet out for no longer than that, and the proxy's upgradeTo, which ignores a
\* recorded time beyond the slack, never ignores one this vault wrote.
FloorsNearNow ==
  /\ \A v \in Verifiers : latestProofIat[v] <= now + FUTURE_SLACK
  /\ untrackedProofIat <= now + FUTURE_SLACK
  /\ lastUpgrade.iat <= now + FUTURE_SLACK

\* An approval lets one call through, and none if an alpha toggle or an attester rotation came
\* after it was signed, even if the attester is reinstated; of the approvals the vault itself
\* takes no two have the same nonce.
ApprovalsUsedOnceWhileValid ==
  \A i \in 1..Len(presented) :
    /\ ~ presented[i].void
    /\ \A j \in 1..Len(presented) :
         \A a \in presented[i].approval, b \in presented[j].approval :
           i # j => /\ a # b
                    /\ a.nonce = b.nonce =>
                         (a.call.entry = "upgradeTo") # (b.call.entry = "upgradeTo")

\* Issue-time floors never fall: a verifier's, and that of the untracked funds, whatever is
\* revoked, re-keyed or made default.
FloorsOnlyRise ==
  [][/\ \A v \in Verifiers : latestProofIat'[v] >= latestProofIat[v]
     /\ untrackedProofIat' >= untrackedProofIat]_<<now, ownerVars>>
=============================================================================
