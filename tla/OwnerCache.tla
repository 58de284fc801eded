------------------------------ MODULE OwnerCache ------------------------------
(***************************************************************************)
(* Who a vault pays: the payout wallet P2IDVault caches per verifier, what *)
(* makes a presented proof replace, restore or leave it, and the factory,  *)
(* policy and verifier state that makes a cached wallet stale.             *)
(*                                                                         *)
(* A call that reverts leaves no trace, a failed revision() query among    *)
(* the reasons: every path that reads the cache reverts on it.             *)
(*                                                                         *)
(* A definition placed before one with the same parameters, and used by no *)
(* action, is a mutant of it: a bug the properties must catch.             *)
(***************************************************************************)
EXTENDS VaultBase, Sequences, FiniteSets

CONSTANTS
  Wallets,       \* wallets a proof can name
  NoOwner,       \* address(0)
  VkHashes,      \* verification-key hashes
  NoVkHash,      \* bytes32(0)
  Signers,       \* identity-provider keys a proof can be signed under
  FUTURE_SLACK,
  EntryPoints,   \* the proof methods modelled
  Attesters,
  Nonces,
  Deadlines,     \* deadlines an attester signs
  MaxProofs,     \* bound of the model: proofs accepted
  MaxApprovals,  \* bound of the model: approvals signed
  MaxEpoch,      \* bound of the model: alpha toggles and attester rotations
  MaxRevision    \* bound of the model: signer keys removed from a verifier

ASSUME OwnerCacheAssumption ==
  /\ NoOwner \notin Wallets
  /\ NoVkHash \notin VkHashes
  /\ FUTURE_SLACK \in Nat
  /\ EntryPoints \subseteq {"refreshProof", "refreshProofAndSweep", "sweepBucket",
                            "sweepBucketDeposits", "upgradeTo"}
  /\ Deadlines \subseteq Nat
  /\ {MaxProofs, MaxApprovals, MaxEpoch, MaxRevision} \subseteq Nat

VARIABLES
  (* P2IDVault *)
  owner,              \* cached payout wallet of a verifier
  latestProofIat,     \* issue time of the newest proof accepted through it
  ownerRevision,      \* verifier revision the cached wallet was proven under
  ownerVkHash,        \* verification key it was proven under ...
  ownerAlphaRevision, \* ... and that key's alpha revision
  untrackedProofIat,  \* newest proof accepted through a then-default verifier
  alphaNonceUsed,
  (* P2IDVaultProxy *)
  lastUpgrade,        \* wallet and issue time of the last upgrade
  alphaUpgradeNonceUsed,
  (* PviumP2IdVaultFactory and PviumP2IDPolicy *)
  defaultVerifier,
  approvedVerifiers,
  alphaReleased,
  alphaRevision,
  alphaEpoch,
  defaultAttester,
  (* IP2IDVerifier: PviumVerifier and PviumIdentity, or any other *)
  signerKeys,         \* keys a verifier accepts proofs under
  revision,
  vkHash,
  (* Off chain *)
  approvals,          \* approvals attesters have signed
  (* History, read by no action *)
  voided,             \* approvals signed before the last toggle or rotation
  presented           \* every accepted proof, in order

cacheVars == <<owner, latestProofIat, ownerRevision, ownerVkHash, ownerAlphaRevision,
               untrackedProofIat, alphaNonceUsed>>
proxyVars == <<lastUpgrade, alphaUpgradeNonceUsed>>
settings == <<defaultVerifier, approvedVerifiers, alphaReleased, alphaRevision, alphaEpoch,
              defaultAttester>>
verifierVars == <<signerKeys, revision, vkHash>>
ownerVars == <<cacheVars, proxyVars, settings, verifierVars, approvals, voided, presented>>

Times == 0..(MaxTime + FUTURE_SLACK + 1)

\* A proof that getIdentityWallet accepts while `signer` is a signer key of the verifier.
Proof == [verifier: Verifiers, wallet: Wallets, iat: Times, signer: Signers]

\* What an approval binds: the method and its proof stand for the caller and the calldata.
Call == [entry: EntryPoints, proof: Proof]
Approval == [call: Call, nonce: Nonces, deadline: Deadlines, attester: Attesters, epoch: Nat]

CacheInit ==
  /\ owner = [v \in Verifiers |-> NoOwner]
  /\ latestProofIat = [v \in Verifiers |-> 0]
  /\ ownerRevision = [v \in Verifiers |-> 0]
  /\ ownerVkHash = [v \in Verifiers |-> NoVkHash]
  /\ ownerAlphaRevision = [v \in Verifiers |-> 0]
  /\ untrackedProofIat = 0
  /\ alphaNonceUsed = {}
  /\ lastUpgrade = [wallet |-> NoOwner, iat |-> 0]
  /\ alphaUpgradeNonceUsed = {}

\* A vault can be deployed at any time in the life of its factory.  The counters that are only
\* compared for equality, revision and alphaRevision, are counted from its deployment.
SettingsInit ==
  /\ approvedVerifiers \in SUBSET Verifiers
  /\ defaultVerifier \in approvedVerifiers
  /\ alphaReleased \in [VkHashes -> BOOLEAN]
  /\ alphaRevision = [k \in VkHashes |-> 0]
  /\ alphaEpoch = 0
  /\ defaultAttester \in Attesters
  /\ signerKeys \in [Verifiers -> SUBSET Signers]
  /\ revision = [v \in Verifiers |-> 0]
  /\ vkHash \in [Verifiers -> VkHashes]

OwnerInit == CacheInit /\ SettingsInit /\ approvals = {} /\ voided = {} /\ presented = <<>>

-----------------------------------------------------------------------------
(* Reading the cache *)

\* isAlpha: a key nobody released needs an attestation.
IsAlpha(k) == k # NoVkHash => ~ alphaReleased[k]

\* onlyClaimable: an unapproved verifier can still be claimed through while it is the default.
ClaimableVerifier(v) == v = defaultVerifier \/ v \in approvedVerifiers

\* _ownerFresh
Fresh(v) ==
  /\ ownerRevision[v] = revision[v]
  /\ vkHash[v] # NoVkHash
  /\ ownerVkHash[v] = vkHash[v]
  /\ ownerAlphaRevision[v] = alphaRevision[vkHash[v]]

\* _ownerOf: the cached wallet can be paid.
OwnerPayable(v) == ClaimableVerifier(v) /\ owner[v] # NoOwner /\ Fresh(v)

\* _paysUntracked
PaysUntrackedToDefault(v) == v = defaultVerifier /\ Fresh(v)
PaysUntracked(v) ==
  v = defaultVerifier /\ Fresh(v) /\ latestProofIat[v] >= untrackedProofIat

-----------------------------------------------------------------------------
(* Presenting a proof *)

\* The attestations the call goes through with, given the nonces used so far: during alpha one
\* current approval of it; after alpha none, one that is sent along is not looked at.
AnyEpochAttestations(call, used) ==
  IF IsAlpha(vkHash[call.proof.verifier])
  THEN {{a} : a \in {b \in approvals : /\ b.call = call
                                       /\ b.nonce \notin used
                                       /\ now <= b.deadline
                                       /\ b.attester = defaultAttester}}
  ELSE {{}}
Attestations(call, used) ==
  IF IsAlpha(vkHash[call.proof.verifier])
  THEN {{a} : a \in {b \in approvals : /\ b.call = call
                                       /\ b.nonce \notin used
                                       /\ now <= b.deadline
                                       /\ b.attester = defaultAttester
                                       /\ b.epoch = alphaEpoch}}
  ELSE {{}}

NoncesOf(attestation) == {a.nonce : a \in attestation}

\* getIdentityWallet accepts the proof.
Verified(p) == p.signer \in signerKeys[p.verifier]

Record(call, attestation) ==
  LET v == call.proof.verifier
  IN  presented' = Append(presented,
        [proof |-> call.proof, vkHash |-> vkHash[v], throughDefault |-> v = defaultVerifier,
         approval |-> attestation, void |-> attestation \cap voided # {}])

\* What _apply takes for a newer proof, whose wallet becomes the owner.
NewerOrAsNew(p) == p.iat >= latestProofIat[p.verifier]
Newer(p) == p.iat > latestProofIat[p.verifier] \/ owner[p.verifier] = NoOwner

\* A proof as old as the newest only restores the wallet already cached, after a revocation.
RestoresAnyWallet(p) == ~ Newer(p) /\ ~ Fresh(p.verifier)
Restores(p) == ~ Newer(p) /\ ~ Fresh(p.verifier) /\ p.wallet = owner[p.verifier]

\* What keeps a proof from being applied: it is older than the newest, or from the future.
InOrder(p) == p.iat >= latestProofIat[p.verifier]
Timely(p) == InOrder(p) /\ p.iat <= now + FUTURE_SLACK

\* The floor of the untracked funds after the proof.
LastUntrackedIat(p) == IF p.verifier = defaultVerifier THEN p.iat ELSE untrackedProofIat
NextUntrackedIat(p) ==
  IF p.iat > untrackedProofIat /\ p.verifier = defaultVerifier THEN p.iat ELSE untrackedProofIat

\* _apply
Apply(p) ==
  LET v       == p.verifier
      vouches == Newer(p) \/ p.wallet = owner[v]
  IN  /\ Timely(p)
      /\ owner' = IF Newer(p) THEN [owner EXCEPT ![v] = p.wallet] ELSE owner
      /\ latestProofIat' = IF Newer(p) THEN [latestProofIat EXCEPT ![v] = p.iat]
                           ELSE latestProofIat
      /\ ownerRevision' = IF Newer(p) \/ Restores(p)
                          THEN [ownerRevision EXCEPT ![v] = revision[v]] ELSE ownerRevision
      /\ vouches => vkHash[v] # NoVkHash
      /\ ownerVkHash' = IF vouches THEN [ownerVkHash EXCEPT ![v] = vkHash[v]] ELSE ownerVkHash
      /\ ownerAlphaRevision' =
           IF vouches THEN [ownerAlphaRevision EXCEPT ![v] = alphaRevision[vkHash[v]]]
           ELSE ownerAlphaRevision
      /\ untrackedProofIat' = NextUntrackedIat(p)

\* A proof method of the vault up to the point where it goes on to pay: the modifier
\* alphaAttestationRequired, then _present; refreshProof ends here.
PresentProof(call) ==
  /\ Len(presented) < MaxProofs
  /\ call.entry # "upgradeTo"
  /\ ClaimableVerifier(call.proof.verifier)
  /\ Verified(call.proof)
  /\ \E attestation \in Attestations(call, alphaNonceUsed) :
       /\ alphaNonceUsed' = alphaNonceUsed \union NoncesOf(attestation)
       /\ Record(call, attestation)
  /\ Apply(call.proof)
  /\ UNCHANGED proxyVars

\* What upgradeTo makes of a time it reads from the vault or its own history: one beyond the
\* slack is ignored.
Floor(iat) == IF iat > now + FUTURE_SLACK THEN 0 ELSE iat
LastUpgrade == IF lastUpgrade.iat > now + FUTURE_SLACK THEN [wallet |-> NoOwner, iat |-> 0]
               ELSE lastUpgrade

\* The proxy's upgradeTo, to another implementation that is a P2IDVault too: the wallet that
\* makes the call proves the identity through the default verifier, with a proof no older
\* than the last upgrade's and than the vault's floors, and the new implementation's
\* acceptOwnerProof hook applies it.
PresentUpgradeProof(call) ==
  LET p == call.proof
  IN  /\ Len(presented) < MaxProofs
      /\ call.entry = "upgradeTo"
      /\ p.verifier = defaultVerifier
      /\ \E attestation \in Attestations(call, alphaUpgradeNonceUsed) :
           /\ alphaUpgradeNonceUsed' = alphaUpgradeNonceUsed \union NoncesOf(attestation)
           /\ Record(call, attestation)
      /\ Verified(p)
      /\ p.iat <= now + FUTURE_SLACK
      /\ p.iat >= LastUpgrade.iat
      /\ p.iat = LastUpgrade.iat => p.wallet = LastUpgrade.wallet
      /\ p.iat >= Floor(latestProofIat[p.verifier]) /\ p.iat >= Floor(untrackedProofIat)
      /\ lastUpgrade' = [wallet |-> p.wallet, iat |-> p.iat]
      /\ Apply(p)
      /\ owner'[p.verifier] = p.wallet
      /\ UNCHANGED alphaNonceUsed

-----------------------------------------------------------------------------
(* The world around the vault *)

\* The attester signs an approval.
Approve(call, nonce, deadline) ==
  LET a == [call |-> call, nonce |-> nonce, deadline |-> deadline,
            attester |-> defaultAttester, epoch |-> alphaEpoch]
  IN  /\ Cardinality(approvals) < MaxApprovals
      /\ approvals' = approvals \union {a}
      /\ UNCHANGED <<cacheVars, proxyVars, settings, verifierVars, voided, presented>>

\* setAlpha: putting a released key back into alpha voids what was cached while it was released.
SetAlphaKeepingOwners(k, enabled) ==
  /\ alphaEpoch < MaxEpoch
  /\ alphaReleased' = [alphaReleased EXCEPT ![k] = ~ enabled]
  /\ alphaEpoch' = alphaEpoch + 1
  /\ voided' = approvals
  /\ UNCHANGED <<cacheVars, proxyVars, defaultVerifier, approvedVerifiers, alphaRevision,
                 defaultAttester, verifierVars, approvals, presented>>
SetAlpha(k, enabled) ==
  /\ alphaEpoch < MaxEpoch
  /\ alphaRevision' = IF enabled /\ alphaReleased[k] THEN [alphaRevision EXCEPT ![k] = @ + 1]
                      ELSE alphaRevision
  /\ alphaReleased' = [alphaReleased EXCEPT ![k] = ~ enabled]
  /\ alphaEpoch' = alphaEpoch + 1
  /\ voided' = approvals
  /\ UNCHANGED <<cacheVars, proxyVars, defaultVerifier, approvedVerifiers, defaultAttester, verifierVars,
                 approvals, presented>>

SetDefaultAttester(a) ==
  /\ alphaEpoch < MaxEpoch
  /\ defaultAttester' = a
  /\ alphaEpoch' = alphaEpoch + 1
  /\ voided' = approvals
  /\ UNCHANGED <<cacheVars, proxyVars, defaultVerifier, approvedVerifiers, alphaReleased, alphaRevision,
                 verifierVars, approvals, presented>>

\* activateDefaultVerifier, at the end of its timelock: only an approved verifier.
ActivateDefaultVerifier(v) ==
  /\ v \in approvedVerifiers
  /\ defaultVerifier' = v
  /\ UNCHANGED <<cacheVars, proxyVars, approvedVerifiers, alphaReleased, alphaRevision, alphaEpoch,
                 defaultAttester, verifierVars, approvals, voided, presented>>

\* approveVerifier: at once, the default included.
ApproveVerifier(v, approved) ==
  /\ approvedVerifiers' = IF approved THEN approvedVerifiers \union {v}
                          ELSE approvedVerifiers \ {v}
  /\ UNCHANGED <<cacheVars, proxyVars, defaultVerifier, alphaReleased, alphaRevision, alphaEpoch,
                 defaultAttester, verifierVars, approvals, voided, presented>>

\* activatePolicy: any other policy, so long as it allows the current default.
ActivatePolicy(approved) ==
  /\ defaultVerifier \in approved
  /\ approvedVerifiers' = approved
  /\ UNCHANGED <<cacheVars, proxyVars, defaultVerifier, alphaReleased, alphaRevision, alphaEpoch,
                 defaultAttester, verifierVars, approvals, voided, presented>>

\* removeSignerKey: proofs under it stop verifying, and the revision tells the caches.
RemoveSignerKey(v, s) ==
  /\ revision[v] < MaxRevision
  /\ s \in signerKeys[v]
  /\ signerKeys' = [signerKeys EXCEPT ![v] = @ \ {s}]
  /\ revision' = [revision EXCEPT ![v] = @ + 1]
  /\ UNCHANGED <<cacheVars, proxyVars, settings, vkHash, approvals, voided, presented>>

\* activateSignerKey
ActivateSignerKey(v, s) ==
  /\ s \notin signerKeys[v]
  /\ signerKeys' = [signerKeys EXCEPT ![v] = @ \union {s}]
  /\ UNCHANGED <<cacheVars, proxyVars, settings, revision, vkHash, approvals, voided, presented>>

\* A verifier other than PviumVerifier, whose key is immutable, moves to another circuit.
ChangeVkHash(v, k) ==
  /\ vkHash' = [vkHash EXCEPT ![v] = k]
  /\ UNCHANGED <<cacheVars, proxyVars, settings, signerKeys, revision, approvals, voided, presented>>

World ==
  \/ \E call \in Call, nonce \in Nonces, deadline \in Deadlines : Approve(call, nonce, deadline)
  \/ \E k \in VkHashes, enabled \in BOOLEAN : SetAlpha(k, enabled)
  \/ \E a \in Attesters : SetDefaultAttester(a)
  \/ \E v \in Verifiers : ActivateDefaultVerifier(v)
  \/ \E v \in Verifiers, approved \in BOOLEAN : ApproveVerifier(v, approved)
  \/ \E approved \in SUBSET Verifiers : ActivatePolicy(approved)
  \/ \E v \in Verifiers, s \in Signers : RemoveSignerKey(v, s)
  \/ \E v \in Verifiers, s \in Signers : ActivateSignerKey(v, s)
  \/ \E v \in Verifiers, k \in VkHashes \union {NoVkHash} : ChangeVkHash(v, k)

-----------------------------------------------------------------------------
(* The cache on its own: any proof method, whatever it pays *)

OwnerPresent ==
  \E call \in Call :
    PresentProof(call) /\ UNCHANGED <<settings, verifierVars, approvals, voided>>

OwnerUpgrade ==
  \E call \in Call :
    PresentUpgradeProof(call) /\ UNCHANGED <<settings, verifierVars, approvals, voided>>

OwnerTick == ClockTick /\ UNCHANGED ownerVars

OwnerNext == ((OwnerPresent \/ OwnerUpgrade \/ World) /\ UNCHANGED now) \/ OwnerTick

OwnerStart == ClockInit /\ OwnerInit
OwnerSpec == OwnerStart /\ [][OwnerNext]_<<now, ownerVars>>
=============================================================================
