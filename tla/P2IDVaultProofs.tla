--------------------------- MODULE P2IDVaultProofs ---------------------------
(***************************************************************************)
(* First the owner cache: the promises of OwnerCacheProps hold for any     *)
(* number of verifiers, wallets, keys, proofs and approvals.               *)
(*                                                                         *)
(* Then the whole vault: it implements the ledger and the owner cache, so  *)
(* it has what is proved of either; and, the two taken together, it pays   *)
(* whom it should.                                                         *)
(***************************************************************************)
EXTENDS P2IDVaultProps, OwnerCacheProps, VaultLedgerProofs

Accepted == [proof: Proof, vkHash: VkHashes \union {NoVkHash}, throughDefault: BOOLEAN,
             approval: SUBSET Approval, void: BOOLEAN]

\* What presenting a proof does, through the vault or through the proxy's upgrade: it was
\* verified, attested when that is needed, recorded and applied, and nothing else changed but
\* nonces and the proxy's own record.
Accepts(call, attestation) ==
  /\ call \in Call
  /\ Verified(call.proof)
  /\ \E used \in SUBSET Nonces : attestation \in Attestations(call, used)
  /\ Record(call, attestation)
  /\ Apply(call.proof)
  /\ UNCHANGED <<now, settings, verifierVars, approvals, voided>>

-----------------------------------------------------------------------------
(* Types *)

LEMMA TimesAreNat == Times \subseteq Nat
  BY VaultBaseAssumption, OwnerCacheAssumption DEF Times

LEMMA NoOwnerIsNoWallet == NoOwner \notin Wallets
  BY OwnerCacheAssumption

LEMMA LaterAllowsMore ==
  ASSUME NEW a \in Nat, NEW b \in Nat, NEW slack \in Nat, a <= b, NEW x \in Nat, x <= a + slack
  PROVE  x <= b + slack
  OBVIOUS

LEMMA OwnerTypeInitially == OwnerStart => OwnerTypeOK
<1> SUFFICES ASSUME OwnerStart PROVE OwnerTypeOK
  OBVIOUS
<1>1. presented \in Seq(Accepted)
  BY DEF OwnerStart, OwnerInit
<1> QED
  BY <1>1 DEF OwnerStart, ClockInit, OwnerInit, CacheInit, SettingsInit, OwnerTypeOK, Accepted

LEMMA ApplyKeepsTypes ==
  ASSUME OwnerTypeOK, NEW p \in Proof, Apply(p)
  PROVE  /\ owner' \in [Verifiers -> Wallets \union {NoOwner}]
         /\ latestProofIat' \in [Verifiers -> Nat]
         /\ ownerRevision' \in [Verifiers -> Nat]
         /\ ownerVkHash' \in [Verifiers -> VkHashes \union {NoVkHash}]
         /\ ownerAlphaRevision' \in [Verifiers -> Nat]
         /\ untrackedProofIat' \in Nat
<1>1. p.iat \in Nat /\ p.verifier \in Verifiers /\ p.wallet \in Wallets
  BY TimesAreNat DEF Proof
<1>2. owner' \in [Verifiers -> Wallets \union {NoOwner}]
  BY <1>1 DEF OwnerTypeOK, Apply, Newer, Restores, InOrder, Timely, NextUntrackedIat
<1>3. latestProofIat' \in [Verifiers -> Nat] /\ untrackedProofIat' \in Nat
  BY <1>1 DEF OwnerTypeOK, Apply, Newer, Restores, InOrder, Timely, NextUntrackedIat
<1>4. ownerRevision' \in [Verifiers -> Nat]
  BY <1>1 DEF OwnerTypeOK, Apply, Newer, Restores, InOrder, Timely, NextUntrackedIat
<1>5. ownerVkHash' \in [Verifiers -> VkHashes \union {NoVkHash}]
  BY <1>1 DEF OwnerTypeOK, Apply, Newer, Restores, InOrder, Timely, NextUntrackedIat
<1>6. ownerAlphaRevision' \in [Verifiers -> Nat]
  <2>1. CASE p.iat > latestProofIat[p.verifier] \/ owner[p.verifier] = NoOwner
               \/ p.wallet = owner[p.verifier]
    <3>1. vkHash[p.verifier] \in VkHashes
      BY <1>1, <2>1 DEF OwnerTypeOK, Apply, Newer, Restores, InOrder, Timely, NextUntrackedIat
    <3>2. alphaRevision[vkHash[p.verifier]] \in Nat
      BY <3>1 DEF OwnerTypeOK
    <3> QED
      BY <1>1, <2>1, <3>2 DEF OwnerTypeOK, Apply, Newer, Restores, InOrder, Timely, NextUntrackedIat
  <2>2. CASE ~ (p.iat > latestProofIat[p.verifier] \/ owner[p.verifier] = NoOwner
                  \/ p.wallet = owner[p.verifier])
    BY <2>2 DEF OwnerTypeOK, Apply, Newer, Restores, InOrder, Timely, NextUntrackedIat
  <2> QED
    BY <2>1, <2>2
<1> QED
  BY <1>2, <1>3, <1>4, <1>5, <1>6

\* An attestation is made of approvals the attester signed.
LEMMA AttestationsAreApprovals ==
  ASSUME NEW call \in Call, NEW used, NEW attestation \in Attestations(call, used)
  PROVE  /\ attestation \subseteq approvals
         /\ IsAlpha(vkHash[call.proof.verifier]) => attestation # {}
  BY DEF Attestations

\* The vault's proof methods and the proxy's upgrade have this in common.
LEMMA PresentingIsAccepting ==
  ASSUME OwnerTypeOK, UNCHANGED now, OwnerPresent \/ OwnerUpgrade
  PROVE  \E call \in Call : \E attestation : Accepts(call, attestation)
<1>1. alphaNonceUsed \in SUBSET Nonces /\ alphaUpgradeNonceUsed \in SUBSET Nonces
  BY DEF OwnerTypeOK
<1>2. ASSUME NEW call \in Call, PresentProof(call),
             UNCHANGED <<settings, verifierVars, approvals, voided>>
      PROVE  \E attestation : Accepts(call, attestation)
  BY <1>1, <1>2 DEF PresentProof, Accepts
<1>3. ASSUME NEW call \in Call, PresentUpgradeProof(call),
             UNCHANGED <<settings, verifierVars, approvals, voided>>
      PROVE  \E attestation : Accepts(call, attestation)
  BY <1>1, <1>3 DEF PresentUpgradeProof, Accepts
<1> QED
  BY <1>2, <1>3 DEF OwnerPresent, OwnerUpgrade

LEMMA RecordKeepsType ==
  ASSUME OwnerTypeOK, NEW call \in Call, NEW attestation, Accepts(call, attestation)
  PROVE  presented' \in Seq(Accepted)
<1>1. attestation \subseteq approvals
  BY AttestationsAreApprovals DEF Accepts
<1>2. approvals \subseteq Approval
  BY DEF OwnerTypeOK
<1>3. call.proof \in Proof /\ call.proof.verifier \in Verifiers
  BY DEF Call, Proof
<1>4. vkHash[call.proof.verifier] \in VkHashes \union {NoVkHash}
  BY <1>3 DEF OwnerTypeOK
<1>5. presented \in Seq(Accepted)
  BY DEF OwnerTypeOK, Accepted
<1> DEFINE r == [proof |-> call.proof, vkHash |-> vkHash[call.proof.verifier],
                 throughDefault |-> call.proof.verifier = defaultVerifier,
                 approval |-> attestation, void |-> attestation \cap voided # {}]
<1>6. r \in Accepted
  BY <1>1, <1>2, <1>3, <1>4 DEF Accepted
<1>7. presented' = Append(presented, r)
  BY DEF Accepts, Record
<1> QED
  BY <1>5, <1>6, <1>7, AppendProperties

LEMMA NoncesOfApprovals ==
  ASSUME NEW S, S \subseteq Approval PROVE NoncesOf(S) \subseteq Nonces
  BY DEF NoncesOf, Approval

LEMMA PresentingKeepsTypes ==
  ASSUME OwnerTypeOK, UNCHANGED now, OwnerPresent \/ OwnerUpgrade
  PROVE  OwnerTypeOK'
<1>1. PICK call \in Call : \E attestation : Accepts(call, attestation)
  BY PresentingIsAccepting
<1>2. call.proof \in Proof
  BY DEF Call
<1>3. /\ owner' \in [Verifiers -> Wallets \union {NoOwner}]
      /\ latestProofIat' \in [Verifiers -> Nat]
      /\ ownerRevision' \in [Verifiers -> Nat]
      /\ ownerVkHash' \in [Verifiers -> VkHashes \union {NoVkHash}]
      /\ ownerAlphaRevision' \in [Verifiers -> Nat]
      /\ untrackedProofIat' \in Nat
  BY <1>1, <1>2, ApplyKeepsTypes DEF Accepts
<1>4. presented' \in Seq(Accepted)
  BY <1>1, RecordKeepsType
<1>5. /\ alphaNonceUsed' \subseteq Nonces
      /\ alphaUpgradeNonceUsed' \subseteq Nonces
      /\ lastUpgrade' \in [wallet: Wallets \union {NoOwner}, iat: Nat]
  <2>1. ASSUME NEW c \in Call, NEW used, NEW a \in Attestations(c, used)
        PROVE  NoncesOf(a) \subseteq Nonces
    BY AttestationsAreApprovals, NoncesOfApprovals DEF OwnerTypeOK
  <2>2. CASE OwnerPresent
    BY <2>1, <2>2 DEF OwnerPresent, PresentProof, proxyVars, OwnerTypeOK
  <2>3. CASE OwnerUpgrade
    <3>1. PICK c \in Call : PresentUpgradeProof(c)
      BY <2>3 DEF OwnerUpgrade
    <3>2. c.proof.wallet \in Wallets /\ c.proof.iat \in Nat
      BY TimesAreNat DEF Call, Proof
    <3> QED
      BY <2>1, <3>1, <3>2 DEF PresentUpgradeProof, OwnerTypeOK
  <2> QED
    BY <2>2, <2>3
<1> QED
  BY <1>1, <1>3, <1>4, <1>5 DEF Accepts, OwnerTypeOK, Accepted, settings, verifierVars

LEMMA WorldKeepsTypes ==
  ASSUME OwnerTypeOK, UNCHANGED now, World PROVE OwnerTypeOK'
<1> USE DEF OwnerTypeOK, cacheVars, proxyVars, settings, verifierVars
<1>1. ASSUME NEW call \in Call, NEW nonce \in Nonces, NEW deadline \in Deadlines,
             Approve(call, nonce, deadline)
      PROVE  OwnerTypeOK'
  BY <1>1 DEF Approve, Approval
<1>2. ASSUME NEW k \in VkHashes, NEW enabled \in BOOLEAN, SetAlpha(k, enabled)
      PROVE  OwnerTypeOK'
  BY <1>2 DEF SetAlpha
<1>3. ASSUME NEW a \in Attesters, SetDefaultAttester(a) PROVE OwnerTypeOK'
  BY <1>3 DEF SetDefaultAttester
<1>4. ASSUME NEW v \in Verifiers, ActivateDefaultVerifier(v) PROVE OwnerTypeOK'
  BY <1>4 DEF ActivateDefaultVerifier
<1>5. ASSUME NEW v \in Verifiers, NEW approved \in BOOLEAN, ApproveVerifier(v, approved)
      PROVE  OwnerTypeOK'
  BY <1>5 DEF ApproveVerifier
<1>6. ASSUME NEW approved \in SUBSET Verifiers, ActivatePolicy(approved) PROVE OwnerTypeOK'
  BY <1>6 DEF ActivatePolicy
<1>7. ASSUME NEW v \in Verifiers, NEW s \in Signers, RemoveSignerKey(v, s) PROVE OwnerTypeOK'
  BY <1>7 DEF RemoveSignerKey
<1>8. ASSUME NEW v \in Verifiers, NEW s \in Signers, ActivateSignerKey(v, s) PROVE OwnerTypeOK'
  BY <1>8 DEF ActivateSignerKey
<1>9. ASSUME NEW v \in Verifiers, NEW k \in VkHashes \union {NoVkHash}, ChangeVkHash(v, k)
      PROVE  OwnerTypeOK'
  BY <1>9 DEF ChangeVkHash
<1> QED
  BY <1>1, <1>2, <1>3, <1>4, <1>5, <1>6, <1>7, <1>8, <1>9 DEF World

LEMMA OwnerTypeKept == OwnerTypeOK /\ [OwnerNext]_<<now, ownerVars>> => OwnerTypeOK'
<1> SUFFICES ASSUME OwnerTypeOK, [OwnerNext]_<<now, ownerVars>> PROVE OwnerTypeOK'
  OBVIOUS
<1>1. CASE UNCHANGED now /\ (OwnerPresent \/ OwnerUpgrade)
  BY <1>1, PresentingKeepsTypes
<1>2. CASE UNCHANGED now /\ World
  BY <1>2, WorldKeepsTypes
<1>3. CASE OwnerTick \/ UNCHANGED <<now, ownerVars>>
  BY <1>3 DEF OwnerTick, ClockTick, ownerVars, cacheVars, proxyVars, settings, verifierVars,
              OwnerTypeOK
<1> QED
  BY <1>1, <1>2, <1>3 DEF OwnerNext

-----------------------------------------------------------------------------
(* The history *)

\* A proof accepted is added to the end of the history, which is kept.
LEMMA HistoryGrows ==
  ASSUME OwnerTypeOK, NEW call \in Call, NEW attestation, Accepts(call, attestation)
  PROVE  LET n == Len(presented)
         IN  /\ n \in Nat
             /\ Len(presented') = n + 1
             /\ \A i \in 1..n : presented'[i] = presented[i] /\ presented'[i] \in Accepted
             /\ presented'[n + 1].proof = call.proof
             /\ presented'[n + 1].vkHash = vkHash[call.proof.verifier]
             /\ presented'[n + 1].throughDefault = (call.proof.verifier = defaultVerifier)
             /\ presented'[n + 1].approval = attestation
             /\ presented'[n + 1].void = (attestation \cap voided # {})
<1> DEFINE r == [proof |-> call.proof, vkHash |-> vkHash[call.proof.verifier],
                 throughDefault |-> call.proof.verifier = defaultVerifier,
                 approval |-> attestation, void |-> attestation \cap voided # {}]
           n == Len(presented)
<1>1. presented' = Append(presented, r)
  BY DEF Accepts, Record
<1>2. presented \in Seq(Accepted)
  BY DEF OwnerTypeOK, Accepted
<1>3. presented' \in Seq(Accepted)
  BY RecordKeepsType
<1>4. /\ n \in Nat /\ Len(presented') = n + 1
      /\ \A i \in 1..n : presented'[i] = presented[i]
      /\ presented'[n + 1] = r
  <2> HIDE DEF r
  <2> QED
    BY <1>1, <1>2
<1>5. \A i \in 1..n : presented'[i] \in Accepted
  BY <1>3, <1>4
<1> QED
  BY <1>4, <1>5

-----------------------------------------------------------------------------
(* The cached wallet is that of the first proof of the newest time *)

LEMMA FirstOfNewestKept ==
  ASSUME OwnerTypeOK, OwnerIsFirstOfNewest, NEW call \in Call, NEW attestation,
         Accepts(call, attestation)
  PROVE  OwnerIsFirstOfNewest'
<1> DEFINE p == call.proof
           n == Len(presented)
<1>1. p \in Proof /\ p.iat \in Nat /\ p.verifier \in Verifiers /\ p.wallet \in Wallets
  BY TimesAreNat DEF Call, Proof
<1>2. /\ n \in Nat /\ Len(presented') = n + 1
      /\ \A i \in 1..n : presented'[i] = presented[i] /\ presented'[i].proof \in Proof
      /\ presented'[n + 1].proof = p
  BY HistoryGrows DEF Accepted
<1>3. /\ latestProofIat \in [Verifiers -> Nat]
      /\ owner \in [Verifiers -> Wallets \union {NoOwner}]
  BY DEF OwnerTypeOK
<1>4. SUFFICES ASSUME NEW v \in Verifiers
               PROVE  \/ owner'[v] = NoOwner /\ Through(v)' = {}
                      \/ \E i \in Vouchers(v)' :
                           \A j \in Through(v)' :
                             /\ presented'[j].proof.iat <= latestProofIat'[v]
                             /\ j < i => presented'[j].proof.iat < latestProofIat'[v]
  BY DEF OwnerIsFirstOfNewest
<1>5. Apply(p)
  BY DEF Accepts
<1>6. CASE v # p.verifier
  <2>1. owner'[v] = owner[v] /\ latestProofIat'[v] = latestProofIat[v]
    BY <1>1, <1>3, <1>5, <1>6 DEF Apply, Newer, Restores, InOrder, Timely, NextUntrackedIat
  <2>2. Through(v)' = Through(v)
    BY <1>2, <1>6 DEF Through
  <2>3. Vouchers(v)' = Vouchers(v)
    BY <1>2, <2>1, <2>2 DEF Vouchers, Through
  <2> QED
    BY <1>2, <2>1, <2>2, <2>3 DEF OwnerIsFirstOfNewest, Through
<1>7. CASE v = p.verifier
  <2>1. Through(v)' = Through(v) \union {n + 1}
    BY <1>2, <1>7 DEF Through
  <2>2. \A j \in Through(v) : presented'[j].proof.iat = presented[j].proof.iat
                              /\ presented[j].proof.iat \in Nat /\ j \in 1..n
    BY <1>2, TimesAreNat DEF Through, Proof
  <2>3. CASE p.iat > latestProofIat[v] \/ owner[v] = NoOwner
    <3>1. owner'[v] = p.wallet /\ latestProofIat'[v] = p.iat
      BY <1>1, <1>3, <1>5, <1>7, <2>3 DEF Apply, Newer, Restores, InOrder, Timely, NextUntrackedIat
    <3>2. n + 1 \in Vouchers(v)'
      BY <1>2, <2>1, <3>1 DEF Vouchers
    <3>3. \A j \in Through(v) : presented[j].proof.iat < p.iat
      <4>1. CASE owner[v] = NoOwner
        <5>1. Vouchers(v) = {}
          BY <1>2, <4>1, NoOwnerIsNoWallet DEF Vouchers, Through, Proof
        <5> QED
          BY <5>1 DEF OwnerIsFirstOfNewest
      <4>2. CASE owner[v] # NoOwner
        <5>1. \A j \in Through(v) : presented[j].proof.iat <= latestProofIat[v]
          BY <4>2 DEF OwnerIsFirstOfNewest
        <5>2. p.iat > latestProofIat[v] /\ latestProofIat[v] \in Nat
          BY <1>3, <2>3, <4>2
        <5> QED
          BY <1>1, <2>2, <5>1, <5>2
      <4> QED
        BY <4>1, <4>2
    <3>4. \A j \in Through(v)' : /\ presented'[j].proof.iat <= p.iat
                                 /\ j < n + 1 => presented'[j].proof.iat < p.iat
      BY <1>1, <1>2, <2>1, <2>2, <3>3
    <3> QED
      BY <3>1, <3>2, <3>4
  <2>4. CASE ~ (p.iat > latestProofIat[v] \/ owner[v] = NoOwner)
    <3>1. owner'[v] = owner[v] /\ latestProofIat'[v] = latestProofIat[v]
          /\ p.iat = latestProofIat[v]
      BY <1>1, <1>3, <1>5, <1>7, <2>4 DEF Apply, Newer, Restores, InOrder, Timely, NextUntrackedIat
    <3>2. PICK i \in Vouchers(v) :
            \A j \in Through(v) : /\ presented[j].proof.iat <= latestProofIat[v]
                                  /\ j < i => presented[j].proof.iat < latestProofIat[v]
      BY <2>4 DEF OwnerIsFirstOfNewest
    <3>3. i \in Vouchers(v)' /\ i \in 1..n
      BY <1>2, <2>1, <2>2, <3>1, <3>2 DEF Vouchers, Through
    <3>4. \A j \in Through(v)' : /\ presented'[j].proof.iat <= latestProofIat'[v]
                                 /\ j < i => presented'[j].proof.iat < latestProofIat'[v]
      BY <1>1, <1>2, <1>3, <2>1, <2>2, <3>1, <3>2, <3>3
    <3> QED
      BY <3>3, <3>4
  <2> QED
    BY <2>3, <2>4
<1> QED
  BY <1>6, <1>7

-----------------------------------------------------------------------------
(* The strengthened invariant *)

\* A cached wallet whose revision is current was named by a proof under a key still accepted.
\* Revisions only grow, so a wallet that fell behind stays behind until a proof restores it.
LiveOwners ==
  \A v \in Verifiers :
    /\ ownerRevision[v] <= revision[v]
    /\ owner[v] # NoOwner /\ ownerRevision[v] = revision[v] =>
         \E i \in Vouchers(v) : presented[i].proof.signer \in signerKeys[v]

\* A cached wallet whose alpha revision is current, of a key that is in alpha, was approved.
AttestedOwners ==
  \A v \in Verifiers :
    ownerVkHash[v] \in VkHashes =>
      /\ ownerAlphaRevision[v] <= alphaRevision[ownerVkHash[v]]
      /\ ownerAlphaRevision[v] = alphaRevision[ownerVkHash[v]]
           /\ ~ alphaReleased[ownerVkHash[v]] =>
           \E i \in Vouchers(v) :
             presented[i].vkHash = ownerVkHash[v] /\ presented[i].approval # {}

\* The untracked floor is no lower than any proof accepted through a default verifier.
UntrackedFloor ==
  \A i \in 1..Len(presented) :
    presented[i].throughDefault => presented[i].proof.iat <= untrackedProofIat

OwnerInv ==
  /\ OwnerTypeOK
  /\ OwnerIsFirstOfNewest
  /\ LiveOwners
  /\ AttestedOwners
  /\ UntrackedFloor
  /\ FloorsNearNow

\* What an accepted proof does to the verifier it went through and to the others.
LEMMA AcceptingCases ==
  ASSUME OwnerTypeOK, NEW call \in Call, NEW attestation, Accepts(call, attestation),
         NEW v \in Verifiers
  PROVE  LET p == call.proof
             n == Len(presented)
         IN  \/ /\ owner'[v] = owner[v]
                /\ latestProofIat'[v] = latestProofIat[v]
                /\ ownerRevision'[v] = ownerRevision[v]
                /\ ownerVkHash'[v] = ownerVkHash[v]
                /\ ownerAlphaRevision'[v] = ownerAlphaRevision[v]
                /\ Vouchers(v) \subseteq Vouchers(v)'
             \/ /\ v = p.verifier
                /\ n + 1 \in Vouchers(v)'
                /\ ownerRevision'[v] = revision[v]
                   \/ /\ ownerRevision'[v] = ownerRevision[v] /\ owner'[v] = owner[v]
                      /\ Vouchers(v) \subseteq Vouchers(v)'
                /\ vkHash[v] # NoVkHash
                /\ ownerVkHash'[v] = vkHash[v]
                /\ ownerAlphaRevision'[v] = alphaRevision[vkHash[v]]
<1> DEFINE p == call.proof
           n == Len(presented)
<1>1. p \in Proof /\ p.iat \in Nat /\ p.verifier \in Verifiers /\ p.wallet \in Wallets
  BY TimesAreNat DEF Call, Proof
<1>2. /\ n \in Nat /\ Len(presented') = n + 1
      /\ \A i \in 1..n : presented'[i] = presented[i]
      /\ presented'[n + 1].proof = p
  BY HistoryGrows
<1>3. /\ latestProofIat \in [Verifiers -> Nat]
      /\ owner \in [Verifiers -> Wallets \union {NoOwner}]
      /\ ownerRevision \in [Verifiers -> Nat]
      /\ ownerVkHash \in [Verifiers -> VkHashes \union {NoVkHash}]
      /\ ownerAlphaRevision \in [Verifiers -> Nat]
  BY DEF OwnerTypeOK
<1>4. Apply(p)
  BY DEF Accepts
<1>5. ASSUME owner'[v] = owner[v], latestProofIat'[v] = latestProofIat[v]
      PROVE  Vouchers(v) \subseteq Vouchers(v)'
  BY <1>2, <1>5 DEF Vouchers, Through
<1>6. CASE v # p.verifier
  <2>1. /\ owner'[v] = owner[v] /\ latestProofIat'[v] = latestProofIat[v]
        /\ ownerRevision'[v] = ownerRevision[v] /\ ownerVkHash'[v] = ownerVkHash[v]
        /\ ownerAlphaRevision'[v] = ownerAlphaRevision[v]
    BY <1>1, <1>3, <1>4, <1>6 DEF Apply, Newer, Restores, InOrder, Timely, NextUntrackedIat
  <2> QED
    BY <1>5, <2>1
<1>7. CASE v = p.verifier
  <2>0. n + 1 \in Through(v)'
    BY <1>2, <1>7 DEF Through
  <2>1. CASE p.iat > latestProofIat[v] \/ owner[v] = NoOwner
    <3>1. /\ owner'[v] = p.wallet /\ latestProofIat'[v] = p.iat
          /\ ownerRevision'[v] = revision[v] /\ vkHash[v] # NoVkHash
          /\ ownerVkHash'[v] = vkHash[v] /\ ownerAlphaRevision'[v] = alphaRevision[vkHash[v]]
      BY <1>1, <1>3, <1>4, <1>7, <2>1 DEF Apply, Newer, Restores, InOrder, Timely, NextUntrackedIat
    <3>2. n + 1 \in Vouchers(v)'
      BY <1>2, <2>0, <3>1 DEF Vouchers
    <3> QED
      BY <1>7, <3>1, <3>2
  <2>2. CASE ~ (p.iat > latestProofIat[v] \/ owner[v] = NoOwner) /\ p.wallet = owner[v]
    <3>1. /\ owner'[v] = p.wallet /\ latestProofIat'[v] = p.iat
          /\ owner'[v] = owner[v] /\ latestProofIat'[v] = latestProofIat[v]
          /\ vkHash[v] # NoVkHash
          /\ ownerVkHash'[v] = vkHash[v] /\ ownerAlphaRevision'[v] = alphaRevision[vkHash[v]]
      BY <1>1, <1>3, <1>4, <1>7, <2>2 DEF Apply, Newer, Restores, InOrder, Timely, NextUntrackedIat
    <3>2. ownerRevision'[v] = revision[v] \/ ownerRevision'[v] = ownerRevision[v]
      BY <1>1, <1>3, <1>4, <1>7, <2>2 DEF Apply, Newer, Restores, InOrder, Timely, NextUntrackedIat
    <3>3. n + 1 \in Vouchers(v)'
      BY <1>2, <2>0, <3>1 DEF Vouchers
    <3> QED
      BY <1>5, <1>7, <3>1, <3>2, <3>3
  <2>3. CASE ~ (p.iat > latestProofIat[v] \/ owner[v] = NoOwner) /\ p.wallet # owner[v]
    <3>1. /\ owner'[v] = owner[v] /\ latestProofIat'[v] = latestProofIat[v]
          /\ ownerRevision'[v] = ownerRevision[v] /\ ownerVkHash'[v] = ownerVkHash[v]
          /\ ownerAlphaRevision'[v] = ownerAlphaRevision[v]
      BY <1>1, <1>3, <1>4, <1>7, <2>3 DEF Apply, Newer, Restores, InOrder, Timely, NextUntrackedIat
    <3> QED
      BY <1>5, <3>1
  <2> QED
    BY <2>1, <2>2, <2>3
<1> QED
  BY <1>6, <1>7

LEMMA LiveKept ==
  ASSUME OwnerTypeOK, LiveOwners, NEW call \in Call, NEW attestation, Accepts(call, attestation)
  PROVE  LiveOwners'
<1> DEFINE p == call.proof
           n == Len(presented)
<1>1. SUFFICES ASSUME NEW v \in Verifiers
               PROVE  /\ ownerRevision'[v] <= revision'[v]
                      /\ owner'[v] # NoOwner /\ ownerRevision'[v] = revision'[v] =>
                           \E i \in Vouchers(v)' :
                             presented'[i].proof.signer \in signerKeys'[v]
  BY DEF LiveOwners
<1>2. revision' = revision /\ signerKeys' = signerKeys
  BY DEF Accepts, verifierVars
<1>3. revision[v] \in Nat /\ ownerRevision[v] \in Nat
  BY DEF OwnerTypeOK
<1>4. /\ \A i \in 1..n : presented'[i] = presented[i]
      /\ presented'[n + 1].proof = p
  BY HistoryGrows
<1>5. p.signer \in signerKeys[p.verifier]
  BY DEF Accepts, Verified
<1>6. \A i \in Vouchers(v) : i \in 1..n
  BY DEF Vouchers, Through
<1>7. CASE /\ ownerRevision'[v] = ownerRevision[v] /\ owner'[v] = owner[v]
           /\ Vouchers(v) \subseteq Vouchers(v)'
  BY <1>2, <1>4, <1>6, <1>7 DEF LiveOwners
<1>8. CASE /\ v = p.verifier /\ n + 1 \in Vouchers(v)' /\ ownerRevision'[v] = revision[v]
  BY <1>2, <1>3, <1>4, <1>5, <1>8
<1> QED
  BY <1>7, <1>8, AcceptingCases

LEMMA AttestedKept ==
  ASSUME OwnerTypeOK, AttestedOwners, NEW call \in Call, NEW attestation,
         Accepts(call, attestation)
  PROVE  AttestedOwners'
<1> DEFINE p == call.proof
           n == Len(presented)
<1>1. SUFFICES ASSUME NEW v \in Verifiers, ownerVkHash'[v] \in VkHashes
               PROVE  /\ ownerAlphaRevision'[v] <= alphaRevision'[ownerVkHash'[v]]
                      /\ ownerAlphaRevision'[v] = alphaRevision'[ownerVkHash'[v]]
                           /\ ~ alphaReleased'[ownerVkHash'[v]] =>
                           \E i \in Vouchers(v)' : /\ presented'[i].vkHash = ownerVkHash'[v]
                                                   /\ presented'[i].approval # {}
  BY DEF AttestedOwners
<1>2. alphaRevision' = alphaRevision /\ alphaReleased' = alphaReleased
  BY DEF Accepts, settings
<1>3. alphaRevision \in [VkHashes -> Nat]
  BY DEF OwnerTypeOK
<1>4. /\ \A i \in 1..n : presented'[i] = presented[i]
      /\ presented'[n + 1].vkHash = vkHash[p.verifier]
      /\ presented'[n + 1].approval = attestation
  BY HistoryGrows
<1>5. ~ alphaReleased[vkHash[p.verifier]] => attestation # {}
  BY AttestationsAreApprovals DEF Accepts, IsAlpha
<1>6. \A i \in Vouchers(v) : i \in 1..n
  BY DEF Vouchers, Through
<1>7. CASE /\ ownerVkHash'[v] = ownerVkHash[v]
           /\ ownerAlphaRevision'[v] = ownerAlphaRevision[v]
           /\ Vouchers(v) \subseteq Vouchers(v)'
  BY <1>1, <1>2, <1>4, <1>6, <1>7 DEF AttestedOwners
<1>8. CASE /\ v = p.verifier /\ n + 1 \in Vouchers(v)'
           /\ ownerVkHash'[v] = vkHash[v]
           /\ ownerAlphaRevision'[v] = alphaRevision[vkHash[v]]
  BY <1>1, <1>2, <1>3, <1>4, <1>5, <1>8
<1> QED
  BY <1>7, <1>8, AcceptingCases

LEMMA FloorsKept ==
  ASSUME OwnerTypeOK, UntrackedFloor, FloorsNearNow, NEW call \in Call, NEW attestation,
         Accepts(call, attestation)
  PROVE  /\ UntrackedFloor'
         /\ \A v \in Verifiers : latestProofIat'[v] <= now' + FUTURE_SLACK
         /\ untrackedProofIat' <= now' + FUTURE_SLACK
         /\ \A v \in Verifiers : latestProofIat'[v] >= latestProofIat[v]
         /\ untrackedProofIat' >= untrackedProofIat
<1> DEFINE p == call.proof
           n == Len(presented)
<1>1. p \in Proof /\ p.iat \in Nat /\ p.verifier \in Verifiers
  BY TimesAreNat DEF Call, Proof
<1>2. /\ latestProofIat \in [Verifiers -> Nat] /\ untrackedProofIat \in Nat
      /\ now \in Nat /\ FUTURE_SLACK \in Nat
  BY OwnerCacheAssumption DEF OwnerTypeOK
<1>3. Apply(p) /\ now' = now
  BY DEF Accepts
<1>4. /\ \A v \in Verifiers :
           latestProofIat'[v] # latestProofIat[v] =>
             latestProofIat'[v] = p.iat /\ latestProofIat[v] <= p.iat
      /\ p.iat <= now + FUTURE_SLACK
  BY <1>1, <1>2, <1>3 DEF Apply, Newer, Restores, InOrder, Timely, NextUntrackedIat
<1>5. /\ untrackedProofIat' # untrackedProofIat =>
           untrackedProofIat' = p.iat /\ untrackedProofIat < p.iat
      /\ p.verifier = defaultVerifier => p.iat <= untrackedProofIat'
  BY <1>1, <1>2, <1>3 DEF Apply, Newer, Restores, InOrder, Timely, NextUntrackedIat
<1>6. UntrackedFloor'
  <2>1. /\ n \in Nat /\ Len(presented') = n + 1
        /\ \A i \in 1..n : presented'[i] = presented[i] /\ presented'[i] \in Accepted
        /\ presented'[n + 1].proof = p
        /\ presented'[n + 1].throughDefault = (p.verifier = defaultVerifier)
    BY HistoryGrows
  <2>2. SUFFICES ASSUME NEW i \in 1..(n + 1), presented'[i].throughDefault
                 PROVE  presented'[i].proof.iat <= untrackedProofIat'
    BY <2>1 DEF UntrackedFloor
  <2>3. CASE i \in 1..n
    <3>1. presented[i].proof.iat \in Nat /\ presented[i].proof.iat <= untrackedProofIat
      BY <2>1, <2>2, <2>3, TimesAreNat DEF UntrackedFloor, Accepted, Proof
    <3> QED
      BY <1>1, <1>2, <1>5, <2>1, <2>3, <3>1
  <2>4. CASE i = n + 1
    BY <1>5, <2>1, <2>2, <2>4
  <2> QED
    BY <2>1, <2>3, <2>4
<1> QED
  BY <1>1, <1>2, <1>3, <1>4, <1>5, <1>6 DEF FloorsNearNow

-----------------------------------------------------------------------------
(* The other steps *)

\* Nothing but a proof changes the cache, the floors or the history.
LEMMA WorldLeavesCache == World => UNCHANGED <<cacheVars, proxyVars, presented>>
  BY DEF World, Approve, SetAlpha, SetDefaultAttester, ActivateDefaultVerifier,
         ApproveVerifier, ActivatePolicy, RemoveSignerKey, ActivateSignerKey, ChangeVkHash

\* A key that goes is told by the revision; otherwise keys are only added.
LEMMA RemovalsAreTold ==
  ASSUME OwnerTypeOK, World, NEW v \in Verifiers
  PROVE  \/ revision'[v] = revision[v] /\ signerKeys[v] \subseteq signerKeys'[v]
         \/ revision'[v] = revision[v] + 1
<1> DEFINE Kept == revision'[v] = revision[v] /\ signerKeys[v] \subseteq signerKeys'[v]
           Removed == revision'[v] = revision[v] + 1
<1>1. revision \in [Verifiers -> Nat] /\ signerKeys \in [Verifiers -> SUBSET Signers]
  BY DEF OwnerTypeOK
<1>2. ASSUME NEW u \in Verifiers, NEW s \in Signers, RemoveSignerKey(u, s) PROVE Kept \/ Removed
  BY <1>1, <1>2 DEF RemoveSignerKey
<1>3. ASSUME NEW u \in Verifiers, NEW s \in Signers, ActivateSignerKey(u, s) PROVE Kept \/ Removed
  BY <1>1, <1>3 DEF ActivateSignerKey
<1>4. \/ UNCHANGED <<revision, signerKeys>>
      \/ \E u \in Verifiers, s \in Signers : RemoveSignerKey(u, s) \/ ActivateSignerKey(u, s)
  BY DEF World, Approve, SetAlpha, SetDefaultAttester, ActivateDefaultVerifier,
         ApproveVerifier, ActivatePolicy, ChangeVkHash, verifierVars
<1> QED
  BY <1>2, <1>3, <1>4

\* A released key that is taken back into alpha has a new alpha revision.
LEMMA TakingBackIsTold ==
  ASSUME OwnerTypeOK, World, NEW k \in VkHashes
  PROVE  \/ alphaRevision'[k] = alphaRevision[k] /\ (~ alphaReleased'[k] => ~ alphaReleased[k])
         \/ alphaRevision'[k] = alphaRevision[k] + 1
<1>1. alphaRevision \in [VkHashes -> Nat] /\ alphaReleased \in [VkHashes -> BOOLEAN]
  BY DEF OwnerTypeOK
<1>2. \/ UNCHANGED <<alphaRevision, alphaReleased>>
      \/ \E c \in VkHashes, enabled \in BOOLEAN : SetAlpha(c, enabled)
  BY DEF World, Approve, SetDefaultAttester, ActivateDefaultVerifier, ApproveVerifier,
         ActivatePolicy, RemoveSignerKey, ActivateSignerKey, ChangeVkHash, settings
<1> QED
  BY <1>1, <1>2 DEF SetAlpha

LEMMA LiveInWorld == OwnerTypeOK /\ LiveOwners /\ World => LiveOwners'
<1> SUFFICES ASSUME OwnerTypeOK, LiveOwners, World, NEW v \in Verifiers
             PROVE  /\ ownerRevision'[v] <= revision'[v]
                    /\ owner'[v] # NoOwner /\ ownerRevision'[v] = revision'[v] =>
                         \E i \in Vouchers(v)' :
                           presented'[i].proof.signer \in signerKeys'[v]
  BY DEF LiveOwners
<1>1. /\ ownerRevision' = ownerRevision /\ owner' = owner /\ presented' = presented
      /\ Vouchers(v)' = Vouchers(v)
  BY WorldLeavesCache DEF cacheVars, Vouchers, Through
<1>2. /\ revision[v] \in Nat /\ ownerRevision[v] \in Nat
      /\ ownerRevision[v] <= revision[v]
  BY DEF OwnerTypeOK, LiveOwners
<1>3. CASE revision'[v] = revision[v] /\ signerKeys[v] \subseteq signerKeys'[v]
  BY <1>1, <1>3 DEF LiveOwners
<1>4. CASE revision'[v] = revision[v] + 1
  BY <1>1, <1>2, <1>4
<1> QED
  BY <1>3, <1>4, RemovalsAreTold

LEMMA AttestedInWorld == OwnerTypeOK /\ AttestedOwners /\ World => AttestedOwners'
<1> SUFFICES ASSUME OwnerTypeOK, AttestedOwners, World,
                    NEW v \in Verifiers, ownerVkHash'[v] \in VkHashes
             PROVE  /\ ownerAlphaRevision'[v] <= alphaRevision'[ownerVkHash'[v]]
                    /\ ownerAlphaRevision'[v] = alphaRevision'[ownerVkHash'[v]]
                         /\ ~ alphaReleased'[ownerVkHash'[v]] =>
                         \E i \in Vouchers(v)' : /\ presented'[i].vkHash = ownerVkHash'[v]
                                                 /\ presented'[i].approval # {}
  BY DEF AttestedOwners
<1> DEFINE k == ownerVkHash[v]
<1>1. /\ ownerVkHash' = ownerVkHash /\ ownerAlphaRevision' = ownerAlphaRevision
      /\ presented' = presented /\ Vouchers(v)' = Vouchers(v)
  BY WorldLeavesCache DEF cacheVars, Vouchers, Through
<1>2. /\ k \in VkHashes /\ ownerAlphaRevision[v] \in Nat /\ alphaRevision[k] \in Nat
      /\ ownerAlphaRevision[v] <= alphaRevision[k]
  BY <1>1 DEF OwnerTypeOK, AttestedOwners
<1>3. CASE alphaRevision'[k] = alphaRevision[k] /\ (~ alphaReleased'[k] => ~ alphaReleased[k])
  BY <1>1, <1>2, <1>3 DEF AttestedOwners
<1>4. CASE alphaRevision'[k] = alphaRevision[k] + 1
  BY <1>1, <1>2, <1>4
<1> QED
  BY <1>2, <1>3, <1>4, TakingBackIsTold

LEMMA OwnerInvInitially == OwnerStart => OwnerInv
<1> SUFFICES ASSUME OwnerStart PROVE OwnerInv
  OBVIOUS
<1>1. /\ presented = <<>> /\ owner = [v \in Verifiers |-> NoOwner]
      /\ latestProofIat = [v \in Verifiers |-> 0] /\ untrackedProofIat = 0
      /\ ownerRevision = [v \in Verifiers |-> 0] /\ revision = [v \in Verifiers |-> 0]
      /\ ownerVkHash = [v \in Verifiers |-> NoVkHash]
      /\ lastUpgrade.iat = 0 /\ now = 0
  BY DEF OwnerStart, ClockInit, OwnerInit, CacheInit, SettingsInit
<1>2. \A v \in Verifiers : Through(v) = {}
  BY <1>1 DEF Through
<1>3. OwnerIsFirstOfNewest
  BY <1>1, <1>2 DEF OwnerIsFirstOfNewest
<1>4. LiveOwners
  BY <1>1 DEF LiveOwners
<1>5. AttestedOwners
  BY <1>1, OwnerCacheAssumption DEF AttestedOwners
<1>6. UntrackedFloor
  BY <1>1 DEF UntrackedFloor
<1>7. FloorsNearNow
  BY <1>1, OwnerCacheAssumption DEF FloorsNearNow
<1> QED
  BY <1>3, <1>4, <1>5, <1>6, <1>7, OwnerTypeInitially DEF OwnerInv

\* A proof presented keeps every part of the invariant and lowers no floor.
LEMMA PresentingKeepsInv ==
  ASSUME OwnerInv, UNCHANGED now, OwnerPresent \/ OwnerUpgrade
  PROVE  /\ OwnerIsFirstOfNewest' /\ LiveOwners' /\ AttestedOwners' /\ UntrackedFloor'
         /\ FloorsNearNow'
         /\ \A v \in Verifiers : latestProofIat'[v] >= latestProofIat[v]
         /\ untrackedProofIat' >= untrackedProofIat
<1>1. PICK call \in Call : \E attestation : Accepts(call, attestation)
  BY PresentingIsAccepting DEF OwnerInv
<1>2. PICK attestation : Accepts(call, attestation)
  BY <1>1
<1>3. OwnerIsFirstOfNewest'
  BY <1>2, FirstOfNewestKept DEF OwnerInv
<1>4. LiveOwners'
  BY <1>2, LiveKept DEF OwnerInv
<1>5. AttestedOwners'
  BY <1>2, AttestedKept DEF OwnerInv
<1>6. lastUpgrade'.iat <= now' + FUTURE_SLACK
  <2>1. CASE OwnerPresent
    BY <2>1 DEF OwnerPresent, PresentProof, proxyVars, OwnerInv, FloorsNearNow
  <2>2. CASE OwnerUpgrade
    <3>1. PICK c \in Call : lastUpgrade' = [wallet |-> c.proof.wallet, iat |-> c.proof.iat]
                           /\ c.proof.iat <= now + FUTURE_SLACK
      BY <2>2 DEF OwnerUpgrade, PresentUpgradeProof, Apply, Newer, Restores, InOrder, Timely, NextUntrackedIat
    <3> QED
      BY <3>1
  <2> QED
    BY <2>1, <2>2
<1> QED
  BY <1>2, <1>3, <1>4, <1>5, <1>6, FloorsKept DEF OwnerInv, FloorsNearNow

LEMMA WorldKeepsInv ==
  ASSUME OwnerInv, UNCHANGED now, World
  PROVE  OwnerIsFirstOfNewest' /\ LiveOwners' /\ AttestedOwners' /\ UntrackedFloor'
         /\ FloorsNearNow'
<1>1. UNCHANGED <<owner, latestProofIat, untrackedProofIat, lastUpgrade, presented>>
  BY WorldLeavesCache DEF cacheVars, proxyVars
<1>2. OwnerIsFirstOfNewest'
  BY <1>1 DEF OwnerInv, OwnerIsFirstOfNewest, Vouchers, Through
<1>3. UntrackedFloor' /\ FloorsNearNow'
  BY <1>1 DEF OwnerInv, UntrackedFloor, FloorsNearNow
<1> QED
  BY <1>2, <1>3, LiveInWorld, AttestedInWorld DEF OwnerInv

LEMMA IdleKeepsInv ==
  ASSUME OwnerInv, OwnerTick \/ UNCHANGED <<now, ownerVars>>
  PROVE  OwnerIsFirstOfNewest' /\ LiveOwners' /\ AttestedOwners' /\ UntrackedFloor'
         /\ FloorsNearNow'
<1>1. UNCHANGED ownerVars /\ now \in Nat /\ now' \in Nat /\ now <= now'
  BY DEF OwnerTick, ClockTick, OwnerInv, OwnerTypeOK
<1>2. UNCHANGED <<owner, latestProofIat, untrackedProofIat, lastUpgrade, presented,
                  ownerRevision, ownerVkHash, ownerAlphaRevision, revision, signerKeys,
                  alphaRevision, alphaReleased>>
  BY <1>1 DEF ownerVars, cacheVars, proxyVars, settings, verifierVars
<1>3. OwnerIsFirstOfNewest' /\ LiveOwners' /\ AttestedOwners' /\ UntrackedFloor'
  BY <1>2 DEF OwnerInv, OwnerIsFirstOfNewest, LiveOwners, AttestedOwners, UntrackedFloor,
              Vouchers, Through
<1>4. FloorsNearNow'
  <2>1. /\ FUTURE_SLACK \in Nat /\ latestProofIat \in [Verifiers -> Nat]
        /\ untrackedProofIat \in Nat /\ lastUpgrade.iat \in Nat
    BY OwnerCacheAssumption DEF OwnerInv, OwnerTypeOK
  <2>2. now \in Nat /\ now' \in Nat /\ now <= now' /\ FUTURE_SLACK \in Nat
    BY <1>1, <2>1
  <2>3. \A x \in Nat : x <= now + FUTURE_SLACK => x <= now' + FUTURE_SLACK
    BY <2>2, LaterAllowsMore
  <2>4. \A v \in Verifiers : latestProofIat'[v] <= now' + FUTURE_SLACK
    BY <1>2, <2>1, <2>3 DEF OwnerInv, FloorsNearNow
  <2> QED
    BY <1>2, <2>1, <2>3, <2>4 DEF OwnerInv, FloorsNearNow
<1> QED
  BY <1>3, <1>4

LEMMA OwnerInvKept ==
  OwnerInv /\ [OwnerNext]_<<now, ownerVars>> =>
    /\ OwnerInv'
    /\ \A v \in Verifiers : latestProofIat'[v] >= latestProofIat[v]
    /\ untrackedProofIat' >= untrackedProofIat
<1> SUFFICES ASSUME OwnerInv, [OwnerNext]_<<now, ownerVars>>
             PROVE  /\ OwnerInv'
                    /\ \A v \in Verifiers : latestProofIat'[v] >= latestProofIat[v]
                    /\ untrackedProofIat' >= untrackedProofIat
  OBVIOUS
<1>1. OwnerTypeOK'
  BY OwnerTypeKept DEF OwnerInv
<1>2. ASSUME UNCHANGED <<latestProofIat, untrackedProofIat>>
      PROVE  /\ \A v \in Verifiers : latestProofIat'[v] >= latestProofIat[v]
             /\ untrackedProofIat' >= untrackedProofIat
  BY <1>2 DEF OwnerInv, OwnerTypeOK
<1>3. CASE UNCHANGED now /\ (OwnerPresent \/ OwnerUpgrade)
  BY <1>1, <1>3, PresentingKeepsInv DEF OwnerInv
<1>4. CASE UNCHANGED now /\ World
  <2>1. UNCHANGED <<latestProofIat, untrackedProofIat>>
    BY <1>4, WorldLeavesCache DEF cacheVars
  <2> QED
    BY <1>1, <1>2, <1>4, <2>1, WorldKeepsInv DEF OwnerInv
<1>5. CASE OwnerTick \/ UNCHANGED <<now, ownerVars>>
  <2>1. UNCHANGED <<latestProofIat, untrackedProofIat>>
    BY <1>5 DEF OwnerTick, ownerVars, cacheVars
  <2> QED
    BY <1>1, <1>2, <1>5, <2>1, IdleKeepsInv DEF OwnerInv
<1> QED
  BY <1>3, <1>4, <1>5 DEF OwnerNext

-----------------------------------------------------------------------------
(* Approvals *)

\* The nonces that the method `entry` takes no more: the proxy keeps its own.
SpentNonces(entry) == IF entry = "upgradeTo" THEN alphaUpgradeNonceUsed ELSE alphaNonceUsed

\* What makes an approval good for one call: the nonce of one that was used is spent where its
\* method looks, and one signed before the last toggle or rotation has an older epoch.
ApprovalsSpent ==
  /\ \A a \in voided : a.epoch < alphaEpoch
  /\ \A a \in approvals : a.epoch <= alphaEpoch
  /\ \A i \in 1..Len(presented) : \A a \in presented[i].approval :
       a.nonce \in SpentNonces(a.call.entry)

ApprovalsInv == ApprovalsSpent /\ ApprovalsUsedOnceWhileValid

\* An accepted call spends the nonces of its attestation where its method looks for them.
Spends(call, attestation) ==
  /\ Accepts(call, attestation)
  /\ attestation \in Attestations(call, SpentNonces(call.entry))
  /\ SpentNonces(call.entry)' = SpentNonces(call.entry) \union NoncesOf(attestation)
  /\ \A entry : (entry = "upgradeTo") # (call.entry = "upgradeTo") =>
       SpentNonces(entry)' = SpentNonces(entry)

LEMMA PresentingSpends ==
  ASSUME OwnerTypeOK, UNCHANGED now, OwnerPresent \/ OwnerUpgrade
  PROVE  \E call \in Call : \E attestation : Spends(call, attestation)
<1>1. alphaNonceUsed \in SUBSET Nonces /\ alphaUpgradeNonceUsed \in SUBSET Nonces
  BY DEF OwnerTypeOK
<1>2. ASSUME NEW call \in Call, PresentProof(call),
             UNCHANGED <<settings, verifierVars, approvals, voided>>
      PROVE  \E attestation : Spends(call, attestation)
  <2>1. PICK attestation \in Attestations(call, alphaNonceUsed) :
          /\ alphaNonceUsed' = alphaNonceUsed \union NoncesOf(attestation)
          /\ Record(call, attestation)
    BY <1>2 DEF PresentProof
  <2>2. call.entry # "upgradeTo" /\ alphaUpgradeNonceUsed' = alphaUpgradeNonceUsed
    BY <1>2 DEF PresentProof, proxyVars
  <2>3. Accepts(call, attestation)
    BY <1>1, <1>2, <2>1 DEF PresentProof, Accepts
  <2> QED
    BY <2>1, <2>2, <2>3 DEF Spends, SpentNonces
<1>3. ASSUME NEW call \in Call, PresentUpgradeProof(call),
             UNCHANGED <<settings, verifierVars, approvals, voided>>
      PROVE  \E attestation : Spends(call, attestation)
  <2>1. PICK attestation \in Attestations(call, alphaUpgradeNonceUsed) :
          /\ alphaUpgradeNonceUsed' = alphaUpgradeNonceUsed \union NoncesOf(attestation)
          /\ Record(call, attestation)
    BY <1>3 DEF PresentUpgradeProof
  <2>2. call.entry = "upgradeTo" /\ alphaNonceUsed' = alphaNonceUsed
    BY <1>3 DEF PresentUpgradeProof
  <2>3. Accepts(call, attestation)
    BY <1>1, <1>3, <2>1 DEF PresentUpgradeProof, Accepts
  <2> QED
    BY <2>1, <2>2, <2>3 DEF Spends, SpentNonces
<1> QED
  BY <1>2, <1>3 DEF OwnerPresent, OwnerUpgrade

\* What an attestation is made of, besides approvals.
LEMMA AttestationsAreCurrent ==
  ASSUME NEW call \in Call, NEW used, NEW attestation \in Attestations(call, used),
         NEW a \in attestation
  PROVE  a \in approvals /\ a.call = call /\ a.nonce \notin used /\ a.epoch = alphaEpoch
  BY DEF Attestations

LEMMA PresentingKeepsApprovals ==
  ASSUME OwnerTypeOK, ApprovalsInv, UNCHANGED now, OwnerPresent \/ OwnerUpgrade
  PROVE  ApprovalsInv'
<1> DEFINE n == Len(presented)
           upgrades(a) == a.call.entry = "upgradeTo"
<1>1. PICK call \in Call : \E attestation : Spends(call, attestation)
  BY PresentingSpends
<1>2. PICK attestation : Spends(call, attestation)
  BY <1>1
<1>3. /\ n \in Nat /\ Len(presented') = n + 1
      /\ \A i \in 1..n : presented'[i] = presented[i]
      /\ presented'[n + 1].approval = attestation
      /\ presented'[n + 1].void = (attestation \cap voided # {})
  BY <1>2, HistoryGrows DEF Spends
<1>4. \A a \in attestation : /\ a.call = call /\ a.nonce \notin SpentNonces(call.entry)
                             /\ a.epoch = alphaEpoch
  BY <1>2, AttestationsAreCurrent DEF Spends
<1>5. UNCHANGED <<approvals, voided, alphaEpoch>> /\ alphaEpoch \in Nat
  BY <1>2 DEF Spends, Accepts, settings, OwnerTypeOK
<1>6. \A a \in attestation : a \notin voided
  BY <1>4, <1>5 DEF ApprovalsInv, ApprovalsSpent
<1>7. ~ presented'[n + 1].void
  BY <1>3, <1>6
<1>8. \A entry : SpentNonces(entry) \subseteq SpentNonces(entry)'
  BY <1>2 DEF Spends, SpentNonces
<1>9. \A a \in attestation : a.nonce \in SpentNonces(a.call.entry)'
  BY <1>2, <1>4 DEF Spends, NoncesOf
<1>10. \A i \in 1..n : \A b \in presented[i].approval : b.nonce \in SpentNonces(b.call.entry)
  BY DEF ApprovalsInv, ApprovalsSpent
<1>11. ApprovalsSpent'
  <2>1. \A i \in 1..(n + 1) : \A a \in presented'[i].approval :
          a.nonce \in SpentNonces(a.call.entry)'
    <3> SUFFICES ASSUME NEW i \in 1..(n + 1), NEW a \in presented'[i].approval
                 PROVE  a.nonce \in SpentNonces(a.call.entry)'
      OBVIOUS
    <3>1. CASE i = n + 1
      BY <1>3, <1>9, <3>1
    <3>2. CASE i # n + 1
      <4>1. i \in 1..n
        BY <1>3, <3>2
      <4> QED
        BY <1>3, <1>8, <1>10, <4>1
    <3> QED
      BY <3>1, <3>2
  <2> QED
    BY <1>3, <1>5, <2>1 DEF ApprovalsInv, ApprovalsSpent
<1>12. ASSUME NEW j \in 1..n, NEW a \in attestation, NEW b \in presented[j].approval
       PROVE  a # b /\ (a.nonce = b.nonce => upgrades(a) # upgrades(b))
  <2>1. upgrades(a) # upgrades(b) \/ SpentNonces(a.call.entry) = SpentNonces(b.call.entry)
    BY DEF SpentNonces
  <2>2. a.nonce \notin SpentNonces(a.call.entry) /\ b.nonce \in SpentNonces(b.call.entry)
    BY <1>4, <1>10
  <2> QED
    BY <2>1, <2>2
<1>13. ApprovalsUsedOnceWhileValid'
  <2> SUFFICES ASSUME NEW i \in 1..(n + 1)
               PROVE  /\ ~ presented'[i].void
                      /\ \A j \in 1..(n + 1) :
                           \A a \in presented'[i].approval, b \in presented'[j].approval :
                             i # j => a # b /\ (a.nonce = b.nonce => upgrades(a) # upgrades(b))
    BY <1>3 DEF ApprovalsUsedOnceWhileValid
  <2>1. ~ presented'[i].void
    <3>1. CASE i = n + 1
      BY <1>7, <3>1
    <3>2. CASE i # n + 1
      <4>1. i \in 1..n
        BY <1>3, <3>2
      <4> QED
        BY <1>3, <4>1 DEF ApprovalsInv, ApprovalsUsedOnceWhileValid
    <3> QED
      BY <3>1, <3>2
  <2>2. ASSUME NEW j \in 1..(n + 1), NEW a \in presented'[i].approval,
               NEW b \in presented'[j].approval, i # j
        PROVE  a # b /\ (a.nonce = b.nonce => upgrades(a) # upgrades(b))
    <3>1. CASE i = n + 1
      <4>1. j \in 1..n
        BY <1>3, <2>2, <3>1
      <4> QED
        BY <1>3, <1>12, <3>1, <4>1
    <3>2. CASE j = n + 1
      <4>1. i \in 1..n
        BY <1>3, <2>2, <3>2
      <4>2. b # a /\ (b.nonce = a.nonce => upgrades(b) # upgrades(a))
        BY <1>3, <1>12, <3>2, <4>1
      <4> QED
        BY <4>2
    <3>3. CASE i # n + 1 /\ j # n + 1
      <4>1. i \in 1..n /\ j \in 1..n
        BY <1>3, <3>3
      <4>2. a \in presented[i].approval /\ b \in presented[j].approval
        BY <1>3, <4>1
      <4> QED
        BY <2>2, <4>1, <4>2 DEF ApprovalsInv, ApprovalsUsedOnceWhileValid
    <3> QED
      BY <3>1, <3>2, <3>3
  <2> QED
    BY <2>1, <2>2
<1> QED
  BY <1>11, <1>13 DEF ApprovalsInv

\* Toggles and rotations outdate every approval signed so far.
LEMMA WorldKeepsApprovals ==
  ASSUME OwnerTypeOK, ApprovalsInv, World
  PROVE  ApprovalsInv'
<1>1. UNCHANGED <<alphaNonceUsed, alphaUpgradeNonceUsed, presented>>
  BY WorldLeavesCache DEF cacheVars, proxyVars
<1>2. alphaEpoch \in Nat /\ \A a \in approvals : a.epoch \in Nat /\ a.epoch <= alphaEpoch
  BY DEF OwnerTypeOK, Approval, ApprovalsInv, ApprovalsSpent
<1>3. ASSUME approvals' = approvals, voided' = approvals, alphaEpoch' = alphaEpoch + 1
      PROVE  /\ \A a \in voided' : a.epoch < alphaEpoch'
             /\ \A a \in approvals' : a.epoch <= alphaEpoch'
  BY <1>2, <1>3
<1>4. ASSUME UNCHANGED <<voided, alphaEpoch>>, \A a \in approvals' \ approvals : a.epoch = alphaEpoch
      PROVE  /\ \A a \in voided' : a.epoch < alphaEpoch'
             /\ \A a \in approvals' : a.epoch <= alphaEpoch'
  BY <1>2, <1>4 DEF ApprovalsInv, ApprovalsSpent
<1>5. ASSUME NEW call \in Call, NEW nonce \in Nonces, NEW deadline \in Deadlines,
             Approve(call, nonce, deadline)
      PROVE  UNCHANGED <<voided, alphaEpoch>> /\ \A a \in approvals' \ approvals : a.epoch = alphaEpoch
  BY <1>5 DEF Approve, settings
<1>6. \/ approvals' = approvals /\ voided' = approvals /\ alphaEpoch' = alphaEpoch + 1
      \/ UNCHANGED <<voided, alphaEpoch, approvals>>
      \/ \E call \in Call, nonce \in Nonces, deadline \in Deadlines : Approve(call, nonce, deadline)
  BY DEF World, SetAlpha, SetDefaultAttester, ActivateDefaultVerifier, ApproveVerifier,
         ActivatePolicy, RemoveSignerKey, ActivateSignerKey, ChangeVkHash, settings
<1>7. /\ \A a \in voided' : a.epoch < alphaEpoch'
      /\ \A a \in approvals' : a.epoch <= alphaEpoch'
  BY <1>3, <1>4, <1>5, <1>6
<1> QED
  BY <1>1, <1>7 DEF ApprovalsInv, ApprovalsSpent, SpentNonces, ApprovalsUsedOnceWhileValid

-----------------------------------------------------------------------------
(* Titles *)

\* One proof stands behind a cached wallet in every respect at once: _apply stamps revision,
\* key and alpha revision from the same proof.  LiveOwners and AttestedOwners alone would let
\* one proof vouch for the signer key and another for the attestation.
TitledOwners ==
  \A v \in Verifiers :
    owner[v] # NoOwner =>
      \E i \in Vouchers(v) :
        /\ presented[i].vkHash = ownerVkHash[v]
        /\ ownerRevision[v] = revision[v] => presented[i].proof.signer \in signerKeys[v]
        /\ ownerVkHash[v] \in VkHashes
             /\ ownerAlphaRevision[v] = alphaRevision[ownerVkHash[v]]
             /\ ~ alphaReleased[ownerVkHash[v]] => presented[i].approval # {}

LEMMA TitledKept ==
  ASSUME OwnerTypeOK, TitledOwners, NEW call \in Call, NEW attestation, Accepts(call, attestation)
  PROVE  TitledOwners'
<1> DEFINE p == call.proof
           n == Len(presented)
<1> SUFFICES ASSUME NEW v \in Verifiers, owner'[v] # NoOwner
             PROVE  \E i \in Vouchers(v)' :
                      /\ presented'[i].vkHash = ownerVkHash'[v]
                      /\ ownerRevision'[v] = revision'[v] =>
                           presented'[i].proof.signer \in signerKeys'[v]
                      /\ ownerVkHash'[v] \in VkHashes
                           /\ ownerAlphaRevision'[v] = alphaRevision'[ownerVkHash'[v]]
                           /\ ~ alphaReleased'[ownerVkHash'[v]] => presented'[i].approval # {}
  BY DEF TitledOwners
<1>1. UNCHANGED <<revision, signerKeys, alphaRevision, alphaReleased>>
  BY DEF Accepts, verifierVars, settings
<1>2. /\ \A i \in 1..n : presented'[i] = presented[i]
      /\ presented'[n + 1].proof = p
      /\ presented'[n + 1].vkHash = vkHash[p.verifier]
      /\ presented'[n + 1].approval = attestation
  BY HistoryGrows
<1>3. /\ p.signer \in signerKeys[p.verifier]
      /\ ~ alphaReleased[vkHash[p.verifier]] => attestation # {}
  BY AttestationsAreApprovals DEF Accepts, Verified, IsAlpha
<1>4. \A i \in Vouchers(v) : i \in 1..n
  BY DEF Vouchers, Through
<1>5. CASE /\ owner'[v] = owner[v]
           /\ ownerRevision'[v] = ownerRevision[v]
           /\ ownerVkHash'[v] = ownerVkHash[v]
           /\ ownerAlphaRevision'[v] = ownerAlphaRevision[v]
           /\ Vouchers(v) \subseteq Vouchers(v)'
  <2>1. PICK i \in Vouchers(v) :
          /\ presented[i].vkHash = ownerVkHash[v]
          /\ ownerRevision[v] = revision[v] => presented[i].proof.signer \in signerKeys[v]
          /\ ownerVkHash[v] \in VkHashes
               /\ ownerAlphaRevision[v] = alphaRevision[ownerVkHash[v]]
               /\ ~ alphaReleased[ownerVkHash[v]] => presented[i].approval # {}
    BY <1>5 DEF TitledOwners
  <2> QED
    BY <1>1, <1>2, <1>4, <1>5, <2>1
<1>6. CASE /\ v = p.verifier /\ n + 1 \in Vouchers(v)'
           /\ ownerVkHash'[v] = vkHash[v]
           /\ ownerAlphaRevision'[v] = alphaRevision[vkHash[v]]
  BY <1>1, <1>2, <1>3, <1>6
<1> QED
  BY <1>5, <1>6, AcceptingCases

LEMMA TitledInWorld ==
  ASSUME OwnerTypeOK, LiveOwners, AttestedOwners, TitledOwners, World
  PROVE  TitledOwners'
<1> SUFFICES ASSUME NEW v \in Verifiers, owner'[v] # NoOwner
             PROVE  \E i \in Vouchers(v)' :
                      /\ presented'[i].vkHash = ownerVkHash'[v]
                      /\ ownerRevision'[v] = revision'[v] =>
                           presented'[i].proof.signer \in signerKeys'[v]
                      /\ ownerVkHash'[v] \in VkHashes
                           /\ ownerAlphaRevision'[v] = alphaRevision'[ownerVkHash'[v]]
                           /\ ~ alphaReleased'[ownerVkHash'[v]] => presented'[i].approval # {}
  BY DEF TitledOwners
<1>1. UNCHANGED <<owner, presented, ownerRevision, ownerVkHash, ownerAlphaRevision>>
      /\ Vouchers(v)' = Vouchers(v)
  BY WorldLeavesCache DEF cacheVars, Vouchers, Through
<1>2. PICK i \in Vouchers(v) :
        /\ presented[i].vkHash = ownerVkHash[v]
        /\ ownerRevision[v] = revision[v] => presented[i].proof.signer \in signerKeys[v]
        /\ ownerVkHash[v] \in VkHashes
             /\ ownerAlphaRevision[v] = alphaRevision[ownerVkHash[v]]
             /\ ~ alphaReleased[ownerVkHash[v]] => presented[i].approval # {}
  BY <1>1 DEF TitledOwners
<1>3. ownerRevision[v] = revision'[v] => presented[i].proof.signer \in signerKeys'[v]
  <2>1. ownerRevision[v] \in Nat /\ revision[v] \in Nat /\ ownerRevision[v] <= revision[v]
    BY DEF OwnerTypeOK, LiveOwners
  <2>2. \/ revision'[v] = revision[v] /\ signerKeys[v] \subseteq signerKeys'[v]
        \/ revision'[v] = revision[v] + 1
    BY RemovalsAreTold
  <2> QED
    BY <1>2, <2>1, <2>2
<1>4. ASSUME ownerVkHash[v] \in VkHashes, ~ alphaReleased'[ownerVkHash[v]],
             ownerAlphaRevision[v] = alphaRevision'[ownerVkHash[v]]
      PROVE  presented[i].approval # {}
  <2> DEFINE k == ownerVkHash[v]
  <2>1. /\ ownerAlphaRevision[v] \in Nat /\ alphaRevision[k] \in Nat
        /\ ownerAlphaRevision[v] <= alphaRevision[k]
    BY <1>4 DEF OwnerTypeOK, AttestedOwners
  <2>2. \/ alphaRevision'[k] = alphaRevision[k] /\ (~ alphaReleased'[k] => ~ alphaReleased[k])
        \/ alphaRevision'[k] = alphaRevision[k] + 1
    BY <1>4, TakingBackIsTold
  <2>3. ownerAlphaRevision[v] = alphaRevision'[k] /\ ~ alphaReleased'[k] /\ k \in VkHashes
    BY <1>4
  <2> HIDE DEF k
  <2>4. ownerAlphaRevision[v] = alphaRevision[k] /\ ~ alphaReleased[k]
    BY <2>1, <2>2, <2>3
  <2> QED
    BY <1>2, <2>3, <2>4 DEF k
<1> QED
  BY <1>1, <1>2, <1>3, <1>4

-----------------------------------------------------------------------------
(* What is proved of the owner cache *)

THEOREM OwnerInvariant == OwnerSpec => []OwnerInv
  BY OwnerInvInitially, OwnerInvKept, PTL DEF OwnerSpec

\* The variables of OwnerCache keep their types.
THEOREM OwnerTypeCorrect == OwnerSpec => []OwnerTypeOK
<1>1. OwnerInv => OwnerTypeOK
  BY DEF OwnerInv
<1> QED
  BY <1>1, OwnerInvariant, PTL

\* _apply never lets an older, replayed or equally old proof displace the cached wallet.
THEOREM OwnerFirstOfNewest == OwnerSpec => []OwnerIsFirstOfNewest
<1>1. OwnerInv => OwnerIsFirstOfNewest
  BY DEF OwnerInv
<1> QED
  BY <1>1, OwnerInvariant, PTL

\* After removeSignerKey no wallet the removed key vouched for is payable from the cache
\* until a proof under a key still accepted names it again.
THEOREM PayableOwnerLive == OwnerSpec => []PayableOwnerHasLiveSigner
<1>1. OwnerInv => PayableOwnerHasLiveSigner
  BY DEF OwnerInv, LiveOwners, PayableOwnerHasLiveSigner, OwnerPayable, Fresh
<1> QED
  BY <1>1, OwnerInvariant, PTL

\* While a verification key is in alpha, only wallets whose proof under that key an attester
\* approved are payable from the cache, whatever was cached while the key was released.
THEOREM AlphaOwnerAttested == OwnerSpec => []AlphaOwnerIsAttested
<1>1. OwnerInv => AlphaOwnerIsAttested
  <2> SUFFICES ASSUME OwnerInv, NEW v \in Verifiers, OwnerPayable(v), IsAlpha(vkHash[v])
               PROVE  \E i \in Vouchers(v) :
                        presented[i].vkHash = vkHash[v] /\ presented[i].approval # {}
    BY DEF AlphaOwnerIsAttested
  <2>1. /\ vkHash[v] \in VkHashes /\ ownerVkHash[v] = vkHash[v]
        /\ ownerAlphaRevision[v] = alphaRevision[vkHash[v]] /\ ~ alphaReleased[vkHash[v]]
    BY DEF OwnerPayable, Fresh, IsAlpha, OwnerInv, OwnerTypeOK
  <2> QED
    BY <2>1 DEF OwnerInv, AttestedOwners
<1> QED
  BY <1>1, OwnerInvariant, PTL

\* Money sent without a deposit is payable to nobody with an older proof than one accepted
\* through a verifier that was the default at the time.
THEOREM UntrackedToNewest == OwnerSpec => []UntrackedGoesToNewest
<1>1. OwnerInv => UntrackedGoesToNewest
  <2> SUFFICES ASSUME OwnerInv, NEW v \in Verifiers, PaysUntracked(v),
                      NEW i \in 1..Len(presented), presented[i].throughDefault
               PROVE  presented[i].proof.iat <= latestProofIat[v]
    BY DEF UntrackedGoesToNewest
  <2>1. presented \in Seq(Accepted)
    BY DEF OwnerInv, OwnerTypeOK, Accepted
  <2>2. presented[i] \in Accepted
    BY <2>1
  <2>3. presented[i].proof.iat \in Nat
    BY <2>2, TimesAreNat DEF Accepted, Proof
  <2>4. presented[i].proof.iat <= untrackedProofIat
    BY DEF OwnerInv, UntrackedFloor
  <2>5. untrackedProofIat <= latestProofIat[v] /\ untrackedProofIat \in Nat
        /\ latestProofIat[v] \in Nat
    BY DEF PaysUntracked, OwnerInv, OwnerTypeOK
  <2> QED
    BY <2>3, <2>4, <2>5
<1> QED
  BY <1>1, OwnerInvariant, PTL

\* No issue-time floor runs ahead of the clock by more than FUTURE_SLACK.
THEOREM FloorsStayNearNow == OwnerSpec => []FloorsNearNow
<1>1. OwnerInv => FloorsNearNow
  BY DEF OwnerInv
<1> QED
  BY <1>1, OwnerInvariant, PTL

\* Revocation, re-keying and a new default verifier never lower an issue-time floor.
THEOREM FloorsNeverFall == OwnerSpec => FloorsOnlyRise
<1>1. OwnerInv /\ [OwnerNext]_<<now, ownerVars>> =>
        [/\ \A v \in Verifiers : latestProofIat'[v] >= latestProofIat[v]
         /\ untrackedProofIat' >= untrackedProofIat]_<<now, ownerVars>>
  BY OwnerInvKept
<1> QED
  BY <1>1, OwnerInvariant, PTL DEF OwnerSpec, FloorsOnlyRise

\* An attester's approval lets one call through, at most once, and none after an alpha toggle
\* or a rotation of the attester.
THEOREM ApprovalsUsedOnce == OwnerSpec => []ApprovalsUsedOnceWhileValid
<1>1. OwnerStart => ApprovalsInv
  BY DEF OwnerStart, OwnerInit, ApprovalsInv, ApprovalsSpent, ApprovalsUsedOnceWhileValid
<1>2. OwnerTypeOK /\ ApprovalsInv /\ [OwnerNext]_<<now, ownerVars>> => ApprovalsInv'
  <2> SUFFICES ASSUME OwnerTypeOK, ApprovalsInv, [OwnerNext]_<<now, ownerVars>>
               PROVE  ApprovalsInv'
    OBVIOUS
  <2>1. CASE UNCHANGED now /\ (OwnerPresent \/ OwnerUpgrade)
    BY <2>1, PresentingKeepsApprovals
  <2>2. CASE World
    BY <2>2, WorldKeepsApprovals
  <2>3. CASE UNCHANGED ownerVars
    BY <2>3 DEF ownerVars, cacheVars, proxyVars, settings, ApprovalsInv, ApprovalsSpent,
                SpentNonces, ApprovalsUsedOnceWhileValid
  <2> QED
    BY <2>1, <2>2, <2>3 DEF OwnerNext, OwnerTick
<1>3. ApprovalsInv => ApprovalsUsedOnceWhileValid
  BY DEF ApprovalsInv
<1> QED
  BY <1>1, <1>2, <1>3, OwnerTypeCorrect, PTL DEF OwnerSpec

\* The cached wallet of a verifier rests on one proof in every respect: revision, key and
\* attestation.
THEOREM OwnersTitled == OwnerSpec => []TitledOwners
<1>1. OwnerStart => TitledOwners
  BY DEF OwnerStart, OwnerInit, CacheInit, TitledOwners
<1>2. OwnerInv /\ TitledOwners /\ [OwnerNext]_<<now, ownerVars>> => TitledOwners'
  <2> SUFFICES ASSUME OwnerInv, TitledOwners, [OwnerNext]_<<now, ownerVars>>
               PROVE  TitledOwners'
    OBVIOUS
  <2>1. CASE UNCHANGED now /\ (OwnerPresent \/ OwnerUpgrade)
    BY <2>1, PresentingIsAccepting, TitledKept DEF OwnerInv
  <2>2. CASE World
    BY <2>2, TitledInWorld DEF OwnerInv
  <2>3. CASE UNCHANGED ownerVars
    BY <2>3 DEF ownerVars, cacheVars, settings, verifierVars, TitledOwners, Vouchers, Through
  <2> QED
    BY <2>1, <2>2, <2>3 DEF OwnerNext, OwnerTick
<1> QED
  BY <1>1, <1>2, OwnerInvariant, PTL DEF OwnerSpec

-----------------------------------------------------------------------------
(* The whole vault *)

\* The default verifier and the approved ones are verifiers: without this a step could fund or
\* pay under an address no bucket is kept for.
SettingsInv == defaultVerifier \in Verifiers /\ approvedVerifiers \subseteq Verifiers

LEMMA SettingsInitially == VaultStart => SettingsInv
  BY DEF VaultStart, OwnerInit, SettingsInit, SettingsInv

\* Only the world changes the settings, and it sets them to verifiers.
LEMMA SettingsKept == SettingsInv /\ [VaultNext]_vaultVars => SettingsInv'
<1> SUFFICES ASSUME SettingsInv, [VaultNext]_vaultVars PROVE SettingsInv'
  OBVIOUS
<1>1. ASSUME UNCHANGED settings PROVE SettingsInv'
  BY <1>1 DEF settings, SettingsInv
<1>2. ASSUME World PROVE SettingsInv'
  BY <1>2 DEF SettingsInv, World, Approve, SetAlpha, SetDefaultAttester, ActivateDefaultVerifier,
              ApproveVerifier, ActivatePolicy, RemoveSignerKey, ActivateSignerKey, ChangeVkHash,
              settings
<1>3. ASSUME ProofCall PROVE UNCHANGED settings
  BY <1>3 DEF ProofCall, Presenting, RefreshProof, RefreshProofAndSweep, SweepBucket,
              SweepBucketDeposits, Upgrade
<1>4. ASSUME Claim PROVE UNCHANGED settings
  BY <1>4 DEF Claim, Sweep, SweepSurplus, SweepDeposits, ownerVars
<1>5. ASSUME FundVault \/ RefundDeposit \/ PayFees \/ Donate \/ VaultTick \/ UNCHANGED vaultVars
      PROVE  UNCHANGED settings
  BY <1>5 DEF FundVault, RefundDeposit, PayFees, Donate, VaultTick, vaultVars, ownerVars
<1> QED
  BY <1>1, <1>2, <1>3, <1>4, <1>5 DEF VaultNext, VaultCall, WorldStep

\* A bucket of plain deposits is one of the ledger's buckets.
LEMMA DefaultBucketIsBucket ==
  ASSUME NEW v \in Verifiers, NEW t \in Tokens
  PROVE  DefaultBucket(v, t) \in Buckets /\ DefaultBucket(v, t)[2] = NoConstraint
  BY VaultLedgerAssumption DEF DefaultBucket, Buckets

\* A claim on the cached wallet, of whichever kind, is a call the ledger allows.
LEMMA ClaimIsLedgerCall == SettingsInv /\ Claim => LedgerCall
<1> SUFFICES ASSUME SettingsInv, Claim PROVE LedgerCall
  OBVIOUS
<1>1. ASSUME NEW v \in Verifiers, NEW t \in Tokens, NEW limit \in Limits, NEW q \in Rates,
             Sweep(v, t, limit, q)
      PROVE  LedgerSweepPage
  <2>1. DefaultBucket(v, t) \in Buckets /\ DefaultBucket(v, t)[2] = NoConstraint
    BY DefaultBucketIsBucket
  <2>2. PaysUntracked(v) \in BOOLEAN
    BY DEF PaysUntracked
  <2> QED
    BY <1>1, <2>1, <2>2 DEF Sweep, LedgerSweepPage, Limits, Rates
<1>2. ASSUME NEW t \in Tokens, NEW q \in Rates, SweepSurplus(t, q)
      PROVE  LedgerSweepUntracked
  BY <1>2 DEF SettingsInv, SweepSurplus, LedgerSweepUntracked, Rates
<1>3. ASSUME NEW v \in Verifiers, NEW t \in Tokens, NEW S \in SUBSET Ids, SweepDeposits(v, t, S)
      PROVE  LedgerSweepIds
  BY <1>3, DefaultBucketIsBucket DEF SweepDeposits, LedgerSweepIds
<1> QED
  BY <1>1, <1>2, <1>3 DEF Claim, LedgerCall

\* A call with a proof leaves the money alone or is a call the ledger allows.
LEMMA ProofCallIsLedgerCall == ProofCall => LedgerCall \/ UNCHANGED ledgerVars
<1> SUFFICES ASSUME NEW call \in Call, ProofCall!(call) PROVE LedgerCall \/ UNCHANGED ledgerVars
  BY DEF ProofCall
<1> DEFINE v == call.proof.verifier
<1>0. v \in Verifiers
  BY DEF Call, Proof
<1>1. ASSUME RefreshProof(call) \/ Upgrade(call) PROVE UNCHANGED ledgerVars
  BY <1>1 DEF RefreshProof, Upgrade
<1>2. ASSUME NEW t \in Tokens, NEW limit \in Limits, NEW q \in Rates,
             RefreshProofAndSweep(call, t, limit, q)
      PROVE  LedgerSweepPage
  <2>1. DefaultBucket(v, t) \in Buckets /\ DefaultBucket(v, t)[2] = NoConstraint
    BY <1>0, DefaultBucketIsBucket
  <2>2. PaysUntracked(v)' \in BOOLEAN
    BY DEF PaysUntracked
  <2> QED
    BY <1>2, <2>1, <2>2 DEF RefreshProofAndSweep, LedgerSweepPage, Limits, Rates
<1>3. ASSUME NEW c \in Constraints, NEW t \in Tokens, NEW limit \in Limits,
             SweepBucket(call, c, t, limit)
      PROVE  LedgerSweepPage
  <2>1. <<v, c, t>> \in Buckets
    BY <1>0 DEF Buckets
  <2> QED
    BY <1>3, <2>1 DEF SweepBucket, LedgerSweepPage, Limits
<1>4. ASSUME NEW c \in Constraints, NEW t \in Tokens, NEW S \in SUBSET Ids,
             SweepBucketDeposits(call, c, t, S)
      PROVE  LedgerSweepIds
  <2>1. <<v, c, t>> \in Buckets
    BY <1>0 DEF Buckets
  <2> QED
    BY <1>4, <2>1 DEF SweepBucketDeposits, LedgerSweepIds
<1> QED
  BY <1>1, <1>2, <1>3, <1>4 DEF LedgerCall

\* Every step of the vault is a step of the ledger, or leaves the money alone.
LEMMA VaultStepIsLedgerStep ==
  SettingsInv /\ [VaultNext]_vaultVars => [LedgerNext]_<<now, ledgerVars>>
<1> SUFFICES ASSUME SettingsInv, [VaultNext]_vaultVars PROVE [LedgerNext]_<<now, ledgerVars>>
  OBVIOUS
<1>1. CASE VaultCall /\ UNCHANGED now
  <2>1. ASSUME FundVault PROVE LedgerFund
    BY <2>1 DEF FundVault, LedgerFund, SettingsInv, Rates
  <2>2. ASSUME RefundDeposit \/ PayFees \/ Donate PROVE LedgerCall
    BY <2>2 DEF RefundDeposit, PayFees, Donate, LedgerCall
  <2>3. ASSUME WorldStep PROVE UNCHANGED ledgerVars
    BY <2>3 DEF WorldStep
  <2>4. LedgerCall \/ UNCHANGED ledgerVars
    BY <1>1, <2>1, <2>2, <2>3, ClaimIsLedgerCall, ProofCallIsLedgerCall DEF VaultCall, LedgerCall
  <2> QED
    BY <1>1, <2>4 DEF LedgerNext
<1>2. CASE VaultTick
  BY <1>2 DEF VaultTick, LedgerNext, LedgerTick
<1>3. CASE UNCHANGED vaultVars
  BY <1>3 DEF vaultVars
<1> QED
  BY <1>1, <1>2, <1>3 DEF VaultNext

\* The vault implements the ledger: whoever is paid, and whatever decides it, its money moves
\* only in the ways of VaultLedger (the calls of P2IDVault.sol, each from its modifiers on).
THEOREM VaultImplementsLedger == VaultSpec => ImplementsLedger
<1>1. VaultStart => LedgerStart
  BY DEF VaultStart, LedgerStart
<1> QED
  BY <1>1, SettingsInitially, SettingsKept, VaultStepIsLedgerStep, PTL
     DEF VaultSpec, ImplementsLedger, LedgerSpec

\* So a whole vault, owners, attesters, policies and revocations included, always holds what it
\* owes: its unconsumed deposits and its undistributed fees.
THEOREM VaultSolvent == VaultSpec => []Solvent
  BY VaultImplementsLedger, LedgerSolvent, PTL DEF ImplementsLedger

\* Every step of the vault is a step of the owner cache, or leaves it and its surroundings
\* alone: nothing but a proof changes who is paid.
LEMMA VaultStepIsOwnerStep == [VaultNext]_vaultVars => [OwnerNext]_<<now, ownerVars>>
<1> SUFFICES ASSUME [VaultNext]_vaultVars PROVE [OwnerNext]_<<now, ownerVars>>
  OBVIOUS
<1>1. ASSUME ProofCall PROVE OwnerPresent \/ OwnerUpgrade
  BY <1>1 DEF ProofCall, Presenting, RefreshProof, RefreshProofAndSweep, SweepBucket,
              SweepBucketDeposits, Upgrade, OwnerPresent, OwnerUpgrade
<1>2. ASSUME Claim PROVE UNCHANGED ownerVars
  BY <1>2 DEF Claim, Sweep, SweepSurplus, SweepDeposits
<1>3. ASSUME FundVault \/ RefundDeposit \/ PayFees \/ Donate PROVE UNCHANGED ownerVars
  BY <1>3 DEF FundVault, RefundDeposit, PayFees, Donate
<1>4. CASE VaultCall /\ UNCHANGED now
  BY <1>1, <1>2, <1>3, <1>4 DEF VaultCall, WorldStep, OwnerNext
<1>5. CASE VaultTick
  BY <1>5 DEF VaultTick, OwnerNext, OwnerTick
<1>6. CASE UNCHANGED vaultVars
  BY <1>6 DEF vaultVars
<1> QED
  BY <1>4, <1>5, <1>6 DEF VaultNext

\* The vault implements the owner cache: funding, claims, refunds and fees leave it alone, and
\* every method that takes a proof treats the proof alike.
THEOREM VaultImplementsOwnerCache == VaultSpec => ImplementsOwnerCache
<1>1. VaultStart => OwnerStart
  BY DEF VaultStart, OwnerStart
<1> QED
  BY <1>1, VaultStepIsOwnerStep, PTL DEF VaultSpec, ImplementsOwnerCache, OwnerSpec

\* So in a whole vault, too, no cached wallet is payable on the word of a removed signer key.
THEOREM VaultPayableOwnerLive == VaultSpec => []PayableOwnerHasLiveSigner
  BY VaultImplementsOwnerCache, PayableOwnerLive, PTL DEF ImplementsOwnerCache

\* In a whole vault, too, a wallet is payable while its verifier's key is in alpha only if an
\* attester approved a proof of it.
THEOREM VaultAlphaOwnerAttested == VaultSpec => []AlphaOwnerIsAttested
  BY VaultImplementsOwnerCache, AlphaOwnerAttested, PTL DEF ImplementsOwnerCache

\* Whatever a whole vault does, its floors never fall: no older proof is ever let in again.
THEOREM VaultFloorsNeverFall == VaultSpec => FloorsOnlyRise
  BY VaultImplementsOwnerCache, FloorsNeverFall, PTL DEF ImplementsOwnerCache

\* Refunds and claims of a whole vault free no constraint for a second deposit of its funder.
THEOREM VaultConstraintsOnce == VaultSpec => []ConstraintUsedOnce
  BY VaultImplementsLedger, LedgerConstraintsOnce, PTL DEF ImplementsLedger

\* In a whole vault, too, an attester's approval lets one call through and none after a toggle.
THEOREM VaultApprovalsUsedOnce == VaultSpec => []ApprovalsUsedOnceWhileValid
  BY VaultImplementsOwnerCache, ApprovalsUsedOnce, PTL DEF ImplementsOwnerCache

\* A whole vault can always give an unclaimed deposit back, whatever its owners and claims did.
THEOREM VaultRefundsOpen == VaultSpec => []RefundAlwaysOpen
  BY VaultImplementsLedger, LedgerRefundsOpen, PTL DEF ImplementsLedger

\* A whole vault is an escrow: it implements the ledger, and the ledger the escrow.
THEOREM VaultImplementsEscrow == VaultSpec => ImplementsEscrow
  BY VaultImplementsLedger, LedgerImplementsEscrow, PTL DEF ImplementsLedger

-----------------------------------------------------------------------------
(* Who is paid *)

\* What the payments rest on: the invariants of the ledger and of the cache.
VaultInv == LedgerInv /\ OwnerInv /\ TitledOwners

\* A payment of the kind P2IDVault makes on the word of its cache, and what it is worth.
Entitled(p) == Titles(p) # {}
NewestOfDefault(p) ==
  /\ p.verifier = defaultVerifier
  /\ \E i \in Titles(p) :
       \A j \in 1..Len(presented) :
         presented[j].throughDefault => presented[j].proof.iat <= presented[i].proof.iat

\* A wallet payable from the cache holds a title; when it is payable the surplus too, no proof
\* accepted through a default verifier is newer.
OwnersAreEntitled ==
  \A v \in Verifiers :
    OwnerPayable(v) =>
      \A p : p.verifier = v /\ p.to = owner[v] =>
        Entitled(p) /\ (PaysUntracked(v) => NewestOfDefault(p))

LEMMA PayableOwnersAreEntitled == VaultInv => OwnersAreEntitled
<1> SUFFICES ASSUME VaultInv, NEW v \in Verifiers, OwnerPayable(v),
                    NEW p, p.verifier = v, p.to = owner[v]
             PROVE  Entitled(p) /\ (PaysUntracked(v) => NewestOfDefault(p))
  BY DEF OwnersAreEntitled
<1>1. /\ ownerRevision[v] = revision[v]
      /\ vkHash[v] \in VkHashes /\ ownerVkHash[v] = vkHash[v]
      /\ ownerAlphaRevision[v] = alphaRevision[vkHash[v]]
      /\ owner[v] # NoOwner
  BY DEF OwnerPayable, Fresh, VaultInv, OwnerInv, OwnerTypeOK
<1>2. PICK i \in Vouchers(v) :
        /\ presented[i].vkHash = vkHash[v]
        /\ presented[i].proof.signer \in signerKeys[v]
        /\ ~ alphaReleased[vkHash[v]] => presented[i].approval # {}
  BY <1>1 DEF VaultInv, TitledOwners
<1>3. \A j \in Through(v) : presented[j].proof.iat <= latestProofIat[v]
  BY <1>1 DEF VaultInv, OwnerInv, OwnerIsFirstOfNewest
<1>4. /\ i \in 1..Len(presented) /\ presented[i].proof.verifier = v
      /\ presented[i].proof.wallet = owner[v] /\ presented[i].proof.iat = latestProofIat[v]
  BY DEF Vouchers, Through
<1>5. i \in Titles(p)
  <2>1. \A j \in 1..Len(presented) :
          presented[j].proof.verifier = v => presented[j].proof.iat <= presented[i].proof.iat
    BY <1>3, <1>4 DEF Through
  <2>2. IsAlpha(vkHash[v]) => presented[i].approval # {}
    BY <1>1, <1>2, OwnerCacheAssumption DEF IsAlpha
  <2> QED
    BY <1>2, <1>4, <2>1, <2>2 DEF Titles
<1>6. ASSUME PaysUntracked(v) PROVE NewestOfDefault(p)
  <2>1. presented \in Seq(Accepted)
    BY DEF VaultInv, OwnerInv, OwnerTypeOK, Accepted
  <2>2. /\ v = defaultVerifier /\ untrackedProofIat <= latestProofIat[v]
        /\ untrackedProofIat \in Nat /\ latestProofIat[v] \in Nat
    BY <1>6 DEF PaysUntracked, VaultInv, OwnerInv, OwnerTypeOK
  <2>3. ASSUME NEW j \in 1..Len(presented), presented[j].throughDefault
        PROVE  presented[j].proof.iat <= latestProofIat[v]
    <3>0. presented[j] \in Accepted
      BY <2>1
    <3>1. presented[j].proof.iat \in Nat
      BY <3>0, TimesAreNat DEF Accepted, Proof
    <3>2. presented[j].proof.iat <= untrackedProofIat
      BY <2>3 DEF VaultInv, OwnerInv, UntrackedFloor
    <3> QED
      BY <2>2, <3>1, <3>2
  <2> QED
    BY <1>4, <1>5, <2>2, <2>3 DEF NewestOfDefault
<1> QED
  BY <1>5, <1>6 DEF Entitled

\* A proof method accepts the proof it is called with.
LEMMA PresentedIsAccepted ==
  ASSUME OwnerTypeOK, UNCHANGED now, NEW call \in Call, NEW entry, Presenting(entry, call)
  PROVE  \E attestation : Accepts(call, attestation)
<1>1. alphaNonceUsed \in SUBSET Nonces
  BY DEF OwnerTypeOK
<1> QED
  BY <1>1 DEF Presenting, PresentProof, Accepts

\* An accepted proof is itself a title of its wallet, in the state it leaves.
LEMMA AcceptedIsTitle ==
  ASSUME OwnerInv, NEW call \in Call, NEW attestation, Accepts(call, attestation),
         NEW p, p.verifier = call.proof.verifier, p.to = call.proof.wallet
  PROVE  Entitled(p)' /\ ProvenInThisCall(p)
<1> DEFINE n == Len(presented)
           v == call.proof.verifier
<1>1. /\ n \in Nat /\ Len(presented') = n + 1
      /\ \A i \in 1..n : presented'[i] = presented[i] /\ presented'[i] \in Accepted
      /\ presented'[n + 1].proof = call.proof
      /\ presented'[n + 1].vkHash = vkHash[v]
      /\ presented'[n + 1].approval = attestation
  BY HistoryGrows DEF OwnerInv
<1>2. call.proof \in Proof /\ v \in Verifiers /\ call.proof.iat \in Nat /\ call.proof.wallet \in Wallets
  BY TimesAreNat DEF Call, Proof
<1>3. UNCHANGED <<signerKeys, vkHash, alphaReleased>>
  BY DEF Accepts, verifierVars, settings
<1>4. /\ call.proof.signer \in signerKeys[v]
      /\ IsAlpha(vkHash[v]) => attestation # {}
  BY AttestationsAreApprovals DEF Accepts, Verified
<1>5. call.proof.iat >= latestProofIat[v] /\ latestProofIat[v] \in Nat
  BY <1>2 DEF Accepts, Apply, Timely, InOrder, OwnerInv, OwnerTypeOK
<1>6. ASSUME NEW j \in 1..n, presented[j].proof.verifier = v
      PROVE  presented[j].proof.iat <= call.proof.iat
  <2>1. j \in Through(v) /\ presented[j].proof.iat \in Nat
    BY <1>1, <1>6, TimesAreNat DEF Through, Accepted, Proof
  <2>2. presented[j].proof.iat <= latestProofIat[v]
    BY <1>2, <2>1 DEF OwnerInv, OwnerIsFirstOfNewest
  <2> QED
    BY <1>2, <1>5, <2>1, <2>2
<1>7. \A j \in 1..(n + 1) : presented'[j].proof.verifier = v => presented'[j].proof.iat <= call.proof.iat
  <2> SUFFICES ASSUME NEW j \in 1..(n + 1), presented'[j].proof.verifier = v
               PROVE  presented'[j].proof.iat <= call.proof.iat
    OBVIOUS
  <2>1. CASE j = n + 1
    BY <1>1, <1>2, <2>1
  <2>2. CASE j # n + 1
    <3>1. j \in 1..n
      BY <1>1, <2>2
    <3> QED
      BY <1>1, <1>6, <3>1
  <2> QED
    BY <2>1, <2>2
<1>8. IsAlpha(vkHash[v])' = IsAlpha(vkHash[v])
  BY <1>3 DEF IsAlpha
<1>9. n + 1 \in 1..Len(presented')
  BY <1>1
<1>10. \E i \in Titles(p)' : TRUE
  BY <1>1, <1>3, <1>4, <1>7, <1>8, <1>9 DEF Titles
<1> QED
  BY <1>1, <1>10 DEF Entitled, ProvenInThisCall

\* What a step does with its payments, and with the deposits it consumes.
PaysEntitled == \A p \in payouts' : Entitled(p)' /\ (p.surplus => NewestOfDefault(p)')

ConsumesWell ==
  \A i \in Ids :
    ~ deposits[i].consumed /\ deposits'[i].consumed =>
      \/ RefundReady(i) /\ payouts' = {}
      \/ \E p \in payouts' :
           /\ i \in p.deposits
           /\ p.verifier = deposits[i].verifier
           /\ Entitled(p)'
           /\ deposits[i].constraint # NoConstraint => ProvenInThisCall(p)

\* A call that pays makes one payment, with what it names.
Makes(p, v, to, S, surplus) ==
  /\ payouts' = {p}
  /\ p.verifier = v
  /\ p.to = to
  /\ p.deposits = S
  /\ p.surplus <=> surplus

LEMMA PaysOne ==
  ASSUME NEW v, NEW to, NEW S, NEW surplus \in BOOLEAN,
         payouts' = {[verifier |-> v, to |-> to, deposits |-> S, surplus |-> surplus]}
  PROVE  \E p : Makes(p, v, to, S, surplus)
<1> DEFINE p == [verifier |-> v, to |-> to, deposits |-> S, surplus |-> surplus]
<1>1. p.verifier = v /\ p.to = to /\ p.deposits = S
  OBVIOUS
<1>2. p.surplus <=> surplus
  BY Zenon
<1>3. payouts' = {p}
  OBVIOUS
<1> HIDE DEF p
<1> QED
  BY <1>1, <1>2, <1>3 DEF Makes

\* A payment to the wallet payable from the cache as the step leaves it.
LEMMA CachePaysEntitled ==
  ASSUME OwnersAreEntitled', NEW v \in Verifiers, OwnerPayable(v)', NEW p, NEW S, NEW surplus,
         Makes(p, v, owner'[v], S, surplus), surplus => PaysUntracked(v)'
  PROVE  PaysEntitled /\ Entitled(p)'
<1>1. payouts' = {p} /\ p.verifier = v /\ p.to = owner'[v] /\ (p.surplus <=> surplus)
  BY DEF Makes
<1>2. Entitled(p)' /\ (PaysUntracked(v)' => NewestOfDefault(p)')
  BY <1>1 DEF OwnersAreEntitled
<1> QED
  BY <1>1, <1>2 DEF PaysEntitled

\* A payment to the wallet of the proof that came with the call.
LEMMA ProofPaysEntitled ==
  ASSUME OwnerInv, UNCHANGED now, NEW call \in Call, NEW entry, Presenting(entry, call),
         NEW p, NEW S, Makes(p, call.proof.verifier, call.proof.wallet, S, FALSE)
  PROVE  PaysEntitled /\ Entitled(p)' /\ ProvenInThisCall(p)
<1>1. payouts' = {p} /\ p.verifier = call.proof.verifier /\ p.to = call.proof.wallet /\ ~ p.surplus
  BY DEF Makes
<1>2. Entitled(p)' /\ ProvenInThisCall(p)
  BY <1>1, PresentedIsAccepted, AcceptedIsTitle DEF OwnerInv
<1> QED
  BY <1>1, <1>2 DEF PaysEntitled

\* Claiming deposits of a bucket for a payment under the bucket's verifier.
LEMMA ClaimConsumesWell ==
  ASSUME NEW b, NEW S, Claimable(deposits, b, S), Consume(b, S),
         NEW p, payouts' = {p}, p.deposits = S, p.verifier = b[1], Entitled(p)',
         b[2] # NoConstraint => ProvenInThisCall(p)
  PROVE  ConsumesWell
<1> SUFFICES ASSUME NEW i \in Ids, ~ deposits[i].consumed, deposits'[i].consumed
             PROVE  /\ i \in p.deposits
                    /\ p.verifier = deposits[i].verifier
                    /\ deposits[i].constraint # NoConstraint => ProvenInThisCall(p)
  BY DEF ConsumesWell
<1>1. i \in S
  BY DEF Consume
<1>2. BucketOf(deposits[i]) = b
  BY <1>1 DEF Claimable
<1>3. b[1] = deposits[i].verifier /\ b[2] = deposits[i].constraint
  BY <1>2 DEF BucketOf
<1> QED
  BY <1>1, <1>3

\* A step that leaves the deposits alone, or only adds one, consumes none.
LEMMA NoneConsumed ==
  ASSUME \A i \in Ids : deposits'[i] = deposits[i]
  PROVE  ConsumesWell
  BY DEF ConsumesWell

\* What a step may do with the vault's money: pay the entitled, and consume no deposit but by
\* such a payment or a refund.
SpendsWell == PaysEntitled /\ ConsumesWell

\* Nobody is paid.
LEMMA NobodyPaid == ASSUME PaysNobody PROVE PaysEntitled
  BY DEF PaysNobody, PaysEntitled

LEMMA IdleSpendsWell ==
  ASSUME VaultInv,
         FundVault \/ RefundDeposit \/ PayFees \/ Donate \/ WorldStep \/ VaultTick
  PROVE  SpendsWell
<1>0. deposits \in Seq(Deposit) /\ Len(deposits) \in Nat
  BY LenProperties DEF VaultInv, LedgerInv, Books, LedgerTypeOK
<1>1. PaysEntitled
  BY NobodyPaid DEF FundVault, RefundDeposit, PayFees, Donate, WorldStep, VaultTick
<1>2. CASE FundVault
  <2>1. PICK d : deposits' = Append(deposits, d)
    BY <1>2 DEF FundVault, Fund
  <2>2. \A i \in Ids : deposits'[i] = deposits[i]
    BY <1>0, <2>1 DEF Ids
  <2> QED
    BY <1>1, <2>2, NoneConsumed DEF SpendsWell
<1>3. CASE RefundDeposit
  <2>1. PICK j \in Ids : Refund(j)
    BY <1>3 DEF RefundDeposit, LedgerRefund
  <2>2. payouts' = {}
    BY <1>3 DEF RefundDeposit, PaysNobody
  <2>3. \A i \in Ids : ~ deposits[i].consumed /\ deposits'[i].consumed => i = j
    BY <2>1 DEF Refund, Consume
  <2>4. RefundReady(j)
    BY <2>1 DEF Refund
  <2> QED
    BY <1>1, <2>2, <2>3, <2>4 DEF SpendsWell, ConsumesWell
<1>4. CASE PayFees \/ Donate \/ WorldStep \/ VaultTick
  <2>1. UNCHANGED deposits
    BY <1>4 DEF PayFees, LedgerWithdrawFees, WithdrawFees, Donate, LedgerDirectTransfer,
                DirectTransfer, WorldStep, VaultTick, ledgerVars
  <2> QED
    BY <1>1, <2>1, NoneConsumed DEF SpendsWell
<1> QED
  BY <1>2, <1>3, <1>4

\* The deposits a claim by id names are claimable.
LEMMA IdsAreClaimable ==
  ASSUME NEW b \in Buckets, NEW S, SweepIds(b, S)
  PROVE  Claimable(deposits, b, S) /\ Consume(b, S)
  BY DEF SweepIds, Claimable, Ids

\* So are those of a page.
LEMMA PageIsClaimable ==
  ASSUME VaultInv, NEW b \in Buckets, NEW limit \in Limits, NEW q, NEW paysUntracked,
         SweepPage(b, limit, q, paysUntracked)
  PROVE  Claimable(deposits, b, PageIds(b, limit)) /\ Consume(b, PageIds(b, limit))
<1>1. limit \in Nat
  BY VaultLedgerAssumption DEF Limits
<1> QED
  BY <1>1, PageClaimable DEF SweepPage, VaultInv, LedgerInv, Books

\* A claim from the cache, of deposits of the default bucket or of the surplus alone.
LEMMA ClaimSpendsWell ==
  ASSUME VaultInv, OwnersAreEntitled', SettingsInv, Claim
  PROVE  SpendsWell
<1>1. ASSUME NEW v \in Verifiers, NEW t \in Tokens, NEW limit \in Limits, NEW q \in Rates,
             Sweep(v, t, limit, q)
      PROVE  SpendsWell
  <2> DEFINE b == DefaultBucket(v, t)
             S == PageIds(b, limit)
  <2>1. b \in Buckets /\ b[1] = v /\ b[2] = NoConstraint
    BY DefaultBucketIsBucket DEF DefaultBucket
  <2>2. Claimable(deposits, b, S) /\ Consume(b, S)
    BY <1>1, <2>1, PageIsClaimable DEF Sweep
  <2>3. OwnerPayable(v)' /\ owner'[v] = owner[v] /\ PaysUntracked(v)' = PaysUntracked(v)
    BY <1>1 DEF Sweep, ownerVars, cacheVars, settings, verifierVars, OwnerPayable,
                ClaimableVerifier, Fresh, PaysUntracked
  <2>4. PaysUntracked(v) \in BOOLEAN
    BY DEF PaysUntracked
  <2> HIDE DEF b
  <2>5. PICK p : Makes(p, v, owner'[v], S, PaysUntracked(v))
    BY <1>1, <2>3, <2>4, PaysOne DEF Sweep, Pays, b
  <2>6. PaysEntitled /\ Entitled(p)'
    BY <2>3, <2>5, CachePaysEntitled
  <2>7. payouts' = {p} /\ p.deposits = S /\ p.verifier = b[1]
    BY <2>1, <2>5 DEF Makes
  <2> QED
    BY <2>1, <2>2, <2>6, <2>7, ClaimConsumesWell DEF SpendsWell
<1>2. ASSUME NEW t \in Tokens, NEW q \in Rates, SweepSurplus(t, q)
      PROVE  SpendsWell
  <2> DEFINE v == defaultVerifier
  <2>1. v \in Verifiers
    BY DEF SettingsInv
  <2>2. /\ UNCHANGED <<ownerVars, deposits>> /\ OwnerPayable(v) /\ PaysUntracked(v)
        /\ payouts' = {[verifier |-> v, to |-> owner[v], deposits |-> {}, surplus |-> TRUE]}
    BY <1>2 DEF SweepSurplus, SweepUntracked, PaysUntracked, OwnerPayable, Pays
  <2>3. PICK w : w = v
    OBVIOUS
  <2>4. OwnerPayable(w)' /\ owner'[w] = owner[w] /\ PaysUntracked(w)'
    BY <2>2, <2>3 DEF ownerVars, cacheVars, settings, verifierVars, OwnerPayable,
                      ClaimableVerifier, Fresh, PaysUntracked
  <2>5. PICK p : Makes(p, w, owner'[w], {}, TRUE)
    BY <2>2, <2>3, <2>4, PaysOne
  <2>6. PaysEntitled
    BY <2>1, <2>3, <2>4, <2>5, CachePaysEntitled
  <2> QED
    BY <2>2, <2>6, NoneConsumed DEF SpendsWell
<1>3. ASSUME NEW v \in Verifiers, NEW t \in Tokens, NEW S \in SUBSET Ids, SweepDeposits(v, t, S)
      PROVE  SpendsWell
  <2> DEFINE b == DefaultBucket(v, t)
  <2>1. b \in Buckets /\ b[1] = v /\ b[2] = NoConstraint
    BY DefaultBucketIsBucket DEF DefaultBucket
  <2>2. Claimable(deposits, b, S) /\ Consume(b, S)
    BY <1>3, <2>1, IdsAreClaimable DEF SweepDeposits
  <2>3. OwnerPayable(v)' /\ owner'[v] = owner[v]
    BY <1>3 DEF SweepDeposits, ownerVars, cacheVars, settings, verifierVars, OwnerPayable,
                ClaimableVerifier, Fresh
  <2> HIDE DEF b
  <2>4. PICK p : Makes(p, v, owner'[v], S, FALSE)
    BY <1>3, <2>3, PaysOne DEF SweepDeposits, Pays
  <2>5. PaysEntitled /\ Entitled(p)'
    BY <2>3, <2>4, CachePaysEntitled
  <2>6. payouts' = {p} /\ p.deposits = S /\ p.verifier = b[1]
    BY <2>1, <2>4 DEF Makes
  <2> QED
    BY <2>1, <2>2, <2>5, <2>6, ClaimConsumesWell DEF SpendsWell
<1> QED
  BY <1>1, <1>2, <1>3 DEF Claim

\* A call with a proof pays nobody, the wallet payable from the cache once the proof is in it,
\* or, from a constrained bucket, the wallet of the proof.
LEMMA ProofCallSpendsWell ==
  ASSUME VaultInv, OwnersAreEntitled', UNCHANGED now, ProofCall
  PROVE  SpendsWell
<1> PICK call \in Call : ProofCall!(call)
  BY DEF ProofCall
<1> DEFINE v == call.proof.verifier
<1>0. v \in Verifiers
  BY DEF Call, Proof
<1>1. CASE RefreshProof(call) \/ Upgrade(call)
  <2>1. PaysNobody /\ UNCHANGED deposits
    BY <1>1 DEF RefreshProof, Upgrade, ledgerVars
  <2> QED
    BY <2>1, NobodyPaid, NoneConsumed DEF SpendsWell
<1>2. ASSUME NEW t \in Tokens, NEW limit \in Limits, NEW q \in Rates,
             RefreshProofAndSweep(call, t, limit, q)
      PROVE  SpendsWell
  <2> DEFINE b == DefaultBucket(v, t)
             S == PageIds(b, limit)
  <2>1. b \in Buckets /\ b[1] = v /\ b[2] = NoConstraint
    BY <1>0, DefaultBucketIsBucket DEF DefaultBucket
  <2>2. Claimable(deposits, b, S) /\ Consume(b, S)
    BY <1>2, <2>1, PageIsClaimable DEF RefreshProofAndSweep
  <2>3. OwnerPayable(v)' /\ PaysUntracked(v)' \in BOOLEAN
    BY <1>2 DEF RefreshProofAndSweep, PaysUntracked
  <2> HIDE DEF b
  <2>4. PICK p : Makes(p, v, owner'[v], S, PaysUntracked(v)')
    BY <1>2, <2>3, PaysOne DEF RefreshProofAndSweep, Pays, b
  <2>5. PaysEntitled /\ Entitled(p)'
    BY <1>0, <2>3, <2>4, CachePaysEntitled
  <2>6. payouts' = {p} /\ p.deposits = S /\ p.verifier = b[1]
    BY <2>1, <2>4 DEF Makes
  <2> QED
    BY <2>1, <2>2, <2>5, <2>6, ClaimConsumesWell DEF SpendsWell
<1>3. ASSUME NEW b \in Buckets, b[1] = v, NEW S, Claimable(deposits, b, S), Consume(b, S),
             NEW entry, Presenting(entry, call), Pays(v, call.proof.wallet, S, FALSE)
      PROVE  SpendsWell
  <2>1. PICK p : Makes(p, v, call.proof.wallet, S, FALSE)
    BY <1>3, PaysOne DEF Pays
  <2>2. PaysEntitled /\ Entitled(p)' /\ ProvenInThisCall(p)
    BY <1>3, <2>1, ProofPaysEntitled DEF VaultInv
  <2>3. payouts' = {p} /\ p.deposits = S /\ p.verifier = b[1]
    BY <1>3, <2>1 DEF Makes
  <2> QED
    BY <1>3, <2>2, <2>3, ClaimConsumesWell DEF SpendsWell
<1>4. ASSUME NEW c \in Constraints, NEW t \in Tokens, NEW limit \in Limits,
             SweepBucket(call, c, t, limit)
      PROVE  SpendsWell
  <2>0. <<v, c, t>> \in Buckets /\ <<v, c, t>>[1] = v
    BY <1>0 DEF Buckets
  <2>1. PICK b \in Buckets : b = <<v, c, t>> /\ b[1] = v
    BY <2>0, Zenon
  <2>2. /\ SweepPage(b, limit, NoAnswer, FALSE) /\ Presenting("sweepBucket", call)
        /\ Pays(v, call.proof.wallet, PageIds(b, limit), FALSE)
    BY <1>4, <2>1 DEF SweepBucket
  <2> QED
    BY <1>3, <2>1, <2>2, PageIsClaimable
<1>5. ASSUME NEW c \in Constraints, NEW t \in Tokens, NEW S \in SUBSET Ids,
             SweepBucketDeposits(call, c, t, S)
      PROVE  SpendsWell
  <2>0. <<v, c, t>> \in Buckets /\ <<v, c, t>>[1] = v
    BY <1>0 DEF Buckets
  <2>1. PICK b \in Buckets : b = <<v, c, t>> /\ b[1] = v
    BY <2>0, Zenon
  <2>2. /\ SweepIds(b, S) /\ Presenting("sweepBucketDeposits", call)
        /\ Pays(v, call.proof.wallet, S, FALSE)
    BY <1>5, <2>1 DEF SweepBucketDeposits
  <2> QED
    BY <1>3, <2>1, <2>2, IdsAreClaimable
<1> QED
  BY <1>1, <1>2, <1>4, <1>5

LEMMA VaultSpendsWell == VaultInv /\ OwnersAreEntitled' /\ SettingsInv /\ VaultNext => SpendsWell
<1> SUFFICES ASSUME VaultInv, OwnersAreEntitled', SettingsInv, VaultNext PROVE SpendsWell
  OBVIOUS
<1>1. CASE VaultTick
  BY <1>1, IdleSpendsWell
<1>2. CASE VaultCall /\ UNCHANGED now
  BY <1>2, IdleSpendsWell, ClaimSpendsWell, ProofCallSpendsWell DEF VaultCall
<1> QED
  BY <1>1, <1>2 DEF VaultNext

\* A vault keeps the ledger's invariants, the cache's, and those of its settings.
THEOREM VaultInvariant == VaultSpec => [](VaultInv /\ SettingsInv)
<1>1. VaultSpec => []LedgerInv
  BY VaultImplementsLedger, LedgerInvariant, PTL DEF ImplementsLedger
<1>2. VaultSpec => []OwnerInv /\ []TitledOwners
  BY VaultImplementsOwnerCache, OwnerInvariant, OwnersTitled, PTL DEF ImplementsOwnerCache
<1>3. VaultSpec => []SettingsInv
  BY SettingsInitially, SettingsKept, PTL DEF VaultSpec
<1>4. LedgerInv /\ OwnerInv /\ TitledOwners => VaultInv
  BY DEF VaultInv
<1> QED
  BY <1>1, <1>2, <1>3, <1>4, PTL

\* Deposits leave the vault to their funder, after the window, or to a wallet that holds a
\* title under the deposit's verifier in the moment it is paid; constrained ones only to a
\* wallet proven in the same call.
THEOREM VaultPaysTheEntitled == VaultSpec => DepositsGoWhereTheyShould
<1>1. OwnersAreEntitled' /\ VaultInv /\ SettingsInv /\ [VaultNext]_vaultVars =>
        [\A i \in Ids :
           ~ deposits[i].consumed /\ deposits'[i].consumed =>
             \/ RefundReady(i) /\ payouts' = {}
             \/ \E p \in payouts' :
                  /\ i \in p.deposits
                  /\ p.verifier = deposits[i].verifier
                  /\ Titles(p)' # {}
                  /\ deposits[i].constraint # NoConstraint => ProvenInThisCall(p)]_vaultVars
  BY VaultSpendsWell DEF SpendsWell, ConsumesWell, Entitled
<1> QED
  BY <1>1, PayableOwnersAreEntitled, VaultInvariant, PTL DEF VaultSpec, DepositsGoWhereTheyShould

\* Money sent without a deposit is paid to nobody whose title under the default verifier is
\* older than a proof accepted through any default verifier before it.
THEOREM VaultSurplusToNewest == VaultSpec => []SurplusGoesToNewest
<1>1. VaultStart => SurplusGoesToNewest
  BY DEF VaultStart, SurplusGoesToNewest
<1>2. SurplusGoesToNewest /\ OwnersAreEntitled' /\ VaultInv /\ SettingsInv
        /\ [VaultNext]_vaultVars => SurplusGoesToNewest'
  <2> SUFFICES ASSUME SurplusGoesToNewest, OwnersAreEntitled', VaultInv, SettingsInv,
                      [VaultNext]_vaultVars
               PROVE  SurplusGoesToNewest'
    OBVIOUS
  <2>1. CASE VaultNext
    BY <2>1, VaultSpendsWell DEF SpendsWell, PaysEntitled, NewestOfDefault, SurplusGoesToNewest
  <2>2. CASE UNCHANGED vaultVars
    BY <2>2 DEF vaultVars, ownerVars, cacheVars, settings, verifierVars, SurplusGoesToNewest,
                Titles, IsAlpha
  <2> QED
    BY <2>1, <2>2
<1> QED
  BY <1>1, <1>2, PayableOwnersAreEntitled, VaultInvariant, PTL DEF VaultSpec
=============================================================================
