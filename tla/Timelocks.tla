------------------------------- MODULE Timelocks -------------------------------
(***************************************************************************)
(* The other announced changes: the policy and the default verifier of a   *)
(* factory (PviumP2IdVaultFactory.sol), whose activations read each other's *)
(* current value, and the signer keys of a PviumIdentity verifier, which   *)
(* anybody may activate and the owner may remove meanwhile.  A policy's    *)
(* approvals (PviumP2IDPolicy.sol) change at once.                         *)
(*                                                                         *)
(* Calls are their owner's but for activateSignerKey.  A definition no     *)
(* other one uses, placed before one with the same parameters, is a mutant *)
(* of it.                                                                  *)
(***************************************************************************)
EXTENDS Naturals, FiniteSets

CONSTANTS
  Policies, KeyVerifiers,           \* policy contracts, verifier contracts
  SignerKeys,
  FirstPolicy, FirstVerifier,       \* what the constructors begin with
  FirstKeys,
  POLICY_DELAY, VERIFIER_DELAY, SIGNER_KEY_DELAY,
  MaxNoticeTime

ASSUME TimelocksAssumption ==
  /\ FirstPolicy \in Policies /\ FirstVerifier \in KeyVerifiers /\ FirstKeys \subseteq SignerKeys
  /\ POLICY_DELAY \in Nat \ {0} /\ VERIFIER_DELAY \in Nat \ {0} /\ SIGNER_KEY_DELAY \in Nat \ {0}
  /\ MaxNoticeTime \in Nat

VARIABLES
  clock,
  approved,          \* policy -> the verifiers it allows
  policy, defaultVerifier, signerKeys,
  proposals,         \* item -> eta, 0 when it is not proposed
  since              \* history: item -> since when it stands announced without interruption

lockVars == <<clock, approved, policy, defaultVerifier, signerKeys, proposals, since>>

PolicyItems == {"policy"} \X Policies
DefaultItems == {"default"} \X KeyVerifiers
KeyItems == {"key"} \X SignerKeys
Items == PolicyItems \union DefaultItems \union KeyItems
Delay(item) ==
  CASE item[1] = "policy" -> POLICY_DELAY
    [] item[1] = "default" -> VERIFIER_DELAY
    [] OTHER -> SIGNER_KEY_DELAY

\* A factory has one slot for a policy and one for a default, a verifier one for each key.
Slot(item) == CASE item[1] = "policy" -> PolicyItems [] item[1] = "default" -> DefaultItems [] OTHER -> {item}

TimelocksInit ==
  /\ clock = 1
  /\ approved \in {[p \in Policies |-> IF p = FirstPolicy THEN {FirstVerifier} ELSE {}]}
  /\ policy = FirstPolicy /\ defaultVerifier = FirstVerifier /\ signerKeys = FirstKeys
  /\ proposals = [item \in Items |-> 0]
  /\ since = [item \in Items |-> 0]

-----------------------------------------------------------------------------
AnnounceAtPendingEta(item) ==
  LET pending == {proposals[i] : i \in Slot(item)} \ {0}
  IN  proposals' = [i \in Items |-> IF i = item
                                      THEN IF pending = {} THEN clock + Delay(item) ELSE CHOOSE e \in pending : TRUE
                                    ELSE IF i \in Slot(item) THEN 0 ELSE proposals[i]]

\* Takes the slot, or starts the delay of the same item again.
Announce(item) ==
  proposals' = [i \in Items |-> IF i = item THEN clock + Delay(item)
                                ELSE IF i \in Slot(item) THEN 0 ELSE proposals[i]]

Due(item) == proposals[item] # 0 /\ clock >= proposals[item]
Clear(item) == proposals' = [proposals EXCEPT ![item] = 0]

approveVerifier(p, v) ==
  /\ \/ approved' = [approved EXCEPT ![p] = @ \union {v}]
     \/ approved' = [approved EXCEPT ![p] = @ \ {v}]
  /\ UNCHANGED <<policy, defaultVerifier, signerKeys, proposals>>

proposePolicy(p) ==
  /\ Announce(<<"policy", p>>)
  /\ UNCHANGED <<approved, policy, defaultVerifier, signerKeys>>

activatePolicy(p) ==
  /\ Due(<<"policy", p>>)
  /\ defaultVerifier \in approved[p]
  /\ Clear(<<"policy", p>>)
  /\ policy' = p
  /\ UNCHANGED <<approved, defaultVerifier, signerKeys>>

proposeDefaultVerifier(v) ==
  /\ v \in approved[policy]
  /\ Announce(<<"default", v>>)
  /\ UNCHANGED <<approved, policy, defaultVerifier, signerKeys>>

\* The policy may have changed, or its mind, since the proposal.
activateDefaultVerifier(v) ==
  /\ Due(<<"default", v>>)
  /\ v \in approved[policy]
  /\ Clear(<<"default", v>>)
  /\ defaultVerifier' = v
  /\ UNCHANGED <<approved, policy, signerKeys>>

proposeSignerKey(k) ==
  /\ k \notin signerKeys
  /\ Announce(<<"key", k>>)
  /\ UNCHANGED <<approved, policy, defaultVerifier, signerKeys>>

ActivatesAndKeepsProposal(k) ==
  /\ Due(<<"key", k>>)
  /\ k \notin signerKeys
  /\ signerKeys' = signerKeys \union {k}
  /\ UNCHANGED <<approved, policy, defaultVerifier, proposals>>

activateSignerKey(k) ==
  /\ Due(<<"key", k>>)
  /\ k \notin signerKeys
  /\ Clear(<<"key", k>>)
  /\ signerKeys' = signerKeys \union {k}
  /\ UNCHANGED <<approved, policy, defaultVerifier>>

removeSignerKey(k) ==
  /\ k \in signerKeys
  /\ signerKeys' = signerKeys \ {k}
  /\ UNCHANGED <<approved, policy, defaultVerifier, proposals>>

\* cancelPolicyProposal, cancelDefaultVerifierProposal, cancelSignerKeyProposal
cancelProposal(item) ==
  /\ proposals[item] # 0
  /\ Clear(item)
  /\ UNCHANGED <<approved, policy, defaultVerifier, signerKeys>>

-----------------------------------------------------------------------------
Act ==
  \/ \E p \in Policies, v \in KeyVerifiers : approveVerifier(p, v)
  \/ \E p \in Policies : proposePolicy(p) \/ activatePolicy(p)
  \/ \E v \in KeyVerifiers : proposeDefaultVerifier(v) \/ activateDefaultVerifier(v)
  \/ \E k \in SignerKeys : proposeSignerKey(k) \/ activateSignerKey(k) \/ removeSignerKey(k)
  \/ \E item \in Items : cancelProposal(item)

InForce(item) ==
  CASE item[1] = "policy" -> policy = item[2]
    [] item[1] = "default" -> defaultVerifier = item[2]
    [] OTHER -> item[2] \in signerKeys

\* An announcement ends when it is withdrawn, replaced, or carried out.
Watch ==
  since' = [item \in Items |-> IF proposals'[item] = 0 THEN 0
                               ELSE IF InForce(item)' /\ ~ InForce(item) THEN 0
                               ELSE IF since[item] = 0 THEN clock ELSE since[item]]

TimelocksNext ==
  /\ \/ Act /\ UNCHANGED clock
     \/ /\ clock < MaxNoticeTime
        /\ clock' = clock + 1
        /\ UNCHANGED <<approved, policy, defaultVerifier, signerKeys, proposals>>
  /\ Watch

TimelocksSpec == TimelocksInit /\ [][TimelocksNext]_lockVars
===============================================================================
