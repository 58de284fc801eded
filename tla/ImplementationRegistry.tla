------------------------- MODULE ImplementationRegistry -------------------------
(***************************************************************************)
(* The vault implementations of a factory (PviumP2IdVaultFactory.sol): the *)
(* registry, its one proposal slot and its 14-day notice, the vaults that  *)
(* start on the base implementation or upgrade to a registered one, and    *)
(* the two operator scripts (deploy-implementation.ts and                  *)
(* deploy-vault-implementation.ts), which prepare calldata now that the    *)
(* owner, often a multisig, submits later.                                 *)
(*                                                                         *)
(* An implementation is named by what its CREATE2 address is computed      *)
(* from: its creation code.  A definition no other one uses, placed before *)
(* one with the same parameters, is a mutant of it.                        *)
(***************************************************************************)
EXTENDS Naturals, FiniteSets

CONSTANTS
  Implementations,         \* creation codes
  Initial,                 \* the implementation the factory's constructor deploys
  Unbound,                 \* those whose factory() is another factory, or that revert
  Valid,                   \* those the scripts' layout and source checks accept
  DEFAULT_VERIFIER_DELAY,
  Vaults,
  None,
  MaxTime, MaxPrepared

ASSUME RegistryAssumption ==
  /\ Initial \in Implementations \ Unbound
  /\ DEFAULT_VERIFIER_DELAY \in Nat \ {0}
  /\ MaxTime \in Nat /\ MaxPrepared \in Nat
  /\ None \notin Implementations

VARIABLES
  now,
  deployed,          \* implementations that have code
  isRegistered,
  baseImplementation,
  proposed,          \* [implementation, makeDefault, eta]; eta is 0 when nothing is
  vaults,            \* vault -> the implementation in its slot, None before it is deployed
  prepared,          \* calldata the scripts prepared: [call, implementation, makeDefault, at]
  count,             \* how many were, a bound of the model
  announced          \* history: what stands announced now, and since when

chain == <<deployed, isRegistered, baseImplementation, proposed, vaults>>
scripts == <<prepared, count>>
registryVars == <<now, chain, scripts, announced>>

Nothing == [implementation |-> None, makeDefault |-> FALSE, eta |-> 0]

RegistryInit ==
  /\ now = 1
  /\ deployed = {Initial}
  /\ isRegistered = {Initial}
  /\ baseImplementation = Initial
  /\ proposed = Nothing
  /\ vaults = [v \in Vaults |-> None]
  /\ prepared = {}
  /\ count = 0
  /\ announced = [item \in Implementations \X BOOLEAN |-> 0]

-----------------------------------------------------------------------------
(* The factory *)

ProposeKeepingEta(i, makeDefault) ==
  proposed' = [implementation |-> i, makeDefault |-> makeDefault,
               eta |-> IF proposed.eta # 0 THEN proposed.eta ELSE now + DEFAULT_VERIFIER_DELAY]

Propose(i, makeDefault) ==
  proposed' = [implementation |-> i, makeDefault |-> makeDefault,
               eta |-> now + DEFAULT_VERIFIER_DELAY]

\* Deploy, or find, the code; keep an identical pending proposal, refuse beside another one.
deployVaultImplementation(i, makeDefault) ==
  /\ i \notin Unbound
  /\ proposed.eta # 0 => proposed.implementation = i /\ proposed.makeDefault = makeDefault
  /\ deployed' = deployed \union {i}
  /\ IF \/ proposed.eta # 0
        \/ i \in isRegistered /\ (~ makeDefault \/ baseImplementation = i)
     THEN UNCHANGED proposed
     ELSE Propose(i, makeDefault)
  /\ UNCHANGED <<isRegistered, baseImplementation, vaults>>

proposeImplementation(i) ==
  /\ i \in deployed \ (isRegistered \union Unbound)
  /\ Propose(i, FALSE)
  /\ UNCHANGED <<deployed, isRegistered, baseImplementation, vaults>>

proposeDefaultImplementation(i) ==
  /\ i \in isRegistered \ ({baseImplementation} \union Unbound)
  /\ Propose(i, TRUE)
  /\ UNCHANGED <<deployed, isRegistered, baseImplementation, vaults>>

cancelImplementationProposal ==
  /\ proposed.eta # 0
  /\ proposed' = Nothing
  /\ UNCHANGED <<deployed, isRegistered, baseImplementation, vaults>>

MakesDefaultOnly ==
  /\ proposed.eta # 0 /\ now >= proposed.eta
  /\ proposed.implementation \in deployed \ Unbound
  /\ proposed' = Nothing
  /\ IF proposed.makeDefault
     THEN baseImplementation' = proposed.implementation /\ UNCHANGED isRegistered
     ELSE isRegistered' = isRegistered \union {proposed.implementation} /\ UNCHANGED baseImplementation
  /\ UNCHANGED <<deployed, vaults>>

registerImplementation ==
  /\ proposed.eta # 0 /\ now >= proposed.eta
  /\ proposed.implementation \in deployed \ Unbound
  /\ proposed' = Nothing
  /\ isRegistered' = isRegistered \union {proposed.implementation}
  /\ baseImplementation' =
       IF proposed.makeDefault THEN proposed.implementation ELSE baseImplementation
  /\ UNCHANGED <<deployed, vaults>>

revokeImplementation(i) ==
  /\ i \in isRegistered \ {baseImplementation, Initial}
  /\ isRegistered' = isRegistered \ {i}
  /\ UNCHANGED <<deployed, baseImplementation, proposed, vaults>>

\* A vault starts on the base implementation, which its proxy does not look up in the registry.
deployVault(v) ==
  /\ vaults[v] = None
  /\ vaults' = [vaults EXCEPT ![v] = baseImplementation]
  /\ UNCHANGED <<deployed, isRegistered, baseImplementation, proposed>>

\* Its owner moves it to a registered one (the proof and the hook are OwnerCache's).
upgradeTo(v, i) ==
  /\ vaults[v] \notin {None, i} /\ i \in isRegistered
  /\ vaults' = [vaults EXCEPT ![v] = i]
  /\ UNCHANGED <<deployed, isRegistered, baseImplementation, proposed>>

\* Anybody deploys anything: proposeImplementation takes code the factory did not create.
DeployElsewhere(i) ==
  /\ i \notin deployed
  /\ deployed' = deployed \union {i}
  /\ UNCHANGED <<isRegistered, baseImplementation, proposed, vaults>>

-----------------------------------------------------------------------------
(* The scripts *)

Prepare(call, i, makeDefault) ==
  /\ count < MaxPrepared
  /\ count' = count + 1
  /\ prepared' = prepared \union
       {[call |-> call, implementation |-> i, makeDefault |-> makeDefault, at |-> now]}

\* Both scripts: check the candidate, predict its address, encode the call.  The second one
\* (and a broadcast by the first) simulates it, which refuses beside another proposal.
prepareDeployment(i, makeDefault) ==
  /\ i \in Valid
  /\ Prepare("deployVaultImplementation", i, makeDefault)
  /\ UNCHANGED <<now, chain>>

\* ACTION=activate: what is proposed must be the candidate, with its notice over.
prepareActivation(i, makeDefault) ==
  /\ i \in Valid
  /\ proposed.implementation = i /\ proposed.makeDefault = makeDefault
  /\ proposed.eta # 0 /\ now >= proposed.eta
  /\ Prepare("registerImplementation", i, makeDefault)
  /\ UNCHANGED <<now, chain>>

\* REGISTER=1: whatever is proposed.
prepareRegistration ==
  /\ proposed.eta # 0
  /\ Prepare("registerImplementation", None, FALSE)
  /\ UNCHANGED <<now, chain>>

\* The owner submits prepared calldata, at once or much later.
Submit(p) ==
  /\ \/ /\ p.call = "deployVaultImplementation"
        /\ deployVaultImplementation(p.implementation, p.makeDefault)
     \/ /\ p.call = "registerImplementation"
        /\ registerImplementation
  /\ prepared' = prepared \ {p}
  /\ UNCHANGED <<now, count>>

\* A transaction that would revert, or is no longer wanted.
Discard(p) ==
  /\ prepared' = prepared \ {p}
  /\ UNCHANGED <<now, chain, count>>

-----------------------------------------------------------------------------
Call ==
  \/ \E i \in Implementations :
       \/ \E makeDefault \in BOOLEAN : deployVaultImplementation(i, makeDefault)
       \/ proposeImplementation(i)
       \/ proposeDefaultImplementation(i)
       \/ revokeImplementation(i)
       \/ DeployElsewhere(i)
  \/ cancelImplementationProposal
  \/ registerImplementation

Step ==
  \/ Call /\ UNCHANGED <<now, scripts>>
  \/ \E v \in Vaults :
       /\ deployVault(v) \/ \E i \in Implementations : upgradeTo(v, i)
       /\ UNCHANGED <<now, scripts>>
  \/ \E i \in Implementations, makeDefault \in BOOLEAN :
       prepareDeployment(i, makeDefault) \/ prepareActivation(i, makeDefault)
  \/ prepareRegistration
  \/ \E p \in prepared : Submit(p) \/ Discard(p)
  \/ now < MaxTime /\ now' = now + 1 /\ UNCHANGED <<chain, scripts>>

\* What everybody can see announced, and since when without interruption.
Announced(item) == proposed.eta # 0 /\ item = <<proposed.implementation, proposed.makeDefault>>
Observe ==
  announced' = [item \in Implementations \X BOOLEAN |->
                  IF ~ Announced(item)' THEN 0 ELSE IF Announced(item) THEN announced[item] ELSE now]

RegistryNext == Step /\ Observe
RegistrySpec == RegistryInit /\ [][RegistryNext]_registryVars
===============================================================================
