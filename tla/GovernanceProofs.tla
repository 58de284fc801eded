--------------------------- MODULE GovernanceProofs ---------------------------
(***************************************************************************)
(* Proofs about the announced changes: the implementation registry, for    *)
(* any implementations, vaults and delay, and the timelocks of policies,   *)
(* default verifiers and signer keys, for any of those and any delays; and *)
(* about the calls back into a vault: deposits stay backed and upgrades    *)
(* whole whatever is called back, to any depth, for any deposits, amounts, *)
(* implementations and owners.                                             *)
(***************************************************************************)
EXTENDS GovernanceProps, CallStackProps, SequenceTheorems, TLAPS

-----------------------------------------------------------------------------
(* The registry *)

Calls ==
  [call: {"deployVaultImplementation"}, implementation: Implementations, makeDefault: BOOLEAN, at: Nat]
    \union [call: {"registerImplementation"}, implementation: Implementations \union {None},
            makeDefault: BOOLEAN, at: Nat]

RegistryTypeOK ==
  /\ now \in Nat \ {0}
  /\ deployed \subseteq Implementations
  /\ isRegistered \subseteq Implementations
  /\ baseImplementation \in Implementations
  /\ proposed \in [implementation: Implementations \union {None}, makeDefault: BOOLEAN, eta: Nat]
  /\ vaults \in [Vaults -> Implementations \union {None}]
  /\ prepared \subseteq Calls
  /\ announced \in [Implementations \X BOOLEAN -> Nat]

\* All of the registry's part of the invariant but what concerns time.
RegistryInv == RegistryTypeOK /\ BaseStaysRegistered

\* What is proposed was announced a whole delay before it may be registered.
ProposedWithNotice ==
  proposed.eta # 0 =>
    LET item == <<proposed.implementation, proposed.makeDefault>>
    IN  /\ item \in Implementations \X BOOLEAN
        /\ announced[item] # 0
        /\ announced[item] <= now
        /\ announced[item] + DEFAULT_VERIFIER_DELAY <= proposed.eta

\* Prepared activations are of the past, and what they would register within the delay is what
\* was proposed when they were prepared.
ActivationsMatch ==
  \A p \in prepared :
    /\ p.at <= now
    /\ p.call = "registerImplementation" /\ p.implementation # None /\ proposed.eta # 0 =>
         \/ proposed.eta >= p.at + DEFAULT_VERIFIER_DELAY
         \/ proposed.implementation = p.implementation /\ proposed.makeDefault = p.makeDefault

RegistryIInv == RegistryInv /\ ProposedWithNotice /\ ActivationsMatch

\* Every step of the chain, in what it does to the proposal slot.
Proposes ==
  \E i \in Implementations, makeDefault \in BOOLEAN : Propose(i, makeDefault)

\* deployVaultImplementation keeps the pending proposal or makes one.
LEMMA DeployingProposes ==
  ASSUME RegistryInv, NEW i \in Implementations, NEW makeDefault \in BOOLEAN,
         deployVaultImplementation(i, makeDefault)
  PROVE  /\ proposed' = proposed \/ Proposes
         /\ deployed' = deployed \union {i} /\ i \notin Unbound
         /\ UNCHANGED <<isRegistered, baseImplementation, vaults>>
BY DEF deployVaultImplementation, Proposes

\* A registration empties the slot and registers bound code that is deployed.
LEMMA Registering ==
  ASSUME RegistryInv, registerImplementation
  PROVE  /\ proposed' = Nothing
         /\ proposed.implementation \in deployed \ Unbound
         /\ isRegistered' = isRegistered \union {proposed.implementation}
         /\ baseImplementation' \in {baseImplementation, proposed.implementation}
         /\ UNCHANGED <<deployed, vaults>>
BY DEF registerImplementation

\* The slot is kept, emptied or filled with a proposal that starts its delay now.
LEMMA SlotSteps ==
  ASSUME RegistryInv, Step
  PROVE  \/ proposed' = proposed /\ (now' = now \/ now' = now + 1)
         \/ proposed' = Nothing /\ now' = now
         \/ Proposes /\ now' = now
<1>1. CASE Call /\ UNCHANGED <<now, scripts>>
  <2>1. CASE \E i \in Implementations, makeDefault \in BOOLEAN : deployVaultImplementation(i, makeDefault)
    BY <1>1, <2>1, DeployingProposes
  <2>2. CASE \E i \in Implementations : proposeImplementation(i) \/ proposeDefaultImplementation(i)
    BY <1>1, <2>2 DEF proposeImplementation, proposeDefaultImplementation, Proposes
  <2>3. CASE \E i \in Implementations : revokeImplementation(i) \/ DeployElsewhere(i)
    BY <1>1, <2>3 DEF revokeImplementation, DeployElsewhere
  <2>4. CASE cancelImplementationProposal
    BY <1>1, <2>4 DEF cancelImplementationProposal
  <2>5. CASE registerImplementation
    BY <1>1, <2>5, Registering
  <2> QED  BY <1>1, <2>1, <2>2, <2>3, <2>4, <2>5 DEF Call
<1>2. CASE \E v \in Vaults : /\ deployVault(v) \/ \E i \in Implementations : upgradeTo(v, i)
                             /\ UNCHANGED <<now, scripts>>
  BY <1>2 DEF deployVault, upgradeTo
<1>3. CASE \E i \in Implementations, makeDefault \in BOOLEAN :
             prepareDeployment(i, makeDefault) \/ prepareActivation(i, makeDefault)
  BY <1>3 DEF prepareDeployment, prepareActivation, chain
<1>4. CASE prepareRegistration
  BY <1>4 DEF prepareRegistration, chain
<1>5. CASE \E p \in prepared : Submit(p) \/ Discard(p)
  <2>1. PICK p \in prepared : Submit(p) \/ Discard(p)  BY <1>5
  <2>2. CASE Discard(p)  BY <2>2 DEF Discard, chain
  <2>3. CASE /\ Submit(p) /\ p.call = "deployVaultImplementation"
            /\ deployVaultImplementation(p.implementation, p.makeDefault)
    <3>1. p.implementation \in Implementations /\ p.makeDefault \in BOOLEAN
      <4>1. p.call = "deployVaultImplementation" /\ p \in Calls
        BY <2>3 DEF Submit, RegistryInv, RegistryTypeOK
      <4> QED  BY <4>1 DEF Calls
    <3> QED  BY <2>3, <3>1, DeployingProposes DEF Submit
  <2>4. CASE Submit(p) /\ registerImplementation
    BY <2>4, Registering DEF Submit
  <2> QED  BY <2>1, <2>2, <2>3, <2>4 DEF Submit
<1>6. CASE now < MaxTime /\ now' = now + 1 /\ UNCHANGED <<chain, scripts>>
  BY <1>6 DEF chain
<1> QED  BY <1>1, <1>2, <1>3, <1>4, <1>5, <1>6 DEF Step

LEMMA RegistryInitially == RegistryInit => RegistryIInv
<1> SUFFICES ASSUME RegistryInit PROVE RegistryIInv
  OBVIOUS
<1>1. RegistryTypeOK
  BY RegistryAssumption DEF RegistryInit, RegistryTypeOK, Nothing
<1>2. BaseStaysRegistered
  BY RegistryAssumption DEF RegistryInit, BaseStaysRegistered
<1>3. ProposedWithNotice /\ ActivationsMatch
  BY DEF RegistryInit, ProposedWithNotice, ActivationsMatch, Nothing
<1> QED  BY <1>1, <1>2, <1>3 DEF RegistryIInv, RegistryInv

LEMMA ProposingKeepsTypes ==
  ASSUME RegistryTypeOK, proposed' = proposed \/ Proposes \/ proposed' = Nothing
  PROVE  proposed' \in [implementation: Implementations \union {None}, makeDefault: BOOLEAN, eta: Nat]
<1>1. CASE Proposes
  <2>1. PICK i \in Implementations, makeDefault \in BOOLEAN : Propose(i, makeDefault)
    BY <1>1 DEF Proposes
  <2>2. now + DEFAULT_VERIFIER_DELAY \in Nat
    BY RegistryAssumption DEF RegistryTypeOK
  <2> QED  BY <2>1, <2>2 DEF Propose
<1>2. CASE proposed' = Nothing
  BY <1>2 DEF Nothing
<1>3. CASE proposed' = proposed
  BY <1>3 DEF RegistryTypeOK
<1> QED  BY <1>1, <1>2, <1>3

LEMMA ObservingKeepsTypes ==
  ASSUME RegistryTypeOK, Observe
  PROVE  announced' \in [Implementations \X BOOLEAN -> Nat]
BY DEF Observe, RegistryTypeOK

\* What the registry's calls keep: bound code that is deployed, with the base in it.
RegistryKept ==
  /\ deployed' \subseteq Implementations
  /\ isRegistered' \subseteq Implementations
  /\ baseImplementation' \in Implementations
  /\ vaults' \in [Vaults -> Implementations \union {None}]
  /\ BaseStaysRegistered'

LEMMA UnchangedKeeps ==
  ASSUME RegistryInv, UNCHANGED <<deployed, isRegistered, baseImplementation, vaults>>
  PROVE  RegistryKept
BY DEF RegistryInv, RegistryTypeOK, BaseStaysRegistered, RegistryKept

LEMMA DeployingKeeps ==
  ASSUME RegistryInv, NEW i \in Implementations, deployed' = deployed \union {i},
         UNCHANGED <<isRegistered, baseImplementation, vaults>>
  PROVE  RegistryKept
BY DEF RegistryInv, RegistryTypeOK, BaseStaysRegistered, RegistryKept

LEMMA RegisteringKeeps ==
  ASSUME RegistryInv, registerImplementation
  PROVE  RegistryKept
<1>1. proposed.implementation \in Implementations
  BY Registering DEF RegistryInv, RegistryTypeOK
<1> QED  BY <1>1, Registering DEF RegistryInv, RegistryTypeOK, BaseStaysRegistered, RegistryKept

LEMMA RevokingKeeps ==
  ASSUME RegistryInv, NEW i \in Implementations, revokeImplementation(i)
  PROVE  RegistryKept
BY DEF revokeImplementation, RegistryInv, RegistryTypeOK, BaseStaysRegistered, RegistryKept

LEMMA VaultsKeep ==
  ASSUME RegistryInv, NEW v \in Vaults, NEW i \in Implementations, i \in isRegistered,
         vaults' = [vaults EXCEPT ![v] = i],
         UNCHANGED <<deployed, isRegistered, baseImplementation>>
  PROVE  RegistryKept
<1>1. vaults' \in [Vaults -> Implementations \union {None}]
  BY DEF RegistryInv, RegistryTypeOK
<1>2. \A w \in Vaults : vaults'[w] # None => vaults'[w] \in deployed \ Unbound
  BY DEF RegistryInv, RegistryTypeOK, BaseStaysRegistered
<1> QED  BY <1>1, <1>2 DEF RegistryInv, RegistryTypeOK, BaseStaysRegistered, RegistryKept

LEMMA StepsKeepRegistry ==
  ASSUME RegistryInv, Step
  PROVE  RegistryKept
<1>1. CASE Call /\ UNCHANGED <<now, scripts>>
  <2>1. CASE \E i \in Implementations, makeDefault \in BOOLEAN : deployVaultImplementation(i, makeDefault)
    BY <2>1, DeployingProposes, DeployingKeeps
  <2>2. CASE \E i \in Implementations : proposeImplementation(i) \/ proposeDefaultImplementation(i)
    BY <2>2, UnchangedKeeps DEF proposeImplementation, proposeDefaultImplementation
  <2>3. CASE \E i \in Implementations : revokeImplementation(i)
    BY <2>3, RevokingKeeps
  <2>4. CASE \E i \in Implementations : DeployElsewhere(i)
    BY <2>4, DeployingKeeps DEF DeployElsewhere
  <2>5. CASE cancelImplementationProposal
    BY <2>5, UnchangedKeeps DEF cancelImplementationProposal
  <2>6. CASE registerImplementation
    BY <2>6, RegisteringKeeps
  <2> QED  BY <1>1, <2>1, <2>2, <2>3, <2>4, <2>5, <2>6 DEF Call
<1>2. CASE \E v \in Vaults : /\ deployVault(v) \/ \E i \in Implementations : upgradeTo(v, i)
                             /\ UNCHANGED <<now, scripts>>
  <2>1. PICK v \in Vaults : deployVault(v) \/ \E i \in Implementations : upgradeTo(v, i)  BY <1>2
  <2>2. CASE deployVault(v)
    BY <2>2, VaultsKeep DEF deployVault, RegistryInv, RegistryTypeOK, BaseStaysRegistered
  <2>3. CASE \E i \in Implementations : upgradeTo(v, i)
    BY <2>3, VaultsKeep DEF upgradeTo
  <2> QED  BY <2>1, <2>2, <2>3
<1>3. CASE \E i \in Implementations, makeDefault \in BOOLEAN :
             prepareDeployment(i, makeDefault) \/ prepareActivation(i, makeDefault)
  BY <1>3, UnchangedKeeps DEF prepareDeployment, prepareActivation, chain
<1>4. CASE prepareRegistration
  BY <1>4, UnchangedKeeps DEF prepareRegistration, chain
<1>5. CASE \E p \in prepared : Submit(p) \/ Discard(p)
  <2>1. PICK p \in prepared : Submit(p) \/ Discard(p)  BY <1>5
  <2>2. CASE Discard(p)  BY <2>2, UnchangedKeeps DEF Discard, chain
  <2>3. CASE /\ Submit(p) /\ p.call = "deployVaultImplementation"
             /\ deployVaultImplementation(p.implementation, p.makeDefault)
    <3>1. p.implementation \in Implementations /\ p.makeDefault \in BOOLEAN
      <4>1. p \in Calls  BY DEF RegistryInv, RegistryTypeOK
      <4> QED  BY <2>3, <4>1 DEF Calls
    <3> QED  BY <2>3, <3>1, DeployingProposes, DeployingKeeps
  <2>4. CASE Submit(p) /\ registerImplementation
    BY <2>4, RegisteringKeeps
  <2> QED  BY <2>1, <2>2, <2>3, <2>4 DEF Submit
<1>6. CASE now < MaxTime /\ now' = now + 1 /\ UNCHANGED <<chain, scripts>>
  BY <1>6, UnchangedKeeps DEF chain
<1> QED  BY <1>1, <1>2, <1>3, <1>4, <1>5, <1>6 DEF Step

\* Calls are prepared in the present, an activation for what is proposed then.
PreparesNow ==
  \E p \in Calls :
    /\ p.at = now
    /\ p.call = "registerImplementation" /\ p.implementation # None =>
         proposed.implementation = p.implementation /\ proposed.makeDefault = p.makeDefault
    /\ prepared' = prepared \union {p}
    /\ UNCHANGED <<now, chain>>

LEMMA ScriptSteps ==
  ASSUME RegistryInv, Step
  PROVE  PreparesNow \/ prepared' \subseteq prepared
<1> now \in Nat  BY DEF RegistryInv, RegistryTypeOK
<1>1. ASSUME NEW i \in Implementations, NEW makeDefault \in BOOLEAN, prepareDeployment(i, makeDefault)
      PROVE  PreparesNow
  <2> DEFINE p == [call |-> "deployVaultImplementation", implementation |-> i,
                   makeDefault |-> makeDefault, at |-> now]
  <2>1. p \in Calls  BY DEF Calls
  <2> QED  BY <1>1, <2>1 DEF prepareDeployment, Prepare, PreparesNow
<1>2. ASSUME NEW i \in Implementations, NEW makeDefault \in BOOLEAN, prepareActivation(i, makeDefault)
      PROVE  PreparesNow
  <2> DEFINE p == [call |-> "registerImplementation", implementation |-> i,
                   makeDefault |-> makeDefault, at |-> now]
  <2>1. p \in Calls  BY DEF Calls
  <2> QED  BY <1>2, <2>1 DEF prepareActivation, Prepare, PreparesNow
<1>3. ASSUME prepareRegistration PROVE PreparesNow
  <2> DEFINE p == [call |-> "registerImplementation", implementation |-> None,
                   makeDefault |-> FALSE, at |-> now]
  <2>1. p \in Calls  BY DEF Calls
  <2> QED  BY <1>3, <2>1 DEF prepareRegistration, Prepare, PreparesNow
<1>4. CASE \E p \in prepared : Submit(p) \/ Discard(p)
  BY <1>4 DEF Submit, Discard
<1> QED  BY <1>1, <1>2, <1>3, <1>4 DEF Step, scripts

LEMMA RegistryInvStep ==
  ASSUME RegistryInv, RegistryNext
  PROVE  RegistryInv'
<1> USE DEF RegistryNext
<1>1. RegistryKept  BY StepsKeepRegistry
<1>2. proposed' \in [implementation: Implementations \union {None}, makeDefault: BOOLEAN, eta: Nat]
  BY SlotSteps, ProposingKeepsTypes DEF RegistryInv
<1>3. now' \in Nat \ {0}
  BY SlotSteps DEF RegistryInv, RegistryTypeOK
<1>4. prepared' \subseteq Calls
  BY ScriptSteps DEF RegistryInv, RegistryTypeOK, PreparesNow
<1>5. announced' \in [Implementations \X BOOLEAN -> Nat]
  BY ObservingKeepsTypes DEF RegistryInv
<1> QED  BY <1>1, <1>2, <1>3, <1>4, <1>5 DEF RegistryInv, RegistryTypeOK, RegistryKept

LEMMA NoticeStep ==
  ASSUME RegistryIInv, RegistryNext
  PROVE  ProposedWithNotice'
<1> SUFFICES ASSUME proposed'.eta # 0
             PROVE  LET item == <<proposed'.implementation, proposed'.makeDefault>>
                    IN  /\ item \in Implementations \X BOOLEAN
                        /\ announced'[item] # 0
                        /\ announced'[item] <= now'
                        /\ announced'[item] + DEFAULT_VERIFIER_DELAY <= proposed'.eta
  BY DEF ProposedWithNotice
<1> DEFINE item == <<proposed'.implementation, proposed'.makeDefault>>
<1>1. /\ now \in Nat \ {0} /\ DEFAULT_VERIFIER_DELAY \in Nat /\ now' \in {now, now + 1}
      /\ announced \in [Implementations \X BOOLEAN -> Nat]
  BY SlotSteps, RegistryAssumption DEF RegistryIInv, RegistryInv, RegistryTypeOK, RegistryNext
<1>2. ASSUME item \in Implementations \X BOOLEAN
      PROVE  announced'[item] = IF Announced(item) THEN announced[item] ELSE now
  BY <1>2 DEF RegistryNext, Observe, Announced
<1>3. CASE proposed' = proposed
  <2>1. /\ item \in Implementations \X BOOLEAN /\ Announced(item)
        /\ announced[item] # 0 /\ announced[item] <= now
        /\ announced[item] + DEFAULT_VERIFIER_DELAY <= proposed.eta
    BY <1>3 DEF RegistryIInv, ProposedWithNotice, Announced
  <2>2. announced[item] \in Nat  BY <1>1, <2>1
  <2> HIDE DEF item
  <2>3. announced'[item] = announced[item] BY <1>2, <2>1
  <2>4. announced[item] <= now' BY <1>1, <2>1, <2>2
  <2> QED  BY <1>3, <2>1, <2>3, <2>4 DEF item
<1>4. CASE Proposes /\ now' = now
  <2>1. PICK i \in Implementations, makeDefault \in BOOLEAN : Propose(i, makeDefault)
    BY <1>4 DEF Proposes
  <2>2. /\ proposed'.eta = now + DEFAULT_VERIFIER_DELAY
        /\ item \in Implementations \X BOOLEAN
    BY <2>1 DEF Propose
  <2>3. announced'[item] \in Nat /\ announced'[item] # 0 /\ announced'[item] <= now
    <3>1. CASE Announced(item)
      <4>1. announced[item] # 0 /\ announced[item] <= now
        BY <3>1 DEF RegistryIInv, ProposedWithNotice, Announced
      <4> QED  BY <1>1, <1>2, <2>2, <3>1, <4>1
    <3>2. CASE ~ Announced(item)
      BY <1>1, <1>2, <2>2, <3>2
    <3> QED  BY <3>1, <3>2
  <2> HIDE DEF item
  <2>4. announced'[item] + DEFAULT_VERIFIER_DELAY <= now + DEFAULT_VERIFIER_DELAY
    BY <1>1, <2>3
  <2> QED  BY <1>4, <2>2, <2>3, <2>4 DEF item
<1>5. CASE proposed' = Nothing
  BY <1>5 DEF Nothing
<1> QED  BY <1>3, <1>4, <1>5, SlotSteps DEF RegistryNext, RegistryIInv

LEMMA ActivationsStep ==
  ASSUME RegistryIInv, RegistryNext
  PROVE  ActivationsMatch'
<1> SUFFICES ASSUME NEW p \in prepared'
             PROVE  /\ p.at <= now'
                    /\ p.call = "registerImplementation" /\ p.implementation # None /\ proposed'.eta # 0 =>
                         \/ proposed'.eta >= p.at + DEFAULT_VERIFIER_DELAY
                         \/ proposed'.implementation = p.implementation /\ proposed'.makeDefault = p.makeDefault
  BY DEF ActivationsMatch
<1>1. /\ now \in Nat /\ DEFAULT_VERIFIER_DELAY \in Nat /\ now' \in {now, now + 1}
  BY SlotSteps, RegistryAssumption DEF RegistryIInv, RegistryInv, RegistryTypeOK, RegistryNext
<1>2. p.at \in Nat
  <2>1. RegistryInv'  BY RegistryInvStep DEF RegistryIInv
  <2>2. p \in Calls  BY <2>1 DEF RegistryInv, RegistryTypeOK
  <2> QED  BY <2>2 DEF Calls
<1>3. CASE p \in prepared
  <2>1. p.at <= now  BY <1>3 DEF RegistryIInv, ActivationsMatch
  <2>2. CASE proposed' = proposed
    BY <1>1, <1>2, <1>3, <2>1, <2>2 DEF RegistryIInv, ActivationsMatch
  <2>3. CASE Proposes
    <3>1. proposed'.eta = now + DEFAULT_VERIFIER_DELAY
      BY <2>3 DEF Proposes, Propose
    <3> QED  BY <1>1, <1>2, <2>1, <3>1
  <2>4. CASE proposed' = Nothing
    BY <1>1, <1>2, <2>1, <2>4 DEF Nothing
  <2> QED  BY <2>2, <2>3, <2>4, SlotSteps DEF RegistryNext, RegistryIInv
<1>4. CASE p \notin prepared
  <2>1. PreparesNow
    BY <1>4, ScriptSteps DEF RegistryNext, RegistryIInv
  <2> QED  BY <1>1, <1>2, <1>4, <2>1 DEF PreparesNow, chain
<1> QED  BY <1>3, <1>4

\* The inductive invariant of the registry.
LEMMA RegistryIInvHolds == RegistrySpec => []RegistryIInv
<1>1. RegistryInit => RegistryIInv  BY RegistryInitially
<1>2. RegistryIInv /\ [RegistryNext]_registryVars => RegistryIInv'
  <2> SUFFICES ASSUME RegistryIInv, [RegistryNext]_registryVars PROVE RegistryIInv'
    OBVIOUS
  <2>1. CASE RegistryNext
    BY <2>1, RegistryInvStep, NoticeStep, ActivationsStep DEF RegistryIInv
  <2>2. CASE UNCHANGED registryVars
    BY <2>2 DEF registryVars, chain, scripts, RegistryIInv, RegistryInv, RegistryTypeOK, BaseStaysRegistered,
       ProposedWithNotice, ActivationsMatch
  <2> QED  BY <2>1, <2>2
<1> QED  BY <1>1, <1>2, PTL DEF RegistrySpec

\* New vaults always start on registered code, and only code of this factory gets into the
\* registry or into a vault, for any number of implementations, vaults and calls.
THEOREM BaseAlwaysRegistered == RegistrySpec => []BaseStaysRegistered
<1>1. RegistryIInv => BaseStaysRegistered  BY DEF RegistryIInv, RegistryInv
<1> QED  BY <1>1, RegistryIInvHolds, PTL

\* Only a registration extends the registry or moves the base.
LEMMA WhoRegisters ==
  ASSUME RegistryInv, Step,
         ~ (isRegistered' \subseteq isRegistered) \/ baseImplementation' # baseImplementation
  PROVE  registerImplementation
<1>1. CASE Call /\ UNCHANGED <<now, scripts>>
  BY <1>1 DEF Call, deployVaultImplementation, proposeImplementation, proposeDefaultImplementation,
     revokeImplementation, DeployElsewhere, cancelImplementationProposal
<1>2. CASE \E p \in prepared : Submit(p) \/ Discard(p)
  BY <1>2 DEF Submit, Discard, deployVaultImplementation, chain
<1>3. CASE \E v \in Vaults : /\ deployVault(v) \/ \E i \in Implementations : upgradeTo(v, i)
                             /\ UNCHANGED <<now, scripts>>
  BY <1>3 DEF deployVault, upgradeTo
<1> QED  BY <1>1, <1>2, <1>3 DEF Step, prepareDeployment, prepareActivation, prepareRegistration, chain

LEMMA RegistersWithNotice ==
  ASSUME RegistryIInv, registerImplementation
  PROVE  Noticed(<<proposed.implementation, proposed.makeDefault>>)
<1> DEFINE item == <<proposed.implementation, proposed.makeDefault>>
<1>1. proposed.eta # 0 /\ proposed.eta <= now
  BY DEF registerImplementation, RegistryIInv, RegistryInv, RegistryTypeOK
<1>2. /\ item \in Implementations \X BOOLEAN
      /\ announced[item] # 0 /\ announced[item] + DEFAULT_VERIFIER_DELAY <= proposed.eta
  BY <1>1 DEF RegistryIInv, ProposedWithNotice
<1>3. announced[item] \in Nat /\ DEFAULT_VERIFIER_DELAY \in Nat /\ now \in Nat /\ proposed.eta \in Nat
  BY <1>2, RegistryAssumption DEF RegistryIInv, RegistryInv, RegistryTypeOK
<1> QED  BY <1>1, <1>2, <1>3 DEF Noticed

\* Nothing becomes an upgrade target or the base of new vaults that did not stand announced for
\* the whole delay, whatever proposals came, went and returned before.
THEOREM RegisteringTakesNotice == RegistrySpec => RegisteredAfterNotice
<1> DEFINE A ==
      /\ \A i \in isRegistered' \ isRegistered : \E makeDefault \in BOOLEAN : Noticed(<<i, makeDefault>>)
      /\ baseImplementation' # baseImplementation => Noticed(<<baseImplementation', TRUE>>)
<1>1. RegistryIInv /\ [RegistryNext]_registryVars => [A]_registryVars
  <2> SUFFICES ASSUME RegistryIInv, RegistryNext PROVE A
    OBVIOUS
  <2>1. CASE registerImplementation
    <3>1. /\ isRegistered' = isRegistered \union {proposed.implementation}
          /\ baseImplementation' =
               IF proposed.makeDefault THEN proposed.implementation ELSE baseImplementation
          /\ proposed.makeDefault \in BOOLEAN
      BY <2>1 DEF registerImplementation, RegistryIInv, RegistryInv, RegistryTypeOK
    <3>2. Noticed(<<proposed.implementation, proposed.makeDefault>>)
      BY <2>1, RegistersWithNotice
    <3> QED  BY <3>1, <3>2
  <2>2. CASE isRegistered' \subseteq isRegistered /\ baseImplementation' = baseImplementation
    BY <2>2
  <2> QED  BY <2>1, <2>2, WhoRegisters DEF RegistryNext, RegistryIInv
<1> QED  BY <1>1, RegistryIInvHolds, PTL DEF RegistrySpec, RegisteredAfterNotice

\* Prepared activations register what the script checked, if they are submitted within the delay.
THEOREM ActivationsAreChecked == RegistrySpec => ActivatesWhatWasChecked
<1> DEFINE A ==
      \A p \in prepared :
        /\ p.call = "registerImplementation" /\ p.implementation # None
        /\ now < p.at + DEFAULT_VERIFIER_DELAY
        /\ Submit(p)
        => /\ p.implementation \in isRegistered'
           /\ isRegistered' \ isRegistered \subseteq {p.implementation}
           /\ baseImplementation' =
                IF p.makeDefault THEN p.implementation ELSE baseImplementation
<1>1. RegistryIInv => A
  <2> SUFFICES ASSUME RegistryIInv, NEW p \in prepared,
                      p.call = "registerImplementation", p.implementation # None,
                      now < p.at + DEFAULT_VERIFIER_DELAY, Submit(p)
               PROVE  /\ p.implementation \in isRegistered'
                      /\ isRegistered' \ isRegistered \subseteq {p.implementation}
                      /\ baseImplementation' =
                           IF p.makeDefault THEN p.implementation ELSE baseImplementation
    OBVIOUS
  <2>1. registerImplementation  BY DEF Submit
  <2>2. proposed.eta # 0 /\ proposed.eta <= now
    BY <2>1 DEF registerImplementation, RegistryIInv, RegistryInv, RegistryTypeOK
  <2>3. p.at \in Nat /\ now \in Nat /\ proposed.eta \in Nat /\ DEFAULT_VERIFIER_DELAY \in Nat
    <3>1. p \in Calls  BY DEF RegistryIInv, RegistryInv, RegistryTypeOK
    <3> QED  BY <3>1, RegistryAssumption DEF Calls, RegistryIInv, RegistryInv, RegistryTypeOK
  <2>4. ~ (proposed.eta >= p.at + DEFAULT_VERIFIER_DELAY)  BY <2>2, <2>3
  <2>5. proposed.implementation = p.implementation /\ proposed.makeDefault = p.makeDefault
    BY <2>2, <2>4 DEF RegistryIInv, ActivationsMatch
  <2> QED  BY <2>1, <2>5 DEF registerImplementation
<1>2. RegistryIInv => [A]_registryVars  BY <1>1
<1> QED  BY <1>2, RegistryIInvHolds, PTL DEF ActivatesWhatWasChecked

-----------------------------------------------------------------------------
(* The timelocks *)

TimelocksTypeOK ==
  /\ clock \in Nat \ {0}
  /\ approved \in [Policies -> SUBSET KeyVerifiers]
  /\ policy \in Policies /\ defaultVerifier \in KeyVerifiers /\ signerKeys \subseteq SignerKeys
  /\ proposals \in [Items -> Nat]
  /\ since \in [Items -> Nat]

\* Announcements are of the past, and a pending one is a whole delay older than its eta.
PendingWithNotice ==
  \A item \in Items :
    /\ since[item] <= clock
    /\ proposals[item] # 0 => since[item] # 0 /\ since[item] + Delay(item) <= proposals[item]

TimelocksIInv == TimelocksTypeOK /\ PendingWithNotice

LEMMA DelaysAreNat == \A item \in Items : Delay(item) \in Nat
  BY TimelocksAssumption DEF Delay

LEMMA TimelocksInitially == TimelocksInit => TimelocksIInv
  BY TimelocksAssumption DEF TimelocksInit, TimelocksIInv, TimelocksTypeOK, PendingWithNotice

\* What the calls do to the proposals, and what comes into force by them.
Announces == \E item \in Items : Announce(item) /\ \A i \in Items : InForce(i)' => InForce(i)
Clears ==
  \E item \in Items : /\ Clear(item)
                      /\ \A i \in Items : InForce(i)' /\ ~ InForce(i) => i = item /\ Due(item)
Keeps == proposals' = proposals /\ \A i \in Items : InForce(i)' => InForce(i)

LEMMA ItemsInForce ==
  /\ \A p \in Policies : <<"policy", p>> \in Items /\ (InForce(<<"policy", p>>) <=> policy = p)
  /\ \A v \in KeyVerifiers : <<"default", v>> \in Items /\ (InForce(<<"default", v>>) <=> defaultVerifier = v)
  /\ \A k \in SignerKeys : <<"key", k>> \in Items /\ (InForce(<<"key", k>>) <=> k \in signerKeys)
BY DEF Items, PolicyItems, DefaultItems, KeyItems, InForce

LEMMA NothingTakesEffect ==
  ASSUME UNCHANGED <<policy, defaultVerifier>>, signerKeys' \subseteq signerKeys
  PROVE  \A i \in Items : InForce(i)' => InForce(i)
BY DEF Items, PolicyItems, DefaultItems, KeyItems, InForce

LEMMA CallsByKind ==
  ASSUME TimelocksTypeOK, Act
  PROVE  Announces \/ Clears \/ Keeps
<1>1. CASE \E p \in Policies, v \in KeyVerifiers : approveVerifier(p, v)
  BY <1>1, NothingTakesEffect DEF approveVerifier, Keeps
<1>2. ASSUME NEW p \in Policies, proposePolicy(p) PROVE Announces
  BY <1>2, NothingTakesEffect, ItemsInForce DEF proposePolicy, Announces
<1>3. ASSUME NEW p \in Policies, activatePolicy(p) PROVE Clears
  <2>1. \A i \in Items : InForce(i)' /\ ~ InForce(i) => i = <<"policy", p>>
    BY <1>3 DEF activatePolicy, Items, PolicyItems, DefaultItems, KeyItems, InForce
  <2> QED  BY <1>3, <2>1, ItemsInForce DEF activatePolicy, Clears
<1>4. ASSUME NEW v \in KeyVerifiers, proposeDefaultVerifier(v) PROVE Announces
  BY <1>4, NothingTakesEffect, ItemsInForce DEF proposeDefaultVerifier, Announces
<1>5. ASSUME NEW v \in KeyVerifiers, activateDefaultVerifier(v) PROVE Clears
  <2>1. \A i \in Items : InForce(i)' /\ ~ InForce(i) => i = <<"default", v>>
    BY <1>5 DEF activateDefaultVerifier, Items, PolicyItems, DefaultItems, KeyItems, InForce
  <2> QED  BY <1>5, <2>1, ItemsInForce DEF activateDefaultVerifier, Clears
<1>6. ASSUME NEW k \in SignerKeys, proposeSignerKey(k) PROVE Announces
  BY <1>6, NothingTakesEffect, ItemsInForce DEF proposeSignerKey, Announces
<1>7. ASSUME NEW k \in SignerKeys, activateSignerKey(k) PROVE Clears
  <2>1. \A i \in Items : InForce(i)' /\ ~ InForce(i) => i = <<"key", k>>
    BY <1>7 DEF activateSignerKey, Items, PolicyItems, DefaultItems, KeyItems, InForce
  <2> QED  BY <1>7, <2>1, ItemsInForce DEF activateSignerKey, Clears
<1>8. ASSUME NEW k \in SignerKeys, removeSignerKey(k) PROVE Keeps
  BY <1>8, NothingTakesEffect DEF removeSignerKey, Keeps
<1>9. ASSUME NEW item \in Items, cancelProposal(item) PROVE Clears
  BY <1>9, NothingTakesEffect DEF cancelProposal, Clears
<1> QED  BY <1>1, <1>2, <1>3, <1>4, <1>5, <1>6, <1>7, <1>8, <1>9 DEF Act

LEMMA CallsKeepTypes ==
  ASSUME TimelocksTypeOK, Act
  PROVE  /\ approved' \in [Policies -> SUBSET KeyVerifiers]
         /\ policy' \in Policies /\ defaultVerifier' \in KeyVerifiers /\ signerKeys' \subseteq SignerKeys
BY DEF TimelocksTypeOK, Act, approveVerifier, proposePolicy, activatePolicy, proposeDefaultVerifier,
   activateDefaultVerifier, proposeSignerKey, activateSignerKey, removeSignerKey, cancelProposal

LEMMA ProposalsKeepType ==
  ASSUME TimelocksTypeOK, Announces \/ Clears \/ Keeps
  PROVE  proposals' \in [Items -> Nat]
<1>1. CASE Announces
  <2>1. PICK item \in Items : Announce(item)  BY <1>1 DEF Announces
  <2>2. clock + Delay(item) \in Nat  BY DelaysAreNat DEF TimelocksTypeOK
  <2> QED  BY <2>1, <2>2 DEF Announce, TimelocksTypeOK
<1> QED  BY <1>1 DEF Clears, Clear, Keeps, TimelocksTypeOK

\* What somebody watching the contracts records of one item.
LEMMA Watching ==
  ASSUME TimelocksIInv, Watch, NEW item \in Items
  PROVE  /\ since'[item] \in Nat
         /\ since'[item] <= clock
         /\ proposals'[item] = 0 => since'[item] = 0
         /\ proposals'[item] # 0 /\ ~ (InForce(item)' /\ ~ InForce(item)) => since'[item] # 0
         /\ proposals'[item] # 0 /\ since[item] # 0 => since'[item] \in {0, since[item]}
<1> DEFINE risen == InForce(item)' /\ ~ InForce(item)
<1>1. since'[item] = IF proposals'[item] = 0 THEN 0 ELSE IF risen THEN 0
                     ELSE IF since[item] = 0 THEN clock ELSE since[item]
  BY DEF Watch
<1> HIDE DEF risen
<1>2. since[item] \in Nat /\ since[item] <= clock /\ clock \in Nat \ {0}
  BY DEF TimelocksIInv, TimelocksTypeOK, PendingWithNotice
<1>3. /\ since'[item] \in Nat
      /\ since'[item] <= clock
      /\ proposals'[item] = 0 => since'[item] = 0
      /\ proposals'[item] # 0 /\ ~ risen => since'[item] # 0
      /\ proposals'[item] # 0 /\ since[item] # 0 => since'[item] \in {0, since[item]}
  BY <1>1, <1>2
<1> QED  BY <1>3 DEF risen

\* A call or a tick that leaves every pending proposal with its notice.
LEMMA PendingStep ==
  ASSUME TimelocksIInv, Watch, clock' \in {clock, clock + 1}, Announces \/ Clears \/ Keeps
  PROVE  PendingWithNotice'
<1> SUFFICES ASSUME NEW item \in Items
             PROVE  /\ since'[item] <= clock'
                    /\ proposals'[item] # 0 =>
                         since'[item] # 0 /\ since'[item] + Delay(item) <= proposals'[item]
  BY DEF PendingWithNotice, Delay
<1>1. /\ clock \in Nat /\ since[item] \in Nat /\ since'[item] \in Nat /\ Delay(item) \in Nat
      /\ since'[item] <= clock /\ proposals[item] \in Nat
  BY Watching, DelaysAreNat DEF TimelocksIInv, TimelocksTypeOK
<1>2. since'[item] <= clock'  BY <1>1
<1>3. ASSUME proposals'[item] # 0, proposals'[item] = proposals[item], ~ (InForce(item)' /\ ~ InForce(item))
      PROVE  since'[item] # 0 /\ since'[item] + Delay(item) <= proposals'[item]
  <2>1. since[item] # 0 /\ since[item] + Delay(item) <= proposals[item]
    BY <1>3 DEF TimelocksIInv, PendingWithNotice
  <2>2. since'[item] = since[item] /\ since'[item] # 0
    BY <1>3, <2>1, Watching
  <2> QED  BY <1>3, <2>1, <2>2
<1>4. ASSUME Announces, proposals'[item] # 0
      PROVE  since'[item] # 0 /\ since'[item] + Delay(item) <= proposals'[item]
  <2>1. PICK i \in Items : Announce(i)  BY <1>4 DEF Announces
  <2>2. ~ (InForce(item)' /\ ~ InForce(item))  BY <1>4 DEF Announces
  <2>3. CASE i = item
    <3>1. proposals'[item] = clock + Delay(item)  BY <2>1, <2>3 DEF Announce
    <3>2. since'[item] # 0  BY <1>4, <2>2, Watching
    <3> QED  BY <1>1, <3>1, <3>2
  <2>4. CASE i # item
    <3>1. proposals'[item] = proposals[item]  BY <1>4, <2>1, <2>4 DEF Announce
    <3> QED  BY <1>3, <1>4, <2>2, <3>1
  <2> QED  BY <2>3, <2>4
<1>5. ASSUME Clears, proposals'[item] # 0
      PROVE  since'[item] # 0 /\ since'[item] + Delay(item) <= proposals'[item]
  <2>1. PICK i \in Items : Clear(i) /\ \A j \in Items : InForce(j)' /\ ~ InForce(j) => j = i
    BY <1>5 DEF Clears
  <2>2. i # item /\ proposals'[item] = proposals[item]
    BY <1>5, <2>1 DEF Clear, TimelocksIInv, TimelocksTypeOK
  <2> QED  BY <1>3, <1>5, <2>1, <2>2
<1>6. ASSUME Keeps, proposals'[item] # 0
      PROVE  since'[item] # 0 /\ since'[item] + Delay(item) <= proposals'[item]
  BY <1>3, <1>6 DEF Keeps
<1> QED  BY <1>2, <1>4, <1>5, <1>6

LEMMA StepsByKind ==
  ASSUME TimelocksTypeOK, TimelocksNext
  PROVE  /\ Announces \/ Clears \/ Keeps
         /\ clock' \in {clock, clock + 1}
         /\ Watch
<1>1. CASE Act /\ UNCHANGED clock
  BY <1>1, CallsByKind DEF TimelocksNext
<1>2. CASE clock' = clock + 1 /\ UNCHANGED <<approved, policy, defaultVerifier, signerKeys, proposals>>
  BY <1>2, NothingTakesEffect DEF TimelocksNext, Keeps
<1> QED  BY <1>1, <1>2 DEF TimelocksNext

LEMMA TimelocksIInvHolds == TimelocksSpec => []TimelocksIInv
<1>1. TimelocksIInv /\ [TimelocksNext]_lockVars => TimelocksIInv'
  <2> SUFFICES ASSUME TimelocksIInv, [TimelocksNext]_lockVars PROVE TimelocksIInv'
    OBVIOUS
  <2>1. CASE TimelocksNext
    <3>1. /\ Announces \/ Clears \/ Keeps
          /\ clock' \in {clock, clock + 1}
          /\ Watch
      BY <2>1, StepsByKind DEF TimelocksIInv
    <3>2. PendingWithNotice'  BY <3>1, PendingStep
    <3>3. proposals' \in [Items -> Nat]  BY <3>1, ProposalsKeepType DEF TimelocksIInv
    <3>4. since' \in [Items -> Nat]
      <4>1. \A item \in Items : since'[item] \in Nat  BY <3>1, Watching
      <4> QED  BY <3>1, <4>1 DEF Watch
    <3>5. /\ approved' \in [Policies -> SUBSET KeyVerifiers]
          /\ policy' \in Policies /\ defaultVerifier' \in KeyVerifiers /\ signerKeys' \subseteq SignerKeys
      BY <2>1, CallsKeepTypes DEF TimelocksNext, TimelocksIInv, TimelocksTypeOK
    <3>6. clock' \in Nat \ {0}  BY <3>1 DEF TimelocksIInv, TimelocksTypeOK
    <3> QED  BY <3>2, <3>3, <3>4, <3>5, <3>6 DEF TimelocksIInv, TimelocksTypeOK
  <2>2. CASE UNCHANGED lockVars
    BY <2>2 DEF lockVars, TimelocksIInv, TimelocksTypeOK, PendingWithNotice
  <2> QED  BY <2>1, <2>2
<1> QED  BY <1>1, TimelocksInitially, PTL DEF TimelocksSpec

\* The policy in force approves the default verifier in force whenever either changes.
LEMMA ChangesAreApproved ==
  ASSUME Act, policy' # policy \/ defaultVerifier' # defaultVerifier
  PROVE  defaultVerifier' \in approved'[policy']
BY DEF Act, approveVerifier, proposePolicy, activatePolicy, proposeDefaultVerifier,
   activateDefaultVerifier, proposeSignerKey, activateSignerKey, removeSignerKey, cancelProposal

\* Nothing takes effect that did not stand announced for its whole delay, for any items, any
\* delays and any order of proposals, cancellations, activations, approvals and removals.
THEOREM TimelocksGiveNotice == TimelocksSpec => NoticeGiven
<1> DEFINE A ==
      /\ \A item \in Items :
           InForce(item)' /\ ~ InForce(item) => since[item] # 0 /\ clock >= since[item] + Delay(item)
      /\ policy' # policy \/ defaultVerifier' # defaultVerifier
           => defaultVerifier' \in approved'[policy']
<1>1. TimelocksIInv /\ [TimelocksNext]_lockVars => [A]_lockVars
  <2> SUFFICES ASSUME TimelocksIInv, TimelocksNext PROVE A
    OBVIOUS
  <2>1. ASSUME NEW item \in Items, InForce(item)', ~ InForce(item)
        PROVE  since[item] # 0 /\ clock >= since[item] + Delay(item)
    <3>1. Due(item)
      BY <2>1, StepsByKind DEF TimelocksIInv, Announces, Clears, Keeps
    <3>2. since[item] # 0 /\ since[item] + Delay(item) <= proposals[item] /\ proposals[item] <= clock
      BY <3>1 DEF Due, TimelocksIInv, TimelocksTypeOK, PendingWithNotice
    <3> QED  BY <3>2, DelaysAreNat DEF TimelocksIInv, TimelocksTypeOK
  <2>2. policy' # policy \/ defaultVerifier' # defaultVerifier => defaultVerifier' \in approved'[policy']
    BY ChangesAreApproved DEF TimelocksNext
  <2> QED  BY <2>1, <2>2
<1> QED  BY <1>1, TimelocksIInvHolds, PTL DEF TimelocksSpec, NoticeGiven

-----------------------------------------------------------------------------
(* Calls back into a vault.  The invariant speaks of a state and of the    *)
(* frames that are open in it.  It holds of the present state, and of the  *)
(* state that each frame would go back to with the frames below it.        *)

Owner == [wallet: Owners, iat: Nat]
States ==
  [lock: {1, 2}, upgrading: BOOLEAN,
   balance: Nat, deposits: [Slots -> Nat], tracked: Int, feesOwed: Nat,
   code: Codes, owner: Owner, lastUpgrade: Owner,
   installed: [code: Codes, owner: Owner], meddled: BOOLEAN]

FundFrames == [op: {"fund"}, amount: Nat, before: Nat, moved: BOOLEAN, saved: States]
PayFrames == [op: {"pay"}, amount: Nat, moved: BOOLEAN, saved: States]
FeesFrames == [op: {"fees"}, owed: Nat, before: Nat, allowance: Nat, saved: States]
UpgradeFrames ==
  [op: {"upgrade"}, code: Codes, wallet: Owners, iat: Nat, acknowledged: BOOLEAN, saved: States]
ForeignFrames == [op: {"foreign"}, saved: States]
Frames == FundFrames \union PayFrames \union FeesFrames \union UpgradeFrames \union ForeignFrames
OfLedger(f) == f.op \in {"fund", "pay", "fees"}

\* What is owed is there, or the open operation of the ledger is about to make it so.
Covered(st) == st.balance >= st.tracked + st.feesOwed
Backs(st, f) ==
  /\ f.op = "fund" => Covered(st) /\ f.before >= st.tracked + st.feesOwed
  /\ f.op = "pay" => st.balance >= st.tracked + st.feesOwed + (IF f.moved THEN 0 ELSE f.amount)
  /\ f.op = "fees" => /\ st.feesOwed = f.owed
                      /\ f.before >= st.tracked + f.owed
                      /\ st.balance >= st.tracked + f.allowance

\* The lock is held by the one open operation of the ledger.
LedgerHolds(st, frames, n) ==
  /\ st.lock = 1 <=> \A i \in 1..n : ~ OfLedger(frames[i])
  /\ st.lock = 1 => Covered(st)
  /\ \A i \in 1..n : OfLedger(frames[i]) =>
       /\ Backs(st, frames[i])
       /\ \A j \in 1..n : OfLedger(frames[j]) => j = i

Whole(st) ==
  /\ st.code = st.installed.code
  /\ ~ st.upgrading
  /\ st.installed.code \in Proper =>
       /\ st.lastUpgrade = st.installed.owner
       /\ st.owner.iat >= st.installed.owner.iat
       /\ st.owner.iat = st.installed.owner.iat => st.owner.wallet = st.installed.owner.wallet

ToProper(f) == f.op = "upgrade" /\ f.code \in Proper

\* While P2IDVault is being installed nobody else acts, so that what the proxy has stored stays;
\* foreign code may have any number of upgrades in progress, and have changed anything.
UpgradeHolds(st, frames, n) ==
  /\ \A i \in 1..n : ToProper(frames[i]) =>
       i = n /\ st.lastUpgrade = [wallet |-> frames[i].wallet, iat |-> frames[i].iat]
  /\ ~ st.meddled /\ (\A i \in 1..n : frames[i].op # "upgrade") => Whole(st)

Holds(st, frames, n) == LedgerHolds(st, frames, n) /\ UpgradeHolds(st, frames, n)

CallIInv ==
  /\ state \in States
  /\ stack \in Seq(Frames)
  /\ Holds(state, stack, Len(stack))
  /\ \A n \in 1..Len(stack) : Holds(stack[n].saved, stack, n - 1)

-----------------------------------------------------------------------------
(* The stack *)

LEMMA HoldsOfTheSameFrames ==
  ASSUME NEW st, NEW s, NEW t, NEW n \in Nat, \A i \in 1..n : s[i] = t[i], Holds(st, s, n)
  PROVE  Holds(st, t, n)
<1>1. LedgerHolds(st, t, n)  BY DEF Holds, LedgerHolds
<1>2. UpgradeHolds(st, t, n)  BY DEF Holds, UpgradeHolds
<1> QED  BY <1>1, <1>2 DEF Holds

LEMMA FramesKeepStates == \A f \in Frames : f.saved \in States
  BY DEF Frames, FundFrames, PayFrames, FeesFrames, UpgradeFrames, ForeignFrames

LEMMA Pushing ==
  ASSUME CallIInv, NEW frame \in Frames, frame.saved = state,
         stack' = Append(stack, frame), state' \in States,
         Holds(state', stack', Len(stack) + 1)
  PROVE  CallIInv'
<1> DEFINE t == stack'
           m == Len(stack)
<1>1. stack \in Seq(Frames) /\ m \in Nat  BY DEF CallIInv
<1>2. /\ t \in Seq(Frames) /\ Len(t) = m + 1 /\ t[m + 1] = frame
      /\ \A i \in 1..m : t[i] = stack[i]
  BY <1>1
<1>3. ASSUME NEW n \in 1..(m + 1) PROVE Holds(t[n].saved, t, n - 1)
  <2>1. n - 1 \in Nat /\ \A i \in 1..(n - 1) : stack[i] = t[i]
    BY <1>1, <1>2
  <2>2. Holds(t[n].saved, stack, n - 1)
    <3>1. CASE n = m + 1
      BY <1>1, <1>2, <3>1 DEF CallIInv
    <3>2. CASE n \in 1..m
      BY <1>1, <1>2, <3>2 DEF CallIInv
    <3> QED  BY <1>1, <3>1, <3>2
  <2> HIDE DEF t
  <2> QED  BY <2>1, <2>2, HoldsOfTheSameFrames
<1> QED  BY <1>2, <1>3 DEF CallIInv

LEMMA Fronts ==
  ASSUME stack \in Seq(Frames), stack # <<>>
  PROVE  /\ Len(stack) \in Nat \ {0}
         /\ Front(stack) \in Seq(Frames) /\ Len(Front(stack)) = Len(stack) - 1
         /\ \A i \in 1..(Len(stack) - 1) : Front(stack)[i] = stack[i]
         /\ Top = stack[Len(stack)] /\ Top \in Frames
<1>1. Len(stack) \in Nat \ {0}
  BY EmptySeq
<1>2. Front(stack) = SubSeq(stack, 1, Len(stack) - 1)
  BY DEF Front
<1>3. /\ SubSeq(stack, 1, Len(stack) - 1) \in Seq(Frames)
      /\ Len(SubSeq(stack, 1, Len(stack) - 1)) = Len(stack) - 1
      /\ \A i \in 1..(Len(stack) - 1) : SubSeq(stack, 1, Len(stack) - 1)[i] = stack[i]
  <2> DEFINE k == Len(stack) - 1
  <2>1. k \in Nat /\ \A i \in 1..k : stack[i] \in Frames
    BY <1>1
  <2> HIDE DEF k
  <2>2. /\ SubSeq(stack, 1, k) \in Seq(Frames)
        /\ Len(SubSeq(stack, 1, k)) = IF 1 <= k THEN k - 1 + 1 ELSE 0
        /\ \A i \in 1..(k - 1 + 1) : SubSeq(stack, 1, k)[i] = stack[1 + i - 1]
    BY <2>1, SubSeqProperties
  <2>3. Len(SubSeq(stack, 1, k)) = k /\ \A i \in 1..k : SubSeq(stack, 1, k)[i] = stack[i]
    BY <2>1, <2>2
  <2> QED  BY <2>2, <2>3 DEF k
<1>4. Top = stack[Len(stack)] /\ Top \in Frames
  BY <1>1 DEF Top, Last
<1> QED  BY <1>1, <1>2, <1>3, <1>4

LEMMA Popping ==
  ASSUME CallIInv, stack # <<>>, stack' = Front(stack), state' \in States,
         Holds(state', stack, Len(stack) - 1)
  PROVE  CallIInv'
<1> DEFINE t == stack'
           m == Len(stack) - 1
<1>1. /\ m \in Nat /\ m + 1 = Len(stack)
      /\ t \in Seq(Frames) /\ Len(t) = m
      /\ \A i \in 1..m : stack[i] = t[i]
  BY Fronts DEF CallIInv
<1>2. Holds(state', t, m)  BY <1>1, HoldsOfTheSameFrames
<1>3. ASSUME NEW n \in 1..m PROVE Holds(t[n].saved, t, n - 1)
  <2>1. n - 1 \in Nat /\ \A i \in 1..(n - 1) : stack[i] = t[i]
    BY <1>1
  <2>2. Holds(t[n].saved, stack, n - 1)
    BY <1>1 DEF CallIInv
  <2> HIDE DEF t
  <2> QED  BY <2>1, <2>2, HoldsOfTheSameFrames
<1> QED  BY <1>1, <1>2, <1>3 DEF CallIInv

LEMMA Topping ==
  ASSUME CallIInv, stack # <<>>, NEW frame \in Frames, frame.saved = Top.saved,
         stack' = [stack EXCEPT ![Len(stack)] = frame], state' \in States,
         Holds(state', stack', Len(stack))
  PROVE  CallIInv'
<1> DEFINE t == stack'
           m == Len(stack)
<1>1. /\ m \in Nat \ {0} /\ stack \in Seq(Frames) /\ Top = stack[m]
  BY Fronts DEF CallIInv
<1>2. /\ t \in Seq(Frames) /\ Len(t) = m /\ t[m] = frame
      /\ \A i \in 1..(m - 1) : t[i] = stack[i]
  BY <1>1
<1> HIDE DEF t, m
<1>3. ASSUME NEW n \in 1..m PROVE Holds(t[n].saved, t, n - 1)
  <2>1. n - 1 \in Nat /\ \A i \in 1..(n - 1) : stack[i] = t[i]
    BY <1>1, <1>2
  <2>2. t[n].saved = stack[n].saved
    BY <1>1, <1>2
  <2>3. Holds(t[n].saved, stack, n - 1)
    BY <2>2 DEF CallIInv, m
  <2> QED  BY <2>1, <2>3, HoldsOfTheSameFrames
<1> QED  BY <1>2, <1>3 DEF CallIInv, t, m

LEMMA Staying ==
  ASSUME CallIInv, UNCHANGED stack, state' \in States, Holds(state', stack, Len(stack))
  PROVE  CallIInv'
BY DEF CallIInv

-----------------------------------------------------------------------------
(* What the operations of the ledger do to it *)

\* The fields of the proxy and of the owner cache are left alone.
SameUpgrade(st, before) ==
  /\ st.upgrading = before.upgrading
  /\ st.code = before.code
  /\ st.owner = before.owner
  /\ st.lastUpgrade = before.lastUpgrade
  /\ st.installed = before.installed
  /\ st.meddled = before.meddled

\* The ledger's fields are left alone.
SameLedger(st, before) ==
  /\ st.lock = before.lock
  /\ st.balance = before.balance
  /\ st.tracked = before.tracked
  /\ st.feesOwed = before.feesOwed

LEMMA OpsOfFrames == \A f \in Frames : f.op \in {"fund", "pay", "fees", "upgrade", "foreign"}
  BY DEF Frames, FundFrames, PayFrames, FeesFrames, UpgradeFrames, ForeignFrames

LEMMA LedgerIsNoUpgrade == \A f : OfLedger(f) => f.op # "upgrade"
  BY DEF OfLedger

\* Where P2IDVault is not being installed by the innermost call it is not by any.
LEMMA NoneToProper ==
  ASSUME CallIInv, stack # <<>> => ~ ToProper(Top)
  PROVE  \A i \in 1..Len(stack) : ~ ToProper(stack[i])
<1>1. Len(stack) \in Nat /\ UpgradeHolds(state, stack, Len(stack))
  BY DEF CallIInv, Holds
<1>2. ASSUME NEW i \in 1..Len(stack), ToProper(stack[i]) PROVE FALSE
  <2>1. stack # <<>>
    BY <1>1
  <2>2. i = Len(stack)
    BY <1>1, <1>2 DEF UpgradeHolds
  <2>3. Top = stack[i]
    BY <2>1, <2>2, Fronts DEF CallIInv
  <2> QED  BY <1>2, <2>1, <2>3
<1> QED  BY <1>2

LEMMA OutsideIsNot == ASSUME Outside PROVE stack # <<>> => ~ ToProper(Top)
  BY DEF Outside, ToProper

\* The ledger operation on top is the only one that is open.
LEMMA TopOfLedger ==
  ASSUME CallIInv, stack # <<>>, OfLedger(Top)
  PROVE  /\ Backs(state, Top) /\ state.lock = 2
         /\ \A i \in 1..(Len(stack) - 1) : ~ OfLedger(stack[i])
<1>1. Len(stack) \in Nat \ {0} /\ Top = stack[Len(stack)]
  BY Fronts DEF CallIInv
<1>2. LedgerHolds(state, stack, Len(stack)) /\ state.lock \in {1, 2}
  BY DEF CallIInv, Holds, States
<1> QED  BY <1>1, <1>2 DEF LedgerHolds

LEMMA LedgerPushes ==
  ASSUME CallIInv, Outside, state.lock = 1,
         NEW frame \in Frames, OfLedger(frame), frame.saved = state,
         stack' = Append(stack, frame),
         state' \in States, state'.lock = 2, SameUpgrade(state', state), Backs(state', frame)
  PROVE  CallIInv'
<1> DEFINE t == stack'
           m == Len(stack)
<1>1. m \in Nat /\ t[m + 1] = frame /\ \A i \in 1..m : t[i] = stack[i]
  BY DEF CallIInv
<1>2. LedgerHolds(state, stack, m) /\ UpgradeHolds(state, stack, m)
  BY DEF CallIInv, Holds
<1> HIDE DEF t, m
<1>3. \A i \in 1..m : ~ OfLedger(t[i])
  BY <1>1, <1>2 DEF LedgerHolds
<1>4. LedgerHolds(state', t, m + 1)
  <2>1. \A i \in 1..(m + 1) : OfLedger(t[i]) => i = m + 1
    BY <1>1, <1>3
  <2>2. ~ \A i \in 1..(m + 1) : ~ OfLedger(t[i])
    BY <1>1
  <2> QED  BY <1>1, <2>1, <2>2 DEF LedgerHolds
<1>5. UpgradeHolds(state', t, m + 1)
  <2>1. \A i \in 1..m : ~ ToProper(stack[i])
    BY NoneToProper, OutsideIsNot DEF m
  <2>2. \A i \in 1..(m + 1) : ~ ToProper(t[i])
    BY <1>1, <2>1, LedgerIsNoUpgrade DEF ToProper
  <2>3. (\A i \in 1..(m + 1) : t[i].op # "upgrade") => \A i \in 1..m : stack[i].op # "upgrade"
    BY <1>1
  <2>4. Whole(state') <=> Whole(state)
    BY DEF Whole, SameUpgrade
  <2> QED  BY <1>2, <2>2, <2>3, <2>4 DEF UpgradeHolds, SameUpgrade
<1> QED  BY <1>4, <1>5, Pushing DEF Holds, t, m

LEMMA LedgerPops ==
  ASSUME CallIInv, stack # <<>>, OfLedger(Top), stack' = Front(stack),
         state' \in States, state'.lock = 1, SameUpgrade(state', state), Covered(state')
  PROVE  CallIInv'
<1> DEFINE m == Len(stack) - 1
<1>1. m \in Nat /\ m + 1 = Len(stack) /\ OfLedger(stack[m + 1])
  BY Fronts DEF CallIInv
<1>2. UpgradeHolds(state, stack, m + 1)
  BY <1>1 DEF CallIInv, Holds
<1>3. \A i \in 1..m : ~ OfLedger(stack[i])
  BY TopOfLedger
<1> HIDE DEF m
<1>4. LedgerHolds(state', stack, m)
  BY <1>1, <1>3 DEF LedgerHolds
<1>5. UpgradeHolds(state', stack, m)
  <2>1. \A i \in 1..m : i \in 1..(m + 1) /\ i # m + 1
    BY <1>1
  <2>2. \A i \in 1..m : ~ ToProper(stack[i])
    BY <1>2, <2>1 DEF UpgradeHolds
  <2>3. (\A i \in 1..m : stack[i].op # "upgrade") => \A i \in 1..(m + 1) : stack[i].op # "upgrade"
    BY <1>1, LedgerIsNoUpgrade
  <2>4. Whole(state') <=> Whole(state)
    BY DEF Whole, SameUpgrade
  <2> QED  BY <1>2, <2>2, <2>3, <2>4 DEF UpgradeHolds, SameUpgrade
<1> QED  BY <1>4, <1>5, Popping DEF Holds, m

LEMMA LedgerTops ==
  ASSUME CallIInv, stack # <<>>, OfLedger(Top),
         NEW frame \in Frames, frame.op = Top.op, frame.saved = Top.saved,
         stack' = [stack EXCEPT ![Len(stack)] = frame],
         state' \in States, state'.lock = state.lock, SameUpgrade(state', state), Backs(state', frame)
  PROVE  CallIInv'
<1> DEFINE t == stack'
           m == Len(stack)
<1>1. /\ m \in Nat \ {0} /\ OfLedger(stack[m]) /\ t[m] = frame /\ OfLedger(frame)
      /\ \A i \in 1..(m - 1) : t[i] = stack[i]
  BY Fronts DEF CallIInv, OfLedger
<1>2. UpgradeHolds(state, stack, m)
  BY DEF CallIInv, Holds
<1>3. state.lock = 2 /\ \A i \in 1..(m - 1) : ~ OfLedger(stack[i])
  BY TopOfLedger
<1> HIDE DEF t, m
<1>4. LedgerHolds(state', t, m)
  <2>1. \A i \in 1..m : OfLedger(t[i]) => i = m
    BY <1>1, <1>3
  <2>2. ~ \A i \in 1..m : ~ OfLedger(t[i])
    BY <1>1
  <2> QED  BY <1>1, <1>3, <2>1, <2>2 DEF LedgerHolds
<1>5. UpgradeHolds(state', t, m)
  <2>1. \A i \in 1..m : i = m \/ (i \in 1..(m - 1) /\ t[i] = stack[i])
    BY <1>1
  <2>2. \A i \in 1..m : ~ ToProper(t[i])
    BY <1>1, <1>2, <2>1, LedgerIsNoUpgrade DEF ToProper, UpgradeHolds
  <2>3. (\A i \in 1..m : t[i].op # "upgrade") => \A i \in 1..m : stack[i].op # "upgrade"
    BY <1>1, <2>1, LedgerIsNoUpgrade
  <2>4. Whole(state') <=> Whole(state)
    BY DEF Whole, SameUpgrade
  <2> QED  BY <1>2, <2>2, <2>3, <2>4 DEF UpgradeHolds, SameUpgrade
<1> QED  BY <1>4, <1>5, Topping DEF Holds, t, m

LEMMA FundKeeps ==
  ASSUME CallIInv, NEW amount \in Payments, Fund(amount)
  PROVE  CallIInv'
<1> DEFINE frame == [op |-> "fund", amount |-> amount, before |-> state.balance, moved |-> FALSE, saved |-> state]
<1>1. state \in States /\ state.lock = 1 /\ Covered(state) /\ Outside
  BY DEF Fund, Push, NotEntered, CallIInv, Holds, LedgerHolds
<1>2. frame \in Frames
  BY <1>1, CallStackAssumption DEF Frames, FundFrames, States
<1>3. stack' = Append(stack, frame) /\ state' = [state EXCEPT !.lock = 2]
  BY DEF Fund, Push
<1>4. state' \in States /\ state'.lock = 2 /\ SameUpgrade(state', state) /\ SameLedger(state', [state EXCEPT !.lock = 2])
  BY <1>1, <1>3 DEF States, SameUpgrade, SameLedger
<1>5. Backs(state', frame)
  BY <1>1, <1>3 DEF Backs, Covered, States
<1> HIDE DEF frame
<1>6. OfLedger(frame) /\ frame.saved = state
  BY DEF frame, OfLedger
<1> QED  BY <1>1, <1>2, <1>3, <1>4, <1>5, <1>6, LedgerPushes

LEMMA StateFields ==
  ASSUME CallIInv
  PROVE  /\ state \in States
         /\ state.balance \in Nat /\ state.tracked \in Int /\ state.feesOwed \in Nat
         /\ state.lock \in {1, 2} /\ state.deposits \in [Slots -> Nat]
         /\ state.lock = 1 => Covered(state)
BY DEF CallIInv, States, Holds, LedgerHolds

\* A payment is covered by what is consumed for it before it is made.
LEMMA PayKeeps ==
  ASSUME CallIInv, NEW net \in Nat, NEW next \in States, Pay(net, next),
         next.balance = state.balance, SameUpgrade(next, state),
         next.balance >= next.tracked + next.feesOwed + net
  PROVE  CallIInv'
<1> DEFINE frame == [op |-> "pay", amount |-> net, moved |-> FALSE, saved |-> state]
<1>1. state \in States /\ state.lock = 1 /\ Outside
  BY StateFields DEF Pay, Push, NotEntered
<1>2. frame \in Frames
  BY <1>1 DEF Frames, PayFrames
<1>3. stack' = Append(stack, frame) /\ state' = [next EXCEPT !.lock = 2]
  BY DEF Pay, Push
<1>4. state' \in States /\ state'.lock = 2 /\ SameUpgrade(state', state)
  BY <1>3 DEF States, SameUpgrade
<1>5. Backs(state', frame)
  <2>1. /\ state'.balance = next.balance /\ state'.tracked = next.tracked /\ state'.feesOwed = next.feesOwed
    BY <1>3 DEF States
  <2> QED  BY <2>1 DEF Backs
<1> HIDE DEF frame
<1>6. OfLedger(frame) /\ frame.saved = state
  BY DEF frame, OfLedger
<1> QED  BY <1>1, <1>2, <1>3, <1>4, <1>5, <1>6, LedgerPushes

LEMMA RefundKeeps ==
  ASSUME CallIInv, NEW s \in Slots, Refund(s)
  PROVE  CallIInv'
<1> DEFINE d == state.deposits[s]
           next == [state EXCEPT !.deposits[s] = 0, !.tracked = @ - state.deposits[s]]
<1>1. state.lock = 1 /\ Covered(state) /\ d \in Nat
  BY StateFields DEF Refund, Pay, NotEntered
<1> DEFINE ds == [state.deposits EXCEPT ![s] = 0]
<1>2. /\ next \in States /\ SameUpgrade(next, state)
      /\ next.balance = state.balance /\ next.feesOwed = state.feesOwed
      /\ next.tracked = state.tracked - d
  <2>1. ds \in [Slots -> Nat] /\ state.tracked - d \in Int
    BY <1>1, StateFields
  <2>2. next = [state EXCEPT !.lock = state.lock, !.deposits = ds, !.tracked = state.tracked - d,
                             !.feesOwed = state.feesOwed]
    BY StateFields DEF States
  <2> HIDE DEF next, ds, d
  <2> QED  BY <2>1, <2>2, StateFields DEF States, SameUpgrade
<1>4. Pay(d, next)  BY DEF Refund
<1> HIDE DEF d, next
<1>5. next.balance >= next.tracked + next.feesOwed + d
  BY <1>1, <1>2, StateFields DEF Covered
<1> QED  BY <1>1, <1>2, <1>4, <1>5, PayKeeps

LEMMA UntrackedIsSpare ==
  ASSUME CallIInv, Covered(state)
  PROVE  Untracked \in Nat /\ state.balance = state.tracked + state.feesOwed + Untracked
BY StateFields DEF Untracked, Covered

LEMMA SweepKeeps ==
  ASSUME CallIInv, NEW s \in Slots, NEW untracked \in BOOLEAN, NEW fee \in {0} \union Payments,
         Sweep(s, untracked, fee)
  PROVE  CallIInv'
<1> DEFINE d == state.deposits[s]
           more == IF untracked THEN Untracked ELSE 0
           next == [state EXCEPT !.deposits[s] = 0, !.tracked = @ - state.deposits[s], !.feesOwed = @ + fee]
<1>1. /\ state.lock = 1 /\ Covered(state) /\ d \in Nat /\ fee \in Nat /\ fee < d
  BY StateFields, CallStackAssumption DEF Sweep, Pay, NotEntered
<1> DEFINE ds == [state.deposits EXCEPT ![s] = 0]
<1>2. /\ next \in States /\ SameUpgrade(next, state)
      /\ next.balance = state.balance /\ next.feesOwed = state.feesOwed + fee
      /\ next.tracked = state.tracked - d
  <2>1. ds \in [Slots -> Nat] /\ state.tracked - d \in Int /\ state.feesOwed + fee \in Nat
    BY <1>1, StateFields
  <2>2. next = [state EXCEPT !.lock = state.lock, !.deposits = ds, !.tracked = state.tracked - d,
                             !.feesOwed = state.feesOwed + fee]
    BY StateFields DEF States
  <2> HIDE DEF next, ds, d
  <2> QED  BY <2>1, <2>2, StateFields DEF States, SameUpgrade
<1>4. Pay(d + more - fee, next)  BY DEF Sweep
<1>5. more \in Nat /\ state.balance >= state.tracked + state.feesOwed + more
  BY <1>1, UntrackedIsSpare, StateFields DEF Covered
<1> HIDE DEF d, more, next
<1>6. d + more - fee \in Nat /\ next.balance >= next.tracked + next.feesOwed + (d + more - fee)
  BY <1>1, <1>2, <1>5, StateFields
<1> QED  BY <1>2, <1>4, <1>6, PayKeeps

LEMMA SweepUntrackedKeeps ==
  ASSUME CallIInv, NEW fee \in {0} \union Payments, SweepUntracked(fee)
  PROVE  CallIInv'
<1> DEFINE next == [state EXCEPT !.feesOwed = @ + fee]
<1>1. state.lock = 1 /\ Covered(state) /\ fee \in Nat
  BY StateFields, CallStackAssumption DEF SweepUntracked, Pay, NotEntered
<1>2. Untracked \in Nat /\ state.balance = state.tracked + state.feesOwed + Untracked /\ fee < Untracked
  BY <1>1, UntrackedIsSpare DEF SweepUntracked
<1>3. next \in States /\ SameUpgrade(next, state)
  BY <1>1, StateFields DEF States, SameUpgrade
<1>4. /\ next.balance = state.balance /\ next.feesOwed = state.feesOwed + fee
      /\ next.tracked = state.tracked
  BY StateFields DEF States
<1>5. Pay(Untracked - fee, next)  BY DEF SweepUntracked
<1> HIDE DEF next
<1>6. Untracked - fee \in Nat /\ next.balance >= next.tracked + next.feesOwed + (Untracked - fee)
  BY <1>1, <1>2, <1>4, StateFields
<1> QED  BY <1>3, <1>4, <1>5, <1>6, PayKeeps

LEMMA WithdrawKeeps ==
  ASSUME CallIInv, WithdrawFees
  PROVE  CallIInv'
<1> DEFINE frame == [op |-> "fees", owed |-> state.feesOwed, before |-> state.balance,
                     allowance |-> state.feesOwed, saved |-> state]
<1>1. state \in States /\ state.lock = 1 /\ Covered(state) /\ Outside
  BY StateFields DEF WithdrawFees, Push, NotEntered
<1>2. frame \in Frames
  BY <1>1 DEF Frames, FeesFrames, States
<1>3. stack' = Append(stack, frame) /\ state' = [state EXCEPT !.lock = 2]
  BY DEF WithdrawFees, Push
<1>4. state' \in States /\ state'.lock = 2 /\ SameUpgrade(state', state)
  BY <1>1, <1>3 DEF States, SameUpgrade
<1>5. Backs(state', frame)
  BY <1>1, <1>3, StateFields DEF Backs, Covered, States
<1> HIDE DEF frame
<1>6. OfLedger(frame) /\ frame.saved = state
  BY DEF frame, OfLedger
<1> QED  BY <1>1, <1>2, <1>3, <1>4, <1>5, <1>6, LedgerPushes

LEMMA FundReturnsKeeps ==
  ASSUME CallIInv, NEW s \in Slots, FundReturns(s)
  PROVE  CallIInv'
<1> DEFINE credited == state.balance - Top.before
<1>1. Top.op = "fund" /\ Top \in Frames /\ stack # <<>> /\ state.balance > Top.before
  BY Fronts DEF FundReturns, CallIInv
<1>2. Top.before \in Nat
  BY <1>1 DEF Frames, FundFrames, PayFrames, FeesFrames, UpgradeFrames, ForeignFrames
<1>3. Covered(state) /\ Top.before >= state.tracked + state.feesOwed
  BY <1>1, TopOfLedger DEF Backs, OfLedger
<1>4. credited \in Nat  BY <1>1, <1>2, StateFields
<1>5. /\ stack' = Front(stack)
      /\ state' = [state EXCEPT !.lock = 1, !.deposits[s] = credited, !.tracked = @ + credited]
  BY DEF FundReturns, Pop
<1> DEFINE ds == [state.deposits EXCEPT ![s] = credited]
<1>6. ds \in [Slots -> Nat] /\ state.tracked + credited \in Int
  BY <1>4, StateFields
<1>7. /\ state' \in States /\ state'.lock = 1 /\ SameUpgrade(state', state)
      /\ state'.balance = state.balance /\ state'.feesOwed = state.feesOwed
      /\ state'.tracked = state.tracked + credited
  <2>1. state' = [state EXCEPT !.lock = 1, !.deposits = ds, !.tracked = state.tracked + credited,
                               !.feesOwed = state.feesOwed]
    BY <1>5, StateFields DEF States
  <2> HIDE DEF ds, credited
  <2> QED  BY <1>6, <2>1, StateFields DEF States, SameUpgrade
<1>8. Covered(state')
  BY <1>2, <1>3, <1>7, StateFields DEF Covered
<1> QED  BY <1>1, <1>5, <1>7, <1>8, LedgerPops DEF OfLedger

LEMMA PayReturnsKeeps ==
  ASSUME CallIInv, PayReturns
  PROVE  CallIInv'
<1>1. Top.op = "pay" /\ stack # <<>> /\ Top.moved
  BY DEF PayReturns
<1>2. state.balance >= state.tracked + state.feesOwed + 0
  BY <1>1, TopOfLedger DEF Backs, OfLedger
<1>3. stack' = Front(stack) /\ state' = [state EXCEPT !.lock = 1]
  BY DEF PayReturns, Pop
<1>4. state' \in States /\ state'.lock = 1 /\ SameUpgrade(state', state)
  BY <1>3, StateFields DEF States, SameUpgrade
<1>5. Covered(state')
  BY <1>2, <1>3, StateFields DEF Covered, States
<1> QED  BY <1>1, <1>3, <1>4, <1>5, LedgerPops DEF OfLedger

LEMMA WithdrawReturnsKeeps ==
  ASSUME CallIInv, WithdrawReturns
  PROVE  CallIInv'
<1> DEFINE amount == IF Top.before > state.balance THEN Top.before - state.balance ELSE 0
           left == Top.owed - amount
<1>1. Top.op = "fees" /\ Top \in Frames /\ stack # <<>>
  BY Fronts DEF WithdrawReturns, CallIInv
<1>2. Top.before \in Nat /\ Top.owed \in Nat
  BY <1>1 DEF Frames, FundFrames, PayFrames, FeesFrames, UpgradeFrames, ForeignFrames
<1>3. Top.before >= state.tracked + Top.owed
  BY <1>1, TopOfLedger DEF Backs, OfLedger
<1>4. /\ amount <= Top.owed
      /\ stack' = Front(stack)
      /\ state' = [state EXCEPT !.lock = 1, !.feesOwed = left]
  BY DEF WithdrawReturns, Pop
<1>5. left \in Nat /\ state.balance >= state.tracked + left
  BY <1>2, <1>3, <1>4, StateFields
<1> HIDE DEF amount, left
<1>6. /\ state' \in States /\ state'.lock = 1 /\ SameUpgrade(state', state)
      /\ state'.balance = state.balance /\ state'.tracked = state.tracked /\ state'.feesOwed = left
  BY <1>4, <1>5, StateFields DEF States, SameUpgrade
<1>7. Covered(state')
  BY <1>5, <1>6 DEF Covered
<1> QED  BY <1>1, <1>4, <1>6, <1>7, LedgerPops DEF OfLedger

LEMMA TokenMovesKeeps ==
  ASSUME CallIInv, TokenMoves
  PROVE  CallIInv'
<1> DEFINE frame == [Top EXCEPT !.moved = TRUE]
           m == Len(stack)
<1>1. /\ stack # <<>> /\ Top \in Frames /\ Top.op \in {"fund", "pay"} /\ ~ Top.moved
      /\ m \in Nat \ {0} /\ stack \in Seq(Frames) /\ Top = stack[m]
  BY Fronts DEF TokenMoves, CallIInv
<1>2. /\ frame \in Frames /\ frame.op = Top.op /\ frame.saved = Top.saved /\ frame.moved
      /\ Top.amount \in Nat
      /\ Top.op = "fund" => frame.before = Top.before /\ Top.before \in Nat
  BY <1>1 DEF Frames, FundFrames, PayFrames, FeesFrames, UpgradeFrames, ForeignFrames
<1>3. stack' = [stack EXCEPT ![m] = frame]
  BY <1>1 DEF TokenMoves
<1>4. Backs(state, Top)  BY <1>1, TopOfLedger DEF OfLedger
<1> HIDE DEF frame, m
<1>5. CASE Top.op = "fund"
  <2>1. state' = [state EXCEPT !.balance = @ + Top.amount]
    BY <1>5 DEF TokenMoves
  <2>2. /\ state' \in States /\ state'.lock = state.lock /\ SameUpgrade(state', state)
        /\ state'.balance = state.balance + Top.amount
        /\ state'.tracked = state.tracked /\ state'.feesOwed = state.feesOwed
    BY <1>2, <2>1, StateFields DEF States, SameUpgrade
  <2>3. Backs(state', frame)
    BY <1>2, <1>4, <1>5, <2>2, StateFields DEF Backs, Covered
  <2> QED  BY <1>1, <1>2, <1>3, <2>2, <2>3, LedgerTops DEF m, OfLedger
<1>6. CASE Top.op = "pay"
  <2>1. state' = [state EXCEPT !.balance = @ - Top.amount] /\ state.balance >= Top.amount
    BY <1>6 DEF TokenMoves
  <2>2. state.balance - Top.amount \in Nat
    BY <1>2, <2>1, StateFields
  <2>3. /\ state' \in States /\ state'.lock = state.lock /\ SameUpgrade(state', state)
        /\ state'.balance = state.balance - Top.amount
        /\ state'.tracked = state.tracked /\ state'.feesOwed = state.feesOwed
    BY <1>2, <2>1, <2>2, StateFields DEF States, SameUpgrade
  <2>4. state.balance >= state.tracked + state.feesOwed + Top.amount
    BY <1>1, <1>4, <1>6 DEF Backs
  <2>5. Backs(state', frame)
    BY <1>2, <1>6, <2>3, <2>4, StateFields DEF Backs
  <2> QED  BY <1>1, <1>2, <1>3, <2>3, <2>5, LedgerTops DEF m, OfLedger
<1> QED  BY <1>1, <1>5, <1>6

LEMMA PolicyPullsKeeps ==
  ASSUME CallIInv, NEW amount \in Payments, PolicyPulls(amount)
  PROVE  CallIInv'
<1> DEFINE rest == Top.allowance - amount
           frame == [Top EXCEPT !.allowance = rest]
           m == Len(stack)
<1>1. /\ stack # <<>> /\ Top \in Frames /\ Top.op = "fees"
      /\ amount \in Nat /\ amount <= Top.allowance /\ amount <= state.balance
      /\ m \in Nat \ {0} /\ stack \in Seq(Frames) /\ Top = stack[m]
  BY Fronts, CallStackAssumption DEF PolicyPulls, CallIInv
<1>2. Top \in FeesFrames
  BY <1>1 DEF Frames, FundFrames, PayFrames, UpgradeFrames, ForeignFrames
<1>3. rest \in Nat /\ Top.owed \in Nat /\ Top.before \in Nat
  BY <1>1, <1>2 DEF FeesFrames
<1>4. stack' = [stack EXCEPT ![m] = frame]
  BY <1>1 DEF PolicyPulls
<1> HIDE DEF m
<1>5. Backs(state, Top)  BY <1>1, TopOfLedger DEF OfLedger
<1>6. state' = [state EXCEPT !.balance = @ - amount] /\ state.balance - amount \in Nat
  BY <1>1, StateFields DEF PolicyPulls
<1>7. /\ state' \in States /\ state'.lock = state.lock /\ SameUpgrade(state', state)
      /\ state'.balance = state.balance - amount
      /\ state'.tracked = state.tracked /\ state'.feesOwed = state.feesOwed
  BY <1>6, StateFields DEF States, SameUpgrade
<1>8. state.balance >= state.tracked + Top.allowance /\ Top.allowance \in Nat
  BY <1>1, <1>2, <1>5 DEF Backs, FeesFrames
<1>9. state'.balance >= state'.tracked + rest
  BY <1>1, <1>7, <1>8, StateFields
<1> HIDE DEF rest
<1>10. /\ frame \in Frames /\ frame.op = Top.op /\ frame.saved = Top.saved /\ frame.allowance = rest
       /\ frame.owed = Top.owed /\ frame.before = Top.before
  BY <1>2, <1>3 DEF Frames, FeesFrames
<1> HIDE DEF frame
<1>11. Backs(state', frame)
  BY <1>1, <1>5, <1>7, <1>9, <1>10 DEF Backs
<1> QED  BY <1>1, <1>4, <1>7, <1>10, <1>11, LedgerTops DEF m, OfLedger

LEMMA MoreBacksAsWell ==
  ASSUME NEW before \in States, NEW st \in States, SameUpgrade(st, before),
         st.lock = before.lock, st.tracked = before.tracked, st.feesOwed = before.feesOwed,
         st.balance >= before.balance,
         NEW frames, NEW n \in Nat, \A i \in 1..n : frames[i] \in Frames, Holds(before, frames, n)
  PROVE  Holds(st, frames, n)
<1>1. /\ before.balance \in Nat /\ st.balance \in Nat /\ before.tracked \in Int /\ before.feesOwed \in Nat
  BY DEF States
<1>2. Covered(before) => Covered(st)
  BY <1>1 DEF Covered
<1>3. ASSUME NEW f \in Frames, Backs(before, f) PROVE Backs(st, f)
  <2>1. CASE f.op = "fund"  BY <1>2, <1>3, <2>1 DEF Backs
  <2>2. CASE f.op = "pay"
    <3>1. f \in PayFrames  BY <2>2 DEF Frames, FundFrames, FeesFrames, UpgradeFrames, ForeignFrames
    <3>2. f.amount \in Nat  BY <3>1 DEF PayFrames
    <3> QED  BY <1>1, <1>3, <2>2, <3>2 DEF Backs
  <2>3. CASE f.op = "fees"
    <3>1. f \in FeesFrames  BY <2>3 DEF Frames, FundFrames, PayFrames, UpgradeFrames, ForeignFrames
    <3>2. f.allowance \in Nat /\ f.owed \in Nat  BY <3>1 DEF FeesFrames
    <3> QED  BY <1>1, <1>3, <2>3, <3>2 DEF Backs
  <2>4. CASE f.op \in {"upgrade", "foreign"}  BY <2>4 DEF Backs
  <2> QED  BY <2>1, <2>2, <2>3, <2>4, OpsOfFrames
<1>4. LedgerHolds(st, frames, n)
  BY <1>2, <1>3 DEF Holds, LedgerHolds
<1>5. UpgradeHolds(st, frames, n)
  <2>1. Whole(st) <=> Whole(before)  BY DEF Whole, SameUpgrade
  <2> QED  BY <2>1 DEF Holds, UpgradeHolds, SameUpgrade
<1> QED  BY <1>4, <1>5 DEF Holds

LEMMA DirectTransferKeeps ==
  ASSUME CallIInv, NEW amount \in Payments, DirectTransfer(amount)
  PROVE  CallIInv'
<1>1. amount \in Nat /\ state' = [state EXCEPT !.balance = @ + amount] /\ UNCHANGED stack
  BY CallStackAssumption DEF DirectTransfer
<1>2. /\ state' \in States /\ state'.lock = state.lock /\ SameUpgrade(state', state)
      /\ state'.balance >= state.balance
      /\ state'.tracked = state.tracked /\ state'.feesOwed = state.feesOwed
  BY <1>1, StateFields DEF States, SameUpgrade
<1>3. Len(stack) \in Nat /\ \A i \in 1..Len(stack) : stack[i] \in Frames
  BY DEF CallIInv
<1>4. Holds(state', stack, Len(stack))
  BY <1>2, <1>3, MoreBacksAsWell, StateFields DEF CallIInv
<1> QED  BY <1>1, <1>2, <1>4, Staying

-----------------------------------------------------------------------------
(* What upgrades do to it *)

LEMMA SameLedgerSameBacks ==
  ASSUME NEW before, NEW st, SameLedger(st, before)
  PROVE  /\ \A f : Backs(st, f) <=> Backs(before, f)
         /\ Covered(st) <=> Covered(before)
BY DEF Backs, Covered, SameLedger

\* What the ledger's part of the invariant needs where no operation of the ledger begins or ends.
LEMMA LedgerAside ==
  ASSUME NEW before, NEW st, SameLedger(st, before),
         NEW s, NEW t, NEW m \in Nat, NEW n \in Nat, LedgerHolds(before, s, m),
         \A i \in 1..m : OfLedger(s[i]) => i \in 1..n /\ t[i] = s[i],
         \A i \in 1..n : OfLedger(t[i]) => i \in 1..m /\ t[i] = s[i]
  PROVE  LedgerHolds(st, t, n)
<1>1. st.lock = before.lock  BY DEF SameLedger
<1>2. (\A i \in 1..m : ~ OfLedger(s[i])) <=> \A i \in 1..n : ~ OfLedger(t[i])
  OBVIOUS
<1>3. ASSUME NEW i \in 1..n, OfLedger(t[i])
      PROVE  Backs(st, t[i]) /\ \A j \in 1..n : OfLedger(t[j]) => j = i
  BY <1>3, SameLedgerSameBacks DEF LedgerHolds
<1> QED  BY <1>1, <1>2, <1>3, SameLedgerSameBacks DEF LedgerHolds

LEMMA UpgradeKeeps ==
  ASSUME CallIInv, NEW i \in Codes, NEW w \in Owners, NEW iat \in 0..MaxIat, Upgrade(i, w, iat)
  PROVE  CallIInv'
<1> DEFINE frame == [op |-> "upgrade", code |-> i, wallet |-> w, iat |-> iat, acknowledged |-> FALSE,
                     saved |-> state]
           t == stack'
           m == Len(stack)
<1>1. frame \in Frames /\ frame.saved = state /\ frame.op = "upgrade"
      /\ frame.wallet = w /\ frame.iat = iat /\ iat \in Nat
  BY StateFields, CallStackAssumption DEF Frames, UpgradeFrames
<1>2. /\ stack' = Append(stack, frame) /\ Outside
      /\ state' = [state EXCEPT !.upgrading = TRUE, !.code = i,
                                !.lastUpgrade = [wallet |-> w, iat |-> iat]]
  BY DEF Upgrade, Push
<1> HIDE DEF frame
<1>3. m \in Nat /\ t[m + 1] = frame /\ \A n \in 1..m : t[n] = stack[n]
  BY <1>2 DEF CallIInv
<1>4. /\ state' \in States /\ SameLedger(state', state)
      /\ state'.lastUpgrade = [wallet |-> w, iat |-> iat]
  BY <1>1, <1>2, StateFields DEF States, Owner, SameLedger
<1>5. LedgerHolds(state, stack, m)
  BY DEF CallIInv, Holds
<1>6. \A n \in 1..m : ~ ToProper(stack[n])
  BY <1>2, NoneToProper, OutsideIsNot
<1> HIDE DEF t, m
<1>7. LedgerHolds(state', t, m + 1)
  <2>1. \A n \in 1..(m + 1) : OfLedger(t[n]) => n \in 1..m /\ t[n] = stack[n]
    BY <1>1, <1>3 DEF OfLedger
  <2>2. \A n \in 1..m : n \in 1..(m + 1) /\ t[n] = stack[n]
    BY <1>3
  <2> QED  BY <1>3, <1>4, <1>5, <2>1, <2>2, LedgerAside
<1>8. UpgradeHolds(state', t, m + 1)
  <2>1. \A n \in 1..(m + 1) : ToProper(t[n]) => n = m + 1
    BY <1>3, <1>6
  <2>2. m + 1 \in 1..(m + 1)  BY <1>3
  <2> QED  BY <1>1, <1>3, <1>4, <2>1, <2>2 DEF UpgradeHolds
<1> QED  BY <1>1, <1>2, <1>4, <1>7, <1>8, Pushing DEF Holds, t, m

\* A hook, P2IDVault's or another one, acknowledges while its upgrade is on top.
LEMMA HooksKeep ==
  ASSUME CallIInv, stack # <<>>, Top.op = "upgrade", Acknowledge,
         state' \in States, SameLedger(state', state), state'.lastUpgrade = state.lastUpgrade
  PROVE  CallIInv'
<1> DEFINE frame == [Top EXCEPT !.acknowledged = TRUE]
           t == stack'
           m == Len(stack)
<1>1. /\ m \in Nat \ {0} /\ stack \in Seq(Frames) /\ Top = stack[m] /\ Top \in UpgradeFrames
  BY Fronts DEF CallIInv, Frames, FundFrames, PayFrames, FeesFrames, ForeignFrames
<1>2. /\ frame \in Frames /\ frame.saved = Top.saved /\ frame.op = "upgrade" /\ frame.code = Top.code
      /\ frame.wallet = Top.wallet /\ frame.iat = Top.iat
  BY <1>1 DEF Frames, UpgradeFrames
<1>3. stack' = [stack EXCEPT ![m] = frame]
  BY <1>1 DEF Acknowledge
<1> HIDE DEF frame
<1>4. t[m] = frame /\ \A n \in 1..(m - 1) : t[n] = stack[n]
  BY <1>1, <1>3
<1>5. LedgerHolds(state, stack, m) /\ UpgradeHolds(state, stack, m)
  BY DEF CallIInv, Holds
<1> HIDE DEF t, m
<1>6. \A n \in 1..m : n = m \/ (n \in 1..(m - 1) /\ t[n] = stack[n])
  BY <1>1, <1>4
<1>7. LedgerHolds(state', t, m)
  <2>1. ~ OfLedger(t[m]) /\ ~ OfLedger(stack[m])
    BY <1>1, <1>2, <1>4 DEF OfLedger
  <2>2. \A n \in 1..m : (OfLedger(t[n]) \/ OfLedger(stack[n])) => t[n] = stack[n]
    BY <1>6, <2>1
  <2>3. m \in Nat  BY <1>1
  <2>4. \A n \in 1..m : OfLedger(t[n]) => n \in 1..m /\ t[n] = stack[n]
    BY <2>2
  <2>5. \A n \in 1..m : OfLedger(stack[n]) => n \in 1..m /\ t[n] = stack[n]
    BY <2>2
  <2> QED  BY <1>5, <2>3, <2>4, <2>5, LedgerAside
<1>8. UpgradeHolds(state', t, m)
  <2>1. \A n \in 1..m : ToProper(t[n]) =>
          ToProper(stack[n]) /\ t[n].wallet = stack[n].wallet /\ t[n].iat = stack[n].iat
    BY <1>1, <1>2, <1>4, <1>6 DEF ToProper
  <2>2. m \in 1..m /\ t[m].op = "upgrade"
    BY <1>1, <1>2, <1>4
  <2> QED  BY <1>5, <2>1, <2>2 DEF UpgradeHolds
<1> QED  BY <1>2, <1>3, <1>7, <1>8, Topping DEF Holds, t, m

LEMMA HookKeeps ==
  ASSUME CallIInv, Hook
  PROVE  CallIInv'
<1>1. stack # <<>> /\ Top.op = "upgrade" /\ Acknowledge
      /\ state' = [state EXCEPT !.owner = [wallet |-> Top.wallet, iat |-> Top.iat]]
  BY DEF Hook
<1>2. Top.wallet \in Owners /\ Top.iat \in Nat
  BY <1>1, Fronts DEF CallIInv, Frames, FundFrames, PayFrames, FeesFrames, UpgradeFrames, ForeignFrames
<1>3. /\ state' \in States /\ SameLedger(state', state)
      /\ state'.lastUpgrade = state.lastUpgrade
  BY <1>1, <1>2, StateFields DEF States, Owner, SameLedger
<1> QED  BY <1>1, <1>3, HooksKeep

LEMMA ForeignHookKeeps ==
  ASSUME CallIInv, ForeignHook
  PROVE  CallIInv'
<1>1. stack # <<>> /\ Top.op = "upgrade" /\ Acknowledge /\ UNCHANGED state
  BY DEF ForeignHook
<1>2. state' \in States /\ SameLedger(state', state) /\ state'.lastUpgrade = state.lastUpgrade
  BY <1>1, StateFields DEF SameLedger
<1> QED  BY <1>1, <1>2, HooksKeep

LEMMA UpgradeReturnsKeeps ==
  ASSUME CallIInv, UpgradeReturns
  PROVE  CallIInv'
<1> DEFINE m == Len(stack) - 1
           held == [wallet |-> Top.wallet, iat |-> Top.iat]
<1>1. /\ stack # <<>> /\ Top.op = "upgrade" /\ stack' = Front(stack)
      /\ state' = [state EXCEPT !.upgrading = FALSE, !.meddled = FALSE,
                                !.installed = [code |-> Top.code, owner |-> held]]
      /\ state.code = Top.code
      /\ Top.code \in Proper => state.owner.wallet = Top.wallet /\ state.owner.iat >= Top.iat
  BY DEF UpgradeReturns, Pop, HookApplied
<1>2. /\ m \in Nat /\ m + 1 = Len(stack) /\ Top = stack[m + 1]
      /\ Top.code \in Codes /\ Top.wallet \in Owners /\ Top.iat \in Nat
  BY <1>1, Fronts DEF CallIInv, Frames, FundFrames, PayFrames, FeesFrames, UpgradeFrames, ForeignFrames
<1>3. LedgerHolds(state, stack, m + 1) /\ UpgradeHolds(state, stack, m + 1)
  BY <1>2 DEF CallIInv, Holds
<1> HIDE DEF m
<1>4. Top.code \in Proper => state.lastUpgrade = held
  BY <1>1, <1>2, <1>3 DEF UpgradeHolds, ToProper
<1>5. /\ state' \in States /\ SameLedger(state', state) /\ ~ state'.upgrading
      /\ state'.code = state.code /\ state'.owner = state.owner /\ state'.lastUpgrade = state.lastUpgrade
      /\ state'.installed = [code |-> Top.code, owner |-> held]
  BY <1>1, <1>2, StateFields DEF States, Owner, SameLedger
<1>6. Whole(state')
  BY <1>1, <1>4, <1>5 DEF Whole
<1>7. \A i \in 1..m : i \in 1..(m + 1) /\ i # m + 1
  BY <1>2
<1>8. UpgradeHolds(state', stack, m)
  BY <1>3, <1>6, <1>7 DEF UpgradeHolds
<1>9. LedgerHolds(state', stack, m)
  <2>1. \A i \in 1..(m + 1) : OfLedger(stack[i]) => i \in 1..m /\ stack[i] = stack[i]
    BY <1>1, <1>2 DEF OfLedger
  <2>2. m + 1 \in Nat  BY <1>2
  <2> QED  BY <1>2, <1>3, <1>5, <1>7, <2>1, <2>2, LedgerAside
<1> QED  BY <1>1, <1>5, <1>8, <1>9, Popping DEF Holds, m

-----------------------------------------------------------------------------
(* What the owner cache and foreign code do to it *)

LEMMA RefreshProofKeeps ==
  ASSUME CallIInv, NEW w \in Owners, NEW iat \in 0..MaxIat, RefreshProof(w, iat)
  PROVE  CallIInv'
<1>1. /\ iat \in Nat /\ iat > state.owner.iat /\ UNCHANGED stack /\ Outside
      /\ state' = [state EXCEPT !.owner = [wallet |-> w, iat |-> iat]]
  BY CallStackAssumption DEF RefreshProof
<1>2. /\ state' \in States /\ SameLedger(state', state) /\ state'.owner = [wallet |-> w, iat |-> iat]
      /\ state'.meddled = state.meddled /\ state'.upgrading = state.upgrading
      /\ state'.code = state.code /\ state'.lastUpgrade = state.lastUpgrade
      /\ state'.installed = state.installed
  BY <1>1, StateFields DEF States, Owner, SameLedger
<1>3. Whole(state) => Whole(state')
  <2>1. state.owner.iat \in Nat /\ state.installed.owner.iat \in Nat
    BY StateFields DEF States, Owner
  <2> QED  BY <1>1, <1>2, <2>1 DEF Whole
<1>4. Len(stack) \in Nat /\ LedgerHolds(state, stack, Len(stack)) /\ UpgradeHolds(state, stack, Len(stack))
  BY DEF CallIInv, Holds
<1>5. UpgradeHolds(state', stack, Len(stack))
  BY <1>2, <1>3, <1>4 DEF UpgradeHolds
<1>6. LedgerHolds(state', stack, Len(stack))
  BY <1>2, <1>4, LedgerAside
<1> QED  BY <1>1, <1>2, <1>5, <1>6, Staying DEF Holds

LEMMA CallForeignKeeps ==
  ASSUME CallIInv, CallForeign
  PROVE  CallIInv'
<1> DEFINE frame == [op |-> "foreign", saved |-> state]
           t == stack'
           m == Len(stack)
<1>1. frame \in Frames /\ frame.saved = state /\ frame.op = "foreign"
  BY StateFields DEF Frames, ForeignFrames
<1>2. stack' = Append(stack, frame) /\ Outside /\ state' = state
  BY DEF CallForeign, Push
<1> HIDE DEF frame
<1>3. m \in Nat /\ t[m + 1] = frame /\ \A n \in 1..m : t[n] = stack[n]
  BY <1>2 DEF CallIInv
<1>4. LedgerHolds(state, stack, m) /\ UpgradeHolds(state, stack, m)
  BY DEF CallIInv, Holds
<1>5. \A n \in 1..m : ~ ToProper(stack[n])
  BY <1>2, NoneToProper, OutsideIsNot
<1>6. SameLedger(state', state) /\ state' \in States
  BY <1>2, StateFields DEF SameLedger
<1> HIDE DEF t, m
<1>7. LedgerHolds(state', t, m + 1)
  <2>1. \A n \in 1..(m + 1) : OfLedger(t[n]) => n \in 1..m /\ t[n] = stack[n]
    BY <1>1, <1>3 DEF OfLedger
  <2>2. \A n \in 1..m : n \in 1..(m + 1) /\ t[n] = stack[n]
    BY <1>3
  <2> QED  BY <1>3, <1>4, <1>6, <2>1, <2>2, LedgerAside
<1>8. UpgradeHolds(state', t, m + 1)
  <2>1. \A n \in 1..(m + 1) : ~ ToProper(t[n])
    BY <1>1, <1>3, <1>5 DEF ToProper
  <2>2. \A n \in 1..m : n \in 1..(m + 1) /\ t[n] = stack[n]
    BY <1>3
  <2> QED  BY <1>2, <1>4, <2>1, <2>2 DEF UpgradeHolds
<1> QED  BY <1>1, <1>2, <1>6, <1>7, <1>8, Pushing DEF Holds, t, m

LEMMA ForeignReturnsKeeps ==
  ASSUME CallIInv, ForeignReturns
  PROVE  CallIInv'
<1> DEFINE m == Len(stack) - 1
<1>1. stack # <<>> /\ Top.op = "foreign" /\ stack' = Front(stack) /\ state' = state
  BY DEF ForeignReturns, Pop
<1>2. /\ m \in Nat /\ m + 1 = Len(stack) /\ Top = stack[m + 1]
  BY <1>1, Fronts DEF CallIInv
<1>3. LedgerHolds(state, stack, m + 1) /\ UpgradeHolds(state, stack, m + 1)
  BY <1>2 DEF CallIInv, Holds
<1>4. SameLedger(state', state) /\ state' \in States
  BY <1>1, StateFields DEF SameLedger
<1> HIDE DEF m
<1>5. \A i \in 1..m : i \in 1..(m + 1) /\ i # m + 1
  BY <1>2
<1>6. \A i \in 1..(m + 1) : i = m + 1 \/ i \in 1..m
  BY <1>2
<1>7. UpgradeHolds(state', stack, m)
  <2>1. (\A i \in 1..m : stack[i].op # "upgrade") => \A i \in 1..(m + 1) : stack[i].op # "upgrade"
    BY <1>1, <1>2, <1>6
  <2>2. \A i \in 1..m : ~ ToProper(stack[i])
    BY <1>3, <1>5 DEF UpgradeHolds
  <2> QED  BY <1>1, <1>3, <2>1, <2>2 DEF UpgradeHolds
<1>8. LedgerHolds(state', stack, m)
  <2>1. \A i \in 1..(m + 1) : OfLedger(stack[i]) => i \in 1..m /\ stack[i] = stack[i]
    BY <1>1, <1>2, <1>6 DEF OfLedger
  <2>2. m + 1 \in Nat  BY <1>2
  <2> QED  BY <1>2, <1>3, <1>4, <1>5, <2>1, <2>2, LedgerAside
<1> QED  BY <1>1, <1>4, <1>7, <1>8, Popping DEF Holds, m

LEMMA MeddleKeeps ==
  ASSUME CallIInv, Meddle
  PROVE  CallIInv'
<1>1. stack # <<>> /\ ~ ToProper(Top) /\ UNCHANGED stack
  BY DEF Meddle, ForeignRuns, ToProper
<1>2. state' \in States /\ SameLedger(state', state) /\ state'.meddled
  <2>1. CASE \E i \in Codes : state' = [state EXCEPT !.meddled = TRUE, !.code = i]
    BY <2>1, StateFields DEF States, SameLedger
  <2>2. CASE \E b \in BOOLEAN : state' = [state EXCEPT !.meddled = TRUE, !.upgrading = b]
    BY <2>2, StateFields DEF States, SameLedger
  <2>3. ASSUME NEW w \in Owners, NEW iat \in 0..(MaxIat + 1),
               \/ state' = [state EXCEPT !.meddled = TRUE, !.owner = [wallet |-> w, iat |-> iat]]
               \/ state' = [state EXCEPT !.meddled = TRUE, !.lastUpgrade = [wallet |-> w, iat |-> iat]]
        PROVE  state' \in States /\ SameLedger(state', state) /\ state'.meddled
    <3>1. [wallet |-> w, iat |-> iat] \in Owner
      BY CallStackAssumption DEF Owner
    <3> QED  BY <2>3, <3>1, StateFields DEF States, SameLedger
  <2> QED  BY <2>1, <2>2, <2>3 DEF Meddle
<1>3. Len(stack) \in Nat /\ LedgerHolds(state, stack, Len(stack))
  BY DEF CallIInv, Holds
<1>4. UpgradeHolds(state', stack, Len(stack))
  BY <1>1, <1>2, NoneToProper DEF UpgradeHolds
<1>5. LedgerHolds(state', stack, Len(stack))
  BY <1>2, <1>3, LedgerAside
<1> QED  BY <1>1, <1>2, <1>4, <1>5, Staying DEF Holds

LEMMA RevertKeeps ==
  ASSUME CallIInv, Revert
  PROVE  CallIInv'
<1>1. stack # <<>> /\ stack' = Front(stack) /\ state' = Top.saved
  BY DEF Revert, Pop
<1>2. /\ Len(stack) \in 1..Len(stack) /\ Top = stack[Len(stack)] /\ Top.saved \in States
  BY <1>1, Fronts, FramesKeepStates DEF CallIInv
<1>3. Holds(state', stack, Len(stack) - 1)
  BY <1>1, <1>2 DEF CallIInv
<1> QED  BY <1>1, <1>2, <1>3, Popping

-----------------------------------------------------------------------------
(* The theorems *)

LEMMA CallInitially == CallInit => CallIInv
<1> SUFFICES ASSUME CallInit PROVE CallIInv
  OBVIOUS
<1> DEFINE first == [wallet |-> CHOOSE w \in Owners : TRUE, iat |-> 0]
<1>1. first \in Owner /\ FirstCode \in Codes
  BY CallStackAssumption DEF Owner
<1>2. /\ state = [lock |-> 1, upgrading |-> FALSE,
                  balance |-> 0, deposits |-> [s \in Slots |-> 0], tracked |-> 0, feesOwed |-> 0,
                  code |-> FirstCode, owner |-> first, lastUpgrade |-> first,
                  installed |-> [code |-> FirstCode, owner |-> first], meddled |-> FALSE]
      /\ stack = <<>>
  BY DEF CallInit
<1> HIDE DEF first
<1>3. state \in States  BY <1>1, <1>2 DEF States
<1>4. stack \in Seq(Frames) /\ Len(stack) = 0  BY <1>2
<1>5. LedgerHolds(state, stack, 0)  BY <1>2 DEF LedgerHolds, Covered
<1>6. UpgradeHolds(state, stack, 0)
  <2>1. first.iat \in Int  BY <1>1 DEF Owner
  <2> QED  BY <1>2, <2>1 DEF UpgradeHolds, Whole
<1> QED  BY <1>3, <1>4, <1>5, <1>6 DEF CallIInv, Holds

LEMMA CallIInvHolds == CallSpec => []CallIInv
<1>1. CallIInv /\ [CallNext]_callVars => CallIInv'
  <2> SUFFICES ASSUME CallIInv, [CallNext]_callVars PROVE CallIInv'
    OBVIOUS
  <2>1. ASSUME NEW amount \in Payments, Fund(amount) \/ DirectTransfer(amount) \/ PolicyPulls(amount)
        PROVE  CallIInv'
    BY <2>1, FundKeeps, DirectTransferKeeps, PolicyPullsKeeps
  <2>2. ASSUME NEW s \in Slots, FundReturns(s) \/ Refund(s) PROVE CallIInv'
    BY <2>2, FundReturnsKeeps, RefundKeeps
  <2>3. ASSUME NEW s \in Slots, NEW untracked \in BOOLEAN, NEW fee \in {0} \union Payments,
               Sweep(s, untracked, fee)
        PROVE  CallIInv'
    BY <2>3, SweepKeeps
  <2>4. ASSUME NEW fee \in {0} \union Payments, SweepUntracked(fee) PROVE CallIInv'
    BY <2>4, SweepUntrackedKeeps
  <2>5. CASE PayReturns \/ WithdrawFees \/ WithdrawReturns \/ TokenMoves
    BY <2>5, PayReturnsKeeps, WithdrawKeeps, WithdrawReturnsKeeps, TokenMovesKeeps
  <2>6. ASSUME NEW w \in Owners, NEW iat \in 0..MaxIat,
               RefreshProof(w, iat) \/ \E i \in Codes : Upgrade(i, w, iat)
        PROVE  CallIInv'
    BY <2>6, RefreshProofKeeps, UpgradeKeeps
  <2>7. CASE Hook \/ ForeignHook \/ UpgradeReturns \/ Revert
    BY <2>7, HookKeeps, ForeignHookKeeps, UpgradeReturnsKeeps, RevertKeeps
  <2>8. CASE CallForeign \/ ForeignReturns \/ Meddle
    BY <2>8, CallForeignKeeps, ForeignReturnsKeeps, MeddleKeeps
  <2>9. CASE UNCHANGED callVars
    BY <2>9 DEF callVars, CallIInv, Holds, LedgerHolds, UpgradeHolds
  <2> QED  BY <2>1, <2>2, <2>3, <2>4, <2>5, <2>6, <2>7, <2>8, <2>9 DEF CallNext
<1> QED  BY <1>1, CallInitially, PTL DEF CallSpec

\* The tokens of the deposits are there at every moment of every call, and those of the fees
\* whenever no call is open: for any depth of callbacks, any amounts and any tokens' behaviour.
THEOREM DepositsAlwaysBacked == CallSpec => []DepositsBacked
<1>1. CallIInv => DepositsBacked
  <2> SUFFICES ASSUME CallIInv PROVE DepositsBacked
    OBVIOUS
  <2>1. Len(stack) \in Nat /\ stack \in Seq(Frames) /\ LedgerHolds(state, stack, Len(stack))
    BY DEF CallIInv, Holds
  <2>2. CASE Covered(state)
    BY <2>2, StateFields DEF Covered, DepositsBacked
  <2>3. CASE ~ Covered(state)
    <3>1. state.lock = 2  BY <2>3, StateFields
    <3>2. PICK i \in 1..Len(stack) : OfLedger(stack[i]) /\ Backs(state, stack[i])
      BY <2>1, <3>1 DEF LedgerHolds
    <3>3. stack # <<>>  BY <2>1, <3>2
    <3>4. stack[i] \in Frames  BY <2>1
    <3>5. state.balance >= state.tracked
      <4>1. CASE stack[i].op = "fund"  BY <2>3, <3>2, <4>1 DEF Backs
      <4>2. CASE stack[i].op = "pay"
        <5>1. stack[i].amount \in Nat
          BY <3>4, <4>2 DEF Frames, FundFrames, PayFrames, FeesFrames, UpgradeFrames, ForeignFrames
        <5> QED  BY <3>2, <4>2, <5>1, StateFields DEF Backs
      <4>3. CASE stack[i].op = "fees"
        <5>1. stack[i].allowance \in Nat
          BY <3>4, <4>3 DEF Frames, FundFrames, PayFrames, FeesFrames, UpgradeFrames, ForeignFrames
        <5> QED  BY <3>2, <4>3, <5>1, StateFields DEF Backs
      <4> QED  BY <3>2, <4>1, <4>2, <4>3 DEF OfLedger
    <3> QED  BY <3>3, <3>5 DEF DepositsBacked
  <2> QED  BY <2>2, <2>3
<1> QED  BY <1>1, CallIInvHolds, PTL

\* An upgrade happens whole or not at all.  Whatever registered code did before it, also to the
\* records that upgrades rest on, and wherever it was started: one that returns leaves the code
\* it was to install in the slot and the flag down and, when that is P2IDVault, its owner in
\* both records.  So they stay until foreign code, if that was installed, writes there itself.
THEOREM UpgradesAlwaysWhole == CallSpec => []UpgradesAreWhole
<1>1. CallIInv => UpgradesAreWhole
  BY DEF CallIInv, Holds, UpgradeHolds, Whole, UpgradesAreWhole
<1> QED  BY <1>1, CallIInvHolds, PTL
=============================================================================
