---------------------------- MODULE GovernanceProps ----------------------------
(***************************************************************************)
(* What the announced changes promise.                                     *)
(***************************************************************************)
EXTENDS ImplementationRegistry, Timelocks

-----------------------------------------------------------------------------
(* The implementation registry and its scripts *)

Noticed(item) ==
  announced[item] # 0 /\ now >= announced[item] + DEFAULT_VERIFIER_DELAY

\* New vaults start on registered code bound to their factory, and the implementation that the
\* factory began with stays an upgrade target: no order of proposals for one implementation or
\* the other, revocations and registrations leaves a base or initial implementation out of the
\* registry, or lets foreign code into it or into a vault.
BaseStaysRegistered ==
  /\ {Initial, baseImplementation} \subseteq isRegistered
  /\ isRegistered \subseteq deployed \ Unbound
  /\ \A v \in Vaults : vaults[v] # None => vaults[v] \in deployed \ Unbound

\* Owners can leave before it: nothing becomes an upgrade target, or what new vaults start on,
\* unless exactly that was on announcement for the whole delay without interruption.
RegisteredAfterNotice ==
  [][/\ \A i \in isRegistered' \ isRegistered : \E makeDefault \in BOOLEAN : Noticed(<<i, makeDefault>>)
     /\ baseImplementation' # baseImplementation => Noticed(<<baseImplementation', TRUE>>)]_registryVars

\* The calldata that ACTION=activate prepares names no implementation, and whatever is proposed
\* when it is mined gets registered.  It registers what the script checked all the same, or
\* reverts, if it is submitted within the delay: a proposal that came in between is too young.
ActivatesWhatWasChecked ==
  [][\A p \in prepared :
       /\ p.call = "registerImplementation" /\ p.implementation # None
       /\ now < p.at + DEFAULT_VERIFIER_DELAY
       /\ Submit(p)
       => /\ p.implementation \in isRegistered'
          /\ isRegistered' \ isRegistered \subseteq {p.implementation}
          /\ baseImplementation' =
               IF p.makeDefault THEN p.implementation ELSE baseImplementation]_registryVars

-----------------------------------------------------------------------------
(* The timelocks of the factory and of a verifier *)

\* Users can leave before it: no policy, default verifier or signer key takes effect unless that
\* one stood announced, without interruption, for its whole delay; a key that was removed needs a
\* new announcement.  And every new default, or new policy, comes with the policy in force
\* approving the default verifier in force, whichever of the two was proposed first.
NoticeGiven ==
  [][/\ \A item \in Items :
          InForce(item)' /\ ~ InForce(item) => since[item] # 0 /\ clock >= since[item] + Delay(item)
     /\ policy' # policy \/ defaultVerifier' # defaultVerifier
          => defaultVerifier' \in approved'[policy']]_lockVars
=============================================================================
