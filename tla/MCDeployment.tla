----------------------------- MODULE MCDeployment -----------------------------
(* The deployment scripts on a small instance: three of the seven contracts. *)
EXTENDS DeploymentProps

CONSTANTS o1, b1, b2

Contracts2 == <<"pviumIdentity", "factory">>
TwoBuilds == <<b1, b2>>

Key(x) == [x |-> x, signing |-> TRUE]
Extra == [x |-> 9, signing |-> FALSE]
\* Production's keys in an unsorted document with a key of another kind, and rotated; a
\* sandbox document that lists a key twice, without the settings a real network needs.
DotEnv2 ==
  [production |-> {[jwks |-> <<Key(2), Extra, Key(1)>>, other |-> o1],
                   [jwks |-> <<Key(2), Key(3)>>, other |-> o1]},
   sandbox |-> {[jwks |-> <<Key(4)>>, other |-> o1], [jwks |-> <<Key(4), Key(4)>>, other |-> Unset]}]
OneRewiring == {<<"factory", "alpha">>}

-----------------------------------------------------------------------------
(* The part of the histories that is explored *)

\* Chains do not influence each other: a transaction or a lagging backend that a run left
\* behind is seen to before a run on another chain begins, the contracts change or one of them
\* is re-wired.  The testnet is left alone once the second production chain has been begun.
\* Both are guards of the steps below, not constraints on what TLC keeps of them.
Settled(n) == seen[n] = code[n] /\ \A tx \in mempool : tx.network # n
MayBegin(n) ==
  /\ \A m \in Networks \ {n} : Settled(m)
  /\ n = "baseSepolia" => code["bsc"] = {}
MayChange == run = Idle /\ \A n \in Networks : Settled(n)

Try(n, raw) == MayBegin(n) /\ Begin(n, raw)

ExploredNext ==
  \/ \E n \in Networks : \E raw \in Settings : Try(n, raw)
  \/ \E n \in Networks : Sync(n)
  \/ Proceed
  \/ GiveUp
  \/ Interrupt
  \/ \E tx \in mempool : Mine(tx)
  \/ MayChange /\ \E n \in Networks : \E a \in code[n] : \E c \in OwnerChanges : Alter(n, a, c[2])
  \/ MayChange /\ \E b \in ToSet(Builds) : Rebuild(b)
  \/ \E e \in Environments : Supersede(e)

\* Fairness asks only for steps that are explored, and for less than DeploymentSpec does: the
\* operators keep trying the chains that have another to join, each time a run may begin there.
\* A history in which every run ends without having got anywhere is among these.
ExploredSpec ==
  /\ Init /\ [][ExploredNext]_deploymentVars
  /\ WF_deploymentVars(Proceed)
  /\ WF_deploymentVars(\E tx \in mempool : Mine(tx))
  /\ WF_deploymentVars(\E n \in Networks : Sync(n))
  /\ \A n \in {"base", "bsc"} : \A raw \in DotEnv.production : SF_deploymentVars(Try(n, raw))
=============================================================================
