---------------------------- MODULE DeploymentProps ----------------------------
(***************************************************************************)
(* What the deployment scripts promise.                                    *)
(***************************************************************************)
EXTENDS Deployment

RecordedIn(e) == earlierRecords(e)

\* Same scheme and environment, same addresses: the records of an environment name one stack,
\* and p2id.json, when it names a factory, names theirs.  So it is however often runs were
\* interrupted, settings or builds changed and sandbox stacks were given up in between.
RecordsAgree ==
  \A e \in Environments : \A n, m \in RecordedIn(e) :
    /\ records[n].stack = records[m].stack
    /\ p2id.factories[e] # None => p2id.factories[e] = Factory(records[n].stack)

\* A record is written for a stack that is complete on its chain, whatever the backends showed,
\* and wired as the settings say; and the SDK is given a factory only with the hash of the proxy
\* that this factory deploys, so that every address derived offline is a vault's.
RecordedAsDeployed ==
  [][/\ \A n \in Networks :
          records'[n] # records[n] /\ records'[n] # None =>
            /\ predictStack(records'[n].stack) \subseteq code[n]
            /\ \A c \in altered : c.network = n /\ c.address \in predictStack(records'[n].stack) =>
                                    c.field \notin CheckedFields
     /\ \A e \in Environments :
          p2id'.factories[e] # None =>
            /\ p2id'.factories[e].build = p2id'.hash
            /\ \E n \in Networks : p2id'.factories[e] \in code[n]]_deploymentVars

\* Once a production factory is recorded it stays, with the proxy hash it was recorded with:
\* the addresses the SDK derives for a released scheme never move.
ReleasedIsFrozen ==
  [][p2id.factories.production # None =>
       /\ p2id'.factories.production = p2id.factories.production
       /\ p2id'.hash = p2id.hash]_deploymentVars

\* The scripts are "safe to re-run after a partial failure" and get there: once one chain of
\* an environment is recorded, trying again brings every other chain of it to a record, which
\* RecordsAgree makes the same, from whatever an interrupted run left there; unless that stack
\* is given up, or the contracts change or their owner re-wires them first.
ChainsJoin ==
  \A e \in Environments :
    LET chains == {n \in Networks \ Local : DEPLOY_NETWORKS[n] = e}
    IN  Cardinality(chains) > 1 =>
          (RecordedIn(e) # {} ~> \/ RecordedIn(e) \in {chains, {}}
                                 \/ \E n \in RecordedIn(e) : records[n].stack.build # build
                                 \/ altered # {})
===============================================================================
