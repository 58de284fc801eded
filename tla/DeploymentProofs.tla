--------------------------- MODULE DeploymentProofs ---------------------------
(***************************************************************************)
(* Proofs about the deployment scripts, for any contracts, builds,         *)
(* networks and settings, and any number of interruptions.                 *)
(***************************************************************************)
EXTENDS DeploymentProps, TLAPS

-----------------------------------------------------------------------------
(* Stacks and what p2id.json makes of a changed proxy *)

IsStack(st) == st = [build |-> st.build, keys |-> st.keys, other |-> st.other]
IsSdk(p) == p = [hash |-> p.hash, factories |-> [e \in Environments |-> p.factories[e]]]

\* A factory address tells the whole stack: the factory takes the configuration, and nothing
\* of a stack is left out of what its address is computed from.
LEMMA FactoryTellsStack ==
  ASSUME NEW s, NEW t, IsStack(s), IsStack(t), Factory(s) = Factory(t)
  PROVE  s = t
<1>1. Contracts[Len(Contracts)] \notin Unconfigured
  BY ContractsAssumption
<1>2. /\ Factory(s).build = s.build /\ Factory(s).args = {[keys |-> s.keys, other |-> s.other]}
      /\ Factory(t).build = t.build /\ Factory(t).args = {[keys |-> t.keys, other |-> t.other]}
  BY <1>1 DEF Factory, predictAddress
<1>3. [keys |-> s.keys, other |-> s.other] = [keys |-> t.keys, other |-> t.other]
  BY <1>2
<1>4. s.build = t.build /\ s.keys = t.keys /\ s.other = t.other
  BY <1>2, <1>3
<1> QED
  BY <1>4 DEF IsStack

\* The factory is one of the contracts of the stack.
LEMMA FactoryIsPredicted ==
  ASSUME NEW st PROVE Factory(st) \in predictStack(st) /\ Factory(st).build = st.build
<1>1. Len(Contracts) \in DOMAIN Contracts
  BY ContractsAssumption
<1> QED
  BY <1>1 DEF Factory, predictAddress, predictStack

LEMMA ConfigIsStack ==
  ASSUME NEW raw, NEW n, NEW e, NEW b, NEW st \in configFor(raw, n, e, b)
  PROVE  IsStack(st)
<1>1. PICK k, o : st = [build |-> b, keys |-> k, other |-> o]
  BY DEF configFor
<1> QED
  BY <1>1 DEF IsStack

LEMMA EnvironmentIsKnown == \A n, o : environmentOf(n, o) \subseteq Environments
  BY DEF environmentOf

\* A refresh leaves the file alone or names no factory, and never touches a released scheme.
LEMMA RefreshedSdk ==
  ASSUME NEW p, IsSdk(p), NEW b, NEW mine \in Refreshed(p, b)
  PROVE  /\ IsSdk(mine)
         /\ mine.hash = b
         /\ mine = p \/ \A e \in Environments : mine.factories[e] = None
         /\ p.factories.production # None => mine = p
<1>1. CASE p.hash = b
  BY <1>1 DEF Refreshed
<1>2. CASE p.hash # b
  <2> DEFINE f == [p.factories EXCEPT !.sandbox = None]
  <2>1. p.factories.production = None /\ mine = [hash |-> b, factories |-> f]
    BY <1>2 DEF Refreshed
  <2>2. f = [e \in Environments |-> IF e = "sandbox" THEN None ELSE p.factories[e]]
    BY DEF IsSdk, Environments
  <2> HIDE DEF f
  <2> QED
    BY <2>1, <2>2 DEF IsSdk, Environments
<1> QED
  BY <1>1, <1>2

-----------------------------------------------------------------------------
(* The invariant *)

\* The files and the chains are tables over environments and networks.
FilesShape ==
  /\ IsSdk(p2id)
  /\ records = [n \in Networks |-> records[n]]
  /\ code = [n \in Networks |-> code[n]]
  /\ \A n \in Networks : records[n] # None => IsStack(records[n].stack)

IsTransaction(tx) ==
  tx = [network |-> tx.network, address |-> tx.address, awaited |-> tx.awaited]

\* Only the run that sent it waits for a transaction, and for one at a time.
OneAwaited ==
  \A tx \in mempool :
    /\ IsTransaction(tx)
    /\ tx.awaited =>
         run.pc = "sent" /\ \A ty \in mempool : ty.awaited => ty = tx

\* What a run in progress holds of p2id.json is what the file says, and from the check at its
\* start to its last write nothing it could contradict is recorded: one run at a time, and
\* only an idle operator gives up stacks.
RunAgrees ==
  run # Idle =>
    /\ run = [pc |-> run.pc, network |-> run.network, environment |-> run.environment,
              p2id |-> p2id, stack |-> run.stack, i |-> run.i]
    /\ run.pc # "idle" /\ run.network \in Networks /\ run.environment \in Environments
    /\ IsStack(run.stack)
    /\ p2id.factories[run.environment] # None =>
         p2id.factories[run.environment] = Factory(run.stack)
    /\ run.network \notin Local =>
         \A m \in earlierRecords(run.environment) :
           Factory(records[m].stack) = Factory(run.stack)
    /\ run.pc = "recorded" =>
         run.stack.build = p2id.hash /\ Factory(run.stack) \in code[run.network]

\* A factory in p2id.json has code somewhere and deploys the proxy of the file's hash.
FactoriesDeployed ==
  \A e \in Environments :
    p2id.factories[e] # None =>
      /\ p2id.factories[e].build = p2id.hash
      /\ \E n \in Networks : p2id.factories[e] \in code[n]

DeploymentInv ==
  /\ FilesShape
  /\ OneAwaited
  /\ RunAgrees
  /\ FactoriesDeployed
  /\ RecordsAgree

LEMMA DeploymentInvInitially == Init => DeploymentInv
<1> SUFFICES ASSUME Init PROVE DeploymentInv
  OBVIOUS
<1>1. FilesShape
  BY DEF Init, FilesShape, IsSdk, Environments
<1>2. OneAwaited /\ RunAgrees
  BY DEF Init, OneAwaited, RunAgrees
<1>3. FactoriesDeployed /\ RecordsAgree
  BY DEF Init, FactoriesDeployed, RecordsAgree, RecordedIn, earlierRecords, Environments
<1> QED
  BY <1>1, <1>2, <1>3 DEF DeploymentInv

-----------------------------------------------------------------------------
(* Every step keeps it *)

\* A step of a run in progress moves its counters, and nothing else of it.
LEMMA ExceptMoves ==
  ASSUME RunAgrees, run # Idle, NEW pc
  PROVE  [run EXCEPT !.pc = pc] = [pc |-> pc, network |-> run.network,
           environment |-> run.environment, p2id |-> p2id, stack |-> run.stack, i |-> run.i]
<1>1. PICK q, n, e, f, st, j :
        /\ run = [pc |-> q, network |-> n, environment |-> e, p2id |-> f, stack |-> st, i |-> j]
        /\ f = p2id
  BY DEF RunAgrees
<1> QED
  BY <1>1

LEMMA AdvanceMoves ==
  ASSUME RunAgrees, run # Idle, Advance
  PROVE  run' = [pc |-> "deploying", network |-> run.network, environment |-> run.environment,
                 p2id |-> p2id, stack |-> run.stack, i |-> run.i + 1]
<1>1. PICK q, n, e, f, st, j :
        /\ run = [pc |-> q, network |-> n, environment |-> e, p2id |-> f, stack |-> st, i |-> j]
        /\ f = p2id
  BY DEF RunAgrees
<1> QED
  BY <1>1 DEF Advance

LEMMA AwaitedAs ==
  ASSUME NEW tx, IsTransaction(tx), NEW w
  PROVE  [tx EXCEPT !.awaited = w]
           = [network |-> tx.network, address |-> tx.address, awaited |-> w]
<1> PICK n, a, v : tx = [network |-> n, address |-> a, awaited |-> v]
  BY DEF IsTransaction
<1> QED
  OBVIOUS

LEMMA MadeTransaction ==
  ASSUME NEW n, NEW a, NEW w
  PROVE  IsTransaction([network |-> n, address |-> a, awaited |-> w])
  BY DEF IsTransaction

\* A transaction whose sender stopped is awaited by nobody.
LEMMA Abandoned ==
  ASSUME NEW tx, IsTransaction(tx)
  PROVE  IsTransaction([tx EXCEPT !.awaited = FALSE]) /\ ~ [tx EXCEPT !.awaited = FALSE].awaited
<1>1. [tx EXCEPT !.awaited = FALSE] = [network |-> tx.network, address |-> tx.address, awaited |-> FALSE]
  BY AwaitedAs, Zenon
<1>2. ~ [network |-> tx.network, address |-> tx.address, awaited |-> FALSE].awaited
  BY Zenon
<1>3. IsTransaction([network |-> tx.network, address |-> tx.address, awaited |-> FALSE])
  BY MadeTransaction
<1> QED
  BY <1>1, <1>2, <1>3, Zenon

LEMMA OneAwaitedKept == OneAwaited /\ RunAgrees /\ Next => OneAwaited'
<1> SUFFICES ASSUME OneAwaited, RunAgrees, Next PROVE OneAwaited'
  OBVIOUS
<1>1. run.pc # "sent" => \A tx \in mempool : ~ tx.awaited
  BY DEF OneAwaited
<1>2. ASSUME UNCHANGED mempool, run.pc # "sent" \/ UNCHANGED run
      PROVE  OneAwaited'
  BY <1>1, <1>2 DEF OneAwaited
<1>3. Idle.pc = "idle"
  BY DEF Idle
<1>4. ASSUME Send PROVE OneAwaited'
  <2>1. run # Idle /\ run.pc = "deploying"
    BY <1>3, <1>4 DEF Send, Deploying
  <2>2. run'.pc = "sent"
    BY <1>4, <2>1, ExceptMoves DEF Send
  <2>3. PICK n, a : mempool' = mempool \union {[network |-> n, address |-> a, awaited |-> TRUE]}
    BY <1>4 DEF Send
  <2>4. \A tx \in mempool : ~ tx.awaited
    BY <1>1, <2>1
  <2>5. PICK new : mempool' = mempool \union {new} /\ IsTransaction(new)
    BY <2>3, MadeTransaction, Zenon
  <2> QED
    BY <2>2, <2>4, <2>5 DEF OneAwaited
<1>5. ASSUME Interrupt PROVE OneAwaited'
  <2>1. \A tx \in mempool' : IsTransaction(tx) /\ ~ tx.awaited
    BY <1>5, Abandoned, Zenon DEF Interrupt, OneAwaited
  <2> QED
    BY <2>1 DEF OneAwaited
<1>6. ASSUME NEW tx \in mempool, Mine(tx) PROVE OneAwaited'
  <2>1. mempool' = mempool \ {tx}
    BY <1>6 DEF Mine
  <2>2. CASE tx.awaited
    <3>1. \A ty \in mempool' : ~ ty.awaited
      BY <2>1, <2>2 DEF OneAwaited
    <3> QED
      BY <2>1, <3>1 DEF OneAwaited
  <2>3. CASE ~ tx.awaited
    <3>1. run' = run
      BY <1>6, <2>3 DEF Mine
    <3> QED
      BY <2>1, <3>1 DEF OneAwaited
  <2> QED
    BY <2>2, <2>3
<1>7. ASSUME \E n \in Networks, raw \in Settings : Begin(n, raw) PROVE OneAwaited'
  BY <1>2, <1>3, <1>7 DEF Begin, chain
<1>8. ASSUME Skip \/ WouldRevert \/ Confirm \/ Record \/ CheckFails \/ Publish \/ GiveUp
      PROVE  OneAwaited'
  BY <1>2, <1>8 DEF Skip, WouldRevert, Confirm, Record, CheckFails, Publish, GiveUp, Deploying,
                    Complete, chain
<1>9. ASSUME \/ \E n \in Networks : Sync(n)
             \/ \E n, a, c : Alter(n, a, c)
             \/ \E b : Rebuild(b)
             \/ \E e : Supersede(e)
      PROVE  OneAwaited'
  BY <1>2, <1>9 DEF Sync, Alter, Rebuild, Supersede, chain
<1> QED
  BY <1>4, <1>5, <1>6, <1>7, <1>8, <1>9 DEF Next, Proceed

\* What the invariant says of the files, and all of it but OneAwaited.
FilesInv == FilesShape /\ RunAgrees /\ FactoriesDeployed /\ RecordsAgree

\* What the files promise of one step.
StepRecordsDeployed ==
  /\ \A n \in Networks :
       records'[n] # records[n] /\ records'[n] # None =>
         /\ predictStack(records'[n].stack) \subseteq code[n]
         /\ \A c \in altered : c.network = n /\ c.address \in predictStack(records'[n].stack) =>
                                 c.field \notin CheckedFields
  /\ \A e \in Environments :
       p2id'.factories[e] # None =>
         /\ p2id'.factories[e].build = p2id'.hash
         /\ \E n \in Networks : p2id'.factories[e] \in code[n]
StepKeepsReleased ==
  p2id.factories.production # None =>
    /\ p2id'.factories.production = p2id.factories.production
    /\ p2id'.hash = p2id.hash
KeepsFiles == FilesInv' /\ StepRecordsDeployed /\ StepKeepsReleased

\* The run goes on, ends or does not move.
Runs ==
  \/ run' = run
  \/ run' = Idle
  \/ /\ run # Idle
     /\ \E pc, i : /\ pc \notin {"idle", "recorded"}
                    /\ run' = [pc |-> pc, network |-> run.network, environment |-> run.environment,
                               p2id |-> p2id, stack |-> run.stack, i |-> i]

\* Every step but four leaves the files alone, and no code goes away.
LEMMA QuietKeepsFiles ==
  ASSUME FilesInv, UNCHANGED files, Runs, code' = [n \in Networks |-> code'[n]],
         \A n \in Networks : code[n] \subseteq code'[n]
  PROVE  KeepsFiles
<1>1. p2id' = p2id /\ records' = records
  BY DEF files
<1>2. FilesShape'
  BY <1>1 DEF FilesInv, FilesShape
<1>3. FactoriesDeployed' /\ RecordsAgree'
  BY <1>1 DEF FilesInv, FactoriesDeployed, RecordsAgree, RecordedIn, earlierRecords
<1>4. RunAgrees'
  <2>1. CASE run' = Idle
    BY <2>1 DEF RunAgrees
  <2>2. CASE run' = run
    BY <1>1, <2>2 DEF FilesInv, RunAgrees, earlierRecords
  <2>3. ASSUME run # Idle, NEW pc, NEW i, pc \notin {"idle", "recorded"},
               run' = [pc |-> pc, network |-> run.network, environment |-> run.environment,
                       p2id |-> p2id, stack |-> run.stack, i |-> i]
        PROVE  RunAgrees'
    <3>1. /\ run'.network = run.network /\ run'.environment = run.environment
          /\ run'.stack = run.stack /\ run'.pc = pc /\ run'.i = i
      BY <2>3
    <3>2. run' = [pc |-> run'.pc, network |-> run'.network, environment |-> run'.environment,
                  p2id |-> p2id', stack |-> run'.stack, i |-> run'.i]
      BY <1>1, <2>3, <3>1
    <3> QED
      BY <1>1, <2>3, <3>1, <3>2 DEF FilesInv, RunAgrees, earlierRecords
  <2> QED
    BY <2>1, <2>2, <2>3 DEF Runs
<1>5. StepRecordsDeployed /\ StepKeepsReleased
  BY <1>1 DEF FilesInv, FactoriesDeployed, StepRecordsDeployed, StepKeepsReleased
<1> QED
  BY <1>2, <1>3, <1>4, <1>5 DEF KeepsFiles, FilesInv

LEMMA BeginKeepsFiles ==
  ASSUME FilesInv, NEW n \in Networks, NEW raw, Begin(n, raw)
  PROVE  KeepsFiles
<1>a. PICK override \in Overrides : \E e \in environmentOf(n, override) :
        \E mine \in Refreshed(p2id, build) :
          /\ p2id' = mine
          /\ \/ run' = Idle
             \/ \E st \in configFor(raw, n, e, build) :
                  /\ ~ Contradicts(st, n, e, mine)
                  /\ run' = [pc |-> "deploying", network |-> n, environment |-> e, p2id |-> mine,
                             stack |-> st, i |-> 1]
  BY DEF Begin
<1>b. PICK e \in environmentOf(n, override) : \E mine \in Refreshed(p2id, build) :
        /\ p2id' = mine
        /\ \/ run' = Idle
           \/ \E st \in configFor(raw, n, e, build) :
                /\ ~ Contradicts(st, n, e, mine)
                /\ run' = [pc |-> "deploying", network |-> n, environment |-> e, p2id |-> mine,
                           stack |-> st, i |-> 1]
  BY <1>a
<1>1. PICK mine \in Refreshed(p2id, build) :
        /\ p2id' = mine
        /\ \/ run' = Idle
           \/ \E st \in configFor(raw, n, e, build) :
                /\ ~ Contradicts(st, n, e, mine)
                /\ run' = [pc |-> "deploying", network |-> n, environment |-> e, p2id |-> mine,
                           stack |-> st, i |-> 1]
  BY <1>b
<1>2. UNCHANGED <<records, code, altered>>
  BY DEF Begin, chain
<1>3. e \in Environments
  BY EnvironmentIsKnown
<1>4. /\ IsSdk(mine)
      /\ mine = p2id \/ \A f \in Environments : mine.factories[f] = None
      /\ p2id.factories.production # None => mine = p2id
  BY RefreshedSdk DEF FilesInv, FilesShape
<1>5. FilesShape'
  BY <1>1, <1>2, <1>4 DEF FilesInv, FilesShape
<1>6. FactoriesDeployed' /\ RecordsAgree'
  BY <1>1, <1>2, <1>4 DEF FilesInv, FactoriesDeployed, RecordsAgree, RecordedIn, earlierRecords
<1>7. RunAgrees'
  <2>1. CASE run' = Idle
    BY <2>1 DEF RunAgrees
  <2>2. ASSUME NEW st \in configFor(raw, n, e, build), ~ Contradicts(st, n, e, mine),
               run' = [pc |-> "deploying", network |-> n, environment |-> e, p2id |-> mine,
                       stack |-> st, i |-> 1]
        PROVE  RunAgrees'
    <3>1. IsStack(st)
      BY ConfigIsStack
    <3>2. /\ run'.pc = "deploying" /\ run'.network = n /\ run'.environment = e
          /\ run'.stack = st /\ run'.i = 1
      BY <2>2
    <3>3. mine.factories[e] # None => mine.factories[e] = Factory(st)
      BY <2>2 DEF Contradicts
    <3>4. n \notin Local => \A m \in earlierRecords(e) : Factory(records[m].stack) = Factory(st)
      BY <2>2 DEF Contradicts
    <3>5. earlierRecords(e)' = earlierRecords(e)
      BY <1>2 DEF earlierRecords
    <3>6. run' = [pc |-> run'.pc, network |-> run'.network, environment |-> run'.environment,
                  p2id |-> p2id', stack |-> run'.stack, i |-> run'.i]
      BY <1>1, <2>2, <3>2
    <3> QED
      BY <1>1, <1>2, <1>3, <3>1, <3>2, <3>3, <3>4, <3>5, <3>6 DEF RunAgrees
  <2> QED
    BY <1>1, <2>1, <2>2
<1>8. StepRecordsDeployed
  BY <1>1, <1>2, <1>4 DEF FilesInv, FactoriesDeployed, StepRecordsDeployed
<1>9. StepKeepsReleased
  BY <1>1, <1>4 DEF StepKeepsReleased
<1> QED
  BY <1>5, <1>6, <1>7, <1>8, <1>9 DEF KeepsFiles, FilesInv

\* The last write: p2id.json as it was read, with the factory of a stack that is there.
LEMMA PublishKeepsFiles == ASSUME FilesInv, Publish PROVE KeepsFiles
<1>1. /\ run # Idle /\ run.pc = "recorded" /\ run' = Idle /\ records' = records /\ code' = code
      /\ altered' = altered
  BY DEF Publish, Idle, chain
<1>2. PICK n, e, st :
        /\ n = run.network /\ e = run.environment /\ st = run.stack
        /\ n \in Networks /\ e \in Environments
        /\ st.build = p2id.hash /\ Factory(st) \in code[n]
        /\ n \notin Local => \A m \in earlierRecords(e) : Factory(records[m].stack) = Factory(st)
        /\ run.p2id = p2id
  BY <1>1 DEF FilesInv, RunAgrees
<1>3. CASE p2id' = p2id
  <2>1. Runs /\ UNCHANGED files
    BY <1>1, <1>3 DEF Runs, files
  <2>2. code' = [m \in Networks |-> code'[m]]
    BY <1>1 DEF FilesInv, FilesShape
  <2> QED
    BY <1>1, <2>1, <2>2, QuietKeepsFiles
<1>4. CASE /\ n \notin Local /\ p2id.factories[e] = None
           /\ p2id' = [p2id EXCEPT !.factories[e] = Factory(st)]
  <2>1. PICK h, f : p2id = [hash |-> h, factories |-> f] /\ f = [d \in Environments |-> f[d]]
    BY DEF FilesInv, FilesShape, IsSdk
  <2> DEFINE g == [d \in Environments |-> IF d = e THEN Factory(st) ELSE f[d]]
  <2>2. p2id' = [hash |-> h, factories |-> [f EXCEPT ![e] = Factory(st)]]
    BY <1>4, <2>1
  <2>3. [f EXCEPT ![e] = Factory(st)] = g
    BY <2>1
  <2>4. p2id' = [hash |-> h, factories |-> g]
    BY <2>2, <2>3
  <2>5. p2id'.hash = h /\ p2id'.factories = g
    BY <2>4
  <2>6. /\ p2id.hash = h /\ p2id.factories = f
        /\ \A d \in Environments : g[d] = IF d = e THEN Factory(st) ELSE f[d]
        /\ g = [d \in Environments |-> g[d]]
    BY <2>1
  <2> HIDE DEF g
  <2>7. IsSdk(p2id')
    BY <2>4, <2>5, <2>6 DEF IsSdk
  <2>8. FilesShape'
    BY <1>1, <2>7 DEF FilesInv, FilesShape
  <2>9. RunAgrees'
    BY <1>1 DEF RunAgrees
  <2>10. Factory(st).build = st.build
    BY FactoryIsPredicted
  <2>11. FactoriesDeployed'
    BY <1>1, <1>2, <2>5, <2>6, <2>10 DEF FilesInv, FactoriesDeployed
  <2>12. RecordsAgree'
    BY <1>1, <1>2, <1>4, <2>5, <2>6 DEF FilesInv, RecordsAgree, RecordedIn, earlierRecords
  <2>13. StepRecordsDeployed
    BY <1>1, <1>2, <2>5, <2>6, <2>10 DEF FilesInv, FactoriesDeployed, StepRecordsDeployed
  <2>14. StepKeepsReleased
    <3>1. p2id.factories.production # None => e # "production"
      BY <1>4
    <3> QED
      BY <2>5, <2>6, <3>1 DEF StepKeepsReleased, Environments
  <2> QED
    BY <2>8, <2>9, <2>11, <2>12, <2>13, <2>14 DEF KeepsFiles, FilesInv
<1> QED
  BY <1>2, <1>3, <1>4 DEF Publish

\* The record: the stack the other chains of the environment have, complete and as configured.
LEMMA RecordKeepsFiles == ASSUME FilesInv, Record PROVE KeepsFiles
<1>1. /\ run # Idle /\ p2id' = p2id /\ code' = code /\ altered' = altered
      /\ run' = [run EXCEPT !.pc = "recorded"]
  BY DEF Record, Complete, Idle, chain
<1>2. PICK n, e, st, i :
        /\ n = run.network /\ e = run.environment /\ st = run.stack /\ i = run.i
        /\ n \in Networks /\ e \in Environments /\ IsStack(st)
        /\ p2id.factories[e] # None => p2id.factories[e] = Factory(st)
        /\ n \notin Local => \A m \in earlierRecords(e) : Factory(records[m].stack) = Factory(st)
        /\ run.p2id = p2id
  BY <1>1 DEF FilesInv, RunAgrees
<1>3. run' = [pc |-> "recorded", network |-> n, environment |-> e, p2id |-> p2id,
              stack |-> st, i |-> i]
  BY <1>1, <1>2, ExceptMoves DEF FilesInv
<1>4. /\ predictStack(st) \subseteq code[n]
      /\ \A c \in altered : c.network = n /\ c.address \in predictStack(st) =>
                              c.field \notin CheckedFields
      /\ st.build = p2id.hash
  BY <1>2 DEF Record, checkStack
<1>5. Factory(st) \in code[n]
  BY <1>4, FactoryIsPredicted
<1>6. FactoriesDeployed' /\ StepKeepsReleased
  BY <1>1 DEF FilesInv, FactoriesDeployed, StepKeepsReleased
<1>7. CASE n \in Local
  <2>1. records' = records
    BY <1>2, <1>7 DEF Record
  <2>2. FilesShape' /\ RecordsAgree' /\ StepRecordsDeployed
    BY <1>1, <2>1 DEF FilesInv, FilesShape, RecordsAgree, RecordedIn, earlierRecords,
                      FactoriesDeployed, StepRecordsDeployed
  <2>3. RunAgrees'
    BY <1>1, <1>2, <1>3, <1>4, <1>5, <1>7 DEF RunAgrees
  <2> QED
    BY <1>6, <2>2, <2>3 DEF KeepsFiles, FilesInv
<1>8. CASE n \notin Local
  <2> DEFINE new == [environment |-> e, stack |-> st]
  <2>1. records' = [records EXCEPT ![n] = new]
    BY <1>2, <1>8 DEF Record
  <2>2. /\ records' = [m \in Networks |-> records'[m]]
        /\ \A m \in Networks : records'[m] = IF m = n THEN new ELSE records[m]
    BY <2>1 DEF FilesInv, FilesShape
  <2>3. new.environment = e /\ new.stack = st
    OBVIOUS
  <2> HIDE DEF new
  <2>4. FilesShape'
    BY <1>1, <1>2, <2>2, <2>3 DEF FilesInv, FilesShape
  <2>5. \A m \in earlierRecords(e) : records[m].stack = st
    BY <1>2, <1>8, FactoryTellsStack DEF FilesInv, FilesShape, earlierRecords
  <2>6. \A m \in earlierRecords(e)' : records'[m].stack = st
    BY <2>2, <2>3, <2>5 DEF earlierRecords
  <2>7. ASSUME NEW d \in Environments, d # e
        PROVE  /\ earlierRecords(d)' \subseteq earlierRecords(d)
               /\ \A m \in earlierRecords(d)' : records'[m] = records[m]
    BY <2>2, <2>3, <2>7 DEF earlierRecords
  <2>8. RecordsAgree'
    BY <1>1, <1>2, <2>6, <2>7 DEF FilesInv, RecordsAgree, RecordedIn
  <2>9. RunAgrees'
    BY <1>1, <1>2, <1>3, <1>4, <1>5, <2>6 DEF RunAgrees
  <2>10. StepRecordsDeployed
    BY <1>1, <1>4, <2>2, <2>3 DEF FilesInv, FactoriesDeployed, StepRecordsDeployed
  <2> QED
    BY <1>6, <2>4, <2>8, <2>9, <2>10 DEF KeepsFiles, FilesInv
<1> QED
  BY <1>7, <1>8

\* Giving up a stack takes all the records of an environment away, and adds none.
LEMMA SupersedeKeepsFiles ==
  ASSUME FilesInv, NEW e \in Environments, Supersede(e) PROVE KeepsFiles
<1>1. run' = Idle /\ p2id' = p2id /\ code' = code
  BY DEF Supersede, chain
<1>2. /\ records' = [n \in Networks |-> records'[n]]
      /\ \A n \in Networks : records'[n] = None \/ records'[n] = records[n]
  BY DEF Supersede
<1>3. FilesShape'
  BY <1>1, <1>2 DEF FilesInv, FilesShape
<1>4. RunAgrees' /\ FactoriesDeployed'
  BY <1>1 DEF FilesInv, RunAgrees, FactoriesDeployed
<1>5. RecordsAgree'
  BY <1>1, <1>2 DEF FilesInv, RecordsAgree, RecordedIn, earlierRecords
<1>6. StepRecordsDeployed /\ StepKeepsReleased
  BY <1>1, <1>2 DEF FilesInv, FactoriesDeployed, StepRecordsDeployed, StepKeepsReleased
<1> QED
  BY <1>3, <1>4, <1>5, <1>6 DEF KeepsFiles, FilesInv

\* The other steps of a run: it moves, sends, waits or ends, and writes no file.
LEMMA RunKeepsFiles ==
  ASSUME FilesInv, Skip \/ Send \/ WouldRevert \/ Confirm \/ CheckFails \/ GiveUp \/ Interrupt
  PROVE  KeepsFiles
<1>1. UNCHANGED files /\ code' = code
  BY DEF Skip, Send, WouldRevert, Confirm, CheckFails, GiveUp, Interrupt, chain
<1>2. run.pc # "idle" => run # Idle
  BY DEF Idle
<1>3. ASSUME Skip \/ Confirm PROVE Runs
  <2>1. run # Idle /\ Advance
    BY <1>2, <1>3 DEF Skip, Confirm, Deploying
  <2> QED
    BY <2>1, AdvanceMoves DEF FilesInv, Runs
<1>4. ASSUME Send PROVE Runs
  <2>1. run # Idle /\ run' = [run EXCEPT !.pc = "sent"]
    BY <1>2, <1>4 DEF Send, Deploying
  <2> QED
    BY <2>1, ExceptMoves DEF FilesInv, Runs
<1>5. ASSUME WouldRevert \/ CheckFails \/ GiveUp \/ Interrupt PROVE Runs
  BY <1>5 DEF WouldRevert, CheckFails, GiveUp, Interrupt, Runs
<1>6. code' = [n \in Networks |-> code'[n]]
  BY <1>1 DEF FilesInv, FilesShape
<1> QED
  BY <1>1, <1>3, <1>4, <1>5, <1>6, QuietKeepsFiles

\* Only the run that waits hears of a transaction, and code is only ever added.
LEMMA MineKeepsFiles ==
  ASSUME FilesInv, OneAwaited, NEW tx \in mempool, Mine(tx) PROVE KeepsFiles
<1>1. UNCHANGED files /\ code' = [code EXCEPT ![tx.network] = @ \union {tx.address}]
  BY DEF Mine
<1>2. /\ code' = [n \in Networks |-> code'[n]]
      /\ \A n \in Networks : code[n] \subseteq code'[n]
  BY <1>1 DEF FilesInv, FilesShape
<1>3. Runs
  <2>1. CASE ~ tx.awaited
    BY <2>1 DEF Mine, Runs
  <2>2. CASE tx.awaited
    <3>1. run # Idle
      BY <2>2 DEF OneAwaited, Idle
    <3>2. run' = Idle \/ run' = [run EXCEPT !.pc = "mined"]
      BY <2>2 DEF Mine
    <3> QED
      BY <3>1, <3>2, ExceptMoves DEF FilesInv, Runs
  <2> QED
    BY <2>1, <2>2
<1> QED
  BY <1>1, <1>2, <1>3, QuietKeepsFiles

\* What happens around the script writes no file either.
LEMMA AroundKeepsFiles ==
  ASSUME FilesInv,
         \/ \E n \in Networks : Sync(n)
         \/ \E n, a, field : Alter(n, a, field)
         \/ \E b : Rebuild(b)
  PROVE  KeepsFiles
<1>1. UNCHANGED <<files, run>> /\ code' = code
  BY DEF Sync, Alter, Rebuild, chain
<1>2. code' = [n \in Networks |-> code'[n]]
  BY <1>1 DEF FilesInv, FilesShape
<1> QED
  BY <1>1, <1>2, QuietKeepsFiles DEF Runs

LEMMA NextKeepsFiles == DeploymentInv /\ Next => KeepsFiles
<1> SUFFICES ASSUME DeploymentInv, Next PROVE KeepsFiles
  OBVIOUS
<1>1. FilesInv /\ OneAwaited
  BY DEF DeploymentInv, FilesInv
<1>2. ASSUME NEW n \in Networks, NEW raw \in Settings, Begin(n, raw) PROVE KeepsFiles
  BY <1>1, <1>2, BeginKeepsFiles
<1>3. ASSUME Proceed \/ GiveUp \/ Interrupt PROVE KeepsFiles
  BY <1>1, <1>3, RunKeepsFiles, RecordKeepsFiles, PublishKeepsFiles DEF Proceed
<1>4. ASSUME NEW tx \in mempool, Mine(tx) PROVE KeepsFiles
  BY <1>1, <1>4, MineKeepsFiles
<1>5. ASSUME NEW n \in Networks, Sync(n) PROVE KeepsFiles
  BY <1>1, <1>5, AroundKeepsFiles
<1>6. ASSUME NEW n \in Networks, NEW a \in code[n], NEW c \in OwnerChanges, Alter(n, a, c[2])
      PROVE  KeepsFiles
  BY <1>1, <1>6, AroundKeepsFiles
<1>7. ASSUME NEW b \in ToSet(Builds), Rebuild(b) PROVE KeepsFiles
  BY <1>1, <1>7, AroundKeepsFiles
<1>8. ASSUME NEW e \in Environments, Supersede(e) PROVE KeepsFiles
  BY <1>1, <1>8, SupersedeKeepsFiles
<1> QED
  BY <1>2, <1>3, <1>4, <1>5, <1>6, <1>7, <1>8 DEF Next

\* A step that changes nothing keeps everything.
LEMMA StutterKeepsFiles == DeploymentInv /\ UNCHANGED deploymentVars => KeepsFiles /\ OneAwaited'
<1> SUFFICES ASSUME DeploymentInv, UNCHANGED deploymentVars PROVE KeepsFiles /\ OneAwaited'
  OBVIOUS
<1>1. UNCHANGED <<p2id, records, code, altered, run, mempool>>
  BY DEF deploymentVars, files, chain
<1>2. FilesInv'
  BY <1>1 DEF DeploymentInv, FilesInv, FilesShape, RunAgrees, FactoriesDeployed, RecordsAgree,
              RecordedIn, earlierRecords
<1>3. OneAwaited'
  BY <1>1 DEF DeploymentInv, OneAwaited
<1>4. StepRecordsDeployed /\ StepKeepsReleased
  BY <1>1 DEF DeploymentInv, FactoriesDeployed, StepRecordsDeployed, StepKeepsReleased
<1> QED
  BY <1>2, <1>3, <1>4 DEF KeepsFiles

LEMMA DeploymentStep ==
  DeploymentInv /\ [Next]_deploymentVars =>
    DeploymentInv' /\ StepRecordsDeployed /\ StepKeepsReleased
<1> SUFFICES ASSUME DeploymentInv, [Next]_deploymentVars
             PROVE  DeploymentInv' /\ StepRecordsDeployed /\ StepKeepsReleased
  OBVIOUS
<1>1. KeepsFiles
  BY NextKeepsFiles, StutterKeepsFiles
<1>2. OneAwaited'
  BY OneAwaitedKept, StutterKeepsFiles DEF DeploymentInv
<1> QED
  BY <1>1, <1>2 DEF KeepsFiles, FilesInv, DeploymentInv

\* In every reachable state the files have their shape, a run in progress holds what the files
\* say, one transaction is awaited, and every factory in p2id.json is deployed.
THEOREM DeploymentInvariant == DeploymentSafety => []DeploymentInv
<1>1. DeploymentInv /\ [Next]_deploymentVars => DeploymentInv'
  BY DeploymentStep
<1> QED
  BY <1>1, DeploymentInvInitially, PTL DEF DeploymentSafety

\* However often runs of the deployment script are interrupted and repeated, and settings,
\* builds and sandbox stacks change in between, the records of an environment name one stack,
\* and p2id.json names the factory of that stack or none.
THEOREM RecordsAlwaysAgree == DeploymentSafety => []RecordsAgree
<1>1. DeploymentInv => RecordsAgree
  BY DEF DeploymentInv
<1> QED
  BY <1>1, DeploymentInvariant, PTL

\* A record is only written for a stack that is complete on its chain and wired as configured,
\* and a factory stands in p2id.json only with the hash of the proxy it deploys, and with code.
THEOREM RecordsAreDeployed == DeploymentSafety => RecordedAsDeployed
<1>1. DeploymentInv /\ [Next]_deploymentVars => StepRecordsDeployed
  BY DeploymentStep
<1> QED
  BY <1>1, DeploymentInvariant, PTL DEF DeploymentSafety, RecordedAsDeployed, StepRecordsDeployed

\* Once p2id.json names a production factory, no run, build or restart moves it or the proxy
\* hash it was recorded with.
THEOREM ReleasedStaysFrozen == DeploymentSafety => ReleasedIsFrozen
<1>1. DeploymentInv /\ [Next]_deploymentVars => StepKeepsReleased
  BY DeploymentStep
<1> QED
  BY <1>1, DeploymentInvariant, PTL DEF DeploymentSafety, ReleasedIsFrozen, StepKeepsReleased

===============================================================================
