------------------------------ MODULE Deployment ------------------------------
(***************************************************************************)
(* The deployment of the stack at chain-independent addresses              *)
(* (contracts/scripts/deploy-deterministic.ts, lib/deterministic.ts and    *)
(* deploy.config.ts): a script that may stop anywhere and is run again, an *)
(* RPC endpoint whose backends lag, and the files that make later runs     *)
(* agree with earlier ones: p2id.json, which the SDK is built from, and    *)
(* one record per chain under deployments/.                                *)
(*                                                                         *)
(* One address scheme.  A CREATE2 address is what it is computed from: the *)
(* build's bytecode and the constructor arguments.                         *)
(***************************************************************************)
EXTENDS Naturals, Sequences, FiniteSets, SequencesExt

CONSTANTS
  Networks,      \* the --network names somebody uses
  Overrides,     \* values of P2ID_ENV, "" when unset
  Contracts,     \* the stack in deployment order, the factory last
  Unconfigured,  \* those of them that take no configuration (libraries, zkVerifier)
  Builds,        \* what the compiler produces, the build to begin with first
  DotEnv,        \* environment -> what contracts/.env may hold for it: [jwks, other], a
                 \* sequence of keys and the rest (owner, attesters, delays)
  Unset,         \* a setting missing from contracts/.env
  LocalDefault,  \* what a local run takes instead
  None,          \* nothing recorded
  OwnerChanges,  \* what the owner may change on chain: pairs of a contract and a field
  MaxUpsets      \* how often something goes wrong or changes between or during runs

ASSUME ContractsAssumption ==
  /\ Contracts \in Seq(STRING) /\ Contracts # <<>>
  /\ Builds # <<>>
  /\ Unconfigured \subseteq ToSet(Contracts) \ {Contracts[Len(Contracts)]}

Settings == UNION {DotEnv[e] : e \in DOMAIN DotEnv}

DEPLOY_NETWORKS ==
  [baseSepolia |-> "sandbox", base |-> "production", bsc |-> "production"]
Environments == {"sandbox", "production"}
Local == {"hardhat", "localhost"}

\* The environment of a network, or none when the script refuses it.
environmentOf(network, override) ==
  {e \in Environments :
     /\ override # "" => e = override
     /\ network \in DOMAIN DEPLOY_NETWORKS => e = DEPLOY_NETWORKS[network]
     /\ override = "" /\ network \notin DOMAIN DEPLOY_NETWORKS =>
          network \in Local /\ e = "sandbox"}

\* A required setting; real networks never default.
setting(value, network, environment) ==
  IF value # Unset THEN {value}
  ELSE IF network \in Local /\ environment = "sandbox" THEN {LocalDefault} ELSE {}

\* The signing keys of a JWKS, and their canonical order.
loadPrivyKeys(jwks) == SelectSeq(jwks, LAMBDA k : k.signing)
sortedKeys(keys) == SortSeq([i \in DOMAIN keys |-> keys[i].x], LAMBDA a, b : a < b)

\* The stacks these settings give with this build; none when a setting is missing.
configFor(raw, network, environment, b) ==
  {[build |-> b, keys |-> sortedKeys(loadPrivyKeys(raw.jwks)), other |-> o] :
     o \in IF loadPrivyKeys(raw.jwks) = <<>> THEN {}
           ELSE setting(raw.other, network, environment)}

predictAddress(i, st) ==
  [contract |-> Contracts[i], build |-> st.build,
   args |-> IF Contracts[i] \in Unconfigured THEN {} ELSE {[keys |-> st.keys, other |-> st.other]}]
Factory(st) == predictAddress(Len(Contracts), st)
predictStack(st) == {predictAddress(i, st) : i \in DOMAIN Contracts}

\* Whether the constructor accepts its arguments: PviumIdentity takes no key twice.
Constructible(i, st) ==
  Contracts[i] = "pviumIdentity" => \A k, m \in DOMAIN st.keys : k # m => st.keys[k] # st.keys[m]

VARIABLES
  build,       \* the build the artifacts are from
  p2id,        \* sdks/node/p2id-core/src/p2id.json: [hash, factories]
  records,     \* deployments/: the stack recorded for a network, or None
  code,        \* network -> the addresses that have code
  seen,        \* those of them that every RPC backend shows
  mempool,     \* transactions sent and not mined: [network, address, awaited]
  altered,     \* what the owner has changed: [network, address, field]
  run,         \* the invocation in progress: one operator at a time
  upsets       \* bounds the model

files == <<p2id, records>>
chain == <<code, seen, mempool, altered>>
deploymentVars == <<build, files, chain, run, upsets>>
Upset == upsets < MaxUpsets /\ upsets' = upsets + 1

Idle == [pc |-> "idle"]

Init ==
  /\ build = Head(Builds)
  /\ p2id = [hash |-> build, factories |-> [e \in Environments |-> None]]
  /\ records = [n \in Networks |-> None]
  /\ code = [n \in Networks |-> {}]
  /\ seen = [n \in Networks |-> {}]
  /\ mempool = {}
  /\ altered = {}
  /\ run = Idle
  /\ upsets = 0

-----------------------------------------------------------------------------
(* One run of the script *)

\* Mutant: a changed proxy is refreshed whether or not the scheme is released.
RefreshedWhenReleased(p, b) ==
  IF p.hash = b THEN {p} ELSE {[hash |-> b, factories |-> [p.factories EXCEPT !.sandbox = None]]}

\* What a run does with the hash of the vault proxy in p2id.json: nothing, a refresh
\* that drops the sandbox factory, or a refusal once the scheme is released.
Refreshed(p, b) ==
  IF p.hash = b THEN {p}
  ELSE IF p.factories.production # None THEN {}
  ELSE {[hash |-> b, factories |-> [p.factories EXCEPT !.sandbox = None]]}

\* The networks whose record is of this environment.
earlierRecords(e) == {m \in Networks : records[m] # None /\ records[m].environment = e}

\* Mutant: only p2id.json is consulted, not the records of other chains.
ContradictsSdk(st, n, e, mine) == mine.factories[e] # None /\ mine.factories[e] # Factory(st)

\* The recorded addresses a configuration would contradict: p2id.json as it was read,
\* and the records of the environment (which only warn on a local chain).
Contradicts(st, n, e, mine) ==
  \/ mine.factories[e] # None /\ mine.factories[e] # Factory(st)
  \/ n \notin Local /\ \E m \in earlierRecords(e) : Factory(records[m].stack) # Factory(st)

\* The key set cannot be fetched, or is not JSON.
FetchFails == Upset

\* Read p2id.json, refresh it in memory and on disk; load the settings, predict the addresses,
\* and go on unless a setting is missing or the addresses contradict what is recorded.
Begin(n, raw) ==
  /\ run = Idle
  /\ \E override \in Overrides :
       \E e \in environmentOf(n, override), mine \in Refreshed(p2id, build) :
         LET stacks == {st \in configFor(raw, n, e, build) : ~ Contradicts(st, n, e, mine)} IN
         /\ raw \in DotEnv[e]
         /\ p2id' = mine
         /\ \/ FetchFails /\ run' = Idle
            \/ stacks = {} /\ run' = Idle /\ UNCHANGED upsets
            \/ \E st \in stacks :
                 /\ run' = [pc |-> "deploying", network |-> n, environment |-> e,
                            p2id |-> mine, stack |-> st, i |-> 1]
                 /\ UNCHANGED upsets
  /\ UNCHANGED <<build, records, chain>>

\* The contract the run is at: its address, and whether a read may find or miss it.
Here == predictAddress(run.i, run.stack)
MayFind == Here \in code[run.network]
MayMiss == Here \notin seen[run.network]
Deploying == run.pc = "deploying" /\ run.i <= Len(Contracts)
Advance == run' = [run EXCEPT !.pc = "deploying", !.i = @ + 1]

\* Mutant: a contract that an earlier run left there makes every later run fail.
TakenIsAnError ==
  /\ Deploying /\ MayFind
  /\ run' = Idle
  /\ UNCHANGED <<build, files, chain, upsets>>

\* deployDeterministic finds the contract there: on its first read, or patiently after
\* the simulated call reverted.
Skip ==
  /\ Deploying /\ MayFind
  /\ Advance
  /\ UNCHANGED <<build, files, chain, upsets>>

\* No code is read and the simulated call passes: the transaction is sent.
Send ==
  /\ Deploying /\ MayMiss
  /\ Constructible(run.i, run.stack)
  /\ run' = [run EXCEPT !.pc = "sent"]
  /\ mempool' = mempool \union {[network |-> run.network, address |-> Here, awaited |-> TRUE]}
  /\ UNCHANGED <<build, files, code, seen, altered, upsets>>

\* No code is read, the simulated call reverts and the patient reads still show nothing:
\* the constructor refuses, or the backends have not caught up.
WouldRevert ==
  /\ Deploying /\ MayMiss
  /\ \/ ~ Constructible(run.i, run.stack) /\ UNCHANGED upsets
     \/ MayFind /\ Upset
  /\ run' = Idle
  /\ UNCHANGED <<build, files, chain>>

\* A transaction is mined.  The proxy reverts when the address is taken, and the run that
\* waits for the receipt then throws.
Mine(tx) ==
  LET taken == tx.address \in code[tx.network] IN
  /\ mempool' = mempool \ {tx}
  /\ code' = [code EXCEPT ![tx.network] = @ \union {tx.address}]
  /\ seen' = IF tx.network \in Local THEN [seen EXCEPT ![tx.network] = code'[tx.network]] ELSE seen
  /\ run' = IF ~ tx.awaited THEN run
            ELSE IF taken THEN Idle
            ELSE [run EXCEPT !.pc = "mined"]
  /\ UNCHANGED <<build, files, altered, upsets>>

\* Wait until the endpoint shows the contract ...
Confirm ==
  /\ run.pc = "mined" /\ MayFind
  /\ Advance
  /\ UNCHANGED <<build, files, chain, upsets>>

\* ... or give up after a minute ("re-run to continue").
GiveUp ==
  /\ run.pc = "mined" /\ MayMiss
  /\ Upset
  /\ run' = Idle
  /\ UNCHANGED <<build, files, chain>>

\* What checkStack reads back and compares with the configuration.  The implementation new
\* vaults start on is not among it: any registered one will do.
CheckedFields ==
  {"owner", "signerKeys", "constraintSigner", "alpha", "defaultAttester", "defaultVerifier",
   "policy", "verifierAllowed"}
\* Mutant: the stack is not read back.
checkHashOnly(n, st, mine) == st.build = mine.hash

checkStack(n, st, mine) ==
  /\ \A c \in altered :
       c.network = n /\ c.address \in predictStack(st) => c.field \notin CheckedFields
  /\ st.build = mine.hash

Complete == run.pc = "deploying" /\ run.i > Len(Contracts)

\* The stack is complete and reads back as configured: write the record.  A local chain is
\* checked and not recorded.
Record ==
  /\ Complete
  /\ predictStack(run.stack) \subseteq code[run.network]
  /\ checkStack(run.network, run.stack, run.p2id)
  /\ records' = IF run.network \in Local THEN records
                ELSE [records EXCEPT ![run.network] =
                        [environment |-> run.environment, stack |-> run.stack]]
  /\ run' = [run EXCEPT !.pc = "recorded"]
  /\ UNCHANGED <<build, p2id, chain, upsets>>

\* It does not: somebody re-wired it, or a lagging backend hides part of it.
CheckFails ==
  /\ Complete
  /\ \/ ~ checkStack(run.network, run.stack, run.p2id) /\ UNCHANGED upsets
     \/ ~ predictStack(run.stack) \subseteq seen[run.network] /\ Upset
  /\ run' = Idle
  /\ UNCHANGED <<build, files, chain>>

\* Write p2id.json back as it was read, with the factory added when none was recorded.
Publish ==
  /\ run.pc = "recorded"
  /\ p2id' = IF run.network \in Local \/ run.p2id.factories[run.environment] # None THEN p2id
             ELSE [run.p2id EXCEPT !.factories[run.environment] = Factory(run.stack)]
  /\ run' = Idle
  /\ UNCHANGED <<build, records, chain, upsets>>

\* The process stops wherever it is; what it sent may still be mined.
Interrupt ==
  /\ run # Idle
  /\ Upset
  /\ run' = Idle
  /\ mempool' = {[tx EXCEPT !.awaited = FALSE] : tx \in mempool}
  /\ UNCHANGED <<build, files, code, seen, altered>>

-----------------------------------------------------------------------------
(* Around the script *)

\* The lagging backends catch up.
Sync(n) ==
  /\ seen[n] # code[n]
  /\ seen' = [seen EXCEPT ![n] = code[n]]
  /\ UNCHANGED <<build, files, code, mempool, altered, run, upsets>>

\* The owner changes something of a deployed contract.
Alter(n, a, field) ==
  /\ <<a.contract, field>> \in OwnerChanges
  /\ Upset
  /\ altered' = altered \union {[network |-> n, address |-> a, field |-> field]}
  /\ UNCHANGED <<build, files, code, seen, mempool, run>>

\* The contracts are changed and compiled, while no run is in progress.
Rebuild(b) ==
  /\ b # build
  /\ run = Idle
  /\ Upset
  /\ build' = b
  /\ UNCHANGED <<files, chain, run>>

\* A stack with nothing in p2id.json is given up: its records are moved out of deployments/,
\* as the script's message says.
Supersede(e) ==
  /\ run = Idle
  /\ Upset
  /\ p2id.factories[e] = None
  /\ earlierRecords(e) # {}
  /\ records' = [n \in Networks |-> IF n \in earlierRecords(e) THEN None ELSE records[n]]
  /\ UNCHANGED <<build, p2id, chain, run>>

Proceed == Skip \/ Send \/ WouldRevert \/ Confirm \/ Record \/ CheckFails \/ Publish

Next ==
  \/ \E n \in Networks : \E raw \in Settings : Begin(n, raw)
  \/ \E n \in Networks : Sync(n)
  \/ Proceed
  \/ GiveUp
  \/ Interrupt
  \/ \E tx \in mempool : Mine(tx)
  \/ \E n \in Networks : \E a \in code[n] : \E c \in OwnerChanges : Alter(n, a, c[2])
  \/ \E b \in ToSet(Builds) : Rebuild(b)
  \/ \E e \in Environments : Supersede(e)

DeploymentSafety == Init /\ [][Next]_deploymentVars

\* A run goes on until it ends, a transaction is mined, the backends catch up, and the
\* operators keep trying every real network with every set of settings they have.
DeploymentSpec ==
  /\ DeploymentSafety
  /\ WF_deploymentVars(Proceed)
  /\ WF_deploymentVars(\E tx \in mempool : Mine(tx))
  /\ WF_deploymentVars(\E n \in Networks : Sync(n))
  /\ \A n \in Networks \ Local : \A override \in Overrides : \A e \in environmentOf(n, override) :
       \A raw \in DotEnv[e] : SF_deploymentVars(Begin(n, raw))
===============================================================================
