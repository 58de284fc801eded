# A verification of zkid

zkid lets people pay an identity (an e-mail address, a social handle, a wallet) before its
owner has done anything. The money waits in a vault whose address is derived from a hash of
the identity; the owner later proves the identity with a zero-knowledge proof over a token of
an identity provider and is paid.

This directory holds TLA+ modules translated from the source, TLC configurations that check
them on small instances, and theorems that TLAPS proves for instances of any size. Paths below
are relative to `src/`.

## 1. Inventory

### On chain (`contracts/src`)

| Part | State | Operations | Talks to |
|---|---|---|---|
| `P2IDVault` | deposit records, buckets per (verifier, constraint, token) with a claim cursor, running totals, accrued fees, one-use constraints; per verifier the cached payout wallet, its issue-time floor and what it was proven under; approval nonces; a reentrancy lock | fund, fundWith, fundFor, refund, refreshProof, refreshProofAndSweep, sweep, sweepUntracked, sweepDeposits, sweepBucket, sweepBucketDeposits, withdrawFees, acceptOwnerProof | reads factory, policy and verifiers on every call; calls tokens, recipients and the policy |
| `PviumP2IDVaultProxy` | implementation, last upgrade, upgrade nonces, an upgrading flag | upgradeTo, fallback | factory, default verifier, the vault behind it |
| `PviumP2IdVaultFactory` | policy, default verifier, implementation registry, each with a timelocked proposal; alpha state of every verification key, attester, epoch; owner | propose, cancel, activate; setAlpha, setDefaultAttester; deploy; fund | deploys and initialises vaults, funds them for others |
| `PviumIdentity` | accepted signer keys, timelocked proposals, revision, owner | proposeSignerKey, cancel, activateSignerKey, removeSignerKey; verifyAttestation | generated proof verifier |
| `PviumVerifier` | constraint signers, owner | setConstraintSigner; getIdentityWallet, revision, vkHash | `PviumIdentity` |
| `PviumP2IDPolicy` | approved verifiers, owner | approveVerifier; isVerifierAllowed, feeBps, distributeFee | - |
| `P2IDHash`, `PviumZKVerifier` | none | hashing; the generated proof verifier | - |

Everything on chain runs one transaction at a time, and a transaction that reverts leaves no
trace. What is hard is the order of transactions: anyone may present anyone's proof, replay
it, or claim for its owner; funders refund while owners claim; signer keys are revoked, keys
go in and out of alpha, default verifiers and policies change between a proof and the claim
that relies on it.

### Off chain

| Part | State | Hard because |
|---|---|---|
| `circuit` (Noir) | none | hand-written scanning of a signed token; must accept one meaning only |
| `http-prover`: request path | registry of jobs in memory, by key and by id | repeated requests meet jobs that wait for a token check, a slot, the worker or bb, and that fail at any of them; a restart forgets them |
| `http-prover`: proving queue | slots, wait queue, a solver worker | bounded queue, worker death, accepted work that fails late |
| `http-prover`: outbox | rows in SQLite, deliveries under way | a first delivery, a dispatcher working through a list it read earlier and a restart interleave at every `await` |
| `http-prover`: tokens | a cache of signing keys | keys rotate while calls overlap and answers arrive late |
| `http-prover`: witnesses | none | byte offsets are found by searching raw JSON whose texts may quote JSON |
| `sdks/node/p2id-verifier` | a cache of signing keys; a shared proof backend | the same, and keys pinned per environment |
| `sdks/node/p2id-core` | none | must derive the same hashes and addresses as contracts and circuit |
| `contracts/scripts`: deterministic deployment | records per chain, `p2id.json`, the chains | a run may stop anywhere and is run again; endpoints lag; settings, keys and sources change between runs, the addresses must not |
| `contracts/scripts`: implementations | calldata prepared now, submitted later; a snapshot of the storage layout | what was checked must be what gets registered; upgrades keep state they cannot see |
| `contracts/scripts`: source verification | the explorer's listings | lost answers, other submitters, repeated runs |
| `explorer/webapp`: searches | two forms that ask while one types | a late answer shown for another question, to somebody about to send money |
| `explorer/webapp`: lists of tokens | none | an indexer that is not believed, names written in several ways, the first entry of a token may be the wrong one |
| `explorer/webapp`: notifications | a form | a request passed on over two connections, either of which breaks before or after it was acted on |

### What makes each part correct

* Ledger: the vault holds what it owes; a deposit is paid once, to its funder whole after the
  window or to a claimant less at most the fee fixed at funding; the counters stay the sums
  they stand for, so no refund can be blocked; paging reaches every deposit; a constraint
  works once.
* Payout wallets: the wallet cached is that of the newest proof, and among equally old ones
  the first; it is payable only while what vouched for it is still accepted; floors only rise
  and stay near the clock; unassigned money follows the newest proof through any default
  verifier; in alpha nothing is paid without an approval, and an approval works once.
* Factory, identity, policy: nothing timelocked changes without its notice; the default
  verifier was approved when it became the default; the base implementation stays registered;
  a removed signer key stays out for the whole delay.
* Proxy: upgrades go forward in proof time; a failing hook undoes everything.
* Calls back: whatever a token, a recipient, the policy or new code calls in the middle of an
  operation, what is owed stays backed; whatever new code calls or writes, an upgrade is undone or
  leaves the code it installed, with the way free for the next.
* Deployment: every record of an environment names the same stack, complete on its chain; a
  released factory never moves; trying again gets a chain there.
* Implementations: the variables of the snapshot keep their meaning through every upgrade the
  checks let pass, later ones as long as the build that checks has them; a prepared registration
  registers what was checked.
* Clients: a withdrawn key is not trusted for long; a witness points at what the issuer wrote, and
  is refused only for what the circuit cannot take;
  an address shown is that of what was asked last; a token is listed under a handle only if it
  pays that handle; who is told of a subscription has it.
* Prover: slots and queue stay bounded and are served in order; an accepted job is findable
  until its result is, and is proved once at a time; every accepted job ends in a row; every
  row is delivered or given up on, for a cause.

## 2. Modules

```
VaultBase      clock, verifier numbers
 |-- Sums      finite sums
 |-- VaultLedger   money    -> VaultLedgerProps   -> VaultLedgerProofs    Escrow (abstract)
 |-- OwnerCache    wallets  -> OwnerCacheProps    -> P2IDVaultProofs
 '-- P2IDVault     both, one action per call -> P2IDVaultProps -> P2IDVaultProofs
ImplementationRegistry, Timelocks -> GovernanceProps -> GovernanceProofs
 '-- CallStack              -> CallStackProps     -> GovernanceProofs
ProvingQueue       slots    -> ProvingQueueProps
 '-- HttpProver    requests -> HttpProverProps   -> HttpProverProofs (of both)
Outbox             delivery -> OutboxProps       -> OutboxProofs
Deployment                  -> DeploymentProps    -> DeploymentProofs
StorageLayout, TrustedKeys, Verification, Witness -> ClientsProps -> WitnessProofs
RecipientSearch, HandleLookup, TokenFeed, StalkForm -> ExplorerProps
 '-- all eight                                     -> ClientsProofs (extends WitnessProofs)
MC* : the same for TLC
```

* **VaultLedger** is `P2IDVault`'s storage of lines 49-66 plus the balance a token reports.
  `Fund` is `_fund`; `SweepPage` is `_sweepDefault`/`_consumeFromCursor` (a claim loop is one
  step: it consumes the set `PageIds` and moves the cursor to `PageEnd`); `SweepIds` is
  `_consumeIds`; `SweepUntracked`, `WithdrawFees`, `Refund` are the functions of those names;
  `DirectTransfer` is money nobody called `fund` for. A token may credit less or more than it
  was asked to move (`amount` and `credited` are chosen apart). Amounts are integers capped at
  `UINT128_MAX` by the guards, as in the code. A policy's answers are arbitrary (`Quotes`) or
  a failure (`NoAnswer`). Who is paid is left open here.
* **OwnerCache** holds the per-verifier payout wallet and everything its validity depends on:
  the vault's cache fields, the proxy's upgrade history, the factory's alpha state, the default
  verifier, the policy's approvals, the verifiers' signer keys, revision and key. `Apply` is
  `_apply` with all its refusals; `PresentProof` is a proof method up to the point where it
  goes on to pay; `PresentUpgradeProof` is the proxy's `_upgradeTo` with the hook. The world
  around the vault changes by `SetAlpha`, `RemoveSignerKey` and so on. Two history variables,
  `presented` and `voided`, are read by no action.
* **P2IDVault** extends both and has one action per external call, from its modifiers to its
  transfer. `payouts` remembers whom the last call paid.
* **Escrow** is the abstract specification of the ledger: entries held or released, fees,
  cash, and no counter at all.

* **ProvingQueue** is the class `Prover`. The service is one event loop, so an action is what
  one event does with all the promise continuations it makes runnable: a message of the
  worker, the end of a bb process, the worker's error event (which rejects every pending solve
  and starts as many waiters), a call of `prove()`. `Release` is `release()` once for each
  request of a set. The worker is never started again: `worker` stays "down" until a restart.
* **HttpProver** extends it with `POST /attestations`, `generate()` and `runWebhookJob()` up
  to the outbox row. `authenticating` holds the requests inside the `await` of the token
  check, which the queue's counters do not see. A key stands for the hash of identity,
  wallet and callback URL; a repeated request with the key of a registered job is answered
  with that job's id and changes nothing, so it is the guard of `PostJob` and no action.
  `Close` is the event that stores a result and unregisters its job (`Remove`); `JobState` is what
  somebody who asks for a job by its id is told.
* **Outbox** takes over where the row is written: `StoreResult` begins the first delivery,
  `Tick` reads a list of due rows and `BatchAnswer` works through it. An answer is an HTTP
  status, or 0 for a call that threw. A call ends within its timeout, a tick may come at any
  time. `acked` and `rejected` are histories.

* **CallStack** takes the operations of the vault apart where they call out: an entry pushes a
  frame, the callee may enter the vault or its proxy again, and the innermost call returns or
  reverts, which restores the storage its frame saved. `NotEntered` is the lock of
  `nonReentrant`. `Codes` are the registered implementations and `Proper` those that are
  `P2IDVault`. Registered code is not audited (`PviumP2IDVaultProxy.sol:129-132`), and the proxy
  delegates to it: in the hook of the upgrade that installs it (`Upgrade`, then anything) and in any
  later call (`CallForeign`) it may call back, fail, or write what it likes (`Meddle`), be it the
  implementation slot, the record of the last upgrade, the upgrading flag or the vault's owner
  and floor, with issue times nobody could prove. Its getters say what it likes: so `NotOlder`
  reads the vault's floor, and `HookApplied` the owner, only where the code that answers is
  `P2IDVault`. `RefreshProof` is the one other way the owner changes here. `installed` and
  `meddled` are histories: what the last upgrade that returned installed, and whether foreign code
  wrote since. One vault, token and verifier; a deposit is a slot.
* **ImplementationRegistry** has the factory's registry with its one proposal slot and the
  scripts `deploy-implementation.ts` and `deploy-vault-implementation.ts`: what they check and
  prepare is a set `prepared`, from which the owner submits later, in any order or never.
  `announced` is a history: since when exactly this stands proposed.
* **Timelocks** has the other three announced changes, whose activations read each other's
  values, and the removal of keys. One set of items, a delay for each kind.
* **Deployment** is `deploy-deterministic.ts` with its library: per chain the code, what the
  endpoint's backends show of it, transactions under way; and the files. An address is what it
  is computed from, build and arguments, so equal addresses mean equal settings. `Begin` reads
  settings and files and predicts the stack; `Proceed` is the run's next step; `Mine` and `Sync`
  are the chain; `FetchFails`, `GiveUp`, `Interrupt` and changes of settings, sources and wiring are bounded by
  `MaxUpsets`.
* **StorageLayout** lets the compiler lay out any declarations of a few types and has the
  comparison, the snapshot and the vaults that upgrade through it. The base that is deployed is
  `P2IDVault` as the build has it (`current`), which may have variables that the snapshot lacks, as
  it has at this commit (`StorageLayout.test.ts:15`).
* **TrustedKeys** is `verifyIdentity` of the SDK and `authenticate` of the service, which keep
  the answer of a key set's URL for a while; a behaviour follows one of the two clients.
* **Verification** is a run of `verify-deployments.ts` against an explorer others use too.
* **Witness** is the search for offsets, on payloads made of symbols: the bytes that structure
  JSON one by one, other runs of bytes as words. A payload comes from a token, so that
  the properties know where everything is. A text in it is any symbols, quotes, braces and
  backslashes too; keys, numbers and what a request asks for are words. `stringMap`, which marks
  the bytes inside strings, is `After` applied symbol by symbol. Lengths
  are not counted: which words, tokens and numbers are too long, large or short is given by
  constants (`LongWords`, `LargeTokens`, `Seconds`), so that each refusal of `buildWitness` and
  `walletField` is there and its threshold is not. What is assumed of the
  issuer (`TokensAssumption`): no claim comes twice, `iat` is there and a number, and
  `linked_accounts`, if there, is a list of accounts, as JSON in a string.
* **RecipientSearch** and **HandleLookup** are the explorer's forms: one action per event handler,
  answers in any order.
* **TokenFeed** is `getTokens` and the two pages that call it. `answer` is what the indexer says,
  right or wrong; `Listed` takes one entry into the list or drops it, and a page keeps the address
  it derived beside the list it got. An address is the tuple of what is hashed into it, as
  `p2id-core` does; comparing addresses whatever their case is comparing these tuples.
* **StalkForm** is the form for notifications, the route and the API behind it. A request is in
  one of four places and either connection may break at any of them (`BreakOff`, `Unreachable`),
  so a visitor may be told of an error when the API has registered the contact, and tries again.
  No page of this commit shows the form; the route answers all the same.

`MCGovernance` and `MCClients` put components side by side that share no state. A behaviour
picks one in its initial state (`studied`) and leaves the others as they are: their state spaces
add up and do not multiply, and nothing is lost, since no action of one reads a variable of another.
`MCGovernance` studies the calls twice: three deep, with money, while foreign code calls back and
does not write; two deep, on an empty ledger, while it writes. Its `VIEW` leaves out what the open
calls would go back to: a revert leads to the very state its call was made in, in which TLC has
been before, and no other step and no invariant looks at what is saved.

A call on chain that reverts changes nothing, so an action is enabled exactly when the call goes
through (in `CallStack` it may also be undone after it began). Gas, events and the text of
errors are left out. Hashes are injective: identities, keys, wallets and constraints are model
values.

An operator that no action uses, placed before one with the same parameters, is a mutant: a
plausible bug of that operator, named in `PROJECT.json` next to the property that must catch
it.

## 3. Checks

| Run | Question | Bounds and why they are enough |
|---|---|---|
| `ledger` | claims, refunds, fees, donations and constraints racing; does paging reach the last deposit | 3 deposits in 2 buckets, pages of 2: a full page, a refund in front of, inside and behind it, a last short page; an amount and a window out of range, refundable a tick after funding; a quote above the cap, which at the contract's 100/10000 leaves 1 of 150 |
| `cache` | is a revoked wallet ever payable; who gets unassigned money; do floors rise | 2 verifiers, 2 signer keys, a removal, 2 proofs of equal, older and newer times, defaults and approvals changing freely |
| `vault_claims` | where do deposits go | 2 deposits, plain or constrained, 2 wallets, 2 proofs, a revocation between, every entry point |
| `vault_surplus` | where does unassigned money go | 2 verifiers, 2 proofs, donations, fees of one half |
| `vault_alpha` | where do deposits go in alpha; can an approval be misused | 1 deposit, 1 approval, 2 proofs, 2 toggles or rotations: released and taken back, replaced and reinstated |
| `http` | is every job somewhere, once, and does it get a result; are slots leaked, given twice, out of order | 3 jobs for 2 keys, a synchronous request, 1 slot, 2 places: repeated, queued, overtaking possible, refused; the worker's death and restarts anywhere |
| `http_full` | *violated*: is a refusal always a 503 | 3 keys, 1 slot, 1 place: three jobs accepted before the first is authenticated |
| `outbox` | may a row be closed without cause, or sleep; does every row close | 2 rows, delays 1, 2, then 3, age limit 3, final and retried answers, 1 restart; the clock runs past every age limit |
| `outbox_ack` | *violated*: is an acknowledged delivery final | 1 row |
| `deployment` | do all chains get the same stack, does a released one stay, does trying again succeed | 2 contracts of the stack (a verifier with its keys, the factory), 2 builds, 4 networks of 2 environments of which a history uses base and one other, key documents unsorted, doubled, rotated and without settings, 2 upsets |
| `governance` | can anything take effect without its notice; does the base stay registered; is a prepared activation what was checked; what can a call back break | registry: 3 implementations (one bound to another factory), a delay of 2, 6 ticks, 2 prepared calls; timelocks: 2 policies, 2 verifiers, a key, delays 2 and 1, 4 ticks: announced, replaced, cancelled, removed and announced again; calls: 2 deposits, 3 codes of which one is not `P2IDVault`'s, depth 3, so that any operation runs within any two others; where foreign code writes, depth 2 |
| `clients` | does each check or form keep its promise | layouts: 2 tables of types, 2 variables in the snapshot and one more in P2IDVault or another implementation; keys: 2 keys, 2 overlapping calls, a cache of 2 ticks, answers 1 late, 4 ticks; verification: 2 records that share an address, 2 runs; witnesses: tokens of 3 claims in 2 orders, accounts with braces, quoted members and trailing backslashes; names and wallets too long, a wallet with 0x that is no address and one without, tokens too large, an issue time of another length; forms: 3 texts, 2 platforms, 4 and 5 questions; lists: any 2 of 9 entries (right, elsewhere paid, written another way, of another chain, unvouched) and one answer too long; notifications: 5 texts, 3 tries. About a million states, most of them layouts, witnesses and keys |

In `deployment`, `ExploredNext` keeps chains apart that do not influence each other: what a run left
behind on one chain is seen to before a run on another begins, and the test network of base is left
alone once bsc has been begun. These are guards of the specification that TLC checks, and its
fairness is of steps so guarded: no behaviour is set aside for not taking a step that the
reduction forbids. Symmetry is used where no property of the run is a liveness property.

The cheap properties are type invariants, one per module. The others relate several calls of
several parties; `PROJECT.json` lists, under `hazards`, the line where each could go wrong.

Two mutants are kept for `NoticeGiven`, which has two parts, and four for `ExplorerIsTrue`, whose parts
`SearchIsCurrent`, `LookupIsCurrent`, `FeedIsRouted` and `StalksAreKept` are each about one module.

Two runs are expected to fail, and show where the code and its documentation part:

* `outbox_ack`: `http-prover/README.md` says "A 2xx response completes delivery". A row is due
  from the moment it is inserted, so a tick that falls into its first delivery delivers it
  too. When the first is acknowledged and the other then fails, `markAttemptFailed` puts the
  delivered row back to pending (or to failed), and the receiver is called again.
* `http_full`: `prove.ts` says of `QueueFullError` that "the HTTP layer maps it to 503". The
  check for a busy service counts requests that hold or wait for a slot, not those whose token
  is being checked; a job accepted meanwhile can find the queue full and end with that error
  as its result.

One hazard has no property that excludes it because the code does not: when the solver worker
dies, later calls take slots and wait for its answer for ever. `EveryRequestSettles` and
`AcceptedJobsAreStored` say that nothing else strands a call.

**Fairness on chain.** Only `ledger` assumes any: weak fairness of sweeping each bucket, that
is, owners who can claim keep claiming. The code promises no more than that such a call makes
progress, which is what is checked: whatever funders do, every deposit is consumed in the end.
Nothing else on chain happens by itself. The vault must be able to do nothing at the bounds of
the model (all deposits settled, the clock at its end), and it never deadlocks there, since a
sweep of nothing or a world step is always enabled.

**Fairness of deployments.** A run goes on, a submitted transaction is mined, lagging backends
catch up: weak fairness of each. The operator keeps trying the production networks (`base`,
`bsc`) with each settings file: strong fairness of `Try`, since a run elsewhere, what it left
behind or an upset disables it now and then. A behaviour in which every run ends without getting
anywhere is fair, so `ChainsJoin` says both that no run hangs and that no failure repeats for ever.
Nothing is assumed of the test networks, and an upset may end any attempt.

**Fairness off chain.** The worker answers every message (`solver.worker.ts` catches every error), bb is killed after 180 s, the fetch of signing keys and the delivery of
a result end by themselves, the dispatcher's interval timer keeps ticking and time passes:
weak fairness of each. Nothing is assumed of the receiver, of restarts (bounded in `Outbox`
only) or of the worker's life. `Outbox` checks no deadlock: the model ends when all rows are
closed and the clock is at its bound, which lies past every age limit by assumption. `deployment` and `clients` check none either: upsets,
clocks, requests and runs are bounded, and a witness or a refused layout is an end.

## 4. Proofs

All theorems hold for any sets of funders, tokens, constraints, wallets and signers, any number of
verifiers, any implementations, policies and keys, any finite sets of requests and jobs, any depth
of calls and any bounds, under the assumptions named in the modules that declare the constants:
bounds are naturals, `NoConstraint` is a constraint, the cap is at most `BPS`, `NoOwner` is no
wallet, the queue has at least one slot, delays are positive and none is above the steady one, the
placeholders for an absent row or key are neither, the stack's contracts are a non-empty sequence of
names, the recorded files are finitely many, the explorer's platforms are a sequence, nothing is a
handle of the empty text, a handle in lower case is read as itself (the patterns of `handles.ts` say
so), an entry of the indexer has the members its schema asks for, no storage type is made of itself,
types made alike of parts of the same sizes have the same size, and an issuer writes tokens as
`Witness` says (section 2). TLC evaluates them in every run.

* `VaultLedgerProofs` begins with sums over indices, as recursive functions: changing one or
  several summands, appending one, comparing two. They are proved by induction over `Nat` phrased
  with a set (not with an operator), which the installed provers can use. The inductive invariant `LedgerInvariant` is the conjunction of the
  type invariant, `TotalsAreSums`, `Solvent`, `BucketsIndexDeposits` and
  `ConstraintUsedOnce`. None is inductive alone: solvency needs that a claim takes from
  `trackedTotal` exactly what it pays plus what it accrues (the totals are sums), types need
  that no total goes below zero (again sums), and a page consumes each record once because
  bucket lists are strictly increasing. `RefundAlwaysOpen` follows at once: a record not yet
  consumed is one summand of each of the three totals a refund subtracts it from.
  `LedgerImplementsEscrow` shows each step to be a step of `Escrow`: a page or a list of ids
  releases a set of entries, and what the counters say was paid and accrued is the sum, over that
  set, of what the entries say; the cash of the escrow is the balance, so a claim that drew on
  money held for others would be no step of it.
* Payout wallets, the first part of `P2IDVaultProofs`: the inductive `OwnerInv` adds to the properties two strengthenings:
  `LiveOwners` (a cached wallet whose revision is current has a voucher signed under a key
  accepted now) and `AttestedOwners` (one whose key and alpha revision are current has a
  voucher under that key, approved whenever the key is still in alpha since), and the floor of
  the unassigned funds as the maximum over the proofs through a default. `TitledOwners` puts the
  two together: revision, key and attestation of a cached wallet come from one and the same
  proof. For approvals the strengthening `ApprovalsSpent` says that the nonce of each approval used
  is spent where its method looks, and that one signed before the last toggle or rotation has an
  older epoch.
* The whole vault, the second part of `P2IDVaultProofs`: every action of it implements an action of the ledger and
  one of the cache, or leaves its variables alone, so the theorems above are theorems of the
  vault: it is solvent, its refunds are open, it implements `Escrow`, no revoked wallet is payable
  and approvals count once; a wallet cached in alpha was approved under the present key, the
  floors never fall and a constraint is used once. `VaultPaysTheEntitled` and `VaultSurplusToNewest` are about both halves
  in one step: what `payouts` says of a call is what the ledger consumed in it, and the wallet it
  names held, in that state, the title that `TitledOwners` promises of every payable cached wallet
  or was proven in the same call.

* `HttpProverProofs`: the queue's inductive invariant `QueueInv` needs its parts together: that
  the counter is the number of requests holding slots needs that a request is in one place
  only, and a release keeps a waiting queue behind full slots because it starts as many
  waiters as it frees slots. `HttpImplementsQueue` then shows every step of the request path
  to be a step of the queue, which needs that a request being authenticated has not called
  `prove()` yet; the queue's theorems hold of the service by it. `HttpPart` is the inductive
  invariant of registry and outbox; `OneProofPerKey` follows because the registry's maps are
  inverse and hold the key each caller was told. That they hold the jobs being worked on and no
  others (`RegistryStaysExact`) is part of that invariant; that a stored outcome stays
  (`OutcomesSurvive`) is an action property of it.
* `GovernanceProofs`: `RegistryIInv` adds to types and `BaseStaysRegistered` that what is
  proposed was announced a whole delay before it may be registered, and that what an activation
  prepared from the slot is still what the slot holds or the slot's delay began after it; the
  second is why a late proposal cannot be smuggled in. `TimelocksIInv` says of every item
  proposed that it stands announced since its delay before; that the default was approved when
  something changed follows from the guards of the activations, which read current values.
* Calls back, in the same module: a revert restores a storage saved many calls earlier, so an invariant of the
  present storage cannot be inductive. `CallIInv` says the same of the present storage below all
  frames and of each frame's saved storage below the frames under it; entering, returning and
  reverting then are three lemmas about a stack, and each operation is an instance of one. The
  depth is not bounded. For `UpgradesAlwaysWhole` the
  invariant is `UpgradeHolds`: while `P2IDVault` is being installed its frame is the innermost and
  nobody else acts, so what the proxy stored stays until the hook has applied it; foreign code, below that
  frame, may have any number of upgrades in progress and have changed anything. Nothing is kept
  of what it changed: an upgrade that returns makes the promise true again by the
  conditions it checks, and a revert takes the promise back to what held when its call was made.
* `OutboxProofs`: types, `ClosedForCause` and `NoLateRetry`, inductive together, for any delays
  no longer than the steady one.
* `DeploymentProofs`: that records agree is not inductive: a run writes a record of the stack it
  predicted when it started. `RunAgrees` says that what such a run holds of `p2id.json` is still
  what the file says and that nothing recorded since contradicts its stack, `OneAwaited` that only
  one transaction moves it on, `FactoriesDeployed` that a factory in the file has code and the
  file's proxy. A factory tells its whole stack (`FactoryTellsStack`), so that comparing factories,
  as the script does, compares stacks. Three theorems follow: records of an environment agree, a
  record is written of a complete and well wired stack, and a released factory stays.
* `ClientsProofs`: for the cache of keys, `KeysFresh` bounds the age of every answer, held or
  travelling, by the time it was fetched, so that a withdrawn key leaves within `JWKS_TTL` and
  `LATENCY`. For source verification,
  `Accounted` says of every target that it is verified, still in a list of the run, or had no code,
  with one lemma for the rewriting of lists; that nothing is lost when the lists of
  several files are concatenated is an induction over `Nat` (`FlatteningSequences`).
* The explorer, in the same module (`ExplorerStaysTrue`): four invariants, of parts that share no
  state. `SearchInv` says of a search under way that, if it is the latest, its candidates are those
  of the text in the box, so that an answer in time replaces the list by one that differs in
  addresses and status alone; `LookupInv` says the same of a lookup and the form. `PageShows` says
  that a list holds, of the tokens taken, the first of each, and `StalkInv` that a request answered
  with success has its contact registered. The list of matches and that of tokens are
  recursive functions over a sequence; `Folding` proves that there are such functions and
  `FromZeroTo` is the induction along them, phrased with a set (both in `WitnessProofs`).
* `WitnessProofs` (`WitnessesFit`): a witness that is handed out points at the members it is about,
  for any token, request and identity type, and is missing only when the account is or one of the
  refusals of `Accepts` applies, whichever words and tokens those concern. The
  invariant `WitnessInv` is short (there is no witness yet, or it is what `buildWitness` returns for the
  payload); the proof is about what its searches return. First, where everything is: the payload
  is put together by recursive functions, so each part has a place (`AccountInPayload`,
  `MemberInText`). Second, the search for a top-level key: the scan is outside strings
  exactly where the issuer's structure is, so what it finds there is a claim (`IatFound`,
  `LinkedFound`). Third, the search for an account: it looks for a pattern in text escaped twice, in which a
  quoted text can hold nearly anything, and is right because a quote inside a text always stands behind a
  backslash of its own, so that the pattern reads as a delimiter, a quoted key, a colon and a
  quoted word only where the issuer wrote that member (`NamedIsMember`). Braces can come from texts,
  so the object the search takes around a match may be cut short; but it lies inside one
  account (`ObjectInAccount`), so the two members found are of the same one (`BothFound`), and an
  account whose texts hold no brace is never missed (`SearchFinds`).
* Layouts, in `ClientsProofs` (`BaseStateStays`): the invariant is that the build and every vault
  continue the snapshot, variable by variable; an upgrade also continues the build that checked it.
  Both say the same of bytes (`ContinuedIsRead`), which needs two things of any build: variables the
  compiler places do not overlap (`PlacedApart`, an induction over their number), so that the
  variable found at the position is the only one with its bytes; and types that look the same to
  `canonicalType` have the same sizes and shapes all the way down (`SameTypes`). Types nest along
  a relation, not along a number: `ExpandedUnfolds` shows that the nested description exists,
  from the least types upwards. The bound on where a candidate may add variables is not needed
  for it: it guards bytes that the base leaves unused. What the theorem does not say is that a vault
  keeps what it has beyond the snapshot: a build that has lost a variable lets it pass, and the check
  asks the operator to compare with later layouts by hand (`check-storage-layout.ts:8-9`).

Proved and not run, because TLC had nothing to add once they were theorems: types and
`TotalsAreSums`, `BucketsIndexDeposits` of the ledger, `OwnerTypeOK`, `FloorsNearNow`,
`QueueSafety`, and that the whole vault implements ledger and cache.

Model-checked only: the liveness properties `EveryDepositSettles`, `ChainsJoin`,
`EveryRequestSettles`, `AcceptedJobsAreStored` and `EveryRowCloses`, which the prover cannot treat
under fairness. Every invariant and action property of the passing runs is a theorem.

## 5. Not modelled, and why

* `PviumZKVerifier` is generated; hashes are injective and signatures unforgeable. `P2IDHash`,
  the type names, schemes and checksums of `p2id-core` and the encoding of public inputs are pure
  functions of bytes that only tests against each other's output can compare.
* The circuit is arithmetic over byte arrays with no state. What it demands of the offsets it is
  given appears as `WitnessFits`, for the offsets the service locates. Its own matching of
  bytes is not modelled.
* Of the factory: the two-step handover of ownership and `fund` on a caller's behalf, which adds
  an approval and a call of `fundFor`. Of the proxy: what delegated code other than the vault's does
  to the ledger and the balance, of which nothing could be promised. A vault's `initialize` is its
  initial state.
* Of the service: configuration and start-up, a write SQLite refuses, the parsing of a JWT,
  claims that hold objects of their own (`linked_accounts` is a string), several URLs of keys.
  How long a fetch takes is bounded by `LATENCY` in the model and by nothing in the code.
* Of the SDK: the life of the shared proof backend. Its `shutdown` asks callers to be done.
* Of layouts: arrays of a fixed length. `canonicalType` takes them by their label and size and does
  not look into what they hold; the vault's storage has none.
* Of the scripts: two deployment runs at once, which the records do not guard against; the
  scripts for local chains and rehearsals, which run straight through and stop at the first
  failure; which names an ABI may not use and the search for unsafe opcodes.
* Of the web site: the payouts ticker and highlights, sorting and filtering of a list that is
  shown, static pages, embed scripts, the operators' API (how it sends notifications; only its
  answers are modelled). Test mocks.

Left to do: overlapping deployment runs.
