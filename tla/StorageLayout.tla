----------------------------- MODULE StorageLayout -----------------------------
(***************************************************************************)
(* The checks a vault implementation passes before it is proposed          *)
(* (contracts/scripts/lib/storageLayout.ts, check-storage-layout.ts and    *)
(* lib/implementation.ts), on the layouts the compiler makes of any        *)
(* declarations of a few types, and the vaults that upgrade through them.  *)
(*                                                                         *)
(* The build info names a type by an id, which says what it is only with   *)
(* the type table of its build: a struct keeps its id when its members     *)
(* change.  A slot has SlotBytes bytes.  A definition no other one uses,   *)
(* placed before one with the same parameters, is a mutant of it.          *)
(***************************************************************************)
EXTENDS Naturals, Sequences, SequencesExt

CONSTANTS
  Tables,         \* type tables: id -> [encoding, label, bytes, parts], parts a sequence of ids
  SlotBytes,
  MaxBase, MaxVariables

\* The compiler packs small values.
Packs(type) == type.encoding = "inplace" /\ type.parts = <<>>

MadeAlike(t, i, u, j) ==
  /\ t[i].parts # <<>> /\ t[i].encoding = u[j].encoding /\ DOMAIN t[i].parts = DOMAIN u[j].parts
  /\ \A n \in DOMAIN t[i].parts :
       /\ t[t[i].parts[n]].bytes = u[u[j].parts[n]].bytes
       /\ Packs(t[t[i].parts[n]]) = Packs(u[u[j].parts[n]])

ASSUME LayoutAssumption ==
  /\ SlotBytes \in Nat \ {0} /\ MaxBase \in Nat /\ MaxVariables \in Nat
  /\ \A t, u \in Tables : DOMAIN t = DOMAIN u
  \* No type is made of itself: the check would not come to an end.
  /\ \A t \in Tables :
       /\ \A i \in DOMAIN t : t[i].bytes \in Nat /\ t[i].parts \in Seq(DOMAIN t)
       /\ \A S \in SUBSET DOMAIN t : S # {} =>
            \E i \in S : \A n \in DOMAIN t[i].parts : t[i].parts[n] \notin S
  \* What is made alike of parts of the same sizes has the same size.
  /\ \A t, u \in Tables : \A i, j \in DOMAIN t : MadeAlike(t, i, u, j) => t[i].bytes = u[j].bytes

VARIABLES
  snapshot,       \* storage/P2IDVault.layout.json
  current,        \* the layout of P2IDVault in this build
  vaults          \* the layout a vault runs on, in a set that is empty until the base is deployed

layoutVars == <<snapshot, current, vaults>>

-----------------------------------------------------------------------------
(* What the compiler does *)

RoundUp(byte) == ((byte + SlotBytes - 1) \div SlotBytes) * SlotBytes

\* Byte addresses: small values share a slot, everything else begins and ends one.
Place(table, ids) ==
  LET start[n \in 1..Len(ids)] ==
        LET type == table[ids[n]]
            before == IF n = 1 THEN 0 ELSE start[n - 1] + table[ids[n - 1]].bytes
            free == RoundUp(before) - before
        IN  IF Packs(type) /\ type.bytes <= free /\ Packs(table[ids[n - 1]])
            THEN before ELSE RoundUp(before)
  IN  start

Layout(table, ids) ==
  LET start == Place(table, ids)
  IN  [table |-> table,
       storage |-> {[slot |-> start[n] \div SlotBytes, offset |-> start[n] % SlotBytes, type |-> ids[n]] :
                      n \in 1..Len(ids)}]

Builds(most) == {Layout(table, ids) : table \in Tables,
                                      ids \in UNION {[1..n -> DOMAIN (CHOOSE t \in Tables : TRUE)] : n \in 0..most}}
Sources == Builds(MaxVariables)

\* The types of a table, each with all the types it is made of
Expanded(table, heading) ==
  LET type[i \in DOMAIN table] ==
        [is |-> heading[i], of |-> [n \in DOMAIN table[i].parts |-> type[table[i].parts[n]]]]
  IN  type

-----------------------------------------------------------------------------
(* The checks *)

TypeIds(layout, id) == id

\* The type with all it is made of, so that identical shapes compare equal.
canonicalType(layout, id) ==
  LET heading == [i \in DOMAIN layout.table |->
                    LET t == layout.table[i]
                    IN  <<t.encoding, IF t.parts = <<>> THEN <<t.label, t.bytes>> ELSE <<>> >>]
  IN  Expanded(layout.table, heading)[id]

SamePosition(v, c) == v.slot = c.slot /\ v.offset = c.offset

\* The first slot after everything the base uses
baseEnd(base) ==
  LET ends == {v.slot + RoundUp(base.table[v.type].bytes) \div SlotBytes : v \in base.storage}
  IN  IF ends = {} THEN 0 ELSE CHOOSE e \in ends : \A f \in ends : f <= e

\* No finding of level "error"
compareLayouts(base, candidate) ==
  /\ \A v \in base.storage :
       \E c \in candidate.storage :
         SamePosition(v, c) /\ canonicalType(candidate, c.type) = canonicalType(base, v.type)
  /\ \A c \in candidate.storage :
       c.slot < baseEnd(base) => \E v \in base.storage : SamePosition(v, c)

\* A contract is its layout and whether its hook, its selectors and its calls are allowed ones.
validateImplementation(base, contract) ==
  compareLayouts(base, contract.layout) /\ contract.proper

\* validateCandidate, implementationPlan, CANDIDATE=... yarn layout
Accepted(contract) ==
  validateImplementation(snapshot, contract) /\ compareLayouts(current, contract.layout)

-----------------------------------------------------------------------------
LayoutInit ==
  /\ snapshot \in {build \in Builds(MaxBase) : build.storage # {}}
  /\ current = snapshot
  /\ vaults = {}

\* The source changes; a build that fails yarn layout is not kept.
Change(build) ==
  /\ compareLayouts(snapshot, build)
  /\ current' = build
  /\ UNCHANGED <<snapshot, vaults>>

\* UPDATE=1 yarn layout, before the base is deployed
Update ==
  /\ vaults = {}
  /\ snapshot' = current
  /\ UNCHANGED <<current, vaults>>

DeployBase ==
  /\ vaults' = {current}
  /\ UNCHANGED <<snapshot, current>>

Upgrade(contract) ==
  /\ vaults # {}
  /\ Accepted(contract)
  /\ vaults' = {contract.layout}
  /\ UNCHANGED <<snapshot, current>>

LayoutNext ==
  \/ \E build \in Sources : Change(build)
  \/ Update \/ DeployBase
  \/ \E layout \in Sources, proper \in BOOLEAN :
       Upgrade([layout |-> layout, proper |-> proper])

LayoutSpec == LayoutInit /\ [][LayoutNext]_layoutVars
===============================================================================
