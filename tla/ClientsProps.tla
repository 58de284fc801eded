----------------------------- MODULE ClientsProps -----------------------------
(***************************************************************************)
(* What the programs around the contracts promise: the layout checks, the  *)
(* clients that trust signing keys, the verification of sources and the    *)
(* prover's witnesses.                                                     *)
(***************************************************************************)
EXTENDS StorageLayout, TrustedKeys, Verification, Witness

-----------------------------------------------------------------------------
(* Storage layouts *)

BytesOf(layout, v) ==
  LET first == v.slot * SlotBytes + v.offset
  IN  first..(first + layout.table[v.type].bytes - 1)

\* What a build does to the bytes of its storage: <<byte, where its variable starts, shape>>
Shape(table, id) ==
  LET heading == [i \in DOMAIN table |->
                    <<IF table[i].parts = <<>> THEN table[i].label ELSE table[i].encoding, table[i].bytes>>]
  IN  Expanded(table, heading)[id]
Reads(layout) ==
  UNION {{<<b, v.slot, v.offset, Shape(layout.table, v.type)>> : b \in BytesOf(layout, v)} : v \in layout.storage}

Means(reads, r) == {s \in reads : s[1] = r[1]} = {r}

\* What a vault runs on reads and writes each byte of the snapshot's variables as part of the same
\* variable of the same shape, and as nothing else, through whichever upgrades the checks let pass:
\* members retyped under the same name, variables packed beside or grown over the old ones are all
\* refused.  A variable beyond the snapshot, which the base of a later build or another
\* implementation added, passes an upgrade unharmed where the P2IDVault of the build that checks
\* it still has it; where the source has lost it, nothing keeps it.
BaseStateKept ==
  [][\A new \in vaults' :
       LET reads == Reads(new)
           built == Reads(current)
       IN  /\ \A r \in Reads(snapshot)' : Means(reads, r)
           /\ \A old \in vaults : \A r \in Reads(old) : Means(built, r) => Means(reads, r)]_layoutVars

-----------------------------------------------------------------------------
(* Trusted keys *)

\* A key that its publisher withdrew is trusted no longer than the cache keeps an answer and an
\* answer travels, however calls overlap and whatever older answer arrives after a newer one;
\* keys that the client itself pins stay.  So a fetch that fails never brings an expired answer
\* back, and using an answer does not prolong it.
WithdrawnKeysExpire ==
  [][\A c \in Calls :
       calls'[c].phase = "proving" /\ calls[c].phase # "proving" =>
         LET k == calls'[c].signer
         IN  \/ k \in published \union (IF source = "environment" THEN Pinned ELSE {})
             \/ source = "pem" /\ k = OneKey
             \/ time < withdrawn[k] + JWKS_TTL + LATENCY]_keyVars

-----------------------------------------------------------------------------
(* Source verification *)

\* A run that says it is done leaves no target unverified but those that had no code when their
\* turn came, although the explorer cannot always be asked, answers are lost, another run or
\* somebody else submits the same contract, and two records name one address.
DoneMeansVerified ==
  verifying.phase = "done" /\ ~ verifying.dry => Range(verifying.targets) \ absent \subseteq listed

-----------------------------------------------------------------------------
(* Witnesses *)

\* How many symbols of a joined text come before part n
Before(parts, n) == Len(Written(Separated(parts))[n - 1]) + (IF n = 1 THEN 0 ELSE 1)

\* Where a claim is in the payload; where an account and a member are in the text of the accounts,
\* and where a symbol of that text is in the payload
ClaimAt(token, n) == 2 + Before(ClaimTexts(token), n)
AccountAt(accounts, a) == 2 + Before(AccountTexts(accounts), a)
AccountEnd(accounts, a) == AccountAt(accounts, a) + Len(AccountText(accounts[a])) - 1
MemberAt(accounts, a, b) == AccountAt(accounts, a) + 1 + Before(MemberTexts(accounts[a]), b)
SymbolAt(token, n, j) ==
  ClaimAt(token, n) + Len(Quoted(<<token[n].key>>)) + 2 +
    Len(Written(EscapedSymbols(AccountsText(token[n].accounts)))[j - 1])

Linked(token) == {n \in DOMAIN token : token[n].key = "linked_accounts"}
Braceless(account) == \A b \in DOMAIN account : Range(account[b].text) \intersect {"{", "}"} = {}
MembersOf(account, key, value) == {b \in DOMAIN account : account[b] = [key |-> key, text |-> <<value>>]}
AccountsWith(token, n, type, value) ==
  {a \in DOMAIN token[n].accounts :
     MembersOf(token[n].accounts[a], "type", type) # {} /\ MembersOf(token[n].accounts[a], TYPES[type], value) # {}}

PointsAt(token, located, type, value) ==
  \E n \in Linked(token) : \E a \in AccountsWith(token, n, type, value) :
    LET accounts == token[n].accounts
        start == SymbolAt(token, n, AccountAt(accounts, a))
        end == SymbolAt(token, n, AccountEnd(accounts, a))
        AtMember(index, key, word) ==
          \E b \in MembersOf(accounts[a], key, word) : index = SymbolAt(token, n, MemberAt(accounts, a, b))
    IN  /\ AtMember(located.typeIdx, "type", type)
        /\ AtMember(located.valueIdx, TYPES[type], value)
        /\ start <= located.acctStart /\ located.acctEnd <= end
        /\ Braceless(accounts[a]) => located.acctStart = start /\ located.acctEnd = end

Provable(token, type, value) ==
  \E n \in Linked(token) : \E a \in AccountsWith(token, n, type, value) : Braceless(token[n].accounts[a])

\* What the circuit has room for: every other request is refused, whatever is linked.
Accepts(token, asked) ==
  /\ token \notin LargeTokens
  /\ {asked.identityValue, asked.wallet} \intersect LongWords = {}
  /\ asked.wallet \in Prefixed => asked.wallet \in EvmWallets

\* A witness points at the claims and members that the token's issuer wrote, whatever the texts
\* in it quote: the issue time and the accounts are the top-level ones, the type and the name are
\* two members of one linked account, of the wallet's account for the wallet; an issue time of ten
\* digits, as all are from 2001 to 2286, is read whole.  And a linked account whose texts have no
\* braces has a witness wherever the token, the name and the wallet fit in the circuit, a wallet
\* that starts with 0x is an address, and JSON escapes nothing of the name and the wallet, which
\* are words: the other refusals of witness.ts (115-118, 133 and 173) are counted in Accepts.
WitnessFits ==
  witness # NoWitness =>
    /\ ~ witness.refused =>
         /\ \E n \in DOMAIN claims :
              /\ claims[n].key = "iat" /\ witness.iatIdx = ClaimAt(claims, n)
              /\ claims[n].digits \in Seconds => witness.iat = claims[n].digits
         /\ \E n \in Linked(claims) : witness.laIdx = ClaimAt(claims, n)
         /\ PointsAt(claims, witness.acct, request.identityType, request.identityValue)
         /\ request.wallet # "" => PointsAt(claims, witness.walletAcct, "wallet", request.wallet)
    /\ /\ Accepts(claims, request)
       /\ Provable(claims, request.identityType, request.identityValue)
       /\ request.wallet # "" => Provable(claims, "wallet", request.wallet)
       => ~ witness.refused
=============================================================================
