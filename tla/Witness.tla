-------------------------------- MODULE Witness --------------------------------
(***************************************************************************)
(* How the prover finds its way in a token's payload                       *)
(* (http-prover/src/witness.ts): the offsets of the issue time, of the     *)
(* linked accounts and of the account to prove, which it searches in the   *)
(* raw JSON because the circuit works on that.                             *)
(*                                                                         *)
(* A payload is a sequence of symbols: the bytes that structure JSON one by *)
(* one, and every other run of bytes as one word.  The accounts are JSON   *)
(* inside a JSON string, so what they quote is escaped twice.  Positions   *)
(* count from 1; 0 stands for an InputError.  A definition no other one    *)
(* uses, placed before one with the same parameters, is a mutant of it.    *)
(***************************************************************************)
EXTENDS Naturals, Sequences, FiniteSetsExt

CONSTANTS
  Words,               \* runs of bytes that structure nothing
  Claims,              \* tokens: sequences of claims
  WitnessRequests,     \* [identityType, identityValue, wallet]; "" for no wallet
  TYPES,               \* identity type -> the member that names the identity
  LongWords,           \* words that do not fit in the circuit, over MAX_VALUE_LEN bytes
  LargeTokens,         \* tokens whose header or payload does not, over MAX_HEADER_B64_LEN or MAX_B64_LEN
  Prefixed,            \* words that start with 0x
  EvmWallets,          \* those of them that have 40 hex digits
  Seconds              \* numbers of ten digits

Q == "quote"
Structure == {"{", "}", "[", "]", ",", ":", Q, "\\"}
Symbols == Words \union Structure

\* A text is any symbols; a key, a number and what a request asks for is one word.
Members == [key : Words, text : Seq(Symbols)]
Claim ==
  [key : Words, kind : {"number"}, digits : Words] \union
  [key : Words, kind : {"text"}, text : Seq(Symbols)] \union
  [key : Words, kind : {"accounts"}, accounts : Seq(Seq(Members))]

ASSUME WordsAssumption ==
  /\ Words \intersect Structure = {}
  /\ {"iat", "linked_accounts", "type"} \subseteq Words
  /\ LongWords \subseteq Words /\ Seconds \subseteq Words
  /\ Prefixed \subseteq Words /\ EvmWallets \subseteq Prefixed

ASSUME WitnessAssumption ==
  /\ "wallet" \in DOMAIN TYPES
  /\ \A type \in DOMAIN TYPES : type \in Words /\ TYPES[type] \in Words
  /\ \A asked \in WitnessRequests :
       /\ asked.identityType \in DOMAIN TYPES
       /\ asked.identityValue \in Words /\ asked.wallet \in Words \union {""}

\* No claim comes twice; the issue time is there and a number, the linked accounts are accounts.
ASSUME TokensAssumption ==
  \A token \in Claims :
    /\ token \in Seq(Claim)
    /\ \A n, m \in DOMAIN token : token[n].key = token[m].key => n = m
    /\ \E n \in DOMAIN token : token[n].key = "iat"
    /\ \A n \in DOMAIN token : /\ token[n].key = "iat" => token[n].kind = "number"
                               /\ token[n].key = "linked_accounts" => token[n].kind = "accounts"

VARIABLES claims, request, witness

witnessVars == <<claims, request, witness>>

-----------------------------------------------------------------------------
(* The token as its issuer writes it *)

\* The first parts one after the other, by their number
Written(parts) ==
  LET text[n \in 0..Len(parts)] == IF n = 0 THEN <<>> ELSE text[n - 1] \o parts[n] IN text

EscapedSymbols(text) ==
  [n \in DOMAIN text |-> IF text[n] \in {Q, "\\"} THEN <<"\\", text[n]>> ELSE <<text[n]>>]
Escaped(text) == Written(EscapedSymbols(text))[Len(text)]
Separated(parts) == [n \in DOMAIN parts |-> IF n = 1 THEN parts[n] ELSE <<",">> \o parts[n]]
Joined(parts) == Written(Separated(parts))[Len(parts)]
Bracketed(open, parts, close) == <<open>> \o Joined(parts) \o <<close>>
Quoted(text) == <<Q>> \o Escaped(text) \o <<Q>>

MemberText(member) == Quoted(<<member.key>>) \o <<":">> \o Quoted(member.text)
MemberTexts(account) == [b \in DOMAIN account |-> MemberText(account[b])]
AccountText(account) == Bracketed("{", MemberTexts(account), "}")
AccountTexts(accounts) == [a \in DOMAIN accounts |-> AccountText(accounts[a])]
AccountsText(accounts) == Bracketed("[", AccountTexts(accounts), "]")

ValueText(claim) ==
  CASE claim.kind = "number" -> <<claim.digits>>
    [] claim.kind = "text" -> Quoted(claim.text)
    [] claim.kind = "accounts" -> Quoted(AccountsText(claim.accounts))
ClaimText(claim) == Quoted(<<claim.key>>) \o <<":">> \o ValueText(claim)
ClaimTexts(token) == [n \in DOMAIN token |-> ClaimText(token[n])]
Payload(token) == Bracketed("{", ClaimTexts(token), "}")

-----------------------------------------------------------------------------
\* Where a scan is: outside of strings, inside one, or behind a backslash in one
States == {"outside", "inside", "escaped"}
After(state, symbol) ==
  CASE state = "escaped" -> "inside"
    [] state = "inside" /\ symbol = "\\" -> "escaped"
    [] state = "inside" /\ symbol = Q -> "outside"
    [] state = "outside" /\ symbol = Q -> "inside"
    [] OTHER -> state
Scan(payload) ==
  LET after == [read \in States \X (1..Len(payload)) |-> After(read[1], payload[read[2]])]
      state[i \in 0..Len(payload)] ==
        IF i = 0 THEN "outside" ELSE after[<<state[i - 1], i>>]
  IN  state
stringMap(payload) == [i \in DOMAIN payload |-> Scan(payload)[i - 1] # "outside"]

isMemberBoundary(symbol) == symbol \in {"{", ","}

Occurs(hay, pattern, i) ==
  /\ i + Len(pattern) - 1 <= Len(hay)
  /\ \A n \in DOMAIN pattern : hay[i + n - 1] = pattern[n]

First(positions) == IF positions = {} THEN 0 ELSE Min(positions)

findTopLevel(payload, inString, key) ==
  First({i \in 2..Len(payload) :
           payload[i] = Q /\ Occurs(payload, key, i) /\ ~ inString[i] /\ isMemberBoundary(payload[i - 1])})

\* Among the symbols from start to before end
findMember(hay, key, start, end) ==
  First({i \in start..(end - Len(key)) : Occurs(hay, key, i) /\ i > 1 /\ isMemberBoundary(hay[i - 1])})

esc(word) == <<"\\", Q, word, "\\", Q>>
MemberPattern(key, word) == esc(key) \o <<":">> \o esc(word)

NotFound == [acctStart |-> 0, acctEnd |-> 0, typeIdx |-> 0, valueIdx |-> 0]

\* Where the object that starts first from there on begins and ends
NextObject(payload, from, laEnd) ==
  LET start == First({i \in from..(laEnd - 1) : payload[i] = "{"})
  IN  [start |-> start,
       end |-> IF start = 0 THEN 0 ELSE First({i \in start..(laEnd - 1) : payload[i] = "}"})]
Has(payload, object, pattern) ==
  \E i \in object.start..(object.end - Len(pattern) + 1) : Occurs(payload, pattern, i)

LocateAcrossObjects(payload, laValueStart, laEnd, typePat, valuePat) ==
  LET object == NextObject(payload, laValueStart, laEnd)
  IN  IF object.end = 0 THEN NotFound
      ELSE [acctStart |-> object.start, acctEnd |-> object.end,
            typeIdx |-> findMember(payload, typePat, object.start, laEnd),
            valueIdx |-> findMember(payload, valuePat, object.start, laEnd)]

locateAccount(payload, laValueStart, laEnd, typePat, valuePat) ==
  LET locate[from \in laValueStart..laEnd] ==
        LET object == NextObject(payload, from, laEnd)
        IN  IF object.end = 0 THEN NotFound
            ELSE IF Has(payload, object, typePat) /\ Has(payload, object, valuePat)
            THEN [acctStart |-> object.start, acctEnd |-> object.end,
                  typeIdx |-> findMember(payload, typePat, object.start, object.end),
                  valueIdx |-> findMember(payload, valuePat, object.start, object.end)]
            ELSE locate[object.end + 1]
  IN  locate[laValueStart]

\* The linked_accounts value ends with its closing quote.
LaEnd(payload, inString, laValueStart) ==
  First({i \in laValueStart..(Len(payload) + 1) : i > Len(payload) \/ ~ inString[i]})

\* A wallet is an EVM address, something else that has no field, or refused.
Malformed(wallet) == wallet \in Prefixed \ EvmWallets
walletField(wallet) == IF wallet \in EvmWallets THEN wallet ELSE "0x0"

\* The ten bytes behind the key: the number, unless it has fewer digits or more.
IssuedAt(digits) == IF digits \in Seconds THEN digits ELSE "another number, or none"

buildWitness(token, asked) ==
  LET payload == Payload(token)
      inString == stringMap(payload)
      laKey == <<Q, "linked_accounts", Q, ":", Q>>
      laIdx == findTopLevel(payload, inString, laKey)
      laValueStart == laIdx + Len(laKey)
      laEnd == LaEnd(payload, inString, laValueStart)
      Account(type, value) ==
        locateAccount(payload, laValueStart, laEnd,
                      MemberPattern("type", type), MemberPattern(TYPES[type], value))
      acct == Account(asked.identityType, asked.identityValue)
      wallet == IF asked.wallet = "" THEN NotFound ELSE Account("wallet", asked.wallet)
      iatIdx == findTopLevel(payload, inString, <<Q, "iat", Q, ":">>)
      refused == [refused |-> TRUE]
      Misses(account) == 0 \in {account.acctStart, account.typeIdx, account.valueIdx}
  IN  IF \/ asked.identityValue \in LongWords \/ token \in LargeTokens
         \/ laIdx = 0 \/ Misses(acct)
         \/ asked.wallet # "" /\ (asked.wallet \in LongWords \/ Misses(wallet) \/ Malformed(asked.wallet))
         \/ iatIdx = 0
      THEN refused
      ELSE [refused |-> FALSE, iatIdx |-> iatIdx, iat |-> IssuedAt(payload[iatIdx + 4]), laIdx |-> laIdx,
            acct |-> acct, walletAcct |-> wallet, wallet |-> walletField(asked.wallet)]

-----------------------------------------------------------------------------
NoWitness == [refused |-> FALSE, iatIdx |-> 0]

WitnessInit ==
  /\ claims \in Claims /\ request \in WitnessRequests
  /\ witness = NoWitness

BuildWitness ==
  /\ witness = NoWitness
  /\ witness' = buildWitness(claims, request)
  /\ UNCHANGED <<claims, request>>

WitnessNext == BuildWitness
WitnessSpec == WitnessInit /\ [][WitnessNext]_witnessVars
===============================================================================
