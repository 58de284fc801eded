------------------------------- MODULE MCClients -------------------------------
(***************************************************************************)
(* The checks of implementations, the trusted keys, the verification of    *)
(* sources, witnesses and the explorer's forms and lists.  They share no   *)
(* state: each behaviour studies one of them while the others stay as they *)
(* are, so that TLC adds their state spaces instead of multiplying them.   *)
(***************************************************************************)
EXTENDS ClientsProps, ExplorerProps, TLC

VARIABLE studied

-----------------------------------------------------------------------------
\* Two builds that order the members of one struct differently
Value(id, bytes) == [encoding |-> "inplace", label |-> id, bytes |-> bytes, parts |-> <<>>]
Table(members) ==
  [small |-> Value("small", 1), half |-> Value("half", 2),
   deposit |-> [encoding |-> "inplace", label |-> "deposit", bytes |-> 8, parts |-> members],
   deposits |-> [encoding |-> "dynamic_array", label |-> "deposits", bytes |-> 4, parts |-> <<"deposit">>]]
MCTables == {Table(<<"half", "half", "small">>), Table(<<"half", "small", "half">>)}

SymmetricCalls == Permutations(Calls)

\* Two records that share a library, one of them written by another build
MCFiles == {<<"lib", "vault">>, <<"lib", "old">>}
MCExtras == {<<>>, <<"wallet">>}

\* Accounts whose texts have braces, quote other members and end in a backslash
QuotingTexts ==
  {<<"eve">>, <<"}", "{">>, <<Q, ",", Q, "username", Q, ":", Q, "bob">>,
   <<"\\", Q, ",", Q, "type", Q, ":", Q, "twitter", Q>>}
Member(key, text) == [key |-> key, text |-> text]
Accounts ==
  UNION {{<<Member("type", <<"twitter">>), Member("name", text), Member("username", <<name>>)>>,
          <<Member("name", text), Member("username", <<name>>), Member("type", <<"twitter">>)>>} :
           text \in QuotingTexts, name \in {"bob", "eve"}}
  \union {<<Member("type", <<"wallet">>), Member("address", <<"0xb0b">>)>>}
\* Those that may follow another one
Later ==
  {<<Member("type", <<"wallet">>), Member("address", <<"0xb0b">>)>>} \union
  {<<Member("type", <<"twitter">>), Member("name", text), Member("username", <<"bob">>)>> : text \in QuotingTexts}
Linking(accounts) == [key |-> "linked_accounts", kind |-> "accounts", accounts |-> accounts]
Iat == [key |-> "iat", kind |-> "number", digits |-> "1700000000"]
Metadata ==
  {[key |-> "custom_metadata", kind |-> "text", text |-> text] :
     text \in {<<"{", Q, "iat", Q, ":", "9", ",", Q, "linked_accounts", Q, ":", Q>>, <<"\\">>}}
\* Accounts of any name and address, in tokens issued at any time, some of which are too large
Plain ==
  {<<[Iat EXCEPT !.digits = digits],
     Linking(<<<<Member("type", <<"twitter">>), Member("username", <<name>>)>>,
               <<Member("type", <<"wallet">>), Member("address", <<address>>)>>>>)>> :
     digits \in {"1700000000", "9"}, name \in {"bob", "long name"}, address \in {"0xb0b", "0xbad", "base58", "long address"}}
Picture == [key |-> "custom_metadata", kind |-> "text", text |-> <<"picture">>]
MCLargeTokens == {Append(token, Picture) : token \in Plain}
MCClaims ==
  UNION {{<<Linking(<<a, b>>), data, Iat>>, <<data, Iat, Linking(<<a, b>>)>>, <<Iat, Linking(<<a>>)>>} :
           a \in Accounts, b \in Later, data \in Metadata}
  \union Plain \union MCLargeTokens
MCTypes == [twitter |-> "username", wallet |-> "address"]
MCRequests ==
  [identityType : {"twitter"}, identityValue : {"bob", "long name"},
   wallet : {"", "0xb0b", "0xbad", "base58", "long address"}]

\* "a-n" is a handle on Farcaster only.
MCPlatforms == <<"x", "farcaster">>
MCHandles ==
  [asked \in {"x", "farcaster"} \X {"", "ann", "a-n"} |-> IF asked = <<"x", "a-n">> THEN "" ELSE asked[2]]

\* What the indexer says of two tokens: for whom, and what they pay
MCParsedHandle ==
  [asked \in {"x", "farcaster"} \X {"ann", "Ann", "@ann", "x.com/ann", "a.b"} |->
     CASE asked[2] = "a.b" -> ""
       [] asked[2] = "x.com/ann" -> IF asked[1] = "x" THEN "ann" ELSE ""
       [] asked = <<"x", "Ann">> -> "Ann"
       [] OTHER -> "ann"]
MCLowerCase == [h \in {"ann", "Ann", ""} |-> IF h = "Ann" THEN "ann" ELSE h]
Paid(platform) == <<"factory", <<platform, "ann">>>>
Entry(token, platform, handle, paidTo) ==
  [token |-> token, chainId |-> 56, routingVerified |-> TRUE, platform |-> platform, handle |-> handle, paidTo |-> paidTo]
Entries ==
  {Entry("t1", "x", "Ann", Paid("x")), Entry("t1", "x", "@ann", <<"elsewhere">>),
   Entry("t1", "farcaster", "ann", Paid("farcaster")), Entry("t1", "farcaster", "x.com/ann", Paid("farcaster")),
   Entry("t2", "x", "ann", Paid("farcaster")), Entry("t2", "farcaster", "Ann", Paid("farcaster")),
   [Entry("t2", "x", "ann", Paid("x")) EXCEPT !.routingVerified = FALSE],
   [Entry("t2", "x", "ann", Paid("x")) EXCEPT !.chainId = 97], Entry("t2", "discord", "ann", Paid("x"))}
Good == Entry("t1", "x", "Ann", Paid("x"))
MCAnswers == UNION {[1..n -> Entries] : n \in 0..2} \union {<<Good, Good, Good>>}
MCDemo ==
  [n \in 1..4 |-> [token |-> <<"t1", "t2", "t3", "t4">>[n], platform |-> "x", handle |-> "ann"]]

\* Texts one of which is a contact only without its "@", and one is none
MCContacts == [text \in {"", "@ann", "ann", "a@b", "?"} |->
                 CASE text = "@ann" -> "ann" [] text \in {"", "?"} -> "" [] OTHER -> text]

-----------------------------------------------------------------------------
\* A component that is not studied
LayoutIdle == LET none == [table |-> CHOOSE t \in Tables : TRUE, storage |-> {}]
              IN  snapshot = none /\ current = none /\ vaults = {}
KeysIdle == KeysInit /\ published = {} /\ source = "pem"
VerifyIdle == VerifyInit /\ deployed = {}
WitnessIdle == claims = <<>> /\ request = [identityType |-> "none"] /\ witness = NoWitness
LookupIdle == LookupInit /\ form.platform = "x"
FeedIdle == FeedInit /\ ~ site.api /\ site.factory = NoFactory /\ answer = <<>>
StalkIdle == StalkInit /\ ~ apiSet

MCInit ==
  \/ studied = "layout" /\ LayoutInit /\ KeysIdle /\ VerifyIdle /\ WitnessIdle /\ SearchInit /\ LookupIdle /\ FeedIdle /\ StalkIdle
  \/ studied = "keys" /\ LayoutIdle /\ KeysInit /\ VerifyIdle /\ WitnessIdle /\ SearchInit /\ LookupIdle /\ FeedIdle /\ StalkIdle
  \/ studied = "verify" /\ LayoutIdle /\ KeysIdle /\ VerifyInit /\ WitnessIdle /\ SearchInit /\ LookupIdle /\ FeedIdle /\ StalkIdle
  \/ studied = "witness" /\ LayoutIdle /\ KeysIdle /\ VerifyIdle /\ WitnessInit /\ SearchInit /\ LookupIdle /\ FeedIdle /\ StalkIdle
  \/ studied = "search" /\ LayoutIdle /\ KeysIdle /\ VerifyIdle /\ WitnessIdle /\ SearchInit /\ LookupIdle /\ FeedIdle /\ StalkIdle
  \/ studied = "lookup" /\ LayoutIdle /\ KeysIdle /\ VerifyIdle /\ WitnessIdle /\ SearchInit /\ LookupInit /\ FeedIdle /\ StalkIdle
  \/ studied = "feed" /\ LayoutIdle /\ KeysIdle /\ VerifyIdle /\ WitnessIdle /\ SearchInit /\ LookupIdle /\ FeedInit /\ StalkIdle
  \/ studied = "stalk" /\ LayoutIdle /\ KeysIdle /\ VerifyIdle /\ WitnessIdle /\ SearchInit /\ LookupIdle /\ FeedIdle /\ StalkInit

Only(component) == studied = component /\ UNCHANGED studied
StepOfLayout == Only("layout") /\ LayoutNext /\ UNCHANGED <<keyVars, verifyVars, witnessVars, searchVars, lookupVars, feedVars, stalkVars>>
StepOfKeys == Only("keys") /\ KeysNext /\ UNCHANGED <<layoutVars, verifyVars, witnessVars, searchVars, lookupVars, feedVars, stalkVars>>
StepOfVerify == Only("verify") /\ VerifyNext /\ UNCHANGED <<layoutVars, keyVars, witnessVars, searchVars, lookupVars, feedVars, stalkVars>>
StepOfWitness == Only("witness") /\ WitnessNext /\ UNCHANGED <<layoutVars, keyVars, verifyVars, searchVars, lookupVars, feedVars, stalkVars>>
StepOfSearch == Only("search") /\ SearchNext /\ UNCHANGED <<layoutVars, keyVars, verifyVars, witnessVars, lookupVars, feedVars, stalkVars>>
StepOfLookup == Only("lookup") /\ LookupNext /\ UNCHANGED <<layoutVars, keyVars, verifyVars, witnessVars, searchVars, feedVars, stalkVars>>
StepOfFeed == Only("feed") /\ FeedNext /\ UNCHANGED <<layoutVars, keyVars, verifyVars, witnessVars, searchVars, lookupVars, stalkVars>>
StepOfStalk == Only("stalk") /\ StalkNext /\ UNCHANGED <<layoutVars, keyVars, verifyVars, witnessVars, searchVars, lookupVars, feedVars>>

MCNext ==
  \/ StepOfLayout \/ StepOfKeys \/ StepOfVerify \/ StepOfWitness
  \/ StepOfSearch \/ StepOfLookup \/ StepOfFeed \/ StepOfStalk

MCSpec ==
  MCInit /\ [][MCNext]_<<studied, layoutVars, keyVars, verifyVars, witnessVars, searchVars, lookupVars, feedVars, stalkVars>>
===============================================================================
