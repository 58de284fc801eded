------------------------------- MODULE TokenFeed -------------------------------
(***************************************************************************)
(* The tokens that the explorer lists (lib/tokens.ts), on its home page    *)
(* and on the page of a recipient (app/[platform]/[handle]/page.tsx).  The *)
(* indexer is not believed: an entry is listed only if the address it says *)
(* a token pays is the one derived here for the recipient it names.        *)
(*                                                                         *)
(* Hashes are tuples: equal only for equal parts.  Addresses are compared  *)
(* whatever their case, so a case is left out of them; a handle has one.   *)
(* A definition no other one uses, placed before one with the same         *)
(* parameters, is a mutant of it.                                          *)
(***************************************************************************)
EXTENDS Naturals, Sequences, SequencesExt

CONSTANTS
  CHAIN,               \* the id of the chain the site shows
  Platforms,
  LinkPlatforms,       \* what a link or the indexer writes for a platform
  PageTexts,           \* and for a handle
  ParsedHandle,        \* parseHandle: <<platform, text>> -> a handle, or "" for none
  LowerCase,           \* handle -> the same in lower case
  IndexerAnswers,      \* sequences of [token, chainId, routingVerified,
                       \* platform, handle, paidTo]
  DEMO_TOKENS,
  MaxItems,            \* the most entries an answer may have
  NoFactory, NoP2ID, Everyone

ASSUME FeedAssumption ==
  /\ MaxItems \in Nat
  /\ \A h \in DOMAIN LowerCase : LowerCase[LowerCase[h]] = LowerCase[h]
  /\ LowerCase[""] = ""
  /\ \A asked \in DOMAIN ParsedHandle :
       LET handle == LowerCase[ParsedHandle[asked]]
       IN  ParsedHandle[asked] # "" =>
             handle # "" /\ LowerCase[ParsedHandle[<<asked[1], handle>>]] = handle
  /\ \A entries \in IndexerAnswers :
       /\ Len(entries) \in Nat /\ DOMAIN entries = 1..Len(entries)
       /\ \A n \in DOMAIN entries :
            /\ {"token", "platform", "handle", "paidTo"} \subseteq DOMAIN entries[n]
            /\ entries[n].paidTo # NoP2ID
            /\ entries[n].platform \in Platforms =>
                 <<entries[n].platform, entries[n].handle>> \in DOMAIN ParsedHandle

VARIABLES
  site,                \* [api, factory]: whether an indexer is configured, and the factory
  answer,              \* what the indexer answers with
  page                 \* the page shown: [at, address, feed]

feedVars == <<site, answer, page>>

-----------------------------------------------------------------------------
identityHash(platform, handle) == <<platform, LowerCase[handle]>>
p2idAddress(factory, platform, handle) == <<factory, identityHash(platform, handle)>>

\* What an entry of the indexer must be, among it that it vouches for the token's fee settings
tokenSchema(entry) ==
  entry.chainId = CHAIN /\ entry.platform \in Platforms /\ entry.routingVerified

deriveP2ID(platform, handle) ==
  IF site.factory = NoFactory THEN NoP2ID ELSE p2idAddress(site.factory, platform, handle)

demoFeed(recipient) ==
  [status |-> "demo",
   items |-> IF recipient = Everyone THEN DEMO_TOKENS
             ELSE [n \in 1..3 |->
                     [DEMO_TOKENS[n] EXCEPT !.platform = recipient[1], !.handle = recipient[2]]]]

ListedAsWritten(items, entry, recipient) ==
  LET parsed == ParsedHandle[<<entry.platform, entry.handle>>]
      named == [entry EXCEPT !.handle = parsed]
  IN  IF /\ tokenSchema(entry) /\ parsed # ""
         /\ recipient \in {Everyone, <<named.platform, named.handle>>}
         /\ deriveP2ID(named.platform, named.handle) = named.paidTo
         /\ \A item \in Range(items) : item.token # named.token
      THEN Append(items, named) ELSE items

\* The list so far, with an entry of the answer if it is not dropped; the first one of a token stays.
Listed(items, entry, recipient) ==
  LET parsed == ParsedHandle[<<entry.platform, entry.handle>>]
      named == [entry EXCEPT !.handle = LowerCase[parsed]]
  IN  IF /\ tokenSchema(entry) /\ parsed # ""
         /\ recipient \in {Everyone, <<named.platform, named.handle>>}
         /\ deriveP2ID(named.platform, named.handle) = named.paidTo
         /\ \A item \in Range(items) : item.token # named.token
      THEN Append(items, named) ELSE items

\* What is listed of the answer, entry by entry
ListedOf(recipient) ==
  LET items[n \in 0..Len(answer)] ==
        IF n = 0 THEN <<>> ELSE Listed(items[n - 1], answer[n], recipient)
  IN  items[Len(answer)]

\* reached: the indexer answers in time, and without an error status
getTokens(recipient, reached) ==
  IF ~ site.api THEN demoFeed(recipient)
  ELSE IF ~ reached \/ Len(answer) > MaxItems THEN [status |-> "unavailable", items |-> <<>>]
  ELSE [status |-> "ready", items |-> ListedOf(recipient)]

-----------------------------------------------------------------------------
NoPage == [at |-> Everyone, address |-> NoP2ID, feed |-> [status |-> "none", items |-> <<>>]]

FeedInit ==
  /\ site \in [api : BOOLEAN, factory : {NoFactory, "factory"}]
  /\ answer \in IndexerAnswers
  /\ page = NoPage

VisitHome(reached) ==
  /\ page' = [NoPage EXCEPT !.feed = getTokens(Everyone, reached)]
  /\ UNCHANGED <<site, answer>>

\* Whom a link is about, and the address: nobody if the text is no handle of a platform.
Resolve(platform, text) ==
  LET normal == LowerCase[ParsedHandle[<<platform, text>>]]
  IN  IF platform \notin Platforms \/ normal = "" THEN NoPage
      ELSE [NoPage EXCEPT !.at = <<platform, normal>>, !.address = deriveP2ID(platform, normal)]

Visit(platform, text, reached) ==
  LET found == Resolve(platform, text)
  IN  /\ page' = IF found = NoPage THEN NoPage
                 ELSE [found EXCEPT !.feed = getTokens(found.at, reached)]
      /\ UNCHANGED <<site, answer>>

FeedNext ==
  \E reached \in BOOLEAN :
    \/ VisitHome(reached)
    \/ \E platform \in LinkPlatforms, text \in PageTexts : Visit(platform, text, reached)

FeedSpec == FeedInit /\ [][FeedNext]_feedVars
===============================================================================
