----------------------------- MODULE ExplorerProps -----------------------------
(***************************************************************************)
(* What the explorer promises: its two searches to somebody who is about   *)
(* to send money to the address they show, its lists of tokens to whoever  *)
(* believes that a token pays a handle, its form to whoever waits for news *)
(* of a handle.                                                            *)
(***************************************************************************)
EXTENDS RecipientSearch, HandleLookup, TokenFeed, StalkForm

\* However fast one types and whichever answer comes last, the list under the search box is that
\* of the text in the box: every platform on which it is a handle, once, in the order of platforms,
\* each with its own address or none, the marked entry one of them, and an entry still deriving
\* only while its search is.
SearchIsCurrent ==
  /\ \A match \in Range(matches) :
       match.handle # "" /\ match.handle = HandleOf[<<match.platform, query>>]
  /\ \A p \in Range(PLATFORM_KEYS) :
       HandleOf[<<p, query>>] # "" => \E match \in Range(matches) : match.platform = p
  /\ \A n \in DOMAIN matches : \A m \in 1..(n - 1) :
       \E j \in DOMAIN PLATFORM_KEYS : \E i \in 1..(j - 1) :
         PLATFORM_KEYS[i] = matches[m].platform /\ PLATFORM_KEYS[j] = matches[n].platform
  /\ \A match \in Range(matches) : match.address \in {<<>>, <<match.platform, match.handle>>}
  /\ active \in 0..Len(matches)
  /\ (\E match \in Range(matches) : match.status = "loading") =>
       \E run \in deriving : run.id = searches

\* The address one is offered, and has confirmed, is that of the platform and the handle the form
\* shows, and the form does not wait for a lookup that will not answer it.
LookupIsCurrent ==
  /\ form.result # NoResult =>
       form.result = [platform |-> form.platform, handle |-> LookupHandle[<<form.platform, form.input>>]]
  /\ form.confirmed => form.result # NoResult
  /\ form.pending <=> \E run \in lookups : run.id = requests

\* Handle of an entry of the indexer, and whether it names a handle and pays that handle's address
Recipient(entry) == <<entry.platform, LowerCase[ParsedHandle[<<entry.platform, entry.handle>>]]>>
Routed(entry) ==
  /\ tokenSchema(entry) /\ Recipient(entry)[2] # ""
  /\ entry.paidTo = deriveP2ID(entry.platform, Recipient(entry)[2])

\* Whatever the indexer answers, a listed token pays the address of the handle it is listed under,
\* which on a recipient's page is the address shown there; no token is listed twice; a good entry is
\* not lost for the bad ones beside it or for the way its handle is written; and what the home
\* page lists under a handle is on that handle's page.
FeedIsRouted ==
  page.feed.status = "ready" =>
    LET shown == page.feed.items
    IN  /\ \A item \in Range(shown) :
             /\ item.paidTo = p2idAddress(site.factory, item.platform, item.handle)
             /\ page.at # Everyone => page.at = Recipient(item) /\ page.address = item.paidTo
        /\ \A m, n \in DOMAIN shown : shown[m].token = shown[n].token => m = n
        /\ \A entry \in Range(answer) :
             Routed(entry) /\ page.at \in {Everyone, Recipient(entry)} =>
               \E item \in Range(shown) : item.token = entry.token
        /\ page.at = Everyone =>
             \A item \in Range(shown) : item \in Range(getTokens(Recipient(item), TRUE).items)

\* A visitor who is told that the pings are on has them, for the contact that was sent, also when
\* earlier tries broke off and were answered late; and one who waits will be answered or can see
\* the connection break.
StalksAreKept ==
  /\ stalkForm.kind = "ok" => apiSet /\ stalkForm.asked \in stalks
  /\ stalkForm.kind = "sending" => \E r \in stalkRequests : r.id = sends /\ r.contact = stalkForm.asked

\* What the explorer shows about a handle is true of that handle, in each of its parts.
ExplorerIsTrue == SearchIsCurrent /\ LookupIsCurrent /\ FeedIsRouted /\ StalksAreKept
===============================================================================
