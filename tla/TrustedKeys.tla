------------------------------ MODULE TrustedKeys ------------------------------
(***************************************************************************)
(* Which signer keys a client trusts: verifyIdentity of the SDK            *)
(* (p2id-verifier/src/verifyIdentity.ts, environments.ts) and authenticate *)
(* of the prover (http-prover/src/token.ts).  Both keep the key set of a   *)
(* URL for a while; concurrent calls each fetch it when it has expired, the *)
(* answers arrive in any order, and keys rotate meanwhile.                 *)
(*                                                                         *)
(* A behaviour follows one client.  What a proof or a token says is        *)
(* abstracted to the key that signed it and whether the rest fits what was *)
(* asked.  A definition no other one uses, placed before one with the same *)
(* parameters, is a mutant of it.                                          *)
(***************************************************************************)
EXTENDS Naturals, FiniteSets

CONSTANTS
  Keys,
  Pinned,              \* PVIUM_ENVIRONMENTS[...].keys
  Calls,               \* concurrent calls
  JWKS_TTL,
  LATENCY,             \* longest a fetch takes
  MaxClock

ASSUME KeysAssumption ==
  /\ Pinned \subseteq Keys
  /\ JWKS_TTL \in Nat \ {0} /\ LATENCY \in Nat /\ MaxClock \in Nat

VARIABLES
  time,
  published,           \* what the JWKS URL serves
  withdrawn,           \* history: when a key that is not published was withdrawn
  source,              \* "environment" (SDK), "jwks" (SDK or prover), "pem" (either)
  jwksCache,           \* [at, keys]; no keys when there is none
  calls                \* call -> its phase and what it waits with

keyVars == <<time, published, withdrawn, source, jwksCache, calls>>

Idle == [phase |-> "idle"]
Asks == [signer : Keys, kid : Keys \union {"none"}, fits : BOOLEAN]

KeysInit ==
  /\ time = 1
  /\ published \in SUBSET Keys
  /\ withdrawn = [k \in Keys |-> 0]
  /\ source \in {"environment", "jwks", "pem"}
  /\ jwksCache = [at |-> 0, keys |-> {}]
  /\ calls = [c \in Calls |-> Idle]

-----------------------------------------------------------------------------
\* authenticate: the kid narrows the keys unless it fits none of them; the signature decides.
\* Keys of the SDK have no kid.
Candidates(ask, keys) ==
  IF ask.kid \in keys THEN {ask.kid} ELSE keys

Trusts(ask, keys) == ask.signer \in Candidates(ask, keys)

\* The key that a pinned file, a PEM string or an {x, y} names
OneKey == CHOOSE k \in Keys : TRUE

CacheHit == jwksCache.keys # {} /\ time < jwksCache.at + JWKS_TTL

\* The checks after the keys; "proving" is the wait for the proof backend or for the prover.  A
\* refusal ends the call.
Decide(c, ask, keys) ==
  calls' = [calls EXCEPT ![c] =
    IF Trusts(ask, keys) /\ ask.fits THEN [phase |-> "proving", signer |-> ask.signer]
    ELSE Idle]

NoFetch(ask) == source = "pem" \/ (source = "environment" /\ ask.signer \in Pinned)
KnownKeys == IF source = "pem" THEN {OneKey} ELSE Pinned
WithPinned(keys) == IF source = "environment" THEN keys \union Pinned ELSE keys

AnswerRestamped(c, ask) ==
  /\ CacheHit
  /\ jwksCache' = [jwksCache EXCEPT !.at = time]
  /\ Decide(c, ask, WithPinned(jwksCache.keys))

AnswerFromCache(c, ask) ==
  /\ CacheHit
  /\ Decide(c, ask, WithPinned(jwksCache.keys))
  /\ UNCHANGED jwksCache

Begin(c, ask) ==
  /\ calls[c] = Idle
  /\ \/ NoFetch(ask) /\ Decide(c, ask, KnownKeys) /\ UNCHANGED jwksCache
     \/ ~ NoFetch(ask) /\ AnswerFromCache(c, ask)
     \/ /\ ~ NoFetch(ask) /\ ~ CacheHit
        /\ calls' = [calls EXCEPT ![c] = [phase |-> "fetching", ask |-> ask, since |-> time]]
        /\ UNCHANGED jwksCache
  /\ UNCHANGED <<time, published, withdrawn, source>>

\* The URL answers with what it serves then; the answer is on its way for a while.
Serve(c) ==
  /\ calls[c].phase = "fetching"
  /\ calls' = [calls EXCEPT ![c] =
                 [phase |-> "served", ask |-> @.ask, since |-> @.since, keys |-> published]]
  /\ UNCHANGED <<time, published, withdrawn, source, jwksCache>>

\* The answer arrives, after or before the answers to other calls, and is kept from now on.
Arrive(c) ==
  /\ calls[c].phase = "served" /\ calls[c].keys # {}
  /\ jwksCache' = [at |-> time, keys |-> calls[c].keys]
  /\ Decide(c, calls[c].ask, WithPinned(calls[c].keys))
  /\ UNCHANGED <<time, published, withdrawn, source>>

\* The fetch fails, or serves no P-256 key: pinned keys answer for an environment, nothing does
\* for a URL.  An old cache entry stays, expired.
FetchFails(c) ==
  /\ calls[c].phase \in {"fetching", "served"}
  /\ calls[c].phase = "served" => calls[c].keys = {}
  /\ Decide(c, calls[c].ask, WithPinned({}))
  /\ UNCHANGED <<time, published, withdrawn, source, jwksCache>>

\* verifyProof, or the proof job, ends the call, whatever it says.
Prove(c) ==
  /\ calls[c].phase = "proving"
  /\ calls' = [calls EXCEPT ![c] = Idle]
  /\ UNCHANGED <<time, published, withdrawn, source, jwksCache>>

\* The Privy app's keys rotate.
Rotate(k) ==
  /\ IF k \in published
     THEN published' = published \ {k} /\ withdrawn' = [withdrawn EXCEPT ![k] = time]
     ELSE published' = published \union {k} /\ withdrawn' = [withdrawn EXCEPT ![k] = 0]
  /\ UNCHANGED <<time, source, jwksCache, calls>>

TimePasses ==
  /\ time < MaxClock
  /\ \A c \in Calls : calls[c].phase \in {"fetching", "served"} => time < calls[c].since + LATENCY
  /\ time' = time + 1
  /\ UNCHANGED <<published, withdrawn, source, jwksCache, calls>>

KeysNext ==
  \/ \E c \in Calls :
       \/ \E ask \in Asks : Begin(c, ask)
       \/ Serve(c) \/ Arrive(c) \/ FetchFails(c) \/ Prove(c)
  \/ \E k \in Keys : Rotate(k)
  \/ TimePasses

KeysSpec == KeysInit /\ [][KeysNext]_keyVars
===============================================================================
