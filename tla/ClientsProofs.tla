----------------------------- MODULE ClientsProofs -----------------------------
(***************************************************************************)
(* Proofs about the programs around the contracts: the clients that trust  *)
(* signing keys, for any keys, calls, life time and latency; the           *)
(* verification of sources, for any records, explorers and runs; the       *)
(* explorer, for any platforms, handles, texts and answers of the indexer; *)
(* and the checks of layouts, for any types and variables.                 *)
(***************************************************************************)
EXTENDS WitnessProofs, ExplorerProps

-----------------------------------------------------------------------------
(* Trusted keys *)

IsFetching(call) ==
  \E ask \in Asks, since \in Nat : call = [phase |-> "fetching", ask |-> ask, since |-> since]
IsServed(call) ==
  \E ask \in Asks, since \in Nat, keys \in SUBSET Keys :
    call = [phase |-> "served", ask |-> ask, since |-> since, keys |-> keys]
IsProving(call) == \E k \in Keys : call = [phase |-> "proving", signer |-> k]

KeysTypeOK ==
  /\ time \in Nat
  /\ published \subseteq Keys
  /\ withdrawn \in [Keys -> Nat]
  /\ source \in {"environment", "jwks", "pem"}
  /\ jwksCache = [at |-> jwksCache.at, keys |-> jwksCache.keys]
  /\ jwksCache.at \in Nat /\ jwksCache.keys \subseteq Keys
  /\ calls = [c \in Calls |-> calls[c]]
  /\ \A c \in Calls :
       calls[c] = Idle \/ IsFetching(calls[c]) \/ IsServed(calls[c]) \/ IsProving(calls[c])

\* A key was served at a time when it was published: it still is, or was withdrawn since.
ServedSince(k, at) == k \in published \/ at <= withdrawn[k]

\* No fetch is older than it may take.  What an answer under way holds was published when it was
\* asked for or later, what the cache holds at most as long before it came as an answer travels.
KeysFresh ==
  /\ \A c \in Calls : calls[c].phase \in {"fetching", "served"} =>
       calls[c].since <= time /\ time <= calls[c].since + LATENCY
  /\ \A c \in Calls : calls[c].phase = "served" =>
       \A k \in calls[c].keys : ServedSince(k, calls[c].since)
  /\ jwksCache.at <= time
  /\ \A k \in jwksCache.keys : k \in published \/ jwksCache.at <= withdrawn[k] + LATENCY

KeysInv == KeysTypeOK /\ KeysFresh

\* When a key may be relied on at this time.
Current(k) ==
  \/ k \in published \union (IF source = "environment" THEN Pinned ELSE {})
  \/ source = "pem" /\ k = OneKey
  \/ time < withdrawn[k] + JWKS_TTL + LATENCY

LEMMA KeysInitially == KeysInit => KeysInv
<1> SUFFICES ASSUME KeysInit PROVE KeysInv
  OBVIOUS
<1>1. Idle.phase = "idle"
  BY DEF Idle
<1>2. KeysTypeOK
  BY DEF KeysInit, KeysTypeOK
<1>3. KeysFresh
  BY <1>1 DEF KeysInit, KeysFresh
<1> QED
  BY <1>2, <1>3 DEF KeysInv

\* What a decision does to the calls: the call starts to prove, by a key of the set, or ends.
LEMMA Deciding ==
  ASSUME KeysTypeOK, NEW c \in Calls, NEW ask \in Asks, NEW keys, Decide(c, ask, keys)
  PROVE  /\ calls' = [d \in Calls |-> calls'[d]]
         /\ \A d \in Calls : d # c => calls'[d] = calls[d]
         /\ \/ calls'[c] = Idle
            \/ /\ calls'[c] = [phase |-> "proving", signer |-> ask.signer]
               /\ ask.signer \in keys /\ ask.signer \in Keys
<1>1. ask.signer \in Keys
  BY DEF Asks
<1>2. Trusts(ask, keys) => ask.signer \in keys
  BY DEF Trusts, Candidates
<1> QED
  BY <1>1, <1>2 DEF Decide, KeysTypeOK

TrustsCurrent ==
  \A c \in Calls :
    calls'[c].phase = "proving" /\ calls[c].phase # "proving" => Current(calls'[c].signer)
KeysKept == KeysInv' /\ TrustsCurrent

\* Phases are told apart, and a call that is served or proving shows what it holds.
LEMMA PhasesTell ==
  /\ Idle.phase = "idle"
  /\ \A call : IsFetching(call) => call.phase = "fetching" /\ call.ask \in Asks /\ call.since \in Nat
  /\ \A call : IsServed(call) =>
       call.phase = "served" /\ call.ask \in Asks /\ call.since \in Nat /\ call.keys \subseteq Keys
  /\ \A call : IsProving(call) => call.phase = "proving" /\ call.signer \in Keys
  BY DEF Idle, IsFetching, IsServed, IsProving

\* A decision by current keys keeps the invariant, with the cache as it was or newly filled.
LEMMA DecidingKeeps ==
  ASSUME KeysInv, NEW c \in Calls, NEW ask \in Asks, NEW keys, Decide(c, ask, keys),
         UNCHANGED <<time, published, withdrawn, source>>,
         \A k \in keys \intersect Keys : Current(k),
         \/ jwksCache' = jwksCache
         \/ \E new \in SUBSET Keys :
              /\ jwksCache' = [at |-> time, keys |-> new]
              /\ \A k \in new : k \in published \/ time <= withdrawn[k] + LATENCY
  PROVE  KeysKept
<1>1. /\ calls' = [d \in Calls |-> calls'[d]]
      /\ \A d \in Calls : d # c => calls'[d] = calls[d]
      /\ \/ calls'[c] = Idle
         \/ /\ calls'[c] = [phase |-> "proving", signer |-> ask.signer]
            /\ ask.signer \in keys /\ ask.signer \in Keys
  BY Deciding DEF KeysInv
<1>2. calls'[c] = Idle \/ IsProving(calls'[c])
  BY <1>1 DEF IsProving
<1>3. /\ jwksCache' = [at |-> jwksCache'.at, keys |-> jwksCache'.keys]
      /\ jwksCache'.at \in Nat /\ jwksCache'.at <= time /\ jwksCache'.keys \subseteq Keys
      /\ \A k \in jwksCache'.keys : k \in published \/ jwksCache'.at <= withdrawn[k] + LATENCY
  BY DEF KeysInv, KeysTypeOK, KeysFresh
<1>4. KeysTypeOK'
  BY <1>1, <1>2, <1>3 DEF KeysInv, KeysTypeOK
<1>5. calls'[c].phase \notin {"fetching", "served"}
  BY <1>2, PhasesTell
<1>6. KeysFresh'
  BY <1>1, <1>3, <1>5 DEF KeysInv, KeysFresh, ServedSince
<1>7. TrustsCurrent
  <2> SUFFICES ASSUME NEW d \in Calls, calls'[d].phase = "proving", calls[d].phase # "proving"
               PROVE  Current(calls'[d].signer)
    BY DEF TrustsCurrent
  <2>1. d = c
    BY <1>1
  <2>2. calls'[c].signer = ask.signer /\ ask.signer \in keys \intersect Keys
    BY <1>1, <2>1, PhasesTell
  <2> QED
    BY <2>1, <2>2
<1> QED
  BY <1>4, <1>6, <1>7 DEF KeysKept, KeysInv

\* What a client pins is current for it.
LEMMA PinnedAreCurrent == source = "environment" => \A k \in Pinned : Current(k)
  BY DEF Current

LEMMA BeginKeeps ==
  ASSUME KeysInv, NEW c \in Calls, NEW ask \in Asks, Begin(c, ask)
  PROVE  KeysKept
<1>1. UNCHANGED <<time, published, withdrawn, source, jwksCache>>
  BY DEF Begin, AnswerFromCache
<1>2. CASE NoFetch(ask) /\ Decide(c, ask, KnownKeys)
  <2>1. \A k \in KnownKeys \intersect Keys : Current(k)
    BY <1>2 DEF NoFetch, KnownKeys, Current
  <2> QED
    BY <1>1, <1>2, <2>1, DecidingKeeps
<1>3. CASE AnswerFromCache(c, ask)
  <2>1. \A k \in jwksCache.keys : Current(k)
    <3> SUFFICES ASSUME NEW k \in jwksCache.keys, k \notin published PROVE Current(k)
      BY DEF Current
    <3>1. jwksCache.at <= withdrawn[k] + LATENCY /\ k \in Keys
      BY DEF KeysInv, KeysTypeOK, KeysFresh
    <3>2. time < jwksCache.at + JWKS_TTL
      BY <1>3 DEF AnswerFromCache, CacheHit
    <3>3. time < withdrawn[k] + JWKS_TTL + LATENCY
      BY <3>1, <3>2, KeysAssumption DEF KeysInv, KeysTypeOK
    <3> QED
      BY <3>3 DEF Current
  <2>2. \A k \in WithPinned(jwksCache.keys) \intersect Keys : Current(k)
    BY <2>1, PinnedAreCurrent DEF WithPinned
  <2> QED
    BY <1>1, <1>3, <2>2, DecidingKeeps DEF AnswerFromCache
<1>4. CASE calls' = [calls EXCEPT ![c] = [phase |-> "fetching", ask |-> ask, since |-> time]]
  <2>1. /\ calls' = [d \in Calls |-> calls'[d]]
        /\ \A d \in Calls : d # c => calls'[d] = calls[d]
        /\ calls'[c] = [phase |-> "fetching", ask |-> ask, since |-> time]
    BY <1>4 DEF KeysInv, KeysTypeOK
  <2>2. calls'[c].phase = "fetching" /\ calls'[c].since = time /\ IsFetching(calls'[c])
    BY <2>1 DEF IsFetching, KeysInv, KeysTypeOK
  <2>3. KeysTypeOK'
    BY <1>1, <2>1, <2>2 DEF KeysInv, KeysTypeOK
  <2>4. KeysFresh'
    <3>1. time <= time + LATENCY
      BY KeysAssumption DEF KeysInv, KeysTypeOK
    <3> QED
      BY <1>1, <2>1, <2>2, <3>1 DEF KeysInv, KeysTypeOK, KeysFresh, ServedSince
  <2> QED
    BY <2>1, <2>2, <2>3, <2>4 DEF KeysKept, KeysInv, TrustsCurrent
<1> QED
  BY <1>2, <1>3, <1>4 DEF Begin

LEMMA ServeKeeps == ASSUME KeysInv, NEW c \in Calls, Serve(c) PROVE KeysKept
<1>1. UNCHANGED <<time, published, withdrawn, source, jwksCache>>
  BY DEF Serve
<1>2. PICK ask \in Asks, since \in Nat :
        calls[c] = [phase |-> "fetching", ask |-> ask, since |-> since]
  BY PhasesTell DEF Serve, KeysInv, KeysTypeOK, IsFetching
<1>3. /\ calls' = [d \in Calls |-> calls'[d]]
      /\ \A d \in Calls : d # c => calls'[d] = calls[d]
      /\ calls'[c] = [phase |-> "served", ask |-> ask, since |-> since, keys |-> published]
  BY <1>2 DEF Serve, KeysInv, KeysTypeOK
<1>4. IsServed(calls'[c])
  BY <1>3 DEF IsServed, KeysInv, KeysTypeOK
<1>5. KeysTypeOK'
  BY <1>1, <1>3, <1>4 DEF KeysInv, KeysTypeOK
<1>6. KeysFresh'
  BY <1>1, <1>2, <1>3 DEF KeysInv, KeysFresh, ServedSince
<1> QED
  BY <1>3, <1>5, <1>6 DEF KeysKept, KeysInv, TrustsCurrent

LEMMA ArriveKeeps == ASSUME KeysInv, NEW c \in Calls, Arrive(c) PROVE KeysKept
<1>1. PICK ask \in Asks, since \in Nat, keys \in SUBSET Keys :
        calls[c] = [phase |-> "served", ask |-> ask, since |-> since, keys |-> keys]
  BY PhasesTell DEF Arrive, KeysInv, KeysTypeOK, IsServed
<1>2. since <= time /\ time <= since + LATENCY
  BY <1>1 DEF KeysInv, KeysFresh
<1>3. ASSUME NEW k \in keys, k \notin published
      PROVE  time <= withdrawn[k] + LATENCY /\ time < withdrawn[k] + JWKS_TTL + LATENCY
  <2>1. since <= withdrawn[k]
    BY <1>1, <1>3 DEF KeysInv, KeysFresh, ServedSince
  <2> QED
    BY <1>2, <2>1, KeysAssumption DEF KeysInv, KeysTypeOK
<1>4. \A k \in WithPinned(keys) \intersect Keys : Current(k)
  BY <1>3, PinnedAreCurrent DEF WithPinned, Current
<1>5. Decide(c, ask, WithPinned(keys)) /\ jwksCache' = [at |-> time, keys |-> keys]
  BY <1>1 DEF Arrive
<1>6. UNCHANGED <<time, published, withdrawn, source>>
  BY DEF Arrive
<1> QED
  BY <1>3, <1>4, <1>5, <1>6, DecidingKeeps

LEMMA FetchFailsKeeps == ASSUME KeysInv, NEW c \in Calls, FetchFails(c) PROVE KeysKept
<1>1. calls[c].ask \in Asks
  BY PhasesTell DEF FetchFails, KeysInv, KeysTypeOK
<1>2. \A k \in WithPinned({}) \intersect Keys : Current(k)
  BY PinnedAreCurrent DEF WithPinned
<1> QED
  BY <1>1, <1>2, DecidingKeeps DEF FetchFails

LEMMA ProveKeeps == ASSUME KeysInv, NEW c \in Calls, Prove(c) PROVE KeysKept
<1>1. /\ calls' = [d \in Calls |-> calls'[d]]
      /\ \A d \in Calls : d # c => calls'[d] = calls[d]
      /\ calls'[c] = Idle
  BY DEF Prove, KeysInv, KeysTypeOK
<1>2. UNCHANGED <<time, published, withdrawn, source, jwksCache>>
  BY DEF Prove
<1>3. KeysTypeOK' /\ KeysFresh'
  BY <1>1, <1>2, PhasesTell DEF KeysInv, KeysTypeOK, KeysFresh, ServedSince
<1>4. TrustsCurrent
  BY <1>1, PhasesTell DEF TrustsCurrent
<1> QED
  BY <1>3, <1>4 DEF KeysKept, KeysInv

\* A key that is withdrawn now was served at some time that has passed.
LEMMA RotateKeeps == ASSUME KeysInv, NEW k \in Keys, Rotate(k) PROVE KeysKept
<1>1. UNCHANGED <<time, source, jwksCache, calls>>
  BY DEF Rotate
<1>2. /\ withdrawn' \in [Keys -> Nat] /\ published' \subseteq Keys
      /\ \A j \in Keys : j # k => withdrawn'[j] = withdrawn[j] /\ (j \in published' <=> j \in published)
      /\ k \in published' \/ withdrawn'[k] = time
  BY DEF Rotate, KeysInv, KeysTypeOK
<1>3. KeysTypeOK'
  BY <1>1, <1>2 DEF KeysInv, KeysTypeOK
<1>4. \A j \in jwksCache.keys : j \in published' \/ jwksCache.at <= withdrawn'[j] + LATENCY
  <2>1. jwksCache.at <= time + LATENCY
    BY KeysAssumption DEF KeysInv, KeysTypeOK, KeysFresh
  <2> QED
    BY <1>2, <2>1 DEF KeysInv, KeysTypeOK, KeysFresh
<1>5. \A c \in Calls : calls[c].phase = "served" =>
        \A j \in calls[c].keys : ServedSince(j, calls[c].since)'
  <2> SUFFICES ASSUME NEW c \in Calls, calls[c].phase = "served", NEW j \in calls[c].keys
               PROVE  ServedSince(j, calls[c].since)'
    BY <1>1
  <2>1. calls[c].since \in Nat /\ calls[c].since <= time /\ j \in Keys
    BY PhasesTell DEF KeysInv, KeysTypeOK, KeysFresh
  <2>2. ServedSince(j, calls[c].since)
    BY DEF KeysInv, KeysFresh
  <2> QED
    BY <1>1, <1>2, <2>1, <2>2 DEF ServedSince
<1>6. KeysFresh'
  BY <1>1, <1>4, <1>5 DEF KeysInv, KeysFresh
<1> QED
  BY <1>1, <1>3, <1>6 DEF KeysKept, KeysInv, TrustsCurrent

\* A fetch is waited for no longer than it may take.
LEMMA TimePassesKeeps == ASSUME KeysInv, TimePasses PROVE KeysKept
<1>1. UNCHANGED <<published, withdrawn, source, jwksCache, calls>> /\ time' = time + 1
  BY DEF TimePasses
<1>2. KeysTypeOK'
  BY <1>1 DEF KeysInv, KeysTypeOK
<1>3. ASSUME NEW c \in Calls, calls[c].phase \in {"fetching", "served"}
      PROVE  calls[c].since <= time + 1 /\ time + 1 <= calls[c].since + LATENCY
  <2>1. calls[c].since \in Nat
    BY <1>3, PhasesTell DEF KeysInv, KeysTypeOK
  <2>2. calls[c].since <= time /\ time < calls[c].since + LATENCY
    BY <1>3 DEF TimePasses, KeysInv, KeysFresh
  <2> QED
    BY <2>1, <2>2, KeysAssumption DEF KeysInv, KeysTypeOK
<1>4. KeysFresh'
  BY <1>1, <1>3 DEF KeysInv, KeysTypeOK, KeysFresh, ServedSince
<1> QED
  BY <1>1, <1>2, <1>4 DEF KeysKept, KeysInv, TrustsCurrent

LEMMA KeysStep == KeysInv /\ [KeysNext]_keyVars => KeysKept
<1> SUFFICES ASSUME KeysInv, [KeysNext]_keyVars PROVE KeysKept
  OBVIOUS
<1>1. ASSUME NEW c \in Calls, NEW ask \in Asks, Begin(c, ask) PROVE KeysKept
  BY <1>1, BeginKeeps
<1>2. ASSUME NEW c \in Calls, Serve(c) \/ Arrive(c) \/ FetchFails(c) \/ Prove(c) PROVE KeysKept
  BY <1>2, ServeKeeps, ArriveKeeps, FetchFailsKeeps, ProveKeeps
<1>3. ASSUME NEW k \in Keys, Rotate(k) PROVE KeysKept
  BY <1>3, RotateKeeps
<1>4. ASSUME UNCHANGED keyVars PROVE KeysKept
  BY <1>4 DEF keyVars, KeysKept, TrustsCurrent, KeysInv, KeysTypeOK, KeysFresh, ServedSince
<1> QED
  BY <1>1, <1>2, <1>3, <1>4, TimePassesKeeps DEF KeysNext

\* However many calls overlap and in whatever order their answers arrive, a key that its publisher
\* withdrew is relied on for no longer than an answer travels and the cache keeps it, except where
\* the client pins it.
THEOREM KeysExpire == KeysSpec => WithdrawnKeysExpire
<1>1. KeysInv /\ [KeysNext]_keyVars => KeysInv' /\ TrustsCurrent
  BY KeysStep DEF KeysKept
<1>2. TrustsCurrent =>
        \A c \in Calls :
          calls'[c].phase = "proving" /\ calls[c].phase # "proving" =>
            LET k == calls'[c].signer
            IN  \/ k \in published \union (IF source = "environment" THEN Pinned ELSE {})
                \/ source = "pem" /\ k = OneKey
                \/ time < withdrawn[k] + JWKS_TTL + LATENCY
  BY DEF TrustsCurrent, Current
<1> QED
  BY <1>1, <1>2, KeysInitially, PTL DEF KeysSpec, WithdrawnKeysExpire

-----------------------------------------------------------------------------
(* Source verification.  The targets are a sequence: records put together. *)

\* The lists of the first m sequences, put together one after the other.
Glue(a, b) == a \o b
Glues(f, seqs, m) == f = [i \in 1..m |-> IF i = 1 THEN seqs[i] ELSE Glue(f[i - 1], seqs[i])]

LEMMA GluesMore ==
  ASSUME NEW S, NEW seqs \in Seq(Seq(S)), NEW k \in Nat \ {0}, k + 1 \in 1..Len(seqs),
         NEW f \in [1..k -> Seq(S)], Glues(f, seqs, k)
  PROVE  \E g \in [1..(k + 1) -> Seq(S)] : Glues(g, seqs, k + 1)
<1> DEFINE g == [i \in 1..(k + 1) |-> IF i = k + 1 THEN Glue(f[k], seqs[k + 1]) ELSE f[i]]
<1>1. \A i \in 1..k : f[i] = IF i = 1 THEN seqs[i] ELSE Glue(f[i - 1], seqs[i])
  BY DEF Glues
<1>2. Glue(f[k], seqs[k + 1]) \in Seq(S)
  <2>1. f[k] \in Seq(S) /\ seqs[k + 1] \in Seq(S)
    OBVIOUS
  <2> QED
    BY <2>1, ConcatProperties DEF Glue
<1>3. g \in [1..(k + 1) -> Seq(S)]
  BY <1>2
<1>4. \A i \in 1..k : g[i] = f[i]
  OBVIOUS
<1>5. g[k + 1] = Glue(f[k], seqs[k + 1])
  OBVIOUS
<1>6. DOMAIN g = 1..(k + 1) /\ g = [i \in 1..(k + 1) |-> g[i]]
  OBVIOUS
<1> HIDE DEF g
<1>7. ASSUME NEW i \in 1..(k + 1)
      PROVE  g[i] = IF i = 1 THEN seqs[i] ELSE Glue(g[i - 1], seqs[i])
  <2>1. CASE i = k + 1
    <3>1. i # 1 /\ i - 1 = k /\ k \in 1..k
      BY <2>1
    <3> QED
      BY <1>4, <1>5, <2>1, <3>1
  <2>2. CASE i # k + 1 /\ i # 1
    <3>1. i \in 1..k /\ i - 1 \in 1..k
      BY <2>2
    <3> QED
      BY <1>1, <1>4, <2>2, <3>1
  <2>3. CASE i = 1
    BY <1>1, <1>4, <2>3
  <2> QED
    BY <2>1, <2>2, <2>3
<1>8. Glues(g, seqs, k + 1)
  BY <1>6, <1>7 DEF Glues
<1> QED
  BY <1>3, <1>8

\* Putting sequences together gives a sequence.
LEMMA FlatteningSequences ==
  ASSUME NEW S, NEW seqs \in Seq(Seq(S))
  PROVE  FlattenSeq(seqs) \in Seq(S)
<1>1. CASE Len(seqs) = 0
  BY <1>1, EmptySeq DEF FlattenSeq
<1>2. CASE Len(seqs) # 0
  <2>1. PICK n \in Nat \ {0} : n = Len(seqs)
    BY <1>2
  <2>2. \A i \in 1..n : seqs[i] \in Seq(S)
    BY <2>1
  <2> DEFINE Good == {m \in 1..n : \E f \in [1..m -> Seq(S)] : Glues(f, seqs, m)}
  <2>3. 1 \in Good
    <3>1. [i \in 1..1 |-> seqs[i]] \in [1..1 -> Seq(S)]
      BY <2>2
    <3>2. Glues([i \in 1..1 |-> seqs[i]], seqs, 1)
      BY DEF Glues
    <3> QED
      BY <3>1, <3>2
  <2>4. ASSUME NEW k \in 1..n, k # n, k \in Good PROVE k + 1 \in Good
    <3>1. PICK f \in [1..k -> Seq(S)] : Glues(f, seqs, k)
      BY <2>4
    <3>2. k \in Nat \ {0} /\ k + 1 \in 1..n
      BY <2>4
    <3>3. \E g \in [1..(k + 1) -> Seq(S)] : Glues(g, seqs, k + 1)
      BY <2>1, <3>1, <3>2, GluesMore
    <3> QED
      BY <3>2, <3>3
  <2>5. n \in Good
    <3> HIDE DEF Good
    <3> QED
      BY <2>3, <2>4, FromOneTo
  <2> DEFINE h == CHOOSE f : Glues(f, seqs, n)
  <2>6. Glues(h, seqs, n)
    BY <2>5
  <2>7. FlattenSeq(seqs) = h[n]
    BY <1>2, <2>1 DEF FlattenSeq, Glues, Glue
  <2> HIDE DEF h
  <2>8. \A i \in 1..n : h[i] = IF i = 1 THEN seqs[i] ELSE Glue(h[i - 1], seqs[i])
    BY <2>6 DEF Glues
  <2> DEFINE Fine == {m \in 1..n : h[m] \in Seq(S)}
  <2>9. 1 \in Fine
    BY <2>2, <2>8
  <2>10. ASSUME NEW k \in 1..n, k # n, k \in Fine PROVE k + 1 \in Fine
    <3>1. k + 1 \in 1..n /\ k + 1 # 1 /\ (k + 1) - 1 = k
      BY <2>10
    <3>2. h[k + 1] = Glue(h[k], seqs[k + 1])
      BY <2>8, <3>1
    <3>3. h[k] \in Seq(S) /\ seqs[k + 1] \in Seq(S)
      BY <2>2, <2>10, <3>1
    <3>4. Glue(h[k], seqs[k + 1]) \in Seq(S)
      BY <3>3, ConcatProperties DEF Glue
    <3> QED
      BY <3>1, <3>2, <3>4
  <2>11. n \in Fine
    <3> HIDE DEF Fine
    <3> QED
      BY <2>9, <2>10, FromOneTo
  <2> QED
    BY <2>7, <2>11
<1> QED
  BY <1>1, <1>2

RunTypeOK ==
  /\ verifying = [phase |-> verifying.phase, dry |-> verifying.dry, targets |-> verifying.targets,
                  at |-> verifying.at, failed |-> verifying.failed]
  /\ verifying.targets \in Seq(Addresses)
  /\ verifying.at \in Nat \ {0} /\ verifying.failed \in Nat

\* Every target whose turn is over is listed, had no code, or made the run fail; a run that says it
\* is done has had them all, and none of them failed.
Accounted(run, without, known) ==
  /\ run.failed = 0 /\ ~ run.dry =>
       \A i \in DOMAIN run.targets : i < run.at => run.targets[i] \in without \union known
  /\ run.phase = "done" => run.failed = 0 /\ run.at > Len(run.targets)
VerifyInv == RunTypeOK /\ Accounted(verifying, absent, listed)

LEMMA TargetsAreASequence ==
  ASSUME NEW chosen \in SUBSET Files, NEW records \in SetToSeqs(chosen), NEW extras \in Extras
  PROVE  TargetsOf(records, extras) \in Seq(Addresses)
<1>1. IsFiniteSet(chosen)
  BY VerificationAssumption, FS_Subset
<1>2. Cardinality(chosen) \in Nat
  BY <1>1, FS_CardinalityType
<1>3. records \in Seq(chosen)
  BY <1>2 DEF SetToSeqs
<1>4. chosen \subseteq Seq(Addresses) /\ extras \in Seq(Addresses)
  BY VerificationAssumption
<1>5. records \in Seq(Seq(Addresses))
  BY <1>3, <1>4, SeqMonotonic
<1> QED
  BY <1>4, <1>5, FlatteningSequences, ConcatProperties DEF TargetsOf

\* How the steps rewrite a run.
LEMMA RunRewritten ==
  ASSUME NEW p, NEW d, NEW ts, NEW n, NEW m, NEW q, NEW run,
         run = [phase |-> p, dry |-> d, targets |-> ts, at |-> n, failed |-> m]
  PROVE  /\ [run EXCEPT !.phase = q] = [phase |-> q, dry |-> d, targets |-> ts, at |-> n, failed |-> m]
         /\ Past(run) = [phase |-> "running", dry |-> d, targets |-> ts, at |-> n + 1, failed |-> m]
         /\ [Past(run) EXCEPT !.failed = @ + 1]
              = [phase |-> "running", dry |-> d, targets |-> ts, at |-> n + 1, failed |-> m + 1]
<1>1. [run EXCEPT !.phase = q] = [phase |-> q, dry |-> d, targets |-> ts, at |-> n, failed |-> m]
  OBVIOUS
<1>2. Past(run) = [phase |-> "running", dry |-> d, targets |-> ts, at |-> n + 1, failed |-> m]
  <2>1. PICK next : next = n + 1
    OBVIOUS
  <2> DEFINE past == [run EXCEPT !.at = next, !.phase = "running"]
  <2>2. Past(run) = past
    BY <2>1 DEF Past
  <2>3. past = [x \in {"phase", "dry", "targets", "at", "failed"} |-> past[x]]
    OBVIOUS
  <2>4. /\ past.phase = "running" /\ past.dry = d /\ past.targets = ts
        /\ past.at = next /\ past.failed = m
    OBVIOUS
  <2> HIDE DEF past
  <2>5. past = [phase |-> "running", dry |-> d, targets |-> ts, at |-> next, failed |-> m]
    BY <2>3, <2>4
  <2> QED
    BY <2>1, <2>2, <2>5
<1>3. PICK past : past = Past(run)
  OBVIOUS
<1>4. [past EXCEPT !.failed = @ + 1]
        = [phase |-> "running", dry |-> d, targets |-> ts, at |-> n + 1, failed |-> m + 1]
  BY <1>2, <1>3
<1> QED
  BY <1>1, <1>2, <1>3, <1>4

LEMMA Firsts == 1 \in Nat \ {0} /\ 0 \in Nat
  OBVIOUS

LEMMA VerifyInitially == VerifyInit => VerifyInv
<1> SUFFICES ASSUME VerifyInit PROVE VerifyInv
  OBVIOUS
<1>1. verifying = [phase |-> "none", dry |-> FALSE, targets |-> <<>>, at |-> 1, failed |-> 0]
  BY DEF VerifyInit, NoRun
<1>2. /\ verifying.phase = "none" /\ verifying.targets = <<>> /\ verifying.at = 1 /\ verifying.failed = 0
  BY <1>1
<1>3. verifying.dry = FALSE
  BY <1>1, Zenon
<1>4. <<>> \in Seq(Addresses) /\ DOMAIN <<>> = {}
  BY EmptySeq
<1>5. RunTypeOK
  BY <1>1, <1>2, <1>3, <1>4, Firsts, Zenon DEF RunTypeOK
<1> QED
  BY <1>2, <1>4, <1>5 DEF VerifyInv, Accounted

\* A run with these contents keeps the invariant.
LEMMA RunBecomes ==
  ASSUME NEW p, NEW d, NEW ts \in Seq(Addresses), NEW n \in Nat \ {0}, NEW m \in Nat,
         verifying' = [phase |-> p, dry |-> d, targets |-> ts, at |-> n, failed |-> m],
         m = 0 /\ ~ d => \A i \in DOMAIN ts : i < n => ts[i] \in absent' \union listed',
         p = "done" => m = 0 /\ n > Len(ts)
  PROVE  VerifyInv'
<1>1. /\ verifying'.phase = p /\ verifying'.dry = d /\ verifying'.targets = ts
      /\ verifying'.at = n /\ verifying'.failed = m
  BY Zenon
<1>2. RunTypeOK'
  BY <1>1, Zenon DEF RunTypeOK
<1>3. Accounted(verifying', absent', listed')
  BY <1>1, Zenon DEF Accounted
<1> QED
  BY <1>2, <1>3 DEF VerifyInv

LEMMA StartKeeps ==
  ASSUME VerifyInv, NEW chosen \in SUBSET Files, NEW records \in SetToSeqs(chosen),
         NEW extras \in Extras, NEW dry \in BOOLEAN, NEW refused \in BOOLEAN,
         StartVerifying(records, extras, dry, refused)
  PROVE  VerifyInv'
<1>1. PICK d : NoRun = [phase |-> "none", dry |-> d, targets |-> <<>>, at |-> 1, failed |-> 0]
  BY Zenon DEF NoRun
<1>2. [NoRun EXCEPT !.phase = "error"]
        = [phase |-> "error", dry |-> d, targets |-> <<>>, at |-> 1, failed |-> 0]
  BY <1>1
<1>3. \/ verifying' = [NoRun EXCEPT !.phase = "error"]
      \/ verifying' = [phase |-> "running", dry |-> dry, targets |-> TargetsOf(records, extras),
                       at |-> 1, failed |-> 0]
  BY Zenon DEF StartVerifying
<1>4. ASSUME NEW p, p # "done", NEW b, NEW ts \in Seq(Addresses),
             verifying' = [phase |-> p, dry |-> b, targets |-> ts, at |-> 1, failed |-> 0]
      PROVE  VerifyInv'
  <2>1. \A i \in DOMAIN ts : ~ i < 1
    OBVIOUS
  <2> QED
    BY <1>4, <2>1, Firsts, RunBecomes, Zenon
<1>5. TargetsOf(records, extras) \in Seq(Addresses) /\ <<>> \in Seq(Addresses)
  BY TargetsAreASequence, EmptySeq
<1>6. "error" # "done" /\ "running" # "done"
  OBVIOUS
<1> QED
  BY <1>2, <1>3, <1>4, <1>5, <1>6, Zenon

LEMMA NextIndex ==
  ASSUME NEW S, NEW s \in Seq(S), NEW n \in Nat
  PROVE  \A i \in DOMAIN s : i < n + 1 => i < n \/ i = n
  OBVIOUS

\* One turn: the run moves past its target or submits it.
RunSteps ==
  \/ SkipsAbsent \/ PlansOnly \/ Finish \/ Stopped
  \/ \E reply \in {"true", "false", "null"} : IsVerified(reply)
  \/ \E outcome \in {"verified", "already verified", "lost", "refused"} : Submit(outcome)

LEMMA RunKeeps == ASSUME VerifyInv, RunSteps PROVE VerifyInv'
<1>1. PICK p, d, ts, n, m :
        /\ ts \in Seq(Addresses) /\ n \in Nat \ {0} /\ m \in Nat
        /\ verifying = [phase |-> p, dry |-> d, targets |-> ts, at |-> n, failed |-> m]
  BY Zenon DEF VerifyInv, RunTypeOK
<1>2. /\ verifying.phase = p /\ verifying.targets = ts /\ verifying.at = n /\ verifying.failed = m
      /\ verifying.dry = d
  BY <1>1, Zenon
<1>3. m = 0 /\ ~ d => \A i \in DOMAIN ts : i < n => ts[i] \in absent \union listed
  BY <1>2, Zenon DEF VerifyInv, Accounted
<1>4. ts \in Seq(Addresses) /\ n \in Nat \ {0} /\ m \in Nat
  BY <1>1, Zenon
<1>5. /\ \A q : [verifying EXCEPT !.phase = q]
                  = [phase |-> q, dry |-> d, targets |-> ts, at |-> n, failed |-> m]
      /\ Past(verifying) = [phase |-> "running", dry |-> d, targets |-> ts, at |-> n + 1, failed |-> m]
      /\ [Past(verifying) EXCEPT !.failed = @ + 1]
           = [phase |-> "running", dry |-> d, targets |-> ts, at |-> n + 1, failed |-> m + 1]
  <2>1. verifying = [phase |-> p, dry |-> d, targets |-> ts, at |-> n, failed |-> m]
    BY <1>1, Zenon
  <2> QED
    BY <2>1, RunRewritten
<1>6. ASSUME absent \subseteq absent', listed \subseteq listed', NEW q,
             q = "done" => m = 0 /\ n > Len(ts), verifying' = [verifying EXCEPT !.phase = q]
      PROVE  VerifyInv'
  <2>1. verifying' = [phase |-> q, dry |-> d, targets |-> ts, at |-> n, failed |-> m]
    BY <1>5, <1>6, Zenon
  <2>2. m = 0 /\ ~ d => \A i \in DOMAIN ts : i < n => ts[i] \in absent' \union listed'
    BY <1>3, <1>6
  <2>3. q = "done" => m = 0 /\ n > Len(ts)
    BY <1>6, Zenon
  <2> QED
    BY <1>4, <2>1, <2>2, <2>3, RunBecomes
<1>7. n + 1 \in Nat \ {0} /\ m + 1 \in Nat /\ m + 1 # 0 /\ "running" # "done" /\ "submitting" # "done"
      /\ "error" # "done"
  BY <1>4
<1>8. ASSUME absent \subseteq absent', listed \subseteq listed',
             ~ d /\ n \in DOMAIN ts => ts[n] \in absent' \union listed',
             verifying' = Past(verifying)
      PROVE  VerifyInv'
  <2>1. \A i \in DOMAIN ts : i < n + 1 => i < n \/ i = n
    BY <1>4, NextIndex
  <2>2. m = 0 /\ ~ d => \A i \in DOMAIN ts : i < n + 1 => ts[i] \in absent' \union listed'
    BY <1>3, <1>8, <2>1
  <2>3. verifying' = [phase |-> "running", dry |-> d, targets |-> ts, at |-> n + 1, failed |-> m]
    BY <1>5, <1>8, Zenon
  <2> QED
    BY <1>4, <1>7, <2>2, <2>3, RunBecomes
<1>9. ASSUME verifying' = [Past(verifying) EXCEPT !.failed = @ + 1]
      PROVE  VerifyInv'
  <2>1. verifying' = [phase |-> "running", dry |-> d, targets |-> ts, at |-> n + 1, failed |-> m + 1]
    BY <1>5, <1>9, Zenon
  <2> QED
    BY <1>7, <2>1, RunBecomes, <1>4, Zenon
<1>10. Target = ts[n]
  BY <1>2 DEF Target
<1>11. ASSUME SkipsAbsent PROVE VerifyInv'
  BY <1>8, <1>10, <1>11 DEF SkipsAbsent
<1>12. ASSUME PlansOnly PROVE VerifyInv'
  <2>1. d /\ absent' = absent /\ listed' = listed /\ verifying' = Past(verifying)
    BY <1>2, <1>12, Zenon DEF PlansOnly
  <2> QED
    BY <1>8, <2>1, Zenon
<1>13. ASSUME NEW reply \in {"true", "false", "null"}, IsVerified(reply) PROVE VerifyInv'
  <2>1. absent' = absent /\ listed' = listed
    BY <1>13 DEF IsVerified
  <2>2. CASE reply = "true"
    <3>1. verifying' = Past(verifying) /\ Target \in listed
      BY <1>13, <2>2 DEF IsVerified, Answers
    <3> QED
      BY <1>8, <1>10, <1>13, <2>1, <3>1 DEF IsVerified
  <2>3. CASE reply # "true"
    <3>1. verifying' = [verifying EXCEPT !.phase = "submitting"]
      BY <1>13, <2>3 DEF IsVerified
    <3> QED
      BY <1>6, <1>7, <2>1, <3>1
  <2> QED
    BY <2>2, <2>3
<1>14. ASSUME NEW outcome \in {"verified", "already verified", "lost", "refused"}, Submit(outcome)
       PROVE  VerifyInv'
  <2>1. absent' = absent /\ listed \subseteq listed'
    BY <1>14 DEF Submit
  <2>2. CASE outcome \in {"lost", "refused"}
    <3>1. verifying' = [Past(verifying) EXCEPT !.failed = @ + 1]
      BY <1>14, <2>2 DEF Submit
    <3> QED
      BY <1>9, <3>1
  <2>3. CASE outcome \in {"verified", "already verified"}
    <3>1. verifying' = Past(verifying)
      BY <1>14, <2>3 DEF Submit
    <3>2. Target \in listed'
      BY <1>14, <2>3 DEF Submit
    <3> QED
      BY <1>8, <1>10, <2>1, <3>1, <3>2
  <2> QED
    BY <2>2, <2>3
<1>15. ASSUME Finish PROVE VerifyInv'
  <2>1. PICK q : q = IF m > 0 THEN "error" ELSE "done"
    OBVIOUS
  <2>2. /\ n > Len(ts) /\ absent' = absent /\ listed' = listed
        /\ verifying' = [verifying EXCEPT !.phase = q]
    BY <1>2, <1>15, <2>1, Zenon DEF Finish
  <2>3. m > 0 \/ m = 0
    BY <1>4
  <2>4. q = "done" => m = 0
    BY <1>4, <1>7, <2>1, <2>3
  <2> QED
    BY <1>6, <2>2, <2>4
<1>16. ASSUME Stopped PROVE VerifyInv'
  BY <1>6, <1>7, <1>16 DEF Stopped
<1> QED
  BY <1>11, <1>12, <1>13, <1>14, <1>15, <1>16 DEF RunSteps

LEMMA VerifyStep == VerifyInv /\ [VerifyNext]_verifyVars => VerifyInv'
<1> SUFFICES ASSUME VerifyInv, [VerifyNext]_verifyVars PROVE VerifyInv'
  OBVIOUS
<1>1. ASSUME NEW chosen \in SUBSET Files, NEW records \in SetToSeqs(chosen), NEW extras \in Extras,
             NEW dry \in BOOLEAN, NEW refused \in BOOLEAN,
             StartVerifying(records, extras, dry, refused)
      PROVE  VerifyInv'
  BY <1>1, StartKeeps
<1>2. ASSUME RunSteps PROVE VerifyInv'
  BY <1>2, RunKeeps
\* Others list contracts, and take none away.
<1>3. ASSUME UNCHANGED <<verifying, absent>>, listed \subseteq listed' PROVE VerifyInv'
  <2>1. PICK known : known = listed /\ known \subseteq listed'
    BY <1>3
  <2>2. Accounted(verifying, absent, known)
    BY <2>1 DEF VerifyInv
  <2>3. Accounted(verifying, absent, listed')
    BY <2>1, <2>2, Zenon DEF Accounted
  <2> QED
    BY <1>3, <2>3, Zenon DEF VerifyInv, RunTypeOK
<1>4. ASSUME NEW a \in Addresses, DeployedMeanwhile(a) \/ ListedMeanwhile(a) PROVE VerifyInv'
  BY <1>3, <1>4 DEF DeployedMeanwhile, ListedMeanwhile
<1>5. ASSUME UNCHANGED verifyVars PROVE VerifyInv'
  BY <1>3, <1>5 DEF verifyVars
<1> QED
  BY <1>1, <1>2, <1>4, <1>5 DEF VerifyNext, RunSteps

\* A run of verify-deployments.ts that says it is done leaves no target unverified but those that
\* had no code, whatever the explorer answered or lost and whoever else submitted contracts.
THEOREM DoneIsVerified == VerifySpec => []DoneMeansVerified
<1>1. VerifyInv => DoneMeansVerified
  <2> SUFFICES ASSUME VerifyInv, verifying.phase = "done", ~ verifying.dry
               PROVE  Range(verifying.targets) \ absent \subseteq listed
    BY Zenon DEF DoneMeansVerified
  <2>1. PICK ts, n : /\ ts = verifying.targets /\ n = verifying.at
                     /\ ts \in Seq(Addresses) /\ n \in Nat /\ n > Len(ts)
    BY DEF VerifyInv, RunTypeOK, Accounted
  <2>2. verifying.failed = 0
    BY DEF VerifyInv, Accounted
  <2>3. \A i \in DOMAIN ts : i < n => ts[i] \in absent \union listed
    BY <2>1, <2>2, Zenon DEF VerifyInv, Accounted
  <2>4. \A i \in DOMAIN ts : i < n
    BY <2>1
  <2> QED
    BY <2>1, <2>3, <2>4 DEF Range
<1> QED
  BY <1>1, VerifyInitially, VerifyStep, PTL DEF VerifySpec

-----------------------------------------------------------------------------
(* Recursive functions: that there are any, and induction along them *)

-----------------------------------------------------------------------------
(* Searches *)

\* By a name: the provers do not compare a member of a record with a text.
NoMatch == ""

MatchOf(p, text) ==
  [platform |-> p, handle |-> HandleOf[<<p, text>>], address |-> <<>>, status |-> "loading"]
MatchesOf(text) == {MatchOf(PLATFORM_KEYS[i], text) : i \in DOMAIN PLATFORM_KEYS}

IsMatch(match, text) ==
  match.handle # NoMatch /\ match.handle = HandleOf[<<match.platform, text>>]

\* A list has the first n platforms where the text is a handle, in their order.
Matching(list, n, text) ==
  /\ \A k \in DOMAIN list : IsMatch(list[k], text) /\ \E i \in 1..n : PLATFORM_KEYS[i] = list[k].platform
  /\ \A i \in 1..n : HandleOf[<<PLATFORM_KEYS[i], text>>] # NoMatch =>
       \E k \in DOMAIN list : list[k].platform = PLATFORM_KEYS[i]
  /\ \A k \in DOMAIN list : \A m \in 1..(k - 1) : \E j \in 1..n : \E i \in 1..(j - 1) :
       PLATFORM_KEYS[i] = list[m].platform /\ PLATFORM_KEYS[j] = list[k].platform

Found(list, n, text) ==
  /\ list \in Seq(MatchesOf(text))
  /\ \A k \in DOMAIN list : list[k].address = <<>>
  /\ Matching(list, n, text)

LEMMA PlatformsListed == Len(PLATFORM_KEYS) \in Nat /\ DOMAIN PLATFORM_KEYS = 1..Len(PLATFORM_KEYS)
<1>1. PLATFORM_KEYS \in Seq(STRING)
  BY SearchAssumption, Zenon
<1> QED
  BY <1>1

LEMMA NothingIsNoHandle ==
  ASSUME NEW i \in 1..Len(PLATFORM_KEYS)
  PROVE  HandleOf[<<PLATFORM_KEYS[i], NoMatch>>] = NoMatch
<1>1. \A p \in Range(PLATFORM_KEYS) : HandleOf[<<p, NoMatch>>] = NoMatch
  BY SearchAssumption, Zenon DEF NoMatch
<1>2. PLATFORM_KEYS[i] \in Range(PLATFORM_KEYS)
  BY PlatformsListed DEF Range
<1> QED
  BY <1>1, <1>2

LEMMA EmptyList ==
  ASSUME NEW list, list = <<>>
  PROVE  Len(list) = 0 /\ DOMAIN list = {} /\ list = [k \in 1..0 |-> list[k]]
OBVIOUS

LEMMA MatchAsWritten ==
  ASSUME NEW p, NEW text
  PROVE  LET match == MatchOf(p, text)
         IN  /\ match.platform = p /\ match.handle = HandleOf[<<p, text>>]
             /\ match.address = <<>> /\ match.status = "loading"
BY DEF MatchOf

LEMMA WithMatchAs ==
  ASSUME NEW list, NEW p, NEW text
  PROVE  WithMatch(list, p, text) =
           IF HandleOf[<<p, text>>] = NoMatch THEN list ELSE Append(list, MatchOf(p, text))
BY DEF WithMatch, MatchOf, NoMatch

LEMMA PlatformSearched ==
  ASSUME NEW text, NEW n \in 1..Len(PLATFORM_KEYS), NEW list, Found(list, n - 1, text)
  PROVE  Found(WithMatch(list, PLATFORM_KEYS[n], text), n, text)
<1>1. /\ n \in Nat /\ n \in 1..n /\ n - 1 \in Nat
      /\ \A i \in 1..(n - 1) : i \in 1..n
      /\ \A i \in 1..n : i # n => i \in 1..(n - 1)
  OBVIOUS
<1>2. PICK p : p = PLATFORM_KEYS[n]
  OBVIOUS
<1>3. PICK match : match = MatchOf(p, text)
  OBVIOUS
<1>4. match.platform = p /\ match.handle = HandleOf[<<p, text>>] /\ match.address = <<>>
  BY <1>3, MatchAsWritten
<1>5. match \in MatchesOf(text)
  BY <1>2, <1>3, PlatformsListed DEF MatchesOf
<1>6. list \in Seq(MatchesOf(text)) /\ DOMAIN list = 1..Len(list) /\ Len(list) \in Nat
  BY DEF Found
<1>7. CASE HandleOf[<<p, text>>] = NoMatch
  <2>1. WithMatch(list, p, text) = list
    BY <1>7, WithMatchAs
  <2>2. Matching(list, n, text)
    <3>1. \A k \in DOMAIN list : IsMatch(list[k], text) /\ \E i \in 1..n : PLATFORM_KEYS[i] = list[k].platform
      BY <1>1 DEF Found, Matching
    <3>2. \A i \in 1..n : HandleOf[<<PLATFORM_KEYS[i], text>>] # NoMatch =>
            \E k \in DOMAIN list : list[k].platform = PLATFORM_KEYS[i]
      BY <1>1, <1>2, <1>7 DEF Found, Matching
    <3>3. \A k \in DOMAIN list : \A m \in 1..(k - 1) : \E j \in 1..n : \E i \in 1..(j - 1) :
            PLATFORM_KEYS[i] = list[m].platform /\ PLATFORM_KEYS[j] = list[k].platform
      BY <1>1 DEF Found, Matching
    <3> QED
      BY <3>1, <3>2, <3>3 DEF Matching
  <2> QED
    BY <1>2, <2>1, <2>2 DEF Found
<1>8. CASE HandleOf[<<p, text>>] # NoMatch
  <2>1. PICK longer : longer = WithMatch(list, p, text)
    OBVIOUS
  <2>2. longer = Append(list, match)
    BY <1>3, <1>8, <2>1, WithMatchAs
  <2>3. /\ longer \in Seq(MatchesOf(text)) /\ DOMAIN longer = 1..(Len(list) + 1)
        /\ longer[Len(list) + 1] = match
        /\ \A k \in 1..Len(list) : longer[k] = list[k]
    BY <1>5, <1>6, <2>2, AppendProperties
  <2>4. \A k \in DOMAIN longer : k # Len(list) + 1 => k \in DOMAIN list /\ longer[k] = list[k]
    BY <1>6, <2>3
  <2>5. \A k \in DOMAIN list : k \in DOMAIN longer /\ longer[k] = list[k]
    BY <1>6, <2>3
  <2>6. IsMatch(match, text)
    BY <1>4, <1>8 DEF IsMatch
  <2>7. ASSUME NEW k \in DOMAIN longer
        PROVE  IsMatch(longer[k], text) /\ \E i \in 1..n : PLATFORM_KEYS[i] = longer[k].platform
    <3>1. CASE k = Len(list) + 1
      BY <1>1, <1>2, <1>4, <2>3, <2>6, <3>1
    <3>2. CASE k # Len(list) + 1
      BY <1>1, <2>4, <3>2 DEF Found, Matching
    <3> QED
      BY <3>1, <3>2
  <2>8. ASSUME NEW i \in 1..n, HandleOf[<<PLATFORM_KEYS[i], text>>] # NoMatch
        PROVE  \E k \in DOMAIN longer : longer[k].platform = PLATFORM_KEYS[i]
    <3>1. CASE i = n
      <4>1. Len(list) + 1 \in DOMAIN longer
        BY <1>6, <2>3
      <4> QED
        BY <1>2, <1>4, <2>3, <3>1, <4>1
    <3>2. CASE i # n
      <4>1. PICK k \in DOMAIN list : list[k].platform = PLATFORM_KEYS[i]
        BY <1>1, <2>8, <3>2 DEF Found, Matching
      <4> QED
        BY <2>5, <4>1
    <3> QED
      BY <3>1, <3>2
  <2>9. ASSUME NEW k \in DOMAIN longer, NEW m \in 1..(k - 1)
        PROVE  \E j \in 1..n : \E i \in 1..(j - 1) :
                 PLATFORM_KEYS[i] = longer[m].platform /\ PLATFORM_KEYS[j] = longer[k].platform
    <3>1. m \in DOMAIN list /\ longer[m] = list[m]
      BY <1>6, <2>3
    <3>2. CASE k = Len(list) + 1
      <4>1. PICK i \in 1..(n - 1) : PLATFORM_KEYS[i] = list[m].platform
        BY <3>1 DEF Found, Matching
      <4> QED
        BY <1>1, <1>2, <1>4, <2>3, <3>1, <3>2, <4>1
    <3>3. CASE k # Len(list) + 1
      <4>1. k \in DOMAIN list /\ longer[k] = list[k]
        BY <2>4, <3>3
      <4>2. PICK j \in 1..(n - 1) : \E i \in 1..(j - 1) :
              PLATFORM_KEYS[i] = list[m].platform /\ PLATFORM_KEYS[j] = list[k].platform
        BY <4>1 DEF Found, Matching
      <4> QED
        BY <1>1, <3>1, <4>1, <4>2
    <3> QED
      BY <3>2, <3>3
  <2>10. \A k \in DOMAIN longer : longer[k].address = <<>>
    <3> SUFFICES ASSUME NEW k \in DOMAIN longer PROVE longer[k].address = <<>>
      OBVIOUS
    <3>1. CASE k = Len(list) + 1
      BY <1>4, <2>3, <3>1
    <3>2. CASE k # Len(list) + 1
      BY <2>4, <3>2 DEF Found
    <3> QED
      BY <3>1, <3>2
  <2>11. Matching(longer, n, text)
    BY <2>7, <2>8, <2>9 DEF Matching
  <2> QED
    BY <1>2, <2>1, <2>3, <2>10, <2>11 DEF Found
<1> QED
  BY <1>7, <1>8

IsFinding(f, text) ==
  f = [n \in 0..Len(PLATFORM_KEYS) |->
         IF n = 0 THEN <<>> ELSE WithMatch(f[n - 1], PLATFORM_KEYS[n], text)]

LEMMA FindingExists == ASSUME NEW text PROVE \E f : IsFinding(f, text)
<1> DEFINE N == Len(PLATFORM_KEYS)
           A == Seq(MatchesOf(text))
           step == [x \in A \X (1..N) |-> WithMatch(x[1], PLATFORM_KEYS[x[2]], text)]
<1>1. N \in Nat /\ <<>> \in A /\ DOMAIN PLATFORM_KEYS = 1..N
  BY PlatformsListed
<1>2. \A a \in A, n \in 1..N : step[<<a, n>>] = WithMatch(a, PLATFORM_KEYS[n], text)
  OBVIOUS
<1>3. \A a \in A, n \in 1..N : WithMatch(a, PLATFORM_KEYS[n], text) \in A
  <2> SUFFICES ASSUME NEW a \in A, NEW n \in 1..N PROVE WithMatch(a, PLATFORM_KEYS[n], text) \in A
    OBVIOUS
  <2>1. MatchOf(PLATFORM_KEYS[n], text) \in MatchesOf(text)
    BY <1>1 DEF MatchesOf
  <2>2. Append(a, MatchOf(PLATFORM_KEYS[n], text)) \in A
    BY <2>1, AppendProperties
  <2> QED
    BY <2>2, WithMatchAs
<1> HIDE DEF N, A, step
<1>4. PICK f \in [0..N -> A] : IsFolding(f, N, <<>>, step)
  <2>1. \A a \in A, n \in 1..N : step[<<a, n>>] \in A
    BY <1>2, <1>3
  <2> QED
    BY <1>1, <2>1, Folding
<1>5. ASSUME NEW n \in 0..N
      PROVE  f[n] = IF n = 0 THEN <<>> ELSE WithMatch(f[n - 1], PLATFORM_KEYS[n], text)
  <2>1. f[n] = IF n = 0 THEN <<>> ELSE step[<<f[n - 1], n>>]
    BY <1>4 DEF IsFolding
  <2>2. n # 0 => n \in 1..N /\ f[n - 1] \in A
    <3>1. n # 0 => n \in 1..N /\ n - 1 \in 0..N
      BY <1>1
    <3> QED
      BY <3>1
  <2> QED
    BY <1>2, <2>1, <2>2
<1>6. IsFinding(f, text)
  BY <1>4, <1>5 DEF IsFinding, N
<1> QED
  BY <1>6

LEMMA MatchesFound == ASSUME NEW text PROVE Found(HandleMatches(text), Len(PLATFORM_KEYS), text)
<1> DEFINE N == Len(PLATFORM_KEYS)
           f == CHOOSE g : IsFinding(g, text)
<1>1. IsFinding(f, text)
  BY FindingExists
<1>2. HandleMatches(text) = f[N]
  BY DEF HandleMatches, IsFinding
<1>3. N \in Nat
  BY PlatformsListed
<1> HIDE DEF f
<1>4. \A n \in 0..N : f[n] = IF n = 0 THEN <<>> ELSE WithMatch(f[n - 1], PLATFORM_KEYS[n], text)
  BY <1>1 DEF IsFinding
<1> DEFINE Good == {n \in 0..N : Found(f[n], n, text)}
<1>5. 0 \in Good
  <2>1. Found(<<>>, 0, text)
    BY DEF Found, Matching
  <2>2. f[0] = <<>>
    BY <1>3, <1>4
  <2> QED
    BY <1>3, <2>1, <2>2
<1>6. ASSUME NEW k \in 1..N, k - 1 \in Good PROVE k \in Good
  <2>1. k \in 0..N /\ k # 0
    BY <1>3
  <2>2. f[k] = WithMatch(f[k - 1], PLATFORM_KEYS[k], text)
    BY <1>4, <2>1
  <2>3. Found(f[k - 1], k - 1, text)
    BY <1>6
  <2> QED
    BY <2>1, <2>2, <2>3, PlatformSearched
<1>7. N \in Good
  <2> HIDE DEF Good, N
  <2> QED
    BY <1>3, <1>5, <1>6, FromZeroTo
<1> QED
  BY <1>2, <1>7

\* The list is that of the text, each match with its own address or none.
Shows(list, text) ==
  /\ Len(list) \in Nat /\ list = [k \in 1..Len(list) |-> list[k]]
  /\ Matching(list, Len(PLATFORM_KEYS), text)
  /\ \A k \in DOMAIN list : list[k].address \in {<<>>, <<list[k].platform, list[k].handle>>}

SearchInv ==
  /\ searches \in Nat
  /\ \A run \in deriving :
       /\ run = [id |-> run.id, candidates |-> run.candidates]
       /\ run.id \in Nat /\ run.id <= searches
       /\ run.id = searches => run.candidates = HandleMatches(query)
  /\ Shows(matches, query) /\ Len(matches) = Len(HandleMatches(query))
  /\ active \in 0..Len(matches)
  /\ (\E match \in Range(matches) : match.status = "loading") => \E run \in deriving : run.id = searches

LEMMA MatchesShown == ASSUME NEW text PROVE Shows(HandleMatches(text), text)
BY MatchesFound DEF Found, Shows

LEMMA SearchHolds == SearchInv => SearchIsCurrent
<1> SUFFICES ASSUME SearchInv PROVE SearchIsCurrent
  OBVIOUS
<1>1. Shows(matches, query)
  BY DEF SearchInv
<1>2. DOMAIN PLATFORM_KEYS = 1..Len(PLATFORM_KEYS)
  BY PlatformsListed
<1>3. \A match \in Range(matches) : match.handle # "" /\ match.handle = HandleOf[<<match.platform, query>>]
  <2>1. \A match \in Range(matches) : IsMatch(match, query)
    BY <1>1 DEF Shows, Matching, Range
  <2> QED
    BY <2>1, Zenon DEF IsMatch, NoMatch
<1>4. ASSUME NEW p \in Range(PLATFORM_KEYS), HandleOf[<<p, query>>] # ""
      PROVE  \E match \in Range(matches) : match.platform = p
  <2>1. PICK i \in 1..Len(PLATFORM_KEYS) : p = PLATFORM_KEYS[i]
    BY <1>2 DEF Range
  <2>2. PICK k \in DOMAIN matches : matches[k].platform = p
    BY <1>1, <1>4, <2>1 DEF Shows, Matching, NoMatch
  <2> QED
    BY <2>2 DEF Range
<1>5. \A n \in DOMAIN matches : \A m \in 1..(n - 1) :
        \E j \in DOMAIN PLATFORM_KEYS : \E i \in 1..(j - 1) :
          PLATFORM_KEYS[i] = matches[m].platform /\ PLATFORM_KEYS[j] = matches[n].platform
  BY <1>1, <1>2 DEF Shows, Matching
<1>6. \A match \in Range(matches) : match.address \in {<<>>, <<match.platform, match.handle>>}
  BY <1>1 DEF Shows, Range
<1> QED
  BY <1>3, <1>4, <1>5, <1>6 DEF SearchInv, SearchIsCurrent

LEMMA SearchInitially == SearchInit => SearchInv
<1> SUFFICES ASSUME SearchInit PROVE SearchInv
  OBVIOUS
<1>1. query = NoMatch
  BY Zenon DEF SearchInit, NoMatch
<1>2. matches = <<>> /\ active = 0 /\ searches = 0 /\ deriving = {}
  BY Zenon DEF SearchInit
<1>3. Len(matches) = 0 /\ DOMAIN matches = {} /\ matches = [k \in 1..0 |-> matches[k]]
  BY <1>2, EmptyList
<1>4. Shows(matches, query)
  <2>1. Matching(matches, Len(PLATFORM_KEYS), query)
    BY <1>1, <1>3, NothingIsNoHandle DEF Matching
  <2> QED
    BY <1>3, <2>1 DEF Shows
<1>5. Len(HandleMatches(query)) = 0
  <2>1. PICK list : list = HandleMatches(query)
    OBVIOUS
  <2>2. Found(list, Len(PLATFORM_KEYS), query)
    BY <2>1, MatchesFound
  <2>3. ASSUME NEW k \in DOMAIN list PROVE FALSE
    <3>1. PICK i \in 1..Len(PLATFORM_KEYS) : PLATFORM_KEYS[i] = list[k].platform
      BY <2>2 DEF Found, Matching
    <3>2. list[k].handle # NoMatch /\ list[k].handle = HandleOf[<<list[k].platform, query>>]
      BY <2>2 DEF Found, Matching, IsMatch
    <3>3. HandleOf[<<PLATFORM_KEYS[i], NoMatch>>] = NoMatch
      BY NothingIsNoHandle
    <3> QED
      BY <1>1, <3>1, <3>2, <3>3
  <2>4. Len(list) \in Nat /\ DOMAIN list = 1..Len(list)
    BY <2>2 DEF Found
  <2>5. Len(list) # 0 => 1 \in DOMAIN list
    BY <2>4
  <2> QED
    BY <2>1, <2>3, <2>5
<1>6. Range(matches) = {}
  BY <1>3 DEF Range
<1>7. searches \in Nat /\ deriving = {} /\ active \in 0..Len(matches)
  BY <1>2, <1>3
<1> QED
  BY <1>3, <1>4, <1>5, <1>6, <1>7 DEF SearchInv

LEMMA SearchKeeps == ASSUME SearchInv, NEW text, Search(text) PROVE SearchInv'
<1>1. PICK list : list = HandleMatches(text)
  OBVIOUS
<1>2. PICK run : run = [id |-> searches + 1, candidates |-> list]
  OBVIOUS
<1>3. /\ searches' = searches + 1 /\ query' = text /\ active' = 0 /\ matches' = list
      /\ deriving' = deriving \union {run} /\ searches \in Nat
  BY <1>1, <1>2 DEF Search, SearchInv
<1>4. run = [id |-> run.id, candidates |-> run.candidates] /\ run.id = searches' /\ run.candidates = list
  BY <1>2, <1>3
<1>5. \A r \in deriving :
        r = [id |-> r.id, candidates |-> r.candidates] /\ r.id \in Nat /\ r.id <= searches' /\ r.id # searches'
  BY <1>3 DEF SearchInv
<1>6. Shows(list, text)
  BY <1>1, MatchesShown
<1>7. Shows(matches', query') /\ Len(matches') = Len(HandleMatches(query'))
  BY <1>1, <1>3, <1>6
<1>8. active' \in 0..Len(matches')
  BY <1>3, <1>6 DEF Shows
<1>9. \A r \in deriving' :
        /\ r = [id |-> r.id, candidates |-> r.candidates] /\ r.id \in Nat /\ r.id <= searches'
        /\ r.id = searches' => r.candidates = HandleMatches(query')
  BY <1>1, <1>3, <1>4, <1>5
<1> QED
  BY <1>3, <1>4, <1>7, <1>8, <1>9 DEF SearchInv

\* One match after its derivation
IsResolved(match, resolved) ==
  /\ resolved.platform = match.platform /\ resolved.handle = match.handle
  /\ resolved.address \in {<<>>, <<match.platform, match.handle>>}
  /\ resolved.status # "loading"

LEMMA EachResolved ==
  ASSUME NEW text, NEW p, NEW match, match = MatchOf(p, text), NEW factory \in BOOLEAN, NEW resolved,
         resolved = [match EXCEPT !.status = "error"] \/ resolved = Derived(match, factory)
  PROVE  IsResolved(match, resolved)
<1>1. PICK h : h = HandleOf[<<p, text>>]
  OBVIOUS
<1>2. match = [platform |-> p, handle |-> h, address |-> <<>>, status |-> "loading"]
  BY <1>1 DEF MatchOf
<1>3. CASE resolved = [match EXCEPT !.status = "error"]
  <2>1. /\ resolved.platform = p /\ resolved.handle = h /\ resolved.address = <<>>
        /\ resolved.status = "error"
    BY <1>2, <1>3
  <2> QED
    BY <1>2, <2>1 DEF IsResolved
<1>4. CASE resolved = Derived(match, factory)
  <2>1. PICK a : a = IF factory THEN <<match.platform, match.handle>> ELSE <<>>
    OBVIOUS
  <2>2. resolved = [match EXCEPT !.address = a, !.status = "ready"]
    BY <1>4, <2>1 DEF Derived
  <2>3. /\ resolved.platform = p /\ resolved.handle = h /\ resolved.address = a
        /\ resolved.status = "ready"
    BY <1>2, <2>2
  <2>4. a \in {<<>>, <<match.platform, match.handle>>}
    BY <2>1
  <2> QED
    BY <1>2, <2>3, <2>4 DEF IsResolved
<1> QED
  BY <1>3, <1>4

LEMMA OutcomeShown ==
  ASSUME NEW text, NEW run, run.candidates = HandleMatches(text), NEW factory \in BOOLEAN,
         NEW resolved \in Outcomes(run, factory)
  PROVE  /\ Shows(resolved, text) /\ Len(resolved) = Len(HandleMatches(text))
         /\ \A k \in DOMAIN resolved : resolved[k].status # "loading"
<1>1. PICK list : list = run.candidates
  OBVIOUS
<1>2. Found(list, Len(PLATFORM_KEYS), text) /\ Shows(list, text)
  BY <1>1, MatchesFound, MatchesShown
<1>3. DOMAIN list = 1..Len(list) /\ Len(list) \in Nat /\ list \in Seq(MatchesOf(text))
  BY <1>2 DEF Found
<1>4. PICK failing \in SUBSET DOMAIN list :
        resolved = [n \in DOMAIN list |-> IF n \in failing THEN [list[n] EXCEPT !.status = "error"]
                                          ELSE Derived(list[n], factory)]
  BY <1>1 DEF Outcomes
<1>5. ASSUME NEW k \in DOMAIN list PROVE IsResolved(list[k], resolved[k])
  <2>1. list[k] \in MatchesOf(text)
    BY <1>3
  <2>2. PICK p : list[k] = MatchOf(p, text)
    BY <2>1 DEF MatchesOf
  <2>3. resolved[k] \in {[list[k] EXCEPT !.status = "error"], Derived(list[k], factory)}
    BY <1>4
  <2> QED
    BY <2>2, <2>3, EachResolved
<1>6. /\ DOMAIN resolved = 1..Len(list) /\ Len(resolved) = Len(list)
      /\ resolved = [n \in 1..Len(list) |-> resolved[n]]
  <2>1. DOMAIN resolved = 1..Len(list)
    BY <1>3, <1>4
  <2>2. resolved = [n \in 1..Len(list) |-> resolved[n]]
    BY <1>3, <1>4
  <2> QED
    BY <1>3, <2>1, <2>2
<1>7. \A k \in DOMAIN resolved :
        /\ resolved[k].platform = list[k].platform /\ resolved[k].handle = list[k].handle
        /\ resolved[k].address \in {<<>>, <<resolved[k].platform, resolved[k].handle>>}
        /\ resolved[k].status # "loading"
  BY <1>3, <1>5, <1>6 DEF IsResolved
<1>8. Matching(resolved, Len(PLATFORM_KEYS), text)
  <2>1. DOMAIN resolved = DOMAIN list /\ \A k \in DOMAIN list : \A m \in 1..(k - 1) : m \in DOMAIN list
    BY <1>3, <1>6
  <2>2. Matching(list, Len(PLATFORM_KEYS), text)
    BY <1>2 DEF Found
  <2>3. \A k \in DOMAIN resolved : IsMatch(resolved[k], text) /\
          \E i \in 1..Len(PLATFORM_KEYS) : PLATFORM_KEYS[i] = resolved[k].platform
    BY <1>7, <2>1, <2>2 DEF Matching, IsMatch
  <2>4. \A i \in 1..Len(PLATFORM_KEYS) : HandleOf[<<PLATFORM_KEYS[i], text>>] # NoMatch =>
          \E k \in DOMAIN resolved : resolved[k].platform = PLATFORM_KEYS[i]
    BY <1>7, <2>1, <2>2 DEF Matching
  <2>5. \A k \in DOMAIN resolved : \A m \in 1..(k - 1) :
          \E j \in 1..Len(PLATFORM_KEYS) : \E i \in 1..(j - 1) :
            PLATFORM_KEYS[i] = resolved[m].platform /\ PLATFORM_KEYS[j] = resolved[k].platform
    BY <1>7, <2>1, <2>2 DEF Matching
  <2> QED
    BY <2>3, <2>4, <2>5 DEF Matching
<1> QED
  BY <1>1, <1>3, <1>6, <1>7, <1>8 DEF Shows

LEMMA ResolvedKeeps ==
  ASSUME SearchInv, NEW run \in deriving, NEW factory \in BOOLEAN,
         NEW resolved \in Outcomes(run, factory), Resolved(run, resolved)
  PROVE  SearchInv'
<1>1. /\ deriving' = deriving \ {run} /\ UNCHANGED <<query, open, active, searches>>
      /\ matches' = IF searches = run.id THEN resolved ELSE matches
  BY DEF Resolved
<1>2. \A r \in deriving' :
        /\ r = [id |-> r.id, candidates |-> r.candidates] /\ r.id \in Nat /\ r.id <= searches'
        /\ r.id = searches' => r.candidates = HandleMatches(query')
  BY <1>1 DEF SearchInv
<1>3. CASE searches = run.id
  <2>1. run.candidates = HandleMatches(query)
    BY <1>3 DEF SearchInv
  <2>2. /\ Shows(resolved, query) /\ \A k \in DOMAIN resolved : resolved[k].status # "loading"
    BY <2>1, OutcomeShown
  <2>3. /\ matches' = resolved /\ Shows(matches', query')
        /\ Len(matches') = Len(HandleMatches(query')) /\ Len(matches') = Len(matches)
    BY <1>1, <1>3, <2>1, <2>2, OutcomeShown DEF SearchInv
  <2>4. ~ \E match \in Range(matches') : match.status = "loading"
    BY <2>2, <2>3 DEF Range
  <2>5. active' \in 0..Len(matches')
    BY <1>1, <2>3 DEF SearchInv
  <2> QED
    BY <1>1, <1>2, <2>3, <2>4, <2>5 DEF SearchInv
<1>4. CASE searches # run.id
  <2>1. matches' = matches
    BY <1>1, <1>4
  <2>2. (\E match \in Range(matches') : match.status = "loading") => \E r \in deriving' : r.id = searches'
    BY <1>1, <1>4, <2>1 DEF SearchInv
  <2> QED
    BY <1>1, <1>2, <2>1, <2>2 DEF SearchInv
<1> QED
  BY <1>3, <1>4

\* The keyboard and the pointer move the marked entry.
LEMMA WalkingKeeps ==
  ASSUME SearchInv, UNCHANGED <<query, matches, searches, deriving>>, active' \in 0..Len(matches)
  PROVE  SearchInv'
BY DEF SearchInv

LEMMA ArrowStays ==
  ASSUME NEW n \in Nat \ {0}, NEW m \in 0..n
  PROVE  (m % n) + 1 \in 0..n /\ (m > 1 => m - 1 \in 0..n)
BY SMT

LEMMA SearchStep == SearchInv /\ [SearchNext]_searchVars => SearchInv'
<1> SUFFICES ASSUME SearchInv, [SearchNext]_searchVars PROVE SearchInv'
  OBVIOUS
<1>1. ASSUME NEW text \in Texts, Search(text) PROVE SearchInv'
  BY <1>1, SearchKeeps
<1>2. ASSUME NEW run \in deriving, NEW factory \in BOOLEAN, NEW resolved \in Outcomes(run, factory),
             Resolved(run, resolved)
      PROVE  SearchInv'
  BY <1>2, ResolvedKeeps
<1>3. active \in 0..Len(matches) /\ Len(matches) \in Nat /\ DOMAIN matches = 1..Len(matches)
  BY DEF SearchInv, Shows
<1>4. CASE Focus
  BY <1>3, <1>4, WalkingKeeps DEF Focus
<1>5. CASE Dismiss \/ Click
  BY <1>3, <1>5, WalkingKeeps DEF Dismiss, Click
<1>6. CASE SubmitForm
  <2>1. active' \in {0, active} /\ UNCHANGED <<query, matches, searches, deriving>>
    BY <1>6, Zenon DEF SubmitForm
  <2>2. active' \in 0..Len(matches)
    BY <1>3, <2>1
  <2> QED
    BY <2>1, <2>2, WalkingKeeps
<1>7. ASSUME NEW down \in BOOLEAN, Arrow(down) PROVE SearchInv'
  <2>1. Len(matches) # 0
    <3>1. matches # <<>>
      BY <1>7 DEF Arrow
    <3>2. matches = [k \in 1..Len(matches) |-> matches[k]]
      BY DEF SearchInv, Shows
    <3>3. ASSUME Len(matches) = 0 PROVE FALSE
      <4>1. 1..0 = {}
        OBVIOUS
      <4>2. DOMAIN matches = {}
        BY <3>2, <3>3, <4>1
      <4>3. matches = <<>>
        BY <3>2, <3>3
      <4> QED
        BY <3>1, <4>3
    <3> QED
      BY <3>3
  <2>2. PICK n \in Nat \ {0} : n = Len(matches)
    BY <1>3, <2>1
  <2>3. PICK m \in 0..n : m = active
    BY <1>3, <2>2
  <2>4. active' \in 0..Len(matches)
    <3>1. active' = IF down THEN (m % n) + 1 ELSE IF m <= 1 THEN n ELSE m - 1
      BY <1>7, <2>2, <2>3 DEF Arrow
    <3>2. (m % n) + 1 \in 0..n /\ (m > 1 => m - 1 \in 0..n) /\ n \in 0..n
      BY ArrowStays
    <3> QED
      BY <2>2, <3>1, <3>2
  <2> QED
    BY <1>7, <2>4, WalkingKeeps DEF Arrow
<1>8. CASE UNCHANGED searchVars
  BY <1>8 DEF searchVars, SearchInv
<1> QED
  BY <1>1, <1>2, <1>4, <1>5, <1>6, <1>7, <1>8 DEF SearchNext

-----------------------------------------------------------------------------
(* Lookups *)

\* What is no handle
NoHandle == ""

\* A run under way was started for what the form shows, if no later request came.
IsLookup(run) ==
  /\ run = [id |-> run.id, platform |-> run.platform, handle |-> run.handle]
  /\ run.id \in Nat /\ run.id <= requests /\ run.handle # NoHandle
  /\ run.id = requests =>
       run.platform = form.platform /\ run.handle = LookupHandle[<<form.platform, form.input>>]

IsForm(f) ==
  /\ f = [platform |-> f.platform, input |-> f.input, result |-> f.result,
          error |-> f.error, pending |-> f.pending, confirmed |-> f.confirmed]
  /\ f.pending \in BOOLEAN /\ f.confirmed \in BOOLEAN

LookupInv ==
  /\ requests \in Nat
  /\ IsForm(form)
  /\ \A run \in lookups : IsLookup(run)
  /\ \A run, other \in lookups : run.id = other.id => run = other
  /\ LookupIsCurrent

IsCleared(f, p, text) ==
  /\ IsForm(f) /\ f.platform = p /\ f.input = text /\ f.result = NoResult
  /\ f.pending = FALSE /\ f.confirmed = FALSE

LEMMA ClearedForm == \A p, text : IsCleared(Cleared(p, text), p, text)
BY DEF Cleared, IsForm, IsCleared

LEMMA LookupInitially == LookupInit => LookupInv
<1> SUFFICES ASSUME LookupInit PROVE LookupInv
  OBVIOUS
<1>1. PICK p \in LookupPlatforms : form = Cleared(p, "")
  BY DEF LookupInit
<1>2. requests = 0 /\ lookups = {}
  BY DEF LookupInit
<1>3. IsCleared(form, p, "")
  BY <1>1, ClearedForm
<1>4. LookupIsCurrent
  BY <1>2, <1>3 DEF IsCleared, LookupIsCurrent
<1> QED
  BY <1>2, <1>3, <1>4 DEF IsCleared, LookupInv

\* Typing and choosing a platform forget the request under way.
LEMMA ForgettingKeeps ==
  ASSUME LookupInv, NEW p, NEW text, requests' = requests + 1, form' = Cleared(p, text),
         UNCHANGED lookups
  PROVE  LookupInv'
<1> IsCleared(form', p, text)
  BY ClearedForm
<1>1. /\ IsForm(form') /\ form'.platform = p /\ form'.input = text /\ form'.result = NoResult
      /\ form'.pending = FALSE /\ form'.confirmed = FALSE
  BY DEF IsCleared
<1>2. \A run \in lookups' : IsLookup(run)' /\ run.id # requests'
  BY DEF LookupInv, IsLookup
<1>3. requests' \in Nat /\ \A run, other \in lookups' : run.id = other.id => run = other
  BY DEF LookupInv
<1>4. LookupIsCurrent'
  BY <1>1, <1>2 DEF LookupIsCurrent
<1> QED
  BY <1>1, <1>2, <1>3, <1>4 DEF LookupInv, IsForm

LEMMA LookupKeeps == ASSUME LookupInv, Lookup PROVE LookupInv'
<1> DEFINE handle == LookupHandle[<<form.platform, form.input>>]
           cleared == Cleared(form.platform, form.input)
<1>1. /\ IsForm(cleared) /\ cleared.platform = form.platform /\ cleared.input = form.input
      /\ cleared.result = NoResult /\ cleared.pending = FALSE /\ cleared.confirmed = FALSE
  <2>1. IsCleared(cleared, form.platform, form.input)
    BY ClearedForm
  <2> HIDE DEF cleared
  <2> QED
    BY <2>1 DEF IsCleared
<1>2. requests \in Nat /\ requests' = requests + 1
  BY DEF LookupInv, Lookup
<1>3. CASE handle = ""
  <2>1. form' = [cleared EXCEPT !.error = TRUE] /\ UNCHANGED lookups
    BY <1>3 DEF Lookup
  <2> HIDE DEF cleared, handle
  <2>2. /\ IsForm(form') /\ form'.platform = form.platform /\ form'.input = form.input
        /\ form'.result = NoResult /\ form'.pending = FALSE /\ form'.confirmed = FALSE
    BY <1>1, <2>1 DEF IsForm
  <2>3. \A run \in lookups' : IsLookup(run)' /\ run.id # requests'
    BY <1>2, <2>1 DEF LookupInv, IsLookup
  <2>4. LookupIsCurrent'
    BY <2>2, <2>3 DEF LookupIsCurrent
  <2>5. \A run, other \in lookups' : run.id = other.id => run = other
    BY <2>1 DEF LookupInv
  <2> QED
    BY <1>2, <2>2, <2>3, <2>4, <2>5 DEF LookupInv, IsForm
<1>4. CASE handle # ""
  <2>0. PICK made : made = [id |-> requests + 1, platform |-> form.platform, handle |-> handle]
    OBVIOUS
  <2>1. form' = [cleared EXCEPT !.pending = TRUE] /\ lookups' = lookups \union {made}
    BY <1>4, <2>0 DEF Lookup
  <2>2. /\ made = [id |-> made.id, platform |-> made.platform, handle |-> made.handle]
        /\ made.id = requests + 1 /\ made.platform = form.platform /\ made.handle = handle
    BY <2>0
  <2> HIDE DEF cleared
  <2>3. /\ IsForm(form') /\ form'.platform = form.platform /\ form'.input = form.input
        /\ form'.result = NoResult /\ form'.pending = TRUE /\ form'.confirmed = FALSE
    BY <1>1, <2>1 DEF IsForm
  <2>4. \A r \in lookups : IsLookup(r)' /\ r.id # requests'
    <3> SUFFICES ASSUME NEW r \in lookups PROVE IsLookup(r)' /\ r.id # requests'
      OBVIOUS
    <3>1. IsLookup(r)
      BY DEF LookupInv
    <3>2. r.id \in Nat /\ r.id <= requests' /\ r.id # requests'
      BY <1>2, <3>1 DEF IsLookup
    <3> QED
      BY <3>1, <3>2 DEF IsLookup
  <2>5. IsLookup(made)' /\ made.id = requests'
    <3>1. made.id = requests' /\ requests' \in Nat
      BY <1>2, <2>2
    <3>2. made.handle = LookupHandle[<<form'.platform, form'.input>>] /\ made.handle # NoHandle
      BY <1>4, <2>2, <2>3 DEF NoHandle
    <3>3. /\ made = [id |-> made.id, platform |-> made.platform, handle |-> made.handle]
          /\ made.platform = form'.platform
      BY <2>2, <2>3
    <3> QED
      BY <3>1, <3>2, <3>3 DEF IsLookup
  <2>6. \A r, other \in lookups' : r.id = other.id => r = other
    BY <2>1, <2>4, <2>5 DEF LookupInv
  <2>7. LookupIsCurrent'
    BY <2>1, <2>3, <2>5 DEF LookupIsCurrent
  <2>8. \A r \in lookups' : IsLookup(r)'
    BY <2>1, <2>4, <2>5
  <2> QED
    BY <1>2, <2>3, <2>6, <2>7, <2>8 DEF LookupInv, IsForm
<1> QED
  BY <1>3, <1>4

LEMMA LookupAnswerKeeps ==
  ASSUME LookupInv, NEW run \in lookups, NEW found \in BOOLEAN, LookupAnswer(run, found)
  PROVE  LookupInv'
<1>1. requests' = requests /\ lookups' = lookups \ {run} /\ requests \in Nat
  BY DEF LookupAnswer, LookupInv
<1>2. IsLookup(run) /\ IsForm(form) /\ LookupIsCurrent
  BY DEF LookupInv
<1>3. \A r \in lookups' : r # run /\ r \in lookups /\ IsLookup(r) /\ r.id # run.id
  BY <1>1 DEF LookupInv
<1>4. \A r, other \in lookups' : r.id = other.id => r = other
  BY <1>1 DEF LookupInv
<1>5. CASE requests # run.id
  <2>1. form' = form
    BY <1>5 DEF LookupAnswer
  <2>2. LookupIsCurrent'
    BY <1>1, <1>2, <1>5, <2>1 DEF LookupIsCurrent
  <2>3. \A r \in lookups' : IsLookup(r)'
    BY <1>1, <1>3, <2>1 DEF IsLookup
  <2> QED
    BY <1>1, <1>2, <1>4, <2>1, <2>2, <2>3 DEF LookupInv
<1>6. CASE requests = run.id
  <2> DEFINE result == [platform |-> run.platform, handle |-> run.handle]
  <2>1. result # NoResult
    <3>1. result.handle = run.handle /\ NoResult.handle = NoHandle
      BY DEF NoResult, NoHandle
    <3> HIDE DEF result
    <3> QED
      BY <1>2, <3>1 DEF IsLookup
  <2>2. run.platform = form.platform /\ run.handle = LookupHandle[<<form.platform, form.input>>]
    BY <1>2, <1>6 DEF IsLookup
  <2>3. form' = IF found THEN [form EXCEPT !.pending = FALSE, !.result = result]
                ELSE [form EXCEPT !.pending = FALSE, !.error = TRUE]
    BY <1>6 DEF LookupAnswer
  <2> HIDE DEF result
  <2>4. /\ IsForm(form') /\ form'.platform = form.platform /\ form'.input = form.input
        /\ form'.result \in {result, form.result} /\ form'.pending = FALSE
        /\ form'.confirmed = form.confirmed
    BY <1>2, <2>3 DEF IsForm
  <2>5. \A r \in lookups' : IsLookup(r)' /\ r.id # requests'
    BY <1>1, <1>3, <1>6, <2>4 DEF IsLookup
  <2>6. form'.result # NoResult =>
          form'.result = [platform |-> form'.platform, handle |-> LookupHandle[<<form'.platform, form'.input>>]]
    BY <1>2, <2>2, <2>4 DEF LookupIsCurrent, result
  <2>7. form'.confirmed => form'.result # NoResult
    BY <1>2, <2>1, <2>4 DEF LookupIsCurrent
  <2>8. LookupIsCurrent'
    BY <2>4, <2>5, <2>6, <2>7 DEF LookupIsCurrent
  <2> QED
    BY <1>1, <1>4, <2>4, <2>5, <2>8 DEF LookupInv, IsForm
<1> QED
  BY <1>5, <1>6

LEMMA ConfirmKeeps == ASSUME LookupInv, NEW yes \in BOOLEAN, Confirm(yes) PROVE LookupInv'
<1>1. form.result # NoResult /\ form' = [form EXCEPT !.confirmed = yes] /\ UNCHANGED <<requests, lookups>>
  BY DEF Confirm
<1>2. IsForm(form) /\ LookupIsCurrent
  BY DEF LookupInv
<1>3. /\ IsForm(form') /\ form'.platform = form.platform /\ form'.input = form.input
      /\ form'.result = form.result /\ form'.pending = form.pending
  BY <1>1, <1>2 DEF IsForm
<1>4. LookupIsCurrent'
  BY <1>1, <1>2, <1>3 DEF LookupIsCurrent
<1>5. \A r \in lookups' : IsLookup(r)'
  BY <1>1, <1>3 DEF IsLookup, LookupInv
<1> QED
  BY <1>1, <1>3, <1>4, <1>5 DEF LookupInv, IsForm

LEMMA LookupStep == LookupInv /\ [LookupNext]_lookupVars => LookupInv'
<1> SUFFICES ASSUME LookupInv, [LookupNext]_lookupVars PROVE LookupInv'
  OBVIOUS
<1>1. CASE \E p \in LookupPlatforms : SelectPlatform(p)
  BY <1>1, ForgettingKeeps DEF SelectPlatform
<1>2. CASE \E text \in Inputs : Typing(text)
  BY <1>2, ForgettingKeeps DEF Typing
<1>3. CASE Lookup
  BY <1>3, LookupKeeps
<1>4. CASE \E run \in lookups, found \in BOOLEAN : LookupAnswer(run, found)
  BY <1>4, LookupAnswerKeeps
<1>5. CASE \E yes \in BOOLEAN : Confirm(yes)
  BY <1>5, ConfirmKeeps
<1>6. CASE UNCHANGED lookupVars
  BY <1>6 DEF lookupVars, LookupInv, LookupIsCurrent, IsLookup, IsForm
<1> QED
  BY <1>1, <1>2, <1>3, <1>4, <1>5, <1>6 DEF LookupNext

-----------------------------------------------------------------------------
(* Lists of tokens *)

Named(entry) == [entry EXCEPT !.handle = LowerCase[ParsedHandle[<<entry.platform, entry.handle>>]]]

\* An entry is taken, unless its token is listed already.
Takes(entry, recipient) ==
  /\ tokenSchema(entry) /\ ParsedHandle[<<entry.platform, entry.handle>>] # ""
  /\ recipient \in {Everyone, <<Named(entry).platform, Named(entry).handle>>}
  /\ deriveP2ID(Named(entry).platform, Named(entry).handle) = Named(entry).paidTo

LEMMA ListedAs ==
  ASSUME NEW items, NEW entry, NEW recipient
  PROVE  Listed(items, entry, recipient) =
           IF Takes(entry, recipient) /\ \A item \in Range(items) : item.token # Named(entry).token
           THEN Append(items, Named(entry)) ELSE items
BY DEF Listed, Takes, Named

\* The first of those taken for its token
IsFirst(i, recipient) ==
  /\ Takes(answer[i], recipient)
  /\ \A j \in 1..(i - 1) : Takes(answer[j], recipient) => answer[j].token # answer[i].token

Entries == {Named(answer[i]) : i \in 1..Len(answer)}

\* Of the first n entries a list holds the first of each token, and no other.
ListsFirsts(list, n, recipient) ==
  /\ list \in Seq(Entries)
  /\ \A k \in DOMAIN list : \E i \in 1..n : IsFirst(i, recipient) /\ list[k] = Named(answer[i])
  /\ \A i \in 1..n : IsFirst(i, recipient) => \E k \in DOMAIN list : list[k] = Named(answer[i])
  /\ \A k, l \in DOMAIN list : list[k].token = list[l].token => k = l
  /\ \A i \in 1..n : Takes(answer[i], recipient) => \E k \in DOMAIN list : list[k].token = answer[i].token

AnswerShape ==
  /\ Len(answer) \in Nat /\ DOMAIN answer = 1..Len(answer)
  /\ \A i \in 1..Len(answer) :
       /\ Named(answer[i]).token = answer[i].token
       /\ Named(answer[i]).platform = answer[i].platform
       /\ Named(answer[i]).paidTo = answer[i].paidTo /\ answer[i].paidTo # NoP2ID
       /\ Named(answer[i]).handle =
            LowerCase[ParsedHandle[<<answer[i].platform, answer[i].handle>>]]
       /\ answer[i].platform \in Platforms =>
            <<answer[i].platform, answer[i].handle>> \in DOMAIN ParsedHandle

LEMMA AnswersHaveShape == answer \in IndexerAnswers => AnswerShape
<1> SUFFICES ASSUME answer \in IndexerAnswers PROVE AnswerShape
  OBVIOUS
<1>1. Len(answer) \in Nat /\ DOMAIN answer = 1..Len(answer)
  BY FeedAssumption
<1>2. ASSUME NEW i \in 1..Len(answer)
      PROVE  /\ {"token", "platform", "handle", "paidTo"} \subseteq DOMAIN answer[i]
             /\ answer[i].paidTo # NoP2ID
             /\ answer[i].platform \in Platforms =>
                  <<answer[i].platform, answer[i].handle>> \in DOMAIN ParsedHandle
  BY <1>1, FeedAssumption
<1>3. ASSUME NEW e, NEW h, {"token", "platform", "handle", "paidTo"} \subseteq DOMAIN e
      PROVE  LET f == [e EXCEPT !.handle = h]
             IN  f.token = e.token /\ f.platform = e.platform /\ f.paidTo = e.paidTo /\ f.handle = h
  BY <1>3
<1> QED
  BY <1>1, <1>2, <1>3 DEF AnswerShape, Named

LEMMA EntryListed ==
  ASSUME AnswerShape, NEW recipient, NEW n \in 1..Len(answer), NEW list,
         ListsFirsts(list, n - 1, recipient)
  PROVE  ListsFirsts(Listed(list, answer[n], recipient), n, recipient)
<1> DEFINE e == answer[n]
           m == Named(answer[n])
           longer == Listed(list, e, recipient)
<1>1. list \in Seq(Entries) /\ m \in Entries /\ m.token = e.token
  BY DEF ListsFirsts, Entries, AnswerShape
<1>2. DOMAIN list = 1..Len(list) /\ Len(list) \in Nat
  BY <1>1
<1>3. \A i \in 1..n : i # n => i \in 1..(n - 1) /\ Named(answer[i]).token = answer[i].token
  <2>1. n \in Nat /\ n <= Len(answer) /\ Len(answer) \in Nat
    BY DEF AnswerShape
  <2>2. \A i \in 1..n : i \in 1..Len(answer) /\ (i # n => i \in 1..(n - 1))
    BY <2>1
  <2> QED
    BY <2>2 DEF AnswerShape
<1>4. n \in Nat /\ n - 1 \in Nat /\ n \in 1..n /\ \A i \in 1..(n - 1) : i \in 1..n /\ i # n
  OBVIOUS
<1>5. CASE Takes(e, recipient) /\ \A item \in Range(list) : item.token # m.token
  <2>1. longer = Append(list, m)
    BY <1>5, ListedAs
  <2> HIDE DEF m, longer
  <2>2. /\ longer \in Seq(Entries) /\ Len(longer) = Len(list) + 1
        /\ \A k \in 1..Len(list) : longer[k] = list[k]
        /\ longer[Len(list) + 1] = m
        /\ DOMAIN longer = 1..(Len(list) + 1)
    BY <1>1, <2>1, AppendProperties
  <2>3. \A k \in DOMAIN list : list[k].token # m.token
    BY <1>5 DEF Range
  <2>4. IsFirst(n, recipient)
    <3>1. ASSUME NEW j \in 1..(n - 1), Takes(answer[j], recipient) PROVE answer[j].token # e.token
      BY <1>1, <2>3, <3>1 DEF ListsFirsts
    <3> QED
      BY <1>5, <3>1 DEF IsFirst
  <2>5. \A k \in DOMAIN longer : \E i \in 1..n : IsFirst(i, recipient) /\ longer[k] = Named(answer[i])
    <3> SUFFICES ASSUME NEW k \in DOMAIN longer
                 PROVE  \E i \in 1..n : IsFirst(i, recipient) /\ longer[k] = Named(answer[i])
      OBVIOUS
    <3>1. CASE k = Len(list) + 1
      BY <1>4, <2>2, <2>4, <3>1 DEF m
    <3>2. CASE k # Len(list) + 1
      <4>1. k \in DOMAIN list /\ longer[k] = list[k]
        BY <1>2, <2>2, <3>2
      <4> QED
        BY <1>4, <4>1 DEF ListsFirsts
    <3> QED
      BY <3>1, <3>2
  <2>6. \A k \in DOMAIN list : k \in DOMAIN longer /\ longer[k] = list[k]
    BY <1>2, <2>2
  <2>7. Len(list) + 1 \in DOMAIN longer /\ longer[Len(list) + 1] = m
    BY <1>2, <2>2
  <2>8. \A i \in 1..n : IsFirst(i, recipient) => \E k \in DOMAIN longer : longer[k] = Named(answer[i])
    <3> SUFFICES ASSUME NEW i \in 1..n, IsFirst(i, recipient)
                 PROVE  \E k \in DOMAIN longer : longer[k] = Named(answer[i])
      OBVIOUS
    <3>1. CASE i = n
      BY <2>7, <3>1 DEF m
    <3>2. CASE i # n
      BY <1>3, <2>6, <3>2 DEF ListsFirsts
    <3> QED
      BY <3>1, <3>2
  <2>9. \A k, l \in DOMAIN longer : longer[k].token = longer[l].token => k = l
    <3> SUFFICES ASSUME NEW k \in DOMAIN longer, NEW l \in DOMAIN longer,
                        longer[k].token = longer[l].token, k # l
                 PROVE  FALSE
      OBVIOUS
    <3>1. \A o \in DOMAIN longer : o # Len(list) + 1 => o \in DOMAIN list
      BY <1>2, <2>2
    <3>2. CASE k # Len(list) + 1 /\ l # Len(list) + 1
      BY <2>6, <3>1, <3>2 DEF ListsFirsts
    <3>3. CASE k = Len(list) + 1
      BY <2>3, <2>6, <2>7, <3>1, <3>3
    <3>4. CASE l = Len(list) + 1
      BY <2>3, <2>6, <2>7, <3>1, <3>4
    <3> QED
      BY <3>2, <3>3, <3>4
  <2>10. \A i \in 1..n : Takes(answer[i], recipient) =>
           \E k \in DOMAIN longer : longer[k].token = answer[i].token
    <3> SUFFICES ASSUME NEW i \in 1..n, Takes(answer[i], recipient)
                 PROVE  \E k \in DOMAIN longer : longer[k].token = answer[i].token
      OBVIOUS
    <3>1. CASE i = n
      BY <1>1, <2>7, <3>1
    <3>2. CASE i # n
      BY <1>3, <2>6, <3>2 DEF ListsFirsts
    <3> QED
      BY <3>1, <3>2
  <2>11. ListsFirsts(longer, n, recipient)
    BY <2>2, <2>5, <2>8, <2>9, <2>10 DEF ListsFirsts
  <2> QED
    BY <2>11 DEF longer
<1>6. CASE ~ (Takes(e, recipient) /\ \A item \in Range(list) : item.token # m.token)
  <2>1. longer = list
    BY <1>6, ListedAs
  <2>2. Takes(e, recipient) => \E k \in DOMAIN list : list[k].token = e.token
    BY <1>1, <1>6 DEF Range
  <2>3. ~ IsFirst(n, recipient)
    <3> SUFFICES ASSUME IsFirst(n, recipient) PROVE FALSE
      OBVIOUS
    <3>1. PICK k \in DOMAIN list : list[k].token = e.token
      BY <2>2 DEF IsFirst
    <3>2. PICK i \in 1..(n - 1) : IsFirst(i, recipient) /\ list[k] = Named(answer[i])
      BY DEF ListsFirsts
    <3>3. answer[i].token = e.token /\ Takes(answer[i], recipient)
      BY <1>3, <1>4, <3>1, <3>2 DEF IsFirst
    <3> QED
      BY <3>3 DEF IsFirst
  <2> HIDE DEF m, longer, e
  <2>4. /\ \A k \in DOMAIN list : \E i \in 1..n : IsFirst(i, recipient) /\ list[k] = Named(answer[i])
        /\ \A i \in 1..n : IsFirst(i, recipient) => \E k \in DOMAIN list : list[k] = Named(answer[i])
    BY <1>3, <1>4, <2>3 DEF ListsFirsts
  <2>5. \A i \in 1..n : Takes(answer[i], recipient) =>
          \E k \in DOMAIN list : list[k].token = answer[i].token
    BY <1>3, <2>2 DEF ListsFirsts, e
  <2>6. ListsFirsts(list, n, recipient)
    BY <1>1, <2>4, <2>5 DEF ListsFirsts
  <2> QED
    BY <2>1, <2>6 DEF longer, e
<1> QED
  BY <1>5, <1>6

IsListing(f, recipient) ==
  f = [n \in 0..Len(answer) |-> IF n = 0 THEN <<>> ELSE Listed(f[n - 1], answer[n], recipient)]

LEMMA ListingExists ==
  ASSUME AnswerShape, NEW recipient
  PROVE  \E f : IsListing(f, recipient)
<1> DEFINE N == Len(answer)
           A == Seq(Entries)
           step == [x \in A \X (1..N) |-> Listed(x[1], answer[x[2]], recipient)]
<1>1. N \in Nat /\ <<>> \in A
  BY DEF AnswerShape
<1>2. \A a \in A, n \in 1..N : step[<<a, n>>] = Listed(a, answer[n], recipient)
  OBVIOUS
<1>3. \A a \in A, n \in 1..N : Listed(a, answer[n], recipient) \in A
  <2> SUFFICES ASSUME NEW a \in A, NEW n \in 1..N PROVE Listed(a, answer[n], recipient) \in A
    OBVIOUS
  <2>1. Named(answer[n]) \in Entries
    BY DEF Entries
  <2>2. Append(a, Named(answer[n])) \in A
    BY <2>1, AppendProperties
  <2> QED
    BY <2>2, ListedAs
<1> HIDE DEF N, A, step
<1>4. PICK f \in [0..N -> A] : IsFolding(f, N, <<>>, step)
  <2>1. \A a \in A, n \in 1..N : step[<<a, n>>] \in A
    BY <1>2, <1>3
  <2> QED
    BY <1>1, <2>1, Folding
<1>5. ASSUME NEW n \in 0..N PROVE f[n] = IF n = 0 THEN <<>> ELSE Listed(f[n - 1], answer[n], recipient)
  <2>1. f[n] = IF n = 0 THEN <<>> ELSE step[<<f[n - 1], n>>]
    BY <1>4 DEF IsFolding
  <2>2. n # 0 => n \in 1..N /\ f[n - 1] \in A
    <3>1. n # 0 => n \in 1..N /\ n - 1 \in 0..N
      BY <1>1
    <3> QED
      BY <3>1
  <2> QED
    BY <1>2, <2>1, <2>2
<1>6. IsListing(f, recipient)
  BY <1>4, <1>5 DEF IsListing, N
<1> QED
  BY <1>6

LEMMA ListedFirsts ==
  ASSUME AnswerShape, NEW recipient
  PROVE  ListsFirsts(ListedOf(recipient), Len(answer), recipient)
<1> DEFINE N == Len(answer)
           f == CHOOSE g : IsListing(g, recipient)
<1>1. IsListing(f, recipient)
  BY ListingExists
<1>2. ListedOf(recipient) = f[N]
  BY DEF ListedOf, IsListing
<1>3. N \in Nat
  BY DEF AnswerShape
<1> HIDE DEF f
<1>4. \A n \in 0..N : f[n] = IF n = 0 THEN <<>> ELSE Listed(f[n - 1], answer[n], recipient)
  BY <1>1 DEF IsListing
<1> DEFINE Good == {n \in 0..N : ListsFirsts(f[n], n, recipient)}
<1>5. 0 \in Good
  <2>1. ListsFirsts(<<>>, 0, recipient)
    BY DEF ListsFirsts
  <2>2. f[0] = <<>>
    BY <1>3, <1>4
  <2> QED
    BY <1>3, <2>1, <2>2
<1>6. ASSUME NEW k \in 1..N, k - 1 \in Good PROVE k \in Good
  <2>1. k \in 0..N /\ k # 0
    BY <1>3
  <2>2. f[k] = Listed(f[k - 1], answer[k], recipient)
    BY <1>4, <2>1
  <2>3. ListsFirsts(f[k - 1], k - 1, recipient)
    BY <1>6
  <2> QED
    BY <2>1, <2>2, <2>3, EntryListed
<1>7. N \in Good
  <2> HIDE DEF Good, N
  <2> QED
    BY <1>3, <1>5, <1>6, FromZeroTo
<1> QED
  BY <1>2, <1>7

\* A page shows what is listed for whom it is about, beside the address derived for them.
PageShows ==
  /\ answer \in IndexerAnswers
  /\ page.feed.status = "ready" =>
       /\ site.api /\ ~ (Len(answer) > MaxItems)
       /\ ListsFirsts(page.feed.items, Len(answer), page.at)
       /\ page.at # Everyone => page.address = deriveP2ID(page.at[1], page.at[2])

LEMMA PageIsRouted == PageShows => FeedIsRouted
<1> SUFFICES ASSUME PageShows, page.feed.status = "ready"
             PROVE  FeedIsRouted
  BY DEF FeedIsRouted
<1> DEFINE shown == page.feed.items
<1>1. AnswerShape
  BY AnswersHaveShape DEF PageShows
<1>2. ListsFirsts(shown, Len(answer), page.at)
  BY DEF PageShows
<1>3. ASSUME NEW i \in 1..Len(answer), NEW recipient, Takes(answer[i], recipient)
      PROVE  LET item == Named(answer[i])
             IN  /\ item.paidTo = p2idAddress(site.factory, item.platform, item.handle)
                 /\ item.paidTo = deriveP2ID(item.platform, item.handle)
                 /\ Recipient(item) = <<item.platform, item.handle>>
                 /\ recipient \in {Everyone, Recipient(item)}
  <2> DEFINE item == Named(answer[i])
             asked == <<answer[i].platform, answer[i].handle>>
  <2>1. /\ item.platform = answer[i].platform /\ item.handle = LowerCase[ParsedHandle[asked]]
        /\ asked \in DOMAIN ParsedHandle /\ item.paidTo # NoP2ID
    BY <1>1, <1>3 DEF AnswerShape, Takes, tokenSchema
  <2>2. /\ deriveP2ID(item.platform, item.handle) = item.paidTo /\ ParsedHandle[asked] # ""
        /\ recipient \in {Everyone, <<item.platform, item.handle>>}
    BY <1>3 DEF Takes
  <2>3. LowerCase[ParsedHandle[<<asked[1], LowerCase[ParsedHandle[asked]]>>]] = LowerCase[ParsedHandle[asked]]
    BY <2>1, <2>2, FeedAssumption
  <2>4. asked[1] = item.platform
    BY <2>1
  <2> HIDE DEF item, asked
  <2>5. Recipient(item) = <<item.platform, item.handle>>
    BY <2>1, <2>3, <2>4 DEF Recipient
  <2>6. item.paidTo = p2idAddress(site.factory, item.platform, item.handle)
    BY <2>1, <2>2 DEF deriveP2ID
  <2> QED
    BY <2>2, <2>5, <2>6 DEF item
<1>4. ASSUME NEW item \in Range(shown)
      PROVE  /\ item.paidTo = p2idAddress(site.factory, item.platform, item.handle)
             /\ page.at # Everyone => page.at = Recipient(item) /\ page.address = item.paidTo
  <2>1. PICK i \in 1..Len(answer) : IsFirst(i, page.at) /\ item = Named(answer[i])
    BY <1>2 DEF ListsFirsts, Range
  <2>2. /\ item.paidTo = p2idAddress(site.factory, item.platform, item.handle)
        /\ item.paidTo = deriveP2ID(item.platform, item.handle)
        /\ Recipient(item) = <<item.platform, item.handle>>
        /\ page.at \in {Everyone, Recipient(item)}
    BY <1>3, <2>1 DEF IsFirst
  <2>3. page.at # Everyone => page.at[1] = item.platform /\ page.at[2] = item.handle
    BY <2>2
  <2> QED
    BY <2>2, <2>3 DEF PageShows
<1>5. \A m, n \in DOMAIN shown : shown[m].token = shown[n].token => m = n
  BY <1>2 DEF ListsFirsts
<1>6. ASSUME NEW entry \in Range(answer), Routed(entry), page.at \in {Everyone, Recipient(entry)}
      PROVE  \E item \in Range(shown) : item.token = entry.token
  <2>1. PICK i \in 1..Len(answer) : entry = answer[i]
    BY <1>1 DEF Range, AnswerShape
  <2>2. /\ Named(entry).platform = entry.platform /\ Named(entry).paidTo = entry.paidTo
        /\ Named(entry).handle = Recipient(entry)[2] /\ Recipient(entry)[1] = entry.platform
        /\ Recipient(entry) = <<entry.platform, Named(entry).handle>>
    BY <1>1, <2>1 DEF AnswerShape, Recipient
  <2>3. ParsedHandle[<<entry.platform, entry.handle>>] # ""
    BY <1>6, FeedAssumption DEF Routed, Recipient
  <2>4. Takes(entry, page.at)
    BY <1>6, <2>2, <2>3 DEF Takes, Routed
  <2>5. PICK k \in DOMAIN shown : shown[k].token = entry.token
    BY <1>2, <2>1, <2>4 DEF ListsFirsts
  <2> QED
    BY <2>5 DEF Range
<1>7. ASSUME page.at = Everyone, NEW item \in Range(shown)
      PROVE  item \in Range(getTokens(Recipient(item), TRUE).items)
  <2> DEFINE r == Recipient(item)
  <2>1. PICK i \in 1..Len(answer) : IsFirst(i, Everyone) /\ item = Named(answer[i])
    BY <1>2, <1>7 DEF ListsFirsts, Range
  <2>2. r = <<item.platform, item.handle>>
    BY <1>3, <2>1 DEF IsFirst
  <2>3. Takes(answer[i], r)
    BY <2>1, <2>2 DEF IsFirst, Takes
  <2>4. \A j \in 1..(i - 1) : Takes(answer[j], r) => Takes(answer[j], Everyone)
    BY DEF Takes
  <2>5. IsFirst(i, r)
    BY <2>1, <2>3, <2>4 DEF IsFirst
  <2>6. ListsFirsts(ListedOf(r), Len(answer), r)
    BY <1>1, ListedFirsts
  <2> HIDE DEF r
  <2>7. item \in Range(ListedOf(r))
    BY <2>1, <2>5, <2>6 DEF ListsFirsts, Range
  <2>8. getTokens(r, TRUE).items = ListedOf(r)
    BY DEF getTokens, PageShows
  <2> QED
    BY <2>7, <2>8 DEF r
<1> HIDE DEF shown
<1>8. \A entry \in Range(answer) : Routed(entry) /\ page.at \in {Everyone, Recipient(entry)} =>
        \E item \in Range(shown) : item.token = entry.token
  BY <1>6
<1>9. page.at = Everyone => \A item \in Range(shown) : item \in Range(getTokens(Recipient(item), TRUE).items)
  BY <1>7
<1> QED
  BY <1>4, <1>5, <1>8, <1>9 DEF FeedIsRouted, shown

LEMMA FeedInitially == FeedInit => PageShows
BY DEF FeedInit, PageShows, NoPage

LEMMA TokensGot ==
  ASSUME NEW recipient, NEW reached \in BOOLEAN, getTokens(recipient, reached).status = "ready"
  PROVE  /\ site.api /\ ~ (Len(answer) > MaxItems)
         /\ getTokens(recipient, reached).items = ListedOf(recipient)
BY DEF getTokens, demoFeed

LEMMA FirstsStay ==
  ASSUME UNCHANGED <<site, answer>>, NEW list, NEW n, NEW recipient, ListsFirsts(list, n, recipient)
  PROVE  ListsFirsts(list, n, recipient)'
<1>1. answer' = answer /\ site' = site
  OBVIOUS
<1>2. Entries' = Entries
  BY <1>1 DEF Entries
<1>3. \A e : Takes(e, recipient)' <=> Takes(e, recipient)
  BY <1>1 DEF Takes, deriveP2ID
<1>4. \A i : IsFirst(i, recipient)' <=> IsFirst(i, recipient)
  BY <1>1, <1>3 DEF IsFirst
<1>5. \A i : answer'[i] = answer[i]
  BY <1>1
<1> HIDE <1>1
<1>6. list \in Seq(Entries')
  BY <1>2 DEF ListsFirsts
<1>7. \A k \in DOMAIN list : \E i \in 1..n : IsFirst(i, recipient)' /\ list[k] = Named(answer[i])'
  BY <1>4, <1>5 DEF ListsFirsts
<1>8. \A i \in 1..n : IsFirst(i, recipient)' => \E k \in DOMAIN list : list[k] = Named(answer[i])'
  BY <1>4, <1>5 DEF ListsFirsts
<1>9. \A i \in 1..n : Takes(answer[i], recipient)' => \E k \in DOMAIN list : list[k].token = answer'[i].token
  BY <1>3, <1>5 DEF ListsFirsts
<1>10. \A k, l \in DOMAIN list : list[k].token = list[l].token => k = l
  BY DEF ListsFirsts
<1> QED
  BY <1>6, <1>7, <1>8, <1>9, <1>10 DEF ListsFirsts

\* The page says of its feed what there is to say of the indexer's answer.
IsPage(shown, recipient, address, reached) ==
  /\ shown = [at |-> recipient, address |-> address, feed |-> getTokens(recipient, reached)]
  /\ recipient # Everyone => address = deriveP2ID(recipient[1], recipient[2])

LEMMA ShowingKeeps ==
  ASSUME PageShows, UNCHANGED <<site, answer>>, NEW recipient, NEW address, NEW reached \in BOOLEAN,
         IsPage(page', recipient, address, reached)
  PROVE  PageShows'
<1>0. PICK tokens : tokens = getTokens(recipient, reached)
  OBVIOUS
<1>1. answer' = answer /\ site' = site /\ answer \in IndexerAnswers
  BY DEF PageShows
<1>2. PICK shown : shown = page'
  OBVIOUS
<1>3. shown.at = recipient /\ shown.address = address /\ shown.feed = tokens
  BY <1>0, <1>2 DEF IsPage
<1>4. ASSUME tokens.status = "ready"
      PROVE  /\ site.api /\ ~ (Len(answer) > MaxItems)
             /\ ListsFirsts(tokens.items, Len(answer), recipient)'
  <2>1. site.api /\ ~ (Len(answer) > MaxItems) /\ tokens.items = ListedOf(recipient)
    BY <1>0, <1>4, TokensGot
  <2>2. PICK list : list = ListedOf(recipient)
    OBVIOUS
  <2>3. ListsFirsts(list, Len(answer), recipient)
    BY <1>1, <2>2, AnswersHaveShape, ListedFirsts
  <2>4. PICK n : n = Len(answer)
    OBVIOUS
  <2>5. ListsFirsts(list, n, recipient)'
    BY <2>3, <2>4, FirstsStay
  <2> QED
    BY <1>1, <2>1, <2>2, <2>4, <2>5
<1>5. recipient # Everyone => address = deriveP2ID(recipient[1], recipient[2])'
  BY <1>1 DEF IsPage, deriveP2ID
<1> QED
  BY <1>1, <1>2, <1>3, <1>4, <1>5 DEF PageShows

LEMMA FeedStep == PageShows /\ [FeedNext]_feedVars => PageShows'
<1> SUFFICES ASSUME PageShows, [FeedNext]_feedVars PROVE PageShows'
  OBVIOUS
<1>1. CASE UNCHANGED feedVars
  <2>1. answer' = answer /\ site' = site /\ page' = page
    BY <1>1 DEF feedVars
  <2>2. PICK shown : shown = page
    OBVIOUS
  <2>3. PICK n : n = Len(answer)
    OBVIOUS
  <2>4. ListsFirsts(shown.feed.items, n, shown.at) => ListsFirsts(shown.feed.items, n, shown.at)'
    BY <2>1, FirstsStay
  <2>5. deriveP2ID(shown.at[1], shown.at[2])' = deriveP2ID(shown.at[1], shown.at[2])
    BY <2>1 DEF deriveP2ID
  <2> QED
    BY <2>1, <2>2, <2>3, <2>4, <2>5 DEF PageShows
<1>2. ASSUME NEW reached \in BOOLEAN, VisitHome(reached) PROVE PageShows'
  <2>1. page' = [at |-> Everyone, address |-> NoP2ID, feed |-> getTokens(Everyone, reached)]
    BY <1>2 DEF VisitHome, NoPage
  <2>2. IsPage(page', Everyone, NoP2ID, reached)
    BY <2>1 DEF IsPage
  <2> QED
    BY <1>2, <2>2, ShowingKeeps DEF VisitHome
<1>3. ASSUME NEW reached \in BOOLEAN, NEW platform, NEW text, Visit(platform, text, reached)
      PROVE  PageShows'
  <2> DEFINE normal == LowerCase[ParsedHandle[<<platform, text>>]]
             found == Resolve(platform, text)
  <2>1. UNCHANGED <<site, answer>>
    BY <1>3 DEF Visit
  <2>2. CASE found = NoPage
    <3>1. page' = NoPage
      BY <1>3, <2>2 DEF Visit
    <3> QED
      BY <2>1, <3>1 DEF PageShows, NoPage
  <2>3. CASE found # NoPage
    <3>1. found = [at |-> <<platform, normal>>, address |-> deriveP2ID(platform, normal), feed |-> NoPage.feed]
      BY <2>3 DEF Resolve, NoPage
    <3>2. page' = [found EXCEPT !.feed = getTokens(found.at, reached)]
      BY <1>3, <2>3 DEF Visit
    <3> HIDE DEF normal, found
    <3>3. page' = [at |-> <<platform, normal>>, address |-> deriveP2ID(platform, normal),
                   feed |-> getTokens(<<platform, normal>>, reached)]
      BY <3>1, <3>2
    <3>4. PICK recipient, address : recipient = <<platform, normal>> /\ address = deriveP2ID(platform, normal)
      OBVIOUS
    <3>5. IsPage(page', recipient, address, reached)
      BY <3>3, <3>4 DEF IsPage
    <3> QED
      BY <2>1, <3>5, ShowingKeeps
  <2> QED
    BY <2>2, <2>3
<1> QED
  BY <1>1, <1>2, <1>3 DEF FeedNext

-----------------------------------------------------------------------------
(* Notifications *)

\* A request under way
IsStalk(r) ==
  /\ r = [id |-> r.id, contact |-> r.contact, at |-> r.at, ok |-> r.ok]
  /\ r.id \in Nat /\ r.id <= sends
  /\ ContactIn[r.contact] = r.contact
  /\ r.ok \in BOOLEAN

\* One that was answered with success did what it was asked for.
IsDone(r) ==
  /\ r.at # "route" /\ r.at # "form" => apiSet
  /\ r.ok = TRUE => apiSet /\ r.contact \in stalks

StalkInv ==
  /\ sends \in Nat /\ apiSet \in BOOLEAN
  /\ stalkForm = [contact |-> stalkForm.contact, kind |-> stalkForm.kind, asked |-> stalkForm.asked]
  /\ stalkForm.contact \in ContactTexts
  /\ \A r \in stalkRequests : IsStalk(r) /\ IsDone(r)
  /\ \A r, q \in stalkRequests : r.id = q.id => r = q
  /\ StalksAreKept

LEMMA StalkInitially == StalkInit => StalkInv
<1> SUFFICES ASSUME StalkInit PROVE StalkInv
  OBVIOUS
<1>1. stalkForm = [contact |-> "", kind |-> "idle", asked |-> ""]
  BY DEF StalkInit
<1>2. /\ stalkForm = [contact |-> stalkForm.contact, kind |-> stalkForm.kind, asked |-> stalkForm.asked]
      /\ stalkForm.contact = "" /\ stalkForm.kind = "idle"
  BY <1>1
<1>3. StalksAreKept
  BY <1>2 DEF StalksAreKept
<1> QED
  BY <1>2, <1>3, StalkAssumption DEF StalkInit, StalkInv

\* A request moves on.
LEMMA MovedKeeps ==
  ASSUME StalkInv, NEW r \in stalkRequests, NEW at, NEW ok \in BOOLEAN, Moved(r, at, ok),
         UNCHANGED <<stalkForm, sends, apiSet>>, stalks \subseteq stalks',
         at # "route" /\ at # "form" => apiSet,
         ok = TRUE => apiSet /\ r.contact \in stalks'
  PROVE  StalkInv'
<1>1. PICK q : q = [r EXCEPT !.at = at, !.ok = ok]
  OBVIOUS
<1>2. stalkRequests' = (stalkRequests \ {r}) \union {q}
  BY <1>1 DEF Moved
<1>3. IsStalk(r) /\ sends \in Nat /\ apiSet \in BOOLEAN
  BY DEF StalkInv
<1>4. /\ q = [id |-> q.id, contact |-> q.contact, at |-> q.at, ok |-> q.ok]
      /\ q.id = r.id /\ q.contact = r.contact /\ q.at = at /\ q.ok = ok
  <2>1. r = [id |-> r.id, contact |-> r.contact, at |-> r.at, ok |-> r.ok]
    BY <1>3 DEF IsStalk
  <2>2. q = [id |-> r.id, contact |-> r.contact, at |-> at, ok |-> ok]
    BY <1>1, <2>1, Zenon
  <2> QED
    BY <2>2
<1>5. IsStalk(q)'
  BY <1>3, <1>4 DEF IsStalk
<1>6. IsDone(q)'
  BY <1>3, <1>4 DEF IsDone
<1>7. \A p \in stalkRequests : IsStalk(p)' /\ IsDone(p)'
  <2>1. \A p \in stalkRequests : IsStalk(p)'
    BY DEF StalkInv, IsStalk
  <2>2. \A p \in stalkRequests : IsDone(p)'
    BY DEF StalkInv, IsDone
  <2> QED
    BY <2>1, <2>2
<1>8. \A p, o \in stalkRequests' : p.id = o.id => p = o
  BY <1>2, <1>4 DEF StalkInv
<1>9. StalksAreKept'
  <2>1. stalkForm'.kind = "ok" => apiSet' /\ stalkForm'.asked \in stalks'
    BY DEF StalkInv, StalksAreKept
  <2>2. ASSUME stalkForm'.kind = "sending"
        PROVE  \E p \in stalkRequests' : p.id = sends' /\ p.contact = stalkForm'.asked
    <3>1. PICK p \in stalkRequests : p.id = sends /\ p.contact = stalkForm.asked
      BY <2>2 DEF StalkInv, StalksAreKept
    <3> QED
      BY <1>2, <1>4, <3>1
  <2> QED
    BY <2>1, <2>2 DEF StalksAreKept
<1>10. \A p \in stalkRequests' : IsStalk(p)' /\ IsDone(p)'
  BY <1>2, <1>5, <1>6, <1>7
<1> QED
  BY <1>8, <1>9, <1>10 DEF StalkInv

LEMMA SubmitKeeps == ASSUME StalkInv, SubmitContact PROVE StalkInv'
<1> DEFINE contact == ContactIn[stalkForm.contact]
<1>1. /\ sends \in Nat /\ apiSet \in BOOLEAN /\ UNCHANGED <<stalks, apiSet>>
      /\ stalkForm.contact \in ContactTexts /\ ContactIn[contact] = contact
      /\ stalkForm = [contact |-> stalkForm.contact, kind |-> stalkForm.kind, asked |-> stalkForm.asked]
  BY StalkAssumption DEF StalkInv, SubmitContact
<1>2. CASE contact = ""
  <2>1. stalkForm' = [stalkForm EXCEPT !.kind = "error"] /\ UNCHANGED <<sends, stalkRequests>>
    BY <1>2 DEF SubmitContact
  <2>2. stalkForm' = [contact |-> stalkForm.contact, kind |-> "error", asked |-> stalkForm.asked]
    BY <1>1, <2>1
  <2>3. StalksAreKept'
    BY <2>2 DEF StalksAreKept
  <2>4. \A r \in stalkRequests' : IsStalk(r)' /\ IsDone(r)'
    BY <1>1, <2>1 DEF StalkInv, IsStalk, IsDone
  <2> QED
    BY <1>1, <2>1, <2>2, <2>3, <2>4 DEF StalkInv
<1>3. CASE contact # ""
  <2>1. PICK q : q = [id |-> sends + 1, contact |-> contact, at |-> "route", ok |-> FALSE]
    OBVIOUS
  <2>2. /\ stalkForm' = [stalkForm EXCEPT !.kind = "sending", !.asked = contact]
        /\ sends' = sends + 1 /\ stalkRequests' = stalkRequests \union {q}
    BY <1>3, <2>1 DEF SubmitContact
  <2>3. stalkForm' = [contact |-> stalkForm.contact, kind |-> "sending", asked |-> contact]
    BY <1>1, <2>2, Zenon
  <2> HIDE DEF contact
  <2>4. /\ q = [id |-> q.id, contact |-> q.contact, at |-> q.at, ok |-> q.ok]
        /\ q.id = sends + 1 /\ q.contact = contact /\ q.at = "route" /\ q.ok = FALSE
    BY <2>1
  <2>5. IsStalk(q)' /\ IsDone(q)'
    <3>1. IsStalk(q)'
      <4>1. q.ok \in BOOLEAN
        BY <2>4
      <4>2. q.id \in Nat /\ q.id <= sends'
        BY <1>1, <2>2, <2>4
      <4>3. ContactIn[q.contact] = q.contact
        BY <1>1, <2>4
      <4>4. q = [id |-> q.id, contact |-> q.contact, at |-> q.at, ok |-> q.ok]
        BY <2>4
      <4> QED
        BY <4>1, <4>2, <4>3, <4>4 DEF IsStalk
    <3>2. IsDone(q)'
      BY <2>4 DEF IsDone
    <3> QED
      BY <3>1, <3>2
  <2>6. \A r \in stalkRequests : IsStalk(r)' /\ IsDone(r)' /\ r.id # q.id
    <3> SUFFICES ASSUME NEW r \in stalkRequests PROVE IsStalk(r)' /\ IsDone(r)' /\ r.id # q.id
      OBVIOUS
    <3>1. IsStalk(r) /\ IsDone(r)
      BY DEF StalkInv
    <3>2. r.id # q.id /\ IsStalk(r)'
      BY <1>1, <2>2, <2>4, <3>1 DEF IsStalk
    <3> QED
      BY <1>1, <3>1, <3>2 DEF IsDone
  <2>7. StalksAreKept'
    <3>1. stalkForm'.kind = "sending" /\ stalkForm'.asked = contact
      BY <2>3
    <3>2. q \in stalkRequests' /\ q.id = sends' /\ q.contact = stalkForm'.asked
      BY <2>2, <2>4, <3>1
    <3> QED
      BY <3>1, <3>2 DEF StalksAreKept
  <2>8. \A r, p \in stalkRequests' : r.id = p.id => r = p
    BY <2>2, <2>6 DEF StalkInv
  <2>9. \A r \in stalkRequests' : IsStalk(r)' /\ IsDone(r)'
    BY <2>2, <2>5, <2>6
  <2>10. /\ stalkForm' = [contact |-> stalkForm'.contact, kind |-> stalkForm'.kind, asked |-> stalkForm'.asked]
         /\ stalkForm'.contact = stalkForm.contact
    BY <2>3
  <2>11. sends' \in Nat /\ apiSet' \in BOOLEAN
    BY <1>1, <2>2
  <2> QED
    BY <1>1, <2>7, <2>8, <2>9, <2>10, <2>11 DEF StalkInv
<1> QED
  BY <1>2, <1>3

LEMMA AnswerStalkKeeps ==
  ASSUME StalkInv, NEW r \in stalkRequests, AnswerStalk(r)
  PROVE  StalkInv'
<1>1. /\ stalkRequests' = stalkRequests \ {r} /\ UNCHANGED <<sends, stalks, apiSet>>
      /\ sends \in Nat /\ apiSet \in BOOLEAN /\ IsStalk(r) /\ IsDone(r)
  BY DEF AnswerStalk, StalkInv
<1>2. \A p \in stalkRequests' : IsStalk(p)' /\ IsDone(p)'
  BY <1>1 DEF StalkInv, IsStalk, IsDone
<1>3. \A p, q \in stalkRequests' : p.id = q.id => p = q
  BY <1>1 DEF StalkInv
<1>4. CASE stalkForm.kind = "sending" /\ r.id = sends
  <2>1. r.contact = stalkForm.asked
    <3>1. PICK p \in stalkRequests : p.id = sends /\ p.contact = stalkForm.asked
      BY <1>4 DEF StalkInv, StalksAreKept
    <3>2. p = r
      BY <1>4, <3>1 DEF StalkInv
    <3> QED
      BY <3>1, <3>2
  <2>2. PICK kind : kind = IF r.ok THEN "ok" ELSE "error"
    OBVIOUS
  <2>3. stalkForm' = [stalkForm EXCEPT !.kind = kind]
    BY <1>4, <2>2 DEF AnswerStalk
  <2>4. /\ stalkForm' = [contact |-> stalkForm.contact, kind |-> kind, asked |-> stalkForm.asked]
        /\ stalkForm.contact \in ContactTexts
    BY <2>3 DEF StalkInv
  <2>5. kind # "sending" /\ (kind = "ok" => r.ok = TRUE)
    BY <1>1, <2>2 DEF IsStalk
  <2>6. r.ok = TRUE => apiSet /\ r.contact \in stalks
    BY <1>1 DEF IsDone
  <2>7. StalksAreKept'
    BY <1>1, <2>1, <2>4, <2>5, <2>6 DEF StalksAreKept
  <2> QED
    BY <1>1, <1>2, <1>3, <2>4, <2>7 DEF StalkInv
<1>5. CASE ~ (stalkForm.kind = "sending" /\ r.id = sends)
  <2>1. stalkForm' = stalkForm
    BY <1>5 DEF AnswerStalk
  <2>2. StalksAreKept'
    BY <1>1, <1>5, <2>1 DEF StalkInv, StalksAreKept
  <2> QED
    BY <1>1, <1>2, <1>3, <2>1, <2>2 DEF StalkInv
<1> QED
  BY <1>4, <1>5

\* Only the form changes.
LEMMA FormKeeps ==
  ASSUME StalkInv, UNCHANGED <<sends, stalkRequests, stalks, apiSet>>, NEW contact \in ContactTexts, NEW kind,
         stalkForm' = [contact |-> contact, kind |-> kind, asked |-> stalkForm.asked],
         kind \in {"sending", "ok"} => kind = stalkForm.kind
  PROVE  StalkInv'
<1>1. \A r \in stalkRequests' : IsStalk(r)' /\ IsDone(r)'
  BY DEF StalkInv, IsStalk, IsDone
<1>2. StalksAreKept'
  BY DEF StalkInv, StalksAreKept
<1> QED
  BY <1>1, <1>2 DEF StalkInv

LEMMA StalkStep == StalkInv /\ [StalkNext]_stalkVars => StalkInv'
<1> SUFFICES ASSUME StalkInv, [StalkNext]_stalkVars PROVE StalkInv'
  OBVIOUS
<1>1. ASSUME NEW text \in ContactTexts, TypeContact(text) PROVE StalkInv'
  <2>1. stalkForm' = [contact |-> text, kind |-> stalkForm.kind, asked |-> stalkForm.asked]
    BY <1>1 DEF TypeContact, StalkInv
  <2> QED
    BY <1>1, <2>1, FormKeeps DEF TypeContact
<1>2. ASSUME BreakOff PROVE StalkInv'
  <2>1. /\ stalkForm' = [contact |-> stalkForm.contact, kind |-> "error", asked |-> stalkForm.asked]
        /\ stalkForm.contact \in ContactTexts
    BY <1>2 DEF BreakOff, StalkInv
  <2> QED
    BY <1>2, <2>1, FormKeeps DEF BreakOff
<1>3. ASSUME NEW r \in stalkRequests, PassOn(r) PROVE StalkInv'
  <2>1. CASE Moved(r, "form", FALSE)
    BY <1>3, <2>1, MovedKeeps DEF PassOn
  <2>2. CASE Moved(r, "api", FALSE) /\ apiSet
    BY <1>3, <2>2, MovedKeeps DEF PassOn
  <2> QED
    BY <1>3, <2>1, <2>2 DEF PassOn
<1>4. ASSUME NEW r \in stalkRequests, NEW eligible \in BOOLEAN, Register(r, eligible) PROVE StalkInv'
  <2>1. IsStalk(r) /\ IsDone(r) /\ r.at = "api"
    BY <1>4 DEF StalkInv, Register
  <2>2. apiSet
    BY <2>1 DEF IsDone
  <2>3. stalks \subseteq stalks' /\ (eligible = TRUE => r.contact \in stalks')
    BY <1>4, <2>1 DEF Register, IsStalk
  <2> QED
    BY <1>4, <2>2, <2>3, MovedKeeps DEF Register
<1>5. ASSUME NEW r \in stalkRequests, Report(r) PROVE StalkInv'
  <2>1. IsStalk(r) /\ IsDone(r)
    BY <1>5 DEF StalkInv
  <2>2. r.ok \in BOOLEAN /\ (r.ok = TRUE => apiSet /\ r.contact \in stalks)
    BY <2>1 DEF IsStalk, IsDone
  <2> QED
    BY <1>5, <2>2, MovedKeeps DEF Report
<1>6. ASSUME NEW r \in stalkRequests, Unreachable(r) PROVE StalkInv'
  BY <1>6, MovedKeeps DEF Unreachable
<1>7. CASE UNCHANGED stalkVars
  <2>1. \A r \in stalkRequests' : IsStalk(r)' /\ IsDone(r)'
    BY <1>7 DEF stalkVars, StalkInv, IsStalk, IsDone
  <2>2. StalksAreKept'
    BY <1>7 DEF stalkVars, StalkInv, StalksAreKept
  <2> QED
    BY <1>7, <2>1, <2>2 DEF stalkVars, StalkInv
<1> QED
  BY <1>1, <1>2, <1>3, <1>4, <1>5, <1>6, <1>7, SubmitKeeps, AnswerStalkKeeps DEF StalkNext

-----------------------------------------------------------------------------
\* What the explorer shows about a handle is true of that handle, for any platforms, handles and
\* answers of the indexer and however answers and visitors come: its parts run side by side.
THEOREM ExplorerStaysTrue ==
  SearchSpec /\ LookupSpec /\ FeedSpec /\ StalkSpec => []ExplorerIsTrue
<1>1. SearchInv /\ LookupInv /\ PageShows /\ StalkInv => ExplorerIsTrue
  BY SearchHolds, PageIsRouted DEF LookupInv, StalkInv, ExplorerIsTrue
<1>2. SearchSpec => []SearchInv
  BY SearchInitially, SearchStep, PTL DEF SearchSpec
<1>3. LookupSpec => []LookupInv
  BY LookupInitially, LookupStep, PTL DEF LookupSpec
<1>4. FeedSpec => []PageShows
  BY FeedInitially, FeedStep, PTL DEF FeedSpec
<1>5. StalkSpec => []StalkInv
  BY StalkInitially, StalkStep, PTL DEF StalkSpec
<1> QED
  BY <1>1, <1>2, <1>3, <1>4, <1>5, PTL

-----------------------------------------------------------------------------
(* Storage layouts.  Nested types are a recursion along the types a type is made of. *)

IsTable(t) ==
  /\ \A i \in DOMAIN t : DOMAIN t[i].parts \subseteq Nat /\ \A n \in DOMAIN t[i].parts : t[i].parts[n] \in DOMAIN t
  /\ \A S \in SUBSET DOMAIN t : S # {} =>
       \E i \in S : \A n \in DOMAIN t[i].parts : t[i].parts[n] \notin S

LEMMA TablesNest == ASSUME NEW t \in Tables PROVE IsTable(t)
<1>1. \A S \in SUBSET DOMAIN t : S # {} =>
        \E i \in S : \A n \in DOMAIN t[i].parts : t[i].parts[n] \notin S
  BY LayoutAssumption, Zenon
<1>2. \A i \in DOMAIN t : t[i].parts \in Seq(DOMAIN t)
  BY LayoutAssumption, Zenon
<1>3. \A s \in Seq(DOMAIN t) : DOMAIN s \subseteq Nat /\ \A n \in DOMAIN s : s[n] \in DOMAIN t
  OBVIOUS
<1> QED
  BY <1>1, <1>2, <1>3 DEF IsTable

\* A set with a type has the types it is made of.
Nested(t, S) == S \subseteq DOMAIN t /\ \A i \in S : \A n \in DOMAIN t[i].parts : t[i].parts[n] \in S

Node(t, h, f, i) == [is |-> h[i], of |-> [n \in DOMAIN t[i].parts |-> f[t[i].parts[n]]]]
Expands(t, h, S, f) == Nested(t, S) /\ \A i \in S : f[i] = Node(t, h, f, i)

LEMMA ExpandsOneWay ==
  ASSUME NEW t, IsTable(t), NEW h, NEW S, NEW f, Expands(t, h, S, f), NEW R, NEW g, Expands(t, h, R, g)
  PROVE  \A i \in S \cap R : f[i] = g[i]
<1> DEFINE Bad == {i \in S \cap R : f[i] # g[i]}
<1> SUFFICES ASSUME Bad # {} PROVE FALSE
  OBVIOUS
<1>1. Bad \in SUBSET DOMAIN t
  BY DEF Expands, Nested
<1>2. PICK i \in Bad : \A n \in DOMAIN t[i].parts : t[i].parts[n] \notin Bad
  <2> HIDE DEF Bad
  <2> QED
    BY <1>1 DEF IsTable
<1>3. \A n \in DOMAIN t[i].parts : f[t[i].parts[n]] = g[t[i].parts[n]]
  BY <1>2 DEF Expands, Nested
<1>4. Node(t, h, f, i) = Node(t, h, g, i)
  BY <1>3 DEF Node
<1>5. f[i] = Node(t, h, f, i) /\ g[i] = Node(t, h, g, i)
  BY <1>2 DEF Expands
<1> QED
  BY <1>2, <1>4, <1>5

Expandable(t, h) == {i \in DOMAIN t : \E S, f : i \in S /\ Expands(t, h, S, f)}
ExpandedAs(t, h, i) == CHOOSE x : \E S, f : i \in S /\ Expands(t, h, S, f) /\ x = f[i]

LEMMA ExpandedOnce ==
  ASSUME NEW t, IsTable(t), NEW h, NEW S, NEW f, Expands(t, h, S, f), NEW i \in S
  PROVE  ExpandedAs(t, h, i) = f[i]
<1>1. PICK x : x = ExpandedAs(t, h, i)
  OBVIOUS
<1>2. \E y : \E R, g : i \in R /\ Expands(t, h, R, g) /\ y = g[i]
  OBVIOUS
<1>3. \E R, g : i \in R /\ Expands(t, h, R, g) /\ x = g[i]
  BY <1>1, <1>2, Zenon DEF ExpandedAs
<1>4. PICK R, g : i \in R /\ Expands(t, h, R, g) /\ x = g[i]
  BY <1>3
<1>5. f[i] = g[i]
  BY <1>4, ExpandsOneWay
<1> QED
  BY <1>1, <1>4, <1>5

LEMMA ExpandableNested ==
  ASSUME NEW t, IsTable(t), NEW h
  PROVE  /\ Nested(t, Expandable(t, h))
         /\ \A i \in Expandable(t, h) :
              ExpandedAs(t, h, i) =
                [is |-> h[i], of |-> [n \in DOMAIN t[i].parts |-> ExpandedAs(t, h, t[i].parts[n])]]
<1>1. Expandable(t, h) \subseteq DOMAIN t
  BY DEF Expandable
<1>2. ASSUME NEW i \in Expandable(t, h)
      PROVE  /\ \A n \in DOMAIN t[i].parts : t[i].parts[n] \in Expandable(t, h)
             /\ ExpandedAs(t, h, i) =
                  [is |-> h[i], of |-> [n \in DOMAIN t[i].parts |-> ExpandedAs(t, h, t[i].parts[n])]]
  <2>1. PICK S, f : i \in S /\ Expands(t, h, S, f)
    BY DEF Expandable
  <2>2. \A n \in DOMAIN t[i].parts : t[i].parts[n] \in S
    BY <2>1 DEF Expands, Nested
  <2>3. \A n \in DOMAIN t[i].parts : t[i].parts[n] \in Expandable(t, h)
    BY <2>1, <2>2 DEF Expandable, Expands, Nested
  <2>4. \A n \in DOMAIN t[i].parts : ExpandedAs(t, h, t[i].parts[n]) = f[t[i].parts[n]]
    BY <2>1, <2>2, ExpandedOnce
  <2>5. ExpandedAs(t, h, i) = Node(t, h, f, i)
    BY <2>1, ExpandedOnce DEF Expands
  <2>6. Node(t, h, f, i) =
          [is |-> h[i], of |-> [n \in DOMAIN t[i].parts |-> ExpandedAs(t, h, t[i].parts[n])]]
    BY <2>4 DEF Node
  <2> QED
    BY <2>3, <2>5, <2>6
<1> QED
  BY <1>1, <1>2 DEF Nested

LEMMA AllExpandable == ASSUME NEW t, IsTable(t), NEW h PROVE Expandable(t, h) = DOMAIN t
<1> DEFINE Rest == DOMAIN t \ Expandable(t, h)
<1> SUFFICES ASSUME Rest # {} PROVE FALSE
  BY DEF Expandable
<1>1. PICK i \in Rest : \A n \in DOMAIN t[i].parts : t[i].parts[n] \notin Rest
  BY DEF IsTable
<1>2. i \in DOMAIN t /\ i \notin Expandable(t, h)
  BY <1>1
<1>3. \A n \in DOMAIN t[i].parts : t[i].parts[n] \in Expandable(t, h)
  BY <1>1, <1>2 DEF IsTable
<1> DEFINE S == Expandable(t, h) \union {i}
           last == [is |-> h[i], of |-> [n \in DOMAIN t[i].parts |-> ExpandedAs(t, h, t[i].parts[n])]]
           f == [j \in S |-> IF j = i THEN last ELSE ExpandedAs(t, h, j)]
<1>4. Nested(t, S)
  BY <1>2, <1>3, ExpandableNested DEF Nested
<1>5. f[i] = last /\ \A j \in Expandable(t, h) : f[j] = ExpandedAs(t, h, j)
  BY <1>2
<1> HIDE DEF f
<1>6. f[i] = Node(t, h, f, i)
  BY <1>3, <1>5 DEF Node
<1>7. ASSUME NEW j \in Expandable(t, h) PROVE f[j] = Node(t, h, f, j)
  <2>1. /\ ExpandedAs(t, h, j) =
             [is |-> h[j], of |-> [n \in DOMAIN t[j].parts |-> ExpandedAs(t, h, t[j].parts[n])]]
        /\ \A n \in DOMAIN t[j].parts : t[j].parts[n] \in Expandable(t, h)
    BY ExpandableNested DEF Nested
  <2>2. \A n \in DOMAIN t[j].parts : f[t[j].parts[n]] = ExpandedAs(t, h, t[j].parts[n])
    BY <1>5, <2>1
  <2> QED
    BY <1>5, <2>1, <2>2 DEF Node
<1>8. Expands(t, h, S, f) /\ i \in S
  BY <1>4, <1>6, <1>7 DEF Expands
<1> QED
  BY <1>2, <1>8 DEF Expandable

LEMMA ExpandedUnfolds ==
  ASSUME NEW t \in Tables, NEW h, NEW i \in DOMAIN t
  PROVE  Expanded(t, h)[i] = [is |-> h[i], of |-> [n \in DOMAIN t[i].parts |-> Expanded(t, h)[t[i].parts[n]]]]
<1> DEFINE IsExpanded(g) == g = [j \in DOMAIN t |-> Node(t, h, g, j)]
           f == [j \in DOMAIN t |-> ExpandedAs(t, h, j)]
<1>1. IsTable(t)
  BY TablesNest
<1>2. IsExpanded(f)
  <2>1. ASSUME NEW j \in DOMAIN t PROVE f[j] = Node(t, h, f, j)
    <3>0. /\ j \in Expandable(t, h) /\ f[j] = ExpandedAs(t, h, j)
          /\ \A n \in DOMAIN t[j].parts : t[j].parts[n] \in DOMAIN t
      BY <1>1, AllExpandable DEF IsTable
    <3>1. /\ f[j] = [is |-> h[j], of |-> [n \in DOMAIN t[j].parts |-> ExpandedAs(t, h, t[j].parts[n])]]
          /\ \A n \in DOMAIN t[j].parts : f[t[j].parts[n]] = ExpandedAs(t, h, t[j].parts[n])
      BY <1>1, <3>0, ExpandableNested
    <3> QED
      BY <3>1, Zenon DEF Node
  <2> QED
    BY <2>1
<1> DEFINE e == CHOOSE g : IsExpanded(g)
<1>3. IsExpanded(e)
  <2> HIDE DEF f, IsExpanded
  <2> QED
    BY <1>2
<1>4. Expanded(t, h) = e
  BY DEF Expanded, Node
<1> HIDE DEF e
<1>5. e[i] = Node(t, h, e, i)
  BY <1>3
<1> QED
  BY <1>4, <1>5 DEF Node

LEMMA TablesTyped ==
  ASSUME NEW t \in Tables, NEW i \in DOMAIN t
  PROVE  /\ t[i].bytes \in Nat
         /\ \A n \in DOMAIN t[i].parts : t[i].parts[n] \in DOMAIN t
         /\ t[i].parts = <<>> <=> DOMAIN t[i].parts = {}
<1>1. t[i].bytes \in Nat
  BY LayoutAssumption, Zenon
<1>2. t[i].parts \in Seq(DOMAIN t)
  BY LayoutAssumption, Zenon
<1>3. ASSUME NEW s \in Seq(DOMAIN t)
      PROVE  (\A n \in DOMAIN s : s[n] \in DOMAIN t) /\ (s = <<>> <=> DOMAIN s = {})
  <2>1. DOMAIN s = {} => s = <<>>
    BY EmptySeq
  <2> QED
    BY <2>1
<1> QED
  BY <1>1, <1>2, <1>3

\* What a type says of itself, to the checks and to the machine
Heading(type) == <<type.encoding, IF type.parts = <<>> THEN <<type.label, type.bytes>> ELSE <<>> >>
Machine(type) == <<IF type.parts = <<>> THEN type.label ELSE type.encoding, type.bytes>>

LEMMA CanonicalUnfolds ==
  ASSUME NEW layout, layout.table \in Tables, NEW i \in DOMAIN layout.table
  PROVE  canonicalType(layout, i) =
           [is |-> Heading(layout.table[i]),
            of |-> [n \in DOMAIN layout.table[i].parts |-> canonicalType(layout, layout.table[i].parts[n])]]
<1>1. PICK t \in Tables : t = layout.table
  OBVIOUS
<1>2. PICK h : h = [k \in DOMAIN t |-> Heading(t[k])]
  OBVIOUS
<1>3. \A k : canonicalType(layout, k) = Expanded(t, h)[k]
  BY <1>1, <1>2 DEF canonicalType, Heading
<1>4. Expanded(t, h)[i] = [is |-> h[i], of |-> [n \in DOMAIN t[i].parts |-> Expanded(t, h)[t[i].parts[n]]]]
  BY <1>1, ExpandedUnfolds
<1> QED
  BY <1>1, <1>2, <1>3, <1>4

LEMMA ShapeUnfolds ==
  ASSUME NEW t \in Tables, NEW i \in DOMAIN t
  PROVE  Shape(t, i) =
           [is |-> Machine(t[i]), of |-> [n \in DOMAIN t[i].parts |-> Shape(t, t[i].parts[n])]]
<1>1. PICK h : h = [k \in DOMAIN t |-> Machine(t[k])]
  OBVIOUS
<1>2. \A k : Shape(t, k) = Expanded(t, h)[k]
  BY <1>1 DEF Shape, Machine
<1>3. Expanded(t, h)[i] = [is |-> h[i], of |-> [n \in DOMAIN t[i].parts |-> Expanded(t, h)[t[i].parts[n]]]]
  BY ExpandedUnfolds
<1> QED
  BY <1>1, <1>2, <1>3

Alike(t, i, u, j) ==
  t[i].bytes = u[j].bytes /\ Packs(t[i]) = Packs(u[j]) /\ Shape(t, i) = Shape(u, j)

LEMMA MadeAlikeSized ==
  \A t, u \in Tables : \A i, j \in DOMAIN t : MadeAlike(t, i, u, j) => t[i].bytes = u[j].bytes
BY LayoutAssumption

\* One level, if the next is right
LEMMA AlikeFromParts ==
  ASSUME NEW t \in Tables, NEW u \in Tables, NEW i \in DOMAIN t, NEW j \in DOMAIN u,
         Heading(t[i]) = Heading(u[j]), DOMAIN t[i].parts = DOMAIN u[j].parts,
         \A n \in DOMAIN t[i].parts : Alike(t, t[i].parts[n], u, u[j].parts[n])
  PROVE  Alike(t, i, u, j)
<1>1. t[i].parts = <<>> <=> u[j].parts = <<>>
  BY TablesTyped
<1>2. t[i].encoding = u[j].encoding
  BY DEF Heading
<1>3. t[i].parts = <<>> => t[i].label = u[j].label /\ t[i].bytes = u[j].bytes
  BY <1>1 DEF Heading
<1>4. t[i].parts # <<>> => t[i].bytes = u[j].bytes
  <2> SUFFICES ASSUME t[i].parts # <<>> PROVE t[i].bytes = u[j].bytes
    OBVIOUS
  <2>1. MadeAlike(t, i, u, j)
    BY <1>2, Zenon DEF MadeAlike, Alike
  <2>2. i \in DOMAIN t /\ j \in DOMAIN t
    BY LayoutAssumption, Zenon
  <2> QED
    BY <2>1, <2>2, MadeAlikeSized
<1>5. Packs(t[i]) = Packs(u[j])
  BY <1>1, <1>2, Zenon DEF Packs
<1>6. Machine(t[i]) = Machine(u[j])
  BY <1>1, <1>2, <1>3, <1>4 DEF Machine
<1>7. Shape(t, i) = Shape(u, j)
  <2>1. \A n \in DOMAIN t[i].parts : Shape(t, t[i].parts[n]) = Shape(u, u[j].parts[n])
    BY Zenon DEF Alike
  <2> QED
    BY <1>6, <2>1, ShapeUnfolds
<1> QED
  BY <1>3, <1>4, <1>5, <1>7, Zenon DEF Alike

LEMMA SameTypes ==
  ASSUME NEW base, base.table \in Tables, NEW candidate, candidate.table \in Tables,
         NEW i \in DOMAIN base.table, NEW j \in DOMAIN candidate.table,
         canonicalType(base, i) = canonicalType(candidate, j)
  PROVE  Alike(base.table, i, candidate.table, j)
<1>1. PICK t \in Tables, u \in Tables : t = base.table /\ u = candidate.table
  OBVIOUS
<1> DEFINE Bad == {k \in DOMAIN t : \E l \in DOMAIN u :
                     canonicalType(base, k) = canonicalType(candidate, l) /\ ~ Alike(t, k, u, l)}
<1> SUFFICES ASSUME Bad # {} PROVE FALSE
  BY <1>1
<1>2. PICK k \in Bad : \A n \in DOMAIN t[k].parts : t[k].parts[n] \notin Bad
  <2> HIDE DEF Bad
  <2>1. Bad \in SUBSET DOMAIN t
    BY DEF Bad
  <2> QED
    BY <2>1, TablesNest DEF IsTable
<1>3. k \in DOMAIN t
  BY <1>2
<1>4. PICK l \in DOMAIN u : canonicalType(base, k) = canonicalType(candidate, l) /\ ~ Alike(t, k, u, l)
  BY <1>2
<1>5. [is |-> Heading(t[k]), of |-> [n \in DOMAIN t[k].parts |-> canonicalType(base, t[k].parts[n])]] =
      [is |-> Heading(u[l]), of |-> [n \in DOMAIN u[l].parts |-> canonicalType(candidate, u[l].parts[n])]]
  BY <1>1, <1>3, <1>4, CanonicalUnfolds
<1>6. Heading(t[k]) = Heading(u[l])
  BY <1>5
<1>7. [n \in DOMAIN t[k].parts |-> canonicalType(base, t[k].parts[n])] =
      [n \in DOMAIN u[l].parts |-> canonicalType(candidate, u[l].parts[n])]
  BY <1>5
<1>8. DOMAIN t[k].parts = DOMAIN u[l].parts
  BY <1>7
<1>9. ASSUME NEW n \in DOMAIN t[k].parts PROVE Alike(t, t[k].parts[n], u, u[l].parts[n])
  <2>1. canonicalType(base, t[k].parts[n]) = canonicalType(candidate, u[l].parts[n])
    BY <1>7, <1>8
  <2>2. t[k].parts[n] \in DOMAIN t /\ u[l].parts[n] \in DOMAIN u
    BY <1>3, <1>8, TablesTyped
  <2>3. t[k].parts[n] \notin Bad
    BY <1>2
  <2> QED
    BY <2>1, <2>2, <2>3
<1> QED
  BY <1>3, <1>4, <1>6, <1>8, <1>9, AlikeFromParts

LEMMA Dividing ==
  ASSUME NEW a \in Nat, NEW s \in Nat \ {0}
  PROVE  /\ (a \div s) * s + (a % s) = a /\ a \div s \in Nat /\ a % s \in Nat
         /\ ((a + s - 1) \div s) * s \in Nat /\ ((a + s - 1) \div s) * s >= a
OBVIOUS

\* Where a variable of a build begins, after those before it
Beginning(t, ids, n, before) ==
  IF Packs(t[ids[n]]) /\ t[ids[n]].bytes <= RoundUp(before) - before /\ Packs(t[ids[n - 1]])
  THEN before ELSE RoundUp(before)
EndBefore(t, ids, n, start) == IF n = 1 THEN 0 ELSE start + t[ids[n - 1]].bytes
IsPlacing(f, t, ids) ==
  f = [n \in 1..Len(ids) |-> Beginning(t, ids, n, EndBefore(t, ids, n, f[n - 1]))]

IsVariables(t, ids) == Len(ids) \in Nat /\ \A n \in 1..Len(ids) : ids[n] \in DOMAIN t

LEMMA BeginsLater ==
  ASSUME NEW t \in Tables, NEW ids, NEW n, NEW before \in Nat
  PROVE  Beginning(t, ids, n, before) \in Nat /\ before <= Beginning(t, ids, n, before)
<1>1. SlotBytes \in Nat \ {0}
  BY LayoutAssumption, Zenon
<1>2. RoundUp(before) \in Nat /\ before <= RoundUp(before)
  BY <1>1, Dividing DEF RoundUp
<1>3. PICK later : later = RoundUp(before)
  OBVIOUS
<1>4. Beginning(t, ids, n, before) \in {before, later}
  BY <1>3, Zenon DEF Beginning
<1> QED
  BY <1>2, <1>3, <1>4

LEMMA BeforeIsNat ==
  ASSUME NEW t \in Tables, NEW ids, IsVariables(t, ids), NEW n \in 1..Len(ids), NEW start \in Nat
  PROVE  EndBefore(t, ids, n, start) \in Nat
<1>1. n # 1 => n - 1 \in 1..Len(ids)
  BY DEF IsVariables
<1>2. n # 1 => t[ids[n - 1]].bytes \in Nat
  BY <1>1, TablesTyped DEF IsVariables
<1> QED
  BY <1>2 DEF EndBefore

LEMMA PlacingExists ==
  ASSUME NEW t \in Tables, NEW ids, IsVariables(t, ids)
  PROVE  \E f : IsPlacing(f, t, ids)
<1> DEFINE N == Len(ids)
           step == [x \in Nat \X (1..N) |-> Beginning(t, ids, x[2], EndBefore(t, ids, x[2], x[1]))]
<1>1. N \in Nat
  BY DEF IsVariables
<1>2. \A a \in Nat, n \in 1..N : step[<<a, n>>] = Beginning(t, ids, n, EndBefore(t, ids, n, a))
  OBVIOUS
<1>3. \A a \in Nat, n \in 1..N : step[<<a, n>>] \in Nat
  BY <1>2, BeginsLater, BeforeIsNat
<1> HIDE DEF step, N
<1>4. PICK g \in [0..N -> Nat] : IsFolding(g, N, 0, step)
  BY <1>1, <1>3, Folding
<1> DEFINE f == [n \in 1..N |-> g[n]]
<1>5. ASSUME NEW n \in 1..N PROVE f[n] = Beginning(t, ids, n, EndBefore(t, ids, n, f[n - 1]))
  <2>1. n \in 0..N /\ n # 0 /\ n - 1 \in 0..N /\ f[n] = g[n]
    BY <1>1
  <2>2. g[n] = step[<<g[n - 1], n>>] /\ g[n - 1] \in Nat
    BY <1>4, <2>1 DEF IsFolding
  <2>3. g[n] = Beginning(t, ids, n, EndBefore(t, ids, n, g[n - 1]))
    BY <1>2, <2>2
  <2>4. n # 1 => f[n - 1] = g[n - 1]
    BY <1>1
  <2>5. EndBefore(t, ids, n, g[n - 1]) = EndBefore(t, ids, n, f[n - 1])
    BY <2>4 DEF EndBefore
  <2> QED
    BY <2>1, <2>3, <2>5
<1>6. IsPlacing(f, t, ids)
  BY <1>5 DEF IsPlacing, N
<1> QED
  BY <1>6

\* Each variable begins where the ones before it have ended, or later.
Apart(start, t, ids) ==
  \A n \in 1..Len(ids) :
    start[n] \in Nat /\ \A m \in 1..(n - 1) : start[m] \in Nat /\ start[m] + t[ids[m]].bytes <= start[n]

LEMMA PlacedApart ==
  ASSUME NEW t \in Tables, NEW ids, IsVariables(t, ids)
  PROVE  Apart(Place(t, ids), t, ids)
<1> DEFINE f == CHOOSE g : IsPlacing(g, t, ids)
<1>1. IsPlacing(f, t, ids)
  BY PlacingExists
<1>2. Place(t, ids) = f
  BY DEF Place, IsPlacing, Beginning, EndBefore
<1> HIDE DEF f
<1>3. \A n \in 1..Len(ids) : f[n] = Beginning(t, ids, n, EndBefore(t, ids, n, f[n - 1]))
  BY <1>1 DEF IsPlacing
<1>4. Len(ids) \in Nat
  BY DEF IsVariables
<1> DEFINE Good == {n \in 1..Len(ids) :
                      /\ f[n] \in Nat
                      /\ \A m \in 1..(n - 1) : f[m] \in Nat /\ f[m] + t[ids[m]].bytes <= f[n]}
<1>5. 1 \in 1..Len(ids) => 1 \in Good
  <2> SUFFICES ASSUME 1 \in 1..Len(ids) PROVE 1 \in Good
    OBVIOUS
  <2>1. f[1] = Beginning(t, ids, 1, 0)
    BY <1>3 DEF EndBefore
  <2>2. f[1] \in Nat
    BY <2>1, BeginsLater
  <2> QED
    BY <2>2
<1>6. ASSUME NEW k \in 1..Len(ids), k # Len(ids), k \in Good PROVE k + 1 \in Good
  <2>1. k + 1 \in 1..Len(ids) /\ k + 1 # 1 /\ (k + 1) - 1 = k /\ k \in 1..Len(ids)
    BY <1>4, <1>6
  <2>2. f[k] \in Nat /\ t[ids[k]].bytes \in Nat
    BY <1>6, <2>1, TablesTyped DEF IsVariables
  <2>3. PICK before \in Nat : before = f[k] + t[ids[k]].bytes
    BY <2>2
  <2>4. f[k + 1] = Beginning(t, ids, k + 1, before)
    BY <1>3, <2>1, <2>3 DEF EndBefore
  <2>5. f[k + 1] \in Nat /\ before <= f[k + 1]
    BY <2>4, BeginsLater
  <2>6. ASSUME NEW m \in 1..k PROVE f[m] \in Nat /\ f[m] + t[ids[m]].bytes <= f[k + 1]
    <3>1. CASE m = k
      BY <2>2, <2>3, <2>5, <3>1
    <3>2. CASE m # k
      <4>1. m \in 1..(k - 1) /\ m \in 1..Len(ids)
        BY <1>4, <3>2
      <4>2. f[m] \in Nat /\ f[m] + t[ids[m]].bytes <= f[k] /\ t[ids[m]].bytes \in Nat
        BY <1>6, <4>1, TablesTyped DEF IsVariables
      <4> QED
        BY <2>2, <2>3, <2>5, <4>2
    <3> QED
      BY <3>1, <3>2
  <2> QED
    BY <2>1, <2>5, <2>6
<1>7. ASSUME NEW n \in 1..Len(ids) PROVE n \in Good
  <2> HIDE DEF Good
  <2>1. n \in Nat \ {0} /\ 1 \in 1..Len(ids) /\ \A k \in 1..n : k # n => k \in 1..Len(ids) /\ k # Len(ids)
    BY <1>4
  <2> QED
    BY <1>5, <1>6, <2>1, FromOneTo
<1> QED
  BY <1>2, <1>7 DEF Apart

-----------------------------------------------------------------------------
WellPlaced(layout) ==
  /\ layout.table \in Tables
  /\ \A v \in layout.storage : v.type \in DOMAIN layout.table
  /\ \A v, w \in layout.storage : \A b \in BytesOf(layout, v) : b \in BytesOf(layout, w) => v = w

LEMMA TablesAgree == \A t, u \in Tables : DOMAIN t = DOMAIN u
BY LayoutAssumption, Zenon

LEMMA BuildsPlaced == ASSUME NEW most \in Nat, NEW layout \in Builds(most) PROVE WellPlaced(layout)
<1>0. PICK t \in Tables, ids \in UNION {[1..n -> DOMAIN (CHOOSE u \in Tables : TRUE)] : n \in 0..most} :
        layout = Layout(t, ids)
  BY DEF Builds
<1>1. PICK n \in 0..most : ids \in [1..n -> DOMAIN (CHOOSE u \in Tables : TRUE)]
  BY <1>0
<1>2. DOMAIN (CHOOSE u \in Tables : TRUE) = DOMAIN t
  <2>1. PICK u \in Tables : u = CHOOSE w \in Tables : TRUE
    OBVIOUS
  <2>2. DOMAIN u = DOMAIN t
    BY TablesAgree
  <2> QED
    BY <2>1, <2>2
<1>3. n \in Nat /\ ids \in [1..n -> DOMAIN t]
  BY <1>1, <1>2
<1>4. Len(ids) = n
  BY <1>3
<1>5. IsVariables(t, ids)
  BY <1>3, <1>4 DEF IsVariables
<1>6. PICK start : start = Place(t, ids)
  OBVIOUS
<1>7. Apart(start, t, ids)
  BY <1>5, <1>6, PlacedApart
<1> DEFINE var(i) == [slot |-> start[i] \div SlotBytes, offset |-> start[i] % SlotBytes, type |-> ids[i]]
<1>8. layout.table = t /\ layout.storage = {var(i) : i \in 1..n}
  BY <1>0, <1>4, <1>6 DEF Layout
<1>9. ASSUME NEW i \in 1..n
      PROVE  /\ var(i).type = ids[i] /\ ids[i] \in DOMAIN t /\ t[ids[i]].bytes \in Nat /\ start[i] \in Nat
             /\ BytesOf(layout, var(i)) = start[i]..(start[i] + t[ids[i]].bytes - 1)
  <2>1. start[i] \in Nat /\ ids[i] \in DOMAIN t
    BY <1>3, <1>4, <1>7 DEF Apart
  <2>2. SlotBytes \in Nat \ {0}
    BY LayoutAssumption, Zenon
  <2>3. var(i).slot * SlotBytes + var(i).offset = start[i]
    BY <2>1, <2>2, Dividing
  <2>4. var(i).type = ids[i]
    OBVIOUS
  <2> HIDE DEF var
  <2> QED
    BY <1>8, <2>1, <2>3, <2>4, TablesTyped DEF BytesOf
<1> HIDE DEF var
<1>10. ASSUME NEW i \in 1..n, NEW j \in 1..n, NEW b \in BytesOf(layout, var(i)), b \in BytesOf(layout, var(j))
       PROVE  i = j
  <2>1. \A k, l \in 1..n : k < l => start[k] + t[ids[k]].bytes <= start[l]
    BY <1>3, <1>4, <1>7 DEF Apart
  <2>2. b \in start[i]..(start[i] + t[ids[i]].bytes - 1) /\ b \in start[j]..(start[j] + t[ids[j]].bytes - 1)
    BY <1>9, <1>10
  <2>3. PICK p \in Nat, q \in Nat, x \in Nat, y \in Nat :
          p = start[i] /\ q = start[j] /\ x = t[ids[i]].bytes /\ y = t[ids[j]].bytes
    BY <1>9
  <2>4. (i < j => p + x <= q) /\ (j < i => q + y <= p)
    BY <2>1, <2>3
  <2>5. b \in p..(p + x - 1) /\ b \in q..(q + y - 1)
    BY <2>2, <2>3
  <2>6. ~ (i < j) /\ ~ (j < i)
    BY <2>4, <2>5
  <2> QED
    BY <2>6
<1> QED
  BY <1>8, <1>9, <1>10 DEF WellPlaced

\* What compareLayouts finds of each variable of the base in a candidate
Continues(base, candidate) ==
  \A v \in base.storage : \E c \in candidate.storage :
    SamePosition(v, c) /\ canonicalType(candidate, c.type) = canonicalType(base, v.type)

LayoutInv ==
  /\ WellPlaced(snapshot) /\ WellPlaced(current) /\ Continues(snapshot, current)
  /\ \A vault \in vaults : WellPlaced(vault) /\ Continues(snapshot, vault)
  /\ \A vault, other \in vaults : vault = other

LEMMA ContinuesItself == \A layout : Continues(layout, layout)
BY DEF Continues, SamePosition

LEMMA ContinuedIsRead ==
  ASSUME NEW base, WellPlaced(base), NEW vault, WellPlaced(vault), Continues(base, vault),
         NEW old \in Reads(base)
  PROVE  Means(Reads(vault), old)
<1>1. PICK v \in base.storage : \E b \in BytesOf(base, v) : old = <<b, v.slot, v.offset, Shape(base.table, v.type)>>
  BY DEF Reads
<1>2. PICK b \in BytesOf(base, v) : old = <<b, v.slot, v.offset, Shape(base.table, v.type)>>
  BY <1>1
<1>3. PICK c \in vault.storage :
        v.slot = c.slot /\ v.offset = c.offset /\ canonicalType(base, v.type) = canonicalType(vault, c.type)
  BY DEF Continues, SamePosition
<1>4. Alike(base.table, v.type, vault.table, c.type)
  BY <1>3, SameTypes DEF WellPlaced
<1>5. BytesOf(vault, c) = BytesOf(base, v) /\ Shape(vault.table, c.type) = Shape(base.table, v.type)
  BY <1>3, <1>4 DEF Alike, BytesOf
<1>6. old \in Reads(vault) /\ old[1] = b
  BY <1>2, <1>3, <1>5 DEF Reads
<1>7. ASSUME NEW r \in Reads(vault), r[1] = b PROVE r = old
  <2>1. PICK w \in vault.storage : \E a \in BytesOf(vault, w) : r = <<a, w.slot, w.offset, Shape(vault.table, w.type)>>
    BY DEF Reads
  <2>2. PICK a \in BytesOf(vault, w) : r = <<a, w.slot, w.offset, Shape(vault.table, w.type)>>
    BY <2>1
  <2>3. a = b
    BY <1>7, <2>2
  <2>4. w = c
    BY <1>3, <1>5, <2>2, <2>3 DEF WellPlaced
  <2> QED
    BY <1>2, <1>3, <1>5, <2>2, <2>3, <2>4
<1> QED
  BY <1>6, <1>7 DEF Means

\* What the build reads alone, whatever continues the build reads so.
LEMMA StillRead ==
  ASSUME NEW built, WellPlaced(built), NEW vault, WellPlaced(vault), Continues(built, vault),
         NEW r, Means(Reads(built), r)
  PROVE  Means(Reads(vault), r)
<1>1. r \in Reads(built)
  BY DEF Means
<1> QED
  BY <1>1, ContinuedIsRead

LEMMA LayoutInitially == LayoutInit => LayoutInv
<1>1. MaxBase \in Nat /\ MaxVariables \in Nat
  BY LayoutAssumption, Zenon
<1> QED
  BY <1>1, BuildsPlaced, ContinuesItself DEF LayoutInit, LayoutInv

LEMMA UpgradeContinues ==
  ASSUME NEW layout \in Sources, NEW proper \in BOOLEAN, Upgrade([layout |-> layout, proper |-> proper])
  PROVE  WellPlaced(layout) /\ Continues(snapshot, layout) /\ Continues(current, layout)
<1>1. WellPlaced(layout)
  BY LayoutAssumption, BuildsPlaced DEF Sources
<1>2. Continues(snapshot, layout) /\ Continues(current, layout)
  BY DEF Upgrade, Accepted, validateImplementation, compareLayouts, Continues
<1> QED
  BY <1>1, <1>2

LEMMA LayoutKept == LayoutInv /\ [LayoutNext]_layoutVars => LayoutInv'
<1> SUFFICES ASSUME LayoutInv, [LayoutNext]_layoutVars PROVE LayoutInv'
  OBVIOUS
<1>1. ASSUME NEW build \in Sources, Change(build) PROVE LayoutInv'
  <2>1. WellPlaced(build) /\ Continues(snapshot, build)
    BY <1>1, LayoutAssumption, BuildsPlaced DEF Sources, Change, compareLayouts, Continues
  <2> QED
    BY <1>1, <2>1 DEF Change, LayoutInv
<1>2. CASE Update
  BY <1>2, ContinuesItself DEF Update, LayoutInv
<1>3. CASE DeployBase
  BY <1>3 DEF DeployBase, LayoutInv
<1>4. ASSUME NEW layout \in Sources, NEW proper \in BOOLEAN, Upgrade([layout |-> layout, proper |-> proper])
      PROVE  LayoutInv'
  BY <1>4, UpgradeContinues DEF Upgrade, LayoutInv
<1>5. CASE UNCHANGED layoutVars
  BY <1>5 DEF layoutVars, LayoutInv
<1> QED
  BY <1>1, <1>2, <1>3, <1>4, <1>5 DEF LayoutNext

\* What the build and the vault agree on, the next vault reads too.
LEMMA AgreedIsKept ==
  ASSUME LayoutInv, LayoutInv', [LayoutNext]_layoutVars, NEW new \in vaults', NEW old \in vaults,
         NEW r \in Reads(old), Means(Reads(current), r)
  PROVE  Means(Reads(new), r)
<1>1. CASE vaults' = vaults
  <2>1. new = old /\ WellPlaced(old)
    BY <1>1 DEF LayoutInv
  <2> QED
    BY <2>1, ContinuesItself, ContinuedIsRead
<1>2. CASE DeployBase
  <2>1. new = current
    BY <1>2 DEF DeployBase
  <2> QED
    BY <2>1
<1>3. ASSUME NEW layout \in Sources, NEW proper \in BOOLEAN, Upgrade([layout |-> layout, proper |-> proper])
      PROVE  Means(Reads(new), r)
  <2>1. new = layout
    BY <1>3 DEF Upgrade
  <2>2. WellPlaced(current) /\ WellPlaced(layout) /\ Continues(current, layout)
    BY <1>3, UpgradeContinues DEF LayoutInv
  <2> QED
    BY <2>1, <2>2, StillRead
<1> QED
  BY <1>1, <1>2, <1>3 DEF LayoutNext, Change, Update, layoutVars

\* Every vault reads and writes the bytes of the snapshot's variables as they were, whichever
\* upgrades the checks let pass, and an upgrade leaves those bytes alone that the vault and the
\* P2IDVault of the build that checks it have in common: for any types, any number of variables
\* and any slot size.  Of a variable that a later build has lost nothing is said.
THEOREM BaseStateStays == LayoutSpec => BaseStateKept
<1> DEFINE Kept(new) ==
             LET reads == Reads(new)
                 built == Reads(current)
             IN  /\ \A r \in Reads(snapshot)' : Means(reads, r)
                 /\ \A old \in vaults : \A r \in Reads(old) : Means(built, r) => Means(reads, r)
<1>1. LayoutInv /\ LayoutInv' /\ [LayoutNext]_layoutVars => \A new \in vaults' : Kept(new)
  <2> SUFFICES ASSUME LayoutInv, LayoutInv', [LayoutNext]_layoutVars, NEW new \in vaults' PROVE Kept(new)
    OBVIOUS
  <2>1. ASSUME NEW r \in Reads(snapshot)' PROVE Means(Reads(new), r)
    <3>1. WellPlaced(snapshot') /\ WellPlaced(new) /\ Continues(snapshot', new)
      BY DEF LayoutInv
    <3>2. r \in Reads(snapshot')
      BY <2>1
    <3> QED
      BY <3>1, <3>2, ContinuedIsRead
  <2> QED
    BY <2>1, AgreedIsKept
<1> QED
  BY <1>1, LayoutInitially, LayoutKept, PTL DEF LayoutSpec, BaseStateKept
================================================================================
