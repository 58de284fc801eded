----------------------------- MODULE WitnessProofs -----------------------------
(***************************************************************************)
(* Proofs about the witnesses of http-prover: for any tokens, texts,       *)
(* requests and identity types, a witness points at what the token's       *)
(* issuer wrote.                                                           *)
(*                                                                         *)
(* First how texts are put together and where their parts are then.       *)
(* Then what the scan of a payload knows, what the search for the accounts *)
(* finds behind two layers of escapes, and why it neither takes a quoted   *)
(* text for a member nor misses an account it could prove.                 *)
(***************************************************************************)
EXTENDS ClientsProps, FiniteSetTheorems, SequenceTheorems, WellFoundedInduction, TLAPS

\* A property of 1 and of each successor, below n, of a number that has it is a property of n.
LEMMA FromOneTo ==
  ASSUME NEW n \in Nat \ {0}, NEW S, 1 \in S, \A k \in 1..n : k # n /\ k \in S => k + 1 \in S
  PROVE  n \in S
<1> SUFFICES ASSUME n \notin S PROVE FALSE
  OBVIOUS
<1> DEFINE T == {k \in 1..n : k \notin S}
           R == OpToRel(<, Nat)
<1>1. T \subseteq Nat /\ T # {}
  OBVIOUS
<1>2. IsWellFoundedOn(R, Nat)
  BY NatLessThanWellFounded
<1>3. PICK x \in T : \A y \in T : ~ (<<y, x>> \in R)
  <2> HIDE DEF T, R
  <2> QED
    BY <1>1, <1>2, WFMin
<1>4. x \in 1..n /\ x # 1
  OBVIOUS
<1>5. x - 1 \notin T
  <2>1. \A y \in T : ~ (y < x)
    BY <1>1, <1>3 DEF OpToRel
  <2> HIDE DEF T
  <2> QED
    BY <1>4, <2>1
<1>6. x - 1 \in S /\ x - 1 \in 1..n /\ x - 1 # n
  BY <1>4, <1>5
<1>7. (x - 1) + 1 \in S
  BY <1>6
<1> QED
  BY <1>4, <1>7

IsFolding(f, N, base, step) ==
  f = [n \in 0..N |-> IF n = 0 THEN base ELSE step[<<f[n - 1], n>>]]

\* There is such a function.
LEMMA Folding ==
  ASSUME NEW N \in Nat, NEW A, NEW base \in A, NEW step, \A a \in A, n \in 1..N : step[<<a, n>>] \in A
  PROVE  \E f \in [0..N -> A] : IsFolding(f, N, base, step)
<1> DEFINE Good == {m \in 0..N : \E f \in [0..m -> A] : IsFolding(f, m, base, step)}
<1>1. 0 \in Good
  <2>1. [n \in 0..0 |-> base] \in [0..0 -> A]
    OBVIOUS
  <2>2. IsFolding([n \in 0..0 |-> base], 0, base, step)
    BY DEF IsFolding
  <2> QED
    BY <2>1, <2>2
<1>2. ASSUME NEW k \in 0..N, k # N, k \in Good PROVE k + 1 \in Good
  <2>1. PICK f \in [0..k -> A] : IsFolding(f, k, base, step)
    BY <1>2
  <2>2. k + 1 \in 1..N /\ k \in 0..k
    BY <1>2
  <2> DEFINE g == [n \in 0..(k + 1) |-> IF n = k + 1 THEN step[<<f[k], k + 1>>] ELSE f[n]]
  <2>3. g \in [0..(k + 1) -> A]
    BY <2>2
  <2>4. \A n \in 0..k : g[n] = f[n] /\ f[n] = IF n = 0 THEN base ELSE step[<<f[n - 1], n>>]
    BY <2>1 DEF IsFolding
  <2>5. g[k + 1] = step[<<f[k], k + 1>>] /\ g = [n \in 0..(k + 1) |-> g[n]]
    BY <2>2
  <2> HIDE DEF g
  <2>6. ASSUME NEW n \in 0..(k + 1) PROVE g[n] = IF n = 0 THEN base ELSE step[<<g[n - 1], n>>]
    <3>1. CASE n = k + 1
      <4>1. n # 0 /\ n - 1 = k
        BY <2>2, <3>1
      <4> QED
        BY <2>2, <2>4, <2>5, <3>1, <4>1, ZenonT(60)
    <3>2. CASE n # k + 1 /\ n # 0
      <4>1. n \in 0..k /\ n - 1 \in 0..k
        BY <3>2
      <4> QED
        BY <2>4, <3>2, <4>1
    <3>3. CASE n = 0
      <4>1. 0 \in 0..k /\ 0 # k + 1
        BY <2>2
      <4> QED
        BY <2>4, <3>3, <4>1
    <3> QED
      BY <3>1, <3>2, <3>3
  <2>7. IsFolding(g, k + 1, base, step)
    BY <2>5, <2>6 DEF IsFolding
  <2> QED
    BY <2>2, <2>3, <2>7
<1> HIDE DEF Good
<1>3. CASE N = 0
  BY <1>1, <1>3 DEF Good
<1>4. CASE N # 0
  <2>1. 1 \in Good
    BY <1>1, <1>2, <1>4
  <2>2. N \in Good
    BY <1>2, <1>4, <2>1, FromOneTo
  <2> QED
    BY <2>2 DEF Good
<1> QED
  BY <1>3, <1>4

\* The same from 0 on
LEMMA FromZeroTo ==
  ASSUME NEW n \in Nat, NEW S, 0 \in S, \A k \in 1..n : k - 1 \in S => k \in S
  PROVE  n \in S
<1>1. CASE n = 0
  BY <1>1
<1>2. CASE n # 0
  <2>1. 1 \in S
    BY <1>2
  <2>2. \A k \in 1..n : k # n /\ k \in S => k + 1 \in S
    <3> SUFFICES ASSUME NEW k \in 1..n, k # n, k \in S PROVE k + 1 \in S
      OBVIOUS
    <3>1. k + 1 \in 1..n /\ (k + 1) - 1 = k
      OBVIOUS
    <3> QED
      BY <3>1
  <2> QED
    BY <1>2, <2>1, <2>2, FromOneTo
<1> QED
  BY <1>1, <1>2

-----------------------------------------------------------------------------
(* Texts put together *)

\* The function in Written exists.
LEMMA WritingExists ==
  ASSUME NEW S, NEW parts \in Seq(Seq(S))
  PROVE  \E f \in [0..Len(parts) -> Seq(S)] :
           f = [n \in 0..Len(parts) |-> IF n = 0 THEN <<>> ELSE f[n - 1] \o parts[n]]
<1> DEFINE N == Len(parts)
           A == Seq(S)
           step == [an \in A \X (1..N) |-> an[1] \o parts[an[2]]]
<1>1. N \in Nat /\ <<>> \in A
  OBVIOUS
<1>2. \A a \in A, n \in 1..N : step[<<a, n>>] = a \o parts[n]
  OBVIOUS
<1>3. \A a \in A, n \in 1..N : a \o parts[n] \in A
  BY ConcatProperties
<1> HIDE DEF N, A, step
<1>4. PICK f \in [0..N -> A] : IsFolding(f, N, <<>>, step)
  <2>1. \A a \in A, n \in 1..N : step[<<a, n>>] \in A
    BY <1>2, <1>3
  <2> QED
    BY <1>1, <2>1, Folding
<1>5. ASSUME NEW n \in 0..N
      PROVE  (IF n = 0 THEN <<>> ELSE step[<<f[n - 1], n>>]) = IF n = 0 THEN <<>> ELSE f[n - 1] \o parts[n]
  <2>1. n # 0 => n \in 1..N /\ f[n - 1] \in A
    <3>1. n # 0 => n \in 1..N /\ n - 1 \in 0..N
      BY <1>1
    <3> QED
      BY <3>1
  <2> QED
    BY <1>2, <2>1
<1>6. f = [n \in 0..N |-> IF n = 0 THEN <<>> ELSE f[n - 1] \o parts[n]]
  BY <1>4, <1>5 DEF IsFolding
<1> QED
  BY <1>6 DEF N, A

\* What it is at each number
LEMMA WrittenParts ==
  ASSUME NEW S, NEW parts \in Seq(Seq(S))
  PROVE  /\ Written(parts)[0] = <<>>
         /\ \A n \in 0..Len(parts) : Written(parts)[n] \in Seq(S)
         /\ \A n \in 1..Len(parts) : Written(parts)[n] = Written(parts)[n - 1] \o parts[n]
<1> DEFINE N == Len(parts)
           IsWriting(f) == f = [n \in 0..N |-> IF n = 0 THEN <<>> ELSE f[n - 1] \o parts[n]]
           text == CHOOSE f : IsWriting(f)
<1>1. N \in Nat
  OBVIOUS
<1>2. \E f : IsWriting(f)
  BY WritingExists, ZenonT(60)
<1>3. IsWriting(text)
  BY <1>2
<1>4. Written(parts) = text
  BY DEF Written
<1> HIDE DEF text
<1>5. text[0] = <<>>
  BY <1>1, <1>3
<1>6. ASSUME NEW n \in 1..N PROVE text[n] = text[n - 1] \o parts[n]
  <2>1. n \in 0..N /\ n # 0
    OBVIOUS
  <2> HIDE DEF N
  <2> QED
    BY <1>3, <2>1
<1>7. ASSUME NEW n \in 0..N PROVE text[n] \in Seq(S)
  <2> DEFINE Good == {k \in 0..N : text[k] \in Seq(S)}
  <2>1. 0 \in Good
    <3>1. <<>> \in Seq(S) /\ 0 \in 0..N
      BY <1>1
    <3> QED
      BY <1>5, <3>1
  <2>2. ASSUME NEW k \in 1..n, k - 1 \in Good PROVE k \in Good
    <3>1. k \in 1..N /\ k \in 0..N /\ parts[k] \in Seq(S)
      OBVIOUS
    <3>2. text[k - 1] \o parts[k] \in Seq(S)
      BY <2>2, <3>1, ConcatProperties
    <3> QED
      BY <1>6, <3>1, <3>2
  <2>3. n \in Nat
    OBVIOUS
  <2> HIDE DEF Good
  <2>4. n \in Good
    BY <2>1, <2>2, <2>3, FromZeroTo
  <2> QED
    BY <2>4 DEF Good
<1> QED
  BY <1>4, <1>5, <1>6, <1>7

\* How many symbols the first n parts take
Span(parts, n) == Len(Written(parts)[n])

\* Each part takes its own length.
LEMMA SpanParts ==
  ASSUME NEW S, NEW parts \in Seq(Seq(S))
  PROVE  /\ Span(parts, 0) = 0
         /\ \A n \in 0..Len(parts) : Span(parts, n) \in Nat
         /\ \A n \in 1..Len(parts) : Span(parts, n) = Span(parts, n - 1) + Len(parts[n])
<1>1. Span(parts, 0) = 0
  <2>1. Written(parts)[0] = <<>>
    BY WrittenParts, Zenon
  <2> QED
    BY <2>1 DEF Span
<1>2. ASSUME NEW n \in 0..Len(parts) PROVE Span(parts, n) \in Nat
  <2>1. Written(parts)[n] \in Seq(S)
    BY WrittenParts
  <2> QED
    BY <2>1 DEF Span
<1>3. ASSUME NEW n \in 1..Len(parts) PROVE Span(parts, n) = Span(parts, n - 1) + Len(parts[n])
  <2>1. n - 1 \in 0..Len(parts)
    OBVIOUS
  <2>2. /\ Written(parts)[n - 1] \in Seq(S)
        /\ Written(parts)[n] = Written(parts)[n - 1] \o parts[n]
    BY <2>1, WrittenParts
  <2>3. parts[n] \in Seq(S)
    OBVIOUS
  <2> QED
    BY <2>2, <2>3, ConcatProperties DEF Span
<1> QED
  BY <1>1, <1>2, <1>3

\* The later a part, the more comes before it.
LEMMA SpanGrows ==
  ASSUME NEW S, NEW parts \in Seq(Seq(S)),
         NEW m \in 0..Len(parts), NEW n \in 0..Len(parts), m <= n
  PROVE  Span(parts, m) <= Span(parts, n)
<1> DEFINE Good == {k \in 0..(n - m) : Span(parts, m) <= Span(parts, m + k)}
<1>1. n - m \in Nat /\ m \in Nat
  OBVIOUS
<1>2. 0 \in Good
  <2>1. Span(parts, m) \in Nat /\ m + 0 = m /\ 0 \in 0..(n - m)
    BY SpanParts
  <2> QED
    BY <2>1
<1>3. ASSUME NEW k \in 1..(n - m), k - 1 \in Good PROVE k \in Good
  <2>1. m + k \in 1..Len(parts) /\ (m + k) - 1 = m + (k - 1) /\ m + (k - 1) \in 0..Len(parts) /\ k \in 0..(n - m)
    OBVIOUS
  <2>2. Span(parts, m + k) = Span(parts, (m + k) - 1) + Len(parts[m + k])
    BY <2>1, SpanParts
  <2>3. Span(parts, m) <= Span(parts, m + (k - 1))
    BY <1>3
  <2>4. Span(parts, m) \in Nat /\ Span(parts, m + (k - 1)) \in Nat
    BY <2>1, SpanParts
  <2>5. Len(parts[m + k]) \in Nat
    BY <2>1
  <2> QED
    BY <2>1, <2>2, <2>3, <2>4, <2>5
<1>4. n - m \in Good
  <2> HIDE DEF Good
  <2> QED
    BY <1>1, <1>2, <1>3, FromZeroTo
<1> QED
  <2>1. m + (n - m) = n
    OBVIOUS
  <2> QED
    BY <1>4, <2>1

\* Each symbol belongs to a part.
LEMMA SomePart ==
  ASSUME NEW S, NEW parts \in Seq(Seq(S)), NEW n \in 0..Len(parts), NEW k \in 1..Span(parts, n)
  PROVE  \E m \in 1..n : Span(parts, m - 1) < k /\ k <= Span(parts, m)
<1> DEFINE Good == {p \in 0..n : k <= Span(parts, p) =>
                       \E m \in 1..n : Span(parts, m - 1) < k /\ k <= Span(parts, m)}
<1>1. n \in Nat
  OBVIOUS
<1>2. 0 \in Good
  <2>1. Span(parts, 0) = 0 /\ 0 \in 0..n
    BY SpanParts
  <2>2. ~ (k <= 0)
    OBVIOUS
  <2> QED
    BY <2>1, <2>2
<1>3. ASSUME NEW p \in 1..n, p - 1 \in Good PROVE p \in Good
  <2>1. p \in 0..n /\ p - 1 \in 0..Len(parts)
    OBVIOUS
  <2>2. Span(parts, p - 1) \in Nat
    BY <2>1, SpanParts
  <2>3. k <= Span(parts, p - 1) \/ Span(parts, p - 1) < k
    BY <2>2
  <2> QED
    BY <1>3, <2>1, <2>3
<1>4. n \in Good
  <2> HIDE DEF Good
  <2> QED
    BY <1>1, <1>2, <1>3, FromZeroTo
<1>5. k <= Span(parts, n)
  BY SpanParts
<1> QED
  BY <1>4, <1>5

-----------------------------------------------------------------------------
(* What occurs where *)

\* A text occurs at its own start.
LEMMA OccursWhole == ASSUME NEW S, NEW s \in Seq(S) PROVE Occurs(s, s, 1)
BY DEF Occurs

\* Two texts occur one behind the other exactly when their concatenation occurs.
LEMMA OccursBoth ==
  ASSUME NEW S, NEW hay \in Seq(S), NEW s \in Seq(S), NEW t \in Seq(S), NEW i \in Nat
  PROVE  Occurs(hay, s \o t, i) <=> Occurs(hay, s, i) /\ Occurs(hay, t, i + Len(s))
<1>1. /\ Len(s \o t) = Len(s) + Len(t) /\ DOMAIN (s \o t) = 1..(Len(s) + Len(t))
      /\ \A n \in 1..(Len(s) + Len(t)) : (s \o t)[n] = IF n <= Len(s) THEN s[n] ELSE t[n - Len(s)]
  BY ConcatProperties
<1>2. Len(s) \in Nat /\ Len(t) \in Nat /\ Len(hay) \in Nat /\ DOMAIN s = 1..Len(s) /\ DOMAIN t = 1..Len(t)
  OBVIOUS
<1>3. ASSUME Occurs(hay, s \o t, i) PROVE Occurs(hay, s, i) /\ Occurs(hay, t, i + Len(s))
  <2>1. ASSUME NEW n \in 1..Len(s) PROVE hay[i + n - 1] = s[n]
    <3>1. n \in 1..(Len(s) + Len(t)) /\ n <= Len(s)
      BY <1>2
    <3>2. hay[i + n - 1] = (s \o t)[n]
      BY <1>1, <1>3, <3>1 DEF Occurs
    <3> QED
      BY <1>1, <3>1, <3>2
  <2>2. ASSUME NEW n \in 1..Len(t) PROVE hay[(i + Len(s)) + n - 1] = t[n]
    <3>1. n + Len(s) \in 1..(Len(s) + Len(t)) /\ ~ (n + Len(s) <= Len(s)) /\ (n + Len(s)) - Len(s) = n
      BY <1>2
    <3>2. hay[i + (n + Len(s)) - 1] = (s \o t)[n + Len(s)]
      BY <1>1, <1>3, <3>1 DEF Occurs
    <3>3. i + (n + Len(s)) - 1 = (i + Len(s)) + n - 1
      BY <1>2
    <3> QED
      BY <1>1, <3>1, <3>2, <3>3
  <2>3. i + Len(s) - 1 <= Len(hay) /\ (i + Len(s)) + Len(t) - 1 <= Len(hay)
    BY <1>1, <1>2, <1>3 DEF Occurs
  <2> QED
    BY <1>2, <2>1, <2>2, <2>3 DEF Occurs
<1>4. ASSUME Occurs(hay, s, i), Occurs(hay, t, i + Len(s)) PROVE Occurs(hay, s \o t, i)
  <2>1. i + (Len(s) + Len(t)) - 1 <= Len(hay)
    BY <1>2, <1>4 DEF Occurs
  <2>2. ASSUME NEW n \in 1..(Len(s) + Len(t)) PROVE hay[i + n - 1] = (s \o t)[n]
    <3>1. CASE n <= Len(s)
      BY <1>1, <1>2, <1>4, <3>1, SMTT(30) DEF Occurs
    <3>2. CASE ~ (n <= Len(s))
      <4>1. n - Len(s) \in 1..Len(t) /\ (i + Len(s)) + (n - Len(s)) - 1 = i + n - 1
        BY <1>2, <3>2
      <4>2. hay[(i + Len(s)) + (n - Len(s)) - 1] = t[n - Len(s)]
        BY <1>2, <1>4, <4>1 DEF Occurs
      <4> QED
        BY <1>1, <3>2, <4>1, <4>2
    <3> QED
      BY <3>1, <3>2
  <2> QED
    BY <1>1, <2>1, <2>2 DEF Occurs
<1> QED
  BY <1>3, <1>4

\* One symbol occurs where it is.
LEMMA OccursOne ==
  ASSUME NEW S, NEW hay \in Seq(S), NEW s, NEW i \in Nat
  PROVE  Occurs(hay, <<s>>, i) <=> i <= Len(hay) /\ hay[i] = s
<1>1. Len(<<s>>) = 1 /\ DOMAIN <<s>> = {1} /\ <<s>>[1] = s /\ i + 1 - 1 = i
  OBVIOUS
<1> QED
  BY <1>1 DEF Occurs

\* Where parts are written one after the other, each is.
LEMMA OccursParts ==
  ASSUME NEW S, NEW hay \in Seq(S), NEW parts \in Seq(Seq(S)), NEW i \in Nat,
         NEW n \in 0..Len(parts), Occurs(hay, Written(parts)[n], i), NEW k \in 1..n
  PROVE  Occurs(hay, parts[k], i + Span(parts, k - 1))
<1> DEFINE Good == {m \in 0..n : Occurs(hay, Written(parts)[n - m], i)}
<1>1. n \in Nat /\ n - 0 = n
  OBVIOUS
<1>2. 0 \in Good
  BY <1>1
<1>3. \A p \in 1..n : /\ Written(parts)[p] = Written(parts)[p - 1] \o parts[p]
                      /\ Written(parts)[p - 1] \in Seq(S) /\ parts[p] \in Seq(S)
  <2> SUFFICES ASSUME NEW p \in 1..n
               PROVE  /\ Written(parts)[p] = Written(parts)[p - 1] \o parts[p]
                      /\ Written(parts)[p - 1] \in Seq(S) /\ parts[p] \in Seq(S)
    OBVIOUS
  <2>1. p \in 1..Len(parts) /\ p - 1 \in 0..Len(parts)
    OBVIOUS
  <2>2. /\ \A q \in 0..Len(parts) : Written(parts)[q] \in Seq(S)
        /\ \A q \in 1..Len(parts) : Written(parts)[q] = Written(parts)[q - 1] \o parts[q]
    BY WrittenParts, Zenon
  <2>3. parts[p] \in Seq(S)
    BY <2>1
  <2> QED
    BY <2>1, <2>2, <2>3, Zenon
<1>4. ASSUME NEW m \in 1..n, m - 1 \in Good PROVE m \in Good
  <2>1. m \in 0..n /\ n - (m - 1) \in 1..n /\ (n - (m - 1)) - 1 = n - m
    OBVIOUS
  <2>2. Occurs(hay, Written(parts)[n - (m - 1)], i)
    BY <1>4
  <2> DEFINE p == n - (m - 1)
  <2>3. /\ Written(parts)[p] = Written(parts)[p - 1] \o parts[p]
        /\ Written(parts)[p - 1] \in Seq(S) /\ parts[p] \in Seq(S)
    BY <1>3, <2>1, Zenon
  <2>4. Occurs(hay, Written(parts)[p - 1], i)
    BY <2>2, <2>3, OccursBoth
  <2> QED
    BY <2>1, <2>4
<1>5. n - k \in Good
  <2>1. n - k \in Nat /\ \A m \in 1..(n - k) : m \in 1..n
    OBVIOUS
  <2> HIDE DEF Good
  <2> QED
    BY <1>2, <1>4, <2>1, FromZeroTo
<1>6. Occurs(hay, Written(parts)[k], i)
  <2>1. n - (n - k) = k
    OBVIOUS
  <2> QED
    BY <1>5, <2>1
<1> QED
  BY <1>3, <1>6, OccursBoth DEF Span

-----------------------------------------------------------------------------
(* Escapes *)

Special(s) == s \in {Q, "\\"}

\* An escaped text is one or two symbols for every symbol of the text.
LEMMA EscapedPieces ==
  ASSUME NEW text \in Seq(Symbols)
  PROVE  /\ EscapedSymbols(text) \in Seq(Seq(Symbols))
         /\ Len(EscapedSymbols(text)) = Len(text)
         /\ \A j \in 1..Len(text) :
              EscapedSymbols(text)[j] = IF Special(text[j]) THEN <<"\\", text[j]>> ELSE <<text[j]>>
<1> DEFINE piece(j) == IF Special(text[j]) THEN <<"\\", text[j]>> ELSE <<text[j]>>
<1>1. Len(text) \in Nat /\ DOMAIN text = 1..Len(text)
  OBVIOUS
<1>2. EscapedSymbols(text) = [j \in 1..Len(text) |-> piece(j)]
  BY <1>1 DEF EscapedSymbols, Special
<1>3. \A j \in 1..Len(text) : piece(j) \in Seq(Symbols)
  <2> SUFFICES ASSUME NEW j \in 1..Len(text) PROVE piece(j) \in Seq(Symbols)
    OBVIOUS
  <2>1. text[j] \in Symbols /\ "\\" \in Symbols
    <3>1. "\\" \in Symbols
      BY DEF Symbols, Structure
    <3> QED
      BY <3>1
  <2>2. <<"\\", text[j]>> \in Seq(Symbols) /\ <<text[j]>> \in Seq(Symbols)
    BY <2>1
  <2> QED
    BY <2>2
<1> HIDE DEF piece
<1>4. [j \in 1..Len(text) |-> piece(j)] \in Seq(Seq(Symbols))
  BY <1>1, <1>3, IsASeq
<1>5. Len([j \in 1..Len(text) |-> piece(j)]) = Len(text)
  BY <1>1
<1> QED
  BY <1>2, <1>4, <1>5 DEF piece

\* How many symbols of the escaped text come before the form of symbol j
Ahead(text, j) == Span(EscapedSymbols(text), j - 1)

\* How long an escaped text is, and what comes before each symbol of the text in it
LEMMA EscapedWhole ==
  ASSUME NEW text \in Seq(Symbols)
  PROVE  /\ Escaped(text) \in Seq(Symbols)
         /\ Len(Escaped(text)) = Ahead(text, Len(text) + 1)
         /\ Len(Escaped(text)) \in Nat
         /\ Ahead(text, 1) = 0
         /\ \A j \in 1..(Len(text) + 1) : Ahead(text, j) \in Nat
         /\ \A j \in 1..Len(text) :
              Ahead(text, j + 1) = Ahead(text, j) + (IF Special(text[j]) THEN 2 ELSE 1)
<1> DEFINE parts == EscapedSymbols(text)
<1>1. parts \in Seq(Seq(Symbols)) /\ Len(parts) = Len(text) /\ Len(text) \in Nat
  BY EscapedPieces
<1>2. \A j \in 1..Len(text) : parts[j] = IF Special(text[j]) THEN <<"\\", text[j]>> ELSE <<text[j]>>
  BY EscapedPieces
<1>3. Escaped(text) = Written(parts)[Len(parts)]
  BY <1>1 DEF Escaped
<1> HIDE DEF parts
<1>4. /\ Span(parts, 0) = 0
      /\ \A n \in 0..Len(parts) : Span(parts, n) \in Nat
      /\ \A n \in 1..Len(parts) : Span(parts, n) = Span(parts, n - 1) + Len(parts[n])
  BY <1>1, SpanParts, Zenon
<1>5. Written(parts)[Len(parts)] \in Seq(Symbols)
  <2>1. \A n \in 0..Len(parts) : Written(parts)[n] \in Seq(Symbols)
    BY <1>1, WrittenParts, Zenon
  <2> QED
    BY <1>1, <2>1
<1>6. Len(Escaped(text)) = Ahead(text, Len(text) + 1)
  <2>1. (Len(text) + 1) - 1 = Len(parts)
    BY <1>1
  <2> QED
    BY <1>3, <2>1 DEF Ahead, Span, parts
<1>7. Ahead(text, 1) = 0
  BY <1>4 DEF Ahead, parts
<1>8. ASSUME NEW j \in 1..(Len(text) + 1) PROVE Ahead(text, j) \in Nat
  <2>1. j - 1 \in 0..Len(parts)
    BY <1>1
  <2> QED
    BY <1>4, <2>1 DEF Ahead, parts
<1>9. ASSUME NEW j \in 1..Len(text)
      PROVE  Ahead(text, j + 1) = Ahead(text, j) + (IF Special(text[j]) THEN 2 ELSE 1)
  <2>1. (j + 1) - 1 = j /\ j \in 1..Len(parts)
    BY <1>1
  <2>2. Span(parts, j) = Span(parts, j - 1) + Len(parts[j])
    BY <1>4, <2>1
  <2>3. Len(parts[j]) = IF Special(text[j]) THEN 2 ELSE 1
    <3>1. Len(<<"\\", text[j]>>) = 2 /\ Len(<<text[j]>>) = 1
      OBVIOUS
    <3>2. parts[j] = IF Special(text[j]) THEN <<"\\", text[j]>> ELSE <<text[j]>>
      BY <1>2
    <3>3. CASE Special(text[j])
      BY <3>1, <3>2, <3>3
    <3>4. CASE ~ Special(text[j])
      BY <3>1, <3>2, <3>4
    <3> QED
      BY <3>3, <3>4
  <2> QED
    BY <2>1, <2>2, <2>3 DEF Ahead, parts
<1> QED
  BY <1>3, <1>5, <1>6, <1>7, <1>8, <1>9

\* What occurs where a symbol of an escaped text is
LEMMA EscapedSymbol ==
  ASSUME NEW text \in Seq(Symbols), NEW hay \in Seq(Symbols), NEW i \in Nat,
         Occurs(hay, Escaped(text), i), NEW j \in 1..Len(text), NEW p, p = i + Ahead(text, j)
  PROVE  IF Special(text[j])
         THEN p + 1 <= Len(hay) /\ hay[p] = "\\" /\ hay[p + 1] = text[j] /\ p + 2 = i + Ahead(text, j + 1)
         ELSE p <= Len(hay) /\ hay[p] = text[j] /\ p + 1 = i + Ahead(text, j + 1)
<1> DEFINE parts == EscapedSymbols(text)
<1>1. /\ parts \in Seq(Seq(Symbols)) /\ Len(parts) = Len(text) /\ Len(text) \in Nat
      /\ parts[j] = IF Special(text[j]) THEN <<"\\", text[j]>> ELSE <<text[j]>>
  BY EscapedPieces
<1>2. Occurs(hay, Written(parts)[Len(parts)], i)
  BY <1>1 DEF Escaped
<1>3. Occurs(hay, parts[j], i + Span(parts, j - 1))
  <2> HIDE DEF parts
  <2>1. Len(parts) \in 0..Len(parts) /\ j \in 1..Len(parts)
    BY <1>1
  <2> QED
    BY <1>1, <1>2, <2>1, OccursParts
<1>4. Occurs(hay, parts[j], p) /\ p \in Nat
  <2>1. p = i + Span(parts, j - 1) /\ Ahead(text, j) \in Nat
    BY EscapedWhole DEF Ahead
  <2> QED
    BY <1>3, <2>1
<1>5. Ahead(text, j + 1) = Ahead(text, j) + (IF Special(text[j]) THEN 2 ELSE 1) /\ Ahead(text, j) \in Nat
  BY EscapedWhole
<1> HIDE DEF parts
<1>6. CASE Special(text[j])
  <2>1. Occurs(hay, <<"\\", text[j]>>, p)
    BY <1>1, <1>4, <1>6
  <2>2. p + 2 - 1 <= Len(hay) /\ hay[p + 1 - 1] = "\\" /\ hay[p + 2 - 1] = text[j]
    BY <2>1 DEF Occurs
  <2>3. p + 2 - 1 = p + 1 /\ p + 1 - 1 = p
    BY <1>4
  <2> QED
    BY <1>4, <1>5, <1>6, <2>2, <2>3, SMTT(30)
<1>7. CASE ~ Special(text[j])
  <2>1. Occurs(hay, <<text[j]>>, p)
    BY <1>1, <1>4, <1>7
  <2>2. p <= Len(hay) /\ hay[p] = text[j]
    BY <1>4, <2>1, OccursOne
  <2> QED
    BY <1>4, <1>5, <1>7, <2>2
<1> QED
  BY <1>6, <1>7

-----------------------------------------------------------------------------
(* Scans *)

\* A scan is always in one of the three states.
LEMMA AfterIsState == ASSUME NEW state \in States, NEW symbol PROVE After(state, symbol) \in States
BY DEF After, States

\* A scan is the one symbol after the other.
LEMMA ScanSteps ==
  ASSUME NEW S, NEW payload \in Seq(S)
  PROVE  /\ Scan(payload)[0] = "outside"
         /\ \A i \in 1..Len(payload) : Scan(payload)[i] = After(Scan(payload)[i - 1], payload[i])
<1> DEFINE N == Len(payload)
           after == [read \in States \X (1..N) |-> After(read[1], payload[read[2]])]
           IsScan(f) == f = [i \in 0..N |-> IF i = 0 THEN "outside" ELSE after[<<f[i - 1], i>>]]
           state == CHOOSE f : IsScan(f)
           Good == {i \in 0..N : state[i] \in States}
<1>1. N \in Nat /\ "outside" \in States
  BY DEF States
<1>2. \A a \in States, n \in 1..N : after[<<a, n>>] = After(a, payload[n])
  OBVIOUS
<1>3. \A a \in States, n \in 1..N : after[<<a, n>>] \in States
  BY <1>2, AfterIsState
<1>4. \E f : IsScan(f)
  <2> HIDE DEF N, after
  <2>1. PICK f \in [0..N -> States] : IsFolding(f, N, "outside", after)
    BY <1>1, <1>3, Folding
  <2> QED
    BY <2>1 DEF IsFolding
<1>5. IsScan(state)
  BY <1>4
<1>6. Scan(payload) = state
  BY DEF Scan
<1> HIDE DEF state, N, after
<1>7. state[0] = "outside"
  BY <1>1, <1>5
<1>8. ASSUME NEW i \in 1..N PROVE state[i] = after[<<state[i - 1], i>>] /\ i \in 0..N /\ i - 1 \in 0..N
  <2>1. i \in 0..N /\ i # 0 /\ i - 1 \in 0..N
    BY <1>1
  <2> QED
    BY <1>5, <2>1
<1>9. ASSUME NEW i \in 1..N PROVE i - 1 \in Good => i \in Good
  BY <1>3, <1>8
<1>10. 0 \in Good
  BY <1>1, <1>7
<1>11. ASSUME NEW i \in 1..N PROVE state[i] = After(state[i - 1], payload[i])
  <2>1. PICK n \in Nat : n = i - 1 /\ n \in 0..N
    BY <1>1, <1>8
  <2>2. \A k \in 1..n : k - 1 \in Good => k \in Good
    <3> SUFFICES ASSUME NEW k \in 1..n, k - 1 \in Good PROVE k \in Good
      OBVIOUS
    <3>1. k \in 1..N
      BY <1>1, <2>1
    <3> QED
      BY <1>9, <3>1
  <2>3. n \in Good
    <3> HIDE DEF Good
    <3> QED
      BY <1>10, <2>2, FromZeroTo
  <2>4. state[i - 1] \in States
    BY <2>1, <2>3
  <2> QED
    BY <1>2, <1>8, <2>4
<1> QED
  BY <1>6, <1>7, <1>11 DEF N

\* Inside a string, a scan stays inside for an escaped text.
LEMMA ScanEscaped ==
  ASSUME NEW text \in Seq(Symbols), NEW payload \in Seq(Symbols), NEW i \in Nat \ {0},
         Occurs(payload, Escaped(text), i), Scan(payload)[i - 1] = "inside"
  PROVE  /\ Scan(payload)[i + Len(Escaped(text)) - 1] = "inside"
         /\ \A k \in (i - 1)..(i + Len(Escaped(text)) - 1) : Scan(payload)[k] # "outside"
<1> DEFINE state == Scan(payload)
           To(m) == i + Ahead(text, m + 1) - 1
           Good == {m \in 0..Len(text) :
                      state[To(m)] = "inside" /\ \A k \in (i - 1)..To(m) : state[k] # "outside"}
<1>1. \A k \in 1..Len(payload) : state[k] = After(state[k - 1], payload[k])
  BY ScanSteps
<1>2. Len(text) \in Nat /\ Len(payload) \in Nat
  OBVIOUS
<1>3. 0 \in Good
  <2>1. To(0) = i - 1
    BY EscapedWhole
  <2> QED
    BY <1>2, <2>1
<1>4. ASSUME NEW m \in 1..Len(text), m - 1 \in Good PROVE m \in Good
  <2>1. (m - 1) + 1 = m /\ m \in 0..Len(text)
    OBVIOUS
  <2>2. Ahead(text, m) \in Nat /\ Ahead(text, m + 1) = Ahead(text, m) + (IF Special(text[m]) THEN 2 ELSE 1)
    BY EscapedWhole
  <2> DEFINE p == i + Ahead(text, m)
  <2>3. p \in Nat \ {0} /\ To(m - 1) = p - 1 /\ i <= p
    BY <2>1, <2>2
  <2>4. state[p - 1] = "inside" /\ \A k \in (i - 1)..(p - 1) : state[k] # "outside"
    BY <1>4, <2>3
  <2>5. IF Special(text[m])
        THEN p + 1 <= Len(payload) /\ payload[p] = "\\" /\ payload[p + 1] = text[m] /\ p + 2 = i + Ahead(text, m + 1)
        ELSE p <= Len(payload) /\ payload[p] = text[m] /\ p + 1 = i + Ahead(text, m + 1)
    BY EscapedSymbol
  <2> HIDE DEF p, state
  <2>6. CASE Special(text[m])
    <3>1. p \in 1..Len(payload) /\ p + 1 \in 1..Len(payload) /\ (p + 1) - 1 = p /\ To(m) = p + 1
      BY <1>2, <2>2, <2>3, <2>5, <2>6, SMTT(30)
    <3>2. state[p] = "escaped"
      BY <1>1, <2>4, <2>5, <2>6, <3>1 DEF After, Q
    <3>3. state[p + 1] = "inside"
      BY <1>1, <3>1, <3>2 DEF After
    <3>4. \A k \in (i - 1)..(p + 1) : k \in (i - 1)..(p - 1) \/ k = p \/ k = p + 1
      BY <2>3
    <3> QED
      BY <2>1, <2>4, <3>1, <3>2, <3>3, <3>4
  <2>7. CASE ~ Special(text[m])
    <3>1. p \in 1..Len(payload) /\ To(m) = p
      <4>1. p <= Len(payload) /\ p + 1 = i + Ahead(text, m + 1)
        BY <2>5, <2>7
      <4> QED
        BY <1>2, <2>2, <2>3, <4>1, SMTT(30)
    <3>2. state[p] = "inside"
      BY <1>1, <2>4, <2>5, <2>7, <3>1 DEF After, Special, Q
    <3>3. \A k \in (i - 1)..p : k \in (i - 1)..(p - 1) \/ k = p
      BY <2>3
    <3> QED
      BY <2>1, <2>4, <3>1, <3>2, <3>3
  <2> QED
    BY <2>6, <2>7
<1>5. Len(text) \in Good
  <2> HIDE DEF Good
  <2> QED
    BY <1>2, <1>3, <1>4, FromZeroTo
<1>6. To(Len(text)) = i + Len(Escaped(text)) - 1
  BY EscapedWhole
<1> QED
  BY <1>5, <1>6

-----------------------------------------------------------------------------
(* Joined texts *)

LEMMA OneSymbol == ASSUME NEW S, NEW s \in S PROVE <<s>> \in Seq(S) /\ Len(<<s>>) = 1
OBVIOUS

Comma == ","

LEMMA CommaIsSymbol == Comma \in Symbols
BY DEF Comma, Symbols, Structure

\* A part of a joined text has a comma before it, unless it is the first.
LEMMA SeparatedPart ==
  ASSUME NEW parts \in Seq(Seq(Symbols)), NEW n \in 1..Len(parts)
  PROVE  /\ n = 1 => Separated(parts)[n] = parts[n]
         /\ n # 1 => Separated(parts)[n] = <<Comma>> \o parts[n]
<1>1. n \in DOMAIN parts
  OBVIOUS
<1> QED
  BY <1>1 DEF Separated, Comma

\* The comma that part n of a joined text needs
Gap(n) == IF n = 1 THEN 0 ELSE 1

\* Parts with their commas
LEMMA SeparatedParts ==
  ASSUME NEW parts \in Seq(Seq(Symbols))
  PROVE  /\ Separated(parts) \in Seq(Seq(Symbols))
         /\ Len(Separated(parts)) = Len(parts) /\ Len(parts) \in Nat
         /\ \A n \in 1..Len(parts) : Len(Separated(parts)[n]) = Len(parts[n]) + Gap(n)
<1> DEFINE s == Separated(parts)
<1>1. Len(parts) \in Nat /\ DOMAIN parts = 1..Len(parts)
  OBVIOUS
<1>2. s = [n \in 1..Len(parts) |-> s[n]]
  BY <1>1 DEF Separated
<1>3. ASSUME NEW n \in 1..Len(parts) PROVE s[n] \in Seq(Symbols) /\ Len(s[n]) = Len(parts[n]) + Gap(n)
  <2>1. parts[n] \in Seq(Symbols) /\ Len(parts[n]) \in Nat
    OBVIOUS
  <2>2. CASE n = 1
    BY <2>1, <2>2, SeparatedPart DEF Gap
  <2>3. CASE n # 1
    <3>1. <<Comma>> \in Seq(Symbols) /\ Len(<<Comma>>) = 1
      BY CommaIsSymbol, OneSymbol
    <3>2. s[n] = <<Comma>> \o parts[n]
      BY <2>3, SeparatedPart
    <3>3. <<Comma>> \o parts[n] \in Seq(Symbols) /\ Len(<<Comma>> \o parts[n]) = 1 + Len(parts[n])
      BY <2>1, <3>1, ConcatProperties
    <3>4. Gap(n) = 1
      BY <2>3 DEF Gap
    <3> HIDE DEF s
    <3> QED
      BY <2>1, <3>2, <3>3, <3>4
  <2> QED
    BY <2>2, <2>3
<1> HIDE DEF s
<1>4. [n \in 1..Len(parts) |-> s[n]] \in Seq(Seq(Symbols))
  BY <1>1, <1>3, IsASeq
<1>5. Len([n \in 1..Len(parts) |-> s[n]]) = Len(parts)
  BY <1>1
<1>6. s \in Seq(Seq(Symbols)) /\ Len(s) = Len(parts)
  BY <1>2, <1>4, <1>5, Zenon
<1> QED
  BY <1>1, <1>3, <1>6 DEF s

\* Where part n begins and ends, by the spans of the separated parts
LEMMA BeforeParts ==
  ASSUME NEW parts \in Seq(Seq(Symbols)), NEW n \in 1..Len(parts)
  PROVE  /\ Before(parts, n) \in Nat
         /\ Before(parts, n) = Span(Separated(parts), n - 1) + Gap(n)
         /\ Before(parts, n) + Len(parts[n]) = Span(Separated(parts), n)
<1> DEFINE s == Separated(parts)
<1>1. /\ s \in Seq(Seq(Symbols)) /\ Len(s) = Len(parts)
      /\ Len(s[n]) = Len(parts[n]) + Gap(n)
  BY SeparatedParts
<1>2. Before(parts, n) = Span(s, n - 1) + Gap(n)
  BY DEF Before, Span, Gap
<1> HIDE DEF s
<1>3. n \in 1..Len(s) /\ n - 1 \in 0..Len(s) /\ Len(parts[n]) \in Nat
  BY <1>1
<1>4. Span(s, n - 1) \in Nat /\ Span(s, n) = Span(s, n - 1) + Len(s[n])
  BY <1>1, <1>3, SpanParts
<1>5. Gap(n) \in Nat
  BY DEF Gap
<1>6. Len(s[n]) = Len(parts[n]) + Gap(n)
  BY <1>1
<1>7. Before(parts, n) \in Nat /\ Before(parts, n) + Len(parts[n]) = Span(s, n)
  BY <1>2, <1>3, <1>4, <1>5, <1>6, SMTT(30)
<1> QED
  BY <1>2, <1>7 DEF s

\* How long a joined text is
LEMMA JoinedWhole ==
  ASSUME NEW parts \in Seq(Seq(Symbols))
  PROVE  /\ Joined(parts) \in Seq(Symbols)
         /\ Len(Joined(parts)) \in Nat
         /\ Len(Joined(parts)) = Span(Separated(parts), Len(parts))
         /\ Len(parts) = 0 => Len(Joined(parts)) = 0
         /\ Len(parts) # 0 => Len(Joined(parts)) = Before(parts, Len(parts)) + Len(parts[Len(parts)])
<1> DEFINE s == Separated(parts)
<1>1. s \in Seq(Seq(Symbols)) /\ Len(s) = Len(parts) /\ Len(parts) \in Nat
  BY SeparatedParts
<1>2. Joined(parts) = Written(s)[Len(parts)]
  BY DEF Joined
<1> HIDE DEF s
<1>3. Len(parts) \in 0..Len(s)
  BY <1>1
<1>4. Joined(parts) \in Seq(Symbols)
  BY <1>1, <1>2, <1>3, WrittenParts
<1>5. Len(Joined(parts)) = Span(s, Len(parts))
  BY <1>2 DEF Span
<1>6. Len(parts) = 0 => Len(Joined(parts)) = 0
  <2>1. Span(s, 0) = 0
    BY <1>1, SpanParts
  <2> QED
    BY <1>5, <2>1
<1>7. Len(parts) # 0 => Len(Joined(parts)) = Before(parts, Len(parts)) + Len(parts[Len(parts)])
  <2>1. Len(parts) # 0 => Len(parts) \in 1..Len(parts)
    BY <1>1
  <2> QED
    BY <1>5, <2>1, BeforeParts DEF s
<1> QED
  BY <1>4, <1>5, <1>6, <1>7 DEF s

\* The parts come one after the other, at least a comma apart.
LEMMA PartsInOrder ==
  ASSUME NEW parts \in Seq(Seq(Symbols)), NEW m \in 1..Len(parts), NEW n \in 1..Len(parts)
  PROVE  /\ m < n => Before(parts, m) + Len(parts[m]) + 1 <= Before(parts, n)
         /\ Before(parts, n) + Len(parts[n]) <= Len(Joined(parts))
         /\ m + 1 = n => Before(parts, m) + Len(parts[m]) + 1 = Before(parts, n)
<1> DEFINE s == Separated(parts)
<1>1. s \in Seq(Seq(Symbols)) /\ Len(s) = Len(parts) /\ Len(parts) \in Nat
  BY SeparatedParts
<1>2. /\ Before(parts, n) = Span(s, n - 1) + Gap(n)
      /\ Before(parts, n) + Len(parts[n]) = Span(s, n)
      /\ Before(parts, m) + Len(parts[m]) = Span(s, m)
      /\ Len(Joined(parts)) = Span(s, Len(parts))
  BY BeforeParts, JoinedWhole
<1> HIDE DEF s
<1>3. m \in 0..Len(s) /\ n \in 0..Len(s) /\ n - 1 \in 0..Len(s) /\ Len(parts) \in 0..Len(s) /\ n <= Len(parts)
  BY <1>1
<1>4. \A k \in 0..Len(s) : Span(s, k) \in Nat
  BY <1>1, SpanParts
<1>5. Span(s, n) <= Span(s, Len(parts))
  BY <1>1, <1>3, SpanGrows
<1>6. m < n => Span(s, m) <= Span(s, n - 1) /\ n # 1
  <2>1. m < n => m <= n - 1 /\ n # 1
    OBVIOUS
  <2> QED
    BY <1>1, <1>3, <2>1, SpanGrows
<1>7. m < n => Before(parts, m) + Len(parts[m]) + 1 <= Before(parts, n)
  <2>1. n # 1 => Before(parts, n) = Span(s, n - 1) + 1
    BY <1>2 DEF Gap
  <2>2. PICK q \in Nat : q = Span(s, n - 1)
    BY <1>3, <1>4
  <2>3. n # 1 => Before(parts, n) = q + 1
    BY <2>1, <2>2
  <2>4. m < n => Span(s, m) <= q
    BY <1>6, <2>2
  <2>5. PICK r \in Nat : r = Span(s, m)
    BY <1>3, <1>4
  <2>6. Before(parts, m) + Len(parts[m]) = r
    BY <1>2, <2>5
  <2> QED
    BY <1>6, <2>3, <2>4, <2>5, <2>6, SMTT(30)
<1>8. m + 1 = n => Before(parts, m) + Len(parts[m]) + 1 = Before(parts, n)
  <2>1. m + 1 = n => n - 1 = m /\ n # 1
    OBVIOUS
  <2> QED
    BY <1>2, <1>3, <1>4, <2>1 DEF Gap
<1> QED
  BY <1>2, <1>5, <1>7, <1>8

\* Each symbol belongs to a part or is a comma before one.
LEMMA JoinedSymbol ==
  ASSUME NEW parts \in Seq(Seq(Symbols)), NEW k \in 1..Len(Joined(parts))
  PROVE  \E n \in 1..Len(parts) :
           \/ n # 1 /\ k = Before(parts, n)
           \/ Before(parts, n) < k /\ k <= Before(parts, n) + Len(parts[n])
<1> DEFINE s == Separated(parts)
<1>1. s \in Seq(Seq(Symbols)) /\ Len(s) = Len(parts) /\ Len(parts) \in Nat
  BY SeparatedParts
<1>2. Len(Joined(parts)) = Span(s, Len(s))
  BY <1>1, JoinedWhole
<1>3. PICK n \in 1..Len(parts) : Span(s, n - 1) < k /\ k <= Span(s, n)
  <2> HIDE DEF s
  <2>1. Len(s) \in 0..Len(s) /\ k \in 1..Span(s, Len(s))
    BY <1>1, <1>2
  <2>2. \E n \in 1..Len(s) : Span(s, n - 1) < k /\ k <= Span(s, n)
    BY <1>1, <2>1, SomePart
  <2> QED
    BY <1>1, <2>2
<1>4. /\ Before(parts, n) \in Nat
      /\ Before(parts, n) = Span(s, n - 1) + Gap(n)
      /\ Before(parts, n) + Len(parts[n]) = Span(s, n)
  BY BeforeParts
<1>5. Span(s, n - 1) \in Nat
  <2> HIDE DEF s
  <2>1. n - 1 \in 0..Len(s)
    BY <1>1
  <2> QED
    BY <1>1, <2>1, SpanParts
<1> HIDE DEF s
<1>6. CASE n = 1
  BY <1>3, <1>4, <1>5, <1>6 DEF Gap
<1>7. CASE n # 1
  BY <1>3, <1>4, <1>5, <1>7 DEF Gap
<1> QED
  BY <1>6, <1>7

\* Where a joined text occurs, every part occurs behind those before it.
LEMMA OccursJoined ==
  ASSUME NEW parts \in Seq(Seq(Symbols)), NEW hay \in Seq(Symbols), NEW i \in Nat,
         Occurs(hay, Joined(parts), i), NEW n \in 1..Len(parts)
  PROVE  /\ Occurs(hay, parts[n], i + Before(parts, n))
         /\ n # 1 => hay[(i + Before(parts, n)) - 1] = Comma
<1> DEFINE s == Separated(parts)
<1>1. /\ s \in Seq(Seq(Symbols)) /\ Len(s) = Len(parts) /\ Len(parts) \in Nat
      /\ n = 1 => s[n] = parts[n]
      /\ n # 1 => s[n] = <<Comma>> \o parts[n]
  BY SeparatedParts, SeparatedPart
<1>2. Occurs(hay, Written(s)[Len(s)], i)
  BY <1>1 DEF Joined
<1>3. Before(parts, n) = Span(s, n - 1) + Gap(n)
  BY BeforeParts
<1> HIDE DEF s
<1>4. Len(s) \in 0..Len(s) /\ n \in 1..Len(s) /\ n - 1 \in 0..Len(s)
  BY <1>1
<1>5. Occurs(hay, s[n], i + Span(s, n - 1))
  BY <1>1, <1>2, <1>4, OccursParts
<1>6. Span(s, n - 1) \in Nat
  BY <1>1, <1>4, SpanParts
<1>7. CASE n = 1
  <2>1. i + Before(parts, n) = i + Span(s, n - 1)
    BY <1>3, <1>6, <1>7 DEF Gap
  <2> QED
    BY <1>1, <1>5, <1>7, <2>1
<1>8. CASE n # 1
  <2> DEFINE p == i + Span(s, n - 1)
  <2>1. p \in Nat /\ i + Before(parts, n) = p + 1 /\ (i + Before(parts, n)) - 1 = p
    <3>1. Gap(n) = 1
      BY <1>8 DEF Gap
    <3>2. PICK q \in Nat : q = Span(s, n - 1)
      BY <1>6
    <3>3. Before(parts, n) = q + 1
      BY <1>3, <3>1, <3>2
    <3>4. p = i + q
      BY <3>2
    <3> HIDE DEF p
    <3> QED
      BY <3>3, <3>4
  <2>2. Occurs(hay, <<Comma>> \o parts[n], p)
    BY <1>1, <1>5, <1>8
  <2>3. <<Comma>> \in Seq(Symbols) /\ Len(<<Comma>>) = 1 /\ parts[n] \in Seq(Symbols)
    BY CommaIsSymbol, OneSymbol
  <2> HIDE DEF p
  <2>4. Occurs(hay, <<Comma>>, p) /\ Occurs(hay, parts[n], p + 1)
    BY <2>1, <2>2, <2>3, OccursBoth
  <2>5. hay[p] = Comma
    <3>1. p \in Nat
      BY <2>1
    <3> QED
      BY <2>4, <3>1, OccursOne
  <2> QED
    BY <2>1, <2>4, <2>5
<1> QED
  BY <1>7, <1>8

\* How long a text in brackets is
LEMMA BracketedWhole ==
  ASSUME NEW parts \in Seq(Seq(Symbols)), NEW x \in Symbols, NEW y \in Symbols
  PROVE  /\ Bracketed(x, parts, y) \in Seq(Symbols)
         /\ Len(Bracketed(x, parts, y)) = Len(Joined(parts)) + 2
<1>1. Joined(parts) \in Seq(Symbols) /\ Len(Joined(parts)) \in Nat
  BY JoinedWhole
<1>2. <<x>> \in Seq(Symbols) /\ Len(<<x>>) = 1 /\ <<y>> \in Seq(Symbols) /\ Len(<<y>>) = 1
  BY OneSymbol
<1>3. <<x>> \o Joined(parts) \in Seq(Symbols) /\ Len(<<x>> \o Joined(parts)) = 1 + Len(Joined(parts))
  BY <1>1, <1>2, ConcatProperties
<1>4. /\ (<<x>> \o Joined(parts)) \o <<y>> \in Seq(Symbols)
      /\ Len((<<x>> \o Joined(parts)) \o <<y>>) = (1 + Len(Joined(parts))) + 1
  BY <1>2, <1>3, ConcatProperties
<1> QED
  BY <1>1, <1>4 DEF Bracketed

\* What a text in brackets begins and ends with
LEMMA OccursBracketed ==
  ASSUME NEW parts \in Seq(Seq(Symbols)), NEW x \in Symbols, NEW y \in Symbols,
         NEW hay \in Seq(Symbols), NEW i \in Nat, Occurs(hay, Bracketed(x, parts, y), i)
  PROVE  /\ hay[i] = x
         /\ Occurs(hay, Joined(parts), i + 1)
         /\ hay[i + Len(Joined(parts)) + 1] = y
         /\ i + Len(Joined(parts)) + 1 <= Len(hay)
<1>1. Joined(parts) \in Seq(Symbols) /\ Len(Joined(parts)) \in Nat
  BY JoinedWhole
<1>2. <<x>> \in Seq(Symbols) /\ Len(<<x>>) = 1 /\ <<y>> \in Seq(Symbols) /\ Len(<<y>>) = 1
  BY OneSymbol
<1>3. <<x>> \o Joined(parts) \in Seq(Symbols) /\ Len(<<x>> \o Joined(parts)) = 1 + Len(Joined(parts))
  BY <1>1, <1>2, ConcatProperties
<1>4. Occurs(hay, (<<x>> \o Joined(parts)) \o <<y>>, i)
  BY DEF Bracketed
<1>5. Occurs(hay, <<x>> \o Joined(parts), i) /\ Occurs(hay, <<y>>, i + (1 + Len(Joined(parts))))
  BY <1>2, <1>3, <1>4, OccursBoth
<1>6. Occurs(hay, <<x>>, i) /\ Occurs(hay, Joined(parts), i + 1)
  BY <1>1, <1>2, <1>5, OccursBoth
<1>7. hay[i] = x
  BY <1>6, OccursOne
<1>8. PICK p \in Nat : p = i + Len(Joined(parts)) + 1 /\ p = i + (1 + Len(Joined(parts)))
  BY <1>1
<1>9. Occurs(hay, <<y>>, p)
  BY <1>5, <1>8
<1>10. p <= Len(hay) /\ hay[p] = y
  BY <1>9, OccursOne
<1> QED
  BY <1>6, <1>7, <1>8, <1>10

\* Part n of a bracketed text, what comes before it and what after it
LEMMA PartOfBracketed ==
  ASSUME NEW parts \in Seq(Seq(Symbols)), NEW x \in Symbols, NEW y \in Symbols,
         NEW hay \in Seq(Symbols), NEW i \in Nat, Occurs(hay, Bracketed(x, parts, y), i),
         NEW n \in 1..Len(parts), NEW p, p = i + 1 + Before(parts, n)
  PROVE  /\ p \in Nat /\ i < p /\ p + Len(parts[n]) <= i + Len(Joined(parts)) + 1
         /\ Occurs(hay, parts[n], p)
         /\ n = 1 => hay[p - 1] = x
         /\ n # 1 => hay[p - 1] = Comma
         /\ n = Len(parts) => hay[p + Len(parts[n])] = y
         /\ n # Len(parts) => hay[p + Len(parts[n])] = Comma
<1>1. /\ hay[i] = x /\ Occurs(hay, Joined(parts), i + 1)
      /\ hay[i + Len(Joined(parts)) + 1] = y
  BY OccursBracketed
<1>2. Before(parts, n) \in Nat /\ Len(parts[n]) \in Nat /\ Len(parts) \in Nat /\ Len(Joined(parts)) \in Nat
  <2>1. parts[n] \in Seq(Symbols)
    OBVIOUS
  <2> QED
    BY <2>1, BeforeParts, JoinedWhole, SMTT(30)
<1>3. Before(parts, n) + Len(parts[n]) <= Len(Joined(parts))
  BY PartsInOrder
<1>4. p \in Nat /\ i < p /\ p + Len(parts[n]) <= i + Len(Joined(parts)) + 1
  BY <1>2, <1>3, SMTT(30)
<1>5. (i + 1) + Before(parts, n) = p /\ i + 1 \in Nat
  BY <1>2
<1>6. /\ Occurs(hay, parts[n], p)
      /\ n # 1 => hay[p - 1] = Comma
  BY <1>1, <1>5, OccursJoined
<1>7. n = 1 => hay[p - 1] = x
  <2>1. n = 1 => Before(parts, n) = 0
    <3>1. n = 1 => Before(parts, n) = Span(Separated(parts), 0)
      <4>1. n = 1 => Before(parts, n) = Span(Separated(parts), n - 1) + Gap(n)
        BY BeforeParts
      <4>2. n = 1 => Gap(n) = 0 /\ n - 1 = 0
        BY DEF Gap
      <4>3. Span(Separated(parts), 0) = 0
        BY SeparatedParts, SpanParts
      <4> QED
        BY <4>1, <4>2, <4>3
    <3>2. Span(Separated(parts), 0) = 0
      BY SeparatedParts, SpanParts
    <3> QED
      BY <3>1, <3>2
  <2>2. n = 1 => p - 1 = i
    BY <2>1
  <2> QED
    BY <1>1, <2>2
<1>8. CASE n = Len(parts)
  <2>1. Len(Joined(parts)) = Before(parts, n) + Len(parts[n])
    <3>1. Len(parts) # 0
      BY <1>8
    <3> QED
      BY <1>8, <3>1, JoinedWhole
  <2>2. p + Len(parts[n]) = i + Len(Joined(parts)) + 1
    BY <1>2, <2>1, SMTT(30)
  <2> QED
    BY <1>1, <1>4, <1>6, <1>7, <1>8, <2>2
<1>9. CASE n # Len(parts)
  <2>1. n + 1 \in 1..Len(parts) /\ n + 1 # 1
    BY <1>2, <1>9
  <2>2. Before(parts, n) + Len(parts[n]) + 1 = Before(parts, n + 1)
    BY <2>1, PartsInOrder
  <2>3. hay[((i + 1) + Before(parts, n + 1)) - 1] = Comma
    BY <1>1, <1>5, <2>1, OccursJoined
  <2>4. ((i + 1) + Before(parts, n + 1)) - 1 = p + Len(parts[n])
    <3>1. PICK b \in Nat, l \in Nat : b = Before(parts, n) /\ l = Len(parts[n])
      BY <1>2
    <3>2. Before(parts, n + 1) = b + l + 1
      BY <2>2, <3>1
    <3>3. p = i + 1 + b
      BY <3>1
    <3>4. PICK c : c = Before(parts, n + 1)
      OBVIOUS
    <3>5. c = b + l + 1
      BY <3>2, <3>4
    <3>7. ((i + 1) + c) - 1 = i + 1 + b + l
      BY <3>5
    <3>6. p + l = i + 1 + b + l
      BY <3>3
    <3> QED
      BY <3>1, <3>4, <3>6, <3>7
  <2> QED
    BY <1>4, <1>6, <1>7, <1>9, <2>3, <2>4
<1> QED
  BY <1>8, <1>9

\* What each symbol of a bracketed text is
LEMMA SymbolOfBracketed ==
  ASSUME NEW parts \in Seq(Seq(Symbols)), NEW x \in Symbols, NEW y \in Symbols,
         NEW hay \in Seq(Symbols), NEW i \in Nat, Occurs(hay, Bracketed(x, parts, y), i),
         NEW k \in i..(i + Len(Joined(parts)) + 1)
  PROVE  \/ k = i
         \/ k = i + Len(Joined(parts)) + 1
         \/ hay[k] = Comma
         \/ \E n \in 1..Len(parts) :
              i + 1 + Before(parts, n) <= k /\ k < i + 1 + Before(parts, n) + Len(parts[n])
<1>1. Occurs(hay, Joined(parts), i + 1) /\ i + 1 \in Nat
  BY OccursBracketed
<1>2. Len(Joined(parts)) \in Nat
  BY JoinedWhole
<1> SUFFICES ASSUME k # i, k # i + Len(Joined(parts)) + 1
             PROVE  \/ hay[k] = Comma
                    \/ \E n \in 1..Len(parts) :
                         i + 1 + Before(parts, n) <= k /\ k < i + 1 + Before(parts, n) + Len(parts[n])
  OBVIOUS
<1>3. k - i \in 1..Len(Joined(parts))
  BY <1>2
<1>4. PICK n \in 1..Len(parts) :
        \/ n # 1 /\ k - i = Before(parts, n)
        \/ Before(parts, n) < k - i /\ k - i <= Before(parts, n) + Len(parts[n])
  BY <1>3, JoinedSymbol
<1>5. Before(parts, n) \in Nat /\ Len(parts[n]) \in Nat
  <2>1. parts[n] \in Seq(Symbols)
    OBVIOUS
  <2> QED
    BY <2>1, BeforeParts
<1>6. CASE n # 1 /\ k - i = Before(parts, n)
  <2>1. hay[((i + 1) + Before(parts, n)) - 1] = Comma
    BY <1>1, <1>6, OccursJoined
  <2>2. ((i + 1) + Before(parts, n)) - 1 = k
    BY <1>5, <1>6
  <2> QED
    BY <2>1, <2>2
<1>7. CASE Before(parts, n) < k - i /\ k - i <= Before(parts, n) + Len(parts[n])
  <2>1. i + 1 + Before(parts, n) <= k /\ k < i + 1 + Before(parts, n) + Len(parts[n])
    BY <1>5, <1>7, SMTT(30)
  <2> QED
    BY <2>1
<1> QED
  BY <1>4, <1>6, <1>7

-----------------------------------------------------------------------------
(* Quoted texts *)

LEMMA QuoteIsSymbol == Q \in Symbols
BY DEF Symbols, Structure

\* How long a quoted text is
LEMMA QuotedWhole ==
  ASSUME NEW text \in Seq(Symbols)
  PROVE  Quoted(text) \in Seq(Symbols) /\ Len(Quoted(text)) = Len(Escaped(text)) + 2
<1>1. Escaped(text) \in Seq(Symbols) /\ Len(Escaped(text)) \in Nat
  BY EscapedWhole
<1>2. <<Q>> \in Seq(Symbols) /\ Len(<<Q>>) = 1
  BY QuoteIsSymbol, OneSymbol
<1>3. <<Q>> \o Escaped(text) \in Seq(Symbols) /\ Len(<<Q>> \o Escaped(text)) = 1 + Len(Escaped(text))
  BY <1>1, <1>2, ConcatProperties
<1>4. /\ (<<Q>> \o Escaped(text)) \o <<Q>> \in Seq(Symbols)
      /\ Len((<<Q>> \o Escaped(text)) \o <<Q>>) = (1 + Len(Escaped(text))) + 1
  BY <1>2, <1>3, ConcatProperties
<1> QED
  BY <1>1, <1>4 DEF Quoted

\* What a quoted text begins and ends with
LEMMA OccursQuoted ==
  ASSUME NEW text \in Seq(Symbols), NEW hay \in Seq(Symbols), NEW i \in Nat, Occurs(hay, Quoted(text), i)
  PROVE  /\ hay[i] = Q
         /\ Occurs(hay, Escaped(text), i + 1)
         /\ hay[i + 1 + Len(Escaped(text))] = Q
         /\ i + 1 + Len(Escaped(text)) <= Len(hay)
<1>1. Escaped(text) \in Seq(Symbols) /\ Len(Escaped(text)) \in Nat
  BY EscapedWhole
<1>2. <<Q>> \in Seq(Symbols) /\ Len(<<Q>>) = 1
  BY QuoteIsSymbol, OneSymbol
<1>3. <<Q>> \o Escaped(text) \in Seq(Symbols) /\ Len(<<Q>> \o Escaped(text)) = 1 + Len(Escaped(text))
  BY <1>1, <1>2, ConcatProperties
<1>4. Occurs(hay, (<<Q>> \o Escaped(text)) \o <<Q>>, i)
  BY DEF Quoted
<1>5. Occurs(hay, <<Q>> \o Escaped(text), i) /\ Occurs(hay, <<Q>>, i + (1 + Len(Escaped(text))))
  BY <1>2, <1>3, <1>4, OccursBoth
<1>6. Occurs(hay, <<Q>>, i) /\ Occurs(hay, Escaped(text), i + 1)
  BY <1>1, <1>2, <1>5, OccursBoth
<1>7. hay[i] = Q
  BY <1>6, OccursOne
<1>8. PICK p \in Nat : p = i + 1 + Len(Escaped(text)) /\ p = i + (1 + Len(Escaped(text)))
  BY <1>1
<1>9. Occurs(hay, <<Q>>, p)
  BY <1>5, <1>8
<1>10. p <= Len(hay) /\ hay[p] = Q
  BY <1>9, OccursOne
<1> QED
  BY <1>6, <1>7, <1>8, <1>10

\* A key is one word: its quoted form is as long as it looks.
LEMMA WordIsPlain ==
  ASSUME NEW w \in Words
  PROVE  w \in Symbols /\ ~ Special(w) /\ w \notin Structure
BY WordsAssumption DEF Symbols, Structure, Special

\* A word is written as it is.
LEMMA EscapedWord ==
  ASSUME NEW w \in Words
  PROVE  <<w>> \in Seq(Symbols) /\ Escaped(<<w>>) = <<w>> /\ Len(Escaped(<<w>>)) = 1
<1>1. w \in Symbols /\ ~ Special(w)
  BY WordIsPlain
<1> DEFINE text == <<w>>
           hay == Escaped(text)
<1>2. text \in Seq(Symbols) /\ Len(text) = 1
  BY <1>1, OneSymbol
<1>3. text[1] = w
  OBVIOUS
<1> HIDE DEF text
<1>4. hay \in Seq(Symbols) /\ Occurs(hay, Escaped(text), 1)
  BY <1>2, EscapedWhole, OccursWhole
<1>5. Ahead(text, 1) = 0 /\ Ahead(text, 2) = 1 /\ Len(hay) = 1
  <2>1. 1 \in 1..Len(text) /\ 1 + 1 = 2 /\ Len(text) + 1 = 2
    BY <1>2
  <2>2. Ahead(text, 1) = 0 /\ Ahead(text, 1 + 1) = Ahead(text, 1) + (IF Special(text[1]) THEN 2 ELSE 1)
    BY <1>2, <2>1, EscapedWhole
  <2>3. Len(hay) = Ahead(text, Len(text) + 1)
    BY <1>2, EscapedWhole
  <2>4. ~ Special(text[1])
    BY <1>1, <1>3
  <2> HIDE DEF hay
  <2> QED
    BY <2>1, <2>2, <2>3, <2>4
<1>6. hay[1] = w
  <2>1. ~ Special(text[1]) /\ 1 = 1 + Ahead(text, 1) /\ 1 \in 1..Len(text)
    BY <1>1, <1>2, <1>3, <1>5
  <2>2. PICK p : p = 1 + Ahead(text, 1)
    OBVIOUS
  <2> HIDE DEF hay
  <2>3. hay[p] = text[1]
    BY <1>2, <1>4, <2>1, <2>2, EscapedSymbol DEF hay
  <2> QED
    BY <1>3, <2>1, <2>2, <2>3
<1>7. hay = text
  <2> HIDE DEF hay
  <2>1. \A j \in 1..Len(hay) : hay[j] = text[j]
    BY <1>3, <1>5, <1>6
  <2>2. Len(hay) = Len(text)
    BY <1>2, <1>5
  <2> QED
    BY <1>2, <1>4, <2>1, <2>2, SeqEqual
<1> QED
  BY <1>2, <1>5, <1>7 DEF text

\* Where a quoted word occurs
LEMMA OccursKey ==
  ASSUME NEW w \in Words, NEW hay \in Seq(Symbols), NEW i \in Nat, Occurs(hay, Quoted(<<w>>), i)
  PROVE  hay[i] = Q /\ hay[i + 1] = w /\ hay[i + 2] = Q /\ i + 2 <= Len(hay)
<1>1. <<w>> \in Seq(Symbols) /\ Escaped(<<w>>) = <<w>> /\ Len(Escaped(<<w>>)) = 1
  BY EscapedWord
<1>2. /\ hay[i] = Q
      /\ Occurs(hay, Escaped(<<w>>), i + 1)
      /\ hay[i + 1 + Len(Escaped(<<w>>))] = Q
      /\ i + 1 + Len(Escaped(<<w>>)) <= Len(hay)
  BY <1>1, OccursQuoted
<1>3. Occurs(hay, <<w>>, i + 1) /\ i + 1 \in Nat
  BY <1>1, <1>2
<1>4. hay[i + 1] = w
  BY <1>3, OccursOne
<1>5. i + 1 + 1 = i + 2
  OBVIOUS
<1> QED
  BY <1>1, <1>2, <1>4, <1>5

\* A quoted word takes three symbols.
LEMMA QuotedKey ==
  ASSUME NEW w \in Words PROVE Quoted(<<w>>) \in Seq(Symbols) /\ Len(Quoted(<<w>>)) = 3
<1> DEFINE text == <<w>>
<1>1. text \in Seq(Symbols) /\ Len(Escaped(text)) = 1
  BY EscapedWord
<1> HIDE DEF text
<1>2. Quoted(text) \in Seq(Symbols) /\ Len(Quoted(text)) = Len(Escaped(text)) + 2
  BY <1>1, QuotedWhole
<1>3. Len(Quoted(text)) = 3
  BY <1>1, <1>2
<1> QED
  BY <1>2, <1>3 DEF text

\* Outside of strings, a scan is outside again behind a quoted text and nowhere in it.
LEMMA ScanQuoted ==
  ASSUME NEW text \in Seq(Symbols), NEW payload \in Seq(Symbols), NEW i \in Nat \ {0},
         Occurs(payload, Quoted(text), i), Scan(payload)[i - 1] = "outside"
  PROVE  /\ Scan(payload)[i + 1 + Len(Escaped(text))] = "outside"
         /\ \A k \in i..(i + Len(Escaped(text))) : Scan(payload)[k] # "outside"
<1> DEFINE state == Scan(payload)
           L == Len(Escaped(text))
<1>1. /\ payload[i] = Q /\ Occurs(payload, Escaped(text), i + 1)
      /\ payload[i + 1 + L] = Q /\ i + 1 + L <= Len(payload)
  BY OccursQuoted
<1>2. L \in Nat /\ Len(payload) \in Nat
  BY EscapedWhole
<1>3. \A k \in 1..Len(payload) : state[k] = After(state[k - 1], payload[k])
  BY ScanSteps
<1>4. After("outside", Q) = "inside" /\ After("inside", Q) = "outside"
  BY DEF After, Q
<1>5. i \in 1..Len(payload) /\ (i + 1) - 1 = i /\ i + 1 \in Nat \ {0}
  <2> HIDE DEF L
  <2> QED
    BY <1>1, <1>2
<1>6. state[i] = "inside"
  <2>1. state[i] = After(state[i - 1], payload[i])
    BY <1>3, <1>5
  <2> QED
    BY <1>1, <1>4, <2>1
<1>7. /\ state[(i + 1) + L - 1] = "inside"
      /\ \A k \in i..((i + 1) + L - 1) : state[k] # "outside"
  BY <1>1, <1>5, <1>6, ScanEscaped
<1> HIDE DEF L, state
<1>8. (i + 1) + L - 1 = i + L /\ i + 1 + L \in 1..Len(payload) /\ (i + 1 + L) - 1 = i + L
  BY <1>1, <1>2
<1>9. state[i + 1 + L] = After(state[i + L], payload[i + 1 + L])
  BY <1>3, <1>8
<1>10. state[i + L] = "inside"
  BY <1>7, <1>8
<1>11. state[i + 1 + L] = "outside"
  BY <1>1, <1>4, <1>9, <1>10
<1> QED
  BY <1>7, <1>8, <1>11 DEF state, L

-----------------------------------------------------------------------------
(* What the issuer writes *)

Colon == ":"

\* The marks that structure a text are symbols, and no words.
LEMMA MarksAreSymbols ==
  /\ "{" \in Symbols /\ "}" \in Symbols /\ "[" \in Symbols /\ "]" \in Symbols
  /\ Comma \in Symbols /\ Colon \in Symbols /\ Q \in Symbols
BY DEF Symbols, Structure, Comma, Colon

LEMMA MarksDiffer ==
  /\ Q # Comma /\ Q # Colon /\ Q # "{" /\ Q # "}" /\ Q # "[" /\ Q # "]" /\ Q # "\\"
  /\ Comma # Colon /\ Comma # "{" /\ Comma # "}" /\ Colon # "{" /\ Colon # "}"
  /\ "\\" # Comma /\ "\\" # Colon
BY DEF Q, Comma, Colon

LEMMA WordIsNoMark ==
  ASSUME NEW w \in Words
  PROVE  w # Q /\ w # "\\" /\ w # Comma /\ w # Colon /\ w # "{" /\ w # "}" /\ w # "[" /\ w # "]"
BY WordIsPlain DEF Structure, Comma, Colon

\* Sums of lengths
LEMMA Longer ==
  ASSUME NEW s \in Seq(Symbols), Len(s) = 3, NEW t \in Seq(Symbols), Len(t) = 1
  PROVE  s \o t \in Seq(Symbols) /\ Len(s \o t) = 4
<1>1. s \o t \in Seq(Symbols) /\ Len(s \o t) = Len(s) + Len(t)
  BY ConcatProperties, Zenon
<1> QED
  BY <1>1

\* A key, a colon and more: how claims and members are written
LEMMA KeyedWhole ==
  ASSUME NEW w \in Words, NEW value \in Seq(Symbols)
  PROVE  /\ Quoted(<<w>>) \o <<Colon>> \o value \in Seq(Symbols)
         /\ Len(Quoted(<<w>>) \o <<Colon>> \o value) = 4 + Len(value)
<1> DEFINE key == Quoted(<<w>>)
<1>1. key \in Seq(Symbols) /\ Len(key) = 3
  BY QuotedKey
<1>2. <<Colon>> \in Seq(Symbols) /\ Len(<<Colon>>) = 1
  BY MarksAreSymbols, OneSymbol
<1> HIDE DEF key
<1>3. key \o <<Colon>> \in Seq(Symbols) /\ Len(key \o <<Colon>>) = 4
  BY <1>1, <1>2, Longer
<1>4. (key \o <<Colon>>) \o value \in Seq(Symbols) /\ Len((key \o <<Colon>>) \o value) = 4 + Len(value)
  BY <1>3, ConcatProperties
<1> QED
  BY <1>4 DEF key

\* A quoted word, a colon and a text behind it
LEMMA OccursKeyed ==
  ASSUME NEW w \in Words, NEW value \in Seq(Symbols), NEW hay \in Seq(Symbols), NEW i \in Nat,
         Occurs(hay, Quoted(<<w>>) \o <<Colon>> \o value, i)
  PROVE  /\ hay[i] = Q /\ hay[i + 1] = w /\ hay[i + 2] = Q /\ hay[i + 3] = Colon /\ i + 3 <= Len(hay)
         /\ Occurs(hay, Quoted(<<w>>), i) /\ Occurs(hay, value, i + 4)
<1> DEFINE key == Quoted(<<w>>)
<1>1. key \in Seq(Symbols) /\ Len(key) = 3
  BY QuotedKey
<1>2. <<Colon>> \in Seq(Symbols) /\ Len(<<Colon>>) = 1
  BY MarksAreSymbols, OneSymbol
<1>3. Occurs(hay, (key \o <<Colon>>) \o value, i)
  OBVIOUS
<1> HIDE DEF key
<1>4. key \o <<Colon>> \in Seq(Symbols) /\ Len(key \o <<Colon>>) = 4
  BY <1>1, <1>2, Longer
<1>5. Occurs(hay, key \o <<Colon>>, i) /\ Occurs(hay, value, i + 4)
  BY <1>3, <1>4, OccursBoth
<1>6. Occurs(hay, key, i) /\ Occurs(hay, <<Colon>>, i + 3)
  BY <1>1, <1>2, <1>5, OccursBoth
<1>7. PICK p \in Nat : p = i + 3
  OBVIOUS
<1>8. hay[p] = Colon /\ p <= Len(hay)
  <2>1. Occurs(hay, <<Colon>>, p)
    BY <1>6, <1>7
  <2> QED
    BY <2>1, OccursOne
<1>9. hay[i] = Q /\ hay[i + 1] = w /\ hay[i + 2] = Q
  BY <1>6, OccursKey DEF key
<1> QED
  BY <1>5, <1>6, <1>7, <1>8, <1>9 DEF key

\* Members, accounts, claims and tokens are texts.
LEMMA MemberWhole ==
  ASSUME NEW m \in Members
  PROVE  /\ m.key \in Words /\ m.text \in Seq(Symbols)
         /\ MemberText(m) \in Seq(Symbols)
         /\ Len(Escaped(m.text)) \in Nat
         /\ Len(MemberText(m)) = 6 + Len(Escaped(m.text))
<1>1. m.key \in Words /\ m.text \in Seq(Symbols)
  BY DEF Members
<1>2. PICK text \in Seq(Symbols) : text = m.text
  BY <1>1
<1>3. PICK value : value = Quoted(text)
  OBVIOUS
<1>4. value \in Seq(Symbols) /\ Len(value) = Len(Escaped(text)) + 2 /\ Len(Escaped(text)) \in Nat
  BY <1>3, QuotedWhole, EscapedWhole
<1>5. /\ Quoted(<<m.key>>) \o <<Colon>> \o value \in Seq(Symbols)
      /\ Len(Quoted(<<m.key>>) \o <<Colon>> \o value) = 4 + Len(value)
  BY <1>1, <1>4, KeyedWhole
<1>6. MemberText(m) = Quoted(<<m.key>>) \o <<Colon>> \o value
  BY <1>2, <1>3 DEF MemberText, Colon
<1>7. Len(MemberText(m)) = 6 + Len(Escaped(text))
  BY <1>4, <1>5, <1>6
<1> QED
  BY <1>1, <1>2, <1>4, <1>5, <1>6, <1>7

\* Where a member occurs, its key and its text do.
LEMMA OccursMember ==
  ASSUME NEW m \in Members, NEW hay \in Seq(Symbols), NEW i \in Nat, Occurs(hay, MemberText(m), i)
  PROVE  /\ hay[i] = Q /\ hay[i + 1] = m.key /\ hay[i + 2] = Q /\ hay[i + 3] = Colon /\ hay[i + 4] = Q
         /\ Occurs(hay, Escaped(m.text), i + 5)
         /\ hay[i + 5 + Len(Escaped(m.text))] = Q
         /\ i + 5 + Len(Escaped(m.text)) <= Len(hay)
<1>1. m.key \in Words /\ m.text \in Seq(Symbols)
  BY DEF Members
<1>2. PICK text \in Seq(Symbols) : text = m.text
  BY <1>1
<1>3. PICK value : value = Quoted(text)
  OBVIOUS
<1>4. value \in Seq(Symbols) /\ Len(Escaped(text)) \in Nat
  BY <1>3, QuotedWhole, EscapedWhole
<1>5. MemberText(m) = Quoted(<<m.key>>) \o <<Colon>> \o value
  BY <1>2, <1>3 DEF MemberText, Colon
<1>6. /\ hay[i] = Q /\ hay[i + 1] = m.key /\ hay[i + 2] = Q /\ hay[i + 3] = Colon
      /\ Occurs(hay, value, i + 4)
  <2>1. PICK w \in Words : w = m.key
    BY <1>1
  <2>2. Occurs(hay, Quoted(<<w>>) \o <<Colon>> \o value, i)
    BY <1>5, <2>1
  <2>3. /\ hay[i] = Q /\ hay[i + 1] = w /\ hay[i + 2] = Q /\ hay[i + 3] = Colon
        /\ Occurs(hay, value, i + 4)
    BY <1>4, <2>2, OccursKeyed
  <2> QED
    BY <2>1, <2>3
<1>7. PICK p \in Nat : p = i + 4
  OBVIOUS
<1>8. Occurs(hay, Quoted(text), p)
  BY <1>3, <1>6, <1>7
<1>9. /\ hay[p] = Q /\ Occurs(hay, Escaped(text), p + 1)
      /\ hay[p + 1 + Len(Escaped(text))] = Q /\ p + 1 + Len(Escaped(text)) <= Len(hay)
  BY <1>8, OccursQuoted
<1>10. p + 1 = i + 5 /\ p + 1 + Len(Escaped(text)) = i + 5 + Len(Escaped(text))
  BY <1>4, <1>7
<1> QED
  BY <1>2, <1>6, <1>7, <1>9, <1>10

LEMMA AccountWhole ==
  ASSUME NEW account \in Seq(Members)
  PROVE  /\ MemberTexts(account) \in Seq(Seq(Symbols))
         /\ Len(MemberTexts(account)) = Len(account)
         /\ \A b \in 1..Len(account) : account[b] \in Members /\ MemberTexts(account)[b] = MemberText(account[b])
         /\ AccountText(account) \in Seq(Symbols)
         /\ Len(AccountText(account)) = Len(Joined(MemberTexts(account))) + 2
<1> DEFINE text(b) == MemberText(account[b])
<1>1. Len(account) \in Nat /\ DOMAIN account = 1..Len(account)
  OBVIOUS
<1>2. MemberTexts(account) = [b \in 1..Len(account) |-> text(b)]
  BY <1>1 DEF MemberTexts
<1>3. \A b \in 1..Len(account) : account[b] \in Members /\ text(b) \in Seq(Symbols)
  <2> SUFFICES ASSUME NEW b \in 1..Len(account)
               PROVE  account[b] \in Members /\ text(b) \in Seq(Symbols)
    OBVIOUS
  <2>1. account[b] \in Members
    OBVIOUS
  <2> QED
    BY <2>1, MemberWhole
<1> HIDE DEF text
<1>4. [b \in 1..Len(account) |-> text(b)] \in Seq(Seq(Symbols))
  BY <1>1, <1>3, IsASeq
<1>5. /\ Len([b \in 1..Len(account) |-> text(b)]) = Len(account)
      /\ \A b \in 1..Len(account) : [n \in 1..Len(account) |-> text(n)][b] = text(b)
  BY <1>1
<1>6. MemberTexts(account) \in Seq(Seq(Symbols)) /\ Len(MemberTexts(account)) = Len(account)
  BY <1>2, <1>4, <1>5
<1>7. \A b \in 1..Len(account) : MemberTexts(account)[b] = MemberText(account[b])
  BY <1>2, <1>5 DEF text
<1>8. /\ AccountText(account) \in Seq(Symbols)
      /\ Len(AccountText(account)) = Len(Joined(MemberTexts(account))) + 2
  BY <1>6, MarksAreSymbols, BracketedWhole DEF AccountText
<1> QED
  BY <1>3, <1>6, <1>7, <1>8

LEMMA AccountsWhole ==
  ASSUME NEW accounts \in Seq(Seq(Members))
  PROVE  /\ AccountTexts(accounts) \in Seq(Seq(Symbols))
         /\ Len(AccountTexts(accounts)) = Len(accounts)
         /\ \A a \in 1..Len(accounts) :
              accounts[a] \in Seq(Members) /\ AccountTexts(accounts)[a] = AccountText(accounts[a])
         /\ AccountsText(accounts) \in Seq(Symbols)
         /\ Len(AccountsText(accounts)) = Len(Joined(AccountTexts(accounts))) + 2
<1> DEFINE text(a) == AccountText(accounts[a])
<1>1. Len(accounts) \in Nat /\ DOMAIN accounts = 1..Len(accounts)
  OBVIOUS
<1>2. AccountTexts(accounts) = [a \in 1..Len(accounts) |-> text(a)]
  BY <1>1 DEF AccountTexts
<1>3. \A a \in 1..Len(accounts) : accounts[a] \in Seq(Members) /\ text(a) \in Seq(Symbols)
  <2> SUFFICES ASSUME NEW a \in 1..Len(accounts)
               PROVE  accounts[a] \in Seq(Members) /\ text(a) \in Seq(Symbols)
    OBVIOUS
  <2>1. accounts[a] \in Seq(Members)
    OBVIOUS
  <2> QED
    BY <2>1, AccountWhole
<1> HIDE DEF text
<1>4. [a \in 1..Len(accounts) |-> text(a)] \in Seq(Seq(Symbols))
  BY <1>1, <1>3, IsASeq
<1>5. /\ Len([a \in 1..Len(accounts) |-> text(a)]) = Len(accounts)
      /\ \A a \in 1..Len(accounts) : [n \in 1..Len(accounts) |-> text(n)][a] = text(a)
  BY <1>1
<1>6. AccountTexts(accounts) \in Seq(Seq(Symbols)) /\ Len(AccountTexts(accounts)) = Len(accounts)
  BY <1>2, <1>4, <1>5
<1>7. \A a \in 1..Len(accounts) : AccountTexts(accounts)[a] = AccountText(accounts[a])
  BY <1>2, <1>5 DEF text
<1>8. /\ AccountsText(accounts) \in Seq(Symbols)
      /\ Len(AccountsText(accounts)) = Len(Joined(AccountTexts(accounts))) + 2
  BY <1>6, MarksAreSymbols, BracketedWhole DEF AccountsText
<1> QED
  BY <1>3, <1>6, <1>7, <1>8

\* The value of a claim is a word or a quoted text.
LEMMA ValueWhole ==
  ASSUME NEW claim \in Claim
  PROVE  /\ claim.key \in Words
         /\ \/ claim.kind = "number" /\ claim.digits \in Words /\ ValueText(claim) = <<claim.digits>>
            \/ \E text \in Seq(Symbols) :
                 /\ ValueText(claim) = Quoted(text)
                 /\ claim.kind = "accounts" =>
                      claim.accounts \in Seq(Seq(Members)) /\ text = AccountsText(claim.accounts)
<1>1. CASE claim \in [key : Words, kind : {"number"}, digits : Words]
  BY <1>1 DEF ValueText
<1>2. CASE claim \in [key : Words, kind : {"text"}, text : Seq(Symbols)]
  BY <1>2 DEF ValueText
<1>3. CASE claim \in [key : Words, kind : {"accounts"}, accounts : Seq(Seq(Members))]
  <2>1. claim.accounts \in Seq(Seq(Members)) /\ claim.kind = "accounts" /\ claim.key \in Words
    BY <1>3
  <2>2. AccountsText(claim.accounts) \in Seq(Symbols)
    BY <2>1, AccountsWhole
  <2>3. ValueText(claim) = Quoted(AccountsText(claim.accounts))
    BY <2>1 DEF ValueText
  <2> QED
    BY <2>1, <2>2, <2>3
<1> QED
  BY <1>1, <1>2, <1>3 DEF Claim

LEMMA ClaimWhole ==
  ASSUME NEW claim \in Claim
  PROVE  /\ ValueText(claim) \in Seq(Symbols)
         /\ ClaimText(claim) \in Seq(Symbols)
         /\ Len(ClaimText(claim)) = 4 + Len(ValueText(claim))
<1>1. claim.key \in Words
  BY ValueWhole
<1>2. ValueText(claim) \in Seq(Symbols)
  <2>1. CASE claim.digits \in Words /\ ValueText(claim) = <<claim.digits>>
    BY <2>1, WordIsPlain, OneSymbol
  <2>2. CASE \E text \in Seq(Symbols) : ValueText(claim) = Quoted(text)
    BY <2>2, QuotedWhole
  <2> QED
    BY <2>1, <2>2, ValueWhole
<1>3. PICK value : value = ValueText(claim)
  OBVIOUS
<1>4. ClaimText(claim) = Quoted(<<claim.key>>) \o <<Colon>> \o value
  BY <1>3 DEF ClaimText, Colon
<1>5. /\ Quoted(<<claim.key>>) \o <<Colon>> \o value \in Seq(Symbols)
      /\ Len(Quoted(<<claim.key>>) \o <<Colon>> \o value) = 4 + Len(value)
  BY <1>1, <1>2, <1>3, KeyedWhole
<1> QED
  BY <1>2, <1>3, <1>4, <1>5

LEMMA TokenWhole ==
  ASSUME NEW token \in Seq(Claim)
  PROVE  /\ ClaimTexts(token) \in Seq(Seq(Symbols))
         /\ Len(ClaimTexts(token)) = Len(token)
         /\ \A n \in 1..Len(token) : token[n] \in Claim /\ ClaimTexts(token)[n] = ClaimText(token[n])
         /\ Payload(token) \in Seq(Symbols)
         /\ Len(Payload(token)) = Len(Joined(ClaimTexts(token))) + 2
<1> DEFINE text(n) == ClaimText(token[n])
<1>1. Len(token) \in Nat /\ DOMAIN token = 1..Len(token)
  OBVIOUS
<1>2. ClaimTexts(token) = [n \in 1..Len(token) |-> text(n)]
  BY <1>1 DEF ClaimTexts
<1>3. \A n \in 1..Len(token) : token[n] \in Claim /\ text(n) \in Seq(Symbols)
  <2> SUFFICES ASSUME NEW n \in 1..Len(token) PROVE token[n] \in Claim /\ text(n) \in Seq(Symbols)
    OBVIOUS
  <2>1. token[n] \in Claim
    OBVIOUS
  <2> QED
    BY <2>1, ClaimWhole
<1> HIDE DEF text
<1>4. [n \in 1..Len(token) |-> text(n)] \in Seq(Seq(Symbols))
  BY <1>1, <1>3, IsASeq
<1>5. /\ Len([n \in 1..Len(token) |-> text(n)]) = Len(token)
      /\ \A n \in 1..Len(token) : [m \in 1..Len(token) |-> text(m)][n] = text(n)
  BY <1>1
<1>6. ClaimTexts(token) \in Seq(Seq(Symbols)) /\ Len(ClaimTexts(token)) = Len(token)
  BY <1>2, <1>4, <1>5
<1>7. \A n \in 1..Len(token) : ClaimTexts(token)[n] = ClaimText(token[n])
  BY <1>2, <1>5 DEF text
<1>8. Payload(token) \in Seq(Symbols) /\ Len(Payload(token)) = Len(Joined(ClaimTexts(token))) + 2
  BY <1>6, MarksAreSymbols, BracketedWhole DEF Payload
<1> QED
  BY <1>3, <1>6, <1>7, <1>8

-----------------------------------------------------------------------------
(* What a scan of the payload finds at the top level *)

\* The forms the value of a claim has in the payload
LEMMA OccursClaim ==
  ASSUME NEW claim \in Claim, NEW hay \in Seq(Symbols), NEW i \in Nat, Occurs(hay, ClaimText(claim), i)
  PROVE  /\ claim.key \in Words
         /\ hay[i] = Q /\ hay[i + 1] = claim.key /\ hay[i + 2] = Q /\ hay[i + 3] = Colon /\ i + 3 <= Len(hay)
         /\ Occurs(hay, Quoted(<<claim.key>>), i) /\ Occurs(hay, ValueText(claim), i + 4)
<1>1. PICK w \in Words : w = claim.key
  BY ValueWhole
<1>2. PICK value : value = ValueText(claim)
  OBVIOUS
<1>3. value \in Seq(Symbols)
  BY <1>2, ClaimWhole
<1>4. Occurs(hay, Quoted(<<w>>) \o <<Colon>> \o value, i)
  BY <1>1, <1>2 DEF ClaimText, Colon
<1>5. /\ hay[i] = Q /\ hay[i + 1] = w /\ hay[i + 2] = Q /\ hay[i + 3] = Colon /\ i + 3 <= Len(hay)
      /\ Occurs(hay, Quoted(<<w>>), i) /\ Occurs(hay, value, i + 4)
  BY <1>3, <1>4, OccursKeyed
<1> QED
  BY <1>1, <1>2, <1>5

\* Outside of strings, a scan is outside again behind a claim; and a quote that opens a string
\* within the claim is its first symbol or follows the colon.
LEMMA ScanClaim ==
  ASSUME NEW claim \in Claim, NEW payload \in Seq(Symbols), NEW i \in Nat \ {0},
         Occurs(payload, ClaimText(claim), i), Scan(payload)[i - 1] = "outside"
  PROVE  /\ Scan(payload)[i + 3] = "outside"
         /\ Scan(payload)[i + Len(ClaimText(claim)) - 1] = "outside"
         /\ \A k \in (i + 1)..(i + Len(ClaimText(claim)) - 1) :
              payload[k] = Q /\ Scan(payload)[k - 1] = "outside" => payload[k - 1] = Colon
<1> DEFINE state == Scan(payload)
<1>1. /\ claim.key \in Words
      /\ payload[i + 3] = Colon /\ i + 3 <= Len(payload)
      /\ Occurs(payload, Quoted(<<claim.key>>), i) /\ Occurs(payload, ValueText(claim), i + 4)
  BY OccursClaim
<1>2. \A k \in 1..Len(payload) : state[k] = After(state[k - 1], payload[k])
  BY ScanSteps
<1>3. state[i + 2] = "outside" /\ state[i] # "outside" /\ state[i + 1] # "outside"
  <2>1. PICK w \in Words : w = claim.key
    BY <1>1
  <2>2. PICK text : text = <<w>>
    OBVIOUS
  <2>3. text \in Seq(Symbols) /\ Len(Escaped(text)) = 1 /\ Occurs(payload, Quoted(text), i)
    BY <1>1, <2>1, <2>2, EscapedWord
  <2>4. /\ state[i + 1 + Len(Escaped(text))] = "outside"
        /\ \A k \in i..(i + Len(Escaped(text))) : state[k] # "outside"
    BY <2>3, ScanQuoted
  <2>5. i + 1 + 1 = i + 2 /\ i \in i..(i + 1) /\ i + 1 \in i..(i + 1)
    OBVIOUS
  <2> HIDE DEF state
  <2> QED
    BY <2>3, <2>4, <2>5
<1> HIDE DEF state
<1>4. state[i + 3] = "outside"
  <2>1. i + 3 \in 1..Len(payload) /\ (i + 3) - 1 = i + 2
    BY <1>1
  <2>2. state[i + 3] = After(state[i + 2], payload[i + 3])
    BY <1>2, <2>1
  <2>3. After("outside", Colon) = "outside"
    BY MarksDiffer DEF After
  <2> QED
    BY <1>1, <1>3, <2>2, <2>3
<1>5. Len(ClaimText(claim)) = 4 + Len(ValueText(claim)) /\ Len(ValueText(claim)) \in Nat
  BY ClaimWhole
<1>6. \A k \in (i + 1)..(i + 3) : payload[k] = Q /\ state[k - 1] = "outside" => payload[k - 1] = Colon
  <2>1. payload[i + 3] # Q
    BY <1>1, MarksDiffer
  <2>2. \A k \in (i + 1)..(i + 3) : (k = i + 1 /\ k - 1 = i) \/ (k = i + 2 /\ k - 1 = i + 1) \/ k = i + 3
    OBVIOUS
  <2> QED
    BY <1>3, <2>1, <2>2
<1>7. CASE claim.digits \in Words /\ ValueText(claim) = <<claim.digits>>
  <2>1. PICK w \in Words : w = claim.digits
    BY <1>7
  <2>2. w \in Symbols /\ w # Q
    BY WordIsPlain, WordIsNoMark
  <2>3. Len(ValueText(claim)) = 1 /\ Occurs(payload, <<w>>, i + 4) /\ i + 4 \in Nat
    BY <1>1, <1>7, <2>1
  <2>4. i + 4 <= Len(payload) /\ payload[i + 4] = w
    BY <2>3, OccursOne
  <2>5. state[i + 4] = "outside"
    <3>1. i + 4 \in 1..Len(payload) /\ (i + 4) - 1 = i + 3
      BY <2>4
    <3>2. state[i + 4] = After(state[i + 3], payload[i + 4])
      BY <1>2, <3>1
    <3>3. After("outside", w) = "outside"
      BY <2>2 DEF After
    <3> QED
      BY <1>4, <2>4, <3>2, <3>3
  <2>6. i + Len(ClaimText(claim)) - 1 = i + 4
    BY <1>5, <2>3
  <2>7. \A k \in (i + 1)..(i + 4) : k \in (i + 1)..(i + 3) \/ k = i + 4
    OBVIOUS
  <2> QED
    BY <1>4, <1>6, <2>2, <2>4, <2>5, <2>6, <2>7 DEF state
<1>8. CASE \E text \in Seq(Symbols) : ValueText(claim) = Quoted(text)
  <2>1. PICK text \in Seq(Symbols) : ValueText(claim) = Quoted(text)
    BY <1>8
  <2> DEFINE L == Len(Escaped(text))
             p == i + 4
  <2>2. L \in Nat /\ Len(ValueText(claim)) = L + 2
    BY <2>1, QuotedWhole, EscapedWhole
  <2>3. p \in Nat \ {0} /\ p - 1 = i + 3 /\ Occurs(payload, Quoted(text), p)
    BY <1>1, <2>1
  <2> HIDE DEF p
  <2>4. state[p + 1 + L] = "outside" /\ \A k \in p..(p + L) : state[k] # "outside"
    BY <1>4, <2>3, ScanQuoted DEF state
  <2> HIDE DEF L
  <2>5. i + Len(ClaimText(claim)) - 1 = p + 1 + L
    BY <1>5, <2>2 DEF p
  <2>6. \A k \in (i + 1)..(p + 1 + L) : k \in (i + 1)..(i + 3) \/ k = p \/ k - 1 \in p..(p + L)
    BY <2>2 DEF p
  <2>7. payload[p - 1] = Colon
    BY <1>1, <2>3
  <2> QED
    BY <1>4, <1>6, <2>4, <2>5, <2>6, <2>7 DEF state
<1> QED
  BY <1>7, <1>8, ValueWhole

\* Where a claim is, and that a scan is outside of strings when it comes there
LEMMA ClaimsInPayload ==
  ASSUME NEW token \in Seq(Claim), NEW n \in 1..Len(token)
  PROVE  /\ ClaimAt(token, n) \in Nat /\ ClaimAt(token, n) >= 2
         /\ ClaimAt(token, n) + Len(ClaimText(token[n])) <= Len(Payload(token))
         /\ Occurs(Payload(token), ClaimText(token[n]), ClaimAt(token, n))
         /\ isMemberBoundary(Payload(token)[ClaimAt(token, n) - 1])
         /\ n # Len(token) =>
              /\ Payload(token)[ClaimAt(token, n) + Len(ClaimText(token[n]))] = Comma
              /\ ClaimAt(token, n + 1) = ClaimAt(token, n) + Len(ClaimText(token[n])) + 1
         /\ n = 1 => ClaimAt(token, n) = 2
<1>1. PICK parts : parts = ClaimTexts(token)
  OBVIOUS
<1>2. PICK payload : payload = Payload(token)
  OBVIOUS
<1>3. /\ parts \in Seq(Seq(Symbols)) /\ Len(parts) = Len(token) /\ parts[n] = ClaimText(token[n])
      /\ payload \in Seq(Symbols) /\ Len(payload) = Len(Joined(parts)) + 2
  BY <1>1, <1>2, TokenWhole
<1>4. Occurs(payload, Bracketed("{", parts, "}"), 1)
  BY <1>1, <1>2, <1>3, OccursWhole DEF Payload
<1>5. PICK p : p = 1 + 1 + Before(parts, n)
  OBVIOUS
<1>6. ClaimAt(token, n) = p /\ p >= 2 /\ Before(parts, n) \in Nat
  <2>1. Before(parts, n) \in Nat
    BY <1>3, BeforeParts
  <2> QED
    BY <1>1, <1>5, <2>1 DEF ClaimAt
<1>7. /\ p \in Nat /\ p + Len(parts[n]) <= 1 + Len(Joined(parts)) + 1
      /\ Occurs(payload, parts[n], p)
      /\ n = 1 => payload[p - 1] = "{"
      /\ n # 1 => payload[p - 1] = Comma
      /\ n # Len(parts) => payload[p + Len(parts[n])] = Comma
  <2>1. n \in 1..Len(parts) /\ 1 \in Nat
    BY <1>3
  <2>2. PICK x \in Symbols, y \in Symbols : x = "{" /\ y = "}"
    BY MarksAreSymbols
  <2>3. Occurs(payload, Bracketed(x, parts, y), 1)
    BY <1>4, <2>2
  <2>4. PICK i \in Nat : i = 1
    OBVIOUS
  <2>5. Occurs(payload, Bracketed(x, parts, y), i) /\ p = i + 1 + Before(parts, n)
    BY <1>5, <2>3, <2>4
  <2>6. /\ p \in Nat /\ p + Len(parts[n]) <= i + Len(Joined(parts)) + 1
        /\ Occurs(payload, parts[n], p)
        /\ n = 1 => payload[p - 1] = x
        /\ n # 1 => payload[p - 1] = Comma
        /\ n # Len(parts) => payload[p + Len(parts[n])] = Comma
    <3>1. parts \in Seq(Seq(Symbols)) /\ payload \in Seq(Symbols)
      BY <1>3
    <3>2. n \in 1..Len(parts)
      BY <2>1
    <3> QED
      BY <2>5, <3>1, <3>2, PartOfBracketed, SMTT(30)
  <2> QED
    BY <2>2, <2>4, <2>6
<1>8. isMemberBoundary(payload[p - 1])
  BY <1>7 DEF isMemberBoundary, Comma
<1>9. n # Len(token) => ClaimAt(token, n + 1) = p + Len(parts[n]) + 1
  <2> SUFFICES ASSUME n # Len(token) PROVE ClaimAt(token, n + 1) = p + Len(parts[n]) + 1
    OBVIOUS
  <2>1. n + 1 \in 1..Len(parts) /\ n \in 1..Len(parts)
    BY <1>3
  <2>2. PICK m : m = n + 1
    OBVIOUS
  <2>3. Before(parts, n) + Len(parts[n]) + 1 = Before(parts, m)
    BY <1>3, <2>1, <2>2, PartsInOrder
  <2>4. ClaimAt(token, m) = 2 + Before(parts, m)
    BY <1>1 DEF ClaimAt
  <2>5. PICK l \in Nat, b \in Nat : l = Len(parts[n]) /\ b = Before(parts, n)
    <3>1. parts[n] \in Seq(Symbols)
      BY <1>3, <2>1
    <3> QED
      BY <1>6, <3>1
  <2>c. PICK c : c = Before(parts, m)
    OBVIOUS
  <2>6. c = b + l + 1
    BY <2>3, <2>5, <2>c
  <2>7. p = 2 + b
    BY <1>5, <2>5
  <2>8. 2 + c = p + l + 1
    BY <2>6, <2>7
  <2> QED
    BY <2>2, <2>4, <2>5, <2>8, <2>c
<1>10. n = 1 => p = 2
  <2>1. n = 1 => Before(parts, n) = 0
    <3>1. n = 1 => Before(parts, n) = Span(Separated(parts), 0)
      <4>1. n = 1 => Before(parts, n) = Span(Separated(parts), n - 1) + Gap(n)
        BY <1>3, BeforeParts
      <4>2. n = 1 => Gap(n) = 0 /\ n - 1 = 0
        BY DEF Gap
      <4>3. Span(Separated(parts), 0) = 0
        BY <1>3, SeparatedParts, SpanParts
      <4> QED
        BY <4>1, <4>2, <4>3
    <3>2. Span(Separated(parts), 0) = 0
      BY <1>3, SeparatedParts, SpanParts
    <3> QED
      BY <3>1, <3>2
  <2> QED
    BY <1>5, <2>1
<1>11. Len(Joined(parts)) \in Nat /\ Len(parts[n]) \in Nat
  <2>1. n \in 1..Len(parts)
    BY <1>3
  <2>2. parts[n] \in Seq(Symbols)
    BY <1>3, <2>1
  <2> QED
    BY <1>3, <2>2, JoinedWhole
<1>12. p + Len(parts[n]) <= Len(payload)
  <2>1. PICK l \in Nat, j \in Nat : l = Len(parts[n]) /\ j = Len(Joined(parts))
    BY <1>11
  <2>2. Len(payload) = j + 2 /\ p + l <= 1 + j + 1
    BY <1>3, <1>7, <2>1
  <2>3. p \in Nat
    BY <1>7
  <2> QED
    BY <2>1, <2>2, <2>3
<1> QED
  BY <1>2, <1>3, <1>6, <1>7, <1>8, <1>9, <1>10, <1>12

\* The first of some positions
LEMMA FirstOf ==
  ASSUME NEW S \in SUBSET (Nat \ {0})
  PROVE  /\ First(S) \in Nat
         /\ First(S) = 0 <=> S = {}
         /\ S # {} => First(S) \in S /\ \A x \in S : First(S) <= x
<1>1. CASE S = {}
  BY <1>1 DEF First
<1>2. CASE S # {}
  <2> DEFINE Least(m) == m \in S /\ \A x \in S : m <= x
             R == OpToRel(<, Nat)
  <2>1. IsWellFoundedOn(R, Nat)
    BY NatLessThanWellFounded
  <2>2. PICK m \in S : \A y \in S : ~ (<<y, m>> \in R)
    <3> HIDE DEF R
    <3>1. S \subseteq Nat
      OBVIOUS
    <3> QED
      BY <1>2, <2>1, <3>1, WFMin
  <2>3. \A y \in S : ~ (y < m)
    BY <2>2 DEF OpToRel
  <2>4. Least(m)
    <3> HIDE DEF R
    <3> QED
      BY <2>3
  <2>5. Least(CHOOSE x \in S : \A y \in S : x <= y)
    BY <2>4
  <2>6. First(S) = CHOOSE x \in S : \A y \in S : x <= y
    BY <1>2 DEF First, Min
  <2> QED
    BY <1>2, <2>5, <2>6
<1> QED
  BY <1>1, <1>2

\* What the least member is, if one knows it
LEMMA FirstIs ==
  ASSUME NEW S \in SUBSET (Nat \ {0}), NEW m \in S, \A x \in S : m <= x
  PROVE  First(S) = m
<1>1. First(S) \in S /\ First(S) <= m /\ m <= First(S)
  BY FirstOf
<1>2. First(S) \in Nat /\ m \in Nat
  BY <1>1
<1> QED
  BY <1>1, <1>2

\* Where a claim begins, the scan is outside of strings.
LEMMA ScanAtClaim ==
  ASSUME NEW token \in Seq(Claim), NEW n \in 1..Len(token)
  PROVE  Scan(Payload(token))[ClaimAt(token, n) - 1] = "outside"
<1>1. PICK payload \in Seq(Symbols) : payload = Payload(token)
  BY TokenWhole
<1> DEFINE state == Scan(payload)
           Good == {k \in 1..Len(token) : state[ClaimAt(token, k) - 1] = "outside"}
<1>2. state[0] = "outside" /\ \A k \in 1..Len(payload) : state[k] = After(state[k - 1], payload[k])
  BY ScanSteps
<1>3. Len(token) \in Nat
  OBVIOUS
<1> HIDE DEF state
<1>4. 1 \in Good
  <2>1. 1 \in 1..Len(token)
    BY <1>3
  <2>2. /\ ClaimAt(token, 1) = 2
        /\ isMemberBoundary(payload[2 - 1])
        /\ 2 + Len(ClaimText(token[1])) <= Len(payload)
    BY <1>1, <2>1, ClaimsInPayload
  <2>3. Len(ClaimText(token[1])) \in Nat /\ Len(payload) \in Nat
    BY <2>1, ClaimWhole
  <2>4. 1 \in 1..Len(payload) /\ 2 - 1 = 1 /\ 1 - 1 = 0
    BY <2>2, <2>3
  <2>5. state[1] = After(state[0], payload[1])
    BY <1>2, <2>4
  <2>6. state[1] = "outside"
    BY <1>2, <2>2, <2>4, <2>5 DEF After, isMemberBoundary, Q
  <2> QED
    BY <2>1, <2>2, <2>4, <2>6
<1>5. ASSUME NEW k \in 1..n, k # n, k \in Good PROVE k + 1 \in Good
  <2>1. k \in 1..Len(token) /\ k # Len(token) /\ k + 1 \in 1..Len(token) /\ token[k] \in Claim
    BY <1>5
  <2>2. PICK p \in Nat : p = ClaimAt(token, k)
    BY <2>1, ClaimsInPayload
  <2>l. PICK l : l = Len(ClaimText(token[k]))
    OBVIOUS
  <2>3. l \in Nat /\ l >= 4 /\ Len(payload) \in Nat
    <3>1. /\ l = 4 + Len(ValueText(token[k])) /\ ValueText(token[k]) \in Seq(Symbols)
      BY <2>1, <2>l, ClaimWhole
    <3>2. Len(ValueText(token[k])) \in Nat
      BY <3>1
    <3> QED
      BY <3>1, <3>2
  <2>4. /\ p >= 2 /\ p + l <= Len(payload)
        /\ Occurs(payload, ClaimText(token[k]), p)
        /\ payload[p + l] = Comma
        /\ ClaimAt(token, k + 1) = p + l + 1
    BY <1>1, <2>1, <2>2, <2>l, ClaimsInPayload
  <2>5. state[p - 1] = "outside"
    BY <1>5, <2>2
  <2>6. state[p + l - 1] = "outside"
    <3>1. p \in Nat \ {0}
      BY <2>4
    <3> QED
      BY <2>1, <2>4, <2>5, <2>l, <3>1, ScanClaim DEF state
  <2>7. p + l \in 1..Len(payload) /\ (p + l + 1) - 1 = p + l
    BY <2>3, <2>4
  <2>8. state[p + l] = After(state[p + l - 1], payload[p + l])
    <3>1. PICK q \in 1..Len(payload) : q = p + l
      BY <2>7
    <3>2. q - 1 = p + l - 1
      BY <2>3, <3>1
    <3>3. state[q] = After(state[q - 1], payload[q])
      BY <1>2
    <3> QED
      BY <3>1, <3>2, <3>3
  <2>9. After("outside", Comma) = "outside"
    BY MarksDiffer DEF After
  <2>10. state[ClaimAt(token, k + 1) - 1] = "outside"
    BY <2>4, <2>6, <2>7, <2>8, <2>9
  <2> QED
    BY <2>1, <2>10
<1>6. n \in Good
  <2>1. n \in Nat \ {0}
    OBVIOUS
  <2> HIDE DEF Good
  <2> QED
    BY <1>4, <1>5, <2>1, FromOneTo
<1> QED
  BY <1>1, <1>6 DEF state

\* A quote that opens a string behind a brace or a comma begins a claim.
LEMMA TopLevelIsClaim ==
  ASSUME NEW token \in Seq(Claim), NEW i \in 2..Len(Payload(token)), Payload(token)[i] = Q,
         Scan(Payload(token))[i - 1] = "outside", isMemberBoundary(Payload(token)[i - 1])
  PROVE  \E n \in 1..Len(token) : i = ClaimAt(token, n)
<1>1. PICK payload \in Seq(Symbols) : payload = Payload(token)
  BY TokenWhole
<1>2. PICK parts : parts = ClaimTexts(token)
  OBVIOUS
<1>3. /\ parts \in Seq(Seq(Symbols)) /\ Len(parts) = Len(token)
      /\ \A n \in 1..Len(token) : token[n] \in Claim /\ parts[n] = ClaimText(token[n])
      /\ Len(payload) = Len(Joined(parts)) + 2
  BY <1>1, <1>2, TokenWhole
<1>4. PICK x \in Symbols, y \in Symbols : x = "{" /\ y = "}"
  BY MarksAreSymbols
<1>5. Occurs(payload, Bracketed(x, parts, y), 1)
  BY <1>1, <1>2, <1>4, OccursWhole DEF Payload
<1>6. PICK j \in Nat : j = Len(Joined(parts))
  BY <1>3, JoinedWhole
<1>7. PICK o \in Nat : o = 1
  OBVIOUS
<1>8. /\ payload[o + j + 1] = y
      /\ \/ i = o
         \/ i = o + j + 1
         \/ payload[i] = Comma
         \/ \E n \in 1..Len(parts) :
              o + 1 + Before(parts, n) <= i /\ i < o + 1 + Before(parts, n) + Len(parts[n])
  <2>1. Occurs(payload, Bracketed(x, parts, y), o)
    BY <1>5, <1>7
  <2>2. i \in o..(o + Len(Joined(parts)) + 1)
    BY <1>1, <1>3, <1>6, <1>7
  <2>3. parts \in Seq(Seq(Symbols))
    BY <1>3
  <2>4. payload[o + Len(Joined(parts)) + 1] = y
    BY <2>1, <2>3, OccursBracketed
  <2>5. \/ i = o
        \/ i = o + Len(Joined(parts)) + 1
        \/ payload[i] = Comma
        \/ \E n \in 1..Len(parts) :
             o + 1 + Before(parts, n) <= i /\ i < o + 1 + Before(parts, n) + Len(parts[n])
    BY <2>1, <2>2, <2>3, SymbolOfBracketed
  <2> QED
    BY <1>6, <2>4, <2>5
<1>9. payload[i] # Comma /\ payload[i] # y /\ i # o
  <2>1. payload[i] = Q /\ i # o
    BY <1>1, <1>7
  <2>2. Q # Comma /\ Q # y
    BY <1>4, MarksDiffer
  <2> QED
    BY <2>1, <2>2
<1>10. PICK n \in 1..Len(parts) :
         o + 1 + Before(parts, n) <= i /\ i < o + 1 + Before(parts, n) + Len(parts[n])
  BY <1>8, <1>9
<1>11. n \in 1..Len(token) /\ token[n] \in Claim /\ parts[n] = ClaimText(token[n])
  BY <1>3
<1>12. PICK p \in Nat, l \in Nat : p = ClaimAt(token, n) /\ l = Len(parts[n])
  <2>1. ClaimAt(token, n) \in Nat /\ Len(parts[n]) \in Nat
    BY <1>11, ClaimsInPayload, ClaimWhole
  <2> QED
    BY <2>1
<1>13. p <= i /\ i < p + l
  <2>1. PICK b \in Nat : b = Before(parts, n)
    BY <1>3, BeforeParts
  <2>2. p = 2 + b
    BY <1>2, <1>12, <2>1 DEF ClaimAt
  <2>3. o + 1 + b <= i /\ i < o + 1 + b + l
    BY <1>10, <1>12, <2>1
  <2> QED
    BY <1>7, <2>2, <2>3
<1>14. CASE i # p
  <2>1. p >= 2 /\ Occurs(payload, ClaimText(token[n]), p)
    BY <1>1, <1>11, <1>12, ClaimsInPayload
  <2>2. Scan(payload)[p - 1] = "outside"
    BY <1>1, <1>11, <1>12, ScanAtClaim
  <2>3. p \in Nat \ {0} /\ i \in (p + 1)..(p + l - 1)
    BY <1>12, <1>13, <1>14, <2>1, SMTT(30)
  <2>4. \A k \in (p + 1)..(p + l - 1) :
          payload[k] = Q /\ Scan(payload)[k - 1] = "outside" => payload[k - 1] = Colon
    BY <1>11, <1>12, <2>1, <2>2, <2>3, ScanClaim, ZenonT(60)
  <2>5. payload[i - 1] = Colon
    BY <1>1, <2>3, <2>4
  <2> QED
    BY <1>1, <2>5 DEF isMemberBoundary, Colon
<1> QED
  BY <1>11, <1>12, <1>14

\* A key at the top level is found where its claim is.
LEMMA FindsClaims ==
  ASSUME NEW token \in Seq(Claim), NEW key,
         NEW found, found = findTopLevel(Payload(token), stringMap(Payload(token)), key)
  PROVE  /\ found \in Nat
         /\ found # 0 => \E n \in 1..Len(token) : found = ClaimAt(token, n) /\ Occurs(Payload(token), key, found)
         /\ found = 0 => \A n \in 1..Len(token) : ~ Occurs(Payload(token), key, ClaimAt(token, n))
<1>1. PICK payload \in Seq(Symbols) : payload = Payload(token)
  BY TokenWhole
<1> DEFINE hits == {i \in 2..Len(payload) :
                      payload[i] = Q /\ Occurs(payload, key, i) /\ ~ stringMap(payload)[i] /\ isMemberBoundary(payload[i - 1])}
<1>2. found = First(hits)
  BY <1>1 DEF findTopLevel
<1>3. Len(payload) \in Nat /\ DOMAIN payload = 1..Len(payload)
  OBVIOUS
<1>4. hits \in SUBSET (Nat \ {0})
  BY <1>3
<1>5. \A i \in 2..Len(payload) : stringMap(payload)[i] <=> Scan(payload)[i - 1] # "outside"
  <2>1. \A i \in 2..Len(payload) : i \in DOMAIN payload
    BY <1>3
  <2> QED
    BY <2>1 DEF stringMap
<1>6. found \in Nat /\ (found = 0 <=> hits = {}) /\ (hits # {} => found \in hits)
  <2> HIDE DEF hits
  <2> QED
    BY <1>2, <1>4, FirstOf
<1>7. ASSUME found # 0
      PROVE  \E n \in 1..Len(token) : found = ClaimAt(token, n) /\ Occurs(payload, key, found)
  <2>1. found \in hits
    BY <1>6, <1>7
  <2>2. /\ found \in 2..Len(payload) /\ payload[found] = Q /\ Occurs(payload, key, found)
        /\ Scan(payload)[found - 1] = "outside" /\ isMemberBoundary(payload[found - 1])
    BY <1>5, <2>1
  <2> HIDE DEF hits
  <2> QED
    BY <1>1, <2>2, TopLevelIsClaim
<1>8. ASSUME found = 0, NEW n \in 1..Len(token), Occurs(payload, key, ClaimAt(token, n))
      PROVE  FALSE
  <2>1. PICK p \in Nat : p = ClaimAt(token, n)
    BY ClaimsInPayload
  <2>2. /\ p >= 2 /\ Occurs(payload, ClaimText(token[n]), p) /\ isMemberBoundary(payload[p - 1])
    BY <1>1, <2>1, ClaimsInPayload
  <2>3. token[n] \in Claim
    OBVIOUS
  <2>4. payload[p] = Q /\ p + 3 <= Len(payload)
    BY <2>2, <2>3, OccursClaim
  <2>5. Scan(payload)[p - 1] = "outside"
    BY <1>1, <2>1, ScanAtClaim
  <2>6. p \in 2..Len(payload)
    BY <1>3, <2>2, <2>4
  <2>7. p \in hits
    BY <1>5, <1>8, <2>1, <2>2, <2>4, <2>5, <2>6
  <2> HIDE DEF hits
  <2> QED
    BY <1>6, <1>8, <2>7
<1> QED
  BY <1>1, <1>6, <1>7, <1>8

\* The linked accounts end with the quote that closes them.
LEMMA LaEndIsTheEnd ==
  ASSUME NEW text \in Seq(Symbols), NEW payload \in Seq(Symbols), NEW i \in Nat \ {0},
         Occurs(payload, Quoted(text), i), Scan(payload)[i - 1] = "outside"
  PROVE  LaEnd(payload, stringMap(payload), i + 1) = i + Len(Escaped(text)) + 2
<1> DEFINE L == Len(Escaped(text))
           ends == {k \in (i + 1)..(Len(payload) + 1) : k > Len(payload) \/ ~ stringMap(payload)[k]}
<1>1. L \in Nat /\ Len(payload) \in Nat /\ DOMAIN payload = 1..Len(payload)
  BY EscapedWhole
<1>2. /\ Scan(payload)[i + 1 + L] = "outside"
      /\ \A k \in i..(i + L) : Scan(payload)[k] # "outside"
      /\ i + 1 + L <= Len(payload)
  BY ScanQuoted, OccursQuoted
<1>3. LaEnd(payload, stringMap(payload), i + 1) = First(ends)
  BY DEF LaEnd
<1> HIDE DEF L
<1>4. \A k \in 1..Len(payload) : stringMap(payload)[k] <=> Scan(payload)[k - 1] # "outside"
  BY <1>1 DEF stringMap
<1>5. PICK m \in Nat : m = i + L + 2
  BY <1>1
<1>6. m \in ends
  <2>1. m \in (i + 1)..(Len(payload) + 1)
    BY <1>1, <1>2, <1>5
  <2>2. m > Len(payload) \/ m \in 1..Len(payload)
    BY <1>1, <1>5
  <2>3. m - 1 = i + 1 + L
    BY <1>1, <1>5
  <2>4. Scan(payload)[m - 1] = "outside"
    BY <1>2, <2>3
  <2> QED
    BY <1>4, <2>1, <2>2, <2>4
<1>7. ASSUME NEW k \in ends PROVE m <= k
  <2> SUFFICES ASSUME k < m PROVE FALSE
    BY <1>1, <1>5
  <2>1. k \in (i + 1)..(i + 1 + L) /\ k \in 1..Len(payload) /\ k - 1 \in i..(i + L)
    BY <1>1, <1>2, <1>5
  <2>2. Scan(payload)[k - 1] # "outside"
    BY <1>2, <2>1
  <2> QED
    BY <1>1, <1>4, <2>1, <2>2
<1>8. ends \in SUBSET (Nat \ {0})
  BY <1>1
<1>9. First(ends) = m
  <2> HIDE DEF ends
  <2> QED
    BY <1>6, <1>7, <1>8, FirstIs
<1> QED
  BY <1>3, <1>5, <1>9 DEF L

\* What the searches for a key look for
LEMMA OccursFour ==
  ASSUME NEW hay \in Seq(Symbols), NEW i \in Nat, NEW a, NEW b, NEW c, NEW d
  PROVE  Occurs(hay, <<a, b, c, d>>, i) <=>
           i + 3 <= Len(hay) /\ hay[i] = a /\ hay[i + 1] = b /\ hay[i + 2] = c /\ hay[i + 3] = d
<1> DEFINE p == <<a, b, c, d>>
<1>1. /\ Len(p) = 4 /\ DOMAIN p = {1, 2, 3, 4}
      /\ p[1] = a /\ p[2] = b /\ p[3] = c /\ p[4] = d
  OBVIOUS
<1>2. i + 4 - 1 = i + 3 /\ i + 1 - 1 = i /\ i + 2 - 1 = i + 1 /\ i + 3 - 1 = i + 2
  OBVIOUS
<1> HIDE DEF p
<1>3. Occurs(hay, p, i) <=> i + 3 <= Len(hay) /\ hay[i] = a /\ hay[i + 1] = b /\ hay[i + 2] = c /\ hay[i + 3] = d
  BY <1>1, <1>2 DEF Occurs
<1> QED
  BY <1>3 DEF p

\* The same for five symbols
LEMMA OccursFive ==
  ASSUME NEW hay \in Seq(Symbols), NEW i \in Nat, NEW a, NEW b, NEW c, NEW d, NEW e
  PROVE  Occurs(hay, <<a, b, c, d, e>>, i) <=>
           /\ i + 4 <= Len(hay)
           /\ hay[i] = a /\ hay[i + 1] = b /\ hay[i + 2] = c /\ hay[i + 3] = d /\ hay[i + 4] = e
<1> DEFINE p == <<a, b, c, d, e>>
<1>1. /\ Len(p) = 5 /\ DOMAIN p = {1, 2, 3, 4, 5}
      /\ p[1] = a /\ p[2] = b /\ p[3] = c /\ p[4] = d /\ p[5] = e
  OBVIOUS
<1>2. i + 5 - 1 = i + 4 /\ i + 1 - 1 = i /\ i + 2 - 1 = i + 1 /\ i + 3 - 1 = i + 2 /\ i + 4 - 1 = i + 3
  OBVIOUS
<1> HIDE DEF p
<1>3. Occurs(hay, p, i) <=>
        /\ i + 4 <= Len(hay)
        /\ hay[i] = a /\ hay[i + 1] = b /\ hay[i + 2] = c /\ hay[i + 3] = d /\ hay[i + 4] = e
  BY <1>1, <1>2 DEF Occurs
<1> QED
  BY <1>3 DEF p

-----------------------------------------------------------------------------
(* What is written in an escaped text *)

\* Where symbol j of a text is, in what holds its escaped form from base on
Spot(base, text, j) == base + Ahead(text, j)

\* Every symbol of an escaped text has its spot, one or two symbols wide.
LEMMA Spots ==
  ASSUME NEW text \in Seq(Symbols), NEW base \in Nat
  PROVE  /\ \A j \in 1..(Len(text) + 1) : Spot(base, text, j) \in Nat /\ base <= Spot(base, text, j)
         /\ Spot(base, text, 1) = base
         /\ Spot(base, text, Len(text) + 1) = base + Len(Escaped(text))
         /\ \A j \in 1..Len(text) : /\ Spot(base, text, j) < Spot(base, text, j + 1)
                                    /\ Spot(base, text, j + 1) <= base + Len(Escaped(text))
<1>1. /\ Len(Escaped(text)) = Ahead(text, Len(text) + 1)
      /\ Ahead(text, 1) = 0
      /\ \A j \in 1..(Len(text) + 1) : Ahead(text, j) \in Nat
      /\ \A j \in 1..Len(text) :
           Ahead(text, j + 1) = Ahead(text, j) + (IF Special(text[j]) THEN 2 ELSE 1)
  BY EscapedWhole, Zenon
<1>2. Len(text) \in Nat
  OBVIOUS
<1>3. ASSUME NEW j \in 1..(Len(text) + 1)
      PROVE  Spot(base, text, j) \in Nat /\ base <= Spot(base, text, j)
  BY <1>1 DEF Spot
<1>4. Spot(base, text, 1) = base
  BY <1>1 DEF Spot
<1>5. Spot(base, text, Len(text) + 1) = base + Len(Escaped(text))
  BY <1>1 DEF Spot
<1>6. ASSUME NEW j \in 1..Len(text)
      PROVE  /\ Spot(base, text, j) < Spot(base, text, j + 1)
             /\ Spot(base, text, j + 1) <= base + Len(Escaped(text))
  <2>1. PICK m \in 1..(Len(text) + 1) : m = j + 1
    BY <1>2
  <2>2. j \in 1..(Len(text) + 1)
    BY <1>2
  <2>3. Ahead(text, m) = Ahead(text, j) + 2 \/ Ahead(text, m) = Ahead(text, j) + 1
    BY <1>1, <2>1
  <2>4. Spot(base, text, j) < Spot(base, text, m)
    BY <1>1, <2>2, <2>3 DEF Spot
  <2>5. Ahead(text, m) <= Ahead(text, Len(text) + 1)
    <3>1. /\ EscapedSymbols(text) \in Seq(Seq(Symbols)) /\ Len(EscapedSymbols(text)) = Len(text)
      BY EscapedPieces
    <3>2. PICK parts \in Seq(Seq(Symbols)) : parts = EscapedSymbols(text) /\ Len(parts) = Len(text)
      BY <3>1
    <3>3. PICK k \in 0..Len(parts), l \in 0..Len(parts) : k = m - 1 /\ l = (Len(text) + 1) - 1 /\ k <= l
      <4>1. m - 1 \in 0..Len(text) /\ (Len(text) + 1) - 1 \in 0..Len(text) /\ m - 1 <= (Len(text) + 1) - 1
        BY <1>2
      <4> QED
        BY <3>2, <4>1
    <3>4. Span(parts, k) <= Span(parts, l)
      BY <3>3, SpanGrows
    <3> QED
      BY <3>2, <3>3, <3>4 DEF Ahead
  <2>6. Spot(base, text, m) <= base + Len(Escaped(text))
    <3>1. Len(text) + 1 \in 1..(Len(text) + 1)
      BY <1>2
    <3>2. PICK x \in Nat, y \in Nat : x = Ahead(text, m) /\ y = Ahead(text, Len(text) + 1)
      BY <1>1, <3>1
    <3>3. x <= y
      BY <2>5, <3>2
    <3>4. base + x <= base + y
      BY <3>3
    <3> QED
      BY <1>1, <3>2, <3>4 DEF Spot
  <2> QED
    BY <2>1, <2>4, <2>6
<1> QED
  BY <1>3, <1>4, <1>5, <1>6

\* Symbols keep their order, and a place tells the symbol.
LEMMA SpotsGrow ==
  ASSUME NEW text \in Seq(Symbols), NEW base \in Nat,
         NEW j \in 1..(Len(text) + 1), NEW k \in 1..(Len(text) + 1)
  PROVE  /\ j <= k <=> Spot(base, text, j) <= Spot(base, text, k)
         /\ j = k <=> Spot(base, text, j) = Spot(base, text, k)
<1>1. Len(text) \in Nat
  OBVIOUS
<1>2. /\ \A x \in 1..(Len(text) + 1) : Spot(base, text, x) \in Nat
      /\ \A x \in 1..Len(text) : Spot(base, text, x) < Spot(base, text, x + 1)
  BY Spots
<1>3. ASSUME NEW x \in 1..(Len(text) + 1), NEW y \in 1..(Len(text) + 1), x < y
      PROVE  Spot(base, text, x) < Spot(base, text, y)
  <2> DEFINE Good == {d \in 1..(y - x) : Spot(base, text, x) < Spot(base, text, x + d)}
  <2>1. 1 \in Good
    <3>1. x \in 1..Len(text) /\ 1 \in 1..(y - x)
      BY <1>1, <1>3
    <3> QED
      BY <1>2, <3>1
  <2>2. ASSUME NEW d \in 1..(y - x), d # y - x, d \in Good PROVE d + 1 \in Good
    <3>1. /\ x + d \in 1..Len(text) /\ d + 1 \in 1..(y - x) /\ x + (d + 1) = (x + d) + 1
          /\ x + d \in 1..(Len(text) + 1) /\ (x + d) + 1 \in 1..(Len(text) + 1)
      BY <1>1, <2>2
    <3>2. Spot(base, text, x + d) < Spot(base, text, (x + d) + 1)
      BY <1>2, <3>1
    <3>3. Spot(base, text, x) < Spot(base, text, x + d)
      BY <2>2
    <3>4. /\ Spot(base, text, x) \in Nat /\ Spot(base, text, x + d) \in Nat
          /\ Spot(base, text, (x + d) + 1) \in Nat
      BY <1>2, <3>1
    <3>5. Spot(base, text, x) < Spot(base, text, (x + d) + 1)
      BY <3>2, <3>3, <3>4
    <3> QED
      BY <3>1, <3>5
  <2>3. y - x \in Good
    <3>1. y - x \in Nat \ {0}
      BY <1>3
    <3> HIDE DEF Good
    <3> QED
      BY <2>1, <2>2, <3>1, FromOneTo
  <2>4. x + (y - x) = y
    OBVIOUS
  <2> QED
    BY <2>3, <2>4
<1>4. Spot(base, text, j) \in Nat /\ Spot(base, text, k) \in Nat
  BY <1>2
<1>5. (j < k => Spot(base, text, j) < Spot(base, text, k)) /\ (k < j => Spot(base, text, k) < Spot(base, text, j))
  BY <1>3
<1>6. j \in Nat /\ k \in Nat
  OBVIOUS
<1> QED
  BY <1>4, <1>5, <1>6

\* What is at the place of a symbol
LEMMA AtSpot ==
  ASSUME NEW text \in Seq(Symbols), NEW hay \in Seq(Symbols), NEW base \in Nat,
         Occurs(hay, Escaped(text), base), NEW j \in 1..Len(text), NEW p, p = Spot(base, text, j)
  PROVE  /\ hay[p] = "\\" <=> Special(text[j])
         /\ Special(text[j]) => hay[p + 1] = text[j] /\ Spot(base, text, j + 1) = p + 2
         /\ ~ Special(text[j]) => hay[p] = text[j] /\ Spot(base, text, j + 1) = p + 1
         /\ hay[Spot(base, text, j + 1) - 1] = text[j]
<1>1. p \in Nat
  <2>1. j \in 1..(Len(text) + 1)
    OBVIOUS
  <2> QED
    BY <2>1, Spots
<1>2. p = base + Ahead(text, j)
  BY DEF Spot
<1>3. /\ Special(text[j]) => hay[p] = "\\" /\ hay[p + 1] = text[j] /\ p + 2 = base + Ahead(text, j + 1)
      /\ ~ Special(text[j]) => hay[p] = text[j] /\ p + 1 = base + Ahead(text, j + 1)
  BY <1>2, EscapedSymbol
<1>4. ~ Special(text[j]) => text[j] # "\\"
  BY DEF Special
<1>5. /\ Special(text[j]) => Spot(base, text, j + 1) = p + 2
      /\ ~ Special(text[j]) => Spot(base, text, j + 1) = p + 1
  BY <1>3 DEF Spot
<1>6. (p + 2) - 1 = p + 1 /\ (p + 1) - 1 = p
  BY <1>1
<1> QED
  BY <1>3, <1>4, <1>5, <1>6

\* Every place of an escaped text is that of a symbol or the one after the backslash of one.
LEMMA SomeSpot ==
  ASSUME NEW text \in Seq(Symbols), NEW base \in Nat, NEW i \in base..(base + Len(Escaped(text)) - 1)
  PROVE  \E j \in 1..Len(text) :
           \/ i = Spot(base, text, j)
           \/ Special(text[j]) /\ i = Spot(base, text, j) + 1
<1>1. PICK parts \in Seq(Seq(Symbols)) : parts = EscapedSymbols(text) /\ Len(parts) = Len(text)
  BY EscapedPieces
<1>2. Len(text) \in Nat /\ Len(Escaped(text)) = Ahead(text, Len(text) + 1) /\ Len(Escaped(text)) \in Nat
  BY EscapedWhole
<1>3. PICK n \in 0..Len(parts) : n = Len(text) /\ n = (Len(text) + 1) - 1
  BY <1>1, <1>2
<1>4. Span(parts, n) = Len(Escaped(text))
  BY <1>1, <1>2, <1>3 DEF Ahead
<1>5. PICK k \in 1..Span(parts, n) : k = i - base + 1
  BY <1>2, <1>4
<1>6. PICK j \in 1..n : Span(parts, j - 1) < k /\ k <= Span(parts, j)
  BY SomePart
<1>7. PICK m \in 1..(Len(text) + 1) : m = j + 1 /\ m - 1 = j
  BY <1>2, <1>3
<1>8. /\ j \in 1..Len(text) /\ Ahead(text, j) \in Nat
      /\ Ahead(text, j + 1) = Ahead(text, j) + (IF Special(text[j]) THEN 2 ELSE 1)
  <2>1. j \in 1..Len(text) /\ j \in 1..(Len(text) + 1)
    BY <1>2, <1>3
  <2> QED
    BY <2>1, EscapedWhole
<1>9. Ahead(text, j) < k /\ k <= Ahead(text, j + 1)
  BY <1>1, <1>6, <1>7 DEF Ahead
<1>10. PICK x \in Nat : x = Ahead(text, j)
  BY <1>8
<1>11. i = base + x \/ (Special(text[j]) /\ i = base + x + 1)
  <2>1. CASE Special(text[j])
    <3>1. x < k /\ k <= x + 2
      BY <1>8, <1>9, <1>10, <2>1
    <3> QED
      BY <1>5, <2>1, <3>1
  <2>2. CASE ~ Special(text[j])
    <3>1. x < k /\ k <= x + 1
      BY <1>8, <1>9, <1>10, <2>2
    <3> QED
      BY <1>5, <3>1
  <2> QED
    BY <2>1, <2>2
<1> QED
  BY <1>8, <1>10, <1>11 DEF Spot

\* A member with one word for its text, written in a text at j
Names(text, j, key, word) ==
  /\ j + 6 <= Len(text)
  /\ text[j] = Q /\ text[j + 1] = key /\ text[j + 2] = Q /\ text[j + 3] = Colon
  /\ text[j + 4] = Q /\ text[j + 5] = word /\ text[j + 6] = Q

\* An escaped name is five symbols.
LEMMA EscWhole ==
  ASSUME NEW w \in Words PROVE esc(w) \in Seq(Symbols) /\ Len(esc(w)) = 5
<1>1. "\\" \in Symbols /\ Q \in Symbols /\ w \in Symbols
  BY WordIsPlain DEF Symbols, Structure
<1>2. PICK b \in Symbols : b = "\\"
  BY <1>1
<1>3. <<b, Q, w, b, Q>> \in Seq(Symbols) /\ Len(<<b, Q, w, b, Q>>) = 5
  BY <1>1
<1> QED
  BY <1>2, <1>3 DEF esc

\* Where the pattern of a member occurs
LEMMA OccursPattern ==
  ASSUME NEW hay \in Seq(Symbols), NEW i \in Nat, NEW key \in Words, NEW word \in Words
  PROVE  /\ Len(MemberPattern(key, word)) = 11
         /\ Occurs(hay, MemberPattern(key, word), i) <=>
              /\ i + 10 <= Len(hay)
              /\ hay[i] = "\\" /\ hay[i + 1] = Q /\ hay[i + 2] = key /\ hay[i + 3] = "\\" /\ hay[i + 4] = Q
              /\ hay[i + 5] = Colon
              /\ hay[i + 6] = "\\" /\ hay[i + 7] = Q /\ hay[i + 8] = word /\ hay[i + 9] = "\\" /\ hay[i + 10] = Q
<1>1. PICK s \in Seq(Symbols), t \in Seq(Symbols), c \in Seq(Symbols) :
        /\ s = esc(key) /\ Len(s) = 5 /\ t = esc(word) /\ Len(t) = 5
        /\ c = <<Colon>> /\ Len(c) = 1
  BY EscWhole, MarksAreSymbols, OneSymbol
<1>2. MemberPattern(key, word) = (s \o c) \o t
  BY <1>1 DEF MemberPattern, Colon
<1>3. s \o c \in Seq(Symbols) /\ Len(s \o c) = 6
  <2>1. s \o c \in Seq(Symbols) /\ Len(s \o c) = Len(s) + Len(c)
    BY ConcatProperties, Zenon
  <2> QED
    BY <1>1, <2>1
<1>4. PICK sc \in Seq(Symbols) : sc = s \o c /\ Len(sc) = 6
  BY <1>3
<1>5. Len(MemberPattern(key, word)) = 11
  <2>1. Len(sc \o t) = Len(sc) + Len(t)
    BY ConcatProperties, Zenon
  <2> QED
    BY <1>1, <1>2, <1>4, <2>1
<1>6. Occurs(hay, sc \o t, i) <=> Occurs(hay, sc, i) /\ Occurs(hay, t, i + 6)
  BY <1>4, OccursBoth
<1>7. Occurs(hay, sc, i) <=> Occurs(hay, s, i) /\ Occurs(hay, c, i + 5)
  BY <1>1, <1>4, OccursBoth
<1>8. Occurs(hay, c, i + 5) <=> i + 5 <= Len(hay) /\ hay[i + 5] = Colon
  BY <1>1, OccursOne
<1>9. Occurs(hay, s, i) <=>
        /\ i + 4 <= Len(hay)
        /\ hay[i] = "\\" /\ hay[i + 1] = Q /\ hay[i + 2] = key /\ hay[i + 3] = "\\" /\ hay[i + 4] = Q
  BY <1>1, OccursFive DEF esc
<1>10. Occurs(hay, t, i + 6) <=>
         /\ i + 10 <= Len(hay)
         /\ hay[i + 6] = "\\" /\ hay[i + 7] = Q /\ hay[i + 8] = word /\ hay[i + 9] = "\\" /\ hay[i + 10] = Q
  <2>1. PICK k \in Nat : k = i + 6
    OBVIOUS
  <2>2. /\ k + 1 = i + 7 /\ k + 2 = i + 8 /\ k + 3 = i + 9 /\ k + 4 = i + 10
    BY <2>1
  <2>3. Occurs(hay, t, k) <=>
          /\ k + 4 <= Len(hay)
          /\ hay[k] = "\\" /\ hay[k + 1] = Q /\ hay[k + 2] = word /\ hay[k + 3] = "\\" /\ hay[k + 4] = Q
    BY <1>1, OccursFive DEF esc
  <2> QED
    BY <2>1, <2>2, <2>3
<1>11. i + 10 <= Len(hay) => i + 4 <= Len(hay) /\ i + 5 <= Len(hay)
  OBVIOUS
<1> QED
  BY <1>2, <1>4, <1>5, <1>6, <1>7, <1>8, <1>9, <1>10, <1>11

\* A place before the end of the escaped text is before the end of the text.
LEMMA SpotInside ==
  ASSUME NEW text \in Seq(Symbols), NEW base \in Nat, NEW j \in 1..(Len(text) + 1),
         Spot(base, text, j) < base + Len(Escaped(text))
  PROVE  j \in 1..Len(text) /\ j + 1 \in 1..(Len(text) + 1)
<1>1. Spot(base, text, Len(text) + 1) = base + Len(Escaped(text)) /\ Spot(base, text, j) \in Nat
  BY Spots
<1>2. j # Len(text) + 1
  BY <1>1
<1> QED
  BY <1>2

\* What is read from a backslash on, and from another symbol on
LEMMA ReadSpecial ==
  ASSUME NEW text \in Seq(Symbols), NEW hay \in Seq(Symbols), NEW base \in Nat,
         Occurs(hay, Escaped(text), base), NEW j \in 1..(Len(text) + 1),
         NEW p \in Nat, p = Spot(base, text, j), p < base + Len(Escaped(text)), hay[p] = "\\"
  PROVE  /\ j <= Len(text) /\ j + 1 \in 1..(Len(text) + 1)
         /\ text[j] = hay[p + 1] /\ Spot(base, text, j + 1) = p + 2
<1>1. j \in 1..Len(text) /\ j + 1 \in 1..(Len(text) + 1)
  BY SpotInside
<1> QED
  BY <1>1, AtSpot

\* A symbol that needs no escape is read as it is.
LEMMA ReadPlain ==
  ASSUME NEW text \in Seq(Symbols), NEW hay \in Seq(Symbols), NEW base \in Nat,
         Occurs(hay, Escaped(text), base), NEW j \in 1..(Len(text) + 1),
         NEW p \in Nat, p = Spot(base, text, j), p < base + Len(Escaped(text)), hay[p] # "\\"
  PROVE  /\ j <= Len(text) /\ j + 1 \in 1..(Len(text) + 1)
         /\ text[j] = hay[p] /\ ~ Special(text[j]) /\ Spot(base, text, j + 1) = p + 1
<1>1. j \in 1..Len(text) /\ j + 1 \in 1..(Len(text) + 1)
  BY SpotInside
<1> QED
  BY <1>1, AtSpot

\* The pattern of a member occurs only where the text names it.
LEMMA PatternIsNamed ==
  ASSUME NEW text \in Seq(Symbols), NEW hay \in Seq(Symbols), NEW base \in Nat,
         Occurs(hay, Escaped(text), base), NEW key \in Words, NEW word \in Words,
         NEW i \in Nat, Occurs(hay, MemberPattern(key, word), i),
         base <= i, i + 10 < base + Len(Escaped(text))
  PROVE  \E j \in 1..Len(text) : i = Spot(base, text, j) /\ Names(text, j, key, word)
<1>1. PICK e \in Nat : e = base + Len(Escaped(text))
  BY EscapedWhole
<1>2. PICK b : b = "\\"
  OBVIOUS
<1>3. /\ hay[i] = b /\ hay[i + 1] = Q /\ hay[i + 2] = key /\ hay[i + 3] = b /\ hay[i + 4] = Q
      /\ hay[i + 5] = Colon
      /\ hay[i + 6] = b /\ hay[i + 7] = Q /\ hay[i + 8] = word /\ hay[i + 9] = b /\ hay[i + 10] = Q
  <2>1. Occurs(hay, MemberPattern(key, word), i) =>
          /\ hay[i] = "\\" /\ hay[i + 1] = Q /\ hay[i + 2] = key /\ hay[i + 3] = "\\" /\ hay[i + 4] = Q
          /\ hay[i + 5] = Colon
          /\ hay[i + 6] = "\\" /\ hay[i + 7] = Q /\ hay[i + 8] = word /\ hay[i + 9] = "\\" /\ hay[i + 10] = Q
    BY OccursPattern
  <2> QED
    BY <1>2, <2>1, Zenon
<1>4. /\ Q # b /\ key # b /\ Colon # b /\ word # b
      /\ ~ Special(key) /\ ~ Special(word) /\ Special(Q) /\ ~ Special(Colon)
  BY <1>2, MarksDiffer, WordIsNoMark, WordIsPlain DEF Special
<1>5. PICK j \in 1..Len(text) :
        \/ i = Spot(base, text, j)
        \/ Special(text[j]) /\ i = Spot(base, text, j) + 1
  <2>1. i \in base..(base + Len(Escaped(text)) - 1)
    <3>1. i + 10 < e /\ base <= i /\ e = base + Len(Escaped(text)) /\ Len(Escaped(text)) \in Nat
      BY <1>1, EscapedWhole
    <3> QED
      BY <3>1
  <2> QED
    BY <2>1, SomeSpot
<1>6. Len(text) \in Nat /\ j \in 1..(Len(text) + 1) /\ j + 1 \in 1..(Len(text) + 1) /\ j \in Nat
  OBVIOUS
<1>7. i = Spot(base, text, j)
  <2> SUFFICES ASSUME Special(text[j]), i = Spot(base, text, j) + 1 PROVE FALSE
    BY <1>5
  <2>1. PICK p \in Nat : p = Spot(base, text, j) /\ i = p + 1
    BY <1>6, Spots
  <2>2. text[j] = b /\ Spot(base, text, j + 1) = p + 2
    <3>1. hay[p + 1] = text[j] /\ Spot(base, text, j + 1) = p + 2
      BY <2>1, AtSpot, SMTT(30)
    <3> QED
      BY <1>3, <2>1, <3>1
  <2>3. p + 2 = i + 1 /\ p + 2 \in Nat /\ i + 1 < e
    BY <1>1, <2>1, SMTT(30)
  <2>4. hay[p + 2] # "\\" /\ hay[p + 2] = Q
    BY <1>2, <1>3, <1>4, <2>3
  <2>5. text[j + 1] = Q /\ ~ Special(text[j + 1])
    <3>1. PICK k \in 1..(Len(text) + 1), q \in Nat : k = j + 1 /\ q = p + 2
      BY <1>6, <2>3
    <3>2. q = Spot(base, text, k) /\ q < base + Len(Escaped(text)) /\ hay[q] # "\\" /\ hay[q] = Q
      BY <1>1, <2>2, <2>3, <2>4, <3>1
    <3>3. text[k] = hay[q] /\ ~ Special(text[k])
      BY <3>2, ReadPlain, SMTT(30)
    <3> QED
      BY <3>1, <3>2, <3>3
  <2> QED
    BY <1>4, <2>5
<1>8. /\ i < e /\ i + 2 < e /\ i + 3 < e /\ i + 5 < e /\ i + 6 < e /\ i + 8 < e /\ i + 9 < e
  BY <1>1
<1>9. ASSUME NEW k \in 1..(Len(text) + 1), NEW p \in Nat, p = Spot(base, text, k), p < e, hay[p] = b
      PROVE  k <= Len(text) /\ k + 1 \in 1..(Len(text) + 1) /\ text[k] = hay[p + 1] /\ Spot(base, text, k + 1) = p + 2
  BY <1>1, <1>2, <1>9, ReadSpecial, SMTT(30)
<1>10. ASSUME NEW k \in 1..(Len(text) + 1), NEW p \in Nat, p = Spot(base, text, k), p < e, hay[p] # b
       PROVE  k <= Len(text) /\ k + 1 \in 1..(Len(text) + 1) /\ text[k] = hay[p] /\ Spot(base, text, k + 1) = p + 1
  BY <1>1, <1>2, <1>10, ReadPlain
<1>19. /\ (i + 2) + 1 = i + 3 /\ (i + 3) + 1 = i + 4 /\ (i + 3) + 2 = i + 5 /\ (i + 5) + 1 = i + 6
      /\ (i + 6) + 1 = i + 7 /\ (i + 6) + 2 = i + 8 /\ (i + 8) + 1 = i + 9 /\ (i + 9) + 1 = i + 10
      /\ (i + 9) + 2 = i + 11
      /\ (j + 1) + 1 = j + 2 /\ (j + 2) + 1 = j + 3 /\ (j + 3) + 1 = j + 4 /\ (j + 4) + 1 = j + 5
      /\ (j + 5) + 1 = j + 6 /\ (j + 6) + 1 = j + 7
      /\ i \in Nat /\ i + 2 \in Nat /\ i + 3 \in Nat /\ i + 5 \in Nat /\ i + 6 \in Nat /\ i + 8 \in Nat /\ i + 9 \in Nat
  BY <1>6
<1> DEFINE At(k, p) == k \in 1..(Len(text) + 1) /\ p = Spot(base, text, k)
<1>11. text[j] = Q /\ At(j + 1, i + 2)
  BY <1>3, <1>6, <1>7, <1>8, <1>9
<1>12. text[j + 1] = key /\ At(j + 2, i + 3)
  <2>1. /\ text[j + 1] = hay[i + 2] /\ (j + 1) + 1 \in 1..(Len(text) + 1)
        /\ Spot(base, text, (j + 1) + 1) = (i + 2) + 1
    BY <1>3, <1>4, <1>8, <1>10, <1>11, <1>19, Zenon
  <2> QED
    BY <1>3, <1>19, <2>1, Zenon
<1>13. text[j + 2] = Q /\ At(j + 3, i + 5)
  <2>1. /\ text[j + 2] = hay[(i + 3) + 1] /\ (j + 2) + 1 \in 1..(Len(text) + 1)
        /\ Spot(base, text, (j + 2) + 1) = (i + 3) + 2
    BY <1>3, <1>8, <1>9, <1>12, <1>19, Zenon
  <2> QED
    BY <1>3, <1>19, <2>1, Zenon
<1>14. text[j + 3] = Colon /\ At(j + 4, i + 6)
  <2>1. /\ text[j + 3] = hay[i + 5] /\ (j + 3) + 1 \in 1..(Len(text) + 1)
        /\ Spot(base, text, (j + 3) + 1) = (i + 5) + 1
    BY <1>3, <1>4, <1>8, <1>10, <1>13, <1>19, Zenon
  <2> QED
    BY <1>3, <1>19, <2>1, Zenon
<1>15. text[j + 4] = Q /\ At(j + 5, i + 8)
  <2>1. /\ text[j + 4] = hay[(i + 6) + 1] /\ (j + 4) + 1 \in 1..(Len(text) + 1)
        /\ Spot(base, text, (j + 4) + 1) = (i + 6) + 2
    BY <1>3, <1>8, <1>9, <1>14, <1>19, Zenon
  <2> QED
    BY <1>3, <1>19, <2>1, Zenon
<1>16. text[j + 5] = word /\ At(j + 6, i + 9)
  <2>1. /\ text[j + 5] = hay[i + 8] /\ (j + 5) + 1 \in 1..(Len(text) + 1)
        /\ Spot(base, text, (j + 5) + 1) = (i + 8) + 1
    BY <1>3, <1>4, <1>8, <1>10, <1>15, <1>19, Zenon
  <2> QED
    BY <1>3, <1>19, <2>1, Zenon
<1>17. text[j + 6] = Q /\ j + 6 <= Len(text)
  <2>1. text[j + 6] = hay[(i + 9) + 1] /\ j + 6 <= Len(text)
    BY <1>3, <1>8, <1>9, <1>16, <1>19, Zenon
  <2> QED
    BY <1>3, <1>19, <2>1, Zenon
<1>18. Names(text, j, key, word)
  BY <1>11, <1>12, <1>13, <1>14, <1>15, <1>16, <1>17 DEF Names
<1> QED
  BY <1>7, <1>18

\* Sums of offsets
LEMMA Sums ==
  ASSUME NEW i \in Nat, NEW j \in Nat
  PROVE  /\ (i + 2) + 1 = i + 3 /\ (i + 3) + 1 = i + 4 /\ (i + 3) + 2 = i + 5 /\ (i + 5) + 1 = i + 6
         /\ (i + 6) + 1 = i + 7 /\ (i + 6) + 2 = i + 8 /\ (i + 8) + 1 = i + 9 /\ (i + 9) + 1 = i + 10
         /\ (i + 9) + 2 = i + 11
         /\ (j + 1) + 1 = j + 2 /\ (j + 2) + 1 = j + 3 /\ (j + 3) + 1 = j + 4 /\ (j + 4) + 1 = j + 5
         /\ (j + 5) + 1 = j + 6 /\ (j + 6) + 1 = j + 7
OBVIOUS

\* And it occurs wherever the text names it.
LEMMA NamedIsPattern ==
  ASSUME NEW text \in Seq(Symbols), NEW hay \in Seq(Symbols), NEW base \in Nat,
         Occurs(hay, Escaped(text), base), base + Len(Escaped(text)) <= Len(hay) + 1,
         NEW key \in Words, NEW word \in Words,
         NEW j \in 1..Len(text), Names(text, j, key, word), NEW i \in Nat, i = Spot(base, text, j)
  PROVE  Occurs(hay, MemberPattern(key, word), i) /\ Spot(base, text, j + 7) = i + 11
<1>1. PICK b : b = "\\"
  OBVIOUS
<1>2. ~ Special(key) /\ ~ Special(word) /\ Special(Q) /\ ~ Special(Colon)
  BY WordIsPlain, MarksDiffer DEF Special
<1>3. /\ Len(text) \in Nat /\ j \in Nat /\ j + 6 <= Len(text)
      /\ i \in Nat
      /\ text[j] = Q /\ text[j + 1] = key /\ text[j + 2] = Q /\ text[j + 3] = Colon
      /\ text[j + 4] = Q /\ text[j + 5] = word /\ text[j + 6] = Q
  BY DEF Names
<1>4. /\ i \in Nat /\ j + 1 \in 1..Len(text) /\ j + 2 \in 1..Len(text) /\ j + 3 \in 1..Len(text) /\ j + 4 \in 1..Len(text)
      /\ j + 5 \in 1..Len(text) /\ j + 6 \in 1..Len(text)
  <2>1. Len(text) \in Nat /\ j \in Nat \ {0} /\ j + 6 <= Len(text)
    BY <1>3
  <2> QED
    BY <1>3, <2>1, SMTT(30)
<1>15. /\ (i + 2) + 1 = i + 3 /\ (i + 3) + 1 = i + 4 /\ (i + 3) + 2 = i + 5 /\ (i + 5) + 1 = i + 6
      /\ (i + 6) + 1 = i + 7 /\ (i + 6) + 2 = i + 8 /\ (i + 8) + 1 = i + 9 /\ (i + 9) + 1 = i + 10
      /\ (i + 9) + 2 = i + 11
      /\ (j + 1) + 1 = j + 2 /\ (j + 2) + 1 = j + 3 /\ (j + 3) + 1 = j + 4 /\ (j + 4) + 1 = j + 5
      /\ (j + 5) + 1 = j + 6 /\ (j + 6) + 1 = j + 7
  <2>1. i \in Nat /\ j \in Nat
    BY <1>3
  <2> QED
    BY <2>1, Sums, Zenon
<1>5. ASSUME NEW k \in 1..Len(text), NEW p, p = Spot(base, text, k)
      PROVE  /\ Special(text[k]) => hay[p] = b /\ hay[p + 1] = text[k] /\ Spot(base, text, k + 1) = p + 2
             /\ ~ Special(text[k]) => hay[p] = text[k] /\ Spot(base, text, k + 1) = p + 1
  BY <1>1, <1>5, AtSpot, SMTT(30)
<1>6. hay[i] = b /\ hay[i + 1] = Q /\ Spot(base, text, j + 1) = i + 2
  BY <1>2, <1>3, <1>5
<1>7. hay[i + 2] = key /\ Spot(base, text, j + 2) = i + 3
  <2>1. hay[i + 2] = text[j + 1] /\ Spot(base, text, (j + 1) + 1) = (i + 2) + 1
    BY <1>2, <1>3, <1>4, <1>5, <1>6
  <2> QED
    BY <1>3, <1>15, <2>1
<1>8. hay[i + 3] = b /\ hay[i + 4] = Q /\ Spot(base, text, j + 3) = i + 5
  <2>1. hay[i + 3] = b /\ hay[(i + 3) + 1] = text[j + 2] /\ Spot(base, text, (j + 2) + 1) = (i + 3) + 2
    BY <1>2, <1>3, <1>4, <1>5, <1>7, ZenonT(60)
  <2> QED
    BY <1>3, <1>15, <2>1
<1>9. hay[i + 5] = Colon /\ Spot(base, text, j + 4) = i + 6
  <2>1. hay[i + 5] = text[j + 3] /\ Spot(base, text, (j + 3) + 1) = (i + 5) + 1
    BY <1>2, <1>3, <1>4, <1>5, <1>8
  <2> QED
    BY <1>3, <1>15, <2>1
<1>10. hay[i + 6] = b /\ hay[i + 7] = Q /\ Spot(base, text, j + 5) = i + 8
  <2>1. hay[i + 6] = b /\ hay[(i + 6) + 1] = text[j + 4] /\ Spot(base, text, (j + 4) + 1) = (i + 6) + 2
    BY <1>2, <1>3, <1>4, <1>5, <1>9, ZenonT(60)
  <2> QED
    BY <1>3, <1>15, <2>1
<1>11. hay[i + 8] = word /\ Spot(base, text, j + 6) = i + 9
  <2>1. hay[i + 8] = text[j + 5] /\ Spot(base, text, (j + 5) + 1) = (i + 8) + 1
    BY <1>2, <1>3, <1>4, <1>5, <1>10
  <2> QED
    BY <1>3, <1>15, <2>1
<1>12. hay[i + 9] = b /\ hay[i + 10] = Q /\ Spot(base, text, j + 7) = i + 11
  <2>1. hay[i + 9] = b /\ hay[(i + 9) + 1] = text[j + 6] /\ Spot(base, text, (j + 6) + 1) = (i + 9) + 2
    BY <1>2, <1>3, <1>4, <1>5, <1>11, ZenonT(60)
  <2> QED
    BY <1>3, <1>15, <2>1
<1>13. i + 10 <= Len(hay)
  <2>1. PICK k \in 1..Len(text) : k = j + 6
    BY <1>4
  <2>2. Spot(base, text, k + 1) <= base + Len(Escaped(text))
    BY Spots
  <2>3. k + 1 = j + 7 /\ Len(Escaped(text)) \in Nat /\ Len(hay) \in Nat
    BY <1>3, <2>1, EscapedWhole
  <2>4. i + 11 <= base + Len(Escaped(text))
    BY <1>12, <2>2, <2>3
  <2>5. PICK e \in Nat : e = base + Len(Escaped(text))
    BY <2>3
  <2>6. i + 11 <= e /\ e <= Len(hay) + 1
    BY <2>4, <2>5
  <2>7. PICK x \in Nat, l \in Nat : x = i /\ l = Len(hay) /\ x + 11 <= e /\ e <= l + 1
    BY <1>4, <2>3, <2>6
  <2>8. x + 10 <= l
    BY <2>7
  <2> QED
    BY <2>7, <2>8
<1>14. Occurs(hay, MemberPattern(key, word), i)
  <2>1. /\ hay[i] = "\\" /\ hay[i + 1] = Q /\ hay[i + 2] = key /\ hay[i + 3] = "\\" /\ hay[i + 4] = Q
        /\ hay[i + 5] = Colon
        /\ hay[i + 6] = "\\" /\ hay[i + 7] = Q /\ hay[i + 8] = word /\ hay[i + 9] = "\\" /\ hay[i + 10] = Q
    BY <1>1, <1>6, <1>7, <1>8, <1>9, <1>10, <1>11, <1>12, Zenon
  <2>2. i \in Nat
    BY <1>4
  <2> QED
    BY <1>13, <2>1, <2>2, OccursPattern, Zenon
<1> QED
  BY <1>12, <1>14

-----------------------------------------------------------------------------
(* What the texts of members and accounts name *)

\* A quote in an escaped text follows a backslash.
LEMMA QuoteInEscaped ==
  ASSUME NEW text \in Seq(Symbols), NEW hay \in Seq(Symbols), NEW base \in Nat,
         Occurs(hay, Escaped(text), base),
         NEW k \in base..(base + Len(Escaped(text)) - 1), hay[k] = Q
  PROVE  k # base /\ hay[k - 1] = "\\"
<1>1. PICK j \in 1..Len(text) :
        \/ k = Spot(base, text, j)
        \/ Special(text[j]) /\ k = Spot(base, text, j) + 1
  BY SomeSpot
<1>2. PICK p \in Nat : p = Spot(base, text, j) /\ base <= p
  <2>1. j \in 1..(Len(text) + 1)
    OBVIOUS
  <2> QED
    BY <2>1, Spots
<1>3. /\ hay[p] = "\\" <=> Special(text[j])
      /\ ~ Special(text[j]) => hay[p] = text[j]
  BY <1>2, AtSpot
<1>4. Special(Q) /\ Q # "\\"
  BY MarksDiffer DEF Special
<1>5. k # p
  BY <1>3, <1>4
<1>6. Special(text[j]) /\ k = p + 1
  BY <1>1, <1>2, <1>5
<1>7. k - 1 = p /\ k # base
  BY <1>2, <1>6
<1> QED
  BY <1>3, <1>6, <1>7

\* A text whose escaped form is one word is that word.
LEMMA OneWordText ==
  ASSUME NEW text \in Seq(Symbols), NEW hay \in Seq(Symbols), NEW base \in Nat,
         Occurs(hay, Escaped(text), base), Len(Escaped(text)) = 1
  PROVE  text = <<hay[base]>>
<1>1. /\ Spot(base, text, 1) = base /\ Spot(base, text, Len(text) + 1) = base + 1
      /\ Len(text) \in Nat
  <2>1. Spot(base, text, 1) = base /\ Spot(base, text, Len(text) + 1) = base + Len(Escaped(text))
    BY Spots, Zenon
  <2> QED
    BY <2>1
<1>2. Len(text) # 0
  <2>1. base # base + 1
    OBVIOUS
  <2>2. Len(text) = 0 => Len(text) + 1 = 1
    OBVIOUS
  <2> QED
    BY <1>1, <2>1, <2>2
<1>3. 1 \in 1..Len(text) /\ 2 \in 1..(Len(text) + 1) /\ Len(text) + 1 \in 1..(Len(text) + 1)
  BY <1>1, <1>2
<1>4. Spot(base, text, 1) < Spot(base, text, 2) /\ Spot(base, text, 2) \in Nat
  <2>1. Spot(base, text, 1) < Spot(base, text, 1 + 1)
    BY <1>3, Spots
  <2>2. 1 + 1 = 2
    OBVIOUS
  <2>3. Spot(base, text, 2) \in Nat
    BY <1>3, Spots
  <2> QED
    BY <2>1, <2>2, <2>3
<1>5. Len(text) = 1
  <2>1. PICK m \in 1..(Len(text) + 1) : m = Len(text) + 1
    BY <1>3
  <2>2. PICK t \in 1..(Len(text) + 1) : t = 2
    BY <1>3
  <2>3. m <= t <=> Spot(base, text, m) <= Spot(base, text, t)
    BY SpotsGrow
  <2>4. Spot(base, text, m) <= Spot(base, text, t)
    BY <1>1, <1>4, <2>1, <2>2
  <2>5. m <= t
    BY <2>3, <2>4
  <2>6. m = Len(text) + 1 /\ t = 2 /\ Len(text) \in Nat \ {0}
    BY <1>1, <1>2, <2>1, <2>2
  <2>7. PICK l \in Nat \ {0} : l = Len(text)
    BY <2>6
  <2>8. l + 1 <= 2
    BY <2>5, <2>6, <2>7
  <2>9. l = 1
    BY <2>8
  <2> QED
    BY <2>7, <2>9
<1>6. hay[base] = text[1]
  <2>1. /\ Special(text[1]) => Spot(base, text, 1 + 1) = base + 2
        /\ ~ Special(text[1]) => hay[base] = text[1]
    BY <1>1, <1>3, AtSpot
  <2>2. Spot(base, text, 1 + 1) = base + 1
    BY <1>1, <1>5
  <2>3. base + 1 # base + 2
    OBVIOUS
  <2> QED
    BY <2>1, <2>2, <2>3
<1> QED
  BY <1>5, <1>6

\* Behind a member comes a comma or a brace.
Closes(s) == s \in {Comma, "}"}

LEMMA ClosesIsNoWord == \A s : Closes(s) => s # Colon /\ s \notin Words /\ s # Q
BY WordIsNoMark, MarksDiffer DEF Closes

\* In a member's text, only its own key is a key.
LEMMA KeyOfMember ==
  ASSUME NEW m \in Members, NEW hay \in Seq(Symbols), NEW i \in Nat, Occurs(hay, MemberText(m), i),
         Closes(hay[i + Len(MemberText(m))]),
         NEW k \in i..(i + Len(MemberText(m)) - 1),
         hay[k] = Q, hay[k + 1] \in Words, hay[k + 2] = Q, hay[k + 3] = Colon
  PROVE  k = i
<1>1. PICK text \in Seq(Symbols) : text = m.text
  BY MemberWhole
<1>2. PICK L \in Nat : L = Len(Escaped(text)) /\ Len(MemberText(m)) = 6 + L
  BY <1>1, MemberWhole
<1>3. /\ hay[i] = Q /\ hay[i + 1] = m.key /\ hay[i + 2] = Q /\ hay[i + 3] = Colon /\ hay[i + 4] = Q
      /\ Occurs(hay, Escaped(text), i + 5)
      /\ hay[i + 5 + L] = Q
      /\ m.key \in Words
  BY <1>1, <1>2, OccursMember, MemberWhole
<1>4. Closes(hay[i + 6 + L])
  BY <1>2
<1>5. /\ \A w \in Words : w # Q /\ w # Colon /\ w # "\\"
      /\ Q # Colon
  BY WordIsNoMark, MarksDiffer
<1>6. \A q \in (i + 5)..(i + 4 + L) : hay[q] = Q => q # i + 5 /\ hay[q - 1] = "\\"
  <2>1. PICK base \in Nat : base = i + 5
    OBVIOUS
  <2>2. \A q \in base..(base + L - 1) : hay[q] = Q => q # base /\ hay[q - 1] = "\\"
    BY <1>2, <1>3, <2>1, QuoteInEscaped, SMTT(30)
  <2>3. base + L - 1 = i + 4 + L
    BY <2>1
  <2> QED
    BY <2>1, <2>2, <2>3
<1>7. \/ k = i \/ k = i + 1 \/ k = i + 2 \/ k = i + 3
      \/ k \in (i + 4)..(i + 5 + L)
  BY <1>2
<1>8. k # i + 1
  BY <1>3, <1>5
<1>9. k # i + 2
  <2>1. (i + 2) + 1 = i + 3
    OBVIOUS
  <2> QED
    BY <1>3, <1>5, <2>1
<1>10. k # i + 3
  BY <1>3, <1>5
<1>11. ASSUME k \in (i + 4)..(i + 5 + L) PROVE FALSE
  <2>1. k \in Nat
    BY <1>11
  <2>2. CASE k + 2 \in (i + 5)..(i + 4 + L)
    <3>1. hay[(k + 2) - 1] = "\\"
      BY <1>6, <2>2
    <3>2. (k + 2) - 1 = k + 1
      BY <2>1
    <3> QED
      BY <1>5, <3>1, <3>2
  <2>3. CASE k + 2 = i + 5 + L
    <3>1. k + 3 = i + 6 + L
      BY <2>1, <2>3
    <3> QED
      BY <1>4, <3>1, ClosesIsNoWord
  <2>4. CASE k + 1 = i + 5 + L
    BY <1>3, <1>5, <2>4
  <2>5. CASE k = i + 5 + L
    <3>1. k + 1 = i + 6 + L
      BY <2>1, <2>5
    <3> QED
      BY <1>4, <3>1, ClosesIsNoWord
  <2> QED
    BY <1>11, <2>1, <2>2, <2>3, <2>4, <2>5
<1> QED
  BY <1>7, <1>8, <1>9, <1>10, <1>11

\* And if a word follows and a quote, the word is its text.
LEMMA NameOfMember ==
  ASSUME NEW m \in Members, NEW hay \in Seq(Symbols), NEW i \in Nat, Occurs(hay, MemberText(m), i),
         NEW key \in Words, NEW word \in Words, Names(hay, i, key, word)
  PROVE  m = [key |-> key, text |-> <<word>>]
<1>1. PICK text \in Seq(Symbols) : text = m.text
  BY MemberWhole
<1>2. PICK L \in Nat : L = Len(Escaped(text))
  BY <1>1, MemberWhole
<1>3. /\ hay[i + 1] = m.key
      /\ Occurs(hay, Escaped(text), i + 5)
      /\ hay[i + 5 + L] = Q
  BY <1>1, <1>2, OccursMember
<1>4. hay[i + 1] = key /\ hay[i + 5] = word /\ hay[i + 6] = Q
  BY DEF Names
<1>5. word # Q /\ word # "\\"
  BY WordIsNoMark
<1>6. PICK base \in Nat : base = i + 5 /\ base + 1 = i + 6
  OBVIOUS
<1>7. L # 0
  <2>1. L = 0 => i + 5 + L = i + 5
    OBVIOUS
  <2> QED
    BY <1>3, <1>4, <1>5, <2>1
<1>8. ~ (L >= 2)
  <2> SUFFICES ASSUME L >= 2 PROVE FALSE
    OBVIOUS
  <2>1. base + 1 \in base..(base + L - 1)
    OBVIOUS
  <2>2. hay[(base + 1) - 1] = "\\"
    BY <1>2, <1>3, <1>4, <1>6, <2>1, QuoteInEscaped
  <2>3. (base + 1) - 1 = base
    OBVIOUS
  <2> QED
    BY <1>4, <1>5, <1>6, <2>2, <2>3
<1>9. L = 1
  BY <1>7, <1>8
<1>10. text = <<hay[base]>>
  BY <1>2, <1>3, <1>6, <1>9, OneWordText, Zenon
<1>11. m.key = key /\ m.text = <<word>>
  BY <1>1, <1>3, <1>4, <1>6, <1>10
<1> QED
  BY <1>11 DEF Members

\* Where an account that starts at i ends
EndOf(account, i) == i + Len(AccountText(account)) - 1

\* The first and the last symbol of an account, and where it holds something else
LEMMA AccountEnds ==
  ASSUME NEW account \in Seq(Members), NEW hay \in Seq(Symbols), NEW i \in Nat,
         Occurs(hay, AccountText(account), i)
  PROVE  /\ EndOf(account, i) \in Nat /\ i < EndOf(account, i) /\ EndOf(account, i) <= Len(hay)
         /\ hay[i] = "{" /\ hay[EndOf(account, i)] = "}"
         /\ EndOf(account, i) = i + Len(Joined(MemberTexts(account))) + 1
<1>1. PICK parts \in Seq(Seq(Symbols)) :
        /\ parts = MemberTexts(account) /\ Len(parts) = Len(account)
        /\ \A b \in 1..Len(account) : parts[b] = MemberText(account[b])
        /\ Len(AccountText(account)) = Len(Joined(parts)) + 2
  BY AccountWhole
<1>2. PICK x \in Symbols, y \in Symbols : x = "{" /\ y = "}"
  BY MarksAreSymbols
<1>3. Occurs(hay, Bracketed(x, parts, y), i)
  BY <1>1, <1>2 DEF AccountText
<1>4. PICK j \in Nat : j = Len(Joined(parts)) /\ EndOf(account, i) = i + j + 1
  <2>1. Len(Joined(parts)) \in Nat
    BY JoinedWhole
  <2>2. PICK j \in Nat : j = Len(Joined(parts))
    BY <2>1
  <2>3. EndOf(account, i) = i + (j + 2) - 1
    BY <1>1, <2>2 DEF EndOf
  <2>4. i + (j + 2) - 1 = i + j + 1
    OBVIOUS
  <2>5. EndOf(account, i) = i + j + 1
    BY <2>3, <2>4, Zenon
  <2> QED
    BY <2>2, <2>5, Zenon
<1>5. hay[i] = x /\ hay[i + j + 1] = y /\ i + j + 1 <= Len(hay)
  BY <1>3, <1>4, OccursBracketed
<1>7. EndOf(account, i) \in Nat /\ i < EndOf(account, i) /\ EndOf(account, i) <= Len(hay)
  BY <1>4, <1>5
<1>8. hay[i] = "{" /\ hay[EndOf(account, i)] = "}"
  BY <1>2, <1>4, <1>5
<1> QED
  BY <1>1, <1>4, <1>7, <1>8, Zenon

\* Between the braces of an account are its members, and commas.
LEMMA SymbolOfAccount ==
  ASSUME NEW account \in Seq(Members), NEW hay \in Seq(Symbols), NEW i \in Nat,
         Occurs(hay, AccountText(account), i),
         NEW k \in i..EndOf(account, i), hay[k] # Comma, k # i, k # EndOf(account, i)
  PROVE  \E b \in 1..Len(account) :
           /\ i + 1 + Before(MemberTexts(account), b) <= k
           /\ k < i + 1 + Before(MemberTexts(account), b) + Len(MemberText(account[b]))
<1>1. PICK parts \in Seq(Seq(Symbols)) :
        /\ parts = MemberTexts(account) /\ Len(parts) = Len(account)
        /\ \A b \in 1..Len(account) : parts[b] = MemberText(account[b])
  BY AccountWhole
<1>2. PICK x \in Symbols, y \in Symbols : x = "{" /\ y = "}"
  BY MarksAreSymbols
<1>3. Occurs(hay, Bracketed(x, parts, y), i)
  BY <1>1, <1>2 DEF AccountText
<1>4. EndOf(account, i) = i + Len(Joined(parts)) + 1
  BY <1>1, AccountEnds, ZenonT(60)
<1>5. k \in i..(i + Len(Joined(parts)) + 1)
  BY <1>4
<1>6. \/ k = i
      \/ k = i + Len(Joined(parts)) + 1
      \/ hay[k] = Comma
      \/ \E n \in 1..Len(parts) :
           i + 1 + Before(parts, n) <= k /\ k < i + 1 + Before(parts, n) + Len(parts[n])
  BY <1>3, <1>5, SymbolOfBracketed
<1>7. PICK n \in 1..Len(parts) :
        i + 1 + Before(parts, n) <= k /\ k < i + 1 + Before(parts, n) + Len(parts[n])
  BY <1>4, <1>6, Zenon
<1> QED
  BY <1>1, <1>7

\* A member of an account is between its braces.
LEMMA MemberOfAccount ==
  ASSUME NEW account \in Seq(Members), NEW hay \in Seq(Symbols), NEW i \in Nat,
         Occurs(hay, AccountText(account), i),
         NEW b \in 1..Len(account), NEW p, p = i + 1 + Before(MemberTexts(account), b)
  PROVE  /\ p \in Nat /\ i < p /\ p + Len(MemberText(account[b])) <= EndOf(account, i)
         /\ Occurs(hay, MemberText(account[b]), p)
         /\ isMemberBoundary(hay[p - 1])
         /\ Closes(hay[p + Len(MemberText(account[b]))])
<1>1. PICK parts \in Seq(Seq(Symbols)) :
        /\ parts = MemberTexts(account) /\ Len(parts) = Len(account)
        /\ parts[b] = MemberText(account[b])
        /\ Len(AccountText(account)) = Len(Joined(parts)) + 2
  BY AccountWhole
<1>2. PICK x \in Symbols, y \in Symbols : x = "{" /\ y = "}"
  BY MarksAreSymbols
<1>3. Occurs(hay, Bracketed(x, parts, y), i)
  BY <1>1, <1>2 DEF AccountText
<1>4. PICK j \in Nat : j = Len(Joined(parts)) /\ EndOf(account, i) = i + j + 1
  <2>1. Len(Joined(parts)) \in Nat
    BY JoinedWhole
  <2>2. PICK j \in Nat : j = Len(Joined(parts))
    BY <2>1
  <2>3. EndOf(account, i) = i + (j + 2) - 1
    BY <1>1, <2>2 DEF EndOf
  <2>4. i + (j + 2) - 1 = i + j + 1
    OBVIOUS
  <2>5. EndOf(account, i) = i + j + 1
    BY <2>3, <2>4, Zenon
  <2> QED
    BY <2>2, <2>5, Zenon
<1>5. PICK n \in 1..Len(parts) : n = b
  BY <1>1
<1>6. p = i + 1 + Before(parts, n)
  BY <1>1, <1>5
<1>7. /\ p \in Nat /\ i < p /\ p + Len(parts[n]) <= i + Len(Joined(parts)) + 1
      /\ Occurs(hay, parts[n], p)
      /\ n = 1 => hay[p - 1] = x
      /\ n # 1 => hay[p - 1] = Comma
      /\ n = Len(parts) => hay[p + Len(parts[n])] = y
      /\ n # Len(parts) => hay[p + Len(parts[n])] = Comma
  BY <1>3, <1>6, PartOfBracketed, SMTT(30)
<1>8. isMemberBoundary(hay[p - 1])
  BY <1>2, <1>7 DEF isMemberBoundary, Comma
<1>9. Closes(hay[p + Len(parts[n])])
  BY <1>2, <1>7 DEF Closes
<1>10. p + Len(parts[n]) <= EndOf(account, i)
  BY <1>4, <1>7
<1> QED
  BY <1>1, <1>5, <1>7, <1>8, <1>9, <1>10

\* What an account's text names is one of its members.
LEMMA NamedInAccount ==
  ASSUME NEW account \in Seq(Members), NEW hay \in Seq(Symbols), NEW i \in Nat,
         Occurs(hay, AccountText(account), i),
         NEW k \in i..EndOf(account, i),
         NEW key \in Words, NEW word \in Words, Names(hay, k, key, word)
  PROVE  \E b \in 1..Len(account) :
           /\ k = i + 1 + Before(MemberTexts(account), b)
           /\ account[b] = [key |-> key, text |-> <<word>>]
<1>12. EndOf(account, i) \in Nat /\ hay[i] = "{" /\ hay[EndOf(account, i)] = "}"
  BY AccountEnds
<1>13. k \in i..EndOf(account, i)
  OBVIOUS
<1>14. EndOf(account, i) \in Nat
  BY <1>12, Zenon
<1>15. k \in Nat
  BY <1>13, <1>14
<1>3. /\ hay[k] = Q /\ hay[k + 1] = key /\ hay[k + 2] = Q /\ hay[k + 3] = Colon
  BY DEF Names
<1>4. PICK b \in 1..Len(account) :
        /\ i + 1 + Before(MemberTexts(account), b) <= k
        /\ k < i + 1 + Before(MemberTexts(account), b) + Len(MemberText(account[b]))
  <2>1. hay[i] # Q /\ hay[EndOf(account, i)] # Q /\ Comma # Q
    BY <1>12, MarksDiffer
  <2>2. hay[k] # Comma /\ k # i /\ k # EndOf(account, i)
    BY <1>3, <2>1
  <2> QED
    BY <1>13, <2>2, SymbolOfAccount
<1>5. PICK m \in Members : m = account[b]
  OBVIOUS
<1>6. PICK p : p = i + 1 + Before(MemberTexts(account), b)
  OBVIOUS
<1>7. p \in Nat /\ Occurs(hay, MemberText(m), p) /\ Closes(hay[p + Len(MemberText(m))])
  BY <1>5, <1>6, MemberOfAccount
<1>8. Len(MemberText(m)) \in Nat
  <2>1. MemberText(m) \in Seq(Symbols)
    BY MemberWhole
  <2> QED
    BY <2>1
<1>9. k \in p..(p + Len(MemberText(m)) - 1)
  <2>1. p <= k /\ k < p + Len(MemberText(m))
    BY <1>4, <1>5, <1>6
  <2> QED
    BY <1>7, <1>8, <1>15, <2>1
<1>10. k = p
  BY <1>3, <1>7, <1>9, KeyOfMember
<1>11. m = [key |-> key, text |-> <<word>>]
  BY <1>7, <1>10, NameOfMember
<1> QED
  BY <1>5, <1>6, <1>10, <1>11

\* A member of one word is named where it is.
LEMMA MemberIsNamed ==
  ASSUME NEW m \in Members, NEW hay \in Seq(Symbols), NEW p \in Nat, Occurs(hay, MemberText(m), p),
         NEW key \in Words, NEW word \in Words, m = [key |-> key, text |-> <<word>>]
  PROVE  Names(hay, p, key, word) /\ Len(MemberText(m)) = 7
<1>1. m.key = key /\ m.text = <<word>>
  OBVIOUS
<1>2. PICK text \in Seq(Symbols) : text = <<word>> /\ Len(Escaped(text)) = 1 /\ Escaped(text) = <<word>>
  BY EscapedWord
<1>3. /\ hay[p] = Q /\ hay[p + 1] = key /\ hay[p + 2] = Q /\ hay[p + 3] = Colon /\ hay[p + 4] = Q
      /\ Occurs(hay, <<word>>, p + 5)
      /\ hay[p + 5 + 1] = Q
      /\ p + 5 + 1 <= Len(hay)
  BY <1>1, <1>2, OccursMember
<1>4. hay[p + 5] = word
  <2>1. p + 5 \in Nat
    OBVIOUS
  <2> QED
    BY <1>3, <2>1, OccursOne, SMTT(30)
<1>5. p + 5 + 1 = p + 6
  OBVIOUS
<1>6. Len(MemberText(m)) = 7
  <2>1. Len(MemberText(m)) = 6 + Len(Escaped(m.text))
    BY MemberWhole
  <2>2. Len(Escaped(m.text)) = 1
    BY <1>1, <1>2
  <2>3. 6 + 1 = 7
    OBVIOUS
  <2> QED
    BY <2>1, <2>2, <2>3, Zenon
<1> QED
  BY <1>3, <1>4, <1>5, <1>6 DEF Names

\* Each symbol of an escaped text is a backslash or one of the text.
LEMMA SymbolInEscaped ==
  ASSUME NEW text \in Seq(Symbols), NEW hay \in Seq(Symbols), NEW base \in Nat,
         Occurs(hay, Escaped(text), base), NEW k \in base..(base + Len(Escaped(text)) - 1)
  PROVE  hay[k] = "\\" \/ \E j \in 1..Len(text) : hay[k] = text[j]
<1>1. PICK j \in 1..Len(text) :
        \/ k = Spot(base, text, j)
        \/ Special(text[j]) /\ k = Spot(base, text, j) + 1
  BY SomeSpot
<1>2. PICK p : p = Spot(base, text, j)
  OBVIOUS
<1>3. /\ hay[p] = "\\" <=> Special(text[j])
      /\ Special(text[j]) => hay[p + 1] = text[j]
      /\ ~ Special(text[j]) => hay[p] = text[j]
  BY <1>2, AtSpot
<1> QED
  BY <1>1, <1>2, <1>3

Brace(s) == s \in {"{", "}"}

\* Words and the other marks are no braces.
LEMMA NoBraces ==
  /\ ~ Brace(Q) /\ ~ Brace(Comma) /\ ~ Brace(Colon) /\ ~ Brace("\\")
  /\ \A w \in Words : ~ Brace(w)
  /\ "{" # "}"
BY MarksDiffer, WordIsNoMark DEF Brace

\* The only braces of an account without braces in its texts are its first and its last symbol.
LEMMA BracesOfAccount ==
  ASSUME NEW account \in Seq(Members), Braceless(account), NEW hay \in Seq(Symbols), NEW i \in Nat,
         Occurs(hay, AccountText(account), i),
         NEW k \in i..EndOf(account, i), Brace(hay[k])
  PROVE  k = i \/ k = EndOf(account, i)
<1> SUFFICES ASSUME k # i, k # EndOf(account, i) PROVE FALSE
  OBVIOUS
<1>1. EndOf(account, i) \in Nat
  BY AccountEnds
<1>2. PICK b \in 1..Len(account) :
        /\ i + 1 + Before(MemberTexts(account), b) <= k
        /\ k < i + 1 + Before(MemberTexts(account), b) + Len(MemberText(account[b]))
  <2>1. hay[k] # Comma
    BY NoBraces
  <2> QED
    BY <2>1, SymbolOfAccount
<1>3. PICK m \in Members : m = account[b]
  OBVIOUS
<1>4. PICK p : p = i + 1 + Before(MemberTexts(account), b)
  OBVIOUS
<1>5. p \in Nat /\ Occurs(hay, MemberText(m), p)
  BY <1>3, <1>4, MemberOfAccount
<1>6. PICK text \in Seq(Symbols) : text = m.text /\ ~ \E j \in 1..Len(text) : Brace(text[j])
  <2>1. PICK text \in Seq(Symbols) : text = m.text
    BY MemberWhole
  <2>2. b \in DOMAIN account /\ DOMAIN text = 1..Len(text)
    OBVIOUS
  <2>3. Range(text) \intersect {"{", "}"} = {}
    BY <1>3, <2>1, <2>2 DEF Braceless
  <2> QED
    BY <2>1, <2>2, <2>3 DEF Brace, Range
<1>7. PICK L \in Nat : L = Len(Escaped(text)) /\ Len(MemberText(m)) = 6 + L
  BY <1>6, MemberWhole
<1>8. /\ hay[p] = Q /\ hay[p + 1] = m.key /\ hay[p + 2] = Q /\ hay[p + 3] = Colon /\ hay[p + 4] = Q
      /\ Occurs(hay, Escaped(text), p + 5)
      /\ hay[p + 5 + L] = Q
      /\ m.key \in Words
  BY <1>5, <1>6, <1>7, OccursMember, MemberWhole
<1>9. k \in p..(p + 5 + L)
  <2>1. p <= k /\ k < p + Len(MemberText(m))
    BY <1>2, <1>3, <1>4
  <2>2. k \in Nat
    BY <1>1
  <2> QED
    BY <1>5, <1>7, <2>1, <2>2
<1>10. \/ k = p \/ k = p + 1 \/ k = p + 2 \/ k = p + 3 \/ k = p + 4 \/ k = p + 5 + L
       \/ k \in (p + 5)..((p + 5) + L - 1)
  BY <1>5, <1>9
<1>11. CASE k \in (p + 5)..((p + 5) + L - 1)
  <2>1. PICK base \in Nat : base = p + 5
    BY <1>5
  <2>2. hay[k] = "\\" \/ \E j \in 1..Len(text) : hay[k] = text[j]
    BY <1>7, <1>8, <1>11, <2>1, SymbolInEscaped
  <2> QED
    BY <1>6, <2>2, NoBraces
<1> QED
  BY <1>8, <1>10, <1>11, NoBraces

\* Each account stands in the text of the accounts, whole and in its brackets.
LEMMA AccountInText ==
  ASSUME NEW accounts \in Seq(Seq(Members)), NEW a \in 1..Len(accounts)
  PROVE  /\ AccountAt(accounts, a) \in Nat /\ AccountAt(accounts, a) >= 2
         /\ accounts[a] \in Seq(Members)
         /\ Occurs(AccountsText(accounts), AccountText(accounts[a]), AccountAt(accounts, a))
         /\ AccountEnd(accounts, a) = EndOf(accounts[a], AccountAt(accounts, a))
         /\ AccountEnd(accounts, a) \in Nat /\ AccountAt(accounts, a) < AccountEnd(accounts, a)
         /\ AccountEnd(accounts, a) <= Len(AccountsText(accounts))
         /\ AccountsText(accounts)[AccountAt(accounts, a)] = "{"
         /\ AccountsText(accounts)[AccountEnd(accounts, a)] = "}"
<1>1. PICK parts \in Seq(Seq(Symbols)) :
        /\ parts = AccountTexts(accounts) /\ Len(parts) = Len(accounts)
        /\ parts[a] = AccountText(accounts[a]) /\ accounts[a] \in Seq(Members)
  BY AccountsWhole
<1>2. PICK x \in Symbols, y \in Symbols : x = "[" /\ y = "]"
  BY MarksAreSymbols
<1>3. PICK hay \in Seq(Symbols) : hay = AccountsText(accounts) /\ hay = Bracketed(x, parts, y)
  BY <1>1, <1>2, AccountsWhole DEF AccountsText
<1>4. Occurs(hay, Bracketed(x, parts, y), 1)
  BY <1>3, OccursWhole
<1>5. PICK n \in 1..Len(parts) : n = a
  BY <1>1
<1>6. Before(parts, n) \in Nat
  BY BeforeParts
<1>7. PICK p \in Nat : p = 1 + 1 + Before(parts, n)
  BY <1>6
<1>8. p > 1 /\ Occurs(hay, parts[n], p)
  <2>1. 1 \in Nat
    OBVIOUS
  <2> QED
    BY <1>4, <1>7, <2>1, PartOfBracketed
<1>9. AccountAt(accounts, a) = p
  BY <1>1, <1>5, <1>6, <1>7 DEF AccountAt
<1>10. Occurs(hay, AccountText(accounts[a]), p)
  BY <1>1, <1>5, <1>8
<1>11. PICK account \in Seq(Members) : account = accounts[a]
  BY <1>1
<1>12. /\ EndOf(account, p) \in Nat /\ p < EndOf(account, p) /\ EndOf(account, p) <= Len(hay)
       /\ hay[p] = "{" /\ hay[EndOf(account, p)] = "}"
  BY <1>10, <1>11, AccountEnds
<1>13. AccountEnd(accounts, a) = EndOf(accounts[a], p)
  BY <1>9 DEF AccountEnd, EndOf
<1>14. p >= 2
  BY <1>8
<1> QED
  BY <1>1, <1>3, <1>9, <1>10, <1>11, <1>12, <1>13, <1>14, Zenon

\* The accounts come one after the other.
LEMMA AccountsApart ==
  ASSUME NEW accounts \in Seq(Seq(Members)), NEW a \in 1..Len(accounts), NEW c \in 1..Len(accounts), a < c
  PROVE  AccountEnd(accounts, a) < AccountAt(accounts, c)
<1>1. PICK parts \in Seq(Seq(Symbols)) :
        /\ parts = AccountTexts(accounts) /\ Len(parts) = Len(accounts)
        /\ parts[a] = AccountText(accounts[a])
  BY AccountsWhole
<1>2. PICK m \in 1..Len(parts), n \in 1..Len(parts) : m = a /\ n = c
  BY <1>1
<1>3. Before(parts, m) + Len(parts[m]) + 1 <= Before(parts, n)
  BY <1>2, PartsInOrder
<1>4. PICK x \in Nat : x = Before(parts, m)
  BY BeforeParts
<1>5. PICK y \in Nat : y = Before(parts, n)
  BY BeforeParts
<1>6. PICK l \in Nat : l = Len(parts[m])
  <2>1. parts[m] \in Seq(Symbols)
    OBVIOUS
  <2> QED
    BY <2>1
<1>7. AccountEnd(accounts, a) = 2 + x + l - 1
  BY <1>1, <1>2, <1>4, <1>6 DEF AccountEnd, AccountAt
<1>8. AccountAt(accounts, c) = 2 + y
  BY <1>1, <1>2, <1>5 DEF AccountAt
<1>9. x + l + 1 <= y
  BY <1>3, <1>4, <1>5, <1>6
<1> QED
  BY <1>7, <1>8, <1>9

\* What is neither a comma nor a bracket of the list is in an account.
LEMMA InSomeAccount ==
  ASSUME NEW accounts \in Seq(Seq(Members)), NEW k \in 1..Len(AccountsText(accounts)),
         AccountsText(accounts)[k] \notin {Comma, "[", "]"}
  PROVE  \E a \in 1..Len(accounts) : AccountAt(accounts, a) <= k /\ k <= AccountEnd(accounts, a)
<1>1. PICK parts \in Seq(Seq(Symbols)) :
        /\ parts = AccountTexts(accounts) /\ Len(parts) = Len(accounts)
        /\ \A a \in 1..Len(accounts) : parts[a] = AccountText(accounts[a])
        /\ Len(AccountsText(accounts)) = Len(Joined(parts)) + 2
  BY AccountsWhole
<1>2. PICK x \in Symbols, y \in Symbols : x = "[" /\ y = "]"
  BY MarksAreSymbols
<1>3. PICK hay \in Seq(Symbols) : hay = AccountsText(accounts) /\ hay = Bracketed(x, parts, y)
  BY <1>1, <1>2, AccountsWhole DEF AccountsText
<1>4. Occurs(hay, Bracketed(x, parts, y), 1)
  BY <1>3, OccursWhole
<1>5. PICK j \in Nat : j = Len(Joined(parts))
  BY JoinedWhole
<1>6. hay[1] = x /\ hay[1 + j + 1] = y
  <2>1. 1 \in Nat
    OBVIOUS
  <2> QED
    BY <1>4, <1>5, <2>1, OccursBracketed
<1>7. k \in 1..(1 + j + 1)
  BY <1>1, <1>3, <1>5
<1>8. hay[k] # Comma /\ k # 1 /\ k # 1 + j + 1
  BY <1>2, <1>3, <1>6
<1>9. PICK n \in 1..Len(parts) : 1 + 1 + Before(parts, n) <= k /\ k < 1 + 1 + Before(parts, n) + Len(parts[n])
  <2>1. 1 \in Nat /\ k \in 1..(1 + Len(Joined(parts)) + 1) /\ k # 1 + Len(Joined(parts)) + 1
    BY <1>5, <1>7, <1>8
  <2> QED
    BY <1>4, <1>8, <2>1, SymbolOfBracketed
<1>10. PICK b \in Nat : b = Before(parts, n)
  BY BeforeParts
<1>11. PICK l \in Nat : l = Len(parts[n])
  <2>1. parts[n] \in Seq(Symbols)
    OBVIOUS
  <2> QED
    BY <2>1
<1>12. AccountAt(accounts, n) = 2 + b /\ AccountEnd(accounts, n) = 2 + b + l - 1
  BY <1>1, <1>10, <1>11 DEF AccountEnd, AccountAt
<1>13. 2 + b <= k /\ k <= 2 + b + l - 1
  <2>1. 1 + 1 + b <= k /\ k < 1 + 1 + b + l
    BY <1>9, <1>10, <1>11
  <2> QED
    BY <1>7, <2>1
<1>14. n \in 1..Len(accounts)
  BY <1>1
<1> QED
  BY <1>12, <1>13, <1>14, Zenon

\* A member of an account by its name: where it is in the text
LEMMA MemberInText ==
  ASSUME NEW accounts \in Seq(Seq(Members)), NEW a \in 1..Len(accounts),
         NEW key \in Words, NEW word \in Words, NEW b \in MembersOf(accounts[a], key, word)
  PROVE  /\ MemberAt(accounts, a, b) \in 1..Len(AccountsText(accounts))
         /\ Names(AccountsText(accounts), MemberAt(accounts, a, b), key, word)
         /\ AccountAt(accounts, a) < MemberAt(accounts, a, b)
         /\ MemberAt(accounts, a, b) + 6 < AccountEnd(accounts, a)
         /\ isMemberBoundary(AccountsText(accounts)[MemberAt(accounts, a, b) - 1])
<1>1. PICK account \in Seq(Members) : account = accounts[a]
  BY AccountInText
<1>2. PICK i \in Nat : i = AccountAt(accounts, a) /\ i >= 2
  BY AccountInText
<1>3. PICK hay \in Seq(Symbols) : hay = AccountsText(accounts)
  BY AccountsWhole
<1>4. Occurs(hay, AccountText(account), i)
  BY <1>1, <1>2, <1>3, AccountInText
<1>5. b \in 1..Len(account) /\ account[b] = [key |-> key, text |-> <<word>>]
  BY <1>1 DEF MembersOf
<1>6. PICK m \in Members : m = account[b]
  BY <1>5
<1>7. PICK p : p = i + 1 + Before(MemberTexts(account), b)
  OBVIOUS
<1>8. /\ p \in Nat /\ i < p /\ p + Len(MemberText(m)) <= EndOf(account, i)
      /\ Occurs(hay, MemberText(m), p) /\ isMemberBoundary(hay[p - 1])
  BY <1>4, <1>5, <1>6, <1>7, MemberOfAccount
<1>9. Names(hay, p, key, word) /\ Len(MemberText(m)) = 7
  BY <1>5, <1>6, <1>8, MemberIsNamed
<1>10. PICK end \in Nat : end = EndOf(account, i) /\ end <= Len(hay)
  BY <1>4, AccountEnds
<1>11. p + 7 <= end
  BY <1>8, <1>9, <1>10
<1>12. p + 6 < end /\ p \in 1..Len(hay)
  BY <1>2, <1>8, <1>10, <1>11, SMTT(30)
<1>13. MemberAt(accounts, a, b) = p /\ AccountEnd(accounts, a) = end
  BY <1>1, <1>2, <1>7, <1>10, AccountInText DEF MemberAt
<1> QED
  BY <1>2, <1>3, <1>8, <1>9, <1>12, <1>13, Zenon

\* What the text names within an account is a member of that account.
LEMMA NamedIsMember ==
  ASSUME NEW accounts \in Seq(Seq(Members)), NEW a \in 1..Len(accounts),
         NEW key \in Words, NEW word \in Words, NEW k \in Nat,
         Names(AccountsText(accounts), k, key, word),
         AccountAt(accounts, a) <= k, k <= AccountEnd(accounts, a)
  PROVE  \E b \in MembersOf(accounts[a], key, word) : k = MemberAt(accounts, a, b)
<1>1. PICK account \in Seq(Members) : account = accounts[a]
  BY AccountInText
<1>2. PICK i \in Nat : i = AccountAt(accounts, a)
  BY AccountInText
<1>3. PICK hay \in Seq(Symbols) : hay = AccountsText(accounts)
  BY AccountsWhole
<1>4. Occurs(hay, AccountText(account), i)
  BY <1>1, <1>2, <1>3, AccountInText
<1>5. EndOf(account, i) = AccountEnd(accounts, a) /\ EndOf(account, i) \in Nat
  BY <1>1, <1>2, AccountInText
<1>6. k \in i..EndOf(account, i)
  BY <1>2, <1>5
<1>7. PICK b \in 1..Len(account) :
        /\ k = i + 1 + Before(MemberTexts(account), b)
        /\ account[b] = [key |-> key, text |-> <<word>>]
  BY <1>3, <1>4, <1>6, NamedInAccount
<1>8. b \in MembersOf(account, key, word)
  <2>1. DOMAIN account = 1..Len(account)
    OBVIOUS
  <2> QED
    BY <1>7, <2>1 DEF MembersOf
<1>9. k = MemberAt(accounts, a, b)
  BY <1>1, <1>2, <1>7 DEF MemberAt
<1> QED
  BY <1>1, <1>8, <1>9

-----------------------------------------------------------------------------
(* The linked accounts in the payload *)

\* The escaped accounts stand in a payload from base on, and a quote behind them.
LinkedAt(payload, base, accounts) ==
  /\ Occurs(payload, Escaped(AccountsText(accounts)), base)
  /\ base + Len(Escaped(AccountsText(accounts))) <= Len(payload)
  /\ payload[base + Len(Escaped(AccountsText(accounts)))] = Q

\* Where a symbol of the accounts is then
Inside(base, accounts, j) == Spot(base, AccountsText(accounts), j)

\* A brace in the value of the claim is one of the text.
LEMMA BraceInside ==
  ASSUME NEW accounts \in Seq(Seq(Members)), NEW payload \in Seq(Symbols), NEW base \in Nat,
         LinkedAt(payload, base, accounts),
         NEW i \in base..(base + Len(Escaped(AccountsText(accounts)))), Brace(payload[i])
  PROVE  \E j \in 1..Len(AccountsText(accounts)) :
           i = Inside(base, accounts, j) /\ AccountsText(accounts)[j] = payload[i]
<1>1. PICK text \in Seq(Symbols) : text = AccountsText(accounts)
  BY AccountsWhole
<1>2. PICK L \in Nat : L = Len(Escaped(text))
  BY EscapedWhole
<1>3. Occurs(payload, Escaped(text), base) /\ payload[base + L] = Q
  BY <1>1, <1>2 DEF LinkedAt
<1>4. i \in base..(base + L) /\ i # base + L
  BY <1>1, <1>2, <1>3, NoBraces
<1>5. i \in base..(base + Len(Escaped(text)) - 1)
  BY <1>2, <1>4
<1>6. PICK j \in 1..Len(text) :
        \/ i = Spot(base, text, j)
        \/ Special(text[j]) /\ i = Spot(base, text, j) + 1
  BY <1>5, SomeSpot
<1>7. PICK p : p = Spot(base, text, j)
  OBVIOUS
<1>8. /\ payload[p] = "\\" <=> Special(text[j])
      /\ Special(text[j]) => payload[p + 1] = text[j]
      /\ ~ Special(text[j]) => payload[p] = text[j]
  BY <1>3, <1>7, AtSpot
<1>9. CASE i = Spot(base, text, j)
  <2>1. payload[p] # "\\"
    BY <1>7, <1>9, NoBraces
  <2> QED
    BY <1>1, <1>7, <1>8, <1>9, <2>1 DEF Inside
<1>10. CASE Special(text[j]) /\ i = Spot(base, text, j) + 1
  <2>1. payload[i] = text[j]
    BY <1>7, <1>8, <1>10
  <2> QED
    BY <1>10, <2>1, NoBraces DEF Special
<1> QED
  BY <1>6, <1>9, <1>10

\* And each brace of the text is in the payload.
LEMMA InsideBrace ==
  ASSUME NEW accounts \in Seq(Seq(Members)), NEW payload \in Seq(Symbols), NEW base \in Nat,
         LinkedAt(payload, base, accounts),
         NEW j \in 1..Len(AccountsText(accounts)), Brace(AccountsText(accounts)[j])
  PROVE  payload[Inside(base, accounts, j)] = AccountsText(accounts)[j]
<1>1. PICK text \in Seq(Symbols) : text = AccountsText(accounts)
  BY AccountsWhole
<1>2. Occurs(payload, Escaped(text), base)
  BY <1>1 DEF LinkedAt
<1>3. ~ Special(text[j])
  BY <1>1, NoBraces DEF Special
<1>4. j \in 1..Len(text)
  BY <1>1
<1>5. PICK p : p = Spot(base, text, j)
  OBVIOUS
<1>6. payload[p] = text[j]
  BY <1>2, <1>3, <1>4, <1>5, AtSpot
<1> QED
  BY <1>1, <1>5, <1>6 DEF Inside

\* The symbols of the text keep their order in the payload.
LEMMA InsideOrder ==
  ASSUME NEW accounts \in Seq(Seq(Members)), NEW base \in Nat,
         NEW j \in 1..Len(AccountsText(accounts))
  PROVE  /\ Inside(base, accounts, j) \in Nat
         /\ base <= Inside(base, accounts, j)
         /\ Inside(base, accounts, j) < base + Len(Escaped(AccountsText(accounts)))
         /\ \A k \in 1..Len(AccountsText(accounts)) :
              /\ j <= k <=> Inside(base, accounts, j) <= Inside(base, accounts, k)
              /\ j = k <=> Inside(base, accounts, j) = Inside(base, accounts, k)
<1>1. PICK text \in Seq(Symbols) : text = AccountsText(accounts)
  BY AccountsWhole
<1>2. Len(text) \in Nat /\ Len(Escaped(text)) \in Nat
  BY EscapedWhole
<1>3. /\ \A k \in 1..(Len(text) + 1) : Spot(base, text, k) \in Nat /\ base <= Spot(base, text, k)
      /\ \A k \in 1..Len(text) : /\ Spot(base, text, k) < Spot(base, text, k + 1)
                                 /\ Spot(base, text, k + 1) <= base + Len(Escaped(text))
  BY Spots
<1>4. j \in 1..Len(text) /\ j \in 1..(Len(text) + 1) /\ j + 1 \in 1..(Len(text) + 1)
  BY <1>1, <1>2
<1>5. PICK p \in Nat : p = Spot(base, text, j) /\ base <= p
  BY <1>3, <1>4
<1>6. PICK q \in Nat : q = Spot(base, text, j + 1)
  BY <1>3, <1>4
<1>7. p < q /\ q <= base + Len(Escaped(text))
  BY <1>3, <1>4, <1>5, <1>6
<1>8. p < base + Len(Escaped(text))
  BY <1>2, <1>7
<1>9. ASSUME NEW k \in 1..Len(text)
      PROVE  /\ j <= k <=> Spot(base, text, j) <= Spot(base, text, k)
             /\ j = k <=> Spot(base, text, j) = Spot(base, text, k)
  <2>1. k \in 1..(Len(text) + 1)
    BY <1>2
  <2> QED
    BY <1>4, <2>1, SpotsGrow
<1> QED
  BY <1>1, <1>5, <1>8, <1>9 DEF Inside

\* A member that the text names is a pattern of the payload, behind a boundary.
LEMMA NamedInside ==
  ASSUME NEW accounts \in Seq(Seq(Members)), NEW payload \in Seq(Symbols), NEW base \in Nat,
         LinkedAt(payload, base, accounts), NEW a \in 1..Len(accounts),
         NEW key \in Words, NEW word \in Words, NEW b \in MembersOf(accounts[a], key, word),
         NEW i \in Nat, i = Inside(base, accounts, MemberAt(accounts, a, b))
  PROVE  /\ Occurs(payload, MemberPattern(key, word), i)
         /\ isMemberBoundary(payload[i - 1])
         /\ Inside(base, accounts, AccountAt(accounts, a)) < i
         /\ i + 10 < Inside(base, accounts, AccountEnd(accounts, a))
<1>1. PICK text \in Seq(Symbols) : text = AccountsText(accounts)
  BY AccountsWhole
<1>2. PICK L \in Nat : L = Len(Escaped(text))
  BY EscapedWhole
<1>3. Occurs(payload, Escaped(text), base) /\ base + L <= Len(payload)
  BY <1>1, <1>2 DEF LinkedAt
<1>4. PICK j \in 1..Len(text) : j = MemberAt(accounts, a, b)
  BY <1>1, MemberInText
<1>5. PICK s \in 1..Len(text) : s = AccountAt(accounts, a) /\ s >= 2
  <2>1. /\ AccountAt(accounts, a) \in Nat /\ AccountAt(accounts, a) >= 2
        /\ AccountEnd(accounts, a) \in Nat /\ AccountAt(accounts, a) < AccountEnd(accounts, a)
        /\ AccountEnd(accounts, a) <= Len(text)
    BY <1>1, AccountInText
  <2>2. Len(text) \in Nat
    OBVIOUS
  <2>3. AccountAt(accounts, a) \in 1..Len(text)
    BY <2>1, <2>2
  <2> QED
    BY <2>1, <2>3
<1>6. PICK e \in 1..Len(text) : e = AccountEnd(accounts, a)
  <2>1. /\ AccountAt(accounts, a) \in Nat /\ AccountAt(accounts, a) >= 2
        /\ AccountEnd(accounts, a) \in Nat /\ AccountAt(accounts, a) < AccountEnd(accounts, a)
        /\ AccountEnd(accounts, a) <= Len(text)
    BY <1>1, AccountInText
  <2>2. Len(text) \in Nat
    OBVIOUS
  <2>3. AccountEnd(accounts, a) \in 1..Len(text)
    BY <2>1, <2>2
  <2> QED
    BY <2>3
<1>7. Names(text, j, key, word) /\ s < j /\ j + 6 < e /\ isMemberBoundary(text[j - 1])
  BY <1>1, <1>4, <1>5, <1>6, MemberInText
<1>8. i = Spot(base, text, j)
  BY <1>1, <1>4 DEF Inside
<1>9. base + Len(Escaped(text)) <= Len(payload) + 1
  <2>1. Len(payload) \in Nat
    OBVIOUS
  <2> QED
    BY <1>2, <1>3, <2>1
<1>10. Occurs(payload, MemberPattern(key, word), i) /\ Spot(base, text, j + 7) = i + 11
  BY <1>3, <1>7, <1>8, <1>9, NamedIsPattern, SMTT(30)
<1>11. j - 1 \in 1..Len(text) /\ j - 1 + 1 = j /\ j + 7 \in 1..Len(text) /\ j + 7 <= e
  BY <1>5, <1>7, SMTT(30)
<1>12. payload[i - 1] = text[j - 1]
  <2>1. PICK k \in 1..Len(text) : k = j - 1 /\ k + 1 = j
    BY <1>11
  <2>2. payload[Spot(base, text, k + 1) - 1] = text[k]
    BY <1>3, AtSpot
  <2> QED
    BY <1>8, <2>1, <2>2
<1>13. Inside(base, accounts, s) < i
  <2>1. /\ Inside(base, accounts, s) \in Nat
        /\ s <= j <=> Inside(base, accounts, s) <= Inside(base, accounts, j)
        /\ s = j <=> Inside(base, accounts, s) = Inside(base, accounts, j)
    BY <1>1, InsideOrder
  <2>2. s <= j /\ s # j
    BY <1>7
  <2> QED
    BY <1>4, <2>1, <2>2
<1>14. i + 11 <= Inside(base, accounts, e)
  <2>1. PICK k \in 1..Len(text) : k = j + 7
    BY <1>11
  <2>2. k <= e <=> Inside(base, accounts, k) <= Inside(base, accounts, e)
    BY <1>1, InsideOrder
  <2>3. Inside(base, accounts, k) = i + 11
    BY <1>1, <1>10, <2>1 DEF Inside
  <2> QED
    BY <1>11, <2>1, <2>2, <2>3
<1>15. i + 10 < Inside(base, accounts, e)
  <2>1. Inside(base, accounts, e) \in Nat
    BY <1>1, InsideOrder
  <2> QED
    BY <1>14, <2>1
<1> QED
  BY <1>5, <1>6, <1>7, <1>10, <1>12, <1>13, <1>15

\* A pattern of the payload within an account is a member of it.
LEMMA PatternInside ==
  ASSUME NEW accounts \in Seq(Seq(Members)), NEW payload \in Seq(Symbols), NEW base \in Nat,
         LinkedAt(payload, base, accounts), NEW a \in 1..Len(accounts),
         NEW key \in Words, NEW word \in Words,
         NEW i \in Nat, Occurs(payload, MemberPattern(key, word), i),
         Inside(base, accounts, AccountAt(accounts, a)) <= i,
         i + 10 <= Inside(base, accounts, AccountEnd(accounts, a))
  PROVE  \E b \in MembersOf(accounts[a], key, word) : i = Inside(base, accounts, MemberAt(accounts, a, b))
<1>1. PICK text \in Seq(Symbols) : text = AccountsText(accounts)
  BY AccountsWhole
<1>2. PICK L \in Nat : L = Len(Escaped(text))
  BY EscapedWhole
<1>3. Occurs(payload, Escaped(text), base)
  BY <1>1, <1>2 DEF LinkedAt
<1>4. PICK s \in 1..Len(text), e \in 1..Len(text) : s = AccountAt(accounts, a) /\ e = AccountEnd(accounts, a)
  <2>1. /\ AccountAt(accounts, a) \in Nat /\ AccountAt(accounts, a) >= 2
        /\ AccountEnd(accounts, a) \in Nat /\ AccountAt(accounts, a) < AccountEnd(accounts, a)
        /\ AccountEnd(accounts, a) <= Len(text)
    BY <1>1, AccountInText
  <2>2. Len(text) \in Nat
    OBVIOUS
  <2>3. AccountAt(accounts, a) \in 1..Len(text) /\ AccountEnd(accounts, a) \in 1..Len(text)
    BY <2>1, <2>2
  <2> QED
    BY <2>3
<1>5. PICK p \in Nat : p = Inside(base, accounts, s) /\ base <= p
  <2>1. Inside(base, accounts, s) \in Nat /\ base <= Inside(base, accounts, s)
    BY <1>1, InsideOrder
  <2> QED
    BY <2>1
<1>6. PICK q \in Nat : q = Inside(base, accounts, e) /\ q < base + L
  BY <1>1, <1>2, InsideOrder
<1>7. base <= i /\ i + 10 < base + Len(Escaped(text))
  <2>1. p <= i /\ i + 10 <= q
    BY <1>4, <1>5, <1>6
  <2> QED
    BY <1>2, <1>5, <1>6, <2>1, SMTT(30)
<1>8. PICK j \in 1..Len(text) : i = Spot(base, text, j) /\ Names(text, j, key, word)
  BY <1>3, <1>7, PatternIsNamed
<1>9. i = Inside(base, accounts, j)
  BY <1>1, <1>8 DEF Inside
<1>10. s <= j /\ j <= e
  <2>1. s <= j <=> Inside(base, accounts, s) <= Inside(base, accounts, j)
    BY <1>1, InsideOrder
  <2>2. j <= e <=> Inside(base, accounts, j) <= Inside(base, accounts, e)
    BY <1>1, InsideOrder
  <2>3. i <= q
    BY <1>4, <1>6
  <2> QED
    BY <1>4, <1>6, <1>9, <2>1, <2>2, <2>3
<1>11. PICK b \in MembersOf(accounts[a], key, word) : j = MemberAt(accounts, a, b)
  BY <1>1, <1>4, <1>8, <1>10, NamedIsMember, SMTT(30)
<1> QED
  BY <1>9, <1>11

-----------------------------------------------------------------------------
(* The objects that the search meets *)

\* The places of a stretch that does not start at 0
LEMMA Places ==
  ASSUME NEW lo \in Nat \ {0}, NEW n \in Nat
  PROVE  \A i \in lo..(n - 1) : i \in Nat \ {0} /\ i <= n - 1 /\ lo <= i
OBVIOUS

\* From s to e is what a search from a place up to the last one takes for an object.
IsObject(payload, from, last, s, e) ==
  /\ from <= s /\ s <= e /\ e <= last
  /\ payload[s] = "{" /\ payload[e] = "}"
  /\ \A i \in from..last : payload[i] = "{" => s <= i
  /\ \A i \in s..last : payload[i] = "}" => e <= i

\* Positions between the two ends of an interval
LEMMA Within ==
  ASSUME NEW x \in Nat, NEW y \in Nat, NEW z \in Nat, NEW n \in Nat, x <= y, y <= z, z <= n - 1
  PROVE  z \in x..(n - 1)
OBVIOUS

\* The next object: from the first opening brace to the first closing one behind it
LEMMA ObjectEnds ==
  ASSUME NEW payload, NEW from \in Nat \ {0}, NEW laEnd \in Nat,
         NextObject(payload, from, laEnd).end # 0
  PROVE  \E s \in Nat, e \in Nat :
           /\ NextObject(payload, from, laEnd) = [start |-> s, end |-> e]
           /\ IsObject(payload, from, laEnd - 1, s, e)
<1> DEFINE o == NextObject(payload, from, laEnd)
           opens == {i \in from..(laEnd - 1) : payload[i] = "{"}
           closes == {i \in o.start..(laEnd - 1) : payload[i] = "}"}
<1>1. o.start = First(opens) /\ o.end = IF o.start = 0 THEN 0 ELSE First(closes)
  BY DEF NextObject
<1>11. o.end # 0 /\ o = [start |-> o.start, end |-> o.end]
  BY DEF NextObject
<1> HIDE DEF o
<1>2. opens \in SUBSET (Nat \ {0})
  <2>1. \A i \in from..(laEnd - 1) : i \in Nat \ {0}
    BY Places
  <2> QED
    BY <2>1, Zenon
<1>3. o.start \in opens /\ \A i \in opens : o.start <= i
  <2> HIDE DEF opens, closes
  <2>1. o.start # 0
    BY <1>1, <1>11
  <2>2. First(opens) # 0
    BY <1>1, <2>1
  <2>3. First(opens) \in opens /\ \A i \in opens : First(opens) <= i
    BY <1>2, <2>2, FirstOf
  <2> QED
    BY <1>1, <2>3, Zenon
<1>4. o.start \in from..(laEnd - 1) /\ payload[o.start] = "{"
  BY <1>3, Zenon
<1>5. o.start \in Nat \ {0}
  BY <1>4, Places
<1>6. closes \in SUBSET (Nat \ {0})
  <2>1. \A i \in o.start..(laEnd - 1) : i \in Nat \ {0}
    BY <1>5, Places
  <2> QED
    BY <2>1, Zenon
<1>7. o.end \in closes /\ \A i \in closes : o.end <= i
  <2> HIDE DEF opens, closes
  <2>1. o.end = First(closes)
    BY <1>1, <1>5, <1>11
  <2>2. First(closes) # 0
    BY <1>11, <2>1
  <2>3. First(closes) \in closes /\ \A i \in closes : First(closes) <= i
    BY <1>6, <2>2, FirstOf
  <2> QED
    BY <2>1, <2>3, Zenon
<1>8. \A i \in from..(laEnd - 1) : payload[i] = "{" => o.start <= i
  BY <1>3, Zenon
<1>9. \A i \in o.start..(laEnd - 1) : payload[i] = "}" => o.end <= i
  BY <1>7, Zenon
<1>10. o.end \in o.start..(laEnd - 1) /\ payload[o.end] = "}"
  BY <1>7, Zenon
<1>12. PICK s \in Nat : s = o.start /\ from <= s /\ s # 0
  BY <1>4, Places
<1>13. PICK e \in Nat : e = o.end /\ s <= e /\ e <= laEnd - 1
  <2>1. s \in Nat \ {0} /\ o.end \in s..(laEnd - 1)
    BY <1>10, <1>12
  <2>2. o.end \in Nat /\ o.end <= laEnd - 1 /\ s <= o.end
    BY <2>1, Places
  <2> QED
    BY <2>2
<1>14. IsObject(payload, from, laEnd - 1, s, e)
  BY <1>4, <1>8, <1>9, <1>10, <1>12, <1>13, Zenon DEF IsObject
<1>15. o = [start |-> s, end |-> e]
  BY <1>11, <1>12, <1>13
<1> QED
  BY <1>14, <1>15 DEF o

\* Where braces open and close one behind the other, there is an object.
LEMMA ObjectExists ==
  ASSUME NEW payload, NEW from \in Nat \ {0}, NEW laEnd \in Nat,
         NEW s \in from..(laEnd - 1), payload[s] = "{", NEW e \in s..(laEnd - 1), payload[e] = "}"
  PROVE  NextObject(payload, from, laEnd).end # 0
<1> DEFINE opens == {i \in from..(laEnd - 1) : payload[i] = "{"}
           start == First(opens)
           closes == {i \in start..(laEnd - 1) : payload[i] = "}"}
<1>1. NextObject(payload, from, laEnd).end = IF start = 0 THEN 0 ELSE First(closes)
  BY DEF NextObject
<1>2. opens \in SUBSET (Nat \ {0}) /\ s \in opens
  <2>1. \A i \in from..(laEnd - 1) : i \in Nat \ {0}
    BY Places
  <2> QED
    BY <2>1, Zenon
<1>3. start \in opens /\ \A i \in opens : start <= i
  <2> HIDE DEF opens
  <2> QED
    BY <1>2, FirstOf
<1>4. start \in Nat /\ start # 0 /\ start <= s /\ s \in Nat /\ s # 0
  <2> HIDE DEF opens
  <2> QED
    BY <1>2, <1>3
<1>5. e \in Nat /\ s <= e /\ e <= laEnd - 1
  <2>1. s \in Nat \ {0}
    BY <1>4
  <2> HIDE DEF start, opens, closes
  <2> QED
    BY <2>1, Places
<1> HIDE DEF start, opens
<1>6. e \in start..(laEnd - 1)
  <2>1. PICK x \in Nat : x = start /\ x <= s
    BY <1>4
  <2>2. PICK y \in Nat : y = s
    BY <1>4
  <2>3. PICK z \in Nat : z = e /\ y <= z /\ z <= laEnd - 1
    BY <1>5, <2>2
  <2>4. z \in x..(laEnd - 1)
    BY <2>1, <2>2, <2>3, Within
  <2> QED
    BY <2>1, <2>3, <2>4
<1>7. closes \in SUBSET (Nat \ {0}) /\ e \in closes
  <2>1. \A i \in start..(laEnd - 1) : i \in Nat \ {0}
    BY <1>4, Places
  <2> QED
    BY <1>6, <2>1, Zenon
<1>8. First(closes) # 0
  <2> HIDE DEF closes
  <2> QED
    BY <1>7, FirstOf
<1> QED
  BY <1>1, <1>4, <1>8

\* What a search for a member finds
LEMMA FoundMember ==
  ASSUME NEW payload, NEW pattern, Len(pattern) \in Nat, NEW start \in Nat \ {0}, NEW end \in Nat
  PROVE  /\ findMember(payload, pattern, start, end) # 0 =>
              /\ findMember(payload, pattern, start, end) \in start..(end - Len(pattern))
              /\ Occurs(payload, pattern, findMember(payload, pattern, start, end))
         /\ \A i \in start..(end - Len(pattern)) :
              Occurs(payload, pattern, i) /\ i > 1 /\ isMemberBoundary(payload[i - 1]) =>
                findMember(payload, pattern, start, end) # 0
<1> DEFINE places == {i \in start..(end - Len(pattern)) :
                        Occurs(payload, pattern, i) /\ i > 1 /\ isMemberBoundary(payload[i - 1])}
<1>1. findMember(payload, pattern, start, end) = First(places)
  BY DEF findMember
<1>2. places \in SUBSET (Nat \ {0})
  OBVIOUS
<1>3. /\ First(places) # 0 => First(places) \in places
      /\ \A i \in places : First(places) # 0
  <2> HIDE DEF places
  <2> QED
    BY <1>2, FirstOf
<1> QED
  BY <1>1, <1>3

\* Down from the end: what holds at a place when it holds everywhere behind it holds everywhere.
LEMMA FromTheEnd ==
  ASSUME NEW lo \in Nat, NEW hi \in Nat, NEW S,
         \A x \in lo..hi : (\A y \in (x + 1)..hi : y \in S) => x \in S
  PROVE  \A x \in lo..hi : x \in S
<1> SUFFICES ASSUME NEW x0 \in lo..hi, x0 \notin S PROVE FALSE
  OBVIOUS
<1> DEFINE T == {d \in 0..hi : hi - d \in lo..hi /\ hi - d \notin S}
           R == OpToRel(<, Nat)
<1>1. T \subseteq Nat /\ T # {}
  <2>1. hi - x0 \in 0..hi /\ hi - (hi - x0) = x0
    OBVIOUS
  <2>2. hi - x0 \in T
    BY <2>1, Zenon
  <2>3. 0..hi \subseteq Nat
    OBVIOUS
  <2> HIDE DEF R
  <2> QED
    BY <2>2, <2>3, Zenon
<1>2. IsWellFoundedOn(R, Nat)
  BY NatLessThanWellFounded
<1>3. PICK d \in T : \A y \in T : ~ (<<y, d>> \in R)
  <2> HIDE DEF T, R
  <2> QED
    BY <1>1, <1>2, WFMin
<1>4. \A y \in T : ~ (y < d)
  BY <1>1, <1>3 DEF OpToRel
<1>5. PICK x \in lo..hi : x = hi - d /\ x \notin S
  OBVIOUS
<1>6. PICK y \in (x + 1)..hi : y \notin S
  BY <1>5
<1>7. hi - y \in T /\ hi - y < d
  BY <1>5, <1>6
<1> HIDE DEF T
<1> QED
  BY <1>4, <1>7

IsSearch(f, lo, hi, Stop, result, next) ==
  f = [x \in lo..hi |-> IF x \in Stop THEN result[x] ELSE f[next[x]]]

\* A search that goes on behind where it is reaches an end.
LEMMA SearchExists ==
  ASSUME NEW lo \in Nat, NEW hi \in Nat, lo <= hi, NEW Stop, NEW result, NEW next,
         \A x \in lo..hi : x \notin Stop => next[x] \in (x + 1)..hi
  PROVE  \E f : IsSearch(f, lo, hi, Stop, result, next)
<1> DEFINE SearchFrom(f, m) == f = [x \in m..hi |-> IF x \in Stop THEN result[x] ELSE f[next[x]]]
           Good == {m \in lo..hi : \E f : SearchFrom(f, m)}
<1>1. ASSUME NEW m \in lo..hi, \A y \in (m + 1)..hi : y \in Good PROVE m \in Good
  <2>1. PICK g : \A x \in (m + 1)..hi : g[x] = IF x \in Stop THEN result[x] ELSE g[next[x]]
    <3>1. CASE m = hi
      <4>1. (m + 1)..hi = {}
        BY <3>1
      <4> QED
        BY <4>1
    <3>2. CASE m # hi
      <4>1. m + 1 \in (m + 1)..hi
        BY <3>2
      <4>2. PICK g : SearchFrom(g, m + 1)
        BY <1>1, <4>1
      <4> QED
        BY <4>2
    <3> QED
      BY <3>1, <3>2
  <2> DEFINE new == IF m \in Stop THEN result[m] ELSE g[next[m]]
             f == [x \in m..hi |-> IF x = m THEN new ELSE g[x]]
  <2>2. f[m] = new /\ \A x \in (m + 1)..hi : f[x] = g[x]
    OBVIOUS
  <2>3. ASSUME NEW x \in m..hi PROVE f[x] = IF x \in Stop THEN result[x] ELSE f[next[x]]
    <3>1. x \in lo..hi
      OBVIOUS
    <3>2. CASE x \in Stop
      <4>1. CASE x = m
        BY <2>2, <3>2, <4>1
      <4>2. CASE x # m
        <5>1. x \in (m + 1)..hi
          BY <4>2
        <5> HIDE DEF f
        <5> QED
          BY <2>1, <2>2, <3>2, <5>1
      <4> QED
        BY <4>1, <4>2
    <3>3. CASE x \notin Stop
      <4>1. next[x] \in (x + 1)..hi /\ next[x] \in (m + 1)..hi
        BY <3>1, <3>3
      <4> HIDE DEF f
      <4>2. f[next[x]] = g[next[x]]
        BY <2>2, <4>1
      <4>3. CASE x = m
        BY <2>2, <3>3, <4>2, <4>3
      <4>4. CASE x # m
        <5>1. x \in (m + 1)..hi
          BY <4>4
        <5> QED
          BY <2>1, <2>2, <3>3, <4>2, <5>1
      <4> QED
        BY <4>3, <4>4
    <3> QED
      BY <3>2, <3>3
  <2>4. f = [x \in m..hi |-> f[x]]
    OBVIOUS
  <2> HIDE DEF f
  <2>5. SearchFrom(f, m)
    BY <2>3, <2>4
  <2> QED
    BY <2>5
<1> HIDE DEF Good
<1>2. lo \in Good
  <2>1. lo \in lo..hi
    OBVIOUS
  <2>2. \A x \in lo..hi : x \in Good
    BY <1>1, FromTheEnd
  <2> QED
    BY <2>1, <2>2
<1> QED
  BY <1>2 DEF Good, IsSearch

-----------------------------------------------------------------------------
(* Objects and accounts *)

\* Where an account begins and ends in the payload
Opening(base, accounts, a) == Inside(base, accounts, AccountAt(accounts, a))
Closing(base, accounts, a) == Inside(base, accounts, AccountEnd(accounts, a))

\* Where the quote behind the accounts is
Behind(base, accounts) == base + Len(Escaped(AccountsText(accounts)))

\* Where an account begins and ends in the text of the accounts
LEMMA AccountPlaces ==
  ASSUME NEW accounts \in Seq(Seq(Members)), NEW a \in 1..Len(accounts)
  PROVE  /\ AccountAt(accounts, a) \in 1..Len(AccountsText(accounts))
         /\ AccountEnd(accounts, a) \in 1..Len(AccountsText(accounts))
         /\ AccountAt(accounts, a) < AccountEnd(accounts, a)
<1>1. /\ AccountAt(accounts, a) \in Nat /\ AccountAt(accounts, a) >= 2
      /\ AccountEnd(accounts, a) \in Nat /\ AccountAt(accounts, a) < AccountEnd(accounts, a)
      /\ AccountEnd(accounts, a) <= Len(AccountsText(accounts))
  BY AccountInText
<1>2. PICK n \in Nat : n = Len(AccountsText(accounts))
  BY AccountsWhole
<1>3. PICK s \in Nat : s = AccountAt(accounts, a)
  BY <1>1
<1>4. PICK e \in Nat : e = AccountEnd(accounts, a)
  BY <1>1
<1>5. s >= 2 /\ s < e /\ e <= n
  BY <1>1, <1>2, <1>3, <1>4
<1>6. s \in 1..n /\ e \in 1..n
  BY <1>5
<1> QED
  BY <1>2, <1>3, <1>4, <1>5, <1>6, Zenon

\* Where an account begins and ends in the payload, with which brace
LEMMA AccountInPayload ==
  ASSUME NEW accounts \in Seq(Seq(Members)), NEW payload \in Seq(Symbols), NEW base \in Nat,
         LinkedAt(payload, base, accounts), NEW a \in 1..Len(accounts)
  PROVE  /\ Opening(base, accounts, a) \in Nat /\ Closing(base, accounts, a) \in Nat
         /\ base <= Opening(base, accounts, a) /\ Opening(base, accounts, a) < Closing(base, accounts, a)
         /\ Closing(base, accounts, a) < Behind(base, accounts)
         /\ payload[Opening(base, accounts, a)] = "{" /\ payload[Closing(base, accounts, a)] = "}"
<1>1. PICK text \in Seq(Symbols) : text = AccountsText(accounts)
  BY AccountsWhole
<1>2. text[AccountAt(accounts, a)] = "{" /\ text[AccountEnd(accounts, a)] = "}"
  BY <1>1, AccountInText
<1>4. PICK s \in 1..Len(text), e \in 1..Len(text) :
        s = AccountAt(accounts, a) /\ e = AccountEnd(accounts, a) /\ s < e
  BY <1>1, AccountPlaces
<1>5. /\ Inside(base, accounts, s) \in Nat /\ base <= Inside(base, accounts, s)
      /\ s <= e <=> Inside(base, accounts, s) <= Inside(base, accounts, e)
      /\ s = e <=> Inside(base, accounts, s) = Inside(base, accounts, e)
  BY <1>1, InsideOrder
<1>6. Inside(base, accounts, e) \in Nat /\ Inside(base, accounts, e) < Behind(base, accounts)
  BY <1>1, InsideOrder DEF Behind
<1>7. payload[Inside(base, accounts, s)] = "{" /\ payload[Inside(base, accounts, e)] = "}"
  <2>1. text[s] = "{" /\ text[e] = "}"
    BY <1>2, <1>4
  <2>2. Brace(text[s]) /\ Brace(text[e])
    BY <2>1 DEF Brace
  <2> QED
    BY <1>1, <2>1, <2>2, InsideBrace
<1>8. s <= e /\ s # e
  BY <1>4
<1>9. Inside(base, accounts, s) < Inside(base, accounts, e)
  BY <1>5, <1>6, <1>8
<1> QED
  BY <1>4, <1>5, <1>6, <1>7, <1>9 DEF Opening, Closing

\* An account ends before the next one begins.
LEMMA AccountsInOrder ==
  ASSUME NEW accounts \in Seq(Seq(Members)), NEW base \in Nat,
         NEW a \in 1..Len(accounts), NEW c \in 1..Len(accounts), a < c
  PROVE  Closing(base, accounts, a) < Opening(base, accounts, c)
<1>1. PICK e \in 1..Len(AccountsText(accounts)) : e = AccountEnd(accounts, a)
  BY AccountPlaces
<1>2. PICK s \in 1..Len(AccountsText(accounts)) : s = AccountAt(accounts, c)
  BY AccountPlaces
<1>3. e < s
  BY <1>1, <1>2, AccountsApart
<1>4. PICK x \in Nat : x = Inside(base, accounts, e)
  BY InsideOrder
<1>5. PICK y \in Nat : y = Inside(base, accounts, s)
  BY InsideOrder
<1>6. s <= e <=> y <= x
  BY <1>4, <1>5, InsideOrder
<1>7. ~ (s <= e)
  <2>1. PICK n \in Nat : n = Len(AccountsText(accounts))
    BY AccountsWhole
  <2> QED
    BY <1>3, <2>1
<1>9. x < y
  BY <1>6, <1>7
<1> QED
  BY <1>1, <1>2, <1>4, <1>5, <1>9, Zenon DEF Opening, Closing

\* Each brace of the claim's value is in an account: its own two, when its texts have none.
LEMMA BraceInAccount ==
  ASSUME NEW accounts \in Seq(Seq(Members)), NEW payload \in Seq(Symbols), NEW base \in Nat,
         LinkedAt(payload, base, accounts),
         NEW i \in base..Behind(base, accounts), Brace(payload[i])
  PROVE  \E a \in 1..Len(accounts) :
           /\ Opening(base, accounts, a) <= i /\ i <= Closing(base, accounts, a)
           /\ Braceless(accounts[a]) => i = Opening(base, accounts, a) \/ i = Closing(base, accounts, a)
<1>1. PICK text \in Seq(Symbols) : text = AccountsText(accounts)
  BY AccountsWhole
<1>2. PICK j \in 1..Len(text) : i = Inside(base, accounts, j) /\ text[j] = payload[i]
  BY <1>1, BraceInside DEF Behind
<1>3. Brace(text[j]) /\ text[j] \notin {Comma, "[", "]"}
  BY <1>2, NoBraces DEF Brace
<1>4. PICK a \in 1..Len(accounts) : AccountAt(accounts, a) <= j /\ j <= AccountEnd(accounts, a)
  BY <1>1, <1>3, InSomeAccount
<1>5. PICK n \in Nat : n = Len(text)
  OBVIOUS
<1>6. /\ AccountAt(accounts, a) \in Nat /\ AccountAt(accounts, a) >= 2
      /\ AccountEnd(accounts, a) \in Nat /\ AccountAt(accounts, a) < AccountEnd(accounts, a)
      /\ AccountEnd(accounts, a) <= n
      /\ accounts[a] \in Seq(Members)
      /\ Occurs(text, AccountText(accounts[a]), AccountAt(accounts, a))
      /\ AccountEnd(accounts, a) = EndOf(accounts[a], AccountAt(accounts, a))
  BY <1>1, <1>5, AccountInText
<1>7. PICK s \in Nat : s = AccountAt(accounts, a) /\ s >= 1 /\ s <= n /\ s <= j
  <2>1. AccountAt(accounts, a) >= 1 /\ AccountAt(accounts, a) <= n
    BY <1>5, <1>6
  <2> QED
    BY <1>4, <1>6, <2>1
<1>8. PICK e \in Nat : e = AccountEnd(accounts, a) /\ e >= 1 /\ e <= n /\ j <= e
  <2>1. AccountEnd(accounts, a) >= 1 /\ AccountEnd(accounts, a) <= n
    BY <1>5, <1>6
  <2> QED
    BY <1>4, <1>6, <2>1
<1>9. s \in 1..Len(text) /\ e \in 1..Len(text)
  BY <1>5, <1>7, <1>8
<1>10. /\ s <= j <=> Inside(base, accounts, s) <= Inside(base, accounts, j)
       /\ Inside(base, accounts, s) \in Nat
  BY <1>1, <1>9, InsideOrder
<1>11. j <= e <=> Inside(base, accounts, j) <= Inside(base, accounts, e)
  BY <1>1, <1>9, InsideOrder
<1>12. Opening(base, accounts, a) <= i /\ i <= Closing(base, accounts, a)
  BY <1>2, <1>7, <1>8, <1>10, <1>11 DEF Opening, Closing
<1>13. ASSUME Braceless(accounts[a])
       PROVE  i = Opening(base, accounts, a) \/ i = Closing(base, accounts, a)
  <2>1. PICK account \in Seq(Members) : account = accounts[a]
    BY <1>6
  <2>2. Occurs(text, AccountText(account), s) /\ EndOf(account, s) = e
    BY <1>6, <1>7, <1>8, <2>1
  <2>3. j \in s..EndOf(account, s)
    BY <1>7, <1>8, <2>2
  <2>4. j = s \/ j = EndOf(account, s)
    BY <1>3, <1>13, <2>1, <2>2, <2>3, BracesOfAccount
  <2> QED
    BY <1>2, <1>7, <1>8, <2>2, <2>4 DEF Opening, Closing
<1> QED
  BY <1>12, <1>13

\* What is in one account and starts no later than another ends before that.
LEMMA EndsBefore ==
  ASSUME NEW accounts \in Seq(Seq(Members)), NEW payload \in Seq(Symbols), NEW base \in Nat,
         LinkedAt(payload, base, accounts), NEW a \in 1..Len(accounts), NEW c \in 1..Len(accounts),
         NEW s \in Nat, NEW e \in Nat,
         Opening(base, accounts, a) <= s, e <= Closing(base, accounts, a), s <= Opening(base, accounts, c)
  PROVE  a = c \/ e < Opening(base, accounts, c)
<1>1. PICK x \in Nat : x = Opening(base, accounts, a)
  BY AccountInPayload
<1>2. PICK y \in Nat : y = Closing(base, accounts, a)
  BY AccountInPayload
<1>3. PICK p \in Nat : p = Opening(base, accounts, c)
  BY AccountInPayload
<1>4. PICK q \in Nat : q = Closing(base, accounts, c) /\ p < q
  <2>1. Closing(base, accounts, c) \in Nat /\ Opening(base, accounts, c) < Closing(base, accounts, c)
    BY AccountInPayload
  <2> QED
    BY <1>3, <2>1
<1>5. x <= s /\ e <= y /\ s <= p
  BY <1>1, <1>2, <1>3
<1>6. a < c => y < p
  BY <1>2, <1>3, AccountsInOrder
<1>7. c < a => q < x
  BY <1>1, <1>4, AccountsInOrder
<1>8. a = c \/ a < c \/ c < a
  OBVIOUS
<1>9. ~ (q < x)
  BY <1>4, <1>5
<1>10. y < p => e < p
  BY <1>5
<1> QED
  BY <1>3, <1>6, <1>7, <1>8, <1>9, <1>10, Zenon

\* No position is in two accounts.
LEMMA SameAccount ==
  ASSUME NEW accounts \in Seq(Seq(Members)), NEW payload \in Seq(Symbols), NEW base \in Nat,
         LinkedAt(payload, base, accounts), NEW a \in 1..Len(accounts), NEW c \in 1..Len(accounts),
         NEW e \in Nat,
         Opening(base, accounts, a) <= e, e <= Closing(base, accounts, a),
         Opening(base, accounts, c) <= e, e <= Closing(base, accounts, c)
  PROVE  a = c
<1>1. PICK x \in Nat : x = Opening(base, accounts, a)
  BY AccountInPayload
<1>2. PICK y \in Nat : y = Closing(base, accounts, a)
  BY AccountInPayload
<1>3. PICK p \in Nat : p = Opening(base, accounts, c)
  BY AccountInPayload
<1>4. PICK q \in Nat : q = Closing(base, accounts, c)
  BY AccountInPayload
<1>5. x <= e /\ e <= y /\ p <= e /\ e <= q
  BY <1>1, <1>2, <1>3, <1>4
<1>6. a < c => y < p
  BY <1>2, <1>3, AccountsInOrder
<1>7. c < a => q < x
  BY <1>1, <1>4, AccountsInOrder
<1>8. ~ (y < p) /\ ~ (q < x)
  BY <1>5
<1>9. a = c \/ a < c \/ c < a
  OBVIOUS
<1> QED
  BY <1>6, <1>7, <1>8, <1>9, Zenon

\* The end of the accounts is a position of the payload.
LEMMA BehindIsPlace ==
  ASSUME NEW accounts \in Seq(Seq(Members)), NEW base \in Nat PROVE Behind(base, accounts) \in Nat
<1>1. AccountsText(accounts) \in Seq(Symbols)
  BY AccountsWhole
<1>2. Len(Escaped(AccountsText(accounts))) \in Nat
  BY <1>1, EscapedWhole
<1> QED
  BY <1>2 DEF Behind

LEMMA Between == ASSUME NEW x \in Nat, NEW y \in Nat, NEW z \in Nat, x <= y, y <= z PROVE y \in x..z
OBVIOUS

\* From the first opening brace to the first closing one behind it all is in one account: all of
\* it, when its texts have no braces; and no account of that kind is passed.
LEMMA FirstBraces ==
  ASSUME NEW accounts \in Seq(Seq(Members)), NEW payload \in Seq(Symbols), NEW base \in Nat,
         LinkedAt(payload, base, accounts), NEW from \in Nat, base <= from,
         NEW s \in Nat, NEW e \in Nat, IsObject(payload, from, Behind(base, accounts), s, e)
  PROVE  /\ \E a \in 1..Len(accounts) :
              /\ Opening(base, accounts, a) <= s /\ e <= Closing(base, accounts, a)
              /\ Braceless(accounts[a]) =>
                   s = Opening(base, accounts, a) /\ e = Closing(base, accounts, a)
         /\ \A c \in 1..Len(accounts) :
              Braceless(accounts[c]) /\ from <= Opening(base, accounts, c) =>
                \/ e < Opening(base, accounts, c)
                \/ s = Opening(base, accounts, c) /\ e = Closing(base, accounts, c)
<1>13. PICK d \in Nat : d = Behind(base, accounts)
  BY BehindIsPlace
<1>14. \A c \in 1..Len(accounts) :
         payload[Opening(base, accounts, c)] = "{" /\ payload[Closing(base, accounts, c)] = "}"
  BY AccountInPayload, ZenonT(60)
<1>15. payload[s] = "{" /\ payload[e] = "}"
  BY DEF IsObject
<1>18. from <= s /\ s <= e /\ e <= d
  BY <1>13 DEF IsObject
<1>16. \A i \in from..d : payload[i] = "{" => s <= i
  BY <1>13 DEF IsObject
<1>17. \A i \in s..d : payload[i] = "}" => e <= i
  BY <1>13 DEF IsObject
<1>1. Brace(payload[s]) /\ Brace(payload[e])
  BY <1>15 DEF Brace
<1>2. s \in base..Behind(base, accounts) /\ e \in base..Behind(base, accounts)
  <2>1. s \in base..d /\ e \in base..d
    <3>1. base <= s /\ base <= e /\ s <= d
      BY <1>18
    <3> QED
      BY <1>18, <3>1, Between
  <2> QED
    BY <1>13, <2>1, Zenon
<1>3. PICK a \in 1..Len(accounts) :
        /\ Opening(base, accounts, a) <= s /\ s <= Closing(base, accounts, a)
        /\ Braceless(accounts[a]) => s = Opening(base, accounts, a) \/ s = Closing(base, accounts, a)
  BY <1>1, <1>2, BraceInAccount
<1>4. PICK x \in Nat : x = Opening(base, accounts, a)
  BY AccountInPayload
<1>5. PICK y \in Nat : y = Closing(base, accounts, a)
  BY AccountInPayload
<1>6. x < y /\ y < d
  BY <1>4, <1>5, <1>13, AccountInPayload
<1>7. payload[Closing(base, accounts, a)] = "}"
  BY <1>14, Zenon
<1>8. x <= s /\ s <= y
  BY <1>3, <1>4, <1>5
<1>9. e <= y
  <2>1. y \in s..d
    BY <1>6, <1>8, Between
  <2> QED
    BY <1>5, <1>7, <1>17, <2>1, Zenon
<1>10. ASSUME Braceless(accounts[a]) PROVE s = x /\ e = y
  <2>1. s # y
    BY <1>5, <1>7, <1>15, NoBraces
  <2>2. s = x
    BY <1>3, <1>4, <1>5, <1>10, <2>1
  <2>3. PICK c \in 1..Len(accounts) :
          /\ Opening(base, accounts, c) <= e /\ e <= Closing(base, accounts, c)
          /\ Braceless(accounts[c]) => e = Opening(base, accounts, c) \/ e = Closing(base, accounts, c)
    BY <1>1, <1>2, BraceInAccount
  <2>4. c = a
    <3>1. x <= e
      BY <1>8, <1>18
    <3>2. Opening(base, accounts, a) <= e /\ e <= Closing(base, accounts, a)
      BY <1>4, <1>5, <1>9, <3>1, Zenon
    <3> QED
      BY <2>3, <3>2, SameAccount
  <2>5. e # x
    BY <1>15, <2>2, NoBraces
  <2> QED
    BY <1>4, <1>5, <1>10, <2>2, <2>3, <2>4, <2>5, Zenon
<1>11. ASSUME NEW c \in 1..Len(accounts), Braceless(accounts[c]), from <= Opening(base, accounts, c)
       PROVE  \/ e < Opening(base, accounts, c)
              \/ s = Opening(base, accounts, c) /\ e = Closing(base, accounts, c)
  <2>1. PICK p \in Nat : p = Opening(base, accounts, c)
    BY AccountInPayload
  <2>2. PICK q \in Nat : q = Closing(base, accounts, c)
    BY AccountInPayload
  <2>3. p < q /\ q < d
    BY <1>13, <2>1, <2>2, AccountInPayload
  <2>4. payload[Opening(base, accounts, c)] = "{"
    BY <1>14, Zenon
  <2>5. p \in from..d
    <3>1. from <= p
      BY <1>11, <2>1, Zenon
    <3>2. p <= d
      BY <2>3
    <3> QED
      BY <3>1, <3>2, Between
  <2>6. s <= p
    BY <1>16, <2>1, <2>4, <2>5, Zenon
  <2>7. a = c \/ e < Opening(base, accounts, c)
    <3>1. s <= Opening(base, accounts, c) /\ e <= Closing(base, accounts, a)
      BY <1>5, <1>9, <2>1, <2>6, Zenon
    <3> QED
      BY <1>3, <3>1, EndsBefore
  <2>8. a = c => s = Opening(base, accounts, c) /\ e = Closing(base, accounts, c)
    BY <1>4, <1>5, <1>10, <1>11, Zenon
  <2> QED
    BY <2>7, <2>8, Zenon
<1>12. /\ Opening(base, accounts, a) <= s /\ e <= Closing(base, accounts, a)
       /\ Braceless(accounts[a]) =>
            s = Opening(base, accounts, a) /\ e = Closing(base, accounts, a)
  BY <1>3, <1>4, <1>5, <1>9, <1>10, Zenon
<1> QED
  BY <1>11, <1>12, Zenon

IsObjectOf(payload, base, accounts, from, laEnd, s, e) ==
  /\ from <= s /\ s <= e /\ e < laEnd /\ payload[e] = "}"
  /\ \E a \in 1..Len(accounts) :
       /\ Opening(base, accounts, a) <= s /\ e <= Closing(base, accounts, a)
       /\ Braceless(accounts[a]) =>
            s = Opening(base, accounts, a) /\ e = Closing(base, accounts, a)
  /\ \A c \in 1..Len(accounts) :
       Braceless(accounts[c]) /\ from <= Opening(base, accounts, c) =>
         \/ e < Opening(base, accounts, c)
         \/ s = Opening(base, accounts, c) /\ e = Closing(base, accounts, c)

\* The search of the code meets no other objects.
LEMMA ObjectInAccount ==
  ASSUME NEW accounts \in Seq(Seq(Members)), NEW payload \in Seq(Symbols), NEW base \in Nat, base # 0,
         LinkedAt(payload, base, accounts), NEW laEnd \in Nat, laEnd = Behind(base, accounts) + 1,
         NEW from \in Nat, base <= from, NextObject(payload, from, laEnd).end # 0
  PROVE  \E s \in Nat, e \in Nat :
           /\ NextObject(payload, from, laEnd) = [start |-> s, end |-> e]
           /\ IsObjectOf(payload, base, accounts, from, laEnd, s, e)
<1>1. from \in Nat \ {0}
  OBVIOUS
<1>2. laEnd - 1 = Behind(base, accounts)
  <2>1. PICK d \in Nat : d = Behind(base, accounts)
    BY BehindIsPlace
  <2>2. laEnd = d + 1
    BY <2>1
  <2>3. (d + 1) - 1 = d
    OBVIOUS
  <2> QED
    BY <2>1, <2>2, <2>3, Zenon
<1>3. PICK s \in Nat, e \in Nat :
        /\ NextObject(payload, from, laEnd) = [start |-> s, end |-> e]
        /\ IsObject(payload, from, laEnd - 1, s, e)
  BY <1>1, ObjectEnds
<1>4. IsObject(payload, from, Behind(base, accounts), s, e)
  BY <1>2, <1>3
<1>5. /\ \E a \in 1..Len(accounts) :
           /\ Opening(base, accounts, a) <= s /\ e <= Closing(base, accounts, a)
           /\ Braceless(accounts[a]) =>
                s = Opening(base, accounts, a) /\ e = Closing(base, accounts, a)
      /\ \A c \in 1..Len(accounts) :
           Braceless(accounts[c]) /\ from <= Opening(base, accounts, c) =>
             \/ e < Opening(base, accounts, c)
             \/ s = Opening(base, accounts, c) /\ e = Closing(base, accounts, c)
  BY <1>4, FirstBraces
<1>6. from <= s /\ s <= e /\ payload[e] = "}"
  BY <1>3 DEF IsObject
<1>7. e < laEnd
  <2>1. e <= laEnd - 1
    BY <1>3 DEF IsObject
  <2> QED
    BY <2>1
<1> QED
  BY <1>3, <1>5, <1>6, <1>7, Zenon DEF IsObjectOf

-----------------------------------------------------------------------------
(* Members in objects *)

\* A pattern in what is in one account is where a member of that account is.
LEMMA PatternInObject ==
  ASSUME NEW accounts \in Seq(Seq(Members)), NEW payload \in Seq(Symbols), NEW base \in Nat,
         LinkedAt(payload, base, accounts), NEW a \in 1..Len(accounts),
         NEW key \in Words, NEW word \in Words, NEW s \in Nat, NEW e \in Nat,
         Opening(base, accounts, a) <= s, e <= Closing(base, accounts, a),
         NEW i \in Nat, s <= i, i + 10 <= e, Occurs(payload, MemberPattern(key, word), i)
  PROVE  /\ \E b \in MembersOf(accounts[a], key, word) : i = Inside(base, accounts, MemberAt(accounts, a, b))
         /\ isMemberBoundary(payload[i - 1]) /\ base < i /\ payload[i + 10] = Q
<1>1. PICK x \in Nat : x = Opening(base, accounts, a) /\ base <= x
  <2>1. Opening(base, accounts, a) \in Nat /\ base <= Opening(base, accounts, a)
    BY AccountInPayload
  <2> QED
    BY <2>1
<1>2. PICK y \in Nat : y = Closing(base, accounts, a)
  BY AccountInPayload
<1>3. x <= i /\ i + 10 <= y
  <2>1. x <= s /\ e <= y
    BY <1>1, <1>2
  <2> QED
    BY <2>1
<1>4. PICK b \in MembersOf(accounts[a], key, word) : i = Inside(base, accounts, MemberAt(accounts, a, b))
  <2>1. /\ Inside(base, accounts, AccountAt(accounts, a)) <= i
        /\ i + 10 <= Inside(base, accounts, AccountEnd(accounts, a))
    BY <1>1, <1>2, <1>3, Zenon DEF Opening, Closing
  <2> QED
    BY <2>1, PatternInside
<1>5. isMemberBoundary(payload[i - 1]) /\ Inside(base, accounts, AccountAt(accounts, a)) < i
  BY <1>4, NamedInside
<1>6. x < i
  BY <1>1, <1>5, Zenon DEF Opening
<1>7. base < i
  BY <1>1, <1>6
<1>8. payload[i + 10] = Q
  BY OccursPattern
<1> QED
  BY <1>4, <1>5, <1>7, <1>8, Zenon

\* Where eleven symbols fit
LEMMA Elevens ==
  ASSUME NEW s \in Nat, NEW e \in Nat
  PROVE  /\ \A i \in s..(e - 11 + 1) : i \in Nat /\ s <= i /\ i + 10 <= e
         /\ \A i \in s..(e - 11) : i \in Nat /\ s <= i /\ i + 10 <= e
         /\ \A i \in Nat : s <= i /\ i + 10 <= e /\ i + 10 # e => i \in s..(e - 11)
OBVIOUS

\* An object has a pattern where the pattern occurs between its braces.
LEMMA HasPlace ==
  ASSUME NEW payload \in Seq(Symbols), NEW key \in Words, NEW word \in Words, NEW s \in Nat, NEW e \in Nat
  PROVE  /\ Has(payload, [start |-> s, end |-> e], MemberPattern(key, word)) <=>
              \E i \in s..(e - 11 + 1) : Occurs(payload, MemberPattern(key, word), i)
         /\ Len(MemberPattern(key, word)) = 11 /\ Len(MemberPattern(key, word)) \in Nat
<1>1. Len(MemberPattern(key, word)) = 11
  <2>1. 1 \in Nat
    OBVIOUS
  <2> QED
    BY <2>1, OccursPattern
<1>2. Len(MemberPattern(key, word)) \in Nat
  BY <1>1
<1> QED
  BY <1>1, <1>2, Zenon DEF Has

\* Where the search for a member ends that could
LEMMA FoundPlace ==
  ASSUME NEW payload \in Seq(Symbols), NEW key \in Words, NEW word \in Words, NEW s \in Nat, NEW e \in Nat,
         s # 0, NEW i \in Nat, s <= i, i + 10 <= e, i + 10 # e, 1 < i,
         Occurs(payload, MemberPattern(key, word), i), isMemberBoundary(payload[i - 1])
  PROVE  \E f \in Nat :
           /\ f = findMember(payload, MemberPattern(key, word), s, e)
           /\ f # 0 /\ s <= f /\ f + 10 <= e /\ Occurs(payload, MemberPattern(key, word), f)
<1> DEFINE pattern == MemberPattern(key, word)
           found == findMember(payload, pattern, s, e)
<1>1. Len(pattern) = 11 /\ Len(pattern) \in Nat
  BY HasPlace
<1>2. s \in Nat \ {0}
  OBVIOUS
<1>3. i \in s..(e - Len(pattern))
  BY <1>1, Elevens, Zenon
<1>4. i > 1
  OBVIOUS
<1> HIDE DEF pattern, found
<1>5. found # 0
  BY <1>1, <1>2, <1>3, <1>4, FoundMember DEF found, pattern
<1>6. found \in s..(e - Len(pattern)) /\ Occurs(payload, pattern, found)
  BY <1>1, <1>2, <1>5, FoundMember DEF found
<1>7. found \in Nat /\ s <= found /\ found + 10 <= e
  BY <1>1, <1>6, Elevens, Zenon
<1> QED
  BY <1>5, <1>6, <1>7, Zenon DEF found, pattern

\* What the search finds in an object that holds a pattern
LEMMA FoundInObject ==
  ASSUME NEW accounts \in Seq(Seq(Members)), NEW payload \in Seq(Symbols), NEW base \in Nat, base # 0,
         LinkedAt(payload, base, accounts), NEW a \in 1..Len(accounts),
         NEW key \in Words, NEW word \in Words, NEW s \in Nat, NEW e \in Nat,
         Opening(base, accounts, a) <= s, e <= Closing(base, accounts, a), payload[e] # Q,
         NEW i \in Nat, s <= i, i + 10 <= e, Occurs(payload, MemberPattern(key, word), i)
  PROVE  \E f \in Nat :
           /\ f = findMember(payload, MemberPattern(key, word), s, e) /\ f # 0
           /\ \E b \in MembersOf(accounts[a], key, word) : f = Inside(base, accounts, MemberAt(accounts, a, b))
<1>1. PICK x \in Nat : x = Opening(base, accounts, a)
  BY AccountInPayload
<1>2. base <= x
  BY <1>1, AccountInPayload
<1>3. x <= s
  BY <1>1
<1>4. s # 0
  BY <1>2, <1>3
<1>5. isMemberBoundary(payload[i - 1]) /\ base < i /\ payload[i + 10] = Q
  BY PatternInObject
<1>6. i + 10 # e
  BY <1>5
<1>7. 1 < i
  <2>1. base < i
    BY <1>5, Zenon
  <2> QED
    BY <2>1
<1>8. PICK f \in Nat :
        /\ f = findMember(payload, MemberPattern(key, word), s, e)
        /\ f # 0 /\ s <= f /\ f + 10 <= e /\ Occurs(payload, MemberPattern(key, word), f)
  BY <1>4, <1>5, <1>6, <1>7, FoundPlace
<1>9. \E b \in MembersOf(accounts[a], key, word) : f = Inside(base, accounts, MemberAt(accounts, a, b))
  BY <1>8, PatternInObject
<1> QED
  BY <1>8, <1>9, Zenon

\* A whole account holds the patterns of its members.
LEMMA AccountHas ==
  ASSUME NEW accounts \in Seq(Seq(Members)), NEW payload \in Seq(Symbols), NEW base \in Nat,
         LinkedAt(payload, base, accounts), NEW a \in 1..Len(accounts),
         NEW key \in Words, NEW word \in Words, NEW b \in MembersOf(accounts[a], key, word)
  PROVE  Has(payload, [start |-> Opening(base, accounts, a), end |-> Closing(base, accounts, a)],
             MemberPattern(key, word))
<1>1. PICK x \in Nat : x = Opening(base, accounts, a)
  BY AccountInPayload
<1>2. PICK y \in Nat : y = Closing(base, accounts, a)
  BY AccountInPayload
<1>3. PICK i \in Nat : i = Inside(base, accounts, MemberAt(accounts, a, b))
  <2>1. MemberAt(accounts, a, b) \in 1..Len(AccountsText(accounts))
    BY MemberInText
  <2> QED
    BY <2>1, InsideOrder
<1>4. /\ Occurs(payload, MemberPattern(key, word), i)
      /\ Inside(base, accounts, AccountAt(accounts, a)) < i
      /\ i + 10 < Inside(base, accounts, AccountEnd(accounts, a))
  BY <1>3, NamedInside
<1>5. x < i /\ i + 10 < y
  BY <1>1, <1>2, <1>4, Zenon DEF Opening, Closing
<1>6. i \in x..(y - 11 + 1)
  BY <1>5
<1>7. Has(payload, [start |-> x, end |-> y], MemberPattern(key, word))
  BY <1>4, <1>6, HasPlace
<1> QED
  BY <1>1, <1>2, <1>7

-----------------------------------------------------------------------------
(* The search for an account *)

Both(payload, object, typePat, valuePat) ==
  Has(payload, object, typePat) /\ Has(payload, object, valuePat)
LocatedIn(payload, object, typePat, valuePat) ==
  [acctStart |-> object.start, acctEnd |-> object.end,
   typeIdx |-> findMember(payload, typePat, object.start, object.end),
   valueIdx |-> findMember(payload, valuePat, object.start, object.end)]

\* Each step of the search: the end, a find, or the next step behind the object
LocatesFrom(f, payload, laEnd, typePat, valuePat, from) ==
  LET object == NextObject(payload, from, laEnd)
  IN  /\ object.end = 0 => f[from] = NotFound
      /\ object.end # 0 /\ Both(payload, object, typePat, valuePat) =>
           f[from] = LocatedIn(payload, object, typePat, valuePat)
      /\ object.end # 0 /\ ~ Both(payload, object, typePat, valuePat) => f[from] = f[object.end + 1]

\* The object that ends the search's step ends behind where the step begins.
LEMMA StepsForward ==
  ASSUME NEW payload, NEW from \in Nat, from # 0, NEW laEnd \in Nat,
         NextObject(payload, from, laEnd).end # 0
  PROVE  NextObject(payload, from, laEnd).end + 1 \in (from + 1)..laEnd
<1>1. from \in Nat \ {0}
  OBVIOUS
<1>2. PICK s \in Nat, e \in Nat :
        /\ NextObject(payload, from, laEnd) = [start |-> s, end |-> e]
        /\ IsObject(payload, from, laEnd - 1, s, e)
  BY <1>1, ObjectEnds
<1>3. from <= s /\ s <= e /\ e <= laEnd - 1
  BY <1>2 DEF IsObject
<1>4. e + 1 \in (from + 1)..laEnd
  BY <1>3
<1>5. NextObject(payload, from, laEnd).end = e
  BY <1>2
<1> QED
  BY <1>4, <1>5, Zenon

\* What the search finds is what it finds from some position on.
LEMMA Locates ==
  ASSUME NEW payload, NEW lo \in Nat, lo # 0, NEW laEnd \in Nat, lo <= laEnd, NEW typePat, NEW valuePat
  PROVE  \E f : /\ locateAccount(payload, lo, laEnd, typePat, valuePat) = f[lo]
                /\ \A from \in lo..laEnd : LocatesFrom(f, payload, laEnd, typePat, valuePat, from)
<1> DEFINE IsLocate(locate) ==
             locate = [from \in lo..laEnd |->
               LET object == NextObject(payload, from, laEnd)
               IN  IF object.end = 0 THEN NotFound
                   ELSE IF Has(payload, object, typePat) /\ Has(payload, object, valuePat)
                   THEN [acctStart |-> object.start, acctEnd |-> object.end,
                         typeIdx |-> findMember(payload, typePat, object.start, object.end),
                         valueIdx |-> findMember(payload, valuePat, object.start, object.end)]
                   ELSE locate[object.end + 1]]
           locate0 == CHOOSE locate : IsLocate(locate)
           o(x) == NextObject(payload, x, laEnd)
           Stop == {x \in lo..laEnd : o(x).end = 0 \/ Both(payload, o(x), typePat, valuePat)}
           result == [x \in lo..laEnd |->
                        IF o(x).end = 0 THEN NotFound ELSE LocatedIn(payload, o(x), typePat, valuePat)]
           next == [x \in lo..laEnd |-> o(x).end + 1]
<1>1. \A x \in lo..laEnd : x \notin Stop => next[x] \in (x + 1)..laEnd
  <2> SUFFICES ASSUME NEW x \in lo..laEnd, x \notin Stop PROVE next[x] \in (x + 1)..laEnd
    OBVIOUS
  <2>1. x \in Nat /\ x # 0
    OBVIOUS
  <2>2. o(x).end # 0
    BY Zenon
  <2>3. o(x).end + 1 \in (x + 1)..laEnd
    BY <2>1, <2>2, StepsForward
  <2> QED
    BY <2>3
<1>2. PICK f : IsSearch(f, lo, laEnd, Stop, result, next)
  <2> HIDE DEF Stop, result, next
  <2> QED
    BY <1>1, SearchExists, Zenon
<1>3. ASSUME NEW x \in lo..laEnd
      PROVE  (IF x \in Stop THEN result[x] ELSE f[next[x]]) =
               (IF o(x).end = 0 THEN NotFound
                ELSE IF Has(payload, o(x), typePat) /\ Has(payload, o(x), valuePat)
                THEN [acctStart |-> o(x).start, acctEnd |-> o(x).end,
                      typeIdx |-> findMember(payload, typePat, o(x).start, o(x).end),
                      valueIdx |-> findMember(payload, valuePat, o(x).start, o(x).end)]
                ELSE f[o(x).end + 1])
  BY Zenon DEF Both, LocatedIn
<1>4. IsLocate(f)
  BY <1>2, <1>3, Zenon DEF IsSearch
<1>5. IsLocate(locate0)
  BY <1>4, Zenon
<1>6. locateAccount(payload, lo, laEnd, typePat, valuePat) = locate0[lo]
  BY DEF locateAccount
<1> HIDE DEF locate0
<1>7. ASSUME NEW from \in lo..laEnd PROVE LocatesFrom(locate0, payload, laEnd, typePat, valuePat, from)
  <2>1. locate0[from] =
               (IF o(from).end = 0 THEN NotFound
                ELSE IF Has(payload, o(from), typePat) /\ Has(payload, o(from), valuePat)
                THEN [acctStart |-> o(from).start, acctEnd |-> o(from).end,
                      typeIdx |-> findMember(payload, typePat, o(from).start, o(from).end),
                      valueIdx |-> findMember(payload, valuePat, o(from).start, o(from).end)]
                ELSE locate0[o(from).end + 1])
    BY <1>5, Zenon
  <2> QED
    BY <2>1, Zenon DEF LocatesFrom, Both, LocatedIn
<1> QED
  BY <1>6, <1>7, Zenon

\* What the search returns when it finds two members of an account
IsFound(base, accounts, a, located, key, word, name, value) ==
  \E s \in Nat, e \in Nat, b \in MembersOf(accounts[a], key, word), c \in MembersOf(accounts[a], name, value) :
    LET typeIdx == Inside(base, accounts, MemberAt(accounts, a, b))
        valueIdx == Inside(base, accounts, MemberAt(accounts, a, c))
    IN  /\ located = [acctStart |-> s, acctEnd |-> e, typeIdx |-> typeIdx, valueIdx |-> valueIdx]
        /\ s # 0 /\ typeIdx # 0 /\ valueIdx # 0
        /\ Opening(base, accounts, a) <= s /\ e <= Closing(base, accounts, a)
        /\ Braceless(accounts[a]) =>
             s = Opening(base, accounts, a) /\ e = Closing(base, accounts, a)

\* What the search has found is no refusal.
LEMMA FoundIsSome ==
  ASSUME NEW base, NEW accounts, NEW a, NEW located, NEW key, NEW word, NEW name, NEW value,
         IsFound(base, accounts, a, located, key, word, name, value)
  PROVE  /\ located.acctStart # 0 /\ located.typeIdx # 0 /\ located.valueIdx # 0
         /\ located # NotFound
<1>1. PICK s, e, t, v :
        located = [acctStart |-> s, acctEnd |-> e, typeIdx |-> t, valueIdx |-> v] /\ s # 0 /\ t # 0 /\ v # 0
  BY Zenon DEF IsFound
<1>2. located.acctStart # 0 /\ located.typeIdx # 0 /\ located.valueIdx # 0
  BY <1>1
<1>3. NotFound.acctStart = 0
  BY DEF NotFound
<1> QED
  BY <1>2, <1>3, Zenon

\* An object that holds both patterns is in an account that has both members.
LEMMA BothFound ==
  ASSUME NEW accounts \in Seq(Seq(Members)), NEW payload \in Seq(Symbols), NEW base \in Nat, base # 0,
         LinkedAt(payload, base, accounts), NEW laEnd \in Nat, laEnd = Behind(base, accounts) + 1,
         NEW key \in Words, NEW word \in Words, NEW name \in Words, NEW value \in Words,
         NEW from \in Nat, base <= from, NextObject(payload, from, laEnd).end # 0,
         Both(payload, NextObject(payload, from, laEnd), MemberPattern(key, word), MemberPattern(name, value))
  PROVE  \E a \in 1..Len(accounts) :
           IsFound(base, accounts, a,
                   LocatedIn(payload, NextObject(payload, from, laEnd),
                             MemberPattern(key, word), MemberPattern(name, value)),
                   key, word, name, value)
<1>11. PICK s \in Nat, e \in Nat :
         /\ NextObject(payload, from, laEnd) = [start |-> s, end |-> e]
         /\ IsObjectOf(payload, base, accounts, from, laEnd, s, e)
  BY ObjectInAccount, Zenon
<1>1. from <= s /\ payload[e] = "}"
  BY <1>11, Zenon DEF IsObjectOf
<1>2. PICK a \in 1..Len(accounts) :
        /\ Opening(base, accounts, a) <= s /\ e <= Closing(base, accounts, a)
        /\ Braceless(accounts[a]) =>
             s = Opening(base, accounts, a) /\ e = Closing(base, accounts, a)
  BY <1>11, Zenon DEF IsObjectOf
<1>3. payload[e] # Q
  BY <1>1, MarksDiffer
<1>4. s # 0
  <2>1. from <= s
    BY <1>1
  <2> QED
    BY <2>1
<1>5. /\ Has(payload, [start |-> s, end |-> e], MemberPattern(key, word))
      /\ Has(payload, [start |-> s, end |-> e], MemberPattern(name, value))
  BY <1>11, Zenon DEF Both
<1>6. PICK i \in Nat : s <= i /\ i + 10 <= e /\ Occurs(payload, MemberPattern(key, word), i)
  <2>1. PICK i \in s..(e - 11 + 1) : Occurs(payload, MemberPattern(key, word), i)
    BY <1>5, HasPlace
  <2> QED
    BY <2>1, Elevens, Zenon
<1>7. PICK j \in Nat : s <= j /\ j + 10 <= e /\ Occurs(payload, MemberPattern(name, value), j)
  <2>1. PICK j \in s..(e - 11 + 1) : Occurs(payload, MemberPattern(name, value), j)
    BY <1>5, HasPlace
  <2> QED
    BY <2>1, Elevens, Zenon
<1>8. PICK f \in Nat, b \in MembersOf(accounts[a], key, word) :
        /\ f = findMember(payload, MemberPattern(key, word), s, e) /\ f # 0
        /\ f = Inside(base, accounts, MemberAt(accounts, a, b))
  <2>1. \E f \in Nat :
          /\ f = findMember(payload, MemberPattern(key, word), s, e) /\ f # 0
          /\ \E b \in MembersOf(accounts[a], key, word) : f = Inside(base, accounts, MemberAt(accounts, a, b))
    BY <1>2, <1>3, <1>6, FoundInObject
  <2> QED
    BY <2>1, Zenon
<1>9. PICK g \in Nat, c \in MembersOf(accounts[a], name, value) :
        /\ g = findMember(payload, MemberPattern(name, value), s, e) /\ g # 0
        /\ g = Inside(base, accounts, MemberAt(accounts, a, c))
  <2>1. \E g \in Nat :
          /\ g = findMember(payload, MemberPattern(name, value), s, e) /\ g # 0
          /\ \E c \in MembersOf(accounts[a], name, value) : g = Inside(base, accounts, MemberAt(accounts, a, c))
    BY <1>2, <1>3, <1>7, FoundInObject
  <2> QED
    BY <2>1, Zenon
<1>10. LocatedIn(payload, NextObject(payload, from, laEnd), MemberPattern(key, word), MemberPattern(name, value))
         = [acctStart |-> s, acctEnd |-> e, typeIdx |-> f, valueIdx |-> g]
  <2>1. /\ NextObject(payload, from, laEnd).start = s
        /\ NextObject(payload, from, laEnd).end = e
    <3>1. [start |-> s, end |-> e].start = s /\ [start |-> s, end |-> e].end = e
      OBVIOUS
    <3> QED
      BY <1>11, <3>1, Zenon
  <2> QED
    BY <1>8, <1>9, <2>1, Zenon DEF LocatedIn
<1> QED
  BY <1>2, <1>4, <1>8, <1>9, <1>10, Zenon DEF IsFound

\* The search finds members of one account or nothing.
LEMMA SearchFinds ==
  ASSUME NEW accounts \in Seq(Seq(Members)), NEW payload \in Seq(Symbols), NEW base \in Nat, base # 0,
         LinkedAt(payload, base, accounts), NEW laEnd \in Nat, laEnd = Behind(base, accounts) + 1,
         NEW key \in Words, NEW word \in Words, NEW name \in Words, NEW value \in Words
  PROVE  \/ locateAccount(payload, base, laEnd, MemberPattern(key, word), MemberPattern(name, value)) = NotFound
         \/ \E a \in 1..Len(accounts) :
              IsFound(base, accounts, a,
                      locateAccount(payload, base, laEnd, MemberPattern(key, word), MemberPattern(name, value)),
                      key, word, name, value)
<1> DEFINE tp == MemberPattern(key, word)
           vp == MemberPattern(name, value)
           Fine(x) == \/ x = NotFound
                      \/ \E a \in 1..Len(accounts) : IsFound(base, accounts, a, x, key, word, name, value)
<1>1. base <= laEnd
  <2>1. PICK d \in Nat : d = Behind(base, accounts) /\ base <= d
    <3>1. PICK L \in Nat : L = Len(Escaped(AccountsText(accounts)))
      <4>1. AccountsText(accounts) \in Seq(Symbols)
        BY AccountsWhole
      <4> QED
        BY <4>1, EscapedWhole
    <3>2. Behind(base, accounts) = base + L
      BY <3>1 DEF Behind
    <3> QED
      BY <3>2
  <2> QED
    BY <2>1
<1>2. PICK f : /\ locateAccount(payload, base, laEnd, tp, vp) = f[base]
               /\ \A from \in base..laEnd : LocatesFrom(f, payload, laEnd, tp, vp, from)
  <2> HIDE DEF tp, vp
  <2> QED
    BY <1>1, Locates
<1> DEFINE S == {x \in base..laEnd : Fine(f[x])}
<1>3. ASSUME NEW x \in base..laEnd, \A y \in (x + 1)..laEnd : y \in S PROVE x \in S
  <2>1. x \in Nat /\ x # 0 /\ base <= x
    OBVIOUS
  <2>2. LocatesFrom(f, payload, laEnd, tp, vp, x)
    BY <1>2
  <2> DEFINE o == NextObject(payload, x, laEnd)
  <2>3. CASE o.end = 0
    <3>1. f[x] = NotFound
      BY <2>2, <2>3, Zenon DEF LocatesFrom
    <3> QED
      BY <3>1, Zenon
  <2>4. CASE o.end # 0 /\ Both(payload, o, tp, vp)
    <3>1. f[x] = LocatedIn(payload, o, tp, vp)
      BY <2>2, <2>4, Zenon DEF LocatesFrom
    <3>2. \E a \in 1..Len(accounts) : IsFound(base, accounts, a, LocatedIn(payload, o, tp, vp), key, word, name, value)
      BY <2>1, <2>4, BothFound
    <3> QED
      BY <3>1, <3>2, Zenon
  <2>5. CASE o.end # 0 /\ ~ Both(payload, o, tp, vp)
    <3>1. f[x] = f[o.end + 1]
      BY <2>2, <2>5, Zenon DEF LocatesFrom
    <3>2. o.end + 1 \in (x + 1)..laEnd
      BY <2>1, <2>5, StepsForward
    <3>3. Fine(f[o.end + 1])
      BY <1>3, <3>2, Zenon
    <3> QED
      BY <3>1, <3>3, Zenon
  <2> QED
    BY <2>3, <2>4, <2>5, Zenon
<1>4. base \in S
  <2>1. base \in base..laEnd
    BY <1>1
  <2>2. \A x \in base..laEnd : x \in S
    <3> HIDE DEF S
    <3> QED
      BY <1>3, FromTheEnd
  <2> QED
    BY <2>1, <2>2, Zenon
<1>5. Fine(f[base])
  BY <1>4, Zenon
<1> QED
  BY <1>2, <1>5, Zenon

\* It finds some when an account without braces has both.
LEMMA SearchMisses ==
  ASSUME NEW accounts \in Seq(Seq(Members)), NEW payload \in Seq(Symbols), NEW base \in Nat, base # 0,
         LinkedAt(payload, base, accounts), NEW laEnd \in Nat, laEnd = Behind(base, accounts) + 1,
         NEW key \in Words, NEW word \in Words, NEW name \in Words, NEW value \in Words,
         NEW a \in 1..Len(accounts), Braceless(accounts[a]),
         MembersOf(accounts[a], key, word) # {}, MembersOf(accounts[a], name, value) # {}
  PROVE  locateAccount(payload, base, laEnd, MemberPattern(key, word), MemberPattern(name, value)) # NotFound
<1> DEFINE tp == MemberPattern(key, word)
           vp == MemberPattern(name, value)
<1>1. PICK p \in Nat : p = Opening(base, accounts, a)
  BY AccountInPayload
<1>2. PICK q \in Nat : q = Closing(base, accounts, a)
  BY AccountInPayload
<1>3. payload[p] = "{"
  BY <1>1, AccountInPayload, ZenonT(60)
<1>4. payload[q] = "}"
  BY <1>2, AccountInPayload, ZenonT(60)
<1>5. PICK d \in Nat : d = Behind(base, accounts)
  BY BehindIsPlace
<1>6. base <= p /\ p < q /\ q < d
  BY <1>1, <1>2, <1>5, AccountInPayload
<1>7. laEnd = d + 1
  BY <1>5
<1>8. base <= laEnd /\ p <= laEnd - 1 /\ q <= laEnd - 1
  BY <1>6, <1>7
<1>9. PICK f : /\ locateAccount(payload, base, laEnd, tp, vp) = f[base]
               /\ \A from \in base..laEnd : LocatesFrom(f, payload, laEnd, tp, vp, from)
  <2> HIDE DEF tp, vp
  <2> QED
    BY <1>8, Locates
<1>10. Both(payload, [start |-> p, end |-> q], tp, vp)
  <2>1. Has(payload, [start |-> p, end |-> q], tp)
    BY <1>1, <1>2, AccountHas
  <2>2. Has(payload, [start |-> p, end |-> q], vp)
    BY <1>1, <1>2, AccountHas
  <2> QED
    BY <2>1, <2>2, Zenon DEF Both
<1> DEFINE S == {x \in base..laEnd : x <= p => f[x] # NotFound}
<1>11. ASSUME NEW x \in base..laEnd, \A y \in (x + 1)..laEnd : y \in S PROVE x \in S
  <2> SUFFICES ASSUME x <= p PROVE f[x] # NotFound
    OBVIOUS
  <2>1. x \in Nat /\ x # 0 /\ base <= x
    OBVIOUS
  <2>2. LocatesFrom(f, payload, laEnd, tp, vp, x)
    BY <1>9
  <2> DEFINE o == NextObject(payload, x, laEnd)
  <2>3. o.end # 0
    <3>1. p \in x..(laEnd - 1)
      BY <1>8, <2>1
    <3>2. q \in p..(laEnd - 1)
      BY <1>6, <1>8
    <3>3. x \in Nat \ {0}
      BY <2>1
    <3> QED
      BY <1>3, <1>4, <3>1, <3>2, <3>3, ObjectExists
  <2>4. CASE Both(payload, o, tp, vp)
    <3>1. f[x] = LocatedIn(payload, o, tp, vp)
      BY <2>2, <2>3, <2>4, Zenon DEF LocatesFrom
    <3>2. PICK c \in 1..Len(accounts) :
            IsFound(base, accounts, c, LocatedIn(payload, o, tp, vp), key, word, name, value)
      BY <2>1, <2>3, <2>4, BothFound
    <3>3. LocatedIn(payload, o, tp, vp) # NotFound
      BY <3>2, FoundIsSome, Zenon
    <3> QED
      BY <3>1, <3>3, Zenon
  <2>5. CASE ~ Both(payload, o, tp, vp)
    <3>1. f[x] = f[o.end + 1]
      BY <2>2, <2>3, <2>5, Zenon DEF LocatesFrom
    <3>2. o.end + 1 \in (x + 1)..laEnd
      BY <2>1, <2>3, StepsForward
    <3>3. PICK s \in Nat, e \in Nat :
            /\ o = [start |-> s, end |-> e]
            /\ IsObjectOf(payload, base, accounts, x, laEnd, s, e)
      BY <2>1, <2>3, ObjectInAccount
    <3>4. e < p \/ (s = p /\ e = q)
      BY <1>1, <1>2, <3>3, Zenon DEF IsObjectOf
    <3>5. e < p
      BY <1>10, <2>5, <3>3, <3>4, Zenon
    <3>6. o.end = e
      BY <3>3
    <3>7. e + 1 <= p
      BY <3>5
    <3>8. f[e + 1] # NotFound
      BY <1>11, <3>2, <3>6, <3>7, Zenon
    <3> QED
      BY <3>1, <3>6, <3>8, Zenon
  <2> QED
    BY <2>4, <2>5, Zenon
<1>12. base \in S
  <2>1. base \in base..laEnd
    BY <1>8
  <2>2. \A x \in base..laEnd : x \in S
    <3> HIDE DEF S
    <3> QED
      BY <1>11, FromTheEnd
  <2> QED
    BY <2>1, <2>2, Zenon
<1>13. f[base] # NotFound
  BY <1>6, <1>12, Zenon
<1> QED
  BY <1>9, <1>13, Zenon

-----------------------------------------------------------------------------
(* Claims, and what a witness says of them *)

\* Where the linked accounts of a token start in its payload
LinkedBase(token, n) == ClaimAt(token, n) + 5

\* What is written for a number and for linked accounts
LEMMA ValueOfKind ==
  ASSUME NEW claim \in Claim
  PROVE  /\ claim.kind = "number" => ValueText(claim) = <<claim.digits>>
         /\ claim.kind = "accounts" =>
              claim.accounts \in Seq(Seq(Members)) /\ ValueText(claim) = Quoted(AccountsText(claim.accounts))
<1>1. claim.kind = "number" => ValueText(claim) = <<claim.digits>>
  BY DEF ValueText
<1>2. ASSUME claim.kind = "accounts"
      PROVE  claim.accounts \in Seq(Seq(Members)) /\ ValueText(claim) = Quoted(AccountsText(claim.accounts))
  <2>1. claim.kind # "number"
    BY <1>2
  <2> QED
    BY <1>2, <2>1, ValueWhole
<1> QED
  BY <1>1, <1>2, Zenon

\* The claim of the linked accounts in a payload
LEMMA LinkedInPayload ==
  ASSUME NEW token \in Seq(Claim), NEW n \in 1..Len(token), token[n].kind = "accounts"
  PROVE  /\ token[n].accounts \in Seq(Seq(Members))
         /\ LinkedBase(token, n) \in Nat /\ LinkedBase(token, n) # 0
         /\ LinkedAt(Payload(token), LinkedBase(token, n), token[n].accounts)
         /\ LaEnd(Payload(token), stringMap(Payload(token)), LinkedBase(token, n))
              = Behind(LinkedBase(token, n), token[n].accounts) + 1
         /\ Payload(token)[ClaimAt(token, n) + 4] = Q
         /\ ClaimAt(token, n) + 4 <= Len(Payload(token))
<1>1. PICK payload \in Seq(Symbols) : payload = Payload(token)
  BY TokenWhole
<1>2. PICK i \in Nat : i = ClaimAt(token, n) /\ i >= 2
  BY ClaimsInPayload
<1>3. PICK claim \in Claim : claim = token[n]
  BY TokenWhole
<1>4. Occurs(payload, ClaimText(claim), i)
  BY <1>1, <1>2, <1>3, ClaimsInPayload
<1>5. Occurs(payload, ValueText(claim), i + 4)
  BY <1>4, OccursClaim
<1>6. PICK accounts \in Seq(Seq(Members)) :
        accounts = claim.accounts /\ ValueText(claim) = Quoted(AccountsText(accounts))
  BY <1>3, ValueOfKind
<1>7. PICK text \in Seq(Symbols) : text = AccountsText(accounts)
  BY AccountsWhole
<1>8. PICK j \in Nat \ {0} : j = i + 4 /\ j - 1 = i + 3 /\ j + 1 = i + 5
  <2>1. i + 4 \in Nat \ {0} /\ (i + 4) - 1 = i + 3 /\ (i + 4) + 1 = i + 5
    BY <1>2
  <2> QED
    BY <2>1, Zenon
<1>9. PICK L \in Nat : L = Len(Escaped(text))
  BY EscapedWhole
<1>10. Occurs(payload, Quoted(text), j)
  BY <1>5, <1>6, <1>7, <1>8
<1>11. /\ payload[j] = Q
       /\ Occurs(payload, Escaped(text), j + 1)
       /\ payload[j + 1 + L] = Q
       /\ j + 1 + L <= Len(payload)
  BY <1>9, <1>10, OccursQuoted
<1>12. Scan(payload)[i + 3] = "outside"
  <2>1. Scan(payload)[i - 1] = "outside"
    BY <1>1, <1>2, ScanAtClaim
  <2>2. i \in Nat \ {0}
    BY <1>2
  <2> QED
    BY <1>4, <2>1, <2>2, ScanClaim
<1>13. LaEnd(payload, stringMap(payload), j + 1) = j + L + 2
  BY <1>8, <1>9, <1>10, <1>12, LaEndIsTheEnd
<1>14. LinkedBase(token, n) = j + 1
  BY <1>2, <1>8 DEF LinkedBase
<1>15. Behind(j + 1, accounts) + 1 = j + L + 2
  <2>1. Behind(j + 1, accounts) = (j + 1) + L
    BY <1>7, <1>9 DEF Behind
  <2>2. ((j + 1) + L) + 1 = j + L + 2
    OBVIOUS
  <2> QED
    BY <2>1, <2>2, Zenon
<1>16. LinkedAt(payload, j + 1, accounts)
  BY <1>7, <1>9, <1>11 DEF LinkedAt
<1>17. j + 1 \in Nat /\ j + 1 # 0 /\ j <= Len(payload)
  <2>1. PICK l \in Nat : l = Len(payload)
    OBVIOUS
  <2>2. j + 1 + L <= l
    BY <1>11, <2>1
  <2>3. j <= l
    BY <2>2
  <2> QED
    BY <2>1, <2>3
<1>18. token[n].accounts = accounts
  BY <1>3, <1>6
<1> QED
  BY <1>1, <1>2, <1>8, <1>11, <1>13, <1>14, <1>15, <1>16, <1>17, <1>18, Zenon

\* Where a symbol of the accounts is in the payload
LEMMA SymbolInside ==
  ASSUME NEW token \in Seq(Claim), NEW n \in 1..Len(token), token[n].kind = "accounts",
         NEW j \in 1..Len(AccountsText(token[n].accounts))
  PROVE  SymbolAt(token, n, j) = Inside(LinkedBase(token, n), token[n].accounts, j)
<1>1. PICK accounts \in Seq(Seq(Members)) : accounts = token[n].accounts
  BY LinkedInPayload
<1>2. PICK text \in Seq(Symbols) : text = AccountsText(accounts)
  BY AccountsWhole
<1>3. PICK i \in Nat : i = ClaimAt(token, n)
  BY ClaimsInPayload
<1>4. Len(Quoted(<<token[n].key>>)) = 3
  <2>1. token[n] \in Claim
    BY TokenWhole
  <2>2. token[n].key \in Words
    BY <2>1, ValueWhole
  <2> QED
    BY <2>2, QuotedKey
<1>5. PICK x \in Nat : x = Ahead(text, j)
  <2>1. j \in 1..(Len(text) + 1)
    BY <1>1, <1>2
  <2> QED
    BY <2>1, EscapedWhole
<1>6. Len(Written(EscapedSymbols(AccountsText(token[n].accounts)))[j - 1]) = x
  BY <1>1, <1>2, <1>5 DEF Ahead, Span
<1>7. SymbolAt(token, n, j) = i + 3 + 2 + x
  BY <1>3, <1>4, <1>6 DEF SymbolAt
<1>8. Inside(LinkedBase(token, n), token[n].accounts, j) = (i + 5) + x
  BY <1>1, <1>2, <1>3, <1>5 DEF Inside, Spot, LinkedBase
<1>9. i + 3 + 2 + x = (i + 5) + x
  OBVIOUS
<1> QED
  BY <1>7, <1>8, <1>9, Zenon

\* What the search finds is where the members are that the issuer wrote.
LEMMA FoundPoints ==
  ASSUME NEW token \in Seq(Claim), NEW n \in Linked(token), token[n].kind = "accounts",
         NEW type \in Words, TYPES[type] \in Words, NEW value \in Words,
         NEW a \in 1..Len(token[n].accounts), NEW located,
         IsFound(LinkedBase(token, n), token[n].accounts, a, located, "type", type, TYPES[type], value)
  PROVE  PointsAt(token, located, type, value)
<1>1. n \in 1..Len(token)
  BY DEF Linked
<1>2. PICK accounts \in Seq(Seq(Members)) : accounts = token[n].accounts
  BY <1>1, LinkedInPayload
<1>3. PICK key \in Words : key = "type"
  BY WordsAssumption
<1>4. PICK name \in Words : name = TYPES[type]
  OBVIOUS
<1>5. PICK base : base = LinkedBase(token, n)
  OBVIOUS
<1>6. PICK s \in Nat, e \in Nat, b \in MembersOf(accounts[a], key, type), c \in MembersOf(accounts[a], name, value) :
        /\ located = [acctStart |-> s, acctEnd |-> e,
                      typeIdx |-> Inside(base, accounts, MemberAt(accounts, a, b)),
                      valueIdx |-> Inside(base, accounts, MemberAt(accounts, a, c))]
        /\ Opening(base, accounts, a) <= s /\ e <= Closing(base, accounts, a)
        /\ Braceless(accounts[a]) => s = Opening(base, accounts, a) /\ e = Closing(base, accounts, a)
  BY <1>2, <1>3, <1>4, <1>5, Zenon DEF IsFound
<1>7. /\ located.acctStart = s /\ located.acctEnd = e
      /\ located.typeIdx = Inside(base, accounts, MemberAt(accounts, a, b))
      /\ located.valueIdx = Inside(base, accounts, MemberAt(accounts, a, c))
  BY <1>6
<1>8. a \in 1..Len(accounts)
  BY <1>2
<1>9. MemberAt(accounts, a, b) \in 1..Len(AccountsText(accounts))
  BY <1>8, MemberInText
<1>10. MemberAt(accounts, a, c) \in 1..Len(AccountsText(accounts))
  BY <1>8, MemberInText
<1>11. SymbolAt(token, n, MemberAt(accounts, a, b)) = located.typeIdx
  BY <1>1, <1>2, <1>5, <1>7, <1>9, SymbolInside
<1>12. SymbolAt(token, n, MemberAt(accounts, a, c)) = located.valueIdx
  BY <1>1, <1>2, <1>5, <1>7, <1>10, SymbolInside
<1>13. SymbolAt(token, n, AccountAt(accounts, a)) = Opening(base, accounts, a)
  <2>1. AccountAt(accounts, a) \in 1..Len(AccountsText(accounts))
    BY <1>8, AccountPlaces
  <2> QED
    BY <1>1, <1>2, <1>5, <2>1, SymbolInside DEF Opening
<1>14. SymbolAt(token, n, AccountEnd(accounts, a)) = Closing(base, accounts, a)
  <2>1. AccountEnd(accounts, a) \in 1..Len(AccountsText(accounts))
    BY <1>8, AccountPlaces
  <2> QED
    BY <1>1, <1>2, <1>5, <2>1, SymbolInside DEF Closing
<1>15. a \in AccountsWith(token, n, type, value)
  <2>1. DOMAIN accounts = 1..Len(accounts)
    OBVIOUS
  <2> QED
    BY <1>2, <1>3, <1>4, <1>6, <1>8, <2>1, Zenon DEF AccountsWith
<1> DEFINE start == SymbolAt(token, n, AccountAt(token[n].accounts, a))
           end == SymbolAt(token, n, AccountEnd(token[n].accounts, a))
<1>16. /\ \E m \in MembersOf(token[n].accounts[a], "type", type) :
            located.typeIdx = SymbolAt(token, n, MemberAt(token[n].accounts, a, m))
       /\ \E m \in MembersOf(token[n].accounts[a], TYPES[type], value) :
            located.valueIdx = SymbolAt(token, n, MemberAt(token[n].accounts, a, m))
       /\ start <= located.acctStart /\ located.acctEnd <= end
       /\ Braceless(token[n].accounts[a]) => located.acctStart = start /\ located.acctEnd = end
  BY <1>2, <1>3, <1>4, <1>6, <1>7, <1>11, <1>12, <1>13, <1>14, Zenon
<1> HIDE DEF start, end
<1> QED
  BY <1>15, <1>16, Zenon DEF PointsAt, start, end

\* The search in a token's payload
SearchFrom(token, n, type, value) ==
  locateAccount(Payload(token), LinkedBase(token, n),
                LaEnd(Payload(token), stringMap(Payload(token)), LinkedBase(token, n)),
                MemberPattern("type", type), MemberPattern(TYPES[type], value))
Missed(located) == 0 \in {located.acctStart, located.typeIdx, located.valueIdx}

\* The search finds two members of one account, and misses none without braces.
LEMMA SearchFits ==
  ASSUME NEW token \in Seq(Claim), NEW n \in Linked(token), token[n].kind = "accounts",
         NEW type \in Words, TYPES[type] \in Words, NEW value \in Words
  PROVE  /\ ~ Missed(SearchFrom(token, n, type, value)) => PointsAt(token, SearchFrom(token, n, type, value), type, value)
         /\ \A a \in AccountsWith(token, n, type, value) :
              Braceless(token[n].accounts[a]) => ~ Missed(SearchFrom(token, n, type, value))
<1>1. n \in 1..Len(token)
  BY DEF Linked
<1>2. PICK accounts \in Seq(Seq(Members)) : accounts = token[n].accounts
  BY <1>1, LinkedInPayload
<1>3. PICK key \in Words : key = "type"
  BY WordsAssumption
<1>4. PICK name \in Words : name = TYPES[type]
  OBVIOUS
<1>5. PICK base \in Nat : base = LinkedBase(token, n) /\ base # 0
  BY <1>1, LinkedInPayload
<1>6. PICK payload \in Seq(Symbols) : payload = Payload(token)
  BY TokenWhole
<1>7. LinkedAt(payload, base, accounts) /\ LaEnd(payload, stringMap(payload), base) = Behind(base, accounts) + 1
  BY <1>1, <1>2, <1>5, <1>6, LinkedInPayload
<1>8. PICK laEnd \in Nat : laEnd = Behind(base, accounts) + 1
  <2>1. PICK d \in Nat : d = Behind(base, accounts)
    BY BehindIsPlace
  <2>2. d + 1 \in Nat
    OBVIOUS
  <2> QED
    BY <2>1, <2>2, Zenon
<1>9. PICK located : located = locateAccount(payload, base, laEnd, MemberPattern(key, type), MemberPattern(name, value))
  OBVIOUS
<1>10. SearchFrom(token, n, type, value) = located
  BY <1>3, <1>4, <1>5, <1>6, <1>7, <1>8, <1>9, Zenon DEF SearchFrom
<1>11. \/ located = NotFound
       \/ \E a \in 1..Len(accounts) : IsFound(base, accounts, a, located, key, type, name, value)
  BY <1>5, <1>7, <1>8, <1>9, SearchFinds
<1>12. Missed(NotFound)
  BY DEF Missed, NotFound
<1>13. located # NotFound => ~ Missed(located) /\ PointsAt(token, located, type, value)
  <2> SUFFICES ASSUME located # NotFound PROVE ~ Missed(located) /\ PointsAt(token, located, type, value)
    OBVIOUS
  <2>1. PICK a \in 1..Len(accounts) : IsFound(base, accounts, a, located, key, type, name, value)
    BY <1>11
  <2>2. located.acctStart # 0 /\ located.typeIdx # 0 /\ located.valueIdx # 0
    BY <2>1, FoundIsSome, Zenon
  <2>3. a \in 1..Len(token[n].accounts)
    BY <1>2
  <2>4. IsFound(LinkedBase(token, n), token[n].accounts, a, located, "type", type, TYPES[type], value)
    BY <1>2, <1>3, <1>4, <1>5, <2>1, Zenon
  <2>5. PointsAt(token, located, type, value)
    BY <2>3, <2>4, FoundPoints
  <2> QED
    BY <2>2, <2>5 DEF Missed
<1>14. ASSUME NEW a \in AccountsWith(token, n, type, value), Braceless(token[n].accounts[a])
       PROVE  located # NotFound
  <2>1. a \in 1..Len(accounts)
    <3>1. DOMAIN accounts = 1..Len(accounts)
      OBVIOUS
    <3> QED
      BY <1>2, <3>1, Zenon DEF AccountsWith
  <2>2. MembersOf(accounts[a], key, type) # {} /\ MembersOf(accounts[a], name, value) # {}
    BY <1>2, <1>3, <1>4, Zenon DEF AccountsWith
  <2>3. Braceless(accounts[a])
    BY <1>2, <1>14
  <2>4. base # 0 /\ LinkedAt(payload, base, accounts)
    BY <1>5, <1>7
  <2>5. locateAccount(payload, base, laEnd, MemberPattern(key, type), MemberPattern(name, value)) # NotFound
    BY <1>8, <2>1, <2>2, <2>3, <2>4, SearchMisses
  <2> QED
    BY <1>9, <2>5, Zenon
<1> QED
  BY <1>10, <1>12, <1>13, <1>14, Zenon

\* The two keys that a witness is built from, at the top level
LinkedKey == <<Q, "linked_accounts", Q, ":", Q>>
IatKey == <<Q, "iat", Q, ":">>
LinkedIdx(token) == findTopLevel(Payload(token), stringMap(Payload(token)), LinkedKey)
IatIdx(token) == findTopLevel(Payload(token), stringMap(Payload(token)), IatKey)

\* What the model assumes of a token
LEMMA Tokens ==
  ASSUME NEW token \in Claims
  PROVE  /\ token \in Seq(Claim) /\ DOMAIN token = 1..Len(token)
         /\ \A n, m \in 1..Len(token) : token[n].key = token[m].key => n = m
         /\ \E n \in 1..Len(token) : token[n].key = "iat"
         /\ \A n \in 1..Len(token) : /\ token[n].key = "iat" => token[n].kind = "number"
                                     /\ token[n].key = "linked_accounts" => token[n].kind = "accounts"
<1>1. token \in Seq(Claim)
  BY TokensAssumption
<1>2. DOMAIN token = 1..Len(token)
  BY <1>1
<1>3. /\ \A n, m \in DOMAIN token : token[n].key = token[m].key => n = m
      /\ \E n \in DOMAIN token : token[n].key = "iat"
      /\ \A n \in DOMAIN token : /\ token[n].key = "iat" => token[n].kind = "number"
                                 /\ token[n].key = "linked_accounts" => token[n].kind = "accounts"
  BY TokensAssumption
<1> QED
  BY <1>1, <1>2, <1>3, Zenon

\* The linked accounts are found, and not when there are none.
LEMMA LinkedFound ==
  ASSUME NEW token \in Claims
  PROVE  /\ LinkedIdx(token) \in Nat
         /\ LinkedIdx(token) # 0 => \E n \in Linked(token) : LinkedIdx(token) = ClaimAt(token, n)
         /\ LinkedIdx(token) = 0 => Linked(token) = {}
<1>1. token \in Seq(Claim)
  BY Tokens
<1>2. PICK payload \in Seq(Symbols) : payload = Payload(token)
  BY <1>1, TokenWhole
<1>3. PICK key : key = LinkedKey
  OBVIOUS
<1>4. PICK found : found = LinkedIdx(token) /\ found = findTopLevel(Payload(token), stringMap(Payload(token)), key)
  BY <1>3 DEF LinkedIdx
<1>5. /\ found \in Nat
      /\ found # 0 => \E n \in 1..Len(token) : found = ClaimAt(token, n) /\ Occurs(Payload(token), key, found)
      /\ found = 0 => \A n \in 1..Len(token) : ~ Occurs(Payload(token), key, ClaimAt(token, n))
  BY <1>1, <1>4, FindsClaims
<1>6. PICK w : w = "linked_accounts"
  OBVIOUS
<1>7. \A i \in Nat : Occurs(payload, key, i) <=>
        /\ i + 4 <= Len(payload)
        /\ payload[i] = Q /\ payload[i + 1] = w /\ payload[i + 2] = Q /\ payload[i + 3] = Colon /\ payload[i + 4] = Q
  BY <1>3, <1>6, OccursFive DEF LinkedKey, Colon
<1>8. \A n \in 1..Len(token) :
        /\ ClaimAt(token, n) \in Nat
        /\ payload[ClaimAt(token, n)] = Q /\ payload[ClaimAt(token, n) + 1] = token[n].key
        /\ payload[ClaimAt(token, n) + 2] = Q /\ payload[ClaimAt(token, n) + 3] = Colon
  <2> TAKE n \in 1..Len(token)
  <2>1. PICK p \in Nat : p = ClaimAt(token, n) /\ Occurs(payload, ClaimText(token[n]), p)
    BY <1>1, <1>2, ClaimsInPayload
  <2>2. token[n] \in Claim
    BY <1>1
  <2> QED
    BY <2>1, <2>2, OccursClaim
<1>9. \A n \in 1..Len(token) : n \in Linked(token) <=> token[n].key = w
  BY <1>6, Tokens DEF Linked
<1>10. ASSUME found # 0
       PROVE  \E n \in Linked(token) : found = ClaimAt(token, n)
  <2>1. PICK n \in 1..Len(token) : found = ClaimAt(token, n) /\ Occurs(payload, key, found)
    BY <1>2, <1>5, <1>10
  <2>2. payload[found + 1] = w
    BY <1>5, <1>7, <2>1, Zenon
  <2>3. token[n].key = w
    BY <1>8, <2>1, <2>2, Zenon
  <2> QED
    BY <1>9, <2>1, <2>3, Zenon
<1>11. ASSUME found = 0, NEW n \in Linked(token)
       PROVE  FALSE
  <2>1. n \in 1..Len(token) /\ token[n].key = w
    BY <1>9, Tokens DEF Linked
  <2>2. token[n].kind = "accounts"
    BY <1>6, <2>1, Tokens
  <2>3. payload[ClaimAt(token, n) + 4] = Q /\ ClaimAt(token, n) + 4 <= Len(payload)
    BY <1>1, <1>2, <2>1, <2>2, LinkedInPayload
  <2>4. Occurs(payload, key, ClaimAt(token, n))
    BY <1>7, <1>8, <2>1, <2>3, Zenon
  <2> QED
    BY <1>2, <1>5, <1>11, <2>1, <2>4, Zenon
<1> QED
  BY <1>4, <1>5, <1>10, <1>11, Zenon

\* The issue time is found, with its digits behind its key.
LEMMA IatFound ==
  ASSUME NEW token \in Claims
  PROVE  /\ IatIdx(token) # 0
         /\ \E n \in DOMAIN token : /\ token[n].key = "iat" /\ IatIdx(token) = ClaimAt(token, n)
                                    /\ Payload(token)[IatIdx(token) + 4] = token[n].digits
<1>1. token \in Seq(Claim)
  BY Tokens
<1>2. PICK payload \in Seq(Symbols) : payload = Payload(token)
  BY <1>1, TokenWhole
<1>3. PICK key : key = IatKey
  OBVIOUS
<1>4. PICK found : found = IatIdx(token) /\ found = findTopLevel(Payload(token), stringMap(Payload(token)), key)
  BY <1>3 DEF IatIdx
<1>5. /\ found \in Nat
      /\ found # 0 => \E n \in 1..Len(token) : found = ClaimAt(token, n) /\ Occurs(Payload(token), key, found)
      /\ found = 0 => \A n \in 1..Len(token) : ~ Occurs(Payload(token), key, ClaimAt(token, n))
  BY <1>1, <1>4, FindsClaims
<1>6. PICK w : w = "iat"
  OBVIOUS
<1>7. \A i \in Nat : Occurs(payload, key, i) <=>
        /\ i + 3 <= Len(payload)
        /\ payload[i] = Q /\ payload[i + 1] = w /\ payload[i + 2] = Q /\ payload[i + 3] = Colon
  BY <1>3, <1>6, OccursFour DEF IatKey, Colon
<1>8. \A n \in 1..Len(token) :
        /\ ClaimAt(token, n) \in Nat /\ ClaimAt(token, n) + 3 <= Len(payload)
        /\ payload[ClaimAt(token, n)] = Q /\ payload[ClaimAt(token, n) + 1] = token[n].key
        /\ payload[ClaimAt(token, n) + 2] = Q /\ payload[ClaimAt(token, n) + 3] = Colon
        /\ Occurs(payload, ValueText(token[n]), ClaimAt(token, n) + 4)
  <2> TAKE n \in 1..Len(token)
  <2>1. PICK p \in Nat : p = ClaimAt(token, n) /\ Occurs(payload, ClaimText(token[n]), p)
    BY <1>1, <1>2, ClaimsInPayload
  <2>2. token[n] \in Claim
    BY <1>1
  <2> QED
    BY <2>1, <2>2, OccursClaim
<1>9. found # 0
  <2>1. PICK n \in 1..Len(token) : token[n].key = w
    BY <1>6, Tokens
  <2>2. Occurs(payload, key, ClaimAt(token, n))
    BY <1>7, <1>8, <2>1, Zenon
  <2> QED
    BY <1>2, <1>5, <2>1, <2>2, Zenon
<1>10. PICK n \in 1..Len(token) : found = ClaimAt(token, n) /\ Occurs(payload, key, found)
  BY <1>2, <1>5, <1>9
<1>11. token[n].key = w
  <2>1. payload[found + 1] = w
    BY <1>5, <1>7, <1>10, Zenon
  <2> QED
    BY <1>8, <1>10, <2>1, Zenon
<1>12. token[n].kind = "number" /\ token[n] \in Claim
  BY <1>1, <1>6, <1>11, Tokens
<1>13. ValueText(token[n]) = <<token[n].digits>>
  BY <1>12, ValueOfKind
<1>14. Occurs(payload, <<token[n].digits>>, found + 4)
  BY <1>8, <1>10, <1>13, Zenon
<1>15. payload[found + 4] = token[n].digits
  <2>1. found + 4 \in Nat
    BY <1>5
  <2> QED
    BY <1>14, <2>1, OccursOne
<1>16. n \in DOMAIN token
  BY <1>1
<1> QED
  BY <1>2, <1>4, <1>6, <1>9, <1>10, <1>11, <1>15, <1>16, Zenon

\* What the model assumes of a request
LEMMA Requests ==
  ASSUME NEW asked \in WitnessRequests
  PROVE  /\ asked.identityType \in Words /\ TYPES[asked.identityType] \in Words
         /\ asked.identityValue \in Words /\ (asked.wallet # "" => asked.wallet \in Words)
         /\ "wallet" \in Words /\ TYPES["wallet"] \in Words
BY WitnessAssumption

\* A search in a token that has linked accounts
AccountFound(token, type, value) ==
  locateAccount(Payload(token), LinkedIdx(token) + 5,
                LaEnd(Payload(token), stringMap(Payload(token)), LinkedIdx(token) + 5),
                MemberPattern("type", type), MemberPattern(TYPES[type], value))

\* The same of the search that buildWitness makes
LEMMA AccountFits ==
  ASSUME NEW token \in Claims, LinkedIdx(token) # 0,
         NEW type \in Words, TYPES[type] \in Words, NEW value \in Words
  PROVE  /\ ~ Missed(AccountFound(token, type, value)) =>
              PointsAt(token, AccountFound(token, type, value), type, value)
         /\ Provable(token, type, value) => ~ Missed(AccountFound(token, type, value))
<1>1. token \in Seq(Claim)
  BY Tokens
<1>2. PICK n \in Linked(token) : LinkedIdx(token) = ClaimAt(token, n)
  BY LinkedFound
<1>3. n \in 1..Len(token) /\ token[n].key = "linked_accounts"
  BY <1>2, Tokens DEF Linked
<1>4. token[n].kind = "accounts"
  BY <1>3, Tokens
<1>5. LinkedIdx(token) + 5 = LinkedBase(token, n)
  BY <1>2 DEF LinkedBase
<1>6. AccountFound(token, type, value) = SearchFrom(token, n, type, value)
  BY <1>5, Zenon DEF AccountFound, SearchFrom
<1>7. /\ ~ Missed(SearchFrom(token, n, type, value)) => PointsAt(token, SearchFrom(token, n, type, value), type, value)
      /\ \A a \in AccountsWith(token, n, type, value) :
           Braceless(token[n].accounts[a]) => ~ Missed(SearchFrom(token, n, type, value))
  BY <1>1, <1>2, <1>4, SearchFits
<1>8. ASSUME Provable(token, type, value)
      PROVE  ~ Missed(SearchFrom(token, n, type, value))
  <2>1. PICK m \in Linked(token) : \E a \in AccountsWith(token, m, type, value) : Braceless(token[m].accounts[a])
    BY <1>8, Zenon DEF Provable
  <2>2. m \in 1..Len(token) /\ token[m].key = "linked_accounts"
    BY <2>1, Tokens DEF Linked
  <2>3. m = n
    BY <1>3, <2>2, Tokens
  <2> QED
    BY <1>7, <2>1, <2>3, Zenon
<1> QED
  BY <1>6, <1>7, <1>8, Zenon

\* What buildWitness answers, and when it refuses
AccountAsked(token, asked) == AccountFound(token, asked.identityType, asked.identityValue)
WalletAsked(token, asked) == IF asked.wallet = "" THEN NotFound ELSE AccountFound(token, "wallet", asked.wallet)
Refuses(token, asked) ==
  \/ asked.identityValue \in LongWords \/ token \in LargeTokens
  \/ LinkedIdx(token) = 0
  \/ Missed(AccountAsked(token, asked))
  \/ asked.wallet # "" /\ (asked.wallet \in LongWords \/ Missed(WalletAsked(token, asked)) \/ Malformed(asked.wallet))
  \/ IatIdx(token) = 0
Answer(token, asked) ==
  [refused |-> FALSE, iatIdx |-> IatIdx(token), iat |-> IssuedAt(Payload(token)[IatIdx(token) + 4]),
   laIdx |-> LinkedIdx(token), acct |-> AccountAsked(token, asked), walletAcct |-> WalletAsked(token, asked),
   wallet |-> walletField(asked.wallet)]

\* What an answer says
LEMMA Answered ==
  ASSUME NEW token, NEW asked, NEW built, built = Answer(token, asked)
  PROVE  /\ built.refused = FALSE /\ built.iatIdx = IatIdx(token)
         /\ built.iat = IssuedAt(Payload(token)[IatIdx(token) + 4]) /\ built.laIdx = LinkedIdx(token)
         /\ built.acct = AccountAsked(token, asked) /\ built.walletAcct = WalletAsked(token, asked)
<1>1. PICK iatIdx, iat, laIdx, acct, walletAcct, wallet :
        /\ iatIdx = IatIdx(token) /\ iat = IssuedAt(Payload(token)[IatIdx(token) + 4])
        /\ laIdx = LinkedIdx(token) /\ acct = AccountAsked(token, asked)
        /\ walletAcct = WalletAsked(token, asked) /\ wallet = walletField(asked.wallet)
  BY Zenon
<1>2. built = [refused |-> FALSE, iatIdx |-> iatIdx, iat |-> iat, laIdx |-> laIdx, acct |-> acct,
               walletAcct |-> walletAcct, wallet |-> wallet]
  BY <1>1, Zenon DEF Answer
<1>3. /\ built.refused = FALSE /\ built.iatIdx = iatIdx /\ built.iat = iat /\ built.laIdx = laIdx
      /\ built.acct = acct /\ built.walletAcct = walletAcct
  BY <1>2
<1> QED
  BY <1>1, <1>3, Zenon

LEMMA RefusedIs ==
  ASSUME NEW built, built = [refused |-> TRUE]
  PROVE  built.refused = TRUE
OBVIOUS

\* What buildWitness does: it refuses or answers.
LEMMA Built ==
  ASSUME NEW token, NEW asked
  PROVE  buildWitness(token, asked) = IF Refuses(token, asked) THEN [refused |-> TRUE] ELSE Answer(token, asked)
<1> DEFINE payload == Payload(token)
           start == findTopLevel(payload, stringMap(payload), LinkedKey) + Len(LinkedKey)
           Account(type, value) ==
             locateAccount(payload, start, LaEnd(payload, stringMap(payload), start),
                           MemberPattern("type", type), MemberPattern(TYPES[type], value))
           asWallet == IF asked.wallet = "" THEN NotFound ELSE Account("wallet", asked.wallet)
           missing(acct, its) ==
             \/ asked.identityValue \in LongWords \/ token \in LargeTokens
             \/ findTopLevel(payload, stringMap(payload), LinkedKey) = 0
             \/ Missed(acct)
             \/ asked.wallet # "" /\ (asked.wallet \in LongWords \/ Missed(its) \/ Malformed(asked.wallet))
             \/ findTopLevel(payload, stringMap(payload), IatKey) = 0
           found(acct, its) ==
             [refused |-> FALSE, iatIdx |-> findTopLevel(payload, stringMap(payload), IatKey),
              iat |-> IssuedAt(payload[findTopLevel(payload, stringMap(payload), IatKey) + 4]),
              laIdx |-> findTopLevel(payload, stringMap(payload), LinkedKey),
              acct |-> acct, walletAcct |-> its, wallet |-> walletField(asked.wallet)]
<1>1. buildWitness(token, asked) =
        IF missing(Account(asked.identityType, asked.identityValue), asWallet)
        THEN [refused |-> TRUE]
        ELSE found(Account(asked.identityType, asked.identityValue), asWallet)
  BY Zenon DEF buildWitness, LinkedKey, IatKey, Missed
<1>2. Len(LinkedKey) = 5
  BY DEF LinkedKey
<1>3. \A type, value : Account(type, value) = AccountFound(token, type, value)
  BY <1>2, Zenon DEF AccountFound, LinkedIdx
<1>4. asWallet = WalletAsked(token, asked)
  BY <1>3, Zenon DEF WalletAsked
<1>5. Account(asked.identityType, asked.identityValue) = AccountAsked(token, asked)
  BY <1>3, Zenon DEF AccountAsked
<1>6. missing(AccountAsked(token, asked), WalletAsked(token, asked)) <=> Refuses(token, asked)
  BY Zenon DEF LinkedIdx, IatIdx, Refuses
<1>7. found(AccountAsked(token, asked), WalletAsked(token, asked)) = Answer(token, asked)
  BY Zenon DEF LinkedIdx, IatIdx, Answer
<1> QED
  BY <1>1, <1>4, <1>5, <1>6, <1>7, Zenon

\* The same of what it built
LEMMA BuiltAnswer ==
  ASSUME NEW token, NEW asked, NEW built, built = buildWitness(token, asked)
  PROVE  IF Refuses(token, asked) THEN built.refused = TRUE ELSE built = Answer(token, asked)
<1>1. CASE Refuses(token, asked)
  <2>1. built = [refused |-> TRUE]
    BY <1>1, Built, Zenon
  <2>2. built.refused = TRUE
    BY <2>1, RefusedIs
  <2> QED
    BY <1>1, <2>2, Zenon
<1>2. CASE ~ Refuses(token, asked)
  BY <1>2, Built, Zenon
<1> QED
  BY <1>1, <1>2, Zenon

\* No token changes, and its witness is the one that buildWitness answers.
WitnessInv ==
  /\ claims \in Claims /\ request \in WitnessRequests
  /\ witness = NoWitness \/ witness = buildWitness(claims, request)

\* The invariant holds at first and is kept, and implies what is promised.
LEMMA WitnessStarts == WitnessInit => WitnessInv
BY DEF WitnessInit, WitnessInv

LEMMA WitnessStays == WitnessInv /\ [WitnessNext]_witnessVars => WitnessInv'
BY DEF WitnessInv, WitnessNext, BuildWitness, witnessVars

LEMMA WitnessMeans == WitnessInv => WitnessFits
<1> SUFFICES ASSUME WitnessInv, witness # NoWitness PROVE WitnessFits
  BY DEF WitnessFits
<1>1. claims \in Claims /\ request \in WitnessRequests /\ witness = buildWitness(claims, request)
  BY DEF WitnessInv
<1>2. PICK account : account = AccountAsked(claims, request) /\ account = AccountFound(claims, request.identityType, request.identityValue)
  BY Zenon DEF AccountAsked
<1>3. PICK wallet : wallet = WalletAsked(claims, request) /\ (request.wallet # "" => wallet = AccountFound(claims, "wallet", request.wallet))
  BY Zenon DEF WalletAsked
<1>4. /\ witness.refused = TRUE \/ witness.refused = FALSE
      /\ witness.refused = TRUE <=> Refuses(claims, request)
      /\ witness.refused = FALSE =>
           /\ witness.iatIdx = IatIdx(claims) /\ witness.iat = IssuedAt(Payload(claims)[IatIdx(claims) + 4])
           /\ witness.laIdx = LinkedIdx(claims) /\ witness.acct = account /\ witness.walletAcct = wallet
  <2>1. IF Refuses(claims, request) THEN witness.refused = TRUE ELSE witness = Answer(claims, request)
    BY <1>1, BuiltAnswer, Zenon
  <2>2. CASE Refuses(claims, request)
    BY <2>1, <2>2, Zenon
  <2>3. CASE ~ Refuses(claims, request)
    <3>1. witness = Answer(claims, request)
      BY <2>1, <2>3, Zenon
    <3>2. /\ witness.refused = FALSE /\ witness.iatIdx = IatIdx(claims)
          /\ witness.iat = IssuedAt(Payload(claims)[IatIdx(claims) + 4]) /\ witness.laIdx = LinkedIdx(claims)
          /\ witness.acct = AccountAsked(claims, request) /\ witness.walletAcct = WalletAsked(claims, request)
      BY <3>1, Answered
    <3> QED
      BY <1>2, <1>3, <2>3, <3>2, Zenon
  <2> QED
    BY <2>2, <2>3, Zenon
<1>5. /\ request.identityType \in Words /\ TYPES[request.identityType] \in Words
      /\ request.identityValue \in Words /\ (request.wallet # "" => request.wallet \in Words)
      /\ "wallet" \in Words /\ TYPES["wallet"] \in Words
  BY <1>1, Requests
<1>6. LinkedIdx(claims) # 0 =>
        /\ ~ Missed(account) => PointsAt(claims, account, request.identityType, request.identityValue)
        /\ Provable(claims, request.identityType, request.identityValue) => ~ Missed(account)
  BY <1>1, <1>2, <1>5, AccountFits, Zenon
<1>7. LinkedIdx(claims) # 0 /\ request.wallet # "" =>
        /\ ~ Missed(wallet) => PointsAt(claims, wallet, "wallet", request.wallet)
        /\ Provable(claims, "wallet", request.wallet) => ~ Missed(wallet)
  BY <1>1, <1>3, <1>5, AccountFits, Zenon
<1>8. ASSUME ~ witness.refused
      PROVE  /\ \E n \in DOMAIN claims :
                  /\ claims[n].key = "iat" /\ witness.iatIdx = ClaimAt(claims, n)
                  /\ claims[n].digits \in Seconds => witness.iat = claims[n].digits
             /\ \E n \in Linked(claims) : witness.laIdx = ClaimAt(claims, n)
             /\ PointsAt(claims, witness.acct, request.identityType, request.identityValue)
             /\ request.wallet # "" => PointsAt(claims, witness.walletAcct, "wallet", request.wallet)
  <2>1. \E n \in DOMAIN claims : claims[n].key = "iat" /\ IatIdx(claims) = ClaimAt(claims, n)
                                 /\ Payload(claims)[IatIdx(claims) + 4] = claims[n].digits
    BY <1>1, IatFound
  <2>2. \E n \in Linked(claims) : LinkedIdx(claims) = ClaimAt(claims, n)
    BY <1>1, <1>4, <1>8, LinkedFound, Zenon DEF Refuses
  <2>3. \E n \in DOMAIN claims :
          /\ claims[n].key = "iat" /\ witness.iatIdx = ClaimAt(claims, n)
          /\ claims[n].digits \in Seconds => witness.iat = claims[n].digits
    <3>1. PICK n \in DOMAIN claims : claims[n].key = "iat" /\ IatIdx(claims) = ClaimAt(claims, n)
                                     /\ Payload(claims)[IatIdx(claims) + 4] = claims[n].digits
      BY <2>1
    <3>2. witness.iatIdx = IatIdx(claims) /\ witness.iat = IssuedAt(claims[n].digits)
      BY <1>4, <1>8, <3>1, Zenon
    <3> QED
      BY <3>1, <3>2, Zenon DEF IssuedAt
  <2> QED
    BY <1>2, <1>3, <1>4, <1>6, <1>7, <1>8, <2>2, <2>3, Zenon DEF Refuses
<1>9. ASSUME Accepts(claims, request), Provable(claims, request.identityType, request.identityValue),
             request.wallet # "" => Provable(claims, "wallet", request.wallet)
      PROVE  ~ witness.refused
  <2>1. LinkedIdx(claims) # 0
    BY <1>1, <1>9, LinkedFound, Zenon DEF Provable
  <2>2. IatIdx(claims) # 0
    BY <1>1, IatFound
  <2>3. /\ request.identityValue \notin LongWords /\ claims \notin LargeTokens
        /\ request.wallet \notin LongWords /\ ~ Malformed(request.wallet)
    BY <1>9 DEF Accepts, Malformed
  <2> QED
    BY <1>2, <1>3, <1>4, <1>6, <1>7, <1>9, <2>1, <2>2, <2>3, Zenon DEF Refuses
<1> QED
  BY <1>8, <1>9, Zenon DEF WitnessFits

\* Every witness fits its token (witness.ts buildWitness), whatever the texts quote, and what has
\* room in the circuit and no braces has one: for every token, request and table of identity types,
\* and for whichever of them the circuit has no room for.
THEOREM WitnessesFit == WitnessSpec => []WitnessFits
<1>1. WitnessSpec => []WitnessInv
  BY WitnessStarts, WitnessStays, PTL DEF WitnessSpec
<1> QED
  BY <1>1, WitnessMeans, PTL
===============================================================================
