-------------------------- MODULE VaultLedgerProofs --------------------------
(***************************************************************************)
(* Proofs about the vault's ledger, for any numbers of deposits, verifiers *)
(* and tokens and any amounts; first about Total, whose induction over the *)
(* index is done with a least counterexample (WFMin).                      *)
(***************************************************************************)
EXTENDS VaultLedgerProps, SequenceTheorems, WellFoundedInduction, TLAPS

-----------------------------------------------------------------------------
(* Sums *)

\* A nonempty set of naturals has a least element.
LEMMA LeastNatural ==
  ASSUME NEW T, T \subseteq Nat, T # {}
  PROVE  \E x \in T : \A y \in T : x <= y
<1> DEFINE R == OpToRel(<, Nat)
<1>1. IsWellFoundedOn(R, Nat)
  BY NatLessThanWellFounded
<1>2. PICK x \in T : \A y \in T : ~ (<<y, x>> \in R)
  BY <1>1, WFMin
<1>3. \A y \in T : ~ (y < x)
  BY <1>2 DEF OpToRel
<1> QED
  BY <1>3

\* A set that holds 0 and the successor of each of its members below n holds 0..n.
LEMMA UpTo ==
  ASSUME NEW n \in Nat, NEW S, 0 \in S, \A k \in 0..n : k # n /\ k \in S => k + 1 \in S
  PROVE  \A k \in 0..n : k \in S
<1> DEFINE T == {k \in 0..n : k \notin S}
<1> SUFFICES ASSUME T # {} PROVE FALSE
  OBVIOUS
<1>0. T \subseteq Nat
  OBVIOUS
<1>1. PICK x \in T : \A y \in T : x <= y
  <2> HIDE DEF T
  <2> QED
    BY <1>0, LeastNatural
<1>2. x # 0 /\ x - 1 \in 0..n /\ x - 1 # n /\ x - 1 \notin T
  BY <1>1
<1>3. x - 1 \in S
  BY <1>2
<1>4. (x - 1) + 1 \in S
  BY <1>2, <1>3
<1> QED
  BY <1>1, <1>4

-----------------------------------------------------------------------------

\* A function that satisfies the recurrence of PartialSums.
Accumulates(s, w, n) ==
  /\ s \in [0..n -> Int]
  /\ s = [k \in 0..n |-> IF k = 0 THEN 0 ELSE s[k - 1] + w[k]]

\* For every w there is a function that accumulates it, so the recursive
\* definition of PartialSums denotes one.
LEMMA AccumulatorExists ==
  ASSUME NEW n \in Nat, NEW w \in [1..n -> Int]
  PROVE  \E s : Accumulates(s, w, n)
<1> DEFINE S == {m \in 0..n : \E s : Accumulates(s, w, m)}
<1>1. 0 \in S
  <2>1. Accumulates([k \in 0..0 |-> 0], w, 0)
    BY DEF Accumulates
  <2> QED
    BY <2>1
<1>2. ASSUME NEW k \in 0..n, k # n, k \in S
      PROVE  k + 1 \in S
  <2>1. PICK s : Accumulates(s, w, k)
    BY <1>2
  <2> DEFINE t == [j \in 0..(k + 1) |-> IF j = k + 1 THEN s[k] + w[k + 1] ELSE s[j]]
  <2>2. s \in [0..k -> Int] /\ \A j \in 0..k : s[j] = IF j = 0 THEN 0 ELSE s[j - 1] + w[j]
    BY <2>1 DEF Accumulates
  <2>3. t \in [0..(k + 1) -> Int]
    BY <1>2, <2>2
  <2>4. \A j \in 0..(k + 1) : t[j] = IF j = 0 THEN 0 ELSE t[j - 1] + w[j]
    BY <1>2, <2>2
  <2>5. Accumulates(t, w, k + 1)
    BY <2>3, <2>4 DEF Accumulates
  <2> QED
    BY <1>2, <2>5
<1>3. \A k \in 0..n : k \in S
  <2> HIDE DEF S
  <2> QED
    BY <1>1, <1>2, UpTo
<1> QED
  BY <1>3

\* PartialSums starts at 0 and adds w[k] at index k.
LEMMA PartialSumsRecurrence ==
  ASSUME NEW n \in Nat, NEW w \in [1..n -> Int]
  PROVE  /\ PartialSums(w, n) \in [0..n -> Int]
         /\ PartialSums(w, n)[0] = 0
         /\ \A k \in 1..n : PartialSums(w, n)[k] = PartialSums(w, n)[k - 1] + w[k]
<1> DEFINE Def(s) == s = [k \in 0..n |-> IF k = 0 THEN 0 ELSE s[k - 1] + w[k]]
<1>1. PICK s : Accumulates(s, w, n)
  BY AccumulatorExists
<1>2. Def(s)
  BY <1>1 DEF Accumulates
<1>3. Def(CHOOSE f : Def(f))
  BY <1>2
<1>4. PartialSums(w, n) = CHOOSE f : Def(f)
  BY DEF PartialSums
<1>5. Def(PartialSums(w, n))
  BY <1>3, <1>4
<1> DEFINE p == PartialSums(w, n)
<1>6. DOMAIN p = 0..n /\ p = [k \in 0..n |-> p[k]]
  BY <1>5
<1>7. p[0] = 0 /\ \A k \in 1..n : p[k] = p[k - 1] + w[k]
  <2> DEFINE r == [k \in 0..n |-> IF k = 0 THEN 0 ELSE p[k - 1] + w[k]]
  <2>1. p = r
    BY <1>5
  <2>2. \A k \in 0..n : r[k] = IF k = 0 THEN 0 ELSE p[k - 1] + w[k]
    OBVIOUS
  <2>3. \A k \in 0..n : p[k] = IF k = 0 THEN 0 ELSE p[k - 1] + w[k]
    <3> HIDE DEF r
    <3> QED
      BY <2>1, <2>2, Zenon
  <2> HIDE DEF p
  <2> QED
    BY <2>3
<1>8. \A k \in 0..n : k \in {m \in 0..n : p[m] \in Int}
  <2> DEFINE S == {m \in 0..n : p[m] \in Int}
  <2>1. 0 \in S
    BY <1>7
  <2>2. ASSUME NEW k \in 0..n, k # n, k \in S PROVE k + 1 \in S
    <3>1. p[k + 1] = p[k] + w[k + 1]
      BY <1>7, <2>2
    <3> QED
      BY <2>2, <3>1
  <2> HIDE DEF S
  <2> QED
    BY <2>1, <2>2, UpTo DEF S
<1> QED
  BY <1>6, <1>7, <1>8

\* Induction on the partial sums: a relation between three families of partial
\* sums that holds at 0 and is preserved by one more summand holds at n.
LEMMA TotalAdd ==
  ASSUME NEW n \in Nat, NEW u \in [1..n -> Int], NEW v \in [1..n -> Int],
         NEW w \in [1..n -> Int], \A k \in 1..n : w[k] = u[k] + v[k]
  PROVE  Total(w, n) = Total(u, n) + Total(v, n)
<1> DEFINE pu == PartialSums(u, n)
           pv == PartialSums(v, n)
           pw == PartialSums(w, n)
           S == {k \in 0..n : pw[k] = pu[k] + pv[k]}
<1>1. /\ pu \in [0..n -> Int] /\ pu[0] = 0 /\ \A k \in 1..n : pu[k] = pu[k - 1] + u[k]
      /\ pv \in [0..n -> Int] /\ pv[0] = 0 /\ \A k \in 1..n : pv[k] = pv[k - 1] + v[k]
      /\ pw \in [0..n -> Int] /\ pw[0] = 0 /\ \A k \in 1..n : pw[k] = pw[k - 1] + w[k]
  BY PartialSumsRecurrence
<1> HIDE DEF pu, pv, pw
<1>2. 0 \in S
  BY <1>1
<1>3. ASSUME NEW k \in 0..n, k # n, k \in S PROVE k + 1 \in S
  <2>1. k + 1 \in 1..n /\ (k + 1) - 1 = k
    BY <1>3
  <2>2. /\ pu[k + 1] = pu[k] + u[k + 1]
        /\ pv[k + 1] = pv[k] + v[k + 1]
        /\ pw[k + 1] = pw[k] + w[k + 1]
    BY <1>1, <2>1
  <2>3. pu[k] \in Int /\ pv[k] \in Int /\ u[k + 1] \in Int /\ v[k + 1] \in Int
    BY <1>1, <2>1
  <2> QED
    BY <1>3, <2>1, <2>2, <2>3
<1>4. \A j \in 0..n : j \in S
  <2> HIDE DEF S
  <2> QED
    BY <1>2, <1>3, UpTo
<1>5. n \in 0..n
  OBVIOUS
<1> QED
  BY <1>4, <1>5 DEF Total, pu, pv, pw

\* Totals are integers and ordered as their summands are.
LEMMA TotalMonotone ==
  ASSUME NEW n \in Nat, NEW u \in [1..n -> Int], NEW v \in [1..n -> Int],
         \A k \in 1..n : u[k] <= v[k]
  PROVE  Total(u, n) \in Int /\ Total(v, n) \in Int /\ Total(u, n) <= Total(v, n)
<1> DEFINE pu == PartialSums(u, n)
           pv == PartialSums(v, n)
           S == {k \in 0..n : pu[k] <= pv[k]}
<1>1. /\ pu \in [0..n -> Int] /\ pu[0] = 0 /\ \A k \in 1..n : pu[k] = pu[k - 1] + u[k]
      /\ pv \in [0..n -> Int] /\ pv[0] = 0 /\ \A k \in 1..n : pv[k] = pv[k - 1] + v[k]
  BY PartialSumsRecurrence
<1> HIDE DEF pu, pv
<1>2. 0 \in S
  BY <1>1
<1>3. ASSUME NEW k \in 0..n, k # n, k \in S PROVE k + 1 \in S
  <2>1. k + 1 \in 1..n /\ (k + 1) - 1 = k
    BY <1>3
  <2>2. /\ pu[k + 1] = pu[k] + u[k + 1]
        /\ pv[k + 1] = pv[k] + v[k + 1]
        /\ u[k + 1] <= v[k + 1]
    BY <1>1, <2>1
  <2>3. pu[k] \in Int /\ pv[k] \in Int /\ u[k + 1] \in Int /\ v[k + 1] \in Int
    BY <1>1, <2>1
  <2> QED
    BY <1>3, <2>1, <2>2, <2>3
<1>4. \A j \in 0..n : j \in S
  <2> HIDE DEF S
  <2> QED
    BY <1>2, <1>3, UpTo
<1>5. n \in 0..n
  OBVIOUS
<1> QED
  BY <1>1, <1>4, <1>5 DEF Total, pu, pv

\* p scaled by a is at most q scaled by b.
ScaledLeq(p, a, q, b) == p * a <= q * b

LEMMA ScaledStep ==
  ASSUME NEW p \in Int, NEW q \in Int, NEW u \in Int, NEW v \in Int, NEW a \in Int, NEW b \in Int,
         ScaledLeq(p, a, q, b), ScaledLeq(u, a, v, b)
  PROVE  ScaledLeq(p + u, a, q + v, b)
<1>1. (p + u) * a = p * a + u * a /\ (q + v) * b = q * b + v * b
  OBVIOUS
<1>2. p * a \in Int /\ u * a \in Int /\ q * b \in Int /\ v * b \in Int
  OBVIOUS
<1> QED
  BY <1>1, <1>2 DEF ScaledLeq

\* Bounds of the summands up to constant factors are bounds of the totals.
LEMMA TotalScaled ==
  ASSUME NEW n \in Nat, NEW u \in [1..n -> Int], NEW v \in [1..n -> Int],
         NEW a \in Int, NEW b \in Int, \A k \in 1..n : ScaledLeq(u[k], a, v[k], b)
  PROVE  ScaledLeq(Total(u, n), a, Total(v, n), b)
<1> DEFINE pu == PartialSums(u, n)
           pv == PartialSums(v, n)
           S == {k \in 0..n : ScaledLeq(pu[k], a, pv[k], b)}
<1>1. /\ pu \in [0..n -> Int] /\ pu[0] = 0 /\ \A k \in 1..n : pu[k] = pu[k - 1] + u[k]
      /\ pv \in [0..n -> Int] /\ pv[0] = 0 /\ \A k \in 1..n : pv[k] = pv[k - 1] + v[k]
  BY PartialSumsRecurrence
<1> HIDE DEF pu, pv
<1>2. 0 \in S
  BY <1>1 DEF ScaledLeq
<1>3. ASSUME NEW k \in 0..n, k # n, k \in S PROVE k + 1 \in S
  <2>1. k + 1 \in 1..n /\ (k + 1) - 1 = k
    BY <1>3
  <2>2. /\ pu[k + 1] = pu[k] + u[k + 1]
        /\ pv[k + 1] = pv[k] + v[k + 1]
    BY <1>1, <2>1
  <2>3. pu[k] \in Int /\ pv[k] \in Int /\ u[k + 1] \in Int /\ v[k + 1] \in Int
    BY <1>1, <2>1
  <2>4. ScaledLeq(pu[k], a, pv[k], b) /\ ScaledLeq(u[k + 1], a, v[k + 1], b)
    BY <1>3, <2>1
  <2>5. ScaledLeq(pu[k] + u[k + 1], a, pv[k] + v[k + 1], b)
    BY <2>3, <2>4, ScaledStep
  <2> QED
    BY <1>3, <2>1, <2>2, <2>5
<1>4. \A j \in 0..n : j \in S
  <2> HIDE DEF S
  <2> QED
    BY <1>2, <1>3, UpTo
<1>5. n \in 0..n
  OBVIOUS
<1> QED
  BY <1>4, <1>5 DEF Total, pu, pv

\* A total of summands that are all 0 except at k is the summand at k.
LEMMA TotalSingle ==
  ASSUME NEW n \in Nat, NEW w \in [1..n -> Int], NEW k \in 1..n,
         \A i \in 1..n : i # k => w[i] = 0
  PROVE  Total(w, n) = w[k]
<1> DEFINE p == PartialSums(w, n)
           S == {i \in 0..n : p[i] = IF i < k THEN 0 ELSE w[k]}
<1>1. p \in [0..n -> Int] /\ p[0] = 0 /\ \A i \in 1..n : p[i] = p[i - 1] + w[i]
  BY PartialSumsRecurrence
<1> HIDE DEF p
<1>2. 0 \in S
  BY <1>1
<1>3. ASSUME NEW i \in 0..n, i # n, i \in S PROVE i + 1 \in S
  <2>1. i + 1 \in 1..n /\ (i + 1) - 1 = i
    BY <1>3
  <2>2. p[i + 1] = p[i] + w[i + 1] /\ w[i + 1] \in Int /\ w[k] \in Int
    BY <1>1, <2>1
  <2> QED
    BY <1>3, <2>1, <2>2
<1>4. \A j \in 0..n : j \in S
  <2> HIDE DEF S
  <2> QED
    BY <1>2, <1>3, UpTo
<1>5. n \in 0..n
  OBVIOUS
<1> QED
  BY <1>4, <1>5 DEF Total, p

\* One more summand adds its value.
LEMMA TotalAppend ==
  ASSUME NEW n \in Nat, NEW w \in [1..(n + 1) -> Int], NEW u \in [1..n -> Int],
         \A k \in 1..n : u[k] = w[k]
  PROVE  Total(w, n + 1) = Total(u, n) + w[n + 1]
<1> DEFINE pu == PartialSums(u, n)
           pw == PartialSums(w, n + 1)
           S == {k \in 0..n : pw[k] = pu[k]}
<1>1. /\ pu \in [0..n -> Int] /\ pu[0] = 0 /\ \A k \in 1..n : pu[k] = pu[k - 1] + u[k]
      /\ pw \in [0..(n + 1) -> Int] /\ pw[0] = 0
      /\ \A k \in 1..(n + 1) : pw[k] = pw[k - 1] + w[k]
  <2>1. n + 1 \in Nat
    OBVIOUS
  <2> QED
    BY <2>1, PartialSumsRecurrence
<1> HIDE DEF pu, pw
<1>2. 0 \in S
  BY <1>1
<1>3. ASSUME NEW k \in 0..n, k # n, k \in S PROVE k + 1 \in S
  <2>1. k + 1 \in 1..n /\ k + 1 \in 1..(n + 1) /\ (k + 1) - 1 = k
    BY <1>3
  <2>2. pu[k + 1] = pu[k] + u[k + 1] /\ pw[k + 1] = pw[k] + w[k + 1]
    BY <1>1, <2>1
  <2> QED
    BY <1>3, <2>1, <2>2
<1>4. \A j \in 0..n : j \in S
  <2> HIDE DEF S
  <2> QED
    BY <1>2, <1>3, UpTo
<1>5. n + 1 \in 1..(n + 1) /\ (n + 1) - 1 = n /\ n \in 0..n
  OBVIOUS
<1>6. pw[n + 1] = pw[n] + w[n + 1]
  BY <1>1, <1>5
<1> QED
  BY <1>4, <1>5, <1>6 DEF Total, pu, pw

\* A total of naturals is a natural.
LEMMA TotalNat ==
  ASSUME NEW n \in Nat, NEW w \in [1..n -> Nat]
  PROVE  Total(w, n) \in Nat
<1> DEFINE z == [k \in 1..n |-> 0]
<1>1. z \in [1..n -> Int] /\ w \in [1..n -> Int] /\ \A k \in 1..n : z[k] <= w[k]
  OBVIOUS
<1>2. \A k \in 1..n : z[k] = z[k] + z[k]
  OBVIOUS
<1> HIDE DEF z
<1>3. Total(z, n) \in Int /\ Total(w, n) \in Int /\ Total(z, n) <= Total(w, n)
  BY <1>1, TotalMonotone
<1>4. Total(z, n) = Total(z, n) + Total(z, n)
  BY <1>1, <1>2, TotalAdd
<1> QED
  BY <1>3, <1>4

-----------------------------------------------------------------------------
(* The same facts for natural summands, with their hypotheses named *)

\* w gives a natural summand to each of 1..n.
Weights(w, n) == n \in Nat /\ w \in [1..n -> Nat]

\* u is the sum of v and a, index by index.
IsSum(u, v, a, n) == \A i \in 1..n : u[i] = v[i] + a[i]

LEMMA WeightsTotal ==
  ASSUME NEW n, NEW w, Weights(w, n)
  PROVE  n \in Nat /\ Total(w, n) \in Nat
BY TotalNat DEF Weights

LEMMA TotalFalls ==
  ASSUME NEW n, NEW u, NEW v, NEW a,
         Weights(u, n), Weights(v, n), Weights(a, n), IsSum(u, v, a, n)
  PROVE  Total(v, n) = Total(u, n) - Total(a, n)
<1>1. Total(u, n) \in Nat /\ Total(v, n) \in Nat /\ Total(a, n) \in Nat
  BY WeightsTotal
<1>2. /\ n \in Nat
      /\ u \in [1..n -> Int] /\ v \in [1..n -> Int] /\ a \in [1..n -> Int]
  BY DEF Weights
<1>3. \A i \in 1..n : u[i] = v[i] + a[i]
  BY DEF IsSum
<1>4. Total(u, n) = Total(v, n) + Total(a, n)
  BY <1>2, <1>3, TotalAdd, Zenon
<1> QED
  BY <1>1, <1>4

\* One more summand.
LEMMA TotalGrows ==
  ASSUME NEW n, NEW u, NEW w, Weights(u, n), Weights(w, n + 1), \A i \in 1..n : u[i] = w[i]
  PROVE  Total(w, n + 1) = Total(u, n) + w[n + 1]
<1>1. n \in Nat /\ u \in [1..n -> Int] /\ w \in [1..(n + 1) -> Int]
  BY DEF Weights
<1> QED
  BY <1>1, TotalAppend, Zenon

\* Only the summand at k is not 0.
LEMMA TotalOne ==
  ASSUME NEW n, NEW w, Weights(w, n), NEW k \in 1..n, \A i \in 1..n : i # k => w[i] = 0
  PROVE  Total(w, n) = w[k]
<1>1. n \in Nat /\ w \in [1..n -> Int]
  BY DEF Weights
<1> QED
  BY <1>1, TotalSingle, Zenon

\* Summand by summand at most.
LEMMA TotalLeq ==
  ASSUME NEW n, NEW u, NEW v, Weights(u, n), Weights(v, n), \A i \in 1..n : u[i] <= v[i]
  PROVE  Total(u, n) <= Total(v, n)
<1>1. n \in Nat /\ u \in [1..n -> Int] /\ v \in [1..n -> Int]
  BY DEF Weights
<1> QED
  BY <1>1, TotalMonotone, Zenon

\* Changing one summand changes the total by as much.
LEMMA TotalUpdate ==
  ASSUME NEW n, NEW u, NEW w, NEW k \in 1..n,
         Weights(u, n), Weights(w, n), \A i \in 1..n : i # k => w[i] = u[i]
  PROVE  /\ Total(w, n) = Total(u, n) - u[k] + w[k]
         /\ u[k] <= Total(u, n)
<1> DEFINE z == [i \in 1..n |-> IF i = k THEN 0 ELSE u[i]]
           a == [i \in 1..n |-> IF i = k THEN u[k] ELSE 0]
           c == [i \in 1..n |-> IF i = k THEN w[k] ELSE 0]
<1>1. Weights(z, n) /\ Weights(a, n) /\ Weights(c, n)
  BY DEF Weights
<1>2. IsSum(u, z, a, n) /\ IsSum(w, z, c, n)
  BY DEF Weights, IsSum
<1>3. \A i \in 1..n : i # k => a[i] = 0 /\ c[i] = 0
  OBVIOUS
<1>4. a[k] = u[k] /\ c[k] = w[k]
  OBVIOUS
<1> HIDE DEF z, a, c
<1>5. Total(z, n) = Total(u, n) - Total(a, n) /\ Total(z, n) = Total(w, n) - Total(c, n)
  BY <1>1, <1>2, TotalFalls, Zenon
<1>6. Total(a, n) = u[k] /\ Total(c, n) = w[k]
  BY <1>1, <1>3, <1>4, TotalOne
<1>7. Total(z, n) \in Nat /\ Total(u, n) \in Nat /\ Total(w, n) \in Nat
  BY <1>1, WeightsTotal
<1>8. u[k] \in Nat /\ w[k] \in Nat
  BY DEF Weights
<1> QED
  BY <1>5, <1>6, <1>7, <1>8

\* Nothing adds up to 0.
LEMMA TotalZero ==
  ASSUME NEW n \in Nat, NEW w, w = [i \in 1..n |-> 0]
  PROVE  Total(w, n) = 0
<1>1. Weights(w, n) /\ IsSum(w, w, w, n)
  BY DEF Weights, IsSum
<1>2. Total(w, n) = Total(w, n) - Total(w, n) /\ Total(w, n) \in Nat
  BY <1>1, TotalFalls, WeightsTotal, Zenon
<1> QED
  BY <1>2

-----------------------------------------------------------------------------
(* Fees and records *)

\* A fee is a natural number, at most the amount and within the cap.
LEMMA FeeBound ==
  ASSUME NEW a \in Nat, NEW r \in 0..MAX_FEE_BPS
  PROVE  /\ FeeOf(a, r) \in Nat
         /\ FeeOf(a, r) <= a
         /\ FeeOf(a, r) * BPS <= a * MAX_FEE_BPS
<1> USE VaultLedgerAssumption
<1>1. a * r \in Nat /\ a * r <= a * MAX_FEE_BPS /\ a * MAX_FEE_BPS <= a * BPS
  OBVIOUS
<1>2. ASSUME NEW x \in Nat
      PROVE  x \div BPS \in Nat /\ (x \div BPS) * BPS <= x
  BY <1>2
<1>3. ASSUME NEW y \in Nat, y * BPS <= a * BPS
      PROVE  y <= a
  BY <1>3
<1> QED
  BY <1>1, <1>2, <1>3 DEF FeeOf

\* The weights the sums are taken over are naturals, and no fee exceeds its amount.
LEMMA Records ==
  ASSUME NEW ds \in Seq(Deposit)
  PROVE  /\ Len(ds) \in Nat
         /\ \A i \in 1..Len(ds) : ds[i] \in Deposit /\ ds[i].amount \in Nat
         /\ \A S : AmountIn(ds, S) \in [1..Len(ds) -> Nat]
         /\ \A S : FeeIn(ds, S) \in [1..Len(ds) -> Nat]
         /\ \A S : \A i \in 1..Len(ds) : FeeIn(ds, S)[i] <= AmountIn(ds, S)[i]
         /\ \A t : OpenOfToken(ds, t) \in [1..Len(ds) -> Nat]
         /\ \A b : OpenOfBucket(ds, b) \in [1..Len(ds) -> Nat]
<1> USE VaultLedgerAssumption
<1>1. Len(ds) \in Nat /\ \A i \in 1..Len(ds) : ds[i] \in Deposit
  BY LenProperties, ElementOfSeq
<1>2. \A i \in 1..Len(ds) : ds[i].amount \in Nat /\ ds[i].feeBps \in 0..MAX_FEE_BPS
  BY <1>1 DEF Deposit
<1>3. \A i \in 1..Len(ds) :
        LET fee == FeeOf(ds[i].amount, ds[i].feeBps)
        IN  fee \in Nat /\ fee <= ds[i].amount
  BY <1>2, FeeBound
<1> HIDE VaultLedgerAssumption
<1>4. \A S : AmountIn(ds, S) \in [1..Len(ds) -> Nat] /\ FeeIn(ds, S) \in [1..Len(ds) -> Nat]
  BY <1>2, <1>3 DEF AmountIn, FeeIn
<1>5. \A S : \A i \in 1..Len(ds) : FeeIn(ds, S)[i] <= AmountIn(ds, S)[i]
  BY <1>2, <1>3 DEF AmountIn, FeeIn
<1>6. \A t : OpenOfToken(ds, t) \in [1..Len(ds) -> Nat]
  BY <1>2 DEF OpenOfToken
<1>7. \A b : OpenOfBucket(ds, b) \in [1..Len(ds) -> Nat]
  BY <1>2 DEF OpenOfBucket
<1> QED
  BY <1>1, <1>2, <1>4, <1>5, <1>6, <1>7

\* What a claim pays is a natural number and its fee is at most that.
LEMMA GrossAndFee ==
  ASSUME deposits \in Seq(Deposit), NEW S
  PROVE  Gross(S) \in Nat /\ Fee(S) \in Nat /\ Fee(S) <= Gross(S)
<1> DEFINE n == Len(deposits)
           a == AmountIn(deposits, S)
           f == FeeIn(deposits, S)
<1>1. n \in Nat /\ a \in [1..n -> Nat] /\ f \in [1..n -> Nat] /\ \A i \in 1..n : f[i] <= a[i]
  BY Records
<1> HIDE DEF n, a, f
<1>2. a \in [1..n -> Int] /\ f \in [1..n -> Int]
  BY <1>1
<1>3. Total(a, n) \in Nat /\ Total(f, n) \in Nat /\ Total(f, n) <= Total(a, n)
  BY <1>1, <1>2, TotalNat, TotalMonotone
<1> QED
  BY <1>3 DEF Gross, Fee, n, a, f

-----------------------------------------------------------------------------
(* Consuming deposits *)

\* S is a set of unconsumed records of bucket b: what every claim and refund consumes.
Claimable(ds, b, S) ==
  /\ b \in Buckets
  /\ S \subseteq 1..Len(ds)
  /\ \A i \in S : BucketOf(ds[i]) = b /\ ~ ds[i].consumed

\* The records ds with those of S consumed.
Consumed(ds, S) ==
  [i \in 1..Len(ds) |-> IF i \in S THEN [ds[i] EXCEPT !.consumed = TRUE] ELSE ds[i]]

\* Consuming keeps every record but for the consumed marks of S.
LEMMA ConsumeRecords ==
  ASSUME NEW ds \in Seq(Deposit), NEW S
  PROVE  /\ Consumed(ds, S) \in Seq(Deposit)
         /\ Len(Consumed(ds, S)) = Len(ds)
         /\ \A i \in 1..Len(ds) :
              /\ Consumed(ds, S)[i].consumed <=> (ds[i].consumed \/ i \in S)
              /\ BucketOf(Consumed(ds, S)[i]) = BucketOf(ds[i])
              /\ Consumed(ds, S)[i].amount = ds[i].amount
              /\ Consumed(ds, S)[i].token = ds[i].token
              /\ Consumed(ds, S)[i].funder = ds[i].funder
              /\ Consumed(ds, S)[i].constraint = ds[i].constraint
<1> DEFINE n == Len(ds)
           d(i) == IF i \in S THEN [ds[i] EXCEPT !.consumed = TRUE] ELSE ds[i]
           es == Consumed(ds, S)
<1>1. n \in Nat /\ \A i \in 1..n : ds[i] \in Deposit
  BY Records
<1>2. es = [i \in 1..n |-> d(i)]
  BY DEF Consumed
<1>3. \A i \in 1..n : d(i) \in Deposit
  BY <1>1 DEF Deposit
<1>4. es \in [1..n -> Deposit]
  BY <1>2, <1>3
<1>5. es \in Seq(Deposit)
  BY <1>1, <1>4, SeqDef
<1>6. Len(es) \in Nat /\ DOMAIN es = 1..Len(es) /\ DOMAIN es = 1..n
  BY <1>4, <1>5, LenProperties
<1>7. Len(es) = n
  BY <1>1, <1>6
<1>8. ASSUME NEW i \in 1..n
      PROVE  /\ es[i].consumed <=> (ds[i].consumed \/ i \in S)
             /\ BucketOf(es[i]) = BucketOf(ds[i])
             /\ es[i].amount = ds[i].amount
             /\ es[i].token = ds[i].token
             /\ es[i].funder = ds[i].funder
             /\ es[i].constraint = ds[i].constraint
  <2>1. es[i] = d(i) /\ ds[i] \in Deposit
    BY <1>1, <1>2
  <2> HIDE DEF es
  <2>2. CASE i \in S
    BY <2>1, <2>2 DEF Deposit, BucketOf
  <2>3. CASE i \notin S
    BY <2>1, <2>3 DEF Deposit, BucketOf
  <2> QED
    BY <2>2, <2>3
<1> QED
  BY <1>5, <1>7, <1>8

\* What is unconsumed in the claimed token and bucket falls by what is claimed; in the
\* others nothing changes.
LEMMA ConsumeOpen ==
  ASSUME NEW ds \in Seq(Deposit), NEW b, NEW S, Claimable(ds, b, S),
         NEW es, es = Consumed(ds, S), NEW t \in Tokens, NEW c \in Buckets,
         NEW n, n = Len(ds), NEW a, a = AmountIn(ds, S),
         NEW u, u = OpenOfToken(ds, t), NEW v, v = OpenOfToken(es, t),
         NEW x, x = OpenOfBucket(ds, c), NEW y, y = OpenOfBucket(es, c)
  PROVE  /\ Len(es) = n
         /\ Total(a, n) \in Nat
         /\ Total(u, n) \in Nat /\ Total(x, n) \in Nat
         /\ t = b[3] => Total(v, n) = Total(u, n) - Total(a, n)
         /\ t # b[3] => v = u
         /\ c = b => Total(y, n) = Total(x, n) - Total(a, n)
         /\ c # b => y = x
<1>1. /\ n \in Nat /\ a \in [1..n -> Nat]
      /\ es \in Seq(Deposit) /\ Len(es) = n
  BY Records, ConsumeRecords
<1>2. u \in [1..n -> Nat] /\ v \in [1..n -> Nat] /\ x \in [1..n -> Nat] /\ y \in [1..n -> Nat]
  BY <1>1, Records
<1>3. \A i \in 1..n :
        /\ i \in S => BucketOf(ds[i]) = b /\ ds[i].token = b[3] /\ ~ ds[i].consumed
        /\ ds[i].amount \in Nat
        /\ es[i].consumed <=> (ds[i].consumed \/ i \in S)
        /\ BucketOf(es[i]) = BucketOf(ds[i])
        /\ es[i].token = ds[i].token
        /\ es[i].amount = ds[i].amount
  <2>1. \A i \in S : BucketOf(ds[i]) = b /\ ds[i].token = b[3] /\ ~ ds[i].consumed
    BY DEF Claimable, BucketOf
  <2> QED
    BY <2>1, Records, ConsumeRecords
<1>4. \A i \in 1..n :
        /\ a[i] = IF i \in S THEN ds[i].amount ELSE 0
        /\ u[i] = IF ~ ds[i].consumed /\ ds[i].token = t THEN ds[i].amount ELSE 0
        /\ v[i] = IF ~ es[i].consumed /\ es[i].token = t THEN es[i].amount ELSE 0
        /\ x[i] = IF ~ ds[i].consumed /\ BucketOf(ds[i]) = c THEN ds[i].amount ELSE 0
        /\ y[i] = IF ~ es[i].consumed /\ BucketOf(es[i]) = c THEN es[i].amount ELSE 0
  BY <1>1 DEF AmountIn, OpenOfToken, OpenOfBucket
<1>5. Weights(a, n) /\ Weights(u, n) /\ Weights(v, n) /\ Weights(x, n) /\ Weights(y, n)
  BY <1>1, <1>2 DEF Weights
<1>6. t = b[3] => IsSum(u, v, a, n)
  BY <1>3, <1>4 DEF IsSum
<1>7. c = b => IsSum(x, y, a, n)
  BY <1>3, <1>4 DEF IsSum
<1>8. t # b[3] => v = u
  <2>1. t # b[3] => \A i \in 1..n : u[i] = v[i]
    BY <1>3, <1>4
  <2> QED
    BY <1>2, <2>1
<1>9. c # b => y = x
  <2>1. c # b => \A i \in 1..n : x[i] = y[i]
    BY <1>3, <1>4
  <2> QED
    BY <1>2, <2>1
<1>10. t = b[3] => Total(v, n) = Total(u, n) - Total(a, n)
  BY <1>5, <1>6, TotalFalls, Zenon
<1>11. c = b => Total(y, n) = Total(x, n) - Total(a, n)
  BY <1>5, <1>7, TotalFalls, Zenon
<1>12. Total(a, n) \in Nat /\ Total(u, n) \in Nat /\ Total(x, n) \in Nat
  BY <1>5, WeightsTotal
<1> QED
  BY <1>1, <1>8, <1>9, <1>10, <1>11, <1>12

\* A claim or a refund leaves records well formed and keeps the running totals.
LEMMA ConsumeTotals ==
  ASSUME LedgerTypeOK, TotalsAreSums,
         NEW b, NEW S, Claimable(deposits, b, S), Consume(b, S)
  PROVE  /\ Gross(S) \in Nat
         /\ deposits' = Consumed(deposits, S)
         /\ deposits' \in Seq(Deposit)
         /\ bucketTotal' \in [Buckets -> Nat]
         /\ trackedTotal' \in [Tokens -> Nat]
         /\ b[3] \in Tokens
         /\ \A t \in Tokens :
              trackedTotal'[t] = IF t = b[3] THEN trackedTotal[t] - Gross(S) ELSE trackedTotal[t]
         /\ \A t \in Tokens : trackedTotal'[t] = Total(OpenOfToken(deposits', t), Len(deposits'))
         /\ \A c \in Buckets : bucketTotal'[c] = Total(OpenOfBucket(deposits', c), Len(deposits'))
<1> DEFINE n == Len(deposits)
<1>1. /\ deposits \in Seq(Deposit)
      /\ bucketTotal \in [Buckets -> Nat]
      /\ trackedTotal \in [Tokens -> Nat]
  BY DEF LedgerTypeOK
<1>2. b \in Buckets /\ b[3] \in Tokens
  BY DEF Claimable, Buckets
<1>3. deposits' = Consumed(deposits, S)
  BY DEF Consume, Consumed, Ids
<1>4. deposits' \in Seq(Deposit) /\ Len(deposits') = n
  BY <1>1, <1>3, ConsumeRecords
<1>5. Gross(S) \in Nat
  BY <1>1, GrossAndFee
<1>6. ASSUME NEW t \in Tokens, NEW c \in Buckets
      PROVE  /\ trackedTotal'[t] \in Nat
             /\ bucketTotal'[c] \in Nat
             /\ trackedTotal'[t] = Total(OpenOfToken(deposits', t), n)
             /\ bucketTotal'[c] = Total(OpenOfBucket(deposits', c), n)
             /\ trackedTotal'[t] = IF t = b[3] THEN trackedTotal[t] - Gross(S)
                                                ELSE trackedTotal[t]
  <2> DEFINE u == OpenOfToken(deposits, t)
             v == OpenOfToken(deposits', t)
             x == OpenOfBucket(deposits, c)
             y == OpenOfBucket(deposits', c)
             a == AmountIn(deposits, S)
  <2>1. /\ Total(u, n) \in Nat /\ Total(x, n) \in Nat
        /\ t = b[3] => Total(v, n) = Total(u, n) - Total(a, n)
        /\ t # b[3] => v = u
        /\ c = b => Total(y, n) = Total(x, n) - Total(a, n)
        /\ c # b => y = x
    BY <1>1, <1>3, ConsumeOpen
  <2>2. v \in [1..n -> Nat] /\ y \in [1..n -> Nat]
    BY <1>4, Records, Zenon
  <2>3. Weights(v, n) /\ Weights(y, n)
    BY <1>1, <2>2, LenProperties DEF Weights
  <2>4. Total(v, n) \in Nat /\ Total(y, n) \in Nat
    BY <2>3, WeightsTotal, Zenon
  <2>5. Gross(S) = Total(a, n)
    BY DEF Gross
  <2>6. trackedTotal[t] = Total(u, n) /\ bucketTotal[c] = Total(x, n)
    BY DEF TotalsAreSums
  <2> HIDE DEF u, v, x, y, a, n
  <2>7. trackedTotal'[t] = IF t = b[3] THEN trackedTotal[t] - Gross(S) ELSE trackedTotal[t]
    BY <1>1, <1>2 DEF Consume
  <2>8. bucketTotal'[c] = IF c = b THEN bucketTotal[c] - Gross(S) ELSE bucketTotal[c]
    BY <1>1, <1>2 DEF Consume
  <2>9. trackedTotal'[t] = Total(v, n)
    BY <2>1, <2>5, <2>6, <2>7
  <2>10. bucketTotal'[c] = Total(y, n)
    BY <2>1, <2>5, <2>6, <2>8
  <2> QED
    BY <2>4, <2>7, <2>9, <2>10 DEF u, v, x, y, n
<1>7. DOMAIN trackedTotal' = Tokens /\ trackedTotal' = [t \in Tokens |-> trackedTotal'[t]]
  BY <1>1 DEF Consume
<1>8. DOMAIN bucketTotal' = Buckets /\ bucketTotal' = [c \in Buckets |-> bucketTotal'[c]]
  BY <1>1 DEF Consume
<1>9. Buckets # {} /\ Tokens # {}
  BY <1>2
<1> QED
  BY <1>2, <1>3, <1>4, <1>5, <1>6, <1>7, <1>8, <1>9

-----------------------------------------------------------------------------
(* Fees *)

\* Two tables of fees that agree everywhere but at <<v, t>>.
DifferOnlyAt(owed, after, v, t) ==
  /\ owed \in [Verifiers \X Tokens -> Nat]
  /\ after \in [Verifiers \X Tokens -> Nat]
  /\ v \in Verifiers
  /\ t \in Tokens
  /\ \A w \in Verifiers \X Tokens : w # <<v, t>> => after[w] = owed[w]

\* What changing the fees of one verifier in one token does to the sums.
LEMMA FeesOfOne ==
  ASSUME NEW owed, NEW after, NEW v, NEW t, DifferOnlyAt(owed, after, v, t)
  PROVE  /\ Total(FeesOfToken(after, t), NumVerifiers)
               = Total(FeesOfToken(owed, t), NumVerifiers) - owed[<<v, t>>] + after[<<v, t>>]
         /\ \A s \in Tokens \ {t} : FeesOfToken(after, s) = FeesOfToken(owed, s)
         /\ owed[<<v, t>>] <= Total(FeesOfToken(owed, t), NumVerifiers)
<1> DEFINE n == NumVerifiers
           u == FeesOfToken(owed, t)
           w == FeesOfToken(after, t)
<1>0. /\ owed \in [Verifiers \X Tokens -> Nat] /\ after \in [Verifiers \X Tokens -> Nat]
      /\ v \in Verifiers /\ t \in Tokens
      /\ \A x \in Verifiers \X Tokens : x # <<v, t>> => after[x] = owed[x]
  BY DEF DifferOnlyAt
<1>1. n \in Nat /\ Verifiers = 1..n
  BY VaultBaseAssumption DEF Verifiers
<1>2. \A k \in Verifiers : <<k, t>> \in Verifiers \X Tokens /\ owed[<<k, t>>] \in Nat
                           /\ after[<<k, t>>] \in Nat
  BY <1>0
<1>3. Weights(u, n) /\ Weights(w, n)
  BY <1>1, <1>2 DEF Weights, FeesOfToken
<1>4. \A k \in 1..n : k # v => w[k] = u[k]
  <2>1. \A k \in 1..n : k # v => <<k, t>> # <<v, t>> /\ <<k, t>> \in Verifiers \X Tokens
    BY <1>0, <1>1
  <2> QED
    BY <1>0, <1>1, <2>1 DEF FeesOfToken
<1>5. v \in 1..n /\ u[v] = owed[<<v, t>>] /\ w[v] = after[<<v, t>>]
  BY <1>0, <1>1 DEF FeesOfToken
<1> HIDE DEF u, w, n
<1>6. Total(w, n) = Total(u, n) - u[v] + w[v] /\ u[v] <= Total(u, n)
  BY <1>3, <1>4, <1>5, TotalUpdate, Zenon
<1>7. \A s \in Tokens \ {t} : FeesOfToken(after, s) = FeesOfToken(owed, s)
  <2>1. \A s \in Tokens \ {t} : \A k \in Verifiers : after[<<k, s>>] = owed[<<k, s>>]
    BY <1>0
  <2> QED
    BY <2>1 DEF FeesOfToken
<1> QED
  BY <1>5, <1>6, <1>7 DEF u, w, n

\* The part of TotalsAreSums that is about fees.
FeesAreSums ==
  \A t \in Tokens : feesOwedTotal[t] = Total(FeesOfToken(feesOwed, t), NumVerifiers)

\* A payment of `gross` in token t that keeps `fee` for a verifier.
PaidOut(v, t, gross, fee) ==
  /\ v \in Verifiers
  /\ t \in Tokens
  /\ gross \in Nat
  /\ fee \in 0..gross
  /\ Payout(v, t, gross, fee)

\* What it leaves: fee totals that still agree, and a balance down by what is not kept.
FeesKept(t, gross, fee) ==
  /\ feesOwed' \in [Verifiers \X Tokens -> Nat]
  /\ feesOwedTotal' \in [Tokens -> Nat]
  /\ balance' \in [Tokens -> Nat]
  /\ FeesAreSums'
  /\ \A s \in Tokens :
       /\ feesOwedTotal'[s] = IF s = t THEN feesOwedTotal[s] + fee ELSE feesOwedTotal[s]
       /\ balance'[s] = IF s = t THEN balance[s] - (gross - fee) ELSE balance[s]

LEMMA PayoutFees ==
  ASSUME LedgerTypeOK, FeesAreSums, NEW v, NEW t, NEW gross, NEW fee, PaidOut(v, t, gross, fee)
  PROVE  FeesKept(t, gross, fee)
<1>0. v \in Verifiers /\ t \in Tokens /\ gross \in Nat /\ fee \in Nat /\ fee <= gross
  BY DEF PaidOut
<1>1. /\ feesOwed \in [Verifiers \X Tokens -> Nat]
      /\ feesOwedTotal \in [Tokens -> Nat]
      /\ balance \in [Tokens -> Nat]
  BY DEF LedgerTypeOK
<1>2. /\ feesOwed' = [feesOwed EXCEPT ![<<v, t>>] = @ + fee]
      /\ feesOwedTotal' = [feesOwedTotal EXCEPT ![t] = @ + fee]
      /\ gross - fee \in Nat /\ gross - fee <= balance[t]
      /\ balance' = [balance EXCEPT ![t] = @ - (gross - fee)]
  BY <1>0 DEF PaidOut, Payout, TransferOut
<1>3. feesOwed' \in [Verifiers \X Tokens -> Nat]
  BY <1>0, <1>1, <1>2
<1>4. feesOwedTotal' \in [Tokens -> Nat] /\ balance' \in [Tokens -> Nat]
  BY <1>0, <1>1, <1>2
<1>5. \A s \in Tokens :
        /\ feesOwedTotal'[s] = IF s = t THEN feesOwedTotal[s] + fee ELSE feesOwedTotal[s]
        /\ balance'[s] = IF s = t THEN balance[s] - (gross - fee) ELSE balance[s]
  BY <1>0, <1>1, <1>2
<1>6. FeesAreSums'
  <2>1. feesOwed'[<<v, t>>] = feesOwed[<<v, t>>] + fee /\ feesOwed[<<v, t>>] \in Nat
    BY <1>0, <1>1, <1>2
  <2>2. DifferOnlyAt(feesOwed, feesOwed', v, t)
    BY <1>1, <1>2, <1>3, <1>0 DEF DifferOnlyAt
  <2>3. ASSUME NEW s \in Tokens
        PROVE  feesOwedTotal'[s] = Total(FeesOfToken(feesOwed', s), NumVerifiers)
    <3>1. /\ Total(FeesOfToken(feesOwed', t), NumVerifiers)
               = Total(FeesOfToken(feesOwed, t), NumVerifiers)
                   - feesOwed[<<v, t>>] + feesOwed'[<<v, t>>]
          /\ \A r \in Tokens \ {t} : FeesOfToken(feesOwed', r) = FeesOfToken(feesOwed, r)
      BY <2>2, FeesOfOne
    <3>2. feesOwedTotal[s] = Total(FeesOfToken(feesOwed, s), NumVerifiers)
          /\ feesOwedTotal[s] \in Nat
      BY <1>1 DEF FeesAreSums
    <3> QED
      BY <1>0, <1>5, <2>1, <3>1, <3>2
  <2> QED
    BY <2>3 DEF FeesAreSums
<1> QED
  BY <1>3, <1>4, <1>5, <1>6 DEF FeesKept

-----------------------------------------------------------------------------
(* The books: an inductive invariant *)

\* The sums are needed for the types (no subtraction underflows), and the types for
\* the sums; solvency rides on both.
Books == LedgerTypeOK /\ TotalsAreSums /\ Solvent

LEMMA BooksInit == LedgerStart => Books
<1> SUFFICES ASSUME LedgerStart PROVE Books
  OBVIOUS
<1> USE DEF LedgerStart, ClockInit, LedgerInit
<1>1. LedgerTypeOK
  BY DEF LedgerTypeOK
<1>2. Len(deposits) = 0 /\ 0 \in Nat /\ NumVerifiers \in Nat
  BY VaultBaseAssumption
<1>3. ASSUME NEW t \in Tokens
      PROVE  /\ trackedTotal[t] = Total(OpenOfToken(deposits, t), Len(deposits))
             /\ feesOwedTotal[t] = Total(FeesOfToken(feesOwed, t), NumVerifiers)
             /\ balance[t] >= trackedTotal[t] + feesOwedTotal[t]
  <2>1. OpenOfToken(deposits, t) = [i \in 1..0 |-> 0]
    BY <1>2 DEF OpenOfToken
  <2>2. FeesOfToken(feesOwed, t) = [v \in 1..NumVerifiers |-> 0]
    BY <1>3 DEF FeesOfToken, Verifiers
  <2>3. Total(OpenOfToken(deposits, t), 0) = 0 /\ Total(FeesOfToken(feesOwed, t), NumVerifiers) = 0
    BY <1>2, <2>1, <2>2, TotalZero
  <2> QED
    BY <1>2, <1>3, <2>3
<1>4. ASSUME NEW b \in Buckets
      PROVE  bucketTotal[b] = Total(OpenOfBucket(deposits, b), Len(deposits))
  <2>1. OpenOfBucket(deposits, b) = [i \in 1..0 |-> 0]
    BY <1>2 DEF OpenOfBucket
  <2>2. Total(OpenOfBucket(deposits, b), 0) = 0
    BY <1>2, <2>1, TotalZero
  <2> QED
    BY <1>2, <1>4, <2>2
<1> QED
  BY <1>1, <1>3, <1>4 DEF Books, TotalsAreSums, Solvent

\* A claim of the deposits S with `extra` of the surplus, of which a fee y is kept.
LEMMA BooksClaim ==
  ASSUME Books, NEW b, NEW S, Claimable(deposits, b, S), Consume(b, S),
         NEW extra \in Nat, NEW y \in Nat, y <= extra,
         extra = 0 \/ balance[b[3]] = trackedTotal[b[3]] + feesOwedTotal[b[3]] + extra,
         Payout(b[1], b[3], Gross(S) + extra, Fee(S) + y),
         UNCHANGED <<now, bucketDeposits, constraintDeposit>>,
         bucketCursor' \in [Buckets -> Nat]
  PROVE  Books'
<1> DEFINE t == b[3]
           v == b[1]
           gross == Gross(S) + extra
           fee == Fee(S) + y
<1>0. LedgerTypeOK /\ TotalsAreSums /\ Solvent
  BY DEF Books
<1>1. v \in Verifiers /\ t \in Tokens
  BY DEF Claimable, Buckets
<1>2. /\ Gross(S) \in Nat
      /\ deposits' \in Seq(Deposit)
      /\ bucketTotal' \in [Buckets -> Nat]
      /\ trackedTotal' \in [Tokens -> Nat]
      /\ \A s \in Tokens :
           trackedTotal'[s] = IF s = t THEN trackedTotal[s] - Gross(S) ELSE trackedTotal[s]
      /\ \A s \in Tokens : trackedTotal'[s] = Total(OpenOfToken(deposits', s), Len(deposits'))
      /\ \A c \in Buckets : bucketTotal'[c] = Total(OpenOfBucket(deposits', c), Len(deposits'))
  BY <1>0, ConsumeTotals
<1>3. Fee(S) \in Nat /\ Fee(S) <= Gross(S)
  BY <1>0, GrossAndFee DEF LedgerTypeOK
<1>4. gross \in Nat /\ fee \in Nat /\ fee <= gross
  BY <1>2, <1>3
<1>5. FeesAreSums
  BY <1>0 DEF TotalsAreSums, FeesAreSums
<1>6. PaidOut(v, t, gross, fee)
  BY <1>1, <1>4 DEF PaidOut
<1>11. extra = 0 \/ balance[t] = trackedTotal[t] + feesOwedTotal[t] + extra
  OBVIOUS
<1> HIDE DEF gross, fee, v, t
<1>7. FeesKept(t, gross, fee)
  BY <1>0, <1>5, <1>6, PayoutFees
<1>8. LedgerTypeOK'
  BY <1>0, <1>2, <1>7 DEF LedgerTypeOK, FeesKept
<1>9. TotalsAreSums'
  BY <1>2, <1>7 DEF TotalsAreSums, FeesAreSums, FeesKept
<1>10. Solvent'
  <2>1. ASSUME NEW s \in Tokens
        PROVE  balance'[s] >= trackedTotal'[s] + feesOwedTotal'[s]
    <3>1. /\ balance[s] \in Nat /\ trackedTotal[s] \in Nat /\ feesOwedTotal[s] \in Nat
          /\ balance[s] >= trackedTotal[s] + feesOwedTotal[s]
      BY <1>0 DEF LedgerTypeOK, Solvent
    <3>2. CASE s # t
      BY <1>2, <1>7, <3>1, <3>2 DEF FeesKept
    <3>3. CASE s = t
      <4>1. balance'[s] = balance[s] - (gross - fee)
        BY <1>7, <3>3 DEF FeesKept
      <4>2. feesOwedTotal'[s] = feesOwedTotal[s] + fee
        BY <1>7, <3>3 DEF FeesKept
      <4>3. trackedTotal'[s] = trackedTotal[s] - Gross(S)
        BY <1>2, <3>3
      <4>4. balance[s] >= trackedTotal[s] + feesOwedTotal[s] + extra
        BY <1>11, <3>1, <3>3
      <4>5. gross = Gross(S) + extra
        BY DEF gross
      <4>6. Gross(S) \in Nat /\ fee \in Nat
        BY <1>2, <1>4
      <4> QED
        BY <3>1, <4>1, <4>2, <4>3, <4>4, <4>5, <4>6
    <3> QED
      BY <3>2, <3>3
  <2> QED
    BY <2>1 DEF Solvent
<1> QED
  BY <1>8, <1>9, <1>10 DEF Books

\* A record appended to ds adds its amount to the sums of its token and bucket.
LEMMA AppendOpen ==
  ASSUME NEW ds \in Seq(Deposit), NEW d \in Deposit, ~ d.consumed,
         NEW t \in Tokens, NEW c \in Buckets
  PROVE  /\ Append(ds, d) \in Seq(Deposit)
         /\ Total(OpenOfToken(Append(ds, d), t), Len(Append(ds, d)))
              = Total(OpenOfToken(ds, t), Len(ds)) + (IF d.token = t THEN d.amount ELSE 0)
         /\ Total(OpenOfBucket(Append(ds, d), c), Len(Append(ds, d)))
              = Total(OpenOfBucket(ds, c), Len(ds)) + (IF BucketOf(d) = c THEN d.amount ELSE 0)
<1> DEFINE n == Len(ds)
           es == Append(ds, d)
           u == OpenOfToken(ds, t)
           v == OpenOfToken(es, t)
           x == OpenOfBucket(ds, c)
           y == OpenOfBucket(es, c)
<1>1. n \in Nat /\ es \in Seq(Deposit) /\ Len(es) = n + 1
  BY LenProperties, AppendProperties
<1>2. (\A i \in 1..n : es[i] = ds[i]) /\ es[n + 1] = d
  BY <1>1, AppendProperties
<1>3. u \in [1..n -> Nat] /\ v \in [1..(n + 1) -> Nat]
  BY <1>1, Records
<1>4. x \in [1..n -> Nat] /\ y \in [1..(n + 1) -> Nat]
  BY <1>1, Records
<1>5. /\ \A i \in 1..n : u[i] = v[i]
      /\ v[n + 1] = IF d.token = t THEN d.amount ELSE 0
  BY <1>1, <1>2 DEF OpenOfToken
<1>6. /\ \A i \in 1..n : x[i] = y[i]
      /\ y[n + 1] = IF BucketOf(d) = c THEN d.amount ELSE 0
  BY <1>1, <1>2 DEF OpenOfBucket
<1>7. Weights(u, n) /\ Weights(v, n + 1) /\ Weights(x, n) /\ Weights(y, n + 1)
  BY <1>1, <1>3, <1>4 DEF Weights
<1> HIDE DEF u, v, x, y, es, n
<1>8. Total(v, n + 1) = Total(u, n) + v[n + 1]
  BY <1>5, <1>7, TotalGrows, Zenon
<1>9. Total(y, n + 1) = Total(x, n) + y[n + 1]
  BY <1>6, <1>7, TotalGrows, Zenon
<1> QED
  BY <1>1, <1>5, <1>6, <1>8, <1>9 DEF u, v, x, y, es, n

LEMMA BooksFund ==
  ASSUME Books, NEW funder \in Funders, NEW v \in Verifiers, NEW c \in Constraints,
         NEW t \in Tokens, NEW amount \in Amounts, NEW credited \in Amounts,
         NEW window \in Windows, NEW q \in Quotes \union {NoAnswer},
         Fund(funder, v, c, t, amount, credited, window, q), now' = now
  PROVE  Books'
<1> DEFINE b == <<v, c, t>>
           n == Len(deposits)
           d == [funder |-> funder, fundedAt |-> now, consumed |-> FALSE, token |-> t,
                 refundWindow |-> window, verifier |-> v, feeBps |-> QuoteFeeBps(q),
                 amount |-> credited, constraint |-> c]
<1>0. LedgerTypeOK /\ TotalsAreSums /\ Solvent
  BY DEF Books
<1>1. /\ deposits' = Append(deposits, d)
      /\ credited \in 1..UINT128_MAX /\ credited \in Nat
      /\ bucketTotal' = [bucketTotal EXCEPT ![b] = @ + credited]
      /\ trackedTotal' = [trackedTotal EXCEPT ![t] = @ + credited]
      /\ balance' = [balance EXCEPT ![t] = @ + credited]
      /\ bucketDeposits' = [bucketDeposits EXCEPT ![b] = Append(@, n + 1)]
      /\ constraintDeposit' = IF c = NoConstraint THEN constraintDeposit
                              ELSE [constraintDeposit EXCEPT ![<<c, funder>>] = n + 1]
      /\ UNCHANGED <<bucketCursor, feesOwed, feesOwedTotal>>
  BY VaultLedgerAssumption DEF Fund
<1>2. QuoteFeeBps(q) \in 0..MAX_FEE_BPS
  <2>1. MAX_FEE_BPS \in Nat /\ Quotes \subseteq Nat
    BY VaultLedgerAssumption
  <2> QED
    BY <2>1 DEF QuoteFeeBps
<1>3. d \in Deposit /\ BucketOf(d) = b /\ b \in Buckets
  <2>1. now \in Nat /\ window \in Nat
    BY <1>0, VaultLedgerAssumption DEF LedgerTypeOK
  <2> QED
    BY <1>1, <1>2, <2>1 DEF Deposit, BucketOf, Buckets
<1>4. d.token = t /\ d.amount = credited /\ ~ d.consumed
  OBVIOUS
<1> HIDE DEF d, b
<1>5. ASSUME NEW s \in Tokens, NEW e \in Buckets
      PROVE  /\ deposits' \in Seq(Deposit)
             /\ trackedTotal'[s] = Total(OpenOfToken(deposits', s), Len(deposits'))
             /\ bucketTotal'[e] = Total(OpenOfBucket(deposits', e), Len(deposits'))
  <2> DEFINE add == IF t = s THEN credited ELSE 0
             addB == IF b = e THEN credited ELSE 0
  <2>1. deposits \in Seq(Deposit)
    BY <1>0 DEF LedgerTypeOK
  <2>2. /\ deposits' \in Seq(Deposit)
        /\ Total(OpenOfToken(deposits', s), Len(deposits'))
             = Total(OpenOfToken(deposits, s), n) + add
        /\ Total(OpenOfBucket(deposits', e), Len(deposits'))
             = Total(OpenOfBucket(deposits, e), n) + addB
    BY <1>1, <1>3, <1>4, <2>1, AppendOpen
  <2>3. trackedTotal[s] = Total(OpenOfToken(deposits, s), n) /\ trackedTotal[s] \in Nat
    BY <1>0 DEF TotalsAreSums, LedgerTypeOK
  <2>4. bucketTotal[e] = Total(OpenOfBucket(deposits, e), n) /\ bucketTotal[e] \in Nat
    BY <1>0 DEF TotalsAreSums, LedgerTypeOK
  <2>5. trackedTotal'[s] = trackedTotal[s] + add
    BY <1>0, <1>1 DEF LedgerTypeOK
  <2>6. bucketTotal'[e] = bucketTotal[e] + addB
    <3>1. bucketTotal \in [Buckets -> Nat] /\ bucketTotal[e] \in Nat
      BY <1>0 DEF LedgerTypeOK
    <3>2. bucketTotal' = [bucketTotal EXCEPT ![b] = @ + credited]
      BY <1>1
    <3>3. credited \in Nat
      BY <1>1
    <3> QED
      BY <1>3, <3>1, <3>2, <3>3
  <2> QED
    BY <2>2, <2>3, <2>4, <2>5, <2>6
<1>6. TotalsAreSums'
  BY <1>0, <1>1, <1>3, <1>5 DEF TotalsAreSums
<1>7. LedgerTypeOK'
  <2>1. n + 1 \in Nat
    BY <1>0, LenProperties DEF LedgerTypeOK
  <2>2. bucketDeposits' \in [Buckets -> Seq(Nat)]
    <3>1. bucketDeposits \in [Buckets -> Seq(Nat)] /\ bucketDeposits[b] \in Seq(Nat)
      BY <1>0, <1>3 DEF LedgerTypeOK
    <3>2. Append(bucketDeposits[b], n + 1) \in Seq(Nat)
      BY <2>1, <3>1, AppendProperties
    <3> QED
      BY <1>1, <1>3, <3>1, <3>2
  <2>3. constraintDeposit' \in [Constraints \X Funders -> Nat]
    BY <1>0, <1>1, <2>1 DEF LedgerTypeOK
  <2>4. /\ bucketTotal' \in [Buckets -> Nat]
        /\ trackedTotal' \in [Tokens -> Nat]
        /\ balance' \in [Tokens -> Nat]
    <3>1. /\ bucketTotal \in [Buckets -> Nat]
          /\ trackedTotal \in [Tokens -> Nat]
          /\ balance \in [Tokens -> Nat]
      BY <1>0 DEF LedgerTypeOK
    <3>2. trackedTotal' \in [Tokens -> Nat] /\ balance' \in [Tokens -> Nat]
      BY <1>1, <3>1
    <3>3. bucketTotal[b] + credited \in Nat
      BY <1>1, <1>3, <3>1
    <3>4. bucketTotal' \in [Buckets -> Nat]
      BY <1>1, <1>3, <3>1, <3>3
    <3> QED
      BY <3>2, <3>4
  <2>5. deposits' \in Seq(Deposit)
    BY <1>3, <1>5
  <2> QED
    BY <1>0, <1>1, <2>2, <2>3, <2>4, <2>5 DEF LedgerTypeOK
<1>8. Solvent'
  <2>1. ASSUME NEW s \in Tokens
        PROVE  balance'[s] >= trackedTotal'[s] + feesOwedTotal'[s]
    <3>1. /\ balance[s] \in Nat /\ trackedTotal[s] \in Nat /\ feesOwedTotal[s] \in Nat
          /\ balance[s] >= trackedTotal[s] + feesOwedTotal[s]
      BY <1>0 DEF LedgerTypeOK, Solvent
    <3>2. /\ balance'[s] = IF s = t THEN balance[s] + credited ELSE balance[s]
          /\ trackedTotal'[s] = IF s = t THEN trackedTotal[s] + credited ELSE trackedTotal[s]
          /\ feesOwedTotal' = feesOwedTotal
      BY <1>0, <1>1 DEF LedgerTypeOK
    <3> QED
      BY <1>1, <3>1, <3>2
  <2> QED
    BY <2>1 DEF Solvent
<1> QED
  BY <1>6, <1>7, <1>8 DEF Books

LEMMA BooksRefund ==
  ASSUME Books, NEW i \in Ids, Refund(i), now' = now
  PROVE  Books'
<1> DEFINE d == deposits[i]
           b == BucketOf(d)
           n == Len(deposits)
           a == AmountIn(deposits, {i})
<1>0. LedgerTypeOK /\ TotalsAreSums /\ Solvent /\ deposits \in Seq(Deposit)
  BY DEF Books, LedgerTypeOK
<1>1. i \in 1..n /\ d \in Deposit
  BY <1>0, Records DEF Ids
<1>2. b \in Buckets /\ b[3] = d.token /\ d.token \in Tokens /\ d.amount \in Nat
  BY <1>1, VaultLedgerAssumption DEF Deposit, BucketOf, Buckets
<1>3. Claimable(deposits, b, {i})
  BY <1>1, <1>2 DEF Refund, Claimable
<1>4. /\ Consume(b, {i})
      /\ d.amount <= balance[d.token]
      /\ balance' = [balance EXCEPT ![d.token] = @ - d.amount]
      /\ UNCHANGED <<bucketDeposits, bucketCursor, constraintDeposit, feesOwed, feesOwedTotal>>
  BY DEF Refund, TransferOut
<1>5. Gross({i}) = d.amount
  <2>1. Weights(a, n)
    BY <1>0, Records DEF Weights
  <2>2. (\A j \in 1..n : j # i => a[j] = 0) /\ a[i] = d.amount
    BY <1>1 DEF AmountIn
  <2> HIDE DEF a, n
  <2>3. Total(a, n) = a[i]
    BY <1>1, <2>1, <2>2, TotalOne, Zenon
  <2> QED
    BY <2>2, <2>3 DEF Gross, a, n
<1>6. /\ deposits' \in Seq(Deposit)
      /\ bucketTotal' \in [Buckets -> Nat]
      /\ trackedTotal' \in [Tokens -> Nat]
      /\ \A t \in Tokens :
           trackedTotal'[t] = IF t = b[3] THEN trackedTotal[t] - Gross({i}) ELSE trackedTotal[t]
      /\ \A t \in Tokens : trackedTotal'[t] = Total(OpenOfToken(deposits', t), Len(deposits'))
      /\ \A c \in Buckets : bucketTotal'[c] = Total(OpenOfBucket(deposits', c), Len(deposits'))
  BY <1>0, <1>3, <1>4, ConsumeTotals
<1> HIDE DEF d, b
<1>7. LedgerTypeOK'
  <2>1. balance' \in [Tokens -> Nat]
    BY <1>0, <1>2, <1>4 DEF LedgerTypeOK
  <2> QED
    BY <1>0, <1>4, <1>6, <2>1 DEF LedgerTypeOK
<1>8. TotalsAreSums'
  BY <1>0, <1>4, <1>6 DEF TotalsAreSums
<1>9. Solvent'
  <2>1. ASSUME NEW t \in Tokens
        PROVE  balance'[t] >= trackedTotal'[t] + feesOwedTotal'[t]
    <3>1. /\ balance[t] \in Nat /\ trackedTotal[t] \in Nat /\ feesOwedTotal[t] \in Nat
          /\ balance[t] >= trackedTotal[t] + feesOwedTotal[t]
      BY <1>0 DEF LedgerTypeOK, Solvent
    <3>2. /\ balance'[t] = IF t = d.token THEN balance[t] - d.amount ELSE balance[t]
          /\ feesOwedTotal' = feesOwedTotal
      BY <1>0, <1>4 DEF LedgerTypeOK
    <3>3. trackedTotal'[t] = IF t = d.token THEN trackedTotal[t] - d.amount ELSE trackedTotal[t]
      BY <1>2, <1>5, <1>6
    <3> QED
      BY <1>2, <3>1, <3>2, <3>3
  <2> QED
    BY <2>1 DEF Solvent
<1> QED
  BY <1>7, <1>8, <1>9 DEF Books

\* The surplus is a natural number, and what is left when everything owed is set aside.
LEMMA Surplus ==
  ASSUME Books, NEW t \in Tokens
  PROVE  /\ UntrackedBalance(t) \in Nat
         /\ UntrackedBalance(t) = 0
              \/ balance[t] = trackedTotal[t] + feesOwedTotal[t] + UntrackedBalance(t)
<1>1. balance[t] \in Nat /\ trackedTotal[t] \in Nat /\ feesOwedTotal[t] \in Nat
  BY DEF Books, LedgerTypeOK
<1> QED
  BY <1>1 DEF UntrackedBalance

LEMMA QuoteRange ==
  ASSUME NEW q \in Quotes \union {NoAnswer}
  PROVE  QuoteFeeBps(q) \in 0..MAX_FEE_BPS
<1>1. MAX_FEE_BPS \in Nat /\ Quotes \subseteq Nat
  BY VaultLedgerAssumption
<1> QED
  BY <1>1 DEF QuoteFeeBps

LEMMA BooksSweepPage ==
  ASSUME Books, NEW b \in Buckets, NEW limit \in Nat, NEW q \in Quotes \union {NoAnswer},
         NEW paysUntracked \in BOOLEAN, SweepPage(b, limit, q, paysUntracked), now' = now,
         PageEnd(b, limit) \in Nat, Claimable(deposits, b, PageIds(b, limit))
  PROVE  Books'
<1> DEFINE S == PageIds(b, limit)
           extra == IF paysUntracked THEN UntrackedBalance(b[3]) ELSE 0
           y == FeeOf(extra, QuoteFeeBps(q))
<1>1. b[3] \in Tokens
  BY DEF Buckets
<1>2. /\ extra \in Nat
      /\ extra = 0 \/ balance[b[3]] = trackedTotal[b[3]] + feesOwedTotal[b[3]] + extra
  BY <1>1, Surplus
<1>3. /\ Consume(b, S)
      /\ bucketCursor' = [bucketCursor EXCEPT ![b] = PageEnd(b, limit)]
      /\ Payout(b[1], b[3], Gross(S) + extra, Fee(S) + y)
      /\ UNCHANGED <<now, bucketDeposits, constraintDeposit>>
  BY DEF SweepPage
<1>4. y \in Nat /\ y <= extra
  <2> HIDE DEF extra
  <2> QED
    BY <1>2, QuoteRange, FeeBound
<1>5. bucketCursor' \in [Buckets -> Nat]
  BY <1>3 DEF Books, LedgerTypeOK
<1> HIDE DEF S, extra, y
<1>6. Claimable(deposits, b, S)
  BY DEF S
<1> QED
  BY <1>2, <1>3, <1>4, <1>5, <1>6, BooksClaim

LEMMA BooksSweepIds ==
  ASSUME Books, NEW b \in Buckets, NEW S, SweepIds(b, S), now' = now
  PROVE  Books'
<1>1. Claimable(deposits, b, S)
  BY DEF SweepIds, Claimable, Ids
<1>2. Gross(S) \in Nat /\ Fee(S) \in Nat
  BY GrossAndFee DEF Books, LedgerTypeOK
<1>3. Payout(b[1], b[3], Gross(S) + 0, Fee(S) + 0)
  BY <1>2 DEF SweepIds
<1>4. /\ Consume(b, S)
      /\ UNCHANGED <<now, bucketDeposits, constraintDeposit>>
      /\ bucketCursor' \in [Buckets -> Nat]
  BY DEF SweepIds, Books, LedgerTypeOK
<1>5. 0 \in Nat /\ 0 <= 0
  OBVIOUS
<1> QED
  BY <1>1, <1>3, <1>4, <1>5, BooksClaim

LEMMA BooksSweepUntracked ==
  ASSUME Books, NEW v \in Verifiers, NEW t \in Tokens, NEW q \in Quotes \union {NoAnswer},
         SweepUntracked(v, t, q), now' = now
  PROVE  Books'
<1> DEFINE extra == UntrackedBalance(t)
           fee == FeeOf(extra, QuoteFeeBps(q))
<1>0. LedgerTypeOK /\ TotalsAreSums /\ Solvent /\ FeesAreSums
  BY DEF Books, TotalsAreSums, FeesAreSums
<1>1. extra \in Nat
  BY Surplus
<1>2. fee \in Nat /\ fee <= extra
  BY <1>1, QuoteRange, FeeBound
<1>3. PaidOut(v, t, extra, fee)
  BY <1>1, <1>2 DEF SweepUntracked, PaidOut
<1>4. UNCHANGED <<deposits, bucketDeposits, bucketCursor, bucketTotal, trackedTotal,
                  constraintDeposit>>
  BY DEF SweepUntracked
<1>5. extra = 0 \/ balance[t] = trackedTotal[t] + feesOwedTotal[t] + extra
  BY Surplus
<1> HIDE DEF extra, fee
<1>6. FeesKept(t, extra, fee)
  BY <1>0, <1>3, PayoutFees
<1>7. LedgerTypeOK' /\ TotalsAreSums'
  BY <1>0, <1>4, <1>6 DEF LedgerTypeOK, TotalsAreSums, FeesKept, FeesAreSums
<1>8. Solvent'
  <2>1. ASSUME NEW s \in Tokens
        PROVE  balance'[s] >= trackedTotal'[s] + feesOwedTotal'[s]
    <3>1. /\ balance[s] \in Nat /\ trackedTotal[s] \in Nat /\ feesOwedTotal[s] \in Nat
          /\ balance[s] >= trackedTotal[s] + feesOwedTotal[s]
      BY <1>0 DEF LedgerTypeOK, Solvent
    <3>2. /\ feesOwedTotal'[s] = IF s = t THEN feesOwedTotal[s] + fee ELSE feesOwedTotal[s]
          /\ balance'[s] = IF s = t THEN balance[s] - (extra - fee) ELSE balance[s]
      BY <1>6 DEF FeesKept
    <3> QED
      BY <1>1, <1>2, <1>4, <1>5, <3>1, <3>2
  <2> QED
    BY <2>1 DEF Solvent
<1> QED
  BY <1>7, <1>8 DEF Books

LEMMA BooksWithdrawFees ==
  ASSUME Books, NEW v \in Verifiers, NEW t \in Tokens, NEW taken,
         WithdrawFees(v, t, taken), now' = now
  PROVE  Books'
<1> DEFINE k == <<v, t>>
<1>0. /\ LedgerTypeOK /\ Solvent /\ FeesAreSums /\ TotalsAreSums
      /\ feesOwed \in [Verifiers \X Tokens -> Nat] /\ feesOwed[k] \in Nat
      /\ feesOwedTotal \in [Tokens -> Nat]
      /\ balance \in [Tokens -> Nat]
  BY DEF Books, LedgerTypeOK, TotalsAreSums, FeesAreSums
<1>1. /\ taken \in 0..feesOwed[k]
      /\ feesOwed' = [feesOwed EXCEPT ![k] = @ - taken]
      /\ feesOwedTotal' = [feesOwedTotal EXCEPT ![t] = @ - taken]
      /\ taken <= balance[t]
      /\ balance' = [balance EXCEPT ![t] = @ - taken]
      /\ UNCHANGED <<deposits, bucketDeposits, bucketCursor, bucketTotal, trackedTotal,
                     constraintDeposit>>
  BY DEF WithdrawFees, TransferOut
<1>2. feesOwed' \in [Verifiers \X Tokens -> Nat] /\ feesOwed'[k] = feesOwed[k] - taken
  BY <1>0, <1>1
<1>3. DifferOnlyAt(feesOwed, feesOwed', v, t)
  BY <1>0, <1>1, <1>2 DEF DifferOnlyAt
<1>4. /\ Total(FeesOfToken(feesOwed', t), NumVerifiers)
           = Total(FeesOfToken(feesOwed, t), NumVerifiers) - feesOwed[k] + feesOwed'[k]
      /\ \A s \in Tokens \ {t} : FeesOfToken(feesOwed', s) = FeesOfToken(feesOwed, s)
      /\ feesOwed[k] <= Total(FeesOfToken(feesOwed, t), NumVerifiers)
  BY <1>3, FeesOfOne
<1>5. feesOwedTotal[t] = Total(FeesOfToken(feesOwed, t), NumVerifiers) /\ feesOwedTotal[t] \in Nat
  BY <1>0 DEF FeesAreSums
<1>6. feesOwedTotal[t] - taken \in Nat
  BY <1>0, <1>1, <1>4, <1>5
<1>7. feesOwedTotal' \in [Tokens -> Nat] /\ balance' \in [Tokens -> Nat]
  BY <1>0, <1>1, <1>6
<1>8. \A s \in Tokens :
        /\ feesOwedTotal'[s] = IF s = t THEN feesOwedTotal[s] - taken ELSE feesOwedTotal[s]
        /\ balance'[s] = IF s = t THEN balance[s] - taken ELSE balance[s]
  BY <1>0, <1>1
<1>9. FeesAreSums'
  <2>1. ASSUME NEW s \in Tokens
        PROVE  feesOwedTotal'[s] = Total(FeesOfToken(feesOwed', s), NumVerifiers)
    <3>1. CASE s # t
      BY <1>0, <1>4, <1>8, <3>1 DEF FeesAreSums
    <3>2. CASE s = t
      BY <1>0, <1>1, <1>2, <1>4, <1>5, <1>8, <3>2
    <3> QED
      BY <3>1, <3>2
  <2> QED
    BY <2>1 DEF FeesAreSums
<1>10. LedgerTypeOK' /\ TotalsAreSums'
  BY <1>0, <1>1, <1>2, <1>7, <1>9 DEF LedgerTypeOK, TotalsAreSums, FeesAreSums
<1>11. Solvent'
  <2>1. ASSUME NEW s \in Tokens
        PROVE  balance'[s] >= trackedTotal'[s] + feesOwedTotal'[s]
    <3>1. /\ balance[s] \in Nat /\ trackedTotal[s] \in Nat /\ feesOwedTotal[s] \in Nat
          /\ balance[s] >= trackedTotal[s] + feesOwedTotal[s]
      BY <1>0 DEF LedgerTypeOK, Solvent
    <3> QED
      BY <1>0, <1>1, <1>8, <3>1
  <2> QED
    BY <2>1 DEF Solvent
<1> QED
  BY <1>10, <1>11 DEF Books

LEMMA BooksDirectTransfer ==
  ASSUME Books, NEW t \in Tokens, NEW amount \in Amounts, DirectTransfer(t, amount), now' = now
  PROVE  Books'
<1>0. /\ LedgerTypeOK /\ Solvent /\ TotalsAreSums
      /\ balance \in [Tokens -> Nat] /\ amount \in Nat
  BY VaultLedgerAssumption DEF Books, LedgerTypeOK
<1>1. /\ balance' = [balance EXCEPT ![t] = @ + amount]
      /\ UNCHANGED <<deposits, bucketDeposits, bucketCursor, bucketTotal, trackedTotal,
                     constraintDeposit, feesOwed, feesOwedTotal>>
  BY DEF DirectTransfer
<1>2. balance' \in [Tokens -> Nat]
  BY <1>0, <1>1
<1>3. LedgerTypeOK' /\ TotalsAreSums'
  BY <1>0, <1>1, <1>2 DEF LedgerTypeOK, TotalsAreSums
<1>4. Solvent'
  <2>1. ASSUME NEW s \in Tokens
        PROVE  balance'[s] >= trackedTotal'[s] + feesOwedTotal'[s]
    <3>1. /\ balance[s] \in Nat /\ trackedTotal[s] \in Nat /\ feesOwedTotal[s] \in Nat
          /\ balance[s] >= trackedTotal[s] + feesOwedTotal[s]
      BY <1>0 DEF LedgerTypeOK, Solvent
    <3>2. balance'[s] = IF s = t THEN balance[s] + amount ELSE balance[s]
      BY <1>0, <1>1
    <3> QED
      BY <1>0, <1>1, <3>1, <3>2
  <2> QED
    BY <2>1 DEF Solvent
<1> QED
  BY <1>3, <1>4 DEF Books

-----------------------------------------------------------------------------
(* The buckets *)

\* Consuming records keeps an index, also with the cursor moved over consumed ones.
LEMMA IndexesConsumed ==
  ASSUME NEW ds \in Seq(Deposit), NEW S, NEW es, es = Consumed(ds, S), NEW b,
         NEW ids \in Seq(Nat), NEW cursor \in Nat, Indexes(ids, cursor, ds, b),
         NEW next \in Nat, next <= Len(ids),
         \A k \in 1..next : k <= cursor \/ ds[ids[k]].consumed \/ ids[k] \in S
  PROVE  Indexes(ids, next, es, b)
<1>1. /\ Len(es) = Len(ds) /\ Len(ds) \in Nat /\ Len(ids) \in Nat
      /\ \A i \in 1..Len(ds) : /\ es[i].consumed <=> (ds[i].consumed \/ i \in S)
                               /\ BucketOf(es[i]) = BucketOf(ds[i])
  BY Records, ConsumeRecords, LenProperties
<1>2. /\ \A k \in 1..Len(ids) : ids[k] \in 1..Len(ds) /\ BucketOf(ds[ids[k]]) = b
      /\ \A k, m \in 1..Len(ids) : k < m => ids[k] < ids[m]
      /\ \A i \in 1..Len(ds) : BucketOf(ds[i]) = b => \E k \in 1..Len(ids) : ids[k] = i
      /\ \A k \in 1..cursor : ds[ids[k]].consumed
  BY DEF Indexes
<1>3. \A k \in 1..next : es[ids[k]].consumed
  <2> SUFFICES ASSUME NEW k \in 1..next PROVE es[ids[k]].consumed
    OBVIOUS
  <2>1. k \in 1..Len(ids) /\ ids[k] \in 1..Len(ds)
    BY <1>1, <1>2
  <2>2. ds[ids[k]].consumed \/ ids[k] \in S
    BY <1>2
  <2> QED
    BY <1>1, <2>1, <2>2
<1> QED
  BY <1>1, <1>2, <1>3 DEF Indexes

\* Appending a record keeps every index; the record's own bucket lists it.
LEMMA IndexesAppended ==
  ASSUME NEW ds \in Seq(Deposit), NEW d \in Deposit, NEW b,
         NEW ids \in Seq(Nat), NEW cursor \in Nat, Indexes(ids, cursor, ds, b),
         NEW es, es = Append(ds, d),
         NEW jds, jds = IF BucketOf(d) = b THEN Append(ids, Len(ds) + 1) ELSE ids
  PROVE  Indexes(jds, cursor, es, b)
<1> DEFINE n == Len(ds)
           m == Len(ids)
<1>1. /\ n \in Nat /\ m \in Nat /\ Len(es) = n + 1
      /\ \A i \in 1..n : es[i] = ds[i]
      /\ es[n + 1] = d
  BY LenProperties, AppendProperties
<1>2. /\ \A k \in 1..m : ids[k] \in 1..n /\ BucketOf(ds[ids[k]]) = b
      /\ \A k, l \in 1..m : k < l => ids[k] < ids[l]
      /\ \A i \in 1..n : BucketOf(ds[i]) = b => \E k \in 1..m : ids[k] = i
      /\ cursor <= m
      /\ \A k \in 1..cursor : ds[ids[k]].consumed
  BY DEF Indexes
<1> HIDE DEF n, m
<1>3. CASE BucketOf(d) # b
  <2>1. jds = ids
    BY <1>3
  <2>2. \A k \in 1..m : ids[k] \in 1..(n + 1) /\ es[ids[k]] = ds[ids[k]]
    BY <1>1, <1>2
  <2>3. \A i \in 1..(n + 1) : BucketOf(es[i]) = b => i \in 1..n /\ es[i] = ds[i]
    BY <1>1, <1>3
  <2>4. \A k \in 1..cursor : k \in 1..m
    BY <1>1, <1>2
  <2>5. \A i \in 1..(n + 1) : BucketOf(es[i]) = b => \E k \in 1..m : ids[k] = i
    BY <1>2, <2>3
  <2> QED
    BY <1>1, <1>2, <2>1, <2>2, <2>4, <2>5 DEF Indexes, n, m
<1>4. CASE BucketOf(d) = b
  <2>1. n + 1 \in Nat /\ jds = Append(ids, n + 1)
    BY <1>1, <1>4 DEF n
  <2>2. /\ jds \in Seq(Nat) /\ Len(jds) = m + 1
        /\ \A k \in 1..m : jds[k] = ids[k]
        /\ jds[m + 1] = n + 1
    BY <2>1, AppendProperties DEF m
  <2>3. ASSUME NEW k \in 1..(m + 1)
        PROVE  jds[k] \in 1..(n + 1) /\ BucketOf(es[jds[k]]) = b
    <3>1. CASE k = m + 1
      BY <1>1, <1>4, <2>2, <3>1
    <3>2. CASE k # m + 1
      <4>1. k \in 1..m
        BY <1>1, <3>2
      <4> QED
        BY <1>1, <1>2, <2>2, <4>1
    <3> QED
      BY <3>1, <3>2
  <2>4. ASSUME NEW k \in 1..(m + 1), NEW l \in 1..(m + 1), k < l
        PROVE  jds[k] < jds[l]
    <3>1. k \in 1..m /\ jds[k] = ids[k] /\ ids[k] \in 1..n
      BY <1>1, <1>2, <2>2, <2>4
    <3>2. CASE l = m + 1
      BY <1>1, <2>2, <3>1, <3>2
    <3>3. CASE l # m + 1
      <4>1. l \in 1..m
        BY <1>1, <3>3
      <4> QED
        BY <1>2, <2>2, <2>4, <3>1, <4>1
    <3> QED
      BY <3>2, <3>3
  <2>5. ASSUME NEW i \in 1..(n + 1), BucketOf(es[i]) = b
        PROVE  \E k \in 1..(m + 1) : jds[k] = i
    <3>1. CASE i = n + 1
      BY <1>1, <2>2, <3>1
    <3>2. CASE i # n + 1
      <4>1. i \in 1..n /\ BucketOf(ds[i]) = b
        BY <1>1, <2>5, <3>2
      <4>2. PICK k \in 1..m : ids[k] = i
        BY <1>2, <4>1
      <4> QED
        BY <1>1, <2>2, <4>2
    <3> QED
      BY <3>1, <3>2
  <2>6. cursor <= m + 1 /\ \A k \in 1..cursor : es[jds[k]].consumed
    <3>1. \A k \in 1..cursor : k \in 1..m /\ jds[k] = ids[k] /\ ids[k] \in 1..n
      BY <1>1, <1>2, <2>2
    <3>2. \A k \in 1..cursor : es[jds[k]] = ds[ids[k]]
      BY <1>1, <3>1
    <3>3. \A k \in 1..cursor : es[jds[k]].consumed
      BY <1>2, <3>2
    <3>4. cursor <= m + 1
      BY <1>1, <1>2
    <3> QED
      BY <3>3, <3>4
  <2> QED
    BY <1>1, <2>2, <2>3, <2>4, <2>5, <2>6 DEF Indexes
<1> QED
  BY <1>3, <1>4

\* The page at a bucket's cursor is claimable, and ends within the bucket.
LEMMA PageClaimable ==
  ASSUME LedgerTypeOK, BucketsIndexDeposits, NEW b \in Buckets, NEW limit \in Nat
  PROVE  /\ Claimable(deposits, b, PageIds(b, limit))
         /\ PageEnd(b, limit) \in Nat
         /\ PageEnd(b, limit) <= Len(bucketDeposits[b])
         /\ bucketCursor[b] <= PageEnd(b, limit)
<1> DEFINE ids == bucketDeposits[b]
<1>1. ids \in Seq(Nat) /\ bucketCursor[b] \in Nat /\ deposits \in Seq(Deposit)
  BY DEF LedgerTypeOK
<1>2. Len(ids) \in Nat /\ Indexes(ids, bucketCursor[b], deposits, b)
  BY <1>1, LenProperties DEF BucketsIndexDeposits
<1>3. Page(limit) \in Nat
  BY VaultLedgerAssumption DEF Page
<1>4. bucketCursor[b] <= Len(ids)
  BY <1>2 DEF Indexes
<1> HIDE DEF ids
<1>5. PageEnd(b, limit) \in Nat /\ PageEnd(b, limit) <= Len(ids) /\ bucketCursor[b] <= PageEnd(b, limit)
  BY <1>1, <1>2, <1>3, <1>4 DEF PageEnd, ids
<1>6. ASSUME NEW i \in PageIds(b, limit)
      PROVE  i \in 1..Len(deposits) /\ BucketOf(deposits[i]) = b /\ ~ deposits[i].consumed
  <2>1. PICK k \in (bucketCursor[b] + 1)..PageEnd(b, limit) : ids[k] = i
    BY <1>6 DEF PageIds, ids
  <2>2. k \in 1..Len(ids)
    BY <1>1, <1>2, <1>5
  <2>3. i \in 1..Len(deposits) /\ BucketOf(deposits[i]) = b
    BY <1>2, <2>1, <2>2 DEF Indexes
  <2> QED
    BY <1>6, <2>3 DEF PageIds
<1>7. Claimable(deposits, b, PageIds(b, limit))
  BY <1>6 DEF Claimable
<1> QED
  BY <1>5, <1>7 DEF ids

\* Consuming records, with no cursor moved but to the end of a page that is consumed.
LEMMA BucketsConsume ==
  ASSUME LedgerTypeOK, BucketsIndexDeposits, NEW S, NEW b, Consume(b, S),
         UNCHANGED bucketDeposits, bucketCursor' \in [Buckets -> Nat],
         \A c \in Buckets :
           /\ bucketCursor'[c] <= Len(bucketDeposits[c])
           /\ \A k \in 1..bucketCursor'[c] :
                \/ k <= bucketCursor[c]
                \/ deposits[bucketDeposits[c][k]].consumed
                \/ bucketDeposits[c][k] \in S
  PROVE  BucketsIndexDeposits'
<1>1. deposits \in Seq(Deposit) /\ deposits' = Consumed(deposits, S)
  BY DEF LedgerTypeOK, Consume, Consumed, Ids
<1>2. ASSUME NEW c \in Buckets
      PROVE  Indexes(bucketDeposits'[c], bucketCursor'[c], deposits', c)
  <2>1. /\ bucketDeposits[c] \in Seq(Nat) /\ bucketCursor[c] \in Nat /\ bucketCursor'[c] \in Nat
        /\ Indexes(bucketDeposits[c], bucketCursor[c], deposits, c)
    BY DEF LedgerTypeOK, BucketsIndexDeposits
  <2>2. /\ bucketCursor'[c] <= Len(bucketDeposits[c])
        /\ \A k \in 1..bucketCursor'[c] :
             k <= bucketCursor[c] \/ deposits[bucketDeposits[c][k]].consumed
               \/ bucketDeposits[c][k] \in S
    OBVIOUS
  <2> QED
    BY <1>1, <2>1, <2>2, IndexesConsumed
<1> QED
  BY <1>2 DEF BucketsIndexDeposits

\* A claim or refund that moves no cursor.
LEMMA BucketsConsumeOnly ==
  ASSUME LedgerTypeOK, BucketsIndexDeposits, NEW S, NEW b, Consume(b, S),
         UNCHANGED <<bucketDeposits, bucketCursor>>
  PROVE  BucketsIndexDeposits'
<1>1. bucketCursor' \in [Buckets -> Nat]
  BY DEF LedgerTypeOK
<1>2. \A c \in Buckets :
           /\ bucketCursor'[c] <= Len(bucketDeposits[c])
           /\ \A k \in 1..bucketCursor'[c] :
                \/ k <= bucketCursor[c]
                \/ deposits[bucketDeposits[c][k]].consumed
                \/ bucketDeposits[c][k] \in S
  <2> SUFFICES ASSUME NEW c \in Buckets
               PROVE  /\ bucketCursor[c] <= Len(bucketDeposits[c])
                      /\ \A k \in 1..bucketCursor[c] : k <= bucketCursor[c]
    OBVIOUS
  <2>1. bucketCursor[c] \in Nat /\ bucketCursor[c] <= Len(bucketDeposits[c])
    BY DEF LedgerTypeOK, BucketsIndexDeposits, Indexes
  <2> QED
    BY <2>1
<1> QED
  BY <1>1, <1>2, BucketsConsume

LEMMA BucketsSweepPage ==
  ASSUME LedgerTypeOK, BucketsIndexDeposits, NEW b \in Buckets, NEW limit \in Nat,
         NEW q, NEW paysUntracked, SweepPage(b, limit, q, paysUntracked)
  PROVE  BucketsIndexDeposits'
<1> DEFINE S == PageIds(b, limit)
           end == PageEnd(b, limit)
<1>1. /\ Consume(b, S)
      /\ UNCHANGED bucketDeposits
      /\ bucketCursor' = [bucketCursor EXCEPT ![b] = end]
  BY DEF SweepPage
<1>2. end \in Nat /\ end <= Len(bucketDeposits[b]) /\ bucketCursor \in [Buckets -> Nat]
  BY PageClaimable DEF LedgerTypeOK
<1>3. \A c \in Buckets : Indexes(bucketDeposits[c], bucketCursor[c], deposits, c)
  BY DEF BucketsIndexDeposits
<1>4. ASSUME NEW k \in 1..end
      PROVE  \/ k <= bucketCursor[b]
             \/ deposits[bucketDeposits[b][k]].consumed
             \/ bucketDeposits[b][k] \in S
  <2>1. k \in 1..Len(bucketDeposits[b]) /\ bucketCursor[b] \in Nat
    BY <1>2, LenProperties DEF LedgerTypeOK
  <2>2. bucketDeposits[b][k] \in Ids
    BY <1>3, <2>1 DEF Indexes, Ids
  <2>3. k <= bucketCursor[b] \/ k \in (bucketCursor[b] + 1)..end
    BY <1>2, <2>1
  <2> QED
    BY <2>2, <2>3 DEF PageIds
<1> HIDE DEF S, end
<1>5. bucketCursor' \in [Buckets -> Nat]
  BY <1>1, <1>2
<1>6. ASSUME NEW c \in Buckets
      PROVE  /\ bucketCursor'[c] <= Len(bucketDeposits[c])
             /\ \A k \in 1..bucketCursor'[c] :
                  \/ k <= bucketCursor[c]
                  \/ deposits[bucketDeposits[c][k]].consumed
                  \/ bucketDeposits[c][k] \in S
  <2>1. CASE c = b
    BY <1>1, <1>2, <1>4, <2>1
  <2>2. CASE c # b
    <3>1. bucketCursor'[c] = bucketCursor[c] /\ bucketCursor[c] \in Nat
      BY <1>1, <1>2, <2>2
    <3>2. bucketCursor[c] <= Len(bucketDeposits[c])
      BY <1>3 DEF Indexes
    <3> QED
      BY <3>1, <3>2
  <2> QED
    BY <2>1, <2>2
<1> QED
  BY <1>1, <1>5, <1>6, BucketsConsume

LEMMA BucketsFund ==
  ASSUME LedgerTypeOK, LedgerTypeOK', BucketsIndexDeposits,
         NEW funder, NEW v \in Verifiers, NEW c \in Constraints, NEW t \in Tokens, NEW amount,
         NEW credited, NEW window, NEW q, Fund(funder, v, c, t, amount, credited, window, q)
  PROVE  BucketsIndexDeposits'
<1> DEFINE n == Len(deposits)
           d == deposits'[n + 1]
           b == <<v, c, t>>
           rec == [funder |-> funder, fundedAt |-> now, consumed |-> FALSE, token |-> t,
                   refundWindow |-> window, verifier |-> v, feeBps |-> QuoteFeeBps(q),
                   amount |-> credited, constraint |-> c]
<1>1. /\ deposits' = Append(deposits, rec)
      /\ bucketDeposits' = [bucketDeposits EXCEPT ![b] = Append(@, n + 1)]
      /\ bucketCursor' = bucketCursor
  BY DEF Fund
<1>2. deposits \in Seq(Deposit) /\ deposits' \in Seq(Deposit) /\ n \in Nat
  BY LenProperties DEF LedgerTypeOK
<1>3. Len(deposits') = n + 1 /\ d = rec
  BY <1>1, <1>2, AppendProperties
<1>4. d \in Deposit /\ BucketOf(d) = b /\ b \in Buckets
  <2>1. n + 1 \in 1..(n + 1)
    BY <1>2
  <2>2. d \in Deposit
    BY <1>2, <1>3, <2>1, Records
  <2> QED
    BY <1>3, <2>2 DEF BucketOf, Buckets
<1>5. deposits' = Append(deposits, d)
  BY <1>1, <1>3
<1> HIDE DEF d, rec, b
<1>6. ASSUME NEW e \in Buckets
      PROVE  Indexes(bucketDeposits'[e], bucketCursor'[e], deposits', e)
  <2>1. /\ bucketDeposits[e] \in Seq(Nat) /\ bucketCursor[e] \in Nat
        /\ Indexes(bucketDeposits[e], bucketCursor[e], deposits, e)
    BY DEF LedgerTypeOK, BucketsIndexDeposits
  <2>2. bucketDeposits \in [Buckets -> Seq(Nat)]
    BY DEF LedgerTypeOK
  <2>3. bucketDeposits'[e] = IF BucketOf(d) = e THEN Append(bucketDeposits[e], n + 1)
                             ELSE bucketDeposits[e]
    BY <1>1, <1>4, <2>2
  <2>4. Indexes(bucketDeposits'[e], bucketCursor[e], deposits', e)
    BY <1>2, <1>4, <1>5, <2>1, <2>3, IndexesAppended
  <2> QED
    BY <1>1, <2>4
<1> QED
  BY <1>6 DEF BucketsIndexDeposits

-----------------------------------------------------------------------------
(* Constraints *)

LEMMA ConstraintConsume ==
  ASSUME LedgerTypeOK, ConstraintUsedOnce, NEW b, NEW S, Consume(b, S),
         UNCHANGED constraintDeposit
  PROVE  ConstraintUsedOnce'
<1>1. deposits \in Seq(Deposit) /\ deposits' = Consumed(deposits, S)
  BY DEF LedgerTypeOK, Consume, Consumed, Ids
<1>2. /\ Len(deposits') = Len(deposits)
      /\ \A i \in 1..Len(deposits) : /\ deposits'[i].constraint = deposits[i].constraint
                                     /\ deposits'[i].funder = deposits[i].funder
  BY <1>1, ConsumeRecords
<1> QED
  BY <1>2 DEF ConstraintUsedOnce, Ids

LEMMA ConstraintFund ==
  ASSUME LedgerTypeOK, ConstraintUsedOnce, NEW funder \in Funders, NEW v, NEW c \in Constraints,
         NEW t, NEW amount, NEW credited, NEW window, NEW q,
         Fund(funder, v, c, t, amount, credited, window, q)
  PROVE  ConstraintUsedOnce'
<1> DEFINE n == Len(deposits)
           rec == [funder |-> funder, fundedAt |-> now, consumed |-> FALSE, token |-> t,
                   refundWindow |-> window, verifier |-> v, feeBps |-> QuoteFeeBps(q),
                   amount |-> credited, constraint |-> c]
<1>1. /\ deposits' = Append(deposits, rec)
      /\ c # NoConstraint => constraintDeposit[<<c, funder>>] = 0
      /\ constraintDeposit' = IF c = NoConstraint THEN constraintDeposit
                              ELSE [constraintDeposit EXCEPT ![<<c, funder>>] = n + 1]
  BY DEF Fund
<1>2. /\ deposits \in Seq(Deposit) /\ n \in Nat
      /\ constraintDeposit \in [Constraints \X Funders -> Nat]
      /\ \A i \in 1..n : deposits[i].constraint \in Constraints /\ deposits[i].funder \in Funders
  <2>1. deposits \in Seq(Deposit)
    BY DEF LedgerTypeOK
  <2> QED
    BY <2>1, Records DEF LedgerTypeOK, Deposit
<1> HIDE DEF rec
<1>3. /\ Len(deposits') = n + 1
      /\ \A i \in 1..n : deposits'[i] = deposits[i]
      /\ deposits'[n + 1] = rec
      /\ rec.constraint = c /\ rec.funder = funder
  <2>1. rec.constraint = c /\ rec.funder = funder
    BY DEF rec
  <2>2. deposits \in Seq(Deposit \union {rec}) /\ rec \in Deposit \union {rec}
    BY <1>2, SeqDef
  <2> QED
    BY <1>1, <2>1, <2>2, AppendProperties
<1>4. \A i \in 1..n : deposits[i].constraint = c /\ deposits[i].funder = funder => c = NoConstraint
  BY <1>1, <1>2 DEF ConstraintUsedOnce, Ids
<1>5. ASSUME NEW i \in 1..(n + 1), deposits'[i].constraint # NoConstraint
      PROVE  /\ constraintDeposit'[<<deposits'[i].constraint, deposits'[i].funder>>] = i
             /\ \A j \in 1..(n + 1) :
                  deposits'[j].constraint = deposits'[i].constraint
                    /\ deposits'[j].funder = deposits'[i].funder => j = i
  <2>1. CASE i = n + 1
    <3>1. deposits'[i].constraint = c /\ deposits'[i].funder = funder /\ c # NoConstraint
      BY <1>3, <1>5, <2>1
    <3>2. constraintDeposit'[<<c, funder>>] = n + 1
      BY <1>1, <1>2, <3>1
    <3>3. \A j \in 1..(n + 1) : j # i => j \in 1..n
      BY <1>2, <2>1
    <3>4. \A j \in 1..n : ~ (deposits'[j].constraint = c /\ deposits'[j].funder = funder)
      BY <1>3, <1>4, <3>1
    <3> QED
      BY <2>1, <3>1, <3>2, <3>3, <3>4
  <2>2. CASE i # n + 1
    <3>1. i \in 1..n /\ deposits'[i] = deposits[i]
      BY <1>2, <1>3, <2>2
    <3> DEFINE ci == deposits[i].constraint
               fi == deposits[i].funder
    <3>2. ci # NoConstraint /\ ci \in Constraints /\ fi \in Funders
      BY <1>2, <1>5, <3>1
    <3>3. constraintDeposit[<<ci, fi>>] = i
      BY <3>1, <3>2 DEF ConstraintUsedOnce, Ids
    <3>4. ~ (ci = c /\ fi = funder)
      BY <1>4, <3>1, <3>2
    <3>5. constraintDeposit'[<<ci, fi>>] = i
      BY <1>1, <1>2, <3>2, <3>3, <3>4
    <3>6. \A j \in 1..n : deposits[j].constraint = ci /\ deposits[j].funder = fi => j = i
      BY <3>1, <3>2 DEF ConstraintUsedOnce, Ids
    <3>7. \A j \in 1..(n + 1) : deposits'[j].constraint = ci /\ deposits'[j].funder = fi => j = i
      <4> SUFFICES ASSUME NEW j \in 1..(n + 1), deposits'[j].constraint = ci,
                          deposits'[j].funder = fi
                   PROVE  j = i
        OBVIOUS
      <4>1. CASE j = n + 1
        BY <1>3, <3>4, <4>1
      <4>2. CASE j # n + 1
        <5>1. j \in 1..n
          BY <1>2, <4>2
        <5> QED
          BY <1>3, <3>6, <5>1
      <4> QED
        BY <4>1, <4>2
    <3> QED
      BY <3>1, <3>5, <3>7
  <2> QED
    BY <2>1, <2>2
<1> QED
  BY <1>3, <1>5 DEF ConstraintUsedOnce, Ids

-----------------------------------------------------------------------------
(* The invariant and the theorems *)

LedgerInv == Books /\ BucketsIndexDeposits /\ ConstraintUsedOnce

LEMMA LedgerInvInit == LedgerStart => LedgerInv
<1> SUFFICES ASSUME LedgerStart PROVE BucketsIndexDeposits /\ ConstraintUsedOnce
  BY BooksInit DEF LedgerInv
<1>1. /\ deposits = <<>> /\ Len(deposits) = 0
      /\ \A b \in Buckets : bucketDeposits[b] = <<>> /\ bucketCursor[b] = 0
  BY DEF LedgerStart, LedgerInit
<1> QED
  BY <1>1 DEF BucketsIndexDeposits, Indexes, ConstraintUsedOnce, Ids

LEMMA LedgerInvNext == LedgerInv /\ [LedgerNext]_<<now, ledgerVars>> => LedgerInv'
<1> SUFFICES ASSUME LedgerInv, [LedgerNext]_<<now, ledgerVars>>
             PROVE  LedgerInv'
  OBVIOUS
<1>0. Books /\ LedgerTypeOK /\ BucketsIndexDeposits /\ ConstraintUsedOnce
  BY DEF LedgerInv, Books
<1>1. CASE LedgerFund /\ now' = now
  <2>1. PICK funder \in Funders, v \in Verifiers, c \in Constraints, t \in Tokens,
             amount \in Amounts, credited \in Amounts, window \in Windows,
             q \in Quotes \union {NoAnswer} : Fund(funder, v, c, t, amount, credited, window, q)
    BY <1>1 DEF LedgerFund
  <2>2. Books' /\ LedgerTypeOK'
    BY <1>0, <1>1, <2>1, BooksFund DEF Books
  <2>3. BucketsIndexDeposits'
    BY <1>0, <2>1, <2>2, BucketsFund
  <2>4. ConstraintUsedOnce'
    BY <1>0, <2>1, ConstraintFund
  <2> QED
    BY <2>2, <2>3, <2>4 DEF LedgerInv
<1>2. CASE LedgerRefund /\ now' = now
  <2>1. PICK i \in Ids : Refund(i)
    BY <1>2 DEF LedgerRefund
  <2>2. Books'
    BY <1>0, <1>2, <2>1, BooksRefund
  <2>3. /\ Consume(BucketOf(deposits[i]), {i})
        /\ UNCHANGED <<bucketDeposits, bucketCursor, constraintDeposit>>
    BY <2>1 DEF Refund
  <2>4. BucketsIndexDeposits' /\ ConstraintUsedOnce'
    BY <1>0, <2>3, BucketsConsumeOnly, ConstraintConsume
  <2> QED
    BY <2>2, <2>4 DEF LedgerInv
<1>3. CASE LedgerSweepPage /\ now' = now
  <2>1. PICK b \in Buckets, limit \in 0..(MAX_SWEEP_PAGE + 1), q \in Quotes \union {NoAnswer},
             paysUntracked \in BOOLEAN : SweepPage(b, limit, q, paysUntracked)
    BY <1>3 DEF LedgerSweepPage
  <2>2. limit \in Nat
    OBVIOUS
  <2>3. Claimable(deposits, b, PageIds(b, limit)) /\ PageEnd(b, limit) \in Nat
    BY <1>0, <2>2, PageClaimable
  <2>4. Books'
    BY <1>0, <1>3, <2>1, <2>2, <2>3, BooksSweepPage
  <2>5. BucketsIndexDeposits'
    BY <1>0, <2>1, <2>2, BucketsSweepPage
  <2>6. Consume(b, PageIds(b, limit)) /\ UNCHANGED constraintDeposit
    BY <2>1 DEF SweepPage
  <2>7. ConstraintUsedOnce'
    BY <1>0, <2>6, ConstraintConsume
  <2> QED
    BY <2>4, <2>5, <2>7 DEF LedgerInv
<1>4. CASE LedgerSweepIds /\ now' = now
  <2>1. PICK b \in Buckets, S \in SUBSET Ids : SweepIds(b, S)
    BY <1>4 DEF LedgerSweepIds
  <2>2. Books'
    BY <1>0, <1>4, <2>1, BooksSweepIds
  <2>3. Consume(b, S) /\ UNCHANGED <<bucketDeposits, bucketCursor, constraintDeposit>>
    BY <2>1 DEF SweepIds
  <2>4. BucketsIndexDeposits' /\ ConstraintUsedOnce'
    BY <1>0, <2>3, BucketsConsumeOnly, ConstraintConsume
  <2> QED
    BY <2>2, <2>4 DEF LedgerInv
<1>5. CASE LedgerSweepUntracked /\ now' = now
  <2>1. PICK v \in Verifiers, t \in Tokens, q \in Quotes \union {NoAnswer} :
               SweepUntracked(v, t, q)
    BY <1>5 DEF LedgerSweepUntracked
  <2>2. Books'
    BY <1>0, <1>5, <2>1, BooksSweepUntracked
  <2>3. BucketsIndexDeposits' /\ ConstraintUsedOnce'
    BY <1>0, <2>1 DEF SweepUntracked, BucketsIndexDeposits, ConstraintUsedOnce, Ids
  <2> QED
    BY <2>2, <2>3 DEF LedgerInv
<1>6. CASE LedgerWithdrawFees /\ now' = now
  <2>1. PICK v \in Verifiers, t \in Tokens :
               \E taken \in 0..feesOwed[<<v, t>>] : WithdrawFees(v, t, taken)
    BY <1>6 DEF LedgerWithdrawFees
  <2>2. PICK taken \in 0..feesOwed[<<v, t>>] : WithdrawFees(v, t, taken)
    BY <2>1
  <2>3. Books'
    BY <1>0, <1>6, <2>2, BooksWithdrawFees
  <2>4. BucketsIndexDeposits' /\ ConstraintUsedOnce'
    BY <1>0, <2>2 DEF WithdrawFees, BucketsIndexDeposits, ConstraintUsedOnce, Ids
  <2> QED
    BY <2>3, <2>4 DEF LedgerInv
<1>7. CASE LedgerDirectTransfer /\ now' = now
  <2>1. PICK t \in Tokens, amount \in Amounts : DirectTransfer(t, amount)
    BY <1>7 DEF LedgerDirectTransfer
  <2>2. Books'
    BY <1>0, <1>7, <2>1, BooksDirectTransfer
  <2>3. BucketsIndexDeposits' /\ ConstraintUsedOnce'
    BY <1>0, <2>1 DEF DirectTransfer, BucketsIndexDeposits, ConstraintUsedOnce, Ids
  <2> QED
    BY <2>2, <2>3 DEF LedgerInv
<1>8. CASE UNCHANGED ledgerVars /\ now' \in Nat
  BY <1>0, <1>8
     DEF LedgerInv, Books, LedgerTypeOK, TotalsAreSums, Solvent, BucketsIndexDeposits,
         ConstraintUsedOnce, Ids, ledgerVars
<1>9. now \in Nat /\ (ClockTick => now' \in Nat)
  BY <1>0 DEF LedgerTypeOK, ClockTick
<1> QED
  BY <1>1, <1>2, <1>3, <1>4, <1>5, <1>6, <1>7, <1>8, <1>9
     DEF LedgerNext, LedgerCall, LedgerTick

\* The inductive invariant holds in every reachable state of the ledger.
THEOREM LedgerInvariant == LedgerSpec => []LedgerInv
<1> QED
  BY LedgerInvInit, LedgerInvNext, PTL DEF LedgerSpec

\* No total, fee account or balance ever underflows, and no record outgrows its fields.
THEOREM LedgerTypeCorrect == LedgerSpec => []LedgerTypeOK
<1>1. LedgerInv => LedgerTypeOK
  BY DEF LedgerInv, Books
<1> QED
  BY <1>1, LedgerInvariant, PTL

\* The running totals always equal the sums of the records they stand for.
THEOREM LedgerTotalsCorrect == LedgerSpec => []TotalsAreSums
<1>1. LedgerInv => TotalsAreSums
  BY DEF LedgerInv, Books
<1> QED
  BY <1>1, LedgerInvariant, PTL

\* The vault always holds every unconsumed deposit and every undistributed fee.
THEOREM LedgerSolvent == LedgerSpec => []Solvent
<1>1. LedgerInv => Solvent
  BY DEF LedgerInv, Books
<1> QED
  BY <1>1, LedgerInvariant, PTL

\* Every bucket lists its deposits, all of them, and its cursor passes only consumed ones.
THEOREM LedgerBucketsIndexed == LedgerSpec => []BucketsIndexDeposits
<1>1. LedgerInv => BucketsIndexDeposits
  BY DEF LedgerInv
<1> QED
  BY <1>1, LedgerInvariant, PTL

\* A (constraint, funder) pair is used by at most one deposit, ever.
THEOREM LedgerConstraintsOnce == LedgerSpec => []ConstraintUsedOnce
<1>1. LedgerInv => ConstraintUsedOnce
  BY DEF LedgerInv
<1> QED
  BY <1>1, LedgerInvariant, PTL
\* What one open record holds is part of the totals of its token and of its bucket.
LEMMA OpenWithinTotals ==
  ASSUME LedgerTypeOK, TotalsAreSums, NEW i \in Ids, ~ deposits[i].consumed
  PROVE  /\ deposits[i].amount <= trackedTotal[deposits[i].token]
         /\ deposits[i].amount <= bucketTotal[BucketOf(deposits[i])]
<1> DEFINE n == Len(deposits)
           d == deposits[i]
           u == OpenOfToken(deposits, d.token)
           x == OpenOfBucket(deposits, BucketOf(d))
<1>1. /\ n \in Nat /\ d \in Deposit /\ i \in 1..n
      /\ u \in [1..n -> Nat] /\ x \in [1..n -> Nat]
  BY Records DEF LedgerTypeOK, Ids
<1>2. d.token \in Tokens /\ BucketOf(d) \in Buckets
  BY <1>1 DEF Deposit, BucketOf, Buckets
<1>3. u[i] = d.amount /\ x[i] = d.amount
  BY <1>1 DEF OpenOfToken, OpenOfBucket
<1>4. trackedTotal[d.token] = Total(u, n) /\ bucketTotal[BucketOf(d)] = Total(x, n)
  BY <1>2 DEF TotalsAreSums
<1>5. Weights(u, n) /\ Weights(x, n)
  BY <1>1 DEF Weights
<1> HIDE DEF n, d, u, x
<1>6. u[i] <= Total(u, n) /\ x[i] <= Total(x, n)
  BY <1>1, <1>5, TotalUpdate
<1> QED
  BY <1>3, <1>4, <1>6 DEF d

\* Every deposit not paid yet can be given back whole.
THEOREM LedgerRefundsOpen == LedgerSpec => []RefundAlwaysOpen
<1>1. LedgerInv => RefundAlwaysOpen
  <2> SUFFICES ASSUME LedgerInv, NEW i \in Ids, ~ deposits[i].consumed
               PROVE  /\ deposits[i].amount <= trackedTotal[deposits[i].token]
                      /\ deposits[i].amount <= bucketTotal[BucketOf(deposits[i])]
                      /\ deposits[i].amount <= balance[deposits[i].token]
    BY DEF RefundAlwaysOpen
  <2> DEFINE a == deposits[i].amount
             t == deposits[i].token
  <2>1. LedgerTypeOK /\ TotalsAreSums /\ Solvent
    BY DEF LedgerInv, Books
  <2>2. a <= trackedTotal[t] /\ a <= bucketTotal[BucketOf(deposits[i])]
    BY <2>1, OpenWithinTotals
  <2>3. a \in Nat /\ t \in Tokens
    BY <2>1, Records DEF LedgerTypeOK, Ids, Deposit
  <2>4. /\ balance[t] \in Nat /\ trackedTotal[t] \in Nat /\ feesOwedTotal[t] \in Nat
        /\ balance[t] >= trackedTotal[t] + feesOwedTotal[t]
    BY <2>1, <2>3 DEF LedgerTypeOK, Solvent
  <2> QED
    BY <2>2, <2>3, <2>4
<1> QED
  BY <1>1, LedgerInvariant, PTL

-----------------------------------------------------------------------------
(* The ledger implements the escrow *)

\* The escrow's entries, as records of the ledger show them.
EntriesOf(ds) ==
  [i \in 1..Len(ds) |-> [token |-> ds[i].token, amount |-> ds[i].amount,
                         held |-> ~ ds[i].consumed]]

LEMMA EntriesRecorded ==
  ASSUME NEW ds \in Seq(Deposit)
  PROVE  /\ EntriesOf(ds) \in Seq([token: Tokens, amount: Nat, held: BOOLEAN])
         /\ Len(EntriesOf(ds)) = Len(ds)
         /\ \A i \in 1..Len(ds) : /\ EntriesOf(ds)[i].token = ds[i].token
                                  /\ EntriesOf(ds)[i].amount = ds[i].amount
                                  /\ EntriesOf(ds)[i].held = ~ ds[i].consumed
<1> DEFINE n == Len(ds)
           Entry == [token: Tokens, amount: Nat, held: BOOLEAN]
<1>1. n \in Nat /\ \A i \in 1..n : ds[i] \in Deposit /\ ds[i].amount \in Nat
  BY Records
<1>2. EntriesOf(ds) \in [1..n -> Entry]
  BY <1>1 DEF EntriesOf, Deposit
<1>3. EntriesOf(ds) \in Seq(Entry)
  <2> HIDE DEF n, Entry
  <2> QED
    BY <1>1, <1>2, SeqDef
<1>4. DOMAIN EntriesOf(ds) = 1..n /\ DOMAIN EntriesOf(ds) = 1..Len(EntriesOf(ds))
  BY <1>2, <1>3, LenProperties
<1>5. Len(EntriesOf(ds)) = n
  BY <1>1, <1>3, <1>4, LenProperties
<1> QED
  BY <1>3, <1>5 DEF EntriesOf

\* The state of the escrow is the ledger's: held is what is tracked, a claim of S is
\* worth Gross(S), and all that is not held or owed is surplus.
LEMMA EscrowReads ==
  ASSUME LedgerTypeOK, TotalsAreSums, Solvent
  PROVE  /\ \A t \in Tokens : Escrow!Held(t) = trackedTotal[t]
         /\ \A S : Escrow!AmountOf(S) = Gross(S)
         /\ \A t \in Tokens : Escrow!Surplus(t) = UntrackedBalance(t)
<1> DEFINE E == [i \in Ids |-> [token |-> deposits[i].token, amount |-> deposits[i].amount,
                               held |-> ~ deposits[i].consumed]]
           n == Len(deposits)
           held(t) == [i \in 1..Len(E) |-> IF E[i].held /\ E[i].token = t THEN E[i].amount ELSE 0]
           taken(S) == [i \in 1..Len(E) |-> IF i \in S THEN E[i].amount ELSE 0]
<1>1. E = EntriesOf(deposits)
  BY DEF EntriesOf, Ids
<1>2. \A w, m : Escrow!Total(w, m) = Total(w, m)
  BY DEF Escrow!Total, Escrow!PartialSums, Total, PartialSums
<1>3. \A t : Escrow!Held(t) = Escrow!Total(held(t), Len(E)) /\ Escrow!Surplus(t) = balance[t] - Escrow!Held(t) - feesOwedTotal[t]
  BY Zenon DEF Escrow!Held, Escrow!Surplus
<1>4. \A S : Escrow!AmountOf(S) = Escrow!Total(taken(S), Len(E))
  BY Zenon DEF Escrow!AmountOf
<1> HIDE DEF E
<1>5. /\ Len(E) = n
      /\ \A i \in 1..n : /\ E[i].token = deposits[i].token
                         /\ E[i].amount = deposits[i].amount
                         /\ E[i].held = ~ deposits[i].consumed
  BY <1>1, EntriesRecorded DEF LedgerTypeOK
<1>6. ASSUME NEW t \in Tokens
      PROVE  Escrow!Held(t) = trackedTotal[t]
  <2>1. held(t) = OpenOfToken(deposits, t)
    BY <1>5 DEF OpenOfToken
  <2> QED
    BY <1>2, <1>3, <1>5, <2>1 DEF TotalsAreSums
<1>7. ASSUME NEW S
      PROVE  Escrow!AmountOf(S) = Gross(S)
  <2>1. taken(S) = AmountIn(deposits, S)
    BY <1>5 DEF AmountIn
  <2> QED
    BY <1>2, <1>4, <1>5, <2>1 DEF Gross
<1>8. ASSUME NEW t \in Tokens
      PROVE  Escrow!Surplus(t) = UntrackedBalance(t)
  <2>1. /\ balance[t] \in Nat /\ trackedTotal[t] \in Nat /\ feesOwedTotal[t] \in Nat
        /\ balance[t] >= trackedTotal[t] + feesOwedTotal[t]
    BY DEF LedgerTypeOK, Solvent
  <2>2. Escrow!Surplus(t) = balance[t] - trackedTotal[t] - feesOwedTotal[t]
    BY <1>3, <1>6
  <2> QED
    BY <2>1, <2>2 DEF UntrackedBalance
<1> QED
  BY <1>6, <1>7, <1>8
\* What releasing does to one entry.
LEMMA ReleasedEntry ==
  ASSUME NEW e, NEW t, NEW a, NEW h, e = [token |-> t, amount |-> a, held |-> h]
  PROVE  [e EXCEPT !.held = FALSE] = [token |-> t, amount |-> a, held |-> FALSE]
<1>1. [e EXCEPT !.held = FALSE] \in [token: {t}, amount: {a}, held: {FALSE}]
  OBVIOUS
<1>2. ASSUME NEW s, s \in [token: {t}, amount: {a}, held: {FALSE}]
      PROVE  s = [token |-> t, amount |-> a, held |-> FALSE]
  BY <1>2
<1> QED
  BY <1>1, <1>2

\* Consuming S releases the entries of S.
LEMMA ConsumeReleases ==
  ASSUME LedgerTypeOK, NEW S, deposits' = Consumed(deposits, S)
  PROVE  Escrow!Release(S)
<1> DEFINE n == Len(deposits)
           E == [i \in Ids |-> [token |-> deposits[i].token, amount |-> deposits[i].amount,
                               held |-> ~ deposits[i].consumed]]
           F == [i \in Ids' |-> [token |-> deposits'[i].token, amount |-> deposits'[i].amount,
                                held |-> ~ deposits'[i].consumed]]
           R == [i \in 1..Len(E) |-> IF i \in S THEN [E[i] EXCEPT !.held = FALSE] ELSE E[i]]
<1>1. /\ n \in Nat
      /\ Len(deposits') = n
      /\ \A i \in 1..n : /\ deposits'[i].token = deposits[i].token
                         /\ deposits'[i].amount = deposits[i].amount
                         /\ deposits'[i].consumed <=> (deposits[i].consumed \/ i \in S)
  BY ConsumeRecords, Records DEF LedgerTypeOK
<1>2. E = EntriesOf(deposits)
  BY DEF EntriesOf, Ids
<1>3. Len(E) = n
  <2> HIDE DEF E
  <2> QED
    BY <1>2, EntriesRecorded DEF LedgerTypeOK
<1>4. \A i \in 1..n : E[i] = [token |-> deposits[i].token, amount |-> deposits[i].amount,
                              held |-> ~ deposits[i].consumed]
  BY DEF Ids
<1>5. F = [i \in 1..n |-> [token |-> deposits[i].token, amount |-> deposits[i].amount,
                          held |-> ~ (deposits[i].consumed \/ i \in S)]]
  BY <1>1 DEF Ids
<1>6. R = [i \in 1..n |-> [token |-> deposits[i].token, amount |-> deposits[i].amount,
                          held |-> ~ (deposits[i].consumed \/ i \in S)]]
  <2> HIDE DEF E
  <2>1. R = [i \in 1..n |-> IF i \in S THEN [E[i] EXCEPT !.held = FALSE] ELSE E[i]]
    BY <1>3
  <2>2. \A i \in 1..n : (IF i \in S THEN [E[i] EXCEPT !.held = FALSE] ELSE E[i])
          = [token |-> deposits[i].token, amount |-> deposits[i].amount,
             held |-> ~ (deposits[i].consumed \/ i \in S)]
    <3> SUFFICES ASSUME NEW i \in 1..n
                 PROVE  (IF i \in S THEN [E[i] EXCEPT !.held = FALSE] ELSE E[i])
                          = [token |-> deposits[i].token, amount |-> deposits[i].amount,
                             held |-> ~ (deposits[i].consumed \/ i \in S)]
      OBVIOUS
    <3>1. CASE i \in S
      <4>1. [E[i] EXCEPT !.held = FALSE]
              = [token |-> deposits[i].token, amount |-> deposits[i].amount, held |-> FALSE]
        <5> DEFINE h == ~ deposits[i].consumed
                   t == deposits[i].token
                   a == deposits[i].amount
                   e == E[i]
        <5>1. e = [token |-> t, amount |-> a, held |-> h]
          BY <1>4
        <5> HIDE DEF t, a, h, e
        <5>2. [e EXCEPT !.held = FALSE] = [token |-> t, amount |-> a, held |-> FALSE]
          BY <5>1, ReleasedEntry
        <5> QED
          BY <5>2 DEF e, t, a
      <4>2. (~ (deposits[i].consumed \/ i \in S)) = FALSE
        BY <3>1, Zenon
      <4> QED
        BY <3>1, <4>1, <4>2, Zenon
    <3>2. CASE i \notin S
      <4>1. (~ (deposits[i].consumed \/ i \in S)) = ~ deposits[i].consumed
        BY <3>2, Zenon
      <4> QED
        BY <1>4, <3>2, <4>1, Zenon
    <3> QED
      BY <3>1, <3>2
  <2> QED
    BY <2>1, <2>2
<1>7. F = R
  BY <1>5, <1>6, Zenon
<1> QED
  BY <1>7, Zenon DEF Escrow!Release

\* A quotient is at least whatever its divisor goes into.
LEMMA QuotientAtLeast ==
  ASSUME NEW x \in Nat, NEW c \in Nat, NEW d \in Nat \ {0}, x * d <= c
  PROVE  x <= c \div d
<1> DEFINE q == c \div d
<1>1. q \in Nat /\ c < (q + 1) * d
  OBVIOUS
<1> HIDE DEF q
<1>2. x * d < (q + 1) * d
  BY <1>1
<1>3. x < q + 1
  BY <1>1, <1>2
<1> QED
  BY <1>1, <1>3 DEF q

\* The fees a claim leaves, each at a rate within the cap and rounded down, are within the
\* cap of the whole claim.
LEMMA ClaimFeeWithinCap ==
  ASSUME LedgerTypeOK, NEW S, NEW extra \in Nat, NEW y \in Nat,
         y * BPS <= extra * MAX_FEE_BPS
  PROVE  Fee(S) + y \in 0..Escrow!FeeCap(Gross(S) + extra)
<1> DEFINE n == Len(deposits)
           a == AmountIn(deposits, S)
           f == FeeIn(deposits, S)
<1>0. BPS \in Nat \ {0} /\ BPS \in Int /\ MAX_FEE_BPS \in Nat /\ MAX_FEE_BPS \in Int
  BY VaultLedgerAssumption
<1>1. /\ n \in Nat /\ a \in [1..n -> Nat] /\ f \in [1..n -> Nat]
      /\ \A i \in 1..n : deposits[i].amount \in Nat /\ deposits[i].feeBps \in 0..MAX_FEE_BPS
  BY Records DEF LedgerTypeOK, Deposit
<1>2. \A i \in 1..n : ScaledLeq(f[i], BPS, a[i], MAX_FEE_BPS)
  <2>1. ASSUME NEW i \in 1..n
        PROVE  ScaledLeq(f[i], BPS, a[i], MAX_FEE_BPS)
    <3>1. CASE i \in S
      <4>1. f[i] = FeeOf(deposits[i].amount, deposits[i].feeBps) /\ a[i] = deposits[i].amount
        BY <3>1 DEF AmountIn, FeeIn
      <4>2. deposits[i].amount \in Nat /\ deposits[i].feeBps \in 0..MAX_FEE_BPS
        BY <1>1
      <4> QED
        BY <4>1, <4>2, FeeBound DEF ScaledLeq
    <3>2. CASE i \notin S
      <4>1. f[i] = 0 /\ a[i] = 0
        BY <3>2 DEF AmountIn, FeeIn
      <4> QED
        BY <4>1, <1>0 DEF ScaledLeq
    <3> QED
      BY <3>1, <3>2
  <2> QED
    BY <2>1
<1>3. ScaledLeq(Fee(S), BPS, Gross(S), MAX_FEE_BPS)
  <2> HIDE DEF a, f, n
  <2>1. f \in [1..n -> Int] /\ a \in [1..n -> Int]
    BY <1>1
  <2>2. ScaledLeq(Total(f, n), BPS, Total(a, n), MAX_FEE_BPS)
    BY <1>0, <1>1, <1>2, <2>1, TotalScaled
  <2> QED
    BY <2>2 DEF Fee, Gross, a, f, n
<1>4. Gross(S) \in Nat /\ Fee(S) \in Nat
  BY GrossAndFee DEF LedgerTypeOK
<1> DEFINE x == Fee(S) + y
           g == Gross(S) + extra
<1>5. ScaledLeq(x, BPS, g, MAX_FEE_BPS)
  <2>1. ScaledLeq(y, BPS, extra, MAX_FEE_BPS)
    BY DEF ScaledLeq
  <2> QED
    BY <1>0, <1>3, <1>4, <2>1, ScaledStep
<1>6. x \in Nat /\ g \in Nat
  BY <1>4
<1> HIDE DEF x, g
<1>7. g * MAX_FEE_BPS \in Nat /\ x * BPS <= g * MAX_FEE_BPS
  BY <1>0, <1>5, <1>6 DEF ScaledLeq
<1>8. x <= (g * MAX_FEE_BPS) \div BPS /\ (g * MAX_FEE_BPS) \div BPS \in Nat
  BY <1>0, <1>6, <1>7, QuotientAtLeast
<1> QED
  BY <1>6, <1>8 DEF Escrow!FeeCap, x, g
\* A claim of S with `extra` of the surplus is one step of the escrow.
LEMMA ClaimIsEscrowStep ==
  ASSUME Books, NEW t \in Tokens, NEW S \in SUBSET Ids,
         \A i \in S : deposits[i].token = t /\ ~ deposits[i].consumed,
         NEW extra \in {0, UntrackedBalance(t)},
         NEW fee \in 0..Escrow!FeeCap(Gross(S) + extra),
         deposits' = Consumed(deposits, S),
         feesOwedTotal' = [feesOwedTotal EXCEPT ![t] = @ + fee],
         balance' = [balance EXCEPT ![t] = @ - ((Gross(S) + extra) - fee)]
  PROVE  Escrow!Next
<1> DEFINE E == [i \in Ids |-> [token |-> deposits[i].token, amount |-> deposits[i].amount,
                               held |-> ~ deposits[i].consumed]]
<1>1. LedgerTypeOK /\ TotalsAreSums /\ Solvent
  BY DEF Books
<1>2. Escrow!Release(S)
  BY <1>1, ConsumeReleases
<1>3. Escrow!AmountOf(S) = Gross(S) /\ Escrow!Surplus(t) = UntrackedBalance(t)
  BY <1>1, EscrowReads
<1>4. /\ Len(E) = Len(deposits)
      /\ \A i \in Ids : E[i].token = deposits[i].token /\ E[i].held = ~ deposits[i].consumed
  <2>1. E = EntriesOf(deposits)
    BY DEF EntriesOf, Ids
  <2> HIDE DEF E
  <2> QED
    BY <1>1, <2>1, EntriesRecorded DEF LedgerTypeOK, Ids
<1>5. S \in SUBSET {i \in 1..Len(E) : E[i].held} /\ \A i \in S : E[i].token = t
  <2> HIDE DEF E
  <2> QED
    BY <1>4 DEF Ids
<1>6. /\ extra \in {0, Escrow!Surplus(t)}
      /\ fee \in 0..Escrow!FeeCap(Escrow!AmountOf(S) + extra)
      /\ balance' = [balance EXCEPT ![t] = @ - ((Escrow!AmountOf(S) + extra) - fee)]
  BY <1>3
<1>7. fee <= Escrow!FeeCap(Escrow!AmountOf(S) + extra)
  BY <1>6
<1>8. Escrow!Claim(t, S, extra, fee)
  BY <1>2, <1>5, <1>6, <1>7, Zenon DEF Escrow!Claim
<1> QED
  BY <1>5, <1>6, <1>8, Zenon DEF Escrow!Next

LEMMA FundIsEscrowStep ==
  ASSUME Books, NEW funder, NEW v, NEW c, NEW t \in Tokens, NEW amount,
         NEW credited \in Amounts, NEW window, NEW q,
         Fund(funder, v, c, t, amount, credited, window, q)
  PROVE  Escrow!Next
<1> DEFINE n == Len(deposits)
           rec == [funder |-> funder, fundedAt |-> now, consumed |-> FALSE, token |-> t,
                   refundWindow |-> window, verifier |-> v, feeBps |-> QuoteFeeBps(q),
                   amount |-> credited, constraint |-> c]
           new == [token |-> t, amount |-> credited, held |-> TRUE]
           E == [i \in Ids |-> [token |-> deposits[i].token, amount |-> deposits[i].amount,
                               held |-> ~ deposits[i].consumed]]
           F == [i \in Ids' |-> [token |-> deposits'[i].token, amount |-> deposits'[i].amount,
                                held |-> ~ deposits'[i].consumed]]
<1>1. /\ deposits' = Append(deposits, rec)
      /\ balance' = [balance EXCEPT ![t] = @ + credited]
      /\ feesOwedTotal' = feesOwedTotal
      /\ credited \in 1..UINT128_MAX
  BY DEF Fund
<1>2. deposits \in Seq(Deposit) /\ n \in Nat
  BY LenProperties DEF Books, LedgerTypeOK
<1>3. /\ Len(deposits') = n + 1
      /\ \A i \in 1..n : deposits'[i] = deposits[i]
      /\ deposits'[n + 1] = rec
  <2> HIDE DEF rec
  <2>1. deposits \in Seq(Deposit \union {rec}) /\ rec \in Deposit \union {rec}
    BY <1>2, SeqDef
  <2> QED
    BY <1>1, <2>1, AppendProperties
<1>4. /\ E \in Seq([token: Tokens, amount: Nat, held: BOOLEAN])
      /\ Len(E) = n
  <2>1. E = EntriesOf(deposits)
    BY DEF EntriesOf, Ids
  <2> HIDE DEF E
  <2> QED
    BY <1>2, <2>1, EntriesRecorded
<1>5. /\ Append(E, new) = [i \in 1..(n + 1) |-> IF i = n + 1 THEN new ELSE E[i]]
  <2> DEFINE Entry == [token: Tokens, amount: Nat, held: BOOLEAN]
             A == Append(E, new)
             T == Entry \union {new}
  <2> HIDE DEF E, new, n, Entry
  <2>1. E \in Seq(Entry)
    BY <1>4 DEF Entry
  <2>2. E \in Seq(T) /\ new \in T
    BY <2>1, SeqDef
  <2>3. /\ A \in Seq(T) /\ Len(A) = n + 1
        /\ \A i \in 1..n : A[i] = E[i]
        /\ A[n + 1] = new
    BY <1>4, <2>2, AppendProperties
  <2> HIDE DEF A, T
  <2>4. A \in [1..(n + 1) -> T]
    BY <2>3, LenProperties
  <2>5. \A i \in 1..(n + 1) : A[i] = IF i = n + 1 THEN new ELSE E[i]
    BY <1>2, <2>3
  <2>6. A = [i \in 1..(n + 1) |-> IF i = n + 1 THEN new ELSE E[i]]
    BY <2>4, <2>5
  <2> QED
    BY <2>6 DEF A
<1>6. \A i \in 1..n : E[i] = [token |-> deposits[i].token, amount |-> deposits[i].amount,
                              held |-> ~ deposits[i].consumed]
  BY DEF Ids
<1>7. /\ F = [i \in 1..(n + 1) |-> F[i]]
      /\ F[n + 1] = new
      /\ \A i \in 1..n : F[i] = E[i]
  <2>1. F = [i \in 1..(n + 1) |-> [token |-> deposits'[i].token, amount |-> deposits'[i].amount,
                                  held |-> ~ deposits'[i].consumed]]
    BY <1>3 DEF Ids
  <2>2. F[n + 1] = [token |-> rec.token, amount |-> rec.amount, held |-> ~ rec.consumed]
    BY <1>2, <1>3, <2>1
  <2>3. (~ rec.consumed) = TRUE /\ rec.token = t /\ rec.amount = credited
    OBVIOUS
  <2>4. F[n + 1] = new
    BY <2>2, <2>3, Zenon
  <2>5. \A i \in 1..n : F[i] = E[i]
    BY <1>2, <1>3, <1>6, <2>1
  <2> QED
    BY <2>1, <2>4, <2>5
<1>8. F = Append(E, new)
  <2> HIDE DEF E, F, new, n
  <2>1. \A i \in 1..(n + 1) : F[i] = IF i = n + 1 THEN new ELSE E[i]
    BY <1>2, <1>7
  <2> QED
    BY <1>5, <1>7, <2>1
<1>9. Escrow!Deposit(t, credited)
  BY <1>1, <1>8, Zenon DEF Escrow!Deposit
<1> QED
  BY <1>1, <1>9 DEF Escrow!Next
LEMMA RefundIsEscrowStep ==
  ASSUME Books, NEW i \in Ids, Refund(i)
  PROVE  Escrow!Next
<1> DEFINE E == [k \in Ids |-> [token |-> deposits[k].token, amount |-> deposits[k].amount,
                               held |-> ~ deposits[k].consumed]]
           t == deposits[i].token
<1>1. LedgerTypeOK /\ t \in Tokens
  BY Records DEF Books, LedgerTypeOK, Ids, Deposit
<1>2. /\ ~ deposits[i].consumed
      /\ deposits' = Consumed(deposits, {i})
      /\ balance' = [balance EXCEPT ![t] = @ - deposits[i].amount]
      /\ feesOwedTotal' = feesOwedTotal
  BY DEF Refund, Consume, Consumed, Ids, TransferOut
<1>3. Escrow!Release({i})
  BY <1>1, <1>2, ConsumeReleases
<1>4. /\ Len(E) = Len(deposits)
      /\ E[i].token = t /\ E[i].amount = deposits[i].amount /\ E[i].held = ~ deposits[i].consumed
  <2>1. E = EntriesOf(deposits)
    BY DEF EntriesOf, Ids
  <2> HIDE DEF E
  <2> QED
    BY <1>1, <2>1, EntriesRecorded DEF LedgerTypeOK, Ids
<1>5. E[i].held
  <2> HIDE DEF E
  <2> QED
    BY <1>2, <1>4
<1>6. balance' = [balance EXCEPT ![E[i].token] = @ - E[i].amount]
  <2> HIDE DEF E
  <2> QED
    BY <1>2, <1>4
<1>7. Escrow!Return(i)
  BY <1>2, <1>3, <1>5, <1>6, Zenon DEF Escrow!Return
<1>8. i \in 1..Len(E)
  <2> HIDE DEF E
  <2> QED
    BY <1>4 DEF Ids
<1> QED
  BY <1>1, <1>7, <1>8, Zenon DEF Escrow!Next

\* A claim of deposits of bucket b, with the fee quoted for the surplus it takes along.
LEMMA ConsumingClaimIsEscrowStep ==
  ASSUME Books, NEW b, NEW S, Claimable(deposits, b, S), Consume(b, S),
         NEW extra \in {0, UntrackedBalance(b[3])}, NEW r \in 0..MAX_FEE_BPS,
         Payout(b[1], b[3], Gross(S) + extra, Fee(S) + FeeOf(extra, r))
  PROVE  Escrow!Next
<1> DEFINE t == b[3]
           y == FeeOf(extra, r)
           fee == Fee(S) + y
<1>1. LedgerTypeOK /\ t \in Tokens /\ S \in SUBSET Ids
  BY DEF Books, Claimable, Buckets, Ids
<1>2. \A i \in S : deposits[i].token = t /\ ~ deposits[i].consumed
  BY DEF Claimable, BucketOf
<1>3. extra \in Nat
  BY <1>1, Surplus
<1>4. y \in Nat /\ y * BPS <= extra * MAX_FEE_BPS
  BY <1>3, FeeBound
<1>5. fee \in 0..Escrow!FeeCap(Gross(S) + extra)
  <2> HIDE DEF y
  <2> QED
    BY <1>1, <1>3, <1>4, ClaimFeeWithinCap
<1>6. /\ deposits' = Consumed(deposits, S)
      /\ feesOwedTotal' = [feesOwedTotal EXCEPT ![t] = @ + fee]
      /\ balance' = [balance EXCEPT ![t] = @ - ((Gross(S) + extra) - fee)]
  BY DEF Consume, Consumed, Ids, Payout, TransferOut
<1> HIDE DEF t, fee
<1>7. extra \in {0, UntrackedBalance(t)}
  BY DEF t
<1> QED
  BY <1>1, <1>2, <1>5, <1>6, <1>7, ClaimIsEscrowStep

LEMMA SurplusClaimIsEscrowStep ==
  ASSUME Books, NEW v \in Verifiers, NEW t \in Tokens, NEW q \in Quotes \union {NoAnswer},
         SweepUntracked(v, t, q)
  PROVE  Escrow!Next
<1> DEFINE extra == UntrackedBalance(t)
           y == FeeOf(extra, QuoteFeeBps(q))
           n == Len(deposits)
<1>1. LedgerTypeOK /\ deposits \in Seq(Deposit) /\ n \in Nat
  BY Records DEF Books, LedgerTypeOK
<1>2. Gross({}) = 0 /\ Fee({}) = 0
  <2>1. AmountIn(deposits, {}) = [i \in 1..n |-> 0] /\ FeeIn(deposits, {}) = [i \in 1..n |-> 0]
    BY DEF AmountIn, FeeIn
  <2> HIDE DEF n
  <2>2. Total(AmountIn(deposits, {}), n) = 0 /\ Total(FeeIn(deposits, {}), n) = 0
    BY <1>1, <2>1, TotalZero
  <2> QED
    BY <2>2 DEF Gross, Fee, n
<1>3. extra \in Nat
  BY Surplus
<1> HIDE DEF extra
<1>4. y \in Nat /\ y * BPS <= extra * MAX_FEE_BPS
  BY <1>3, QuoteRange, FeeBound
<1>5. /\ feesOwedTotal' = [feesOwedTotal EXCEPT ![t] = @ + y]
      /\ balance' = [balance EXCEPT ![t] = @ - (extra - y)]
      /\ deposits' = deposits
  BY DEF SweepUntracked, Payout, TransferOut, extra
<1> HIDE DEF y
<1>6. y \in 0..Escrow!FeeCap(Gross({}) + extra)
  <2>1. Fee({}) + y \in 0..Escrow!FeeCap(Gross({}) + extra)
    BY <1>1, <1>3, <1>4, ClaimFeeWithinCap
  <2> QED
    BY <1>2, <1>4, <2>1
<1>7. (Gross({}) + extra) - y = extra - y
  BY <1>2, <1>3, <1>4
<1>8. deposits' = Consumed(deposits, {})
  <2>1. Consumed(deposits, {}) = [i \in 1..n |-> deposits[i]]
    BY DEF Consumed
  <2>2. deposits = [i \in 1..n |-> deposits[i]]
    BY <1>1, LenProperties
  <2> QED
    BY <1>5, <2>1, <2>2
<1>9. extra \in {0, UntrackedBalance(t)} /\ {} \in SUBSET Ids
  BY DEF extra
<1> QED
  BY <1>5, <1>6, <1>7, <1>8, <1>9, ClaimIsEscrowStep

LEMMA WithdrawIsEscrowStep ==
  ASSUME Books, NEW v \in Verifiers, NEW t \in Tokens, NEW taken, WithdrawFees(v, t, taken)
  PROVE  Escrow!Next
<1>1. /\ taken \in 0..feesOwed[<<v, t>>]
      /\ deposits' = deposits
      /\ feesOwedTotal' = [feesOwedTotal EXCEPT ![t] = @ - taken]
      /\ balance' = [balance EXCEPT ![t] = @ - taken]
  BY DEF WithdrawFees, TransferOut
<1>2. /\ feesOwed \in [Verifiers \X Tokens -> Nat] /\ feesOwed[<<v, t>>] \in Nat
      /\ feesOwedTotal[t] \in Nat
      /\ feesOwedTotal[t] = Total(FeesOfToken(feesOwed, t), NumVerifiers)
  BY DEF Books, LedgerTypeOK, TotalsAreSums
<1>3. DifferOnlyAt(feesOwed, feesOwed, v, t)
  BY <1>2 DEF DifferOnlyAt
<1>4. feesOwed[<<v, t>>] <= feesOwedTotal[t]
  BY <1>2, <1>3, FeesOfOne
<1>5. taken \in 0..feesOwedTotal[t]
  BY <1>1, <1>2, <1>4
<1>6. Escrow!PayFees(t, taken)
  BY <1>1, Zenon DEF Escrow!PayFees, Ids
<1> QED
  BY <1>5, <1>6, Zenon DEF Escrow!Next

LEMMA DonationIsEscrowStep ==
  ASSUME NEW t \in Tokens, NEW amount \in Amounts, DirectTransfer(t, amount)
  PROVE  Escrow!Next
<1>1. /\ balance' = [balance EXCEPT ![t] = @ + amount]
      /\ deposits' = deposits
      /\ feesOwedTotal' = feesOwedTotal
  BY DEF DirectTransfer
<1>2. Escrow!Donate(t, amount)
  BY <1>1, Zenon DEF Escrow!Donate, Ids
<1> QED
  BY <1>2, Zenon DEF Escrow!Next

\* Every step of the ledger is a step of the escrow, or none.
LEMMA LedgerStepIsEscrowStep ==
  LedgerInv /\ [LedgerNext]_<<now, ledgerVars>> => [Escrow!Next]_(Escrow!vars)
<1> SUFFICES ASSUME LedgerInv, [LedgerNext]_<<now, ledgerVars>>
             PROVE  Escrow!Next \/ UNCHANGED Escrow!vars
  OBVIOUS
<1>0. Books /\ LedgerTypeOK /\ BucketsIndexDeposits
  BY DEF LedgerInv, Books
<1>1. CASE LedgerFund
  BY <1>0, <1>1, FundIsEscrowStep DEF LedgerFund
<1>2. CASE LedgerRefund
  BY <1>0, <1>2, RefundIsEscrowStep DEF LedgerRefund
<1>3. CASE LedgerSweepPage
  <2>1. PICK b \in Buckets, limit \in 0..(MAX_SWEEP_PAGE + 1), q \in Quotes \union {NoAnswer},
             paysUntracked \in BOOLEAN : SweepPage(b, limit, q, paysUntracked)
    BY <1>3 DEF LedgerSweepPage
  <2> DEFINE S == PageIds(b, limit)
             extra == IF paysUntracked THEN UntrackedBalance(b[3]) ELSE 0
             r == QuoteFeeBps(q)
  <2>2. Claimable(deposits, b, S)
    <3>1. limit \in Nat
      OBVIOUS
    <3> QED
      BY <1>0, <3>1, PageClaimable
  <2>3. Consume(b, S) /\ Payout(b[1], b[3], Gross(S) + extra, Fee(S) + FeeOf(extra, r))
    BY <2>1 DEF SweepPage
  <2>4. extra \in {0, UntrackedBalance(b[3])} /\ r \in 0..MAX_FEE_BPS
    BY QuoteRange
  <2> HIDE DEF S, extra, r
  <2> QED
    BY <1>0, <2>2, <2>3, <2>4, ConsumingClaimIsEscrowStep
<1>4. CASE LedgerSweepIds
  <2>1. PICK b \in Buckets, S \in SUBSET Ids : SweepIds(b, S)
    BY <1>4 DEF LedgerSweepIds
  <2>2. Claimable(deposits, b, S) /\ Consume(b, S) /\ Payout(b[1], b[3], Gross(S), Fee(S))
    BY <2>1 DEF SweepIds, Claimable, Ids
  <2>3. 0 \in 0..MAX_FEE_BPS /\ FeeOf(0, 0) = 0
    BY VaultLedgerAssumption DEF FeeOf
  <2>4. Gross(S) \in Nat /\ Fee(S) \in Nat
    BY <1>0, GrossAndFee DEF LedgerTypeOK
  <2>5. Payout(b[1], b[3], Gross(S) + 0, Fee(S) + FeeOf(0, 0))
    BY <2>2, <2>3, <2>4
  <2> QED
    BY <1>0, <2>2, <2>3, <2>5, ConsumingClaimIsEscrowStep
<1>5. CASE LedgerSweepUntracked
  BY <1>0, <1>5, SurplusClaimIsEscrowStep DEF LedgerSweepUntracked
<1>6. CASE LedgerWithdrawFees
  BY <1>0, <1>6, WithdrawIsEscrowStep DEF LedgerWithdrawFees
<1>7. CASE LedgerDirectTransfer
  BY <1>7, DonationIsEscrowStep DEF LedgerDirectTransfer
<1>8. CASE UNCHANGED ledgerVars
  BY <1>8, Zenon DEF ledgerVars, Escrow!vars, Ids
<1> QED
  BY <1>1, <1>2, <1>3, <1>4, <1>5, <1>6, <1>7, <1>8
     DEF LedgerNext, LedgerCall, LedgerTick

\* The ledger, with its buckets, cursors, pages and running totals, implements the escrow:
\* money leaves it only as a whole refund, as a claim of open deposits less a fee within the
\* cap, as surplus, or as fees owed.
THEOREM LedgerImplementsEscrow == LedgerSpec => ImplementsEscrow
<1>1. LedgerStart => Escrow!Init
  <2>1. LedgerStart => [i \in Ids |-> [token |-> deposits[i].token, amount |-> deposits[i].amount,
                                      held |-> ~ deposits[i].consumed]] = <<>>
    BY DEF LedgerStart, LedgerInit, Ids
  <2> QED
    BY <2>1, Zenon DEF LedgerStart, LedgerInit, Escrow!Init
<1> QED
  BY <1>1, LedgerInvariant, LedgerStepIsEscrowStep, PTL
     DEF LedgerSpec, ImplementsEscrow, Escrow!Spec
=============================================================================
