----------------------------- MODULE FoldLemmas -----------------------------
(***************************************************************************)
(* What the proofs need of numbers and of folds.  FoldLeft is a recursive  *)
(* function on the sets of indices of a sequence (MapThenFoldSet); that it *)
(* exists, and that it goes through the sequence element by element, is    *)
(* proved here once, for a step given as a function, and used for each     *)
(* fold of the models with the step of that fold.                          *)
(***************************************************************************)
EXTENDS Integers, SequencesExt, TLAPS, WellFoundedInduction

-----------------------------------------------------------------------------
(* Numbers *)

\* Every set of numbers that is not empty has a least one, and a greatest one
\* if it is bounded.
LEMMA LeastNumber ==
    ASSUME NEW S, S \subseteq Nat, S # {}
    PROVE  \E m \in S : \A n \in S : m <= n
<1> DEFINE Less == {p \in Nat \X Nat : p[1] < p[2]}
<1>1. IsWellFoundedOn(Less, Nat)
  BY NatLessThanWellFounded DEF OpToRel
<1>2. \A m, n \in Nat : <<n, m>> \notin Less => m <= n
  OBVIOUS
<1> HIDE DEF Less
<1>3. \E m \in S : \A n \in S : ~(<<n, m>> \in Less)
  BY <1>1, WFMin
<1> QED BY <1>2, <1>3

LEMMA GreatestNumber ==
    ASSUME NEW S, NEW b \in Nat, S \subseteq 0..b, S # {}
    PROVE  Max(S) \in S /\ \A n \in S : Max(S) >= n
<1> DEFINE T == {b - n : n \in S}
<1>1. T \subseteq Nat /\ T # {}
  <2>1. \A n \in S : n \in Nat /\ n <= b /\ b - n \in Nat
    OBVIOUS
  <2> QED BY <2>1
<1>2. PICK m \in T : \A n \in T : m <= n
  BY <1>1, LeastNumber
<1>3. PICK x \in S : m = b - x
  BY <1>2
<1>4. \A n \in S : x >= n
  <2> SUFFICES ASSUME NEW n \in S PROVE x >= n
    OBVIOUS
  <2>1. b - x <= b - n
    BY <1>2, <1>3
  <2> QED BY <2>1
<1> QED BY <1>4 DEF Max

\* Induction up to n, for a set.
LEMMA UpTo ==
    ASSUME NEW n \in Nat, NEW S, 0 \in S, \A k \in 1..n : k - 1 \in S => k \in S
    PROVE  \A k \in 0..n : k \in S
<1> DEFINE Bad == {k \in 0..n : k \notin S}
<1>1. SUFFICES ASSUME Bad # {} PROVE FALSE
  OBVIOUS
<1>2. PICK m \in Bad : \A q \in Bad : m <= q
  <2>1. Bad \subseteq Nat
    OBVIOUS
  <2> HIDE DEF Bad
  <2> QED BY <1>1, <2>1, LeastNumber
<1>3. m \in 1..n
  OBVIOUS
<1>4. m - 1 \in 0..n /\ ~(m <= m - 1)
  BY <1>3
<1>5. m - 1 \in S
  BY <1>2, <1>4
<1> QED BY <1>3, <1>5

\* The maximum of the numbers up to k, and what is left without it.
LEMMA MaxUpTo ==
    ASSUME NEW k \in Nat \ {0}
    PROVE  Max(1..k) = k /\ (1..k) \ {Max(1..k)} = 1..(k - 1)
<1>1. 1..k \subseteq 0..k /\ k \in 1..k
  OBVIOUS
<1>2. Max(1..k) \in 1..k /\ Max(1..k) >= k
  BY <1>1, GreatestNumber
<1> QED BY <1>2

-----------------------------------------------------------------------------
(* Sequences *)

\* An element of two sequences in a row is one of the first or of the second.
LEMMA Concat ==
    ASSUME NEW S, NEW s \in Seq(S), NEW t \in Seq(S)
    PROVE  /\ s \o t \in Seq(S) /\ Len(s) \in Nat /\ Len(t) \in Nat
           /\ Len(s \o t) = Len(s) + Len(t)
           /\ \A n \in 1..Len(s) : (s \o t)[n] = s[n] /\ n \in 1..Len(s \o t)
           /\ \A n \in 1..Len(t) : /\ (s \o t)[Len(s) + n] = t[n]
                                   /\ Len(s) + n \in 1..Len(s \o t)
           /\ \A n \in 1..Len(s \o t) :
                n \in 1..Len(s) \/ \E q \in 1..Len(t) : n = Len(s) + q
<1>1. s \o t \in Seq(S) /\ Len(s) \in Nat /\ Len(t) \in Nat /\ Len(s \o t) = Len(s) + Len(t)
  OBVIOUS
<1>2. \A n \in 1..Len(s) : (s \o t)[n] = s[n] /\ n \in 1..Len(s \o t)
  BY <1>1
<1>3. \A n \in 1..Len(t) : (s \o t)[Len(s) + n] = t[n] /\ Len(s) + n \in 1..Len(s \o t)
  BY <1>1
<1>4. ASSUME NEW n \in 1..Len(s \o t), n \notin 1..Len(s)
      PROVE  \E q \in 1..Len(t) : n = Len(s) + q
  <2>1. n - Len(s) \in 1..Len(t) /\ n = Len(s) + (n - Len(s))
    BY <1>1, <1>4
  <2> QED BY <2>1
<1> QED BY <1>1, <1>2, <1>3, <1>4

\* What is in two sequences in a row is in the first or in the second.
LEMMA RangeConcat ==
    ASSUME NEW S, NEW s \in Seq(S), NEW t \in Seq(S)
    PROVE  Range(s \o t) = Range(s) \union Range(t)
<1> DEFINE u == s \o t
<1>1. /\ u \in Seq(S) /\ Len(s) \in Nat /\ Len(t) \in Nat
      /\ \A n \in 1..Len(s) : u[n] = s[n] /\ n \in 1..Len(u)
      /\ \A n \in 1..Len(t) : u[Len(s) + n] = t[n] /\ Len(s) + n \in 1..Len(u)
      /\ \A n \in 1..Len(u) : n \in 1..Len(s) \/ \E q \in 1..Len(t) : n = Len(s) + q
  <2>1. /\ u \in Seq(S) /\ Len(s) \in Nat /\ Len(t) \in Nat
        /\ \A n \in 1..Len(u) : n \in 1..Len(s) \/ \E q \in 1..Len(t) : n = Len(s) + q
    BY Concat
  <2>2. \A n \in 1..Len(s) : u[n] = s[n] /\ n \in 1..Len(u)
    BY Concat
  <2>3. \A n \in 1..Len(t) : u[Len(s) + n] = t[n] /\ Len(s) + n \in 1..Len(u)
    BY Concat
  <2> QED BY <2>1, <2>2, <2>3
<1>2. DOMAIN s = 1..Len(s) /\ DOMAIN t = 1..Len(t) /\ DOMAIN u = 1..Len(u)
  BY <1>1
<1> HIDE DEF u
<1>3. ASSUME NEW x \in Range(u) PROVE x \in Range(s) \union Range(t)
  <2>1. PICK n \in 1..Len(u) : x = u[n]
    BY <1>2 DEF Range
  <2>2. CASE n \in 1..Len(s)
    BY <1>1, <1>2, <2>1, <2>2 DEF Range
  <2>3. ASSUME NEW q \in 1..Len(t), n = Len(s) + q PROVE x \in Range(t)
    BY <1>1, <1>2, <2>1, <2>3 DEF Range
  <2> QED BY <1>1, <2>2, <2>3
<1>4. ASSUME NEW x \in Range(s) PROVE x \in Range(u)
  <2>1. PICK q \in 1..Len(s) : x = s[q]
    BY <1>2 DEF Range
  <2>2. x = u[q] /\ q \in DOMAIN u
    BY <1>1, <1>2, <2>1
  <2> QED BY <2>2 DEF Range
<1>5. ASSUME NEW x \in Range(t) PROVE x \in Range(u)
  <2>1. PICK q \in 1..Len(t) : x = t[q]
    BY <1>2 DEF Range
  <2>2. x = u[Len(s) + q] /\ Len(s) + q \in DOMAIN u
    BY <1>1, <1>2, <2>1
  <2> QED BY <2>2 DEF Range
<1> QED BY <1>3, <1>4, <1>5 DEF u

LEMMA AppendConcat ==
    ASSUME NEW S, NEW s \in Seq(S), NEW x \in S
    PROVE  << x >> \in Seq(S) /\ Len(<< x >>) = 1 /\ Append(s, x) = s \o << x >>
OBVIOUS

\* The elements of a sequence with one more at its end.
LEMMA AppendElements ==
    ASSUME NEW S, NEW s \in Seq(S), NEW x \in S
    PROVE  /\ Append(s, x) \in Seq(S)
           /\ DOMAIN Append(s, x) = DOMAIN s \union {Len(s) + 1}
           /\ \A n \in DOMAIN s : Append(s, x)[n] = s[n]
           /\ Append(s, x)[Len(s) + 1] = x
<1>1. /\ Len(s) \in Nat /\ DOMAIN s = 1..Len(s) /\ Append(s, x) \in Seq(S)
      /\ Len(Append(s, x)) = Len(s) + 1
  OBVIOUS
<1>2. 1..(Len(s) + 1) = 1..Len(s) \union {Len(s) + 1}
  BY <1>1
<1>3. DOMAIN Append(s, x) = 1..(Len(s) + 1)
  BY <1>1
<1> QED BY <1>1, <1>2, <1>3

-----------------------------------------------------------------------------
(* Folds *)

\* A set of numbers up to n has its maximum there.
LEMMA MaxAmong ==
    ASSUME NEW n \in Nat, NEW s \in SUBSET (1..n), s # {}
    PROVE  Max(s) \in 1..n /\ s \ {Max(s)} \in SUBSET (1..n)
<1>1. s \subseteq 0..n
  OBVIOUS
<1> QED BY <1>1, GreatestNumber

\* Every value a step leads to is in V, if the one before is.
ClosedUnder(G, n, V) == \A i \in 1..n, v \in V : G[<<i, v>>] \in V

\* f folds with the step G from base, and each step takes an element of the
\* sequence and a value in V.
Solution(f, n, V, base, G) ==
    /\ f = [s \in SUBSET (1..n) |-> f[s]] /\ f[{}] = base
    /\ \A s \in SUBSET (1..n) : s # {} =>
         /\ Max(s) \in 1..n /\ f[s \ {Max(s)}] \in V
         /\ f[s] = G[<<Max(s), f[s \ {Max(s)}]>>]

\* A fold is defined: some function on the sets of numbers up to n satisfies
\* the equation of MapThenFoldSet.
LEMMA FoldExists ==
    ASSUME NEW n \in Nat, NEW V, NEW base \in V, NEW G, ClosedUnder(G, n, V)
    PROVE  \E f : Solution(f, n, V, base, G)
<1> USE DEF ClosedUnder
<1> DEFINE Solves(f, k) == \A s \in SUBSET (1..k) :
             f[s] = IF s = {} THEN base ELSE G[<<Max(s), f[s \ {Max(s)}]>>]
           Bad == {k \in 0..n : ~\E f \in [SUBSET (1..k) -> V] : Solves(f, k)}
<1>1. ASSUME Bad = {} PROVE \E f : Solution(f, n, V, base, G)
  <2>1. n \in 0..n /\ n \notin Bad
    <3> HIDE DEF Bad
    <3> QED BY <1>1
  <2>2. PICK f \in [SUBSET (1..n) -> V] : Solves(f, n)
    BY <2>1
  <2>3. f = [s \in SUBSET (1..n) |-> f[s]] /\ f[{}] = base
    BY <2>2
  <2>4. ASSUME NEW s \in SUBSET (1..n), s # {}
        PROVE  /\ Max(s) \in 1..n /\ f[s \ {Max(s)}] \in V
               /\ f[s] = G[<<Max(s), f[s \ {Max(s)}]>>]
    <3>1. Max(s) \in 1..n /\ s \ {Max(s)} \in SUBSET (1..n)
      BY <2>4, MaxAmong
    <3> QED BY <2>2, <2>4, <3>1
  <2> QED BY <2>3, <2>4 DEF Solution
<1>2. SUFFICES ASSUME Bad # {} PROVE FALSE
  BY <1>1
<1>3. PICK k \in Bad : \A m \in Bad : k <= m
  <2>1. Bad \subseteq Nat
    OBVIOUS
  <2> HIDE DEF Bad
  <2> QED BY <1>2, <2>1, LeastNumber
<1>4. k \in 0..n
  OBVIOUS
<1>5. CASE k = 0
  <2>1. SUBSET (1..k) = {{}}
    BY <1>5
  <2> DEFINE f == [s \in SUBSET (1..k) |-> base]
  <2>2. f \in [SUBSET (1..k) -> V] /\ Solves(f, k)
    BY <2>1
  <2> QED BY <2>2
<1>6. CASE k # 0
  <2>1. k - 1 \in 0..n /\ ~(k <= k - 1)
    BY <1>4, <1>6
  <2>2. k - 1 \notin Bad
    <3> HIDE DEF Bad
    <3> QED BY <1>3, <2>1
  <2>3. PICK g \in [SUBSET (1..(k - 1)) -> V] : Solves(g, k - 1)
    BY <2>1, <2>2
  <2> DEFINE f == [s \in SUBSET (1..k) |->
                     IF k \in s THEN G[<<k, g[s \ {k}]>>] ELSE g[s]]
  <2>4. k \in 1..n /\ \A s \in SUBSET (1..k) : s \ {k} \in SUBSET (1..(k - 1))
    BY <1>4, <1>6
  <2>5. \A s \in SUBSET (1..k) : k \notin s => s \in SUBSET (1..(k - 1))
    BY <2>4
  <2>6. f \in [SUBSET (1..k) -> V]
    BY <2>3, <2>4, <2>5
  <2>7. ASSUME NEW s \in SUBSET (1..k)
        PROVE  f[s] = IF s = {} THEN base ELSE G[<<Max(s), f[s \ {Max(s)}]>>]
    <3>1. CASE k \in s
      <4>1. Max(s) = k
        <5>1. k \in Nat /\ s \subseteq 0..k /\ s # {}
          BY <1>4, <3>1
        <5>2. Max(s) \in s /\ Max(s) >= k
          BY <3>1, <5>1, GreatestNumber
        <5>3. Max(s) \in 0..k
          BY <5>1, <5>2
        <5> QED BY <5>1, <5>2, <5>3
      <4>2. f[s \ {k}] = g[s \ {k}]
        BY <2>4
      <4> QED BY <3>1, <4>1, <4>2
    <3>2. CASE k \notin s
      <4>1. f[s] = g[s] /\ s \in SUBSET (1..(k - 1))
        BY <2>5, <3>2
      <4>2. f[s] = IF s = {} THEN base ELSE G[<<Max(s), g[s \ {Max(s)}]>>]
        BY <2>3, <4>1
      <4>3. f[s \ {Max(s)}] = g[s \ {Max(s)}]
        BY <3>2
      <4> QED BY <4>2, <4>3
    <3> QED BY <3>1, <3>2
  <2>8. Solves(f, k)
    <3> HIDE DEF f
    <3> QED BY <2>7
  <2> HIDE DEF f
  <2> QED BY <2>6, <2>8
<1> QED BY <1>5, <1>6

\* f folds with the step G from base, for as long as the values are in V.
Folds(f, n, V, base, G) ==
    /\ f[{}] = base
    /\ \A s \in SUBSET (1..n) : s # {} /\ f[s \ {Max(s)}] \in V
          => f[s] = G[<<Max(s), f[s \ {Max(s)}]>>]

\* The values of a fold, element by element, from base on.
Chain(acc, n, V, base, G) ==
    /\ acc \in [0..n -> V] /\ acc[0] = base
    /\ \A k \in 1..n : acc[k - 1] \in V /\ acc[k] = G[<<k, acc[k - 1]>>]

\* A fold goes through its sequence, and stays in a set the step is closed under.
LEMMA FoldSteps ==
    ASSUME NEW n \in Nat, NEW V, NEW base \in V, NEW G, ClosedUnder(G, n, V),
           NEW f, Folds(f, n, V, base, G)
    PROVE  \E acc : Chain(acc, n, V, base, G) /\ acc[n] = f[1..n]
<1>1. f[1..0] = base
  BY 1..0 = {} DEF Folds
<1>2. ASSUME NEW k \in 1..n, f[1..(k - 1)] \in V
      PROVE  f[1..k] = G[<<k, f[1..(k - 1)]>>]
  <2>1. 1..k \in SUBSET (1..n) /\ 1..k # {} /\ k \in Nat \ {0}
    OBVIOUS
  <2>2. Max(1..k) = k /\ (1..k) \ {Max(1..k)} = 1..(k - 1)
    BY <2>1, MaxUpTo
  <2> QED BY <1>2, <2>1, <2>2 DEF Folds
<1>3. ASSUME NEW k \in 0..n, f[1..k] \notin V PROVE FALSE
  <2> DEFINE S == {m \in 0..n : f[1..m] \in V}
  <2>1. 0 \in S
    BY <1>1
  <2>2. ASSUME NEW m \in 1..n, m - 1 \in S PROVE m \in S
    <3>1. f[1..(m - 1)] \in V
      BY <2>2
    <3>2. f[1..m] \in V
      BY <1>2, <3>1 DEF ClosedUnder
    <3> QED BY <3>2
  <2>3. k \in S
    <3> HIDE DEF S
    <3> QED BY <2>1, <2>2, UpTo
  <2> QED BY <1>3, <2>3
<1> DEFINE acc == [k \in 0..n |-> f[1..k]]
<1>4. acc \in [0..n -> V] /\ acc[0] = base /\ acc[n] = f[1..n]
  BY <1>1, <1>3
<1>5. ASSUME NEW k \in 1..n PROVE acc[k - 1] \in V /\ acc[k] = G[<<k, acc[k - 1]>>]
  <2>1. k \in 0..n /\ k - 1 \in 0..n
    OBVIOUS
  <2> QED BY <1>2, <1>3, <2>1
<1> HIDE DEF acc
<1> QED BY <1>4, <1>5 DEF Chain
=============================================================================
