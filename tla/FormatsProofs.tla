--------------------------- MODULE FormatsProofs ---------------------------
(***************************************************************************)
(* Lemmas about the parsers, for every document: what the operators of     *)
(* Formats on sequences compute (Total, Only, Ascending, MostHit), what    *)
(* each parser makes of a document, and, for any snapshots, what the union *)
(* of their lines and the sums over those without lines come to.           *)
(***************************************************************************)
EXTENDS Reports, FoldLemmas, FiniteSetTheorems

-----------------------------------------------------------------------------
(* Sums *)

\* A sum is added up number by number.
LEMMA TotalSteps ==
    ASSUME NEW n \in Nat, NEW numbers \in [1..n -> Int]
    PROVE  \E acc : /\ acc[0] = 0
                    /\ \A k \in 0..n : acc[k] \in Int
                    /\ \A k \in 1..n : acc[k] = acc[k - 1] + numbers[k]
                    /\ Total(numbers) = acc[n]
<1> DEFINE F(f) == [s \in SUBSET (DOMAIN numbers) |->
                      IF s = {} THEN 0 ELSE f[s \ {Max(s)}] + numbers[Max(s)]]
           f == CHOOSE f : f = F(f)
           W == Int
           G == [x \in (1..n) \X W |-> x[2] + numbers[x[1]]]
<1>1. DOMAIN numbers = 1..n /\ \A i \in 1..n : numbers[i] \in Int
  OBVIOUS
<1>2. \A i \in 1..n, v \in W : G[<<i, v>>] = v + numbers[i]
  OBVIOUS
<1>3. ClosedUnder(G, n, W) /\ 0 \in W
  <2>1. ASSUME NEW i \in 1..n, NEW v \in W PROVE G[<<i, v>>] \in W
    BY <1>1, <1>2
  <2> QED BY <2>1 DEF ClosedUnder
<1>4. Total(numbers) = f[1..n]
  BY <1>1 DEF Total, FoldLeft, MapThenFoldSet
<1> HIDE DEF W, G
<1>5. \E g : g = F(g)
  <2>1. PICK g : Solution(g, n, W, 0, G)
    BY <1>3, FoldExists
  <2>2. g = F(g)
    BY <1>1, <1>2, <2>1 DEF Solution
  <2> QED BY <2>2
<1>6. f = F(f)
  BY <1>5
<1> HIDE DEF f
<1>7. Folds(f, n, W, 0, G)
  BY <1>1, <1>2, <1>6, MaxAmong DEF Folds
<1>8. PICK acc : Chain(acc, n, W, 0, G) /\ acc[n] = f[1..n]
  BY <1>3, <1>7, FoldSteps
<1>9. ASSUME NEW k \in 1..n PROVE acc[k] = acc[k - 1] + numbers[k]
  BY <1>2, <1>8 DEF Chain
<1> QED BY <1>4, <1>8, <1>9 DEF W, Chain

LEMMA TotalType ==
    ASSUME NEW n \in Nat, NEW numbers \in [1..n -> Int]
    PROVE  Total(numbers) \in Int
<1>1. n \in 0..n
  OBVIOUS
<1> QED BY <1>1, TotalSteps

-----------------------------------------------------------------------------
(* Selection *)

Chosen(t, x, S) == IF x \in S THEN Append(t, x) ELSE t

LEMMA OnlySteps ==
    ASSUME NEW V, NEW s \in Seq(V), NEW S
    PROVE  \E acc : /\ acc[0] = << >>
                    /\ \A k \in 0..Len(s) : acc[k] \in Seq(V)
                    /\ \A k \in 1..Len(s) : acc[k] = Chosen(acc[k - 1], s[k], S)
                    /\ Only(s, S) = acc[Len(s)]
<1> DEFINE n == Len(s)
           F(f) == [u \in SUBSET (DOMAIN s) |->
                      IF u = {} THEN << >> ELSE Chosen(f[u \ {Max(u)}], s[Max(u)], S)]
           f == CHOOSE f : f = F(f)
           W == Seq(V)
           G == [x \in (1..n) \X W |-> Chosen(x[2], s[x[1]], S)]
<1>1. n \in Nat /\ DOMAIN s = 1..n /\ (\A i \in 1..n : s[i] \in V)
  OBVIOUS
<1>2. << >> \in W
  OBVIOUS
<1>3. \A i \in 1..n, v \in W : G[<<i, v>>] = Chosen(v, s[i], S)
  OBVIOUS
<1>4. ASSUME NEW i \in 1..n, NEW v \in W PROVE Chosen(v, s[i], S) \in W
  <2>1. s[i] \in V
    BY <1>1
  <2> QED BY <2>1 DEF Chosen
<1>5. ClosedUnder(G, n, W)
  BY <1>3, <1>4 DEF ClosedUnder
<1>6. Only(s, S) = f[1..n]
  BY <1>1 DEF Only, FoldLeft, MapThenFoldSet, Chosen
<1> HIDE DEF n, W, G
<1>7. \E g : g = F(g)
  <2>1. PICK g : Solution(g, n, W, << >>, G)
    BY <1>1, <1>2, <1>5, FoldExists
  <2>2. g = F(g)
    BY <1>1, <1>3, <2>1 DEF Solution
  <2> QED BY <2>2
<1>8. f = F(f)
  BY <1>7
<1> HIDE DEF f
<1>9. Folds(f, n, W, << >>, G)
  BY <1>1, <1>3, <1>8, MaxAmong DEF Folds
<1>10. PICK acc : Chain(acc, n, W, << >>, G) /\ acc[n] = f[1..n]
  BY <1>1, <1>2, <1>5, <1>9, FoldSteps
<1>11. ASSUME NEW k \in 1..n PROVE acc[k] = Chosen(acc[k - 1], s[k], S)
  BY <1>1, <1>3, <1>10 DEF Chain
<1> QED BY <1>6, <1>10, <1>11 DEF n, W, Chain

\* The elements of a sequence up to the k-th.
Before(s, k) == {s[q] : q \in 1..k}

LEMMA BeforeMore ==
    ASSUME NEW V, NEW s \in Seq(V), NEW k \in 1..Len(s)
    PROVE  Before(s, k) = Before(s, k - 1) \union {s[k]}
<1>1. 1..k = 1..(k - 1) \union {k}
  OBVIOUS
<1> QED BY <1>1 DEF Before

LEMMA BeforeAll ==
    ASSUME NEW V, NEW s \in Seq(V)
    PROVE  Before(s, 0) = {} /\ Before(s, Len(s)) = Range(s)
<1>1. DOMAIN s = 1..Len(s) /\ 1..0 = {}
  OBVIOUS
<1> QED BY <1>1 DEF Before, Range

LEMMA RangeAppend ==
    ASSUME NEW V, NEW s \in Seq(V), NEW x \in V
    PROVE  Range(Append(s, x)) = Range(s) \union {x}
<1> DEFINE t == Append(s, x)
<1>1. /\ DOMAIN t = DOMAIN s \union {Len(s) + 1}
      /\ \A n \in DOMAIN s : t[n] = s[n]
      /\ t[Len(s) + 1] = x
  BY AppendElements
<1> HIDE DEF t
<1> QED BY <1>1 DEF Range, t

\* What is selected is what is in the set.
LEMMA OnlyIs ==
    ASSUME NEW V, NEW s \in Seq(V), NEW S
    PROVE  Only(s, S) \in Seq(V) /\ Range(Only(s, S)) = Range(s) \intersect S
<1> DEFINE n == Len(s)
<1>1. n \in Nat /\ n \in 0..n /\ \A k \in 1..n : s[k] \in V
  OBVIOUS
<1>2. PICK acc : /\ acc[0] = << >>
                 /\ \A k \in 0..n : acc[k] \in Seq(V)
                 /\ \A k \in 1..n : acc[k] = Chosen(acc[k - 1], s[k], S)
                 /\ Only(s, S) = acc[n]
  BY OnlySteps
<1> DEFINE T == {k \in 0..n : Range(acc[k]) = Before(s, k) \intersect S}
<1>3. 0 \in T
  <2>1. Range(<< >>) = {}
    BY DEF Range
  <2> QED BY <1>1, <1>2, <2>1, BeforeAll
<1>4. ASSUME NEW k \in 1..n, k - 1 \in T PROVE k \in T
  <2>1. acc[k - 1] \in Seq(V) /\ s[k] \in V /\ k \in 0..n
    BY <1>1, <1>2
  <2>2. Range(acc[k - 1]) = Before(s, k - 1) \intersect S
    BY <1>4
  <2>3. Before(s, k) = Before(s, k - 1) \union {s[k]}
    BY BeforeMore
  <2>4. CASE s[k] \in S
    <3>1. Range(acc[k]) = Range(acc[k - 1]) \union {s[k]}
      BY <1>2, <2>1, <2>4, RangeAppend DEF Chosen
    <3> QED BY <2>1, <2>2, <2>3, <2>4, <3>1
  <2>5. CASE s[k] \notin S
    <3>1. acc[k] = acc[k - 1]
      BY <1>2, <2>5 DEF Chosen
    <3> QED BY <2>1, <2>2, <2>3, <2>5, <3>1
  <2> QED BY <2>4, <2>5
<1>5. n \in T
  <2> HIDE DEF T, n
  <2> QED BY <1>1, <1>3, <1>4, UpTo
<1> QED BY <1>1, <1>2, <1>5, BeforeAll

-----------------------------------------------------------------------------
(* Sorting *)

\* What is in two parts of a sequence is in the sequence.
LEMMA PartsOf ==
    ASSUME NEW V, NEW t \in Seq(V), NEW p \in 1..(Len(t) + 1)
    PROVE  /\ SubSeq(t, 1, p - 1) \in Seq(V) /\ SubSeq(t, p, Len(t)) \in Seq(V)
           /\ Range(SubSeq(t, 1, p - 1)) \union Range(SubSeq(t, p, Len(t))) = Range(t)
<1> DEFINE a == SubSeq(t, 1, p - 1)
           b == SubSeq(t, p, Len(t))
<1>1. Len(t) \in Nat /\ DOMAIN t = 1..Len(t) /\ p \in Nat
  OBVIOUS
<1>2. a \in Seq(V) /\ Len(a) = p - 1 /\ \A i \in 1..(p - 1) : a[i] = t[i]
  BY <1>1
<1>3. b \in Seq(V) /\ Len(b) = Len(t) - p + 1 /\ \A i \in 1..(Len(t) - p + 1) : b[i] = t[p + i - 1]
  BY <1>1
<1>4. DOMAIN a = 1..(p - 1) /\ DOMAIN b = 1..(Len(t) - p + 1)
  BY <1>2, <1>3
<1> HIDE DEF a, b
<1>5. ASSUME NEW x \in Range(a) PROVE x \in Range(t)
  <2>1. PICK i \in 1..(p - 1) : x = a[i]
    BY <1>4 DEF Range
  <2>2. i \in DOMAIN t /\ x = t[i]
    BY <1>1, <1>2, <2>1
  <2> QED BY <2>2 DEF Range
<1>6. ASSUME NEW x \in Range(b) PROVE x \in Range(t)
  <2>1. PICK i \in 1..(Len(t) - p + 1) : x = b[i]
    BY <1>4 DEF Range
  <2>2. p + i - 1 \in DOMAIN t /\ x = t[p + i - 1]
    BY <1>1, <1>3, <2>1
  <2> QED BY <2>2 DEF Range
<1>7. ASSUME NEW x \in Range(t) PROVE x \in Range(a) \union Range(b)
  <2>1. PICK i \in 1..Len(t) : x = t[i]
    BY <1>1 DEF Range
  <2>2. CASE i < p
    <3>1. i \in 1..(p - 1)
      BY <1>1, <2>2
    <3> QED BY <1>2, <1>4, <2>1, <3>1 DEF Range
  <2>3. CASE ~(i < p)
    <3>1. PICK j \in 1..(Len(t) - p + 1) : j = i - p + 1
      BY <1>1, <2>3
    <3>2. p + j - 1 = i
      BY <1>1, <3>1
    <3>3. x = b[j]
      BY <1>3, <2>1, <3>2
    <3> QED BY <1>4, <3>3 DEF Range
  <2> QED BY <2>2, <2>3
<1> QED BY <1>2, <1>3, <1>5, <1>6, <1>7 DEF a, b

Placed(t, l) == InsertAt(t, 1 + Cardinality({i \in DOMAIN t : t[i].n <= l.n}), l)

LEMMA PlacedIs ==
    ASSUME NEW V, NEW t \in Seq(V), NEW l \in V
    PROVE  Placed(t, l) \in Seq(V) /\ Range(Placed(t, l)) = Range(t) \union {l}
<1> DEFINE P == {i \in DOMAIN t : t[i].n <= l.n}
<1>1. Len(t) \in Nat /\ DOMAIN t = 1..Len(t)
  OBVIOUS
<1>2. IsFiniteSet(1..Len(t)) /\ Cardinality(1..Len(t)) = Len(t)
  <2>1. PICK b \in Nat : b = 1
    OBVIOUS
  <2>2. IsFiniteSet(b..Len(t)) /\ Cardinality(b..Len(t)) = IF b > Len(t) THEN 0 ELSE Len(t) - b + 1
    BY <1>1, <2>1, FS_Interval
  <2> QED BY <1>1, <2>1, <2>2
<1>3. P \in SUBSET (1..Len(t))
  BY <1>1
<1> HIDE DEF P
<1>4. IsFiniteSet(P) /\ Cardinality(P) <= Len(t)
  BY <1>2, <1>3, FS_Subset
<1>5. Cardinality(P) \in Nat
  BY <1>4, FS_CardinalityType
<1>6. PICK p \in 1..(Len(t) + 1) : p = 1 + Cardinality(P)
  BY <1>1, <1>4, <1>5
<1> DEFINE a == SubSeq(t, 1, p - 1)
           b == SubSeq(t, p, Len(t))
           c == << l >>
<1>7. a \in Seq(V) /\ b \in Seq(V) /\ Range(a) \union Range(b) = Range(t)
  BY PartsOf
<1>8. Placed(t, l) = a \o c \o b
  BY <1>6 DEF Placed, InsertAt, P
<1>9. c \in Seq(V) /\ Range(c) = {l}
  BY DEF Range
<1> HIDE DEF a, b, c
<1>10. a \o c \in Seq(V) /\ Range(a \o c) = Range(a) \union {l}
  <2>1. Range(a \o c) = Range(a) \union Range(c)
    BY <1>7, <1>9, RangeConcat
  <2> QED BY <1>7, <1>9, <2>1, Concat
<1>11. /\ (a \o c) \o b \in Seq(V)
       /\ Range((a \o c) \o b) = Range(a \o c) \union Range(b)
  <2>1. PICK d \in Seq(V) : d = a \o c
    BY <1>10
  <2>2. d \o b \in Seq(V)
    BY <1>7, Concat
  <2>3. Range(d \o b) = Range(d) \union Range(b)
    BY <1>7, RangeConcat
  <2> QED BY <2>1, <2>2, <2>3
<1> QED BY <1>7, <1>8, <1>10, <1>11

LEMMA AscendingSteps ==
    ASSUME NEW V, NEW s \in Seq(V)
    PROVE  \E acc : /\ acc[0] = << >>
                    /\ \A k \in 0..Len(s) : acc[k] \in Seq(V)
                    /\ \A k \in 1..Len(s) : acc[k] = Placed(acc[k - 1], s[k])
                    /\ Ascending(s) = acc[Len(s)]
<1> DEFINE n == Len(s)
           F(f) == [u \in SUBSET (DOMAIN s) |->
                      IF u = {} THEN << >> ELSE Placed(f[u \ {Max(u)}], s[Max(u)])]
           f == CHOOSE f : f = F(f)
           W == Seq(V)
           G == [x \in (1..n) \X W |-> Placed(x[2], s[x[1]])]
<1>1. n \in Nat /\ DOMAIN s = 1..n /\ (\A i \in 1..n : s[i] \in V)
  OBVIOUS
<1>2. << >> \in W
  OBVIOUS
<1>3. \A i \in 1..n, v \in W : G[<<i, v>>] = Placed(v, s[i])
  OBVIOUS
<1>4. ASSUME NEW i \in 1..n, NEW v \in W PROVE Placed(v, s[i]) \in W
  <2>1. s[i] \in V
    BY <1>1
  <2> QED BY <2>1, PlacedIs
<1>5. ClosedUnder(G, n, W)
  BY <1>3, <1>4 DEF ClosedUnder
<1>6. Ascending(s) = f[1..n]
  BY <1>1 DEF Ascending, FoldLeft, MapThenFoldSet, Placed
<1> HIDE DEF n, W, G
<1>7. \E g : g = F(g)
  <2>1. PICK g : Solution(g, n, W, << >>, G)
    BY <1>1, <1>2, <1>5, FoldExists
  <2>2. g = F(g)
    BY <1>1, <1>3, <2>1 DEF Solution
  <2> QED BY <2>2
<1>8. f = F(f)
  BY <1>7
<1> HIDE DEF f
<1>9. Folds(f, n, W, << >>, G)
  BY <1>1, <1>3, <1>8, MaxAmong DEF Folds
<1>10. PICK acc : Chain(acc, n, W, << >>, G) /\ acc[n] = f[1..n]
  BY <1>1, <1>2, <1>5, <1>9, FoldSteps
<1>11. ASSUME NEW k \in 1..n PROVE acc[k] = Placed(acc[k - 1], s[k])
  BY <1>1, <1>3, <1>10 DEF Chain
<1> QED BY <1>6, <1>10, <1>11 DEF n, W, Chain

\* Sorting keeps the elements.
LEMMA AscendingIs ==
    ASSUME NEW V, NEW s \in Seq(V)
    PROVE  Ascending(s) \in Seq(V) /\ Range(Ascending(s)) = Range(s)
<1> DEFINE n == Len(s)
<1>1. n \in Nat /\ n \in 0..n /\ \A k \in 1..n : s[k] \in V
  OBVIOUS
<1>2. PICK acc : /\ acc[0] = << >>
                 /\ \A k \in 0..n : acc[k] \in Seq(V)
                 /\ \A k \in 1..n : acc[k] = Placed(acc[k - 1], s[k])
                 /\ Ascending(s) = acc[n]
  BY AscendingSteps
<1> DEFINE T == {k \in 0..n : Range(acc[k]) = Before(s, k)}
<1>3. 0 \in T
  <2>1. Range(<< >>) = {}
    BY DEF Range
  <2>2. Range(acc[0]) = {} /\ Before(s, 0) = {} /\ 0 \in 0..n
    BY <1>1, <1>2, <2>1, BeforeAll
  <2> QED BY <2>2
<1>4. ASSUME NEW k \in 1..n, k - 1 \in T PROVE k \in T
  <2>1. acc[k - 1] \in Seq(V) /\ s[k] \in V /\ k \in 0..n
    BY <1>1, <1>2
  <2>2. Range(acc[k - 1]) = Before(s, k - 1)
    BY <1>4
  <2>3. Before(s, k) = Before(s, k - 1) \union {s[k]}
    BY BeforeMore
  <2>4. Range(acc[k]) = Range(acc[k - 1]) \union {s[k]}
    <3>1. Range(Placed(acc[k - 1], s[k])) = Range(acc[k - 1]) \union {s[k]}
      BY <2>1, PlacedIs
    <3> QED BY <1>2, <3>1
  <2> QED BY <2>1, <2>2, <2>3, <2>4
<1>5. n \in T
  <2> HIDE DEF T, n
  <2> QED BY <1>1, <1>3, <1>4, UpTo
<1> QED BY <1>1, <1>2, <1>5, BeforeAll
-----------------------------------------------------------------------------
(* Lines of a file *)

LineRecords == [n: Int, c: Int]
Numbers(records) == {l.n : l \in records}
HitNumbers(records) == {l.n : l \in {k \in records : k.c > 0}}

\* A finite set of integers that is not empty has a greatest one.
LEMMA FiniteMax ==
    ASSUME NEW S, S \subseteq Int, IsFiniteSet(S), S # {}
    PROVE  Max(S) \in S /\ \A x \in S : Max(S) >= x
<1> DEFINE n == Cardinality(S)
<1>1. n \in Nat /\ ExistsBijection(1..n, S)
  BY FS_CardinalityType
<1>2. PICK f \in Surjection(1..n, S) : TRUE
  BY <1>1 DEF ExistsBijection, Bijection
<1> HIDE DEF n
<1>3. f \in [1..n -> S] /\ \A x \in S : \E i \in 1..n : f[i] = x
  BY <1>2 DEF Surjection
<1>4. n \in 1..n /\ n # 0
  <2>1. PICK x \in S : TRUE
    OBVIOUS
  <2>2. PICK i \in 1..n : f[i] = x
    BY <1>3
  <2> QED BY <1>1, <2>2
<1> DEFINE T == {k \in 0..n : k > 0 => \E m \in 1..k : \A j \in 1..k : f[m] >= f[j]}
<1>5. 0 \in T
  BY <1>1
<1>6. ASSUME NEW k \in 1..n, k - 1 \in T PROVE k \in T
  <2>1. k \in 0..n /\ k \in 1..k /\ f[k] \in Int /\ \A j \in 1..k : j \in 1..n /\ f[j] \in Int
    <3>1. k \in 0..n /\ k \in 1..k /\ \A j \in 1..k : j \in 1..n
      BY <1>1
    <3>2. \A j \in 1..n : f[j] \in Int
      BY <1>3
    <3> QED BY <3>1, <3>2
  <2>2. CASE k = 1
    <3>1. \A j \in 1..k : j = k
      BY <2>2
    <3>2. \A j \in 1..k : f[k] >= f[j]
      BY <2>1, <3>1
    <3> QED BY <2>1, <3>2
  <2>3. CASE k # 1
    <3>1. PICK m \in 1..(k - 1) : \A j \in 1..(k - 1) : f[m] >= f[j]
      BY <1>6, <2>3
    <3>2. m \in 1..k /\ f[m] \in Int
      BY <2>1
    <3>3. \A j \in 1..k : j = k \/ j \in 1..(k - 1)
      OBVIOUS
    <3>4. CASE f[m] >= f[k]
      <4>1. \A j \in 1..k : f[m] >= f[j]
        BY <3>1, <3>3, <3>4
      <4> QED BY <2>1, <3>2, <4>1
    <3>5. CASE ~(f[m] >= f[k])
      <4>1. \A j \in 1..k : f[k] >= f[j]
        BY <2>1, <3>1, <3>2, <3>3, <3>5
      <4> QED BY <2>1, <4>1
    <3> QED BY <3>4, <3>5
  <2> QED BY <2>2, <2>3
<1>7. n \in T
  <2>1. n \in 0..n
    BY <1>1
  <2> HIDE DEF T
  <2> QED BY <1>1, <1>5, <1>6, <2>1, UpTo
<1>8. PICK m \in 1..n : \A j \in 1..n : f[m] >= f[j]
  BY <1>1, <1>4, <1>7
<1>9. f[m] \in S /\ \A x \in S : f[m] >= x
  BY <1>3, <1>8
<1> QED BY <1>9 DEF Max

\* A finite set as a sequence.
LEMMA SetAsSeq ==
    ASSUME NEW S, IsFiniteSet(S)
    PROVE  SetToSeq(S) \in Seq(S) /\ Range(SetToSeq(S)) = S
<1> DEFINE n == Cardinality(S)
           f == SetToSeq(S)
<1>1. n \in Nat /\ ExistsBijection(1..n, S)
  BY FS_CardinalityType
<1>2. \E g \in [1..n -> S] : IsInjective(g)
  BY <1>1 DEF ExistsBijection, Bijection, Injection, IsInjective
<1>3. f \in [1..n -> S] /\ IsInjective(f)
  BY <1>2 DEF SetToSeq
<1>4. f \in Injection(1..n, S)
  BY <1>3 DEF Injection, IsInjective
<1> HIDE DEF f, n
<1>5. f \in Surjection(1..n, S)
  <2>1. IsFiniteSet(1..n) /\ Cardinality(1..n) = n
    BY <1>1, FS_Interval
  <2> QED BY <1>4, <2>1, FS_Injection DEF n
<1>6. f \in Seq(S) /\ DOMAIN f = 1..n
  BY <1>1, <1>3
<1>7. Range(f) = S
  BY <1>3, <1>5, <1>6 DEF Surjection, Range
<1> QED BY <1>6, <1>7 DEF f

\* A set that a function makes of a finite set is finite.
LEMMA ImageFinite ==
    ASSUME NEW S, NEW f, DOMAIN f = S, IsFiniteSet(S)
    PROVE  IsFiniteSet({f[x] : x \in S})
<1> DEFINE g == [x \in S |-> f[x]]
           T == {f[x] : x \in S}
<1>1. g \in Surjection(S, T)
  BY DEF Surjection
<1> HIDE DEF g, T
<1>2. IsFiniteSet(T)
  BY <1>1, FS_Surjection
<1> QED BY <1>2 DEF T

\* Every line recorded is there, as executed if some record of it says so.
LEMMA MostHitIs ==
    ASSUME NEW R, R \subseteq LineRecords, IsFiniteSet(R)
    PROVE  /\ MostHit(R) \in Seq(LineRecords)
           /\ Numbers(Range(MostHit(R))) = Numbers(R)
           /\ HitNumbers(Range(MostHit(R))) = HitNumbers(R)
<1> DEFINE At(n) == {0} \union {l.c : l \in {k \in R : k.n = n}}
           T == {Line(n, Max(At(n))) : n \in Numbers(R)}
<1>1. ASSUME NEW n
      PROVE  /\ At(n) \subseteq Int /\ Max(At(n)) \in At(n)
             /\ \A x \in At(n) : Max(At(n)) >= x
  <2>1. At(n) \subseteq Int /\ At(n) # {}
    BY DEF LineRecords
  <2>2. IsFiniteSet(At(n))
    <3> DEFINE S == {k \in R : k.n = n}
               f == [l \in S |-> l.c]
    <3>1. IsFiniteSet(S)
      BY FS_Subset
    <3>2. IsFiniteSet({f[l] : l \in S})
      <4> HIDE DEF S
      <4>1. DOMAIN f = S
        OBVIOUS
      <4> HIDE DEF f
      <4> QED BY <3>1, <4>1, ImageFinite
    <3>3. At(n) = {f[l] : l \in S} \union {0}
      OBVIOUS
    <3> QED BY <3>2, <3>3, FS_AddElement
  <2> HIDE DEF At
  <2> QED BY <2>1, <2>2, FiniteMax
<1>2. IsFiniteSet(T)
  <2> DEFINE f == [l \in R |-> Line(l.n, Max(At(l.n)))]
  <2>1. T = {f[l] : l \in R}
    BY DEF Numbers
  <2>2. DOMAIN f = R
    OBVIOUS
  <2> HIDE DEF f, T
  <2> QED BY <2>1, <2>2, ImageFinite
<1>3. T \subseteq LineRecords
  <2>1. ASSUME NEW n \in Numbers(R) PROVE n \in Int /\ Max(At(n)) \in Int
    <3>1. n \in Int
      BY DEF Numbers, LineRecords
    <3> HIDE DEF At
    <3> QED BY <1>1, <3>1
  <2> HIDE DEF At
  <2> QED BY <2>1 DEF Line, LineRecords
<1>4. Numbers(T) = Numbers(R)
  <2>1. \A n : Line(n, Max(At(n))).n = n
    BY DEF Line
  <2>2. \A n : n \in Numbers(T) <=> n \in Numbers(R)
    <3> HIDE DEF At
    <3>1. \A n : n \in Numbers(T) <=> \E k \in Numbers(R) : n = Line(k, Max(At(k))).n
      BY DEF Numbers
    <3> QED BY <2>1, <3>1
  <2> QED BY <2>2
<1>5. HitNumbers(T) = HitNumbers(R)
  <2>1. ASSUME NEW n \in Numbers(R)
        PROVE  Max(At(n)) > 0 <=> \E l \in R : l.n = n /\ l.c > 0
    <3>1. \A x \in At(n) : x = 0 \/ \E l \in R : l.n = n /\ l.c = x
      OBVIOUS
    <3>2. \A l \in R : l.n = n => l.c \in At(n)
      OBVIOUS
    <3>3. \A l \in R : l.c \in Int
      BY DEF LineRecords
    <3> HIDE DEF At
    <3>4. Max(At(n)) \in Int /\ Max(At(n)) \in At(n) /\ \A x \in At(n) : x \in Int /\ Max(At(n)) >= x
      BY <1>1
    <3>5. PICK m \in Int : m = Max(At(n))
      BY <3>4
    <3>6. ASSUME m > 0 PROVE \E l \in R : l.n = n /\ l.c > 0
      BY <3>1, <3>4, <3>5, <3>6
    <3>7. ASSUME NEW l \in R, l.n = n, l.c > 0 PROVE m > 0
      BY <3>2, <3>3, <3>4, <3>5, <3>7
    <3> QED BY <3>5, <3>6, <3>7
  <2>2. HitNumbers(T) = {n \in Numbers(R) : Max(At(n)) > 0}
    <3> HIDE DEF At
    <3>1. \A n : Line(n, Max(At(n))).n = n /\ Line(n, Max(At(n))).c = Max(At(n))
      BY DEF Line
    <3>2. \A n : n \in HitNumbers(T) <=>
             \E k \in Numbers(R) : /\ n = Line(k, Max(At(k))).n
                                   /\ Line(k, Max(At(k))).c > 0
      BY DEF HitNumbers
    <3>3. \A n : n \in HitNumbers(T) <=> n \in Numbers(R) /\ Max(At(n)) > 0
      BY <3>1, <3>2
    <3> QED BY <3>3
  <2>3. HitNumbers(R) = {n \in Numbers(R) : \E l \in R : l.n = n /\ l.c > 0}
    BY DEF HitNumbers, Numbers
  <2> HIDE DEF At, T
  <2> QED BY <2>1, <2>2, <2>3
<1>6. MostHit(R) = Ascending(SetToSeq(T))
  BY DEF MostHit, Numbers
<1> HIDE DEF T
<1>7. SetToSeq(T) \in Seq(LineRecords) /\ Range(SetToSeq(T)) = T
  BY <1>2, <1>3, SetAsSeq
<1>8. MostHit(R) \in Seq(LineRecords) /\ Range(MostHit(R)) = T
  BY <1>6, <1>7, AscendingIs
<1> QED BY <1>4, <1>5, <1>8
-----------------------------------------------------------------------------
(* Files *)

FileRecords == [path: Seq(STRING), lines: Seq(LineRecords), bc: Int, bt: Int]

\* <<path, line>> of the lines in files, and of those executed.
NumbersOf(f) == Numbers(Range(f.lines))
HitNumbersOf(f) == HitNumbers(Range(f.lines))
LinesIn(files) == UNION {{<<f.path, n>> : n \in NumbersOf(f)} : f \in Range(files)}
HitsIn(files) == UNION {{<<f.path, n>> : n \in HitNumbersOf(f)} : f \in Range(files)}
SaidLines(S) == {s.line : s \in S}
SaidHits(S) == {s.line : s \in {e \in S : e.hit}}

LEMMA InLines ==
    ASSUME NEW files, NEW x
    PROVE  /\ x \in LinesIn(files) <=>
                \E f \in Range(files) : \E n \in NumbersOf(f) : x = <<f.path, n>>
           /\ x \in HitsIn(files) <=>
                \E f \in Range(files) : \E n \in HitNumbersOf(f) : x = <<f.path, n>>
BY DEF LinesIn, HitsIn

\* Records as lines, one by one.
LEMMA Mapped ==
    ASSUME NEW V, NEW s \in Seq(V), NEW t, t = [j \in DOMAIN s |-> Line(s[j].n, s[j].c)],
           \A r \in V : r.n \in Int /\ r.c \in Int
    PROVE  t \in Seq(LineRecords) /\ Range(t) = {Line(r.n, r.c) : r \in Range(s)}
<1>1. Len(s) \in Nat /\ DOMAIN s = 1..Len(s) /\ \A j \in 1..Len(s) : s[j] \in V
  OBVIOUS
<1>2. \A j \in 1..Len(s) : Line(s[j].n, s[j].c) \in LineRecords
  BY <1>1 DEF Line, LineRecords
<1>3. t \in Seq(LineRecords)
  <2> DEFINE u == [j \in 1..Len(s) |-> Line(s[j].n, s[j].c)]
  <2>1. u \in [1..Len(s) -> LineRecords]
    BY <1>2
  <2>2. t = u
    BY <1>1
  <2> HIDE DEF u
  <2> QED BY <1>1, <2>1, <2>2
<1>4. Range(t) = {Line(r.n, r.c) : r \in Range(s)}
  <2>1. \A x : x \in Range(t) <=> \E j \in DOMAIN s : x = Line(s[j].n, s[j].c)
    BY DEF Range
  <2>2. \A x : x \in {Line(r.n, r.c) : r \in Range(s)} <=> \E j \in DOMAIN s : x = Line(s[j].n, s[j].c)
    BY DEF Range
  <2> QED BY <2>1, <2>2
<1> QED BY <1>3, <1>4

\* What the records of a file say, and what lines made of them have.
Says(lines, records) ==
    /\ Numbers(Range(lines)) = {r.n : r \in records}
    /\ HitNumbers(Range(lines)) = {r.n : r \in {q \in records : q.c > 0}}

LEMMA RecordsSay ==
    ASSUME NEW R, NEW S, S = {Line(r.n, r.c) : r \in R}
    PROVE  /\ Numbers(S) = {r.n : r \in R}
           /\ HitNumbers(S) = {r.n : r \in {q \in R : q.c > 0}}
<1>1. \A r : Line(r.n, r.c).n = r.n /\ Line(r.n, r.c).c = r.c
  BY DEF Line
<1>2. \A n : n \in Numbers(S) <=> \E r \in R : n = r.n
  <2>1. \A n : n \in Numbers(S) <=> \E r \in R : n = Line(r.n, r.c).n
    BY DEF Numbers
  <2> QED BY <1>1, <2>1
<1>3. \A n : n \in HitNumbers(S) <=> \E r \in R : n = r.n /\ r.c > 0
  <2>1. \A n : n \in HitNumbers(S) <=>
           \E r \in R : n = Line(r.n, r.c).n /\ Line(r.n, r.c).c > 0
    BY DEF HitNumbers
  <2> QED BY <1>1, <2>1
<1>4. Numbers(S) = {r.n : r \in R}
  BY <1>2
<1>5. HitNumbers(S) = {r.n : r \in {q \in R : q.c > 0}}
  BY <1>3
<1> QED BY <1>4, <1>5

LEMMA MappedSays ==
    ASSUME NEW R, NEW lines, Range(lines) = {Line(r.n, r.c) : r \in R}
    PROVE  Says(lines, R)
BY RecordsSay DEF Says

\* The records with a count of a file in a document.
Counted(f) == {r \in Range(f.recs) : r.has}

SaidBy(p, r) == [line |-> <<p, r.n>>, hit |-> r.c > 0]

LEMMA SaidByIs ==
    ASSUME NEW p, NEW r
    PROVE  SaidBy(p, r).line = <<p, r.n>> /\ (SaidBy(p, r).hit <=> r.c > 0)
BY DEF SaidBy

\* Files made one by one of those of a document, with what their records say.
LEMMA FilesFaithful ==
    ASSUME NEW d, NEW files, DOMAIN files = DOMAIN d.files,
           \A i \in DOMAIN files : /\ files[i].path = d.files[i].p
                                   /\ Says(files[i].lines, Counted(d.files[i]))
    PROVE  LinesIn(files) = SaidLines(FilesSaid(d)) /\ HitsIn(files) = SaidHits(FilesSaid(d))
<1> DEFINE S == FilesSaid(d)
<1>1. \A e : e \in S <=> \E i \in DOMAIN d.files : \E r \in Counted(d.files[i]) :
                            e = SaidBy(d.files[i].p, r)
  BY DEF FilesSaid, Counted, SaidBy
<1> HIDE DEF S
<1>3. ASSUME NEW x
      PROVE  x \in SaidLines(S) <=>
               \E i \in DOMAIN d.files : \E r \in Counted(d.files[i]) : x = <<d.files[i].p, r.n>>
  <2>1. x \in SaidLines(S) <=> \E e \in S : x = e.line
    BY DEF SaidLines
  <2>2. ASSUME NEW e \in S, x = e.line
        PROVE  \E i \in DOMAIN d.files : \E r \in Counted(d.files[i]) : x = <<d.files[i].p, r.n>>
    <3>1. PICK i \in DOMAIN d.files : \E r \in Counted(d.files[i]) : e = SaidBy(d.files[i].p, r)
      BY <1>1
    <3>2. PICK r \in Counted(d.files[i]) : e = SaidBy(d.files[i].p, r)
      BY <3>1
    <3>3. x = <<d.files[i].p, r.n>>
      BY <2>2, <3>2, SaidByIs
    <3> QED BY <3>3
  <2>3. ASSUME NEW i \in DOMAIN d.files, NEW r \in Counted(d.files[i]), x = <<d.files[i].p, r.n>>
        PROVE  \E e \in S : x = e.line
    <3>1. SaidBy(d.files[i].p, r) \in S
      BY <1>1
    <3>2. SaidBy(d.files[i].p, r).line = x
      BY <2>3, SaidByIs
    <3> QED BY <3>1, <3>2
  <2> QED BY <2>1, <2>2, <2>3
<1>4. ASSUME NEW x
      PROVE  x \in SaidHits(S) <=>
               \E i \in DOMAIN d.files : \E r \in Counted(d.files[i]) :
                  x = <<d.files[i].p, r.n>> /\ r.c > 0
  <2>1. x \in SaidHits(S) <=> \E e \in S : x = e.line /\ e.hit
    BY DEF SaidHits
  <2>2. ASSUME NEW e \in S, x = e.line, e.hit
        PROVE  \E i \in DOMAIN d.files : \E r \in Counted(d.files[i]) :
                  x = <<d.files[i].p, r.n>> /\ r.c > 0
    <3>1. PICK i \in DOMAIN d.files : \E r \in Counted(d.files[i]) : e = SaidBy(d.files[i].p, r)
      BY <1>1
    <3>2. PICK r \in Counted(d.files[i]) : e = SaidBy(d.files[i].p, r)
      BY <3>1
    <3>3. x = <<d.files[i].p, r.n>> /\ r.c > 0
      BY <2>2, <3>2, SaidByIs
    <3> QED BY <3>3
  <2>3. ASSUME NEW i \in DOMAIN d.files, NEW r \in Counted(d.files[i]),
               x = <<d.files[i].p, r.n>>, r.c > 0
        PROVE  \E e \in S : x = e.line /\ e.hit
    <3>1. SaidBy(d.files[i].p, r) \in S
      BY <1>1
    <3>2. SaidBy(d.files[i].p, r).line = x /\ SaidBy(d.files[i].p, r).hit
      BY <2>3, SaidByIs
    <3> QED BY <3>1, <3>2
  <2> QED BY <2>1, <2>2, <2>3
<1>5. ASSUME NEW i \in DOMAIN files
      PROVE  /\ NumbersOf(files[i]) = {r.n : r \in Counted(d.files[i])}
             /\ HitNumbersOf(files[i]) = {r.n : r \in {q \in Counted(d.files[i]) : q.c > 0}}
             /\ files[i].path = d.files[i].p
  BY <1>5 DEF Says, NumbersOf, HitNumbersOf
<1>6. \A x : x \in LinesIn(files) <=>
               \E i \in DOMAIN files : \E n \in NumbersOf(files[i]) : x = <<files[i].path, n>>
  BY DEF LinesIn, Range
<1>7. \A x : x \in HitsIn(files) <=>
               \E i \in DOMAIN files : \E n \in HitNumbersOf(files[i]) : x = <<files[i].path, n>>
  BY DEF HitsIn, Range
<1>8. LinesIn(files) = SaidLines(S)
  <2>1. \A x : x \in LinesIn(files) <=> x \in SaidLines(S)
    <3>1. \A i \in DOMAIN files : \A n : n \in NumbersOf(files[i]) <=>
             \E r \in Counted(d.files[i]) : n = r.n
      BY <1>5
    <3>2. \A x : x \in LinesIn(files) <=>
             \E i \in DOMAIN files : \E r \in Counted(d.files[i]) : x = <<d.files[i].p, r.n>>
      BY <1>5, <1>6, <3>1
    <3> QED BY <1>3, <3>2
  <2> QED BY <2>1
<1>9. HitsIn(files) = SaidHits(S)
  <2>1. \A x : x \in HitsIn(files) <=> x \in SaidHits(S)
    <3>1. \A i \in DOMAIN files : \A n : n \in HitNumbersOf(files[i]) <=>
             \E r \in Counted(d.files[i]) : n = r.n /\ r.c > 0
      BY <1>5
    <3>2. \A x : x \in HitsIn(files) <=>
             \E i \in DOMAIN files : \E r \in Counted(d.files[i]) :
                x = <<d.files[i].p, r.n>> /\ r.c > 0
      <4>1. \A i \in DOMAIN files : files[i].path = d.files[i].p
        BY <1>5
      <4>2. ASSUME NEW x, x \in HitsIn(files)
            PROVE  \E i \in DOMAIN files : \E r \in Counted(d.files[i]) :
                      x = <<d.files[i].p, r.n>> /\ r.c > 0
        <5>1. PICK i \in DOMAIN files : \E n \in HitNumbersOf(files[i]) : x = <<files[i].path, n>>
          BY <1>7, <4>2
        <5>2. PICK n \in HitNumbersOf(files[i]) : x = <<files[i].path, n>>
          BY <5>1
        <5>3. PICK r \in Counted(d.files[i]) : n = r.n /\ r.c > 0
          BY <3>1
        <5> QED BY <4>1, <5>2, <5>3
      <4>3. ASSUME NEW x, NEW i \in DOMAIN files, NEW r \in Counted(d.files[i]),
                   x = <<d.files[i].p, r.n>>, r.c > 0
            PROVE  x \in HitsIn(files)
        <5>1. r.n \in HitNumbersOf(files[i])
          BY <3>1, <4>3
        <5>2. x = <<files[i].path, r.n>>
          BY <4>1, <4>3
        <5> QED BY <1>7, <5>1, <5>2
      <4> QED BY <4>2, <4>3
    <3> QED BY <1>4, <3>2
  <2> QED BY <2>1
<1> QED BY <1>8, <1>9 DEF S

\* Files without lines say nothing.
LEMMA WithLinesIs ==
    ASSUME NEW files \in Seq(FileRecords)
    PROVE  /\ WithLines(files) \in Seq(FileRecords)
           /\ LinesIn(WithLines(files)) = LinesIn(files)
           /\ HitsIn(WithLines(files)) = HitsIn(files)
<1> DEFINE S == {f \in Range(files) : f.lines # << >>}
           with == WithLines(files)
<1>1. with \in Seq(FileRecords) /\ Range(with) = S
  <2>1. Only(files, S) \in Seq(FileRecords) /\ Range(Only(files, S)) = Range(files) \intersect S
    BY OnlyIs
  <2> QED BY <2>1 DEF WithLines
<1> HIDE DEF with
<1>2. \A f \in Range(files) : f \notin S => NumbersOf(f) = {} /\ HitNumbersOf(f) = {}
  <2>1. Range(<< >>) = {}
    BY DEF Range
  <2> QED BY <2>1 DEF NumbersOf, HitNumbersOf, Numbers, HitNumbers
<1>3. \A x : x \in LinesIn(with) <=> x \in LinesIn(files)
  BY <1>1, <1>2, InLines
<1>4. \A x : x \in HitsIn(with) <=> x \in HitsIn(files)
  BY <1>1, <1>2, InLines
<1> QED BY <1>1, <1>3, <1>4 DEF with
-----------------------------------------------------------------------------
(* The formats that are files *)

SourceLines == [n: Nat, c: Int, cb: Int, mb: Int, has: BOOLEAN]

LEMMA SourceTypes ==
    ASSUME NEW d \in FilesText
    PROVE  /\ d.files \in Seq(SourceFile) /\ Len(d.files) \in Nat
           /\ DOMAIN d.files = 1..Len(d.files)
           /\ d.totals = NoTotals \/ d.totals \in Sums
           /\ d.format \in {"omnivore", "python"} => d.totals \in Sums
           /\ \A i \in DOMAIN d.files :
                /\ d.files[i].p \in Path /\ d.files[i].p \in Seq(STRING)
                /\ d.files[i].bc \in Int /\ d.files[i].bt \in Int
                /\ d.files[i].recs \in Seq(SourceLines)
                /\ d.format # "llvm" => Counted(d.files[i]) = Range(d.files[i].recs)
                /\ d.format = "python" => \A r \in Range(d.files[i].recs) : r.c \in {0, 1}
<1>1. /\ d.files \in Seq(SourceFile) /\ d.totals \in Sums \union {NoTotals}
      /\ d.format \in {"omnivore", "python"} => d.totals # NoTotals
  BY DEF FilesText
<1>2. \A i \in DOMAIN d.files : \A r \in Range(d.files[i].recs) :
         (d.format # "llvm" => r.has) /\ (d.format = "python" => r.c \in {0, 1})
  BY DEF FilesText
<1>3. ASSUME NEW i \in DOMAIN d.files
      PROVE  /\ d.files[i].p \in Path /\ d.files[i].bc \in Int /\ d.files[i].bt \in Int
             /\ d.files[i].recs \in Seq(SourceLines)
  <2>1. d.files[i] \in SourceFile
    BY <1>1
  <2> QED BY <2>1 DEF SourceFile, SourceLines
<1>4. \A i \in DOMAIN d.files : d.files[i].p \in Seq(STRING)
  BY <1>3 DEF Path
<1>5. ASSUME NEW i \in DOMAIN d.files, d.format # "llvm"
      PROVE  Counted(d.files[i]) = Range(d.files[i].recs)
  BY <1>2, <1>5 DEF Counted
<1> QED BY <1>1, <1>2, <1>3, <1>4, <1>5

\* The elements of a sequence of records have their type.
LEMMA Elements ==
    ASSUME NEW V, NEW s \in Seq(V)
    PROVE  \A x \in Range(s) : x \in V
BY DEF Range

\* A sequence has finitely many elements.
LEMMA FiniteRange ==
    ASSUME NEW V, NEW s \in Seq(V)
    PROVE  IsFiniteSet(Range(s))
<1>1. Len(s) \in Nat /\ DOMAIN s = 1..Len(s)
  OBVIOUS
<1>2. IsFiniteSet(1..Len(s))
  BY <1>1, FS_Interval
<1>3. IsFiniteSet({s[i] : i \in 1..Len(s)})
  BY <1>1, <1>2, ImageFinite
<1> QED BY <1>1, <1>3 DEF Range

LEMMA AsInt32Is ==
    ASSUME NEW n \in Nat
    PROVE  AsInt32(n) \in Int /\ (n <= Int32 => AsInt32(n) = n)
<1>1. Int32 \in Nat
  BY FormatsAssumption
<1> DEFINE m == n + Int32 + 1
           k == 2 * (Int32 + 1)
<1>2. m \in Nat /\ k \in Nat /\ k > 0
  BY <1>1
<1>3. m % k \in 0..(k - 1)
  BY <1>2
<1>4. n <= Int32 => m < k
  BY <1>1
<1>5. ASSUME m < k PROVE m % k = m
  BY <1>2, <1>5
<1>6. AsInt32(n) = (m % k) - Int32 - 1
  BY DEF AsInt32
<1> HIDE DEF k
<1>7. AsInt32(n) \in Int
  BY <1>1, <1>2, <1>3, <1>6
<1>8. ASSUME n <= Int32 PROVE AsInt32(n) = n
  BY <1>1, <1>4, <1>5, <1>6, <1>8
<1> QED BY <1>7, <1>8

LEMMA SegmentsAre ==
    ASSUME NEW f \in SourceFile
    PROVE  /\ SegmentLines(f.recs) \in Seq(LineRecords)
           /\ (\A r \in Counted(f) : r.n <= Int32) => Says(SegmentLines(f.recs), Counted(f))
<1> DEFINE C == Counted(f)
           R == {Line(AsInt32(r.n), r.c) : r \in C}
<1>1. f.recs \in Seq(SourceLines)
  BY DEF SourceFile, SourceLines
<1>2. \A r \in C : r.n \in Nat /\ r.c \in Int
  <2>1. \A r \in Range(f.recs) : r \in SourceLines
    BY <1>1, Elements
  <2>2. \A r \in C : r \in SourceLines
    BY <2>1 DEF Counted
  <2> QED BY <2>2 DEF SourceLines
<1>3. IsFiniteSet(C)
  <2>1. IsFiniteSet(Range(f.recs))
    BY <1>1, FiniteRange
  <2> QED BY <2>1, FS_Subset DEF Counted
<1>4. SegmentLines(f.recs) = MostHit(R)
  BY DEF SegmentLines, Counted
<1> HIDE DEF C
<1>5. R \subseteq LineRecords
  BY <1>2, AsInt32Is DEF Line, LineRecords
<1>6. IsFiniteSet(R)
  <2> DEFINE g == [r \in C |-> Line(AsInt32(r.n), r.c)]
  <2>1. R = {g[r] : r \in C} /\ DOMAIN g = C
    OBVIOUS
  <2> HIDE DEF g, R
  <2> QED BY <1>3, <2>1, ImageFinite
<1>7. ASSUME \A r \in C : r.n <= Int32 PROVE R = {Line(r.n, r.c) : r \in C}
  <2>1. \A r \in C : AsInt32(r.n) = r.n
    BY <1>2, <1>7, AsInt32Is
  <2> QED BY <2>1
<1>8. /\ MostHit(R) \in Seq(LineRecords) /\ Numbers(Range(MostHit(R))) = Numbers(R)
      /\ HitNumbers(Range(MostHit(R))) = HitNumbers(R)
  <2> HIDE DEF R
  <2> QED BY <1>5, <1>6, MostHitIs
<1>9. ASSUME \A r \in C : r.n <= Int32 PROVE Says(MostHit(R), C)
  <2>1. Numbers(R) = {r.n : r \in C} /\ HitNumbers(R) = {r.n : r \in {q \in C : q.c > 0}}
    <3>1. R = {Line(r.n, r.c) : r \in C}
      BY <1>7, <1>9
    <3> HIDE DEF R
    <3> QED BY <3>1, RecordsSay
  <2> HIDE DEF R
  <2> QED BY <1>8, <2>1 DEF Says
<1> QED BY <1>4, <1>8, <1>9 DEF C
\* Files made one by one are a sequence of files.
LEMMA FilesAre ==
    ASSUME NEW d \in FilesText, NEW files, DOMAIN files = DOMAIN d.files,
           NEW lines, NEW bc, NEW bt,
           \A i \in DOMAIN d.files :
              /\ files[i] = File(d.files[i].p, lines[i], bc[i], bt[i])
              /\ lines[i] \in Seq(LineRecords) /\ bc[i] \in Int /\ bt[i] \in Int,
           files = [i \in DOMAIN files |-> files[i]]
    PROVE  files \in Seq(FileRecords)
<1>1. Len(d.files) \in Nat /\ DOMAIN d.files = 1..Len(d.files)
      /\ \A i \in DOMAIN d.files : d.files[i].p \in Seq(STRING)
  BY SourceTypes
<1>2. \A i \in DOMAIN d.files : files[i] \in FileRecords
  <2> SUFFICES ASSUME NEW i \in DOMAIN d.files PROVE files[i] \in FileRecords
    OBVIOUS
  <2>1. /\ d.files[i].p \in Seq(STRING) /\ lines[i] \in Seq(LineRecords)
        /\ bc[i] \in Int /\ bt[i] \in Int
    BY <1>1
  <2>2. File(d.files[i].p, lines[i], bc[i], bt[i]) \in FileRecords
    BY <2>1 DEF File, FileRecords
  <2> QED BY <2>2
<1>3. files \in [1..Len(d.files) -> FileRecords]
  BY <1>1, <1>2
<1> QED BY <1>1, <1>3

\* What the files of a parsed document are, before implausible lines are dropped.
Faithful(d, files) ==
    LinesIn(files) = SaidLines(Said(d)) /\ HitsIn(files) = SaidHits(Said(d))

LEMMA FilesSaidIs ==
    ASSUME NEW d \in FilesText
    PROVE  Said(d) = FilesSaid(d)
<1>1. d.format \in JsonFormats \union XmlFormats
  BY DEF FilesText
<1> QED BY <1>1 DEF Said, JsonFormats, XmlFormats

LEMMA ReadableFiles ==
    ASSUME NEW d \in FilesText, Readable(d)
    PROVE  \A i \in DOMAIN d.files : \A r \in Counted(d.files[i]) : r.n <= Int32
<1> SUFFICES ASSUME NEW i \in DOMAIN d.files, NEW r \in Counted(d.files[i])
             PROVE  r.n <= Int32
  OBVIOUS
<1>1. SaidBy(d.files[i].p, r) \in Said(d)
  BY FilesSaidIs DEF FilesSaid, Counted, SaidBy
<1>2. SaidBy(d.files[i].p, r).line[2] = r.n
  BY DEF SaidBy
<1> QED BY <1>1, <1>2 DEF Readable

LEMMA LlvmIs ==
    ASSUME NEW d \in FilesText, d.format = "llvm", Llvm(d) # NoReport
    PROVE  /\ Llvm(d).files \in Seq(FileRecords)
           /\ Readable(d) => Faithful(d, Llvm(d).files)
<1> DEFINE lines == [i \in DOMAIN d.files |-> SegmentLines(d.files[i].recs)]
           files == [i \in DOMAIN d.files |->
                       File(d.files[i].p, SegmentLines(d.files[i].recs),
                            d.files[i].bc, d.files[i].bt)]
<1>1. Llvm(d).files = WithLines(files)
  BY DEF Llvm
<1>2. \A i \in DOMAIN d.files : d.files[i] \in SourceFile
  BY DEF FilesText
<1>3. \A i \in DOMAIN d.files :
         /\ lines[i] \in Seq(LineRecords)
         /\ (\A r \in Counted(d.files[i]) : r.n <= Int32) => Says(lines[i], Counted(d.files[i]))
  BY <1>2, SegmentsAre
<1>4. \A i \in DOMAIN d.files : files[i] = File(d.files[i].p, lines[i], d.files[i].bc, d.files[i].bt)
  OBVIOUS
<1>5. files = [i \in DOMAIN files |-> files[i]] /\ DOMAIN files = DOMAIN d.files
  OBVIOUS
<1>6. files \in Seq(FileRecords)
  <2> DEFINE bc == [i \in DOMAIN d.files |-> d.files[i].bc]
             bt == [i \in DOMAIN d.files |-> d.files[i].bt]
  <2>1. \A i \in DOMAIN d.files :
           /\ files[i] = File(d.files[i].p, lines[i], bc[i], bt[i])
           /\ lines[i] \in Seq(LineRecords) /\ bc[i] \in Int /\ bt[i] \in Int
    BY <1>3, <1>4, SourceTypes
  <2> HIDE DEF bc, bt, files, lines
  <2> QED BY <1>5, <2>1, FilesAre
<1>7. ASSUME Readable(d) PROVE Faithful(d, files)
  <2>1. \A i \in DOMAIN files : /\ files[i].path = d.files[i].p
                                /\ Says(files[i].lines, Counted(d.files[i]))
    BY <1>3, <1>4, <1>5, <1>7, ReadableFiles DEF File
  <2> HIDE DEF files, lines
  <2> QED BY <1>5, <2>1, FilesFaithful, FilesSaidIs DEF Faithful
<1> HIDE DEF files, lines
<1> QED BY <1>1, <1>6, <1>7, WithLinesIs DEF Faithful
LEMMA JacocoIs ==
    ASSUME NEW d \in FilesText, d.format \in XmlFormats, Jacoco(d) # NoReport
    PROVE  Jacoco(d).files \in Seq(FileRecords) /\ Faithful(d, Jacoco(d).files)
<1> DEFINE lines == [i \in DOMAIN d.files |->
                       Ascending([j \in DOMAIN d.files[i].recs |->
                          Line(d.files[i].recs[j].n, d.files[i].recs[j].c)])]
           bc == [i \in DOMAIN d.files |->
                    Total([j \in DOMAIN d.files[i].recs |-> d.files[i].recs[j].cb])]
           bt == [i \in DOMAIN d.files |->
                    Total([j \in DOMAIN d.files[i].recs |->
                             d.files[i].recs[j].cb + d.files[i].recs[j].mb])]
           files == [i \in DOMAIN d.files |->
                       File(d.files[i].p,
                            Ascending([j \in DOMAIN d.files[i].recs |->
                               Line(d.files[i].recs[j].n, d.files[i].recs[j].c)]),
                            Total([j \in DOMAIN d.files[i].recs |-> d.files[i].recs[j].cb]),
                            Total([j \in DOMAIN d.files[i].recs |->
                                     d.files[i].recs[j].cb + d.files[i].recs[j].mb]))]
<1>1. Jacoco(d).files = WithLines(files)
  BY DEF Jacoco
<1>2. \A i \in DOMAIN d.files : files[i] = File(d.files[i].p, lines[i], bc[i], bt[i])
  OBVIOUS
<1>3. files = [i \in DOMAIN files |-> files[i]] /\ DOMAIN files = DOMAIN d.files
  OBVIOUS
<1>4. ASSUME NEW i \in DOMAIN d.files
      PROVE  /\ lines[i] \in Seq(LineRecords) /\ bc[i] \in Int /\ bt[i] \in Int
             /\ Says(lines[i], Counted(d.files[i]))
  <2> DEFINE recs == d.files[i].recs
             t == [j \in DOMAIN recs |-> Line(recs[j].n, recs[j].c)]
  <2>1. recs \in Seq(SourceLines) /\ Counted(d.files[i]) = Range(recs)
    BY SourceTypes DEF XmlFormats
  <2>2. t \in Seq(LineRecords) /\ Range(t) = {Line(r.n, r.c) : r \in Range(recs)}
    <3>1. \A r \in SourceLines : r.n \in Int /\ r.c \in Int
      BY DEF SourceLines
    <3> HIDE DEF recs
    <3> QED BY <2>1, <3>1, Mapped
  <2>3. lines[i] = Ascending(t)
    OBVIOUS
  <2>4. Ascending(t) \in Seq(LineRecords) /\ Range(Ascending(t)) = Range(t)
    <3> HIDE DEF t
    <3> QED BY <2>2, AscendingIs
  <2>5. Says(lines[i], Counted(d.files[i]))
    <3>1. Range(lines[i]) = {Line(r.n, r.c) : r \in Range(recs)}
      BY <2>2, <2>3, <2>4
    <3> HIDE DEF recs, lines
    <3> QED BY <2>1, <3>1, MappedSays
  <2>6. bc[i] \in Int /\ bt[i] \in Int
    <3> DEFINE n == Len(recs)
               u == [j \in DOMAIN recs |-> recs[j].cb]
               v == [j \in DOMAIN recs |-> recs[j].cb + recs[j].mb]
    <3>1. n \in Nat /\ DOMAIN recs = 1..n /\ \A j \in 1..n : recs[j].cb \in Int /\ recs[j].mb \in Int
      <4>1. n \in Nat /\ DOMAIN recs = 1..n /\ \A j \in 1..n : recs[j] \in SourceLines
        BY <2>1
      <4> QED BY <4>1 DEF SourceLines
    <3>2. u \in [1..n -> Int] /\ v \in [1..n -> Int]
      BY <3>1
    <3>3. bc[i] = Total(u) /\ bt[i] = Total(v)
      OBVIOUS
    <3> HIDE DEF u, v, n, bc, bt
    <3> QED BY <3>1, <3>2, <3>3, TotalType
  <2> QED BY <2>3, <2>4, <2>5, <2>6
<1>5. files \in Seq(FileRecords)
  <2>1. \A i \in DOMAIN d.files :
           /\ files[i] = File(d.files[i].p, lines[i], bc[i], bt[i])
           /\ lines[i] \in Seq(LineRecords) /\ bc[i] \in Int /\ bt[i] \in Int
    BY <1>2, <1>4
  <2> HIDE DEF bc, bt, files, lines
  <2> QED BY <1>3, <2>1, FilesAre
<1>6. Faithful(d, files)
  <2>1. \A i \in DOMAIN files : /\ files[i].path = d.files[i].p
                                /\ Says(files[i].lines, Counted(d.files[i]))
    <3>1. \A p, l, c, b : File(p, l, c, b).path = p /\ File(p, l, c, b).lines = l
      BY DEF File
    <3>2. \A i \in DOMAIN files :
             /\ files[i] = File(d.files[i].p, lines[i], bc[i], bt[i])
             /\ Says(lines[i], Counted(d.files[i]))
      BY <1>2, <1>3, <1>4
    <3> HIDE DEF bc, bt, files, lines
    <3> QED BY <3>1, <3>2
  <2> HIDE DEF files, lines
  <2> QED BY <1>3, <2>1, FilesFaithful, FilesSaidIs DEF Faithful
<1> HIDE DEF files, lines
<1> QED BY <1>1, <1>5, <1>6, WithLinesIs DEF Faithful

LEMMA OmnivoreIs ==
    ASSUME NEW d \in FilesText, d.format = "omnivore"
    PROVE  /\ Omnivore(d).files \in Seq(FileRecords) /\ Faithful(d, Omnivore(d).files)
           /\ Omnivore(d).sum \in Sums
<1> DEFINE lines == [i \in DOMAIN d.files |->
                       [j \in DOMAIN d.files[i].recs |->
                          Line(d.files[i].recs[j].n, d.files[i].recs[j].c)]]
           bc == [i \in DOMAIN d.files |-> d.files[i].bc]
           bt == [i \in DOMAIN d.files |-> d.files[i].bt]
           files == Omnivore(d).files
<1>1. files = [i \in DOMAIN d.files |-> File(d.files[i].p, lines[i], bc[i], bt[i])]
  BY DEF Omnivore
<1>2. \A i \in DOMAIN d.files : files[i] = File(d.files[i].p, lines[i], bc[i], bt[i])
  <2> HIDE DEF bc, bt, files, lines
  <2> QED BY <1>1
<1>3. files = [i \in DOMAIN files |-> files[i]] /\ DOMAIN files = DOMAIN d.files
  <2> HIDE DEF bc, bt, files, lines
  <2> QED BY <1>1
<1>4. ASSUME NEW i \in DOMAIN d.files
      PROVE  /\ lines[i] \in Seq(LineRecords) /\ bc[i] \in Int /\ bt[i] \in Int
             /\ Says(lines[i], Counted(d.files[i]))
  <2> DEFINE recs == d.files[i].recs
             t == [j \in DOMAIN recs |-> Line(recs[j].n, recs[j].c)]
  <2>1. recs \in Seq(SourceLines) /\ Counted(d.files[i]) = Range(recs)
    BY SourceTypes
  <2>2. t \in Seq(LineRecords) /\ Range(t) = {Line(r.n, r.c) : r \in Range(recs)}
    <3>1. \A r \in SourceLines : r.n \in Int /\ r.c \in Int
      BY DEF SourceLines
    <3> HIDE DEF recs
    <3> QED BY <2>1, <3>1, Mapped
  <2>3. lines[i] = t
    OBVIOUS
  <2>4. Says(lines[i], Counted(d.files[i]))
    <3>1. Range(lines[i]) = {Line(r.n, r.c) : r \in Range(recs)}
      BY <2>2, <2>3
    <3> HIDE DEF recs, lines
    <3> QED BY <2>1, <3>1, MappedSays
  <2> QED BY <2>2, <2>3, <2>4, SourceTypes
<1>5. files \in Seq(FileRecords)
  <2>1. \A i \in DOMAIN d.files :
           /\ files[i] = File(d.files[i].p, lines[i], bc[i], bt[i])
           /\ lines[i] \in Seq(LineRecords) /\ bc[i] \in Int /\ bt[i] \in Int
    BY <1>2, <1>4
  <2> HIDE DEF bc, bt, files, lines
  <2> QED BY <1>3, <2>1, FilesAre
<1>6. Faithful(d, files)
  <2>1. \A i \in DOMAIN files : /\ files[i].path = d.files[i].p
                                /\ Says(files[i].lines, Counted(d.files[i]))
    <3>1. \A p, l, c, b : File(p, l, c, b).path = p /\ File(p, l, c, b).lines = l
      BY DEF File
    <3>2. \A i \in DOMAIN files :
             /\ files[i] = File(d.files[i].p, lines[i], bc[i], bt[i])
             /\ Says(lines[i], Counted(d.files[i]))
      BY <1>2, <1>3, <1>4
    <3> HIDE DEF bc, bt, files, lines
    <3> QED BY <3>1, <3>2
  <2> HIDE DEF files, lines
  <2> QED BY <1>3, <2>1, FilesFaithful, FilesSaidIs DEF Faithful
<1>7. Omnivore(d).sum \in Sums
  BY SourceTypes DEF Omnivore
<1> QED BY <1>5, <1>6, <1>7
\* The lines of a coverage.py file that have count c.
LEMMA PartIs ==
    ASSUME NEW recs \in Seq(SourceLines), NEW c \in {0, 1}, NEW rs,
           rs = Only(recs, {r \in Range(recs) : r.c = c}),
           NEW part, part = [j \in DOMAIN rs |-> Line(rs[j].n, c)]
    PROVE  /\ part \in Seq(LineRecords)
           /\ Range(part) = {Line(r.n, r.c) : r \in {q \in Range(recs) : q.c = c}}
<1> DEFINE S == {r \in Range(recs) : r.c = c}
<1>1. rs \in Seq(SourceLines) /\ Range(rs) = S
  <2>1. /\ Only(recs, S) \in Seq(SourceLines)
        /\ Range(Only(recs, S)) = Range(recs) \intersect S
    BY OnlyIs
  <2> QED BY <2>1
<1>2. \A j \in DOMAIN rs : rs[j].c = c
  BY <1>1 DEF Range
<1>3. part = [j \in DOMAIN rs |-> Line(rs[j].n, rs[j].c)]
  BY <1>2
<1>4. \A r \in SourceLines : r.n \in Int /\ r.c \in Int
  BY DEF SourceLines
<1>5. part \in Seq(LineRecords) /\ Range(part) = {Line(r.n, r.c) : r \in Range(rs)}
  BY <1>1, <1>3, <1>4, Mapped
<1> QED BY <1>1, <1>5

LEMMA PythonIs ==
    ASSUME NEW d \in FilesText, d.format = "python", Python(d) # NoReport
    PROVE  /\ Python(d).files \in Seq(FileRecords) /\ Faithful(d, Python(d).files)
           /\ Python(d).sum \in Sums
<1> DEFINE rs(i, c) == Only(d.files[i].recs, {r \in Range(d.files[i].recs) : r.c = c})
           part(i, c) == [j \in DOMAIN rs(i, c) |-> Line(rs(i, c)[j].n, c)]
           lines == [i \in DOMAIN d.files |-> Ascending(part(i, 1) \o part(i, 0))]
           bc == [i \in DOMAIN d.files |-> IF d.branches THEN d.files[i].bc ELSE 0]
           bt == [i \in DOMAIN d.files |-> IF d.branches THEN d.files[i].bt ELSE 0]
           files == Python(d).files
<1>1. files = [i \in DOMAIN d.files |-> File(d.files[i].p, lines[i], bc[i], bt[i])]
      /\ Python(d).sum = d.totals
  BY DEF Python
<1>2. \A i \in DOMAIN d.files : files[i] = File(d.files[i].p, lines[i], bc[i], bt[i])
  <2> HIDE DEF bc, bt, files, lines
  <2> QED BY <1>1
<1>3. files = [i \in DOMAIN files |-> files[i]] /\ DOMAIN files = DOMAIN d.files
  <2> HIDE DEF bc, bt, files, lines
  <2> QED BY <1>1
<1>4. ASSUME NEW i \in DOMAIN d.files
      PROVE  /\ lines[i] \in Seq(LineRecords) /\ bc[i] \in Int /\ bt[i] \in Int
             /\ Says(lines[i], Counted(d.files[i]))
  <2> DEFINE recs == d.files[i].recs
             one == part(i, 1)
             none == part(i, 0)
             t == one \o none
             R(c) == {Line(r.n, r.c) : r \in {q \in Range(recs) : q.c = c}}
  <2>1. /\ recs \in Seq(SourceLines) /\ Counted(d.files[i]) = Range(recs)
        /\ \A r \in Range(recs) : r.c \in {0, 1}
    BY SourceTypes
  <2>2. one \in Seq(LineRecords) /\ Range(one) = R(1)
    BY <2>1, PartIs
  <2>3. none \in Seq(LineRecords) /\ Range(none) = R(0)
    BY <2>1, PartIs
  <2>4. t \in Seq(LineRecords) /\ Range(t) = R(1) \union R(0)
    <3> HIDE DEF one, none, R
    <3> QED BY <2>2, <2>3, Concat, RangeConcat
  <2>5. R(1) \union R(0) = {Line(r.n, r.c) : r \in Range(recs)}
    <3> HIDE DEF recs
    <3> QED BY <2>1
  <2>6. lines[i] = Ascending(t)
    OBVIOUS
  <2>7. Ascending(t) \in Seq(LineRecords) /\ Range(Ascending(t)) = Range(t)
    <3> HIDE DEF t
    <3> QED BY <2>4, AscendingIs
  <2>8. Says(lines[i], Counted(d.files[i]))
    <3>1. Range(lines[i]) = {Line(r.n, r.c) : r \in Range(recs)}
      BY <2>4, <2>5, <2>6, <2>7
    <3> HIDE DEF recs, lines
    <3> QED BY <2>1, <3>1, MappedSays
  <2>9. bc[i] \in Int /\ bt[i] \in Int
    BY SourceTypes
  <2> QED BY <2>6, <2>7, <2>8, <2>9
<1>5. files \in Seq(FileRecords)
  <2>1. \A i \in DOMAIN d.files :
           /\ files[i] = File(d.files[i].p, lines[i], bc[i], bt[i])
           /\ lines[i] \in Seq(LineRecords) /\ bc[i] \in Int /\ bt[i] \in Int
    BY <1>2, <1>4
  <2> HIDE DEF bc, bt, files, lines
  <2> QED BY <1>3, <2>1, FilesAre
<1>6. Faithful(d, files)
  <2>1. \A i \in DOMAIN files : /\ files[i].path = d.files[i].p
                                /\ Says(files[i].lines, Counted(d.files[i]))
    <3>1. \A p, l, c, b : File(p, l, c, b).path = p /\ File(p, l, c, b).lines = l
      BY DEF File
    <3>2. \A i \in DOMAIN files :
             /\ files[i] = File(d.files[i].p, lines[i], bc[i], bt[i])
             /\ Says(lines[i], Counted(d.files[i]))
      BY <1>2, <1>3, <1>4
    <3> HIDE DEF bc, bt, files, lines
    <3> QED BY <3>1, <3>2
  <2> HIDE DEF files, lines
  <2> QED BY <1>3, <2>1, FilesFaithful, FilesSaidIs DEF Faithful
<1>7. d.totals \in Sums
  BY SourceTypes
<1> QED BY <1>1, <1>5, <1>6, <1>7

-----------------------------------------------------------------------------
(* Totals *)

LEMMA HitLinesType ==
    ASSUME NEW s \in Seq(LineRecords)
    PROVE  HitLines(s) \in Nat
<1>1. Len(s) \in Nat /\ DOMAIN s = 1..Len(s)
  OBVIOUS
<1>2. IsFiniteSet({i \in DOMAIN s : s[i].c > 0})
  <2> DEFINE T == {i \in DOMAIN s : s[i].c > 0}
  <2>1. IsFiniteSet(1..Len(s))
    BY <1>1, FS_Interval
  <2>2. T \subseteq 1..Len(s)
    BY <1>1
  <2> HIDE DEF T
  <2> QED BY <2>1, <2>2, FS_Subset DEF T
<1> QED BY <1>2, FS_CardinalityType DEF HitLines

LEMMA SumTypes ==
    ASSUME NEW files \in Seq(FileRecords)
    PROVE  LinesOf(files) \in Sums /\ CountsOf(files) \in Sums
<1> DEFINE n == Len(files)
           lc == [i \in DOMAIN files |-> HitLines(files[i].lines)]
           lt == [i \in DOMAIN files |-> Len(files[i].lines)]
           bc == [i \in DOMAIN files |-> files[i].bc]
           bt == [i \in DOMAIN files |-> files[i].bt]
<1>1. /\ n \in Nat /\ DOMAIN files = 1..n
      /\ \A i \in 1..n : files[i] \in FileRecords
  OBVIOUS
<1>2. \A i \in 1..n : /\ files[i].lines \in Seq(LineRecords)
                      /\ files[i].bc \in Int /\ files[i].bt \in Int
  BY <1>1 DEF FileRecords
<1>3. \A i \in 1..n : HitLines(files[i].lines) \in Int /\ Len(files[i].lines) \in Int
  BY <1>2, HitLinesType
<1>4. /\ lc \in [1..n -> Int] /\ lt \in [1..n -> Int]
      /\ bc \in [1..n -> Int] /\ bt \in [1..n -> Int]
  BY <1>1, <1>2, <1>3
<1>5. Total(lc) \in Int /\ Total(lt) \in Int /\ Total(bc) \in Int /\ Total(bt) \in Int
  <2> HIDE DEF lc, lt, bc, bt, n
  <2> QED BY <1>1, <1>4, TotalType
<1>6. LinesOf(files) = [lc |-> Total(lc), lt |-> Total(lt), bc |-> 0, bt |-> 0]
  BY DEF LinesOf
<1>7. CountsOf(files) = [LinesOf(files) EXCEPT !.bc = Total(bc), !.bt = Total(bt)]
  BY DEF CountsOf
<1> HIDE DEF lc, lt, bc, bt
<1>8. LinesOf(files) \in Sums
  BY <1>5, <1>6 DEF Sums
<1>9. PICK r \in Sums, x \in Int, y \in Int :
         r = LinesOf(files) /\ x = Total(bc) /\ y = Total(bt)
  BY <1>5, <1>8
<1>10. CountsOf(files) = [r EXCEPT !.bc = x, !.bt = y]
  BY <1>7, <1>9
<1>11. [r EXCEPT !.bc = x, !.bt = y] \in Sums
  BY DEF Sums
<1> QED BY <1>8, <1>10, <1>11

\* The totals of the formats that may leave them out.
LEMMA FileSums ==
    ASSUME NEW d \in FilesText
    PROVE  /\ d.format = "llvm" /\ Llvm(d) # NoReport => Llvm(d).sum \in Sums
           /\ d.format \in XmlFormats /\ Jacoco(d) # NoReport => Jacoco(d).sum \in Sums
<1>1. ASSUME d.format = "llvm", Llvm(d) # NoReport PROVE Llvm(d).sum \in Sums
  <2>1. Llvm(d).sum = IF d.totals = NoTotals THEN LinesOf(Llvm(d).files) ELSE d.totals
    BY <1>1 DEF Llvm
  <2>2. Llvm(d).files \in Seq(FileRecords)
    BY <1>1, LlvmIs
  <2> QED BY <2>1, <2>2, SumTypes, SourceTypes
<1>2. ASSUME d.format \in XmlFormats, Jacoco(d) # NoReport PROVE Jacoco(d).sum \in Sums
  <2>1. Jacoco(d).sum = IF d.totals = NoTotals THEN CountsOf(Jacoco(d).files) ELSE d.totals
    BY <1>2 DEF Jacoco
  <2>2. Jacoco(d).files \in Seq(FileRecords)
    BY <1>2, JacocoIs
  <2> QED BY <2>1, <2>2, SumTypes, SourceTypes
<1> QED BY <1>1, <1>2
-----------------------------------------------------------------------------
(* Go *)

GoRelative(d, p) == Relative(p, {d.recs[i].p : i \in Blocks(d)})

LEMMA GoTypes ==
    ASSUME NEW d, d.recs \in Seq(GoText)
    PROVE  /\ Len(d.recs) \in Nat /\ Blocks(d) \subseteq 1..Len(d.recs)
           /\ IsFiniteSet(Blocks(d))
           /\ \A i \in Blocks(d) : /\ d.recs[i].p \in Path /\ d.recs[i].a \in Int
                                   /\ d.recs[i].b \in Int /\ d.recs[i].c \in Int
<1>1. Len(d.recs) \in Nat /\ DOMAIN d.recs = 1..Len(d.recs)
      /\ \A i \in DOMAIN d.recs : d.recs[i] \in GoText
  OBVIOUS
<1>2. Blocks(d) \subseteq 1..Len(d.recs)
  BY <1>1 DEF Blocks
<1>3. IsFiniteSet(Blocks(d))
  <2>1. IsFiniteSet(1..Len(d.recs))
    BY <1>1, FS_Interval
  <2> QED BY <1>2, <2>1, FS_Subset
<1>4. ASSUME NEW i \in Blocks(d)
      PROVE  /\ d.recs[i].p \in Path /\ d.recs[i].a \in Int
             /\ d.recs[i].b \in Int /\ d.recs[i].c \in Int
  <2>1. d.recs[i] \in GoText /\ d.recs[i].k = "block"
    BY <1>1 DEF Blocks
  <2> QED BY <2>1 DEF GoText
<1> QED BY <1>1, <1>2, <1>3, <1>4

\* The paths share fewer directories than any has components.
LEMMA SharedIs ==
    ASSUME NEW paths, paths \subseteq Path, IsFiniteSet(paths), paths # {}
    PROVE  /\ SharedDirs(paths) \in Nat
           /\ \A p \in paths : Relative(p, paths) \in Seq(STRING)
<1> DEFINE lens == {Len(p) : p \in paths}
           K == {k \in 0..Max(lens) :
                   \A p, q \in paths : Len(p) > k /\ SubSeq(p, 1, k) = SubSeq(q, 1, k)}
<1>1. \A p \in paths : p \in Seq(STRING) /\ Len(p) \in Nat /\ Len(p) > 0
  BY DEF Path
<1>2. IsFiniteSet(lens)
  <2> DEFINE f == [p \in paths |-> Len(p)]
  <2>1. lens = {f[p] : p \in paths} /\ DOMAIN f = paths
    OBVIOUS
  <2> HIDE DEF f, lens
  <2> QED BY <2>1, ImageFinite
<1>3. lens \subseteq Nat /\ lens # {}
  BY <1>1
<1>4. Max(lens) \in Nat
  <2> HIDE DEF lens
  <2>1. lens \subseteq Int
    BY <1>3
  <2>2. Max(lens) \in lens
    BY <1>2, <1>3, <2>1, FiniteMax
  <2> QED BY <1>3, <2>2
<1>5. 0 \in K
  <2>1. \A p, q \in paths : SubSeq(p, 1, 0) = SubSeq(q, 1, 0)
    BY <1>1
  <2> HIDE DEF lens
  <2> QED BY <1>1, <1>4, <2>1
<1>6. Max(K) \in K
  <2>1. K \subseteq 0..Max(lens) /\ K # {}
    BY <1>5
  <2> HIDE DEF K, lens
  <2> QED BY <1>4, <2>1, GreatestNumber
<1>7. SharedDirs(paths) = Max(K)
  BY DEF SharedDirs
<1>8. SharedDirs(paths) \in Nat
  BY <1>4, <1>6, <1>7
<1>9. \A p \in paths : SubSeq(p, SharedDirs(paths) + 1, Len(p)) \in Seq(STRING)
  <2> PICK m \in Nat : m = SharedDirs(paths)
    BY <1>8
  <2> QED BY <1>1
<1> QED BY <1>8, <1>9 DEF Relative

\* The lines of a path are those of its blocks.
LEMMA GoLinesAre ==
    ASSUME NEW d, d.recs \in Seq(GoText), \A i \in Blocks(d) : ~Implausible(d.recs[i]),
           NEW p
    PROVE  /\ GoLines(d, p) \in Seq(LineRecords)
           /\ \A n : n \in Numbers(Range(GoLines(d, p))) <=>
                       \E i \in Blocks(d) : d.recs[i].p = p /\ n \in d.recs[i].a..d.recs[i].b
           /\ \A n : n \in HitNumbers(Range(GoLines(d, p))) <=>
                       \E i \in Blocks(d) : /\ d.recs[i].p = p
                                            /\ n \in d.recs[i].a..d.recs[i].b
                                            /\ d.recs[i].c > 0
<1> DEFINE I == {j \in Blocks(d) : d.recs[j].p = p}
           R == UNION {{Line(n, d.recs[i].c) : n \in d.recs[i].a..d.recs[i].b} : i \in I}
<1>1. GoLines(d, p) = MostHit(R)
  BY DEF GoLines
<1>2. \A x : x \in R <=> \E i \in I : \E n \in d.recs[i].a..d.recs[i].b : x = Line(n, d.recs[i].c)
  OBVIOUS
<1>3. \A i \in I : /\ i \in Blocks(d) /\ d.recs[i].c \in Int
                   /\ \A n \in d.recs[i].a..d.recs[i].b : n \in 1..MaxLine
  <2>1. MaxLine \in Nat
    BY FormatsAssumption
  <2>2. ASSUME NEW i \in Blocks(d), NEW n \in d.recs[i].a..d.recs[i].b
        PROVE  n \in 1..MaxLine
    <3>1. d.recs[i].a \in Int /\ d.recs[i].b \in Int /\ ~Implausible(d.recs[i])
      BY GoTypes
    <3> QED BY <2>1, <3>1 DEF Implausible
  <2> QED BY <2>2, GoTypes
<1>4. \A n, c : Line(n, c).n = n /\ Line(n, c).c = c
  BY DEF Line
<1> HIDE DEF R, I
<1>5. R \subseteq LineRecords
  <2> SUFFICES ASSUME NEW x \in R PROVE x \in LineRecords
    OBVIOUS
  <2>1. PICK i \in I : \E n \in d.recs[i].a..d.recs[i].b : x = Line(n, d.recs[i].c)
    BY <1>2
  <2>2. PICK n \in d.recs[i].a..d.recs[i].b : x = Line(n, d.recs[i].c)
    BY <2>1
  <2> QED BY <1>3, <2>2 DEF Line, LineRecords
<1>6. IsFiniteSet(R)
  <2> DEFINE D == Blocks(d) \X (1..MaxLine)
             g == [x \in D |-> Line(x[2], d.recs[x[1]].c)]
  <2>1. IsFiniteSet(Blocks(d)) /\ IsFiniteSet(1..MaxLine)
    <3>1. MaxLine \in Nat
      BY FormatsAssumption
    <3> QED BY <3>1, GoTypes, FS_Interval
  <2>2. IsFiniteSet(D)
    BY <2>1, FS_Product
  <2>3. IsFiniteSet({g[x] : x \in D})
    <3>1. DOMAIN g = D
      OBVIOUS
    <3> HIDE DEF g, D
    <3> QED BY <2>2, <3>1, ImageFinite
  <2>4. R \subseteq {g[x] : x \in D}
    <3> SUFFICES ASSUME NEW y \in R PROVE \E x \in D : y = g[x]
      OBVIOUS
    <3>1. PICK i \in I : \E n \in d.recs[i].a..d.recs[i].b : y = Line(n, d.recs[i].c)
      BY <1>2
    <3>2. PICK n \in d.recs[i].a..d.recs[i].b : y = Line(n, d.recs[i].c)
      BY <3>1
    <3>3. <<i, n>> \in D /\ g[<<i, n>>] = y
      BY <1>3, <3>2
    <3> QED BY <3>3
  <2> QED BY <2>3, <2>4, FS_Subset
<1>7. /\ MostHit(R) \in Seq(LineRecords) /\ Numbers(Range(MostHit(R))) = Numbers(R)
      /\ HitNumbers(Range(MostHit(R))) = HitNumbers(R)
  BY <1>5, <1>6, MostHitIs
<1>8. ASSUME NEW n
      PROVE  n \in Numbers(R) <=> \E i \in I : n \in d.recs[i].a..d.recs[i].b
  <2>1. n \in Numbers(R) <=> \E x \in R : n = x.n
    BY DEF Numbers
  <2> QED BY <1>2, <1>4, <2>1
<1>9. ASSUME NEW n
      PROVE  n \in HitNumbers(R) <=>
               \E i \in I : n \in d.recs[i].a..d.recs[i].b /\ d.recs[i].c > 0
  <2>1. n \in HitNumbers(R) <=> \E x \in R : n = x.n /\ x.c > 0
    BY DEF HitNumbers
  <2> QED BY <1>2, <1>4, <2>1
<1>10. \A i : i \in I <=> i \in Blocks(d) /\ d.recs[i].p = p
  BY DEF I
<1> QED BY <1>1, <1>7, <1>8, <1>9, <1>10
BlockSays(d, paths, i, n) ==
    [line |-> <<Relative(d.recs[i].p, paths), n>>, hit |-> d.recs[i].c > 0]

LEMMA BlockSaysIs ==
    ASSUME NEW d, NEW paths, NEW i, NEW n
    PROVE  /\ BlockSays(d, paths, i, n).line = <<Relative(d.recs[i].p, paths), n>>
           /\ BlockSays(d, paths, i, n).hit <=> d.recs[i].c > 0
BY DEF BlockSays

LEMMA GoIs ==
    ASSUME NEW d, d.format = "go", d.recs \in Seq(GoText), Go(d) # NoReport
    PROVE  /\ Go(d).files \in Seq(FileRecords) /\ Faithful(d, Go(d).files)
           /\ Go(d).sum \in Sums
           /\ \A s \in Said(d) : Plausible(s.line[2])
<1> DEFINE paths == {d.recs[i].p : i \in Blocks(d)}
           rel(p) == Relative(p, paths)
           lines(p) == GoLines(d, p)
           F(p) == File(Relative(p, paths), GoLines(d, p), 0, 0)
           S == {F(p) : p \in paths}
<1>1. (\A i \in Blocks(d) : ~Implausible(d.recs[i])) /\ paths # {}
  BY DEF Go
<1>2. Go(d).files = SetToSeq(S) /\ Go(d).sum = CountsOf(SetToSeq(S))
  BY <1>1 DEF Go
<1>3. IsFiniteSet(paths) /\ paths \subseteq Path
  <2> DEFINE g == [i \in Blocks(d) |-> d.recs[i].p]
  <2>1. paths = {g[i] : i \in Blocks(d)} /\ DOMAIN g = Blocks(d)
    OBVIOUS
  <2>2. IsFiniteSet(paths)
    <3> HIDE DEF g, paths
    <3> QED BY <2>1, GoTypes, ImageFinite
  <2> QED BY <2>2, GoTypes
<1>4. \A p \in paths : rel(p) \in Seq(STRING)
  <2> HIDE DEF paths
  <2> QED BY <1>1, <1>3, SharedIs
<1>5. \A p : lines(p) \in Seq(LineRecords)
  BY <1>1, GoLinesAre
<1>6. \A p \in paths : F(p) = File(rel(p), lines(p), 0, 0)
  OBVIOUS
<1>7. \A p \in paths : F(p) \in FileRecords /\ F(p).path = rel(p) /\ F(p).lines = lines(p)
  <2> HIDE DEF paths, F, rel, lines
  <2> QED BY <1>4, <1>5, <1>6 DEF File, FileRecords
<1>8. IsFiniteSet(S)
  <2> DEFINE g == [p \in paths |-> F(p)]
  <2>1. S = {g[p] : p \in paths} /\ DOMAIN g = paths
    OBVIOUS
  <2> HIDE DEF g, paths, S
  <2> QED BY <1>3, <2>1, ImageFinite
<1>9. SetToSeq(S) \in Seq(S) /\ Range(SetToSeq(S)) = S
  <2> HIDE DEF S
  <2> QED BY <1>8, SetAsSeq
<1>10. S \subseteq FileRecords
  <2> HIDE DEF paths, F
  <2> QED BY <1>7
<1>11. Go(d).files \in Seq(FileRecords)
  <2> HIDE DEF S
  <2> QED BY <1>2, <1>9, <1>10
<1>12. Go(d).sum \in Sums
  <2> HIDE DEF S
  <2> QED BY <1>2, <1>11, SumTypes
<1> DEFINE files == Go(d).files
           T(i, n) == BlockSays(d, paths, i, n)
<1>13. \A f : f \in Range(files) <=> \E p \in paths : f = F(p)
  <2>1. Range(files) = S
    <3> HIDE DEF S
    <3> QED BY <1>2, <1>9
  <2> HIDE DEF F, paths
  <2> QED BY <2>1
<1>14. \A x : x \in paths <=> \E i \in Blocks(d) : x = d.recs[i].p
  OBVIOUS
<1>15. \A s : s \in Said(d) <=>
          \E i \in Blocks(d) : \E n \in d.recs[i].a..d.recs[i].b : s = T(i, n)
  <2>1. Said(d) = GoSaid(d)
    BY DEF Said
  <2>2. GoSaid(d) = UNION {{T(i, n) : n \in d.recs[i].a..d.recs[i].b} : i \in Blocks(d)}
    BY DEF GoSaid, BlockSays
  <2> HIDE DEF T
  <2> QED BY <2>1, <2>2
<1>16. ASSUME NEW i, NEW n
       PROVE  T(i, n).line = <<rel(d.recs[i].p), n>> /\ (T(i, n).hit <=> d.recs[i].c > 0)
  BY BlockSaysIs
<1> HIDE DEF files, paths, S, F, T, rel, lines
<1>17. ASSUME NEW x
       PROVE  x \in SaidLines(Said(d)) <=>
                \E i \in Blocks(d) : \E n \in d.recs[i].a..d.recs[i].b :
                   x = <<rel(d.recs[i].p), n>>
  <2>1. x \in SaidLines(Said(d)) <=> \E s \in Said(d) : x = s.line
    BY DEF SaidLines
  <2>2. ASSUME NEW s \in Said(d), x = s.line
        PROVE  \E i \in Blocks(d) : \E n \in d.recs[i].a..d.recs[i].b :
                  x = <<rel(d.recs[i].p), n>>
    <3>1. PICK i \in Blocks(d) : \E n \in d.recs[i].a..d.recs[i].b : s = T(i, n)
      BY <1>15
    <3>2. PICK n \in d.recs[i].a..d.recs[i].b : s = T(i, n)
      BY <3>1
    <3> QED BY <1>16, <2>2, <3>2
  <2>3. ASSUME NEW i \in Blocks(d), NEW n \in d.recs[i].a..d.recs[i].b,
               x = <<rel(d.recs[i].p), n>>
        PROVE  \E s \in Said(d) : x = s.line
    <3>1. T(i, n) \in Said(d)
      BY <1>15
    <3>2. T(i, n).line = x
      BY <1>16, <2>3
    <3> QED BY <3>1, <3>2
  <2> QED BY <2>1, <2>2, <2>3
<1>18. ASSUME NEW x
       PROVE  x \in SaidHits(Said(d)) <=>
                \E i \in Blocks(d) : \E n \in d.recs[i].a..d.recs[i].b :
                   x = <<rel(d.recs[i].p), n>> /\ d.recs[i].c > 0
  <2>1. x \in SaidHits(Said(d)) <=> \E s \in Said(d) : x = s.line /\ s.hit
    BY DEF SaidHits
  <2>2. ASSUME NEW s \in Said(d), x = s.line, s.hit
        PROVE  \E i \in Blocks(d) : \E n \in d.recs[i].a..d.recs[i].b :
                  x = <<rel(d.recs[i].p), n>> /\ d.recs[i].c > 0
    <3>1. PICK i \in Blocks(d) : \E n \in d.recs[i].a..d.recs[i].b : s = T(i, n)
      BY <1>15
    <3>2. PICK n \in d.recs[i].a..d.recs[i].b : s = T(i, n)
      BY <3>1
    <3> QED BY <1>16, <2>2, <3>2
  <2>3. ASSUME NEW i \in Blocks(d), NEW n \in d.recs[i].a..d.recs[i].b,
               x = <<rel(d.recs[i].p), n>>, d.recs[i].c > 0
        PROVE  \E s \in Said(d) : x = s.line /\ s.hit
    <3>1. T(i, n) \in Said(d)
      BY <1>15
    <3>2. T(i, n).line = x /\ T(i, n).hit
      BY <1>16, <2>3
    <3> QED BY <3>1, <3>2
  <2> QED BY <2>1, <2>2, <2>3
<1>19. ASSUME NEW x
       PROVE  x \in LinesIn(files) <=> x \in SaidLines(Said(d))
  <2>1. x \in LinesIn(files) <=>
          \E p \in paths : \E n \in Numbers(Range(lines(p))) : x = <<rel(p), n>>
    BY <1>7, <1>13, InLines DEF NumbersOf
  <2>2. \A p, n : n \in Numbers(Range(lines(p))) <=>
          \E i \in Blocks(d) : d.recs[i].p = p /\ n \in d.recs[i].a..d.recs[i].b
    BY <1>1, GoLinesAre DEF lines
  <2> QED BY <1>14, <1>17, <2>1, <2>2
<1>20. ASSUME NEW x
       PROVE  x \in HitsIn(files) <=> x \in SaidHits(Said(d))
  <2>1. x \in HitsIn(files) <=>
          \E p \in paths : \E n \in HitNumbers(Range(lines(p))) : x = <<rel(p), n>>
    BY <1>7, <1>13, InLines DEF HitNumbersOf
  <2>2. \A p, n : n \in HitNumbers(Range(lines(p))) <=>
          \E i \in Blocks(d) : /\ d.recs[i].p = p /\ n \in d.recs[i].a..d.recs[i].b
                               /\ d.recs[i].c > 0
    BY <1>1, GoLinesAre DEF lines
  <2> QED BY <1>14, <1>18, <2>1, <2>2
<1>21. Faithful(d, files)
  BY <1>19, <1>20 DEF Faithful
<1>22. \A s \in Said(d) : Plausible(s.line[2])
  <2> SUFFICES ASSUME NEW s \in Said(d) PROVE Plausible(s.line[2])
    OBVIOUS
  <2>1. PICK i \in Blocks(d) : \E n \in d.recs[i].a..d.recs[i].b : s = T(i, n)
    BY <1>15
  <2>2. PICK n \in d.recs[i].a..d.recs[i].b : s = T(i, n)
    BY <2>1
  <2>3. s.line[2] = n
    BY <1>16, <2>2
  <2>4. d.recs[i].a \in Int /\ d.recs[i].b \in Int /\ ~Implausible(d.recs[i])
    BY <1>1, GoTypes
  <2>5. MaxLine \in Nat
    BY FormatsAssumption
  <2> QED BY <2>3, <2>4, <2>5 DEF Implausible, Plausible
<1> QED BY <1>11, <1>12, <1>21, <1>22 DEF files
-----------------------------------------------------------------------------
(* lcov *)

LcovState == [path: Seq(STRING), lines: Seq(LineRecords), brf: Int, brh: Int,
              files: Seq(FileRecords), bad: BOOLEAN]

\* What a parser that has got this far has of <<path, line>>.
Held(st) ==
    LinesIn(st.files)
    \union (IF st.path = << >> THEN {} ELSE {<<st.path, n>> : n \in Numbers(Range(st.lines))})
HeldHits(st) ==
    HitsIn(st.files)
    \union (IF st.path = << >> THEN {} ELSE {<<st.path, n>> : n \in HitNumbers(Range(st.lines))})

\* The lines of files with one more.
LEMMA OneMoreFile ==
    ASSUME NEW files \in Seq(FileRecords), NEW f \in FileRecords
    PROVE  /\ Append(files, f) \in Seq(FileRecords)
           /\ LinesIn(Append(files, f)) = LinesIn(files) \union {<<f.path, n>> : n \in NumbersOf(f)}
           /\ HitsIn(Append(files, f)) = HitsIn(files) \union {<<f.path, n>> : n \in HitNumbersOf(f)}
<1>1. Append(files, f) \in Seq(FileRecords)
  OBVIOUS
<1>2. Range(Append(files, f)) = Range(files) \union {f}
  BY RangeAppend
<1>3. LinesIn(Append(files, f)) = LinesIn(files) \union {<<f.path, n>> : n \in NumbersOf(f)}
  BY <1>2 DEF LinesIn
<1>4. HitsIn(Append(files, f)) = HitsIn(files) \union {<<f.path, n>> : n \in HitNumbersOf(f)}
  BY <1>2 DEF HitsIn
<1> QED BY <1>1, <1>3, <1>4

LEMMA FlushIs ==
    ASSUME NEW st \in LcovState
    PROVE  /\ Flush(st) \in LcovState
           /\ Flush(st).path = << >>
           /\ Held(Flush(st)) = Held(st) /\ LinesIn(Flush(st).files) = Held(st)
           /\ HeldHits(Flush(st)) = HeldHits(st) /\ HitsIn(Flush(st).files) = HeldHits(st)
<1> DEFINE f == File(st.path, st.lines, st.brh, st.brf)
           t == Flush(st)
<1>1. CASE st.path = << >>
  <2>1. t = st
    BY <1>1 DEF Flush
  <2> QED BY <1>1, <2>1 DEF Held, HeldHits
<1>2. CASE st.path # << >>
  <2>1. f \in FileRecords /\ f.path = st.path /\ f.lines = st.lines
    BY DEF File, FileRecords, LcovState
  <2>2. st.files \in Seq(FileRecords)
    BY DEF LcovState
  <2>3. /\ Append(st.files, f) \in Seq(FileRecords)
        /\ LinesIn(Append(st.files, f))
             = LinesIn(st.files) \union {<<f.path, n>> : n \in NumbersOf(f)}
        /\ HitsIn(Append(st.files, f))
             = HitsIn(st.files) \union {<<f.path, n>> : n \in HitNumbersOf(f)}
    <3> HIDE DEF f
    <3> QED BY <2>1, <2>2, OneMoreFile
  <2>4. t = [st EXCEPT !.files = Append(@, f), !.path = << >>, !.lines = << >>]
    BY <1>2 DEF Flush
  <2>5. t.path = << >> /\ t.files = Append(st.files, f) /\ t \in LcovState
    <3> HIDE DEF f, t
    <3>1. t.path = << >> /\ t.files = Append(st.files, f)
      BY <2>4 DEF LcovState
    <3>2. PICK fs \in Seq(FileRecords) : fs = Append(st.files, f)
      BY <2>3
    <3>3. << >> \in Seq(STRING) /\ << >> \in Seq(LineRecords)
      OBVIOUS
    <3>4. t = [st EXCEPT !.files = fs, !.path = << >>, !.lines = << >>]
      BY <2>4, <3>2
    <3>5. t \in LcovState
      BY <3>3, <3>4 DEF LcovState
    <3> QED BY <3>1, <3>5
  <2>6. LinesIn(t.files) = Held(st) /\ HitsIn(t.files) = HeldHits(st)
    <3> HIDE DEF f, t
    <3> QED BY <1>2, <2>1, <2>3, <2>5 DEF Held, HeldHits, NumbersOf, HitNumbersOf
  <2>7. Held(t) = LinesIn(t.files) /\ HeldHits(t) = HitsIn(t.files)
    <3> HIDE DEF f, t
    <3> QED BY <2>5 DEF Held, HeldHits
  <2> QED BY <2>5, <2>6, <2>7
<1> QED BY <1>1, <1>2

\* A file begins, or ends.
LEMMA FreshTypes ==
    ASSUME NEW st \in LcovState, NEW p \in Seq(STRING), NEW lines \in Seq(LineRecords)
    PROVE  /\ [st EXCEPT !.brf = 0, !.brh = 0] \in LcovState
           /\ [st EXCEPT !.path = p, !.lines = lines, !.brf = 0, !.brh = 0] \in LcovState
<1>1. PICK none \in Int : none = 0
  OBVIOUS
<1>2. [st EXCEPT !.brf = none, !.brh = none] \in LcovState
  BY DEF LcovState
<1>3. [st EXCEPT !.path = p, !.lines = lines, !.brf = none, !.brh = none] \in LcovState
  BY DEF LcovState
<1> QED BY <1>1, <1>2, <1>3

\* One record more.
Adds(st, e) == e.k = "DA" /\ st.path # << >>

LEMMA LcovRecordIs ==
    ASSUME NEW st \in LcovState, NEW e \in LcovText, NEW t, t = LcovRecord(st, e)
    PROVE  /\ t \in LcovState
           /\ t.path = IF e.k = "SF" THEN e.p ELSE IF e.k = "end" THEN << >> ELSE st.path
           /\ Held(t) = Held(st) \union (IF Adds(st, e) THEN {<<st.path, e.n>>} ELSE {})
           /\ HeldHits(t) = HeldHits(st)
                \union (IF Adds(st, e) /\ e.c > 0 THEN {<<st.path, e.n>>} ELSE {})
<1>1. PICK s \in LcovState :
         /\ s = Flush(st) /\ s.path = << >>
         /\ Held(st) = LinesIn(s.files) /\ HeldHits(st) = HitsIn(s.files)
  BY FlushIs
<1>2. Range(<< >>) = {} /\ Numbers({}) = {} /\ HitNumbers({}) = {}
  BY DEF Range, Numbers, HitNumbers
<1>3. CASE e.k = "SF"
  <2>1. e.p \in Path /\ e.p \in Seq(STRING) /\ ~Adds(st, e)
    BY <1>3 DEF LcovText, Path, Adds
  <2>2. t = [s EXCEPT !.path = e.p, !.lines = << >>, !.brf = 0, !.brh = 0]
    BY <1>1, <1>3 DEF LcovRecord
  <2>3. t.path = e.p /\ t.lines = << >> /\ t.files = s.files /\ t \in LcovState
    <3>1. t.path = e.p /\ t.lines = << >> /\ t.files = s.files
      BY <1>1, <2>2 DEF LcovState
    <3>2. << >> \in Seq(LineRecords)
      OBVIOUS
    <3>3. t \in LcovState
      BY <2>1, <2>2, <3>2, FreshTypes
    <3> QED BY <3>1, <3>3
  <2>4. Held(t) = LinesIn(s.files) /\ HeldHits(t) = HitsIn(s.files)
    BY <1>2, <2>3 DEF Held, HeldHits
  <2> QED BY <1>1, <1>3, <2>1, <2>3, <2>4
<1>4. CASE e.k = "end"
  <2>1. t = [s EXCEPT !.brf = 0, !.brh = 0] /\ ~Adds(st, e)
    BY <1>1, <1>4 DEF LcovRecord, Adds
  <2>2. t.path = << >> /\ t.files = s.files /\ t \in LcovState
    <3>1. t.path = << >> /\ t.files = s.files
      BY <1>1, <2>1 DEF LcovState
    <3>2. t \in LcovState
      <4>1. << >> \in Seq(STRING) /\ << >> \in Seq(LineRecords)
        OBVIOUS
      <4>2. [s EXCEPT !.brf = 0, !.brh = 0] \in LcovState
        BY <4>1, FreshTypes
      <4> QED BY <2>1, <4>2
    <3> QED BY <3>1, <3>2
  <2>3. Held(t) = LinesIn(s.files) /\ HeldHits(t) = HitsIn(s.files)
    BY <2>2 DEF Held, HeldHits
  <2> QED BY <1>1, <1>4, <2>1, <2>2, <2>3
<1>5. CASE e.k = "DA"
  <2> DEFINE l == Line(e.n, e.c)
  <2>1. l \in LineRecords /\ l.n = e.n /\ l.c = e.c /\ e.c \in Int
    BY <1>5 DEF LcovText, Line, LineRecords
  <2>2. t = [st EXCEPT !.lines = Append(@, l)]
    BY <1>5 DEF LcovRecord
  <2>3. st.lines \in Seq(LineRecords)
    BY DEF LcovState
  <2> HIDE DEF l
  <2>4. /\ t.path = st.path /\ t.files = st.files /\ t.lines = Append(st.lines, l)
        /\ t \in LcovState
    <3>1. t.path = st.path /\ t.files = st.files /\ t.lines = Append(st.lines, l)
      BY <2>2 DEF LcovState
    <3>2. PICK ls \in Seq(LineRecords) : ls = Append(st.lines, l)
      <4>1. Append(st.lines, l) \in Seq(LineRecords)
        BY <2>1, <2>3
      <4> QED BY <4>1
    <3>3. t = [st EXCEPT !.lines = ls]
      BY <2>2, <3>2
    <3>4. t \in LcovState
      BY <3>3 DEF LcovState
    <3> QED BY <3>1, <3>4
  <2>5. Range(t.lines) = Range(st.lines) \union {l}
    BY <2>1, <2>3, <2>4, RangeAppend
  <2>6. Numbers(Range(t.lines)) = Numbers(Range(st.lines)) \union {e.n}
    BY <2>1, <2>5 DEF Numbers
  <2>7. HitNumbers(Range(t.lines))
          = HitNumbers(Range(st.lines)) \union (IF e.c > 0 THEN {e.n} ELSE {})
    BY <2>1, <2>5 DEF HitNumbers
  <2>8. Held(t) = Held(st) \union (IF Adds(st, e) THEN {<<st.path, e.n>>} ELSE {})
    BY <1>5, <2>4, <2>6 DEF Held, Adds
  <2>9. HeldHits(t) = HeldHits(st)
          \union (IF Adds(st, e) /\ e.c > 0 THEN {<<st.path, e.n>>} ELSE {})
    BY <1>5, <2>4, <2>7 DEF HeldHits, Adds
  <2> QED BY <1>5, <2>4, <2>8, <2>9
<1>6. CASE e.k \notin {"SF", "end", "DA"}
  <2>1. t.path = st.path /\ t.files = st.files /\ t.lines = st.lines /\ t \in LcovState
    <3>1. CASE e.k = "BRDA"
      <4>1. e.c \in Int
        BY <3>1 DEF LcovText
      <4>2. t = [st EXCEPT !.brf = @ + 1, !.brh = @ + (IF e.c > 0 THEN 1 ELSE 0)]
        BY <3>1 DEF LcovRecord
      <4>3. t.path = st.path /\ t.files = st.files /\ t.lines = st.lines
        BY <4>2 DEF LcovState
      <4>4. PICK x \in Int, y \in Int :
               x = st.brf + 1 /\ y = st.brh + (IF e.c > 0 THEN 1 ELSE 0)
        BY <4>1 DEF LcovState
      <4>5. t = [st EXCEPT !.brf = x, !.brh = y]
        BY <4>2, <4>4
      <4>6. t \in LcovState
        BY <4>5 DEF LcovState
      <4> QED BY <4>3, <4>6
    <3>2. CASE e.k = "BRF"
      <4>1. t = [st EXCEPT !.brf = e.n] /\ e.n \in Int
        BY <3>2 DEF LcovRecord, LcovText
      <4> QED BY <4>1 DEF LcovState
    <3>3. CASE e.k = "BRH"
      <4>1. t = [st EXCEPT !.brh = e.n] /\ e.n \in Int
        BY <3>3 DEF LcovRecord, LcovText
      <4> QED BY <4>1 DEF LcovState
    <3>4. CASE e.k = "bad"
      <4>1. t = [st EXCEPT !.bad = TRUE]
        BY <3>4 DEF LcovRecord
      <4> QED BY <4>1 DEF LcovState
    <3>5. CASE e.k \notin {"BRDA", "BRF", "BRH", "bad"}
      BY <1>6, <3>5 DEF LcovRecord
    <3> QED BY <3>1, <3>2, <3>3, <3>4, <3>5
  <2>2. ~Adds(st, e)
    BY <1>6 DEF Adds
  <2>3. Held(t) = Held(st) /\ HeldHits(t) = HeldHits(st)
    BY <2>1 DEF Held, HeldHits
  <2> QED BY <1>6, <2>1, <2>2, <2>3
<1> QED BY <1>3, <1>4, <1>5, <1>6
\* A document is read record by record.
LEMMA LcovSteps ==
    ASSUME NEW recs \in Seq(LcovText)
    PROVE  \E acc : /\ acc[0] = LcovStart
                    /\ \A k \in 0..Len(recs) : acc[k] \in LcovState
                    /\ \A k \in 1..Len(recs) : acc[k] = LcovRecord(acc[k - 1], recs[k])
                    /\ FoldLeft(LcovRecord, LcovStart, recs) = acc[Len(recs)]
<1> DEFINE n == Len(recs)
           F(f) == [s \in SUBSET (DOMAIN recs) |->
                      IF s = {} THEN LcovStart ELSE LcovRecord(f[s \ {Max(s)}], recs[Max(s)])]
           f == CHOOSE f : f = F(f)
           W == LcovState
           G == [x \in (1..n) \X W |-> LcovRecord(x[2], recs[x[1]])]
<1>1. n \in Nat /\ DOMAIN recs = 1..n /\ (\A i \in 1..n : recs[i] \in LcovText)
  OBVIOUS
<1>2. LcovStart \in W
  BY DEF LcovStart, LcovState
<1>3. \A i \in 1..n, v \in W : G[<<i, v>>] = LcovRecord(v, recs[i])
  OBVIOUS
<1>4. ASSUME NEW i \in 1..n, NEW v \in W PROVE LcovRecord(v, recs[i]) \in W
  BY <1>1, LcovRecordIs
<1>5. ClosedUnder(G, n, W)
  BY <1>3, <1>4 DEF ClosedUnder
<1>6. FoldLeft(LcovRecord, LcovStart, recs) = f[1..n]
  BY <1>1 DEF FoldLeft, MapThenFoldSet
<1> HIDE DEF n, W, G
<1>7. \E g : g = F(g)
  <2>1. PICK g : Solution(g, n, W, LcovStart, G)
    BY <1>1, <1>2, <1>5, FoldExists
  <2>2. g = F(g)
    BY <1>1, <1>3, <2>1 DEF Solution
  <2> QED BY <2>2
<1>8. f = F(f)
  BY <1>7
<1> HIDE DEF f
<1>9. Folds(f, n, W, LcovStart, G)
  BY <1>1, <1>3, <1>8, MaxAmong DEF Folds
<1>10. PICK acc : Chain(acc, n, W, LcovStart, G) /\ acc[n] = f[1..n]
  BY <1>1, <1>2, <1>5, <1>9, FoldSteps
<1>11. ASSUME NEW k \in 1..n PROVE acc[k] = LcovRecord(acc[k - 1], recs[k])
  BY <1>1, <1>3, <1>10 DEF Chain
<1> QED BY <1>6, <1>10, <1>11 DEF n, W, Chain

\* What the first k records say.
SaidUpTo(recs, k) ==
    UNION {{SaidBy(recs[j].p, recs[i]) : j \in SourceOf(recs, i)} :
             i \in {x \in 1..k : recs[x].k = "DA"}}

\* The file the next record is about is the one the parser is in.
InFile(recs, k, st) ==
    /\ st.path = << >> => SourceOf(recs, k + 1) = {}
    /\ st.path # << >> => SourceOf(recs, k + 1) # {}
    /\ \A j \in SourceOf(recs, k + 1) : recs[j].p = st.path

LEMMA SourceStep ==
    ASSUME NEW recs, NEW k \in Nat \ {0}
    PROVE  SourceOf(recs, k + 1) = IF recs[k].k = "SF" THEN {k}
                                   ELSE IF recs[k].k = "end" THEN {}
                                   ELSE SourceOf(recs, k)
<1> SUFFICES ASSUME NEW j
             PROVE  j \in SourceOf(recs, k + 1) <=>
                      j \in (IF recs[k].k = "SF" THEN {k}
                             ELSE IF recs[k].k = "end" THEN {} ELSE SourceOf(recs, k))
  OBVIOUS
<1>1. j \in SourceOf(recs, k + 1) <=>
        /\ j \in 1..k /\ recs[j].k = "SF"
        /\ \A m \in (j + 1)..k : recs[m].k \notin {"SF", "end"}
  BY DEF SourceOf
<1>2. j \in SourceOf(recs, k) <=>
        /\ j \in 1..(k - 1) /\ recs[j].k = "SF"
        /\ \A m \in (j + 1)..(k - 1) : recs[m].k \notin {"SF", "end"}
  BY DEF SourceOf
<1>3. CASE recs[k].k \in {"SF", "end"}
  <2>1. \A i \in 1..(k - 1) : k \in (i + 1)..k
    OBVIOUS
  <2>2. j \in 1..k => j = k \/ j \in 1..(k - 1)
    OBVIOUS
  <2>3. k \in 1..k /\ (k + 1)..k = {}
    OBVIOUS
  <2> QED BY <1>1, <1>3, <2>1, <2>2, <2>3
<1>4. CASE recs[k].k \notin {"SF", "end"}
  <2>1. j \in 1..k /\ recs[j].k = "SF" => j \in 1..(k - 1)
    BY <1>4
  <2>2. \A i \in 1..(k - 1) : \A m : m \in (i + 1)..k <=> m = k \/ m \in (i + 1)..(k - 1)
    OBVIOUS
  <2>3. j \in 1..(k - 1) => j \in 1..k
    OBVIOUS
  <2> QED BY <1>1, <1>2, <1>4, <2>1, <2>2, <2>3
<1> QED BY <1>3, <1>4
\* What one record adds to what is said.
NewlySaid(recs, k) == {SaidBy(recs[j].p, recs[k]) : j \in SourceOf(recs, k)}

LEMMA SaidStep ==
    ASSUME NEW recs, NEW k \in Nat \ {0}, NEW path,
           path = << >> => SourceOf(recs, k) = {},
           path # << >> => SourceOf(recs, k) # {},
           \A j \in SourceOf(recs, k) : recs[j].p = path
    PROVE  /\ SaidUpTo(recs, k) = SaidUpTo(recs, k - 1)
                \union (IF recs[k].k = "DA" THEN NewlySaid(recs, k) ELSE {})
           /\ SaidLines(NewlySaid(recs, k)) = IF path # << >> THEN {<<path, recs[k].n>>} ELSE {}
           /\ SaidHits(NewlySaid(recs, k)) = IF path # << >> /\ recs[k].c > 0 THEN {<<path, recs[k].n>>} ELSE {}
<1>1. SaidUpTo(recs, k) = SaidUpTo(recs, k - 1) \union (IF recs[k].k = "DA" THEN NewlySaid(recs, k) ELSE {})
  <2>1. \A x : x \in 1..k <=> x = k \/ x \in 1..(k - 1)
    OBVIOUS
  <2>2. {x \in 1..k : recs[x].k = "DA"}
          = {x \in 1..(k - 1) : recs[x].k = "DA"} \union (IF recs[k].k = "DA" THEN {k} ELSE {})
    BY <2>1
  <2> QED BY <2>2 DEF SaidUpTo, NewlySaid
<1>2. NewlySaid(recs, k) = IF path # << >> THEN {SaidBy(path, recs[k])} ELSE {}
  BY DEF NewlySaid
<1>3. /\ SaidBy(path, recs[k]).line = <<path, recs[k].n>>
      /\ SaidBy(path, recs[k]).hit <=> recs[k].c > 0
  BY SaidByIs
<1>4. SaidLines(NewlySaid(recs, k)) = IF path # << >> THEN {<<path, recs[k].n>>} ELSE {}
  BY <1>2, <1>3 DEF SaidLines
<1>5. SaidHits(NewlySaid(recs, k)) = IF path # << >> /\ recs[k].c > 0 THEN {<<path, recs[k].n>>} ELSE {}
  BY <1>2, <1>3 DEF SaidHits
<1> QED BY <1>1, <1>4, <1>5

LEMMA SaidUnion ==
    ASSUME NEW S, NEW T
    PROVE  /\ SaidLines(S \union T) = SaidLines(S) \union SaidLines(T)
           /\ SaidHits(S \union T) = SaidHits(S) \union SaidHits(T)
           /\ SaidLines({}) = {} /\ SaidHits({}) = {}
BY DEF SaidLines, SaidHits

LEMMA LcovIs ==
    ASSUME NEW d, d.format = "lcov", d.recs \in Seq(LcovText), Lcov(d) # NoReport
    PROVE  /\ Lcov(d).files \in Seq(FileRecords) /\ Faithful(d, Lcov(d).files)
           /\ Lcov(d).sum \in Sums
<1> DEFINE recs == d.recs
           n == Len(recs)
<1>1. n \in Nat /\ n \in 0..n /\ DOMAIN recs = 1..n /\ \A k \in 1..n : recs[k] \in LcovText
  OBVIOUS
<1>2. PICK acc : /\ acc[0] = LcovStart
                 /\ \A k \in 0..n : acc[k] \in LcovState
                 /\ \A k \in 1..n : acc[k] = LcovRecord(acc[k - 1], recs[k])
                 /\ FoldLeft(LcovRecord, LcovStart, recs) = acc[n]
  BY LcovSteps
<1> DEFINE Good(k) == /\ InFile(recs, k, acc[k])
                      /\ Held(acc[k]) = SaidLines(SaidUpTo(recs, k))
                      /\ HeldHits(acc[k]) = SaidHits(SaidUpTo(recs, k))
           T == {k \in 0..n : Good(k)}
<1>3. 0 \in T
  <2>1. SourceOf(recs, 1) = {} /\ 1..0 = {}
    BY DEF SourceOf
  <2>2. InFile(recs, 0, LcovStart)
    BY <2>1 DEF InFile, LcovStart
  <2>3. SaidUpTo(recs, 0) = {}
    BY <2>1 DEF SaidUpTo
  <2>4. Held(LcovStart) = {} /\ HeldHits(LcovStart) = {}
    BY DEF Held, HeldHits, LcovStart, LinesIn, HitsIn, Range
  <2>5. Good(0)
    BY <1>2, <2>2, <2>3, <2>4, SaidUnion
  <2> QED BY <1>1, <2>5
<1>4. ASSUME NEW k \in 1..n, k - 1 \in T PROVE k \in T
  <2>1. PICK st \in LcovState : st = acc[k - 1]
    BY <1>1, <1>2
  <2>2. PICK e \in LcovText : e = recs[k]
    BY <1>1
  <2>3. PICK t \in LcovState : t = acc[k] /\ t = LcovRecord(st, e)
    <3>1. acc[k] \in LcovState
      BY <1>1, <1>2
    <3> QED BY <1>2, <2>1, <2>2, <3>1
  <2>4. /\ t.path = IF e.k = "SF" THEN e.p ELSE IF e.k = "end" THEN << >> ELSE st.path
        /\ Held(t) = Held(st) \union (IF Adds(st, e) THEN {<<st.path, e.n>>} ELSE {})
        /\ HeldHits(t) = HeldHits(st)
             \union (IF Adds(st, e) /\ e.c > 0 THEN {<<st.path, e.n>>} ELSE {})
    BY <2>3, LcovRecordIs
  <2>5. Good(k - 1)
    BY <1>4
  <2>6. k \in Nat \ {0} /\ (k - 1) + 1 = k /\ k \in 0..n
    BY <1>1
  <2>7. /\ InFile(recs, k - 1, st)
        /\ Held(st) = SaidLines(SaidUpTo(recs, k - 1))
        /\ HeldHits(st) = SaidHits(SaidUpTo(recs, k - 1))
    BY <2>1, <2>5
  <2>8. /\ st.path = << >> => SourceOf(recs, k) = {}
        /\ st.path # << >> => SourceOf(recs, k) # {}
        /\ \A j \in SourceOf(recs, k) : recs[j].p = st.path
    BY <2>6, <2>7 DEF InFile
  <2> DEFINE S == NewlySaid(recs, k)
  <2> HIDE DEF n
  <2>9. /\ SaidUpTo(recs, k) = SaidUpTo(recs, k - 1)
             \union (IF recs[k].k = "DA" THEN S ELSE {})
        /\ SaidLines(S) = IF st.path # << >> THEN {<<st.path, recs[k].n>>} ELSE {}
        /\ SaidHits(S) = IF st.path # << >> /\ recs[k].c > 0 THEN {<<st.path, recs[k].n>>} ELSE {}
    <3>1. PICK path : path = st.path
      OBVIOUS
    <3>2. /\ path = << >> => SourceOf(recs, k) = {}
          /\ path # << >> => SourceOf(recs, k) # {}
          /\ \A j \in SourceOf(recs, k) : recs[j].p = path
      BY <2>8, <3>1
    <3> QED BY <2>6, <3>1, <3>2, SaidStep
  <2> HIDE DEF S
  <2>10. Held(t) = SaidLines(SaidUpTo(recs, k))
    <3>1. CASE e.k = "DA"
      BY <2>2, <2>4, <2>7, <2>9, <3>1, SaidUnion DEF Adds
    <3>2. CASE e.k # "DA"
      BY <2>2, <2>4, <2>7, <2>9, <3>2, SaidUnion DEF Adds
    <3> QED BY <3>1, <3>2
  <2>11. HeldHits(t) = SaidHits(SaidUpTo(recs, k))
    <3>1. CASE e.k = "DA"
      <4>1. SaidHits(SaidUpTo(recs, k)) = SaidHits(SaidUpTo(recs, k - 1)) \union SaidHits(S)
        <5>1. PICK before : before = SaidUpTo(recs, k - 1)
          OBVIOUS
        <5>2. SaidUpTo(recs, k) = before \union S
          BY <2>2, <2>9, <3>1, <5>1
        <5>3. SaidHits(before \union S) = SaidHits(before) \union SaidHits(S)
          BY SaidUnion
        <5> QED BY <5>1, <5>2, <5>3
      <4>2. SaidHits(S) = IF Adds(st, e) /\ e.c > 0 THEN {<<st.path, e.n>>} ELSE {}
        BY <2>2, <2>9, <3>1 DEF Adds
      <4> QED BY <2>4, <2>7, <4>1, <4>2
    <3>2. CASE e.k # "DA"
      BY <2>2, <2>4, <2>7, <2>9, <3>2, SaidUnion DEF Adds
    <3> QED BY <3>1, <3>2
  <2>12. InFile(recs, k, t)
    <3>1. SourceOf(recs, k + 1) = IF recs[k].k = "SF" THEN {k}
                                  ELSE IF recs[k].k = "end" THEN {}
                                  ELSE SourceOf(recs, k)
      BY <2>6, SourceStep
    <3>2. CASE e.k = "SF"
      <4>1. e.p # << >>
        BY <3>2 DEF LcovText, Path
      <4> QED BY <2>2, <2>4, <3>1, <3>2, <4>1 DEF InFile
    <3>3. CASE e.k = "end"
      BY <2>2, <2>4, <3>1, <3>3 DEF InFile
    <3>4. CASE e.k \notin {"SF", "end"}
      BY <2>2, <2>4, <2>8, <3>1, <3>4 DEF InFile
    <3> QED BY <3>2, <3>3, <3>4
  <2>13. Good(k)
    BY <2>3, <2>10, <2>11, <2>12
  <2> QED BY <2>6, <2>13
<1>5. n \in T
  <2> HIDE DEF T, n
  <2> QED BY <1>1, <1>3, <1>4, UpTo
<1>6. Good(n)
  BY <1>5
<1>7. SaidUpTo(recs, n) = Said(d)
  <2>1. Said(d) = LcovSaid(d)
    BY DEF Said
  <2>2. {x \in DOMAIN recs : recs[x].k = "DA"} = {x \in 1..n : recs[x].k = "DA"}
    BY <1>1
  <2> QED BY <2>1, <2>2 DEF LcovSaid, SaidUpTo, SaidBy
<1> HIDE DEF n
<1>8. PICK st \in LcovState : st = acc[n]
  BY <1>1, <1>2
<1>9. /\ Flush(st) \in LcovState
      /\ LinesIn(Flush(st).files) = Held(st) /\ HitsIn(Flush(st).files) = HeldHits(st)
  BY FlushIs
<1>10. Lcov(d).files = Flush(st).files /\ Lcov(d).sum = CountsOf(Flush(st).files)
  BY <1>2, <1>8 DEF Lcov
<1>11. Flush(st).files \in Seq(FileRecords)
  BY <1>9 DEF LcovState
<1>12. Lcov(d).sum \in Sums
  BY <1>10, <1>11, SumTypes
<1>13. Faithful(d, Lcov(d).files)
  BY <1>6, <1>7, <1>8, <1>9, <1>10 DEF Faithful
<1> QED BY <1>10, <1>11, <1>12, <1>13
-----------------------------------------------------------------------------
(* Every format *)

LEMMA ParseAsIs ==
    ASSUME NEW d \in Documents, ParseAs(d) # NoReport
    PROVE  /\ ParseAs(d).files \in Seq(FileRecords) /\ ParseAs(d).sum \in Sums
           /\ Readable(d) => Faithful(d, ParseAs(d).files)
<1>1. CASE d \in [format: {"lcov"}, recs: Seq(LcovText)]
  <2>1. d.format = "lcov" /\ d.recs \in Seq(LcovText)
    BY <1>1
  <2>2. ParseAs(d) = Lcov(d)
    BY <2>1 DEF ParseAs, XmlFormats
  <2> QED BY <2>1, <2>2, LcovIs
<1>2. CASE d \in [format: {"go"}, recs: Seq(GoText)]
  <2>1. d.format = "go" /\ d.recs \in Seq(GoText)
    BY <1>2
  <2>2. ParseAs(d) = Go(d)
    BY <2>1 DEF ParseAs, XmlFormats
  <2> QED BY <2>1, <2>2, GoIs
<1>3. CASE d \in FilesText
  <2>1. d.format \in JsonFormats \union XmlFormats
    BY <1>3 DEF FilesText
  <2>2. CASE d.format = "llvm"
    <3>1. ParseAs(d) = Llvm(d)
      BY <2>2 DEF ParseAs, XmlFormats
    <3> QED BY <1>3, <2>2, <3>1, LlvmIs, FileSums
  <2>3. CASE d.format = "python"
    <3>1. ParseAs(d) = Python(d)
      BY <2>3 DEF ParseAs, XmlFormats
    <3> QED BY <1>3, <2>3, <3>1, PythonIs
  <2>4. CASE d.format = "omnivore"
    <3>1. ParseAs(d) = Omnivore(d)
      BY <2>4 DEF ParseAs, XmlFormats
    <3> QED BY <1>3, <2>4, <3>1, OmnivoreIs
  <2>5. CASE d.format \in XmlFormats
    <3>1. ParseAs(d) = Jacoco(d)
      BY <2>5 DEF ParseAs, XmlFormats
    <3> QED BY <1>3, <2>5, <3>1, JacocoIs, FileSums
  <2> QED BY <2>1, <2>2, <2>3, <2>4, <2>5 DEF JsonFormats
<1> QED BY <1>1, <1>2, <1>3 DEF Documents

\* What drop_implausible_lines leaves of a file.
Trimmed(f) == [f EXCEPT !.lines = Only(f.lines, {l \in Range(f.lines) : Plausible(l.n)})]

LEMMA TrimmedIs ==
    ASSUME NEW f \in FileRecords
    PROVE  /\ Trimmed(f) \in FileRecords /\ Trimmed(f).path = f.path
           /\ NumbersOf(Trimmed(f)) = {n \in NumbersOf(f) : Plausible(n)}
           /\ HitNumbersOf(Trimmed(f)) = {n \in HitNumbersOf(f) : Plausible(n)}
<1> DEFINE S == {l \in Range(f.lines) : Plausible(l.n)}
<1>1. f.lines \in Seq(LineRecords)
  BY DEF FileRecords
<1>2. PICK ls \in Seq(LineRecords) : ls = Only(f.lines, S) /\ Range(ls) = S
  <2>1. /\ Only(f.lines, S) \in Seq(LineRecords)
        /\ Range(Only(f.lines, S)) = Range(f.lines) \intersect S
    BY <1>1, OnlyIs
  <2> QED BY <2>1
<1>3. Trimmed(f) = [f EXCEPT !.lines = ls]
  BY <1>2 DEF Trimmed
<1>4. Trimmed(f) \in FileRecords
  BY <1>3 DEF FileRecords
<1>5. Trimmed(f).path = f.path /\ Trimmed(f).lines = ls
  BY <1>3 DEF FileRecords
<1>6. Numbers(S) = {n \in NumbersOf(f) : Plausible(n)}
  BY DEF Numbers, NumbersOf
<1>7. HitNumbers(S) = {n \in HitNumbersOf(f) : Plausible(n)}
  BY DEF HitNumbers, HitNumbersOf
<1> HIDE DEF S
<1> QED BY <1>2, <1>4, <1>5, <1>6, <1>7 DEF NumbersOf, HitNumbersOf

LEMMA DropIs ==
    ASSUME NEW r, r.files \in Seq(FileRecords), r.sum \in Sums,
           NEW k, k = DropImplausible(r)
    PROVE  /\ k.files \in Seq(FileRecords) /\ k.sum \in Sums
           /\ LinesIn(k.files) = {x \in LinesIn(r.files) : Plausible(x[2])}
           /\ HitsIn(k.files) = {x \in HitsIn(r.files) : Plausible(x[2])}
           /\ k.files # r.files => /\ k.sum.lt = LinesOf(k.files).lt
                                   /\ k.sum.lc = LinesOf(k.files).lc
<1> DEFINE kept == [i \in DOMAIN r.files |-> Trimmed(r.files[i])]
<1>1. /\ k.files = kept
      /\ k.sum = IF kept = r.files THEN r.sum
                 ELSE [r.sum EXCEPT !.lc = LinesOf(kept).lc, !.lt = LinesOf(kept).lt]
  BY DEF DropImplausible, Trimmed
<1>2. /\ Len(r.files) \in Nat /\ DOMAIN r.files = 1..Len(r.files)
      /\ \A i \in DOMAIN r.files : r.files[i] \in FileRecords
  OBVIOUS
<1>3. \A i \in DOMAIN r.files : Trimmed(r.files[i]) \in FileRecords
  BY <1>2, TrimmedIs
<1>4. kept \in Seq(FileRecords)
  <2>1. kept \in [1..Len(r.files) -> FileRecords]
    BY <1>2, <1>3
  <2> HIDE DEF kept
  <2> QED BY <1>2, <2>1
<1>5. \A i \in DOMAIN r.files :
         /\ Trimmed(r.files[i]).path = r.files[i].path
         /\ NumbersOf(Trimmed(r.files[i])) = {n \in NumbersOf(r.files[i]) : Plausible(n)}
         /\ HitNumbersOf(Trimmed(r.files[i])) = {n \in HitNumbersOf(r.files[i]) : Plausible(n)}
  BY <1>2, TrimmedIs
<1>6. ASSUME NEW x
      PROVE  x \in LinesIn(kept) <=> x \in LinesIn(r.files) /\ Plausible(x[2])
  <2>1. x \in LinesIn(kept) <=>
          \E i \in DOMAIN r.files : \E n \in NumbersOf(Trimmed(r.files[i])) :
             x = <<Trimmed(r.files[i]).path, n>>
    <3>1. \A f : f \in Range(kept) <=> \E i \in DOMAIN r.files : f = Trimmed(r.files[i])
      BY DEF Range
    <3> HIDE DEF kept
    <3>2. x \in LinesIn(kept) <=> \E f \in Range(kept) : \E n \in NumbersOf(f) : x = <<f.path, n>>
      BY InLines
    <3> QED BY <3>1, <3>2
  <2>2. x \in LinesIn(r.files) <=>
          \E i \in DOMAIN r.files : \E n \in NumbersOf(r.files[i]) : x = <<r.files[i].path, n>>
    BY DEF LinesIn, Range
  <2>3. \A p, n : x = <<p, n>> => x[2] = n
    OBVIOUS
  <2> QED BY <1>5, <2>1, <2>2, <2>3
<1>7. ASSUME NEW x
      PROVE  x \in HitsIn(kept) <=> x \in HitsIn(r.files) /\ Plausible(x[2])
  <2>1. x \in HitsIn(kept) <=>
          \E i \in DOMAIN r.files : \E n \in HitNumbersOf(Trimmed(r.files[i])) :
             x = <<Trimmed(r.files[i]).path, n>>
    <3>1. \A f : f \in Range(kept) <=> \E i \in DOMAIN r.files : f = Trimmed(r.files[i])
      BY DEF Range
    <3> HIDE DEF kept
    <3>2. x \in HitsIn(kept) <=> \E f \in Range(kept) : \E n \in HitNumbersOf(f) : x = <<f.path, n>>
      BY InLines
    <3> QED BY <3>1, <3>2
  <2>2. x \in HitsIn(r.files) <=>
          \E i \in DOMAIN r.files : \E n \in HitNumbersOf(r.files[i]) : x = <<r.files[i].path, n>>
    BY DEF HitsIn, Range
  <2>3. \A p, n : x = <<p, n>> => x[2] = n
    OBVIOUS
  <2> QED BY <1>5, <2>1, <2>2, <2>3
<1> HIDE DEF kept
<1>8. LinesIn(kept) = {x \in LinesIn(r.files) : Plausible(x[2])}
  BY <1>6
<1>9. HitsIn(kept) = {x \in HitsIn(r.files) : Plausible(x[2])}
  BY <1>7
<1>10. LinesOf(kept) \in Sums
  BY <1>4, SumTypes
<1>11. PICK s \in Sums, lc \in Int, lt \in Int :
          s = r.sum /\ lc = LinesOf(kept).lc /\ lt = LinesOf(kept).lt
  BY <1>10 DEF Sums
<1>12. [s EXCEPT !.lc = lc, !.lt = lt] \in Sums
  BY DEF Sums
<1>13. [s EXCEPT !.lc = lc, !.lt = lt].lc = lc /\ [s EXCEPT !.lc = lc, !.lt = lt].lt = lt
  BY DEF Sums
<1>14. k.sum \in Sums
  BY <1>1, <1>11, <1>12
<1>15. kept # r.files => k.sum.lt = lt /\ k.sum.lc = lc
  BY <1>1, <1>11, <1>13
<1> QED BY <1>1, <1>4, <1>8, <1>9, <1>11, <1>14, <1>15
-----------------------------------------------------------------------------
(* Counting *)

PlacesUpTo(J, k) == UNION {{<<i, j>> : j \in J[i]} : i \in 1..k}

\* The places <<i, j>> are as many as the sum of the j's of each i.
LEMMA CountPlaces ==
    ASSUME NEW n \in Nat, NEW J, NEW numbers \in [1..n -> Int],
           \A i \in 1..n : IsFiniteSet(J[i]) /\ numbers[i] = Cardinality(J[i])
    PROVE  Total(numbers) = Cardinality(PlacesUpTo(J, n))
<1>1. PICK acc : /\ acc[0] = 0
                 /\ \A k \in 0..n : acc[k] \in Int
                 /\ \A k \in 1..n : acc[k] = acc[k - 1] + numbers[k]
                 /\ Total(numbers) = acc[n]
  BY TotalSteps
<1> DEFINE Good(k) == IsFiniteSet(PlacesUpTo(J, k)) /\ acc[k] = Cardinality(PlacesUpTo(J, k))
           T == {k \in 0..n : Good(k)}
<1>2. 0 \in T
  <2>1. PlacesUpTo(J, 0) = {}
    BY 1..0 = {} DEF PlacesUpTo
  <2>2. Good(0)
    BY <1>1, <2>1, FS_EmptySet
  <2> QED BY <2>2
<1>3. ASSUME NEW k \in 1..n, k - 1 \in T PROVE k \in T
  <2> DEFINE A == PlacesUpTo(J, k - 1)
             B == {<<k, j>> : j \in J[k]}
  <2>1. PlacesUpTo(J, k) = A \union B
    <3>1. \A i : i \in 1..k <=> i = k \/ i \in 1..(k - 1)
      OBVIOUS
    <3>2. \A x : x \in PlacesUpTo(J, k) <=> \E i \in 1..k : \E j \in J[i] : x = <<i, j>>
      BY DEF PlacesUpTo
    <3>3. \A x : x \in A <=> \E i \in 1..(k - 1) : \E j \in J[i] : x = <<i, j>>
      BY DEF PlacesUpTo
    <3>4. \A x : x \in B <=> \E j \in J[k] : x = <<k, j>>
      OBVIOUS
    <3> HIDE DEF A, B
    <3>5. \A x : x \in PlacesUpTo(J, k) <=> x \in A \/ x \in B
      BY <3>1, <3>2, <3>3, <3>4
    <3> QED BY <3>5
  <2>2. A \intersect B = {}
    <3>1. \A i \in 1..(k - 1) : i # k
      OBVIOUS
    <3> QED BY <3>1 DEF PlacesUpTo
  <2>3. IsFiniteSet(B) /\ Cardinality(B) = numbers[k]
    <3> DEFINE f == [j \in J[k] |-> <<k, j>>]
    <3>1. f \in Bijection(J[k], B)
      <4>1. f \in [J[k] -> B] /\ \A y \in B : \E j \in J[k] : f[j] = y
        OBVIOUS
      <4>2. \A i, j \in J[k] : f[i] = f[j] => i = j
        OBVIOUS
      <4> HIDE DEF f, B
      <4> QED BY <4>1, <4>2 DEF Bijection, Injection, Surjection, IsInjective
    <3>2. ExistsBijection(J[k], B)
      BY <3>1 DEF ExistsBijection
    <3> HIDE DEF f, B
    <3> QED BY <3>2, FS_Bijection
  <2>4. IsFiniteSet(A) /\ acc[k - 1] = Cardinality(A)
    BY <1>3
  <2> HIDE DEF A, B
  <2>5. IsFiniteSet(A \union B)
        /\ Cardinality(A \union B) = Cardinality(A) + Cardinality(B) - Cardinality(A \intersect B)
    BY <2>3, <2>4, FS_Union
  <2>6. Cardinality(A \intersect B) = 0
    BY <2>2, FS_EmptySet
  <2>7. Cardinality(A) \in Nat /\ Cardinality(B) \in Nat
    BY <2>3, <2>4, FS_CardinalityType
  <2>8. acc[k] = Cardinality(A \union B)
    BY <1>1, <2>3, <2>4, <2>5, <2>6, <2>7
  <2>9. Good(k) /\ k \in 0..n
    BY <2>1, <2>5, <2>8
  <2> QED BY <2>9
<1>4. n \in T
  <2> HIDE DEF T
  <2>1. n \in 0..n
    OBVIOUS
  <2> QED BY <1>2, <1>3, <2>1, UpTo
<1> QED BY <1>1, <1>4

\* The totals counted in the lines of files.
PlacesIn(files) == UNION {{<<i, j>> : j \in DOMAIN files[i].lines} : i \in DOMAIN files}

LEMMA LinesOfIs ==
    ASSUME NEW files \in Seq(FileRecords)
    PROVE  /\ LinesOf(files).lt = Cardinality(PlacesIn(files))
           /\ LinesOf(files).lc = Cardinality({p \in PlacesIn(files) :
                                                 files[p[1]].lines[p[2]].c > 0})
<1> DEFINE n == Len(files)
           J == [i \in 1..n |-> DOMAIN files[i].lines]
           H == [i \in 1..n |-> {j \in DOMAIN files[i].lines : files[i].lines[j].c > 0}]
           lt == [i \in DOMAIN files |-> Len(files[i].lines)]
           lc == [i \in DOMAIN files |-> HitLines(files[i].lines)]
           hits == {p \in PlacesIn(files) : files[p[1]].lines[p[2]].c > 0}
<1>1. n \in Nat /\ DOMAIN files = 1..n /\ \A i \in 1..n : files[i] \in FileRecords
  OBVIOUS
<1>2. \A i \in 1..n : files[i].lines \in Seq(LineRecords)
  BY <1>1 DEF FileRecords
<1>3. ASSUME NEW i \in 1..n
      PROVE  /\ IsFiniteSet(J[i]) /\ lt[i] = Cardinality(J[i]) /\ lt[i] \in Int
             /\ IsFiniteSet(H[i]) /\ lc[i] = Cardinality(H[i]) /\ lc[i] \in Int
  <2>1. PICK m \in Nat : m = Len(files[i].lines) /\ DOMAIN files[i].lines = 1..m
    BY <1>2
  <2>2. IsFiniteSet(1..m) /\ Cardinality(1..m) = m
    BY FS_Interval
  <2>3. J[i] = 1..m /\ lt[i] = m
    BY <1>1, <2>1
  <2>4. H[i] \subseteq 1..m
    BY <2>1
  <2>5. IsFiniteSet(H[i])
    <3> HIDE DEF H
    <3> QED BY <2>2, <2>4, FS_Subset
  <2>6. lc[i] = Cardinality(H[i])
    BY <1>1 DEF HitLines
  <2>7. Cardinality(H[i]) \in Nat
    BY <2>5, FS_CardinalityType
  <2> QED BY <2>2, <2>3, <2>5, <2>6, <2>7
<1>4. lt \in [1..n -> Int] /\ lc \in [1..n -> Int]
  BY <1>1, <1>3
<1>5. LinesOf(files).lt = Total(lt) /\ LinesOf(files).lc = Total(lc)
  BY DEF LinesOf
<1>6. PlacesIn(files) = PlacesUpTo(J, n)
  BY <1>1 DEF PlacesIn, PlacesUpTo
<1>7. hits = PlacesUpTo(H, n)
  <2>1. \A x : x \in PlacesIn(files) <=>
                 \E i \in 1..n : \E j \in DOMAIN files[i].lines : x = <<i, j>>
    BY <1>1 DEF PlacesIn
  <2>2. \A x : x \in PlacesUpTo(H, n) <=>
                 \E i \in 1..n : \E j \in DOMAIN files[i].lines :
                    x = <<i, j>> /\ files[i].lines[j].c > 0
    BY DEF PlacesUpTo
  <2>3. \A i, j, x : x = <<i, j>> => x[1] = i /\ x[2] = j
    OBVIOUS
  <2>4. ASSUME NEW x PROVE x \in hits <=> x \in PlacesUpTo(H, n)
    BY <2>1, <2>2, <2>3
  <2> QED BY <2>4
<1> HIDE DEF J, H, lt, lc, hits, n
<1>8. Total(lt) = Cardinality(PlacesUpTo(J, n))
  BY <1>1, <1>3, <1>4, CountPlaces
<1>9. Total(lc) = Cardinality(PlacesUpTo(H, n))
  BY <1>1, <1>3, <1>4, CountPlaces
<1>10. hits = {p \in PlacesIn(files) : files[p[1]].lines[p[2]].c > 0}
  BY DEF hits
<1> QED BY <1>5, <1>6, <1>7, <1>8, <1>9, <1>10
-----------------------------------------------------------------------------
(* Snapshots *)

LEMMA StoredSays ==
    ASSUME NEW row
    PROVE  /\ SaidLines(Stored(row)) = LinesIn(row.files)
           /\ SaidHits(Stored(row)) = HitsIn(row.files)
<1> DEFINE S == Stored(row)
<1>1. \A e : e \in S <=> \E f \in Range(row.files) : \E l \in Range(f.lines) :
                            e = SaidBy(f.path, l)
  BY DEF Stored, SaidBy
<1> HIDE DEF S
<1>2. ASSUME NEW x PROVE x \in SaidLines(S) <=> x \in LinesIn(row.files)
  <2>1. x \in SaidLines(S) <=> \E e \in S : x = e.line
    BY DEF SaidLines
  <2>2. x \in LinesIn(row.files) <=>
          \E f \in Range(row.files) : \E l \in Range(f.lines) : x = <<f.path, l.n>>
    BY InLines DEF NumbersOf, Numbers
  <2>3. ASSUME NEW e \in S, x = e.line
        PROVE  \E f \in Range(row.files) : \E l \in Range(f.lines) : x = <<f.path, l.n>>
    <3>1. PICK f \in Range(row.files) : \E l \in Range(f.lines) : e = SaidBy(f.path, l)
      BY <1>1
    <3>2. PICK l \in Range(f.lines) : e = SaidBy(f.path, l)
      BY <3>1
    <3> QED BY <2>3, <3>2, SaidByIs
  <2>4. ASSUME NEW f \in Range(row.files), NEW l \in Range(f.lines), x = <<f.path, l.n>>
        PROVE  \E e \in S : x = e.line
    <3>1. SaidBy(f.path, l) \in S /\ SaidBy(f.path, l).line = x
      BY <1>1, <2>4, SaidByIs
    <3> QED BY <3>1
  <2> QED BY <2>1, <2>2, <2>3, <2>4
<1>3. ASSUME NEW x PROVE x \in SaidHits(S) <=> x \in HitsIn(row.files)
  <2>1. x \in SaidHits(S) <=> \E e \in S : x = e.line /\ e.hit
    BY DEF SaidHits
  <2>2. x \in HitsIn(row.files) <=>
          \E f \in Range(row.files) : \E l \in Range(f.lines) : x = <<f.path, l.n>> /\ l.c > 0
    BY InLines DEF HitNumbersOf, HitNumbers
  <2>3. ASSUME NEW e \in S, x = e.line, e.hit
        PROVE  \E f \in Range(row.files) : \E l \in Range(f.lines) :
                  x = <<f.path, l.n>> /\ l.c > 0
    <3>1. PICK f \in Range(row.files) : \E l \in Range(f.lines) : e = SaidBy(f.path, l)
      BY <1>1
    <3>2. PICK l \in Range(f.lines) : e = SaidBy(f.path, l)
      BY <3>1
    <3> QED BY <2>3, <3>2, SaidByIs
  <2>4. ASSUME NEW f \in Range(row.files), NEW l \in Range(f.lines), x = <<f.path, l.n>>, l.c > 0
        PROVE  \E e \in S : x = e.line /\ e.hit
    <3>1. SaidBy(f.path, l) \in S /\ SaidBy(f.path, l).line = x /\ SaidBy(f.path, l).hit
      BY <1>1, <2>4, SaidByIs
    <3> QED BY <3>1
  <2> QED BY <2>1, <2>2, <2>3, <2>4
<1> QED BY <1>2, <1>3 DEF S

\* Naming or detecting the format of a document does not change what it says.
LEMMA NamedIs ==
    ASSUME NEW d \in Documents, NEW format \in {d.format, Detect(d)} \ {"none"},
           NEW e, e = [d EXCEPT !.format = format]
    PROVE  e \in Documents /\ Said(e) = Said(d)
<1>1. CASE d \in [format: {"lcov"}, recs: Seq(LcovText)]
  <2>1. d.format = "lcov"
    BY <1>1
  <2>2. Detect(d) \in {"lcov", "none"}
    BY <2>1 DEF Detect, JsonFormats, XmlFormats
  <2>3. e = d
    BY <1>1, <2>1, <2>2
  <2> QED BY <2>3
<1>2. CASE d \in [format: {"go"}, recs: Seq(GoText)]
  <2>1. d.format = "go"
    BY <1>2
  <2>2. Detect(d) \in {"go", "none"}
    BY <2>1 DEF Detect, JsonFormats, XmlFormats
  <2>3. e = d
    BY <1>2, <2>1, <2>2
  <2> QED BY <2>3
<1>3. CASE d \in FilesText
  <2>1. /\ d \in [format: JsonFormats \union XmlFormats, target: STRING, branches: BOOLEAN,
                  marks: SUBSET STRING, totals: Sums \union {NoTotals}, files: Seq(SourceFile)]
        /\ d.format \in JsonFormats => Detect(d) \in {d.format, "none"}
    BY <1>3 DEF FilesText
  <2>2. CASE format = d.format
    <3>1. e = d
      BY <2>1, <2>2
    <3> QED BY <3>1
  <2>3. CASE format # d.format
    <3>1. d.format \in XmlFormats /\ format = Detect(d)
      BY <2>1, <2>3
    <3>2. format = "jacoco"
      BY <3>1 DEF Detect, XmlFormats, JsonFormats
    <3>3. e = [d EXCEPT !.format = "jacoco"] /\ "jacoco" \in XmlFormats
      BY <3>2 DEF XmlFormats
    <3>4. e \in [format: JsonFormats \union XmlFormats, target: STRING, branches: BOOLEAN,
                 marks: SUBSET STRING, totals: Sums \union {NoTotals}, files: Seq(SourceFile)]
      BY <2>1, <3>3
    <3>5. e.format = "jacoco" /\ e.files = d.files
      BY <2>1, <3>3
    <3>6. d.format # "llvm"
      BY <3>1 DEF XmlFormats
    <3>7. \A i \in DOMAIN d.files : \A r \in Range(d.files[i].recs) : r.has
      BY <1>3, <3>6 DEF FilesText
    <3>8. e \in FilesText
      BY <3>4, <3>5, <3>7 DEF FilesText, JsonFormats
    <3>9. Said(e) = FilesSaid(e) /\ Said(d) = FilesSaid(d)
      BY <1>3, <3>8, FilesSaidIs
    <3>10. FilesSaid(e) = FilesSaid(d)
      BY <3>5 DEF FilesSaid
    <3> QED BY <3>8, <3>9, <3>10 DEF Documents
  <2> QED BY <2>2, <2>3
<1> QED BY <1>1, <1>2, <1>3 DEF Documents

\* What a parsed document becomes is as the document reports.
LEMMA ParsedIs ==
    ASSUME NEW d \in Documents, NEW format \in {d.format, Detect(d)} \ {"none"},
           NEW r, r = Parse([d EXCEPT !.format = format]), r # NoReport
    PROVE  /\ r.files \in Seq(FileRecords) /\ r.sum \in Sums
           /\ \A row : row.doc = d /\ row.files = r.files /\ row.sum = r.sum => AsReported(row)
<1>1. PICK e \in Documents : e = [d EXCEPT !.format = format] /\ Said(e) = Said(d)
  BY NamedIs
<1>2. PICK u : u = ParseAs(e) /\ u # NoReport /\ r = DropImplausible(u)
  BY <1>1 DEF Parse
<1>3. /\ u.files \in Seq(FileRecords) /\ u.sum \in Sums
      /\ Readable(e) => Faithful(e, u.files)
  BY <1>2, ParseAsIs
<1>4. /\ r.files \in Seq(FileRecords) /\ r.sum \in Sums
      /\ LinesIn(r.files) = {x \in LinesIn(u.files) : Plausible(x[2])}
      /\ HitsIn(r.files) = {x \in HitsIn(u.files) : Plausible(x[2])}
      /\ r.files # u.files => /\ r.sum.lt = LinesOf(r.files).lt
                              /\ r.sum.lc = LinesOf(r.files).lc
  BY <1>2, <1>3, DropIs
<1>5. ASSUME NEW row, row.doc = d, row.files = r.files, row.sum = r.sum
      PROVE  AsReported(row)
  <2> DEFINE all == Said(d)
             said == {s \in Said(d) : Plausible(s.line[2])}
  <2>1. SUFFICES ASSUME Readable(d)
                 PROVE  /\ SaidLines(Stored(row)) = SaidLines(said)
                        /\ SaidHits(Stored(row)) = SaidHits(said)
                        /\ said # all =>
                             /\ row.sum.lt = Cardinality(Places(row))
                             /\ row.sum.lc = Cardinality({p \in Places(row) :
                                                row.files[p[1]].lines[p[2]].c > 0})
    BY <1>5 DEF AsReported, SaidLines, SaidHits
  <2>2. LinesIn(u.files) = SaidLines(all) /\ HitsIn(u.files) = SaidHits(all)
    BY <1>1, <1>3, <2>1 DEF Faithful, Readable
  <2>3. SaidLines(said) = {x \in SaidLines(all) : Plausible(x[2])}
    BY DEF SaidLines
  <2>4. SaidHits(said) = {x \in SaidHits(all) : Plausible(x[2])}
    BY DEF SaidHits
  <2>5. SaidLines(Stored(row)) = SaidLines(said)
    BY <1>4, <1>5, <2>2, <2>3, StoredSays
  <2>6. SaidHits(Stored(row)) = SaidHits(said)
    BY <1>4, <1>5, <2>2, <2>4, StoredSays
  <2>7. ASSUME said # all PROVE r.files # u.files
    <3>1. PICK s \in all : ~Plausible(s.line[2])
      BY <2>7
    <3>2. s.line \in LinesIn(u.files)
      BY <2>2, <3>1 DEF SaidLines
    <3>3. s.line \notin LinesIn(r.files)
      BY <1>4, <3>1
    <3> QED BY <3>2, <3>3
  <2>8. Places(row) = PlacesIn(r.files)
    BY <1>5 DEF Places, PlacesIn
  <2>9. ASSUME said # all
        PROVE  /\ row.sum.lt = Cardinality(Places(row))
               /\ row.sum.lc = Cardinality({p \in Places(row) :
                                              row.files[p[1]].lines[p[2]].c > 0})
    <3>1. /\ LinesOf(r.files).lt = Cardinality(PlacesIn(r.files))
          /\ LinesOf(r.files).lc = Cardinality({p \in PlacesIn(r.files) :
                                                  r.files[p[1]].lines[p[2]].c > 0})
      BY <1>4, LinesOfIs
    <3>2. row.sum.lt = LinesOf(r.files).lt /\ row.sum.lc = LinesOf(r.files).lc
      BY <1>4, <1>5, <2>7, <2>9
    <3> QED BY <1>5, <2>8, <3>1, <3>2
  <2> QED BY <2>5, <2>6, <2>9
<1> QED BY <1>4, <1>5
-----------------------------------------------------------------------------
(* The union of snapshots *)

Unions == UNION {[D -> BOOLEAN] : D \in SUBSET (Seq(STRING) \X Int)}

\* The places a union has, and those it has as executed.
Has(u, D, H) == u \in Unions /\ DOMAIN u = D /\ {x \in D : u[x]} = H

LEMMA HasIs ==
    ASSUME NEW u \in Unions
    PROVE  /\ Has(u, DOMAIN u, {x \in DOMAIN u : u[x]})
           /\ DOMAIN u \subseteq Seq(STRING) \X Int
           /\ u \in [DOMAIN u -> BOOLEAN]
<1>1. PICK D \in SUBSET (Seq(STRING) \X Int) : u \in [D -> BOOLEAN]
  BY DEF Unions
<1> QED BY <1>1 DEF Has

LEMMA EnterIs ==
    ASSUME NEW u, NEW D, NEW H, Has(u, D, H), NEW path \in Seq(STRING), NEW l \in LineRecords
    PROVE  Has(Enter(u, path, l), D \union {<<path, l.n>>},
               H \union (IF l.c > 0 THEN {<<path, l.n>>} ELSE {}))
<1> DEFINE p == <<path, l.n>>
           E == D \union {p}
           v == [x \in E |-> IF x = p THEN l.c > 0 \/ (x \in D /\ u[x]) ELSE u[x]]
<1>1. Enter(u, path, l) = v
  BY DEF Enter, Has
<1>2. D \subseteq Seq(STRING) \X Int /\ u \in [D -> BOOLEAN]
  BY HasIs DEF Has
<1>3. p \in Seq(STRING) \X Int
  BY DEF LineRecords
<1> HIDE DEF p
<1>4. v \in [E -> BOOLEAN]
  <2>1. \A x \in E : x # p => x \in D /\ u[x] \in BOOLEAN
    BY <1>2
  <2>2. \A x \in E : (IF x = p THEN l.c > 0 \/ (x \in D /\ u[x]) ELSE u[x]) \in BOOLEAN
    BY <2>1
  <2> QED BY <2>2
<1>5. v \in Unions /\ DOMAIN v = E
  <2>1. E \in SUBSET (Seq(STRING) \X Int)
    BY <1>2, <1>3
  <2> HIDE DEF v, E
  <2> QED BY <1>4, <2>1 DEF Unions
<1>6. ASSUME NEW x \in E
      PROVE  v[x] <=> x \in H \union (IF l.c > 0 THEN {p} ELSE {})
  <2>1. x \in H <=> x \in D /\ u[x]
    BY DEF Has
  <2>2. v[x] = IF x = p THEN l.c > 0 \/ (x \in D /\ u[x]) ELSE u[x]
    OBVIOUS
  <2>3. CASE x = p
    <3>1. v[x] <=> l.c > 0 \/ (x \in D /\ u[x])
      BY <2>2, <2>3
    <3> QED BY <2>1, <2>3, <3>1
  <2>4. CASE x # p
    <3>1. (v[x] <=> u[x]) /\ x \in D
      BY <2>2, <2>4
    <3> QED BY <2>1, <2>4, <3>1
  <2> QED BY <2>3, <2>4
<1>7. H \subseteq D
  BY DEF Has
<1> HIDE DEF v
<1>8. {x \in E : v[x]} = H \union (IF l.c > 0 THEN {p} ELSE {})
  BY <1>6, <1>7
<1> QED BY <1>1, <1>5, <1>8 DEF Has, p

\* Line by line.
LEMMA EnterFileSteps ==
    ASSUME NEW f \in FileRecords, NEW base \in Unions
    PROVE  \E acc : /\ acc[0] = base
                    /\ \A k \in 0..Len(f.lines) : acc[k] \in Unions
                    /\ \A k \in 1..Len(f.lines) : acc[k] = Enter(acc[k - 1], f.path, f.lines[k])
                    /\ EnterFile(base, f) = acc[Len(f.lines)]
<1> DEFINE s == f.lines
           n == Len(s)
           F(g) == [u \in SUBSET (DOMAIN s) |->
                      IF u = {} THEN base ELSE Enter(g[u \ {Max(u)}], f.path, s[Max(u)])]
           g == CHOOSE g : g = F(g)
           W == Unions
           G == [x \in (1..n) \X W |-> Enter(x[2], f.path, s[x[1]])]
<1>1. /\ s \in Seq(LineRecords) /\ f.path \in Seq(STRING)
      /\ n \in Nat /\ DOMAIN s = 1..n /\ (\A i \in 1..n : s[i] \in LineRecords)
  BY DEF FileRecords
<1>2. \A i \in 1..n, v \in W : G[<<i, v>>] = Enter(v, f.path, s[i])
  OBVIOUS
<1>3. ASSUME NEW i \in 1..n, NEW v \in W PROVE Enter(v, f.path, s[i]) \in W
  <2>1. PICK D, H : Has(v, D, H)
    BY HasIs
  <2>2. s[i] \in LineRecords
    BY <1>1
  <2> QED BY <1>1, <2>1, <2>2, EnterIs DEF Has
<1>4. ClosedUnder(G, n, W)
  BY <1>2, <1>3 DEF ClosedUnder
<1>5. EnterFile(base, f) = g[1..n]
  BY <1>1 DEF EnterFile, FoldLeft, MapThenFoldSet
<1> HIDE DEF n, W, G, s
<1>6. \E h : h = F(h)
  <2>1. PICK h : Solution(h, n, W, base, G)
    BY <1>1, <1>4, FoldExists DEF W
  <2>2. h = F(h)
    BY <1>1, <1>2, <2>1 DEF Solution
  <2> QED BY <2>2
<1>7. g = F(g)
  BY <1>6
<1> HIDE DEF g
<1>8. Folds(g, n, W, base, G)
  BY <1>1, <1>2, <1>7, MaxAmong DEF Folds
<1>9. PICK acc : Chain(acc, n, W, base, G) /\ acc[n] = g[1..n]
  BY <1>1, <1>4, <1>8, FoldSteps DEF W
<1>10. ASSUME NEW k \in 1..n PROVE acc[k] = Enter(acc[k - 1], f.path, s[k])
  BY <1>1, <1>2, <1>9 DEF Chain
<1> QED BY <1>5, <1>9, <1>10 DEF n, W, s, Chain

LEMMA EnterFileIs ==
    ASSUME NEW u, NEW D, NEW H, Has(u, D, H), NEW f \in FileRecords
    PROVE  Has(EnterFile(u, f), D \union {<<f.path, n>> : n \in NumbersOf(f)},
               H \union {<<f.path, n>> : n \in HitNumbersOf(f)})
<1> DEFINE s == f.lines
           n == Len(s)
           Lines(k) == {<<f.path, m>> : m \in Numbers(Before(s, k))}
           Hits(k) == {<<f.path, m>> : m \in HitNumbers(Before(s, k))}
<1>1. /\ s \in Seq(LineRecords) /\ f.path \in Seq(STRING) /\ u \in Unions
      /\ n \in Nat /\ n \in 0..n /\ DOMAIN s = 1..n /\ \A i \in 1..n : s[i] \in LineRecords
  BY DEF FileRecords, Has
<1>2. PICK acc : /\ acc[0] = u
                 /\ \A k \in 0..n : acc[k] \in Unions
                 /\ \A k \in 1..n : acc[k] = Enter(acc[k - 1], f.path, s[k])
                 /\ EnterFile(u, f) = acc[n]
  BY <1>1, EnterFileSteps
<1> DEFINE T == {k \in 0..n : Has(acc[k], D \union Lines(k), H \union Hits(k))}
<1>3. 0 \in T
  <2>1. Lines(0) = {} /\ Hits(0) = {} /\ 0 \in 0..n
    BY <1>1, BeforeAll DEF Numbers, HitNumbers
  <2> HIDE DEF Lines, Hits
  <2>2. Has(acc[0], D \union Lines(0), H \union Hits(0))
    BY <1>2, <2>1
  <2> QED BY <2>1, <2>2
<1>4. ASSUME NEW k \in 1..n, k - 1 \in T PROVE k \in T
  <2>1. Before(s, k) = Before(s, k - 1) \union {s[k]}
    BY <1>1, BeforeMore
  <2>2. Lines(k) = Lines(k - 1) \union {<<f.path, s[k].n>>}
    BY <2>1 DEF Numbers
  <2>3. Hits(k) = Hits(k - 1) \union (IF s[k].c > 0 THEN {<<f.path, s[k].n>>} ELSE {})
    BY <2>1 DEF HitNumbers
  <2>4. Has(acc[k - 1], D \union Lines(k - 1), H \union Hits(k - 1))
    BY <1>4
  <2>5. PICK l \in LineRecords : l = s[k]
    BY <1>1
  <2> HIDE DEF Lines, Hits
  <2>6. PICK before, D1, H1 : /\ before = acc[k - 1] /\ Has(before, D1, H1)
                              /\ D1 = D \union Lines(k - 1) /\ H1 = H \union Hits(k - 1)
    BY <2>4
  <2>7. Has(Enter(before, f.path, l), D1 \union {<<f.path, l.n>>},
            H1 \union (IF l.c > 0 THEN {<<f.path, l.n>>} ELSE {}))
    BY <1>1, <2>6, EnterIs
  <2>8. acc[k] = Enter(before, f.path, l)
    BY <1>2, <2>5, <2>6
  <2>9. /\ D1 \union {<<f.path, l.n>>} = D \union Lines(k)
        /\ H1 \union (IF l.c > 0 THEN {<<f.path, l.n>>} ELSE {}) = H \union Hits(k)
    BY <2>2, <2>3, <2>5, <2>6
  <2>10. Has(acc[k], D \union Lines(k), H \union Hits(k)) /\ k \in 0..n
    <3>1. k \in 0..n
      BY <1>1
    <3>2. Has(acc[k], D \union Lines(k), H \union Hits(k))
      BY <2>7, <2>8, <2>9
    <3> QED BY <3>1, <3>2
  <2> QED BY <2>10
<1>5. n \in T
  <2> HIDE DEF T, n
  <2> QED BY <1>1, <1>3, <1>4, UpTo
<1>6. Before(s, n) = Range(s)
  BY <1>1, BeforeAll
<1> QED BY <1>2, <1>5, <1>6 DEF NumbersOf, HitNumbersOf
\* File by file.
LEMMA EnterFilesSteps ==
    ASSUME NEW files \in Seq(FileRecords), NEW base \in Unions
    PROVE  \E acc : /\ acc[0] = base
                    /\ \A k \in 0..Len(files) : acc[k] \in Unions
                    /\ \A k \in 1..Len(files) : acc[k] = EnterFile(acc[k - 1], files[k])
                    /\ FoldLeft(EnterFile, base, files) = acc[Len(files)]
<1> DEFINE n == Len(files)
           F(g) == [u \in SUBSET (DOMAIN files) |->
                      IF u = {} THEN base ELSE EnterFile(g[u \ {Max(u)}], files[Max(u)])]
           g == CHOOSE g : g = F(g)
           W == Unions
           G == [x \in (1..n) \X W |-> EnterFile(x[2], files[x[1]])]
<1>1. n \in Nat /\ DOMAIN files = 1..n /\ (\A i \in 1..n : files[i] \in FileRecords)
  OBVIOUS
<1>2. \A i \in 1..n, v \in W : G[<<i, v>>] = EnterFile(v, files[i])
  OBVIOUS
<1>3. ASSUME NEW i \in 1..n, NEW v \in W PROVE EnterFile(v, files[i]) \in W
  <2>1. PICK D, H : Has(v, D, H)
    BY HasIs
  <2>2. files[i] \in FileRecords
    BY <1>1
  <2> QED BY <2>1, <2>2, EnterFileIs DEF Has
<1>4. ClosedUnder(G, n, W)
  BY <1>2, <1>3 DEF ClosedUnder
<1>5. FoldLeft(EnterFile, base, files) = g[1..n]
  BY <1>1 DEF FoldLeft, MapThenFoldSet
<1> HIDE DEF n, W, G
<1>6. \E h : h = F(h)
  <2>1. PICK h : Solution(h, n, W, base, G)
    BY <1>1, <1>4, FoldExists DEF W
  <2>2. h = F(h)
    BY <1>1, <1>2, <2>1 DEF Solution
  <2> QED BY <2>2
<1>7. g = F(g)
  BY <1>6
<1> HIDE DEF g
<1>8. Folds(g, n, W, base, G)
  BY <1>1, <1>2, <1>7, MaxAmong DEF Folds
<1>9. PICK acc : Chain(acc, n, W, base, G) /\ acc[n] = g[1..n]
  BY <1>1, <1>4, <1>8, FoldSteps DEF W
<1>10. ASSUME NEW k \in 1..n PROVE acc[k] = EnterFile(acc[k - 1], files[k])
  BY <1>1, <1>2, <1>9 DEF Chain
<1> QED BY <1>5, <1>9, <1>10 DEF n, W, Chain

LEMMA EnterFilesIs ==
    ASSUME NEW u, NEW D, NEW H, Has(u, D, H), NEW files \in Seq(FileRecords)
    PROVE  Has(FoldLeft(EnterFile, u, files), D \union LinesIn(files), H \union HitsIn(files))
<1> DEFINE n == Len(files)
           Lines(k) == UNION {{<<f.path, m>> : m \in NumbersOf(f)} : f \in Before(files, k)}
           Hits(k) == UNION {{<<f.path, m>> : m \in HitNumbersOf(f)} : f \in Before(files, k)}
<1>1. /\ u \in Unions
      /\ n \in Nat /\ n \in 0..n /\ DOMAIN files = 1..n /\ \A i \in 1..n : files[i] \in FileRecords
  BY DEF Has
<1>2. PICK acc : /\ acc[0] = u
                 /\ \A k \in 0..n : acc[k] \in Unions
                 /\ \A k \in 1..n : acc[k] = EnterFile(acc[k - 1], files[k])
                 /\ FoldLeft(EnterFile, u, files) = acc[n]
  BY <1>1, EnterFilesSteps
<1> DEFINE T == {k \in 0..n : Has(acc[k], D \union Lines(k), H \union Hits(k))}
<1>3. 0 \in T
  <2>1. Lines(0) = {} /\ Hits(0) = {} /\ 0 \in 0..n
    BY <1>1, BeforeAll
  <2> HIDE DEF Lines, Hits
  <2>2. Has(acc[0], D \union Lines(0), H \union Hits(0))
    BY <1>2, <2>1
  <2> QED BY <2>1, <2>2
<1>4. ASSUME NEW k \in 1..n, k - 1 \in T PROVE k \in T
  <2>1. Before(files, k) = Before(files, k - 1) \union {files[k]}
    BY BeforeMore
  <2>2. Lines(k) = Lines(k - 1) \union {<<files[k].path, m>> : m \in NumbersOf(files[k])}
    BY <2>1
  <2>3. Hits(k) = Hits(k - 1) \union {<<files[k].path, m>> : m \in HitNumbersOf(files[k])}
    BY <2>1
  <2>4. Has(acc[k - 1], D \union Lines(k - 1), H \union Hits(k - 1))
    BY <1>4
  <2>5. PICK f \in FileRecords : f = files[k]
    BY <1>1
  <2> HIDE DEF Lines, Hits
  <2>6. PICK before, D1, H1 : /\ before = acc[k - 1] /\ Has(before, D1, H1)
                              /\ D1 = D \union Lines(k - 1) /\ H1 = H \union Hits(k - 1)
    BY <2>4
  <2>7. Has(EnterFile(before, f), D1 \union {<<f.path, m>> : m \in NumbersOf(f)},
            H1 \union {<<f.path, m>> : m \in HitNumbersOf(f)})
    BY <2>6, EnterFileIs
  <2>8. acc[k] = EnterFile(before, f)
    BY <1>2, <2>5, <2>6
  <2>9. /\ D1 \union {<<f.path, m>> : m \in NumbersOf(f)} = D \union Lines(k)
        /\ H1 \union {<<f.path, m>> : m \in HitNumbersOf(f)} = H \union Hits(k)
    BY <2>2, <2>3, <2>5, <2>6
  <2>10. Has(acc[k], D \union Lines(k), H \union Hits(k))
    BY <2>7, <2>8, <2>9
  <2>11. k \in 0..n
    BY <1>1
  <2> QED BY <2>10, <2>11
<1>5. n \in T
  <2> HIDE DEF T, n
  <2> QED BY <1>1, <1>3, <1>4, UpTo
<1>6. Before(files, n) = Range(files)
  BY BeforeAll
<1>7. Lines(n) = LinesIn(files) /\ Hits(n) = HitsIn(files)
  BY <1>6 DEF LinesIn, HitsIn
<1> QED BY <1>2, <1>5, <1>7

LEMMA EnterRowIs ==
    ASSUME NEW u, NEW D, NEW H, Has(u, D, H), NEW row, row.files \in Seq(FileRecords)
    PROVE  /\ Has(EnterRow(u, row), D \union LinesIn(row.files), H \union HitsIn(row.files))
           /\ HasLines(row) <=> Stored(row) # {}
<1>1. CASE HasLines(row)
  <2>1. EnterRow(u, row) = FoldLeft(EnterFile, u, row.files)
    BY <1>1 DEF EnterRow
  <2>2. PICK i \in DOMAIN row.files : row.files[i].lines # << >>
    BY <1>1 DEF HasLines
  <2>3. row.files[i].lines \in Seq(LineRecords)
    <3>1. row.files[i] \in FileRecords
      OBVIOUS
    <3> QED BY <3>1 DEF FileRecords
  <2>4. 1 \in DOMAIN row.files[i].lines
    BY <2>2, <2>3
  <2>5. row.files[i] \in Range(row.files) /\ row.files[i].lines[1] \in Range(row.files[i].lines)
    BY <2>4 DEF Range
  <2>6. Stored(row) # {}
    <3>1. PICK f \in Range(row.files) : \E l \in Range(f.lines) : TRUE
      BY <2>5
    <3>2. PICK l \in Range(f.lines) : TRUE
      BY <3>1
    <3>3. \A e : e \in Stored(row) <=> \E g \in Range(row.files) :
                                      \E m \in Range(g.lines) : e = SaidBy(g.path, m)
      BY DEF Stored, SaidBy
    <3>4. SaidBy(f.path, l) \in Stored(row)
      BY <3>3
    <3> QED BY <3>4
  <2> QED BY <1>1, <2>1, <2>6, EnterFilesIs
<1>2. CASE ~HasLines(row)
  <2>1. \A f \in Range(row.files) : f.lines = << >>
    BY <1>2 DEF HasLines, Range
  <2>2. Range(<< >>) = {} /\ Numbers({}) = {} /\ HitNumbers({}) = {}
    BY DEF Range, Numbers, HitNumbers
  <2>3. LinesIn(row.files) = {} /\ HitsIn(row.files) = {}
    BY <2>1, <2>2 DEF LinesIn, HitsIn, NumbersOf, HitNumbersOf
  <2>4. Stored(row) = {}
    BY <2>1, <2>2 DEF Stored
  <2>5. EnterRow(u, row) = u
    BY <1>2 DEF EnterRow
  <2> QED BY <1>2, <2>3, <2>4, <2>5
<1> QED BY <1>1, <1>2
\* Snapshot by snapshot.
LEMMA EnterRowsSteps ==
    ASSUME NEW n \in Nat, NEW got, DOMAIN got = 1..n,
           \A i \in 1..n : got[i].files \in Seq(FileRecords), NEW base \in Unions
    PROVE  \E acc : /\ acc[0] = base
                    /\ \A k \in 0..n : acc[k] \in Unions
                    /\ \A k \in 1..n : acc[k] = EnterRow(acc[k - 1], got[k])
                    /\ FoldLeft(EnterRow, base, got) = acc[n]
<1> DEFINE F(g) == [u \in SUBSET (DOMAIN got) |->
                      IF u = {} THEN base ELSE EnterRow(g[u \ {Max(u)}], got[Max(u)])]
           g == CHOOSE g : g = F(g)
           W == Unions
           G == [x \in (1..n) \X W |-> EnterRow(x[2], got[x[1]])]
<1>1. \A i \in 1..n, v \in W : G[<<i, v>>] = EnterRow(v, got[i])
  OBVIOUS
<1>2. ASSUME NEW i \in 1..n, NEW v \in W PROVE EnterRow(v, got[i]) \in W
  <2>1. PICK D, H : Has(v, D, H)
    BY HasIs
  <2>2. PICK row : row = got[i] /\ row.files \in Seq(FileRecords)
    OBVIOUS
  <2> QED BY <2>1, <2>2, EnterRowIs DEF Has
<1>3. ClosedUnder(G, n, W)
  BY <1>1, <1>2 DEF ClosedUnder
<1>4. FoldLeft(EnterRow, base, got) = g[1..n]
  BY DEF FoldLeft, MapThenFoldSet
<1> HIDE DEF W, G
<1>5. \E h : h = F(h)
  <2>1. PICK h : Solution(h, n, W, base, G)
    BY <1>3, FoldExists DEF W
  <2>2. h = F(h)
    BY <1>1, <2>1 DEF Solution
  <2> QED BY <2>2
<1>6. g = F(g)
  BY <1>5
<1> HIDE DEF g
<1>7. Folds(g, n, W, base, G)
  BY <1>1, <1>6, MaxAmong DEF Folds
<1>8. PICK acc : Chain(acc, n, W, base, G) /\ acc[n] = g[1..n]
  BY <1>3, <1>7, FoldSteps DEF W
<1>9. ASSUME NEW k \in 1..n PROVE acc[k] = EnterRow(acc[k - 1], got[k])
  BY <1>1, <1>8 DEF Chain
<1> QED BY <1>4, <1>8, <1>9 DEF W, Chain

\* The places of the lines of the first k snapshots.
LinesUpTo(got, k) == UNION {LinesIn(got[i].files) : i \in 1..k}
HitsUpTo(got, k) == UNION {HitsIn(got[i].files) : i \in 1..k}

LEMMA EnterRowsIs ==
    ASSUME NEW n \in Nat, NEW got, DOMAIN got = 1..n,
           \A i \in 1..n : got[i].files \in Seq(FileRecords)
    PROVE  Has(FoldLeft(EnterRow, << >>, got), LinesUpTo(got, n), HitsUpTo(got, n))
<1>1. Has(<< >>, {}, {})
  <2>1. << >> \in [{} -> BOOLEAN] /\ DOMAIN << >> = {}
    OBVIOUS
  <2> QED BY <2>1 DEF Has, Unions
<1>2. PICK acc : /\ acc[0] = << >>
                 /\ \A k \in 0..n : acc[k] \in Unions
                 /\ \A k \in 1..n : acc[k] = EnterRow(acc[k - 1], got[k])
                 /\ FoldLeft(EnterRow, << >>, got) = acc[n]
  <2>1. << >> \in Unions
    BY <1>1 DEF Has
  <2> QED BY <2>1, EnterRowsSteps
<1> DEFINE T == {k \in 0..n : Has(acc[k], LinesUpTo(got, k), HitsUpTo(got, k))}
<1>3. 0 \in T
  <2>1. LinesUpTo(got, 0) = {} /\ HitsUpTo(got, 0) = {}
    BY 1..0 = {} DEF LinesUpTo, HitsUpTo
  <2>2. Has(acc[0], LinesUpTo(got, 0), HitsUpTo(got, 0))
    BY <1>1, <1>2, <2>1
  <2> QED BY <2>2
<1>4. ASSUME NEW k \in 1..n, k - 1 \in T PROVE k \in T
  <2>1. \A i : i \in 1..k <=> i = k \/ i \in 1..(k - 1)
    OBVIOUS
  <2>2. LinesUpTo(got, k) = LinesUpTo(got, k - 1) \union LinesIn(got[k].files)
    BY <2>1 DEF LinesUpTo
  <2>3. HitsUpTo(got, k) = HitsUpTo(got, k - 1) \union HitsIn(got[k].files)
    BY <2>1 DEF HitsUpTo
  <2>4. PICK before, D, H : /\ before = acc[k - 1] /\ Has(before, D, H)
                            /\ D = LinesUpTo(got, k - 1) /\ H = HitsUpTo(got, k - 1)
    BY <1>4
  <2>5. PICK row : row = got[k] /\ row.files \in Seq(FileRecords)
    OBVIOUS
  <2>6. Has(EnterRow(before, row), D \union LinesIn(row.files), H \union HitsIn(row.files))
    BY <2>4, <2>5, EnterRowIs
  <2>7. acc[k] = EnterRow(before, row)
    BY <1>2, <2>4, <2>5
  <2>8. Has(acc[k], LinesUpTo(got, k), HitsUpTo(got, k))
    BY <2>2, <2>3, <2>4, <2>5, <2>6, <2>7
  <2> QED BY <2>8
<1>5. n \in T
  <2> HIDE DEF T
  <2>1. n \in 0..n
    OBVIOUS
  <2> QED BY <1>3, <1>4, <2>1, UpTo
<1> QED BY <1>2, <1>5

-----------------------------------------------------------------------------
(* Sums over a set of places *)

\* The numbers at the places of s.
Masked(numbers, n, s) == [i \in 1..n |-> IF i \in s THEN numbers[i] ELSE 0]

LEMMA MaskedSum ==
    ASSUME NEW n \in Nat, NEW numbers, \A i \in 1..n : numbers[i] \in Int,
           NEW s \in SUBSET (1..n), NEW x \in s
    PROVE  /\ Total(Masked(numbers, n, s)) \in Int
           /\ Total(Masked(numbers, n, s \ {x})) \in Int
           /\ Total(Masked(numbers, n, s)) = Total(Masked(numbers, n, s \ {x})) + numbers[x]
<1> DEFINE a == Masked(numbers, n, s)
           b == Masked(numbers, n, s \ {x})
<1>1. a \in [1..n -> Int] /\ b \in [1..n -> Int]
  BY DEF Masked
<1>2. \A i \in 1..n : a[i] = IF i = x THEN b[i] + numbers[i] ELSE b[i]
  BY DEF Masked
<1>3. x \in 1..n /\ numbers[x] \in Int
  OBVIOUS
<1> HIDE DEF a, b
<1>4. PICK p : /\ p[0] = 0 /\ \A k \in 0..n : p[k] \in Int
               /\ \A k \in 1..n : p[k] = p[k - 1] + a[k]
               /\ Total(a) = p[n]
  BY <1>1, TotalSteps
<1>5. PICK q : /\ q[0] = 0 /\ \A k \in 0..n : q[k] \in Int
               /\ \A k \in 1..n : q[k] = q[k - 1] + b[k]
               /\ Total(b) = q[n]
  BY <1>1, TotalSteps
<1> DEFINE T == {k \in 0..n : p[k] = IF x <= k THEN q[k] + numbers[x] ELSE q[k]}
<1>6. 0 \in T
  BY <1>3, <1>4, <1>5
<1>7. ASSUME NEW k \in 1..n, k - 1 \in T PROVE k \in T
  <2>1. k - 1 \in 0..n /\ k \in 0..n
    OBVIOUS
  <2>2. /\ p[k] = p[k - 1] + a[k] /\ q[k] = q[k - 1] + b[k]
        /\ p[k - 1] \in Int /\ q[k - 1] \in Int /\ b[k] \in Int
    BY <1>1, <1>4, <1>5, <2>1
  <2>3. p[k - 1] = IF x <= k - 1 THEN q[k - 1] + numbers[x] ELSE q[k - 1]
    BY <1>7
  <2>4. CASE x = k
    <3>1. a[k] = b[k] + numbers[x] /\ p[k - 1] = q[k - 1] /\ x <= k
      BY <1>2, <1>3, <2>3, <2>4
    <3>2. p[k] = q[k] + numbers[x]
      BY <1>3, <2>2, <3>1
    <3> QED BY <2>1, <3>1, <3>2
  <2>5. CASE x # k
    <3>1. a[k] = b[k]
      BY <1>2, <2>5
    <3>2. x <= k <=> x <= k - 1
      BY <1>3, <2>5
    <3>3. p[k] = IF x <= k THEN q[k] + numbers[x] ELSE q[k]
      BY <1>3, <2>2, <2>3, <3>1, <3>2
    <3> QED BY <2>1, <3>3
  <2> QED BY <2>4, <2>5
<1>8. n \in T
  <2> HIDE DEF T
  <2>1. n \in 0..n
    OBVIOUS
  <2> QED BY <1>6, <1>7, <2>1, UpTo
<1>9. p[n] = q[n] + numbers[x] /\ p[n] \in Int /\ q[n] \in Int
  BY <1>3, <1>4, <1>5, <1>8
<1> QED BY <1>4, <1>5, <1>9 DEF a, b

LEMMA NothingMasked ==
    ASSUME NEW n \in Nat, NEW numbers
    PROVE  Total(Masked(numbers, n, {})) = 0
<1> DEFINE a == Masked(numbers, n, {})
<1>1. a \in [1..n -> Int] /\ \A i \in 1..n : a[i] = 0
  BY DEF Masked
<1> HIDE DEF a
<1>2. PICK p : /\ p[0] = 0 /\ \A k \in 0..n : p[k] \in Int
               /\ \A k \in 1..n : p[k] = p[k - 1] + a[k]
               /\ Total(a) = p[n]
  BY <1>1, TotalSteps
<1> DEFINE T == {k \in 0..n : p[k] = 0}
<1>3. 0 \in T
  BY <1>2
<1>4. ASSUME NEW k \in 1..n, k - 1 \in T PROVE k \in T
  <2>1. p[k] = p[k - 1] + a[k] /\ a[k] = 0 /\ p[k - 1] = 0 /\ k \in 0..n
    BY <1>1, <1>2, <1>4
  <2> QED BY <2>1
<1>5. n \in T
  <2> HIDE DEF T
  <2>1. n \in 0..n
    OBVIOUS
  <2> QED BY <1>3, <1>4, <2>1, UpTo
<1> QED BY <1>2, <1>5 DEF a

\* The numbers at the places of a set, added in whatever order CHOOSE picks them.
LEMMA SetSumIs ==
    ASSUME NEW n \in Nat, NEW numbers, \A i \in 1..n : numbers[i] \in Int,
           NEW S \in SUBSET (1..n)
    PROVE  SumFunctionOnSet(numbers, S) = Total(Masked(numbers, n, S))
<1> DEFINE Sum(s) == Total(Masked(numbers, n, s))
           One(s) == CHOOSE x \in s : TRUE
           F(f) == [s \in SUBSET S |-> IF s = {} THEN 0 ELSE numbers[One(s)] + f[s \ {One(s)}]]
           f == CHOOSE f : f = F(f)
<1>1. SumFunctionOnSet(numbers, S) = f[S]
  BY DEF SumFunctionOnSet, FoldFunctionOnSet, MapThenFoldSet
<1>2. \A s \in SUBSET S : s # {} => One(s) \in s
  OBVIOUS
<1>3. Sum({}) = 0
  BY NothingMasked
<1>4. ASSUME NEW s \in SUBSET S, NEW x \in s
      PROVE  Sum(s) = numbers[x] + Sum(s \ {x})
  <2>1. s \in SUBSET (1..n)
    OBVIOUS
  <2>2. /\ Sum(s) \in Int /\ Sum(s \ {x}) \in Int
        /\ Sum(s) = Sum(s \ {x}) + numbers[x]
    BY <2>1, MaskedSum
  <2> HIDE DEF Sum
  <2>3. numbers[x] \in Int
    OBVIOUS
  <2> QED BY <2>2, <2>3
<1> HIDE DEF One, Sum
<1>5. \E g : g = F(g)
  <2> DEFINE g == [s \in SUBSET S |-> Sum(s)]
  <2>1. ASSUME NEW s \in SUBSET S
        PROVE  g[s] = IF s = {} THEN 0 ELSE numbers[One(s)] + g[s \ {One(s)}]
    <3>1. CASE s = {}
      BY <1>3, <3>1
    <3>2. CASE s # {}
      <4>1. One(s) \in s /\ s \ {One(s)} \in SUBSET S
        BY <1>2, <3>2
      <4>2. Sum(s) = numbers[One(s)] + Sum(s \ {One(s)})
        BY <1>4, <4>1
      <4> QED BY <3>2, <4>1, <4>2
    <3> QED BY <3>1, <3>2
  <2>2. g = F(g)
    BY <2>1
  <2> QED BY <2>2
<1>6. f = F(f)
  BY <1>5
<1>7. IsFiniteSet(S)
  <2>1. IsFiniteSet(1..n)
    BY FS_Interval
  <2> QED BY <2>1, FS_Subset
<1> HIDE DEF f
<1>8. \A s \in SUBSET S : f[s] = IF s = {} THEN 0 ELSE numbers[One(s)] + f[s \ {One(s)}]
  BY <1>6
<1> DEFINE m == Cardinality(S)
           T == {k \in 0..m : \A s \in SUBSET S : Cardinality(s) = k => f[s] = Sum(s)}
<1>9. m \in Nat /\ \A s \in SUBSET S : IsFiniteSet(s)
  BY <1>7, FS_CardinalityType, FS_Subset
<1>10. 0 \in T
  <2>1. ASSUME NEW s \in SUBSET S, Cardinality(s) = 0 PROVE f[s] = Sum(s)
    <3>1. s = {}
      BY <1>9, <2>1, FS_EmptySet
    <3> QED BY <1>3, <1>8, <3>1
  <2> QED BY <1>9, <2>1
<1>11. ASSUME NEW k \in 1..m, k - 1 \in T PROVE k \in T
  <2>1. ASSUME NEW s \in SUBSET S, Cardinality(s) = k PROVE f[s] = Sum(s)
    <3>1. s # {} /\ IsFiniteSet(s)
      BY <1>9, <2>1, FS_EmptySet
    <3>2. PICK x \in s : x = One(s)
      BY <1>2, <3>1
    <3>3. s \ {x} \in SUBSET S /\ Cardinality(s \ {x}) = k - 1
      BY <1>9, <2>1, <3>1, FS_RemoveElement
    <3>4. f[s \ {x}] = Sum(s \ {x})
      BY <1>11, <3>3
    <3>5. f[s] = numbers[x] + f[s \ {x}]
      BY <1>8, <3>1, <3>2
    <3> QED BY <1>4, <3>4, <3>5
  <2>2. k \in 0..m
    BY <1>9
  <2> QED BY <2>1, <2>2
<1>12. m \in T
  <2>1. m \in 0..m
    BY <1>9
  <2> HIDE DEF T, m
  <2> QED BY <1>9, <1>10, <1>11, <2>1, UpTo
<1>13. f[S] = Sum(S)
  BY <1>12
<1> QED BY <1>1, <1>13 DEF Sum
=============================================================================
