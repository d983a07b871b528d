---------------------------- MODULE EvidenceProofs ----------------------------
(***************************************************************************)
(* Proofs about EvidencePipeline, for any units, scenarios and policy.      *)
(*                                                                         *)
(* Four parts.  First the tools: the least-number principle, which the      *)
(* library's well-founded minimum yields for sets, and from it the values   *)
(* of the recursive functions the pipeline folds with, what a sorted list   *)
(* is, and the reciprocal ranks as exact quotients.  Then each stage as an  *)
(* operator: Fusion and Merging, Reranking, and Policy for the selection.   *)
(* Then the inductive invariant Inv, one lemma per action, and the walk,    *)
(* where a unit is reached once, waiting units hang on a seed by an item,   *)
(* and every edge of a seed is still to come, waiting, or accounted for.    *)
(* Last the theorems.                                                       *)
(***************************************************************************)
EXTENDS EvidencePipeline, FiniteSetTheorems, SequenceTheorems, WellFoundedInduction, TLAPS

-----------------------------------------------------------------------------
(* The least-number principle and, from it, induction over a set of         *)
(* numbers.                                                                 *)

LEMMA LeastNumber ==
    ASSUME NEW T \in SUBSET Nat, T # {}
    PROVE  \E x \in T : \A y \in T : x <= y
<1> DEFINE R == OpToRel(<, Nat)
<1>1. IsWellFoundedOn(R, Nat)
  BY NatLessThanWellFounded
<1>2. \A x, y \in Nat : y < x => <<y, x>> \in R
  BY DEF OpToRel
<1> HIDE DEF R
<1>3. PICK x \in T : \A y \in T : ~ (<<y, x>> \in R)
  BY <1>1, WFMin
<1>4. ASSUME NEW y \in T PROVE x <= y
  <2>1. x \in Nat /\ y \in Nat
    OBVIOUS
  <2>2. ~(y < x)
    BY <1>2, <1>3, <2>1
  <2> QED BY <2>1, <2>2
<1> QED BY <1>4

LEMMA SetInduction ==
    ASSUME NEW S, 0 \in S, \A n \in Nat : n \in S => n + 1 \in S
    PROVE  Nat \subseteq S
<1> SUFFICES ASSUME Nat \ S # {} PROVE FALSE
  OBVIOUS
<1>1. PICK x \in Nat \ S : \A y \in Nat \ S : x <= y
  BY LeastNumber
<1>2. x # 0 /\ x - 1 \in Nat /\ x - 1 \in S
  BY <1>1
<1> QED BY <1>1, <1>2

LEMMA MinOf ==
    ASSUME NEW S \in SUBSET Nat, S # {}
    PROVE  Min(S) \in S /\ \A y \in S : Min(S) <= y
  BY LeastNumber DEF Min

LEMMA MinOfTwo ==
    ASSUME NEW a \in Nat, NEW b \in Nat
    PROVE  Min({a, b}) = IF a <= b THEN a ELSE b
<1>1. Min({a, b}) \in {a, b} /\ \A y \in {a, b} : Min({a, b}) <= y
  BY MinOf
<1> QED BY <1>1

LEMMA MaxOfTwo ==
    ASSUME NEW a \in Nat, NEW b \in Nat
    PROVE  Max({a, b}) = IF a >= b THEN a ELSE b
<1>1. \E x \in {a, b} : \A y \in {a, b} : x >= y
  OBVIOUS
<1>2. Max({a, b}) \in {a, b} /\ \A y \in {a, b} : Max({a, b}) >= y
  BY <1>1 DEF Max
<1> QED BY <1>2

-----------------------------------------------------------------------------
(* Sorting.  A relation that orders a finite set strictly and totally gives *)
(* each element a place of its own: the number of those before it.          *)

Orders(R, S) ==
    /\ \A u \in S : <<u, u>> \notin R
    /\ \A u, v \in S : u = v \/ <<u, v>> \in R \/ <<v, u>> \in R
    /\ \A u, v, w \in S : <<u, v>> \in R /\ <<v, w>> \in R => <<u, w>> \in R

Before(S, R, u) == {v \in S : <<v, u>> \in R}

LEMMA BeforeGrows ==
    ASSUME NEW S, IsFiniteSet(S), NEW R, Orders(R, S), NEW u \in S
    PROVE  /\ Cardinality(Before(S, R, u)) \in 0..(Cardinality(S) - 1)
           /\ \A v \in S : <<u, v>> \in R =>
                  Cardinality(Before(S, R, u)) < Cardinality(Before(S, R, v))
<1>1. /\ IsFiniteSet(S \ {u}) /\ Cardinality(S \ {u}) = Cardinality(S) - 1
      /\ Before(S, R, u) \in SUBSET (S \ {u})
  BY FS_RemoveElement DEF Orders, Before
<1>2. /\ IsFiniteSet(Before(S, R, u))
      /\ Cardinality(Before(S, R, u)) <= Cardinality(S \ {u})
  BY <1>1, FS_Subset
<1>3. Cardinality(Before(S, R, u)) \in Nat /\ Cardinality(S) \in Nat
  BY <1>2, FS_CardinalityType
<1>4. ASSUME NEW v \in S, <<u, v>> \in R
      PROVE  Cardinality(Before(S, R, u)) < Cardinality(Before(S, R, v))
  <2>1. /\ Before(S, R, u) \in SUBSET Before(S, R, v)
        /\ u \in Before(S, R, v) /\ u \notin Before(S, R, u)
    BY <1>4 DEF Orders, Before
  <2>2. IsFiniteSet(Before(S, R, v))
    BY FS_Subset DEF Before
  <2>3. /\ Cardinality(Before(S, R, u)) <= Cardinality(Before(S, R, v))
        /\ Cardinality(Before(S, R, u)) # Cardinality(Before(S, R, v))
    BY <2>1, <2>2, FS_Subset
  <2>4. Cardinality(Before(S, R, v)) \in Nat
    BY <2>2, FS_CardinalityType
  <2> QED BY <1>3, <2>3, <2>4
<1> QED BY <1>1, <1>2, <1>3, <1>4

LEMMA Sorted ==
    ASSUME NEW S, IsFiniteSet(S), NEW R, Orders(R, S)
    PROVE  /\ Cardinality(S) \in Nat
           /\ InOrder(S, R) \in [1..Cardinality(S) -> S]
           /\ ToSet(InOrder(S, R)) = S
           /\ \A i, j \in 1..Cardinality(S) :
                  i < j <=> <<InOrder(S, R)[i], InOrder(S, R)[j]>> \in R
<1> DEFINE n == Cardinality(S)
           count == [u \in S |-> Cardinality(Before(S, R, u))]
           s == InOrder(S, R)
<1>1. n \in Nat
  BY FS_CardinalityType
<1>2. count \in [S -> 0..(n - 1)]
  BY BeforeGrows
<1>3. \A u, v \in S : <<u, v>> \in R => count[u] < count[v]
  BY BeforeGrows
<1>4. /\ s = [i \in 1..n |-> CHOOSE u \in S : Cardinality({v \in S : <<v, u>> \in R}) = i - 1]
      /\ \A u \in S : count[u] = Cardinality({v \in S : <<v, u>> \in R})
  BY DEF InOrder, Before
<1> HIDE DEF n, count, s
<1>5. ASSUME NEW u \in S, NEW v \in S, count[u] = count[v] PROVE u = v
  <2>1. count[u] \in Int /\ count[v] \in Int
    BY <1>1, <1>2
  <2>2. ~(count[u] < count[v]) /\ ~(count[v] < count[u])
    BY <1>5, <2>1
  <2> QED BY <1>3, <2>2 DEF Orders
<1>6. ASSUME NEW i \in 0..(n - 1) PROVE \E u \in S : count[u] = i
  <2>1. IsFiniteSet(0..(n - 1)) /\ Cardinality(0..(n - 1)) = n
    BY <1>1, FS_Interval
  <2>2. count \in Injection(S, 0..(n - 1))
    BY <1>2, <1>5 DEF Injection, IsInjective
  <2>3. count \in Surjection(S, 0..(n - 1))
    BY <2>1, <2>2, FS_Injection DEF n
  <2> QED BY <2>3 DEF Surjection
<1>7. ASSUME NEW i \in 1..n PROVE s[i] \in S /\ count[s[i]] = i - 1
  <2>1. i - 1 \in 0..(n - 1)
    BY <1>1
  <2>2. \E u \in S : Cardinality({v \in S : <<v, u>> \in R}) = i - 1
    BY <1>4, <1>6, <2>1
  <2>3. s[i] \in S /\ Cardinality({v \in S : <<v, s[i]>> \in R}) = i - 1
    BY <1>4, <2>2
  <2> QED BY <1>4, <2>3
<1>8. s \in [1..n -> S]
  BY <1>4, <1>7
<1>9. ToSet(s) = S
  <2>1. ASSUME NEW u \in S PROVE \E i \in 1..n : s[i] = u
    <3>1. count[u] + 1 \in 1..n /\ (count[u] + 1) - 1 = count[u]
      BY <1>1, <1>2
    <3>2. count[s[count[u] + 1]] = count[u] /\ s[count[u] + 1] \in S
      BY <1>7, <3>1
    <3> QED BY <1>5, <3>1, <3>2
  <2> QED BY <1>8, <2>1 DEF ToSet
<1>10. ASSUME NEW i \in 1..n, NEW j \in 1..n
       PROVE  i < j <=> <<s[i], s[j]>> \in R
  <2>1. /\ s[i] \in S /\ s[j] \in S /\ count[s[i]] = i - 1 /\ count[s[j]] = j - 1
        /\ i \in Int /\ j \in Int
    BY <1>1, <1>7
  <2>2. <<s[i], s[j]>> \in R => i - 1 < j - 1
    BY <1>3, <2>1
  <2>3. <<s[j], s[i]>> \in R => j - 1 < i - 1
    BY <1>3, <2>1
  <2>4. s[i] = s[j] => i - 1 = j - 1
    BY <2>1
  <2>5. s[i] = s[j] \/ <<s[i], s[j]>> \in R \/ <<s[j], s[i]>> \in R
    BY <2>1 DEF Orders
  <2> QED BY <2>1, <2>2, <2>3, <2>4, <2>5
<1> QED BY <1>1, <1>8, <1>9, <1>10 DEF n, s

(* A list of units by score, the greater first, then by number.             *)
LEMMA Scored ==
    ASSUME NEW S \in SUBSET Nat, IsFiniteSet(S), NEW score \in [S -> Int]
    PROVE  /\ Cardinality(S) \in Nat
           /\ ByScore(S, score) \in [1..Cardinality(S) -> S]
           /\ ToSet(ByScore(S, score)) = S
           /\ \A i, j \in 1..Cardinality(S) :
                  /\ ByScore(S, score)[i] = ByScore(S, score)[j] => i = j
                  /\ score[ByScore(S, score)[i]] > score[ByScore(S, score)[j]] => i < j
<1> DEFINE R == {p \in S \X S : \/ score[p[1]] > score[p[2]]
                                \/ score[p[1]] = score[p[2]] /\ p[1] < p[2]}
           s == ByScore(S, score)
<1>1. \A u, v \in S : <<u, v>> \in R <=> \/ score[u] > score[v]
                                         \/ score[u] = score[v] /\ u < v
  OBVIOUS
<1>2. s = InOrder(S, R)
  BY DEF ByScore
<1>3. \A u \in S : score[u] \in Int /\ u \in Int
  OBVIOUS
<1> HIDE DEF R, s
<1>4. Orders(R, S)
  <2>1. \A u \in S : <<u, u>> \notin R
    BY <1>1, <1>3
  <2>2. ASSUME NEW u \in S, NEW v \in S PROVE u = v \/ <<u, v>> \in R \/ <<v, u>> \in R
    <3>1. \/ score[u] > score[v] \/ score[v] > score[u]
          \/ score[u] = score[v] /\ (u < v \/ v < u \/ u = v)
      BY <1>3
    <3> QED BY <1>1, <3>1
  <2>3. \A u, v, w \in S : <<u, v>> \in R /\ <<v, w>> \in R => <<u, w>> \in R
    BY <1>1, <1>3
  <2> QED BY <2>1, <2>2, <2>3 DEF Orders
<1>5. /\ Cardinality(S) \in Nat
      /\ s \in [1..Cardinality(S) -> S] /\ ToSet(s) = S
      /\ \A i, j \in 1..Cardinality(S) : i < j <=> <<s[i], s[j]>> \in R
  BY <1>2, <1>4, Sorted
<1>6. ASSUME NEW i \in 1..Cardinality(S), NEW j \in 1..Cardinality(S)
      PROVE  /\ s[i] = s[j] => i = j
             /\ score[s[i]] > score[s[j]] => i < j
  <2>1. s[i] \in S /\ s[j] \in S /\ i \in Int /\ j \in Int
    BY <1>5
  <2>2. s[i] = s[j] => ~(i < j) /\ ~(j < i)
    BY <1>4, <1>5, <2>1 DEF Orders
  <2>3. score[s[i]] > score[s[j]] => <<s[i], s[j]>> \in R
    BY <1>1, <2>1
  <2>4. s[i] = s[j] => i = j
    BY <2>1, <2>2
  <2>5. score[s[i]] > score[s[j]] => i < j
    BY <1>5, <2>3
  <2> QED BY <2>4, <2>5
<1> QED BY <1>5, <1>6 DEF s

-----------------------------------------------------------------------------
(* A list gone through from its start: the recursive functions of the model *)
(* exist, so that each value is the one their equation gives.               *)

Iterates(f, D, a, N, G) ==
    /\ f \in [0..N -> D]
    /\ \A n \in 0..N : f[n] = IF n = 0 THEN a ELSE G[n][f[n - 1]]

LEMMA Iteration ==
    ASSUME NEW D, NEW a \in D, NEW N \in Nat, NEW G \in [1..N -> [D -> D]]
    PROVE  \E f : Iterates(f, D, a, N, G)
<1> DEFINE Good(k, f) == /\ f \in [0..k -> D]
                         /\ \A n \in 0..k : f[n] = IF n = 0 THEN a ELSE G[n][f[n - 1]]
           S == {k \in Nat : k <= N => \E f : Good(k, f)}
<1>1. 0 \in S
  <2> DEFINE f == [n \in 0..0 |-> a]
  <2>1. f \in [0..0 -> D] /\ \A n \in 0..0 : n = 0 /\ f[n] = a
    OBVIOUS
  <2>2. Good(0, f)
    BY <2>1
  <2> QED BY <2>2
<1>2. ASSUME NEW k \in Nat, k \in S PROVE k + 1 \in S
  <2> SUFFICES ASSUME k + 1 <= N PROVE \E g : Good(k + 1, g)
    OBVIOUS
  <2>1. PICK f : Good(k, f)
    BY <1>2
  <2> DEFINE e == G[k + 1][f[k]]
             g == [n \in 0..(k + 1) |-> IF n = k + 1 THEN e ELSE f[n]]
  <2>2. f \in [0..k -> D] /\ k \in 0..k /\ k + 1 \in 1..N
    BY <2>1
  <2>3. e \in D
    <3>1. G[k + 1] \in [D -> D] /\ f[k] \in D
      BY <2>2
    <3> QED BY <3>1
  <2>4. \A n \in 0..(k + 1) : n = k + 1 \/ n \in 0..k
    OBVIOUS
  <2>5. /\ \A n \in 0..k : g[n] = f[n]
        /\ g[k + 1] = e
    OBVIOUS
  <2>6. g \in [0..(k + 1) -> D]
    <3> HIDE DEF e
    <3> QED BY <2>2, <2>3, <2>4
  <2>7. ASSUME NEW n \in 0..(k + 1)
        PROVE  g[n] = IF n = 0 THEN a ELSE G[n][g[n - 1]]
    <3> HIDE DEF g
    <3>1. CASE n = k + 1
      <4>1. n # 0 /\ n - 1 = k /\ g[k] = f[k]
        BY <2>2, <2>5, <3>1
      <4> QED BY <2>5, <3>1, <4>1
    <3>2. CASE n \in 0..k
      <4>1. n # 0 => n - 1 \in 0..k /\ g[n - 1] = f[n - 1]
        BY <2>5, <3>2
      <4>2. f[n] = IF n = 0 THEN a ELSE G[n][f[n - 1]]
        BY <2>1, <3>2
      <4> QED BY <2>5, <3>2, <4>1, <4>2
    <3> QED BY <2>4, <3>1, <3>2
  <2>8. Good(k + 1, g)
    <3> HIDE DEF g, e
    <3> QED BY <2>6, <2>7
  <2> HIDE DEF g, e, Good
  <2> QED BY <2>8
<1>3. N \in S
  <2> HIDE DEF S
  <2> QED BY <1>1, <1>2, SetInduction
<1> QED BY <1>3 DEF Iterates

-----------------------------------------------------------------------------
(* Reciprocal ranks.                                                        *)

LEMMA Bounds ==
    /\ LastRank \in Nat /\ FusionTopK <= LastRank /\ OtherHits <= LastRank
    /\ RrfK \in Nat \ {0} /\ FusionTopK \in Nat \ {0} /\ OtherHits \in Nat
    /\ ExactHits \in Nat
<1>1. RrfK \in Nat \ {0} /\ FusionTopK \in Nat \ {0} /\ OtherHits \in Nat /\ ExactHits \in Nat
  BY PolicyAssumption
<1> QED BY <1>1, MaxOfTwo DEF LastRank

LEMMA ProductUnfolds ==
    /\ Product \in [0..LastRank -> Int]
    /\ \A n \in 0..LastRank :
           Product[n] = IF n = 0 THEN 1 ELSE (RrfK + n) * Product[n - 1]
<1> DEFINE N == LastRank
           G == [n \in 1..N |-> [x \in Int |-> (RrfK + n) * x]]
           Step(g, n) == IF n = 0 THEN 1 ELSE (RrfK + n) * g[n - 1]
<1>1. N \in Nat /\ RrfK \in Int
  BY Bounds
<1>2. G \in [1..N -> [Int -> Int]]
  BY <1>1
<1> HIDE DEF N
<1>3. PICK f \in [0..N -> Int] :
          \A n \in 0..N : f[n] = IF n = 0 THEN 1 ELSE G[n][f[n - 1]]
  <2> HIDE DEF G
  <2>1. \E f : Iterates(f, Int, 1, N, G)
    <3> HIDE DEF G
    <3>1. 1 \in Int /\ N \in Nat
      BY <1>1
    <3> QED BY <3>1, <1>2, Iteration, Zenon
  <2> QED BY <2>1 DEF Iterates
<1>4. ASSUME NEW n \in 0..N PROVE f[n] = Step(f, n)
  <2>1. CASE n = 0
    BY <1>3, <2>1
  <2>2. CASE n # 0
    <3>1. n \in 1..N /\ n - 1 \in 0..N
      BY <1>1, <2>2
    <3>2. f[n - 1] \in Int
      BY <3>1
    <3>3. G[n][f[n - 1]] = (RrfK + n) * f[n - 1]
      BY <3>1, <3>2
    <3> HIDE DEF G
    <3> QED BY <1>3, <2>2, <3>3
  <2> QED BY <2>1, <2>2
<1> HIDE DEF G, Step
<1>5. f = [n \in 0..N |-> Step(f, n)]
  BY <1>4
<1>6. Product = CHOOSE g : g = [n \in 0..N |-> Step(g, n)]
  BY DEF Product, N, Step
<1>7. Product = [n \in 0..N |-> Step(Product, n)]
  BY <1>5, <1>6
<1>8. \A n \in 0..N : Product[n] = Step(Product, n)
  BY <1>7
<1>9. Product \in [0..N -> Int]
  <2> DEFINE T == {n \in Nat : n <= N => Product[n] \in Int}
  <2>1. 0 \in T
    <3>1. 0 \in 0..N
      BY <1>1
    <3> QED BY <1>8, <3>1 DEF Step
  <2>2. ASSUME NEW n \in Nat, n \in T PROVE n + 1 \in T
    <3>1. CASE n + 1 <= N
      <4>1. n + 1 \in 0..N /\ Product[n] \in Int /\ (n + 1) - 1 = n
        BY <1>1, <2>2, <3>1
      <4>2. Product[n + 1] = (RrfK + (n + 1)) * Product[n]
        BY <1>8, <4>1 DEF Step
      <4> QED BY <1>1, <4>1, <4>2
    <3> QED BY <3>1
  <2>3. Nat \subseteq T
    <3> HIDE DEF T
    <3> QED BY <2>1, <2>2, SetInduction
  <2>4. \A n \in 0..N : Product[n] \in Int
    BY <1>1, <2>3
  <2> QED BY <1>7, <2>4
<1> QED BY <1>8, <1>9 DEF N, Step

(* Every rank divides the product, and two ranks do together.               *)
LEMMA Factors ==
    ASSUME NEW n \in Nat, n <= LastRank
    PROVE  /\ Product[n] \in Nat \ {0}
           /\ \A a \in 1..n : \E k \in Nat \ {0} : Product[n] = (RrfK + a) * k
           /\ \A a, b \in 1..n : a < b =>
                  \E k \in Nat \ {0} : Product[n] = (RrfK + a) * ((RrfK + b) * k)
<1> DEFINE One(m) == \A a \in 1..m : \E k \in Nat \ {0} : Product[m] = (RrfK + a) * k
           Two(m) == \A a, b \in 1..m : a < b =>
                        \E k \in Nat \ {0} : Product[m] = (RrfK + a) * ((RrfK + b) * k)
           T == {m \in Nat : m <= LastRank => Product[m] \in Nat \ {0} /\ One(m) /\ Two(m)}
<1>1. LastRank \in Nat /\ RrfK \in Nat \ {0}
  BY Bounds
<1>2. 0 \in T
  <2>1. Product[0] = 1
    BY <1>1, ProductUnfolds
  <2> QED BY <2>1
<1>3. ASSUME NEW m \in Nat, m \in T, m + 1 <= LastRank
      PROVE  Product[m + 1] \in Nat \ {0} /\ One(m + 1) /\ Two(m + 1)
  <2> DEFINE p == Product[m]
             c == RrfK + (m + 1)
  <2>1. p \in Nat \ {0} /\ One(m) /\ Two(m)
    BY <1>1, <1>3
  <2>2. Product[m + 1] = c * p
    <3>1. m + 1 \in 0..LastRank /\ m + 1 # 0 /\ (m + 1) - 1 = m
      BY <1>1, <1>3
    <3> QED BY <3>1, ProductUnfolds
  <2>3. c \in Nat \ {0}
    BY <1>1
  <2>4. \A a \in 1..(m + 1) : a \in 1..m \/ a = m + 1
    OBVIOUS
  <2>5. \A x, y \in Nat \ {0} : x * y \in Nat \ {0}
    OBVIOUS
  <2>6. \A x, y, z \in Nat : x * (y * z) = y * (x * z)
    OBVIOUS
  <2>7. \A a \in 1..(m + 1) : RrfK + a \in Nat \ {0}
    BY <1>1
  <2> HIDE DEF p, c
  <2>8. One(m + 1)
    <3> SUFFICES ASSUME NEW a \in 1..(m + 1)
                 PROVE  \E k \in Nat \ {0} : Product[m + 1] = (RrfK + a) * k
      OBVIOUS
    <3>1. CASE a = m + 1
      BY <2>1, <2>2, <3>1 DEF c
    <3>2. CASE a \in 1..m
      <4>1. PICK k \in Nat \ {0} : p = (RrfK + a) * k
        BY <2>1, <3>2 DEF p
      <4>2. c * p = (RrfK + a) * (c * k)
        <5> DEFINE x == RrfK + a
        <5>1. x \in Nat
          BY <2>7
        <5> HIDE DEF x
        <5>2. p = x * k
          BY <4>1 DEF x
        <5>3. c * (x * k) = x * (c * k)
          BY <2>3, <2>6, <5>1
        <5> QED BY <5>2, <5>3 DEF x
      <4>3. c * k \in Nat \ {0}
        BY <2>3, <2>5
      <4> QED BY <2>2, <4>2, <4>3
    <3> QED BY <2>4, <3>1, <3>2
  <2>9. Two(m + 1)
    <3> SUFFICES ASSUME NEW a \in 1..(m + 1), NEW b \in 1..(m + 1), a < b
                 PROVE  \E k \in Nat \ {0} :
                            Product[m + 1] = (RrfK + a) * ((RrfK + b) * k)
      OBVIOUS
    <3> DEFINE x == RrfK + a
               y == RrfK + b
    <3>0. x \in Nat \ {0} /\ y \in Nat \ {0} /\ a \in 1..m
      BY <2>7
    <3>1. CASE b = m + 1
      <4>1. PICK k \in Nat \ {0} : p = (RrfK + a) * k
        BY <2>1, <3>0 DEF p
      <4>2. y = c
        BY <3>1 DEF c
      <4> HIDE DEF x, y
      <4>3. p = x * k
        BY <4>1 DEF x
      <4>4. c * (x * k) = x * (c * k)
        BY <2>3, <2>6, <3>0
      <4>5. Product[m + 1] = x * (y * k)
        BY <2>2, <4>2, <4>3, <4>4
      <4> QED BY <4>5 DEF x, y
    <3>2. CASE b \in 1..m
      <4>1. PICK k \in Nat \ {0} : p = (RrfK + a) * ((RrfK + b) * k)
        BY <2>1, <3>0, <3>2 DEF p
      <4> HIDE DEF x, y
      <4>2. p = x * (y * k)
        BY <4>1 DEF x, y
      <4>3. y * k \in Nat /\ c * k \in Nat \ {0}
        BY <2>3, <2>5, <3>0
      <4>4. c * (x * (y * k)) = x * (c * (y * k))
        BY <2>3, <2>6, <3>0, <4>3
      <4>5. c * (y * k) = y * (c * k)
        BY <2>3, <2>6, <3>0
      <4>6. Product[m + 1] = x * (y * (c * k))
        BY <2>2, <4>2, <4>4, <4>5
      <4> QED BY <4>3, <4>6 DEF x, y
    <3> QED BY <2>4, <3>1, <3>2
  <2>10. Product[m + 1] \in Nat \ {0}
    BY <2>1, <2>2, <2>3, <2>5
  <2> HIDE DEF One, Two
  <2> QED BY <2>8, <2>9, <2>10
<1>4. Nat \subseteq T
  <2>1. \A m \in Nat : m \in T => m + 1 \in T
    <3> HIDE DEF One, Two
    <3> QED BY <1>3
  <2> HIDE DEF T
  <2> QED BY <1>2, <2>1, SetInduction
<1> QED BY <1>4

LEMMA ExactQuotient ==
    ASSUME NEW a \in Nat \ {0}, NEW k \in Nat
    PROVE  (a * k) \div a = k
  OBVIOUS

(* A better rank contributes more, and no rank contributes nothing.         *)
LEMMA Contributions ==
    ASSUME NEW a \in 0..LastRank
    PROVE  /\ Contribution(a) \in Nat
           /\ \A b \in 0..LastRank : 0 < a /\ a < b => Contribution(b) < Contribution(a)
           /\ a # 0 => Contribution(a) > 0
<1>1. LastRank \in Nat /\ RrfK \in Nat \ {0} /\ LastRank <= LastRank
  BY Bounds
<1> DEFINE L == LastRank
<1>f. /\ \A x \in 1..L : \E k \in Nat \ {0} : Denominator = (RrfK + x) * k
      /\ \A x, y \in 1..L : x < y =>
             \E k \in Nat \ {0} : Denominator = (RrfK + x) * ((RrfK + y) * k)
  BY <1>1, Factors DEF Denominator
<1> HIDE DEF L
<1>2. CASE a = 0
  BY <1>2 DEF Contribution
<1>3. CASE a # 0
  <2>1. PICK k \in Nat \ {0} : Denominator = (RrfK + a) * k
    <3>1. a \in 1..L
      BY <1>1, <1>3 DEF L
    <3> QED BY <1>f, <3>1
  <2>2. Contribution(a) = k
    <3> DEFINE x == RrfK + a
    <3>1. x \in Nat \ {0}
      BY <1>1
    <3> HIDE DEF x
    <3>2. (x * k) \div x = k
      BY <3>1, ExactQuotient
    <3> QED BY <1>3, <2>1, <3>2 DEF Contribution, x
  <2>3. ASSUME NEW b \in 0..LastRank, 0 < a, a < b
        PROVE  Contribution(b) < Contribution(a)
    <3>1. PICK j \in Nat \ {0} : Denominator = (RrfK + a) * ((RrfK + b) * j)
      <4>1. a \in 1..L /\ b \in 1..L
        BY <1>1, <2>3 DEF L
      <4> QED BY <1>f, <2>3, <4>1
    <3> DEFINE x == RrfK + a
               y == RrfK + b
    <3>2. x \in Nat \ {0} /\ y \in Nat \ {0} /\ x < y
      BY <1>1, <2>3
    <3>3. b # 0
      BY <2>3
    <3> HIDE DEF x, y
    <3>4. y * j \in Nat /\ x * j \in Nat /\ x * (y * j) = y * (x * j) /\ x * j < y * j
      BY <3>2
    <3>5. Contribution(a) = y * j
      <4>1. (x * (y * j)) \div x = y * j
        BY <3>2, <3>4, ExactQuotient
      <4> QED BY <1>3, <3>1, <4>1 DEF Contribution, x, y
    <3>6. Contribution(b) = x * j
      <4>1. (y * (x * j)) \div y = x * j
        BY <3>2, <3>4, ExactQuotient
      <4> QED BY <3>1, <3>3, <3>4, <4>1 DEF Contribution, x, y
    <3> QED BY <3>4, <3>5, <3>6
  <2> QED BY <2>2, <2>3
<1> QED BY <1>2, <1>3
(* The score of a unit is the sum of what its ranks contribute.             *)
LEMMA Scores ==
    ASSUME NEW ranks \in Seq(0..LastRank)
    PROVE  /\ RrfScore(ranks) \in Int
           /\ Len(ranks) = 2 =>
                  RrfScore(ranks) = Contribution(ranks[1]) + Contribution(ranks[2])
<1> DEFINE N == Len(ranks)
           C == [n \in 1..N |-> Contribution(ranks[n])]
           G == [n \in 1..N |-> [x \in Int |-> x + C[n]]]
           Step(g, n) == IF n = 0 THEN 0 ELSE g[n - 1] + Contribution(ranks[n])
           sum == CHOOSE g : g = [n \in 0..N |-> Step(g, n)]
<1>1. N \in Nat /\ ranks \in [1..N -> 0..LastRank]
  BY LenProperties
<1>2. C \in [1..N -> Int] /\ \A n \in 1..N : C[n] = Contribution(ranks[n])
  BY <1>1, Contributions
<1>3. RrfScore(ranks) = sum[N]
  BY DEF RrfScore
<1> HIDE DEF N, C, Step, sum
<1>4. G \in [1..N -> [Int -> Int]]
  BY <1>2
<1>5. PICK f \in [0..N -> Int] :
          \A n \in 0..N : f[n] = IF n = 0 THEN 0 ELSE G[n][f[n - 1]]
  <2>1. \E f : Iterates(f, Int, 0, N, G)
    <3> HIDE DEF G
    <3>1. 0 \in Int /\ N \in Nat
      BY <1>1
    <3> QED BY <3>1, <1>4, Iteration, Zenon
  <2> QED BY <2>1 DEF Iterates
<1>6. ASSUME NEW n \in 0..N PROVE f[n] = Step(f, n)
  <2> USE DEF Step
  <2>1. CASE n = 0
    BY <1>5, <2>1
  <2>2. CASE n # 0
    <3>1. n \in 1..N /\ n - 1 \in 0..N
      BY <1>1, <2>2
    <3>2. G[n][f[n - 1]] = f[n - 1] + C[n]
      BY <3>1
    <3> HIDE DEF G
    <3> QED BY <1>2, <1>5, <2>2, <3>1, <3>2
  <2> QED BY <2>1, <2>2
<1> HIDE DEF G
<1>7. f = [n \in 0..N |-> Step(f, n)]
  BY <1>6
<1>8. sum = [n \in 0..N |-> Step(sum, n)]
  BY <1>7 DEF sum
<1>9. /\ 0 \in 0..N => sum[0] = 0
      /\ \A n \in 1..N : sum[n] = sum[n - 1] + C[n]
  <2>1. \A n \in 0..N : sum[n] = Step(sum, n)
    BY <1>8
  <2>2. \A n \in 1..N : n \in 0..N /\ n # 0
    BY <1>1
  <2> QED BY <1>2, <2>1, <2>2 DEF Step
<1>10. sum \in [0..N -> Int]
  <2> DEFINE T == {n \in Nat : n <= N => sum[n] \in Int}
  <2>1. 0 \in T
    BY <1>1, <1>9
  <2>2. ASSUME NEW n \in Nat, n \in T PROVE n + 1 \in T
    <3>1. CASE n + 1 <= N
      <4>1. n + 1 \in 1..N /\ sum[n] \in Int /\ (n + 1) - 1 = n
        BY <1>1, <2>2, <3>1
      <4> QED BY <1>2, <1>9, <4>1
    <3> QED BY <3>1
  <2>3. Nat \subseteq T
    <3> HIDE DEF T
    <3> QED BY <2>1, <2>2, SetInduction
  <2>4. \A n \in 0..N : sum[n] \in Int
    BY <1>1, <2>3
  <2> QED BY <1>8, <2>4
<1>11. ASSUME N = 2 PROVE sum[N] = Contribution(ranks[1]) + Contribution(ranks[2])
  <2>1. sum[0] = 0 /\ sum[1] = sum[0] + C[1] /\ sum[2] = sum[1] + C[2]
    <3>1. 0 \in 0..N /\ 1 \in 1..N /\ 2 \in 1..N
      BY <1>11
    <3>2. sum[1] = sum[1 - 1] + C[1] /\ sum[2] = sum[2 - 1] + C[2]
      BY <1>9, <3>1
    <3> QED BY <1>9, <3>1, <3>2
  <2>2. C[1] \in Int /\ C[1] = Contribution(ranks[1]) /\ C[2] = Contribution(ranks[2])
    BY <1>2, <1>11
  <2> QED BY <1>11, <2>1, <2>2
<1>12. sum[N] \in Int
  BY <1>1, <1>10
<1> QED BY <1>3, <1>11, <1>12 DEF N

-----------------------------------------------------------------------------
(* A list put together from two and cut.                                    *)

LEMMA Truncated ==
    ASSUME NEW D, NEW s \in Seq(D), NEW k \in Nat
    PROVE  /\ Truncate(s, k) \in Seq(D)
           /\ Len(Truncate(s, k)) = IF k <= Len(s) THEN k ELSE Len(s)
           /\ \A i \in 1..Len(Truncate(s, k)) : Truncate(s, k)[i] = s[i]
<1> DEFINE n == Len(s)
           m == Min({k, n})
<1>1. n \in Nat
  BY LenProperties
<1>2. m = IF k <= n THEN k ELSE n
  BY <1>1, MinOfTwo
<1>3. m \in Nat /\ m <= n /\ Truncate(s, k) = SubSeq(s, 1, m)
  BY <1>1, <1>2 DEF Truncate
<1> HIDE DEF m
<1>4. /\ SubSeq(s, 1, m) \in Seq(D) /\ Len(SubSeq(s, 1, m)) = m
      /\ \A i \in 1..m : SubSeq(s, 1, m)[i] = s[i]
  BY <1>1, <1>3
<1> QED BY <1>2, <1>3, <1>4

LEMMA Joined ==
    ASSUME NEW D, NEW m \in Nat, NEW n \in Nat,
           NEW a \in [1..m -> D], NEW b \in [1..n -> D]
    PROVE  /\ a \o b \in Seq(D) /\ Len(a \o b) = m + n
           /\ \A i \in 1..(m + n) : (a \o b)[i] = IF i <= m THEN a[i] ELSE b[i - m]
<1>1. a \in Seq(D) /\ Len(a) = m /\ b \in Seq(D) /\ Len(b) = n
  OBVIOUS
<1> QED BY <1>1

\* Two lists without repetition and without a common element.
Apart(a, b) ==
    /\ IsInjective(a) /\ IsInjective(b)
    /\ \A i \in DOMAIN a, j \in DOMAIN b : a[i] # b[j]

IsCut(t, D, k, a, m, b, n) ==
    /\ t \in Seq(D) /\ IsInjective(t)
    /\ Len(t) \in Nat /\ Len(t) <= k
    /\ Len(t) = IF k <= m + n THEN k ELSE m + n
    /\ \A i \in 1..Len(t) : t[i] = IF i <= m THEN a[i] ELSE b[i - m]

LEMMA Cut ==
    ASSUME NEW D, NEW m \in Nat, NEW n \in Nat, NEW k \in Nat,
           NEW a \in [1..m -> D], NEW b \in [1..n -> D], Apart(a, b)
    PROVE  IsCut(Truncate(a \o b, k), D, k, a, m, b, n)
<1> DEFINE s == a \o b
           t == Truncate(s, k)
<1>1. /\ s \in Seq(D) /\ Len(s) = m + n
      /\ \A i \in 1..(m + n) : s[i] = IF i <= m THEN a[i] ELSE b[i - m]
  BY Joined
<1> HIDE DEF s
<1>2. /\ t \in Seq(D) /\ Len(t) = IF k <= Len(s) THEN k ELSE Len(s)
      /\ \A i \in 1..Len(t) : t[i] = s[i]
  BY <1>1, Truncated
<1> HIDE DEF t
<1>3. /\ Len(t) \in Nat /\ Len(t) <= k /\ Len(t) = IF k <= m + n THEN k ELSE m + n
      /\ \A i \in 1..Len(t) : i \in 1..(m + n)
  BY <1>1, <1>2
<1>4. \A i \in 1..Len(t) : t[i] = IF i <= m THEN a[i] ELSE b[i - m]
  BY <1>1, <1>2, <1>3
<1>5. IsInjective(t)
  <2>1. DOMAIN t = 1..Len(t) /\ DOMAIN a = 1..m /\ DOMAIN b = 1..n
    BY <1>2, LenProperties
  <2> SUFFICES ASSUME NEW i \in 1..Len(t), NEW j \in 1..Len(t), t[i] = t[j] PROVE i = j
    BY <2>1 DEF IsInjective
  <2>2. \A x \in 1..Len(t) : \/ x \in 1..m /\ t[x] = a[x]
                             \/ x - m \in 1..n /\ t[x] = b[x - m]
    BY <1>3, <1>4
  <2>3. /\ \A x, y \in 1..m : a[x] = a[y] => x = y
        /\ \A x, y \in 1..n : b[x] = b[y] => x = y
        /\ \A x \in 1..m, y \in 1..n : a[x] # b[y]
    BY <2>1 DEF Apart, IsInjective
  <2>4. i - m = j - m => i = j
    BY <1>3
  <2> QED BY <2>2, <2>3, <2>4
<1> QED BY <1>2, <1>3, <1>4, <1>5 DEF IsCut, t, s

-----------------------------------------------------------------------------
(* What the lanes return and how it is fused.                               *)

LEMMA Scope ==
    ASSUME scenario \in Scenarios
    PROVE  /\ scenario.scope \subseteq Unit /\ Unit \subseteq Nat \ {0}
           /\ \A S \in SUBSET scenario.scope : S \in SUBSET Nat /\ IsFiniteSet(S)
<1>1. scenario.scope \subseteq Unit /\ Unit \subseteq Nat \ {0} /\ IsFiniteSet(Unit)
  BY PolicyAssumption, ScenarioAssumption
<1>2. ASSUME NEW S \in SUBSET scenario.scope PROVE S \in SUBSET Nat /\ IsFiniteSet(S)
  <2>1. S \in SUBSET Unit
    BY <1>1
  <2> QED BY <1>1, <2>1, FS_Subset
<1> QED BY <1>1, <1>2

LEMMA HitsListed ==
    ASSUME NEW n \in Nat, NEW scores, NEW h \in HitLists(n, scores)
    PROVE  /\ \E k \in 0..n : h \in [1..k -> [unit : scenario.scope, score : scores]]
           /\ \A i, j \in DOMAIN h : i # j => h[i].unit # h[j].unit
  BY DEF HitLists

LEMMA Hits ==
    ASSUME scenario \in Scenarios,
           NEW r, r \in ExactResults \cup OtherResults
    PROVE  /\ UnitsOf(r) = {r.hits[i].unit : i \in DOMAIN r.hits}
           /\ UnitsOf(r) \in SUBSET scenario.scope
           /\ \A u \in UnitsOf(r) :
                 PlaceOf(r, u) \in DOMAIN r.hits /\ r.hits[PlaceOf(r, u)].unit = u
           /\ r \in ExactResults =>
                 \A x \in ToSet(r.hits) : x.unit \in scenario.scope /\ x.score \in 1..2
           /\ r \in OtherResults =>
                 /\ \A u \in UnitsOf(r) : PlaceOf(r, u) \in 1..LastRank
                 /\ \A u : RankIn(r, u) \in 0..LastRank
<1>1. ExactHits \in Nat /\ OtherHits \in Nat /\ LastRank \in Nat /\ OtherHits <= LastRank
  BY Bounds
<1> DEFINE Shape(k) == /\ DOMAIN r.hits = 1..k
                       /\ \A i \in 1..k : r.hits[i].unit \in scenario.scope
<1>2. ASSUME r \in ExactResults
      PROVE  /\ \E k \in Nat : Shape(k)
             /\ \A i \in DOMAIN r.hits : r.hits[i].score \in 1..2
  <2>1. r.hits \in HitLists(ExactHits, 1..2)
    BY <1>2 DEF ExactResults
  <2>2. PICK k \in 0..ExactHits :
           r.hits \in [1..k -> [unit : scenario.scope, score : 1..2]]
    BY <1>1, <2>1, HitsListed
  <2> QED BY <2>2
<1>3. ASSUME r \in OtherResults
      PROVE  \E k \in Nat : k <= LastRank /\ Shape(k)
  <2>1. CASE r = Failed
    <3>1. r.hits = <<>>
      BY <2>1 DEF Failed
    <3>2. Shape(0) /\ 0 <= LastRank
      BY <1>1, <3>1
    <3> QED BY <3>2
  <2>2. CASE r # Failed
    <3>1. r.hits \in HitLists(OtherHits, {1})
      BY <1>3, <2>2 DEF OtherResults
    <3>2. PICK k \in 0..OtherHits :
             r.hits \in [1..k -> [unit : scenario.scope, score : {1}]]
      BY <1>1, <3>1, HitsListed
    <3>3. k \in Nat /\ k <= LastRank
      BY <1>1
    <3> QED BY <3>2, <3>3
  <2> QED BY <2>1, <2>2
<1>4. PICK k \in Nat : Shape(k) /\ (r \in OtherResults => k <= LastRank)
  BY <1>2, <1>3
<1>5. UnitsOf(r) = {r.hits[i].unit : i \in DOMAIN r.hits}
  BY DEF UnitsOf, ToSet
<1>6. UnitsOf(r) \in SUBSET scenario.scope
  BY <1>4, <1>5
<1>7. \A u \in UnitsOf(r) :
         PlaceOf(r, u) \in DOMAIN r.hits /\ r.hits[PlaceOf(r, u)].unit = u
  BY <1>5 DEF PlaceOf
<1>8. r \in ExactResults =>
         \A x \in ToSet(r.hits) : x.unit \in scenario.scope /\ x.score \in 1..2
  BY <1>2, <1>4 DEF ToSet
<1>9. ASSUME r \in OtherResults
      PROVE  /\ \A u \in UnitsOf(r) : PlaceOf(r, u) \in 1..LastRank
             /\ \A u : RankIn(r, u) \in 0..LastRank
  <2>1. k <= LastRank
    BY <1>4, <1>9
  <2>2. \A x \in 1..k : x \in 1..LastRank
    BY <1>1, <2>1
  <2>3. \A u \in UnitsOf(r) : PlaceOf(r, u) \in 1..LastRank
    BY <1>4, <1>7, <2>2
  <2> QED BY <1>1, <2>3 DEF RankIn
<1> QED BY <1>5, <1>6, <1>7, <1>8, <1>9

LEMMA ExactHitsLead ==
    ASSUME scenario \in Scenarios, NEW results,
           results["exact_identifier"] \in ExactResults,
           results["exact_quote"] \in ExactResults,
           NEW U, U = UnitsOf(results["exact_identifier"])
                          \cup UnitsOf(results["exact_quote"])
    PROVE  /\ U \in SUBSET scenario.scope /\ Cardinality(U) \in Nat
           /\ ExactFirst(results) \in [1..Cardinality(U) -> U]
           /\ ToSet(ExactFirst(results)) = U
           /\ IsInjective(ExactFirst(results))
<1> DEFINE hits == UNION {ToSet(results[l].hits) : l \in ExactLanes}
           V == {h.unit : h \in hits}
           best == [u \in V |-> Max({h.score : h \in {g \in hits : g.unit = u}})]
<1>1. hits = ToSet(results["exact_identifier"].hits) \cup ToSet(results["exact_quote"].hits)
  BY DEF ExactLanes
<1>2. V = U
  BY <1>1 DEF UnitsOf
<1>3. U \in SUBSET scenario.scope /\ \A h \in hits : h.score \in 1..2
  <2>1. /\ UnitsOf(results["exact_identifier"]) \in SUBSET scenario.scope
        /\ UnitsOf(results["exact_quote"]) \in SUBSET scenario.scope
        /\ \A h \in ToSet(results["exact_identifier"].hits) : h.score \in 1..2
        /\ \A h \in ToSet(results["exact_quote"].hits) : h.score \in 1..2
    BY Hits
  <2> HIDE DEF hits
  <2> QED BY <1>1, <2>1
<1>4. U \in SUBSET Nat /\ IsFiniteSet(U)
  BY <1>3, Scope
<1>5. best \in [V -> Int]
  <2> SUFFICES ASSUME NEW u \in V
               PROVE  Max({h.score : h \in {g \in hits : g.unit = u}}) \in Int
    OBVIOUS
  <2> DEFINE T == {h.score : h \in {g \in hits : g.unit = u}}
  <2>1. T # {} /\ T \in SUBSET (1..2)
    BY <1>3
  <2> HIDE DEF T
  <2>2. \E x \in T : \A y \in T : x >= y
    <3>1. CASE 2 \in T
      BY <2>1, <3>1
    <3>2. CASE 2 \notin T
      <4>1. \A y \in T : y = 1
        BY <2>1, <3>2
      <4>2. 1 \in T
        BY <2>1, <4>1
      <4> QED BY <4>1, <4>2
    <3> QED BY <3>1, <3>2
  <2>3. Max(T) \in T
    BY <2>2 DEF Max
  <2> QED BY <2>1, <2>3 DEF T
<1>6. ExactFirst(results) = ByScore(V, best)
  BY DEF ExactFirst
<1> HIDE DEF hits, best, V
<1>7. ExactFirst(results) = ByScore(U, best) /\ best \in [U -> Int]
  BY <1>2, <1>5, <1>6
<1>8. /\ Cardinality(U) \in Nat
      /\ ByScore(U, best) \in [1..Cardinality(U) -> U]
      /\ ToSet(ByScore(U, best)) = U
      /\ \A i, j \in 1..Cardinality(U) :
            /\ ByScore(U, best)[i] = ByScore(U, best)[j] => i = j
            /\ best[ByScore(U, best)[i]] > best[ByScore(U, best)[j]] => i < j
  BY <1>4, <1>7, Scored, Zenon
<1>9. IsInjective(ByScore(U, best))
  BY <1>8 DEF IsInjective
<1> QED BY <1>3, <1>7, <1>8, <1>9

\* The unit u is ahead of v in every lane that returned v.
Ahead(results, u, v) ==
    /\ \E l \in OptionalLanes : v \in UnitsOf(results[l])
    /\ \A l \in OptionalLanes : v \in UnitsOf(results[l]) =>
          /\ u \in UnitsOf(results[l])
          /\ PlaceOf(results[l], u) < PlaceOf(results[l], v)

LEMMA AheadScoresMore ==
    ASSUME scenario \in Scenarios, NEW results,
           results["lexical"] \in OtherResults, results["vector"] \in OtherResults
    PROVE  /\ \A u : RrfScore([n \in DOMAIN FusedLanes |->
                                  RankIn(results[FusedLanes[n]], u)]) \in Int
           /\ \A u, v : Ahead(results, u, v) =>
                 RrfScore([n \in DOMAIN FusedLanes |->
                             RankIn(results[FusedLanes[n]], u)])
                   > RrfScore([n \in DOMAIN FusedLanes |->
                                 RankIn(results[FusedLanes[n]], v)])
<1> DEFINE x == results["lexical"]
           y == results["vector"]
           ranks(u) == [n \in DOMAIN FusedLanes |-> RankIn(results[FusedLanes[n]], u)]
<1>1. /\ \A u \in UnitsOf(x) : PlaceOf(x, u) \in 1..LastRank
      /\ \A u \in UnitsOf(y) : PlaceOf(y, u) \in 1..LastRank
      /\ \A u : RankIn(x, u) \in 0..LastRank /\ RankIn(y, u) \in 0..LastRank
  BY Hits
<1>2. LastRank \in Nat
  BY Bounds
<1>3. ASSUME NEW u
      PROVE  /\ RrfScore(ranks(u)) \in Int
             /\ RrfScore(ranks(u)) = Contribution(RankIn(x, u)) + Contribution(RankIn(y, u))
  <2>1. /\ DOMAIN FusedLanes = 1..2
        /\ FusedLanes[1] = "lexical" /\ FusedLanes[2] = "vector"
    BY DEF FusedLanes
  <2> DEFINE r == ranks(u)
  <2>2. /\ r = [n \in 1..2 |-> RankIn(results[FusedLanes[n]], u)]
        /\ r[1] = RankIn(x, u) /\ r[2] = RankIn(y, u)
    BY <2>1
  <2>3. DOMAIN r = 1..2 /\ \A n \in 1..2 : n = 1 \/ n = 2
    BY <2>2
  <2>4. r \in [1..2 -> 0..LastRank]
    <3> HIDE DEF x, y, r
    <3> QED BY <1>1, <2>2, <2>3
  <2> HIDE DEF r
  <2>5. r \in Seq(0..LastRank) /\ Len(r) = 2
    <3> DEFINE D == 0..LastRank
               m == 2
    <3>1. m \in Nat /\ r \in [1..m -> D]
      BY <2>4
    <3> HIDE DEF D, m
    <3>2. r \in Seq(D) /\ Len(r) = m
      BY <3>1
    <3> QED BY <3>2 DEF D, m
  <2>6. /\ RrfScore(r) \in Int
        /\ RrfScore(r) = Contribution(r[1]) + Contribution(r[2])
    BY <2>5, Scores
  <2> QED BY <2>2, <2>6 DEF r
<1>4. ASSUME NEW u, NEW v, Ahead(results, u, v)
      PROVE  RrfScore(ranks(u)) > RrfScore(ranks(v))
  <2>1. OptionalLanes = {"lexical", "vector"}
    BY DEF OptionalLanes, FusedLanes, ToSet
  <2>2. /\ v \in UnitsOf(x) \/ v \in UnitsOf(y)
        /\ v \in UnitsOf(x) => u \in UnitsOf(x) /\ PlaceOf(x, u) < PlaceOf(x, v)
        /\ v \in UnitsOf(y) => u \in UnitsOf(y) /\ PlaceOf(y, u) < PlaceOf(y, v)
    BY <1>4, <2>1 DEF Ahead
  <2>3. ASSUME NEW l \in {x, y}
        PROVE  /\ Contribution(RankIn(l, u)) \in Nat /\ Contribution(RankIn(l, v)) \in Nat
               /\ v \in UnitsOf(l) => Contribution(RankIn(l, v)) < Contribution(RankIn(l, u))
               /\ v \notin UnitsOf(l) => Contribution(RankIn(l, v)) = 0
    <3> DEFINE p == RankIn(l, u)
               q == RankIn(l, v)
    <3>1. p \in 0..LastRank /\ q \in 0..LastRank
      BY <1>1
    <3>2. v \in UnitsOf(l) => 0 < p /\ p < q
      BY <1>1, <1>2, <2>2 DEF RankIn
    <3>3. v \notin UnitsOf(l) => Contribution(q) = 0
      BY DEF RankIn, Contribution
    <3> HIDE DEF p, q
    <3>4. Contribution(p) \in Nat /\ Contribution(q) \in Nat
      BY <3>1, Contributions
    <3>5. 0 < p /\ p < q => Contribution(q) < Contribution(p)
      BY <3>1, Contributions
    <3> QED BY <3>2, <3>3, <3>4, <3>5 DEF p, q
  <2> DEFINE a == Contribution(RankIn(x, u))
             b == Contribution(RankIn(y, u))
             c == Contribution(RankIn(x, v))
             d == Contribution(RankIn(y, v))
  <2>4. /\ a \in Nat /\ b \in Nat /\ c \in Nat /\ d \in Nat
        /\ c < a \/ c = 0
        /\ d < b \/ d = 0
        /\ c < a \/ d < b
    BY <2>2, <2>3
  <2>5. RrfScore(ranks(u)) = a + b /\ RrfScore(ranks(v)) = c + d
    BY <1>3
  <2> HIDE DEF a, b, c, d, ranks
  <2>6. a + b > c + d
    BY <2>4
  <2> QED BY <2>5, <2>6
<1> QED BY <1>3, <1>4

\* A list of distinct units the principal may read, within the bound.
Ranking(list) ==
    /\ list \in Seq(scenario.scope) /\ IsInjective(list)
    /\ Len(list) <= FusionTopK

\* Exact hits lead, and what is ahead in the lanes is ahead in the list.
Fair(list, results, exact) ==
    \A u \in scenario.scope, v \in ToSet(list) \ exact :
        u \in exact \/ Ahead(results, u, v) =>
            \E i, j \in DOMAIN list : i < j /\ list[i] = u /\ list[j] = v

LEMMA Fusion ==
    ASSUME scenario \in Scenarios, NEW results,
           results["exact_identifier"] \in ExactResults,
           results["exact_quote"] \in ExactResults,
           results["lexical"] \in OtherResults, results["vector"] \in OtherResults,
           NEW U, U = UnitsOf(results["exact_identifier"])
                          \cup UnitsOf(results["exact_quote"])
    PROVE  /\ Ranking(FuseLaneResults(results)) /\ U \in SUBSET scenario.scope
           /\ Fair(FuseLaneResults(results), results, U)
<1> DEFINE E == ExactFirst(results)
           m == Cardinality(U)
           found == UNION {UnitsOf(results[l]) : l \in OptionalLanes}
           O == found \ ToSet(E)
           score(u) == RrfScore([n \in DOMAIN FusedLanes |->
                                   RankIn(results[FusedLanes[n]], u)])
           rrf == [u \in O |-> score(u)]
           B == ByScore(O, rrf)
           n == Cardinality(O)
           f == FuseLaneResults(results)
<1>1. /\ U \in SUBSET scenario.scope /\ m \in Nat
      /\ E \in [1..m -> U] /\ ToSet(E) = U /\ IsInjective(E)
  BY ExactHitsLead
<1>2. OptionalLanes = {"lexical", "vector"}
  BY DEF OptionalLanes, FusedLanes, ToSet
<1>3. O = (UnitsOf(results["lexical"]) \cup UnitsOf(results["vector"])) \ U
  <2>1. found = UnitsOf(results["lexical"]) \cup UnitsOf(results["vector"])
    BY <1>2
  <2>2. ToSet(E) = U
    BY <1>1
  <2> HIDE DEF E, found
  <2> QED BY <2>1, <2>2
<1>4. O \in SUBSET scenario.scope
  <2>1. /\ UnitsOf(results["lexical"]) \in SUBSET scenario.scope
        /\ UnitsOf(results["vector"]) \in SUBSET scenario.scope
    BY Hits
  <2> HIDE DEF O
  <2> QED BY <1>3, <2>1
<1>5. O \in SUBSET Nat /\ IsFiniteSet(O)
  <2> HIDE DEF O
  <2> QED BY <1>4, Scope
<1>6. /\ rrf \in [O -> Int] /\ \A u \in O : rrf[u] = score(u)
      /\ \A u, v : Ahead(results, u, v) => score(u) > score(v)
  <2>1. /\ \A u : score(u) \in Int
        /\ \A u, v : Ahead(results, u, v) => score(u) > score(v)
    BY AheadScoresMore
  <2> HIDE DEF O, score
  <2> QED BY <2>1
<1>7. f = Truncate(E \o B, FusionTopK)
  BY DEF FuseLaneResults
<1> HIDE DEF E, O, rrf, f, score
<1>8. /\ n \in Nat /\ B \in [1..n -> O] /\ ToSet(B) = O
      /\ \A i, j \in 1..n : /\ B[i] = B[j] => i = j
                            /\ rrf[B[i]] > rrf[B[j]] => i < j
  BY <1>5, <1>6, Scored, Zenon
<1> HIDE DEF m, n, B
<1>9. DOMAIN E = 1..m /\ DOMAIN B = 1..n
  BY <1>1, <1>8
<1>10. Apart(E, B)
  <2>1. IsInjective(B)
    BY <1>8, <1>9 DEF IsInjective
  <2>2. \A i \in 1..m, j \in 1..n : E[i] \in U /\ B[j] \in O
    BY <1>1, <1>8
  <2> QED BY <1>1, <1>3, <1>9, <2>1, <2>2 DEF Apart
<1>11. FusionTopK \in Nat
  BY Bounds
<1>12. E \in [1..m -> scenario.scope] /\ B \in [1..n -> scenario.scope]
  BY <1>1, <1>4, <1>8
<1>13. /\ f \in Seq(scenario.scope) /\ IsInjective(f)
       /\ Len(f) \in Nat /\ Len(f) <= FusionTopK
       /\ Len(f) = IF FusionTopK <= m + n THEN FusionTopK ELSE m + n
       /\ \A i \in 1..Len(f) : f[i] = IF i <= m THEN E[i] ELSE B[i - m]
  <2>1. IsCut(f, scenario.scope, FusionTopK, E, m, B, n)
    <3>1. m \in Nat /\ n \in Nat
      BY <1>1, <1>8
    <3> QED BY <1>7, <1>10, <1>11, <1>12, <3>1, Cut, Zenon
  <2> QED BY <2>1 DEF IsCut
<1>14. DOMAIN f = 1..Len(f)
  BY <1>13, LenProperties
<1>15. ASSUME NEW u \in scenario.scope, NEW v \in ToSet(f) \ U,
              u \in U \/ Ahead(results, u, v)
       PROVE  \E i, j \in DOMAIN f : i < j /\ f[i] = u /\ f[j] = v
  <2>1. PICK j \in 1..Len(f) : f[j] = v
    BY <1>14 DEF ToSet
  <2>2. /\ ~(j <= m) /\ v = B[j - m] /\ j - m \in 1..n /\ v \in O
    <3>1. j <= m => j \in 1..m
      BY <1>1
    <3>2. j <= m => v \in U
      BY <1>1, <1>13, <2>1, <3>1
    <3>3. j - m \in 1..n
      BY <1>1, <1>8, <1>11, <1>13, <3>2
    <3> QED BY <1>8, <1>13, <2>1, <3>2, <3>3
  <2>3. CASE u \in U
    <3>1. PICK i \in 1..m : E[i] = u
      BY <1>1, <1>9, <2>3 DEF ToSet
    <3>2. i < j /\ i \in 1..Len(f) /\ i <= m
      BY <1>1, <1>13, <2>2
    <3> QED BY <1>13, <1>14, <2>1, <3>1, <3>2
  <2>4. CASE u \notin U
    <3>1. Ahead(results, u, v)
      BY <1>15, <2>4
    <3>2. u \in O
      <4>1. PICK l \in OptionalLanes : v \in UnitsOf(results[l])
        BY <3>1 DEF Ahead
      <4>2. u \in UnitsOf(results[l])
        BY <3>1, <4>1 DEF Ahead
      <4> QED BY <1>2, <1>3, <2>4, <4>2
    <3>3. PICK i \in 1..n : B[i] = u
      BY <1>8, <1>9, <3>2 DEF ToSet
    <3>4. rrf[u] > rrf[v]
      BY <1>6, <2>2, <3>1, <3>2
    <3>5. i < j - m
      BY <1>8, <2>2, <3>3, <3>4
    <3>6. /\ i + m \in 1..Len(f) /\ i + m < j /\ ~(i + m <= m) /\ (i + m) - m = i
      BY <1>1, <1>8, <1>13, <2>1, <3>5
    <3>7. f[i + m] = u
      BY <1>13, <3>3, <3>6
    <3> QED BY <1>14, <2>1, <3>6, <3>7
  <2> QED BY <2>3, <2>4
<1> QED BY <1>1, <1>13, <1>15 DEF Fair, Ranking, f

LEMMA Reranking ==
    ASSUME NEW list, Ranking(list), NEW r \in Reranked(list)
    PROVE  Ranking(r)
<1> DEFINE k == RerankTopK
           n == Len(list)
<1>1. /\ list \in Seq(scenario.scope) /\ IsInjective(list) /\ n \in Nat
      /\ n <= FusionTopK /\ DOMAIN list = 1..n /\ k \in Nat /\ FusionTopK \in Nat
      /\ list \in [1..n -> scenario.scope]
  BY PolicyAssumption, LenProperties DEF Ranking
<1>2. \/ r = list
      \/ r = Truncate(list, k)
      \/ IsInjective(r) /\ \E m \in 0..Min({k, n}) : r \in [1..m -> ToSet(list)]
  BY DEF Reranked, SeqOf
<1> HIDE DEF k, n
<1>3. CASE r = Truncate(list, k)
  <2>1. /\ r \in Seq(scenario.scope) /\ Len(r) = IF k <= n THEN k ELSE n
        /\ \A i \in 1..Len(r) : r[i] = list[i]
    BY <1>1, <1>3, Truncated DEF n
  <2>2. DOMAIN r = 1..Len(r) /\ \A i \in 1..Len(r) : i \in 1..n
    BY <1>1, <2>1, LenProperties
  <2>3. IsInjective(r)
    BY <1>1, <2>1, <2>2 DEF IsInjective
  <2> QED BY <1>1, <2>1, <2>3 DEF Ranking
<1>4. CASE IsInjective(r) /\ \E m \in 0..Min({k, n}) : r \in [1..m -> ToSet(list)]
  <2>1. PICK m \in 0..Min({k, n}) : r \in [1..m -> ToSet(list)]
    BY <1>4
  <2>2. Min({k, n}) = IF k <= n THEN k ELSE n
    BY <1>1, MinOfTwo
  <2>3. m \in Nat /\ m <= FusionTopK
    BY <1>1, <2>2
  <2>4. ToSet(list) \subseteq scenario.scope
    BY <1>1 DEF ToSet
  <2>5. r \in [1..m -> scenario.scope]
    BY <2>1, <2>4
  <2>6. r \in Seq(scenario.scope) /\ Len(r) = m
    BY <2>3, <2>5
  <2> QED BY <1>4, <2>3, <2>6 DEF Ranking
<1> QED BY <1>2, <1>3, <1>4

\* The queries answered so far: their lists and their exact hits.
Outcomes ==
    /\ outcomes \in Seq([fused : Seq(scenario.scope), exact : SUBSET scenario.scope])
    /\ \A q \in DOMAIN outcomes : Ranking(outcomes[q].fused)

\* The place of a unit in a list without repetition, and how many are before it.
LEMMA Places ==
    ASSUME scenario \in Scenarios, NEW list, Ranking(list)
    PROVE  /\ ToSet(list) \in SUBSET scenario.scope
           /\ \A u \in ToSet(list) :
                 LET i == CHOOSE i \in DOMAIN list : list[i] = u
                 IN  i \in Nat /\ list[i] = u
           /\ \A T \in SUBSET ToSet(list) : Cardinality(T) \in 0..LastRank
<1> DEFINE n == Len(list)
<1>1. /\ n \in Nat /\ n <= FusionTopK /\ list \in [1..n -> scenario.scope]
      /\ DOMAIN list = 1..n
  BY LenProperties DEF Ranking
<1>2. LastRank \in Nat /\ FusionTopK <= LastRank /\ FusionTopK \in Nat
  BY Bounds
<1> HIDE DEF n
<1>3. ToSet(list) \in SUBSET scenario.scope
  BY <1>1 DEF ToSet
<1>4. ASSUME NEW u \in ToSet(list)
      PROVE  LET i == CHOOSE i \in DOMAIN list : list[i] = u
             IN  i \in Nat /\ list[i] = u
  <2>1. \E i \in DOMAIN list : list[i] = u
    BY <1>4 DEF ToSet
  <2>2. \A i \in DOMAIN list : i \in Nat
    BY <1>1
  <2> QED BY <2>1, <2>2
<1>5. ASSUME NEW T \in SUBSET ToSet(list) PROVE Cardinality(T) \in 0..LastRank
  <2>1. list \in Surjection(1..n, ToSet(list))
    BY <1>1 DEF Surjection, ToSet
  <2>2. IsFiniteSet(1..n) /\ Cardinality(1..n) = n
    BY <1>1, FS_Interval
  <2>3. IsFiniteSet(ToSet(list)) /\ Cardinality(ToSet(list)) <= n
    BY <2>1, <2>2, FS_Surjection
  <2>4. IsFiniteSet(T) /\ Cardinality(T) <= Cardinality(ToSet(list))
    BY <2>3, FS_Subset
  <2>5. Cardinality(T) \in Nat /\ Cardinality(ToSet(list)) \in Nat
    BY <2>3, <2>4, FS_CardinalityType
  <2> QED BY <1>1, <1>2, <2>3, <2>4, <2>5
<1> QED BY <1>3, <1>4, <1>5

LEMMA Merging ==
    ASSUME scenario \in Scenarios, Outcomes
    PROVE  Ranking(MergeQueries)
<1> DEFINE Q == DOMAIN outcomes
           list(q) == outcomes[q].fused
           place(q, u) == CHOOSE i \in DOMAIN outcomes[q].fused :
                             outcomes[q].fused[i] = u
           exactOf(q) == ToSet(outcomes[q].fused) \cap outcomes[q].exact
           lead == UNION {exactOf(q) : q \in Q}
           first(u) == Min({q \in Q : u \in exactOf(q)})
           sooner(u, v) == \/ first(u) < first(v)
                           \/ first(u) = first(v) /\ place(first(u), u) < place(first(v), v)
           rest(q) == ToSet(outcomes[q].fused) \ lead
           rank(q, u) == IF u \notin rest(q) THEN 0
                         ELSE Cardinality({v \in rest(q) : place(q, v) <= place(q, u)})
           others == UNION {rest(q) : q \in Q}
           rrf == [u \in others |-> RrfScore([q \in Q |-> rank(q, u)])]
           R == {p \in lead \X lead : sooner(p[1], p[2])}
           E == InOrder(lead, R)
           B == ByScore(others, rrf)
           m == Cardinality(lead)
           n == Cardinality(others)
           f == MergeQueries
<1>1. f = Truncate(E \o B, FusionTopK)
  BY DEF MergeQueries
<1>2. Q \in SUBSET Nat /\ \A q \in Q : Ranking(list(q))
  <2>1. Q = 1..Len(outcomes)
    BY LenProperties DEF Outcomes
  <2> QED BY <2>1 DEF Outcomes
<1>3. ASSUME NEW q \in Q
      PROVE  /\ ToSet(list(q)) \in SUBSET scenario.scope
             /\ \A u \in ToSet(list(q)) : place(q, u) \in Nat /\ list(q)[place(q, u)] = u
             /\ \A T \in SUBSET ToSet(list(q)) : Cardinality(T) \in 0..LastRank
  <2> DEFINE l == list(q)
  <2>1. Ranking(l)
    BY <1>2
  <2>2. \A u : place(q, u) = CHOOSE i \in DOMAIN l : l[i] = u
    OBVIOUS
  <2> HIDE DEF l, place
  <2>3. /\ ToSet(l) \in SUBSET scenario.scope
        /\ \A u \in ToSet(l) :
              LET i == CHOOSE i \in DOMAIN l : l[i] = u
              IN  i \in Nat /\ l[i] = u
        /\ \A T \in SUBSET ToSet(l) : Cardinality(T) \in 0..LastRank
    BY <2>1, Places
  <2> QED BY <2>2, <2>3 DEF l
<1>4. \A q \in Q : rest(q) = ToSet(list(q)) \ lead /\ exactOf(q) \in SUBSET ToSet(list(q))
  OBVIOUS
<1>5. \A u \in lead : \E q \in Q : u \in exactOf(q)
  OBVIOUS
<1>6. \A u \in others : u \notin lead /\ \E q \in Q : u \in ToSet(list(q))
  OBVIOUS
<1>7. lead \in SUBSET scenario.scope /\ others \in SUBSET scenario.scope
  <2>1. \A u \in lead : u \in scenario.scope
    <3> HIDE DEF exactOf, list, lead, Q
    <3> QED BY <1>3, <1>4, <1>5
  <2>2. \A u \in others : u \in scenario.scope
    <3> HIDE DEF list, others, Q
    <3> QED BY <1>3, <1>6
  <2> HIDE DEF lead, others
  <2> QED BY <2>1, <2>2
<1> HIDE DEF Q, list, place, exactOf, lead, rest, others
<1>8. /\ lead \in SUBSET Nat /\ IsFiniteSet(lead)
      /\ others \in SUBSET Nat /\ IsFiniteSet(others)
  BY <1>7, Scope
<1>9. \A u, v \in lead : <<u, v>> \in R <=> sooner(u, v)
  OBVIOUS
<1>10. ASSUME NEW u \in lead
       PROVE  /\ first(u) \in Q /\ first(u) \in Nat
              /\ place(first(u), u) \in Nat
              /\ list(first(u))[place(first(u), u)] = u
  <2> DEFINE T == {q \in Q : u \in exactOf(q)}
  <2>1. T \in SUBSET Nat /\ T # {}
    BY <1>2, <1>5
  <2> HIDE DEF T
  <2>2. Min(T) \in T
    BY <2>1, MinOf
  <2>3. first(u) \in Q /\ u \in exactOf(first(u))
    BY <2>2 DEF T
  <2> HIDE DEF first
  <2>4. u \in ToSet(list(first(u)))
    BY <1>4, <2>3
  <2> QED BY <1>2, <1>3, <2>3, <2>4
<1>11. Orders(R, lead)
  <2>1. \A u \in lead : first(u) \in Nat /\ place(first(u), u) \in Nat
    BY <1>10
  <2> HIDE DEF R, first
  <2>2. \A u \in lead : <<u, u>> \notin R
    BY <1>9, <2>1
  <2>3. ASSUME NEW u \in lead, NEW v \in lead
        PROVE  u = v \/ <<u, v>> \in R \/ <<v, u>> \in R
    <3>1. \/ sooner(u, v) \/ sooner(v, u)
          \/ first(u) = first(v) /\ place(first(u), u) = place(first(v), v)
      BY <2>1
    <3>2. first(u) = first(v) /\ place(first(u), u) = place(first(v), v) => u = v
      BY <1>10
    <3> QED BY <1>9, <3>1, <3>2
  <2>4. \A u, v, w \in lead : sooner(u, v) /\ sooner(v, w) => sooner(u, w)
    <3> SUFFICES ASSUME NEW u \in lead, NEW v \in lead, NEW w \in lead,
                        sooner(u, v), sooner(v, w)
                 PROVE  sooner(u, w)
      OBVIOUS
    <3> DEFINE a == first(u)
               b == first(v)
               c == first(w)
               x == place(first(u), u)
               y == place(first(v), v)
               z == place(first(w), w)
    <3>1. /\ a \in Nat /\ b \in Nat /\ c \in Nat /\ x \in Nat /\ y \in Nat /\ z \in Nat
          /\ a < b \/ (a = b /\ x < y)
          /\ b < c \/ (b = c /\ y < z)
      BY <2>1
    <3> HIDE DEF a, b, c, x, y, z
    <3>2. a < c \/ (a = c /\ x < z)
      BY <3>1
    <3> QED BY <3>2 DEF a, b, c, x, y, z
  <2>5. \A u, v, w \in lead : <<u, v>> \in R /\ <<v, w>> \in R => <<u, w>> \in R
    <3> HIDE DEF sooner
    <3> QED BY <1>9, <2>4
  <2> HIDE DEF sooner
  <2> QED BY <2>2, <2>3, <2>5 DEF Orders
<1>12. rrf \in [others -> Int]
  <2> SUFFICES ASSUME NEW u \in others PROVE RrfScore([q \in Q |-> rank(q, u)]) \in Int
    OBVIOUS
  <2> DEFINE r == [q \in Q |-> rank(q, u)]
  <2>1. LastRank \in Nat
    BY Bounds
  <2>2. ASSUME NEW q \in Q PROVE rank(q, u) \in 0..LastRank
    <3>1. {v \in rest(q) : place(q, v) <= place(q, u)} \in SUBSET ToSet(list(q))
      BY <1>4
    <3>2. Cardinality({v \in rest(q) : place(q, v) <= place(q, u)}) \in 0..LastRank
      BY <1>3, <3>1
    <3> QED BY <2>1, <3>2
  <2> HIDE DEF rank
  <2>3. Len(outcomes) \in Nat /\ Q = 1..Len(outcomes)
    BY LenProperties DEF Outcomes, Q
  <2>4. r \in Seq(0..LastRank)
    <3> DEFINE D == 0..LastRank
               N == Len(outcomes)
    <3>1. N \in Nat /\ r \in [1..N -> D]
      BY <2>2, <2>3
    <3> HIDE DEF D, N, r
    <3>2. r \in Seq(D)
      BY <3>1
    <3> QED BY <3>2 DEF D
  <2> HIDE DEF r
  <2>5. RrfScore(r) \in Int
    BY <2>4, Scores
  <2> QED BY <2>5 DEF r
<1> HIDE DEF R, rrf, E, B, f, m, n
<1>13. /\ m \in Nat /\ E \in [1..m -> lead]
       /\ \A i, j \in 1..m : i < j <=> <<E[i], E[j]>> \in R
  BY <1>8, <1>11, Sorted DEF E, m
<1>14. /\ n \in Nat /\ B \in [1..n -> others]
       /\ \A i, j \in 1..n : B[i] = B[j] => i = j
  <2>1. /\ Cardinality(others) \in Nat
        /\ ByScore(others, rrf) \in [1..Cardinality(others) -> others]
        /\ ToSet(ByScore(others, rrf)) = others
        /\ \A i, j \in 1..Cardinality(others) :
              /\ ByScore(others, rrf)[i] = ByScore(others, rrf)[j] => i = j
              /\ rrf[ByScore(others, rrf)[i]] > rrf[ByScore(others, rrf)[j]] => i < j
    BY <1>8, <1>12, Scored, Zenon
  <2> QED BY <2>1 DEF B, n
<1>15. Apart(E, B)
  <2>1. DOMAIN E = 1..m /\ DOMAIN B = 1..n
    BY <1>13, <1>14
  <2>2. ASSUME NEW i \in 1..m, NEW j \in 1..m, E[i] = E[j] PROVE i = j
    <3>1. E[i] \in lead /\ i \in Int /\ j \in Int
      BY <1>13
    <3>2. <<E[i], E[i]>> \notin R
      BY <1>11, <3>1 DEF Orders
    <3>3. ~(i < j) /\ ~(j < i)
      BY <1>13, <2>2, <3>2
    <3> QED BY <3>1, <3>3
  <2>3. IsInjective(E) /\ IsInjective(B)
    BY <1>14, <2>1, <2>2 DEF IsInjective
  <2>4. \A i \in 1..m, j \in 1..n : E[i] \in lead /\ B[j] \in others
    BY <1>13, <1>14
  <2> QED BY <1>6, <2>1, <2>3, <2>4 DEF Apart
<1>16. E \in [1..m -> scenario.scope] /\ B \in [1..n -> scenario.scope]
  BY <1>7, <1>13, <1>14
<1>17. FusionTopK \in Nat /\ m \in Nat /\ n \in Nat
  BY <1>13, <1>14, Bounds
<1>18. IsCut(f, scenario.scope, FusionTopK, E, m, B, n)
  BY <1>1, <1>15, <1>16, <1>17, Cut, Zenon
<1> QED BY <1>18 DEF IsCut, Ranking, f

-----------------------------------------------------------------------------
(* The selection of evidence: one candidate, then one school, at a time.    *)

Objections ==
    {"TOPK_TRUNCATED", "OVERLAP_COLLAPSED", "SOURCE_CAP", "MADHHAB_CAP", "none"}

Selection ==
    [selected : Seq(scenario.scope),
     exclusions : SUBSET [unit : scenario.scope, code : Objections],
     unavailable : SUBSET STRING]

\* A selection out of `units` with at most `cap` units of one book.
Kept(s, units, cap) ==
    /\ s \in Selection /\ IsInjective(s.selected)
    /\ ToSet(s.selected) \subseteq units
    /\ \A b : Cardinality(InSource(ToSet(s.selected), b)) <= cap

LEMMA Appended ==
    ASSUME NEW D, NEW s \in Seq(D), NEW u \in D
    PROVE  /\ Append(s, u) \in Seq(D) /\ ToSet(Append(s, u)) = ToSet(s) \cup {u}
           /\ DOMAIN s = 1..Len(s) /\ Len(s) \in Nat
           /\ DOMAIN Append(s, u) = 1..(Len(s) + 1)
           /\ \A i \in 1..Len(s) : Append(s, u)[i] = s[i]
           /\ Append(s, u)[Len(s) + 1] = u
           /\ u \notin ToSet(s) /\ IsInjective(s) => IsInjective(Append(s, u))
<1> DEFINE n == Len(s)
           t == Append(s, u)
<1>1. n \in Nat /\ DOMAIN s = 1..n
  BY LenProperties
<1>2. /\ t \in Seq(D) /\ Len(t) = n + 1
      /\ \A i \in 1..n : t[i] = s[i]
      /\ t[n + 1] = u
  BY AppendProperties
<1> HIDE DEF n, t
<1>3. DOMAIN t = 1..(n + 1)
  BY <1>2, LenProperties
<1>4. \A i \in 1..(n + 1) : i \in 1..n \/ i = n + 1
  BY <1>1
<1>5. \A i \in 1..n : i \in 1..(n + 1)
  BY <1>1
<1>6. n + 1 \in 1..(n + 1)
  BY <1>1
<1>7. ToSet(t) = ToSet(s) \cup {u}
  BY <1>1, <1>2, <1>3, <1>4, <1>5, <1>6 DEF ToSet
<1>8. ASSUME u \notin ToSet(s), IsInjective(s) PROVE IsInjective(t)
  <2> SUFFICES ASSUME NEW i \in 1..(n + 1), NEW j \in 1..(n + 1), t[i] = t[j] PROVE i = j
    BY <1>3 DEF IsInjective
  <2>1. \A k \in 1..n : t[k] \in ToSet(s)
    BY <1>1, <1>2 DEF ToSet
  <2> QED BY <1>1, <1>2, <1>4, <1>8, <2>1 DEF IsInjective
<1> QED BY <1>1, <1>2, <1>3, <1>7, <1>8 DEF n, t

LEMMA InSourceGrows ==
    ASSUME NEW S, IsFiniteSet(S), NEW u, NEW b
    PROVE  /\ Cardinality(InSource(S, b)) \in Nat
           /\ Cardinality(InSource(S \cup {u}, b)) <= Cardinality(InSource(S, b)) + 1
           /\ scenario.source[u] # b =>
                 Cardinality(InSource(S \cup {u}, b)) = Cardinality(InSource(S, b))
<1>1. IsFiniteSet(InSource(S, b))
  BY FS_Subset DEF InSource
<1>2. Cardinality(InSource(S, b)) \in Nat
  BY <1>1, FS_CardinalityType
<1>3. /\ IsFiniteSet(InSource(S, b) \cup {u})
      /\ Cardinality(InSource(S, b) \cup {u}) <= Cardinality(InSource(S, b)) + 1
  <2> DEFINE T == InSource(S, b)
  <2>1. IsFiniteSet(T) /\ Cardinality(T) \in Nat
    BY <1>1, <1>2
  <2> HIDE DEF T
  <2>2. /\ IsFiniteSet(T \cup {u})
        /\ Cardinality(T \cup {u}) = IF u \in T THEN Cardinality(T) ELSE Cardinality(T) + 1
    BY <2>1, FS_AddElement
  <2>3. Cardinality(T \cup {u}) <= Cardinality(T) + 1
    BY <2>1, <2>2
  <2> QED BY <2>2, <2>3 DEF T
<1>4. CASE scenario.source[u] # b
  <2>1. InSource(S \cup {u}, b) = InSource(S, b)
    BY <1>4 DEF InSource
  <2> QED BY <1>2, <1>4, <2>1
<1>5. CASE scenario.source[u] = b
  <2>1. InSource(S \cup {u}, b) = InSource(S, b) \cup {u}
    BY <1>5 DEF InSource
  <2> QED BY <1>2, <1>3, <1>5, <2>1
<1> QED BY <1>4, <1>5

LEMMA ObjectionTyped ==
    ASSUME NEW u, NEW units
    PROVE  Objection(u, units) \in Objections
BY Zenon DEF Objection, Objections

LEMMA ConsiderTyped ==
    ASSUME NEW s \in Selection, NEW u \in scenario.scope
    PROVE  Consider(s, u) \in Selection
<1> DEFINE why == Objection(u, ToSet(s.selected))
<1>1. why \in Objections
  BY ObjectionTyped
<1>2. Consider(s, u) = IF why = "none" THEN [s EXCEPT !.selected = Append(@, u)]
                       ELSE [s EXCEPT !.exclusions = @ \cup {[unit |-> u, code |-> why]}]
  BY DEF Consider
<1>3. Append(s.selected, u) \in Seq(scenario.scope)
  BY Appended DEF Selection
<1> HIDE DEF why
<1>4. [unit |-> u, code |-> why] \in [unit : scenario.scope, code : Objections]
  BY <1>1
<1>5. [s EXCEPT !.selected = Append(@, u)] \in Selection
  BY <1>3 DEF Selection
<1>6. [s EXCEPT !.exclusions = @ \cup {[unit |-> u, code |-> why]}] \in Selection
  BY <1>4 DEF Selection
<1> QED BY <1>2, <1>5, <1>6

LEMMA ConsiderKeeps ==
    ASSUME scenario \in Scenarios, NEW units \in SUBSET scenario.scope,
           NEW u \in scenario.scope, u \notin units,
           NEW s, Kept(s, units, MaxPerSource)
    PROVE  Kept(Consider(s, u), units \cup {u}, MaxPerSource)
<1> DEFINE S == ToSet(s.selected)
           why == Objection(u, S)
           t == Consider(s, u)
<1>1. /\ s \in Selection /\ IsInjective(s.selected) /\ S \subseteq units
      /\ \A b : Cardinality(InSource(S, b)) <= MaxPerSource
      /\ s.selected \in Seq(scenario.scope)
  BY DEF Kept, Selection
<1>2. t \in Selection
  BY <1>1, ConsiderTyped
<1>3. MaxPerSource \in Nat /\ IsFiniteSet(S)
  <2>1. S \in SUBSET scenario.scope
    BY <1>1
  <2> HIDE DEF S
  <2> QED BY <2>1, PolicyAssumption, Scope
<1>4. CASE why = "none"
  <2>1. t = [s EXCEPT !.selected = Append(@, u)]
    BY <1>4 DEF Consider
  <2>2. t.selected = Append(s.selected, u)
    BY <1>1, <2>1 DEF Selection
  <2>3. ToSet(t.selected) = S \cup {u} /\ IsInjective(t.selected)
    BY <1>1, <2>2, Appended
  <2>4. ~(Cardinality(InSource(S, scenario.source[u])) >= MaxPerSource)
    <3> HIDE DEF S
    <3> QED BY <1>4 DEF Objection
  <2> HIDE DEF S, t
  <2>5. ASSUME NEW b PROVE Cardinality(InSource(S \cup {u}, b)) <= MaxPerSource
    <3>1. /\ Cardinality(InSource(S, b)) \in Nat
          /\ Cardinality(InSource(S \cup {u}, b)) <= Cardinality(InSource(S, b)) + 1
          /\ scenario.source[u] # b =>
                Cardinality(InSource(S \cup {u}, b)) = Cardinality(InSource(S, b))
      BY <1>3, InSourceGrows
    <3>2. IsFiniteSet(InSource(S \cup {u}, b))
      <4>1. IsFiniteSet(S \cup {u})
        BY <1>3, FS_AddElement
      <4> QED BY <4>1, FS_Subset DEF InSource
    <3>3. Cardinality(InSource(S \cup {u}, b)) \in Nat
      BY <3>2, FS_CardinalityType
    <3>4. CASE scenario.source[u] # b
      BY <1>1, <3>1, <3>4
    <3>5. CASE scenario.source[u] = b
      <4>1. ~(Cardinality(InSource(S, b)) >= MaxPerSource)
        BY <2>4, <3>5
      <4> QED BY <1>3, <3>1, <3>3, <4>1
    <3> QED BY <3>4, <3>5
  <2>6. Kept(t, units \cup {u}, MaxPerSource)
    BY <1>1, <1>2, <2>3, <2>5 DEF Kept
  <2> QED BY <2>6 DEF t
<1>5. CASE why # "none"
  <2>1. t = [s EXCEPT !.exclusions = @ \cup {[unit |-> u, code |-> why]}]
    BY <1>5 DEF Consider
  <2>2. t.selected = s.selected
    BY <1>1, <2>1 DEF Selection
  <2> HIDE DEF t
  <2>3. Kept(t, units \cup {u}, MaxPerSource)
    BY <1>1, <1>2, <2>2 DEF Kept
  <2> QED BY <2>3 DEF t
<1> QED BY <1>4, <1>5

LEMMA RepresentTyped ==
    ASSUME scenario \in Scenarios, Ranking(ranked),
           NEW s \in Selection, NEW m \in STRING
    PROVE  Represent(s, m) \in Selection
<1> DEFINE pool == {i \in DOMAIN ranked : /\ m \in scenario.madhhab[ranked[i]]
                                          /\ ranked[i] \notin ToSet(s.selected)}
           pick == ranked[Min(pool)]
<1>1. Represent(s, m) =
          IF OfMadhhab(ToSet(s.selected), m) # {} THEN s
          ELSE IF pool = {} THEN [s EXCEPT !.unavailable = @ \cup {m}]
          ELSE [s EXCEPT !.selected = Append(@, pick),
                         !.exclusions = {e \in @ : e.unit # pick}]
  BY DEF Represent, RepresentFrom
<1>2. /\ ranked \in [1..Len(ranked) -> scenario.scope]
      /\ DOMAIN ranked = 1..Len(ranked) /\ Len(ranked) \in Nat
  BY LenProperties DEF Ranking
<1>3. pool # {} => pick \in scenario.scope
  <2>1. pool \in SUBSET Nat
    BY <1>2
  <2> HIDE DEF pool
  <2>2. pool # {} => Min(pool) \in pool
    BY <2>1, MinOf
  <2>3. pool \subseteq 1..Len(ranked)
    BY <1>2 DEF pool
  <2> QED BY <1>2, <2>2, <2>3
<1>4. [s EXCEPT !.unavailable = @ \cup {m}] \in Selection
  BY DEF Selection
<1> HIDE DEF pool, pick
<1>5. ASSUME pick \in scenario.scope
      PROVE  [s EXCEPT !.selected = Append(@, pick),
                       !.exclusions = {e \in @ : e.unit # pick}] \in Selection
  <2>1. Append(s.selected, pick) \in Seq(scenario.scope)
    BY <1>5, Appended DEF Selection
  <2> QED BY <2>1 DEF Selection
<1> QED BY <1>1, <1>3, <1>4, <1>5

\* The school has a candidate among the units.
Heard(units, m) == \E u \in units : m \in scenario.madhhab[u]

LEMMA RepresentKeeps ==
    ASSUME scenario \in Scenarios, Ranking(ranked), NEW m \in STRING,
           NEW cap \in Nat, NEW s, Kept(s, ToSet(ranked), cap)
    PROVE  /\ Kept(Represent(s, m), ToSet(ranked), cap + 1)
           /\ ToSet(s.selected) \subseteq ToSet(Represent(s, m).selected)
           /\ Heard(ToSet(ranked), m) => Heard(ToSet(Represent(s, m).selected), m)
<1> DEFINE S == ToSet(s.selected)
           t == Represent(s, m)
           pool == {i \in DOMAIN ranked : /\ m \in scenario.madhhab[ranked[i]]
                                          /\ ranked[i] \notin S}
           pick == ranked[Min(pool)]
<1>1. /\ s \in Selection /\ IsInjective(s.selected) /\ S \subseteq ToSet(ranked)
      /\ \A b : Cardinality(InSource(S, b)) <= cap
      /\ s.selected \in Seq(scenario.scope)
  BY DEF Kept, Selection
<1>2. t \in Selection
  BY <1>1, RepresentTyped
<1>3. t = IF OfMadhhab(S, m) # {} THEN s
          ELSE IF pool = {} THEN [s EXCEPT !.unavailable = @ \cup {m}]
          ELSE [s EXCEPT !.selected = Append(@, pick),
                         !.exclusions = {e \in @ : e.unit # pick}]
  BY DEF Represent, RepresentFrom
<1>4. IsFiniteSet(S) /\ \A b : Cardinality(InSource(S, b)) \in Nat
  <2>1. ToSet(ranked) \in SUBSET scenario.scope
    BY Places
  <2>2. S \in SUBSET scenario.scope
    BY <1>1, <2>1
  <2> HIDE DEF S
  <2>3. IsFiniteSet(S)
    BY <2>2, Scope
  <2>4. ASSUME NEW b PROVE Cardinality(InSource(S, b)) \in Nat
    <3>1. IsFiniteSet(InSource(S, b))
      BY <2>3, FS_Subset DEF InSource
    <3> QED BY <3>1, FS_CardinalityType
  <2> QED BY <2>3, <2>4
<1>5. DOMAIN ranked = 1..Len(ranked)
  BY LenProperties DEF Ranking
<1>6. ASSUME t.selected = s.selected,
             Heard(ToSet(ranked), m) => Heard(S, m)
      PROVE  /\ Kept(t, ToSet(ranked), cap + 1)
             /\ S \subseteq ToSet(t.selected)
             /\ Heard(ToSet(ranked), m) => Heard(ToSet(t.selected), m)
  <2>1. ToSet(t.selected) = S /\ IsInjective(t.selected)
    BY <1>1, <1>6
  <2> HIDE DEF S, t
  <2>2. \A b : Cardinality(InSource(S, b)) <= cap + 1
    BY <1>1, <1>4
  <2> QED BY <1>1, <1>2, <1>6, <2>1, <2>2 DEF Kept
<1>7. CASE OfMadhhab(S, m) # {}
  <2>1. t.selected = s.selected
    BY <1>3, <1>7
  <2>2. Heard(S, m)
    <3> HIDE DEF S
    <3> QED BY <1>7 DEF OfMadhhab, Heard
  <2> QED BY <1>6, <2>1, <2>2
<1>8. CASE OfMadhhab(S, m) = {} /\ pool = {}
  <2>1. t = [s EXCEPT !.unavailable = @ \cup {m}]
    BY <1>3, <1>8
  <2>2. t.selected = s.selected
    BY <1>1, <2>1 DEF Selection
  <2>3. ~Heard(ToSet(ranked), m)
    <3> HIDE DEF S
    <3>1. \A i \in DOMAIN ranked : m \in scenario.madhhab[ranked[i]] => ranked[i] \in S
      BY <1>8
    <3>2. \A u \in S : m \notin scenario.madhhab[u]
      BY <1>8 DEF OfMadhhab
    <3> QED BY <3>1, <3>2 DEF Heard, ToSet
  <2> QED BY <1>6, <2>2, <2>3
<1>9. CASE OfMadhhab(S, m) = {} /\ pool # {}
  <2>1. t = [s EXCEPT !.selected = Append(@, pick),
                      !.exclusions = {e \in @ : e.unit # pick}]
    BY <1>3, <1>9
  <2>2. /\ pick \in ToSet(ranked) /\ pick \notin S /\ m \in scenario.madhhab[pick]
        /\ pick \in scenario.scope
    <3>1. pool \in SUBSET Nat
      BY <1>5
    <3> HIDE DEF pool
    <3>2. Min(pool) \in pool
      BY <1>9, <3>1, MinOf
    <3>3. /\ Min(pool) \in DOMAIN ranked /\ m \in scenario.madhhab[ranked[Min(pool)]]
          /\ ranked[Min(pool)] \notin S
      BY <3>2 DEF pool
    <3>4. ranked[Min(pool)] \in ToSet(ranked)
      BY <3>3 DEF ToSet
    <3>5. ToSet(ranked) \in SUBSET scenario.scope
      BY Places
    <3> QED BY <3>3, <3>4, <3>5
  <2> HIDE DEF pick
  <2>3. t.selected = Append(s.selected, pick)
    BY <1>1, <2>1 DEF Selection
  <2>4. /\ ToSet(t.selected) = S \cup {pick}
        /\ IsInjective(t.selected)
    BY <1>1, <2>2, <2>3, Appended
  <2> HIDE DEF S, t
  <2>5. ASSUME NEW b PROVE Cardinality(InSource(S \cup {pick}, b)) <= cap + 1
    <3>1. Cardinality(InSource(S \cup {pick}, b)) <= Cardinality(InSource(S, b)) + 1
      BY <1>4, InSourceGrows
    <3>2. IsFiniteSet(S \cup {pick})
      BY <1>4, FS_AddElement
    <3>3. IsFiniteSet(InSource(S \cup {pick}, b))
      BY <3>2, FS_Subset DEF InSource
    <3>4. Cardinality(InSource(S \cup {pick}, b)) \in Nat
      BY <3>3, FS_CardinalityType
    <3> QED BY <1>1, <1>4, <3>1, <3>4
  <2>6. Kept(t, ToSet(ranked), cap + 1)
    BY <1>1, <1>2, <2>2, <2>4, <2>5 DEF Kept
  <2>7. Heard(ToSet(t.selected), m)
    BY <2>2, <2>4 DEF Heard
  <2> QED BY <2>4, <2>6, <2>7 DEF S, t
<1> QED BY <1>6, <1>7, <1>8, <1>9

LEMMA Considered ==
    ASSUME scenario \in Scenarios, Ranking(ranked),
           NEW c, c = CHOOSE g : g = [n \in 0..Len(ranked) |->
                        IF n = 0 THEN NoSelection ELSE Consider(g[n - 1], ranked[n])]
    PROVE  Kept(c[Len(ranked)], ToSet(ranked), MaxPerSource)
<1> DEFINE N == Len(ranked)
           D == Selection
           G == [n \in 1..N |-> [s \in D |-> Consider(s, ranked[n])]]
           Step(g, n) == IF n = 0 THEN NoSelection ELSE Consider(g[n - 1], ranked[n])
           head(n) == {ranked[i] : i \in 1..n}
<1>1. /\ N \in Nat /\ ranked \in [1..N -> scenario.scope]
      /\ DOMAIN ranked = 1..N /\ IsInjective(ranked)
  BY LenProperties DEF Ranking
<1>2. NoSelection \in D
  BY DEF NoSelection, Selection
<1>3. c = CHOOSE g : g = [n \in 0..N |-> Step(g, n)]
  OBVIOUS
<1> HIDE DEF N
<1>4. G \in [1..N -> [D -> D]]
  <2>1. \A n \in 1..N : \A s \in D : Consider(s, ranked[n]) \in D
    BY <1>1, ConsiderTyped
  <2> HIDE DEF D
  <2> QED BY <2>1
<1>5. \A n \in 1..N : \A s \in D : G[n][s] = Consider(s, ranked[n])
  OBVIOUS
<1> HIDE DEF D, G
<1>6. PICK f : Iterates(f, D, NoSelection, N, G)
  BY <1>1, <1>2, <1>4, Iteration, Zenon
<1>7. ASSUME NEW n \in 0..N PROVE f[n] = Step(f, n)
  <2>1. CASE n = 0
    BY <1>6, <2>1 DEF Iterates
  <2>2. CASE n # 0
    <3>1. n \in 1..N /\ n - 1 \in 0..N
      BY <1>1, <2>2
    <3>2. f[n - 1] \in D /\ f[n] = G[n][f[n - 1]]
      BY <1>6, <2>2, <3>1 DEF Iterates
    <3> QED BY <1>5, <2>2, <3>1, <3>2
  <2> QED BY <2>1, <2>2
<1> HIDE DEF Step
<1>8. f = [n \in 0..N |-> Step(f, n)]
  BY <1>6, <1>7 DEF Iterates
<1>9. c = [n \in 0..N |-> Step(c, n)]
  BY <1>3, <1>8
<1>10. \A n \in 0..N : c[n] = Step(c, n)
  BY <1>9
<1> DEFINE T == {n \in Nat : n <= N => Kept(c[n], head(n), MaxPerSource)}
<1>11. 0 \in T
  <2>1. 0 \in 0..N
    BY <1>1
  <2>2. c[0] = NoSelection
    BY <1>10, <2>1 DEF Step
  <2>3. /\ NoSelection \in Selection /\ NoSelection.selected = <<>>
        /\ IsInjective(<<>>) /\ ToSet(<<>>) = {}
    BY <1>2 DEF NoSelection, D, IsInjective, ToSet
  <2>4. \A b : Cardinality(InSource({}, b)) = 0
    <3>1. \A b : InSource({}, b) = {}
      BY DEF InSource
    <3> QED BY <3>1, FS_EmptySet
  <2>5. MaxPerSource \in Nat
    BY PolicyAssumption
  <2>6. Kept(NoSelection, head(0), MaxPerSource)
    <3> HIDE DEF head
    <3>1. ToSet(NoSelection.selected) = {} /\ IsInjective(NoSelection.selected)
      BY <2>3
    <3>2. ToSet(NoSelection.selected) \subseteq head(0)
      BY <3>1
    <3>3. \A b : Cardinality(InSource(ToSet(NoSelection.selected), b)) <= MaxPerSource
      BY <2>4, <2>5, <3>1
    <3> QED BY <2>3, <3>1, <3>2, <3>3 DEF Kept
  <2> HIDE DEF head
  <2> QED BY <2>2, <2>6
<1>12. ASSUME NEW n \in Nat, n \in T PROVE n + 1 \in T
  <2> SUFFICES ASSUME n + 1 <= N PROVE Kept(c[n + 1], head(n + 1), MaxPerSource)
    OBVIOUS
  <2>1. n + 1 \in 1..N /\ n + 1 \in 0..N /\ (n + 1) - 1 = n /\ n + 1 # 0
    BY <1>1
  <2>2. Kept(c[n], head(n), MaxPerSource)
    BY <1>1, <1>12
  <2>3. c[n + 1] = Consider(c[n], ranked[n + 1])
    BY <1>10, <2>1 DEF Step
  <2>4. \A i \in 1..n : i \in 1..N /\ i # n + 1
    BY <1>1, <2>1
  <2>5. /\ ranked[n + 1] \in scenario.scope
        /\ head(n) \in SUBSET scenario.scope
    BY <1>1, <2>1, <2>4
  <2>6. ranked[n + 1] \notin head(n)
    BY <1>1, <2>1, <2>4 DEF IsInjective
  <2>7. head(n + 1) = head(n) \cup {ranked[n + 1]}
    <3>1. \A i \in 1..(n + 1) : i \in 1..n \/ i = n + 1
      OBVIOUS
    <3>2. \A i \in 1..n : i \in 1..(n + 1)
      OBVIOUS
    <3>3. n + 1 \in 1..(n + 1)
      OBVIOUS
    <3> QED BY <3>1, <3>2, <3>3
  <2> HIDE DEF head
  <2> QED BY <2>2, <2>3, <2>5, <2>6, <2>7, ConsiderKeeps
<1>13. Nat \subseteq T
  <2> HIDE DEF T
  <2> QED BY <1>11, <1>12, SetInduction
<1>14. head(N) = ToSet(ranked)
  BY <1>1 DEF ToSet
<1>15. Kept(c[N], head(N), MaxPerSource)
  <2> HIDE DEF head
  <2> QED BY <1>1, <1>13
<1> HIDE DEF head
<1> QED BY <1>14, <1>15 DEF N

LEMMA Policy ==
    ASSUME scenario \in Scenarios, Ranking(ranked)
    PROVE  LET z == ApplyEvidencePolicy
           IN  /\ Kept(z, ToSet(ranked), MaxPerSource + Len(scenario.requested))
               /\ \A m \in ToSet(scenario.requested) :
                     Heard(ToSet(ranked), m) => Heard(ToSet(z.selected), m)
<1> DEFINE c == CHOOSE g : g = [n \in 0..Len(ranked) |->
                  IF n = 0 THEN NoSelection ELSE Consider(g[n - 1], ranked[n])]
           asked == scenario.requested
           N == Len(asked)
           D == Selection
           first == c[Len(ranked)]
           G == [n \in 1..N |-> [s \in D |-> Represent(s, asked[n])]]
           Step(g, n) == IF n = 0 THEN first ELSE Represent(g[n - 1], asked[n])
           r == CHOOSE g : g = [n \in 0..N |-> Step(g, n)]
           Cap(n) == MaxPerSource + n
           Good(n) == /\ Kept(r[n], ToSet(ranked), Cap(n))
                      /\ \A i \in 1..n : Heard(ToSet(ranked), asked[i]) =>
                                            Heard(ToSet(r[n].selected), asked[i])
<1>1. /\ N \in Nat /\ asked \in [1..N -> STRING] /\ DOMAIN asked = 1..N
  <2>1. asked \in Seq(STRING)
    BY ScenarioAssumption
  <2> HIDE DEF asked
  <2> QED BY <2>1, LenProperties
<1>2. ApplyEvidencePolicy = r[N]
  BY DEF ApplyEvidencePolicy
<1>3. Kept(first, ToSet(ranked), MaxPerSource) /\ MaxPerSource \in Nat
  BY Considered, PolicyAssumption
<1> HIDE DEF c, first, asked, N
<1>4. first \in D
  BY <1>3 DEF Kept
<1>5. G \in [1..N -> [D -> D]]
  <2>1. \A n \in 1..N : \A s \in D : Represent(s, asked[n]) \in D
    BY <1>1, RepresentTyped
  <2> HIDE DEF D
  <2> QED BY <2>1
<1>6. \A n \in 1..N : \A s \in D : G[n][s] = Represent(s, asked[n])
  OBVIOUS
<1> HIDE DEF D, G, r
<1>7. PICK f : Iterates(f, D, first, N, G)
  BY <1>1, <1>4, <1>5, Iteration, Zenon
<1>8. ASSUME NEW n \in 0..N PROVE f[n] = Step(f, n)
  <2>1. CASE n = 0
    BY <1>7, <2>1 DEF Iterates
  <2>2. CASE n # 0
    <3>1. n \in 1..N /\ n - 1 \in 0..N
      BY <1>1, <2>2
    <3>2. f[n - 1] \in D /\ f[n] = G[n][f[n - 1]]
      BY <1>7, <2>2, <3>1 DEF Iterates
    <3> QED BY <1>6, <2>2, <3>1, <3>2
  <2> QED BY <2>1, <2>2
<1> HIDE DEF Step
<1>9. f = [n \in 0..N |-> Step(f, n)]
  BY <1>7, <1>8 DEF Iterates
<1>10. r = [n \in 0..N |-> Step(r, n)]
  BY <1>9 DEF r
<1>11. \A n \in 0..N : r[n] = Step(r, n)
  BY <1>10
<1> DEFINE T == {n \in Nat : n <= N => Good(n)}
<1>12. 0 \in T
  <2>1. 0 \in 0..N
    BY <1>1
  <2>2. r[0] = first /\ Cap(0) = MaxPerSource
    BY <1>3, <1>11, <2>1 DEF Step
  <2> QED BY <1>3, <2>2
<1>13. ASSUME NEW n \in Nat, n \in T PROVE n + 1 \in T
  <2> SUFFICES ASSUME n + 1 <= N PROVE Good(n + 1)
    OBVIOUS
  <2>1. n + 1 \in 1..N /\ n + 1 \in 0..N /\ (n + 1) - 1 = n /\ n + 1 # 0
    BY <1>1
  <2>2. Good(n)
    BY <1>1, <1>13
  <2>3. r[n + 1] = Represent(r[n], asked[n + 1])
    BY <1>11, <2>1 DEF Step
  <2>4. Cap(n) \in Nat /\ Cap(n + 1) = Cap(n) + 1 /\ asked[n + 1] \in STRING
    BY <1>1, <1>3, <2>1
  <2> HIDE DEF Cap
  <2>5. /\ Kept(r[n + 1], ToSet(ranked), Cap(n + 1))
        /\ ToSet(r[n].selected) \subseteq ToSet(r[n + 1].selected)
        /\ Heard(ToSet(ranked), asked[n + 1]) =>
              Heard(ToSet(r[n + 1].selected), asked[n + 1])
    BY <2>2, <2>3, <2>4, RepresentKeeps
  <2>6. \A i \in 1..(n + 1) : i \in 1..n \/ i = n + 1
    OBVIOUS
  <2>7. \A m : Heard(ToSet(r[n].selected), m) => Heard(ToSet(r[n + 1].selected), m)
    BY <2>5 DEF Heard
  <2> QED BY <2>2, <2>5, <2>6, <2>7
<1> HIDE DEF Good
<1>14. Nat \subseteq T
  <2> HIDE DEF T
  <2> QED BY <1>12, <1>13, SetInduction
<1>15. Good(N)
  BY <1>1, <1>14
<1>16. \A m \in ToSet(asked) : \E i \in 1..N : asked[i] = m
  BY <1>1 DEF ToSet
<1> QED BY <1>2, <1>15, <1>16 DEF Good, Cap, N, asked

-----------------------------------------------------------------------------
(* The inductive invariant.                                                 *)

Early == {"retrieving", "fused", "reranked", "ranked", "failed"}
Late == {"assessing", "silent", "building", "built"}

Listed ==
    /\ Outcomes /\ Ranking(ranked)
    /\ phase \in {"fused", "reranked"} => outcomes # <<>>

Chosen ==
    /\ selection.selected \in Seq(scenario.scope) /\ IsInjective(selection.selected)
    /\ Selected \subseteq ToSet(ranked)
    /\ phase \in Early => selection = NoSelection /\ walk = NoWalk

ItemUnits(w) == {w.items[i].unit : i \in DOMAIN w.items}
SkippedUnits(w) == {s.unit : s \in w.skipped}

SkipCodes == {"RELATION_NOT_ELIGIBLE", "SEED_CAP", "GLOBAL_CAP", "CROSS_SCOPE"}

Item == [unit : scenario.scope, relation : Relations, via : Unit, depth : 1..MaxDepth]
Skipped == [unit : Unit, code : SkipCodes]
Node == [id : Unit, via : Unit, depth : 0..MaxDepth]

WalkTyped ==
    walk \in [items : Seq(Item), skipped : SUBSET Skipped, visited : SUBSET Unit,
              frontier : SUBSET Node, next : SUBSET Node, node : SUBSET Node,
              pending : SUBSET scenario.edges]

\* A unit is reached once: as a seed, as an item or as one skipped.
Visited ==
    /\ Selected \cup ItemUnits(walk) \subseteq walk.visited
    /\ walk.visited \subseteq Selected \cup ItemUnits(walk) \cup SkippedUnits(walk)
    /\ ItemUnits(walk) \cap Selected = {}
    /\ Len(walk.items) <= MaxItems

\* What waits to be expanded is a seed, or the unit of an item that hangs on
\* the same seed at the same depth.
Anchored(n) ==
    /\ n.via \in Selected
    /\ \/ n.depth = 0 /\ n.id = n.via
       \/ \E i \in DOMAIN walk.items : /\ walk.items[i].unit = n.id
                                       /\ walk.items[i].via = n.via
                                       /\ walk.items[i].depth = n.depth

Anchors ==
    /\ \A n \in walk.frontier \cup walk.next \cup walk.node : Anchored(n)
    /\ \A n, m \in walk.node : n = m
    /\ \A n \in walk.node : walk.pending # {} =>
          n.depth < MaxDepth /\ walk.pending \subseteq EdgesOf(n.id)

\* The edges of a seed are all still to come, or each has been followed or
\* waits in the current unit.
SeedNode(u) == [id |-> u, via |-> u, depth |-> 0]
Followed ==
    \A u \in Selected :
        \/ phase = "expanding" /\ SeedNode(u) \in walk.frontier
        \/ \A e \in EdgesOf(u) :
              \/ OtherEnd(e, u) \in walk.visited
              \/ phase = "expanding" /\ e \in walk.pending /\ SeedNode(u) \in walk.node

Inv ==
    /\ scenario \in Scenarios
    /\ phase \in Early \cup {"expanding"} \cup Late
    /\ Listed /\ Chosen
    /\ WalkTyped /\ Visited /\ Anchors /\ Followed
    /\ FusedFairly /\ RequestedAreHeard /\ WalkHangsOnSeeds
-----------------------------------------------------------------------------
(* Initial states and the steps outside the walk.                           *)

LEMMA NothingSelected ==
    ASSUME selection = NoSelection, walk = NoWalk, MaxItems \in Nat
    PROVE  /\ Selected = {} /\ selection.selected = <<>>
           /\ WalkTyped /\ Visited /\ Anchors /\ Followed /\ WalkHangsOnSeeds
<1>1. selection.selected = <<>> /\ Selected = {}
  BY DEF NoSelection, Selected, ToSet
<1>2. /\ walk.items = <<>> /\ walk.skipped = {} /\ walk.visited = {}
      /\ walk.frontier = {} /\ walk.next = {} /\ walk.node = {} /\ walk.pending = {}
  BY DEF NoWalk
<1>3. ToSet(walk.items) = {} /\ ItemUnits(walk) = {} /\ Len(walk.items) = 0
  BY <1>2 DEF ToSet, ItemUnits
<1>4. WalkTyped
  BY DEF WalkTyped, NoWalk, Item
<1>5. Visited
  BY <1>1, <1>2, <1>3 DEF Visited
<1>6. Anchors
  BY <1>2 DEF Anchors
<1>7. Followed
  BY <1>1 DEF Followed
<1>8. WalkHangsOnSeeds
  BY <1>1, <1>3 DEF WalkHangsOnSeeds
<1> QED BY <1>1, <1>4, <1>5, <1>6, <1>7, <1>8

LEMMA InitInv == Init => Inv
<1> SUFFICES ASSUME Init PROVE Inv
  OBVIOUS
<1> USE DEF Init
<1>1. MaxItems \in Nat /\ FusionTopK \in Nat
  BY PolicyAssumption
<1>2. Ranking(<<>>)
  BY <1>1 DEF Ranking, IsInjective
<1>3. Listed
  BY <1>2 DEF Listed, Outcomes
<1>4. /\ Selected = {} /\ selection.selected = <<>>
      /\ WalkTyped /\ Visited /\ Anchors /\ Followed /\ WalkHangsOnSeeds
  BY <1>1, NothingSelected
<1>5. Chosen
  BY <1>4 DEF Chosen, IsInjective
<1>6. FusedFairly /\ RequestedAreHeard
  BY DEF FusedFairly, RequestedAreHeard
<1> QED BY <1>3, <1>4, <1>5, <1>6 DEF Inv, Early

\* A step that leaves the selection and the walk alone, before the one or
\* after the other.
LEMMA WalkAlone ==
    ASSUME Inv, UNCHANGED <<scenario, selection, walk>>,
           \/ phase \in Early /\ phase' \in Early
           \/ phase \in Late /\ phase' \in Late
    PROVE  WalkTyped' /\ Visited' /\ Anchors' /\ Followed' /\ WalkHangsOnSeeds'
<1>1. WalkTyped'
  BY DEF Inv, WalkTyped, Item
<1>2. Selected' = Selected
  BY DEF Selected
<1>3. Visited'
  BY <1>2 DEF Inv, Visited, ItemUnits, SkippedUnits
<1>4. Anchors'
  BY <1>2 DEF Inv, Anchors, Anchored, EdgesOf
<1>5. Followed'
  <2>1. CASE phase \in Late
    <3>1. phase # "expanding"
      BY <2>1 DEF Late
    <3> QED BY <1>2, <3>1 DEF Inv, Followed, EdgesOf, OtherEnd
  <2>2. CASE phase \in Early
    <3>1. Selected = {}
      BY <2>2 DEF Inv, Chosen, NoSelection, Selected, ToSet
    <3> QED BY <1>2, <3>1 DEF Followed
  <2> QED BY <2>1, <2>2
<1>6. WalkHangsOnSeeds'
  BY <1>2 DEF Inv, WalkHangsOnSeeds, PerSeed
<1> QED BY <1>1, <1>3, <1>4, <1>5, <1>6

LEMMA RunQueryKeeps ==
    ASSUME Inv, RunQuery
    PROVE  Inv'
<1>1. PICK i \in ExactResults, q \in ExactResults, l \in OtherResults, v \in OtherResults :
         /\ lanes' = [exact_identifier |-> i, exact_quote |-> q,
                      lexical |-> l, vector |-> v]
         /\ outcomes' = Append(outcomes,
                [fused |-> FuseLaneResults(lanes'), exact |-> UnitsOf(i) \cup UnitsOf(q)])
  BY DEF RunQuery
<1>2. /\ phase = "retrieving" /\ phase' = "fused"
      /\ UNCHANGED <<scenario, ranked, selection, walk, decision, context>>
  BY DEF RunQuery
<1>3. scenario \in Scenarios /\ Outcomes
  BY DEF Inv, Listed
<1> DEFINE results == lanes'
           U == UnitsOf(i) \cup UnitsOf(q)
           f == FuseLaneResults(results)
           o == [fused |-> f, exact |-> U]
<1>4. /\ results["exact_identifier"] = i /\ results["exact_quote"] = q
      /\ results["lexical"] = l /\ results["vector"] = v
  BY <1>1
<1> HIDE DEF results
<1>5. Ranking(f) /\ U \in SUBSET scenario.scope /\ Fair(f, results, U)
  <2>1. U = UnitsOf(results["exact_identifier"]) \cup UnitsOf(results["exact_quote"])
    BY <1>4
  <2>2. /\ results["exact_identifier"] \in ExactResults
        /\ results["exact_quote"] \in ExactResults
        /\ results["lexical"] \in OtherResults /\ results["vector"] \in OtherResults
    BY <1>4
  <2> HIDE DEF U
  <2> QED BY <1>3, <2>1, <2>2, Fusion, Zenon
<1>6. outcomes' = Append(outcomes, o)
  BY <1>1 DEF results
<1> HIDE DEF f, U
<1>7. o \in [fused : Seq(scenario.scope), exact : SUBSET scenario.scope]
  BY <1>5 DEF Ranking
<1>8. /\ o.fused = f /\ o.exact = U
  OBVIOUS
<1> HIDE DEF o
<1> DEFINE D == [fused : Seq(scenario.scope), exact : SUBSET scenario.scope]
           n == Len(outcomes)
<1>9. outcomes \in Seq(D) /\ o \in D
  BY <1>3, <1>7 DEF Outcomes
<1> HIDE DEF D
<1>10. /\ outcomes' \in Seq(D) /\ DOMAIN outcomes' = 1..(n + 1)
       /\ DOMAIN outcomes = 1..n /\ n \in Nat
       /\ \A k \in 1..n : outcomes'[k] = outcomes[k]
       /\ outcomes'[n + 1] = o
  BY <1>6, <1>9, Appended
<1>11. Outcomes'
  <2>1. ASSUME NEW k \in 1..(n + 1) PROVE Ranking(outcomes'[k].fused)
    <3>1. k \in 1..n \/ k = n + 1
      BY <1>10
    <3> QED BY <1>3, <1>5, <1>8, <1>10, <3>1 DEF Outcomes
  <2> QED BY <1>2, <1>10, <2>1 DEF Outcomes, D, Ranking
<1>12. Last(outcomes') = o /\ outcomes' # <<>>
  <2>1. Len(outcomes') = n + 1
    BY <1>10, LenProperties
  <2>2. Last(outcomes') = outcomes'[Len(outcomes')]
    BY DEF Last
  <2> QED BY <1>6, <1>9, <1>10, <2>1, <2>2, AppendProperties
<1>13. Listed'
  BY <1>2, <1>11, <1>12 DEF Listed, Inv, Ranking
<1>14. Chosen'
  BY <1>2 DEF Chosen, Inv, Early, Selected
<1>15. FusedFairly'
  <2> SUFFICES ASSUME NEW u \in scenario.scope, NEW w \in ToSet(o.fused) \ o.exact,
                      u \in o.exact \/ Ahead(results, u, w)
               PROVE  \E x, y \in DOMAIN o.fused :
                         x < y /\ o.fused[x] = u /\ o.fused[y] = w
    BY <1>2, <1>12 DEF FusedFairly, Ahead, results
  <2> QED BY <1>5, <1>8 DEF Fair
<1>16. RequestedAreHeard'
  BY <1>2 DEF RequestedAreHeard
<1>17. WalkTyped' /\ Visited' /\ Anchors' /\ Followed' /\ WalkHangsOnSeeds'
  BY <1>2, WalkAlone DEF Early
<1> QED BY <1>2, <1>13, <1>14, <1>15, <1>16, <1>17 DEF Inv, Early

LEMMA FailRetrievalKeeps ==
    ASSUME Inv, FailRetrieval
    PROVE  Inv'
<1>1. /\ phase = "retrieving" /\ phase' = "failed"
      /\ UNCHANGED <<scenario, lanes, outcomes, ranked, selection, walk,
                     decision, context>>
  BY DEF FailRetrieval
<1>2. WalkTyped' /\ Visited' /\ Anchors' /\ Followed' /\ WalkHangsOnSeeds'
  BY <1>1, WalkAlone DEF Early
<1>3. Listed' /\ Chosen'
  BY <1>1 DEF Inv, Listed, Outcomes, Ranking, Chosen, Early, Selected
<1>4. FusedFairly' /\ RequestedAreHeard'
  BY <1>1 DEF FusedFairly, RequestedAreHeard
<1> QED BY <1>1, <1>2, <1>3, <1>4 DEF Inv, Early

LEMMA RerankQueryKeeps ==
    ASSUME Inv, RerankQuery
    PROVE  Inv'
<1>1. PICK r \in Reranked(Last(outcomes).fused) :
         outcomes' = [outcomes EXCEPT ![Len(outcomes)].fused = r]
  BY DEF RerankQuery
<1>2. /\ phase = "fused" /\ phase' \in {"retrieving", "reranked"}
      /\ UNCHANGED <<scenario, ranked, selection, walk, decision, context>>
  BY DEF RerankQuery
<1> DEFINE D == [fused : Seq(scenario.scope), exact : SUBSET scenario.scope]
           n == Len(outcomes)
<1>3. /\ outcomes \in Seq(D) /\ outcomes # <<>> /\ scenario \in Scenarios
      /\ \A k \in DOMAIN outcomes : Ranking(outcomes[k].fused)
  BY <1>2 DEF Inv, Listed, Outcomes
<1>4. /\ n \in Nat /\ n # 0 /\ outcomes \in [1..n -> D] /\ DOMAIN outcomes = 1..n
  <2> HIDE DEF D
  <2> QED BY <1>3, LenProperties, EmptySeq
<1>5. Ranking(r)
  <2>1. Ranking(Last(outcomes).fused)
    BY <1>3, <1>4 DEF Last
  <2> QED BY <1>1, <2>1, Reranking
<1>6. r \in Seq(scenario.scope)
  BY <1>5 DEF Ranking
<1> HIDE DEF n
<1>7. /\ outcomes' \in [1..n -> D] /\ DOMAIN outcomes' = 1..n
      /\ outcomes'[n].fused = r
      /\ \A k \in 1..n : k # n => outcomes'[k] = outcomes[k]
  <2>1. outcomes' = [outcomes EXCEPT ![n] = [outcomes[n] EXCEPT !.fused = r]]
    BY <1>1 DEF n
  <2>2. outcomes[n] \in D /\ n \in 1..n
    BY <1>4
  <2>3. /\ [outcomes[n] EXCEPT !.fused = r] \in D
        /\ [outcomes[n] EXCEPT !.fused = r].fused = r
    BY <1>6, <2>2
  <2> DEFINE o == [outcomes[n] EXCEPT !.fused = r]
  <2> HIDE DEF o, D
  <2>4. o \in D /\ o.fused = r /\ outcomes' = [outcomes EXCEPT ![n] = o]
    BY <2>1, <2>3 DEF o
  <2> QED BY <1>4, <2>2, <2>4
<1>8. outcomes' \in Seq(D) /\ outcomes' # <<>>
  <2> HIDE DEF D
  <2> QED BY <1>4, <1>7
<1>9. Outcomes'
  <2>1. \A k \in 1..n : Ranking(outcomes'[k].fused)
    BY <1>3, <1>4, <1>5, <1>7
  <2> QED BY <1>2, <1>7, <1>8, <2>1 DEF Outcomes, Ranking
<1>10. Listed'
  BY <1>2, <1>8, <1>9 DEF Listed, Inv, Ranking
<1>11. WalkTyped' /\ Visited' /\ Anchors' /\ Followed' /\ WalkHangsOnSeeds'
  BY <1>2, WalkAlone DEF Early
<1>12. Chosen'
  BY <1>2 DEF Inv, Chosen, Early, Selected
<1>13. FusedFairly' /\ RequestedAreHeard'
  BY <1>2 DEF FusedFairly, RequestedAreHeard
<1> QED BY <1>2, <1>10, <1>11, <1>12, <1>13 DEF Inv, Early

LEMMA RankKeeps ==
    ASSUME Inv, Rank
    PROVE  Inv'
<1>1. /\ phase = "reranked" /\ phase' = "ranked"
      /\ outcomes' = <<[fused |-> <<>>, exact |-> outcomes[1].exact]>>
      /\ UNCHANGED <<scenario, lanes, selection, walk, decision, context>>
      /\ ranked' = outcomes[1].fused \/ ranked' \in Reranked(MergeQueries)
  BY DEF Rank
<1>2. /\ Outcomes /\ outcomes # <<>> /\ scenario \in Scenarios
  BY <1>1 DEF Inv, Listed
<1>3. 1 \in DOMAIN outcomes
  <2> DEFINE D == [fused : Seq(scenario.scope), exact : SUBSET scenario.scope]
  <2>1. outcomes \in Seq(D)
    BY <1>2 DEF Outcomes
  <2> HIDE DEF D
  <2> QED BY <1>2, <2>1, LenProperties, EmptySeq
<1>4. Ranking(ranked')
  <2>1. Ranking(outcomes[1].fused)
    BY <1>2, <1>3 DEF Outcomes
  <2>2. Ranking(MergeQueries)
    BY <1>2, Merging
  <2> QED BY <1>1, <2>1, <2>2, Reranking
<1>5. outcomes[1].exact \in SUBSET scenario.scope
  <2> DEFINE D == [fused : Seq(scenario.scope), exact : SUBSET scenario.scope]
  <2>1. outcomes \in Seq(D)
    BY <1>2 DEF Outcomes
  <2>2. outcomes[1] \in D
    <3> HIDE DEF D
    <3> QED BY <1>3, <2>1, LenProperties, ElementOfSeq
  <2> QED BY <2>2
<1>6. Outcomes'
  <2> DEFINE D == [fused : Seq(scenario.scope), exact : SUBSET scenario.scope]
             o == [fused |-> <<>>, exact |-> outcomes[1].exact]
  <2>1. o \in D /\ o.fused = <<>>
    BY <1>5
  <2>2. outcomes' = <<o>>
    BY <1>1
  <2> HIDE DEF o
  <2>3. outcomes' \in Seq(D) /\ DOMAIN outcomes' = {1} /\ outcomes'[1] = o
    <3> HIDE DEF D
    <3> QED BY <2>1, <2>2
  <2>4. Ranking(<<>>)
    BY Bounds DEF Ranking, IsInjective
  <2> QED BY <1>1, <2>1, <2>3, <2>4 DEF Outcomes, Ranking
<1>7. Listed'
  BY <1>1, <1>4, <1>6 DEF Listed, Ranking
<1>8. Selected = {}
  BY <1>1 DEF Inv, Chosen, NoSelection, Selected, Early, ToSet
<1>9. Chosen'
  BY <1>1, <1>8 DEF Inv, Chosen, Early, Selected
<1>10. WalkTyped' /\ Visited' /\ Anchors' /\ Followed' /\ WalkHangsOnSeeds'
  BY <1>1, WalkAlone DEF Early
<1>11. FusedFairly' /\ RequestedAreHeard'
  BY <1>1 DEF FusedFairly, RequestedAreHeard
<1> QED BY <1>1, <1>2, <1>7, <1>9, <1>10, <1>11 DEF Inv, Early

LEMMA SelectEvidenceKeeps ==
    ASSUME Inv, SelectEvidence
    PROVE  Inv'
<1> DEFINE z == ApplyEvidencePolicy
           asked == scenario.requested
           seeds == ToSet(z.selected)
           nodes == {[id |-> u, via |-> u, depth |-> 0] : u \in seeds}
<1>1. /\ phase = "ranked" /\ phase' = "expanding" /\ selection' = z
      /\ UNCHANGED <<scenario, lanes, outcomes, ranked, decision, context>>
      /\ walk' = [NoWalk EXCEPT !.visited = ToSet(selection'.selected),
                    !.frontier = {[id |-> u, via |-> u, depth |-> 0] :
                                    u \in ToSet(selection'.selected)}]
  BY DEF SelectEvidence
<1>2. walk' = [NoWalk EXCEPT !.visited = seeds, !.frontier = nodes]
  BY <1>1
<1>3. scenario \in Scenarios /\ Ranking(ranked) /\ Listed
  BY DEF Inv, Listed
<1>4. /\ Kept(z, ToSet(ranked), MaxPerSource + Len(asked))
      /\ \A m \in ToSet(asked) : Heard(ToSet(ranked), m) => Heard(seeds, m)
  BY <1>3, Policy
<1> HIDE DEF z
<1>5. /\ z.selected \in Seq(scenario.scope) /\ IsInjective(z.selected)
      /\ seeds \subseteq ToSet(ranked)
      /\ \A b : Cardinality(InSource(seeds, b)) <= MaxPerSource + Len(asked)
  BY <1>4 DEF Kept, Selection
<1>6. seeds \subseteq scenario.scope /\ scenario.scope \subseteq Unit
  BY <1>3, <1>5, Places, Scope
<1>7. Selected' = seeds
  BY <1>1 DEF Selected
<1>8. /\ walk'.items = <<>> /\ walk'.skipped = {} /\ walk'.visited = seeds
      /\ walk'.frontier = nodes /\ walk'.next = {} /\ walk'.node = {}
      /\ walk'.pending = {}
      /\ walk' = [items |-> walk'.items, skipped |-> walk'.skipped,
                  visited |-> walk'.visited, frontier |-> walk'.frontier,
                  next |-> walk'.next, node |-> walk'.node, pending |-> walk'.pending]
  <2> HIDE DEF nodes, seeds
  <2> QED BY <1>2 DEF NoWalk
<1> HIDE DEF seeds
<1>9. ToSet(walk'.items) = {} /\ ItemUnits(walk') = {} /\ Len(walk'.items) = 0
  BY <1>8 DEF ToSet, ItemUnits
<1>10. MaxDepth \in Nat /\ MaxItems \in Nat /\ MaxPerSource \in Nat
  BY PolicyAssumption
<1>11. Listed'
  BY <1>1, <1>3 DEF Listed, Outcomes, Ranking
<1>12. Chosen'
  BY <1>1, <1>5, <1>7 DEF Chosen, Early
<1>13. WalkTyped'
  <2>1. nodes \subseteq Node
    BY <1>6, <1>10 DEF Node
  <2> DEFINE I == Item
  <2>2. walk'.items \in Seq(I)
    <3> HIDE DEF I
    <3> QED BY <1>8
  <2>3. seeds \subseteq Unit
    BY <1>6
  <2> HIDE DEF nodes, I
  <2>4. walk' \in [items : Seq(I), skipped : SUBSET Skipped, visited : SUBSET Unit,
                    frontier : SUBSET Node, next : SUBSET Node, node : SUBSET Node,
                    pending : SUBSET scenario.edges]
    BY <1>8, <2>1, <2>2, <2>3
  <2> QED BY <1>1, <2>4 DEF WalkTyped, Item, I
<1>14. Visited'
  BY <1>7, <1>8, <1>9, <1>10 DEF Visited
<1>15. Anchors'
  <2>1. \A n \in nodes : n.via \in seeds /\ n.depth = 0 /\ n.id = n.via
    OBVIOUS
  <2> HIDE DEF nodes
  <2> QED BY <1>7, <1>8, <2>1 DEF Anchors, Anchored
<1>16. Followed'
  <2>1. \A u \in seeds : SeedNode(u) \in nodes
    BY DEF SeedNode
  <2> HIDE DEF nodes
  <2> QED BY <1>1, <1>7, <1>8, <2>1 DEF Followed
<1>17. FusedFairly'
  BY <1>1 DEF FusedFairly
<1>18. RequestedAreHeard'
  <2>1. ASSUME NEW m \in ToSet(asked)
        PROVE  m \in Represented' <=> OfMadhhab(ToSet(ranked), m) # {}
    <3>1. Represented' = UNION {scenario.madhhab[u] : u \in seeds}
      BY <1>1, <1>7 DEF Represented
    <3>2. m \in Represented' <=> Heard(seeds, m)
      BY <3>1 DEF Heard
    <3>3. OfMadhhab(ToSet(ranked), m) # {} <=> Heard(ToSet(ranked), m)
      BY DEF OfMadhhab, Heard
    <3>4. Heard(seeds, m) => Heard(ToSet(ranked), m)
      BY <1>5 DEF Heard
    <3> QED BY <1>4, <3>2, <3>3, <3>4
  <2>2. \A b : Cardinality(InSource(seeds, b)) <= MaxPerSource + Len(asked)
    BY <1>5
  <2>3. asked = <<>> => \A b : Cardinality(InSource(seeds, b)) <= MaxPerSource
    <3>1. asked = <<>> => MaxPerSource + Len(asked) = MaxPerSource
      BY <1>10
    <3> HIDE DEF asked
    <3> QED BY <2>2, <3>1
  <2> QED BY <1>1, <1>7, <2>1, <2>2, <2>3 DEF RequestedAreHeard, OfMadhhab, InSource, Sources
<1>19. WalkHangsOnSeeds'
  <2>1. \A s : PerSeed(walk', s) = 0
    <3>1. \A s : {i \in DOMAIN walk'.items : walk'.items[i].via = s} = {}
      BY <1>8
    <3> QED BY <3>1, FS_EmptySet DEF PerSeed
  <2>2. MaxPerSeed \in Nat
    BY PolicyAssumption
  <2> QED BY <1>9, <2>1, <2>2 DEF WalkHangsOnSeeds
<1> QED BY <1>1, <1>3, <1>11, <1>12, <1>13, <1>14, <1>15, <1>16, <1>17, <1>18, <1>19 DEF Inv

LEMMA DecideKeeps ==
    ASSUME Inv, Decide \/ BuildContext
    PROVE  Inv'
<1>1. /\ UNCHANGED <<scenario, lanes, outcomes, ranked, selection, walk>>
      /\ phase \in {"assessing", "building"} /\ phase' \in {"building", "silent", "built"}
  BY DEF Decide, BuildContext
<1>2. WalkTyped' /\ Visited' /\ Anchors' /\ Followed' /\ WalkHangsOnSeeds'
  BY <1>1, WalkAlone DEF Late
<1>3. Selected' = Selected
  BY <1>1 DEF Selected
<1>4. Listed' /\ Chosen'
  BY <1>1, <1>3 DEF Inv, Listed, Outcomes, Ranking, Chosen, Early
<1>5. FusedFairly'
  BY <1>1 DEF FusedFairly
<1>6. RequestedAreHeard'
  <2>1. Represented' = Represented /\ Sources' = Sources
    BY <1>1, <1>3 DEF Represented, Sources
  <2>2. RequestedAreHeard
    BY DEF Inv
  <2> QED BY <1>1, <1>3, <2>1, <2>2 DEF RequestedAreHeard, OfMadhhab, InSource
<1> QED BY <1>1, <1>2, <1>4, <1>5, <1>6 DEF Inv, Late

-----------------------------------------------------------------------------
(* The walk.                                                                *)

LEMMA Fields ==
    ASSUME Inv
    PROVE  /\ walk.items \in Seq(Item) /\ walk.skipped \in SUBSET Skipped
           /\ walk.visited \in SUBSET Unit
           /\ walk.frontier \in SUBSET Node /\ walk.next \in SUBSET Node
           /\ walk.node \in SUBSET Node /\ walk.pending \in SUBSET scenario.edges
           /\ DOMAIN walk.items = 1..Len(walk.items) /\ Len(walk.items) \in Nat
           /\ scenario \in Scenarios
           /\ scenario.edges \subseteq [from : Unit, to : Unit, kind : STRING]
           /\ scenario.scope \subseteq Unit /\ Unit \subseteq Nat
<1>1. /\ walk.items \in Seq(Item) /\ walk.skipped \in SUBSET Skipped
      /\ walk.visited \in SUBSET Unit
      /\ walk.frontier \in SUBSET Node /\ walk.next \in SUBSET Node
      /\ walk.node \in SUBSET Node /\ walk.pending \in SUBSET scenario.edges
  <2> DEFINE I == Seq(Item)
             S == SUBSET Skipped
             N == SUBSET Node
  <2>1. walk \in [items : I, skipped : S, visited : SUBSET Unit,
                  frontier : N, next : N, node : N, pending : SUBSET scenario.edges]
    BY DEF Inv, WalkTyped
  <2> HIDE DEF I, S, N
  <2>2. /\ walk.items \in I /\ walk.skipped \in S
        /\ walk.visited \in SUBSET Unit
        /\ walk.frontier \in N /\ walk.next \in N
        /\ walk.node \in N /\ walk.pending \in SUBSET scenario.edges
    BY <2>1
  <2> QED BY <2>2 DEF I, S, N
<1>2. scenario \in Scenarios
  BY DEF Inv
<1> QED BY <1>1, <1>2, LenProperties, PolicyAssumption, ScenarioAssumption

\* A step of the walk keeps what is listed and chosen.
LEMMA WalkStep ==
    ASSUME Inv, phase = "expanding", phase' \in {"expanding", "assessing"},
           UNCHANGED <<scenario, outcomes, ranked, selection>>,
           WalkTyped', Visited', Anchors', Followed', WalkHangsOnSeeds'
    PROVE  Inv'
<1>1. Selected' = Selected
  BY DEF Selected
<1>2. Listed' /\ Chosen'
  BY <1>1 DEF Inv, Listed, Outcomes, Ranking, Chosen, Early
<1>3. FusedFairly'
  BY DEF FusedFairly
<1>4. RequestedAreHeard'
  <2>1. Represented' = Represented /\ Sources' = Sources
    BY <1>1 DEF Represented, Sources
  <2>2. RequestedAreHeard
    BY DEF Inv
  <2> QED BY <1>1, <2>1, <2>2 DEF RequestedAreHeard, OfMadhhab, InSource
<1> QED BY <1>2, <1>3, <1>4 DEF Inv, Late

LEMMA ItemsAlone ==
    ASSUME WalkHangsOnSeeds, UNCHANGED <<scenario, selection>>,
           walk'.items = walk.items
    PROVE  WalkHangsOnSeeds'
<1>1. Selected' = Selected
  BY DEF Selected
<1>2. \A s : PerSeed(walk', s) = PerSeed(walk, s)
  BY DEF PerSeed
<1>3. \A s : PerSeed(walk, s)' = PerSeed(walk', s)
  BY DEF PerSeed
<1>4. /\ \A s \in Selected' : PerSeed(walk, s)' <= MaxPerSeed
      /\ ToSet(walk.items)' = ToSet(walk.items)
  BY <1>1, <1>2, <1>3 DEF WalkHangsOnSeeds
<1> QED BY <1>1, <1>4 DEF WalkHangsOnSeeds

LEMMA VisitNodeKeeps ==
    ASSUME Inv, VisitNode
    PROVE  Inv'
<1> DEFINE node == CHOOSE n \in walk.frontier : \A m \in walk.frontier : n.id <= m.id
           p == IF node.depth >= MaxDepth THEN {} ELSE EdgesOf(node.id)
<1>1. /\ phase = "expanding" /\ walk.pending = {} /\ walk.frontier # {}
      /\ walk' = [walk EXCEPT !.frontier = @ \ {node}, !.node = {node}, !.pending = p]
      /\ UNCHANGED <<scenario, phase, lanes, outcomes, ranked, selection, decision, context>>
  BY DEF VisitNode
<1>2. node \in walk.frontier
  <2> DEFINE ids == {n.id : n \in walk.frontier}
  <2>1. ids \in SUBSET Nat /\ ids # {}
    BY <1>1, Fields DEF Node
  <2>2. \E x \in ids : \A y \in ids : x <= y
    <3> HIDE DEF ids
    <3> QED BY <2>1, LeastNumber
  <2>3. \E n \in walk.frontier : \A m \in walk.frontier : n.id <= m.id
    BY <2>2
  <2> QED BY <2>3
<1> HIDE DEF node
<1>3. /\ node \in Node /\ node.id \in Unit /\ node.depth \in 0..MaxDepth
      /\ MaxDepth \in Nat /\ 0 < MaxDepth
  BY <1>2, Fields, PolicyAssumption DEF Node
<1>4. p \subseteq scenario.edges
  BY DEF EdgesOf
<1> HIDE DEF p
<1>5. WalkTyped /\ Visited /\ Anchors /\ Followed /\ WalkHangsOnSeeds
  BY DEF Inv
<1>6. /\ walk'.items = walk.items /\ walk'.skipped = walk.skipped
      /\ walk'.visited = walk.visited /\ walk'.frontier = walk.frontier \ {node}
      /\ walk'.next = walk.next /\ walk'.node = {node} /\ walk'.pending = p
  BY <1>1, <1>5 DEF WalkTyped
<1>7. WalkTyped'
  <2> DEFINE I == Seq(Item)
  <2>1. walk' \in [items : I, skipped : SUBSET Skipped, visited : SUBSET Unit,
                   frontier : SUBSET Node, next : SUBSET Node, node : SUBSET Node,
                   pending : SUBSET scenario.edges]
    <3>1. walk \in [items : I, skipped : SUBSET Skipped, visited : SUBSET Unit,
                    frontier : SUBSET Node, next : SUBSET Node, node : SUBSET Node,
                    pending : SUBSET scenario.edges]
      BY <1>5 DEF WalkTyped
    <3> HIDE DEF I
    <3> QED BY <1>1, <1>3, <1>4, <3>1
  <2> QED BY <1>1, <2>1 DEF WalkTyped, Item
<1>8. Selected' = Selected
  BY <1>1 DEF Selected
<1>9. Visited'
  BY <1>5, <1>6, <1>8 DEF Visited, ItemUnits, SkippedUnits
<1>10. Anchors'
  <2>1. \A n \in walk.frontier \cup walk.next : Anchored(n)
    BY <1>5 DEF Anchors
  <2>2. \A n : Anchored(n)' <=> Anchored(n)
    BY <1>6, <1>8 DEF Anchored
  <2>3. p # {} => node.depth < MaxDepth /\ p \subseteq EdgesOf(node.id)
    BY <1>3 DEF p
  <2> HIDE DEF Anchored
  <2>4. /\ \A n \in walk'.frontier \cup walk'.next \cup walk'.node : Anchored(n)'
        /\ \A n, m \in walk'.node : n = m
    BY <1>2, <1>6, <2>1, <2>2
  <2>5. \A n \in walk'.node : walk'.pending # {} =>
            n.depth < MaxDepth /\ walk'.pending \subseteq EdgesOf(n.id)
    BY <1>6, <2>3
  <2> QED BY <1>1, <2>4, <2>5 DEF Anchors, Anchored, EdgesOf
<1>11. Followed'
  <2> SUFFICES ASSUME NEW u \in Selected
               PROVE  \/ SeedNode(u) \in walk'.frontier
                      \/ \A e \in EdgesOf(u) :
                            \/ OtherEnd(e, u) \in walk'.visited
                            \/ e \in walk'.pending /\ SeedNode(u) \in walk'.node
    BY <1>1, <1>8 DEF Followed, EdgesOf
  <2>1. CASE SeedNode(u) \in walk.frontier /\ SeedNode(u) # node
    BY <1>6, <2>1
  <2>2. CASE SeedNode(u) = node
    <3>1. node.depth = 0 /\ node.id = u
      BY <2>2 DEF SeedNode
    <3>2. p = EdgesOf(u)
      BY <1>3, <3>1 DEF p
    <3> QED BY <1>6, <2>2, <3>2
  <2>3. CASE SeedNode(u) \notin walk.frontier
    <3>1. \A e \in EdgesOf(u) : OtherEnd(e, u) \in walk.visited
      BY <1>1, <1>5, <2>3 DEF Followed
    <3> QED BY <1>6, <3>1
  <2> QED BY <2>1, <2>2, <2>3
<1>12. WalkHangsOnSeeds'
  BY <1>1, <1>5, <1>6, ItemsAlone
<1> QED BY <1>1, <1>7, <1>9, <1>10, <1>11, <1>12, WalkStep

LEMMA EndLevelKeeps ==
    ASSUME Inv, EndLevel
    PROVE  Inv'
<1>1. /\ phase = "expanding" /\ walk.pending = {} /\ walk.frontier = {}
      /\ \/ /\ walk' = [walk EXCEPT !.frontier = walk.next, !.next = {}]
            /\ phase' = phase
         \/ /\ walk' = [walk EXCEPT !.next = {}, !.node = {}]
            /\ phase' = "assessing"
      /\ UNCHANGED <<scenario, lanes, outcomes, ranked, selection, decision, context>>
  BY DEF EndLevel
<1>2. WalkTyped /\ Visited /\ Anchors /\ Followed /\ WalkHangsOnSeeds
  BY DEF Inv
<1>3. /\ walk'.items = walk.items /\ walk'.skipped = walk.skipped
      /\ walk'.visited = walk.visited /\ walk'.next = {}
      /\ walk'.pending = {}
      /\ walk'.frontier \subseteq walk.next /\ walk'.node \subseteq walk.node
  BY <1>1, <1>2 DEF WalkTyped
<1>4. WalkTyped'
  <2> DEFINE I == Seq(Item)
  <2>1. walk' \in [items : I, skipped : SUBSET Skipped, visited : SUBSET Unit,
                   frontier : SUBSET Node, next : SUBSET Node, node : SUBSET Node,
                   pending : SUBSET scenario.edges]
    <3>1. walk \in [items : I, skipped : SUBSET Skipped, visited : SUBSET Unit,
                    frontier : SUBSET Node, next : SUBSET Node, node : SUBSET Node,
                    pending : SUBSET scenario.edges]
      BY <1>2 DEF WalkTyped
    <3> HIDE DEF I
    <3> QED BY <1>1, <3>1
  <2> QED BY <1>1, <2>1 DEF WalkTyped, Item
<1>5. Selected' = Selected
  BY <1>1 DEF Selected
<1>6. Visited'
  BY <1>2, <1>3, <1>5 DEF Visited, ItemUnits, SkippedUnits
<1>7. Anchors'
  <2>1. \A n : Anchored(n)' <=> Anchored(n)
    BY <1>3, <1>5 DEF Anchored
  <2>2. /\ \A n \in walk'.frontier \cup walk'.next \cup walk'.node : Anchored(n)'
        /\ \A n, m \in walk'.node : n = m
    BY <1>2, <1>3, <2>1 DEF Anchors
  <2> QED BY <1>3, <2>2 DEF Anchors, Anchored
<1>8. Followed'
  <2>1. \A u \in Selected : \A e \in EdgesOf(u) : OtherEnd(e, u) \in walk'.visited
    BY <1>1, <1>2, <1>3 DEF Followed
  <2> QED BY <1>1, <1>5, <2>1 DEF Followed, EdgesOf
<1>9. WalkHangsOnSeeds'
  BY <1>1, <1>2, <1>3, ItemsAlone
<1> QED BY <1>1, <1>4, <1>6, <1>7, <1>8, <1>9, WalkStep

\* An edge joins the unit to its other end.
LEMMA EdgeJoins ==
    ASSUME Inv, NEW e \in scenario.edges, NEW id, id \in {e.from, e.to}
    PROVE  /\ OtherEnd(e, id) \in Unit
           /\ {e.from, e.to} = {id, OtherEnd(e, id)}
<1>1. e \in [from : Unit, to : Unit, kind : STRING]
  BY Fields
<1> QED BY <1>1 DEF OtherEnd

\* The walk after one edge, before the edge is taken off the list.
Edge(e, node, w) ==
    /\ walk' = [w EXCEPT !.pending = @ \ {e}]
    /\ e \in walk.pending /\ walk.node = {node}
    /\ phase = "expanding"
    /\ UNCHANGED <<scenario, phase, outcomes, ranked, selection>>

LEMMA EdgeFacts ==
    ASSUME Inv, NEW e, NEW node, NEW w, Edge(e, node, w)
    PROVE  /\ e \in scenario.edges /\ e \in EdgesOf(node.id)
           /\ node \in Node /\ node.depth < MaxDepth /\ Anchored(node)
           /\ OtherEnd(e, node.id) \in Unit
           /\ {e.from, e.to} = {node.id, OtherEnd(e, node.id)}
           /\ Selected' = Selected
<1>1. /\ e \in walk.pending /\ node \in walk.node
      /\ UNCHANGED <<scenario, selection>>
  BY DEF Edge
<1>2. Anchored(node) /\ node.depth < MaxDepth /\ e \in EdgesOf(node.id)
  BY <1>1 DEF Inv, Anchors
<1>3. e \in scenario.edges /\ node \in Node
  BY <1>1, Fields
<1>4. node.id \in {e.from, e.to}
  BY <1>2 DEF EdgesOf
<1> QED BY <1>1, <1>2, <1>3, <1>4, EdgeJoins DEF Selected

\* Whatever the edge did, its other end has now been reached.
LEMMA EdgeFollowed ==
    ASSUME Inv, NEW e, NEW node, NEW w, Edge(e, node, w),
           walk'.frontier = walk.frontier, walk'.node = walk.node,
           walk'.pending = walk.pending \ {e},
           walk'.visited = walk.visited \cup {OtherEnd(e, node.id)}
    PROVE  Followed'
<1>1. /\ e \in walk.pending /\ walk.node = {node} /\ phase = "expanding"
      /\ UNCHANGED <<scenario, phase, selection>>
  BY DEF Edge
<1>2. Selected' = Selected
  BY EdgeFacts
<1> SUFFICES ASSUME NEW u \in Selected, SeedNode(u) \notin walk.frontier,
                    NEW d \in EdgesOf(u)
             PROVE  \/ OtherEnd(d, u) \in walk'.visited
                    \/ d \in walk'.pending /\ SeedNode(u) \in walk'.node
  BY <1>1, <1>2 DEF Followed, EdgesOf
<1>3. \/ OtherEnd(d, u) \in walk.visited
      \/ d \in walk.pending /\ SeedNode(u) \in walk.node
  BY <1>1 DEF Inv, Followed
<1>4. CASE d = e /\ SeedNode(u) \in walk.node
  <2>1. node.id = u
    BY <1>1, <1>4 DEF SeedNode
  <2> QED BY <1>4, <2>1
<1> QED BY <1>3, <1>4

LEMMA EdgeToVisited ==
    ASSUME Inv, NEW e, NEW node, Edge(e, node, walk),
           OtherEnd(e, node.id) \in walk.visited
    PROVE  Inv'
<1>1. /\ walk' = [walk EXCEPT !.pending = @ \ {e}] /\ walk.node = {node}
      /\ phase = "expanding"
      /\ UNCHANGED <<scenario, phase, outcomes, ranked, selection>>
  BY DEF Edge
<1>2. WalkTyped /\ Visited /\ Anchors /\ Followed /\ WalkHangsOnSeeds
  BY DEF Inv
<1>3. /\ walk'.items = walk.items /\ walk'.skipped = walk.skipped
      /\ walk'.visited = walk.visited /\ walk'.frontier = walk.frontier
      /\ walk'.next = walk.next /\ walk'.node = walk.node
      /\ walk'.pending = walk.pending \ {e}
  BY <1>1, <1>2 DEF WalkTyped
<1>4. WalkTyped'
  <2> DEFINE I == Seq(Item)
  <2>1. walk' \in [items : I, skipped : SUBSET Skipped, visited : SUBSET Unit,
                   frontier : SUBSET Node, next : SUBSET Node, node : SUBSET Node,
                   pending : SUBSET scenario.edges]
    <3>1. walk \in [items : I, skipped : SUBSET Skipped, visited : SUBSET Unit,
                    frontier : SUBSET Node, next : SUBSET Node, node : SUBSET Node,
                    pending : SUBSET scenario.edges]
      BY <1>2 DEF WalkTyped
    <3> HIDE DEF I
    <3> QED BY <1>1, <3>1
  <2> QED BY <1>1, <2>1 DEF WalkTyped, Item
<1>5. Selected' = Selected
  BY <1>1 DEF Selected
<1>6. Visited'
  BY <1>2, <1>3, <1>5 DEF Visited, ItemUnits, SkippedUnits
<1>7. Anchors'
  <2>1. \A n : Anchored(n)' <=> Anchored(n)
    BY <1>3, <1>5 DEF Anchored
  <2>2. /\ \A n \in walk'.frontier \cup walk'.next \cup walk'.node : Anchored(n)'
        /\ \A n, m \in walk'.node : n = m
        /\ \A n \in walk'.node : walk'.pending # {} =>
              n.depth < MaxDepth /\ walk'.pending \subseteq EdgesOf(n.id)
    BY <1>2, <1>3, <2>1 DEF Anchors
  <2> QED BY <1>1, <2>2 DEF Anchors, Anchored, EdgesOf
<1>8. Followed'
  BY <1>3, EdgeFollowed
<1>9. WalkHangsOnSeeds'
  BY <1>1, <1>2, <1>3, ItemsAlone
<1> QED BY <1>1, <1>4, <1>6, <1>7, <1>8, <1>9, WalkStep

LEMMA EdgeSkipped ==
    ASSUME Inv, NEW e, NEW node, NEW why \in SkipCodes,
           Edge(e, node, Skip(walk, OtherEnd(e, node.id), why))
    PROVE  Inv'
<1> DEFINE u == OtherEnd(e, node.id)
           skip == [unit |-> u, code |-> why]
<1>1. /\ walk.node = {node} /\ phase = "expanding"
      /\ UNCHANGED <<scenario, phase, outcomes, ranked, selection>>
      /\ walk' = [Skip(walk, u, why) EXCEPT !.pending = @ \ {e}]
  BY DEF Edge
<1>2. WalkTyped /\ Visited /\ Anchors /\ Followed /\ WalkHangsOnSeeds
  BY DEF Inv
<1>3. u \in Unit /\ Selected' = Selected
  BY EdgeFacts
<1> HIDE DEF u
<1>4. Skip(walk, u, why) = [walk EXCEPT !.visited = @ \cup {u}, !.skipped = @ \cup {skip}]
  BY DEF Skip
<1>5. skip \in Skipped /\ skip.unit = u
  BY <1>3 DEF Skipped
<1> HIDE DEF skip
<1>6. /\ walk'.items = walk.items /\ walk'.skipped = walk.skipped \cup {skip}
      /\ walk'.visited = walk.visited \cup {u} /\ walk'.frontier = walk.frontier
      /\ walk'.next = walk.next /\ walk'.node = walk.node
      /\ walk'.pending = walk.pending \ {e}
  BY <1>1, <1>2, <1>4 DEF WalkTyped
<1>7. WalkTyped'
  <2> DEFINE I == Seq(Item)
  <2>1. walk' \in [items : I, skipped : SUBSET Skipped, visited : SUBSET Unit,
                   frontier : SUBSET Node, next : SUBSET Node, node : SUBSET Node,
                   pending : SUBSET scenario.edges]
    <3>1. walk \in [items : I, skipped : SUBSET Skipped, visited : SUBSET Unit,
                    frontier : SUBSET Node, next : SUBSET Node, node : SUBSET Node,
                    pending : SUBSET scenario.edges]
      BY <1>2 DEF WalkTyped
    <3> DEFINE visited == walk.visited \cup {u}
               skipped == walk.skipped \cup {skip}
               pending == walk.pending \ {e}
    <3>2. /\ visited \in SUBSET Unit /\ skipped \in SUBSET Skipped
          /\ pending \in SUBSET scenario.edges
      BY <1>3, <1>5, Fields
    <3>3. walk' = [walk EXCEPT !.visited = visited, !.skipped = skipped, !.pending = pending]
      <4> HIDE DEF I
      <4> QED BY <1>1, <1>4, <3>1
    <3> HIDE DEF I, visited, skipped, pending
    <3> QED BY <3>1, <3>2, <3>3
  <2> QED BY <1>1, <2>1 DEF WalkTyped, Item
<1>8. Visited'
  <2>1. ItemUnits(walk)' = ItemUnits(walk)
    BY <1>6 DEF ItemUnits
  <2>2. SkippedUnits(walk)' = SkippedUnits(walk) \cup {u}
    BY <1>5, <1>6 DEF SkippedUnits
  <2> QED BY <1>2, <1>3, <1>6, <2>1, <2>2 DEF Visited
<1>9. Anchors'
  <2>1. \A n : Anchored(n)' <=> Anchored(n)
    BY <1>3, <1>6 DEF Anchored
  <2>2. /\ \A n \in walk'.frontier \cup walk'.next \cup walk'.node : Anchored(n)'
        /\ \A n, m \in walk'.node : n = m
        /\ \A n \in walk'.node : walk'.pending # {} =>
              n.depth < MaxDepth /\ walk'.pending \subseteq EdgesOf(n.id)
    BY <1>2, <1>6, <2>1 DEF Anchors
  <2> QED BY <1>1, <2>2 DEF Anchors, Anchored, EdgesOf
<1>10. Followed'
  BY <1>6, EdgeFollowed DEF u
<1>11. WalkHangsOnSeeds'
  BY <1>1, <1>2, <1>6, ItemsAlone
<1> QED BY <1>1, <1>7, <1>8, <1>9, <1>10, <1>11, WalkStep

LEMMA EdgeFound ==
    ASSUME Inv, NEW e, NEW node,
           Edge(e, node, Found(walk, OtherEnd(e, node.id), e, node)),
           OtherEnd(e, node.id) \notin walk.visited,
           OtherEnd(e, node.id) \in scenario.scope,
           e.kind \in Relations, Len(walk.items) < MaxItems,
           PerSeed(walk, node.via) < MaxPerSeed
    PROVE  Inv'
<1> DEFINE u == OtherEnd(e, node.id)
           item == [unit |-> u, relation |-> e.kind, via |-> node.via,
                    depth |-> node.depth + 1]
           found == [id |-> u, via |-> node.via, depth |-> node.depth + 1]
           n == Len(walk.items)
<1>1. /\ walk.node = {node} /\ phase = "expanding"
      /\ UNCHANGED <<scenario, phase, outcomes, ranked, selection>>
      /\ walk' = [Found(walk, u, e, node) EXCEPT !.pending = @ \ {e}]
  BY DEF Edge
<1>2. WalkTyped /\ Visited /\ Anchors /\ Followed /\ WalkHangsOnSeeds
  BY DEF Inv
<1>3. /\ u \in Unit /\ Selected' = Selected /\ e \in scenario.edges
      /\ node \in Node /\ node.depth < MaxDepth /\ Anchored(node)
      /\ {e.from, e.to} = {node.id, u}
  BY EdgeFacts
<1>4. /\ node.id \in Unit /\ node.via \in Unit /\ node.depth \in Nat
      /\ node.depth + 1 \in 1..MaxDepth /\ node.depth + 1 \in 0..MaxDepth
      /\ MaxDepth \in Nat /\ MaxItems \in Nat /\ MaxPerSeed \in Nat
  <2>1. /\ MaxDepth \in Nat /\ MaxItems \in Nat /\ MaxPerSeed \in Nat
    BY PolicyAssumption
  <2>2. node.id \in Unit /\ node.via \in Unit /\ node.depth \in 0..MaxDepth
    BY <1>3 DEF Node
  <2> QED BY <1>3, <2>1, <2>2
<1>5. u \in scenario.scope /\ u \notin walk.visited
  OBVIOUS
<1> HIDE DEF u
<1>6. item \in Item /\ found \in Node
  BY <1>3, <1>4, <1>5 DEF Item, Node
<1>7. /\ item.unit = u /\ item.relation = e.kind /\ item.via = node.via
      /\ item.depth = node.depth + 1
      /\ found.id = u /\ found.via = node.via /\ found.depth = node.depth + 1
  OBVIOUS
<1>8. Found(walk, u, e, node) = [walk EXCEPT !.visited = @ \cup {u},
                                   !.items = Append(@, item), !.next = @ \cup {found}]
  BY DEF Found
<1> HIDE DEF item, found
<1> DEFINE I == Seq(Item)
           visited == walk.visited \cup {u}
           items == Append(walk.items, item)
           next == walk.next \cup {found}
           pending == walk.pending \ {e}
<1>9. /\ items \in Seq(Item) /\ ToSet(items) = ToSet(walk.items) \cup {item}
      /\ DOMAIN walk.items = 1..n /\ n \in Nat
      /\ DOMAIN items = 1..(n + 1)
      /\ \A i \in 1..n : items[i] = walk.items[i]
      /\ items[n + 1] = item
  BY <1>6, Fields, Appended
<1>10. /\ visited \in SUBSET Unit /\ next \in SUBSET Node
       /\ pending \in SUBSET scenario.edges
  BY <1>3, <1>6, Fields
<1>11. walk \in [items : I, skipped : SUBSET Skipped, visited : SUBSET Unit,
                 frontier : SUBSET Node, next : SUBSET Node, node : SUBSET Node,
                 pending : SUBSET scenario.edges]
  BY <1>2 DEF WalkTyped
<1>12. walk' = [walk EXCEPT !.visited = visited, !.items = items, !.next = next,
                            !.pending = pending]
  <2> HIDE DEF I
  <2> QED BY <1>1, <1>8, <1>11
<1>13. items \in I
  BY <1>9
<1> HIDE DEF I, visited, items, next, pending, n
<1>14. /\ walk'.items = items /\ walk'.skipped = walk.skipped
       /\ walk'.visited = visited /\ walk'.frontier = walk.frontier
       /\ walk'.next = next /\ walk'.node = walk.node /\ walk'.pending = pending
  BY <1>11, <1>12
<1>15. WalkTyped'
  <2>1. walk' \in [items : I, skipped : SUBSET Skipped, visited : SUBSET Unit,
                   frontier : SUBSET Node, next : SUBSET Node, node : SUBSET Node,
                   pending : SUBSET scenario.edges]
    BY <1>10, <1>11, <1>12, <1>13
  <2> QED BY <1>1, <2>1 DEF WalkTyped, Item, I
<1>16. \A i \in 1..(n + 1) : (i \in 1..n /\ items[i] = walk.items[i])
                               \/ (i = n + 1 /\ items[i] = item)
  BY <1>9
<1>17. \A i \in 1..n : i \in 1..(n + 1) /\ n + 1 \in 1..(n + 1)
  BY <1>9
<1>18. n + 1 \in 1..(n + 1)
  BY <1>9
<1>19. Visited'
  <2>1. ItemUnits(walk') = ItemUnits(walk) \cup {u}
    BY <1>7, <1>9, <1>14, <1>16, <1>17, <1>18 DEF ItemUnits
  <2>2. Len(walk'.items) <= MaxItems
    <3>1. Len(items) = n + 1
      BY <1>9, LenProperties
    <3>2. n < MaxItems
      BY DEF n
    <3> QED BY <1>4, <1>9, <1>14, <3>1, <3>2
  <2>3. u \notin Selected
    BY <1>2, <1>5 DEF Visited
  <2>4. /\ ItemUnits(walk)' = ItemUnits(walk')
        /\ SkippedUnits(walk)' = SkippedUnits(walk)
    BY <1>14 DEF ItemUnits, SkippedUnits
  <2> QED BY <1>2, <1>3, <1>14, <2>1, <2>2, <2>3, <2>4 DEF Visited, visited
<1>20. ASSUME NEW m PROVE Anchored(m) => Anchored(m)'
  BY <1>3, <1>9, <1>14, <1>17 DEF Anchored
<1>21. Anchored(found)'
  <2>1. node.via \in Selected
    BY <1>3 DEF Anchored
  <2> QED BY <1>3, <1>7, <1>9, <1>14, <1>18, <2>1 DEF Anchored
<1>22. Anchors'
  <2>1. /\ \A m \in walk'.frontier \cup walk'.next \cup walk'.node : Anchored(m)'
        /\ \A m, l \in walk'.node : m = l
        /\ \A m \in walk'.node : walk'.pending # {} =>
              m.depth < MaxDepth /\ walk'.pending \subseteq EdgesOf(m.id)
    BY <1>2, <1>14, <1>20, <1>21 DEF Anchors, next, pending
  <2> QED BY <1>1, <2>1 DEF Anchors, Anchored, EdgesOf
<1>23. Followed'
  BY <1>14, EdgeFollowed DEF u, visited, pending
<1>24. WalkHangsOnSeeds'
  <2> DEFINE linked(a, b, kind) == \E d \in scenario.edges :
                {d.from, d.to} = {a, b} /\ d.kind = kind
             hangs(i, S) == /\ i.via \in Selected /\ i.relation \in Relations
                            /\ i.depth <= MaxDepth
                            /\ \/ i.depth = 1 /\ linked(i.via, i.unit, i.relation)
                               \/ \E j \in S : /\ j.via = i.via /\ j.depth = i.depth - 1
                                               /\ linked(j.unit, i.unit, i.relation)
             S == ToSet(walk.items)
  <2>1. \A i \in S : hangs(i, S)
    BY <1>2 DEF WalkHangsOnSeeds
  <2>2. linked(node.id, u, e.kind)
    BY <1>3
  <2>3. hangs(item, S)
    <3>1. CASE node.depth = 0 /\ node.id = node.via
      <4>1. item.depth = 1
        BY <1>7, <3>1
      <4> HIDE DEF linked
      <4> QED BY <1>3, <1>4, <1>7, <2>2, <3>1, <4>1 DEF Anchored
    <3>2. CASE \E i \in DOMAIN walk.items : /\ walk.items[i].unit = node.id
                                            /\ walk.items[i].via = node.via
                                            /\ walk.items[i].depth = node.depth
      <4>1. PICK j \in S : j.unit = node.id /\ j.via = node.via /\ j.depth = node.depth
        BY <3>2 DEF ToSet
      <4>2. item.depth - 1 = node.depth /\ item.depth <= MaxDepth
        BY <1>4, <1>7
      <4> HIDE DEF linked, S
      <4> QED BY <1>3, <1>7, <2>2, <4>1, <4>2 DEF Anchored
    <3> HIDE DEF hangs
    <3> QED BY <1>3, <3>1, <3>2 DEF Anchored
  <2>4. \A i \in S \cup {item} : hangs(i, S \cup {item})
    <3> HIDE DEF linked, S
    <3> QED BY <2>1, <2>3
  <2>5. ASSUME NEW s \in Selected PROVE PerSeed(walk', s) <= MaxPerSeed
    <3> DEFINE T == {i \in DOMAIN walk.items : walk.items[i].via = s}
               V == {i \in DOMAIN items : items[i].via = s}
    <3>1. IsFiniteSet(T) /\ Cardinality(T) \in Nat
      <4>1. IsFiniteSet(1..n)
        BY <1>9, FS_Interval
      <4>2. T \in SUBSET (1..n)
        BY <1>9
      <4> HIDE DEF T
      <4>3. IsFiniteSet(T)
        BY <4>1, <4>2, FS_Subset
      <4> QED BY <4>3, FS_CardinalityType
    <3>2. PerSeed(walk, s) = Cardinality(T) /\ PerSeed(walk', s) = Cardinality(V)
      BY <1>14 DEF PerSeed
    <3>3. Cardinality(T) <= MaxPerSeed
      BY <1>2, <3>2 DEF WalkHangsOnSeeds
    <3>4. CASE s = node.via
      <4>1. V = T \cup {n + 1}
        BY <1>7, <1>9, <1>16, <1>17, <1>18, <3>4
      <4>2. Cardinality(T) < MaxPerSeed
        BY <3>2, <3>4
      <4> HIDE DEF T, V
      <4>3. Cardinality(T \cup {n + 1}) <= Cardinality(T) + 1
        <5>1. Cardinality(T \cup {n + 1}) =
                  IF n + 1 \in T THEN Cardinality(T) ELSE Cardinality(T) + 1
          BY <3>1, FS_AddElement
        <5> QED BY <3>1, <5>1
      <4>4. Cardinality(V) \in Nat
        <5>1. IsFiniteSet(T \cup {n + 1})
          BY <3>1, FS_AddElement
        <5> QED BY <4>1, <5>1, FS_CardinalityType
      <4> QED BY <1>4, <3>1, <3>2, <4>1, <4>2, <4>3, <4>4
    <3>5. CASE s # node.via
      <4>1. V = T
        BY <1>7, <1>9, <1>16, <1>17, <3>5
      <4> HIDE DEF T, V
      <4> QED BY <3>2, <3>3, <4>1
    <3> QED BY <3>4, <3>5
  <2>6. ToSet(walk'.items) = S \cup {item}
    BY <1>9, <1>14
  <2>7. \A s : PerSeed(walk, s)' = PerSeed(walk', s)
    BY DEF PerSeed
  <2> HIDE DEF S
  <2> QED BY <1>1, <1>3, <2>4, <2>5, <2>6, <2>7 DEF WalkHangsOnSeeds
<1> QED BY <1>1, <1>15, <1>19, <1>22, <1>23, <1>24, WalkStep

LEMMA FollowEdgeKeeps ==
    ASSUME Inv, FollowEdge
    PROVE  Inv'
<1>1. PICK e \in walk.pending, node \in walk.node :
         walk' = [Walked(walk, e, node) EXCEPT !.pending = @ \ {e}]
  BY DEF FollowEdge
<1> DEFINE w == Walked(walk, e, node)
           u == OtherEnd(e, node.id)
<1>2. walk.node = {node}
  BY <1>1 DEF Inv, Anchors
<1>3. Edge(e, node, w)
  BY <1>1, <1>2 DEF FollowEdge, Edge
<1>4. Len(walk.items) \in Nat /\ MaxItems \in Nat /\ MaxPerSeed \in Nat
  BY Fields, PolicyAssumption
<1>5. PerSeed(walk, node.via) \in Nat
  <2>1. IsFiniteSet(1..Len(walk.items))
    BY <1>4, FS_Interval
  <2>2. {i \in DOMAIN walk.items : walk.items[i].via = node.via}
            \in SUBSET (1..Len(walk.items))
    BY Fields
  <2>3. IsFiniteSet({i \in DOMAIN walk.items : walk.items[i].via = node.via})
    BY <2>1, <2>2, FS_Subset
  <2> QED BY <2>3, FS_CardinalityType DEF PerSeed
<1>6. \/ u \in walk.visited /\ w = walk
      \/ \E why \in SkipCodes : w = Skip(walk, u, why)
      \/ /\ u \notin walk.visited /\ e.kind \in Relations
         /\ ~(PerSeed(walk, node.via) >= MaxPerSeed)
         /\ ~(Len(walk.items) >= MaxItems)
         /\ u \in scenario.scope /\ w = Found(walk, u, e, node)
  BY DEF Walked, SkipCodes
<1>7. CASE u \in walk.visited /\ w = walk
  BY <1>3, <1>7, EdgeToVisited
<1>8. CASE \E why \in SkipCodes : w = Skip(walk, u, why)
  BY <1>3, <1>8, EdgeSkipped
<1>9. CASE /\ u \notin walk.visited /\ e.kind \in Relations
           /\ ~(PerSeed(walk, node.via) >= MaxPerSeed)
           /\ ~(Len(walk.items) >= MaxItems)
           /\ u \in scenario.scope /\ w = Found(walk, u, e, node)
  <2>1. PerSeed(walk, node.via) < MaxPerSeed /\ Len(walk.items) < MaxItems
    BY <1>4, <1>5, <1>9
  <2> QED BY <1>3, <1>9, <2>1, EdgeFound
<1> QED BY <1>6, <1>7, <1>8, <1>9

-----------------------------------------------------------------------------
LEMMA Invariance == Spec => []Inv
<1>1. ASSUME Inv, [Next]_vars PROVE Inv'
  <2>1. CASE RunQuery
    BY <1>1, <2>1, RunQueryKeeps
  <2>2. CASE FailRetrieval
    BY <1>1, <2>2, FailRetrievalKeeps
  <2>3. CASE RerankQuery
    BY <1>1, <2>3, RerankQueryKeeps
  <2>4. CASE Rank
    BY <1>1, <2>4, RankKeeps
  <2>5. CASE SelectEvidence
    BY <1>1, <2>5, SelectEvidenceKeeps
  <2>6. CASE VisitNode
    BY <1>1, <2>6, VisitNodeKeeps
  <2>7. CASE FollowEdge
    BY <1>1, <2>7, FollowEdgeKeeps
  <2>8. CASE EndLevel
    BY <1>1, <2>8, EndLevelKeeps
  <2>9. CASE Decide \/ BuildContext
    BY <1>1, <2>9, DecideKeeps
  <2>10. CASE UNCHANGED vars
    <3>1. UNCHANGED <<scenario, phase, lanes, outcomes, ranked, selection, walk>>
      BY <2>10 DEF vars
    <3>2. Selected' = Selected
      BY <3>1 DEF Selected
    <3>3. Listed' /\ Chosen' /\ WalkTyped'
      BY <1>1, <3>1, <3>2 DEF Inv, Listed, Outcomes, Ranking, Chosen, WalkTyped, Item
    <3>4. Visited' /\ Anchors' /\ Followed'
      BY <1>1, <3>1, <3>2 DEF Inv, Visited, ItemUnits, SkippedUnits, Anchors, Anchored,
                              Followed, EdgesOf
    <3>5. WalkHangsOnSeeds'
      BY <1>1, <3>1, ItemsAlone DEF Inv
    <3>6. FusedFairly'
      BY <1>1, <3>1 DEF Inv, FusedFairly
    <3>7. RequestedAreHeard'
      <4>1. Represented' = Represented /\ Sources' = Sources
        BY <3>1, <3>2 DEF Represented, Sources
      <4>2. RequestedAreHeard
        BY <1>1 DEF Inv
      <4> QED BY <3>1, <3>2, <4>1, <4>2 DEF RequestedAreHeard, OfMadhhab, InSource
    <3> QED BY <1>1, <3>1, <3>3, <3>4, <3>5, <3>6, <3>7 DEF Inv
  <2> QED BY <1>1, <2>1, <2>2, <2>3, <2>4, <2>5, <2>6, <2>7, <2>8, <2>9, <2>10 DEF Next
<1> QED BY <1>1, InitInv, PTL DEF Spec

\* The stages hand on what they promise: lists without repetition, within
\* their bounds, of units the principal may read; what is selected was ranked,
\* and what the walk adds is neither selected nor beyond the scope
\* (chatService.ts 689-813).
THEOREM TypeCorrect == Spec => []TypeOK
<1>1. Inv => TypeOK
  <2> SUFFICES ASSUME Inv PROVE TypeOK
    OBVIOUS
  <2>1. /\ scenario \in Scenarios
        /\ phase \in {"retrieving", "fused", "reranked", "ranked", "failed",
                      "expanding", "assessing", "silent", "building", "built"}
    BY DEF Inv, Early, Late
  <2>2. Outcomes /\ Ranking(ranked) /\ Chosen /\ Visited
    BY DEF Inv, Listed
  <2>3. ASSUME NEW o \in ToSet(outcomes)
        PROVE  /\ IsInjective(o.fused) /\ Len(o.fused) <= FusionTopK
               /\ ToSet(o.fused) \cup o.exact \subseteq scenario.scope
    <3> DEFINE D == [fused : Seq(scenario.scope), exact : SUBSET scenario.scope]
    <3>1. PICK q \in DOMAIN outcomes : o = outcomes[q]
      BY <2>3 DEF ToSet
    <3>2. Ranking(o.fused)
      BY <2>2, <3>1 DEF Outcomes
    <3>3. outcomes \in Seq(D)
      BY <2>2 DEF Outcomes
    <3>4. o \in D
      <4> HIDE DEF D
      <4> QED BY <3>1, <3>3, LenProperties, ElementOfSeq
    <3>5. ToSet(o.fused) \in SUBSET scenario.scope
      BY <2>1, <3>2, Places
    <3> QED BY <3>2, <3>4, <3>5 DEF Ranking
  <2>4. IsInjective(ranked) /\ ToSet(ranked) \subseteq scenario.scope
    BY <2>1, <2>2, Places DEF Ranking
  <2>5. IsInjective(selection.selected) /\ Selected \subseteq ToSet(ranked)
    BY <2>2 DEF Chosen
  <2>6. {i.unit : i \in ToSet(walk.items)} \subseteq scenario.scope \ Selected
    <3> SUFFICES ASSUME NEW i \in ToSet(walk.items)
                 PROVE  i.unit \in scenario.scope \ Selected
      OBVIOUS
    <3>1. PICK n \in 1..Len(walk.items) : i = walk.items[n]
      BY Fields DEF ToSet
    <3>2. i \in Item
      BY <3>1, Fields, ElementOfSeq
    <3>3. i.unit \in ItemUnits(walk)
      BY <3>1, Fields DEF ItemUnits
    <3> QED BY <2>2, <3>2, <3>3 DEF Visited, Item
  <2>7. Len(walk.items) <= MaxItems
    BY <2>2 DEF Visited
  <2> QED BY <2>1, <2>3, <2>4, <2>5, <2>6, <2>7 DEF TypeOK
<1> QED BY <1>1, Invariance, PTL

\* Whatever the lanes return, a unit that is ahead of another in every lane
\* that found the other stays ahead of it, behind the exact hits: the integer
\* quotients of the model order as the reciprocals of laneFusion.ts 161-199 do.
THEOREM FusionIsFair == Spec => []FusedFairly
<1>1. Inv => FusedFairly
  BY DEF Inv
<1> QED BY <1>1, Invariance, PTL

\* Every requested school with a candidate in the ranked list has one among
\* the evidence, whatever kept it out at first, and the cap of a book gives way
\* by no more than one unit per requested school (evidenceSelector.ts 106-183).
THEOREM SchoolsAreHeard == Spec => []RequestedAreHeard
<1>1. Inv => RequestedAreHeard
  BY DEF Inv
<1> QED BY <1>1, Invariance, PTL

\* In whatever order the edges come, every item hangs on its seed by eligible
\* edges within the depth, and no seed takes more than its share
\* (evidenceExpansion.ts 139-216).
THEOREM WalkIsBounded == Spec => []WalkHangsOnSeeds
<1>1. Inv => WalkHangsOnSeeds
  BY DEF Inv
<1> QED BY <1>1, Invariance, PTL

\* Once the walk has ended, by its own or by a cap, every neighbour of a
\* selected unit is selected, an item or recorded as skipped
\* (evidenceExpansion.ts 139-216).
THEOREM NothingIsHidden == Spec => []NeighboursAccountedFor
<1>1. Inv => NeighboursAccountedFor
  <2> SUFFICES ASSUME Inv, phase \in Late, NEW u \in Selected, NEW e \in EdgesOf(u)
               PROVE  OtherEnd(e, u) \in Selected
                          \cup {i.unit : i \in ToSet(walk.items)}
                          \cup {s.unit : s \in walk.skipped}
    BY DEF NeighboursAccountedFor, Late
  <2>1. OtherEnd(e, u) \in walk.visited
    BY DEF Inv, Followed, Late
  <2>2. ItemUnits(walk) \subseteq {i.unit : i \in ToSet(walk.items)}
    BY DEF ItemUnits, ToSet
  <2> QED BY <2>1, <2>2 DEF Inv, Visited, SkippedUnits
<1> QED BY <1>1, Invariance, PTL

=============================================================================
