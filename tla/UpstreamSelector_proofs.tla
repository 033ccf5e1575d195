---------------------- MODULE UpstreamSelector_proofs -----------------------
(* Proofs about the selection algorithms, for any upstreams, weights, lists,*)
(* hashes, keys and number of requests.                                     *)
(*                                                                          *)
(* What a recursive function computes is proved by the well-ordering of the *)
(* naturals: the set of numbers for which a claim fails has no least one.   *)
EXTENDS UpstreamSelector, FiniteSetTheorems, NaturalsInduction,
        WellFoundedInduction, TLAPS

(* A non-empty set of naturals has a least member. *)
LEMMA LeastExists ==
    ASSUME NEW S \in SUBSET Nat, S # {}
    PROVE  \E i \in S : \A j \in S : i <= j
<1>1. PICK i \in S : \A j \in S : ~(<<j, i>> \in OpToRel(<, Nat))
  BY NatLessThanWellFounded, WFMin
<1>2. \A j \in S : j < i => <<j, i>> \in OpToRel(<, Nat)
  BY DEF OpToRel
<1>3. \A j \in S : ~(j < i)
  BY <1>1, <1>2, Zenon
<1>. QED  BY <1>3

(* Induction on 0..n, for a set of numbers. *)
LEMMA UpTo ==
    ASSUME NEW n \in Nat, NEW S \in SUBSET Nat, 0 \in S,
           \A i \in 0..n : i # 0 /\ i - 1 \in S => i \in S
    PROVE  0..n \subseteq S
<1>. DEFINE bad == (0..n) \ S
<1>1. SUFFICES ASSUME bad # {} PROVE FALSE
  OBVIOUS
<1>2. PICK i \in bad : \A j \in bad : i <= j
  <2>1. bad \in SUBSET Nat
    OBVIOUS
  <2>. HIDE DEF bad
  <2>. QED  BY <1>1, <2>1, LeastExists
<1>3. i \in 1..n
  BY <1>2
<1>4. i - 1 \in 0..n /\ i - 1 \notin bad
  BY <1>2, <1>3
<1>. QED  BY <1>3, <1>4

(* A list of candidates. *)
IsList(L) ==
    /\ Len(L) \in Nat /\ DOMAIN L = 1..Len(L)
    /\ \A i \in DOMAIN L : L[i].weight \in Int

LEMMA WeightPositive ==
    ASSUME NEW L, IsList(L), NEW i \in 1..Len(L)
    PROVE  GetEffectiveWeight(L[i]) \in Nat \ {0}
BY DEF IsList, GetEffectiveWeight

-----------------------------------------------------------------------------
(* Sums.                                                                    *)

(* f is the function the recursive definition of RunningSum describes. *)
Sums(g, n, f) == f = [i \in 0..n |-> IF i = 0 THEN 0 ELSE f[i - 1] + g[i]]

LEMMA SumExists ==
    ASSUME NEW g, NEW n \in Nat
    PROVE  \E f : Sums(g, n, f)
<1>. DEFINE S == {k \in Nat : \E f : Sums(g, k, f)}
<1>1. 0 \in S
  <2>1. Sums(g, 0, [i \in 0..0 |-> 0])
    BY DEF Sums
  <2>. QED  BY <2>1
<1>2. ASSUME NEW k \in 0..n, k # 0, k - 1 \in S
      PROVE  k \in S
  <2>1. PICK f : Sums(g, k - 1, f)
    BY <1>2
  <2>. DEFINE e == [i \in 0..k |-> IF i = k THEN f[k - 1] + g[k] ELSE f[i]]
  <2>2. \A i \in 0..k : e[i] = IF i = 0 THEN 0 ELSE e[i - 1] + g[i]
    <3>1. \A i \in 0..(k - 1) : f[i] = IF i = 0 THEN 0 ELSE f[i - 1] + g[i]
      BY <2>1 DEF Sums
    <3>2. ASSUME NEW i \in 0..k, i # k
          PROVE  e[i] = IF i = 0 THEN 0 ELSE e[i - 1] + g[i]
      <4>1. i \in 0..(k - 1) /\ e[i] = f[i]
        BY <1>2, <3>2
      <4>2. i # 0 => i - 1 \in 0..k /\ i - 1 # k /\ e[i - 1] = f[i - 1]
        BY <1>2, <4>1
      <4>. QED  BY <3>1, <4>1, <4>2
    <3>3. e[k] = IF k = 0 THEN 0 ELSE e[k - 1] + g[k]
      BY <1>2
    <3>. QED  BY <3>2, <3>3
  <2>3. Sums(g, k, e)
    BY <2>2 DEF Sums
  <2>. QED  BY <1>2, <2>3
<1>. HIDE DEF S
<1>3. S \in SUBSET Nat
  BY DEF S
<1>4. 0..n \subseteq S
  BY <1>1, <1>2, <1>3, UpTo
<1>. QED  BY <1>4 DEF S

LEMMA SumSteps ==
    ASSUME NEW g, NEW n \in Nat
    PROVE  /\ RunningSum(g, n)[0] = 0
           /\ \A i \in 1..n : RunningSum(g, n)[i] = RunningSum(g, n)[i - 1] + g[i]
<1>. DEFINE f == RunningSum(g, n)
<1>1. Sums(g, n, f)
  <2>1. f = CHOOSE h : Sums(g, n, h)
    BY DEF RunningSum, Sums
  <2>. QED  BY <2>1, SumExists
<1>. HIDE DEF f
<1>2. \A i \in 0..n : f[i] = IF i = 0 THEN 0 ELSE f[i - 1] + g[i]
  BY <1>1 DEF Sums
<1>3. 0 \in 0..n /\ \A i \in 1..n : i \in 0..n /\ i # 0
  OBVIOUS
<1>. QED  BY <1>2, <1>3 DEF f

(* Sums of integers are integers. *)
LEMMA SumInt ==
    ASSUME NEW n \in Nat, NEW g, \A i \in 1..n : g[i] \in Int
    PROVE  \A i \in 0..n : RunningSum(g, n)[i] \in Int
<1>. DEFINE f == RunningSum(g, n)
            S == {k \in Nat : k <= n => f[k] \in Int}
<1>1. f[0] = 0 /\ \A i \in 1..n : f[i] = f[i - 1] + g[i]
  BY SumSteps
<1>. HIDE DEF f
<1>2. 0 \in S
  BY <1>1
<1>3. ASSUME NEW k \in 0..n, k # 0, k - 1 \in S
      PROVE  k \in S
  <2>1. k \in 1..n /\ f[k - 1] \in Int
    BY <1>3
  <2>. QED  BY <1>1, <2>1
<1>. HIDE DEF S
<1>4. S \in SUBSET Nat
  BY DEF S
<1>5. 0..n \subseteq S
  BY <1>2, <1>3, <1>4, UpTo
<1>. QED  BY <1>5 DEF S, f

(* Sums of naturals grow. *)
LEMMA SumGrows ==
    ASSUME NEW n \in Nat, NEW g, \A i \in 1..n : g[i] \in Nat
    PROVE  /\ \A i \in 0..n : RunningSum(g, n)[i] \in Nat
           /\ \A i \in 0..n : \A j \in 0..i : RunningSum(g, n)[j] <= RunningSum(g, n)[i]
<1>. DEFINE f == RunningSum(g, n)
            S == {k \in Nat : k <= n => f[k] \in Nat /\ \A j \in 0..k : f[j] \in Nat /\ f[j] <= f[k]}
<1>1. f[0] = 0 /\ \A i \in 1..n : f[i] = f[i - 1] + g[i]
  BY SumSteps
<1>. HIDE DEF f
<1>2. 0 \in S
  BY <1>1
<1>3. ASSUME NEW k \in 0..n, k # 0, k - 1 \in S
      PROVE  k \in S
  <2>1. k \in 1..n /\ f[k] = f[k - 1] + g[k] /\ g[k] \in Nat
    BY <1>1, <1>3
  <2>2. f[k - 1] \in Nat /\ \A j \in 0..(k - 1) : f[j] \in Nat /\ f[j] <= f[k - 1]
    BY <1>3
  <2>3. f[k] \in Nat
    BY <2>1, <2>2
  <2>4. ASSUME NEW j \in 0..k
        PROVE  f[j] \in Nat /\ f[j] <= f[k]
    <3>1. CASE j = k
      BY <2>3, <3>1
    <3>2. CASE j # k
      <4>1. j \in 0..(k - 1)
        BY <1>3, <3>2
      <4>. QED  BY <2>1, <2>2, <4>1
    <3>. QED  BY <3>1, <3>2
  <2>. QED  BY <1>3, <2>3, <2>4
<1>. HIDE DEF S
<1>4. S \in SUBSET Nat
  BY DEF S
<1>5. 0..n \subseteq S
  BY <1>2, <1>3, <1>4, UpTo
<1>6. ASSUME NEW i \in 0..n
      PROVE  f[i] \in Nat /\ \A j \in 0..i : f[j] <= f[i]
  BY <1>5 DEF S
<1>. QED  BY <1>6 DEF f

(* What is added to one or to all of the numbers is added to their sum. *)
LEMMA SumAdd ==
    ASSUME NEW n \in Nat, NEW g, NEW h, NEW e,
           \A i \in 1..n : g[i] \in Int /\ h[i] \in Int /\ e[i] = g[i] + h[i]
    PROVE  RunningSum(e, n)[n] = RunningSum(g, n)[n] + RunningSum(h, n)[n]
<1>. DEFINE G == RunningSum(g, n)
            H == RunningSum(h, n)
            E == RunningSum(e, n)
            S == {k \in Nat : k <= n => E[k] = G[k] + H[k]}
<1>1. /\ G[0] = 0 /\ \A i \in 1..n : G[i] = G[i - 1] + g[i]
      /\ H[0] = 0 /\ \A i \in 1..n : H[i] = H[i - 1] + h[i]
      /\ E[0] = 0 /\ \A i \in 1..n : E[i] = E[i - 1] + e[i]
  BY SumSteps
<1>2. \A i \in 0..n : G[i] \in Int /\ H[i] \in Int
  BY SumInt
<1>. HIDE DEF G, H, E
<1>3. 0 \in S
  BY <1>1
<1>4. ASSUME NEW k \in 0..n, k # 0, k - 1 \in S
      PROVE  k \in S
  <2>1. k \in 1..n /\ k - 1 \in 0..n /\ E[k - 1] = G[k - 1] + H[k - 1]
    BY <1>4
  <2>2. /\ G[k] = G[k - 1] + g[k] /\ H[k] = H[k - 1] + h[k] /\ E[k] = E[k - 1] + e[k]
        /\ e[k] = g[k] + h[k] /\ g[k] \in Int /\ h[k] \in Int
        /\ G[k - 1] \in Int /\ H[k - 1] \in Int
    BY <1>1, <1>2, <2>1
  <2>3. E[k] = G[k] + H[k]
    BY <2>1, <2>2
  <2>. QED  BY <1>4, <2>3
<1>. HIDE DEF S
<1>5. S \in SUBSET Nat
  BY DEF S
<1>6. 0..n \subseteq S
  BY <1>3, <1>4, <1>5, UpTo
<1>. QED  BY <1>6 DEF S, G, H, E

(* A sum of numbers of which only one is not zero. *)
LEMMA SumOne ==
    ASSUME NEW n \in Nat, NEW m \in 1..n, NEW d \in Int, NEW h,
           \A i \in 1..n : h[i] = IF i = m THEN d ELSE 0
    PROVE  RunningSum(h, n)[n] = d
<1>. DEFINE H == RunningSum(h, n)
            S == {k \in Nat : k <= n => H[k] = IF m <= k THEN d ELSE 0}
<1>1. H[0] = 0 /\ \A i \in 1..n : H[i] = H[i - 1] + h[i]
  BY SumSteps
<1>. HIDE DEF H
<1>2. 0 \in S
  BY <1>1
<1>3. ASSUME NEW k \in 0..n, k # 0, k - 1 \in S
      PROVE  k \in S
  <2>1. k \in 1..n /\ H[k - 1] = IF m <= k - 1 THEN d ELSE 0
    BY <1>3
  <2>2. H[k] = H[k - 1] + (IF k = m THEN d ELSE 0)
    BY <1>1, <2>1
  <2>3. H[k] = IF m <= k THEN d ELSE 0
    BY <1>3, <2>1, <2>2
  <2>. QED  BY <1>3, <2>3
<1>. HIDE DEF S
<1>4. S \in SUBSET Nat
  BY DEF S
<1>5. 0..n \subseteq S
  BY <1>2, <1>3, <1>4, UpTo
<1>. QED  BY <1>5 DEF S, H

LEMMA SumExcept ==
    ASSUME NEW n \in Nat, NEW m \in 1..n, NEW d \in Int, NEW g, NEW e,
           \A i \in 1..n : g[i] \in Int,
           e[m] = g[m] + d, \A i \in 1..n : i # m => e[i] = g[i]
    PROVE  RunningSum(e, n)[n] = RunningSum(g, n)[n] + d
<1>. DEFINE h == [i \in 1..n |-> IF i = m THEN d ELSE 0]
<1>1. \A i \in 1..n : h[i] = IF i = m THEN d ELSE 0
  OBVIOUS
<1>2. \A i \in 1..n : g[i] \in Int /\ h[i] \in Int /\ e[i] = g[i] + h[i]
  OBVIOUS
<1>. HIDE DEF h
<1>3. RunningSum(h, n)[n] = d
  BY <1>1, SumOne
<1>4. RunningSum(e, n)[n] = RunningSum(g, n)[n] + RunningSum(h, n)[n]
  BY <1>2, SumAdd
<1>. QED  BY <1>3, <1>4

(* A sum of numbers that are not positive is not. *)
LEMMA SumNotPositive ==
    ASSUME NEW n \in Nat, NEW g, \A i \in 1..n : g[i] \in Int /\ g[i] <= 0
    PROVE  RunningSum(g, n)[n] <= 0
<1>. DEFINE f == RunningSum(g, n)
            S == {k \in Nat : k <= n => f[k] <= 0}
<1>1. f[0] = 0 /\ \A i \in 1..n : f[i] = f[i - 1] + g[i]
  BY SumSteps
<1>2. \A i \in 0..n : f[i] \in Int
  BY SumInt
<1>. HIDE DEF f
<1>3. 0 \in S
  BY <1>1
<1>4. ASSUME NEW k \in 0..n, k # 0, k - 1 \in S
      PROVE  k \in S
  <2>1. k \in 1..n /\ k - 1 \in 0..n /\ f[k - 1] <= 0
    BY <1>4
  <2>2. f[k] = f[k - 1] + g[k] /\ f[k - 1] \in Int /\ g[k] \in Int /\ g[k] <= 0
    BY <1>1, <1>2, <2>1
  <2>. QED  BY <1>4, <2>1, <2>2
<1>. HIDE DEF S
<1>5. S \in SUBSET Nat
  BY DEF S
<1>6. 0..n \subseteq S
  BY <1>3, <1>4, <1>5, UpTo
<1>. QED  BY <1>6 DEF S, f

(* A sum of naturals that is zero is one of zeros. *)
LEMMA SumOfZeros ==
    ASSUME NEW n \in Nat, NEW g, \A i \in 1..n : g[i] \in Nat, RunningSum(g, n)[n] = 0,
           NEW i \in 1..n
    PROVE  g[i] = 0
<1>. DEFINE f == RunningSum(g, n)
<1>1. f[i] = f[i - 1] + g[i] /\ f[n] = 0
  BY SumSteps
<1>2. \A k \in 0..n : f[k] \in Nat /\ \A j \in 0..k : f[j] <= f[k]
  BY SumGrows
<1>. HIDE DEF f
<1>3. f[i] \in Nat /\ f[i - 1] \in Nat /\ f[i] <= f[n]
  BY <1>2
<1>. QED  BY <1>1, <1>3

-----------------------------------------------------------------------------
(* Weighted random.                                                         *)

(* The sums of the weights. *)
LEMMA CumulativeFacts ==
    ASSUME NEW L, IsList(L)
    PROVE  /\ Cumulative(L)[0] = 0
           /\ \A i \in 1..Len(L) :
                 Cumulative(L)[i] = Cumulative(L)[i - 1] + GetEffectiveWeight(L[i])
           /\ \A i \in 0..Len(L) :
                 Cumulative(L)[i] \in Nat /\ \A j \in 0..i : Cumulative(L)[j] <= Cumulative(L)[i]
<1>. DEFINE n == Len(L)
            g == Weights(L)
<1>1. n \in Nat /\ DOMAIN L = 1..n
  BY DEF IsList
<1>2. \A i \in 1..n : g[i] = GetEffectiveWeight(L[i]) /\ g[i] \in Nat
  BY <1>1, WeightPositive DEF Weights
<1>3. Cumulative(L) = RunningSum(g, n)
  BY DEF Cumulative
<1>. HIDE DEF g, n
<1>4. /\ RunningSum(g, n)[0] = 0
      /\ \A i \in 1..n : RunningSum(g, n)[i] = RunningSum(g, n)[i - 1] + g[i]
  BY <1>1, SumSteps
<1>5. \A i \in 0..n : RunningSum(g, n)[i] \in Nat
                      /\ \A j \in 0..i : RunningSum(g, n)[j] <= RunningSum(g, n)[i]
  BY <1>1, <1>2, SumGrows
<1>. QED  BY <1>2, <1>3, <1>4, <1>5 DEF n

(* The targets that pick candidate i are as many as its weight. *)
LEMMA OddsMatch ==
    ASSUME NEW L, IsList(L), NEW i \in DOMAIN L
    PROVE  Cardinality({t \in 0..(TotalWeight(L) - 1) : WeightedRandomIndex(L, t) = i})
              = GetEffectiveWeight(L[i])
<1>. DEFINE f == Cumulative(L)
            n == Len(L)
            P(t, k) == t < f[k] /\ \A j \in 1..(k - 1) : t >= f[j]
<1>0. n \in Nat /\ DOMAIN L = 1..n /\ i \in 1..n /\ TotalWeight(L) = f[n]
  BY DEF IsList, TotalWeight
<1>1. f[0] = 0 /\ f[i] = f[i - 1] + GetEffectiveWeight(L[i])
  BY <1>0, CumulativeFacts
<1>2. \A k \in 0..n : f[k] \in Nat /\ \A j \in 0..k : f[j] <= f[k]
  BY CumulativeFacts
<1>3. GetEffectiveWeight(L[i]) \in Nat \ {0}
  BY <1>0, WeightPositive
<1>4. \A t : WeightedRandomIndex(L, t) = CHOOSE k \in DOMAIN L : P(t, k)
  BY DEF WeightedRandomIndex
<1>. HIDE DEF f, n
<1>5. ASSUME NEW t \in 0..(f[n] - 1)
      PROVE  WeightedRandomIndex(L, t) = i <=> t \in f[i - 1]..(f[i] - 1)
  <2>. DEFINE S == {k \in 1..n : t < f[k]}
              m == WeightedRandomIndex(L, t)
  <2>1. n \in S
    BY <1>0, <1>1, <1>2, <1>5
  <2>2. PICK k \in S : \A j \in S : k <= j
    <3>1. S \in SUBSET Nat
      BY <1>0
    <3>. HIDE DEF S
    <3>. QED  BY <2>1, <3>1, LeastExists
  <2>3. k \in DOMAIN L /\ P(t, k)
    <3>1. ASSUME NEW j \in 1..(k - 1) PROVE t >= f[j]
      <4>1. j \in 1..n /\ ~(k <= j)
        BY <1>0, <2>2
      <4>2. f[j] \in Nat /\ ~(t < f[j])
        BY <1>0, <1>2, <2>2, <4>1
      <4>. QED  BY <4>2
    <3>. QED  BY <1>0, <2>2, <3>1
  <2>. HIDE DEF P, m
  <2>4. m \in DOMAIN L /\ P(t, m)
    BY <1>4, <2>3 DEF m
  <2>5. m \in 1..n /\ t < f[m] /\ \A j \in 1..(m - 1) : t >= f[j]
    BY <1>0, <2>4 DEF P
  <2>6. ASSUME m = i PROVE t \in f[i - 1]..(f[i] - 1)
    <3>1. t >= f[i - 1]
      <4>1. CASE i = 1
        BY <1>1, <4>1
      <4>2. CASE i # 1
        BY <1>0, <2>5, <2>6, <4>2
      <4>. QED  BY <4>1, <4>2
    <3>2. f[i] \in Nat /\ f[i - 1] \in Nat
      BY <1>0, <1>2
    <3>. QED  BY <2>5, <2>6, <3>1, <3>2
  <2>7. ASSUME t \in f[i - 1]..(f[i] - 1), m # i PROVE FALSE
    <3>1. f[i] \in Nat /\ f[i - 1] \in Nat /\ f[m] \in Nat
      BY <1>0, <1>2, <2>5
    <3>2. CASE m < i
      <4>1. m \in 0..(i - 1) /\ i - 1 \in 0..n
        BY <1>0, <2>5, <3>2
      <4>2. f[m] <= f[i - 1]
        BY <1>2, <4>1
      <4>. QED  BY <2>5, <2>7, <3>1, <4>2
    <3>3. CASE i < m
      BY <1>0, <2>5, <2>7, <3>1, <3>3
    <3>. QED  BY <1>0, <2>5, <2>7, <3>2, <3>3
  <2>. QED  BY <2>6, <2>7 DEF m
<1>6. {t \in 0..(f[n] - 1) : WeightedRandomIndex(L, t) = i} = f[i - 1]..(f[i] - 1)
  <2>1. f[i - 1] \in Nat /\ f[i] \in Nat /\ f[n] \in Nat /\ f[i] <= f[n]
    BY <1>0, <1>2
  <2>2. f[i - 1]..(f[i] - 1) \subseteq 0..(f[n] - 1)
    BY <2>1
  <2>. QED  BY <1>5, <2>2
<1>7. Cardinality(f[i - 1]..(f[i] - 1)) = GetEffectiveWeight(L[i])
  <2>1. f[i - 1] \in Nat /\ f[i] \in Nat
    BY <1>0, <1>2
  <2>2. Cardinality(f[i - 1]..(f[i] - 1)) = IF f[i - 1] > f[i] - 1 THEN 0
                                             ELSE (f[i] - 1) - f[i - 1] + 1
    <3>. DEFINE x == f[i - 1]
                y == f[i] - 1
    <3>1. x \in Int /\ y \in Int
      BY <2>1
    <3>. HIDE DEF x, y
    <3>2. Cardinality(x..y) = IF x > y THEN 0 ELSE y - x + 1
      BY <3>1, FS_Interval
    <3>. QED  BY <3>2 DEF x, y
  <2>. QED  BY <1>1, <1>3, <2>1, <2>2
<1>. QED  BY <1>0, <1>6, <1>7

-----------------------------------------------------------------------------
(* Smooth weighted round robin.                                             *)

LEMMA MulLeq ==
    ASSUME NEW a \in Nat, NEW b \in Nat, NEW k \in Nat, a <= b
    PROVE  a * k <= b * k
<1>1. PICK d \in Nat : b = a + d
  <2>1. b - a \in Nat /\ b = a + (b - a)
    OBVIOUS
  <2>. QED  BY <2>1
<1>2. b * k = a * k + d * k /\ d * k \in Nat /\ a * k \in Nat
  BY <1>1, SMT
<1>. QED  BY <1>2
(* c are the current weights and p the picks of a list: the weights sum up  *)
(* to zero, each is what the picks owe its upstream, and none owes a whole  *)
(* period.                                                                  *)
WrrOK(L, c, p) ==
    LET n == RunningSum(p, Len(L))[Len(L)] IN
    /\ c \in [1..Len(L) -> Int] /\ p \in [1..Len(L) -> Nat]
    /\ RunningSum(c, Len(L))[Len(L)] = 0
    /\ \A i \in 1..Len(L) :
          /\ c[i] = n * GetEffectiveWeight(L[i]) - TotalWeight(L) * p[i]
          /\ -TotalWeight(L) < c[i]

LEMMA TotalPositive ==
    ASSUME NEW L, IsList(L), Len(L) # 0
    PROVE  TotalWeight(L) \in Nat \ {0}
<1>. DEFINE f == Cumulative(L)
            n == Len(L)
<1>1. n \in 1..n /\ n - 1 \in 0..n /\ n \in 0..n
  BY DEF IsList
<1>2. f[n] = f[n - 1] + GetEffectiveWeight(L[n]) /\ f[n - 1] \in Nat
  BY <1>1, CumulativeFacts
<1>3. GetEffectiveWeight(L[n]) \in Nat \ {0}
  BY <1>1, WeightPositive
<1>. HIDE DEF f, n
<1>4. f[n] \in Nat \ {0}
  BY <1>2, <1>3
<1>. QED  BY <1>4 DEF TotalWeight, f, n

LEMMA SumOfZero ==
    ASSUME NEW n \in Nat, NEW g, \A i \in 1..n : g[i] = 0
    PROVE  RunningSum(g, n)[n] = 0
<1>1. RunningSum(g, n)[n] \in Nat
  BY SumGrows
<1>2. RunningSum(g, n)[n] <= 0
  BY SumNotPositive
<1>. QED  BY <1>1, <1>2

LEMMA WrrBegins ==
    ASSUME NEW L, IsList(L), Len(L) # 0
    PROVE  WrrOK(L, Zero(DOMAIN L), Zero(DOMAIN L))
<1>. DEFINE z == Zero(DOMAIN L)
            n == Len(L)
<1>1. n \in Nat /\ z = [i \in 1..n |-> 0]
  BY DEF IsList, Zero
<1>2. z \in [1..n -> Int] /\ z \in [1..n -> Nat] /\ \A i \in 1..n : z[i] = 0
  BY <1>1
<1>. HIDE DEF z
<1>3. RunningSum(z, n)[n] = 0
  BY <1>1, <1>2, SumOfZero
<1>4. TotalWeight(L) \in Nat \ {0} /\ \A i \in 1..n : GetEffectiveWeight(L[i]) \in Nat
  BY TotalPositive, WeightPositive
<1>5. \A i \in 1..n : /\ z[i] = 0 * GetEffectiveWeight(L[i]) - TotalWeight(L) * z[i]
                      /\ -TotalWeight(L) < z[i]
  BY <1>2, <1>4
<1>. QED  BY <1>2, <1>3, <1>5 DEF WrrOK, z

(* There is a first of the largest. *)
LargestOf(m, g, k) == \A j \in 1..k : g[j] < g[m] \/ (g[j] = g[m] /\ m <= j)

LEMMA LargestExists ==
    ASSUME NEW n \in Nat \ {0}, NEW g \in [1..n -> Int]
    PROVE  \E m \in 1..n : LargestOf(m, g, n)
<1>. DEFINE S == {k \in Nat : 0 < k /\ k <= n => \E m \in 1..k : LargestOf(m, g, k)}
<1>1. 0 \in S
  OBVIOUS
<1>2. ASSUME NEW k \in 0..n, k # 0, k - 1 \in S
      PROVE  k \in S
  <2>1. CASE k = 1
    <3>1. LargestOf(1, g, 1)
      BY DEF LargestOf
    <3>. QED  BY <2>1, <3>1
  <2>2. CASE k # 1
    <3>0. k \in 1..n /\ k - 1 \in Nat /\ 0 < k - 1 /\ k - 1 <= n
      BY <1>2, <2>2
    <3>1. PICK m \in 1..(k - 1) : LargestOf(m, g, k - 1)
      BY <1>2, <3>0
    <3>2. g[k] \in Int /\ g[m] \in Int /\ \A j \in 1..k : g[j] \in Int
      BY <3>0
    <3>3. CASE g[m] < g[k]
      <4>1. LargestOf(k, g, k)
        BY <3>0, <3>1, <3>2, <3>3 DEF LargestOf
      <4>. QED  BY <3>0, <4>1
    <3>4. CASE ~(g[m] < g[k])
      <4>1. LargestOf(m, g, k)
        BY <3>0, <3>1, <3>2, <3>4 DEF LargestOf
      <4>. QED  BY <3>0, <4>1
    <3>. QED  BY <3>3, <3>4
  <2>. QED  BY <2>1, <2>2
<1>. HIDE DEF S
<1>3. S \in SUBSET Nat
  BY DEF S
<1>4. 0..n \subseteq S
  BY <1>1, <1>2, <1>3, UpTo
<1>. QED  BY <1>4 DEF S

LEMMA Products ==
    ASSUME NEW a \in Nat, NEW b \in Nat, NEW x \in Nat, NEW y \in Nat
    PROVE  /\ (a + 1) * b = a * b + b /\ x * (y + 1) = x * y + x
           /\ a * b \in Nat /\ x * y \in Nat
OBVIOUS

(* A pick: all weights are raised, and the largest gives up the total. *)
WrrStep(L, c, p, raised, m, e, q) ==
    /\ IsList(L) /\ Len(L) # 0 /\ WrrOK(L, c, p)
    /\ raised \in [1..Len(L) -> Int]
    /\ \A i \in 1..Len(L) : raised[i] = c[i] + GetEffectiveWeight(L[i])
    /\ m \in 1..Len(L) /\ LargestOf(m, raised, Len(L))
    /\ e = [raised EXCEPT ![m] = @ - TotalWeight(L)]
    /\ q = [p EXCEPT ![m] = @ + 1]

LEMMA WrrPick ==
    ASSUME NEW L, NEW c, NEW p, NEW raised, NEW m, NEW e, NEW q,
           WrrStep(L, c, p, raised, m, e, q)
    PROVE  /\ WrrOK(L, e, q)
           /\ RunningSum(q, Len(L))[Len(L)] = RunningSum(p, Len(L))[Len(L)] + 1
<1>. DEFINE n == Len(L)
            W == TotalWeight(L)
            w(i) == GetEffectiveWeight(L[i])
            N == RunningSum(p, n)[n]
<1>0. IsList(L) /\ Len(L) # 0 /\ WrrOK(L, c, p)
  BY DEF WrrStep
<1>1. n \in Nat \ {0} /\ DOMAIN L = 1..n
  BY <1>0 DEF IsList
<1>2. W \in Nat \ {0} /\ \A i \in 1..n : w(i) \in Nat \ {0}
  BY <1>0, TotalPositive, WeightPositive
<1>3. c \in [1..n -> Int] /\ p \in [1..n -> Nat] /\ RunningSum(c, n)[n] = 0
  BY <1>0 DEF WrrOK
<1>owed. \A i \in 1..n : c[i] = N * w(i) - W * p[i] /\ -W < c[i]
  BY <1>0 DEF WrrOK
<1>4. RunningSum(Weights(L), n)[n] = W /\ \A i \in 1..n : Weights(L)[i] = w(i)
  BY <1>1 DEF TotalWeight, Cumulative, Weights
<1>5. raised \in [1..n -> Int] /\ \A i \in 1..n : raised[i] = c[i] + w(i)
  BY DEF WrrStep
<1>. HIDE DEF n, W, w, N
<1>6. RunningSum(raised, n)[n] = W
  <2>1. \A i \in 1..n : c[i] \in Int /\ Weights(L)[i] \in Int
                        /\ raised[i] = c[i] + Weights(L)[i]
    BY <1>2, <1>3, <1>4, <1>5
  <2>2. RunningSum(raised, n)[n] = RunningSum(c, n)[n] + RunningSum(Weights(L), n)[n]
    BY <1>1, <2>1, SumAdd
  <2>. QED  BY <1>2, <1>3, <1>4, <2>2
<1>7. raised[m] > 0
  <2>1. SUFFICES ASSUME ~(raised[m] > 0) PROVE FALSE
    OBVIOUS
  <2>2. \A i \in 1..n : raised[i] \in Int /\ raised[i] <= 0
    <3>1. m \in 1..n /\ \A i \in 1..n : raised[i] < raised[m] \/ raised[i] = raised[m]
      BY DEF WrrStep, LargestOf, n
    <3>2. \A i \in 1..n : raised[i] \in Int
      BY <1>5
    <3>3. \A x, y \in Int : (x < y \/ x = y) /\ ~(y > 0) => x <= 0
      OBVIOUS
    <3>. QED  BY <2>1, <3>1, <3>2, <3>3, Zenon
  <2>3. RunningSum(raised, n)[n] <= 0
    BY <1>1, <2>2, SumNotPositive
  <2>. QED  BY <1>2, <1>6, <2>3
<1>8. m \in 1..n /\ e = [raised EXCEPT ![m] = @ - W] /\ q = [p EXCEPT ![m] = @ + 1]
  BY DEF WrrStep, n, W
<1>9. /\ e \in [1..n -> Int] /\ q \in [1..n -> Nat]
      /\ \A i \in 1..n : e[i] = IF i = m THEN raised[i] - W ELSE raised[i]
      /\ \A i \in 1..n : q[i] = IF i = m THEN p[i] + 1 ELSE p[i]
  BY <1>2, <1>3, <1>5, <1>8
<1>10. RunningSum(e, n)[n] = 0
  <2>1. /\ \A i \in 1..n : raised[i] \in Int
        /\ e[m] = raised[m] + (-W) /\ \A i \in 1..n : i # m => e[i] = raised[i]
    BY <1>2, <1>5, <1>8, <1>9
  <2>2. RunningSum(e, n)[n] = RunningSum(raised, n)[n] + (-W)
    <3>1. -W \in Int /\ n \in Nat /\ m \in 1..n
      BY <1>1, <1>2, <1>8
    <3>. QED  BY <2>1, <3>1, SumExcept
  <2>. QED  BY <1>2, <1>6, <2>2
<1>11. RunningSum(q, n)[n] = N + 1 /\ N \in Nat
  <2>2. RunningSum(q, n)[n] = RunningSum(p, n)[n] + 1
    <3>1. /\ \A i \in 1..n : p[i] \in Int
          /\ q[m] = p[m] + 1 /\ \A i \in 1..n : i # m => q[i] = p[i]
      BY <1>3, <1>8, <1>9
    <3>2. n \in Nat /\ 1 \in Int /\ m \in 1..n
      BY <1>1, <1>8
    <3>. QED  BY <3>1, <3>2, SumExcept
  <2>3. RunningSum(p, n)[n] \in Nat
    <3>1. \A i \in 1..n : p[i] \in Nat
      BY <1>3
    <3>. QED  BY <1>1, <3>1, SumGrows
  <2>. QED  BY <2>2, <2>3 DEF N
<1>12. ASSUME NEW i \in 1..n
       PROVE  e[i] = (N + 1) * w(i) - W * q[i] /\ -W < e[i]
  <2>. DEFINE x == raised[i]
              u == w(i)
              t == c[i]
              y == N * w(i)
              z == W * p[i]
  <2>1. u \in Nat \ {0} /\ p[i] \in Nat /\ t \in Int
    BY <1>2, <1>3
  <2>2. x \in Int /\ x = t + u
    BY <1>5
  <2>3. t = y - z /\ -W < t
    BY <1>owed
  <2>4. /\ (N + 1) * w(i) = y + u /\ W * (p[i] + 1) = z + W
        /\ y \in Nat /\ z \in Nat
    <3>1. N \in Nat /\ w(i) \in Nat /\ W \in Nat /\ p[i] \in Nat
      BY <1>2, <1>11, <2>1
    <3>. HIDE DEF u
    <3>. QED  BY <3>1, Products DEF u
  <2>5. CASE i = m
    <3>1. e[i] = x - W /\ q[i] = p[i] + 1 /\ x > 0
      BY <1>7, <1>9, <2>5
    <3>. HIDE DEF x, u, t, y, z
    <3>2. x - W = (y + u) - (z + W) /\ -W < x - W
      BY <1>2, <2>1, <2>2, <2>3, <2>4, <3>1
    <3>. QED  BY <2>4, <3>1, <3>2
  <2>6. CASE i # m
    <3>1. e[i] = x /\ q[i] = p[i]
      BY <1>9, <2>6
    <3>. HIDE DEF x, u, t, y
    <3>2. x = (y + u) - z /\ -W < x
      <4>. HIDE DEF z
      <4>. QED  BY <1>2, <2>1, <2>2, <2>3, <2>4
    <3>. QED  BY <2>4, <3>1, <3>2
  <2>. QED  BY <2>5, <2>6
<1>13. WrrOK(L, e, q)
  <2>1. /\ e \in [1..Len(L) -> Int] /\ q \in [1..Len(L) -> Nat]
        /\ RunningSum(e, Len(L))[Len(L)] = 0 /\ RunningSum(q, Len(L))[Len(L)] = N + 1
    BY <1>9, <1>10, <1>11 DEF n
  <2>2. \A i \in 1..Len(L) :
           e[i] = (N + 1) * GetEffectiveWeight(L[i]) - TotalWeight(L) * q[i] /\ -TotalWeight(L) < e[i]
    BY <1>12 DEF n, W, w
  <2>. QED  BY <2>1, <2>2 DEF WrrOK
<1>. QED  BY <1>11, <1>13 DEF n, N

(* What WrrOK says of the picks. *)
LEMMA WrrShares ==
    ASSUME NEW L, IsList(L), Len(L) # 0, NEW c, NEW p, WrrOK(L, c, p), NEW i \in 1..Len(L)
    PROVE  LET N == RunningSum(p, Len(L))[Len(L)]
               W == TotalWeight(L)
           IN /\ W * p[i] < N * GetEffectiveWeight(L[i]) + W
              /\ \A k \in 0..N : N = k * W => p[i] = k * GetEffectiveWeight(L[i])
<1>. DEFINE n == Len(L)
            W == TotalWeight(L)
            w(j) == GetEffectiveWeight(L[j])
            N == RunningSum(p, n)[n]
<1>1. n \in Nat \ {0} /\ DOMAIN L = 1..n /\ i \in 1..n
  BY DEF IsList
<1>2. W \in Nat \ {0} /\ \A j \in 1..n : w(j) \in Nat \ {0}
  BY TotalPositive, WeightPositive
<1>3. c \in [1..n -> Int] /\ p \in [1..n -> Nat] /\ RunningSum(c, n)[n] = 0
  BY DEF WrrOK
<1>owed. \A j \in 1..n : c[j] = N * w(j) - W * p[j] /\ -W < c[j]
  BY DEF WrrOK
<1>. HIDE DEF n, W, w
<1>4. N \in Nat
  <2>1. \A j \in 1..n : p[j] \in Nat
    BY <1>3
  <2>. QED  BY <1>1, <2>1, SumGrows
<1>. HIDE DEF N
<1>5. W * p[i] < N * w(i) + W
  <2>1. c[i] = N * w(i) - W * p[i] /\ -W < c[i] /\ p[i] \in Nat /\ w(i) \in Nat
    BY <1>1, <1>2, <1>3, <1>owed
  <2>2. N * w(i) \in Nat /\ W * p[i] \in Nat
    BY <1>2, <1>4, <2>1
  <2>. QED  BY <1>2, <2>1, <2>2
<1>6. ASSUME NEW k \in 0..N, N = k * W
      PROVE  p[i] = k * w(i)
  <2>1. ASSUME NEW j \in 1..n
        PROVE  /\ c[j] = W * (k * w(j) - p[j])
               /\ k * w(j) - p[j] \in Nat /\ c[j] \in Nat
    <3>1. c[j] = N * w(j) - W * p[j] /\ -W < c[j] /\ p[j] \in Nat /\ w(j) \in Nat
          /\ k \in Nat
      BY <1>2, <1>3, <1>4, <1>owed
    <3>. DEFINE d == k * w(j) - p[j]
    <3>2. k * w(j) \in Nat /\ d \in Int
      BY <3>1
    <3>3. (k * W) * w(j) = W * (k * w(j))
      BY <1>2, <3>1
    <3>4. W * (k * w(j)) - W * p[j] = W * d
      BY <1>2, <3>1, <3>2
    <3>5. c[j] = W * d
      BY <1>6, <3>1, <3>3, <3>4
    <3>. HIDE DEF d
    <3>6. d \in Nat
      <4>1. SUFFICES ASSUME d <= -1 PROVE FALSE
        BY <3>2
      <4>2. -d \in Nat /\ 1 <= -d
        BY <3>2, <4>1
      <4>3. 1 * W <= (-d) * W
        BY <1>2, <4>2, MulLeq
      <4>4. (-d) * W = -(W * d) /\ 1 * W = W
        BY <1>2, <3>2
      <4>. QED  BY <1>2, <3>1, <3>2, <3>5, <4>3, <4>4
    <3>7. W * d \in Nat
      BY <1>2, <3>6
    <3>. QED  BY <3>5, <3>6, <3>7 DEF d
  <2>2. c[i] = 0
    BY <1>1, <1>3, <2>1, SumOfZeros
  <2>3. W * (k * w(i) - p[i]) = 0 /\ k * w(i) - p[i] \in Nat
    BY <1>1, <2>1, <2>2
  <2>4. k * w(i) - p[i] = 0
    <3>. DEFINE d == k * w(i) - p[i]
    <3>1. W * d = 0 /\ d \in Nat
      BY <2>3
    <3>. HIDE DEF d
    <3>2. d = 0
      BY <1>2, <3>1
    <3>. QED  BY <3>2 DEF d
  <2>5. k * w(i) \in Nat /\ p[i] \in Nat
    <3>1. k \in Nat /\ w(i) \in Nat /\ p[i] \in Nat
      BY <1>1, <1>2, <1>3, <1>4
    <3>. QED  BY <3>1
  <2>. QED  BY <2>4, <2>5
<1>. QED  BY <1>5, <1>6 DEF n, W, w, N

-----------------------------------------------------------------------------
(* Round robin.                                                             *)

(* How far ahead the turn of index i is when the counter is at x. *)
Ahead(x, n, i) == IF i > x % n THEN i ELSE i + n

(* The picks p are in turn: who has his turn later has as many picks, or    *)
(* one more.                                                                *)
InTurn(p, n, x) ==
    /\ p \in [1..n -> Nat]
    /\ \A i, j \in 1..n : Ahead(x, n, i) <= Ahead(x, n, j)
                             => p[i] <= p[j] /\ p[j] <= p[i] + 1

(* The counter modulo n goes round. *)
LEMMA ModStep ==
    ASSUME NEW x \in Nat, NEW n \in Nat \ {0}
    PROVE  /\ x % n \in 0..(n - 1)
           /\ (x + 1) % n = IF x % n = n - 1 THEN 0 ELSE (x % n) + 1
<1>. DEFINE a == x \div n
            r == x % n
            b == (x + 1) \div n
            t == (x + 1) % n
<1>1. a \in Nat /\ r \in 0..(n - 1) /\ x = n * a + r
  BY SMT
<1>2. b \in Nat /\ t \in 0..(n - 1) /\ x + 1 = n * b + t
  <2>1. x + 1 \in Nat
    OBVIOUS
  <2>. QED  BY <2>1, SMT
<1>. HIDE DEF a, r, b, t
<1>3. n * a = a * n /\ n * b = b * n /\ a * n \in Nat /\ b * n \in Nat
  BY <1>1, <1>2
<1>4. (a + 1) * n = a * n + n /\ (b + 1) * n = b * n + n /\ (a + 2) * n = a * n + n + n
  BY <1>1, <1>2
<1>5. b = a \/ b = a + 1
  <2>1. ~(b + 1 <= a)
    <3>1. b + 1 <= a => (b + 1) * n <= a * n
      BY <1>1, <1>2, MulLeq
    <3>. QED  BY <1>1, <1>2, <1>3, <1>4, <3>1
  <2>2. ~(a + 2 <= b)
    <3>1. a + 2 <= b => (a + 2) * n <= b * n
      BY <1>1, <1>2, MulLeq
    <3>. QED  BY <1>1, <1>2, <1>3, <1>4, <3>1
  <2>. QED  BY <1>1, <1>2, <2>1, <2>2
<1>6. CASE b = a
  <2>1. t = r + 1
    BY <1>1, <1>2, <1>3, <1>6
  <2>. QED  BY <1>1, <1>2, <2>1 DEF r, t
<1>7. CASE b = a + 1
  <2>1. t + n = r + 1
    BY <1>1, <1>2, <1>3, <1>4, <1>7
  <2>. QED  BY <1>1, <1>2, <2>1 DEF r, t
<1>. QED  BY <1>5, <1>6, <1>7

LEMMA TurnsBegin ==
    ASSUME NEW n \in Nat \ {0}, NEW x
    PROVE  InTurn(Zero(1..n), n, x)
BY DEF InTurn, Zero

(* A pick of the index whose turn it is. *)
LEMMA TurnsGoOn ==
    ASSUME NEW n \in Nat \ {0}, NEW x \in Nat, NEW p, InTurn(p, n, x)
    PROVE  InTurn([p EXCEPT ![(x % n) + 1] = @ + 1], n, x + 1)
<1>. DEFINE r == x % n
            t == (x + 1) % n
            m == r + 1
            e == [p EXCEPT ![m] = @ + 1]
            D(i) == IF i > r THEN i ELSE i + n
            E(i) == IF i > t THEN i ELSE i + n
<1>1. r \in 0..(n - 1) /\ t = IF r = n - 1 THEN 0 ELSE r + 1
  BY ModStep
<1>2. /\ p \in [1..n -> Nat]
      /\ \A i, j \in 1..n : D(i) <= D(j) => p[i] <= p[j] /\ p[j] <= p[i] + 1
  BY DEF InTurn, Ahead
<1>. HIDE DEF r, t
<1>3. /\ m \in 1..n /\ e \in [1..n -> Nat]
      /\ \A i \in 1..n : e[i] = IF i = m THEN p[i] + 1 ELSE p[i]
  BY <1>1, <1>2
<1>4. \A i \in 1..n : D(m) <= D(i) /\ E(i) <= E(m)
  BY <1>1
<1>5. \A i, j \in 1..n : i # m /\ j # m /\ E(i) <= E(j) => D(i) <= D(j)
  BY <1>1
<1>6. \A i \in 1..n : i # m => ~(E(m) <= E(i))
  BY <1>1
<1>7. ASSUME NEW i \in 1..n, NEW j \in 1..n, E(i) <= E(j)
      PROVE  e[i] <= e[j] /\ e[j] <= e[i] + 1
  <2>0. p[i] \in Nat /\ p[j] \in Nat /\ p[m] \in Nat
    BY <1>2, <1>3
  <2>1. CASE i = m
    BY <1>3, <1>6, <1>7, <2>0, <2>1
  <2>2. CASE i # m /\ j = m
    <3>1. p[m] <= p[i] /\ p[i] <= p[m] + 1
      BY <1>2, <1>3, <1>4
    <3>2. e[i] = p[i] /\ e[j] = p[m] + 1
      BY <1>3, <2>2
    <3>. QED  BY <2>0, <3>1, <3>2
  <2>3. CASE i # m /\ j # m
    <3>1. D(i) <= D(j)
      BY <1>5, <1>7, <2>3
    <3>2. e[i] = p[i] /\ e[j] = p[j]
      BY <1>3, <2>3
    <3>. QED  BY <1>2, <3>1, <3>2
  <2>. QED  BY <2>1, <2>2, <2>3
<1>. HIDE DEF e
<1>8. e \in [1..n -> Nat] /\ \A i, j \in 1..n : Ahead(x + 1, n, i) <= Ahead(x + 1, n, j)
                                                => e[i] <= e[j] /\ e[j] <= e[i] + 1
  BY <1>3, <1>7 DEF Ahead, t
<1>9. InTurn(e, n, x + 1)
  BY <1>8 DEF InTurn
<1>. QED  BY <1>9 DEF e, m, r

(* In turn means even. *)
LEMMA TurnsAreEven ==
    ASSUME NEW n \in Nat, NEW x \in Nat, NEW p, n # 0 => InTurn(p, n, x),
           NEW i \in 1..n, NEW j \in 1..n
    PROVE  p[i] \in Nat /\ p[j] \in Nat /\ p[i] <= p[j] + 1
<1>1. n \in Nat \ {0} /\ InTurn(p, n, x)
  OBVIOUS
<1>2. x % n \in 0..(n - 1)
  BY <1>1, ModStep
<1>3. Ahead(x, n, i) <= Ahead(x, n, j) \/ Ahead(x, n, j) <= Ahead(x, n, i)
  BY <1>2 DEF Ahead
<1>4. p[i] \in Nat /\ p[j] \in Nat
  BY <1>1 DEF InTurn
<1>5. (p[i] <= p[j] /\ p[j] <= p[i] + 1) \/ (p[j] <= p[i] /\ p[i] <= p[j] + 1)
  BY <1>1, <1>3 DEF InTurn
<1>. QED  BY <1>4, <1>5

(* Sums of numbers that differ by at most one. *)
LEMMA SumWithin ==
    ASSUME NEW n \in Nat, NEW g, NEW h,
           \A i \in 1..n : g[i] \in Nat /\ h[i] \in Nat /\ g[i] <= h[i] + 1
    PROVE  /\ RunningSum(g, n)[n] \in Nat /\ RunningSum(h, n)[n] \in Nat
           /\ RunningSum(g, n)[n] <= RunningSum(h, n)[n] + n
<1>. DEFINE G == RunningSum(g, n)
            H == RunningSum(h, n)
            S == {k \in Nat : k <= n => G[k] <= H[k] + k}
<1>1. /\ G[0] = 0 /\ \A i \in 1..n : G[i] = G[i - 1] + g[i]
      /\ H[0] = 0 /\ \A i \in 1..n : H[i] = H[i - 1] + h[i]
  BY SumSteps
<1>2. \A i \in 0..n : G[i] \in Nat
  BY SumGrows
<1>3. \A i \in 0..n : H[i] \in Nat
  BY SumGrows
<1>. HIDE DEF G, H
<1>4. 0 \in S
  BY <1>1
<1>5. ASSUME NEW k \in 0..n, k # 0, k - 1 \in S
      PROVE  k \in S
  <2>1. k \in 1..n /\ k - 1 \in 0..n /\ G[k - 1] <= H[k - 1] + (k - 1)
    BY <1>5
  <2>2. /\ G[k] = G[k - 1] + g[k] /\ H[k] = H[k - 1] + h[k]
        /\ g[k] \in Nat /\ h[k] \in Nat /\ g[k] <= h[k] + 1
        /\ G[k - 1] \in Nat /\ H[k - 1] \in Nat
    BY <1>1, <1>2, <1>3, <2>1
  <2>3. G[k] <= H[k] + k
    BY <2>1, <2>2
  <2>. QED  BY <1>5, <2>3
<1>. HIDE DEF S
<1>6. S \in SUBSET Nat
  BY DEF S
<1>7. 0..n \subseteq S
  BY <1>4, <1>5, <1>6, UpTo
<1>. QED  BY <1>2, <1>3, <1>7 DEF S, G, H

-----------------------------------------------------------------------------
(* The inductive invariant.                                                 *)

(* A request between its steps. *)
CallOK(q) ==
    /\ list[q] = <<>> \/ list[q] \in setup.lists
    /\ pc[q] # "idle" => list[q] \in setup.lists /\ hash[q] \in Hashes
    /\ pc[q] \in {"select", "store", "get"} => sel[q] \in 1..made
    /\ pc[q] \in {"store", "get"} => Algorithm = "consistent_hash"

Creating == {q \in Request : pc[q] = "create"}

(* Selectors are made by requests that missed at the same time: while the   *)
(* cache has none, each eviction has cost at most one per request; once it  *)
(* has one, those still creating are all that will be made.                 *)
MadeOK ==
    IF cached = 0
    THEN made <= Cardinality(Request) * evictions
    ELSE made + Cardinality(Creating) <= Cardinality(Request) * (evictions + 1)

(* What a selector has picked by round robin. *)
TurnsOK(s) ==
    /\ rrIndex[s] \in Nat
    /\ rrLength[s] # 0 => /\ \E L \in setup.lists : rrLength[s] = Len(L)
                          /\ InTurn(rrPicked[s], rrLength[s], rrIndex[s])

(* What it has picked by weighted round robin. *)
SharesOK(s) ==
    \/ wrrUpstreams[s] = <<>>
    \/ /\ wrrUpstreams[s] \in setup.lists
       /\ WrrOK(wrrUpstreams[s], wrrCurrent[s], wrrPicked[s])

Typed ==
    /\ setup \in Setups
    /\ made \in 0..MaxSelectors /\ cached \in 0..made /\ evictions \in Nat
    /\ pc \in [Request -> {"idle", "create", "select", "store", "get"}]
    /\ list = [q \in Request |-> list[q]] /\ hash = [q \in Request |-> hash[q]]
    /\ sel = [q \in Request |-> sel[q]] /\ result = [q \in Request |-> result[q]]
    /\ rrIndex = [s \in Selector |-> rrIndex[s]]
    /\ rrLength = [s \in Selector |-> rrLength[s]]
    /\ rrPicked = [s \in Selector |-> rrPicked[s]]
    /\ wrrUpstreams = [s \in Selector |-> wrrUpstreams[s]]
    /\ wrrCurrent = [s \in Selector |-> wrrCurrent[s]]
    /\ wrrPicked = [s \in Selector |-> wrrPicked[s]]

SelectorInv ==
    /\ Typed /\ MadeOK
    /\ \A q \in Request : CallOK(q)
    /\ \A s \in Selector : TurnsOK(s) /\ SharesOK(s)

(* The lists of the requests. *)
LEMMA ListsAreLists ==
    ASSUME NEW L \in Lists
    PROVE  IsList(L) /\ Len(L) \in Nat \ {0} /\ DOMAIN L = 1..Len(L) /\ L # <<>>
<1>1. Len(L) \in Nat \ {0} /\ DOMAIN L = 1..Len(L) /\ IsList(L)
  BY RingAssumption DEF IsList
<1>. QED  BY <1>1

LEMMA SetupLists ==
    ASSUME Typed, NEW L \in setup.lists
    PROVE  L \in Lists
BY SelectorAssumption DEF Typed

LEMMA CountRequests ==
    /\ IsFiniteSet(Creating) /\ Cardinality(Creating) \in Nat
    /\ Cardinality(Request) \in Nat /\ Cardinality(Creating) <= Cardinality(Request)
<1>1. Creating \subseteq Request
  BY DEF Creating
<1>. QED  BY <1>1, SelectorAssumption, FS_Subset, FS_CardinalityType

LEMMA SelectorInit == Init => SelectorInv
<1>. SUFFICES ASSUME Init PROVE SelectorInv
  OBVIOUS
<1>. USE DEF Init
<1>1. Typed
  BY SelectorAssumption DEF Typed
<1>2. MadeOK
  <2>1. Cardinality(Request) * 0 = 0
    BY CountRequests
  <2>. QED  BY <2>1 DEF MadeOK
<1>3. \A q \in Request : CallOK(q)
  BY DEF CallOK
<1>4. \A s \in Selector : TurnsOK(s) /\ SharesOK(s)
  BY DEF TurnsOK, SharesOK
<1>. QED  BY <1>1, <1>2, <1>3, <1>4 DEF SelectorInv

-----------------------------------------------------------------------------
(* The steps of the requests keep it.                                       *)

(* A step that leaves the selectors' counters alone. *)
LEMMA CountersKept ==
    ASSUME SelectorInv, UNCHANGED <<setup, rrVars, wrrVars>>
    PROVE  \A s \in Selector : (TurnsOK(s) /\ SharesOK(s))'
BY DEF SelectorInv, rrVars, wrrVars, TurnsOK, SharesOK

(* Who is creating, where nobody begins or ends to. *)
LEMMA MadeKept ==
    ASSUME SelectorInv, UNCHANGED <<cached, made, evictions>>,
           \A q \in Request : pc'[q] = "create" <=> pc[q] = "create"
    PROVE  MadeOK'
<1>1. Creating' = Creating
  BY DEF Creating
<1>. QED  BY <1>1 DEF SelectorInv, MadeOK

LEMMA BeginKeeps ==
    ASSUME SelectorInv, NEW q \in Request, NEW L \in setup.lists, NEW h \in Hashes,
           Begin(q, L, h)
    PROVE  SelectorInv'
<1>. USE DEF cacheVars
<1>0. Typed /\ \A p \in Request : CallOK(p)
  BY DEF SelectorInv
<1>1. UNCHANGED <<setup, cached, made, evictions, rrVars, wrrVars>>
  BY DEF Begin
<1>2. \A s \in Selector : (TurnsOK(s) /\ SharesOK(s))'
  BY <1>1, CountersKept
<1>3. CASE Len(L) = 1
  <2>1. UNCHANGED <<pc, list, hash, sel>> /\ result' = [result EXCEPT ![q] = L[1].address]
    BY <1>3 DEF Begin
  <2>2. Typed'
    BY <1>0, <1>1, <2>1 DEF Typed, rrVars, wrrVars
  <2>3. MadeOK'
    BY <1>1, <2>1, MadeKept
  <2>4. \A p \in Request : CallOK(p)'
    BY <1>0, <1>1, <2>1 DEF CallOK, Hashes, Algorithm
  <2>. QED  BY <1>2, <2>2, <2>3, <2>4 DEF SelectorInv
<1>4. CASE Len(L) # 1
  <2>. DEFINE l == IF cached = 0 THEN "create" ELSE "select"
  <2>1. /\ pc[q] = "idle" /\ pc' = [pc EXCEPT ![q] = l]
        /\ list' = [list EXCEPT ![q] = L] /\ hash' = [hash EXCEPT ![q] = h]
        /\ sel' = [sel EXCEPT ![q] = cached] /\ UNCHANGED result
    BY <1>4 DEF Begin
  <2>2. Typed'
    BY <1>0, <1>1, <2>1 DEF Typed, rrVars, wrrVars
  <2>3. MadeOK'
    <3>1. CASE cached = 0
      BY <1>1, <3>1 DEF SelectorInv, MadeOK
    <3>2. CASE cached # 0
      <4>1. \A p \in Request : pc'[p] = "create" <=> pc[p] = "create"
        BY <1>0, <2>1, <3>2 DEF Typed
      <4>. QED  BY <1>1, <4>1, MadeKept
    <3>. QED  BY <3>1, <3>2
  <2>4. CallOK(q)'
    <3>1. /\ list'[q] = L /\ hash'[q] = h /\ sel'[q] = cached /\ pc'[q] = l
      BY <1>0, <2>1 DEF Typed
    <3>2. cached # 0 => cached \in 1..made
      BY <1>0 DEF Typed
    <3>. QED  BY <1>1, <3>1, <3>2 DEF CallOK, Hashes, Algorithm
  <2>5. \A p \in Request \ {q} : CallOK(p)'
    BY <1>0, <1>1, <2>1 DEF CallOK, Hashes, Algorithm, Typed
  <2>. QED  BY <1>2, <2>2, <2>3, <2>4, <2>5 DEF SelectorInv
<1>. QED  BY <1>3, <1>4

(* A request that missed adds its selector. *)
LEMMA CreateKeeps ==
    ASSUME SelectorInv, NEW q \in Request, CreateSelector(q)
    PROVE  SelectorInv'
<1>. USE DEF callVars
<1>0. Typed /\ MadeOK /\ \A p \in Request : CallOK(p)
  BY DEF SelectorInv
<1>1. /\ pc[q] = "create" /\ pc' = [pc EXCEPT ![q] = "select"]
      /\ made' = made + 1 /\ cached' = made + 1 /\ made < MaxSelectors
      /\ sel' = [sel EXCEPT ![q] = made + 1]
      /\ UNCHANGED <<setup, evictions, list, hash, result, rrVars, wrrVars>>
  BY DEF CreateSelector
<1>2. \A s \in Selector : (TurnsOK(s) /\ SharesOK(s))'
  BY <1>1, CountersKept
<1>3. Typed'
  <2>1. made' \in 0..MaxSelectors /\ cached' \in 0..made'
    BY <1>0, <1>1, SelectorAssumption DEF Typed
  <2>2. /\ pc' \in [Request -> {"idle", "create", "select", "store", "get"}]
        /\ sel' = [p \in Request |-> sel'[p]]
    BY <1>0, <1>1 DEF Typed
  <2>. QED  BY <1>0, <1>1, <2>1, <2>2 DEF Typed, rrVars, wrrVars
<1>4. MadeOK'
  <2>1. Creating' = Creating \ {q} /\ q \in Creating
    BY <1>0, <1>1 DEF Creating, Typed
  <2>2. Cardinality(Creating') = Cardinality(Creating) - 1
    BY <2>1, CountRequests, FS_RemoveElement
  <2>. DEFINE R == Cardinality(Request)
              C == Cardinality(Creating)
  <2>3. R \in Nat /\ C \in Nat /\ C <= R /\ evictions \in Nat /\ made \in Nat
    BY <1>0, CountRequests DEF Typed
  <2>4. R * (evictions + 1) = R * evictions + R /\ R * evictions \in Nat
    BY <2>3, Products
  <2>5. made + C <= R * (evictions + 1)
    <3>. HIDE DEF R, C
    <3>1. cached = 0 => made <= R * evictions
      BY <1>0 DEF MadeOK, R
    <3>2. cached # 0 => made + C <= R * (evictions + 1)
      BY <1>0 DEF MadeOK, R, C
    <3>. QED  BY <2>3, <2>4, <3>1, <3>2
  <2>6. (made + 1) + (C - 1) = made + C
    BY <2>3
  <2>7. cached' # 0
    BY <1>1, <2>3
  <2>. QED  BY <1>1, <2>2, <2>5, <2>6, <2>7 DEF MadeOK
<1>5. \A p \in Request : CallOK(p)'
  BY <1>0, <1>1 DEF CallOK, Hashes, Algorithm, Typed
<1>. QED  BY <1>2, <1>3, <1>4, <1>5 DEF SelectorInv

(* An eviction opens the next epoch. *)
LEMMA EvictKeeps ==
    ASSUME SelectorInv, Evict
    PROVE  SelectorInv'
<1>. USE DEF callVars
<1>0. Typed /\ MadeOK /\ \A p \in Request : CallOK(p)
  BY DEF SelectorInv
<1>1. /\ cached # 0 /\ cached' = 0 /\ evictions' = evictions + 1
      /\ UNCHANGED <<setup, made, pc, list, hash, sel, result, rrVars, wrrVars>>
  BY DEF Evict
<1>2. \A s \in Selector : (TurnsOK(s) /\ SharesOK(s))'
  BY <1>1, CountersKept
<1>3. Typed'
  BY <1>0, <1>1 DEF Typed, rrVars, wrrVars
<1>4. MadeOK'
  <2>1. made + Cardinality(Creating) <= Cardinality(Request) * (evictions + 1)
    BY <1>0, <1>1 DEF MadeOK
  <2>2. /\ made \in Nat /\ Cardinality(Creating) \in Nat
        /\ Cardinality(Request) * (evictions + 1) \in Nat
    <3>1. Cardinality(Request) \in Nat /\ evictions + 1 \in Nat
      BY <1>0, CountRequests DEF Typed
    <3>. QED  BY <1>0, <3>1, CountRequests DEF Typed
  <2>3. made <= Cardinality(Request) * (evictions + 1)
    BY <2>1, <2>2
  <2>. QED  BY <1>1, <2>3 DEF MadeOK
<1>5. \A p \in Request : CallOK(p)'
  BY <1>0, <1>1 DEF CallOK, Hashes, Algorithm
<1>. QED  BY <1>2, <1>3, <1>4, <1>5 DEF SelectorInv

(* One selection of the weighted round robin. *)
LEMMA WrrSelect ==
    ASSUME Typed, NEW s \in Selector, SharesOK(s), NEW L \in setup.lists,
           selectWeightedRoundRobin(s, L)
    PROVE  /\ wrrUpstreams'[s] = L /\ WrrOK(L, wrrCurrent'[s], wrrPicked'[s])
           /\ WrrIndex(s, L) \in DOMAIN L
<1>. DEFINE c == WrrStart(s, L)
            p == WrrPicks(s, L)
            raised == WrrRaised(s, L)
            m == WrrIndex(s, L)
            n == Len(L)
            e == [raised EXCEPT ![m] = @ - TotalWeight(L)]
            q == [p EXCEPT ![m] = @ + 1]
<1>1. IsList(L) /\ n \in Nat \ {0} /\ DOMAIN L = 1..n /\ L # <<>>
  BY SetupLists, ListsAreLists
<1>2. WrrOK(L, c, p)
  <2>1. CASE wrrUpstreams[s] = L
    BY <1>1, <2>1 DEF SharesOK, WrrStart, WrrPicks
  <2>2. CASE wrrUpstreams[s] # L
    BY <1>1, <2>2, WrrBegins DEF WrrStart, WrrPicks
  <2>. QED  BY <2>1, <2>2
<1>3. c \in [1..n -> Int] /\ p \in [1..n -> Nat]
  BY <1>2 DEF WrrOK
<1>4. raised = [i \in 1..n |-> c[i] + GetEffectiveWeight(L[i])]
  BY <1>1 DEF WrrRaised
<1>5. \A i \in 1..n : GetEffectiveWeight(L[i]) \in Nat
  BY <1>1, WeightPositive
<1>6. m = CHOOSE i \in 1..n : \A j \in 1..n :
                 raised[j] < raised[i] \/ (raised[j] = raised[i] /\ i <= j)
  BY <1>1 DEF WrrIndex
<1>7. /\ wrrUpstreams'[s] = L /\ wrrCurrent'[s] = e /\ wrrPicked'[s] = q
  BY DEF selectWeightedRoundRobin, Typed
<1>. HIDE DEF c, p, raised, m, n
<1>8. /\ raised \in [1..n -> Int]
      /\ \A i \in 1..n : raised[i] = c[i] + GetEffectiveWeight(L[i])
  BY <1>3, <1>4, <1>5
<1>9. m \in 1..n /\ LargestOf(m, raised, n)
  <2>1. \E i \in 1..n : LargestOf(i, raised, n)
    BY <1>1, <1>8, LargestExists
  <2>2. m = CHOOSE i \in 1..n : LargestOf(i, raised, n)
    BY <1>6 DEF LargestOf
  <2>. QED  BY <2>1, <2>2
<1>10. WrrOK(L, e, q)
  <2>1. WrrStep(L, c, p, raised, m, e, q)
    BY <1>1, <1>2, <1>8, <1>9 DEF n, WrrStep
  <2>. QED  BY <2>1, WrrPick
<1>. QED  BY <1>1, <1>7, <1>9, <1>10 DEF m

(* One selection of the round robin. *)
LEMMA RrSelect ==
    ASSUME Typed, NEW s \in Selector, TurnsOK(s), NEW L \in setup.lists,
           selectRoundRobin(s, L)
    PROVE  /\ rrIndex'[s] \in Nat /\ rrLength'[s] = Len(L)
           /\ InTurn(rrPicked'[s], Len(L), rrIndex'[s])
<1>. DEFINE n == Len(L)
            x == rrIndex[s]
            p == IF rrLength[s] = n THEN rrPicked[s] ELSE Zero(DOMAIN L)
<1>1. n \in Nat \ {0} /\ DOMAIN L = 1..n
  BY SetupLists, ListsAreLists
<1>2. x \in Nat
  BY DEF TurnsOK
<1>3. InTurn(p, n, x)
  <2>1. CASE rrLength[s] = n
    BY <1>1, <2>1 DEF TurnsOK
  <2>2. CASE rrLength[s] # n
    BY <1>1, <2>2, TurnsBegin
  <2>. QED  BY <2>1, <2>2
<1>4. /\ rrIndex'[s] = x + 1 /\ rrLength'[s] = n
      /\ rrPicked'[s] = [p EXCEPT ![(x % n) + 1] = @ + 1]
  BY DEF selectRoundRobin, RoundRobinIndex, Typed
<1>. HIDE DEF p, x, n
<1>5. InTurn([p EXCEPT ![(x % n) + 1] = @ + 1], n, x + 1)
  BY <1>1, <1>2, <1>3, TurnsGoOn
<1>. QED  BY <1>2, <1>4, <1>5 DEF n

(* A request returns. *)
LEMMA ReturnKeeps ==
    ASSUME SelectorInv, NEW q \in Request, NEW a, Return(q, a), pc[q] # "create",
           UNCHANGED <<setup, cached, made, evictions>>
    PROVE  /\ MadeOK' /\ \A p \in Request : CallOK(p)'
           /\ pc' \in [Request -> {"idle", "create", "select", "store", "get"}]
           /\ list' = [p \in Request |-> list'[p]] /\ hash' = [p \in Request |-> hash'[p]]
           /\ sel' = [p \in Request |-> sel'[p]]
           /\ result' = [p \in Request |-> result'[p]]
<1>0. Typed /\ \A p \in Request : CallOK(p)
  BY DEF SelectorInv
<1>1. /\ pc' = [pc EXCEPT ![q] = "idle"] /\ list' = [list EXCEPT ![q] = <<>>]
      /\ hash' = [hash EXCEPT ![q] = NoHash] /\ sel' = [sel EXCEPT ![q] = 0]
      /\ result' = [result EXCEPT ![q] = a]
  BY DEF Return
<1>2. MadeOK'
  <2>1. \A p \in Request : pc'[p] = "create" <=> pc[p] = "create"
    BY <1>0, <1>1 DEF Typed
  <2>. QED  BY <2>1, MadeKept
<1>3. \A p \in Request : CallOK(p)'
  BY <1>0, <1>1 DEF CallOK, Hashes, Algorithm, Typed
<1>. QED  BY <1>0, <1>1, <1>2, <1>3 DEF Typed

LEMMA SelectKeeps ==
    ASSUME SelectorInv, NEW q \in Request, Select(q)
    PROVE  SelectorInv'
<1>. SUFFICES ASSUME NEW s, NEW L, s = sel[q], L = list[q]
              PROVE  SelectorInv'
  OBVIOUS
<1>0. Typed /\ CallOK(q)
  BY DEF SelectorInv
<1>1. PICK a : Return(q, a)
  BY DEF Select
<1>2. /\ pc[q] = "select" /\ Advance(s, L)
      /\ UNCHANGED <<setup, cached, made, evictions>>
  BY DEF Select, cacheVars
<1>3. L \in setup.lists /\ s \in 1..made /\ s \in Selector
  <2>1. L \in setup.lists /\ s \in 1..made
    BY <1>0, <1>2 DEF CallOK
  <2>2. made \in 0..MaxSelectors /\ MaxSelectors \in Nat
    BY <1>0, SelectorAssumption DEF Typed
  <2>. QED  BY <2>1, <2>2 DEF Selector
<1>4. TurnsOK(s) /\ SharesOK(s)
  BY <1>3 DEF SelectorInv
<1>5. Typed' /\ \A t \in Selector : (TurnsOK(t) /\ SharesOK(t))'
  <2>0. /\ pc' \in [Request -> {"idle", "create", "select", "store", "get"}]
        /\ list' = [p \in Request |-> list'[p]] /\ hash' = [p \in Request |-> hash'[p]]
        /\ sel' = [p \in Request |-> sel'[p]] /\ result' = [p \in Request |-> result'[p]]
    BY <1>1, <1>2, ReturnKeeps
  <2>1. CASE Algorithm = "round_robin"
    <3>1. selectRoundRobin(s, L)
      BY <1>2, <2>1 DEF Advance
    <3>2. /\ rrIndex'[s] \in Nat /\ rrLength'[s] = Len(L)
          /\ InTurn(rrPicked'[s], Len(L), rrIndex'[s])
      BY <1>0, <1>3, <1>4, <3>1, RrSelect
    <3>3. /\ \A t \in Selector \ {s} : /\ rrIndex'[t] = rrIndex[t]
                                       /\ rrLength'[t] = rrLength[t]
                                       /\ rrPicked'[t] = rrPicked[t]
          /\ UNCHANGED wrrVars
      BY <1>0, <3>1 DEF selectRoundRobin, Typed
    <3>4. Typed'
      BY <1>0, <1>2, <2>0, <3>1 DEF Typed, selectRoundRobin, wrrVars
    <3>5. TurnsOK(s)'
      BY <1>2, <1>3, <3>2 DEF TurnsOK
    <3>6. \A t \in Selector \ {s} : TurnsOK(t)'
      BY <1>2, <3>3 DEF SelectorInv, TurnsOK
    <3>7. \A t \in Selector : SharesOK(t)'
      BY <1>2, <3>3 DEF SelectorInv, SharesOK, wrrVars
    <3>. QED  BY <3>4, <3>5, <3>6, <3>7
  <2>2. CASE Algorithm = "weighted_round_robin"
    <3>1. selectWeightedRoundRobin(s, L)
      BY <1>2, <2>2 DEF Advance
    <3>2. wrrUpstreams'[s] = L /\ WrrOK(L, wrrCurrent'[s], wrrPicked'[s])
      BY <1>0, <1>3, <1>4, <3>1, WrrSelect
    <3>3. /\ \A t \in Selector \ {s} : /\ wrrUpstreams'[t] = wrrUpstreams[t]
                                       /\ wrrCurrent'[t] = wrrCurrent[t]
                                       /\ wrrPicked'[t] = wrrPicked[t]
          /\ UNCHANGED rrVars
      BY <1>0, <3>1 DEF selectWeightedRoundRobin, Typed
    <3>4. Typed'
      BY <1>0, <1>2, <2>0, <3>1 DEF Typed, selectWeightedRoundRobin, rrVars
    <3>5. SharesOK(s)'
      BY <1>2, <1>3, <3>2 DEF SharesOK
    <3>6. \A t \in Selector \ {s} : SharesOK(t)'
      BY <1>2, <3>3 DEF SelectorInv, SharesOK
    <3>7. \A t \in Selector : TurnsOK(t)'
      BY <1>2, <3>3 DEF SelectorInv, TurnsOK, rrVars
    <3>. QED  BY <3>4, <3>5, <3>6, <3>7
  <2>3. CASE Algorithm \notin {"round_robin", "weighted_round_robin"}
    <3>1. UNCHANGED <<rrVars, wrrVars>>
      BY <1>2, <2>3 DEF Advance
    <3>2. Typed'
      BY <1>0, <1>2, <2>0, <3>1 DEF Typed, rrVars, wrrVars
    <3>. QED  BY <1>2, <3>1, <3>2, CountersKept
  <2>. QED  BY <2>1, <2>2, <2>3
<1>6. MadeOK' /\ \A p \in Request : CallOK(p)'
  BY <1>1, <1>2, ReturnKeeps
<1>. QED  BY <1>5, <1>6 DEF SelectorInv

(* The steps of consistent_hash touch no counter. *)
LEMMA RingStepKeeps ==
    ASSUME SelectorInv, NEW q \in Request,
           SelectCheck(q) \/ SelectStore(q) \/ SelectGet(q)
    PROVE  SelectorInv'
<1>0. Typed /\ \A p \in Request : CallOK(p)
  BY DEF SelectorInv
<1>1. UNCHANGED <<setup, cached, made, evictions, rrVars, wrrVars>>
  BY DEF SelectCheck, SelectStore, SelectGet, cacheVars
<1>2. \A s \in Selector : (TurnsOK(s) /\ SharesOK(s))'
  BY <1>1, CountersKept
<1>3. CASE SelectGet(q)
  <2>1. PICK a : Return(q, a)
    BY <1>3 DEF SelectGet
  <2>2. pc[q] = "get"
    BY <1>3 DEF SelectGet
  <2>3. /\ MadeOK' /\ \A p \in Request : CallOK(p)'
        /\ pc' \in [Request -> {"idle", "create", "select", "store", "get"}]
        /\ list' = [p \in Request |-> list'[p]] /\ hash' = [p \in Request |-> hash'[p]]
        /\ sel' = [p \in Request |-> sel'[p]] /\ result' = [p \in Request |-> result'[p]]
    BY <1>1, <2>1, <2>2, ReturnKeeps
  <2>4. Typed'
    BY <1>0, <1>1, <2>3 DEF Typed, rrVars, wrrVars
  <2>. QED  BY <1>2, <2>3, <2>4 DEF SelectorInv
<1>4. CASE SelectCheck(q) \/ SelectStore(q)
  <2>1. /\ pc[q] \in {"select", "store"} /\ Algorithm = "consistent_hash"
        /\ \E l \in {"store", "get"} : pc' = [pc EXCEPT ![q] = l]
        /\ UNCHANGED <<list, hash, sel, result>>
    BY <1>0, <1>4 DEF SelectCheck, SelectStore, callVars, CallOK
  <2>2. Typed'
    BY <1>0, <1>1, <2>1 DEF Typed, rrVars, wrrVars
  <2>3. MadeOK'
    <3>1. \A p \in Request : pc'[p] = "create" <=> pc[p] = "create"
      BY <1>0, <2>1 DEF Typed
    <3>. QED  BY <1>1, <3>1, MadeKept
  <2>4. \A p \in Request : CallOK(p)'
    BY <1>0, <1>1, <2>1 DEF CallOK, Hashes, Algorithm, Typed
  <2>. QED  BY <1>2, <2>2, <2>3, <2>4 DEF SelectorInv
<1>. QED  BY <1>3, <1>4

LEMMA SelectorStep == SelectorInv /\ [Next]_vars => SelectorInv'
<1>. SUFFICES ASSUME SelectorInv, [Next]_vars PROVE SelectorInv'
  OBVIOUS
<1>1. CASE UNCHANGED vars
  <2>1. Typed' /\ \A q \in Request : CallOK(q)'
    BY <1>1 DEF vars, SelectorInv, Typed, CallOK, Hashes, Algorithm
  <2>2. MadeOK'
    BY <1>1, MadeKept DEF vars
  <2>3. \A s \in Selector : (TurnsOK(s) /\ SharesOK(s))'
    BY <1>1, CountersKept DEF vars, rrVars, wrrVars
  <2>. QED  BY <2>1, <2>2, <2>3 DEF SelectorInv
<1>. QED  BY <1>1, BeginKeeps, CreateKeeps, EvictKeeps, SelectKeeps, RingStepKeeps DEF Next

LEMMA SelectorInvHolds == Spec => []SelectorInv
BY SelectorInit, SelectorStep, PTL DEF Spec

-----------------------------------------------------------------------------
(* What the counters promise.                                               *)

(* The turns a selector gave, by index. *)
LEMMA TurnsFact ==
    ASSUME SelectorInv, NEW s \in 1..made
    PROVE  /\ rrLength[s] \in Nat
           /\ \A i, j \in 1..rrLength[s] :
                 Turns(s, i) \in Nat /\ Turns(s, i) <= Turns(s, j) + 1
<1>1. s \in Selector
  BY SelectorAssumption DEF SelectorInv, Typed, Selector
<1>2. TurnsOK(s) /\ Typed
  BY <1>1 DEF SelectorInv
<1>3. rrLength[s] \in Nat
  <2>1. CASE rrLength[s] = 0
    BY <2>1
  <2>2. CASE rrLength[s] # 0
    <3>1. PICK L \in setup.lists : rrLength[s] = Len(L)
      BY <1>2, <2>2 DEF TurnsOK
    <3>. QED  BY <1>2, <3>1, SetupLists, ListsAreLists
  <2>. QED  BY <2>1, <2>2
<1>4. ASSUME NEW i \in 1..rrLength[s], NEW j \in 1..rrLength[s]
      PROVE  Turns(s, i) \in Nat /\ Turns(s, i) <= Turns(s, j) + 1
  <2>1. rrIndex[s] \in Nat /\ InTurn(rrPicked[s], rrLength[s], rrIndex[s])
    BY <1>2, <1>3 DEF TurnsOK
  <2>2. /\ rrPicked[s][i] \in Nat /\ rrPicked[s][j] \in Nat
        /\ rrPicked[s][i] <= rrPicked[s][j] + 1
    BY <1>3, <2>1, TurnsAreEven
  <2>. QED  BY <2>2 DEF Turns
<1>. QED  BY <1>3, <1>4

(* For any lists and number of requests: while the lists brought to a       *)
(* round robin selector keep their length, no position is more than one     *)
(* pick ahead of another.                                                   *)
THEOREM TurnsAreTaken == Spec => []EvenTurns
<1>1. SelectorInv => EvenTurns
  BY TurnsFact DEF EvenTurns
<1>. QED  BY <1>1, SelectorInvHolds, PTL

(* For any number of requests and evictions: the selectors that getSelector *)
(* makes of one key, in its race and after evictions, put no position more  *)
(* than one pick per request and epoch ahead of another.                    *)
THEOREM SkewBounded == Spec => []SkewIsBounded
<1>1. SelectorInv => SkewIsBounded
  <2>. SUFFICES ASSUME SelectorInv, NEW L \in setup.lists,
                       \A K \in setup.lists : Len(K) = Len(L),
                       NEW i \in 1..Len(L), NEW j \in 1..Len(L)
                PROVE  AllTurns(i) <= AllTurns(j) + Cardinality(Request) * (evictions + 1)
    BY DEF SkewIsBounded
  <2>. DEFINE g == [s \in 1..made |-> Turns(s, i)]
              h == [s \in 1..made |-> Turns(s, j)]
  <2>1. made \in Nat /\ evictions \in Nat /\ Cardinality(Request) \in Nat
    BY SelectorAssumption, CountRequests DEF SelectorInv, Typed
  <2>2. ASSUME NEW s \in 1..made
        PROVE  g[s] \in Nat /\ h[s] \in Nat /\ g[s] <= h[s] + 1
    <3>1. s \in Selector
      BY SelectorAssumption DEF SelectorInv, Typed, Selector
    <3>2. TurnsOK(s)
      BY <3>1 DEF SelectorInv
    <3>3. CASE rrLength[s] = 0
      <4>1. Turns(s, i) = 0 /\ Turns(s, j) = 0
        BY <3>3 DEF Turns
      <4>. QED  BY <4>1
    <3>4. CASE rrLength[s] # 0
      <4>1. rrLength[s] = Len(L)
        BY <3>2, <3>4 DEF TurnsOK
      <4>2. Turns(s, i) \in Nat /\ Turns(s, j) \in Nat /\ Turns(s, i) <= Turns(s, j) + 1
        BY <4>1, TurnsFact
      <4>. QED  BY <4>2
    <3>. QED  BY <3>3, <3>4
  <2>3. AllTurns(i) = RunningSum(g, made)[made] /\ AllTurns(j) = RunningSum(h, made)[made]
    BY DEF AllTurns
  <2>. HIDE DEF g, h
  <2>4. /\ AllTurns(i) \in Nat /\ AllTurns(j) \in Nat
        /\ AllTurns(i) <= AllTurns(j) + made
    BY <2>1, <2>2, <2>3, SumWithin
  <2>5. made <= Cardinality(Request) * (evictions + 1)
    <3>. DEFINE R == Cardinality(Request)
                C == Cardinality(Creating)
    <3>1. R * (evictions + 1) = R * evictions + R /\ R * evictions \in Nat
      BY <2>1, Products
    <3>2. /\ cached = 0 => made <= R * evictions
          /\ cached # 0 => made + C <= R * (evictions + 1)
      BY DEF SelectorInv, MadeOK
    <3>3. C \in Nat
      BY CountRequests
    <3>. HIDE DEF R, C
    <3>. QED  BY <2>1, <3>1, <3>2, <3>3 DEF R
  <2>6. Cardinality(Request) * (evictions + 1) \in Nat
    BY <2>1
  <2>. QED  BY <2>1, <2>4, <2>5, <2>6
<1>. QED  BY <1>1, SelectorInvHolds, PTL

(* For any list and weights: smooth weighted round robin never puts an      *)
(* upstream a whole pick ahead of its share, and after each period every    *)
(* upstream has had exactly its weight in picks.                            *)
THEOREM SharesAreSmooth == Spec => []SmoothShares
<1>1. SelectorInv => SmoothShares
  <2>. SUFFICES ASSUME SelectorInv, NEW s \in 1..made, NEW i \in DOMAIN wrrUpstreams[s]
                PROVE  LET L == wrrUpstreams[s]
                           p == wrrPicked[s]
                           W == TotalWeight(L)
                           n == RunningSum(p, Len(L))[Len(L)]
                       IN /\ W * p[i] < n * GetEffectiveWeight(L[i]) + W
                          /\ \A k \in 0..n : n = k * W =>
                                p[i] = k * GetEffectiveWeight(L[i])
    BY DEF SmoothShares
  <2>0. s \in Selector /\ Typed
    BY SelectorAssumption DEF SelectorInv, Typed, Selector
  <2>1. wrrUpstreams[s] \in setup.lists /\ WrrOK(wrrUpstreams[s], wrrCurrent[s], wrrPicked[s])
    BY <2>0 DEF SelectorInv, SharesOK
  <2>2. IsList(wrrUpstreams[s]) /\ Len(wrrUpstreams[s]) # 0 /\ i \in 1..Len(wrrUpstreams[s])
    BY <2>0, <2>1, SetupLists, ListsAreLists DEF IsList
  <2>. QED  BY <2>1, <2>2, WrrShares
<1>. QED  BY <1>1, SelectorInvHolds, PTL

(* For any list: of the random targets exactly as many pick an upstream as  *)
(* its weight says.                                                         *)
THEOREM OddsAreWeights == Spec => []RandomMatchesWeights
<1>1. SelectorInv => RandomMatchesWeights
  <2>. SUFFICES ASSUME SelectorInv, NEW q \in Request, NEW i \in DOMAIN list[q]
                PROVE  Cardinality({t \in 0..(TotalWeight(list[q]) - 1) :
                                       WeightedRandomIndex(list[q], t) = i})
                          = GetEffectiveWeight(list[q][i])
    BY DEF RandomMatchesWeights
  <2>1. list[q] \in setup.lists /\ Typed
    BY DEF SelectorInv, CallOK
  <2>. QED  BY <2>1, SetupLists, ListsAreLists, OddsMatch
<1>. QED  BY <1>1, SelectorInvHolds, PTL

-----------------------------------------------------------------------------
(* The hash ring as a function of its list.                                 *)

(* Virtual nodes of different upstreams have different hashes. *)
NoCollisions ==
    \A L \in Lists : \A m, n \in NewConsistentHashRing(L) :
        m.hash = n.hash => m.address = n.address

(* The nodes of a ring: every one comes from an entry of the list. *)
LEMMA NodeOf ==
    ASSUME NEW L, NEW n \in NewConsistentHashRing(L)
    PROVE  \E i \in DOMAIN L : \E j \in 0..(NumNodes(L[i]) - 1) :
              n = [hash |-> NodeHash[L[i].address][j], address |-> L[i].address]
BY DEF NewConsistentHashRing

LEMMA IsNode ==
    ASSUME NEW L, NEW i \in DOMAIN L, NEW j \in 0..(NumNodes(L[i]) - 1)
    PROVE  [hash |-> NodeHash[L[i].address][j], address |-> L[i].address]
              \in NewConsistentHashRing(L)
BY DEF NewConsistentHashRing

(* The hashes are naturals, so that a non-empty set of nodes has a first. *)
LEMMA HashesAreNaturals ==
    ASSUME NEW L \in Lists, NEW n \in NewConsistentHashRing(L)
    PROVE  n.hash \in Nat
<1>1. PICK i \in DOMAIN L : \E j \in 0..(NumNodes(L[i]) - 1) :
         n = [hash |-> NodeHash[L[i].address][j], address |-> L[i].address]
  BY NodeOf
<1>. QED  BY <1>1, HashAssumption, RingAssumption

LEMMA FirstIsFirst ==
    ASSUME NEW S, S # {}, \A n \in S : n.hash \in Nat
    PROVE  First(S) \in S /\ \A m \in S : First(S).hash <= m.hash
<1>. DEFINE H == {n.hash : n \in S}
<1>1. H \subseteq Nat /\ H # {}
  OBVIOUS
<1>2. PICK x \in H : \A y \in H : x <= y
  <2>. HIDE DEF H
  <2>. QED  BY <1>1, LeastExists
<1>5. PICK n \in S : n.hash = x
  BY <1>2
<1>6. \A m \in S : m.hash \in H
  OBVIOUS
<1>7. \A m \in S : n.hash <= m.hash
  BY <1>2, <1>5, <1>6, Zenon
<1>8. \E f \in S : \A m \in S : f.hash <= m.hash
  BY <1>7
<1>. QED  BY <1>8, Zenon DEF First

(* The ring without an upstream is the ring less the upstream's nodes. *)
LEMMA RingWithout ==
    ASSUME NEW L, NEW a
    PROVE  NewConsistentHashRing(Without(L, a)) =
              {n \in NewConsistentHashRing(L) : n.address # a}
<1>. DEFINE M == Without(L, a)
<1>1. DOMAIN M = {i \in DOMAIN L : L[i].address # a} /\ \A i \in DOMAIN M : M[i] = L[i]
  BY DEF Without
<1>. HIDE DEF M
<1>2. ASSUME NEW n \in NewConsistentHashRing(M)
      PROVE  n \in NewConsistentHashRing(L) /\ n.address # a
  <2>1. PICK i \in DOMAIN M : \E j \in 0..(NumNodes(M[i]) - 1) :
           n = [hash |-> NodeHash[M[i].address][j], address |-> M[i].address]
    BY NodeOf
  <2>2. i \in DOMAIN L /\ M[i] = L[i] /\ L[i].address # a
    BY <1>1
  <2>3. n \in NewConsistentHashRing(L)
    BY <2>1, <2>2, IsNode
  <2>. QED  BY <2>1, <2>2, <2>3
<1>3. ASSUME NEW n \in NewConsistentHashRing(L), n.address # a
      PROVE  n \in NewConsistentHashRing(M)
  <2>1. PICK i \in DOMAIN L : \E j \in 0..(NumNodes(L[i]) - 1) :
           n = [hash |-> NodeHash[L[i].address][j], address |-> L[i].address]
    BY NodeOf
  <2>2. i \in DOMAIN M /\ M[i] = L[i]
    BY <1>1, <1>3, <2>1
  <2>. QED  BY <2>1, <2>2, IsNode
<1>4. NewConsistentHashRing(M) = {n \in NewConsistentHashRing(L) : n.address # a}
  BY <1>2, <1>3
<1>. QED  BY <1>4 DEF M

(* Consistency: without an upstream that does not own the key, the key has  *)
(* the owner it had.                                                        *)
LEMMA OwnerStays ==
    ASSUME NoCollisions, NEW L \in Lists, NEW h \in Hash, NEW a, a # RingGet(L, h)
    PROVE  RingGet(Without(L, a), h) = RingGet(L, h)
<1>. DEFINE ring == NewConsistentHashRing(L)
            rest == NewConsistentHashRing(Without(L, a))
            after == {n \in ring : n.hash >= h}
            afterRest == {n \in rest : n.hash >= h}
<1>1. rest = {n \in ring : n.address # a}
  BY RingWithout
<1>2. \A n \in ring : n.hash \in Nat
  BY HashesAreNaturals
<1>3. /\ RingGet(L, h) = IF after = {} THEN First(ring).address ELSE First(after).address
      /\ RingGet(Without(L, a), h) =
            IF afterRest = {} THEN First(rest).address ELSE First(afterRest).address
  BY DEF RingGet
<1>4. \A m, n \in ring : m.hash = n.hash => m.address = n.address
  BY DEF NoCollisions
<1>. HIDE DEF ring, rest
<1>5. ASSUME NEW S \in SUBSET ring, NEW T \in SUBSET ring, S # {},
             T = {n \in S : n.address # a}, First(S).address # a
      PROVE  T # {} /\ First(T).address = First(S).address
  <2>1. First(S) \in S /\ \A m \in S : First(S).hash <= m.hash
    BY <1>2, <1>5, FirstIsFirst
  <2>2. First(S) \in T
    BY <1>5, <2>1
  <2>3. First(T) \in T /\ \A m \in T : First(T).hash <= m.hash
    BY <1>2, <2>2, FirstIsFirst
  <2>4. First(S).hash <= First(T).hash /\ First(T).hash <= First(S).hash
    BY <1>5, <2>1, <2>2, <2>3
  <2>5. First(S).hash \in Nat /\ First(T).hash \in Nat
    BY <1>2, <2>1, <2>3
  <2>6. First(S).hash = First(T).hash
    BY <2>4, <2>5
  <2>. QED  BY <1>4, <2>1, <2>2, <2>3, <2>6
<1>6. afterRest = {n \in after : n.address # a} /\ after \subseteq ring /\ rest \subseteq ring
  BY <1>1
<1>7. CASE after # {}
  <2>1. First(after).address # a
    BY <1>3, <1>7
  <2>2. afterRest \subseteq ring
    BY <1>6
  <2>. HIDE DEF after, afterRest
  <2>. QED  BY <1>3, <1>5, <1>6, <1>7, <2>1, <2>2
<1>8. CASE after = {} /\ ring # {}
  <2>1. First(ring).address # a /\ afterRest = {}
    BY <1>3, <1>6, <1>8
  <2>. HIDE DEF after, afterRest
  <2>. QED  BY <1>1, <1>3, <1>5, <1>6, <1>8, <2>1
<1>9. CASE ring = {}
  <2>1. rest = ring /\ after = {} /\ afterRest = {}
    BY <1>1, <1>9
  <2>. QED  BY <1>3, <2>1
<1>. QED  BY <1>7, <1>8, <1>9

-----------------------------------------------------------------------------
(* The field that holds the ring.                                           *)

(* A request that is about to look its key up and was not overtaken finds a *)
(* ring built for a list with the hash of its own.                          *)
RingOK ==
    /\ hashRing \in [Selector -> setup.lists \cup {NoRing}]
    /\ \A q \in Request : pc[q] = "get" =>
          /\ hashRing[sel[q]] # NoRing
          /\ q \notin overtaken => configHash(hashRing[sel[q]]) = configHash(list[q])

LEMMA RingInit == Init => RingOK
BY DEF Init, RingOK

LEMMA SelectorOf ==
    ASSUME SelectorInv, NEW q \in Request, pc[q] \in {"select", "store", "get"}
    PROVE  sel[q] \in Selector /\ list[q] \in setup.lists /\ list[q] # NoRing
<1>1. sel[q] \in 1..made /\ list[q] \in setup.lists /\ Typed
  BY DEF SelectorInv, CallOK
<1>2. sel[q] \in Selector
  BY <1>1, SelectorAssumption DEF Typed, Selector
<1>. QED  BY <1>1, <1>2, SetupLists, SelectorAssumption

(* A step that leaves the ring alone and brings nobody to the lookup. *)
LEMMA RingKept ==
    ASSUME RingOK, UNCHANGED <<setup, hashRing>>,
           \A q \in Request : pc'[q] = "get" =>
              /\ pc[q] = "get" /\ sel'[q] = sel[q] /\ list'[q] = list[q]
              /\ q \in overtaken => q \in overtaken'
    PROVE  RingOK'
BY DEF RingOK

LEMMA RingStep == SelectorInv /\ RingOK /\ [Next]_vars => RingOK'
<1>. SUFFICES ASSUME SelectorInv, RingOK, [Next]_vars PROVE RingOK'
  OBVIOUS
<1>0. Typed
  BY DEF SelectorInv
<1>1. ASSUME NEW q \in Request, NEW L \in setup.lists, NEW h \in Hashes, Begin(q, L, h)
      PROVE  RingOK'
  <2>1. UNCHANGED <<setup, hashRing, overtaken>>
    BY <1>1 DEF Begin
  <2>2. \A p \in Request : pc'[p] = "get" =>
           pc[p] = "get" /\ sel'[p] = sel[p] /\ list'[p] = list[p]
    BY <1>0, <1>1 DEF Begin, Typed
  <2>. QED  BY <2>1, <2>2, RingKept
<1>2. ASSUME NEW q \in Request, CreateSelector(q) PROVE RingOK'
  <2>1. UNCHANGED <<setup, hashRing, overtaken, list>>
    BY <1>2 DEF CreateSelector, callVars
  <2>2. \A p \in Request : pc'[p] = "get" => pc[p] = "get" /\ sel'[p] = sel[p]
    BY <1>0, <1>2 DEF CreateSelector, Typed
  <2>. QED  BY <2>1, <2>2, RingKept
<1>3. CASE Evict
  BY <1>3, RingKept DEF Evict, callVars
<1>4. ASSUME NEW q \in Request, Select(q) \/ SelectGet(q) PROVE RingOK'
  <2>1. /\ UNCHANGED <<setup, hashRing>> /\ pc' = [pc EXCEPT ![q] = "idle"]
        /\ sel' = [sel EXCEPT ![q] = 0] /\ list' = [list EXCEPT ![q] = <<>>]
        /\ overtaken' = overtaken \ {q}
    BY <1>4 DEF Select, SelectGet, Return
  <2>2. \A p \in Request : pc'[p] = "get" =>
           /\ pc[p] = "get" /\ sel'[p] = sel[p] /\ list'[p] = list[p]
           /\ p \in overtaken => p \in overtaken'
    BY <1>0, <2>1 DEF Typed
  <2>. QED  BY <2>1, <2>2, RingKept
<1>5. ASSUME NEW q \in Request, SelectCheck(q) PROVE RingOK'
  <2>. DEFINE ring == hashRing[sel[q]]
  <2>1. /\ UNCHANGED <<setup, hashRing, overtaken, list, sel>> /\ pc[q] = "select"
        /\ pc' = [pc EXCEPT ![q] = IF ring = NoRing \/ ~Matches(ring, list[q])
                                   THEN "store" ELSE "get"]
    BY <1>5 DEF SelectCheck, callVars
  <2>2. pc'[q] = "get" => ring # NoRing /\ Matches(ring, list[q])
    BY <1>0, <2>1 DEF Typed
  <2>3. \A p \in Request \ {q} : pc'[p] = pc[p]
    BY <1>0, <2>1 DEF Typed
  <2>. QED  BY <2>1, <2>2, <2>3 DEF RingOK, Matches
<1>6. ASSUME NEW q \in Request, SelectStore(q) PROVE RingOK'
  <2>1. /\ pc[q] = "store" /\ pc' = [pc EXCEPT ![q] = "get"]
        /\ hashRing' = [hashRing EXCEPT ![sel[q]] = list[q]]
        /\ overtaken' = overtaken \cup
              {p \in Request : pc[p] = "get" /\ sel[p] = sel[q] /\ list[p] # list[q]}
        /\ UNCHANGED <<setup, list, sel>>
    BY <1>6 DEF SelectStore, callVars
  <2>2. sel[q] \in Selector /\ list[q] \in setup.lists /\ list[q] # NoRing
    BY <2>1, SelectorOf
  <2>3. hashRing' \in [Selector -> setup.lists \cup {NoRing}]
    BY <2>1, <2>2 DEF RingOK
  <2>4. ASSUME NEW p \in Request, pc'[p] = "get"
        PROVE  /\ hashRing'[sel[p]] # NoRing
               /\ p \notin overtaken' => configHash(hashRing'[sel[p]]) = configHash(list[p])
    <3>1. p = q \/ pc[p] = "get"
      BY <1>0, <2>1, <2>4 DEF Typed
    <3>2. sel[p] \in Selector
      BY <2>1, <3>1, SelectorOf
    <3>3. CASE sel[p] = sel[q]
      <4>1. hashRing'[sel[p]] = list[q]
        BY <2>1, <2>2, <3>3 DEF RingOK
      <4>2. p \notin overtaken' => list[p] = list[q]
        BY <2>1, <3>1, <3>3
      <4>. QED  BY <2>2, <4>1, <4>2
    <3>4. CASE sel[p] # sel[q]
      <4>1. hashRing'[sel[p]] = hashRing[sel[p]] /\ pc[p] = "get"
        BY <2>1, <2>2, <3>1, <3>2, <3>4 DEF RingOK
      <4>. QED  BY <2>1, <4>1 DEF RingOK
    <3>. QED  BY <3>3, <3>4
  <2>. QED  BY <2>1, <2>3, <2>4 DEF RingOK
<1>7. CASE UNCHANGED vars
  BY <1>7, RingKept DEF vars
<1>. QED  BY <1>1, <1>2, <1>3, <1>4, <1>5, <1>6, <1>7 DEF Next

THEOREM RingHolds == Spec => [](SelectorInv /\ RingOK)
BY RingInit, RingStep, SelectorInvHolds, PTL DEF Spec

-----------------------------------------------------------------------------
(* What the ring promises.                                                  *)

(* What a lookup returns. *)
LEMMA LookedUp ==
    ASSUME SelectorInv, RingOK, [Next]_vars,
           NEW q \in Request, pc[q] = "get", pc'[q] = "idle", q \notin overtaken
    PROVE  \E K \in setup.lists : /\ configHash(K) = configHash(list[q])
                                  /\ result'[q] = RingGet(K, hash[q])
<1>0. Typed /\ CallOK(q) /\ Algorithm = "consistent_hash"
  BY DEF SelectorInv, CallOK
<1>1. SelectGet(q)
  <2>1. ASSUME NEW p \in Request, p # q,
               \/ \E L \in setup.lists, h \in Hashes : Begin(p, L, h)
               \/ CreateSelector(p) \/ Select(p)
               \/ SelectCheck(p) \/ SelectStore(p) \/ SelectGet(p)
        PROVE  FALSE
    <3>1. pc'[q] = pc[q]
      BY <1>0, <2>1 DEF Begin, CreateSelector, Select, SelectCheck, SelectStore,
         SelectGet, Return, Typed
    <3>. QED  BY <3>1
  <2>2. ~Evict /\ ~UNCHANGED vars
    BY DEF Evict, vars
  <2>3. ~CreateSelector(q) /\ ~Select(q) /\ ~SelectCheck(q) /\ ~SelectStore(q)
    BY DEF CreateSelector, Select, SelectCheck, SelectStore
  <2>4. \A L \in setup.lists, h \in Hashes : ~Begin(q, L, h)
    BY DEF Begin
  <2>. QED  BY <2>1, <2>2, <2>3, <2>4 DEF Next
<1>2. result'[q] = RingGet(hashRing[sel[q]], hash[q])
  BY <1>0, <1>1 DEF SelectGet, Return, Typed
<1>3. sel[q] \in Selector
  BY SelectorOf
<1>4. hashRing[sel[q]] \in setup.lists /\ configHash(hashRing[sel[q]]) = configHash(list[q])
  BY <1>3 DEF RingOK
<1>. QED  BY <1>2, <1>4

(* For any lists, hashes and number of requests: a request gets the owner   *)
(* of its key in the ring of a list with the hash of its own, unless        *)
(* another one replaced the ring between its check and its lookup.          *)
THEOREM OwnersCorrect == Spec => ResultOwnsKey
<1>1. SelectorInv /\ RingOK /\ [Next]_vars =>
         [\A q \in Request :
             pc[q] = "get" /\ pc'[q] = "idle" /\ q \notin overtaken =>
                 \E K \in setup.lists : /\ configHash(K) = configHash(list[q])
                                        /\ result'[q] = RingGet(K, hash[q])]_vars
  BY LookedUp
<1>. QED  BY <1>1, RingHolds, PTL DEF Spec, ResultOwnsKey

(* If no two upstreams' virtual nodes have the same hash, the key of a      *)
(* request moves only when the upstream that owns it leaves.                *)
THEOREM OrphansOnly == NoCollisions => (Spec => []OnlyOrphansMove)
<1>. SUFFICES ASSUME NoCollisions PROVE Spec => []OnlyOrphansMove
  OBVIOUS
<1>1. SelectorInv => OnlyOrphansMove
  <2>. SUFFICES ASSUME SelectorInv, NEW q \in Request,
                       Algorithm = "consistent_hash", pc[q] # "idle",
                       NEW a, a # RingGet(list[q], hash[q])
                PROVE  RingGet(Without(list[q], a), hash[q]) = RingGet(list[q], hash[q])
    BY DEF OnlyOrphansMove
  <2>1. list[q] \in Lists /\ hash[q] \in Hash
    <3>1. list[q] \in setup.lists /\ hash[q] \in Hashes /\ Typed
      BY DEF SelectorInv, CallOK
    <3>2. Hashes = Hash
      BY DEF Hashes
    <3>. QED  BY <3>1, <3>2, SetupLists
  <2>. QED  BY <2>1, OwnerStays
<1>. QED  BY <1>1, SelectorInvHolds, PTL
=============================================================================
