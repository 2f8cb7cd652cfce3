---------------------------- MODULE DataLemmas ----------------------------
(***************************************************************************)
(* Facts about data that several proofs rest on: least elements of sets of *)
(* natural numbers, induction over such sets, functions that are defined   *)
(* recursively, and arrays whose elements have changed places.             *)
(***************************************************************************)
EXTENDS Integers, FiniteSetTheorems, TLAPS, WellFoundedInduction

\* A nonempty set of natural numbers has a least element.
LEMMA NatMin ==
    ASSUME NEW S \in SUBSET Nat, S # {}
    PROVE  \E m \in S : \A o \in S : m <= o
<1> DEFINE R == OpToRel(<, Nat)
<1>1. IsWellFoundedOn(R, Nat)
  BY NatLessThanWellFounded
<1> HIDE DEF R
<1>2. PICK m \in S : \A o \in S : ~(<<o, m>> \in R)
  BY <1>1, WFMin
<1>3. ASSUME NEW o \in S PROVE m <= o
  <2>1. ~(<<o, m>> \in R)
    BY <1>2
  <2>2. ~(o < m)
    BY <2>1 DEF R, OpToRel
  <2>. QED BY <2>2
<1>. QED BY <1>3

\* Induction: a set that holds zero and is closed under successor is Nat.
LEMMA NatClosed ==
    ASSUME NEW S \in SUBSET Nat, 0 \in S, \A m \in S : m + 1 \in S
    PROVE  \A m \in Nat : m \in S
<1>. SUFFICES ASSUME Nat \ S # {} PROVE FALSE
  OBVIOUS
<1>1. PICK m \in Nat \ S : \A o \in Nat \ S : m <= o
  BY NatMin
<1>2. m - 1 \in Nat /\ m - 1 \in S
  BY <1>1
<1>. QED BY <1>1, <1>2

\* Induction up to a bound.
LEMMA NatUpTo ==
    ASSUME NEW m \in Nat, NEW T \in SUBSET Nat, 0 \in T,
           \A j \in 1..m : j - 1 \in T => j \in T
    PROVE  \A j \in 0..m : j \in T
<1> DEFINE S == {n \in Nat : n <= m => n \in T}
<1>1. 0 \in S
  OBVIOUS
<1>2. ASSUME NEW n \in S PROVE n + 1 \in S
  <2>. SUFFICES ASSUME n + 1 <= m PROVE n + 1 \in T
    OBVIOUS
  <2>1. n + 1 \in 1..m /\ (n + 1) - 1 = n /\ n \in T
    OBVIOUS
  <2>. QED BY <2>1
<1>3. S \in SUBSET Nat
  OBVIOUS
<1>4. \A n \in Nat : n \in S
  <2> HIDE DEF S
  <2>. QED BY <1>1, <1>2, <1>3, NatClosed
<1>. QED BY <1>4

\* How many numbers there are up to a bound.
LEMMA IntervalSize ==
    \A m \in Nat : /\ IsFiniteSet(1..m) /\ Cardinality(1..m) = m
                  /\ IsFiniteSet(0..(m - 1)) /\ Cardinality(0..(m - 1)) = m
  BY FS_Interval

\* The partial sums of finitely many natural numbers exist as a function.
LEMMA SumExists ==
    ASSUME NEW m \in Nat, NEW leg \in [1..m -> Nat]
    PROVE  \E f \in [0..m -> Nat] : f[0] = 0 /\ \A j \in 1..m : f[j] = f[j - 1] + leg[j]
<1> DEFINE Partial(n, f) == f[0] = 0 /\ \A j \in 1..n : f[j] = f[j - 1] + leg[j]
           S == {n \in Nat : n <= m => \E f \in [0..n -> Nat] : Partial(n, f)}
<1>1. 0 \in S
  <2> DEFINE f == [j \in 0..0 |-> 0]
  <2>1. f \in [0..0 -> Nat] /\ Partial(0, f)
    <3>1. f \in [0..0 -> Nat] /\ f[0] = 0
      OBVIOUS
    <3>2. \A j \in 1..0 : FALSE
      OBVIOUS
    <3>. QED BY <3>1, <3>2
  <2> HIDE DEF f
  <2>. QED BY <2>1
<1>2. ASSUME NEW n \in S PROVE n + 1 \in S
  <2>. SUFFICES ASSUME n + 1 <= m
                PROVE  \E f \in [0..(n + 1) -> Nat] : Partial(n + 1, f)
    <3> HIDE DEF Partial
    <3>. QED OBVIOUS
  <2>1. PICK g \in [0..n -> Nat] : Partial(n, g)
    <3>1. n <= m /\ n \in S
      OBVIOUS
    <3> HIDE DEF Partial
    <3>. QED BY <3>1
  <2> DEFINE f == [j \in 0..(n + 1) |-> IF j = n + 1 THEN g[n] + leg[n + 1] ELSE g[j]]
  <2>2. leg[n + 1] \in Nat
    OBVIOUS
  <2>3. f \in [0..(n + 1) -> Nat]
    BY <2>2
  <2>4. Partial(n + 1, f)
    <3>1. ASSUME NEW j \in 1..(n + 1) PROVE f[j] = f[j - 1] + leg[j]
      <4>1. CASE j = n + 1
        <5>1. f[n + 1] = g[n] + leg[n + 1]
          OBVIOUS
        <5>2. f[(n + 1) - 1] = g[n]
          OBVIOUS
        <5>. QED BY <4>1, <5>1, <5>2
      <4>2. CASE j # n + 1
        <5>1. j \in 1..n /\ f[j] = g[j] /\ f[j - 1] = g[j - 1]
          BY <4>2
        <5>. QED BY <2>1, <5>1
      <4>. QED BY <4>1, <4>2
    <3>2. f[0] = 0
      BY <2>1
    <3> HIDE DEF f
    <3>. QED BY <3>1, <3>2
  <2> HIDE DEF f
  <2>. QED BY <2>3, <2>4
<1>3. m \in S
  <2>1. S \in SUBSET Nat
    OBVIOUS
  <2> HIDE DEF S
  <2>. QED BY <1>1, <1>2, <2>1, NatClosed
<1>4. \E f \in [0..m -> Nat] : Partial(m, f)
  <2> HIDE DEF Partial
  <2>. QED BY <1>3
<1>. QED BY <1>4

\* Whatever satisfies the recursion of such a sum is a natural number throughout.
LEMMA SumInNat ==
    ASSUME NEW m \in Nat, NEW leg \in [1..m -> Nat], NEW f,
           f[0] = 0, \A j \in 1..m : f[j] = f[j - 1] + leg[j]
    PROVE  \A j \in 0..m : f[j] \in Nat
<1> DEFINE S == {n \in Nat : n <= m => f[n] \in Nat}
<1>1. 0 \in S
  OBVIOUS
<1>2. ASSUME NEW n \in S PROVE n + 1 \in S
  <2>. SUFFICES ASSUME n + 1 <= m PROVE f[n + 1] \in Nat
    OBVIOUS
  <2>1. n + 1 \in 1..m /\ (n + 1) - 1 = n /\ f[n] \in Nat
    OBVIOUS
  <2>2. f[n + 1] = f[n] + leg[n + 1] /\ leg[n + 1] \in Nat
    BY <2>1
  <2>. QED BY <2>1, <2>2
<1>3. \A n \in Nat : n \in S
  <2>1. S \in SUBSET Nat
    OBVIOUS
  <2> HIDE DEF S
  <2>. QED BY <1>1, <1>2, <2>1, NatClosed
<1>. QED BY <1>3

\* What a function applies step by step to a first element exists as a function
\* of the number of steps.
LEMMA IterationExists ==
    ASSUME NEW m \in Nat, NEW X, NEW x0 \in X, NEW step \in [1..m -> [X -> X]]
    PROVE  \E f : /\ \A j \in 0..m : f[j] \in X
                  /\ f[0] = x0 /\ \A j \in 1..m : f[j] = step[j][f[j - 1]]
<1> DEFINE Partial(n, f) == f[0] = x0 /\ \A j \in 1..n : f[j] = step[j][f[j - 1]]
           S == {n \in Nat : n <= m => \E f \in [0..n -> X] : Partial(n, f)}
<1>1. 0 \in S
  <2> DEFINE f == [j \in 0..0 |-> x0]
  <2>1. f \in [0..0 -> X] /\ Partial(0, f)
    <3>1. f \in [0..0 -> X] /\ f[0] = x0
      OBVIOUS
    <3>2. \A j \in 1..0 : FALSE
      OBVIOUS
    <3>. QED BY <3>1, <3>2
  <2> HIDE DEF f
  <2>. QED BY <2>1
<1>2. ASSUME NEW n \in S PROVE n + 1 \in S
  <2>. SUFFICES ASSUME n + 1 <= m
                PROVE  \E f \in [0..(n + 1) -> X] : Partial(n + 1, f)
    <3> HIDE DEF Partial
    <3>. QED OBVIOUS
  <2>1. PICK g \in [0..n -> X] : Partial(n, g)
    <3>1. n <= m /\ n \in S
      OBVIOUS
    <3> HIDE DEF Partial
    <3>. QED BY <3>1
  <2> DEFINE f == [j \in 0..(n + 1) |-> IF j = n + 1 THEN step[n + 1][g[n]] ELSE g[j]]
  <2>2. step[n + 1][g[n]] \in X
    <3>1. n \in 0..n /\ n + 1 \in 1..m
      OBVIOUS
    <3>2. g[n] \in X /\ step[n + 1] \in [X -> X]
      BY <3>1
    <3>. QED BY <3>2
  <2>3. f \in [0..(n + 1) -> X]
    BY <2>2
  <2>4. Partial(n + 1, f)
    <3>1. ASSUME NEW j \in 1..(n + 1) PROVE f[j] = step[j][f[j - 1]]
      <4>1. CASE j = n + 1
        <5>1. f[n + 1] = step[n + 1][g[n]]
          OBVIOUS
        <5>2. f[(n + 1) - 1] = g[n]
          OBVIOUS
        <5>. QED BY <4>1, <5>1, <5>2
      <4>2. CASE j # n + 1
        <5>1. j \in 1..n /\ f[j] = g[j] /\ f[j - 1] = g[j - 1]
          BY <4>2
        <5>. QED BY <2>1, <5>1
      <4>. QED BY <4>1, <4>2
    <3>2. f[0] = x0
      BY <2>1
    <3> HIDE DEF f
    <3>. QED BY <3>1, <3>2
  <2> HIDE DEF f
  <2>. QED BY <2>3, <2>4
<1>3. m \in S
  <2>1. S \in SUBSET Nat
    OBVIOUS
  <2> HIDE DEF S
  <2>. QED BY <1>1, <1>2, <2>1, NatClosed
<1>4. \E f \in [0..m -> X] : Partial(m, f)
  <2> HIDE DEF Partial
  <2>. QED BY <1>3
<1>5. \A f \in [0..m -> X] : \A j \in 0..m : f[j] \in X
  OBVIOUS
<1>. QED BY <1>4, <1>5

\* Finitely many natural numbers have a bound.
LEMMA FiniteBound ==
    ASSUME NEW S, IsFiniteSet(S), NEW r \in [S -> Nat]
    PROVE  \E b \in Nat : \A c \in S : r[c] <= b
<1>1. PICK n \in Nat : \E f : f \in Surjection(1..n, S)
  BY FS_NatSurjection DEF ExistsSurjection
<1>2. PICK f : f \in Surjection(1..n, S)
  BY <1>1
<1>3. (\A p \in 1..n : f[p] \in S) /\ \A c \in S : \E p \in 1..n : f[p] = c
  BY <1>2 DEF Surjection
<1> DEFINE T == {j \in Nat : \E b \in Nat : \A p \in 1..n : p <= j => r[f[p]] <= b}
<1>4. 0 \in T
  OBVIOUS
<1>5. ASSUME NEW j \in 1..n, j - 1 \in T PROVE j \in T
  <2>1. PICK b \in Nat : \A p \in 1..n : p <= j - 1 => r[f[p]] <= b
    BY <1>5
  <2>2. PICK e \in Nat : b <= e /\ r[f[j]] <= e
    <3>1. r[f[j]] \in Nat
      BY <1>3
    <3>. QED BY <3>1
  <2>3. \A p \in 1..n : p <= j => r[f[p]] <= e
    <3>. SUFFICES ASSUME NEW p \in 1..n, p <= j PROVE r[f[p]] <= e
      OBVIOUS
    <3>1. r[f[p]] \in Nat
      BY <1>3
    <3>. QED BY <2>1, <2>2, <3>1
  <2>. QED BY <2>3
<1>6. T \in SUBSET Nat
  OBVIOUS
<1>7. n \in T
  <2> HIDE DEF T
  <2>1. \A j \in 0..n : j \in T
    BY ONLY <1>4, <1>5, <1>6, n \in Nat, NatUpTo
  <2>. QED BY <2>1
<1>. QED BY <1>3, <1>7

\* The value of an element is made of that of the one it comes from, which is of lower
\* rank or has no bearing on it.
Follows(S, up, step, f) == \A c \in S : f[c] = step[c][f[up[c]]]
Grounded(S, rank, up, X, step) ==
    \A c \in S : rank[up[c]] < rank[c] \/ \A u, v \in X : step[c][u] = step[c][v]

\* Such values exist as a function on a finite set.
LEMMA RecursionExists ==
    ASSUME NEW S, IsFiniteSet(S), NEW rank \in [S -> Nat], NEW up \in [S -> S],
           NEW X, NEW x0 \in X, NEW step \in [S -> [X -> X]],
           Grounded(S, rank, up, X, step)
    PROVE  \E f : f \in [S -> X] /\ Follows(S, up, step, f)
<1> DEFINE Next(f) == [c \in S |-> step[c][f[up[c]]]]
           T == {k \in Nat : \E f \in [S -> X] : \A c \in S : rank[c] < k => f[c] = Next(f)[c]}
<1>1. ASSUME NEW f \in [S -> X] PROVE Next(f) \in [S -> X]
  OBVIOUS
<1>2. 0 \in T
  <2>1. \A c \in S : ~(rank[c] < 0)
    OBVIOUS
  <2>2. [c \in S |-> x0] \in [S -> X]
    OBVIOUS
  <2>. QED BY ONLY <2>1, <2>2
<1>3. ASSUME NEW k \in T PROVE k + 1 \in T
  <2>1. PICK f \in [S -> X] : \A c \in S : rank[c] < k => f[c] = Next(f)[c]
    OBVIOUS
  <2>2. ASSUME NEW c \in S, rank[c] < k + 1 PROVE Next(f)[c] = Next(Next(f))[c]
    <3>1. up[c] \in S /\ rank[up[c]] \in Nat /\ rank[c] \in Nat /\ k \in Nat
      OBVIOUS
    <3>2. Next(f)[c] = step[c][f[up[c]]] /\ Next(Next(f))[c] = step[c][Next(f)[up[c]]]
      OBVIOUS
    <3>3. CASE rank[up[c]] < rank[c]
      <4>1. rank[up[c]] < k
        BY ONLY <2>2, <3>1, <3>3
      <4>2. Next(f)[up[c]] = f[up[c]]
        BY ONLY <2>1, <3>1, <4>1
      <4>. QED BY ONLY <3>2, <4>2
    <3>4. CASE \A u, v \in X : step[c][u] = step[c][v]
      <4>1. f[up[c]] \in X /\ Next(f)[up[c]] \in X
        BY <1>1, <3>1
      <4>. QED BY ONLY <3>2, <3>4, <4>1
    <3>. QED BY <3>3, <3>4 DEF Grounded
  <2>3. Next(f) \in [S -> X] /\ k + 1 \in Nat
    BY <1>1
  <2> HIDE DEF Next
  <2>. QED BY ONLY <2>2, <2>3
<1>4. PICK b \in Nat : \A c \in S : rank[c] <= b
  BY FiniteBound
<1>5. b + 1 \in T
  <2>1. T \in SUBSET Nat /\ b + 1 \in Nat
    OBVIOUS
  <2> HIDE DEF T
  <2>2. \A k \in Nat : k \in T
    BY ONLY <1>2, <1>3, <2>1, NatClosed
  <2>. QED BY <2>1, <2>2
<1>6. PICK f \in [S -> X] : \A c \in S : rank[c] < b + 1 => f[c] = Next(f)[c]
  BY <1>5
<1>7. ASSUME NEW c \in S PROVE rank[c] < b + 1
  BY <1>4
<1>. QED BY <1>6, <1>7 DEF Follows

-----------------------------------------------------------------------------
(* Arrays whose elements have changed places. *)

\* Two values of a bijection may change places.
LEMMA SwappedBijection ==
    ASSUME NEW S, NEW f \in Bijection(S, S), NEW a \in S, NEW b \in S
    PROVE  [f EXCEPT ![a] = f[b], ![b] = f[a]] \in Bijection(S, S)
<1> DEFINE g == [f EXCEPT ![a] = f[b], ![b] = f[a]]
           partner(r) == IF r = a THEN b ELSE IF r = b THEN a ELSE r
<1>1. /\ f \in [S -> S]
      /\ \A r, s \in S : f[r] = f[s] => r = s
      /\ \A t \in S : \E r \in S : f[r] = t
  BY DEF Bijection, Injection, Surjection, IsInjective
<1>2. g \in [S -> S] /\ \A r \in S : g[r] = f[partner(r)]
  BY <1>1
<1>3. \A r \in S : partner(r) \in S /\ partner(partner(r)) = r
  OBVIOUS
<1> HIDE DEF g, partner
<1>4. \A r, s \in S : g[r] = g[s] => r = s
  <2>. SUFFICES ASSUME NEW r \in S, NEW s \in S, g[r] = g[s] PROVE r = s
    OBVIOUS
  <2>1. partner(r) = partner(s)
    BY <1>1, <1>2, <1>3
  <2>. QED BY <1>3, <2>1
<1>5. \A t \in S : \E r \in S : g[r] = t
  <2>. SUFFICES ASSUME NEW t \in S PROVE \E r \in S : g[r] = t
    OBVIOUS
  <2>1. PICK r \in S : f[r] = t
    BY <1>1
  <2>2. g[partner(r)] = t
    BY <1>2, <1>3, <2>1
  <2>. QED BY <1>3, <2>2
<1>6. g \in Bijection(S, S)
  BY <1>2, <1>4, <1>5 DEF Bijection, Injection, Surjection, IsInjective
<1>. QED BY <1>6 DEF g

\* Leaving every element in its place is a bijection.
LEMMA SameBijection == ASSUME NEW S PROVE [r \in S |-> r] \in Bijection(S, S)
BY DEF Bijection, Injection, Surjection, IsInjective

\* The places of an array that hold the value c.
Places(S, P, c) == {r \in S : P[r] = c}

\* An array whose elements have changed places holds every value as often.
LEMMA RearrangedCounts ==
    ASSUME NEW S, IsFiniteSet(S), NEW P, NEW Q,
           NEW f \in Bijection(S, S), \A r \in S : P[r] = Q[f[r]], NEW c
    PROVE  Cardinality(Places(S, P, c)) = Cardinality(Places(S, Q, c))
<1> DEFINE U == Places(S, P, c)
           V == Places(S, Q, c)
           h == [r \in U |-> f[r]]
<1>1. /\ f \in [S -> S]
      /\ \A r, s \in S : f[r] = f[s] => r = s
      /\ \A t \in S : \E r \in S : f[r] = t
  BY DEF Bijection, Injection, Surjection, IsInjective
<1>2. h \in Bijection(U, V)
  <2>1. h \in [U -> V] /\ \A r, s \in U : h[r] = h[s] => r = s
    BY <1>1 DEF Places
  <2>2. \A t \in V : \E r \in U : h[r] = t
    BY <1>1 DEF Places
  <2>. QED BY <2>1, <2>2 DEF Bijection, Injection, Surjection, IsInjective
<1>3. IsFiniteSet(U)
  BY FS_Subset DEF Places
<1>. QED
  <2> HIDE DEF U, V, h
  <2>1. ExistsBijection(U, V)
    BY <1>2 DEF ExistsBijection
  <2>2. Cardinality(V) = Cardinality(U)
    BY <1>3, <2>1, FS_Bijection
  <2>. QED BY <2>2 DEF U, V
=============================================================================
