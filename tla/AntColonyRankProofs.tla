------------------------ MODULE AntColonyRankProofs ------------------------
(***************************************************************************)
(* Proofs about AntColonyRank for every number of cities, every input file *)
(* and every build: the fields of an ant agree with its path, the trails   *)
(* are updated from complete and correctly ranked tours only and stay      *)
(* symmetric and above zero, and best is the length of the first ranked.   *)
(***************************************************************************)
EXTENDS AntColonyRank, DataLemmas, FiniteSetTheorems, TLAPS

USE SizeAssumption

-----------------------------------------------------------------------------
(* The distances, lines 83-96. *)

\* A square is not negative.
LEMMA SquareInNat == \A v \in Int : Square(v) \in Nat
<1>1. \A v \in Int : v >= 0 => v * v \in Nat
  OBVIOUS
<1>2. \A v \in Int : v < 0 => v * v \in Nat
  OBVIOUS
<1>. QED BY <1>1, <1>2 DEF Square

\* Every natural number has an integer part of a square root.
LEMMA RootInNat == ASSUME NEW s \in Nat PROVE Root(s) \in Nat
<1> DEFINE S == {r \in Nat : s < Square(r + 1)}
<1>1. \A r \in Nat : r <= Square(r) /\ Square(r) \in Nat
  BY DEF Square
<1>2. s \in S
  <2>1. s + 1 \in Nat /\ s + 1 <= Square(s + 1) /\ Square(s + 1) \in Nat
    BY <1>1
  <2>. QED BY <2>1
<1>3. PICK r \in S : \A o \in S : r <= o
  <2>1. S \in SUBSET Nat /\ S # {}
    BY <1>2
  <2> HIDE DEF S
  <2>. QED BY <2>1, NatMin
<1>4. Square(r) <= s
  <2>1. CASE r = 0
    BY <2>1 DEF Square
  <2>2. CASE r # 0
    <3>1. r - 1 \in Nat /\ (r - 1) + 1 = r /\ ~(r - 1 \in S)
      BY <1>3, <2>2
    <3>. QED BY <1>1, <3>1
  <2>. QED BY <2>1, <2>2
<1>5. r \in 0..s /\ s < Square(r + 1)
  BY <1>1, <1>4
<1>6. Root(s) \in 0..s
  BY <1>4, <1>5 DEF Root
<1>. QED BY <1>6

\* init() fills the distance matrix with distances.
LEMMA DistancesInNat ==
    ASSUME NEW c \in [City -> [x : Int, y : Int]]
    PROVE  Distances(c) \in [City -> [City -> Nat]]
<1>1. \A from, to \in City : Computed(c, from, to) \in Nat
  <2>. SUFFICES ASSUME NEW from \in City, NEW to \in City PROVE Computed(c, from, to) \in Nat
    OBVIOUS
  <2> DEFINE u == Square(c[from].x - c[to].x)
             v == Square(c[from].y - c[to].x)
             w == Square(Scale)
  <2>1. c[from].x - c[to].x \in Int /\ c[from].y - c[to].x \in Int /\ Scale \in Int
    BY ScaleAssumption
  <2>2. u \in Nat /\ v \in Nat /\ w \in Nat
    BY <2>1, SquareInNat
  <2> HIDE DEF u, v, w
  <2>3. w * (u + v) \in Nat
    BY <2>2
  <2>4. Computed(c, from, to) = Root(w * (u + v))
    BY DEF Computed, u, v, w
  <2>. QED BY <2>3, <2>4, RootInNat
<1>. QED BY <1>1 DEF Distances

-----------------------------------------------------------------------------
(* The length of a path. *)

\* The sums of the legs of the first m cities of a path.
LegSums(path, m) ==
    LET legs[p \in 1..m] ==
          IF p = 1 THEN 0 ELSE legs[p - 1] + dist[path[p - 2]][path[p - 1]]
    IN  legs

\* The first m places of a path hold cities.
HoldsCities(path, m) == \A p \in 0..(m - 1) : path[p] \in City

\* The sums exist: each is the one before and a leg.
LEMMA LegSumsDefined ==
    ASSUME dist \in [City -> [City -> Nat]],
           NEW m \in Nat, m >= 1, NEW path, HoldsCities(path, m)
    PROVE  /\ LegSums(path, m)[1] = 0
           /\ \A p \in 2..m : LegSums(path, m)[p]
                                = LegSums(path, m)[p - 1] + dist[path[p - 2]][path[p - 1]]
           /\ \A p \in 1..m : LegSums(path, m)[p] \in Nat
<1> DEFINE D(f) == [p \in 1..m |->
                      IF p = 1 THEN 0 ELSE f[p - 1] + dist[path[p - 2]][path[p - 1]]]
           A == CHOOSE f : f = D(f)
           leg == [p \in 1..m |-> IF p = 1 THEN 0 ELSE dist[path[p - 2]][path[p - 1]]]
<1>1. \A p \in 1..m : p = 1 \/ (p \in 2..m /\ p - 1 \in 1..m /\ p - 2 \in 0..(m - 1)
                                /\ p - 1 \in 0..(m - 1))
  OBVIOUS
<1>2. \A p \in 2..m : dist[path[p - 2]][path[p - 1]] \in Nat
  <2>. SUFFICES ASSUME NEW p \in 2..m PROVE dist[path[p - 2]][path[p - 1]] \in Nat
    OBVIOUS
  <2>1. p - 2 \in 0..(m - 1) /\ p - 1 \in 0..(m - 1)
    OBVIOUS
  <2>2. path[p - 2] \in City /\ path[p - 1] \in City
    BY <2>1 DEF HoldsCities
  <2>. QED BY <2>2
<1>3. leg \in [1..m -> Nat]
  BY <1>1, <1>2
<1>4. PICK f \in [0..m -> Nat] : f[0] = 0 /\ \A p \in 1..m : f[p] = f[p - 1] + leg[p]
  <2> HIDE DEF leg
  <2>. QED BY <1>3, SumExists
<1> DEFINE g == [p \in 1..m |-> f[p]]
<1>5. g = D(g)
  <2>1. ASSUME NEW p \in 1..m
        PROVE  f[p] = IF p = 1 THEN 0 ELSE g[p - 1] + dist[path[p - 2]][path[p - 1]]
    <3>1. CASE p = 1
      <4>1. f[1] = f[0] + leg[1] /\ leg[1] = 0
        BY <1>4
      <4>. QED BY <1>4, <3>1, <4>1
    <3>2. CASE p # 1
      <4>1. f[p] = f[p - 1] + leg[p] /\ leg[p] = dist[path[p - 2]][path[p - 1]]
        BY <1>4, <3>2
      <4>2. g[p - 1] = f[p - 1]
        BY <1>1, <3>2
      <4>. QED BY <3>2, <4>1, <4>2
    <3>. QED BY <3>1, <3>2
  <2>. QED BY <2>1
<1>6. A = D(A)
  <2> HIDE DEF g, D
  <2>. QED BY <1>5
<1>7. LegSums(path, m) = A
  BY DEF LegSums
<1> HIDE DEF A
<1>8. A[1] = 0 /\ \A p \in 2..m : A[p] = A[p - 1] + dist[path[p - 2]][path[p - 1]]
  BY <1>6
<1> DEFINE T == {p \in Nat : p + 1 \in 1..m => A[p + 1] \in Nat}
<1>9. \A p \in Nat : p \in T
  <2>1. 0 \in T
    BY <1>8
  <2>2. ASSUME NEW p \in T PROVE p + 1 \in T
    <3>. SUFFICES ASSUME p + 2 <= m PROVE A[p + 2] \in Nat
      OBVIOUS
    <3>1. p + 2 \in 2..m /\ (p + 2) - 1 = p + 1 /\ A[p + 1] \in Nat
      OBVIOUS
    <3>2. A[p + 2] = A[(p + 2) - 1] + dist[path[(p + 2) - 2]][path[(p + 2) - 1]]
      BY <1>8, <3>1
    <3>3. dist[path[(p + 2) - 2]][path[(p + 2) - 1]] \in Nat
      BY <1>2, <3>1
    <3>. QED BY <3>1, <3>2, <3>3
  <2>3. T \in SUBSET Nat
    OBVIOUS
  <2> HIDE DEF T
  <2>. QED BY <2>1, <2>2, <2>3, NatClosed
<1>10. \A p \in 1..m : A[p] \in Nat
  <2>1. \A p \in 1..m : p - 1 \in Nat /\ (p - 1) + 1 = p
    OBVIOUS
  <2>. QED BY <1>9, <2>1
<1>. QED BY <1>7, <1>8, <1>10

\* Paths that agree in their first m places have the same sums that far.
LEMMA LegSumsAgree ==
    ASSUME dist \in [City -> [City -> Nat]],
           NEW m \in Nat, m >= 1, NEW P, HoldsCities(P, m),
           NEW o \in Nat, m <= o, NEW Q, HoldsCities(Q, o),
           \A p \in 0..(m - 1) : P[p] = Q[p]
    PROVE  LegSums(P, m)[m] = LegSums(Q, o)[m]
<1> DEFINE A == LegSums(P, m)
           B == LegSums(Q, o)
           T == {p \in Nat : p + 1 \in 1..m => A[p + 1] = B[p + 1]}
<1>1. A[1] = 0 /\ \A p \in 2..m : A[p] = A[p - 1] + dist[P[p - 2]][P[p - 1]]
  BY LegSumsDefined
<1>2. B[1] = 0 /\ \A p \in 2..o : B[p] = B[p - 1] + dist[Q[p - 2]][Q[p - 1]]
  BY LegSumsDefined
<1> HIDE DEF A, B
<1>3. \A p \in Nat : p \in T
  <2>1. 0 \in T
    BY <1>1, <1>2
  <2>2. ASSUME NEW p \in T PROVE p + 1 \in T
    <3>. SUFFICES ASSUME p + 2 <= m PROVE A[p + 2] = B[p + 2]
      OBVIOUS
    <3>1. /\ p + 2 \in 2..m /\ p + 2 \in 2..o /\ (p + 2) - 1 = p + 1 /\ (p + 2) - 2 = p
          /\ p \in 0..(m - 1) /\ p + 1 \in 0..(m - 1) /\ A[p + 1] = B[p + 1]
      OBVIOUS
    <3>2. A[p + 2] = A[p + 1] + dist[P[p]][P[p + 1]]
      BY <1>1, <3>1
    <3>3. B[p + 2] = B[p + 1] + dist[Q[p]][Q[p + 1]]
      BY <1>2, <3>1
    <3>. QED BY <3>1, <3>2, <3>3
  <2>3. T \in SUBSET Nat
    OBVIOUS
  <2> HIDE DEF T
  <2>. QED BY <2>1, <2>2, <2>3, NatClosed
<1>4. m - 1 \in Nat /\ (m - 1) + 1 = m /\ m \in 1..m
  OBVIOUS
<1>5. A[m] = B[m]
  BY <1>3, <1>4
<1>. QED BY <1>5 DEF A, B

\* The length in terms of the sums.
LEMMA LengthIsLegSum ==
    ASSUME NEW path, NEW m
    PROVE  Length(path, m) =
             LegSums(path, m)[m]
               + (IF m = MAX_CITIES THEN dist[path[m - 1]][path[0]] ELSE 0)
BY DEF Length, LegSums

\* One city more: one leg more and, with the last city, the way back.
LEMMA LengthGrows ==
    ASSUME dist \in [City -> [City -> Nat]],
           NEW m \in 1..(MAX_CITIES - 1), NEW path, HoldsCities(path, m),
           NEW Q, HoldsCities(Q, m + 1), \A p \in 0..(m - 1) : path[p] = Q[p]
    PROVE  /\ Length(path, m) \in Nat
           /\ Length(Q, m + 1) = Length(path, m) + dist[path[m - 1]][Q[m]]
                + (IF m + 1 = MAX_CITIES THEN dist[Q[m]][Q[0]] ELSE 0)
<1>1. m \in Nat /\ m >= 1 /\ m + 1 \in Nat /\ m + 1 >= 1 /\ m <= m + 1 /\ m # MAX_CITIES
      /\ m \in 1..m /\ m + 1 \in 2..(m + 1) /\ (m + 1) - 1 = m /\ (m + 1) - 2 = m - 1
      /\ m - 1 \in 0..(m - 1)
  OBVIOUS
<1>2. LegSums(path, m)[m] = LegSums(Q, m + 1)[m]
  BY <1>1, LegSumsAgree
<1>3. LegSums(Q, m + 1)[m + 1] = LegSums(Q, m + 1)[m] + dist[Q[m - 1]][Q[m]]
  <2>1. \A p \in 2..(m + 1) : LegSums(Q, m + 1)[p]
                                = LegSums(Q, m + 1)[p - 1] + dist[Q[p - 2]][Q[p - 1]]
    BY <1>1, LegSumsDefined
  <2>. QED BY <1>1, <2>1
<1>4. LegSums(path, m)[m] \in Nat
  BY <1>1, LegSumsDefined
<1>5. Length(path, m) = LegSums(path, m)[m]
  BY <1>1, <1>4, LengthIsLegSum
<1>6. Length(Q, m + 1) = LegSums(Q, m + 1)[m + 1]
          + (IF m + 1 = MAX_CITIES THEN dist[Q[m]][Q[0]] ELSE 0)
  BY <1>1, LengthIsLegSum
<1>7. path[m - 1] = Q[m - 1]
  BY <1>1
<1>8. /\ dist[path[m - 1]][Q[m]] \in Nat /\ dist[Q[m]][Q[0]] \in Nat
  <2>1. Q[m - 1] \in City /\ Q[m] \in City /\ Q[0] \in City
    BY DEF HoldsCities
  <2>. QED BY <1>7, <2>1
<1>. QED BY <1>2, <1>3, <1>4, <1>5, <1>6, <1>7, <1>8

\* The length of a path depends on the distances only.
LEMMA LengthStable == \A path, m : dist' = dist => Length(path, m)' = Length(path, m)
BY DEF Length

-----------------------------------------------------------------------------
(* sortAnts(), lines 238-259. *)

\* The arrays that hold the ants of r in some order.
Arrangements(r) ==
    {s \in [Ant -> antType] :
        \E f \in Bijection(Ant, Ant) : \A a \in Ant : s[a] = r[f[a]]}

\* The places below p are settled: none after them has a shorter tour.
SettledBelow(s, p) ==
    \A a, b \in Ant : a < p /\ a < b => s[a].tourLength <= s[b].tourLength

\* Place p holds a shortest tour of the places from p to, not including, q.
ShortestOf(s, p, q) ==
    \A b \in Ant : p < b /\ b < q => s[p].tourLength <= s[b].tourLength

\* One exchange (lines 251-256) only changes the order, keeps the settled places
\* and adds one place to those that p has been compared with.
LEMMA ExchangeKeeps ==
    ASSUME NEW r, NEW s \in Arrangements(r), NEW p \in Ant, NEW q \in Ant
    PROVE  /\ Exchange(s, p, q) \in Arrangements(r)
           /\ p < q /\ SettledBelow(s, p) /\ ShortestOf(s, p, q) =>
                /\ SettledBelow(Exchange(s, p, q), p)
                /\ ShortestOf(Exchange(s, p, q), p, q + 1)
<1> DEFINE G == Exchange(s, p, q)
<1>1. PICK f \in Bijection(Ant, Ant) : \A a \in Ant : s[a] = r[f[a]]
  BY DEF Arrangements
<1>2. s \in [Ant -> antType] /\ f \in [Ant -> Ant]
  BY DEF Arrangements, Bijection, Injection
<1>3. /\ Ant \subseteq Nat
      /\ \A a \in Ant : s[a].tourLength \in Nat
  BY <1>2 DEF antType, Ant
<1>4. CASE ~(s[p].tourLength >= s[q].tourLength)
  <2>1. G = s
    BY <1>4 DEF Exchange
  <2>2. ASSUME ShortestOf(s, p, q) PROVE ShortestOf(s, p, q + 1)
    <3>. SUFFICES ASSUME NEW b \in Ant, p < b, b < q + 1
                  PROVE  s[p].tourLength <= s[b].tourLength
      BY DEF ShortestOf
    <3>1. CASE b = q
      BY <1>3, <1>4, <3>1
    <3>2. CASE b # q
      <4>1. b < q
        BY <1>3, <3>2
      <4>. QED BY <2>2, <4>1 DEF ShortestOf
    <3>. QED BY <3>1, <3>2
  <2>. QED BY <2>1, <2>2
<1>5. CASE s[p].tourLength >= s[q].tourLength
  <2> DEFINE g == [f EXCEPT ![p] = f[q], ![q] = f[p]]
  <2>1. G = [s EXCEPT ![p] = s[q], ![q] = s[p]]
    BY <1>5 DEF Exchange
  <2>2. G \in [Ant -> antType]
    BY <1>2, <2>1
  <2>3. \A a \in Ant : G[a] = IF a = q THEN s[p] ELSE IF a = p THEN s[q] ELSE s[a]
    BY <1>2, <2>1
  <2>4. \A a \in Ant : G[a] = r[g[a]]
    BY <1>1, <1>2, <2>3
  <2>5. g \in Bijection(Ant, Ant)
    BY SwappedBijection
  <2>6. G \in Arrangements(r)
    BY <2>2, <2>4, <2>5 DEF Arrangements
  <2> HIDE DEF G, g
  <2>7. ASSUME p < q, SettledBelow(s, p), ShortestOf(s, p, q)
        PROVE  SettledBelow(G, p) /\ ShortestOf(G, p, q + 1)
    <3>1. ASSUME NEW a \in Ant, NEW b \in Ant, a < p, a < b
          PROVE  G[a].tourLength <= G[b].tourLength
      <4>1. a # p /\ a # q /\ a < q
        BY <1>3, <2>7, <3>1
      <4>2. /\ s[a].tourLength <= s[b].tourLength
            /\ s[a].tourLength <= s[p].tourLength
            /\ s[a].tourLength <= s[q].tourLength
        BY <2>7, <3>1, <4>1 DEF SettledBelow
      <4>. QED BY <2>3, <4>1, <4>2
    <3>2. ASSUME NEW b \in Ant, p < b, b < q + 1
          PROVE  G[p].tourLength <= G[b].tourLength
      <4>1. G[p] = s[q] /\ b # p
        BY <1>3, <2>3, <2>7, <3>2
      <4>2. CASE b = q
        BY <1>5, <2>3, <4>1, <4>2
      <4>3. CASE b # q
        <5>1. b < q
          BY <1>3, <3>2, <4>3
        <5>2. s[p].tourLength <= s[b].tourLength /\ G[b] = s[b]
          BY <2>3, <2>7, <3>2, <4>1, <4>3, <5>1 DEF ShortestOf
        <5>. QED BY <1>3, <1>5, <4>1, <5>2
      <4>. QED BY <4>2, <4>3
    <3>. QED BY <3>1, <3>2 DEF SettledBelow, ShortestOf
  <2>. QED BY <2>6, <2>7 DEF G
<1>. QED BY <1>4, <1>5

\* The comparisons of place p with all the later ones (lines 249-257) settle it.
LEMMA AgainstKeeps ==
    ASSUME NEW r, NEW s \in Arrangements(r), NEW p \in Ant
    PROVE  /\ Against(p, s) \in Arrangements(r)
           /\ SettledBelow(s, p) => SettledBelow(Against(p, s), p + 1)
<1> DEFINE last == MAX_CITIES - 1
           m == last - p
           X == Arrangements(r)
           D(f) == [q \in p..last |-> IF q = p THEN s ELSE Exchange(f[q - 1], p, q)]
           A == CHOOSE f : f = D(f)
           Step == [j \in 1..m |-> [x \in X |-> Exchange(x, p, p + j)]]
<1>1. m \in Nat /\ p \in Nat /\ last \in Nat /\ p + m = last
  BY DEF Ant
<1>2. \A q \in p..last : q \in Ant
  BY <1>1 DEF Ant
<1>3. Step \in [1..m -> [X -> X]]
  <2>1. \A j \in 1..m : p + j \in Ant
    BY <1>1, <1>2
  <2>2. \A j \in 1..m : \A x \in X : Exchange(x, p, p + j) \in X
    BY <2>1, ExchangeKeeps
  <2> HIDE DEF X
  <2>. QED BY <2>2
<1>4. \A j \in 1..m : \A x \in X : Step[j][x] = Exchange(x, p, p + j)
  OBVIOUS
<1>5. Against(p, s) = A[last]
  BY DEF Against
<1> HIDE DEF X, Step, m
<1>6. PICK h : /\ \A j \in 0..m : h[j] \in X
               /\ h[0] = s /\ \A j \in 1..m : h[j] = Step[j][h[j - 1]]
  <2>1. s \in X
    BY DEF X
  <2>2. m \in Nat
    BY <1>1
  <2> HIDE DEF D, A
  <2>. QED BY ONLY <1>3, <2>1, <2>2, IterationExists
<1> DEFINE g == [q \in p..last |-> h[q - p]]
<1>7. g = D(g)
  <2>1. ASSUME NEW q \in p..last
        PROVE  g[q] = IF q = p THEN s ELSE Exchange(g[q - 1], p, q)
    <3>1. CASE q = p
      <4>1. q - p = 0
        BY <1>1, <3>1
      <4>. QED BY <1>6, <3>1, <4>1
    <3>2. CASE q # p
      <4>1. /\ q - p \in 1..m /\ q - 1 \in p..last /\ (q - p) - 1 = (q - 1) - p
            /\ (q - p) - 1 \in 0..m /\ p + (q - p) = q
        BY <1>1, <3>2
      <4>2. h[q - p] = Exchange(h[(q - p) - 1], p, q)
        BY <1>4, <1>6, <4>1
      <4>. QED BY <3>2, <4>1, <4>2
    <3>. QED BY <3>1, <3>2
  <2>. QED BY <2>1
<1>8. A = D(A)
  <2> HIDE DEF g, D
  <2>. QED BY <1>7
<1> HIDE DEF A, last
<1>9. A[p] = s /\ \A q \in p..last : q # p => A[q] = Exchange(A[q - 1], p, q)
  BY <1>1, <1>8 DEF m
<1> DEFINE T == {j \in Nat : j <= m =>
                   /\ A[p + j] \in X
                   /\ SettledBelow(s, p) =>
                        SettledBelow(A[p + j], p) /\ ShortestOf(A[p + j], p, p + j + 1)}
<1>10. \A j \in Nat : j \in T
  <2>1. 0 \in T
    <3>1. ShortestOf(s, p, p + 0 + 1)
      BY <1>1 DEF ShortestOf, Ant
    <3>2. A[p + 0] = s
      BY <1>1, <1>9
    <3>. QED BY <3>1, <3>2 DEF X
  <2>2. ASSUME NEW j \in T PROVE j + 1 \in T
    <3> DEFINE q == p + (j + 1)
               before == A[p + j]
    <3>. SUFFICES ASSUME j + 1 <= m
                  PROVE  /\ A[q] \in X
                         /\ SettledBelow(s, p) =>
                              SettledBelow(A[q], p) /\ ShortestOf(A[q], p, q + 1)
      OBVIOUS
    <3>1. /\ before \in X
          /\ SettledBelow(s, p) => SettledBelow(before, p) /\ ShortestOf(before, p, p + j + 1)
      BY <1>1
    <3>2. q \in p..last /\ q # p /\ q - 1 = p + j /\ q = p + j + 1 /\ p < q /\ q \in Ant
      BY <1>1, <1>2
    <3>3. A[q] = Exchange(before, p, q)
      BY <1>9, <3>2
    <3> HIDE DEF q, before
    <3>. QED BY <3>1, <3>2, <3>3, ExchangeKeeps DEF X
  <2>3. T \in SUBSET Nat
    OBVIOUS
  <2> HIDE DEF T
  <2>. QED BY <2>1, <2>2, <2>3, NatClosed
<1>11. /\ A[last] \in X
       /\ SettledBelow(s, p) => SettledBelow(A[last], p) /\ ShortestOf(A[last], p, last + 1)
  <2>1. m \in T
    BY <1>1, <1>10
  <2>. QED BY <1>1, <2>1
<1>12. ASSUME SettledBelow(A[last], p), ShortestOf(A[last], p, last + 1)
       PROVE  SettledBelow(A[last], p + 1)
  <2>. SUFFICES ASSUME NEW a \in Ant, NEW b \in Ant, a < p + 1, a < b
                PROVE  A[last][a].tourLength <= A[last][b].tourLength
    BY DEF SettledBelow
  <2>1. CASE a < p
    BY <1>12, <2>1 DEF SettledBelow
  <2>2. CASE ~(a < p)
    <3>1. a = p /\ b < last + 1
      BY <1>1, <2>2 DEF Ant, last
    <3>. QED BY <1>12, <3>1 DEF ShortestOf
  <2>. QED BY <2>1, <2>2
<1>. QED BY <1>5, <1>11, <1>12 DEF X

\* sortAnts (lines 247-258) loses and doubles no ant and leaves the shorter tours
\* first.
LEMMA SortedRanks ==
    ASSUME NEW r, r \in [Ant -> antType]
    PROVE  /\ Sorted(r) \in Arrangements(r)
           /\ SettledBelow(Sorted(r), MAX_CITIES)
<1> DEFINE X == Arrangements(r)
           D(f) == [p \in 0..MAX_CITIES |-> IF p = 0 THEN r ELSE Against(p - 1, f[p - 1])]
           A == CHOOSE f : f = D(f)
           Step == [p \in 1..MAX_CITIES |-> [x \in X |-> Against(p - 1, x)]]
<1>1. \A p \in 1..MAX_CITIES : p - 1 \in Ant /\ p - 1 \in 0..MAX_CITIES /\ p # 0
                               /\ p \in 0..MAX_CITIES
  BY DEF Ant
<1>2. r \in X
  <2> DEFINE f == [a \in Ant |-> a]
  <2>1. f \in Bijection(Ant, Ant)
    BY SameBijection
  <2>2. \A a \in Ant : r[a] = r[f[a]]
    OBVIOUS
  <2> HIDE DEF f
  <2>. QED BY <2>1, <2>2 DEF Arrangements
<1>3. Step \in [1..MAX_CITIES -> [X -> X]]
  <2>1. \A p \in 1..MAX_CITIES : \A x \in X : Against(p - 1, x) \in X
    BY <1>1, AgainstKeeps
  <2> HIDE DEF X
  <2>. QED BY <2>1
<1>4. \A p \in 1..MAX_CITIES : \A x \in X : Step[p][x] = Against(p - 1, x)
  OBVIOUS
<1>5. Sorted(r) = A[MAX_CITIES]
  BY DEF Sorted
<1> HIDE DEF X, Step
<1>6. PICK h : /\ \A p \in 0..MAX_CITIES : h[p] \in X
               /\ h[0] = r /\ \A p \in 1..MAX_CITIES : h[p] = Step[p][h[p - 1]]
  <2>1. MAX_CITIES \in Nat
    OBVIOUS
  <2> HIDE DEF D, A
  <2>. QED BY ONLY <1>2, <1>3, <2>1, IterationExists
<1> DEFINE g == [p \in 0..MAX_CITIES |-> h[p]]
<1>7. g = D(g)
  <2>1. ASSUME NEW p \in 0..MAX_CITIES
        PROVE  g[p] = IF p = 0 THEN r ELSE Against(p - 1, g[p - 1])
    <3>1. CASE p = 0
      BY <1>6, <3>1
    <3>2. CASE p # 0
      <4>1. p \in 1..MAX_CITIES
        BY <3>2
      <4>2. h[p] = Against(p - 1, h[p - 1])
        BY <1>1, <1>4, <1>6, <4>1
      <4>. QED BY <1>1, <3>2, <4>1, <4>2
    <3>. QED BY <3>1, <3>2
  <2>. QED BY <2>1
<1>8. A = D(A)
  <2> HIDE DEF g, D
  <2>. QED BY <1>7
<1> HIDE DEF A
<1>9. A[0] = r /\ \A p \in 1..MAX_CITIES : A[p] = Against(p - 1, A[p - 1])
  <2>1. A[0] = r
    BY <1>8
  <2>2. ASSUME NEW p \in 1..MAX_CITIES PROVE A[p] = Against(p - 1, A[p - 1])
    BY <1>1, <1>8
  <2>. QED BY <2>1, <2>2
<1> DEFINE T == {p \in Nat : A[p] \in X /\ SettledBelow(A[p], p)}
<1>10. \A p \in 0..MAX_CITIES : p \in T
  <2>1. 0 \in T
    <3>1. SettledBelow(r, 0)
      BY DEF SettledBelow, Ant
    <3>. QED BY <1>2, <1>9, <3>1
  <2>2. ASSUME NEW p \in 1..MAX_CITIES, p - 1 \in T PROVE p \in T
    <3>1. A[p - 1] \in X /\ SettledBelow(A[p - 1], p - 1) /\ p - 1 \in Ant
      BY <1>1, <2>2
    <3>2. A[p] = Against(p - 1, A[p - 1]) /\ (p - 1) + 1 = p
      BY <1>9
    <3>3. A[p] \in X /\ SettledBelow(A[p], p)
      <4>1. A[p] \in X /\ SettledBelow(A[p], (p - 1) + 1)
        BY <3>1, <3>2, AgainstKeeps DEF X
      <4>. QED BY <3>2, <4>1
    <3>. QED BY <3>3
  <2>3. T \in SUBSET Nat
    OBVIOUS
  <2> HIDE DEF T
  <2>. QED BY <2>1, <2>2, <2>3, NatUpTo
<1>11. MAX_CITIES \in T
  BY <1>10
<1>. QED BY <1>5, <1>11 DEF X

-----------------------------------------------------------------------------
(* updateTrails(), lines 263-331. *)

\* Trails that are the same in both directions and hold at least v.
Trails(v) ==
    {ph \in [City -> [City -> Nat]] :
        \A a, b \in City : ph[a][b] = ph[b][a] /\ ph[a][b] >= v}

\* Products and quotients of natural numbers.
LEMMA NatTimes == \A x, y \in Nat : x * y \in Nat
OBVIOUS

LEMMA NatDiv == \A x \in Nat : \A d \in Nat \ {0} : x \div d \in Nat
OBVIOUS

\* What one turn of the loops at lines 288 and 306 makes of the trails.
LaidLeg(before, amount, a, b) ==
    LET value == before[a][b] + amount
    IN  [before EXCEPT ![a][b] = value, ![b][a] = value]

\* Both directions get the same value, and no less than they had.
LEMMA LaidLegKeeps ==
    ASSUME NEW v \in Nat, NEW ph \in Trails(v), NEW amount \in Nat,
           NEW a \in City, NEW b \in City
    PROVE  LaidLeg(ph, amount, a, b) \in Trails(v)
<1> DEFINE value == ph[a][b] + amount
           G == LaidLeg(ph, amount, a, b)
<1>1. ph \in [City -> [City -> Nat]]
  BY DEF Trails
<1>2. \A x, y \in City : ph[x][y] \in Nat /\ ph[x][y] = ph[y][x] /\ ph[x][y] >= v
  BY DEF Trails
<1>3. value \in Nat /\ value >= v
  BY <1>2
<1>4. G = [ph EXCEPT ![a][b] = value, ![b][a] = value]
  BY DEF LaidLeg
<1> HIDE DEF value, G
<1>5. G \in [City -> [City -> Nat]]
  BY <1>1, <1>3, <1>4
<1>6. \A x, y \in City : G[x][y] = IF (x = a /\ y = b) \/ (x = b /\ y = a)
                                   THEN value ELSE ph[x][y]
  BY <1>1, <1>4
<1>7. \A x, y \in City : G[x][y] = G[y][x] /\ G[x][y] >= v
  BY <1>2, <1>3, <1>6
<1>. QED BY <1>5, <1>7 DEF Trails, G

\* A whole tour is laid leg by leg.
LEMMA LayKeeps ==
    ASSUME NEW v \in Nat, NEW ph \in Trails(v), NEW amount, amount \in Nat,
           NEW path, \A p \in City : path[p] \in City
    PROVE  Lay(ph, amount, path) \in Trails(v)
<1> DEFINE X == Trails(v)
           D(f) == [p \in 0..MAX_CITIES |->
                      IF p = 0 THEN ph
                      ELSE LaidLeg(f[p - 1], amount, From(path, p - 1), To(path, p - 1))]
           A == CHOOSE f : f = D(f)
           Step == [p \in 1..MAX_CITIES |->
                      [x \in X |-> LaidLeg(x, amount, From(path, p - 1), To(path, p - 1))]]
<1>1. \A p \in 1..MAX_CITIES : From(path, p - 1) \in City /\ To(path, p - 1) \in City
  <2>. SUFFICES ASSUME NEW p \in 1..MAX_CITIES
                PROVE  From(path, p - 1) \in City /\ To(path, p - 1) \in City
    OBVIOUS
  <2>1. p - 1 \in City /\ (IF p - 1 < MAX_CITIES - 1 THEN (p - 1) + 1 ELSE 0) \in City
    BY DEF City
  <2>. QED BY <2>1 DEF From, To
<1>2. \A p \in 1..MAX_CITIES : \A x \in X :
        LaidLeg(x, amount, From(path, p - 1), To(path, p - 1)) \in X
  BY <1>1, LaidLegKeeps
<1>3. Step \in [1..MAX_CITIES -> [X -> X]]
  <2> HIDE DEF X
  <2>. QED BY <1>2
<1>4. \A p \in 1..MAX_CITIES : \A x \in X :
        Step[p][x] = LaidLeg(x, amount, From(path, p - 1), To(path, p - 1))
  OBVIOUS
<1>5. Lay(ph, amount, path) = A[MAX_CITIES]
  BY DEF Lay, LaidLeg
<1> HIDE DEF X, Step
<1>6. PICK h : /\ \A p \in 0..MAX_CITIES : h[p] \in X
               /\ h[0] = ph /\ \A p \in 1..MAX_CITIES : h[p] = Step[p][h[p - 1]]
  <2>1. MAX_CITIES \in Nat /\ ph \in X
    BY DEF X
  <2> HIDE DEF D, A
  <2>. QED BY ONLY <1>3, <2>1, IterationExists
<1> DEFINE g == [p \in 0..MAX_CITIES |-> h[p]]
<1>7. g = D(g)
  <2>1. ASSUME NEW p \in 0..MAX_CITIES
        PROVE  g[p] = IF p = 0 THEN ph
                      ELSE LaidLeg(g[p - 1], amount, From(path, p - 1), To(path, p - 1))
    <3>1. CASE p = 0
      BY <1>6, <3>1
    <3>2. CASE p # 0
      <4>1. p \in 1..MAX_CITIES /\ p - 1 \in 0..MAX_CITIES
        BY <3>2
      <4>2. h[p] = LaidLeg(h[p - 1], amount, From(path, p - 1), To(path, p - 1))
        BY <1>4, <1>6, <4>1
      <4>. QED BY <3>2, <4>1, <4>2
    <3>. QED BY <3>1, <3>2
  <2>. QED BY <2>1
<1>8. A = D(A)
  <2> HIDE DEF g, D
  <2>. QED BY <1>7
<1> HIDE DEF A
<1> DEFINE T == {p \in Nat : A[p] \in X}
<1>9. \A p \in 0..MAX_CITIES : p \in T
  <2>1. 0 \in T
    BY <1>8 DEF X
  <2>2. ASSUME NEW p \in 1..MAX_CITIES, p - 1 \in T PROVE p \in T
    <3>1. p \in 0..MAX_CITIES /\ p # 0
      OBVIOUS
    <3>2. A[p] = LaidLeg(A[p - 1], amount, From(path, p - 1), To(path, p - 1))
      BY <1>8, <3>1
    <3>. QED BY <1>2, <2>2, <3>2
  <2>3. T \in SUBSET Nat
    OBVIOUS
  <2> HIDE DEF T
  <2>. QED BY <2>1, <2>2, <2>3, NatUpTo
<1>10. A[MAX_CITIES] \in X
  BY <1>9
<1>. QED BY <1>5, <1>10 DEF X

\* What the ranks lay (lines 286-304) is defined if no ranked tour has length
\* zero: the share of a rank is a quotient by its length.
LEMMA RankedDepositsKeep ==
    ASSUME NEW v \in Nat, NEW ph \in Trails(v),
           \A r \in Ant : rankAnts[r].tourLength \in Nat \ {0},
           \A r \in Ant : \A p \in City : rankAnts[r].path[p] \in City
    PROVE  RankedDeposits(ph) \in Trails(v)
<1> DEFINE X == Trails(v)
           Deposit(x, r) == IF 2 * r < MAX_ANTS
                            THEN Lay(x, Amount(r - 1), rankAnts[r - 1].path) ELSE x
           D(f) == [r \in 0..MAX_ANTS |-> IF r = 0 THEN ph ELSE Deposit(f[r - 1], r)]
           A == CHOOSE f : f = D(f)
           Step == [r \in 1..MAX_ANTS |-> [x \in X |-> Deposit(x, r)]]
<1>1. \A r \in 1..MAX_ANTS : \A x \in X : Deposit(x, r) \in X
  <2>. SUFFICES ASSUME NEW r \in 1..MAX_ANTS, NEW x \in X, 2 * r < MAX_ANTS
                PROVE  Lay(x, Amount(r - 1), rankAnts[r - 1].path) \in X
    OBVIOUS
  <2>1. r - 1 \in Ant
    BY DEF Ant
  <2>2. Amount(r - 1) \in Nat
    <3> DEFINE w == MAX_ANTS - 2 * (r - 1)
    <3>1. w \in Nat
      OBVIOUS
    <3>2. w * QVAL \in Nat
      BY <3>1, NatTimes, BuildAssumption
    <3>3. Square(Scale) \in Nat
      BY SquareInNat, ScaleAssumption
    <3>4. (w * QVAL) * Square(Scale) \in Nat
      BY <3>2, <3>3, NatTimes
    <3>5. 2 * rankAnts[r - 1].tourLength \in Nat \ {0}
      BY <2>1
    <3>6. Amount(r - 1) = ((w * QVAL) * Square(Scale)) \div (2 * rankAnts[r - 1].tourLength)
      BY DEF Amount
    <3> HIDE DEF w
    <3>. QED BY <3>4, <3>5, <3>6, NatDiv
  <2>. QED BY <2>1, <2>2, LayKeeps
<1>2. Step \in [1..MAX_ANTS -> [X -> X]]
  <2> HIDE DEF X, Deposit
  <2>. QED BY <1>1
<1>3. \A r \in 1..MAX_ANTS : \A x \in X : Step[r][x] = Deposit(x, r)
  OBVIOUS
<1>4. RankedDeposits(ph) = A[MAX_ANTS]
  BY DEF RankedDeposits
<1> HIDE DEF X, Step, Deposit
<1>5. PICK h : /\ \A r \in 0..MAX_ANTS : h[r] \in X
               /\ h[0] = ph /\ \A r \in 1..MAX_ANTS : h[r] = Step[r][h[r - 1]]
  <2>1. MAX_ANTS \in Nat /\ ph \in X
    BY DEF X
  <2> HIDE DEF D, A
  <2>. QED BY ONLY <1>2, <2>1, IterationExists
<1> DEFINE g == [r \in 0..MAX_ANTS |-> h[r]]
<1>6. g = D(g)
  <2>1. ASSUME NEW r \in 0..MAX_ANTS PROVE g[r] = IF r = 0 THEN ph ELSE Deposit(g[r - 1], r)
    <3>1. CASE r = 0
      BY <1>5, <3>1
    <3>2. CASE r # 0
      <4>1. r \in 1..MAX_ANTS /\ r - 1 \in 0..MAX_ANTS
        BY <3>2
      <4>2. h[r] = Deposit(h[r - 1], r)
        BY <1>3, <1>5, <4>1
      <4>. QED BY <3>2, <4>1, <4>2
    <3>. QED BY <3>1, <3>2
  <2>. QED BY <2>1
<1>7. A = D(A)
  <2> HIDE DEF g, D
  <2>. QED BY <1>6
<1> HIDE DEF A
<1> DEFINE T == {r \in Nat : A[r] \in X}
<1>8. \A r \in 0..MAX_ANTS : r \in T
  <2>1. 0 \in T
    BY <1>7 DEF X
  <2>2. ASSUME NEW r \in 1..MAX_ANTS, r - 1 \in T PROVE r \in T
    <3>1. r \in 0..MAX_ANTS /\ r # 0
      OBVIOUS
    <3>2. A[r] = Deposit(A[r - 1], r)
      BY <1>7, <3>1
    <3>. QED BY <1>1, <2>2, <3>2
  <2>3. T \in SUBSET Nat
    OBVIOUS
  <2> HIDE DEF T
  <2>. QED BY <2>1, <2>2, <2>3, NatUpTo
<1>9. A[MAX_ANTS] \in X
  BY <1>8
<1>. QED BY <1>4, <1>9 DEF X

\* Evaporation and halving each keep at least half of what is there.
LEMMA EvaporatedHalved ==
    /\ \A ph \in Trails(4) : Evaporated(ph) \in Trails(2)
    /\ \A ph \in Trails(2) : Halved(ph) \in Trails(1)
<1>1. ASSUME NEW ph \in Trails(4) PROVE Evaporated(ph) \in Trails(2)
  <2>1. \A a, b \in City : ph[a][b] \in Nat /\ ph[a][b] = ph[b][a] /\ ph[a][b] >= 4
    BY DEF Trails
  <2>2. \A a, b \in City : Evaporated(ph)[a][b] = IF a # b THEN ph[a][b] \div 2 ELSE ph[a][b]
    BY DEF Evaporated
  <2>3. \A a, b \in City : /\ Evaporated(ph)[a][b] \in Nat /\ Evaporated(ph)[a][b] >= 2
                           /\ Evaporated(ph)[a][b] = Evaporated(ph)[b][a]
    BY <2>1, <2>2
  <2>4. Evaporated(ph) \in [City -> [City -> Nat]]
    BY <2>2, <2>3 DEF Evaporated
  <2>. QED BY <2>3, <2>4 DEF Trails
<1>2. ASSUME NEW ph \in Trails(2) PROVE Halved(ph) \in Trails(1)
  <2>1. \A a, b \in City : ph[a][b] \in Nat /\ ph[a][b] = ph[b][a] /\ ph[a][b] >= 2
    BY DEF Trails
  <2>2. \A a, b \in City : Halved(ph)[a][b] = ph[a][b] \div 2
    BY DEF Halved
  <2>3. \A a, b \in City : /\ Halved(ph)[a][b] \in Nat /\ Halved(ph)[a][b] >= 1
                           /\ Halved(ph)[a][b] = Halved(ph)[b][a]
    BY <2>1, <2>2
  <2>4. Halved(ph) \in [City -> [City -> Nat]]
    BY <2>2, <2>3 DEF Halved
  <2>. QED BY <2>3, <2>4 DEF Trails
<1>. QED BY <1>1, <1>2

-----------------------------------------------------------------------------
(* The inductive invariant.                                                  *)
(*                                                                           *)
(* A program run has one tour.  Until its end each ant agrees with its path; *)
(* after the restart every tabu list holds -1, so no ant can move and what   *)
(* the restart found stays as it is.                                         *)

\* The cities on the path of an ant.
Seen(r) == {r.path[p] : p \in 0..(r.pathIndex - 1)}

\* The fields of an ant agree.
AntMatches(r) ==
    /\ r.pathIndex >= 1
    /\ HoldsCities(r.path, r.pathIndex)
    /\ \A c \in City : r.tabu[c] = IF c \in Seen(r) THEN 1 ELSE 0
    /\ \A p, q \in 0..(r.pathIndex - 1) : p # q => r.path[p] # r.path[q]
    /\ r.curCity = r.path[r.pathIndex - 1]
    /\ r.tourLength = Length(r.path, r.pathIndex)
    /\ r.pathIndex > 1 => r.tourLength > 0

FirstTour ==
    /\ best = MAX_TOUR /\ bestIndex = 0
    /\ \A a \in Ant : AntMatches(ants[a])

\* What the restart has found.
FirstRankedKept ==
    \/ best = rankAnts[0].tourLength /\ best = Length(ants[bestIndex].path, MAX_CITIES)
    \/ best = MAX_TOUR /\ rankAnts[0].tourLength >= MAX_TOUR

AfterRestart ==
    /\ \A a \in Ant : ants[a].pathIndex = 1 /\ \A c \in City : ants[a].tabu[c] = -1
    /\ pc \in {"round", "move", "aborted", "done"}
    /\ pc = "move" => k = 0
    /\ FirstRankedKept

Phase == FirstTour \/ AfterRestart

Clock == maxTime \in Nat /\ (pc # "done" => curTime <= maxTime)

\* A round that has moved no ant so far has only met complete tours.
NoneMoved ==
    pc = "move" /\ moving = 0 => \A a \in Ant : a < k => ants[a].pathIndex = MAX_CITIES

TourOver == pc \in {"sort", "trails", "restart"} => FirstTour /\ ToursComplete

RanksRight ==
    pc \in {"trails", "restart"} =>
        rankAnts \in Arrangements(ants) /\ SettledBelow(rankAnts, MAX_CITIES)

\* The trails are updated at most once.
TrailsRight ==
    \/ phero \in Trails(4)
    \/ phero \in Trails(1) /\ (\/ pc \in {"restart", "done"}
                               \/ pc = "round" /\ curTime = maxTime
                               \/ AfterRestart)

IInv ==
    /\ TypeOK
    /\ Phase
    /\ Clock
    /\ NoneMoved
    /\ TourOver
    /\ RanksRight
    /\ TrailsRight

-----------------------------------------------------------------------------
(* Moves, lines 215-230. *)

\* A move to a city that is not on the path keeps the fields in agreement.
LEMMA MovedMatches ==
    ASSUME dist \in [City -> [City -> Nat]],
           NEW r, r \in antType, AntMatches(r), r.pathIndex < MAX_CITIES,
           NEW to, to \in City, r.tabu[to] = 0, dist[r.curCity][to] # 0
    PROVE  Moved(r, to) \in antType /\ AntMatches(Moved(r, to))
<1> DEFINE m == r.pathIndex
           path == [r.path EXCEPT ![m] = to]
           leg == dist[r.curCity][to]
           closing == IF m + 1 = MAX_CITIES THEN dist[to][path[0]] ELSE 0
           M == Moved(r, to)
<1>1. /\ m \in 1..(MAX_CITIES - 1) /\ m \in City
      /\ r.curCity \in City /\ r.tabu \in [City -> {-1, 0, 1}]
      /\ r.path \in [City -> City \cup {-1}] /\ r.tourLength \in Nat
  <2>1. /\ m \in 0..MAX_CITIES
        /\ r.curCity \in City /\ r.tabu \in [City -> {-1, 0, 1}]
        /\ r.path \in [City -> City \cup {-1}] /\ r.tourLength \in Nat
    BY DEF antType
  <2>2. m >= 1
    BY DEF AntMatches
  <2>3. m \in 1..(MAX_CITIES - 1) /\ m \in City
    BY <2>1, <2>2 DEF City
  <2>. QED BY <2>1, <2>3
<1>2. /\ M.curCity = to /\ M.nextCity = to /\ M.pathIndex = m + 1
      /\ M.tabu = [r.tabu EXCEPT ![to] = 1] /\ M.path = path
      /\ M.tourLength = r.tourLength + leg + closing
      /\ M = [curCity |-> M.curCity, nextCity |-> M.nextCity, pathIndex |-> M.pathIndex,
              tabu |-> M.tabu, path |-> M.path, tourLength |-> M.tourLength]
  <2>1. M = [r EXCEPT !.nextCity = to, !.tabu[to] = 1, !.path = path,
                      !.pathIndex = m + 1,
                      !.tourLength = r.tourLength + leg + closing, !.curCity = to]
    BY DEF Moved
  <2> HIDE DEF M, path, leg, closing, m
  <2>. QED BY <2>1 DEF antType
<1>3. /\ path \in [City -> City \cup {-1}] /\ path[m] = to
      /\ \A p \in 0..(m - 1) : p \in City /\ p # m /\ path[p] = r.path[p]
  <2>2. path = [r.path EXCEPT ![m] = to]
    OBVIOUS
  <2> HIDE DEF path, m
  <2>1. \A p \in 0..(m - 1) : p \in City /\ p # m
    BY <1>1 DEF City
  <2>3. path \in [City -> City \cup {-1}]
    BY <1>1, <2>2
  <2>4. \A p \in City : path[p] = IF p = m THEN to ELSE r.path[p]
    <3>1. DOMAIN r.path = City
      BY <1>1
    <3>. QED BY <2>2, <3>1
  <2>. QED BY <1>1, <2>1, <2>3, <2>4
<1>4. HoldsCities(r.path, m)
  BY DEF AntMatches
<1>5. HoldsCities(path, m + 1)
  <2> HIDE DEF path, m
  <2>. SUFFICES ASSUME NEW p \in 0..((m + 1) - 1) PROVE path[p] \in City
    BY DEF HoldsCities
  <2>1. CASE p = m
    BY <1>3, <2>1
  <2>2. CASE p # m
    <3>1. p \in 0..(m - 1)
      BY <1>1, <2>2
    <3>. QED BY <1>3, <1>4, <3>1 DEF HoldsCities
  <2>. QED BY <2>1, <2>2
<1>6. path[0] \in City /\ path[0] = r.path[0]
  BY <1>1, <1>3, <1>4 DEF HoldsCities
<1>7. leg \in Nat /\ leg > 0 /\ closing \in Nat
  BY <1>1, <1>6
<1> HIDE DEF path, M, leg, closing, m
<1>8. M \in antType
  <2>1. m + 1 \in 0..MAX_CITIES
    BY <1>1
  <2>2. [r.tabu EXCEPT ![to] = 1] \in [City -> {-1, 0, 1}]
    BY <1>1
  <2>3. r.tourLength + leg + closing \in Nat
    BY <1>1, <1>7
  <2>. QED BY <1>2, <1>3, <2>1, <2>2, <2>3 DEF antType
<1>9. ~(to \in Seen(r)) /\ \A c \in City : r.tabu[c] = IF c \in Seen(r) THEN 1 ELSE 0
  BY DEF AntMatches
<1>10. Seen(M) = Seen(r) \cup {to}
  <2>1. \A p \in 0..((m + 1) - 1) : p \in 0..(m - 1) \/ p = m
    BY <1>1
  <2>2. m \in 0..((m + 1) - 1) /\ \A p \in 0..(m - 1) : p \in 0..((m + 1) - 1)
    BY <1>1
  <2>3. Seen(M) = {path[p] : p \in 0..((m + 1) - 1)}
    BY <1>2 DEF Seen
  <2>4. Seen(r) = {r.path[p] : p \in 0..(m - 1)}
    BY DEF Seen, m
  <2>5. \A c \in Seen(M) : c \in Seen(r) \cup {to}
    BY <1>3, <2>1, <2>3, <2>4
  <2>6. \A c \in Seen(r) : c \in Seen(M)
    BY <1>3, <2>2, <2>3, <2>4
  <2>7. to \in Seen(M)
    BY <1>3, <2>2, <2>3
  <2>. QED BY <2>5, <2>6, <2>7
<1>11. \A c \in City : M.tabu[c] = IF c \in Seen(M) THEN 1 ELSE 0
  BY <1>1, <1>2, <1>9, <1>10
<1>12. ASSUME NEW p \in 0..((m + 1) - 1), NEW q \in 0..((m + 1) - 1), p # q
       PROVE  path[p] # path[q]
  <2>1. \A o \in 0..(m - 1) : path[o] # to
    BY <1>3, <1>9 DEF Seen, m
  <2>2. CASE p = m \/ q = m
    <3>1. (p = m /\ q \in 0..(m - 1)) \/ (q = m /\ p \in 0..(m - 1))
      BY <1>1, <1>12, <2>2
    <3>. QED BY <1>3, <2>1, <3>1
  <2>3. CASE p # m /\ q # m
    <3>1. p \in 0..(m - 1) /\ q \in 0..(m - 1)
      BY <1>1, <2>3
    <3>2. r.path[p] # r.path[q]
      BY <1>12, <3>1 DEF AntMatches, m
    <3>. QED BY <1>3, <3>1, <3>2
  <2>. QED BY <2>2, <2>3
<1>13. /\ r.tourLength = Length(r.path, m) /\ r.curCity = r.path[m - 1]
  BY DEF AntMatches, m
<1>14. Length(path, m + 1) = r.tourLength + leg + closing
  <2>1. Length(path, m + 1) = Length(r.path, m) + dist[r.path[m - 1]][path[m]]
            + (IF m + 1 = MAX_CITIES THEN dist[path[m]][path[0]] ELSE 0)
    <3>1. \A p \in 0..(m - 1) : r.path[p] = path[p]
      BY <1>3
    <3>2. m \in 1..(MAX_CITIES - 1) /\ dist \in [City -> [City -> Nat]]
      BY <1>1
    <3> DEFINE old == r.path
    <3> HIDE DEF old
    <3>3. HoldsCities(old, m) /\ \A p \in 0..(m - 1) : old[p] = path[p]
      BY <1>4, <3>1 DEF old
    <3>4. Length(path, m + 1) = Length(old, m) + dist[old[m - 1]][path[m]]
            + (IF m + 1 = MAX_CITIES THEN dist[path[m]][path[0]] ELSE 0)
      BY ONLY <1>5, <3>2, <3>3, LengthGrows
    <3>. QED BY <3>4 DEF old
  <2>2. leg = dist[r.path[m - 1]][to]
    BY <1>13 DEF leg
  <2>3. closing = IF m + 1 = MAX_CITIES THEN dist[to][path[0]] ELSE 0
    BY DEF closing
  <2>4. Length(path, m + 1) = (r.tourLength + leg) + closing
    <3> DEFINE l == Length(r.path, m)
    <3>1. Length(path, m + 1) = l + leg + closing /\ l = r.tourLength
      BY <1>3, <1>13, <2>1, <2>2, <2>3
    <3> HIDE DEF l
    <3>. QED BY <3>1
  <2>. QED BY <2>4
<1>15. path[(m + 1) - 1] = to
  BY <1>1, <1>3
<1>16. AntMatches(M)
  <2>1. M.pathIndex >= 1
    BY <1>1, <1>2
  <2>2. M.tourLength > 0
    BY <1>1, <1>2, <1>7
  <2>. QED BY <1>2, <1>5, <1>11, <1>12, <1>14, <1>15, <2>1, <2>2 DEF AntMatches
<1>. QED BY <1>8, <1>16 DEF M

\* AntMatches depends on the distances only.
LEMMA MatchesStable == \A r : dist' = dist => AntMatches(r)' = AntMatches(r)
BY LengthStable DEF AntMatches, Seen, HoldsCities

-----------------------------------------------------------------------------
(* restartAnts(), lines 127-155. *)

\* The search of lines 131-137 ends with a length that neither the best nor any
\* ant falls below, and with the ant that has it unless it is still the best.
LEMMA FoundIsFirst ==
    ASSUME ants \in [Ant -> antType], best \in Nat, bestIndex \in Ant
    PROVE  /\ Found[1] \in Nat /\ Found[2] \in Ant
           /\ Found[1] <= best /\ \A a \in Ant : Found[1] <= ants[a].tourLength
           /\ \/ Found[1] = best /\ Found[2] = bestIndex
              \/ ants[Found[2]].tourLength = Found[1]
<1> DEFINE X == Nat \X Ant
           D(f) == [a \in 0..MAX_ANTS |-> IF a = 0 THEN <<best, bestIndex>>
                                          ELSE Shorter(f[a - 1], a - 1)]
           A == CHOOSE f : f = D(f)
           Step == [a \in 1..MAX_ANTS |-> [x \in X |-> Shorter(x, a - 1)]]
<1>1. \A a \in 1..MAX_ANTS : a - 1 \in Ant /\ a - 1 \in 0..MAX_ANTS /\ a # 0
                             /\ a \in 0..MAX_ANTS
  BY DEF Ant
<1>2. \A a \in Ant : ants[a].tourLength \in Nat
  BY DEF antType
<1>3. <<best, bestIndex>> \in X
  OBVIOUS
<1>4. \A a \in 1..MAX_ANTS : \A x \in X : Shorter(x, a - 1) \in X
  BY <1>1, <1>2 DEF Shorter
<1>5. Step \in [1..MAX_ANTS -> [X -> X]]
  <2> HIDE DEF X
  <2>. QED BY <1>4
<1>6. \A a \in 1..MAX_ANTS : \A x \in X : Step[a][x] = Shorter(x, a - 1)
  OBVIOUS
<1>7. Found = A[MAX_ANTS]
  BY DEF Found
<1> HIDE DEF X, Step
<1>8. PICK h : /\ \A a \in 0..MAX_ANTS : h[a] \in X
               /\ h[0] = <<best, bestIndex>>
               /\ \A a \in 1..MAX_ANTS : h[a] = Step[a][h[a - 1]]
  <2>1. MAX_ANTS \in Nat
    OBVIOUS
  <2> HIDE DEF D, A
  <2>. QED BY ONLY <1>3, <1>5, <2>1, IterationExists
<1> DEFINE g == [a \in 0..MAX_ANTS |-> h[a]]
<1>9. g = D(g)
  <2>1. ASSUME NEW a \in 0..MAX_ANTS
        PROVE  g[a] = IF a = 0 THEN <<best, bestIndex>> ELSE Shorter(g[a - 1], a - 1)
    <3>1. CASE a = 0
      BY <1>8, <3>1
    <3>2. CASE a # 0
      <4>1. a \in 1..MAX_ANTS
        BY <3>2
      <4>2. h[a] = Shorter(h[a - 1], a - 1)
        BY <1>1, <1>6, <1>8, <4>1
      <4>. QED BY <1>1, <3>2, <4>1, <4>2
    <3>. QED BY <3>1, <3>2
  <2>. QED BY <2>1
<1>10. A = D(A)
  <2> HIDE DEF g, D
  <2>. QED BY <1>9
<1> HIDE DEF A
<1>11. /\ A[0] = <<best, bestIndex>>
       /\ \A a \in 1..MAX_ANTS : A[a] = Shorter(A[a - 1], a - 1)
  <2>1. A[0] = <<best, bestIndex>>
    BY <1>10
  <2>2. ASSUME NEW a \in 1..MAX_ANTS PROVE A[a] = Shorter(A[a - 1], a - 1)
    BY <1>1, <1>10
  <2>. QED BY <2>1, <2>2
<1> DEFINE Good(x, a) ==
             /\ x \in X /\ x[1] <= best
             /\ \A b \in Ant : b < a => x[1] <= ants[b].tourLength
             /\ (x[1] = best /\ x[2] = bestIndex) \/ ants[x[2]].tourLength = x[1]
           T == {a \in Nat : Good(A[a], a)}
<1>12. \A a \in 0..MAX_ANTS : a \in T
  <2>1. 0 \in T
    BY <1>3, <1>11 DEF Ant
  <2>2. ASSUME NEW a \in 1..MAX_ANTS, a - 1 \in T PROVE a \in T
    <3>1. Good(A[a - 1], a - 1) /\ A[a] = Shorter(A[a - 1], a - 1) /\ a - 1 \in Ant
      BY <1>1, <1>11, <2>2
    <3> DEFINE x == A[a - 1]
    <3>2. x[1] \in Nat /\ x[2] \in Ant /\ ants[a - 1].tourLength \in Nat
      BY <1>2, <3>1 DEF X
    <3>3. \A b \in Ant : b < a => b < a - 1 \/ b = a - 1
      BY DEF Ant
    <3>4. CASE ants[a - 1].tourLength < x[1]
      <4>1. A[a] = <<ants[a - 1].tourLength, a - 1>>
        BY <3>1, <3>4 DEF Shorter
      <4>2. A[a] \in X
        BY <3>1, <3>2, <4>1 DEF X
      <4>. QED BY <1>2, <3>1, <3>2, <3>3, <3>4, <4>1, <4>2
    <3>5. CASE ~(ants[a - 1].tourLength < x[1])
      <4>1. A[a] = x
        BY <3>1, <3>5 DEF Shorter
      <4>. QED BY <1>2, <3>1, <3>2, <3>3, <3>5, <4>1
    <3>. QED BY <3>4, <3>5
  <2>3. T \in SUBSET Nat
    OBVIOUS
  <2> HIDE DEF T
  <2>. QED BY <2>1, <2>2, <2>3, NatUpTo
<1>13. Good(Found, MAX_ANTS)
  BY <1>7, <1>12
<1>14. \A b \in Ant : b < MAX_ANTS
  BY DEF Ant
<1>. QED BY <1>13, <1>14 DEF X

-----------------------------------------------------------------------------
(* The invariant holds at the start, lines 58-123. *)

\* A new ant agrees with its path of one city.
LEMMA NewAntMatches ==
    ASSUME dist \in [City -> [City -> Nat]], NEW a, a \in Ant
    PROVE  NewAnt(a) \in antType /\ AntMatches(NewAnt(a))
<1> DEFINE r == NewAnt(a)
           path == [p \in City |-> IF p = 0 THEN a ELSE -1]
           tabu == [c \in City |-> IF c = a THEN 1 ELSE 0]
<1>1. /\ r.curCity = a /\ r.nextCity = -1 /\ r.pathIndex = 1
      /\ r.tabu = tabu /\ r.path = path /\ r.tourLength = 0
  BY DEF NewAnt
<1>2. a \in City /\ 0 \in City /\ 1 \in 0..MAX_CITIES
  BY DEF Ant, City
<1>3. path \in [City -> City \cup {-1}] /\ tabu \in [City -> {-1, 0, 1}]
  BY <1>2
<1>4. r \in antType
  BY <1>2, <1>3 DEF NewAnt, antType
<1>5. 0..(1 - 1) = {0} /\ 1 - 1 = 0
  OBVIOUS
<1>6. path[0] = a
  BY <1>2
<1>7. Seen(r) = {a}
  BY <1>1, <1>5, <1>6 DEF Seen
<1>8. HoldsCities(path, 1)
  BY <1>2, <1>5, <1>6 DEF HoldsCities
<1>9. \A c \in City : tabu[c] = IF c \in {a} THEN 1 ELSE 0
  OBVIOUS
<1>10. Length(path, 1) = 0
  <2> HIDE DEF path
  <2>1. LegSums(path, 1)[1] = 0
    BY <1>8, LegSumsDefined
  <2>2. 1 # MAX_CITIES
    OBVIOUS
  <2>. QED BY <2>1, <2>2, LengthIsLegSum
<1> HIDE DEF r, path, tabu
<1>11. \A p, q \in 0..(1 - 1) : p = q
  BY <1>5
<1>12. AntMatches(r)
  BY <1>1, <1>5, <1>6, <1>7, <1>8, <1>9, <1>10, <1>11 DEF AntMatches
<1>. QED BY <1>4, <1>12 DEF r

\* The length that no tour should reach is positive.
LEMMA MaxTourPositive == MAX_TOUR \in Nat \ {0}
<1>1. MAX_CITIES * MAX_DIST \in Nat \ {0}
  BY BuildAssumption
<1>2. Scale \in Nat \ {0}
  BY ScaleAssumption
<1> DEFINE x == MAX_CITIES * MAX_DIST
<1> HIDE DEF x
<1>3. x \in Nat \ {0} => x * Scale \in Nat \ {0}
  BY <1>2
<1>. QED BY <1>1, <1>3 DEF MAX_TOUR, x

\* The first pheromone can be halved twice and stays above zero.
LEMMA FirstPheromone == Scale \div MAX_CITIES \in Nat /\ Scale \div MAX_CITIES >= 4
<1>1. Scale \in Nat /\ Scale >= 4 * MAX_CITIES /\ MAX_CITIES \in Nat \ {0}
  BY ScaleAssumption
<1>2. \A s \in Nat : \A d \in Nat \ {0} : s >= 4 * d => s \div d >= 4 /\ s \div d \in Nat
  OBVIOUS
<1>. QED BY <1>1, <1>2

LEMMA InitIInv == Init => IInv
<1>. SUFFICES ASSUME Init PROVE IInv
  OBVIOUS
<1>1. dist \in [City -> [City -> Nat]]
  <2>1. PICK l \in Layouts : cities = [c \in City |-> l[c + 1]]
    BY DEF Init
  <2>2. \A c \in City : c + 1 \in 1..MAX_CITIES
    BY DEF City
  <2>3. cities \in [City -> [x : Int, y : Int]]
    BY <2>1, <2>2, LayoutAssumption
  <2>. QED BY <2>3, DistancesInNat DEF Init
<1>2. ants \in [Ant -> antType] /\ \A a \in Ant : AntMatches(ants[a])
  <2>1. ants = [a \in Ant |-> NewAnt(a)]
    BY DEF Init
  <2>2. \A a \in Ant : NewAnt(a) \in antType /\ AntMatches(NewAnt(a))
    BY <1>1, NewAntMatches
  <2>. QED BY <2>1, <2>2
<1>3. rankAnts \in [Ant -> antType]
  <2>1. 0 \in City /\ 0 \in 0..MAX_CITIES
    BY DEF City
  <2>2. Zeroed \in antType
    BY <2>1 DEF Zeroed, antType
  <2>3. rankAnts = [a \in Ant |-> Zeroed]
    BY DEF Init
  <2> HIDE DEF Init
  <2>. QED BY <2>2, <2>3
<1>4. phero \in Trails(4)
  <2>1. phero = [a \in City |-> [b \in City |-> Scale \div MAX_CITIES]]
    BY DEF Init
  <2> DEFINE v == Scale \div MAX_CITIES
  <2>2. v \in Nat /\ v >= 4
    BY FirstPheromone
  <2> HIDE DEF v
  <2>3. phero = [a \in City |-> [b \in City |-> v]]
    BY <2>1 DEF v
  <2>. QED BY <2>2, <2>3 DEF Trails
<1>5. maxTime \in Nat
  <2>1. PICK tours \in Builds : maxTime = MAX_CITIES * tours
    BY DEF Init
  <2>. QED BY <2>1, NatTimes, BuildAssumption
<1>6. best \in 0..MAX_TOUR /\ bestIndex \in Ant
  BY MaxTourPositive DEF Init, Ant
<1>7. phero \in [City -> [City -> Nat]]
  BY <1>4 DEF Trails
<1>8. curTime = 0 /\ k = 0 /\ moving = 0 /\ pc = "round" /\ best = MAX_TOUR /\ bestIndex = 0
  BY DEF Init
<1>9. TypeOK
  BY <1>1, <1>2, <1>3, <1>5, <1>6, <1>7, <1>8 DEF TypeOK
<1>10. FirstTour
  BY <1>2, <1>8 DEF FirstTour
<1>. QED BY <1>4, <1>5, <1>8, <1>9, <1>10
         DEF IInv, Phase, Clock, NoneMoved, TourOver, RanksRight, TrailsRight

-----------------------------------------------------------------------------
(* Each action keeps the invariant. *)

\* What the ants and the trails are compared with does not change in most steps.
LEMMA FirstTourKept ==
    ASSUME FirstTour, UNCHANGED <<dist, ants, best, bestIndex>>
    PROVE  FirstTour'
<1>1. \A a \in Ant : AntMatches(ants[a])' = AntMatches(ants[a])
  BY MatchesStable
<1>2. (\A a \in Ant : AntMatches(ants[a]))' <=> \A a \in Ant : AntMatches(ants[a])'
  BY DEF Ant
<1>3. best' = MAX_TOUR /\ bestIndex' = 0 /\ MAX_TOUR' = MAX_TOUR
  BY DEF FirstTour, MAX_TOUR
<1>. QED BY <1>1, <1>2, <1>3 DEF FirstTour

LEMMA AfterRestartKept ==
    ASSUME AfterRestart, UNCHANGED <<dist, ants, rankAnts, best, bestIndex>>,
           pc' \in {"round", "move", "aborted", "done"}, pc' = "move" => k' = 0
    PROVE  AfterRestart'
<1>1. Length(ants[bestIndex].path, MAX_CITIES)' = Length(ants[bestIndex].path, MAX_CITIES)
  BY LengthStable
<1>2. FirstRankedKept'
  BY <1>1 DEF AfterRestart, FirstRankedKept, MAX_TOUR
<1>. QED BY <1>2 DEF AfterRestart

\* The ranks stay right while nobody touches them.
LEMMA RanksKept ==
    ASSUME UNCHANGED <<ants, rankAnts>>, RanksRight,
           pc' \in {"trails", "restart"} => pc \in {"trails", "restart"}
    PROVE  RanksRight'
BY DEF RanksRight, Arrangements, SettledBelow

\* After the restart no ant has anywhere to go.
LEMMA NowhereToGo == AfterRestart /\ pc = "move" => Selectable(0) = {} /\ k = 0
<1>. SUFFICES ASSUME AfterRestart, pc = "move" PROVE Selectable(0) = {} /\ k = 0
  OBVIOUS
<1>1. 0 \in Ant
  BY DEF Ant
<1>2. \A c \in City : ants[0].tabu[c] = -1
  BY <1>1 DEF AfterRestart
<1>. QED BY <1>2 DEF AfterRestart, Selectable

LEMMA StartRoundKeeps == IInv /\ StartRound => IInv'
<1>. SUFFICES ASSUME IInv, StartRound PROVE IInv'
  OBVIOUS
<1>1. /\ pc = "round" /\ pc' \in {"move", "done"} /\ k' = 0 /\ moving' = 0
      /\ UNCHANGED <<cities, dist, phero, ants, rankAnts, best, bestIndex, maxTime>>
      /\ curTime' = curTime + 1 /\ (pc' = "move" => curTime < maxTime)
  BY DEF StartRound
<1>2. curTime \in Nat /\ maxTime \in Nat /\ curTime <= maxTime
  BY <1>1 DEF IInv, TypeOK, Clock
<1>3. TypeOK'
  <2>1. curTime' \in 0..(maxTime' + 1) /\ k' \in 0..MAX_ANTS /\ moving' \in 0..k'
    BY <1>1, <1>2
  <2>2. MAX_TOUR' = MAX_TOUR
    BY DEF MAX_TOUR
  <2>. QED BY <1>1, <2>1, <2>2 DEF IInv, TypeOK
<1>4. (FirstTour => FirstTour') /\ (AfterRestart => AfterRestart')
  BY <1>1, FirstTourKept, AfterRestartKept
<1>5. Phase'
  BY <1>4 DEF IInv, Phase
<1>6. Clock'
  BY <1>1, <1>2 DEF Clock
<1>7. NoneMoved'
  <2>1. \A a \in Ant : ~(a < 0)
    BY DEF Ant
  <2>. QED BY <1>1, <2>1 DEF NoneMoved
<1>8. TourOver' /\ RanksRight'
  BY <1>1 DEF TourOver, RanksRight
<1>9. TrailsRight'
  <2>1. /\ phero \in Trails(4) => phero' \in Trails(4)
        /\ phero \in Trails(1) => phero' \in Trails(1)
    BY <1>1
  <2>2. pc = "round" /\ curTime = maxTime => pc' = "done"
    BY <1>1, <1>2
  <2>. QED BY <1>1, <1>4, <2>1, <2>2 DEF IInv, TrailsRight
<1>. QED BY <1>3, <1>5, <1>6, <1>7, <1>8, <1>9 DEF IInv

LEMMA MoveAntKeeps == IInv /\ MoveAnt => IInv'
<1>. SUFFICES ASSUME IInv, MoveAnt PROVE IInv'
  OBVIOUS
<1>1. /\ pc = "move" /\ pc' = "move" /\ k < MAX_ANTS /\ ants[k].pathIndex < MAX_CITIES
      /\ k' = k + 1 /\ moving' = moving + 1
      /\ UNCHANGED <<cities, dist, phero, rankAnts, best, bestIndex, maxTime, curTime>>
  BY DEF MoveAnt
<1>2. PICK to \in Selectable(k) : ants' = [ants EXCEPT ![k] = Moved(ants[k], to)]
  BY DEF MoveAnt
<1>3. /\ dist \in [City -> [City -> Nat]] /\ ants \in [Ant -> antType]
      /\ k \in 0..MAX_ANTS /\ moving \in 0..k
  BY DEF IInv, TypeOK
<1>4. k \in Ant
  BY <1>1, <1>3 DEF Ant
<1>5. FirstTour
  BY <1>1, <1>2, NowhereToGo DEF IInv, Phase
<1>6. ants[k] \in antType /\ AntMatches(ants[k])
  BY <1>3, <1>4, <1>5 DEF FirstTour
<1>7. Moved(ants[k], to) \in antType /\ AntMatches(Moved(ants[k], to))
  <2>1. to \in City /\ ants[k].tabu[to] = 0 /\ dist[ants[k].curCity][to] # 0
    BY <1>2 DEF Selectable
  <2>. QED BY <1>1, <1>3, <1>6, <2>1, MovedMatches
<1>8. /\ ants' \in [Ant -> antType]
      /\ \A a \in Ant : AntMatches(ants'[a])
  <2> DEFINE new == Moved(ants[k], to)
  <2> HIDE DEF new
  <2>1. ants' = [ants EXCEPT ![k] = new] /\ new \in antType /\ AntMatches(new)
    BY <1>2, <1>7 DEF new
  <2>2. \A a \in Ant : ants'[a] = IF a = k THEN new ELSE ants[a]
    BY <1>3, <1>4, <2>1
  <2>3. \A a \in Ant : AntMatches(ants'[a])
    BY <1>5, <2>1, <2>2 DEF FirstTour
  <2>. QED BY <1>3, <1>4, <2>1, <2>3
<1>9. FirstTour'
  <2>1. \A a \in Ant : AntMatches(ants[a])'
    BY <1>1, <1>8, LengthStable DEF AntMatches, Seen, HoldsCities
  <2>. QED BY <1>1, <1>5, <2>1 DEF FirstTour, MAX_TOUR
<1>10. TypeOK'
  <2>1. k' \in 0..MAX_ANTS /\ moving' \in 0..k'
    BY <1>1, <1>3
  <2>. QED BY <1>1, <1>8, <2>1 DEF IInv, TypeOK, MAX_TOUR
<1>11. moving' # 0
  BY <1>1, <1>3
<1>12. Phase' /\ Clock' /\ NoneMoved' /\ TourOver' /\ RanksRight'
  BY <1>1, <1>9, <1>11 DEF IInv, Phase, Clock, NoneMoved, TourOver, RanksRight
<1>13. TrailsRight'
  <2>1. phero \in Trails(4)
    BY <1>1, <1>2, NowhereToGo DEF IInv, TrailsRight
  <2>. QED BY <1>1, <2>1 DEF TrailsRight, Trails
<1>. QED BY <1>10, <1>12, <1>13 DEF IInv

LEMMA AssertFailsKeeps == IInv /\ AssertFails => IInv'
<1>. SUFFICES ASSUME IInv, AssertFails PROVE IInv'
  OBVIOUS
<1>1. /\ pc = "move" /\ pc' = "aborted"
      /\ UNCHANGED <<cities, dist, phero, ants, rankAnts, best, bestIndex, maxTime, curTime,
                     k, moving>>
  BY DEF AssertFails
<1>2. TypeOK'
  BY <1>1 DEF IInv, TypeOK, MAX_TOUR
<1>3. (FirstTour => FirstTour') /\ (AfterRestart => AfterRestart')
  BY <1>1, FirstTourKept, AfterRestartKept
<1>4. Phase' /\ Clock' /\ NoneMoved' /\ TourOver' /\ RanksRight'
  BY <1>1, <1>3 DEF IInv, Phase, Clock, NoneMoved, TourOver, RanksRight
<1>5. TrailsRight'
  BY <1>1, <1>3 DEF IInv, TrailsRight, Trails
<1>. QED BY <1>2, <1>4, <1>5 DEF IInv

LEMMA SkipAntKeeps == IInv /\ SkipAnt => IInv'
<1>. SUFFICES ASSUME IInv, SkipAnt PROVE IInv'
  OBVIOUS
<1>1. /\ pc = "move" /\ pc' = "move" /\ k < MAX_ANTS /\ ants[k].pathIndex = MAX_CITIES
      /\ k' = k + 1
      /\ UNCHANGED <<cities, dist, phero, ants, rankAnts, best, bestIndex, maxTime, curTime,
                     moving>>
  BY DEF SkipAnt
<1>2. k \in 0..MAX_ANTS /\ moving \in 0..k
  BY DEF IInv, TypeOK
<1>3. TypeOK'
  <2>1. k' \in 0..MAX_ANTS /\ moving' \in 0..k'
    BY <1>1, <1>2
  <2>. QED BY <1>1, <2>1 DEF IInv, TypeOK, MAX_TOUR
<1>4. FirstTour
  <2>1. 0 \in Ant /\ MAX_CITIES # 1
    BY DEF Ant
  <2>. QED BY <1>1, <2>1 DEF IInv, Phase, AfterRestart
<1>5. FirstTour'
  BY <1>1, <1>4, FirstTourKept
<1>6. NoneMoved'
  <2>. SUFFICES ASSUME moving = 0, NEW a \in Ant, a < k + 1
                PROVE  ants[a].pathIndex = MAX_CITIES
    BY <1>1 DEF NoneMoved
  <2>1. a < k \/ a = k
    BY <1>2 DEF Ant
  <2>. QED BY <1>1, <2>1 DEF IInv, NoneMoved
<1>7. Phase' /\ Clock' /\ TourOver' /\ RanksRight'
  BY <1>1, <1>5 DEF IInv, Phase, Clock, TourOver, RanksRight
<1>8. TrailsRight'
  <2>1. ~AfterRestart
    <3>1. 0 \in Ant /\ MAX_CITIES # 1
      BY DEF Ant
    <3>. QED BY <1>1, <3>1 DEF AfterRestart
  <2>. QED BY <1>1, <2>1 DEF IInv, TrailsRight, Trails
<1>. QED BY <1>3, <1>6, <1>7, <1>8 DEF IInv

LEMMA EndRoundKeeps == IInv /\ EndRound => IInv'
<1>. SUFFICES ASSUME IInv, EndRound PROVE IInv'
  OBVIOUS
<1>1. /\ pc = "move" /\ k = MAX_ANTS /\ pc' = IF moving = 0 THEN "sort" ELSE "round"
      /\ UNCHANGED <<cities, dist, phero, ants, rankAnts, best, bestIndex, maxTime, curTime,
                     k, moving>>
  BY DEF EndRound
<1>2. ~AfterRestart
  BY <1>1 DEF AfterRestart
<1>3. FirstTour
  BY <1>2 DEF IInv, Phase
<1>4. FirstTour'
  BY <1>1, <1>3, FirstTourKept
<1>5. TypeOK'
  BY <1>1 DEF IInv, TypeOK, MAX_TOUR
<1>6. pc' = "sort" => ToursComplete'
  <2>. SUFFICES ASSUME moving = 0 PROVE \A a \in Ant : ants[a].pathIndex = MAX_CITIES
    BY <1>1 DEF ToursComplete
  <2>1. \A a \in Ant : a < k
    BY <1>1 DEF Ant
  <2>. QED BY <1>1, <2>1 DEF IInv, NoneMoved
<1>7. Phase' /\ Clock' /\ NoneMoved' /\ TourOver' /\ RanksRight'
  BY <1>1, <1>4, <1>6 DEF IInv, Phase, Clock, NoneMoved, TourOver, RanksRight
<1>8. TrailsRight'
  BY <1>1, <1>2 DEF IInv, TrailsRight, Trails
<1>. QED BY <1>5, <1>7, <1>8 DEF IInv

LEMMA SortAntsKeeps == IInv /\ SortAnts => IInv'
<1>. SUFFICES ASSUME IInv, SortAnts PROVE IInv'
  OBVIOUS
<1>1. /\ pc = "sort" /\ pc' = "trails" /\ rankAnts' = Sorted(ants)
      /\ UNCHANGED <<cities, dist, phero, ants, best, bestIndex, maxTime, curTime, k, moving>>
  BY DEF SortAnts
<1>2. FirstTour /\ ToursComplete
  BY <1>1 DEF IInv, TourOver
<1>3. ~AfterRestart
  BY <1>1 DEF AfterRestart
<1>4. rankAnts' \in Arrangements(ants) /\ SettledBelow(rankAnts', MAX_CITIES)
  <2>1. ants \in [Ant -> antType]
    BY DEF IInv, TypeOK
  <2>. QED BY <1>1, <2>1, SortedRanks
<1>5. rankAnts' \in [Ant -> antType]
  BY <1>4 DEF Arrangements
<1>6. TypeOK'
  BY <1>1, <1>5 DEF IInv, TypeOK, MAX_TOUR
<1>7. FirstTour' /\ ToursComplete'
  BY <1>1, <1>2, FirstTourKept DEF ToursComplete
<1>8. RanksRight'
  BY <1>1, <1>4 DEF RanksRight, Arrangements, SettledBelow
<1>9. Phase' /\ Clock' /\ NoneMoved' /\ TourOver'
  BY <1>1, <1>7 DEF IInv, Phase, Clock, NoneMoved, TourOver
<1>10. TrailsRight'
  BY <1>1, <1>3 DEF IInv, TrailsRight, Trails
<1>. QED BY <1>6, <1>8, <1>9, <1>10 DEF IInv

\* Ranked tours are complete and of positive length.
LEMMA RanksComplete ==
    ASSUME IInv, pc \in {"trails", "restart"}
    PROVE  \A r \in Ant : /\ rankAnts[r].tourLength \in Nat \ {0}
                          /\ \A p \in City : rankAnts[r].path[p] \in City
<1>1. FirstTour /\ ToursComplete /\ rankAnts \in Arrangements(ants)
  BY DEF IInv, TourOver, RanksRight
<1>2. \A a \in Ant : /\ ants[a].tourLength \in Nat \ {0}
                     /\ \A p \in City : ants[a].path[p] \in City
  <2>. SUFFICES ASSUME NEW a \in Ant
                PROVE  /\ ants[a].tourLength \in Nat \ {0}
                       /\ \A p \in City : ants[a].path[p] \in City
    OBVIOUS
  <2>1. ants[a] \in antType /\ ants[a].pathIndex = MAX_CITIES /\ AntMatches(ants[a])
    BY <1>1 DEF IInv, TypeOK, ToursComplete, FirstTour
  <2>2. ants[a].tourLength \in Nat /\ ants[a].tourLength > 0
    <3>1. MAX_CITIES > 1
      OBVIOUS
    <3>2. ants[a].tourLength > 0
      BY <2>1, <3>1 DEF AntMatches
    <3>. QED BY <2>1, <3>2 DEF antType
  <2>3. HoldsCities(ants[a].path, MAX_CITIES)
    BY <2>1 DEF AntMatches
  <2>. QED BY <2>2, <2>3 DEF HoldsCities, City
<1>3. PICK f \in Bijection(Ant, Ant) : \A a \in Ant : rankAnts[a] = ants[f[a]]
  BY <1>1 DEF Arrangements
<1>4. \A a \in Ant : f[a] \in Ant
  BY <1>3 DEF Bijection, Injection
<1>. QED BY <1>2, <1>3, <1>4

\* One update leaves the trails symmetric and above zero.
LEMMA UpdateLeavesTrails ==
    ASSUME IInv, pc = "trails", phero \in Trails(4)
    PROVE  Halved(BestDeposit(RankedDeposits(Evaporated(phero)))) \in Trails(1)
<1>1. Evaporated(phero) \in Trails(2)
  BY EvaporatedHalved
<1>2. RankedDeposits(Evaporated(phero)) \in Trails(2)
  <2> DEFINE ph == Evaporated(phero)
  <2>1. ph \in Trails(2) /\ 2 \in Nat
    BY <1>1
  <2> HIDE DEF ph
  <2>2. RankedDeposits(ph) \in Trails(2)
    <3>1. /\ \A r \in Ant : rankAnts[r].tourLength \in Nat \ {0}
          /\ \A r \in Ant : \A p \in City : rankAnts[r].path[p] \in City
      BY RanksComplete
    <3>. QED BY <2>1, <3>1, RankedDepositsKeep
  <2>. QED BY <2>2 DEF ph
<1>3. \A ph \in Trails(2) : BestDeposit(ph) \in Trails(2)
  <2>. SUFFICES ASSUME NEW ph \in Trails(2) PROVE BestDeposit(ph) \in Trails(2)
    OBVIOUS
  <2>1. FirstTour /\ ToursComplete
    BY DEF IInv, TourOver
  <2>2. 0 \in Ant
    BY DEF Ant
  <2>3. AntMatches(ants[0]) /\ ants[0].pathIndex = MAX_CITIES /\ bestIndex = 0
    BY <2>1, <2>2 DEF FirstTour, ToursComplete
  <2>4. \A p \in City : ants[bestIndex].path[p] \in City
    BY <2>3 DEF AntMatches, HoldsCities, City
  <2> DEFINE amount == (QVAL * Square(Scale)) \div best
  <2>5. amount \in Nat
    <3>1. Square(Scale) \in Nat
      BY SquareInNat, ScaleAssumption
    <3>2. QVAL * Square(Scale) \in Nat
      BY <3>1, NatTimes, BuildAssumption
    <3>3. best \in Nat \ {0}
      BY <2>1, MaxTourPositive DEF FirstTour
    <3>. QED BY <3>2, <3>3, NatDiv
  <2> HIDE DEF amount
  <2>6. Lay(ph, amount, ants[bestIndex].path) \in Trails(2)
    <3>1. 2 \in Nat
      OBVIOUS
    <3>. QED BY <2>4, <2>5, <3>1, LayKeeps
  <2>. QED BY <2>6 DEF BestDeposit, amount
<1>. QED BY <1>2, <1>3, EvaporatedHalved

LEMMA UpdateTrailsKeeps == IInv /\ UpdateTrails => IInv'
<1>. SUFFICES ASSUME IInv, UpdateTrails PROVE IInv'
  OBVIOUS
<1>1. /\ pc = "trails" /\ pc' = IF curTime # maxTime THEN "restart" ELSE "round"
      /\ phero' = Halved(BestDeposit(RankedDeposits(Evaporated(phero))))
      /\ UNCHANGED <<cities, dist, ants, rankAnts, best, bestIndex, maxTime, curTime,
                     k, moving>>
  BY DEF UpdateTrails
<1>2. FirstTour /\ ToursComplete
  BY <1>1 DEF IInv, TourOver
<1>3. phero \in Trails(4)
  BY <1>1 DEF IInv, TrailsRight, AfterRestart
<1>4. phero' \in Trails(1)
  BY <1>1, <1>3, UpdateLeavesTrails
<1>5. phero' \in [City -> [City -> Nat]]
  BY <1>4 DEF Trails
<1>6. TypeOK'
  BY <1>1, <1>5 DEF IInv, TypeOK, MAX_TOUR
<1>7. FirstTour' /\ ToursComplete'
  BY <1>1, <1>2, FirstTourKept DEF ToursComplete
<1>8. RanksRight'
  BY <1>1, RanksKept DEF IInv
<1>9. Phase' /\ Clock' /\ NoneMoved' /\ TourOver'
  BY <1>1, <1>7 DEF IInv, Phase, Clock, NoneMoved, TourOver
<1>10. TrailsRight'
  <2>1. (phero \in Trails(1))'
    BY <1>4 DEF Trails
  <2>. QED BY <1>1, <2>1 DEF TrailsRight
<1>. QED BY <1>6, <1>8, <1>9, <1>10 DEF IInv

\* The first ranked tour is as short as any ant's, and some ant's.
LEMMA FirstRankedIsLeast ==
    ASSUME IInv, pc = "restart"
    PROVE  /\ \A a \in Ant : rankAnts[0].tourLength <= ants[a].tourLength
           /\ \E a \in Ant : rankAnts[0].tourLength = ants[a].tourLength
<1>1. rankAnts \in Arrangements(ants) /\ SettledBelow(rankAnts, MAX_CITIES)
  BY DEF IInv, RanksRight
<1>2. PICK f \in Bijection(Ant, Ant) : \A a \in Ant : rankAnts[a] = ants[f[a]]
  BY <1>1 DEF Arrangements
<1>3. /\ \A a \in Ant : f[a] \in Ant
      /\ \A b \in Ant : \E a \in Ant : f[a] = b
  BY <1>2 DEF Bijection, Injection, Surjection
<1>4. 0 \in Ant /\ \A a \in Ant : a = 0 \/ 0 < a
  BY DEF Ant
<1>5. \A a \in Ant : rankAnts[a].tourLength \in Nat
  BY DEF IInv, TypeOK, antType
<1>6. \A a \in Ant : rankAnts[0].tourLength <= rankAnts[a].tourLength
  BY <1>1, <1>4, <1>5 DEF SettledBelow
<1>7. ASSUME NEW b \in Ant PROVE rankAnts[0].tourLength <= ants[b].tourLength
  <2>1. PICK a \in Ant : f[a] = b
    BY <1>3
  <2>. QED BY <1>2, <1>6, <2>1
<1>. QED BY <1>2, <1>3, <1>4, <1>7

LEMMA RestartAntsKeeps == IInv /\ RestartAnts => IInv'
<1>. SUFFICES ASSUME IInv, RestartAnts PROVE IInv'
  OBVIOUS
<1>1. /\ pc = "restart" /\ pc' = "round" /\ best' = Found[1] /\ bestIndex' = Found[2]
      /\ ants' = [a \in Ant |-> Restarted(a)]
      /\ UNCHANGED <<cities, dist, phero, rankAnts, maxTime, curTime, k, moving>>
  BY DEF RestartAnts
<1>2. FirstTour /\ ToursComplete
  BY <1>1 DEF IInv, TourOver
<1>3. /\ ants \in [Ant -> antType] /\ best \in 0..MAX_TOUR /\ best \in Nat
      /\ bestIndex \in Ant /\ rankAnts \in [Ant -> antType]
  BY DEF IInv, TypeOK
<1>4. /\ Found[1] \in Nat /\ Found[2] \in Ant
      /\ Found[1] <= best /\ \A a \in Ant : Found[1] <= ants[a].tourLength
      /\ \/ Found[1] = best /\ Found[2] = bestIndex
         \/ ants[Found[2]].tourLength = Found[1]
  BY <1>3, FoundIsFirst
<1>5. \A a \in Ant : /\ Restarted(a) \in antType /\ Restarted(a).pathIndex = 1
                     /\ \A c \in City : Restarted(a).tabu[c] = -1
                     /\ Restarted(a).path = ants[a].path
  <2>. SUFFICES ASSUME NEW a \in Ant
                PROVE  /\ Restarted(a) \in antType /\ Restarted(a).pathIndex = 1
                       /\ \A c \in City : Restarted(a).tabu[c] = -1
                       /\ Restarted(a).path = ants[a].path
    OBVIOUS
  <2>1. a \in City /\ 1 \in 0..MAX_CITIES /\ ants[a] \in antType
    BY <1>3 DEF Ant, City
  <2> DEFINE tabu == [c \in City |-> -1]
  <2>2. tabu \in [City -> {-1, 0, 1}] /\ \A c \in City : tabu[c] = -1
    OBVIOUS
  <2>3. Restarted(a) = [ants[a] EXCEPT !.nextCity = -1, !.tourLength = 0,
                          !.tabu = tabu, !.curCity = a, !.pathIndex = 1]
    BY DEF Restarted
  <2> DEFINE r == ants[a]
             new == Restarted(a)
  <2> HIDE DEF tabu, r, new
  <2>4. /\ new.curCity = a /\ new.nextCity = -1 /\ new.pathIndex = 1
        /\ new.tabu = tabu /\ new.path = r.path /\ new.tourLength = 0
        /\ new = [curCity |-> a, nextCity |-> -1, pathIndex |-> 1,
                  tabu |-> tabu, path |-> r.path, tourLength |-> 0]
        /\ r.path \in [City -> City \cup {-1}]
    BY <2>1, <2>3 DEF antType, r, new
  <2>5. new \in antType
    BY <2>1, <2>2, <2>4 DEF antType
  <2>. QED BY <2>2, <2>4, <2>5 DEF r, new
<1>6. /\ ants' \in [Ant -> antType]
      /\ \A a \in Ant : /\ ants'[a].pathIndex = 1 /\ \A c \in City : ants'[a].tabu[c] = -1
                        /\ ants'[a].path = ants[a].path
  BY <1>1, <1>5
<1>7. TypeOK'
  <2>1. best' \in 0..MAX_TOUR
    BY <1>1, <1>3, <1>4, MaxTourPositive
  <2>. QED BY <1>1, <1>4, <1>6, <2>1 DEF IInv, TypeOK, MAX_TOUR
<1>8. FirstRankedKept'
  <2>1. CASE Found[1] = best /\ Found[2] = bestIndex
    <3>1. rankAnts[0].tourLength >= MAX_TOUR
      <4>1. PICK a \in Ant : rankAnts[0].tourLength = ants[a].tourLength
        BY <1>1, FirstRankedIsLeast
      <4>2. best <= ants[a].tourLength /\ ants[a].tourLength \in Nat
        BY <1>3, <1>4, <2>1 DEF antType
      <4>. QED BY <1>2, <1>3, <4>1, <4>2 DEF FirstTour
    <3>2. best' = MAX_TOUR
      BY <1>1, <1>2, <2>1 DEF FirstTour
    <3>. QED BY <1>1, <3>1, <3>2 DEF FirstRankedKept, MAX_TOUR
  <2>2. CASE ants[Found[2]].tourLength = Found[1]
    <3> DEFINE b == Found[2]
    <3>1. b \in Ant /\ ants[b].tourLength = best' /\ bestIndex' = b
      BY <1>1, <1>4, <2>2
    <3> HIDE DEF b
    <3>2. best' = rankAnts[0].tourLength
      <4>1. PICK a \in Ant : rankAnts[0].tourLength = ants[a].tourLength
        BY <1>1, FirstRankedIsLeast
      <4>2. rankAnts[0].tourLength <= best'
        BY <1>1, <3>1, FirstRankedIsLeast
      <4>3. best' <= ants[a].tourLength /\ ants[a].tourLength \in Nat /\ best' \in Nat
        BY <1>1, <1>3, <1>4 DEF antType
      <4>. QED BY <4>1, <4>2, <4>3
    <3>3. best' = Length(ants[b].path, MAX_CITIES)
      BY <1>2, <3>1 DEF FirstTour, AntMatches, ToursComplete
    <3>4. Length(ants[bestIndex].path, MAX_CITIES)' = Length(ants[b].path, MAX_CITIES)
      <4>1. ants'[bestIndex'].path = ants[b].path /\ dist' = dist
        BY <1>1, <1>6, <3>1
      <4>. QED BY <4>1 DEF Length
    <3>. QED BY <1>1, <3>2, <3>3, <3>4 DEF FirstRankedKept
  <2>. QED BY <1>4, <2>1, <2>2
<1>9. AfterRestart'
  BY <1>1, <1>6, <1>8 DEF AfterRestart
<1>10. Phase' /\ Clock' /\ NoneMoved' /\ TourOver' /\ RanksRight'
  BY <1>1, <1>9 DEF IInv, Phase, Clock, NoneMoved, TourOver, RanksRight
<1>11. TrailsRight'
  BY <1>1, <1>9 DEF IInv, TrailsRight, Trails
<1>. QED BY <1>7, <1>10, <1>11 DEF IInv

\* A step in which nothing happens.
LEMMA StutterKeeps == IInv /\ UNCHANGED vars => IInv'
<1>. SUFFICES ASSUME IInv, UNCHANGED vars PROVE IInv'
  OBVIOUS
<1>1. UNCHANGED <<cities, dist, phero, ants, rankAnts, best, bestIndex, maxTime, curTime,
                  k, moving, pc>>
  BY DEF vars
<1>2. (FirstTour => FirstTour') /\ (AfterRestart => AfterRestart')
  BY <1>1, FirstTourKept, AfterRestartKept DEF AfterRestart
<1>3. TypeOK' /\ RanksRight'
  BY <1>1, RanksKept DEF IInv, TypeOK, MAX_TOUR
<1>4. Phase' /\ Clock' /\ NoneMoved' /\ TourOver'
  BY <1>1, <1>2 DEF IInv, Phase, Clock, NoneMoved, TourOver, ToursComplete
<1>5. TrailsRight'
  BY <1>1, <1>2 DEF IInv, TrailsRight, Trails
<1>. QED BY <1>3, <1>4, <1>5 DEF IInv

\* The invariant is inductive.
LEMMA IInvInductive == IInv /\ [Next]_vars => IInv'
<1>. SUFFICES ASSUME IInv, [Next]_vars PROVE IInv'
  OBVIOUS
<1>1. CASE StartRound BY <1>1, StartRoundKeeps
<1>2. CASE MoveAnt BY <1>2, MoveAntKeeps
<1>3. CASE AssertFails BY <1>3, AssertFailsKeeps
<1>4. CASE SkipAnt BY <1>4, SkipAntKeeps
<1>5. CASE EndRound BY <1>5, EndRoundKeeps
<1>6. CASE SortAnts BY <1>6, SortAntsKeeps
<1>7. CASE UpdateTrails BY <1>7, UpdateTrailsKeeps
<1>8. CASE RestartAnts BY <1>8, RestartAntsKeeps
<1>9. CASE Terminated BY <1>9, StutterKeeps DEF Terminated
<1>10. CASE UNCHANGED vars BY <1>10, StutterKeeps
<1>. QED BY <1>1, <1>2, <1>3, <1>4, <1>5, <1>6, <1>7, <1>8, <1>9, <1>10 DEF Next

\* In every state of every run the invariant holds.
LEMMA IInvHolds == Spec => []IInv
BY InitIInv, IInvInductive, PTL DEF Spec

-----------------------------------------------------------------------------
(* What follows for every run. *)

\* At the end of a tour the shorter tours are ranked first and every ant is ranked
\* as often as it is there.
LEMMA RankedFromArrangement ==
    ASSUME ants \in [Ant -> antType], rankAnts \in Arrangements(ants),
           SettledBelow(rankAnts, MAX_CITIES)
    PROVE  Ranked
<1>1. \A a, b \in Ant : a < b => rankAnts[a].tourLength <= rankAnts[b].tourLength
  BY DEF SettledBelow, Ant
<1>2. ASSUME NEW r
      PROVE  Cardinality({a \in Ant : rankAnts[a] = r}) = Cardinality({a \in Ant : ants[a] = r})
  <2>1. PICK f \in Bijection(Ant, Ant) : \A a \in Ant : rankAnts[a] = ants[f[a]]
    BY DEF Arrangements
  <2>2. IsFiniteSet(Ant)
    BY FS_Interval DEF Ant
  <2>3. Cardinality(Places(Ant, rankAnts, r)) = Cardinality(Places(Ant, ants, r))
    BY <2>1, <2>2, RearrangedCounts
  <2>. QED BY <2>3 DEF Places
<1>. QED BY <1>1, <1>2 DEF Ranked

\* The fields of an ant that has moved are those of its path: after any
\* interleaving of moves, rounds and restarts the tabu list holds exactly the
\* cities of the path, no city is met twice and tourLength is the length of the
\* path (lines 162-236).
THEOREM AntsCoherentHolds == Spec => []AntsCoherent
<1>1. IInv => AntsCoherent
  <2>. SUFFICES ASSUME IInv PROVE AntsCoherent
    OBVIOUS
  <2>1. ASSUME NEW a \in Ant, ants[a].pathIndex > 1
        PROVE  ants[a] \in antType /\ AntMatches(ants[a])
    <3>1. ~AfterRestart
      BY <2>1 DEF AfterRestart
    <3>. QED BY <2>1, <3>1 DEF IInv, Phase, FirstTour, TypeOK
  <2>2. LengthIsOfPath
    BY <2>1 DEF LengthIsOfPath, AntMatches
  <2>3. TabuIsPath
    <3>. SUFFICES ASSUME NEW a \in Ant, ants[a].pathIndex > 1
                  PROVE  /\ {c \in City : ants[a].tabu[c] = 1} = Seen(ants[a])
                         /\ \A p, r \in 0..(ants[a].pathIndex - 1) :
                              p # r => ants[a].path[p] # ants[a].path[r]
                         /\ ants[a].curCity = ants[a].path[ants[a].pathIndex - 1]
      BY DEF TabuIsPath, Seen
    <3>1. AntMatches(ants[a])
      BY <2>1
    <3>2. \A c \in City : ants[a].tabu[c] = IF c \in Seen(ants[a]) THEN 1 ELSE 0
      BY <3>1 DEF AntMatches
    <3>3. \A c \in Seen(ants[a]) : c \in City
      BY <3>1 DEF AntMatches, Seen, HoldsCities
    <3>4. {c \in City : ants[a].tabu[c] = 1} = Seen(ants[a])
      BY <3>2, <3>3
    <3>. QED BY <3>1, <3>4 DEF AntMatches
  <2>. QED BY <2>2, <2>3 DEF AntsCoherent, IInv
<1>. QED BY <1>1, IInvHolds, PTL

\* The trails are updated from complete tours only, and ranked ones: a round that
\* moves no ant finds all of them at their end, and sortAnts neither loses nor
\* duplicates one and leaves the shorter tours first (lines 235-258, 370-373).
THEOREM RankedToursCompleteHolds == Spec => []RankedToursComplete
<1>1. IInv => RankedToursComplete
  <2>. SUFFICES ASSUME IInv PROVE RankedToursComplete
    OBVIOUS
  <2>1. pc \in {"sort", "trails", "restart"} => ToursComplete
    BY DEF IInv, TourOver
  <2>2. pc \in {"trails", "restart"} => Ranked
    BY RankedFromArrangement DEF IInv, TypeOK, RanksRight
  <2>. QED BY <2>1, <2>2 DEF RankedToursComplete
<1>. QED BY <1>1, IInvHolds, PTL

\* Evaporation, the deposits of the ranks and of the best tour, and the halving
\* keep the trails the same in both directions and above zero (lines 263-331).
THEOREM TrailsSymmetricHolds == Spec => []TrailsSymmetric
<1>1. IInv => TrailsSymmetric
  BY DEF IInv, TrailsRight, Trails, TrailsSymmetric
<1>. QED BY <1>1, IInvHolds, PTL

\* After the restart best is the length of the tour that was ranked first and
\* bestIndex an ant that still holds a path of this length, unless no tour is
\* shorter than MAX_TOUR (lines 127-155 against 238-259).
THEOREM BestIsFirstRankedHolds == Spec => []BestIsFirstRanked
<1>1. IInv => BestIsFirstRanked
  <2>. SUFFICES ASSUME IInv, \A a \in Ant : ants[a].tabu[a] = -1 PROVE FirstRankedKept
    BY DEF BestIsFirstRanked, FirstRankedKept
  <2>1. 0 \in Ant /\ 0 \in City
    BY DEF Ant, City
  <2>2. ~AntMatches(ants[0])
    BY <2>1 DEF AntMatches
  <2>. QED BY <2>1, <2>2 DEF IInv, Phase, FirstTour, AfterRestart
<1>. QED BY <1>1, IInvHolds, PTL
=============================================================================
