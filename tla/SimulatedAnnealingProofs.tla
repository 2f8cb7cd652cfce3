---------------------- MODULE SimulatedAnnealingProofs ----------------------
(***************************************************************************)
(* Proofs about SimulatedAnnealing for every number of cities, every data  *)
(* file and every number of rounds: distances are rounded up, tours stay   *)
(* permutations, cached lengths stay true, nothing shorter than the best   *)
(* tour is ever seen, and the search implements KeepBest.                  *)
(***************************************************************************)
EXTENDS SimulatedAnnealing, DataLemmas, TLAPS

-----------------------------------------------------------------------------
(* Distances, lines 90-109. *)

\* A square is never negative.
LEMMA SquareInNat == ASSUME NEW v \in Int PROVE Square(v) \in Nat
<1>1. CASE v >= 0
  BY <1>1 DEF Square
<1>2. CASE v < 0
  <2>1. (-v) * (-v) \in Nat
    BY <1>2
  <2>2. v * v = (-v) * (-v)
    OBVIOUS
  <2>. QED BY <2>1, <2>2 DEF Square
<1>. QED BY <1>1, <1>2

\* Squares grow with their roots.
LEMMA SquareMonotone ==
    ASSUME NEW a \in Nat, NEW b \in Nat, a <= b
    PROVE  Square(a) <= Square(b)
<1>1. PICK d \in Nat : b = a + d
  <2>1. b - a \in Nat /\ b = a + (b - a)
    OBVIOUS
  <2>. QED BY <2>1
<1>2. b * b = a * a + (a * d + d * a + d * d)
  BY <1>1
<1>3. a * a \in Nat /\ a * d \in Nat /\ d * a \in Nat /\ d * d \in Nat
  OBVIOUS
<1>. QED BY <1>2, <1>3 DEF Square

\* Rounded(s) is what its definition says: there is a least such m.
LEMMA RoundedLeast ==
    ASSUME NEW s \in Nat
    PROVE  /\ Rounded(s) \in 0..s
           /\ 4 * s < 10 * Square(2 * Rounded(s) + 1)
           /\ \A o \in 0..s : 4 * s < 10 * Square(2 * o + 1) => Rounded(s) <= o
<1> DEFINE P(m) == 4 * s < 10 * Square(2 * m + 1)
           S == {m \in 0..s : P(m)}
<1>1. P(s)
  <2>1. (2 * s + 1) * (2 * s + 1) = 4 * (s * s) + 4 * s + 1
    OBVIOUS
  <2>2. s * s \in Nat
    OBVIOUS
  <2>3. 4 * s < 10 * (4 * (s * s) + 4 * s + 1)
    BY <2>2
  <2>. QED BY <2>1, <2>3 DEF Square
<1>2. S \in SUBSET Nat /\ S # {}
  BY <1>1
<1>3. \E m \in S : \A o \in S : m <= o
  BY <1>2, NatMin
<1>4. \E m \in 0..s : P(m) /\ \A o \in 0..s : P(o) => m <= o
  BY <1>3
<1>. QED BY <1>4 DEF Rounded

\* The rounding of lines 99-106 gives the least m with m >= sqrt(s / 10).
LEMMA RoundedUpLeast ==
    ASSUME NEW s \in Nat
    PROVE  /\ RoundedUp(s) \in Nat
           /\ s <= 10 * Square(RoundedUp(s))
           /\ \A o \in 0..(RoundedUp(s) - 1) : 10 * Square(o) < s
<1> DEFINE m == Rounded(s)
<1>1. /\ m \in Nat /\ m <= s
      /\ 4 * s < 10 * Square(2 * m + 1)
      /\ \A o \in 0..s : 4 * s < 10 * Square(2 * o + 1) => m <= o
  BY RoundedLeast
<1>2. Square(m) \in Nat /\ Square(m + 1) \in Nat
  BY <1>1, SquareInNat
<1>3. RoundedUp(s) = IF 10 * Square(m) < s THEN m + 1 ELSE m
  BY DEF RoundedUp
<1> HIDE DEF m
<1>4. CASE 10 * Square(m) < s
  <2>1. Square(2 * m + 1) <= Square(2 * m + 2)
    BY <1>1, SquareMonotone
  <2>2. Square(2 * m + 2) = 4 * Square(m + 1)
    BY <1>1 DEF Square
  <2>3. Square(2 * m + 1) \in Nat
    BY <1>1, SquareInNat
  <2>4. s <= 10 * Square(m + 1)
    BY <1>1, <1>2, <2>1, <2>2, <2>3
  <2>5. ASSUME NEW o \in 0..m PROVE 10 * Square(o) < s
    <3>1. Square(o) <= Square(m) /\ Square(o) \in Nat
      BY <1>1, SquareMonotone, SquareInNat
    <3>. QED BY <1>2, <1>4, <3>1
  <2>. QED BY <1>1, <1>3, <1>4, <2>4, <2>5
<1>5. CASE ~(10 * Square(m) < s)
  <2>1. ASSUME NEW o \in 0..(m - 1) PROVE 10 * Square(o) < s
    <3>1. o \in Nat /\ o \in 0..s /\ ~(m <= o)
      BY <1>1
    <3>2. ~(4 * s < 10 * Square(2 * o + 1))
      BY <1>1, <3>1
    <3>3. Square(2 * o + 1) = 4 * Square(o) + 4 * o + 1
      BY <3>1 DEF Square
    <3>4. Square(o) \in Nat
      BY <3>1, SquareInNat
    <3>. QED BY <3>1, <3>2, <3>3, <3>4
  <2>2. s <= 10 * Square(m)
    BY <1>2, <1>5
  <2>. QED BY <1>1, <1>3, <1>5, <2>1, <2>2
<1>. QED BY <1>4, <1>5

\* What line 99 takes the root of is never negative.
LEMMA TenSquaredInNat ==
    ASSUME NEW a \in City, NEW b \in City, x \in [City -> Int], y \in [City -> Int]
    PROVE  TenSquared(a, b) \in Nat
<1>1. x[a] - x[b] \in Int /\ y[a] - y[b] \in Int
  OBVIOUS
<1>. QED BY <1>1, SquareInNat DEF TenSquared

-----------------------------------------------------------------------------
(* Lengths of tours, lines 157-172. *)

\* What the legs of a tour are, and that they are natural numbers.
LEMMA LegsInNat ==
    ASSUME distance \in [City -> [City -> Nat]], NEW chr \in [Position -> City]
    PROVE  \A m \in 1..(cityNum - 1) : distance[chr[m - 1]][chr[m]] \in Nat
<1>. SUFFICES ASSUME NEW m \in 1..(cityNum - 1)
              PROVE  distance[chr[m - 1]][chr[m]] \in Nat
  OBVIOUS
<1>1. m \in Position /\ m - 1 \in Position
  BY CityAssumption DEF Position, City
<1>2. chr[m] \in City /\ chr[m - 1] \in City
  BY <1>1
<1>. QED BY <1>2

\* The recursive function of Legs exists, so the recursion describes it.
LEMMA LegsUnfold ==
    ASSUME distance \in [City -> [City -> Nat]], NEW chr \in [Position -> City]
    PROVE  \A m \in Position :
             Legs(chr)[m] = IF m = 0 THEN 0
                            ELSE Legs(chr)[m - 1] + distance[chr[m - 1]][chr[m]]
<1> DEFINE D(f) == [m \in Position |->
                      IF m = 0 THEN 0 ELSE f[m - 1] + distance[chr[m - 1]][chr[m]]]
           leg == [m \in 1..(cityNum - 1) |-> distance[chr[m - 1]][chr[m]]]
<1>1. Legs(chr) = CHOOSE f : f = D(f)
  BY DEF Legs
<1>2. leg \in [1..(cityNum - 1) -> Nat] /\ cityNum - 1 \in Nat
  BY LegsInNat, CityAssumption
<1> HIDE DEF leg
<1>3. PICK f \in [0..(cityNum - 1) -> Nat] :
        f[0] = 0 /\ \A m \in 1..(cityNum - 1) : f[m] = f[m - 1] + leg[m]
  BY <1>2, SumExists
<1>4. f = D(f)
  <2>1. f = [m \in Position |-> f[m]]
    BY DEF Position, City
  <2>2. \A m \in Position : f[m] = IF m = 0 THEN 0 ELSE f[m - 1] + distance[chr[m - 1]][chr[m]]
    <3>1. ASSUME NEW m \in Position, m # 0
          PROVE  f[m] = f[m - 1] + distance[chr[m - 1]][chr[m]]
      <4>1. m \in 1..(cityNum - 1)
        BY <3>1, CityAssumption DEF Position, City
      <4>. QED BY <1>3, <4>1 DEF leg
    <3>. QED BY <1>3, <3>1
  <2>. QED BY <2>1, <2>2
<1>5. Legs(chr) = D(Legs(chr))
  BY <1>1, <1>4
<1>. QED BY <1>5

\* A tour has a length.
LEMMA EvaluateInNat ==
    ASSUME distance \in [City -> [City -> Nat]], NEW chr \in [Position -> City]
    PROVE  evaluate(chr) \in Nat
<1> DEFINE L == Legs(chr)
           leg == [m \in 1..(cityNum - 1) |-> distance[chr[m - 1]][chr[m]]]
<1>1. \A m \in Position : L[m] = IF m = 0 THEN 0 ELSE L[m - 1] + distance[chr[m - 1]][chr[m]]
  BY LegsUnfold
<1> HIDE DEF L
<1>2. leg \in [1..(cityNum - 1) -> Nat] /\ cityNum - 1 \in Nat
  BY LegsInNat, CityAssumption
<1>3. Position = 0..(cityNum - 1) /\ 0 \in Position /\ cityNum - 1 \in Position
  BY CityAssumption DEF Position, City
<1>4. L[0] = 0 /\ \A m \in 1..(cityNum - 1) : L[m] = L[m - 1] + leg[m]
  BY <1>1, <1>3
<1> HIDE DEF leg
<1>5. L[cityNum - 1] \in Nat
  BY <1>2, <1>3, <1>4, SumInNat
<1>6. distance[chr[cityNum - 1]][chr[0]] \in Nat
  BY <1>3
<1>. QED BY <1>5, <1>6 DEF evaluate, L

\* The length of a tour is the same as long as the distances are.
LEMMA EvaluateStable ==
    ASSUME distance' = distance
    PROVE  \A chr : evaluate(chr)' = evaluate(chr)
<1>. QED BY DEF evaluate, Legs

\* The same, of a tour that is itself a variable's next value.
LEMMA EvaluatePrimed ==
    ASSUME distance' = distance
    PROVE  /\ evaluate(Ghh)' = evaluate(Ghh')
           /\ evaluate(bestGh)' = evaluate(bestGh')
           /\ evaluate(tempGhh)' = evaluate(tempGhh')
<1>. QED BY DEF evaluate, Legs

-----------------------------------------------------------------------------
(* The inductive invariant. *)

\* While initGroup draws, the cities it has settled on differ, and no neighbour
\* has been evaluated.
GroupInvariant ==
    annealingPc = "group" =>
        /\ tempEvaluation = IntMax
        /\ \A p, r \in 0..(filled - 1) : p # r => Ghh[p] # Ghh[r]

IInv ==
    /\ AnnealingTypeOK
    /\ DistanceRoundsUp
    /\ GroupInvariant
    /\ ToursArePermutations
    /\ EvaluationsCoherent
    /\ NothingBetterSeen

\* The distances of lines 90-109 and the empty group satisfy the invariant.
LEMMA InitIInv == AnnealingInit => IInv
<1>. SUFFICES ASSUME AnnealingInit PROVE IInv
  OBVIOUS
<1>1. x \in [City -> Int] /\ y \in [City -> Int]
  BY LayoutAssumption DEF AnnealingInit
<1>2. \A a, b \in City : TenSquared(a, b) \in Nat
  BY <1>1, TenSquaredInNat
<1>3. \A a, b \in City : distance[a][b] = IF a = b THEN 0 ELSE RoundedUp(TenSquared(a, b))
  BY DEF AnnealingInit
<1>4. \A a, b \in City : RoundedUp(TenSquared(a, b)) \in Nat
  BY <1>2, RoundedUpLeast
<1>5. distance \in [City -> [City -> Nat]]
  BY <1>4 DEF AnnealingInit
<1>6. DistanceRoundsUp
  <2>. SUFFICES ASSUME NEW a \in City, NEW b \in City
                PROVE  /\ TenSquared(a, b) <= 10 * Square(distance[a][b])
                       /\ \A o \in 0..(distance[a][b] - 1) : 10 * Square(o) < TenSquared(a, b)
    BY DEF DistanceRoundsUp
  <2>1. CASE a = b
    <3>1. TenSquared(a, b) = 0 /\ distance[a][b] = 0 /\ Square(0) = 0
      BY <1>1, <1>3, <2>1 DEF TenSquared, Square
    <3>. QED BY <3>1
  <2>2. CASE a # b
    BY <1>2, <1>3, <2>2, RoundedUpLeast
  <2>. QED BY <2>1, <2>2
<1>7. AnnealingTypeOK
  <2>1. 0 \in City
    BY CityAssumption DEF City
  <2>. QED BY <1>1, <1>5, <2>1, CityAssumption, LoopAssumption, IntAssumption
           DEF AnnealingInit, AnnealingTypeOK, Position
<1>8. GroupInvariant /\ ToursArePermutations /\ EvaluationsCoherent /\ NothingBetterSeen
  BY DEF AnnealingInit, GroupInvariant, ToursArePermutations, EvaluationsCoherent, NothingBetterSeen
<1>. QED BY <1>6, <1>7, <1>8 DEF IInv

\* Swapping two positions of a tour gives a tour.
LEMMA LinjuTour ==
    ASSUME NEW g \in Tours, NEW ran1 \in Position, NEW ran2 \in Position, ran1 # ran2
    PROVE  Linju(g, ran1, ran2) \in Tours
<1> DEFINE h == Linju(g, ran1, ran2)
<1>1. g \in [Position -> City] /\ \A p, r \in Position : p # r => g[p] # g[r]
  BY DEF Tours
<1>2. h \in [Position -> City]
  BY <1>1 DEF Linju
<1>3. \A p \in Position : h[p] = IF p = ran1 THEN g[ran2] ELSE IF p = ran2 THEN g[ran1] ELSE g[p]
  BY <1>1 DEF Linju
<1> HIDE DEF h
<1>4. \A p, r \in Position : p # r => h[p] # h[r]
  BY <1>1, <1>3
<1>5. h \in Tours
  BY <1>2, <1>4 DEF Tours
<1>. QED BY <1>5 DEF h

\* A step that leaves the data and the tours alone keeps the invariant.
LEMMA IdleIInv ==
    ASSUME IInv, annealingPc' \in {"group", "search", "done"},
           annealingPc' = "group" <=> annealingPc = "group",
           UNCHANGED <<data, filled, current, best, temp>>, cooling' \in 0..T, round' \in 0..Rounds
    PROVE  IInv'
<1>. USE DEF data, current, best, temp
<1>1. AnnealingTypeOK'
  BY DEF IInv, AnnealingTypeOK
<1>2. DistanceRoundsUp'
  BY DEF IInv, DistanceRoundsUp, TenSquared
<1>3. GroupInvariant'
  BY DEF IInv, GroupInvariant
<1>4. ToursArePermutations'
  BY DEF IInv, ToursArePermutations
<1>5. EvaluationsCoherent'
  BY EvaluatePrimed DEF IInv, EvaluationsCoherent
<1>6. NothingBetterSeen'
  BY DEF IInv, NothingBetterSeen
<1>. QED BY <1>1, <1>2, <1>3, <1>4, <1>5, <1>6 DEF IInv

\* One draw of lines 137-144 keeps the invariant.
LEMMA DrawIInv == ASSUME IInv, NEW c \in City, Draw(c) PROVE IInv'
<1>. USE DEF data, current, best, temp
<1>1. AnnealingTypeOK'
  <2>1. filled \in Position /\ filled + 1 \in 0..cityNum
    BY CityAssumption DEF IInv, AnnealingTypeOK, Draw, Position, City
  <2>2. Ghh' \in [Position -> City]
    BY <2>1 DEF IInv, AnnealingTypeOK, Draw
  <2>3. filled' \in 0..cityNum
    BY <2>1 DEF IInv, AnnealingTypeOK, Draw
  <2>. QED BY <2>2, <2>3 DEF IInv, AnnealingTypeOK, Draw
<1>2. DistanceRoundsUp'
  BY DEF IInv, DistanceRoundsUp, TenSquared, Draw
<1>3. GroupInvariant'
  <2>1. annealingPc = "group" /\ annealingPc' = "group" /\ tempEvaluation' = IntMax
    BY DEF IInv, GroupInvariant, Draw
  <2>2. filled \in Position /\ filled \in Nat /\ 0..filled \in SUBSET Position /\ Ghh \in [Position -> City]
    <3>1. filled \in Nat /\ filled < cityNum /\ Ghh \in [Position -> City]
      BY CityAssumption DEF IInv, AnnealingTypeOK, Draw
    <3>2. Position = 0..(cityNum - 1)
      BY DEF Position, City
    <3>. QED BY <3>1, <3>2, CityAssumption
  <2>3. \A p, r \in 0..(filled - 1) : p # r => Ghh[p] # Ghh[r]
    BY <2>1 DEF IInv, GroupInvariant
  <2>4. \A p \in 0..filled : Ghh'[p] = IF p = filled THEN c ELSE Ghh[p]
    BY <2>2 DEF Draw
  <2>5. CASE NewCity(c)
    <3>1. filled' = filled + 1
      BY <2>5 DEF Draw
    <3>2. ASSUME NEW p \in 0..filled, NEW r \in 0..filled, p # r PROVE Ghh'[p] # Ghh'[r]
      <4>1. CASE p = filled
        BY <2>2, <2>4, <2>5, <3>2, <4>1 DEF NewCity
      <4>2. CASE r = filled
        BY <2>2, <2>4, <2>5, <3>2, <4>2 DEF NewCity
      <4>3. CASE p # filled /\ r # filled
        BY <2>2, <2>3, <2>4, <3>2, <4>3
      <4>. QED BY <4>1, <4>2, <4>3
    <3>3. filled' - 1 = filled
      BY <2>2, <3>1
    <3>. QED BY <2>1, <3>2, <3>3 DEF GroupInvariant
  <2>6. CASE ~NewCity(c)
    <3>1. filled' = filled
      BY <2>6 DEF Draw
    <3>2. \A p \in 0..(filled - 1) : p \in 0..filled /\ p # filled
      BY <2>2
    <3>3. \A p, r \in 0..(filled - 1) : p # r => Ghh'[p] # Ghh'[r]
      BY <2>3, <2>4, <3>2
    <3>. QED BY <2>1, <3>1, <3>3 DEF GroupInvariant
  <2>. QED BY <2>5, <2>6
<1>4. ToursArePermutations' /\ EvaluationsCoherent' /\ NothingBetterSeen'
  BY DEF Draw, ToursArePermutations, EvaluationsCoherent, NothingBetterSeen
<1>. QED BY <1>1, <1>2, <1>3, <1>4 DEF IInv

\* Lines 198-204 start from a tour that initGroup has completed.
LEMMA StartSearchIInv == ASSUME IInv, StartSearch PROVE IInv'
<1>. USE DEF data, current, best, temp
<1>1. distance \in [City -> [City -> Nat]] /\ Ghh \in [Position -> City] /\ distance' = distance
  BY DEF IInv, AnnealingTypeOK, StartSearch
<1>2. evaluate(Ghh) \in Nat
  BY <1>1, EvaluateInNat
<1>3. Ghh \in Tours
  <2>1. \A p, r \in 0..(cityNum - 1) : p # r => Ghh[p] # Ghh[r]
    BY DEF IInv, GroupInvariant, StartSearch
  <2>. QED BY <1>1, <2>1 DEF Tours, Position, City
<1>4. tempEvaluation' = IntMax
  BY DEF IInv, GroupInvariant, StartSearch
<1>5. AnnealingTypeOK'
  BY <1>1, <1>2 DEF IInv, AnnealingTypeOK, StartSearch
<1>6. DistanceRoundsUp'
  BY DEF IInv, DistanceRoundsUp, TenSquared, StartSearch
<1>7. GroupInvariant'
  BY DEF GroupInvariant, StartSearch
<1>8. ToursArePermutations'
  BY <1>3, <1>4 DEF ToursArePermutations, StartSearch
<1>9. EvaluationsCoherent'
  BY <1>1, EvaluatePrimed DEF EvaluationsCoherent, StartSearch
<1>10. NothingBetterSeen'
  BY <1>2, <1>4 DEF NothingBetterSeen, StartSearch
<1>. QED BY <1>5, <1>6, <1>7, <1>8, <1>9, <1>10 DEF IInv

\* One neighbour of lines 210-226 keeps the invariant.
LEMMA StepIInv == ASSUME IInv, Step PROVE IInv'
<1>. USE DEF data, current, best, temp
<1>1. /\ distance \in [City -> [City -> Nat]] /\ distance' = distance
      /\ annealingPc = "search" /\ annealingPc' = "search"
      /\ GhhEvaluation \in Nat /\ bestEvaluation \in Nat
  BY DEF IInv, AnnealingTypeOK, Step
<1>2. Ghh \in Tours /\ bestGh \in Tours
  BY <1>1 DEF IInv, ToursArePermutations
<1>3. tempGhh' \in Tours
  BY <1>2, LinjuTour DEF Step
<1>4. /\ Ghh \in [Position -> City] /\ bestGh \in [Position -> City]
      /\ tempGhh' \in [Position -> City]
  BY <1>2, <1>3 DEF Tours
<1>5. tempEvaluation' = evaluate(tempGhh') /\ tempEvaluation' \in Nat
  BY <1>1, <1>4, EvaluateInNat DEF Step
<1>6. GhhEvaluation = evaluate(Ghh) /\ bestEvaluation = evaluate(bestGh)
  BY <1>1 DEF IInv, EvaluationsCoherent
<1>7. bestEvaluation <= GhhEvaluation
  BY <1>1 DEF IInv, NothingBetterSeen
<1>8. \/ Ghh' = tempGhh' /\ GhhEvaluation' = tempEvaluation'
      \/ Ghh' = Ghh /\ GhhEvaluation' = GhhEvaluation
  BY DEF Step, Metropolis
<1>9. \/ /\ tempEvaluation' < bestEvaluation
         /\ bestGh' = tempGhh' /\ bestEvaluation' = tempEvaluation' /\ bestT' = cooling
      \/ /\ ~(tempEvaluation' < bestEvaluation)
         /\ bestGh' = bestGh /\ bestEvaluation' = bestEvaluation /\ bestT' = bestT
  BY DEF Step, RememberBest
<1>10. AnnealingTypeOK'
  <2>1. round' \in 0..Rounds
    BY LoopAssumption DEF IInv, AnnealingTypeOK, Step
  <2>2. bestT' \in 0..T
    BY <1>9 DEF IInv, AnnealingTypeOK
  <2>. QED BY <1>1, <1>4, <1>5, <1>8, <1>9, <2>1, <2>2 DEF IInv, AnnealingTypeOK, Step
<1>11. DistanceRoundsUp'
  BY DEF IInv, DistanceRoundsUp, TenSquared, Step
<1>12. GroupInvariant'
  BY <1>1 DEF GroupInvariant
<1>13. ToursArePermutations'
  <2>1. Ghh' \in Tours /\ bestGh' \in Tours
    BY <1>2, <1>3, <1>8, <1>9
  <2>. QED BY <1>3, <2>1 DEF ToursArePermutations
<1>14. EvaluationsCoherent'
  <2>1. GhhEvaluation' = evaluate(Ghh') /\ bestEvaluation' = evaluate(bestGh')
    BY <1>5, <1>6, <1>8, <1>9
  <2>. QED BY <1>1, <2>1, EvaluatePrimed DEF EvaluationsCoherent
<1>15. NothingBetterSeen'
  BY <1>1, <1>5, <1>7, <1>8, <1>9 DEF NothingBetterSeen
<1>. QED BY <1>10, <1>11, <1>12, <1>13, <1>14, <1>15 DEF IInv

\* Every step keeps the invariant.
LEMMA NextIInv == IInv /\ [AnnealingNext]_annealingVars => IInv'
<1>. SUFFICES ASSUME IInv, [AnnealingNext]_annealingVars PROVE IInv'
  OBVIOUS
<1>1. AnnealingTypeOK
  BY DEF IInv
<1>2. ASSUME NEW c \in City, Draw(c) PROVE IInv'
  BY <1>2, DrawIInv
<1>3. CASE StartSearch
  BY <1>3, StartSearchIInv
<1>4. CASE Step
  BY <1>4, StepIInv
<1>5. CASE Cool
  <2>1. cooling' \in 0..T /\ round' \in 0..Rounds
    BY <1>1, <1>5, LoopAssumption DEF Cool, AnnealingTypeOK
  <2>. QED BY <1>1, <1>5, <2>1, IdleIInv DEF Cool, AnnealingTypeOK
<1>6. CASE AnnealingFinish
  BY <1>1, <1>6, IdleIInv DEF AnnealingFinish, AnnealingTypeOK
<1>7. CASE UNCHANGED annealingVars
  BY <1>1, <1>7, IdleIInv DEF annealingVars, data, current, best, temp, AnnealingTypeOK
<1>. QED BY <1>2, <1>3, <1>4, <1>5, <1>6, <1>7 DEF AnnealingNext, AnnealingTerminated

\* The parts of the invariant hold together in every reachable state.
THEOREM InvariantHolds == AnnealingSpec => []IInv
<1>. QED BY InitIInv, NextIInv, PTL DEF AnnealingSpec

-----------------------------------------------------------------------------
(* The theorems. *)

\* Every variable keeps to its type, so every tour drawn or swapped maps
\* positions to cities and every length is a natural number (lines 72-241).
THEOREM TypeCorrect == AnnealingSpec => []AnnealingTypeOK
<1>1. IInv => AnnealingTypeOK
  BY DEF IInv
<1>. QED BY <1>1, InvariantHolds, PTL

\* Whatever the data file holds, lines 90-109 round every distance up and never
\* by more than they must.
THEOREM DistancesRoundUp == AnnealingSpec => []DistanceRoundsUp
<1>1. IInv => DistanceRoundsUp
  BY DEF IInv
<1>. QED BY <1>1, InvariantHolds, PTL

\* From the search on every array holds a tour of all the cities: the draws of
\* lines 132-147, the swap of 177-194 and the copies of 149-154 lose none.
THEOREM ToursStayPermutations == AnnealingSpec => []ToursArePermutations
<1>1. IInv => ToursArePermutations
  BY DEF IInv
<1>. QED BY <1>1, InvariantHolds, PTL

\* The cached lengths are those of the arrays they are kept beside, and the best
\* of them is no longer than any tour the walk has looked at last.
THEOREM BestIsTrue == AnnealingSpec => [](EvaluationsCoherent /\ NothingBetterSeen)
<1>1. IInv => EvaluationsCoherent /\ NothingBetterSeen
  BY DEF IInv
<1>. QED BY <1>1, InvariantHolds, PTL

\* The search refines KeepBest: lines 199-217 record the first tour with its
\* length and replace it only by a strictly shorter one.
THEOREM ImplementsKeepBest == AnnealingSpec => KeepsBest
<1>1. AnnealingInit => KeepBestSearch!Init
  <2>. SUFFICES ASSUME AnnealingInit PROVE KeepBestSearch!Init
    OBVIOUS
  <2>1. distance \in [City -> [City -> Nat]]
    BY InitIInv DEF IInv, AnnealingTypeOK
  <2>2. \A g \in Tours : evaluate(g) \in Nat
    BY <2>1, EvaluateInNat DEF Tours
  <2>. QED BY <2>2 DEF AnnealingInit, KeepBestSearch!Init
<1>2. IInv /\ IInv' /\ [AnnealingNext]_annealingVars => [KeepBestSearch!Next]_(KeepBestSearch!vars)
  <2>. SUFFICES ASSUME IInv, IInv', [AnnealingNext]_annealingVars
                PROVE  [KeepBestSearch!Next]_(KeepBestSearch!vars)
    OBVIOUS
  <2>. USE DEF data, current, best, temp
  <2> DEFINE cost == [g \in Tours |-> evaluate(g)]
             chosen == IF annealingPc = "group" THEN <<>> ELSE bestGh
  <2>1. cost' = cost
    <3>1. distance' = distance
      BY DEF AnnealingNext, Draw, StartSearch, Step, Cool, AnnealingFinish, AnnealingTerminated, annealingVars
    <3>2. \A g : evaluate(g)' = evaluate(g)
      BY <3>1, EvaluateStable
    <3>. QED BY <3>2
  <2> HIDE DEF cost
  <2>2. CASE StartSearch
    <3>1. annealingPc = "group" /\ annealingPc' = "search" /\ bestGh' = Ghh /\ bestEvaluation' = evaluate(Ghh)
      BY <2>2 DEF StartSearch
    <3>2. Ghh \in Tours
      BY <3>1 DEF IInv, ToursArePermutations, StartSearch
    <3>3. bestEvaluation' = cost[Ghh]
      BY <3>1, <3>2 DEF cost
    <3>4. KeepBestSearch!First(Ghh)
      BY <2>1, <3>1, <3>3 DEF KeepBestSearch!First, cost
    <3>. QED BY <3>2, <3>4 DEF KeepBestSearch!Next
  <2>3. CASE Step
    <3>1. /\ annealingPc = "search" /\ annealingPc' = "search"
          /\ tempEvaluation' = evaluate(tempGhh')
          /\ bestGh \in Tours /\ Ghh \in Tours
      BY <2>3 DEF IInv, ToursArePermutations, Step
    <3>2. tempGhh' \in Tours
      BY <2>3, <3>1, LinjuTour DEF Step
    <3>3. tempEvaluation' = cost[tempGhh']
      BY <3>1, <3>2 DEF cost
    <3>4. CASE tempEvaluation' < bestEvaluation
      <4>1. bestGh' = tempGhh' /\ bestEvaluation' = tempEvaluation'
        BY <2>3, <3>4 DEF Step, RememberBest
      <4>2. KeepBestSearch!Improve(tempGhh')
        BY <2>1, <3>1, <3>3, <3>4, <4>1 DEF KeepBestSearch!Improve, cost
      <4>. QED BY <3>2, <4>2 DEF KeepBestSearch!Next
    <3>5. CASE ~(tempEvaluation' < bestEvaluation)
      <4>1. bestGh' = bestGh /\ bestEvaluation' = bestEvaluation
        BY <2>3, <3>5 DEF Step, RememberBest
      <4>. QED BY <2>1, <3>1, <4>1 DEF KeepBestSearch!vars, cost
    <3>. QED BY <3>4, <3>5
  <2>4. CASE UNCHANGED <<bestGh, bestEvaluation>> /\ (annealingPc' = "group" <=> annealingPc = "group")
    BY <2>1, <2>4 DEF KeepBestSearch!vars, cost
  <2>. QED BY <2>2, <2>3, <2>4 DEF AnnealingNext, Draw, Cool, AnnealingFinish, AnnealingTerminated, annealingVars
<1>. QED BY <1>1, <1>2, InvariantHolds, PTL DEF AnnealingSpec, KeepsBest, KeepBestSearch!Spec
=============================================================================
