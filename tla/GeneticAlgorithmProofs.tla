----------------------- MODULE GeneticAlgorithmProofs -----------------------
(***************************************************************************)
(* Proofs about GeneticAlgorithm for every number of locations, every size *)
(* of a population and every data file: all codes stay tours, the sort     *)
(* orders a population and loses none of it, the recorded code is the best *)
(* of every population it was compared with, the loop implements KeepBest. *)
(***************************************************************************)
EXTENDS GeneticAlgorithm, DataLemmas, FiniteSetTheorems, TLAPS

-----------------------------------------------------------------------------
(* Lengths, lines 126-137. *)

\* A code has a length: the recursive sum of its legs exists.
LEMMA FitfunInNat ==
    ASSUME distance \in [Location -> [Location -> Nat]], NEW co \in tcode
    PROVE  fitfun(co) \in Nat
<1> DEFINE D(f) == [p \in Gene |->
                      IF p = 1 THEN distance[0][co[1]]
                      ELSE f[p - 1] + distance[co[p - 1]][co[p]]]
           leg == [p \in 1..MAXC |->
                     IF p = 1 THEN distance[0][co[1]] ELSE distance[co[p - 1]][co[p]]]
           A == CHOOSE f : f = D(f)
           B == [p \in 0..MAXC |-> IF p = 0 THEN 0 ELSE A[p]]
<1>1. /\ MAXC \in Nat /\ MAXC \in 0..MAXC /\ MAXC # 0 /\ Gene = 1..MAXC
      /\ 1 \in Gene /\ MAXC \in Gene
      /\ \A p \in Gene : p # 1 => p - 1 \in Gene
  BY CodeAssumption DEF Gene
<1>2. 0 \in Location /\ \A p \in Gene : co[p] \in Location
  <2>1. \A p \in Gene : co[p] \in Gene
    BY DEF tcode
  <2>2. 0 \in Location /\ Gene \subseteq Location
    BY CodeAssumption DEF Location, Gene
  <2>. QED BY <2>1, <2>2
<1>3. leg \in [1..MAXC -> Nat]
  <2>1. ASSUME NEW p \in 1..MAXC
        PROVE  (IF p = 1 THEN distance[0][co[1]] ELSE distance[co[p - 1]][co[p]]) \in Nat
    <3>1. CASE p = 1
      BY <1>1, <1>2, <3>1
    <3>2. CASE p # 1
      BY <1>1, <1>2, <3>2
    <3>. QED BY <3>1, <3>2
  <2>. QED BY <2>1
<1>4. PICK f \in [0..MAXC -> Nat] : f[0] = 0 /\ \A p \in 1..MAXC : f[p] = f[p - 1] + leg[p]
  <2> HIDE DEF leg
  <2>. QED BY <1>1, <1>3, SumExists
<1> DEFINE g == [p \in Gene |-> f[p]]
<1>5. g = D(g)
  <2>1. ASSUME NEW p \in Gene
        PROVE  f[p] = IF p = 1 THEN distance[0][co[1]]
                      ELSE g[p - 1] + distance[co[p - 1]][co[p]]
    <3>1. CASE p = 1
      <4>1. f[1] = f[0] + leg[1] /\ leg[1] \in Nat /\ leg[1] = distance[0][co[1]]
        BY <1>1, <1>3, <1>4
      <4>. QED BY <1>4, <3>1, <4>1
    <3>2. CASE p # 1
      <4>1. f[p] = f[p - 1] + leg[p] /\ leg[p] = distance[co[p - 1]][co[p]]
        BY <1>1, <1>4, <3>2
      <4>2. g[p - 1] = f[p - 1]
        BY <1>1, <3>2
      <4>. QED BY <3>2, <4>1, <4>2
    <3>. QED BY <3>1, <3>2
  <2>. QED BY <2>1
<1>6. A = D(A)
  BY <1>5
<1>7. fitfun(co) = A[MAXC] + distance[co[MAXC]][0]
  BY DEF fitfun
<1> HIDE DEF A
<1>8. A[1] = distance[0][co[1]]
  BY <1>1, <1>6
<1>9. \A p \in Gene : p # 1 => A[p] = A[p - 1] + distance[co[p - 1]][co[p]]
  BY <1>6
<1>10. B[0] = 0 /\ \A p \in 1..MAXC : B[p] = B[p - 1] + leg[p]
  <2>1. B[0] = 0
    BY <1>1
  <2>2. ASSUME NEW p \in 1..MAXC PROVE B[p] = B[p - 1] + leg[p]
    <3>1. CASE p = 1
      <4>1. B[1] = A[1] /\ leg[1] = distance[0][co[1]] /\ leg[1] \in Nat
        BY <1>1, <1>3
      <4>. QED BY <1>8, <2>1, <3>1, <4>1
    <3>2. CASE p # 1
      <4>1. p \in Gene /\ B[p] = A[p] /\ leg[p] = distance[co[p - 1]][co[p]]
        BY <1>1, <3>2
      <4>2. p - 1 \in 0..MAXC /\ p - 1 # 0 /\ B[p - 1] = A[p - 1]
        BY <1>1, <3>2
      <4>. QED BY <1>9, <3>2, <4>1, <4>2
    <3>. QED BY <3>1, <3>2
  <2>. QED BY <2>1, <2>2
<1> HIDE DEF B, leg
<1>11. B[MAXC] \in Nat
  BY <1>1, <1>3, <1>10, SumInNat
<1>12. A[MAXC] \in Nat
  BY <1>1, <1>11 DEF B
<1>13. distance[co[MAXC]][0] \in Nat
  BY <1>1, <1>2
<1>. QED BY <1>7, <1>12, <1>13

\* The length of a code is the same as long as the distances are.
LEMMA FitfunStable ==
    ASSUME distance' = distance
    PROVE  \A co : fitfun(co)' = fitfun(co)
<1>. QED BY DEF fitfun

\* The same, of a code that is itself a variable's next value.
LEMMA FitfunPrimed ==
    ASSUME distance' = distance
    PROVE  /\ fitfun(copt)' = fitfun(copt')
           /\ \A r : fitfun(pparent[r])' = fitfun(pparent'[r])
<1>. QED BY DEF fitfun

-----------------------------------------------------------------------------
(* The first population, lines 111-123. *)

\* What repeated drawing makes of a buffer exists as a function of the draws.
LEMMA BufferExists ==
    ASSUME NEW m \in Nat, NEW buf \in tcode, NEW step \in [1..m -> [tcode -> tcode]]
    PROVE  \E f : /\ \A p \in 0..m : f[p] \in tcode
                  /\ f[0] = buf
                  /\ \A p \in 1..m : f[p] = step[p][f[p - 1]]
<1>. QED BY IterationExists

\* Every code that genrcode may draw is a tour: what is left in the first
\* places of the buffer has not been drawn and is never there twice.
LEMMA GenrcodeTour == ASSUME NEW d \in Draws PROVE genrcode(d) \in Tours
<1> DEFINE D(F) == [p \in Gene |->
                      IF p = 1 THEN inibuf ELSE LET before == F[p - 1] IN Drawn(before, d[p - 1])]
           bl == CHOOSE F : F = D(F)
           step == [p \in 1..(MAXC - 1) |-> [b \in tcode |-> Drawn(b, d[p])]]
<1>1. /\ MAXC \in Nat /\ MAXC - 1 \in Nat /\ Gene = 1..MAXC /\ 1 \in Gene
      /\ \A p \in Gene : p # 1 => p - 1 \in Gene /\ p - 1 \in 1..(MAXC - 1)
  BY CodeAssumption DEF Gene
<1>2. d \in [Gene -> Gene] /\ \A p \in Gene : d[p] <= MAXC + 1 - p
  BY DEF Draws
<1>3. \A b \in tcode : \A nr \in Gene : Drawn(b, nr) \in tcode
  <2>1. ASSUME NEW b \in tcode, NEW nr \in Gene, NEW p \in Gene
        PROVE  (IF p >= nr /\ p < MAXC THEN b[p + 1] ELSE b[p]) \in Gene
    <3>1. p < MAXC => p + 1 \in Gene
      BY <1>1
    <3>. QED BY <3>1 DEF tcode
  <2>. QED BY <2>1 DEF Drawn, tcode
<1>4. step \in [1..(MAXC - 1) -> [tcode -> tcode]]
  <2>1. \A p \in 1..(MAXC - 1) : d[p] \in Gene
    BY <1>1, <1>2
  <2>. QED BY <1>3, <2>1
<1>5. inibuf \in tcode
  BY DEF inibuf, tcode
<1>6. PICK f : /\ \A p \in 0..(MAXC - 1) : f[p] \in tcode
               /\ f[0] = inibuf
               /\ \A p \in 1..(MAXC - 1) : f[p] = step[p][f[p - 1]]
  <2> HIDE DEF step
  <2>. QED BY <1>1, <1>4, <1>5, BufferExists
<1> DEFINE g == [p \in Gene |-> f[p - 1]]
<1>7. g = D(g)
  <2>1. ASSUME NEW p \in Gene, p # 1 PROVE f[p - 1] = Drawn(g[p - 1], d[p - 1])
    <3>1. p - 1 \in 1..(MAXC - 1) /\ p - 1 \in Gene /\ (p - 1) - 1 \in 0..(MAXC - 1)
      BY <1>1, <2>1
    <3>2. f[p - 1] = step[p - 1][f[(p - 1) - 1]]
      BY <1>6, <3>1
    <3>3. f[(p - 1) - 1] \in tcode /\ g[p - 1] = f[(p - 1) - 1]
      BY <1>6, <3>1
    <3> HIDE DEF g
    <3>. QED BY <3>1, <3>2, <3>3
  <2>2. f[1 - 1] = inibuf
    BY <1>6
  <2>. QED BY <2>1, <2>2
<1>8. bl = D(bl)
  BY <1>7
<1>9. genrcode(d) = [p \in Gene |-> bl[p][d[p]]]
  BY DEF genrcode
<1> HIDE DEF bl, step, g
<1>10. bl[1] = inibuf /\ \A p \in Gene : p # 1 => bl[p] = Drawn(bl[p - 1], d[p - 1])
  BY <1>1, <1>8
<1> DEFINE Left(n, b) ==
             /\ b \in tcode
             /\ \A r, s \in 1..(MAXC - n) : r # s => b[r] # b[s]
             /\ \A q \in 1..n : \A r \in 1..(MAXC - n) : bl[q][d[q]] # b[r]
           S == {n \in Nat : n < MAXC => Left(n, bl[n + 1])}
<1>11. 0 \in S
  <2>1. Left(0, bl[0 + 1])
    BY <1>1, <1>5, <1>10 DEF inibuf
  <2>. QED BY <2>1
<1>12. ASSUME NEW n \in S PROVE n + 1 \in S
  <2>. SUFFICES ASSUME n + 1 < MAXC PROVE Left(n + 1, bl[(n + 1) + 1])
    OBVIOUS
  <2> DEFINE b == bl[n + 1]
             c == bl[n + 2]
             nr == d[n + 1]
  <2>1. n \in Nat /\ n + 1 \in Gene /\ n + 2 \in Gene /\ n + 2 # 1 /\ (n + 1) + 1 = n + 2
    BY <1>1
  <2>2. Left(n, b)
    BY <1>1
  <2>3. nr \in Gene /\ nr <= MAXC - n
    BY <1>1, <1>2, <2>1
  <2>4. c = Drawn(b, nr)
    BY <1>10, <2>1
  <2> HIDE DEF b, c, nr
  <2>5. c \in tcode
    BY <1>3, <2>2, <2>3, <2>4
  <2> DEFINE at(r) == IF r >= nr THEN r + 1 ELSE r
  <2>6. \A r \in 1..(MAXC - (n + 1)) : c[r] = b[at(r)] /\ at(r) \in 1..(MAXC - n) /\ at(r) # nr
    <3>. SUFFICES ASSUME NEW r \in 1..(MAXC - (n + 1))
                  PROVE  c[r] = b[at(r)] /\ at(r) \in 1..(MAXC - n) /\ at(r) # nr
      OBVIOUS
    <3>1. r \in Gene /\ r < MAXC /\ r + 1 \in 1..(MAXC - n) /\ r \in 1..(MAXC - n)
      BY <1>1, <2>1
    <3>2. c[r] = IF r >= nr /\ r < MAXC THEN b[r + 1] ELSE b[r]
      BY <2>4, <3>1 DEF Drawn
    <3>3. nr \in Nat /\ r \in Nat
      BY <1>1, <2>3, <3>1
    <3>. QED BY <3>1, <3>2, <3>3
  <2>7. \A r, s \in 1..(MAXC - (n + 1)) : r # s => at(r) # at(s)
    BY <1>1, <2>1, <2>3
  <2> HIDE DEF at
  <2>8. \A r, s \in 1..(MAXC - (n + 1)) : r # s => c[r] # c[s]
    BY <2>2, <2>6, <2>7
  <2>9. ASSUME NEW q \in 1..(n + 1), NEW r \in 1..(MAXC - (n + 1))
        PROVE  bl[q][d[q]] # c[r]
    <3>1. CASE q = n + 1
      <4>1. nr \in 1..(MAXC - n)
        BY <1>1, <2>1, <2>3
      <4>2. b[nr] # c[r]
        BY <2>2, <2>6, <4>1
      <4>. QED BY <3>1, <4>2 DEF b, nr
    <3>2. CASE q # n + 1
      <4>1. q \in 1..n
        BY <2>1, <3>2
      <4>. QED BY <2>2, <2>6, <4>1
    <3>. QED BY <3>1, <3>2
  <2>. QED BY <2>1, <2>5, <2>8, <2>9 DEF c
<1>13. \A n \in Nat : n \in S
  <2>1. S \in SUBSET Nat
    OBVIOUS
  <2> HIDE DEF S
  <2>. QED BY <1>11, <1>12, <2>1, NatClosed
<1>14. \A p \in Gene : Left(p - 1, bl[p])
  <2>. SUFFICES ASSUME NEW p \in Gene PROVE Left(p - 1, bl[p])
    OBVIOUS
  <2>1. p - 1 \in Nat /\ p - 1 < MAXC /\ (p - 1) + 1 = p
    BY <1>1
  <2> HIDE DEF Left
  <2>. QED BY <1>13, <2>1
<1>15. \A p \in Gene : d[p] \in 1..(MAXC - (p - 1)) /\ d[p] \in Gene
  BY <1>1, <1>2
<1>16. \A p \in Gene : bl[p][d[p]] \in Gene
  BY <1>14, <1>15 DEF tcode
<1>17. \A p, q \in Gene : q < p => bl[q][d[q]] # bl[p][d[p]]
  <2>. SUFFICES ASSUME NEW p \in Gene, NEW q \in Gene, q < p
                PROVE  bl[q][d[q]] # bl[p][d[p]]
    OBVIOUS
  <2>1. q \in 1..(p - 1)
    BY <1>1
  <2>. QED BY <1>14, <1>15, <2>1
<1>18. \A p, q \in Gene : p # q => bl[p][d[p]] # bl[q][d[q]]
  <2>1. \A p, q \in Gene : p # q => p < q \/ q < p
    BY <1>1
  <2>. QED BY <1>17, <2>1
<1>. QED BY <1>9, <1>16, <1>18 DEF Tours, tcode

-----------------------------------------------------------------------------
(* What the operators do to a tour. *)

\* Two places of a tour may change their contents.
LEMMA SwapTour ==
    ASSUME NEW c \in Tours, NEW p \in Gene, NEW q \in Gene, NEW e \in tcode,
           \A r \in Gene : e[r] = IF r = p THEN c[q] ELSE IF r = q THEN c[p] ELSE c[r]
    PROVE  e \in Tours
<1>1. \A r, s \in Gene : r # s => c[r] # c[s]
  BY DEF Tours
<1>2. \A r, s \in Gene : r # s => e[r] # e[s]
  BY <1>1
<1>. QED BY <1>2 DEF Tours

\* cross exchanges two locations of a tour: the search of line 223 finds one.
LEMMA ExchangedTour ==
    ASSUME NEW c \in Tours, NEW new \in Gene, new # c[cpos]
    PROVE  Exchanged(c, c[cpos], new) \in Tours
<1> DEFINE places == {p \in Gene : c[p] = new}
           first == CHOOSE p \in places : \A r \in places : p <= r
           e == [c EXCEPT ![first] = c[cpos], ![cpos] = new]
<1>1. c \in [Gene -> Gene] /\ cpos \in Gene
  BY CodeAssumption DEF Tours, tcode, cpos, Gene
<1>2. CASE places = {}
  BY <1>2 DEF Exchanged
<1>3. CASE places # {}
  <2>1. places \in SUBSET Nat
    BY CodeAssumption DEF Gene
  <2>2. \E p \in places : \A r \in places : p <= r
    BY <1>3, <2>1, NatMin
  <2>3. first \in places
    BY <2>2
  <2>4. Exchanged(c, c[cpos], new) = e
    BY <1>3 DEF Exchanged
  <2> HIDE DEF first
  <2>5. first \in Gene /\ c[first] = new /\ first # cpos
    BY <2>3
  <2>6. e \in tcode
    BY <1>1 DEF tcode
  <2>7. \A r \in Gene : e[r] = IF r = first THEN c[cpos] ELSE IF r = cpos THEN c[first] ELSE c[r]
    BY <1>1, <2>5
  <2> HIDE DEF e
  <2>8. \A r, s \in Gene : c[r] = c[s] => r = s
    BY DEF Tours
  <2>9. \A r, s \in Gene : r # s => e[r] # e[s]
    BY <1>1, <2>5, <2>7, <2>8
  <2>10. e \in Tours
    BY <2>6, <2>9 DEF Tours
  <2>. QED BY <2>4, <2>10
<1>. QED BY <1>2, <1>3

\* mutation leaves a tour alone or swaps two of its places.
LEMMA MutatedTour ==
    ASSUME NEW c \in Tours, NEW e \in Mutated(c)
    PROVE  e \in Tours
<1>1. c \in [Gene -> Gene]
  BY DEF Tours, tcode
<1>2. CASE e = c
  BY <1>2
<1>3. ASSUME NEW p1 \in Gene, NEW p2 \in Gene, e = [c EXCEPT ![p1] = c[p2], ![p2] = c[p1]]
      PROVE  e \in Tours
  <2>1. e \in tcode
    BY <1>1, <1>3 DEF tcode
  <2>2. \A r \in Gene : e[r] = IF r = p1 THEN c[p2] ELSE IF r = p2 THEN c[p1] ELSE c[r]
    BY <1>1, <1>3
  <2>. QED BY <2>1, <2>2, SwapTour
<1>. QED BY <1>2, <1>3 DEF Mutated

\* Nothing stored is not a code.
LEMMA NoCodeIsNone == NoCode \notin tcode
<1>1. DOMAIN NoCode = {}
  BY DEF NoCode
<1>2. 1 \in Gene
  BY CodeAssumption DEF Gene
<1>3. \A c \in tcode : DOMAIN c = Gene
  BY DEF tcode
<1>. QED BY <1>1, <1>2, <1>3

-----------------------------------------------------------------------------
(* Sorting, lines 163-177. *)

\* The lengths of the rows of a population.
Fits(pop) == [r \in Row |-> fitfun(pop[r])]

\* What the two loops have done when they compare rows a and b: the rows before
\* a are settled, and none between a and b is shorter than row a.
PartlySorted(F, a, b) ==
    /\ \A r, s \in Row : r < a /\ r < s => F[r] <= F[s]
    /\ \A s \in Row : a < s /\ s < b => F[a] <= F[s]

\* One comparison, on the lengths alone.
LEMMA CompareOnce ==
    ASSUME NEW F \in [Row -> Nat], NEW G \in [Row -> Nat],
           NEW a \in Row, NEW b \in Row, a < b, PartlySorted(F, a, b),
           \A r \in Row : G[r] = IF F[a] > F[b] /\ r = a THEN F[b]
                               ELSE IF F[a] > F[b] /\ r = b THEN F[a] ELSE F[r]
    PROVE  PartlySorted(G, a, b + 1)
<1>1. Row \subseteq Nat /\ \A r \in Row : F[r] \in Nat /\ G[r] \in Nat
  BY DEF Row
<1>2. ASSUME NEW r \in Row, NEW s \in Row, r < a, r < s PROVE G[r] <= G[s]
  <2>1. F[r] <= F[s] /\ F[r] <= F[a] /\ F[r] <= F[b]
    BY <1>1, <1>2 DEF PartlySorted
  <2>2. r # a /\ r # b /\ G[r] = F[r]
    BY <1>1, <1>2
  <2>. QED BY <2>1, <2>2
<1>3. ASSUME NEW s \in Row, a < s, s < b + 1 PROVE G[a] <= G[s]
  <2>1. CASE s = b
    BY <1>1, <1>3, <2>1
  <2>2. CASE s # b
    <3>1. s < b /\ s # a
      BY <1>1, <1>3, <2>2
    <3>2. F[a] <= F[s] /\ G[s] = F[s]
      BY <1>3, <2>2, <3>1 DEF PartlySorted
    <3>3. G[a] = IF F[a] > F[b] THEN F[b] ELSE F[a]
      OBVIOUS
    <3>4. F[a] \in Nat /\ F[b] \in Nat /\ F[s] \in Nat
      BY <1>1
    <3>. QED BY <3>2, <3>3, <3>4
  <2>. QED BY <2>1, <2>2
<1>. QED BY <1>2, <1>3 DEF PartlySorted

-----------------------------------------------------------------------------
(* The inductive invariant. *)

\* How far the sort has come, and the order it leaves.
SortInvariant ==
    /\ pc = "sort" => i < j /\ PartlySorted(Fits(pparent), i, j)
    /\ pc \in {"record", "repro", "done"} =>
         \A r, s \in Row : r < s => fitfun(pparent[r]) <= fitfun(pparent[s])

\* While a new population is made, it is there.
ChildInvariant ==
    pc \in {"cross", "mutation", "copy"} => pchild # NoPop

\* As long as the loop goes on, nloop has not passed NL.
NotOver == pc \notin {"done", "astray"} => nloop <= NL

\* The order of the sort and the counter explain why the steps keep the rest.
IInv ==
    /\ TypeOK
    /\ PopulationsAreTours
    /\ SortInvariant
    /\ ChildInvariant
    /\ NotOver
    /\ BestOfPopulation

\* An empty array of rows is no population.
LEMMA NoPopIsNone == \A pop : pop \in [Row -> tcode] => pop # NoPop
<1>1. DOMAIN NoPop = {}
  BY DEF NoPop
<1>2. 1 \in Row
  BY PopulationAssumption DEF Row
<1>3. \A pop : pop \in [Row -> tcode] => DOMAIN pop = Row
  OBVIOUS
<1>. QED BY <1>1, <1>2, <1>3

\* The first population of lines 156-161 satisfies the invariant.
LEMMA InitIInv == Init => IInv
<1>. SUFFICES ASSUME Init PROVE IInv
  OBVIOUS
<1>1. distance \in [Location -> [Location -> Nat]]
  BY MapAssumption DEF Init
<1>2. \A r \in Row : pparent[r] \in Tours
  <2>1. \A r \in Row : \E d \in Draws : pparent[r] = genrcode(d)
    BY DEF Init
  <2>. QED BY <2>1, GenrcodeTour
<1>3. pparent \in [Row -> tcode]
  <2>1. \A r \in Row : pparent[r] \in tcode
    BY <1>2 DEF Tours
  <2>2. pparent = [r \in Row |-> pparent[r]]
    BY DEF Init
  <2>. QED BY <2>1, <2>2
<1>4. TypeOK
  BY <1>1, <1>3, PopulationAssumption, LoopAssumption DEF Init, TypeOK, Row
<1>5. PopulationsAreTours /\ ChildInvariant /\ NotOver /\ BestOfPopulation
  BY <1>2, LoopAssumption DEF NotOver, Init, PopulationsAreTours, ChildInvariant, BestOfPopulation
<1>6. SortInvariant
  BY DEF Init, SortInvariant, PartlySorted, Row
<1>. QED BY <1>4, <1>5, <1>6 DEF IInv

-----------------------------------------------------------------------------
(* The steps. *)

\* What most steps leave alone: the data, the population and its order.
LEMMA IdleIInv ==
    ASSUME IInv, UNCHANGED <<distance, pparent, best, i, j>>,
           pc' \in {"repro", "cross", "mutation", "copy", "astray"},
           pc \in {"repro", "cross", "mutation", "copy"},
           pc' = "repro" => pc = "repro",
           pc' = "astray" => pchild' = pchild,
           pc' # "astray" => pchild' \in [Row -> Tours]
    PROVE  IInv'
<1>. USE DEF best
<1>1. pc' # "astray" => pchild' \in [Row -> tcode] /\ \A r \in Row : pchild'[r] \in Tours
  BY DEF Tours
<1>2. TypeOK'
  BY <1>1 DEF IInv, TypeOK
<1>3. PopulationsAreTours'
  BY <1>1 DEF IInv, PopulationsAreTours
<1>4. SortInvariant'
  <2>1. pc' # "sort" /\ pc' # "record" /\ pc' # "done"
    OBVIOUS
  <2>2. CASE pc' = "repro"
    <3>1. \A r, s \in Row : r < s => fitfun(pparent[r]) <= fitfun(pparent[s])
      BY <2>2 DEF IInv, SortInvariant
    <3>2. \A r \in Row : fitfun(pparent[r])' = fitfun(pparent[r])
      BY FitfunPrimed
    <3>. QED BY <2>1, <3>1, <3>2 DEF SortInvariant
  <2>. QED BY <2>1, <2>2 DEF SortInvariant
<1>5. ChildInvariant'
  BY <1>1, NoPopIsNone DEF ChildInvariant
<1>6. BestOfPopulation'
  <2>1. \A r \in Row : fopt <= fitfun(pparent[r])
    BY DEF IInv, BestOfPopulation
  <2>2. IF copt = NoCode THEN fopt = FOPT ELSE fopt = fitfun(copt) /\ fopt < FOPT
    BY DEF IInv, BestOfPopulation
  <2>3. fitfun(copt)' = fitfun(copt) /\ \A r \in Row : fitfun(pparent[r])' = fitfun(pparent[r])
    BY FitfunPrimed
  <2>. QED BY <2>1, <2>2, <2>3 DEF BestOfPopulation
<1>7. NotOver'
  BY DEF IInv, NotOver
<1>. QED BY <1>2, <1>3, <1>4, <1>5, <1>6, <1>7 DEF IInv

\* A comparison of sortpop.
LEMMA sortpopIInv == ASSUME IInv, sortpop PROVE IInv'
<1>. USE DEF best
<1>1. /\ distance \in [Location -> [Location -> Nat]] /\ distance' = distance
      /\ pparent \in [Row -> tcode] /\ i \in Row /\ j \in Row
      /\ \A r \in Row : pparent[r] \in Tours
      /\ pc = "sort" /\ i < j /\ PartlySorted(Fits(pparent), i, j)
  BY DEF IInv, TypeOK, PopulationsAreTours, SortInvariant, sortpop
<1>2. \A r \in Row : pparent'[r] = IF fitfun(pparent[i]) > fitfun(pparent[j]) /\ r = i THEN pparent[j]
                                ELSE IF fitfun(pparent[i]) > fitfun(pparent[j]) /\ r = j THEN pparent[i]
                                ELSE pparent[r]
  BY <1>1 DEF sortpop, Compared
<1>3. pparent' \in [Row -> tcode] /\ \A r \in Row : pparent'[r] \in Tours
  <2>1. \A r \in Row : pparent'[r] \in Tours
    BY <1>1, <1>2
  <2>2. pparent' \in [Row -> tcode]
    BY <1>1 DEF sortpop, Compared
  <2>. QED BY <2>1, <2>2
<1>4. j + 1 \in Nat /\ PartlySorted(Fits(pparent'), i, j + 1)
  <2> DEFINE F == Fits(pparent)
             G == Fits(pparent')
  <2>1. F \in [Row -> Nat] /\ G \in [Row -> Nat]
    BY <1>1, <1>3, FitfunInNat DEF Fits, Tours
  <2>2. \A r \in Row : F[r] = fitfun(pparent[r]) /\ G[r] = fitfun(pparent'[r])
    BY DEF Fits
  <2>3. \A r \in Row : G[r] = IF F[i] > F[j] /\ r = i THEN F[j]
                           ELSE IF F[i] > F[j] /\ r = j THEN F[i] ELSE F[r]
    BY <1>1, <1>2, <2>2
  <2> HIDE DEF F, G
  <2>4. PartlySorted(G, i, j + 1)
    BY <1>1, <2>1, <2>3, CompareOnce DEF F
  <2>. QED BY <1>1, <2>4 DEF G, Row
<1>5. Fits(pparent)' = Fits(pparent') /\ \A r \in Row : Fits(pparent')[r] = fitfun(pparent'[r])
  <2>1. Fits(pparent)' = Fits(pparent')
    BY <1>1 DEF Fits, fitfun
  <2>2. \A r \in Row : Fits(pparent')[r] = fitfun(pparent'[r])
    BY DEF Fits
  <2>. QED BY <2>1, <2>2
<1>6. TypeOK'
  <2>1. i' \in Row /\ j' \in Row
    BY <1>1, PopulationAssumption DEF sortpop, Row
  <2>2. pc' \in {"sort", "record"}
    BY <1>1 DEF sortpop
  <2>. QED BY <1>3, <2>1, <2>2 DEF IInv, TypeOK, sortpop
<1>7. PopulationsAreTours'
  BY <1>3 DEF IInv, PopulationsAreTours, sortpop
<1>8. SortInvariant'
  <2>1. CASE j < POPSIZE /\ j' = j + 1 /\ i' = i /\ pc' = pc
    <3>1. i' < j' /\ PartlySorted(Fits(pparent'), i', j')
      BY <1>1, <1>4, <2>1 DEF Row
    <3>. QED BY <1>1, <1>5, <2>1, <3>1 DEF SortInvariant
  <2>2. CASE j = POPSIZE /\ i + 1 < POPSIZE /\ i' = i + 1 /\ j' = i + 2 /\ pc' = pc
    <3>1. i' < j' /\ PartlySorted(Fits(pparent'), i', j')
      BY <1>1, <1>4, <2>2, PopulationAssumption DEF Row, PartlySorted
    <3>. QED BY <1>1, <1>5, <2>2, <3>1 DEF SortInvariant
  <2>3. CASE j = POPSIZE /\ i + 1 = POPSIZE /\ pc' = "record"
    <3>1. \A r, s \in Row : r < s => Fits(pparent')[r] <= Fits(pparent')[s]
      BY <1>1, <1>4, <2>3, PopulationAssumption DEF Row, PartlySorted
    <3>2. \A r \in Row : fitfun(pparent[r])' = Fits(pparent')[r]
      BY <1>1, <1>5, FitfunPrimed
    <3>. QED BY <2>3, <3>1, <3>2 DEF SortInvariant
  <2>. QED BY <2>1, <2>2, <2>3 DEF sortpop
<1>9. ChildInvariant'
  <2>1. pc' \in {"sort", "record"}
    BY <1>1 DEF sortpop
  <2>. QED BY <2>1 DEF ChildInvariant
<1>10. BestOfPopulation'
  <2>1. IF copt = NoCode THEN fopt = FOPT ELSE fopt = fitfun(copt) /\ fopt < FOPT
    BY DEF IInv, BestOfPopulation
  <2>2. fitfun(copt)' = fitfun(copt)
    BY <1>1, FitfunPrimed DEF sortpop
  <2>3. pc' \in {"sort", "record"} /\ fopt' = fopt /\ copt' = copt
    BY <1>1 DEF sortpop
  <2>. QED BY <2>1, <2>2, <2>3 DEF BestOfPopulation
<1>11. NotOver'
  BY <1>1 DEF IInv, NotOver, sortpop
<1>. QED BY <1>6, <1>7, <1>8, <1>9, <1>10, <1>11 DEF IInv

\* Recording the first row, which is a shortest one.
LEMMA RecordIInv == ASSUME IInv, Record PROVE IInv'
<1>. USE DEF best
<1> DEFINE F1 == fitfun(pparent[1])
<1>1. /\ distance \in [Location -> [Location -> Nat]] /\ distance' = distance
      /\ pparent \in [Row -> tcode] /\ pparent' = pparent /\ 1 \in Row
      /\ pparent[1] \in Tours /\ pparent[1] \in tcode
      /\ pc = "record" /\ fopt \in 0..FOPT /\ nloop \in 0..(NL + 1)
  BY PopulationAssumption DEF IInv, TypeOK, PopulationsAreTours, Record, Row
<1>2. F1 \in Nat /\ \A r \in Row : fitfun(pparent[r]) \in Nat /\ F1 <= fitfun(pparent[r])
  <2>1. \A r \in Row : fitfun(pparent[r]) \in Nat
    BY <1>1, FitfunInNat
  <2>2. \A r, s \in Row : r < s => fitfun(pparent[r]) <= fitfun(pparent[s])
    BY <1>1 DEF IInv, SortInvariant
  <2>3. \A r \in Row : r = 1 \/ 1 < r
    BY PopulationAssumption DEF Row
  <2> HIDE DEF F1
  <2>. QED BY <1>1, <2>1, <2>2, <2>3 DEF F1
<1>3. /\ fitfun(copt)' = fitfun(copt')
      /\ \A r \in Row : fitfun(pparent[r])' = fitfun(pparent[r])
  BY <1>1, FitfunPrimed
<1>4. IF copt = NoCode THEN fopt = FOPT ELSE fopt = fitfun(copt) /\ fopt < FOPT
  BY DEF IInv, BestOfPopulation
<1>5. pc' = "done" \/ (pc' = "repro" /\ ~(nloop' > NL))
  BY DEF Record
<1>6. \/ /\ fopt > F1 /\ fopt' = F1 /\ nloop' = 0 /\ copt' = pparent[1]
      \/ /\ ~(fopt > F1) /\ nloop' = nloop + 1 /\ fopt' = fopt /\ copt' = copt
  BY DEF Record, Recorded
<1>. HIDE DEF F1
<1>7. TypeOK'
  <2>1. nloop \in 0..NL
    BY <1>1, LoopAssumption DEF IInv, NotOver
  <2>2. nloop' \in 0..(NL + 1) /\ fopt' \in 0..FOPT
    BY <1>1, <1>2, <1>6, <2>1, LoopAssumption
  <2>3. copt' = NoCode \/ copt' \in tcode
    BY <1>1, <1>6 DEF IInv, TypeOK
  <2>4. pc' \in {"done", "repro"}
    BY DEF Record
  <2>. QED BY <2>2, <2>3, <2>4 DEF IInv, TypeOK, Record
<1>8. PopulationsAreTours'
  BY <1>1, <1>6 DEF IInv, PopulationsAreTours, Record
<1>9. SortInvariant'
  <2>1. \A r, s \in Row : r < s => fitfun(pparent[r]) <= fitfun(pparent[s])
    BY <1>1 DEF IInv, SortInvariant
  <2>2. pc' \in {"done", "repro"}
    BY DEF Record
  <2>. QED BY <1>3, <2>1, <2>2 DEF SortInvariant
<1>10. ChildInvariant'
  BY DEF ChildInvariant, Record
<1>11. BestOfPopulation'
  <2>1. \A r \in Row : fopt' <= fitfun(pparent[r])
    BY <1>1, <1>2, <1>6
  <2>2. IF copt' = NoCode THEN fopt' = FOPT ELSE fopt' = fitfun(copt') /\ fopt' < FOPT
    BY <1>1, <1>2, <1>4, <1>6, LoopAssumption, NoCodeIsNone DEF F1
  <2>. QED BY <1>3, <2>1, <2>2 DEF BestOfPopulation
<1>12. NotOver'
  <2>1. nloop' \in 0..(NL + 1)
    BY <1>7 DEF TypeOK
  <2>. QED BY <1>5, <2>1, LoopAssumption DEF NotOver
<1>. QED BY <1>7, <1>8, <1>9, <1>10, <1>11, <1>12 DEF IInv

\* Selecting rows of a population of tours.
LEMMA reproIInv == ASSUME IInv, repro PROVE IInv'
<1>1. pchild' \in [Row -> Tours]
  BY DEF IInv, PopulationsAreTours, repro
<1>. QED BY <1>1, IdleIInv DEF repro

\* Crossing pairs of rows in place.
LEMMA crossIInv == ASSUME IInv, cross PROVE IInv'
<1>1. \A r \in Row : pchild[r] \in Tours
  BY DEF IInv, PopulationsAreTours, ChildInvariant, cross
<1>2. \A r \in Row : Partner(r) \in Row
  BY PopulationAssumption DEF Partner, Row
<1>3. cpos \in Gene
  BY CodeAssumption DEF cpos, Gene
<1>4. ASSUME NEW r \in Row, pchild[r][cpos] # pchild[Partner(r)][cpos]
      PROVE  Exchanged(pchild[r], pchild[r][cpos], pchild[Partner(r)][cpos]) \in Tours
  <2>1. pchild[r] \in Tours /\ pchild[Partner(r)] \in Tours
    BY <1>1, <1>2
  <2>2. pchild[Partner(r)][cpos] \in Gene
    BY <1>3, <2>1 DEF Tours, tcode
  <2>. QED BY <1>4, <2>1, <2>2, ExchangedTour
<1>5. pchild' \in [Row -> Tours]
  BY <1>1, <1>4 DEF cross
<1>. QED BY <1>5, IdleIInv DEF cross

\* Mutating every row or leaving it alone.
LEMMA mutationIInv == ASSUME IInv, mutation PROVE IInv'
<1>1. \A r \in Row : pchild[r] \in Tours
  BY DEF IInv, PopulationsAreTours, ChildInvariant, mutation
<1>2. PICK pop \in [Row -> UNION {Mutated(pchild[r]) : r \in Row}] :
        (\A r \in Row : pop[r] \in Mutated(pchild[r])) /\ pchild' = pop
  BY DEF mutation
<1>3. \A r \in Row : pop[r] \in Tours
  BY <1>1, <1>2, MutatedTour
<1>4. pop = [r \in Row |-> pop[r]]
  OBVIOUS
<1>5. pchild' \in [Row -> Tours]
  BY <1>2, <1>3, <1>4
<1>. QED BY <1>5, IdleIInv DEF mutation

\* Starting over with the new population.
LEMMA copypopIInv == ASSUME IInv, copypop PROVE IInv'
<1>. USE DEF best
<1>1. /\ pchild # NoPop /\ pchild \in [Row -> tcode] /\ \A r \in Row : pchild[r] \in Tours
      /\ pparent' = pchild /\ pchild' = pchild /\ i' = 1 /\ j' = 2 /\ pc' = "sort"
      /\ pc = "copy"
  BY DEF IInv, TypeOK, PopulationsAreTours, ChildInvariant, copypop
<1>2. TypeOK'
  <2>1. 1 \in Row /\ 2 \in Row
    BY PopulationAssumption DEF Row
  <2>. QED BY <1>1, <2>1 DEF IInv, TypeOK, copypop
<1>3. PopulationsAreTours'
  BY <1>1 DEF IInv, PopulationsAreTours, copypop
<1>4. SortInvariant'
  BY <1>1 DEF SortInvariant, PartlySorted, Row
<1>5. ChildInvariant' /\ NotOver'
  BY <1>1 DEF IInv, ChildInvariant, NotOver, copypop
<1>6. BestOfPopulation'
  <2>1. IF copt = NoCode THEN fopt = FOPT ELSE fopt = fitfun(copt) /\ fopt < FOPT
    BY DEF IInv, BestOfPopulation
  <2>2. fitfun(copt)' = fitfun(copt) /\ fopt' = fopt /\ copt' = copt
    BY FitfunPrimed DEF copypop
  <2>. QED BY <1>1, <2>1, <2>2 DEF BestOfPopulation
<1>. QED BY <1>2, <1>3, <1>4, <1>5, <1>6 DEF IInv

\* Nothing happens.
LEMMA StutterIInv == ASSUME IInv, UNCHANGED vars PROVE IInv'
<1>. USE DEF vars, best
<1>1. TypeOK' /\ PopulationsAreTours' /\ ChildInvariant' /\ NotOver'
  BY DEF IInv, TypeOK, PopulationsAreTours, ChildInvariant, NotOver
<1>2. /\ fitfun(copt)' = fitfun(copt)
      /\ \A r \in Row : fitfun(pparent[r])' = fitfun(pparent[r])
      /\ Fits(pparent)' = Fits(pparent)
  <2>1. Fits(pparent)' = Fits(pparent)
    BY DEF Fits, fitfun
  <2>. QED BY <2>1, FitfunPrimed
<1>3. SortInvariant'
  BY <1>2 DEF IInv, SortInvariant
<1>4. BestOfPopulation'
  BY <1>2 DEF IInv, BestOfPopulation
<1>. QED BY <1>1, <1>3, <1>4 DEF IInv

\* Every step of main's loop keeps the invariant.
LEMMA NextIInv == IInv /\ [Next]_vars => IInv'
<1>. SUFFICES ASSUME IInv, [Next]_vars PROVE IInv'
  OBVIOUS
<1>1. CASE sortpop
  BY <1>1, sortpopIInv
<1>2. CASE Record
  BY <1>2, RecordIInv
<1>3. CASE repro
  BY <1>3, reproIInv
<1>4. CASE reproAstray
  BY <1>4, IdleIInv DEF reproAstray
<1>5. CASE cross
  BY <1>5, crossIInv
<1>6. CASE mutation
  BY <1>6, mutationIInv
<1>7. CASE copypop
  BY <1>7, copypopIInv
<1>8. CASE UNCHANGED vars
  BY <1>8, StutterIInv
<1>. QED BY <1>1, <1>2, <1>3, <1>4, <1>5, <1>6, <1>7, <1>8 DEF Next, Terminated

\* The parts of the invariant hold together in every reachable state.
THEOREM InvariantHolds == Spec => []IInv
<1>. QED BY InitIInv, NextIInv, PTL DEF Spec

-----------------------------------------------------------------------------
(* The theorems. *)

\* Every variable keeps to its type: counters stay inside the population, codes
\* map positions to locations, the loop counter stops one past NL (lines 44-76).
THEOREM TypeCorrect == Spec => []TypeOK
<1>1. IInv => TypeOK
  BY DEF IInv
<1>. QED BY <1>1, InvariantHolds, PTL

\* genrcode, repro, cross and mutation (lines 111-260) make tours of tours,
\* whatever rand returns and however many locations and codes there are.
THEOREM PopulationsStayTours == Spec => []PopulationsAreTours
<1>1. IInv => PopulationsAreTours
  BY DEF IInv
<1>. QED BY <1>1, InvariantHolds, PTL

\* The code recorded is a best one of the population it was recorded from, and
\* fopt is its length (lines 58-67).
THEOREM BestIsOfPopulation == Spec => []BestOfPopulation
<1>1. IInv => BestOfPopulation
  BY DEF IInv
<1>. QED BY <1>1, InvariantHolds, PTL

\* Sorting only moves rows about: as long as pchild holds the population that
\* was copied, pparent is that population in some order.
Rearranged ==
    pchild # NoPop /\ pc \in {"sort", "record", "repro", "done"} =>
        \E f \in Bijection(Row, Row) : \A r \in Row : pparent[r] = pchild[f[r]]

\* The population stays the one that was copied from repro to repro: only
\* sortpop moves its rows (lines 163-177, 263).
LEMMA RearrangedHolds == Spec => []Rearranged
<1>1. Init => Rearranged
  BY DEF Init, Rearranged
<1>2. IInv /\ Rearranged /\ [Next]_vars => Rearranged'
  <2>. SUFFICES ASSUME IInv, Rearranged, [Next]_vars PROVE Rearranged'
    OBVIOUS
  <2>1. CASE sortpop
    <3>. SUFFICES ASSUME pchild # NoPop
                  PROVE  \E g \in Bijection(Row, Row) : \A r \in Row : pparent'[r] = pchild[g[r]]
      BY <2>1 DEF sortpop, Rearranged
    <3>1. PICK f \in Bijection(Row, Row) : \A r \in Row : pparent[r] = pchild[f[r]]
      BY <2>1 DEF sortpop, Rearranged
    <3>2. pparent \in [Row -> tcode] /\ i \in Row /\ j \in Row /\ f \in [Row -> Row]
      BY DEF IInv, TypeOK, Bijection, Injection
    <3>3. CASE fitfun(pparent[i]) > fitfun(pparent[j])
      <4> DEFINE g == [f EXCEPT ![i] = f[j], ![j] = f[i]]
      <4>1. g \in Bijection(Row, Row)
        BY <3>2, SwappedBijection
      <4>2. pparent' = [pparent EXCEPT ![i] = pparent[j], ![j] = pparent[i]]
        BY <2>1, <3>3 DEF sortpop, Compared
      <4>3. \A r \in Row : pparent'[r] = pchild[g[r]]
        BY <3>1, <3>2, <4>2
      <4>. QED BY <4>1, <4>3
    <3>4. CASE ~(fitfun(pparent[i]) > fitfun(pparent[j]))
      <4>1. pparent' = pparent
        BY <2>1, <3>4 DEF sortpop, Compared
      <4>. QED BY <3>1, <4>1
    <3>. QED BY <3>3, <3>4
  <2>2. CASE copypop
    <3> DEFINE f == [r \in Row |-> r]
    <3>1. f \in Bijection(Row, Row)
      BY DEF Bijection, Injection, Surjection, IsInjective
    <3>2. \A r \in Row : pparent'[r] = pchild'[f[r]]
      BY <2>2 DEF copypop
    <3>. QED BY <3>1, <3>2 DEF Rearranged
  <2>3. CASE Record
    BY <2>3 DEF Record, Rearranged
  <2>4. CASE repro \/ reproAstray \/ cross \/ mutation
    BY <2>4 DEF repro, reproAstray, cross, mutation, Rearranged
  <2>5. CASE UNCHANGED vars
    BY <2>5 DEF vars, Rearranged
  <2>. QED BY <2>1, <2>2, <2>3, <2>4, <2>5 DEF Next, Terminated
<1>. QED BY <1>1, <1>2, InvariantHolds, PTL DEF Spec

\* Two nested loops of comparisons leave the population in order of length and
\* lose none of it, nor double any (lines 163-177).
THEOREM SortedPopulationHolds == Spec => []SortedPopulation
<1>1. IInv /\ Rearranged => SortedPopulation
  <2>. SUFFICES ASSUME IInv, Rearranged, pc \in {"record", "repro", "done"}
                PROVE  /\ \A r, s \in Row : r < s => fitfun(pparent[r]) <= fitfun(pparent[s])
                       /\ pchild # NoPop =>
                            \A c \in {pchild[r] : r \in Row} :
                              Cardinality({r \in Row : pparent[r] = c})
                                = Cardinality({r \in Row : pchild[r] = c})
    BY DEF SortedPopulation
  <2>1. \A r, s \in Row : r < s => fitfun(pparent[r]) <= fitfun(pparent[s])
    BY DEF IInv, SortInvariant
  <2>2. ASSUME pchild # NoPop, NEW c
        PROVE  Cardinality({r \in Row : pparent[r] = c}) = Cardinality({r \in Row : pchild[r] = c})
    <3>1. PICK f \in Bijection(Row, Row) : \A r \in Row : pparent[r] = pchild[f[r]]
      BY <2>2 DEF Rearranged
    <3>2. IsFiniteSet(Row)
      BY PopulationAssumption, FS_Interval DEF Row
    <3>3. Cardinality(Places(Row, pparent, c)) = Cardinality(Places(Row, pchild, c))
      BY <3>1, <3>2, RearrangedCounts
    <3>. QED BY <3>3 DEF Places
  <2>. QED BY <2>1, <2>2
<1>. QED BY <1>1, InvariantHolds, RearrangedHolds, PTL

\* The loop of main() refines KeepBest: lines 60-65 replace the recorded code
\* only by a strictly shorter one and store that one's length.
THEOREM ImplementsKeepBest == Spec => KeepsBest
<1>1. Init => Abstract!Init
  <2>. SUFFICES ASSUME Init PROVE Abstract!Init
    OBVIOUS
  <2>1. distance \in [Location -> [Location -> Nat]]
    BY InitIInv DEF IInv, TypeOK
  <2>2. \A c \in Tours : fitfun(c) \in Nat
    BY <2>1, FitfunInNat DEF Tours
  <2>. QED BY <2>2 DEF Init, Abstract!Init
<1>2. IInv /\ IInv' /\ [Next]_vars => [Abstract!Next]_(Abstract!vars)
  <2>. SUFFICES ASSUME IInv, IInv', [Next]_vars
                PROVE  [Abstract!Next]_(Abstract!vars)
    OBVIOUS
  <2>. USE DEF best
  <2> DEFINE cost == [c \in Tours |-> fitfun(c)]
  <2>1. cost' = cost
    <3>1. distance' = distance
      BY DEF Next, sortpop, Record, repro, reproAstray, cross, mutation, copypop, Terminated, vars
    <3>2. \A c : fitfun(c)' = fitfun(c)
      BY <3>1, FitfunStable
    <3>. QED BY <3>2
  <2> HIDE DEF cost
  <2>2. CASE Record
    <3>1. pparent[1] \in Tours
      BY PopulationAssumption DEF IInv, PopulationsAreTours, Row
    <3>2. CASE fopt > fitfun(pparent[1])
      <4>1. fopt' = fitfun(pparent[1]) /\ copt' = pparent[1]
        BY <2>2, <3>2 DEF Record, Recorded
      <4>2. fitfun(pparent[1]) = cost[pparent[1]]
        BY <3>1 DEF cost
      <4>3. CASE copt = NoCode
        <5>1. Abstract!First(pparent[1])
          BY <2>1, <4>1, <4>2, <4>3 DEF Abstract!First, cost
        <5>. QED BY <3>1, <5>1 DEF Abstract!Next
      <4>4. CASE copt # NoCode
        <5>1. copt \in Tours
          BY <4>4 DEF IInv, PopulationsAreTours
        <5>2. cost[pparent[1]] \in Nat /\ fopt \in Nat
          BY <3>1, <4>2, FitfunInNat, LoopAssumption DEF IInv, TypeOK, Tours
        <5>3. cost[pparent[1]] < fopt
          BY <3>2, <4>2, <5>2
        <5>4. Abstract!Improve(pparent[1])
          BY <2>1, <4>1, <4>2, <5>1, <5>3 DEF Abstract!Improve, cost
        <5>. QED BY <3>1, <5>4 DEF Abstract!Next
      <4>. QED BY <4>3, <4>4
    <3>3. CASE ~(fopt > fitfun(pparent[1]))
      <4>1. fopt' = fopt /\ copt' = copt
        BY <2>2, <3>3 DEF Record, Recorded
      <4>. QED BY <2>1, <4>1 DEF Abstract!vars, cost
    <3>. QED BY <3>2, <3>3
  <2>3. CASE UNCHANGED <<copt, fopt>>
    BY <2>1, <2>3 DEF Abstract!vars, cost
  <2>. QED BY <2>2, <2>3
           DEF Next, sortpop, repro, reproAstray, cross, mutation, copypop, Terminated, vars
<1>. QED BY <1>1, <1>2, InvariantHolds, PTL DEF Spec, KeepsBest, Abstract!Spec
=============================================================================
