--------------------------- MODULE AntColonyRank ---------------------------
(***************************************************************************)
(* 2016-3-30-ACO-in-cpp.cpp: rank-based ant colony optimisation of the     *)
(* travelling salesman.                                                    *)
(*                                                                         *)
(* init() reads the cities, computes the distances and places one ant per  *)
(* city.  Each round of main()'s loop moves every ant whose tour is not    *)
(* complete one city further; a round in which no ant moves ends a tour:   *)
(* the ants are ranked, the pheromone evaporates and is laid along the     *)
(* best ranked tours, and the ants are restarted.                          *)
(*                                                                         *)
(* A double is an integer number of 1/Scale here, rounded down.  The       *)
(* random draw of selectNextCity decides only which of the cities of       *)
(* nonzero weight is taken, so it is a free choice among them.             *)
(***************************************************************************)
EXTENDS Integers, FiniteSets

CONSTANTS
    MAX_CITIES,
    MAX_ANTS,
    MAX_DIST,
    QVAL,
    Builds,    \* the values of MAX_TOURS to consider
    Scale,     \* the units of a double
    Layouts    \* the contents of TSP.txt that may be read: [x, y] of every city

\* Both macros are 30; sortAnts (lines 242-249) counts ants with MAX_CITIES.
ASSUME SizeAssumption == MAX_CITIES \in Nat /\ MAX_CITIES >= 2 /\ MAX_ANTS = MAX_CITIES

\* Lines 13, 37 and 38; a build makes MAX_TOURS tours.
ASSUME BuildAssumption == MAX_DIST \in Nat \ {0} /\ QVAL \in Nat /\ Builds \subseteq Nat

\* Fine enough that the first pheromone, 1.0 / MAX_CITIES, can be halved twice.
ASSUME ScaleAssumption == Scale \in Nat /\ Scale >= 4 * MAX_CITIES

ASSUME LayoutAssumption == Layouts \subseteq [1..MAX_CITIES -> [x : Int, y : Int]]

City == 0..(MAX_CITIES - 1)
Ant == 0..(MAX_ANTS - 1)

VARIABLES
    cities,       \* cities[c] is the record [x, y]
    dist,         \* distance matrix
    phero,        \* pheromone on the trails
    ants,         \* the ants: records of type antType
    rankAnts,     \* the copy sortAnts ranks
    best,         \* length of the best tour that restartAnts has seen
    bestIndex,    \* the ant that made it
    maxTime,      \* MAX_TIME of this build
    curTime,      \* rounds started
    k, moving,    \* simulateAnts: the loop counter and the ants moved so far
    pc            \* "round", "move", "sort", "trails", "restart", "done", "aborted"

vars == <<cities, dist, phero, ants, rankAnts, best, bestIndex, maxTime, curTime,
          k, moving, pc>>

\* MAX_TOUR, line 14, read as the product of its two factors.
MAX_TOUR == MAX_CITIES * MAX_DIST * Scale

antType ==
    [curCity : City, nextCity : City \cup {-1}, pathIndex : 0..MAX_CITIES,
     tabu : [City -> {-1, 0, 1}], path : [City -> City \cup {-1}], tourLength : Nat]

TypeOK ==
    /\ dist \in [City -> [City -> Nat]]
    /\ phero \in [City -> [City -> Nat]]
    /\ ants \in [Ant -> antType]
    /\ rankAnts \in [Ant -> antType]
    /\ best \in 0..MAX_TOUR
    /\ bestIndex \in Ant
    /\ curTime \in 0..(maxTime + 1)
    /\ k \in 0..MAX_ANTS /\ moving \in 0..k
    /\ pc \in {"round", "move", "sort", "trails", "restart", "done", "aborted"}

-----------------------------------------------------------------------------
(* init(), lines 58-123. *)

Square(v) == v * v

\* The integer part of the square root of s.
Root(s) == CHOOSE r \in 0..s : Square(r) <= s /\ s < Square(r + 1)

\* Lines 89-92 for one pair of cities, with the second difference taken
\* between a y and an x as line 90 has it.
Computed(c, from, to) ==
    Root(Square(Scale) * (Square(c[from].x - c[to].x) + Square(c[from].y - c[to].x)))

\* Lines 83-96: the pair from < to is met first and sets both entries; the pair
\* (to, from) is computed again, for both, only if that gave zero.
Distances(c) ==
    [a \in City |-> [b \in City |->
        LET from == IF a < b THEN a ELSE b
            to == IF a < b THEN b ELSE a
        IN  IF a = b THEN 0
            ELSE IF Computed(c, from, to) # 0 THEN Computed(c, from, to)
            ELSE Computed(c, to, from)]]

\* Lines 100-122: ant a starts in city a and has it in its tabu list.
NewAnt(a) ==
    [curCity |-> a, nextCity |-> -1, pathIndex |-> 1,
     tabu |-> [c \in City |-> IF c = a THEN 1 ELSE 0],
     path |-> [p \in City |-> IF p = 0 THEN a ELSE -1],
     tourLength |-> 0]

\* A global antType before anything is stored in it.
Zeroed ==
    [curCity |-> 0, nextCity |-> 0, pathIndex |-> 0, tabu |-> [c \in City |-> 0],
     path |-> [p \in City |-> 0], tourLength |-> 0]

Init ==
    /\ \E l \in Layouts : cities = [c \in City |-> l[c + 1]]
    /\ dist = Distances(cities)
    /\ phero = [a \in City |-> [b \in City |-> Scale \div MAX_CITIES]]
    /\ ants = [a \in Ant |-> NewAnt(a)]
    /\ rankAnts = [a \in Ant |-> Zeroed]
    /\ best = MAX_TOUR
    /\ bestIndex = 0
    /\ maxTime \in {MAX_CITIES * tours : tours \in Builds}
    /\ curTime = 0
    /\ k = 0 /\ moving = 0
    /\ pc = "round"

-----------------------------------------------------------------------------
(* simulateAnts() and selectNextCity(), lines 162-236. *)

\* Line 368 and the head of simulateAnts.
StartRound ==
    /\ pc = "round"
    /\ curTime' = curTime + 1
    /\ k' = 0 /\ moving' = 0
    /\ pc' = IF curTime < maxTime THEN "move" ELSE "done"
    /\ UNCHANGED <<cities, dist, phero, ants, rankAnts, best, bestIndex, maxTime>>

\* Lines 157-204: the cities with a nonzero chance.  The parenthesis that line 159
\* lacks is read at its end, so the second pow is part of the exponent of the first,
\* and antProduct is zero for a city at distance zero: a pheromone below one to an
\* infinite power.  (With a product of two powers its weight would be infinite, and
\* the chances of lines 180-200 would be no numbers.)
Selectable(ant) ==
    {to \in City : ants[ant].tabu[to] = 0 /\ dist[ants[ant].curCity][to] # 0}

\* Mutant of Moved: the closing leg starts from the previous city.
MovedClosingLate(a, to) ==
    LET path == [a.path EXCEPT ![a.pathIndex] = to]
        leg == dist[a.curCity][to]
        closing == IF a.pathIndex + 1 = MAX_CITIES THEN dist[a.curCity][path[0]] ELSE 0
    IN  [a EXCEPT !.nextCity = to, !.tabu[to] = 1, !.path = path,
                  !.pathIndex = a.pathIndex + 1,
                  !.tourLength = a.tourLength + leg + closing, !.curCity = to]

\* Lines 217-230: the ant after its move to the city to; the last move adds
\* the way back to the first city.
Moved(a, to) ==
    LET path == [a.path EXCEPT ![a.pathIndex] = to]
        leg == dist[a.curCity][to]
        closing == IF a.pathIndex + 1 = MAX_CITIES THEN dist[to][path[0]] ELSE 0
    IN  [a EXCEPT !.nextCity = to, !.tabu[to] = 1, !.path = path,
                  !.pathIndex = a.pathIndex + 1,
                  !.tourLength = a.tourLength + leg + closing, !.curCity = to]

MoveAnt ==
    /\ pc = "move"
    /\ k < MAX_ANTS
    /\ ants[k].pathIndex < MAX_CITIES
    /\ \E to \in Selectable(k) : ants' = [ants EXCEPT ![k] = Moved(ants[k], to)]
    /\ k' = k + 1 /\ moving' = moving + 1
    /\ UNCHANGED <<cities, dist, phero, rankAnts, best, bestIndex, maxTime, curTime, pc>>

\* Line 178: assert(denom != 0.0) ends the program.
AssertFails ==
    /\ pc = "move"
    /\ k < MAX_ANTS
    /\ ants[k].pathIndex < MAX_CITIES
    /\ Selectable(k) = {}
    /\ pc' = "aborted"
    /\ UNCHANGED <<cities, dist, phero, ants, rankAnts, best, bestIndex, maxTime, curTime,
                   k, moving>>

\* Line 215, the other case.
SkipAnt ==
    /\ pc = "move"
    /\ k < MAX_ANTS
    /\ ants[k].pathIndex = MAX_CITIES
    /\ k' = k + 1
    /\ UNCHANGED <<cities, dist, phero, ants, rankAnts, best, bestIndex, maxTime, curTime,
                   moving, pc>>

\* Mutant of EndRound: a tour is over as soon as some ant has completed one.
EndRoundEarly ==
    /\ pc = "move"
    /\ k = MAX_ANTS
    /\ pc' = IF \E a \in Ant : ants[a].pathIndex = MAX_CITIES - 1 THEN "sort" ELSE "round"
    /\ UNCHANGED <<cities, dist, phero, ants, rankAnts, best, bestIndex, maxTime, curTime,
                   k, moving>>

\* Lines 235 and 370.
EndRound ==
    /\ pc = "move"
    /\ k = MAX_ANTS
    /\ pc' = IF moving = 0 THEN "sort" ELSE "round"
    /\ UNCHANGED <<cities, dist, phero, ants, rankAnts, best, bestIndex, maxTime, curTime,
                   k, moving>>

-----------------------------------------------------------------------------
(* sortAnts(), lines 238-259. *)

\* Lines 251-256 for the places p < q.
Exchange(r, p, q) ==
    IF r[p].tourLength >= r[q].tourLength
    THEN [r EXCEPT ![p] = r[q], ![q] = r[p]]
    ELSE r

\* Lines 249-257: place p against the later ones in turn.
Against(p, r) ==
    LET done[q \in p..(MAX_CITIES - 1)] ==
          IF q = p THEN r ELSE LET before == done[q - 1] IN Exchange(before, p, q)
    IN  done[MAX_CITIES - 1]

\* Lines 247-258: for each place in turn.
Sorted(r) ==
    LET sorted[p \in 0..MAX_CITIES] ==
          IF p = 0 THEN r ELSE LET before == sorted[p - 1] IN Against(p - 1, before)
    IN  sorted[MAX_CITIES]

SortAnts ==
    /\ pc = "sort"
    /\ rankAnts' = Sorted(ants)
    /\ pc' = "trails"
    /\ UNCHANGED <<cities, dist, phero, ants, best, bestIndex, maxTime, curTime, k, moving>>

-----------------------------------------------------------------------------
(* updateTrails(), lines 263-331. *)

\* Lines 288-299: leg p of a complete tour, the last one leading back.
From(path, p) == path[p]
To(path, p) == path[IF p < MAX_CITIES - 1 THEN p + 1 ELSE 0]

\* Mutant of Lay: only one direction of the trail.
LayOneWay(ph, amount, path) ==
    LET laid[p \in 0..MAX_CITIES] ==
          IF p = 0 THEN ph
          ELSE [laid[p - 1] EXCEPT ![From(path, p - 1)][To(path, p - 1)] = @ + amount]
    IN  laid[MAX_CITIES]

\* Lines 301-302 and 319-320, over the loops of lines 288 and 306: amount is
\* added to every leg of a tour and the other direction made equal to it.
Lay(ph, amount, path) ==
    LET laid[p \in 0..MAX_CITIES] ==
          IF p = 0 THEN ph
          ELSE LET before == laid[p - 1]
                   a == From(path, p - 1)
                   b == To(path, p - 1)
                   value == before[a][b] + amount
               IN  [before EXCEPT ![a][b] = value, ![b][a] = value]
    IN  laid[MAX_CITIES]

\* Lines 268-282, RHO being 1/2; no value is negative.
Evaporated(ph) ==
    [a \in City |-> [b \in City |-> IF a # b THEN ph[a][b] \div 2 ELSE ph[a][b]]]

\* Line 301: (RANK_W - ant) * (QVAL / tourLength), RANK_W being MAX_ANTS / 2.
\* The length is positive: Selectable admits no leg of length zero.
Amount(rank) ==
    ((MAX_ANTS - 2 * rank) * QVAL * Square(Scale)) \div (2 * rankAnts[rank].tourLength)

\* Lines 286-304: the ranks below RANK_W - 1 lay pheromone, the first one first.
RankedDeposits(ph) ==
    LET after[r \in 0..MAX_ANTS] ==
          IF r = 0 THEN ph
          ELSE LET before == after[r - 1]
               IN  IF 2 * r < MAX_ANTS THEN Lay(before, Amount(r - 1), rankAnts[r - 1].path)
                   ELSE before
    IN  after[MAX_ANTS]

\* Lines 305-321.
BestDeposit(ph) == Lay(ph, (QVAL * Square(Scale)) \div best, ants[bestIndex].path)

\* Lines 324-330.
Halved(ph) == [a \in City |-> [b \in City |-> ph[a][b] \div 2]]

UpdateTrails ==
    /\ pc = "trails"
    /\ phero' = Halved(BestDeposit(RankedDeposits(Evaporated(phero))))
    /\ pc' = IF curTime # maxTime THEN "restart" ELSE "round"
    /\ UNCHANGED <<cities, dist, ants, rankAnts, best, bestIndex, maxTime, curTime, k, moving>>

-----------------------------------------------------------------------------
(* restartAnts(), lines 127-155. *)

\* Mutant of Shorter: the length is recorded without the ant.
ShorterUnnamed(found, a) ==
    IF ants[a].tourLength < found[1] THEN <<ants[a].tourLength, found[2]>> ELSE found

\* Lines 133-136: the shorter of the tour found so far and that of ant a.
Shorter(found, a) ==
    IF ants[a].tourLength < found[1] THEN <<ants[a].tourLength, a>> ELSE found

\* Lines 131-137, over the ants in order: the first of the shortest tours, if
\* it is shorter than the best.
Found ==
    LET found[a \in 0..MAX_ANTS] ==
          IF a = 0 THEN <<best, bestIndex>>
          ELSE LET before == found[a - 1] IN Shorter(before, a - 1)
    IN  found[MAX_ANTS]

\* Lines 139-153.  Both statements of the loop at line 142 write tabu, so the
\* entries end as -1 and path keeps the finished tour.
Restarted(a) ==
    [ants[a] EXCEPT !.nextCity = -1, !.tourLength = 0,
                    !.tabu = [c \in City |-> -1], !.curCity = a, !.pathIndex = 1]

RestartAnts ==
    /\ pc = "restart"
    /\ best' = Found[1] /\ bestIndex' = Found[2]
    /\ ants' = [a \in Ant |-> Restarted(a)]
    /\ pc' = "round"
    /\ UNCHANGED <<cities, dist, phero, rankAnts, maxTime, curTime, k, moving>>

Terminated == pc \in {"done", "aborted"} /\ UNCHANGED vars

Next ==
    \/ StartRound
    \/ MoveAnt
    \/ AssertFails
    \/ SkipAnt
    \/ EndRound
    \/ SortAnts
    \/ UpdateTrails
    \/ RestartAnts
    \/ Terminated

Spec == Init /\ [][Next]_vars
-----------------------------------------------------------------------------
(* What must hold. *)

\* The closed length of the first m cities of a path.
Length(path, m) ==
    LET legs[p \in 1..m] ==
          IF p = 1 THEN 0 ELSE legs[p - 1] + dist[path[p - 2]][path[p - 1]]
        back == IF m = MAX_CITIES THEN dist[path[m - 1]][path[0]] ELSE 0
    IN  legs[m] + back

\* For every ant that has moved, the tabu list holds exactly the cities of the
\* path, none of them twice, and the ant stands on the last one: no sequence of
\* moves visits a city again (lines 171, 187 and 217-230).
TabuIsPath ==
    \A a \in Ant :
        LET m == ants[a].pathIndex
            seen == {ants[a].path[p] : p \in 0..(m - 1)}
        IN  m > 1 =>
              /\ {c \in City : ants[a].tabu[c] = 1} = seen
              /\ \A p, r \in 0..(m - 1) : p # r => ants[a].path[p] # ants[a].path[r]
              /\ ants[a].curCity = ants[a].path[m - 1]

\* tourLength, added up leg by leg over the rounds, is the length of the path,
\* with the way back once the path is complete (lines 221-228).
LengthIsOfPath ==
    \A a \in Ant : ants[a].pathIndex > 1 =>
        ants[a].tourLength = Length(ants[a].path, ants[a].pathIndex)

\* All values stay in their types, indices inside the arrays included, and the fields
\* of an ant agree after any interleaving of moves: tabu list, place and length are
\* those of its path (lines 217-230).
AntsCoherent == TypeOK /\ TabuIsPath /\ LengthIsOfPath

ToursComplete == \A a \in Ant : ants[a].pathIndex = MAX_CITIES

Ranked ==
    /\ \A a, b \in Ant : a < b => rankAnts[a].tourLength <= rankAnts[b].tourLength
    /\ \A r \in {ants[a] : a \in Ant} :
          Cardinality({a \in Ant : rankAnts[a] = r}) = Cardinality({a \in Ant : ants[a] = r})

\* The trails are updated from complete and correctly ranked tours only: a round
\* that moved no ant finds every ant at its end, and sortAnts loses and
\* duplicates no ant and leaves the shortest tour first (lines 235, 246-258,
\* 370-373).
RankedToursComplete ==
    /\ pc \in {"sort", "trails", "restart"} => ToursComplete
    /\ pc \in {"trails", "restart"} => Ranked

\* Evaporation, deposits and the halving keep the trails the same in both
\* directions and above zero, so no leg becomes impossible (lines 263-331).
TrailsSymmetric ==
    \A a, b \in City : a # b => phero[a][b] = phero[b][a] /\ phero[a][b] > 0

\* After a restart best is the length of the tour that was ranked first, unless
\* that is no shorter than MAX_TOUR, and bestIndex names an ant that still holds
\* a path of this length (lines 131-154 against sortAnts).
BestIsFirstRanked ==
    (\A a \in Ant : ants[a].tabu[a] = -1) =>
        \/ /\ best = rankAnts[0].tourLength
           /\ best = Length(ants[bestIndex].path, MAX_CITIES)
        \/ best = MAX_TOUR /\ rankAnts[0].tourLength >= MAX_TOUR

\* The assertion of line 178, assert(denom != 0.0): an ant whose tour is not
\* complete always has a city to go to.
AssertionHolds == pc # "aborted"

\* "adding the best path" (line 305): the path to which updateTrails adds the
\* best tour's share is the shortest that any ant has found.
BestPathAdded ==
    pc = "trails" =>
        \A a \in Ant : Length(ants[bestIndex].path, MAX_CITIES) <= ants[a].tourLength
=============================================================================
