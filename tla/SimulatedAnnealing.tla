------------------------- MODULE SimulatedAnnealing -------------------------
(***************************************************************************)
(* TSP-fire.java: simulated annealing for the travelling salesman.         *)
(*                                                                         *)
(* init() reads the coordinates and computes the distance matrix,          *)
(* initGroup() draws a random tour city by city, and solve() walks from    *)
(* tour to tour: swap two positions, evaluate, remember the best tour      *)
(* seen, accept or reject the new one.  Three arrays are copied into one   *)
(* another and each has its evaluation cached beside it.                   *)
(*                                                                         *)
(* The temperature and the random number r decide only whether a longer    *)
(* tour is accepted, so that is a free choice here; a tour that is not     *)
(* longer is always accepted, since exp(0) = 1 > r.  Lengths are assumed   *)
(* to fit an int, as they do for the 48 cities of the data file.           *)
(***************************************************************************)
EXTENDS Integers

CONSTANTS
    cityNum,   \* the number of cities
    T,         \* coolings, the outer loop
    Rounds,    \* N: steps at one temperature, the inner loop
    IntMax,    \* Integer.MAX_VALUE
    Layouts    \* the data files that may be read: [x, y] records of coordinates

City == 0..(cityNum - 1)

\* The positions of a tour are numbered like the cities.
Position == City

ASSUME CityAssumption == cityNum \in Nat /\ cityNum >= 2
ASSUME LoopAssumption == T \in Nat /\ Rounds \in Nat /\ Rounds >= 1
ASSUME IntAssumption == IntMax \in Nat
ASSUME LayoutAssumption == \A l \in Layouts : l.x \in [City -> Int] /\ l.y \in [City -> Int]

VARIABLES
    x, y,               \* the coordinates init() has read
    distance,           \* distance[a][b] between two cities
    filled,             \* initGroup's loop counter i: positions of Ghh filled
    Ghh,                \* the current tour
    GhhEvaluation,      \* its cached length
    bestGh,             \* the best tour seen
    bestEvaluation,     \* its cached length
    bestT,              \* the cooling at which it was seen
    tempGhh,            \* the neighbour under consideration
    tempEvaluation,     \* its cached length
    cooling, round,     \* the counters k and n of the two loops of solve()
    annealingPc         \* "group", "search" or "done"

data == <<x, y, distance>>
current == <<Ghh, GhhEvaluation>>
best == <<bestGh, bestEvaluation, bestT>>
temp == <<tempGhh, tempEvaluation>>

annealingVars ==
    <<x, y, distance, filled, Ghh, GhhEvaluation, bestGh, bestEvaluation, bestT,
      tempGhh, tempEvaluation, cooling, round, annealingPc>>

Tours == {g \in [Position -> City] : \A p, r \in Position : p # r => g[p] # g[r]}

AnnealingTypeOK ==
    /\ x \in [City -> Int] /\ y \in [City -> Int]
    /\ distance \in [City -> [City -> Nat]]
    /\ filled \in 0..cityNum
    /\ Ghh \in [Position -> City]
    /\ bestGh \in [Position -> City]
    /\ tempGhh \in [Position -> City]
    /\ GhhEvaluation \in Nat /\ bestEvaluation \in Nat /\ tempEvaluation \in Nat
    /\ bestT \in 0..T
    /\ cooling \in 0..T /\ round \in 0..Rounds
    /\ annealingPc \in {"group", "search", "done"}

-----------------------------------------------------------------------------
(* Distances, lines 90-109. *)

Square(v) == v * v

\* Lines 95-97: ten times the square of rij.
TenSquared(a, b) == Square(x[a] - x[b]) + Square(y[a] - y[b])

\* Line 99: Math.round(rij) is the least m with rij < m + 1/2.
Rounded(s) ==
    CHOOSE m \in 0..s : /\ 4 * s < 10 * Square(2 * m + 1)
                        /\ \A o \in 0..s : 4 * s < 10 * Square(2 * o + 1) => m <= o

\* Mutant of RoundedUp: the correction of lines 100-102 is left out.
RoundedOnly(s) == Rounded(s)

\* Lines 99-106: tij < rij when ten times the square of tij is below s.
RoundedUp(s) ==
    IF 10 * Square(Rounded(s)) < s THEN Rounded(s) + 1 ELSE Rounded(s)

-----------------------------------------------------------------------------
(* Tours, lines 149-194. *)

\* The length of the first m legs, the loop of lines 163-167.
Legs(chr) ==
    LET len[m \in Position] ==
          IF m = 0 THEN 0 ELSE len[m - 1] + distance[chr[m - 1]][chr[m]]
    IN  len

evaluate(chr) == Legs(chr)[cityNum - 1] + distance[chr[cityNum - 1]][chr[0]]

\* Mutant of Linju: the first city is stored in both positions.
LinjuCopied(Gh, ran1, ran2) == [Gh EXCEPT ![ran2] = Gh[ran1]]

\* Lines 181-193: the copy with two positions swapped; ran2 is drawn again until
\* it differs from ran1, which Step leaves to the choice of the two.
Linju(Gh, ran1, ran2) == [Gh EXCEPT ![ran1] = Gh[ran2], ![ran2] = Gh[ran1]]

-----------------------------------------------------------------------------
\* The data file is read and the arrays are allocated: lines 79-117.
AnnealingInit ==
    /\ \E l \in Layouts : x = l.x /\ y = l.y
    /\ distance = [a \in City |-> [b \in City |->
                     IF a = b THEN 0 ELSE RoundedUp(TenSquared(a, b))]]
    /\ filled = 0
    /\ Ghh = [p \in Position |-> 0] /\ GhhEvaluation = 0
    /\ bestGh = [p \in Position |-> 0] /\ bestEvaluation = IntMax /\ bestT = 0
    /\ tempGhh = [p \in Position |-> 0] /\ tempEvaluation = IntMax
    /\ cooling = 0 /\ round = 0
    /\ annealingPc = "group"

\* Mutant of NewCity: the inner loop compares position i with itself as well.
NewCitySelf(c) == \A j \in 0..filled : [Ghh EXCEPT ![filled] = c][j] # c

\* Lines 138-143: c occurs at no earlier position.
NewCity(c) == \A j \in 0..(filled - 1) : Ghh[j] # c

\* Lines 134-146: a city is drawn into position i; the loop moves on only when
\* it is new.  The first draw always is.
Draw(c) ==
    /\ annealingPc = "group"
    /\ filled < cityNum
    /\ Ghh' = [Ghh EXCEPT ![filled] = c]
    /\ filled' = IF NewCity(c) THEN filled + 1 ELSE filled
    /\ UNCHANGED <<data, GhhEvaluation, best, temp, cooling, round, annealingPc>>

\* Lines 199-206.
StartSearch ==
    /\ annealingPc = "group"
    /\ filled = cityNum
    /\ bestGh' = Ghh
    /\ bestEvaluation' = evaluate(Ghh)
    /\ GhhEvaluation' = bestEvaluation'
    /\ annealingPc' = "search"
    /\ UNCHANGED <<data, filled, Ghh, bestT, temp, cooling, round>>

\* Mutant of RememberBest: compares with the tour the walk stands on.
RememberLast ==
    IF tempEvaluation' < GhhEvaluation
    THEN bestGh' = tempGhh' /\ bestT' = cooling /\ bestEvaluation' = tempEvaluation'
    ELSE UNCHANGED best

\* Mutant of RememberBest: looks at the tour of the previous round.
RememberLate ==
    IF GhhEvaluation < bestEvaluation
    THEN bestGh' = Ghh /\ bestT' = cooling /\ bestEvaluation' = GhhEvaluation
    ELSE UNCHANGED best

\* Lines 212-217.
RememberBest ==
    IF tempEvaluation' < bestEvaluation
    THEN bestGh' = tempGhh' /\ bestT' = cooling /\ bestEvaluation' = tempEvaluation'
    ELSE UNCHANGED best

\* Lines 219-224: a longer tour may be accepted, any other is.
Metropolis ==
    \/ Ghh' = tempGhh' /\ GhhEvaluation' = tempEvaluation'
    \/ tempEvaluation' > GhhEvaluation /\ UNCHANGED current

\* Lines 209-226, one round of the inner loop.
Step ==
    /\ annealingPc = "search"
    /\ cooling < T /\ round < Rounds
    /\ \E ran1, ran2 \in Position :
         /\ ran1 # ran2
         /\ tempGhh' = Linju(Ghh, ran1, ran2)
    /\ tempEvaluation' = evaluate(tempGhh')
    /\ RememberBest
    /\ Metropolis
    /\ round' = round + 1
    /\ UNCHANGED <<data, filled, cooling, annealingPc>>

\* Lines 227-228 and 208: the next temperature.
Cool ==
    /\ annealingPc = "search"
    /\ cooling < T /\ round = Rounds
    /\ cooling' = cooling + 1
    /\ round' = 0
    /\ UNCHANGED <<data, filled, current, best, temp, annealingPc>>

\* Lines 231-241: the best tour is printed.
AnnealingFinish ==
    /\ annealingPc = "search"
    /\ cooling = T
    /\ annealingPc' = "done"
    /\ UNCHANGED <<data, filled, current, best, temp, cooling, round>>

AnnealingTerminated == annealingPc = "done" /\ UNCHANGED annealingVars

AnnealingNext ==
    \/ \E c \in City : Draw(c)
    \/ StartSearch
    \/ Step
    \/ Cool
    \/ AnnealingFinish
    \/ AnnealingTerminated

AnnealingSpec == AnnealingInit /\ [][AnnealingNext]_annealingVars

\* One thread that never blocks, and a random source: a city that is not in the
\* tour yet is drawn again and again, so one is drawn at last.
AnnealingFairSpec ==
    /\ AnnealingSpec
    /\ WF_annealingVars(AnnealingNext)
    /\ SF_annealingVars(\E c \in City : NewCity(c) /\ Draw(c))
-----------------------------------------------------------------------------
(* What must hold. *)

\* Every distance is the pseudo-Euclidean one, rounded up to the next integer
\* ("1.1->2 1.7->2", line 98): the least m with m >= sqrt(s / 10).
DistanceRoundsUp ==
    \A a, b \in City :
        LET s == TenSquared(a, b)
            m == distance[a][b]
        IN  /\ s <= 10 * Square(m)
            /\ \A o \in 0..(m - 1) : 10 * Square(o) < s

\* From the search on the current and the best tour visit every city once, and
\* so does the neighbour after the first step: no draw, swap or copy loses one
\* (lines 132-154 and 177-194).
ToursArePermutations ==
    annealingPc # "group" =>
        /\ Ghh \in Tours
        /\ bestGh \in Tours
        /\ tempEvaluation # IntMax => tempGhh \in Tours

\* A cached length is that of the array it is kept beside, although arrays and
\* lengths are copied by separate statements (lines 199-224).
EvaluationsCoherent ==
    annealingPc # "group" =>
        /\ GhhEvaluation = evaluate(Ghh)
        /\ bestEvaluation = evaluate(bestGh)

\* Nothing shorter than the best tour was ever looked at: neither the tour the
\* walk stands on, which may since have become worse, nor the last neighbour,
\* which may have been rejected (lines 212-224; IntMax: no neighbour yet).
NothingBetterSeen ==
    annealingPc # "group" =>
        /\ bestEvaluation <= GhhEvaluation
        /\ tempEvaluation # IntMax => bestEvaluation <= tempEvaluation

\* The search implements the abstract one: the best tour is replaced only by a
\* strictly shorter one and always recorded with its own length (lines 199-217).
KeepBestSearch == INSTANCE KeepBest WITH
    Candidate <- Tours,
    NoCandidate <- <<>>,
    NoCost <- IntMax,
    cost <- [g \in Tours |-> evaluate(g)],
    best <- IF annealingPc = "group" THEN <<>> ELSE bestGh,
    bestCost <- bestEvaluation

KeepsBest == KeepBestSearch!Spec

\* The rejection sampling of initGroup (lines 135-146) and the loops of solve
\* come to an end.
AnnealingTermination == <>(annealingPc = "done")
=============================================================================
