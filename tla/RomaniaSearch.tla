--------------------------- MODULE RomaniaSearch ---------------------------
(***************************************************************************)
(* AE86-github.cpp: a route to Bucharest from a city named on the command  *)
(* line.  The program holds the map of Romania, an estimate of the         *)
(* distance that is left, and the loop around the steps of a search; the   *)
(* search is the library stlastar, which keeps for every city it has seen  *)
(* the best cost so far and where it came from, and a list of the cities   *)
(* still to be expanded.                                                   *)
(*                                                                         *)
(* The enumeration is read as the twenty cities that are named below it.   *)
(* A failed search is left out: here it would be a deadlock, since no step *)
(* is possible when the list is empty.                                     *)
(***************************************************************************)
EXTENDS Integers, SequencesExt

VARIABLES
    pc,         \* "args", "search", "report", "show" or "return"
    initCity,   \* where the search starts
    nodes,      \* the cities seen: cost so far (g) and parent
    open,       \* those still to be expanded
    solution,   \* the library's way to the goal
    shown       \* what has been displayed of it

vars == <<pc, initCity, nodes, open, solution, shown>>

\* Lines 128-173; where there is no entry, the array holds -1 (line 125).
RomaniaMap ==
    [Arad |-> [Sibiu |-> 140, Zerind |-> 75, Timisoara |-> 118],
     Bucharest |-> [Giurgiu |-> 90, Urziceni |-> 85, Fagaras |-> 211, Pitesti |-> 101],
     Craiova |-> [Drobeta |-> 120, RimnicuVilcea |-> 146, Pitesti |-> 138],
     Drobeta |-> [Craiova |-> 120, Mehadia |-> 75],
     Eforie |-> [Hirsova |-> 75],
     Fagaras |-> [Bucharest |-> 211, Sibiu |-> 99],
     Giurgiu |-> [Bucharest |-> 90],
     Hirsova |-> [Eforie |-> 86, Urziceni |-> 98],
     Iasi |-> [Vaslui |-> 92, Neamt |-> 87],
     Lugoj |-> [Timisoara |-> 111, Mehadia |-> 70],
     Mehadia |-> [Lugoj |-> 70, Drobeta |-> 75],
     Neamt |-> [Iasi |-> 87],
     Oradea |-> [Zerind |-> 71, Sibiu |-> 151],
     Pitesti |-> [Bucharest |-> 101, RimnicuVilcea |-> 97, Craiova |-> 138],
     RimnicuVilcea |-> [Pitesti |-> 97, Craiova |-> 146, Sibiu |-> 80],
     Sibiu |-> [RimnicuVilcea |-> 80, Fagaras |-> 99, Oradea |-> 151, Arad |-> 140],
     Timisoara |-> [Arad |-> 118, Lugoj |-> 111],
     Urziceni |-> [Bucharest |-> 85, Hirsova |-> 98, Vaslui |-> 142],
     Vaslui |-> [Urziceni |-> 142, Iasi |-> 92],
     Zerind |-> [Arad |-> 75, Oradea |-> 71]]

City == DOMAIN RomaniaMap

Goal == "Bucharest"

\* Lines 49-78.
Estimates ==
    [Arad |-> 366, Bucharest |-> 0, Craiova |-> 160, Drobeta |-> 242, Eforie |-> 161,
     Fagaras |-> 176, Giurgiu |-> 77, Hirsova |-> 151, Iasi |-> 226, Lugoj |-> 244,
     Mehadia |-> 241, Neamt |-> 234, Oradea |-> 380, Pitesti |-> 100,
     RimnicuVilcea |-> 193, Sibiu |-> 253, Timisoara |-> 329, Urziceni |-> 80,
     Vaslui |-> 199, Zerind |-> 374]

\* Mutant of GoalDistanceEstimate: one figure has a digit too many.
GoalDistanceEstimateSlipped(city) == IF city = "Pitesti" THEN 1000 ELSE Estimates[city]

GoalDistanceEstimate(city) == Estimates[city]

GetSuccessors(city) == DOMAIN RomaniaMap[city]

GetCost(city, successor) == RomaniaMap[city][successor]

-----------------------------------------------------------------------------
Init ==
    /\ pc = "args"
    /\ initCity = "Arad"
    /\ nodes = [c \in {} |-> c]
    /\ open = {}
    /\ solution = <<>> /\ shown = <<>>

\* Lines 225-233: the search starts with its first city alone.
SetStartAndGoalStates(city) ==
    /\ initCity' = city
    /\ nodes' = [c \in {city} |-> [g |-> 0, parent |-> city]]
    /\ open' = {city}
    /\ pc' = "search"

\* Lines 197-213: Arad without an argument, the city that is named, or nothing
\* at all when there is no such city.
Arguments ==
    /\ pc = "args"
    /\ \/ SetStartAndGoalStates(initCity)
       \/ \E city \in City : SetStartAndGoalStates(city)
       \/ pc' = "return" /\ UNCHANGED <<initCity, nodes, open>>
    /\ UNCHANGED <<solution, shown>>

\* The cost so far and the estimate of what is left.
f(city) == nodes[city].g + GoalDistanceEstimate(city)

\* What a step of the search takes from the list.
Best(city) == city \in open /\ \A o \in open : f(city) <= f(o)

\* The successors that are new, or reached at a lower cost than before.
Improved(city) ==
    {c \in GetSuccessors(city) :
        c \in DOMAIN nodes => nodes[city].g + GetCost(city, c) < nodes[c].g}

\* Mutant of Expand: the city stays in the list.
ExpandKept(city) ==
    /\ ~(city = Goal)
    /\ nodes' = [c \in DOMAIN nodes \cup Improved(city) |->
                    IF c \in Improved(city)
                    THEN [g |-> nodes[city].g + GetCost(city, c), parent |-> city]
                    ELSE nodes[c]]
    /\ open' = open \cup Improved(city)
    /\ UNCHANGED <<pc, solution>>

\* A city other than the goal hands its improved successors to the list
\* (lines 91-109); the loop of lines 239-287 goes on.
Expand(city) ==
    /\ ~(city = Goal)
    /\ nodes' = [c \in DOMAIN nodes \cup Improved(city) |->
                    IF c \in Improved(city)
                    THEN [g |-> nodes[city].g + GetCost(city, c), parent |-> city]
                    ELSE nodes[c]]
    /\ open' = (open \ {city}) \cup Improved(city)
    /\ UNCHANGED <<pc, solution>>

\* The way from the start, found backwards along the parents.
WayTo[city \in DOMAIN nodes] ==
    IF city = initCity THEN <<city>> ELSE Append(WayTo[nodes[city].parent], city)

\* IsGoal (lines 82-86) ends the search, and the loop of lines 239-287.
Reach(city) ==
    /\ city = Goal
    /\ open' = open \ {city}
    /\ solution' = WayTo[city]
    /\ pc' = "report"
    /\ UNCHANGED nodes

SearchStep ==
    /\ pc = "search"
    /\ \E city \in open : Best(city) /\ (Expand(city) \/ Reach(city))
    /\ UNCHANGED <<initCity, shown>>

\* Lines 289-295.
ShowStart ==
    /\ pc = "report"
    /\ shown' = <<Head(solution)>>
    /\ pc' = "show"
    /\ UNCHANGED <<initCity, nodes, open, solution>>

\* Lines 296-302, and the end of the program after the last city.
ShowNext ==
    /\ pc = "show"
    /\ IF Len(shown) < Len(solution)
       THEN shown' = Append(shown, solution[Len(shown) + 1]) /\ UNCHANGED pc
       ELSE pc' = "return" /\ UNCHANGED shown
    /\ UNCHANGED <<initCity, nodes, open, solution>>

Terminated == pc = "return" /\ UNCHANGED vars

Next == Arguments \/ SearchStep \/ ShowStart \/ ShowNext \/ Terminated

Spec == Init /\ [][Next]_vars

\* The program runs on by itself.
FairSpec == Spec /\ WF_vars(Next)
-----------------------------------------------------------------------------
(* What must hold. *)

\* Every city seen but the start has a road from its parent, which has been
\* expanded; its cost so far goes up along that road.
TypeOK ==
    /\ pc \in {"args", "search", "report", "show", "return"}
    /\ initCity \in City
    /\ DOMAIN nodes \subseteq City /\ open \subseteq DOMAIN nodes
    /\ \A c \in DOMAIN nodes \ {initCity} :
          LET p == nodes[c].parent
          IN /\ p \in DOMAIN nodes \ open
             /\ c \in GetSuccessors(p)
             /\ nodes[c].g = nodes[p].g + GetCost(p, c)
    /\ IsPrefix(shown, solution)

\* The ways to the goal with so many legs that visit no city twice.
Ways[legs \in 0..Cardinality(City)] ==
    IF legs = 0 THEN {<<Goal>>}
    ELSE UNION {{<<c>> \o way : c \in {d \in City \ ToSet(way) : Head(way) \in GetSuccessors(d)}} :
                way \in Ways[legs - 1]}

AllWays == UNION {Ways[legs] : legs \in DOMAIN Ways}

\* The length of a way by its roads.
Cost(way) ==
    LET upTo[p \in 1..Len(way)] ==
          IF p = 1 THEN 0 ELSE upTo[p - 1] + GetCost(way[p - 1], way[p])
    IN upTo[Len(way)]

\* What is displayed is a cheapest way from the chosen city to Bucharest: no
\* figure of the estimates (lines 53-75) is too large for the roads of the map,
\* whichever city the search starts from (lines 128-173, 292-302).
SolutionIsShortest ==
    (pc = "return" /\ shown # <<>>) =>
        /\ Head(shown) = initCity /\ shown \in AllWays
        /\ \A way \in AllWays : Head(way) = initCity => Cost(shown) <= Cost(way)

\* A search that has started displays the whole way to its goal: the goal is
\* found from every city, and both loops come to an end (lines 239-302).
SearchSucceeds ==
    (pc = "search") ~> (pc = "return" /\ shown # <<>> /\ shown[Len(shown)] = Goal)
=============================================================================
