------------------------------ MODULE KeepBest ------------------------------
(***************************************************************************)
(* What a stochastic search over tours promises: it remembers a best       *)
(* candidate together with its true cost, takes the first candidate it     *)
(* evaluates, and from then on replaces the best one only by a strictly    *)
(* cheaper one.  How candidates are found is left open, and so is whether  *)
(* any is found at all.                                                    *)
(***************************************************************************)
EXTENDS Integers

CONSTANTS Candidate, NoCandidate, NoCost

VARIABLES
    cost,       \* the cost of every candidate, fixed by the data file
    best,       \* the best candidate so far, NoCandidate before the first
    bestCost    \* its cost

vars == <<cost, best, bestCost>>

Init ==
    /\ cost \in [Candidate -> Nat]
    /\ best = NoCandidate
    /\ bestCost = NoCost

First(c) ==
    /\ best = NoCandidate
    /\ best' = c
    /\ bestCost' = cost[c]
    /\ UNCHANGED cost

Improve(c) ==
    /\ best \in Candidate
    /\ cost[c] < bestCost
    /\ best' = c
    /\ bestCost' = cost[c]
    /\ UNCHANGED cost

Next == \E c \in Candidate : First(c) \/ Improve(c)

Spec == Init /\ [][Next]_vars
=============================================================================
