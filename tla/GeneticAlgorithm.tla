-------------------------- MODULE GeneticAlgorithm --------------------------
(***************************************************************************)
(* GA-C.cpp: a genetic algorithm for the travelling salesman who starts    *)
(* and ends in location 0.                                                 *)
(*                                                                         *)
(* main() draws a population of codes, orders of the other locations, and  *)
(* then repeats: sort the population by length, record the first code if   *)
(* it is shorter than the best one, select a new population, cross and     *)
(* mutate it and copy it back.  It stops after more than NL rounds in a    *)
(* row without a better code.                                              *)
(*                                                                         *)
(* repro() adds up an array of which only element 0 has been set, so its   *)
(* roulette may select anyone; and it reads choose, which has no value     *)
(* until a draw has hit the roulette.  A population copied from such an    *)
(* index is whatever lies there: the model ends in "astray".               *)
(*                                                                         *)
(* The coordinates are used in distance() only, so a data file stands for  *)
(* the distances it gives, in whole units so small that no rounding is     *)
(* told apart.                                                             *)
(***************************************************************************)
EXTENDS Integers, FiniteSets

CONSTANTS
    MAXC,      \* the locations to visit beside location 0
    POPSIZE,   \* codes in a population, even: cross takes them in pairs
    NL,        \* rounds without a better code
    FOPT,      \* the first value of fopt, 100000 in the code
    Maps       \* the distances that loc.txt may give

Location == 0..MAXC
Gene == 1..MAXC        \* positions of a code, and the locations it orders
Row == 1..POPSIZE

ASSUME CodeAssumption == MAXC \in Nat /\ MAXC >= 2
ASSUME PopulationAssumption == POPSIZE \in Nat /\ POPSIZE >= 2 /\ POPSIZE % 2 = 0
ASSUME LoopAssumption == NL \in Nat /\ FOPT \in Nat
ASSUME MapAssumption == Maps \subseteq [Location -> [Location -> Nat]]

VARIABLES
    distance,   \* distance(location[a], location[b])
    pparent,    \* the population
    pchild,     \* the population being made of it
    copt,       \* the best code recorded
    fopt,       \* its length
    nloop,      \* rounds since it was recorded
    i, j,       \* the counters of sortpop
    pc          \* "sort", "record", "repro", "cross", "mutation", "copy", "done", "astray"

vars == <<distance, pparent, pchild, copt, fopt, nloop, i, j, pc>>

best == <<copt, fopt, nloop>>

tcode == [Gene -> Gene]

\* An array that nothing has been stored in.
NoCode == <<>>
NoPop == <<>>

\* The codes that visit every location once.
Tours == {c \in tcode : \A p, r \in Gene : p # r => c[p] # c[r]}

TypeOK ==
    /\ distance \in [Location -> [Location -> Nat]]
    /\ pparent \in [Row -> tcode]
    /\ pchild = NoPop \/ pchild \in [Row -> tcode]
    /\ copt = NoCode \/ copt \in tcode
    /\ fopt \in 0..FOPT
    /\ nloop \in 0..(NL + 1)
    /\ i \in Row /\ j \in Row
    /\ pc \in {"sort", "record", "repro", "cross", "mutation", "copy", "done", "astray"}

-----------------------------------------------------------------------------
(* Lengths, lines 126-137. *)

\* From location 0 through all the others and back.
fitfun(co) ==
    LET addall[p \in Gene] ==
          IF p = 1 THEN distance[0][co[1]] ELSE addall[p - 1] + distance[co[p - 1]][co[p]]
    IN  addall[MAXC] + distance[co[MAXC]][0]

-----------------------------------------------------------------------------
(* The first population, lines 94-123 and 156-161. *)

inibuf == [p \in Gene |-> p]

\* What nrand returns on line 118 for each position.
Draws == {d \in [Gene -> Gene] : \A p \in Gene : d[p] <= MAXC + 1 - p}

\* Lines 120-121: the elements after the drawn one move up.
Drawn(bl, nr) == [p \in Gene |-> IF p >= nr /\ p < MAXC THEN bl[p + 1] ELSE bl[p]]

\* Lines 115-122 for the draws d.
genrcode(d) ==
    LET bl[p \in Gene] ==
          IF p = 1 THEN inibuf
          ELSE LET before == bl[p - 1] IN Drawn(before, d[p - 1])
    IN  [p \in Gene |-> bl[p][d[p]]]

\* Lines 44-53.
Init ==
    /\ distance \in Maps
    /\ pparent \in [Row -> {genrcode(d) : d \in Draws}]
    /\ pchild = NoPop
    /\ copt = NoCode /\ fopt = FOPT /\ nloop = 0
    /\ i = 1 /\ j = 2
    /\ pc = "sort"

-----------------------------------------------------------------------------
(* The loop of main(), lines 56-76. *)

\* Mutant of Compared: only one of the two rows is written.
ComparedCopying ==
    IF fitfun(pparent[i]) > fitfun(pparent[j])
    THEN [pparent EXCEPT ![i] = pparent[j]] ELSE pparent

\* Mutant of Compared: the longer code goes first.
ComparedDescending ==
    IF fitfun(pparent[i]) < fitfun(pparent[j])
    THEN [pparent EXCEPT ![i] = pparent[j], ![j] = pparent[i]] ELSE pparent

\* Lines 169-175.
Compared ==
    IF fitfun(pparent[i]) > fitfun(pparent[j])
    THEN [pparent EXCEPT ![i] = pparent[j], ![j] = pparent[i]] ELSE pparent

\* One comparison of sortpop, lines 163-177.
sortpop ==
    /\ pc = "sort"
    /\ pparent' = Compared
    /\ \/ /\ j < POPSIZE
          /\ j' = j + 1
          /\ UNCHANGED <<i, pc>>
       \/ /\ j = POPSIZE /\ i + 1 < POPSIZE
          /\ i' = i + 1 /\ j' = i + 2
          /\ UNCHANGED pc
       \/ /\ j = POPSIZE /\ i + 1 = POPSIZE
          /\ pc' = "record"
          /\ UNCHANGED <<i, j>>
    /\ UNCHANGED <<distance, pchild, best>>

\* Mutant of Recorded: a code as long as the best one is recorded too.
RecordedEqual ==
    IF fopt >= fitfun(pparent[1])
    THEN fopt' = fitfun(pparent[1]) /\ nloop' = 0 /\ copt' = pparent[1]
    ELSE nloop' = nloop + 1 /\ UNCHANGED <<fopt, copt>>

\* Mutant of Recorded: rounds without a better code are not counted.
RecordedUncounted ==
    IF fopt > fitfun(pparent[1])
    THEN fopt' = fitfun(pparent[1]) /\ nloop' = 0 /\ copt' = pparent[1]
    ELSE UNCHANGED best

\* Lines 60-67.
Recorded ==
    IF fopt > fitfun(pparent[1])
    THEN fopt' = fitfun(pparent[1]) /\ nloop' = 0 /\ copt' = pparent[1]
    ELSE nloop' = nloop + 1 /\ UNCHANGED <<fopt, copt>>

\* Lines 59-70.
Record ==
    /\ pc = "record"
    /\ Recorded
    /\ pc' = IF nloop' > NL THEN "done" ELSE "repro"
    /\ UNCHANGED <<distance, pparent, pchild, i, j>>

\* Lines 180-210: whatever the roulette holds, each draw selects a code ...
repro ==
    /\ pc = "repro"
    /\ \E choose \in [Row -> Row] : pchild' = [r \in Row |-> pparent[choose[r]]]
    /\ pc' = "cross"
    /\ UNCHANGED <<distance, pparent, best, i, j>>

\* ... or misses it before any has hit, when choose has no value.
reproAstray ==
    /\ pc = "repro"
    /\ pc' = "astray"
    /\ UNCHANGED <<distance, pparent, pchild, best, i, j>>

\* Line 215.
cpos == MAXC - 1

\* Mutant of Exchanged: the place found is left as it is.
ExchangedHalf(co, old, new) ==
    IF \E p \in Gene : co[p] = new THEN [co EXCEPT ![cpos] = new] ELSE co

\* Lines 223-229: the first place that holds new gets old, and cpos gets new.
Exchanged(co, old, new) ==
    LET places == {p \in Gene : co[p] = new}
        first == CHOOSE p \in places : \A r \in places : p <= r
    IN  IF places = {} THEN co ELSE [co EXCEPT ![first] = old, ![cpos] = new]

\* The row a row is crossed with: 1 and 2, 3 and 4, and so on.
Partner(r) == IF r % 2 = 1 THEN r + 1 ELSE r - 1

\* Lines 213-239; where the two rows agree in cpos, nothing is exchanged.
cross ==
    /\ pc = "cross"
    /\ pchild' = [r \in Row |->
                    LET c1 == pchild[r][cpos]
                        c2 == pchild[Partner(r)][cpos]
                    IN  IF c1 = c2 THEN pchild[r] ELSE Exchanged(pchild[r], c1, c2)]
    /\ pc' = "mutation"
    /\ UNCHANGED <<distance, pparent, best, i, j>>

\* Lines 246-258: a code is left alone, or two places of it are swapped.
Mutated(co) ==
    {co} \cup {[co EXCEPT ![p1] = co[p2], ![p2] = co[p1]] : p1, p2 \in Gene}

mutation ==
    /\ pc = "mutation"
    /\ \E pop \in [Row -> UNION {Mutated(pchild[r]) : r \in Row}] :
         /\ \A r \in Row : pop[r] \in Mutated(pchild[r])
         /\ pchild' = pop
    /\ pc' = "copy"
    /\ UNCHANGED <<distance, pparent, best, i, j>>

\* Line 74, and the counters with which line 58 starts again.
copypop ==
    /\ pc = "copy"
    /\ pparent' = pchild
    /\ i' = 1 /\ j' = 2
    /\ pc' = "sort"
    /\ UNCHANGED <<distance, pchild, best>>

Terminated == pc \in {"done", "astray"} /\ UNCHANGED vars

Next ==
    \/ sortpop
    \/ Record
    \/ repro
    \/ reproAstray
    \/ cross
    \/ mutation
    \/ copypop
    \/ Terminated

Spec == Init /\ [][Next]_vars

\* One thread that never blocks.
FairSpec == Spec /\ WF_vars(Next)
-----------------------------------------------------------------------------
(* What must hold. *)

\* Drawing, selecting, crossing, mutating and sorting never lose a location or
\* visit one twice: every code of both populations is a tour.
PopulationsAreTours ==
    /\ \A r \in Row : pparent[r] \in Tours
    /\ pchild # NoPop => \A r \in Row : pchild[r] \in Tours
    /\ copt # NoCode => copt \in Tours

\* What sortpop leaves in pparent is in order and, where pchild still holds the
\* population that was copied in, the same codes as often (lines 163-177, 263).
SortedPopulation ==
    pc \in {"record", "repro", "done"} =>
        /\ \A r, s \in Row : r < s => fitfun(pparent[r]) <= fitfun(pparent[s])
        /\ pchild # NoPop =>
             \A c \in {pchild[r] : r \in Row} :
               Cardinality({r \in Row : pparent[r] = c}) = Cardinality({r \in Row : pchild[r] = c})

\* What was recorded is at least as good as every code of the population it was
\* recorded from, although only the first row is looked at, and its length is
\* the one kept beside it; only if no code was ever shorter than FOPT, copt has
\* never been stored (lines 58-67, 81).
BestOfPopulation ==
    /\ IF copt = NoCode THEN fopt = FOPT ELSE fopt = fitfun(copt) /\ fopt < FOPT
    /\ pc \in {"repro", "cross", "mutation", "copy", "done"} =>
         \A r \in Row : fopt <= fitfun(pparent[r])

\* The algorithm implements the abstract search: the recorded code is replaced
\* only by a strictly shorter one, with its own length (lines 60-65).
Abstract == INSTANCE KeepBest WITH
    Candidate <- Tours,
    NoCandidate <- NoCode,
    NoCost <- FOPT,
    cost <- [c \in Tours |-> fitfun(c)],
    best <- copt,
    bestCost <- fopt

KeepsBest == Abstract!Spec

\* The loop ends although every better code gives it NL more rounds.
Termination == <>(pc \in {"done", "astray"})
=============================================================================
