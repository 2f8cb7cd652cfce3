-------------------------- MODULE MCSmallPrograms --------------------------
(***************************************************************************)
(* Seven small systems that have nothing to do with one another: the       *)
(* shortest paths, the simulated annealing, the symbol table, the route    *)
(* search in Romania, the squirrel's nuts, the substring searches and the  *)
(* labelling of balls.  A behaviour is a run of one of them; the variables *)
(* of the others keep their initial values.                                *)
(*                                                                         *)
(* Graphs are all those of one or two nodes, those of three without        *)
(* self-loops, and in every numbering of four nodes a path, a cycle and a  *)
(* path with a longer and a shorter way to its end.  The cities are four:  *)
(* a square with the corners in an order that makes the first tours cross, *)
(* four on a line, of which two coincide, and a skew quadrilateral whose   *)
(* distances need rounding both ways (sqrt(0.1), sqrt(6.4), sqrt(9.1)).    *)
(* Keys are prefixes of one another, at a distance of one and of two       *)
(* characters, part from one another early and late, and the empty key is  *)
(* the root's own.  Fields are all those of up to 3 x 3 cells with up to   *)
(* two nuts, and those of 2 x 3 with three.  Patterns and texts are all    *)
(* those over two characters up to a length of four and six.  Files of     *)
(* balls have one or two cases, the first of up to four balls, so that     *)
(* weights and lines of a larger first case are left over, the second of   *)
(* up to three.                                                            *)
(***************************************************************************)
EXTENDS FloydWarshell, SimulatedAnnealing, TrieST, SubstringSearch, LabelingBalls, NutsForNuts,
        RomaniaInstance

VARIABLE program

romania == <<romaniaPc, initCity, nodes, open, solution, shown>>

Matrix(size, E) ==
    [n |-> size,
     cell |-> [a \in 0..(size - 1) |-> [b \in 0..(size - 1) |->
                 IF <<a, b>> \in E THEN "Y" ELSE "N"]]]

AllArcs(size) == (0..(size - 1)) \X (0..(size - 1))

Numberings == {f \in [0..3 -> 0..3] : \A a, b \in 0..3 : a # b => f[a] # f[b]}

Shapes == {{<<0, 1>>, <<1, 2>>, <<2, 3>>},
           {<<0, 1>>, <<1, 2>>, <<2, 3>>, <<3, 0>>},
           {<<0, 1>>, <<1, 2>>, <<2, 3>>, <<1, 3>>, <<3, 1>>}}

FourNodes == {{<<f[e[1]], f[e[2]]>> : e \in S} : f \in Numberings, S \in Shapes}

MCCases ==
    UNION {{Matrix(size, E) : E \in SUBSET AllArcs(size)} : size \in 1..2}
    \cup {Matrix(3, E) : E \in SUBSET {e \in AllArcs(3) : e[1] # e[2]}}
    \cup {Matrix(4, E) : E \in FourNodes}

Layout(xs, ys) == [x |-> [c \in City |-> xs[c + 1]], y |-> [c \in City |-> ys[c + 1]]]

MCLayouts == {Layout(<<0, 10, 0, 10>>, <<0, 10, 10, 0>>),
              Layout(<<0, 4, 4, 13>>, <<0, 0, 0, 0>>),
              Layout(<<0, 1, 8, 3>>, <<0, 0, 5, 9>>)}

MCChar == {"a", "b"}
MCKeys == {<<>>, <<"a">>, <<"a", "b", "a">>, <<"a", "b", "b">>, <<"b", "a">>}
Strings(shortest, longest) == UNION {[1..l -> MCChar] : l \in shortest..longest}
MCQueries == Strings(0, 4)
MCPatterns == Strings(1, 4)
MCTexts == Strings(0, 6)

\* The fields with so many rows, columns and nuts.
FieldsOf(rows, columns, count) ==
    LET Field == (1..rows) \X (1..columns)
    IN  UNION {[n : {rows}, m : {columns}, start : {s}, nuts : kSubset(count, Field \ {s})] :
               s \in Field}

MCFields ==
    FieldsOf(2, 3, 3)
    \cup UNION {FieldsOf(rows, columns, count) : rows \in 1..3, columns \in 1..3, count \in 0..2}

CasesOf(size, lines) ==
    {[n |-> size, pairs |-> p] : p \in [1..lines -> (1..size) \X (1..size)]}

FirstCases ==
    UNION {CasesOf(size, lines) : size \in 1..3, lines \in 0..2}
    \cup CasesOf(4, 0) \cup CasesOf(4, 1)
LastCases == UNION {CasesOf(size, lines) : size \in 1..3, lines \in 0..1}
MCBallsFiles == {<<c>> : c \in FirstCases} \cup {<<c, d>> : c \in FirstCases, d \in LastCases}

\* One case of three balls with two relations, each of two balls.
MCTwoRelations ==
    {<<c>> : c \in {c \in CasesOf(3, 2) : \A l \in 1..2 : c.pairs[l][1] # c.pairs[l][2]}}

\* What the input of the shortest paths and of the annealing is does not matter while
\* another program runs.
StartOne ==
    /\ program \in {"floyd", "annealing", "trie", "romania", "nuts", "substring", "balls"}
    /\ Init
    /\ program # "floyd" => t = 0
    /\ AnnealingInit
    /\ program # "annealing" => [x |-> x, y |-> y] = CHOOSE l \in Layouts : TRUE
    /\ TrieInit
    /\ Romania!Init
    /\ NutsInit
    /\ SearchInit
    /\ BallsInit

RunFloyd ==
    /\ program = "floyd" /\ Next
    /\ UNCHANGED <<program, annealingVars, root, romania, nutsVars, searchVars, ballsVars>>

RunAnnealing ==
    /\ program = "annealing" /\ AnnealingNext
    /\ UNCHANGED <<program, vars, root, romania, nutsVars, searchVars, ballsVars>>

RunTrie ==
    /\ program = "trie" /\ TrieNext
    /\ UNCHANGED <<program, vars, annealingVars, romania, nutsVars, searchVars, ballsVars>>

RunRomania ==
    /\ program = "romania" /\ Romania!Next
    /\ UNCHANGED <<program, vars, annealingVars, root, nutsVars, searchVars, ballsVars>>

RunNuts ==
    /\ program = "nuts" /\ NutsNext
    /\ UNCHANGED <<program, vars, annealingVars, root, romania, searchVars, ballsVars>>

RunSubstring ==
    /\ program = "substring" /\ SearchNext
    /\ UNCHANGED <<program, vars, annealingVars, root, romania, nutsVars, ballsVars>>

RunBalls ==
    /\ program = "balls" /\ BallsNext
    /\ UNCHANGED <<program, vars, annealingVars, root, romania, nutsVars, searchVars>>

RunOne ==
    RunFloyd \/ RunAnnealing \/ RunTrie \/ RunRomania \/ RunNuts \/ RunSubstring \/ RunBalls

all == <<program, vars, annealingVars, root, romania, nutsVars, searchVars, ballsVars>>

\* The shortest paths, the annealing and the search in Romania run on by themselves; a
\* city that is not in the annealing's tour yet is drawn again and again, so one is
\* drawn at last.
RunSpec ==
    /\ StartOne /\ [][RunOne]_all
    /\ WF_all(RunFloyd) /\ WF_all(RunAnnealing) /\ WF_all(RunRomania)
    /\ SF_all(RunAnnealing /\ \E c \in City : NewCity(c) /\ Draw(c))

\* The shortest paths come to the end of their input when they are the program that
\* runs (thinking.cpp, lines 30-37 and 44-57).
FloydWarshellEnds == program = "floyd" => Termination

\* So does the annealing: neither the rejection sampling of initGroup nor the loops of
\* solve go on for ever (TSP-fire.java, lines 135-146 and 208-228).
AnnealingEnds == program = "annealing" => AnnealingTermination
=============================================================================
