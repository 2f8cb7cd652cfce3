--------------------------- MODULE FloydWarshell ---------------------------
(***************************************************************************)
(* thinking.cpp: all-pairs shortest paths in an unweighted directed graph. *)
(*                                                                         *)
(* main() reads t test cases; each is an n x n matrix of characters, 'Y'   *)
(* for an edge.  floydWarshell() copies the matrix to dist, runs the       *)
(* triple loop over the pivot k and the cell (i, j), relaxing dist in      *)
(* place, and then answers q queries.  Every iteration of the innermost    *)
(* loop is one step here, because dist is updated while the same phase     *)
(* still reads it: that this is harmless is what has to be shown.          *)
(*                                                                         *)
(* Only the n x n corner of the 200 x 200 arrays is kept, and a new case   *)
(* replaces it: main() and floydWarshell() write all of it, and the loops  *)
(* index nothing else; a query names two nodes of its case.                *)
(***************************************************************************)
EXTENDS Integers

CONSTANTS
    INF,         \* the macro of line 8: "no edge", 9999999 in the code
    MaxN,        \* the extent of the arrays, 200 in the code
    Cases,       \* the test cases the input may hold: [n, cell] records
    MaxCases,    \* bound on t, the number of test cases read
    MaxQueries   \* bound on q, the number of queries of one test case

ASSUME INFAssumption == INF \in Nat /\ INF > 1
\* "no edge" is more than the number of edges of any path: 9999999 against 200.
ASSUME INFIsFar == INF > MaxN
ASSUME BoundsAssumption == MaxN \in Nat /\ MaxCases \in Nat /\ MaxQueries \in Nat
ASSUME CasesAssumption ==
    \A c \in Cases : /\ c.n \in 1..MaxN
                     /\ c.cell \in [0..(c.n - 1) -> [0..(c.n - 1) -> {"Y", "N"}]]

VARIABLES
    t,         \* test cases still to read
    n,         \* nodes of the current graph
    graph,     \* its adjacency matrix, 1 or INF
    dist,      \* the matrix being relaxed
    k, i, j,   \* the three loop counters
    q,         \* queries still to answer
    pc,        \* "read", "relax", "ask", "query" or "done"
    printed    \* the last line this call wrote, as [a, b, value]; value -1: none yet

vars == <<t, n, graph, dist, k, i, j, q, pc, printed>>

Node == 0..(n - 1)

NothingPrinted == [a |-> 0, b |-> 0, value |-> -1]

TypeOK ==
    /\ t \in 0..MaxCases
    /\ n \in 0..MaxN
    /\ graph \in [Node -> [Node -> {1, INF}]]
    /\ dist \in [Node -> [Node -> 1..INF]]
    /\ pc \in {"read", "relax", "ask", "query", "done"}
    /\ k \in 0..n /\ i \in 0..n /\ j \in 0..n
    /\ pc = "relax" => k \in Node /\ i \in Node /\ j \in Node
    /\ q \in 0..MaxQueries
    /\ printed \in [a : Int, b : Int, value : Int]

-----------------------------------------------------------------------------
Init ==
    /\ t \in 0..MaxCases
    /\ n = 0
    /\ graph = [x \in Node |-> [y \in Node |-> INF]]
    /\ dist = graph
    /\ k = 0 /\ i = 0 /\ j = 0
    /\ q = 0
    /\ pc = "read"
    /\ printed = NothingPrinted

\* Lines 52-53: what main() stores for one character of the matrix.
Cell(c) == IF c = "Y" THEN 1 ELSE INF

\* Lines 44-56 and 14-16: the next matrix is read, the call copies it to dist
\* and enters the loops.
ReadCase ==
    /\ pc = "read"
    /\ t > 0
    /\ t' = t - 1
    /\ \E c \in Cases :
         /\ n' = c.n
         /\ graph' = [x \in 0..(c.n - 1) |-> [y \in 0..(c.n - 1) |-> Cell(c.cell[x][y])]]
    /\ dist' = graph'
    /\ k' = 0 /\ i' = 0 /\ j' = 0
    /\ pc' = "relax"
    /\ UNCHANGED <<q, printed>>

Finish ==
    /\ pc = "read"
    /\ t = 0
    /\ pc' = "done"
    /\ UNCHANGED <<t, n, graph, dist, k, i, j, q, printed>>

\* Mutant of Relaxed: the sum is stored in the pivot's column.
RelaxedStoredInPivot ==
    IF dist[i][k] + dist[k][j] < dist[i][j]
    THEN [dist EXCEPT ![i][k] = dist[i][k] + dist[k][j]]
    ELSE dist

\* Mutant of Relaxed: the second leg read backwards.
RelaxedBackwards ==
    IF dist[i][k] + dist[j][k] < dist[i][j]
    THEN [dist EXCEPT ![i][j] = dist[i][k] + dist[j][k]]
    ELSE dist

\* Lines 24-25: dist after the comparison of cell (i, j) with the way through k.
Relaxed ==
    IF dist[i][k] + dist[k][j] < dist[i][j]
    THEN [dist EXCEPT ![i][j] = dist[i][k] + dist[k][j]]
    ELSE dist

\* Mutant of Advance: the pivot in the innermost loop.
AdvancePivotInnermost ==
    \/ /\ k + 1 < n
       /\ k' = k + 1
       /\ UNCHANGED <<i, j, pc>>
    \/ /\ k + 1 = n /\ j + 1 < n
       /\ k' = 0 /\ j' = j + 1
       /\ UNCHANGED <<i, pc>>
    \/ /\ k + 1 = n /\ j + 1 = n /\ i + 1 < n
       /\ k' = 0 /\ j' = 0 /\ i' = i + 1
       /\ UNCHANGED pc
    \/ /\ k + 1 = n /\ j + 1 = n /\ i + 1 = n
       /\ j' = n /\ i' = n /\ k' = n
       /\ pc' = "ask"

\* Lines 18-22: the headers of the three loops.
Advance ==
    \/ /\ j + 1 < n
       /\ j' = j + 1
       /\ UNCHANGED <<k, i, pc>>
    \/ /\ j + 1 = n /\ i + 1 < n
       /\ j' = 0 /\ i' = i + 1
       /\ UNCHANGED <<k, pc>>
    \/ /\ j + 1 = n /\ i + 1 = n /\ k + 1 < n
       /\ j' = 0 /\ i' = 0 /\ k' = k + 1
       /\ UNCHANGED pc
    \/ /\ j + 1 = n /\ i + 1 = n /\ k + 1 = n
       /\ j' = n /\ i' = n /\ k' = n
       /\ pc' = "ask"

Relax ==
    /\ pc = "relax"
    /\ dist' = Relaxed
    /\ Advance
    /\ UNCHANGED <<t, n, graph, q, printed>>

\* Line 29.
ReadQueryCount ==
    /\ pc = "ask"
    /\ q' \in 0..MaxQueries
    /\ pc' = "query"
    /\ UNCHANGED <<t, n, graph, dist, k, i, j, printed>>

\* Mutant of Answer: the entry of the opposite direction.
AnswerBackwards(a, b) == IF a = b THEN 0 ELSE dist[b][a]

\* Lines 33-35: what is printed for the query (a, b).
Answer(a, b) == IF a = b THEN 0 ELSE dist[a][b]

\* Mutant of Query: the count is tested but not decremented.
QueryForever ==
    /\ pc = "query"
    /\ q > 0
    /\ \E a, b \in Node : printed' = [a |-> a, b |-> b, value |-> Answer(a, b)]
    /\ UNCHANGED <<t, n, graph, dist, k, i, j, q, pc>>

\* Lines 30-36; a query names two nodes of the graph.
Query ==
    /\ pc = "query"
    /\ q > 0
    /\ q' = q - 1
    /\ \E a, b \in Node : printed' = [a |-> a, b |-> b, value |-> Answer(a, b)]
    /\ UNCHANGED <<t, n, graph, dist, k, i, j, pc>>

\* Line 37: back in main(), which reads the next test case.
Return ==
    /\ pc = "query"
    /\ q = 0
    /\ pc' = "read"
    /\ printed' = NothingPrinted
    /\ UNCHANGED <<t, n, graph, dist, k, i, j, q>>

Terminated == pc = "done" /\ UNCHANGED vars

Next ==
    \/ ReadCase
    \/ Finish
    \/ Relax
    \/ ReadQueryCount
    \/ Query
    \/ Return
    \/ Terminated

Spec == Init /\ [][Next]_vars

\* One sequential program whose whole input is there to be read: as long as
\* it has a step to take, it takes one.
FairSpec == Spec /\ WF_vars(Next)
-----------------------------------------------------------------------------
(* Reference definition: breadth-first layers of the graph. *)

\* Walks[m][a] is the set of nodes that some walk of exactly m edges leads to
\* from a.
Walks ==
    LET W[m \in 0..n] ==
          IF m = 0 THEN [a \in Node |-> {a}]
          ELSE LET Before == W[m - 1]
               IN  [a \in Node |-> {b \in Node : \E c \in Before[a] : graph[c][b] = 1}]
    IN W

\* The lengths 1..n at which a walk leads from a to b.
WalkLengths ==
    LET W == Walks
    IN  [a \in Node |-> [b \in Node |-> {m \in 1..n : b \in W[m][a]}]]

\* The length of a shortest nonempty walk, INF when there is none.
Shortest(a, b) ==
    LET L == WalkLengths[a][b]
    IN  IF L = {} THEN INF ELSE CHOOSE m \in L : \A o \in L : m <= o
-----------------------------------------------------------------------------
(* What must hold. *)

\* A query (a, b) is answered with 0 for a = b, else with the number of edges of
\* a shortest path, else with INF (lines 33-35): the value printed is that of
\* the matrix read for this test case, whatever was read before it.
PrintedIsShortest ==
    printed # NothingPrinted =>
        printed.value = IF printed.a = printed.b THEN 0
                        ELSE Shortest(printed.a, printed.b)

\* dist never holds a length that no walk of the graph has: relaxing a matrix
\* that is half of this phase and half of the last invents nothing (line 25).
DistanceIsRealised ==
    LET L == WalkLengths
    IN  \A a, b \in Node : dist[a][b] = INF \/ dist[a][b] \in L[a][b]

\* A cell the running phase has already visited.
Visited(a, b) == a < i \/ (a = i /\ b < j)

\* In the phase of pivot k a detour through an earlier pivot l is never
\* shorter than both the direct entry and the detour through k; and the cells
\* already visited have taken the detour through k into account (lines 18-28).
PhaseInvariant ==
    pc = "relax" =>
      \A a, b \in Node :
        /\ \A l \in 0..(k - 1) :
              \/ dist[a][b] <= dist[a][l] + dist[l][b]
              \/ dist[a][k] + dist[k][b] <= dist[a][l] + dist[l][b]
        /\ Visited(a, b) => dist[a][b] <= dist[a][k] + dist[k][b]

\* When the loops are over dist is a metric below the matrix: no entry exceeds
\* the edge, or the sum of the two entries of any detour.
Closed ==
    pc \in {"ask", "query"} =>
      \A a, b \in Node :
        /\ dist[a][b] <= graph[a][b]
        /\ \A c \in Node : dist[a][b] <= dist[a][c] + dist[c][b]

\* Row k and column k do not move while k is the pivot: the in-place update
\* reads the same values the phase started from (lines 20-25).
PivotStable ==
    [][pc = "relax" =>
         \A x \in Node : dist'[k][x] = dist[k][x] /\ dist'[x][k] = dist[x][k]]_vars

\* Every run of the program comes to the end of its input.
Termination == <>(pc = "done")
=============================================================================
