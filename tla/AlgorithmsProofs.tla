-------------------------- MODULE AlgorithmsProofs --------------------------
(***************************************************************************)
(* Proofs about the six programs that are a textbook algorithm each.       *)
(*                                                                         *)
(* FloydWarshell, for every INF, every bound and every set of test cases:  *)
(* dist stays a matrix of lengths, the in-place update does not disturb    *)
(* its own phase, every entry is at any time the length of a walk or INF,  *)
(* and what a query prints is the length of a shortest one.                *)
(*                                                                         *)
(* TrieST, for any keys and values: every node hangs from the root, the    *)
(* tree is a map from keys to values to its callers, a delete and a put of *)
(* a value leave no dead end on the way to their key and make none         *)
(* elsewhere, and the longest prefix is found.                             *)
(*                                                                         *)
(* SubstringSearch, for any patterns and texts: the automaton knows its    *)
(* borders, and neither search passes an occurrence.                       *)
(*                                                                         *)
(* LabelingBalls, for any number of balls: the labels printed are the      *)
(* lexicographically least ones for the relation that input() has left.    *)
(*                                                                         *)
(* NutsForNuts, for any fields: no state of the search is queued twice,    *)
(* and what is printed is the length of a shortest round, for fields for   *)
(* which the arrays are large enough.                                      *)
(*                                                                         *)
(* RomaniaSearch, which has no parameter and is an instance: the estimates *)
(* are consistent with the roads, so the way displayed is a cheapest one.  *)
(***************************************************************************)
EXTENDS FloydWarshell, TrieST, SubstringSearch, LabelingBalls, NutsForNuts, RomaniaInstance,
        DataLemmas

-----------------------------------------------------------------------------
(* The comparison of one cell, lines 24-25. *)

\* What Relaxed holds, cell by cell: the minimum in cell (i, j), dist elsewhere.
LEMMA RelaxedCells ==
    ASSUME TypeOK, pc = "relax"
    PROVE  /\ Relaxed \in [Node -> [Node -> 1..INF]]
           /\ \A a, b \in Node :
                Relaxed[a][b] =
                  IF a = i /\ b = j /\ dist[i][k] + dist[k][j] < dist[i][j]
                  THEN dist[i][k] + dist[k][j] ELSE dist[a][b]
<1>1. k \in Node /\ i \in Node /\ j \in Node
  BY DEF TypeOK
<1>2. dist \in [Node -> [Node -> 1..INF]]
  BY DEF TypeOK
<1>3. CASE dist[i][k] + dist[k][j] < dist[i][j]
  <2>1. dist[i][k] \in 1..INF /\ dist[k][j] \in 1..INF /\ dist[i][j] \in 1..INF
    BY <1>1, <1>2
  <2>2. dist[i][k] + dist[k][j] \in 1..INF
    BY <1>3, <2>1, INFAssumption
  <2>3. Relaxed = [dist EXCEPT ![i][j] = dist[i][k] + dist[k][j]]
    BY <1>3 DEF Relaxed
  <2>. QED BY <1>1, <1>2, <1>3, <2>2, <2>3
<1>4. CASE ~(dist[i][k] + dist[k][j] < dist[i][j])
  BY <1>2, <1>4 DEF Relaxed
<1>. QED BY <1>3, <1>4

\* The pivot's own row and column are left alone: no detour through k is
\* shorter than an entry that already starts or ends in k.
LEMMA PivotKept ==
    ASSUME TypeOK, pc = "relax", NEW x \in Node
    PROVE  Relaxed[k][x] = dist[k][x] /\ Relaxed[x][k] = dist[x][k]
<1>1. k \in Node /\ i \in Node /\ j \in Node
  BY DEF TypeOK
<1>2. \A a, b \in Node : dist[a][b] \in 1..INF
  BY DEF TypeOK
<1>3. ASSUME i = k PROVE ~(dist[i][k] + dist[k][j] < dist[i][j])
  BY <1>1, <1>2, <1>3, INFAssumption
<1>4. ASSUME j = k PROVE ~(dist[i][k] + dist[k][j] < dist[i][j])
  BY <1>1, <1>2, <1>4, INFAssumption
<1>. QED BY <1>1, <1>3, <1>4, RelaxedCells

-----------------------------------------------------------------------------
(* Type correctness. *)

\* Every variable keeps to its type: indices stay inside the matrix and entries
\* between 0 and INF (lines 10-58).
THEOREM TypeCorrect == Spec => []TypeOK
<1>1. Init => TypeOK
  BY BoundsAssumption DEF Init, TypeOK, Node, NothingPrinted
<1>2. TypeOK /\ [Next]_vars => TypeOK'
  <2>. SUFFICES ASSUME TypeOK, [Next]_vars PROVE TypeOK'
    OBVIOUS
  <2>1. CASE ReadCase
    <3>1. PICK c \in Cases :
             /\ n' = c.n
             /\ graph' = [x \in 0..(c.n - 1) |->
                            [y \in 0..(c.n - 1) |-> Cell(c.cell[x][y])]]
      BY <2>1 DEF ReadCase
    <3>2. n' \in 1..MaxN /\ Node' = 0..(c.n - 1)
      BY <3>1, CasesAssumption DEF Node
    <3>3. graph' \in [Node' -> [Node' -> {1, INF}]]
      BY <3>1, <3>2 DEF Cell
    <3>4. graph' \in [Node' -> [Node' -> 1..INF]]
      BY <3>3, INFAssumption
    <3>5. 0 \in Node'
      BY <3>1, <3>2, BoundsAssumption
    <3>6. /\ t' \in 0..MaxCases /\ q' \in 0..MaxQueries
          /\ printed' \in [a : Int, b : Int, value : Int]
          /\ pc' = "relax" /\ k' = 0 /\ i' = 0 /\ j' = 0 /\ dist' = graph'
      BY <2>1, BoundsAssumption DEF ReadCase, TypeOK
    <3>7. n' \in 0..MaxN /\ 0 \in 0..n'
      BY <3>2, BoundsAssumption
    <3>. QED BY ONLY <3>3, <3>4, <3>5, <3>6, <3>7 DEF TypeOK
  <2>2. CASE Relax
    <3>1. Relaxed \in [Node -> [Node -> 1..INF]] /\ Node' = Node
      BY <2>2, RelaxedCells DEF Relax, Node
    <3>2. /\ k' \in 0..n /\ i' \in 0..n /\ j' \in 0..n
          /\ pc' \in {"relax", "ask"}
          /\ pc' = "relax" => k' \in Node /\ i' \in Node /\ j' \in Node
      <4>1. /\ n \in Nat /\ pc = "relax"
            /\ k \in 0..(n - 1) /\ i \in 0..(n - 1) /\ j \in 0..(n - 1)
        BY <2>2, BoundsAssumption DEF Relax, TypeOK, Node
      <4>2. Advance
        BY <2>2 DEF Relax
      <4>. QED BY <4>1, <4>2 DEF Advance, Node
    <3>. QED BY <2>2, <3>1, <3>2 DEF Relax, TypeOK
  <2>3. CASE Query
    <3>1. PICK a \in Node, b \in Node : printed' = [a |-> a, b |-> b, value |-> Answer(a, b)]
      BY <2>3 DEF Query
    <3>2. Answer(a, b) \in Int
      BY DEF Answer, TypeOK
    <3>3. printed' \in [a : Int, b : Int, value : Int]
      BY <3>1, <3>2 DEF Node, TypeOK
    <3>4. q' \in 0..MaxQueries
      BY <2>3, BoundsAssumption DEF Query, TypeOK
    <3>. QED BY <2>3, <3>3, <3>4 DEF Query, TypeOK, Node
  <2>4. CASE Finish
    BY <2>4 DEF Finish, TypeOK, Node
  <2>5. CASE ReadQueryCount
    BY <2>5 DEF ReadQueryCount, TypeOK, Node
  <2>6. CASE Return
    BY <2>6 DEF Return, TypeOK, Node, NothingPrinted
  <2>7. CASE Terminated \/ UNCHANGED vars
    BY <2>7 DEF Terminated, vars, TypeOK, Node
  <2>. QED BY <2>1, <2>2, <2>3, <2>4, <2>5, <2>6, <2>7 DEF Next
<1>. QED BY <1>1, <1>2, PTL DEF Spec

-----------------------------------------------------------------------------
(* The in-place update. *)

\* Row k and column k do not move while k is the pivot (lines 20-25), for every
\* graph the program can read.
THEOREM PivotIsStable == Spec => PivotStable
<1>1. TypeOK /\ [Next]_vars =>
        [pc = "relax" =>
           \A x \in Node : dist'[k][x] = dist[k][x] /\ dist'[x][k] = dist[x][k]]_vars
  <2>. SUFFICES ASSUME TypeOK, Next, pc = "relax", NEW x \in Node
                PROVE  dist'[k][x] = dist[k][x] /\ dist'[x][k] = dist[x][k]
    OBVIOUS
  <2>1. CASE Relax
    BY <2>1, PivotKept DEF Relax
  <2>2. CASE ~Relax
    BY <2>2 DEF Next, ReadCase, Finish, ReadQueryCount, Query, Return, Terminated
  <2>. QED BY <2>1, <2>2
<1>. QED BY <1>1, TypeCorrect, PTL DEF Spec, PivotStable

\* What one comparison does to the phase invariant: the cell (i, j) joins the
\* visited ones, and shortening it breaks no inequality, neither those in which
\* it is the left side nor those in which it is one leg of a detour.
LEMMA RelaxKeepsPhase ==
    ASSUME TypeOK, pc = "relax", PhaseInvariant, NEW a \in Node, NEW b \in Node
    PROVE  /\ \A l \in 0..(k - 1) :
                \/ Relaxed[a][b] <= Relaxed[a][l] + Relaxed[l][b]
                \/ Relaxed[a][k] + Relaxed[k][b] <= Relaxed[a][l] + Relaxed[l][b]
           /\ Visited(a, b) \/ (a = i /\ b = j) =>
                Relaxed[a][b] <= Relaxed[a][k] + Relaxed[k][b]
<1> DEFINE R == Relaxed
           D(x, y) == dist[x][y]
<1>1. k \in Node /\ i \in Node /\ j \in Node /\ 0..(k - 1) \subseteq Node
  BY DEF TypeOK, Node
<1>2. \A x, y \in Node : D(x, y) \in Nat /\ D(x, y) > 0 /\ R[x][y] \in Nat /\ R[x][y] > 0
  BY RelaxedCells, INFAssumption DEF TypeOK
<1>3. \A x \in Node : R[k][x] = D(k, x) /\ R[x][k] = D(x, k)
  BY PivotKept
<1>4. \A x, y \in Node : R[x][y] <= D(x, y)
  BY <1>1, <1>2, RelaxedCells
<1>5. \A x, y \in Node : R[x][y] = D(x, y) \/ (x = i /\ y = j /\ R[x][y] = D(x, k) + D(k, y))
  BY RelaxedCells
<1>6. \A x, y \in Node : \A l \in 0..(k - 1) :
        \/ D(x, y) <= D(x, l) + D(l, y)
        \/ D(x, k) + D(k, y) <= D(x, l) + D(l, y)
  BY DEF PhaseInvariant
<1>7. \A x, y \in Node : Visited(x, y) => D(x, y) <= D(x, k) + D(k, y)
  BY DEF PhaseInvariant
<1> HIDE DEF R, D
<1>8. ASSUME NEW l \in 0..(k - 1)
      PROVE  \/ R[a][b] <= R[a][l] + R[l][b]
             \/ R[a][k] + R[k][b] <= R[a][l] + R[l][b]
  <2>. l \in Node
    BY <1>1
  <2>1. CASE R[a][l] = D(a, l) /\ R[l][b] = D(l, b)
    BY <1>1, <1>2, <1>3, <1>4, <1>6, <2>1
  <2>2. CASE R[a][l] = D(a, k) + D(k, l) /\ R[l][b] = D(l, b)
    \* the leg into l was shortened: go from k to l, for which the phase
    \* invariant gives D(k, b) <= D(k, l) + D(l, b)
    <3>1. D(k, b) <= D(k, l) + D(l, b)
      <4>1. \/ D(k, b) <= D(k, l) + D(l, b)
            \/ D(k, k) + D(k, b) <= D(k, l) + D(l, b)
        BY <1>1, <1>6
      <4>. QED BY <1>1, <1>2, <4>1
    <3>. QED BY <1>1, <1>2, <1>3, <2>2, <3>1
  <2>3. CASE R[a][l] = D(a, l) /\ R[l][b] = D(l, k) + D(k, b)
    <3>1. D(a, k) <= D(a, l) + D(l, k)
      <4>1. \/ D(a, k) <= D(a, l) + D(l, k)
            \/ D(a, k) + D(k, k) <= D(a, l) + D(l, k)
        BY <1>1, <1>6
      <4>. QED BY <1>1, <1>2, <4>1
    <3>. QED BY <1>1, <1>2, <1>3, <2>3, <3>1
  <2>4. CASE a = i /\ l = j /\ l = i /\ b = j
    BY <1>1, <1>2, <2>4
  <2>. QED BY <1>1, <1>5, <2>1, <2>2, <2>3, <2>4
<1>9. ASSUME Visited(a, b) \/ (a = i /\ b = j)
      PROVE  R[a][b] <= R[a][k] + R[k][b]
  <2>1. CASE Visited(a, b)
    BY <1>1, <1>2, <1>3, <1>4, <1>7, <2>1
  <2>2. CASE a = i /\ b = j
    <3>1. R[i][j] <= D(i, k) + D(k, j)
      BY <1>1, <1>2, RelaxedCells DEF R, D
    <3>. QED BY <1>3, <2>2, <3>1
  <2>. QED BY <1>9, <2>1, <2>2
<1>. QED BY <1>8, <1>9 DEF R

\* dist never exceeds the matrix it was copied from: the base of Closed, kept
\* through the loops because relaxing only lowers an entry.
BelowGraph ==
    pc \in {"relax", "ask", "query"} =>
        \A a, b \in Node : dist[a][b] <= graph[a][b]

\* Closed needs the phase and the bound, which is why they are proved together.
IInv == TypeOK /\ BelowGraph /\ PhaseInvariant /\ Closed

\* One turn of the innermost loop (lines 18-28) keeps the invariant.
LEMMA IInvRelax ==
    ASSUME IInv, Relax, TypeOK'
    PROVE  IInv'
<1>1. pc = "relax" /\ Node' = Node /\ n' = n /\ graph' = graph /\ dist' = Relaxed
  BY DEF Relax, Node
<1>2. TypeOK /\ PhaseInvariant /\ Advance
  BY DEF IInv, Relax
<1>3. n \in Nat /\ k \in Node /\ i \in Node /\ j \in Node
  BY <1>1, <1>2, BoundsAssumption DEF TypeOK
<1>4. /\ \A a, b \in Node : dist[a][b] \in Nat /\ graph[a][b] \in Nat
      /\ \A a, b \in Node : Relaxed[a][b] \in Nat /\ Relaxed[a][b] > 0
  BY <1>1, <1>2, RelaxedCells, INFAssumption DEF TypeOK
<1>5. \A a, b \in Node : Relaxed[a][b] <= dist[a][b]
  BY <1>1, <1>2, <1>3, <1>4, RelaxedCells
<1>6. BelowGraph'
  <2>1. \A a, b \in Node : dist[a][b] <= graph[a][b]
    BY <1>1 DEF IInv, BelowGraph
  <2>. QED BY <1>1, <1>4, <1>5, <2>1 DEF BelowGraph
<1>7. ASSUME NEW a \in Node, NEW b \in Node
      PROVE  /\ \A l \in 0..(k - 1) :
                  \/ dist'[a][b] <= dist'[a][l] + dist'[l][b]
                  \/ dist'[a][k] + dist'[k][b] <= dist'[a][l] + dist'[l][b]
             /\ Visited(a, b) \/ (a = i /\ b = j) => dist'[a][b] <= dist'[a][k] + dist'[k][b]
  BY <1>1, <1>2, RelaxKeepsPhase
<1>8. CASE k' = k
  \* the same phase goes on: the next cell has one more visited before it
  <2>1. pc' = "relax" /\ \A a, b \in Node : Visited(a, b)' => Visited(a, b) \/ (a = i /\ b = j)
    <3>1. \/ i' = i /\ j' = j + 1 /\ pc' = pc
          \/ j + 1 = n /\ i' = i + 1 /\ j' = 0 /\ pc' = pc
      BY <1>2, <1>3, <1>8 DEF Advance, Node
    <3>. QED BY <1>1, <1>3, <3>1 DEF Visited, Node
  <2>2. PhaseInvariant'
    BY <1>1, <1>7, <1>8, <2>1 DEF PhaseInvariant
  <2>3. Closed'
    BY <2>1 DEF Closed
  <2>. QED BY <1>6, <2>2, <2>3 DEF IInv
<1>9. CASE k' # k
  \* the phase of k is over: (i, j) was its last cell
  <2>1. i = n - 1 /\ j = n - 1 /\ k' = k + 1
    BY <1>2, <1>3, <1>9 DEF Advance, Node
  <2>2. \A a, b \in Node : Visited(a, b) \/ (a = i /\ b = j)
    BY <1>3, <2>1 DEF Visited, Node
  <2>3. \A a, b \in Node : \A l \in 0..k : dist'[a][b] <= dist'[a][l] + dist'[l][b]
    <3>. SUFFICES ASSUME NEW a \in Node, NEW b \in Node, NEW l \in 0..k
                  PROVE  dist'[a][b] <= dist'[a][l] + dist'[l][b]
      OBVIOUS
    <3>1. l \in Node /\ (l = k \/ l \in 0..(k - 1))
      BY <1>3 DEF Node
    <3>2. dist'[a][b] <= dist'[a][k] + dist'[k][b]
      BY <1>7, <2>2
    <3>3. CASE l = k
      BY <3>2, <3>3
    <3>4. CASE l \in 0..(k - 1)
      <4>1. \/ dist'[a][b] <= dist'[a][l] + dist'[l][b]
            \/ dist'[a][k] + dist'[k][b] <= dist'[a][l] + dist'[l][b]
        BY <1>7, <3>4
      <4>2. /\ dist'[a][b] \in Nat /\ dist'[a][l] \in Nat /\ dist'[l][b] \in Nat
            /\ dist'[a][k] \in Nat /\ dist'[k][b] \in Nat
        BY <1>1, <1>3, <1>4, <3>1
      <4>. QED BY <3>2, <4>1, <4>2
    <3>. QED BY <3>1, <3>3, <3>4
  <2>4. CASE k + 1 < n
    <3>1. pc' = "relax" /\ i' = 0 /\ j' = 0
      BY <1>1, <1>2, <1>3, <2>1, <2>4 DEF Advance, Node
    <3>2. \A a, b \in Node : ~Visited(a, b)'
      BY <1>3, <3>1 DEF Visited, Node
    <3>3. 0..(k' - 1) = 0..k
      BY <1>3, <2>1 DEF Node
    <3>4. PhaseInvariant'
      BY <1>1, <2>3, <3>2, <3>3 DEF PhaseInvariant
    <3>5. Closed'
      BY <3>1 DEF Closed
    <3>. QED BY <1>6, <3>4, <3>5 DEF IInv
  <2>5. CASE k + 1 = n
    <3>1. pc' = "ask"
      BY <1>2, <1>3, <2>1, <2>5 DEF Advance, Node
    <3>2. 0..k = Node
      BY <2>5, <1>3 DEF Node
    <3>3. PhaseInvariant'
      BY <3>1 DEF PhaseInvariant
    <3>4. Closed'
      BY <1>1, <1>6, <2>3, <3>1, <3>2 DEF Closed, BelowGraph
    <3>. QED BY <1>6, <3>3, <3>4 DEF IInv
  <2>. QED BY <1>3, <2>4, <2>5 DEF Node
<1>. QED BY <1>8, <1>9

\* A matrix that has just been read (lines 40-56, 14-16) satisfies the invariant.
LEMMA IInvReadCase ==
    ASSUME IInv, ReadCase, TypeOK'
    PROVE  IInv'
<1>1. dist' = graph' /\ pc' = "relax" /\ k' = 0 /\ i' = 0 /\ j' = 0
  BY DEF ReadCase
<1>2. \A a, b \in Node' : dist'[a][b] \in Nat /\ graph'[a][b] \in Nat
  BY INFAssumption DEF TypeOK
<1>3. BelowGraph'
  BY <1>1, <1>2 DEF BelowGraph
<1>4. \A a, b \in Node' : ~Visited(a, b)'
  <2>1. \A a \in Node' : a \in Int /\ a >= 0
    BY BoundsAssumption DEF TypeOK, Node
  <2>. QED BY <1>1, <2>1 DEF Visited
<1>5. 0..(k' - 1) = {}
  BY <1>1
<1>6. PhaseInvariant'
  BY <1>4, <1>5 DEF PhaseInvariant
<1>7. Closed'
  BY <1>1 DEF Closed
<1>. QED BY <1>3, <1>6, <1>7 DEF IInv

\* The phase of the loops, what they have closed and the bound by the graph hold
\* together in every reachable state.
LEMMA IInvInductive == Spec => []IInv
<1>1. Init => IInv
  <2>1. Init => TypeOK
    BY BoundsAssumption DEF Init, TypeOK, Node, NothingPrinted
  <2>. QED BY <2>1 DEF Init, IInv, BelowGraph, PhaseInvariant, Closed
<1>2. IInv /\ TypeOK' /\ [Next]_vars => IInv'
  <2>. SUFFICES ASSUME IInv, TypeOK', [Next]_vars PROVE IInv'
    OBVIOUS
  <2>1. CASE ReadCase
    BY <2>1, IInvReadCase
  <2>2. CASE Relax
    BY <2>2, IInvRelax
  <2>3. CASE Finish
    BY <2>3 DEF Finish, IInv, BelowGraph, PhaseInvariant, Closed
  <2>4. CASE ReadQueryCount
    <3>1. Node' = Node
      BY <2>4 DEF ReadQueryCount, Node
    <3>. QED BY <2>4, <3>1 DEF ReadQueryCount, IInv, BelowGraph, PhaseInvariant, Closed
  <2>5. CASE Query
    <3>1. Node' = Node
      BY <2>5 DEF Query, Node
    <3>. QED BY <2>5, <3>1 DEF Query, IInv, BelowGraph, PhaseInvariant, Closed
  <2>6. CASE Return
    BY <2>6 DEF Return, IInv, BelowGraph, PhaseInvariant, Closed
  <2>7. CASE Terminated \/ UNCHANGED vars
    BY <2>7 DEF Terminated, vars, IInv, BelowGraph, PhaseInvariant, Closed, Node, Visited
  <2>. QED BY <2>1, <2>2, <2>3, <2>4, <2>5, <2>6, <2>7 DEF Next
<1>. QED BY <1>1, <1>2, TypeCorrect, PTL DEF Spec

\* The order of the loops is right: in every state of the phase of pivot k the
\* detours through the earlier pivots are already paid for (lines 18-28).
THEOREM PhaseInvariantHolds == Spec => []PhaseInvariant
<1>1. IInv => PhaseInvariant
  BY DEF IInv
<1>. QED BY <1>1, IInvInductive, PTL

\* When the queries are answered dist is closed under detours (lines 29-36).
THEOREM ClosedHolds == Spec => []Closed
<1>1. IInv => Closed
  BY DEF IInv
<1>. QED BY <1>1, IInvInductive, PTL

-----------------------------------------------------------------------------
(* dist[a][b] is the least length of a nonempty walk.                        *)
(*                                                                           *)
(* Which lengths walks have is an inductive notion: every arc of the matrix  *)
(* is a walk of its own weight, and two walks that meet make a walk of the   *)
(* sum.  IsLength(a, b, l) says <<a, b, l>> is in every set that has these   *)
(* two closure properties, that is, in the least one.  An arc of weight INF  *)
(* counts as one, as it does for the code.                                   *)

ClosedLengths ==
    {S \in SUBSET (Node \X Node \X Nat) :
        /\ \A a, b \in Node : <<a, b, graph[a][b]>> \in S
        /\ \A a, b, c \in Node : \A l, m \in Nat :
             <<a, b, l>> \in S /\ <<b, c, m>> \in S => <<a, c, l + m>> \in S}

IsLength(a, b, l) == \A S \in ClosedLengths : <<a, b, l>> \in S

\* Every entry is the length of some walk, in every state of the loops.
Sound ==
    pc \in {"relax", "ask", "query"} =>
        \A a, b \in Node : IsLength(a, b, dist[a][b])

\* No walk is shorter, once the loops are over.
Least ==
    pc \in {"ask", "query"} =>
        \A a, b \in Node : \A l \in Nat : IsLength(a, b, l) => dist[a][b] <= l

\* Every entry is always the length of some walk.
LEMMA SoundInductive == Spec => []Sound
<1>1. Init => Sound
  BY DEF Init, Sound
<1>2. TypeOK /\ TypeOK' /\ Sound /\ [Next]_vars => Sound'
  <2>. SUFFICES ASSUME TypeOK, TypeOK', Sound, [Next]_vars PROVE Sound'
    OBVIOUS
  <2>1. CASE ReadCase
    BY <2>1 DEF ReadCase, Sound, IsLength, ClosedLengths
  <2>2. CASE Relax
    <3>. SUFFICES ASSUME NEW a \in Node, NEW b \in Node, NEW S \in ClosedLengths
                  PROVE  <<a, b, Relaxed[a][b]>> \in S
      BY <2>2 DEF Relax, Sound, IsLength, ClosedLengths, Node
    <3>1. pc = "relax" /\ k \in Node /\ i \in Node /\ j \in Node
      BY <2>2 DEF Relax, TypeOK
    <3>2. \A x, y \in Node : <<x, y, dist[x][y]>> \in S /\ dist[x][y] \in Nat
      BY <3>1, INFAssumption DEF Sound, IsLength, TypeOK
    <3>3. <<i, j, dist[i][k] + dist[k][j]>> \in S
      BY <3>1, <3>2 DEF ClosedLengths
    <3>. QED BY <3>1, <3>2, <3>3, RelaxedCells
  <2>3. CASE ReadQueryCount \/ Query
    BY <2>3 DEF ReadQueryCount, Query, Sound, IsLength, ClosedLengths, Node
  <2>4. CASE Finish \/ Return
    BY <2>4 DEF Finish, Return, Sound
  <2>5. CASE Terminated \/ UNCHANGED vars
    BY <2>5 DEF Terminated, vars, Sound, IsLength, ClosedLengths, Node
  <2>. QED BY <2>1, <2>2, <2>3, <2>4, <2>5 DEF Next
<1>. QED BY <1>1, <1>2, TypeCorrect, PTL DEF Spec

\* A closed matrix is below the length of every walk.
LEMMA ClosedIsLeast == TypeOK /\ Closed => Least
<1>. SUFFICES ASSUME TypeOK, Closed, pc \in {"ask", "query"},
                     NEW a \in Node, NEW b \in Node, NEW l \in Nat, IsLength(a, b, l)
              PROVE  dist[a][b] <= l
  BY DEF Least
<1> DEFINE S == {w \in Node \X Node \X Nat : dist[w[1]][w[2]] <= w[3]}
<1>1. \A x, y \in Node : dist[x][y] \in Nat /\ graph[x][y] \in Nat
  BY INFAssumption DEF TypeOK
<1>2. \A x, y \in Node : \A m \in Nat : <<x, y, m>> \in S <=> dist[x][y] <= m
  OBVIOUS
<1>3. S \in SUBSET (Node \X Node \X Nat)
  OBVIOUS
<1> HIDE DEF S
<1>4. \A x, y \in Node : <<x, y, graph[x][y]>> \in S
  BY <1>1, <1>2 DEF Closed
<1>5. ASSUME NEW x \in Node, NEW y \in Node, NEW z \in Node, NEW m \in Nat, NEW o \in Nat,
             <<x, y, m>> \in S, <<y, z, o>> \in S
      PROVE  <<x, z, m + o>> \in S
  <2>1. dist[x][y] <= m /\ dist[y][z] <= o
    BY <1>2, <1>5
  <2>2. dist[x][z] <= dist[x][y] + dist[y][z]
    BY DEF Closed
  <2>3. dist[x][z] <= m + o /\ m + o \in Nat
    BY <1>1, <2>1, <2>2
  <2>. QED BY <1>2, <2>3
<1>6. S \in ClosedLengths
  BY <1>3, <1>4, <1>5 DEF ClosedLengths
<1>. QED BY <1>2, <1>6 DEF IsLength

\* What a query with a # b prints (line 35) is the length of a walk from a to b
\* and no walk from a to b is shorter: the algorithm is correct.
THEOREM DistanceIsLeastLength ==
    Spec => [](pc = "query" =>
                 \A a, b \in Node :
                    /\ IsLength(a, b, dist[a][b])
                    /\ \A l \in Nat : IsLength(a, b, l) => dist[a][b] <= l)
<1>1. TypeOK /\ Closed /\ Sound =>
        (pc = "query" =>
           \A a, b \in Node :
              /\ IsLength(a, b, dist[a][b])
              /\ \A l \in Nat : IsLength(a, b, l) => dist[a][b] <= l)
  BY ClosedIsLeast DEF Sound, Least
<1>. QED BY <1>1, TypeCorrect, ClosedHolds, SoundInductive, PTL

-----------------------------------------------------------------------------
(* The same against the breadth-first layers of the graph.                   *)
(*                                                                           *)
(* The phase of pivot k starts from a matrix P and makes of it the matrix    *)
(* Through(P, k).  In between dist is a mixture of the two, and P itself is  *)
(* nowhere in the state: the invariant says that such a P exists.            *)

\* The matrix the phase of pivot l makes of P.
Through(P, l) ==
    [a \in Node |-> [b \in Node |->
        IF P[a][l] + P[l][b] < P[a][b] THEN P[a][l] + P[l][b] ELSE P[a][b]]]

\* The length P[a][b] is that of an arc, or one more than that of a way to a
\* neighbour of b that is an earlier pivot.
Extends(P, m, a, b) ==
    \/ P[a][b] = INF
    \/ P[a][b] = 1 /\ graph[a][b] = 1
    \/ \E c \in 0..(m - 1) : P[a][c] = P[a][b] - 1 /\ graph[c][b] = 1

\* P has been relaxed with the pivots below m.
Table(P, m) ==
    /\ P \in [Node -> [Node -> 1..INF]]
    /\ \A a, b \in Node : P[a][b] <= graph[a][b]
    /\ \A a, b \in Node : \A l \in 0..(m - 1) : P[a][b] <= P[a][l] + P[l][b]
    /\ \A a, b \in Node : Extends(P, m, a, b)

\* Where the loops are, and that outside them the table is complete.
InPhase ==
    /\ pc = "relax" =>
         \E P \in [Node -> [Node -> 1..INF]] :
            /\ Table(P, k)
            /\ \A a, b \in Node :
                 dist[a][b] = IF Visited(a, b) THEN Through(P, k)[a][b] ELSE P[a][b]
    /\ pc # "relax" => Table(dist, n)

\* A phase makes the table of its pivot's successor of the table of its pivot.
LEMMA ThroughIsTable ==
    ASSUME TypeOK, NEW m \in Node, NEW P, Table(P, m)
    PROVE  Table(Through(P, m), m + 1)
<1> DEFINE D(x, y) == P[x][y]
           New(x, y) == Through(P, m)[x][y]
           G(x, y) == graph[x][y]
<1>1. n \in Nat /\ m \in Nat /\ 0..(m - 1) \subseteq Node /\ 0..((m + 1) - 1) = 0..m
      /\ 0..m = 0..(m - 1) \cup {m}
  BY BoundsAssumption DEF TypeOK, Node
<1>2. \A x, y \in Node : D(x, y) \in 1..INF /\ G(x, y) \in {1, INF}
  BY DEF Table, TypeOK
<1>3. \A x, y \in Node : New(x, y) = IF D(x, m) + D(m, y) < D(x, y)
                                   THEN D(x, m) + D(m, y) ELSE D(x, y)
  BY DEF Through
<1>4. \A x, y \in Node : D(x, y) <= G(x, y)
  BY DEF Table
<1>5. \A x, y \in Node : \A l \in 0..(m - 1) : D(x, y) <= D(x, l) + D(l, y)
  BY DEF Table
<1>6. Through(P, m) \in [Node -> [Node -> 1..INF]]
  <2>1. \A x, y \in Node : (IF P[x][m] + P[m][y] < P[x][y]
                            THEN P[x][m] + P[m][y] ELSE P[x][y]) \in 1..INF
    BY <1>2, INFAssumption
  <2>. QED BY <2>1 DEF Through
<1>7. \A x, y \in Node : Extends(P, m, x, y)
  BY DEF Table
<1> HIDE DEF New
<1>8. \A x, y \in Node : New(x, y) \in 1..INF /\ New(x, y) <= D(x, y) /\ New(x, y) <= D(x, m) + D(m, y)
  BY <1>2, <1>3, INFAssumption
<1>9. \A x \in Node : New(m, x) = D(m, x) /\ New(x, m) = D(x, m)
  BY <1>2, <1>3, INFAssumption
<1>10. ASSUME NEW a \in Node, NEW b \in Node, NEW l \in 0..m
       PROVE  New(a, b) <= New(a, l) + New(l, b)
  <2>1. l \in Node
    BY <1>1
  <2>2. CASE l = m
    BY <1>8, <1>9, <2>2
  <2>3. CASE l \in 0..(m - 1)
    <3>1. /\ D(a, b) <= D(a, l) + D(l, b)
          /\ D(m, b) <= D(m, l) + D(l, b)
          /\ D(a, m) <= D(a, l) + D(l, m)
      BY <1>5, <2>3
    <3>2. /\ New(a, b) \in Nat /\ D(a, b) \in Nat /\ D(a, l) \in Nat /\ D(l, b) \in Nat
          /\ D(m, b) \in Nat /\ D(m, l) \in Nat /\ D(a, m) \in Nat /\ D(l, m) \in Nat
      BY <1>2, <1>8, <2>1, INFAssumption
    <3>3. New(a, b) <= D(a, b) /\ New(a, b) <= D(a, m) + D(m, b)
      BY <1>8
    <3>4. New(a, l) = D(a, l) \/ New(a, l) = D(a, m) + D(m, l)
      BY <1>3, <2>1
    <3>5. New(l, b) = D(l, b) \/ New(l, b) = D(l, m) + D(m, b)
      BY <1>3, <2>1
    <3> HIDE DEF D
    <3>. QED BY <3>1, <3>2, <3>3, <3>4, <3>5
  <2>. QED BY <1>1, <2>2, <2>3
<1>11. ASSUME NEW a \in Node, NEW b \in Node
       PROVE  \/ New(a, b) = INF
              \/ New(a, b) = 1 /\ G(a, b) = 1
              \/ \E c \in 0..m : New(a, c) = New(a, b) - 1 /\ G(c, b) = 1
  <2>1. CASE New(a, b) = D(a, b) /\ \E c \in 0..(m - 1) : D(a, c) = D(a, b) - 1 /\ G(c, b) = 1
    \* the way through c is still the shortest one: were c nearer now, through m,
    \* b would be nearer through m as well
    <3>1. PICK c \in 0..(m - 1) : D(a, c) = D(a, b) - 1 /\ G(c, b) = 1
      BY <2>1
    <3>2. c \in Node /\ c \in 0..m
      BY <1>1
    <3>3. D(m, b) <= D(m, c) + D(c, b) /\ D(c, b) <= 1
      BY <1>4, <1>5, <3>1, <3>2
    <3>4. New(a, c) <= D(a, c) /\ New(a, b) <= D(a, m) + D(m, b)
      BY <1>8, <3>2
    <3>5. New(a, c) = D(a, c) \/ New(a, c) = D(a, m) + D(m, c)
      BY <1>3, <3>2
    <3>6. /\ New(a, b) \in Nat /\ D(a, b) \in Nat /\ D(a, c) \in Nat /\ D(c, b) \in Nat
          /\ D(m, b) \in Nat /\ D(m, c) \in Nat /\ D(a, m) \in Nat
      BY <1>2, <1>8, <3>2, INFAssumption
    <3>7. New(a, c) = New(a, b) - 1
      <4> HIDE DEF D, G
      <4>. QED BY <2>1, <3>1, <3>3, <3>4, <3>5, <3>6
    <3>8. \E d \in 0..m : New(a, d) = New(a, b) - 1 /\ G(d, b) = 1
      <4> HIDE DEF D, G
      <4>. QED BY <3>1, <3>2, <3>7
    <3>. QED BY <3>8
  <2>2. CASE New(a, b) = D(a, b) /\ ~\E c \in 0..(m - 1) : D(a, c) = D(a, b) - 1 /\ G(c, b) = 1
    BY <1>7, <2>2 DEF Extends
  <2>3. CASE New(a, b) # D(a, b)
    <3>1. New(a, b) = D(a, m) + D(m, b) /\ New(a, b) < D(a, b)
      BY <1>2, <1>3, <2>3, INFAssumption
    <3>2. D(m, b) # INF
      BY <1>2, <3>1, INFAssumption
    <3>3. CASE D(m, b) = 1 /\ G(m, b) = 1
      <4>1. m \in 0..m /\ D(a, m) \in Nat /\ New(a, m) = D(a, m) /\ New(a, b) = D(a, m) + 1
        BY <1>1, <1>2, <1>9, <3>1, <3>3, INFAssumption
      <4>2. New(a, m) = New(a, b) - 1
        <5> HIDE DEF D, G
        <5>. QED BY <4>1
      <4>3. \E d \in 0..m : New(a, d) = New(a, b) - 1 /\ G(d, b) = 1
        <5> HIDE DEF D, G
        <5>. QED BY <3>3, <4>1, <4>2
      <4>. QED BY <4>3
    <3>4. CASE \E c \in 0..(m - 1) : D(m, c) = D(m, b) - 1 /\ G(c, b) = 1
      <4>1. PICK c \in 0..(m - 1) : D(m, c) = D(m, b) - 1 /\ G(c, b) = 1
        BY <3>4
      <4>2. c \in Node /\ c \in 0..m
        BY <1>1
      <4>3. D(a, b) <= D(a, c) + D(c, b) /\ D(c, b) <= 1
        BY <1>4, <1>5, <4>1, <4>2
      <4>4. New(a, c) <= D(a, m) + D(m, c)
        BY <1>8, <4>2
      <4>5. New(a, c) = D(a, c) \/ New(a, c) = D(a, m) + D(m, c)
        BY <1>3, <4>2
      <4>6. /\ New(a, b) \in Nat /\ D(a, b) \in Nat /\ D(a, c) \in Nat /\ D(c, b) \in Nat
            /\ D(m, b) \in Nat /\ D(m, c) \in Nat /\ D(a, m) \in Nat
        BY <1>2, <1>8, <4>2, INFAssumption
      <4>7. New(a, c) = New(a, b) - 1
        <5> HIDE DEF D, G
        <5>. QED BY <3>1, <4>1, <4>3, <4>4, <4>5, <4>6
      <4>8. \E d \in 0..m : New(a, d) = New(a, b) - 1 /\ G(d, b) = 1
        <5> HIDE DEF D, G
        <5>. QED BY <4>1, <4>2, <4>7
      <4>. QED BY <4>8
    <3>. QED BY <1>7, <3>2, <3>3, <3>4 DEF Extends
  <2>. QED BY <2>1, <2>2, <2>3
<1>12. \A a, b \in Node : New(a, b) <= G(a, b)
  BY <1>2, <1>4, <1>8, INFAssumption
<1>. QED BY <1>1, <1>6, <1>10, <1>11, <1>12 DEF Table, Extends, New

\* One turn of the innermost loop (lines 18-28) goes on with the phase, or ends
\* it and starts the next from the matrix it has made.
LEMMA InPhaseRelax ==
    ASSUME TypeOK, InPhase, Relax
    PROVE  InPhase'
<1>1. /\ pc = "relax" /\ Node' = Node /\ n' = n /\ graph' = graph /\ dist' = Relaxed
      /\ Advance
  BY DEF Relax, Node
<1>2. n \in Nat /\ k \in Node /\ i \in Node /\ j \in Node
  BY <1>1, BoundsAssumption DEF TypeOK
<1>3. PICK P :
         /\ Table(P, k)
         /\ \A a, b \in Node :
              dist[a][b] = IF Visited(a, b) THEN Through(P, k)[a][b] ELSE P[a][b]
  BY <1>1 DEF InPhase
<1> DEFINE New(a, b) == Through(P, k)[a][b]
<1>4. \A a, b \in Node :
        /\ P[a][b] \in 1..INF
        /\ New(a, b) = IF P[a][k] + P[k][b] < P[a][b] THEN P[a][k] + P[k][b] ELSE P[a][b]
  BY <1>3 DEF Table, Through
<1>5. \A a \in Node : /\ New(k, a) = P[k][a] /\ New(a, k) = P[a][k]
                      /\ dist[k][a] = P[k][a] /\ dist[a][k] = P[a][k]
  <2>1. \A a \in Node : New(k, a) = P[k][a] /\ New(a, k) = P[a][k]
    BY <1>2, <1>4, INFAssumption
  <2>. QED BY <1>2, <1>3, <2>1
<1>6. ~Visited(i, j)
  BY <1>2 DEF Visited, Node
<1>7. \A a, b \in Node :
        dist'[a][b] = IF Visited(a, b) \/ (a = i /\ b = j) THEN New(a, b) ELSE P[a][b]
  <2>1. dist[i][j] = P[i][j] /\ dist[i][k] = P[i][k] /\ dist[k][j] = P[k][j]
    BY <1>2, <1>3, <1>5, <1>6
  <2>2. Relaxed[i][j] = New(i, j)
    BY <1>1, <1>2, <1>4, <2>1, RelaxedCells
  <2>3. \A a, b \in Node : ~(a = i /\ b = j) => Relaxed[a][b] = dist[a][b]
    BY <1>1, RelaxedCells
  <2>. QED BY <1>1, <1>3, <2>2, <2>3
<1> HIDE DEF New
<1>8. CASE k' = k
  <2>1. pc' = "relax" /\ \A a, b \in Node : Visited(a, b)' <=> Visited(a, b) \/ (a = i /\ b = j)
    <3>1. \/ i' = i /\ j' = j + 1 /\ pc' = pc
          \/ j + 1 = n /\ i' = i + 1 /\ j' = 0 /\ pc' = pc
      BY <1>1, <1>2, <1>8 DEF Advance, Node
    <3>2. \A a \in Node : a \in Int /\ 0 <= a /\ a < n
      BY <1>2 DEF Node
    <3>3. CASE i' = i /\ j' = j + 1 /\ pc' = pc
      BY <1>1, <1>2, <3>2, <3>3 DEF Visited
    <3>4. CASE j + 1 = n /\ i' = i + 1 /\ j' = 0 /\ pc' = pc
      BY <1>1, <1>2, <3>2, <3>4 DEF Visited
    <3>. QED BY <1>1, <3>1, <3>3, <3>4
  <2>2. Table(P, k)' = Table(P, k) /\ Through(P, k)' = Through(P, k)
    BY <1>1, <1>3, <1>8 DEF Table, Extends, Through
  <2>3. P \in [Node -> [Node -> 1..INF]]
    BY <1>3 DEF Table
  <2>4. \A a, b \in Node :
          dist'[a][b] = IF Visited(a, b)' THEN Through(P, k)'[a][b] ELSE P[a][b]
    BY <1>7, <2>1, <2>2 DEF New
  <2>5. Table(P, k)'
    BY <2>2, <1>3
  <2>. QED BY <1>1, <2>1, <2>3, <2>4, <2>5 DEF InPhase
<1>9. CASE k' # k
  <2>1. i = n - 1 /\ j = n - 1 /\ k' = k + 1
    BY <1>1, <1>2, <1>9 DEF Advance, Node
  <2>2. \A a, b \in Node : Visited(a, b) \/ (a = i /\ b = j)
    BY <1>2, <2>1 DEF Visited, Node
  <2>3. dist' = Through(P, k)
    <3>1. dist' \in [Node -> [Node -> 1..INF]]
      BY <1>1, RelaxedCells
    <3>2. \A a, b \in Node : dist'[a][b] = Through(P, k)[a][b]
      BY <1>7, <2>2 DEF New
    <3>3. Through(P, k) = [a \in Node |-> [b \in Node |-> Through(P, k)[a][b]]]
      BY DEF Through
    <3>4. dist' = [a \in Node |-> [b \in Node |-> dist'[a][b]]]
      BY <3>1
    <3>. QED BY <3>2, <3>3, <3>4
  <2>4. Table(dist', k + 1)
    BY <1>2, <1>3, <2>3, ThroughIsTable
  <2>5. dist' \in [Node -> [Node -> 1..INF]]
    BY <2>4 DEF Table
  <2>6. CASE k + 1 < n
    <3>1. pc' = "relax" /\ i' = 0 /\ j' = 0
      BY <1>1, <1>2, <2>1, <2>6 DEF Advance, Node
    <3>2. \A a, b \in Node : ~Visited(a, b)'
      BY <1>2, <3>1 DEF Visited, Node
    <3>3. Table(dist, k)'
      BY <1>1, <2>1, <2>4 DEF Table, Extends
    <3>. QED BY <1>1, <2>5, <3>1, <3>2, <3>3 DEF InPhase
  <2>7. CASE k + 1 = n
    <3>1. pc' = "ask"
      BY <1>1, <1>2, <2>1, <2>7 DEF Advance, Node
    <3>2. Table(dist, n)'
      BY <1>1, <2>7, <2>4 DEF Table, Extends
    <3>. QED BY <3>1, <3>2 DEF InPhase
  <2>. QED BY <1>2, <2>6, <2>7 DEF Node
<1>. QED BY <1>8, <1>9

\* A matrix that has just been read (lines 40-56, 14-16) is the table of no pivot.
LEMMA InPhaseReadCase ==
    ASSUME ReadCase, TypeOK'
    PROVE  InPhase'
<1>1. dist' = graph' /\ pc' = "relax" /\ k' = 0 /\ i' = 0 /\ j' = 0
  BY DEF ReadCase
<1>2. dist' \in [Node' -> [Node' -> 1..INF]] /\ graph' \in [Node' -> [Node' -> {1, INF}]]
  BY DEF TypeOK
<1>3. \A a, b \in Node' : ~Visited(a, b)'
  <2>1. \A a \in Node' : a \in Int /\ a >= 0
    BY BoundsAssumption DEF TypeOK, Node
  <2>. QED BY <1>1, <2>1 DEF Visited
<1>4. 0..(k' - 1) = {}
  BY <1>1
<1>5. \A a, b \in Node' : Extends(dist, k, a, b)'
  BY <1>1, <1>2 DEF Extends
<1>6. \A a, b \in Node' : dist'[a][b] <= graph'[a][b]
  BY <1>1, <1>2, INFAssumption
<1>7. Table(dist, k)'
  BY <1>2, <1>4, <1>5, <1>6 DEF Table
<1>. QED BY <1>1, <1>2, <1>3, <1>7 DEF InPhase

\* In every reachable state some matrix tells how far the phase is.
LEMMA InPhaseInductive == Spec => []InPhase
<1>1. Init => InPhase
  <2>. SUFFICES ASSUME Init PROVE InPhase
    OBVIOUS
  <2>1. Node = {} /\ pc = "read" /\ dist = [x \in {} |-> [y \in {} |-> INF]]
    BY DEF Init, Node
  <2>. QED BY <2>1 DEF InPhase, Table
<1>2. TypeOK /\ TypeOK' /\ InPhase /\ [Next]_vars => InPhase'
  <2>. SUFFICES ASSUME TypeOK, TypeOK', InPhase, [Next]_vars PROVE InPhase'
    OBVIOUS
  <2>1. CASE ReadCase
    BY <2>1, InPhaseReadCase
  <2>2. CASE Relax
    BY <2>2, InPhaseRelax
  <2>3. CASE Finish \/ ReadQueryCount \/ Query \/ Return
    <3>1. pc # "relax" /\ pc' # "relax" /\ UNCHANGED <<n, graph, dist>>
      BY <2>3 DEF Finish, ReadQueryCount, Query, Return
    <3>. QED BY <3>1 DEF InPhase, Table, Extends, Node
  <2>4. CASE Terminated \/ UNCHANGED vars
    <3>1. UNCHANGED vars
      BY <2>4 DEF Terminated
    <3>2. Node' = Node /\ \A a, b \in Node : Visited(a, b)' = Visited(a, b)
      BY <3>1 DEF vars, Node, Visited
    <3>. QED BY <3>1, <3>2 DEF vars, InPhase, Table, Extends, Through
  <2>. QED BY <2>1, <2>2, <2>3, <2>4 DEF Next
<1>. QED BY <1>1, <1>2, TypeCorrect, PTL DEF Spec

\* The layers are what their recursive definition says of them.
LEMMA LayersDefined ==
    ASSUME TypeOK
    PROVE  /\ \A a \in Node : Walks[0][a] = {a}
           /\ \A m \in 1..n : \A a \in Node :
                Walks[m][a] = {b \in Node : \E c \in Walks[m - 1][a] : graph[c][b] = 1}
           /\ \A m \in 0..n : \A a \in Node : Walks[m][a] \subseteq Node
<1> DEFINE Alone == [a \in Node |-> {a}]
           After(w) == [a \in Node |-> {b \in Node : \E c \in w[a] : graph[c][b] = 1}]
           D(W) == [m \in 0..n |-> IF m = 0 THEN Alone ELSE After(W[m - 1])]
           A == CHOOSE W : W = D(W)
           Sets == [Node -> SUBSET Node]
           Step == [m \in 1..n |-> [w \in Sets |-> After(w)]]
<1>1. n \in Nat
  BY BoundsAssumption DEF TypeOK
<1>2. Alone \in Sets /\ \A w : After(w) \in Sets
  OBVIOUS
<1>3. Step \in [1..n -> [Sets -> Sets]]
  BY <1>2
<1>4. \A m \in 1..n : \A w \in Sets : Step[m][w] = After(w)
  OBVIOUS
<1>5. Walks = A
  BY DEF Walks
<1> HIDE DEF Alone, After, Sets, Step
<1>6. PICK f : /\ \A m \in 0..n : f[m] \in Sets
               /\ f[0] = Alone /\ \A m \in 1..n : f[m] = Step[m][f[m - 1]]
  BY <1>1, <1>2, <1>3, IterationExists
<1> DEFINE F == [m \in 0..n |-> f[m]]
<1>7. F = D(F)
  <2>1. ASSUME NEW m \in 0..n PROVE F[m] = IF m = 0 THEN Alone ELSE After(F[m - 1])
    <3>1. CASE m = 0
      BY <1>6, <3>1
    <3>2. CASE m # 0
      <4>1. m \in 1..n /\ m - 1 \in 0..n
        BY <1>1, <3>2
      <4>2. f[m] = After(f[m - 1])
        BY <1>4, <1>6, <4>1
      <4>. QED BY <3>2, <4>1, <4>2
    <3>. QED BY <3>1, <3>2
  <2>. QED BY <2>1
<1>8. A = D(A)
  <2> HIDE DEF F, D
  <2>. QED BY <1>7
<1> HIDE DEF A
<1>9. A[0] = Alone /\ \A m \in 1..n : A[m] = After(A[m - 1])
  <2>1. \A m \in 0..n : A[m] = IF m = 0 THEN Alone ELSE After(A[m - 1])
    BY <1>8
  <2>2. 0 \in 0..n /\ \A m \in 1..n : m \in 0..n /\ m # 0
    BY <1>1
  <2>. QED BY <2>1, <2>2
<1>10. \A m \in 0..n : A[m] \in Sets
  <2>1. \A m \in 0..n : m = 0 \/ m \in 1..n
    BY <1>1
  <2>. QED BY <1>2, <1>9, <2>1
<1>11. \A m \in 0..n : \A a \in Node : A[m][a] \subseteq Node
  BY <1>10 DEF Sets
<1>12. \A a \in Node : A[0][a] = {a}
  BY <1>9 DEF Alone
<1>13. ASSUME NEW m \in 1..n, NEW a \in Node
       PROVE  A[m][a] = {b \in Node : \E c \in A[m - 1][a] : graph[c][b] = 1}
  BY <1>9 DEF After
<1>. QED BY <1>5, <1>11, <1>12, <1>13

\* An entry below INF is the number of a layer, one of the first n: along its
\* shortest way the entries take every value from 1 on, each at another node.
LEMMA EntryIsLayer ==
    ASSUME TypeOK, NEW m \in 0..n, NEW P, Table(P, m),
           NEW a \in Node, NEW b \in Node, P[a][b] # INF
    PROVE  P[a][b] \in 1..n /\ b \in Walks[P[a][b]][a]
<1>1. n \in Nat /\ 0..(m - 1) \subseteq Node
  BY BoundsAssumption DEF TypeOK, Node
<1>2. \A c \in Node : P[a][c] \in 1..INF
  BY DEF Table
<1>3. \A c \in Node : Extends(P, m, a, c)
  BY DEF Table
<1>4. ASSUME NEW c \in Node, P[a][c] # INF, P[a][c] # 1
      PROVE  \E e \in Node : P[a][e] = P[a][c] - 1 /\ graph[e][c] = 1
  BY <1>1, <1>3, <1>4 DEF Extends
<1> DEFINE Row == {P[a][c] : c \in Node}
           d == P[a][b]
           S == {l \in Nat : l < d => d - l \in Row}
<1>5. d \in Nat /\ d > 0 /\ d < INF
  BY <1>2, INFAssumption
<1>6. \A l \in Nat : l \in S
  <2>1. 0 \in S
    BY <1>5
  <2>2. ASSUME NEW l \in S PROVE l + 1 \in S
    <3>. SUFFICES ASSUME l + 1 < d PROVE d - (l + 1) \in Row
      OBVIOUS
    <3>1. PICK c \in Node : P[a][c] = d - l
      BY <1>5
    <3>2. P[a][c] # INF /\ P[a][c] # 1
      BY <1>5, <3>1, INFAssumption
    <3>3. PICK e \in Node : P[a][e] = P[a][c] - 1
      BY <1>4, <3>2
    <3>4. P[a][e] = d - (l + 1)
      BY <1>5, <3>1, <3>3
    <3>. QED BY <3>4
  <2>3. S \in SUBSET Nat
    OBVIOUS
  <2> HIDE DEF S
  <2>. QED BY <2>1, <2>2, <2>3, NatClosed
<1>7. 1..d \subseteq Row
  <2>1. ASSUME NEW o \in 1..d PROVE o \in Row
    <3>1. d - o \in Nat /\ d - o < d /\ d - (d - o) = o
      BY <1>5
    <3>. QED BY <1>6, <3>1
  <2> HIDE DEF Row
  <2>. QED BY <2>1
<1>8. d <= n
  <2>1. IsFiniteSet(Node) /\ Cardinality(Node) = n
    BY ONLY <1>1, IntervalSize DEF Node
  <2>2. IsFiniteSet(Row) /\ Cardinality(Row) <= Cardinality(Node)
    <3>1. DEFINE g == [c \in Node |-> P[a][c]]
    <3>2. g \in Surjection(Node, Row)
      BY DEF Surjection
    <3>. QED BY <2>1, <3>2, FS_Surjection
  <2>3. Cardinality(1..d) <= Cardinality(Row)
    BY <1>7, <2>2, FS_Subset
  <2>4. Cardinality(1..d) = d
    BY ONLY <1>5, IntervalSize
  <2>5. Cardinality(Row) \in Nat
    BY <2>2, FS_CardinalityType
  <2> HIDE DEF Row, d
  <2>. QED BY <1>1, <1>5, <2>1, <2>2, <2>3, <2>4, <2>5
<1> DEFINE T == {l \in Nat : \A c \in Node : P[a][c] = l + 1 /\ l + 1 <= d => c \in Walks[l + 1][a]}
<1>9. \A l \in Nat : l \in T
  <2>1. 0 \in T
    <3>. SUFFICES ASSUME NEW c \in Node, P[a][c] = 1 PROVE c \in Walks[1][a]
      OBVIOUS
    <3>1. graph[a][c] = 1
      <4>1. P[a][c] # INF /\ ~\E e \in 0..(m - 1) : P[a][e] = P[a][c] - 1
        BY <1>1, <1>2, INFAssumption
      <4>. QED BY <1>3, <4>1 DEF Extends
    <3>2. 1 \in 1..n /\ 1 - 1 = 0
      BY <1>1, <1>5, <1>8
    <3>. QED BY <3>1, <3>2, LayersDefined
  <2>2. ASSUME NEW l \in T PROVE l + 1 \in T
    <3>. SUFFICES ASSUME NEW c \in Node, P[a][c] = l + 2, l + 2 <= d PROVE c \in Walks[l + 2][a]
      OBVIOUS
    <3>1. PICK e \in Node : P[a][e] = l + 1 /\ graph[e][c] = 1
      BY <1>4, <1>5
    <3>2. e \in Walks[l + 1][a]
      BY <1>5, <3>1
    <3>3. l + 2 \in 1..n /\ (l + 2) - 1 = l + 1
      BY <1>1, <1>5, <1>8
    <3>4. c \in Walks[l + 2][a] <=> \E x \in Walks[l + 1][a] : graph[x][c] = 1
      BY <3>3, LayersDefined
    <3>. QED BY <3>1, <3>2, <3>4
  <2>3. T \in SUBSET Nat
    OBVIOUS
  <2> HIDE DEF T
  <2>. QED BY <2>1, <2>2, <2>3, NatClosed
<1>10. b \in Walks[d][a]
  <2>1. d - 1 \in Nat /\ (d - 1) + 1 = d
    BY <1>5
  <2>. QED BY <1>9, <2>1
<1>. QED BY <1>1, <1>5, <1>8, <1>10

\* No node is in a layer before its entry.
LEMMA LayerIsNoShorter ==
    ASSUME TypeOK, NEW P, Table(P, n), NEW a \in Node, NEW m \in 1..n, NEW b \in Walks[m][a]
    PROVE  b \in Node /\ P[a][b] <= m
<1>1. n \in Nat /\ 0..(n - 1) = Node
  BY BoundsAssumption DEF TypeOK, Node
<1>2. \A x, y \in Node : P[x][y] \in Nat /\ graph[x][y] \in Nat /\ P[x][y] <= graph[x][y]
  <2>1. \A x, y \in Node : P[x][y] \in 1..INF /\ P[x][y] <= graph[x][y]
    BY DEF Table
  <2>2. \A x, y \in Node : graph[x][y] \in {1, INF}
    BY DEF TypeOK
  <2>. QED BY <2>1, <2>2, INFAssumption
<1> DEFINE S == {l \in Nat : l + 1 <= n => \A c \in Walks[l + 1][a] : P[a][c] <= l + 1}
<1>3. 0 \in S
  <2>. SUFFICES ASSUME 1 <= n, NEW c \in Walks[1][a] PROVE P[a][c] <= 1
    OBVIOUS
  <2>1. 1 \in 1..n /\ 1 - 1 = 0
    BY <1>1
  <2>2. c \in Node /\ graph[a][c] = 1
    BY <2>1, LayersDefined
  <2>. QED BY <1>2, <2>2
<1>4. ASSUME NEW l \in S PROVE l + 1 \in S
  <2>. SUFFICES ASSUME l + 2 <= n, NEW c \in Walks[l + 2][a] PROVE P[a][c] <= l + 2
    OBVIOUS
  <2>1. l + 2 \in 1..n /\ (l + 2) - 1 = l + 1 /\ l + 1 \in 0..n
    BY <1>1
  <2>2. c \in Node /\ \E x \in Walks[l + 1][a] : graph[x][c] = 1
    BY <2>1, LayersDefined
  <2>3. PICK x \in Walks[l + 1][a] : graph[x][c] = 1
    BY <2>2
  <2>4. x \in Node
    BY <2>1, LayersDefined
  <2>5. P[a][x] <= l + 1
    BY <2>1
  <2>6. P[a][c] <= P[a][x] + P[x][c]
    BY <1>1, <2>2, <2>4 DEF Table
  <2>. QED BY <1>2, <2>2, <2>3, <2>4, <2>5, <2>6
<1>5. m - 1 \in Nat /\ (m - 1) + 1 = m /\ m \in 0..n
  BY <1>1
<1>6. m - 1 \in S
  <2>1. S \in SUBSET Nat
    OBVIOUS
  <2> HIDE DEF S
  <2>. QED BY <1>3, <1>4, <1>5, <2>1, NatClosed
<1>7. b \in Node
  BY <1>5, LayersDefined
<1>. QED BY <1>1, <1>5, <1>6, <1>7

\* In every state every entry is INF or the length of a walk: relaxing a matrix
\* that is half of this phase and half of the last invents nothing (line 25).
THEOREM DistanceIsRealisedHolds == Spec => []DistanceIsRealised
<1>1. TypeOK /\ InPhase => DistanceIsRealised
  <2>. SUFFICES ASSUME TypeOK, InPhase, NEW a \in Node, NEW b \in Node, dist[a][b] # INF
                PROVE  dist[a][b] \in WalkLengths[a][b]
    BY DEF DistanceIsRealised
  <2>1. n \in Nat
    BY BoundsAssumption DEF TypeOK
  <2>2. dist[a][b] \in 1..n /\ b \in Walks[dist[a][b]][a]
    <3>1. CASE pc # "relax"
      <4>1. Table(dist, n) /\ n \in 0..n
        BY <2>1, <3>1 DEF InPhase
      <4>. QED BY <4>1, EntryIsLayer
    <3>2. CASE pc = "relax"
      <4>1. PICK P :
               /\ Table(P, k)
               /\ \A x, y \in Node :
                    dist[x][y] = IF Visited(x, y) THEN Through(P, k)[x][y] ELSE P[x][y]
        BY <3>2 DEF InPhase
      <4>2. k \in Node /\ k \in 0..n /\ k + 1 \in 0..n
        BY <2>1, <3>2 DEF TypeOK, Node
      <4>3. Table(Through(P, k), k + 1)
        BY <4>1, <4>2, ThroughIsTable
      <4>4. CASE Visited(a, b)
        BY <4>1, <4>2, <4>3, <4>4, EntryIsLayer
      <4>5. CASE ~Visited(a, b)
        BY <4>1, <4>2, <4>5, EntryIsLayer
      <4>. QED BY <4>4, <4>5
    <3>. QED BY <3>1, <3>2
  <2>3. WalkLengths[a][b] = {l \in 1..n : b \in Walks[l][a]}
    BY DEF WalkLengths
  <2>. QED BY <2>2, <2>3
<1>. QED BY <1>1, TypeCorrect, InPhaseInductive, PTL

\* What is printed is the answer of the table it is printed from.
PrintedIsAnswer ==
    printed # NothingPrinted =>
        /\ pc = "query"
        /\ printed.a \in Node /\ printed.b \in Node
        /\ printed.value = Answer(printed.a, printed.b)

\* The line printed stands as long as the call that printed it.
LEMMA PrintedIsAnswerInductive == Spec => []PrintedIsAnswer
<1>1. Init => PrintedIsAnswer
  BY DEF Init, PrintedIsAnswer
<1>2. PrintedIsAnswer /\ [Next]_vars => PrintedIsAnswer'
  <2>. SUFFICES ASSUME PrintedIsAnswer, [Next]_vars PROVE PrintedIsAnswer'
    OBVIOUS
  <2>1. CASE Query
    <3>1. PICK a \in Node, b \in Node : printed' = [a |-> a, b |-> b, value |-> Answer(a, b)]
      BY <2>1 DEF Query
    <3>2. Node' = Node /\ Answer(a, b)' = Answer(a, b) /\ pc' = "query"
      BY <2>1 DEF Query, Node, Answer
    <3>. QED BY <3>1, <3>2 DEF PrintedIsAnswer
  <2>2. CASE ReadCase \/ Finish \/ Relax \/ ReadQueryCount
    BY <2>2 DEF ReadCase, Finish, Relax, ReadQueryCount, PrintedIsAnswer, NothingPrinted
  <2>3. CASE Return
    BY <2>3 DEF Return, PrintedIsAnswer, NothingPrinted
  <2>4. CASE Terminated \/ UNCHANGED vars
    BY <2>4 DEF Terminated, vars, PrintedIsAnswer, NothingPrinted, Node, Answer
  <2>. QED BY <2>1, <2>2, <2>3, <2>4 DEF Next
<1>. QED BY <1>1, <1>2, PTL DEF Spec

\* The complete table holds the lengths of the shortest walks.
LEMMA TableIsShortest ==
    ASSUME TypeOK, Table(dist, n), NEW a \in Node, NEW b \in Node
    PROVE  dist[a][b] = Shortest(a, b)
<1> DEFINE L == WalkLengths[a][b]
<1>1. n \in Nat /\ n <= MaxN /\ n \in 0..n
  BY BoundsAssumption DEF TypeOK
<1>2. L = {l \in 1..n : b \in Walks[l][a]}
  BY DEF WalkLengths
<1>3. Shortest(a, b) = IF L = {} THEN INF ELSE CHOOSE m \in L : \A o \in L : m <= o
  BY DEF Shortest
<1> HIDE DEF L
<1>4. dist[a][b] \in Nat /\ \A o \in L : o \in 1..n /\ dist[a][b] <= o
  BY <1>2, LayerIsNoShorter, INFAssumption DEF TypeOK
<1>5. CASE dist[a][b] = INF
  <2>1. L = {}
    BY <1>1, <1>4, <1>5, BoundsAssumption, INFAssumption, INFIsFar
  <2>. QED BY <1>3, <1>5, <2>1
<1>6. CASE dist[a][b] # INF
  <2>1. dist[a][b] \in L
    BY <1>1, <1>2, <1>6, EntryIsLayer
  <2>2. \A m \in L : (\A o \in L : m <= o) => m = dist[a][b]
    BY <1>1, <1>4, <2>1
  <2>3. (CHOOSE m \in L : \A o \in L : m <= o) = dist[a][b]
    BY <1>4, <2>1, <2>2
  <2>. QED BY <1>3, <2>1, <2>3
<1>. QED BY <1>5, <1>6

\* A query is answered with the number of edges of a shortest path in the graph
\* read for this test case, with 0 for a = b and INF for no path (lines 33-35).
THEOREM PrintedIsShortestHolds == Spec => []PrintedIsShortest
<1>1. TypeOK /\ InPhase /\ PrintedIsAnswer => PrintedIsShortest
  <2>. SUFFICES ASSUME TypeOK, InPhase, PrintedIsAnswer, printed # NothingPrinted
                PROVE  printed.value = IF printed.a = printed.b THEN 0
                                       ELSE Shortest(printed.a, printed.b)
    BY DEF PrintedIsShortest
  <2>1. /\ pc = "query" /\ printed.a \in Node /\ printed.b \in Node
        /\ printed.value = Answer(printed.a, printed.b)
    BY DEF PrintedIsAnswer
  <2>2. Table(dist, n)
    BY <2>1 DEF InPhase
  <2>3. dist[printed.a][printed.b] = Shortest(printed.a, printed.b)
    BY <2>1, <2>2, TableIsShortest
  <2>. QED BY <2>1, <2>3 DEF Answer
<1>. QED BY <1>1, TypeCorrect, InPhaseInductive, PrintedIsAnswerInductive, PTL

-----------------------------------------------------------------------------
(* The greatest and the least element of a set of numbers. *)

\* A nonempty set of numbers up to m has a greatest element, which Max names.
LEMMA MaxIsGreatest ==
    ASSUME NEW m \in Nat, NEW S \in SUBSET ((-1)..m), S # {}
    PROVE  Max(S) \in S /\ \A d \in S : d <= Max(S)
<1> DEFINE R == {m - d : d \in S}
<1>1. R \in SUBSET Nat /\ R # {}
  <2>1. \A d \in S : m - d \in Nat
    OBVIOUS
  <2>. QED BY <2>1
<1>2. PICK r \in R : \A o \in R : r <= o
  <2> HIDE DEF R
  <2>. QED BY <1>1, NatMin
<1>3. PICK g \in S : r = m - g
  OBVIOUS
<1>4. \A d \in S : g >= d
  <2>. SUFFICES ASSUME NEW d \in S PROVE g >= d
    OBVIOUS
  <2>1. m - d \in R
    OBVIOUS
  <2>2. r <= m - d
    BY <1>2, <2>1
  <2>. QED BY <1>3, <2>2
<1>. QED BY <1>4 DEF Max

\* The same of the least element, which Min names.
LEMMA MinIsLeast ==
    ASSUME NEW S \in SUBSET Nat, S # {}
    PROVE  Min(S) \in S /\ \A d \in S : Min(S) <= d
<1>1. PICK g \in S : \A d \in S : g <= d
  BY NatMin
<1>. QED BY <1>1 DEF Min

-----------------------------------------------------------------------------
(* SubstringSearch: borders of what has been read. *)

\* The string s ends with the first l characters of the pattern.
Fits(s, l) == l <= Len(s) /\ \A x \in 1..l : pat[x] = s[Len(s) - l + x]

\* IsSuffix, which compares reversed strings, in terms of places.
LEMMA SuffixFits ==
    ASSUME pat \in Seq(Alphabet), NEW s \in Seq(Alphabet), NEW l \in 0..M
    PROVE  IsSuffix(SubSeq(pat, 1, l), s) <=> Fits(s, l)
<1> DEFINE p == SubSeq(pat, 1, l)
           rp == Reverse(p)
           rs == Reverse(s)
<1>1. p \in Seq(Alphabet) /\ Len(p) = l /\ \A x \in 1..l : p[x] = pat[x]
  BY DEF M
<1>2. rp \in Seq(Alphabet) /\ Len(rp) = l /\ \A x \in 1..l : rp[x] = p[(l - x) + 1]
  BY <1>1 DEF Reverse
<1>3. rs \in Seq(Alphabet) /\ Len(rs) = Len(s) /\ \A x \in 1..Len(s) : rs[x] = s[(Len(s) - x) + 1]
  BY DEF Reverse
<1>4. IsSuffix(p, s) <=> l <= Len(s) /\ SubSeq(rp, 1, l) = SubSeq(rs, 1, l)
  BY <1>2, <1>3 DEF IsSuffix, IsPrefix
<1> HIDE DEF p, rp, rs
<1>5. l <= Len(s) => (SubSeq(rp, 1, l) = SubSeq(rs, 1, l) <=> \A x \in 1..l : rp[x] = rs[x])
  <2>. SUFFICES ASSUME l <= Len(s)
                PROVE  SubSeq(rp, 1, l) = SubSeq(rs, 1, l) <=> \A x \in 1..l : rp[x] = rs[x]
    OBVIOUS
  <2>1. /\ SubSeq(rp, 1, l) \in Seq(Alphabet) /\ Len(SubSeq(rp, 1, l)) = l
        /\ \A x \in 1..l : SubSeq(rp, 1, l)[x] = rp[x]
    BY <1>2
  <2>2. /\ SubSeq(rs, 1, l) \in Seq(Alphabet) /\ Len(SubSeq(rs, 1, l)) = l
        /\ \A x \in 1..l : SubSeq(rs, 1, l)[x] = rs[x]
    BY <1>3
  <2>. QED BY <2>1, <2>2
<1>6. l <= Len(s) => ((\A x \in 1..l : rp[x] = rs[x]) <=> \A x \in 1..l : pat[x] = s[Len(s) - l + x])
  <2>. SUFFICES ASSUME l <= Len(s)
                PROVE  (\A x \in 1..l : rp[x] = rs[x]) <=> \A x \in 1..l : pat[x] = s[Len(s) - l + x]
    OBVIOUS
  <2>1. \A x \in 1..l : rp[x] = pat[(l - x) + 1] /\ rs[x] = s[Len(s) - l + ((l - x) + 1)]
    <3>. SUFFICES ASSUME NEW x \in 1..l
                  PROVE  rp[x] = pat[(l - x) + 1] /\ rs[x] = s[Len(s) - l + ((l - x) + 1)]
      OBVIOUS
    <3>1. (l - x) + 1 \in 1..l /\ (Len(s) - x) + 1 = Len(s) - l + ((l - x) + 1) /\ x \in 1..Len(s)
      OBVIOUS
    <3>2. rp[x] = p[(l - x) + 1] /\ p[(l - x) + 1] = pat[(l - x) + 1]
      BY <1>1, <1>2, <3>1
    <3>3. rs[x] = s[(Len(s) - x) + 1]
      BY <1>3, <3>1
    <3>. QED BY <3>1, <3>2, <3>3
  <2>2. ASSUME \A x \in 1..l : rp[x] = rs[x], NEW x \in 1..l
        PROVE  pat[x] = s[Len(s) - l + x]
    <3>1. (l - x) + 1 \in 1..l /\ (l - ((l - x) + 1)) + 1 = x
      OBVIOUS
    <3>. QED BY <2>1, <2>2, <3>1
  <2>3. ASSUME \A x \in 1..l : pat[x] = s[Len(s) - l + x], NEW x \in 1..l
        PROVE  rp[x] = rs[x]
    <3>1. (l - x) + 1 \in 1..l
      OBVIOUS
    <3>. QED BY <2>1, <2>3, <3>1
  <2>. QED BY <2>2, <2>3
<1>. QED BY <1>4, <1>5, <1>6 DEF Fits, p

\* The border of a string is the greatest length that fits.
LEMMA BorderIsGreatest ==
    ASSUME pat \in Seq(Alphabet), NEW s \in Seq(Alphabet)
    PROVE  /\ Border(s) \in 0..M /\ Fits(s, Border(s))
           /\ \A l \in 0..M : Fits(s, l) => l <= Border(s)
<1> DEFINE L == {l \in 0..M : IsSuffix(SubSeq(pat, 1, l), s)}
<1>1. M \in Nat
  BY DEF M
<1>2. L = {l \in 0..M : Fits(s, l)}
  BY SuffixFits
<1>3. 0 \in L
  BY <1>1, <1>2 DEF Fits
<1>4. L \in SUBSET ((-1)..M)
  BY <1>1
<1>5. Border(s) = Max(L)
  BY DEF Border
<1> HIDE DEF L
<1>6. Max(L) \in L /\ \A d \in L : d <= Max(L)
  BY <1>1, <1>3, <1>4, MaxIsGreatest
<1>. QED BY <1>2, <1>5, <1>6

\* Whatever is such a length is the border.
LEMMA BorderIs ==
    ASSUME pat \in Seq(Alphabet), NEW s \in Seq(Alphabet), NEW b \in 0..M,
           Fits(s, b), \A l \in 0..M : Fits(s, l) => l <= b
    PROVE  Border(s) = b
<1>1. M \in Nat
  BY DEF M
<1>. QED BY <1>1, BorderIsGreatest

\* Strings that the same lengths fit have the same border.
LEMMA BorderSame ==
    ASSUME pat \in Seq(Alphabet), NEW s \in Seq(Alphabet), NEW u \in Seq(Alphabet),
           \A l \in 0..M : Fits(s, l) <=> Fits(u, l)
    PROVE  Border(s) = Border(u)
BY BorderIs, BorderIsGreatest

\* A nonempty beginning fits a string with one more character if its last
\* character is that one, and the rest fits the string.
LEMMA FitsAppend ==
    ASSUME pat \in Seq(Alphabet), NEW s \in Seq(Alphabet), NEW c \in Alphabet, NEW l \in 1..M
    PROVE  Fits(Append(s, c), l) <=> pat[l] = c /\ Fits(s, l - 1)
<1> DEFINE u == Append(s, c)
<1>1. /\ M \in Nat /\ Len(s) \in Nat /\ Len(u) = Len(s) + 1 /\ u[Len(s) + 1] = c
      /\ \A x \in 1..Len(s) : u[x] = s[x]
  BY DEF M
<1> HIDE DEF u
<1>2. CASE l > Len(s) + 1
  BY <1>1, <1>2 DEF Fits
<1>3. CASE l <= Len(s) + 1
  <2>1. Fits(u, l) <=> \A x \in 1..l : pat[x] = u[Len(s) + 1 - l + x]
    BY <1>1, <1>3 DEF Fits
  <2>2. Fits(s, l - 1) <=> \A x \in 1..(l - 1) : pat[x] = s[Len(s) - (l - 1) + x]
    BY <1>1, <1>3 DEF Fits
  <2>3. \A x \in 1..(l - 1) : u[Len(s) + 1 - l + x] = s[Len(s) - (l - 1) + x]
    <3>1. \A x \in 1..(l - 1) : /\ Len(s) + 1 - l + x \in 1..Len(s)
                                /\ Len(s) + 1 - l + x = Len(s) - (l - 1) + x
      BY <1>1, <1>3
    <3>. QED BY <1>1, <3>1
  <2>4. Len(s) + 1 - l + l = Len(s) + 1
    BY <1>1
  <2>5. (\A x \in 1..l : pat[x] = u[Len(s) + 1 - l + x]) <=>
          /\ pat[l] = c
          /\ \A x \in 1..(l - 1) : pat[x] = u[Len(s) + 1 - l + x]
    <3>1. 1..l = 1..(l - 1) \cup {l}
      BY <1>1
    <3>2. u[Len(s) + 1 - l + l] = c
      BY <1>1, <2>4
    <3> HIDE DEF u
    <3>. QED BY <3>1, <3>2
  <2>6. (\A x \in 1..(l - 1) : pat[x] = u[Len(s) + 1 - l + x]) <=> Fits(s, l - 1)
    BY <2>2, <2>3
  <2>. QED BY <2>1, <2>5, <2>6 DEF u
<1>. QED BY <1>1, <1>2, <1>3

\* What the border of a string does not hold has no say in the border of the
\* next: the state of the automaton is enough to go on from.
LEMMA BorderStep ==
    ASSUME pat \in Seq(Alphabet), NEW s \in Seq(Alphabet), NEW c \in Alphabet
    PROVE  Border(Append(SubSeq(pat, 1, Border(s)), c)) = Border(Append(s, c))
<1> DEFINE b == Border(s)
           p == SubSeq(pat, 1, b)
<1>1. /\ M \in Nat /\ Len(s) \in Nat /\ b \in 0..M /\ Fits(s, b)
      /\ \A l \in 0..M : Fits(s, l) => l <= b
  BY BorderIsGreatest DEF M
<1> HIDE DEF b
<1>2. p \in Seq(Alphabet) /\ Len(p) = b /\ \A x \in 1..b : p[x] = pat[x]
  BY <1>1 DEF M
<1>3. Append(p, c) \in Seq(Alphabet) /\ Append(s, c) \in Seq(Alphabet)
  BY <1>2
<1> HIDE DEF p
<1>4. ASSUME NEW m \in 0..M PROVE Fits(p, m) <=> Fits(s, m)
  <2>1. CASE m > b
    BY <1>1, <1>2, <2>1 DEF Fits
  <2>2. CASE m <= b
    <3>1. b <= Len(s) /\ \A x \in 1..b : pat[x] = s[Len(s) - b + x]
      BY <1>1 DEF Fits
    <3>2. \A x \in 1..m : /\ b - m + x \in 1..b
                          /\ Len(s) - b + (b - m + x) = Len(s) - m + x
      BY <1>1, <2>2
    <3>3. \A x \in 1..m : p[b - m + x] = s[Len(s) - m + x]
      BY <1>2, <3>1, <3>2
    <3>4. m <= Len(s)
      BY <1>1, <2>2, <3>1
    <3>. QED BY <1>2, <2>2, <3>3, <3>4 DEF Fits
  <2>. QED BY <1>1, <2>1, <2>2
<1>5. ASSUME NEW l \in 0..M PROVE Fits(Append(p, c), l) <=> Fits(Append(s, c), l)
  <2>1. CASE l = 0
    BY <1>3, <2>1 DEF Fits
  <2>2. CASE l # 0
    <3>1. l \in 1..M /\ l - 1 \in 0..M
      BY <1>1, <2>2
    <3>. QED BY <1>2, <1>4, <3>1, FitsAppend
  <2>. QED BY <2>1, <2>2
<1>6. Border(Append(p, c)) = Border(Append(s, c))
  BY <1>3, <1>5, BorderSame
<1>. QED BY <1>6 DEF p, b

-----------------------------------------------------------------------------
(* The run of the searches. *)

\* What the automaton's search returns.
FoundByKMP == IF Occurrences = {} THEN N ELSE Min(Occurrences) + M - N

\* The automaton has come to the border of what it has read, and an occurrence
\* ends nowhere before.
Scanned ==
    searchPc = "scan" =>
        /\ at <= N /\ state = Border(SubSeq(txt, 1, at))
        /\ \A p \in Occurrences : at <= p + M

\* No shift has passed an occurrence.
Aligned ==
    searchPc = "align" => answer = <<FoundByKMP>> /\ \A p \in Occurrences : at <= p

\* What the two searches have returned: KMP's is the end of what it found, counted
\* back from the end of the text.
Answered ==
    searchPc = "done" =>
        answer = IF Occurrences = {} THEN <<N, N>>
                 ELSE <<Min(Occurrences) + M - N, Min(Occurrences)>>

SearchIInv ==
    /\ SearchTypeOK
    /\ searchPc = "column" => state >= 1
    /\ AutomatonFindsBorders
    /\ Scanned
    /\ Aligned
    /\ Answered

\* Patterns and texts are strings, and a pattern has a first character.
LEMMA Strings ==
    ASSUME SearchTypeOK, searchPc # "args"
    PROVE  /\ pat \in Seq(Alphabet) /\ M \in Nat \ {0} /\ \A p \in 1..M : pat[p] \in Alphabet
           /\ txt \in Seq(Alphabet) /\ N \in Nat /\ \A p \in 1..N : txt[p] \in Alphabet
<1>1. pat \in Seq(Alphabet) /\ pat # <<>> /\ txt \in Seq(Alphabet)
  BY PatternsAssumption, TextsAssumption DEF SearchTypeOK
<1>. QED BY <1>1 DEF M, N

\* The border of a string with one character is that character's state after the first.
FirstColumn ==
    pat \in Seq(Alphabet) /\ M \in Nat \ {0} =>
        /\ \A c \in Alphabet :
              Border(Append(SubSeq(pat, 1, 0), c)) = IF c = pat[1] THEN 1 ELSE 0
        /\ Border(SubSeq(pat, 2, 1)) = 0

\* So the automaton is right about its first column, and about X before it is moved.
LEMMA FirstColumnFinds == FirstColumn
<1>. SUFFICES ASSUME pat \in Seq(Alphabet), M \in Nat \ {0}
              PROVE  /\ \A c \in Alphabet :
                           Border(Append(SubSeq(pat, 1, 0), c)) = IF c = pat[1] THEN 1 ELSE 0
                     /\ Border(SubSeq(pat, 2, 1)) = 0
  BY DEF FirstColumn
<1>0. Border(SubSeq(pat, 2, 1)) = 0
  <2> DEFINE e == SubSeq(pat, 2, 1)
  <2>1. e \in Seq(Alphabet) /\ Len(e) = 0 /\ 0 \in 0..M
    OBVIOUS
  <2> HIDE DEF e
  <2>2. Fits(e, 0) /\ \A l \in 0..M : Fits(e, l) => l <= 0
    BY <2>1 DEF Fits
  <2>3. Border(e) = 0
    BY <2>1, <2>2, BorderIs
  <2>. QED BY <2>3 DEF e
<1>. SUFFICES ASSUME NEW c \in Alphabet
               PROVE  Border(Append(SubSeq(pat, 1, 0), c)) = IF c = pat[1] THEN 1 ELSE 0
  BY <1>0
<1> DEFINE e == SubSeq(pat, 1, 0)
<1>1. e \in Seq(Alphabet) /\ Len(e) = 0
  OBVIOUS
<1> HIDE DEF e
<1>2. Append(e, c) \in Seq(Alphabet) /\ Len(Append(e, c)) = 1 /\ 0 \in 0..M /\ 1 \in 0..M
  BY <1>1
<1>3. Fits(e, 0) /\ Fits(Append(e, c), 0)
  BY <1>1, <1>2 DEF Fits
<1>4. \A l \in 1..M : Fits(Append(e, c), l) => l = 1 /\ pat[1] = c
  BY <1>1, <1>2, FitsAppend DEF Fits
<1>5. c = pat[1] => Fits(Append(e, c), 1)
  <2>1. 1 \in 1..M /\ 1 - 1 = 0
    OBVIOUS
  <2>2. Fits(e, 1 - 1)
    BY <1>3, <2>1
  <2>. QED BY <1>1, <2>1, <2>2, FitsAppend
<1>6. CASE c = pat[1]
  <2>1. \A l \in 0..M : Fits(Append(e, c), l) => l <= 1
    BY <1>4
  <2>2. Border(Append(e, c)) = 1
    BY <1>2, <1>5, <1>6, <2>1, BorderIs
  <2>. QED BY <1>6, <2>2 DEF e
<1>7. CASE c # pat[1]
  <2>1. \A l \in 0..M : Fits(Append(e, c), l) => l <= 0
    BY <1>4, <1>7
  <2>2. Border(Append(e, c)) = 0
    BY <1>2, <1>3, <2>1, BorderIs
  <2>. QED BY <1>7, <2>2 DEF e
<1>. QED BY <1>6, <1>7

\* A pattern that fits the first b characters with all of its length occurs there.
LEMMA OccursFits ==
    ASSUME pat \in Seq(Alphabet), M \in Nat \ {0}, txt \in Seq(Alphabet), N \in Nat,
           NEW b \in 0..N
    PROVE  Fits(SubSeq(txt, 1, b), M) <=> b - M \in Occurrences
<1> DEFINE s == SubSeq(txt, 1, b)
<1>1. s \in Seq(Alphabet) /\ Len(s) = b /\ \A x \in 1..b : s[x] = txt[x]
  BY DEF N
<1> HIDE DEF s
<1>2. CASE b < M
  <2>1. ~ b - M \in 0..(N - M)
    BY <1>2
  <2>. QED BY <1>1, <1>2, <2>1 DEF Fits, Occurrences, s
<1>3. CASE b >= M
  <2> DEFINE o == SubSeq(txt, b - M + 1, b - M + M)
  <2>1. b - M \in 0..(N - M) /\ b - M + M = b
    BY <1>3
  <2>2. o \in Seq(Alphabet) /\ Len(o) = M /\ \A x \in 1..M : o[x] = txt[b - M + x]
    <3>1. b - M + 1 \in 1..(N + 1) /\ b <= N
      BY <1>3
    <3>2. o = SubSeq(txt, b - M + 1, b)
      BY <2>1
    <3>3. /\ SubSeq(txt, b - M + 1, b) \in Seq(Alphabet)
          /\ Len(SubSeq(txt, b - M + 1, b)) = M
          /\ \A x \in 1..M : SubSeq(txt, b - M + 1, b)[x] = txt[b - M + 1 + x - 1]
      BY <1>3, <3>1 DEF N
    <3>4. \A x \in 1..M : b - M + 1 + x - 1 = b - M + x
      OBVIOUS
    <3>. QED BY <3>2, <3>3, <3>4
  <2>3. b - M \in Occurrences <=> o = pat
    BY <2>1 DEF Occurrences
  <2> HIDE DEF o
  <2>4. o = pat <=> \A x \in 1..M : o[x] = pat[x]
    <3>1. o \in Seq(Alphabet) /\ pat \in Seq(Alphabet) /\ Len(o) = M /\ Len(pat) = M
      BY <2>2 DEF M
    <3>. QED BY ONLY <3>1
  <2>5. Fits(s, M) <=> \A x \in 1..M : pat[x] = s[b - M + x]
    <3>1. Len(s) = b /\ M <= b
      BY <1>1, <1>3
    <3>. QED BY ONLY <3>1 DEF Fits
  <2>6. \A x \in 1..M : s[b - M + x] = txt[b - M + x]
    <3>1. \A x \in 1..M : b - M + x \in 1..b
      BY <1>3
    <3>. QED BY <1>1, <3>1
  <2>7. Fits(s, M) <=> \A x \in 1..M : o[x] = pat[x]
    BY <2>2, <2>5, <2>6
  <2>. QED BY <2>3, <2>4, <2>7 DEF s
<1>. QED BY <1>2, <1>3

\* The state that reads one more character of the pattern (lines 14-17), and the
\* one that does not: a border that is not the whole of what has been read is one
\* of it without its first character.
LEMMA ColumnMade ==
    ASSUME pat \in Seq(Alphabet), NEW m \in 1..(M - 1), M \in Nat \ {0}, NEW c \in Alphabet
    PROVE  Border(Append(SubSeq(pat, 1, m), c)) =
               IF c = pat[m + 1] THEN m + 1 ELSE Border(Append(SubSeq(pat, 2, m), c))
<1> DEFINE s == SubSeq(pat, 1, m)
           u == SubSeq(pat, 2, m)
<1>1. s \in Seq(Alphabet) /\ Len(s) = m /\ \A x \in 1..m : s[x] = pat[x]
  BY DEF M
<1>2. u \in Seq(Alphabet) /\ Len(u) = m - 1 /\ \A x \in 1..(m - 1) : u[x] = pat[x + 1]
  BY DEF M
<1> HIDE DEF s, u
<1>3. /\ Append(s, c) \in Seq(Alphabet) /\ Len(Append(s, c)) = m + 1
      /\ Append(u, c) \in Seq(Alphabet) /\ Len(Append(u, c)) = m
  BY <1>1, <1>2
<1>4. m + 1 \in 1..M /\ m + 1 \in 0..M /\ m \in Nat /\ (m + 1) - 1 = m
  OBVIOUS
<1>5. Fits(s, m)
  <2>1. \A x \in 1..m : m - m + x = x
    OBVIOUS
  <2>. QED BY <1>1, <2>1 DEF Fits
<1>6. Fits(Append(s, c), m + 1) <=> c = pat[m + 1]
  BY <1>1, <1>4, <1>5, FitsAppend
<1>7. CASE c = pat[m + 1]
  <2>1. \A l \in 0..M : Fits(Append(s, c), l) => l <= m + 1
    BY <1>3 DEF Fits
  <2>2. Border(Append(s, c)) = m + 1
    BY <1>3, <1>4, <1>6, <1>7, <2>1, BorderIs
  <2>. QED BY <1>7, <2>2 DEF s
<1>8. CASE c # pat[m + 1]
  <2>1. ASSUME NEW l \in 0..M PROVE Fits(Append(s, c), l) <=> Fits(Append(u, c), l)
    <3>1. CASE l = 0
      BY <1>3, <3>1 DEF Fits
    <3>2. CASE l > m
      <4>1. l = m + 1 \/ l > m + 1
        BY <3>2
      <4>2. ~ Fits(Append(u, c), l)
        BY <1>3, <1>4, <3>2 DEF Fits
      <4>3. l > m + 1 => ~ Fits(Append(s, c), l)
        BY <1>3, <1>4 DEF Fits
      <4>. QED BY <1>6, <1>8, <4>1, <4>2, <4>3
    <3>3. CASE l \in 1..m
      <4>1. l \in 1..M /\ l - 1 <= m - 1
        BY <3>3
      <4>2. \A x \in 1..(l - 1) : s[m - (l - 1) + x] = u[(m - 1) - (l - 1) + x]
        <5>. SUFFICES ASSUME NEW x \in 1..(l - 1)
                      PROVE  s[m - (l - 1) + x] = u[(m - 1) - (l - 1) + x]
          OBVIOUS
        <5>1. /\ m - (l - 1) + x \in 1..m /\ (m - 1) - (l - 1) + x \in 1..(m - 1)
              /\ ((m - 1) - (l - 1) + x) + 1 = m - (l - 1) + x
          BY <3>3
        <5>. QED BY <1>1, <1>2, <5>1
      <4>3. Fits(s, l - 1) <=> Fits(u, l - 1)
        <5>1. l - 1 <= Len(s) /\ l - 1 <= Len(u)
          BY <1>1, <1>2, <1>4, <4>1
        <5>. QED BY <1>1, <1>2, <4>2, <5>1 DEF Fits
      <4>. QED BY <1>1, <1>2, <4>1, <4>3, FitsAppend
    <3>. QED BY <3>1, <3>2, <3>3
  <2>2. Border(Append(s, c)) = Border(Append(u, c))
    BY <1>3, <2>1, BorderSame
  <2>. QED BY <1>8, <2>2 DEF s, u
<1>. QED BY <1>7, <1>8

-----------------------------------------------------------------------------
(* The invariant of the searches is inductive. *)

\* Lines 5-12.
LEMMA KMPKeeps == ASSUME SearchIInv, KMP PROVE SearchIInv'
<1>1. /\ searchPc' = "column" /\ X' = 0 /\ state' = 1 /\ at' = at /\ answer' = answer
      /\ pat' \in Patterns /\ txt' \in Texts
      /\ dfa' = [c \in Alphabet |-> [p \in 0..(M' - 1) |-> IF c = pat'[1] /\ p = 0 THEN 1 ELSE 0]]
  BY DEF KMP, charAt, M
<1>2. pat' \in Seq(Alphabet) /\ M' \in Nat \ {0}
  BY <1>1, PatternsAssumption DEF M
<1>3. dfa' \in [Alphabet -> [0..(M' - 1) -> 0..M']]
  <2>1. 0 \in 0..M' /\ 1 \in 0..M'
    BY <1>2
  <2>. QED BY <1>1, <2>1
<1>4. SearchTypeOK'
  <2>1. X' \in 0..M' /\ state' \in 0..M'
    BY <1>1, <1>2
  <2>. QED BY <1>1, <1>3, <2>1 DEF SearchIInv, SearchTypeOK
<1>5. AutomatonFindsBorders'
  <2>1. FirstColumn'
    BY FirstColumnFinds, PTL
  <2>2. /\ \A c \in Alphabet : Border(Append(SubSeq(pat, 1, 0), c))' = IF c = pat'[1] THEN 1 ELSE 0
        /\ Border(SubSeq(pat, 2, 1))' = 0
    BY <1>2, <2>1 DEF FirstColumn
  <2>3. (\A p \in 0..(state' - 1) : p = 0) /\ 0 \in 0..(M' - 1)
    <3>1. \A p \in 0..(1 - 1) : p = 0
      OBVIOUS
    <3>2. \A m \in Nat \ {0} : 0 \in 0..(m - 1)
      OBVIOUS
    <3>. QED BY <1>1, <1>2, <3>1, <3>2
  <2>. QED BY <1>1, <2>2, <2>3 DEF AutomatonFindsBorders
<1>. QED BY <1>1, <1>4, <1>5 DEF SearchIInv, Scanned, Aligned, Answered

\* Lines 14-17.
LEMMA ColumnKeeps == ASSUME SearchIInv, Column PROVE SearchIInv'
<1>1. /\ searchPc = "column" /\ searchPc' = "column" /\ state < M /\ state' = state + 1
      /\ pat' = pat /\ txt' = txt /\ at' = at /\ answer' = answer
      /\ dfa' = [c \in Alphabet |-> [p \in 0..(M - 1) |->
                    IF p # state THEN dfa[c][p]
                    ELSE IF c = pat[state + 1] THEN state + 1 ELSE dfa[c][X]]]
      /\ X' = dfa[pat[state + 1]][X]
  BY DEF Column, charAt
<1>2. /\ pat \in Seq(Alphabet) /\ M \in Nat \ {0} /\ \A p \in 1..M : pat[p] \in Alphabet
      /\ state \in 1..(M - 1) /\ X \in 0..M /\ M' = M
      /\ dfa \in [Alphabet -> [0..(M - 1) -> 0..M]]
  BY <1>1, Strings DEF SearchIInv, SearchTypeOK, M
<1>3. /\ \A p \in 0..(state - 1), c \in Alphabet :
             dfa[c][p] = Border(Append(SubSeq(pat, 1, p), c))
      /\ X = Border(SubSeq(pat, 2, state))
  BY <1>1 DEF SearchIInv, AutomatonFindsBorders
<1>4. SubSeq(pat, 2, state) \in Seq(Alphabet) /\ Len(SubSeq(pat, 2, state)) = state - 1
  BY <1>2 DEF M
<1>5. X \in 0..(state - 1)
  <2>1. X <= Len(SubSeq(pat, 2, state))
    BY <1>2, <1>3, <1>4, BorderIsGreatest DEF Fits
  <2>. QED BY <1>2, <1>4, <2>1
<1>6. \A c \in Alphabet : dfa[c][X] = Border(Append(SubSeq(pat, 2, state), c))
  BY <1>2, <1>3, <1>4, <1>5, BorderStep
<1>7. \A c \in Alphabet : dfa'[c][state] = Border(Append(SubSeq(pat, 1, state), c))
  <2>1. \A c \in Alphabet :
           Border(Append(SubSeq(pat, 1, state), c)) =
               IF c = pat[state + 1] THEN state + 1 ELSE Border(Append(SubSeq(pat, 2, state), c))
    BY <1>2, ColumnMade
  <2>2. \A c \in Alphabet :
           dfa'[c][state] = IF c = pat[state + 1] THEN state + 1 ELSE dfa[c][X]
    BY <1>1, <1>2
  <2>. QED BY <1>6, <2>1, <2>2
<1>8. X' = Border(SubSeq(pat, 2, state + 1))
  <2>1. SubSeq(pat, 2, state + 1) = Append(SubSeq(pat, 2, state), pat[state + 1])
    <3>1. /\ SubSeq(pat, 2, state + 1) \in Seq(Alphabet) /\ Len(SubSeq(pat, 2, state + 1)) = state
          /\ \A x \in 1..state : SubSeq(pat, 2, state + 1)[x] = pat[x + 1]
      BY <1>2 DEF M
    <3>2. \A x \in 1..(state - 1) : SubSeq(pat, 2, state)[x] = pat[x + 1]
      BY <1>2 DEF M
    <3>3. pat[state + 1] \in Alphabet
      BY <1>2
    <3>4. /\ Append(SubSeq(pat, 2, state), pat[state + 1]) \in Seq(Alphabet)
          /\ Len(Append(SubSeq(pat, 2, state), pat[state + 1])) = state
          /\ \A x \in 1..state :
                Append(SubSeq(pat, 2, state), pat[state + 1])[x] = pat[x + 1]
      BY <1>2, <1>4, <3>2, <3>3
    <3>. QED BY <3>1, <3>4
  <2>2. pat[state + 1] \in Alphabet
    BY <1>2
  <2>. QED BY <1>1, <1>6, <2>1, <2>2
<1>9. \A s : Border(s)' = Border(s)
  BY <1>1, <1>2 DEF Border
<1>10. AutomatonFindsBorders'
  <2>1. ASSUME NEW p \in 0..(state' - 1), NEW c \in Alphabet
        PROVE  dfa'[c][p] = Border(Append(SubSeq(pat, 1, p), c))
    <3>1. p \in 0..(M - 1) /\ (p = state \/ p \in 0..(state - 1))
      <4>1. state' - 1 = state
        BY ONLY <1>1, <1>2
      <4>2. p \in 0..state
        BY <4>1
      <4>3. state \in Nat /\ state < M /\ M \in Nat
        BY ONLY <1>1, <1>2
      <4>. QED BY ONLY <4>2, <4>3
    <3>2. p # state => dfa'[c][p] = dfa[c][p]
      BY <1>1, <3>1
    <3>. QED BY <1>3, <1>7, <3>1, <3>2
  <2>. QED BY <1>1, <1>8, <1>9, <2>1 DEF AutomatonFindsBorders
<1>11. dfa' \in [Alphabet -> [0..(M - 1) -> 0..M]] /\ X' \in 0..M
  <2>1. pat[state + 1] \in Alphabet /\ X \in 0..(M - 1) /\ state + 1 \in 0..M
    BY <1>2, <1>5
  <2>2. \A c \in Alphabet : \A p \in 0..(M - 1) : dfa[c][p] \in 0..M
    BY <1>2
  <2>. QED BY <1>1, <2>1, <2>2
<1>12. SearchTypeOK'
  <2>1. state + 1 \in 0..M
    BY <1>2
  <2>. QED BY <1>1, <1>2, <1>11, <2>1 DEF SearchIInv, SearchTypeOK
<1>. QED BY <1>1, <1>2, <1>10, <1>12 DEF SearchIInv, Scanned, Aligned, Answered

\* Nothing has been read of the text where the scan begins (lines 12 and 23).
LEMMA StartScanKeeps == ASSUME SearchIInv, StartScan PROVE SearchIInv'
<1>1. /\ searchPc = "column" /\ searchPc' = "scan" /\ state = M /\ state' = 0 /\ at' = 0
      /\ pat' = pat /\ txt' = txt /\ dfa' = dfa /\ X' = X /\ answer' = answer
  BY DEF StartScan
<1>2. /\ pat \in Seq(Alphabet) /\ M \in Nat \ {0} /\ txt \in Seq(Alphabet) /\ N \in Nat
      /\ M' = M /\ N' = N /\ Occurrences' = Occurrences
  BY <1>1, Strings DEF SearchIInv, M, N, Occurrences
<1>3. \A s : Border(s)' = Border(s)
  BY <1>1, <1>2 DEF Border
<1>4. Border(SubSeq(txt, 1, 0)) = 0
  <2>1. SubSeq(txt, 1, 0) \in Seq(Alphabet) /\ Len(SubSeq(txt, 1, 0)) = 0
    BY <1>2
  <2>2. Border(SubSeq(txt, 1, 0)) \in 0..M /\ Border(SubSeq(txt, 1, 0)) <= 0
    BY <1>2, <2>1, BorderIsGreatest DEF Fits
  <2>. QED BY <2>2
<1>5. Scanned'
  <2>1. \A p \in Occurrences : 0 <= p + M
    BY <1>2 DEF Occurrences
  <2>. QED BY <1>1, <1>2, <1>3, <1>4, <2>1 DEF Scanned
<1>6. AutomatonFindsBorders'
  BY <1>1, <1>2, <1>3 DEF SearchIInv, AutomatonFindsBorders
<1>7. SearchTypeOK'
  <2>1. 0 \in 0..M
    BY <1>2
  <2>. QED BY <1>1, <1>2, <2>1 DEF SearchIInv, SearchTypeOK
<1>. QED BY <1>1, <1>5, <1>6, <1>7 DEF SearchIInv, Aligned, Answered

\* What has been read of the text, where the scan is.
LEMMA ScannedSoFar ==
    ASSUME SearchIInv, searchPc = "scan"
    PROVE  /\ at \in 0..N /\ state \in 0..M
           /\ SubSeq(txt, 1, at) \in Seq(Alphabet) /\ Len(SubSeq(txt, 1, at)) = at
           /\ state = Border(SubSeq(txt, 1, at))
           /\ state = M <=> at - M \in Occurrences
<1>1. /\ pat \in Seq(Alphabet) /\ M \in Nat \ {0} /\ txt \in Seq(Alphabet) /\ N \in Nat
  BY Strings DEF SearchIInv
<1>2. at \in 0..N /\ state \in 0..M /\ state = Border(SubSeq(txt, 1, at))
  BY <1>1 DEF SearchIInv, SearchTypeOK, Scanned
<1>3. SubSeq(txt, 1, at) \in Seq(Alphabet) /\ Len(SubSeq(txt, 1, at)) = at
  BY <1>1, <1>2 DEF N
<1>4. state = M <=> Fits(SubSeq(txt, 1, at), M)
  <2> DEFINE s == SubSeq(txt, 1, at)
  <2>1. s \in Seq(Alphabet) /\ state = Border(s) /\ M \in 0..M
    BY <1>1, <1>2, <1>3
  <2> HIDE DEF s
  <2>2. /\ Fits(s, state) /\ \A l \in 0..M : Fits(s, l) => l <= state
    BY <1>1, <2>1, BorderIsGreatest
  <2>3. Fits(s, M) => state = M
    BY <1>1, <1>2, <2>1, <2>2
  <2>. QED BY <2>2, <2>3 DEF s
<1>. QED BY <1>1, <1>2, <1>3, <1>4, OccursFits

\* Line 24.
LEMMA ScanKeeps == ASSUME SearchIInv, Scan PROVE SearchIInv'
<1>1. /\ searchPc = "scan" /\ searchPc' = "scan" /\ at < N /\ state < M
      /\ state' = dfa[txt[at + 1]][state] /\ at' = at + 1
      /\ pat' = pat /\ txt' = txt /\ dfa' = dfa /\ X' = X /\ answer' = answer
  BY DEF Scan, charAt
<1>2. /\ pat \in Seq(Alphabet) /\ M \in Nat \ {0} /\ txt \in Seq(Alphabet) /\ N \in Nat
      /\ M' = M /\ N' = N /\ Occurrences' = Occurrences /\ \A p \in 1..N : txt[p] \in Alphabet
  BY <1>1, Strings DEF SearchIInv, M, N, Occurrences
<1>3. \A s : Border(s)' = Border(s)
  BY <1>1, <1>2 DEF Border
<1> DEFINE s == SubSeq(txt, 1, at)
           c == txt[at + 1]
<1>4. /\ at \in 0..(N - 1) /\ at + 1 \in 1..N /\ state \in 0..(M - 1)
      /\ s \in Seq(Alphabet) /\ Len(s) = at /\ state = Border(s) /\ at - M \notin Occurrences
  BY <1>1, <1>2, ScannedSoFar
<1>5. c \in Alphabet
  BY <1>2, <1>4
<1>6. SubSeq(txt, 1, at + 1) = Append(s, c)
  <2>1. /\ SubSeq(txt, 1, at + 1) \in Seq(Alphabet) /\ Len(SubSeq(txt, 1, at + 1)) = at + 1
        /\ \A x \in 1..(at + 1) : SubSeq(txt, 1, at + 1)[x] = txt[x]
    BY <1>2, <1>4 DEF N
  <2>2. \A x \in 1..at : s[x] = txt[x]
    BY <1>2, <1>4 DEF N
  <2> HIDE DEF s
  <2>3. /\ Append(s, c) \in Seq(Alphabet) /\ Len(Append(s, c)) = at + 1
        /\ \A x \in 1..(at + 1) : Append(s, c)[x] = txt[x]
    BY <1>4, <1>5, <2>2
  <2>. QED BY <2>1, <2>3
<1>7. state' = Border(SubSeq(txt, 1, at + 1))
  <2>1. dfa[c][state] = Border(Append(SubSeq(pat, 1, state), c))
    BY <1>1, <1>2, <1>4, <1>5 DEF SearchIInv, AutomatonFindsBorders
  <2>2. Border(Append(SubSeq(pat, 1, Border(s)), c)) = Border(Append(s, c))
    <3> HIDE DEF s, c
    <3>. QED BY <1>2, <1>4, <1>5, BorderStep
  <2>. QED BY <1>1, <1>4, <1>6, <2>1, <2>2
<1>8. \A p \in Occurrences : at + 1 <= p + M
  <2>. SUFFICES ASSUME NEW p \in Occurrences PROVE at + 1 <= p + M
    OBVIOUS
  <2>1. p \in Int
    BY DEF Occurrences
  <2>2. at <= p + M
    BY <1>1 DEF SearchIInv, Scanned
  <2>3. p # at - M
    BY <1>4
  <2>4. at \in Int /\ M \in Int
    BY ONLY <1>2, <1>4, N \in Nat
  <2>. QED BY ONLY <2>1, <2>2, <2>3, <2>4
<1>9. Scanned'
  BY <1>1, <1>2, <1>3, <1>4, <1>7, <1>8 DEF Scanned
<1>10. AutomatonFindsBorders'
  BY <1>1, <1>2, <1>3 DEF SearchIInv, AutomatonFindsBorders
<1>11. state' \in 0..M
  <2>1. dfa \in [Alphabet -> [0..(M - 1) -> 0..M]]
    BY <1>1 DEF SearchIInv, SearchTypeOK
  <2>. QED BY <1>1, <1>4, <1>5, <2>1
<1>12. SearchTypeOK'
  <2>1. at + 1 \in Nat
    BY <1>4
  <2>. QED BY <1>1, <1>2, <1>11, <2>1 DEF SearchIInv, SearchTypeOK
<1>. QED BY <1>1, <1>9, <1>10, <1>12 DEF SearchIInv, Aligned, Answered

\* Lines 25-26: a match that has been read is the first one, and a text that has
\* been read to its end without one holds none.
LEMMA EndScanKeeps == ASSUME SearchIInv, EndScan PROVE SearchIInv'
<1>1. /\ searchPc = "scan" /\ searchPc' = "align" /\ ~(at < N /\ state < M)
      /\ answer' = <<IF state = M THEN at - N ELSE N>> /\ at' = 0
      /\ pat' = pat /\ txt' = txt /\ dfa' = dfa /\ X' = X /\ state' = state
  BY DEF EndScan
<1>2. /\ pat \in Seq(Alphabet) /\ M \in Nat \ {0} /\ txt \in Seq(Alphabet) /\ N \in Nat
      /\ M' = M /\ N' = N /\ Occurrences' = Occurrences
  BY <1>1, Strings DEF SearchIInv, M, N, Occurrences
<1>3. at \in 0..N /\ state \in 0..M /\ (state = M <=> at - M \in Occurrences)
  BY <1>1, ScannedSoFar
<1>4. Occurrences \in SUBSET Nat /\ \A p \in Occurrences : p <= N - M /\ at <= p + M
  BY <1>1, <1>2 DEF SearchIInv, Scanned, Occurrences
<1>5. FoundByKMP = IF state = M THEN at - N ELSE N
  <2>1. CASE state = M
    <3>1. at - M \in Occurrences /\ Occurrences # {}
      BY <1>3, <2>1
    <3>2. Min(Occurrences) \in Occurrences /\ \A p \in Occurrences : Min(Occurrences) <= p
      BY <1>4, <3>1, MinIsLeast
    <3>3. Min(Occurrences) <= at - M /\ at <= Min(Occurrences) + M /\ Min(Occurrences) \in Nat
      BY <1>4, <3>1, <3>2
    <3>4. Min(Occurrences) = at - M
      BY <1>2, <1>3, <3>3
    <3>. QED BY <1>2, <1>3, <2>1, <3>1, <3>4 DEF FoundByKMP
  <2>2. CASE state # M
    <3>1. at = N /\ at - M \notin Occurrences
      BY <1>1, <1>2, <1>3, <2>2
    <3>2. Occurrences = {}
      <4>. SUFFICES ASSUME NEW p \in Occurrences PROVE FALSE
        OBVIOUS
      <4>1. p \in Nat /\ p <= N - M /\ N <= p + M
        BY <1>4, <3>1
      <4>2. p = at - M
        BY <1>2, <3>1, <4>1
      <4>. QED BY <3>1, <4>2
    <3>. QED BY <2>2, <3>2 DEF FoundByKMP
  <2>. QED BY <2>1, <2>2
<1>6. FoundByKMP' = FoundByKMP
  BY <1>2 DEF FoundByKMP
<1>7. Aligned'
  BY <1>1, <1>2, <1>4, <1>5, <1>6 DEF Aligned
<1>8. answer' \in Seq(Int)
  BY <1>1, <1>2, <1>3
<1>9. SearchTypeOK'
  BY <1>1, <1>2, <1>8 DEF SearchIInv, SearchTypeOK
<1>. QED BY <1>1, <1>7, <1>9 DEF SearchIInv, AutomatonFindsBorders, Scanned, Answered

\* The last place of a character in the pattern, or -1 (lines 66-69).
LEMMA RightIsLast ==
    ASSUME M \in Nat, NEW c
    PROVE  /\ right(c) \in (-1)..(M - 1)
           /\ \A p \in 0..(M - 1) : charAt(pat, p) = c => p <= right(c)
<1> DEFINE R == {p \in 0..(M - 1) : charAt(pat, p) = c} \cup {-1}
<1>1. R \in SUBSET ((-1)..M) /\ -1 \in R /\ R # {} /\ R \subseteq (-1)..(M - 1)
  OBVIOUS
<1>2. right(c) = Max(R)
  BY DEF right
<1>3. \A p \in 0..(M - 1) : charAt(pat, p) = c => p \in R
  OBVIOUS
<1> HIDE DEF R
<1>4. Max(R) \in R /\ \A d \in R : d <= Max(R)
  BY <1>1, MaxIsGreatest
<1>. QED BY <1>1, <1>2, <1>3, <1>4

\* An occurrence is where nothing mismatches.
LEMMA OccursMatches ==
    ASSUME pat \in Seq(Alphabet), M \in Nat \ {0}, txt \in Seq(Alphabet), N \in Nat,
           NEW p \in 0..(N - M)
    PROVE  p \in Occurrences <=> \A d \in 0..(M - 1) : charAt(pat, d) = charAt(txt, p + d)
<1> DEFINE o == SubSeq(txt, p + 1, p + M)
<1>1. /\ o \in Seq(Alphabet) /\ Len(o) = M /\ \A x \in 1..M : o[x] = txt[p + x]
  <2>1. p + 1 \in 1..(N + 1) /\ p + M \in p..N
    OBVIOUS
  <2>2. /\ o \in Seq(Alphabet) /\ Len(o) = M /\ \A x \in 1..M : o[x] = txt[p + 1 + x - 1]
    BY <2>1 DEF N
  <2>3. \A x \in 1..M : p + 1 + x - 1 = p + x
    OBVIOUS
  <2> HIDE DEF o
  <2>. QED BY <2>2, <2>3
<1>2. p \in Occurrences <=> o = pat
  BY DEF Occurrences
<1> HIDE DEF o
<1>3. o = pat <=> \A x \in 1..M : pat[x] = txt[p + x]
  <2>1. o \in Seq(Alphabet) /\ Len(o) = M /\ Len(pat) = M
    BY <1>1 DEF M
  <2>2. o = pat <=> \A x \in 1..M : o[x] = pat[x]
    BY <2>1
  <2>. QED BY <1>1, <2>2
<1>4. ASSUME \A x \in 1..M : pat[x] = txt[p + x], NEW d \in 0..(M - 1)
      PROVE  pat[d + 1] = txt[(p + d) + 1]
  <2>1. d + 1 \in 1..M /\ p + (d + 1) = (p + d) + 1
    OBVIOUS
  <2>. QED BY <1>4, <2>1
<1>5. ASSUME \A d \in 0..(M - 1) : pat[d + 1] = txt[(p + d) + 1], NEW x \in 1..M
      PROVE  pat[x] = txt[p + x]
  <2>1. x - 1 \in 0..(M - 1) /\ (x - 1) + 1 = x /\ (p + (x - 1)) + 1 = p + x
    OBVIOUS
  <2>. QED BY <1>5, <2>1
<1>. QED BY <1>2, <1>3, <1>4, <1>5 DEF charAt

\* A second element after a first.
LEMMA PairAppended ==
    ASSUME NEW v \in Int, NEW w \in Int
    PROVE  Append(<<v>>, w) = <<v, w>>
<1> DEFINE a == Append(<<v>>, w)
           u == <<v, w>>
<1>1. u \in Seq(Int) /\ Len(u) = 2 /\ u[1] = v /\ u[2] = w
  OBVIOUS
<1>2. a \in Seq(Int) /\ Len(a) = 2 /\ a[1] = v /\ a[2] = w
  OBVIOUS
<1> HIDE DEF a, u
<1>3. \A x \in 1..2 : a[x] = u[x]
  BY <1>1, <1>2
<1>4. a = u
  BY <1>1, <1>2, <1>3
<1>. QED BY <1>4 DEF a, u

\* The answer of both searches, once it is known where the first occurrence is.
LEMMA BothFound ==
    ASSUME SearchIInv, searchPc = "align", NEW b,
           \/ Occurrences = {} /\ b = N
           \/ b \in Occurrences /\ \A p \in Occurrences : b <= p
    PROVE  Append(answer, b) = IF Occurrences = {} THEN <<N, N>>
                               ELSE <<Min(Occurrences) + M - N, Min(Occurrences)>>
<1>1. /\ M \in Nat /\ N \in Nat /\ Occurrences \in SUBSET Nat
  BY Strings DEF SearchIInv, Occurrences
<1>2. answer = <<FoundByKMP>>
  BY DEF SearchIInv, Aligned
<1>3. Occurrences # {} => b = Min(Occurrences)
  <2>. SUFFICES ASSUME Occurrences # {} PROVE b = Min(Occurrences)
    OBVIOUS
  <2>1. Min(Occurrences) \in Occurrences /\ \A p \in Occurrences : Min(Occurrences) <= p
    BY <1>1, MinIsLeast
  <2>2. b \in Nat /\ Min(Occurrences) \in Nat /\ b <= Min(Occurrences) /\ Min(Occurrences) <= b
    BY <1>1, <2>1
  <2>. QED BY <2>2
<1>4. Append(answer, b) = <<FoundByKMP, b>>
  <2>1. FoundByKMP \in Int
    <3>1. answer \in Seq(Int) /\ Len(answer) = 1 /\ answer[1] = FoundByKMP
      BY <1>2 DEF SearchIInv, SearchTypeOK
    <3>. QED BY <3>1
  <2>2. b = N \/ b \in Occurrences
    OBVIOUS
  <2>3. b \in Nat
    BY <1>1, <2>2
  <2>. QED BY <1>2, <2>1, <2>3, PairAppended
<1>. QED BY <1>3, <1>4 DEF FoundByKMP

\* Lines 80-87: the shift passes no occurrence, since the character of the text
\* that did not match would have to be in the pattern further to the right.
LEMMA AlignKeeps == ASSUME SearchIInv, Align PROVE SearchIInv'
<1>1. /\ searchPc = "align" /\ at <= N - M
      /\ pat' = pat /\ txt' = txt /\ dfa' = dfa /\ X' = X /\ state' = state
  BY DEF Align
<1>2. /\ pat \in Seq(Alphabet) /\ M \in Nat \ {0} /\ txt \in Seq(Alphabet) /\ N \in Nat
      /\ M' = M /\ N' = N /\ Occurrences' = Occurrences
  BY <1>1, Strings DEF SearchIInv, M, N, Occurrences
<1>3. /\ at \in 0..(N - M) /\ answer = <<FoundByKMP>> /\ \A p \in Occurrences : at <= p
  BY <1>1, <1>2 DEF SearchIInv, SearchTypeOK, Aligned
<1>4. Occurrences \in SUBSET (0..(N - M)) /\ answer \in Seq(Int)
  BY <1>1 DEF Occurrences, SearchIInv, SearchTypeOK
<1>5. CASE Mismatches = {}
  <2>1. answer' = Append(answer, at) /\ searchPc' = "done" /\ at' = at
    BY <1>5 DEF Align
  <2>2. at \in Occurrences
    <3>1. \A d \in 0..(M - 1) : charAt(pat, d) = charAt(txt, at + d)
      BY <1>5 DEF Mismatches
    <3>. QED BY <1>2, <1>3, <3>1, OccursMatches
  <2>3. Answered'
    BY <1>1, <1>2, <1>3, <2>1, <2>2, BothFound DEF Answered
  <2>4. SearchTypeOK'
    <3>1. answer' \in Seq(Int)
      BY <1>3, <1>4, <2>1
    <3>. QED BY <1>1, <1>2, <2>1, <3>1 DEF SearchIInv, SearchTypeOK
  <2>. QED BY <2>1, <2>3, <2>4 DEF SearchIInv, AutomatonFindsBorders, Scanned, Aligned
<1>6. CASE Mismatches # {}
  <2> DEFINE p == Max(Mismatches)
             c == charAt(txt, at + p)
             skip == Max({p - right(c), 1})
  <2>1. answer' = answer /\ searchPc' = searchPc /\ at' = at + skip
    BY <1>6 DEF Align
  <2>2. p \in 0..(M - 1) /\ charAt(pat, p) # c
    <3>1. Mismatches \in SUBSET ((-1)..M)
      BY <1>2 DEF Mismatches
    <3>2. Max(Mismatches) \in Mismatches
      BY <1>2, <1>6, <3>1, MaxIsGreatest
    <3>. QED BY <3>2 DEF Mismatches
  <2>3. /\ right(c) \in (-1)..(M - 1)
        /\ \A d \in 0..(M - 1) : charAt(pat, d) = c => d <= right(c)
    <3> HIDE DEF c
    <3>. QED BY <1>2, RightIsLast
  <2>4. skip \in Nat /\ skip >= 1 /\ (skip = 1 \/ skip = p - right(c))
    <3> DEFINE r == p - right(c)
    <3>1. r \in (-1 - M)..M
      BY <1>2, <2>2, <2>3
    <3>2. ASSUME NEW v \in Int PROVE \E y \in {v, 1} : \A z \in {v, 1} : y >= z
      <4>1. CASE v >= 1
        BY <4>1
      <4>2. CASE v < 1
        BY <4>2
      <4>. QED BY <4>1, <4>2
    <3>3. r \in Int
      BY <3>1
    <3> HIDE DEF r
    <3>4. Max({r, 1}) \in {r, 1} /\ \A z \in {r, 1} : Max({r, 1}) >= z
      BY <3>2, <3>3 DEF Max
    <3>5. Max({r, 1}) \in Int /\ Max({r, 1}) >= 1 /\ (Max({r, 1}) = 1 \/ Max({r, 1}) = r)
      BY <3>3, <3>4
    <3>. QED BY <3>5 DEF r
  <2> HIDE DEF skip
  <2>5. ASSUME NEW o \in Occurrences PROVE at + skip <= o
    <3>1. o \in 0..(N - M) /\ at <= o
      BY <1>3, <1>4
    <3>2. \A d \in 0..(M - 1) : charAt(pat, d) = charAt(txt, o + d)
      BY <1>2, <3>1, OccursMatches
    <3>3. o # at
      BY <2>2, <3>2
    <3>. SUFFICES ASSUME o < at + skip PROVE FALSE
      BY <1>2, <1>3, <2>4, <3>1
    <3> DEFINE d == p - (o - at)
    <3>4. /\ o - at >= 1 /\ skip = p - right(c) /\ d > right(c)
          /\ d \in 0..(M - 1) /\ o + d = at + p
      <4> HIDE DEF p, c
      <4>. QED BY <1>2, <1>3, <2>2, <2>3, <2>4, <3>1, <3>3
    <3>5. charAt(pat, d) = c
      BY <3>2, <3>4
    <3>6. d <= right(c)
      BY <2>3, <3>4, <3>5
    <3> HIDE DEF d, c
    <3>. QED BY <2>3, <3>4, <3>6
  <2>6. Aligned'
    <3>1. FoundByKMP' = FoundByKMP
      BY <1>2 DEF FoundByKMP
    <3>. QED BY <1>1, <1>2, <1>3, <2>1, <2>5, <3>1 DEF Aligned
  <2>7. SearchTypeOK'
    <3>1. at' \in Nat
      BY <1>2, <1>3, <2>1, <2>4
    <3>. QED BY <1>1, <1>2, <2>1, <3>1 DEF SearchIInv, SearchTypeOK
  <2>. QED BY <1>1, <2>1, <2>6, <2>7 DEF SearchIInv, AutomatonFindsBorders, Scanned, Answered
<1>. QED BY <1>5, <1>6

\* Line 89.
LEMMA NotFoundKeeps == ASSUME SearchIInv, NotFound PROVE SearchIInv'
<1>1. /\ searchPc = "align" /\ searchPc' = "done" /\ at > N - M /\ answer' = Append(answer, N)
      /\ pat' = pat /\ txt' = txt /\ dfa' = dfa /\ X' = X /\ state' = state /\ at' = at
  BY DEF NotFound
<1>2. /\ M \in Nat \ {0} /\ N \in Nat /\ M' = M /\ N' = N /\ Occurrences' = Occurrences
  BY <1>1, Strings DEF SearchIInv, M, N, Occurrences
<1>3. Occurrences = {}
  <2>1. at \in Nat /\ \A p \in Occurrences : at <= p
    BY <1>1 DEF SearchIInv, SearchTypeOK, Aligned
  <2>2. \A p \in Occurrences : p \in Nat /\ p <= N - M
    BY <1>2 DEF Occurrences
  <2>. QED BY <1>1, <1>2, <2>1, <2>2
<1>4. Answered'
  BY <1>1, <1>2, <1>3, BothFound DEF Answered
<1>5. SearchTypeOK'
  <2>1. answer' \in Seq(Int)
    BY <1>1, <1>2 DEF SearchIInv, SearchTypeOK
  <2>. QED BY <1>1, <1>2, <2>1 DEF SearchIInv, SearchTypeOK
<1>. QED BY <1>1, <1>4, <1>5 DEF SearchIInv, AutomatonFindsBorders, Scanned, Aligned

\* The invariant holds in every state.
LEMMA SearchIInvHolds == SearchSpec => []SearchIInv
<1>1. SearchInit => SearchIInv
  <2>. SUFFICES ASSUME SearchInit PROVE SearchIInv
    OBVIOUS
  <2>1. /\ searchPc = "args" /\ pat = <<>> /\ txt = <<>> /\ X = 0 /\ at = 0 /\ state = 0
        /\ answer = <<>> /\ M = 0
    BY DEF SearchInit, M
  <2>. QED BY <2>1 DEF SearchIInv, SearchTypeOK, AutomatonFindsBorders, Scanned, Aligned, Answered
<1>2. SearchIInv /\ [SearchNext]_searchVars => SearchIInv'
  <2>. SUFFICES ASSUME SearchIInv, [SearchNext]_searchVars PROVE SearchIInv'
    OBVIOUS
  <2>1. CASE UNCHANGED searchVars
    BY <2>1 DEF searchVars, SearchIInv, SearchTypeOK, AutomatonFindsBorders, Scanned, Aligned,
                Answered, FoundByKMP, Occurrences, Border, M, N
  <2>. QED BY <2>1, KMPKeeps, ColumnKeeps, StartScanKeeps, ScanKeeps, EndScanKeeps, AlignKeeps,
              NotFoundKeeps DEF SearchNext
<1>. QED BY <1>1, <1>2, PTL DEF SearchSpec

\* Types, for any patterns and texts.
THEOREM SearchTypeCorrect == SearchSpec => []SearchTypeOK
<1>1. SearchIInv => SearchTypeOK
  BY DEF SearchIInv
<1>. QED BY <1>1, SearchIInvHolds, PTL

\* Every finished column of the automaton is right, and so is X, for any pattern
\* (lines 12-18).
THEOREM AutomatonIsRight == SearchSpec => []AutomatonFindsBorders
<1>1. SearchIInv => AutomatonFindsBorders
  BY DEF SearchIInv
<1>. QED BY <1>1, SearchIInvHolds, PTL

\* KMP's result is N for a text without the pattern and for no other: where it has
\* found the pattern, i-N is not even positive.
LEMMA FoundIsNotN ==
    ASSUME SearchIInv, searchPc # "args"
    PROVE  FoundByKMP = N <=> Occurrences = {}
<1>1. M \in Nat \ {0} /\ N \in Nat
  BY Strings DEF SearchIInv
<1>2. CASE Occurrences = {}
  BY <1>2 DEF FoundByKMP
<1>3. CASE Occurrences # {}
  <2>1. Occurrences \in SUBSET Nat /\ \A p \in Occurrences : p <= N - M
    BY <1>1 DEF Occurrences
  <2>2. Min(Occurrences) \in Nat /\ Min(Occurrences) <= N - M
    BY <1>3, <2>1, MinIsLeast
  <2>3. Min(Occurrences) + M - N # N
    BY ONLY <1>1, <2>2
  <2>. QED BY <1>3, <2>3 DEF FoundByKMP
<1>. QED BY <1>2, <1>3

\* Neither search passes an occurrence, KMP returns N exactly without one, and
\* BoyerMoore returns where the first one starts, for any pattern and text (lines
\* 23-26 and 71-90).
THEOREM NoOccurrenceIsPassed == SearchSpec => []NoOccurrencePassed
<1>1. SearchIInv => NoOccurrencePassed
  <2>. SUFFICES ASSUME SearchIInv PROVE NoOccurrencePassed
    OBVIOUS
  <2>1. searchPc = "scan" =>
           /\ \A p \in Occurrences : at <= p + M
           /\ state = M <=> at - M \in Occurrences
    BY ScannedSoFar DEF SearchIInv, Scanned
  <2>2. searchPc = "align" => answer[1] = FoundByKMP /\ \A p \in Occurrences : at <= p
    BY DEF SearchIInv, Aligned
  <2>3. searchPc = "done" =>
           /\ answer[1] = FoundByKMP
           /\ answer[2] = IF Occurrences = {} THEN N ELSE Min(Occurrences)
    BY DEF SearchIInv, Answered, FoundByKMP
  <2>4. searchPc \in {"align", "done"} => (answer[1] = N <=> Occurrences = {})
    BY <2>2, <2>3, FoundIsNotN
  <2>. QED BY <2>1, <2>2, <2>3, <2>4 DEF NoOccurrencePassed
<1>. QED BY <1>1, SearchIInvHolds, PTL

-----------------------------------------------------------------------------
(* LabelingBalls: the invariant, and why the last free ball may go first.  *)

\* The balls that have a weight.
Done == {x \in Ball : grad[x] = -1}

\* Some ball without a weight, or one that is not there, has to outweigh y.
Blocked(y) == \E b \in (0..MaxBall) \ Done : y \in net[b]

\* input() has read one pair at most.
OneRelation ==
    \A b, c \in 0..MaxBall : \A x \in net[b], y \in net[c] : b = c /\ x = y

\* The weights given are the heaviest ones, each to one ball.
Heaviest ==
    /\ Done \subseteq 1..balls /\ Cardinality(Done) = given
    /\ \A x \in Done : weight[x] \in (balls - given + 1)..balls
    /\ \A x, y \in Done : weight[x] = weight[y] => x = y
    /\ \A z \in (balls - given + 1)..balls : \E x \in Done : weight[x] = z

\* They respect the relation.
Respected ==
    \A b \in 0..MaxBall : \A x \in net[b] \cap Done : b \in Done /\ weight[x] < weight[b]

\* A ball of a higher number that got its weight later than x, or has none yet, had
\* to wait for a ball that is no heavier than x.
Waited ==
    \A x \in Done : \A y \in 1..balls :
        y > x /\ (y \in Done => weight[y] < weight[x]) =>
            \E b \in 0..MaxBall : y \in net[b] /\ (b \in Done => weight[b] <= weight[x])

BallsIInv ==
    /\ BallsTypeOK
    /\ ballsPc = "work" =>
          /\ balls >= 1 /\ labels = <<>>
          /\ OneRelation /\ Heaviest /\ Respected /\ Waited
          /\ \A y \in Ball \ Done : grad[y] = IF Blocked(y) THEN 1 ELSE 0
    /\ WorkGivesLeast

\* A labelling that was given out from the heaviest weight down, each to the last
\* ball that did not have to wait, is the least one.  Were another one v less, at p
\* first, then all the balls that w makes no heavier than p, as they come before p
\* or have to be lighter than such a ball, would have less than that weight in v,
\* which is one weight too few.
LEMMA LastFirstIsLeast ==
    ASSUME balls \in Nat, balls <= MaxBall, NEW w \in Labellings, NEW v \in Labellings, v # w,
           \A z \in 1..balls : \E x \in 1..balls : w[x] = z,
           \A x, y \in 1..balls : y > x /\ w[y] < w[x] =>
               \E b \in 1..balls : y \in net[b] /\ w[b] <= w[x]
    PROVE  LighterFirst(w, v)
<1>0. w \in [1..balls -> 1..balls] /\ v \in [1..balls -> 1..balls]
  BY DEF Labellings, LabellingsOf
<1>1. /\ \A x \in 1..balls : w[x] \in 1..balls /\ v[x] \in 1..balls
      /\ \A x, y \in 1..balls : (w[x] = w[y] => x = y) /\ (v[x] = v[y] => x = y)
  BY DEF Labellings, LabellingsOf
<1>2. \A b, y \in 1..balls : y \in net[b] => w[y] < w[b] /\ v[y] < v[b]
  <2>1. 1..balls \subseteq 0..MaxBall
    BY BallsAssumption
  <2>2. \A b, y \in 1..balls : y \in net[b] => y \in net[b] \cap (1..balls)
    OBVIOUS
  <2>. QED BY <2>1, <2>2 DEF Labellings, LabellingsOf
<1>3. PICK p \in 1..balls : w[p] # v[p] /\ \A r \in 1..balls : w[r] # v[r] => p <= r
  <2> DEFINE D == {r \in 1..balls : w[r] # v[r]}
  <2>1. D \in SUBSET Nat
    OBVIOUS
  <2>2. D # {}
    BY <1>0
  <2>3. \A r : r \in D <=> r \in 1..balls /\ w[r] # v[r]
    OBVIOUS
  <2> HIDE DEF D
  <2>4. PICK r \in D : \A o \in D : r <= o
    BY <2>1, <2>2, NatMin
  <2>. QED BY <2>3, <2>4
<1>4. \A r \in 1..(p - 1) : w[r] = v[r]
  BY <1>3
<1>5. CASE w[p] < v[p]
  <2>1. p \in DOMAIN v
    BY <1>0
  <2>. QED BY <1>4, <1>5, <2>1 DEF LighterFirst
<1>6. CASE v[p] < w[p]
  <2> DEFINE m == w[p]
             Bad == {y \in 1..balls : w[y] <= m /\ m <= v[y]}
  <2>1. m \in 1..balls
    BY <1>1
  <2>2. Bad = {}
    <3>. SUFFICES ASSUME Bad # {} PROVE FALSE
      OBVIOUS
    <3> DEFINE R == {m - w[y] : y \in Bad}
    <3>1. R \in SUBSET Nat /\ R # {}
      <4>1. \A y \in Bad : m - w[y] \in Nat
        BY <1>1, <2>1
      <4>. QED BY <4>1
    <3>2. PICK g \in R : \A o \in R : g <= o
      <4> HIDE DEF R
      <4>. QED BY <3>1, NatMin
    <3>3. PICK y \in Bad : g = m - w[y]
      BY <3>2
    <3>4. /\ y \in 1..balls /\ p \in Nat /\ w[y] \in Nat /\ v[y] \in Nat /\ m \in Nat
          /\ w[y] <= m /\ m <= v[y]
      BY <1>1, <2>1, <3>3
    <3>5. y > p
      <4>1. y # p
        BY <1>6, <3>4, <1>1
      <4>2. ~ y < p
        <5>. SUFFICES ASSUME y < p PROVE FALSE
          OBVIOUS
        <5>1. w[y] = v[y]
          <6>1. y \in 1..(p - 1)
            BY ONLY y < p, y \in 1..balls, p \in 1..balls, <3>4
          <6>. QED BY ONLY <1>4, <6>1
        <5>2. w[y] = m
          <6> HIDE DEF m
          <6>. QED BY ONLY <3>4, <5>1
        <5>. QED BY <1>1, <3>4, <4>1, <5>2
      <4>. QED BY ONLY <4>1, <4>2, y \in 1..balls, p \in 1..balls, balls \in Nat
    <3>6. w[y] < w[p]
      BY <1>1, <3>4, <3>5
    <3>7. PICK b \in 1..balls : y \in net[b] /\ w[b] <= m
      BY <3>4, <3>5, <3>6
    <3>8. w[y] < w[b] /\ v[y] < v[b] /\ w[b] \in Nat /\ v[b] \in Nat
      BY <1>1, <1>2, <3>4, <3>7
    <3>9. b \in Bad
      <4>1. m <= v[b]
        BY <3>4, <3>8
      <4>. QED BY <3>7, <4>1
    <3>10. m - w[b] \in R
      BY <3>9
    <3>11. m - w[y] <= m - w[b]
      BY <3>2, <3>3, <3>10
    <3> HIDE DEF m, R
    <3>. QED BY <3>4, <3>8, <3>11
  <2>3. \A y \in 1..balls : w[y] <= m => v[y] \in 1..(m - 1)
    <3>. SUFFICES ASSUME NEW y \in 1..balls, w[y] <= m PROVE v[y] \in 1..(m - 1)
      OBVIOUS
    <3>1. v[y] \in 1..balls /\ w[y] \in 1..balls
      BY <1>1
    <3>2. ~ m <= v[y]
      BY <2>2
    <3> HIDE DEF m, Bad
    <3>. QED BY <2>1, <3>1, <3>2
  <2> HIDE DEF m, Bad
  <2> DEFINE Of(z) == CHOOSE x \in 1..balls : w[x] = z
             f == [z \in 1..m |-> v[Of(z)]]
  <2>4. \A z \in 1..m : Of(z) \in 1..balls /\ w[Of(z)] = z
    <3>. SUFFICES ASSUME NEW z \in 1..m PROVE Of(z) \in 1..balls /\ w[Of(z)] = z
      OBVIOUS
    <3>1. z \in 1..balls
      BY <2>1
    <3>2. \E x \in 1..balls : w[x] = z
      BY <3>1
    <3>. QED BY <3>2
  <2> HIDE DEF Of
  <2>5. f \in [1..m -> 1..(m - 1)]
    BY <2>1, <2>3, <2>4
  <2>6. Cardinality(1..m) = m /\ Cardinality(1..(m - 1)) = m - 1 /\ IsFiniteSet(1..m) /\ IsFiniteSet(1..(m - 1))
    <3>1. m \in Nat /\ m - 1 \in Nat
      BY ONLY <2>1, balls \in Nat
    <3>. QED BY ONLY <3>1, IntervalSize
  <2>7. PICK z, u \in 1..m : z # u /\ f[z] = f[u]
    <3>1. Cardinality(1..(m - 1)) < Cardinality(1..m)
      BY <2>1, <2>6
    <3> DEFINE S == 1..m
               T == 1..(m - 1)
    <3>2. IsFiniteSet(S) /\ IsFiniteSet(T) /\ Cardinality(T) < Cardinality(S) /\ f \in [S -> T]
      BY <2>5, <2>6, <3>1
    <3> HIDE DEF f, S, T
    <3>3. \E x, y \in S : x # y /\ f[x] = f[y]
      BY <3>2, FS_PigeonHole
    <3>. QED BY <3>3 DEF S
  <2>8. v[Of(z)] = v[Of(u)]
    BY <2>7
  <2>9. Of(z) = Of(u)
    BY ONLY <1>1, <2>4, <2>8, z \in 1..m, u \in 1..m
  <2>10. z = u
    BY ONLY <2>4, <2>9, z \in 1..m, u \in 1..m
  <2>. QED BY <2>7, <2>10
<1>7. w[p] \in 1..balls /\ v[p] \in 1..balls /\ w[p] # v[p]
  BY <1>1, <1>3
<1>8. w[p] < v[p] \/ v[p] < w[p]
  BY ONLY <1>7, balls \in Nat
<1>. QED BY <1>5, <1>6, <1>8

-----------------------------------------------------------------------------
(* The run of the program that labels balls. *)

\* Where nothing that has been printed or read of a case is touched, WorkGivesLeast
\* says what it said.
LEMMA WorkUntouched ==
    ASSUME balls' = balls, net' = net, labels' = labels
    PROVE  WorkGivesLeast' <=> WorkGivesLeast
<1>1. Labellings' = Labellings
  BY DEF Labellings, LabellingsOf
<1>. QED BY <1>1 DEF WorkGivesLeast, IsLeastOf, LighterFirst

\* Lines 107-108.
LEMMA ReadCountKeeps == ASSUME BallsIInv, ReadCount PROVE BallsIInv'
<1>1. /\ ballsPc' = "input" /\ ballsFile' \in BallsFiles
      /\ unread' = LinesOf(ballsFile') /\ cases' = Len(ballsFile')
      /\ balls' = balls /\ given' = given /\ net' = net /\ grad' = grad /\ weight' = weight
      /\ labels' = labels
  BY DEF ReadCount
<1>2. unread' \in Seq(Ball \X (0..MaxBall)) /\ cases' \in Nat
  BY <1>1, BallsAssumption
<1>3. BallsTypeOK'
  BY <1>1, <1>2 DEF BallsIInv, BallsTypeOK, Ball
<1>4. WorkGivesLeast'
  BY <1>1, WorkUntouched DEF BallsIInv
<1>. QED BY <1>1, <1>3, <1>4 DEF BallsIInv

\* Lines 49-77.
LEMMA InputKeeps == ASSUME BallsIInv, Input PROVE BallsIInv'
<1>0. /\ unread \in Seq(Ball \X (0..MaxBall)) /\ unread # <<>> /\ balls' = unread[1][1]
      /\ \/ /\ Len(unread) > 1 /\ Relation(unread[2][1], unread[2][2])
            /\ unread' = SubSeq(unread, 3, Len(unread))
         \/ NoRelation /\ unread' = Tail(unread)
  BY DEF Input, BallsIInv, BallsTypeOK
<1>1. /\ ballsPc' = "work" /\ cases' = cases - 1 /\ cases > 0 /\ balls' \in Ball /\ given' = 0
      /\ labels' = <<>> /\ weight' = weight /\ ballsFile' = ballsFile
      /\ NoRelation \/ \E a \in Ball, b \in 0..MaxBall : Relation(a, b)
      /\ unread' \in Seq(Ball \X (0..MaxBall))
  <2> DEFINE S == Ball \X (0..MaxBall)
  <2>1. \A p \in S : p[1] \in Ball /\ p[2] \in 0..MaxBall
    OBVIOUS
  <2>2. unread \in Seq(S) /\ unread # <<>>
    BY <1>0
  <2> HIDE DEF S
  <2>3. unread[1] \in S /\ (Len(unread) > 1 => unread[2] \in S)
    BY ONLY <2>2
  <2>4. Tail(unread) \in Seq(S) /\ SubSeq(unread, 3, Len(unread)) \in Seq(S)
    BY ONLY <2>2
  <2>5. balls' \in Ball
    BY <1>0, <2>1, <2>3
  <2>6. NoRelation \/ \E a \in Ball, b \in 0..MaxBall : Relation(a, b)
    BY <1>0, <2>1, <2>3
  <2>7. unread' \in Seq(S)
    BY <1>0, <2>4
  <2>. QED BY <2>5, <2>6, <2>7 DEF Input, S
<1>2. /\ net' \in [0..MaxBall -> SUBSET Ball] /\ grad' \in [Ball -> {0, 1}] /\ OneRelation'
      /\ \A y \in Ball : grad'[y] = IF \E b \in 0..MaxBall : y \in net'[b] THEN 1 ELSE 0
  <2>1. CASE NoRelation
    BY <2>1 DEF NoRelation, OneRelation
  <2>2. ASSUME NEW a \in Ball, NEW b \in 0..MaxBall, Relation(a, b)
        PROVE  /\ net' \in [0..MaxBall -> SUBSET Ball] /\ grad' \in [Ball -> {0, 1}] /\ OneRelation'
               /\ \A y \in Ball : grad'[y] = IF \E c \in 0..MaxBall : y \in net'[c] THEN 1 ELSE 0
    BY <2>2 DEF Relation, OneRelation
  <2>. QED BY <1>1, <2>1, <2>2
<1>3. Done' = {}
  BY <1>2 DEF Done
<1>4. balls' \in Nat /\ balls' >= 1 /\ balls' \in 0..MaxBall
  BY <1>1, BallsAssumption DEF Ball
<1>5. Heaviest'
  <2>1. \A z \in (balls' - given' + 1)..balls' : FALSE
    <3>1. \A m \in Nat : \A z \in (m - 0 + 1)..m : FALSE
      OBVIOUS
    <3>. QED BY ONLY <1>1, <1>4, <3>1
  <2>. QED BY <1>1, <1>3, <2>1, FS_EmptySet DEF Heaviest
<1>6. Respected' /\ Waited'
  BY <1>3 DEF Respected, Waited
<1>7. BallsTypeOK'
  <2>1. cases' \in Nat /\ ballsFile' \in BallsFiles \cup {<<>>}
    BY <1>1 DEF BallsIInv, BallsTypeOK
  <2>2. given' \in 0..balls'
    BY <1>1, <1>4
  <2>3. weight' \in [Ball' -> 0..MaxBall] /\ grad' \in [Ball' -> {-1, 0, 1}] /\ labels' \in Seq(Int)
    BY <1>1, <1>2 DEF BallsIInv, BallsTypeOK, Ball
  <2>. QED BY <1>1, <1>2, <1>4, <2>1, <2>2, <2>3 DEF BallsTypeOK, Ball
<1>8. \A y \in Ball' \ Done' : grad'[y] = IF Blocked(y)' THEN 1 ELSE 0
  BY <1>2, <1>3 DEF Blocked, Ball
<1>. QED BY <1>1, <1>2, <1>4, <1>5, <1>6, <1>7, <1>8 DEF BallsIInv, WorkGivesLeast

\* The ball that is chosen is free, and the last such (line 84).
LEMMA ChosenIsLast ==
    ASSUME BallsTypeOK, Free # {}
    PROVE  Chosen \in Free /\ \A y \in Free : y <= Chosen
<1>1. balls \in Nat /\ Free \in SUBSET ((-1)..balls)
  BY BallsAssumption DEF BallsTypeOK, Free
<1>. QED BY <1>1, MaxIsGreatest DEF Chosen

\* Lines 84-94.
LEMMA WeighKeeps == ASSUME BallsIInv, Weigh PROVE BallsIInv'
<1> DEFINE x == Chosen
           top == balls - given
<1>1. /\ ballsPc = "work" /\ ballsPc' = "work" /\ given < balls /\ Free # {} /\ given' = given + 1
      /\ ballsFile' = ballsFile /\ unread' = unread /\ cases' = cases
      /\ balls' = balls /\ net' = net /\ labels' = labels
      /\ weight' = [weight EXCEPT ![x] = top]
      /\ grad' = [a \in Ball |-> IF a = x THEN -1
                                 ELSE IF a \in net[x] THEN grad[a] - 1 ELSE grad[a]]
  BY DEF Weigh
<1>2. /\ balls \in 1..MaxBall /\ given \in 0..(balls - 1) /\ top \in 1..balls
      /\ net \in [0..MaxBall -> SUBSET Ball] /\ grad \in [Ball -> {-1, 0, 1}]
      /\ weight \in [Ball -> 0..MaxBall] /\ labels = <<>> /\ Ball = 1..MaxBall
  BY <1>1, BallsAssumption DEF BallsIInv, BallsTypeOK, Ball
<1>3. OneRelation /\ Heaviest /\ Respected /\ Waited
      /\ \A y \in Ball \ Done : grad[y] = IF Blocked(y) THEN 1 ELSE 0
  BY <1>1 DEF BallsIInv
<1>4. /\ x \in 1..balls /\ x \in Ball /\ x \in 0..MaxBall /\ grad[x] = 0 /\ x \notin Done
      /\ \A y \in 1..balls : grad[y] = 0 => y <= x
  <2>1. x \in Free /\ \A y \in Free : y <= x
    BY <1>1, ChosenIsLast DEF BallsIInv
  <2>2. x \in 1..balls /\ grad[x] = 0 /\ \A y \in 1..balls : grad[y] = 0 => y <= x
    BY <2>1 DEF Free
  <2>3. x \in Ball /\ x \in 0..MaxBall
    <3> HIDE DEF x, top
    <3>. QED BY ONLY <1>2, <2>2, BallsAssumption
  <2>4. x \notin Done
    BY <2>2 DEF Done
  <2>. QED BY <2>2, <2>3, <2>4
<1> HIDE DEF x, top
<1>5. ~Blocked(x)
  BY <1>3, <1>4
<1>6. \A a \in net[x] : a \in Ball \ Done /\ a # x /\ grad[a] = 1
  <2>. SUFFICES ASSUME NEW a \in net[x] PROVE a \in Ball \ Done /\ a # x /\ grad[a] = 1
    OBVIOUS
  <2>1. a \in Ball
    BY <1>2, <1>4
  <2>2. a \notin Done
    BY <1>3, <1>4, <2>1 DEF Respected
  <2>3. Blocked(a)
    BY <1>4 DEF Blocked
  <2>. QED BY <1>3, <1>5, <2>1, <2>2, <2>3
<1>7. Done' = Done \cup {x} /\ grad' \in [Ball -> {-1, 0, 1}]
  <2>1. \A a \in Ball : grad[a] \in {-1, 0, 1}
    BY <1>2
  <2>2. \A a \in Ball : grad'[a] = IF a = x THEN -1 ELSE IF a \in net[x] THEN 0 ELSE grad[a]
    BY <1>1, <1>6
  <2>3. grad' \in [Ball -> {-1, 0, 1}]
    BY <1>1, <1>6, <2>1
  <2>. QED BY <1>4, <1>6, <2>2, <2>3 DEF Done, Ball
<1>8. /\ weight' \in [Ball -> 0..MaxBall] /\ weight'[x] = top
      /\ \A y \in Ball : y # x => weight'[y] = weight[y]
  <2>1. top \in 0..MaxBall /\ weight \in [Ball -> 0..MaxBall] /\ x \in Ball
    BY ONLY <1>2, <1>4, BallsAssumption
  <2>. QED BY ONLY <1>1, <2>1
<1>9. /\ Done \subseteq 1..balls /\ Done \subseteq Ball /\ Cardinality(Done) = given /\ IsFiniteSet(Done)
      /\ \A y \in Done : weight[y] \in (top + 1)..balls /\ y # x /\ weight'[y] = weight[y]
      /\ \A y, z \in Done : weight[y] = weight[z] => y = z
      /\ \A z \in (top + 1)..balls : \E y \in Done : weight[y] = z
  <2>1. Done \subseteq 1..balls /\ IsFiniteSet(1..balls)
    BY <1>2, <1>3, IntervalSize DEF Heaviest
  <2>2. IsFiniteSet(Done)
    BY <2>1, FS_Subset
  <2>3. Done \subseteq Ball
    BY DEF Done
  <2>. QED BY <1>3, <1>4, <1>8, <2>1, <2>2, <2>3 DEF Heaviest, top
<1>10. Heaviest'
  <2>1. Cardinality(Done') = given + 1
    BY <1>2, <1>4, <1>7, <1>9, FS_AddElement
  <2>2. balls - (given + 1) + 1 = top /\ top \in Nat /\ balls \in Nat
    BY <1>2 DEF top
  <2>3. \A y \in Done' : weight'[y] \in top..balls
    BY <1>2, <1>7, <1>8, <1>9, <2>2
  <2>4. \A y, z \in Done' : weight'[y] = weight'[z] => y = z
    <3>1. \A y \in Done : weight'[y] # top
      BY <1>9, <2>2
    <3>. QED BY <1>7, <1>8, <1>9, <3>1
  <2>5. \A z \in top..balls : \E y \in Done' : weight'[y] = z
    <3>1. \A z \in top..balls : z = top \/ z \in (top + 1)..balls
      BY <2>2
    <3>. QED BY <1>7, <1>8, <1>9, <3>1
  <2>6. Done' \subseteq 1..balls
    BY <1>4, <1>7, <1>9
  <2>. QED BY <1>1, <2>1, <2>2, <2>3, <2>4, <2>5, <2>6 DEF Heaviest
<1>11. Respected'
  <2>. SUFFICES ASSUME NEW b \in 0..MaxBall, NEW a \in net[b] \cap Done'
                PROVE  b \in Done' /\ weight'[a] < weight'[b]
    BY <1>1 DEF Respected
  <2>1. CASE a = x
    <3>1. b \in Done
      BY <1>4, <1>5, <2>1 DEF Blocked
    <3>. QED BY <1>2, <1>7, <1>8, <1>9, <2>1, <3>1
  <2>2. CASE a # x
    <3>1. a \in Done /\ b \in Done /\ weight[a] < weight[b]
      BY <1>3, <1>7, <2>2 DEF Respected
    <3>. QED BY <1>7, <1>9, <3>1
  <2>. QED BY <2>1, <2>2
<1>12. Waited'
  <2>. SUFFICES ASSUME NEW u \in Done', NEW y \in 1..balls, y > u,
                       y \in Done' => weight'[y] < weight'[u]
                PROVE  \E b \in 0..MaxBall : y \in net[b] /\ (b \in Done' => weight'[b] <= weight'[u])
    BY <1>1 DEF Waited
  <2>1. CASE u = x
    <3>1. y \notin Done'
      <4>. SUFFICES ASSUME y \in Done' PROVE FALSE
        OBVIOUS
      <4>1. y \in Done
        <5>1. y # x
          BY ONLY <1>2, <1>4, <2>1, y > u, y \in 1..balls
        <5>. QED BY <1>7, <5>1
      <4>2. weight'[y] < top /\ weight'[y] \in (top + 1)..balls
        BY <1>8, <1>9, <2>1, <4>1
      <4>. QED BY ONLY <1>2, <4>2
    <3>2. y \in Ball \ Done /\ y # x /\ grad[y] # 0
      <4>1. y \in Ball
        BY ONLY <1>2, y \in 1..balls, BallsAssumption
      <4>2. y \notin Done /\ y # x
        BY <1>7, <3>1
      <4>3. grad[y] # 0
        BY ONLY <1>2, <1>4, <2>1, y > u, y \in 1..balls
      <4>. QED BY <4>1, <4>2, <4>3
    <3>3. PICK b \in (0..MaxBall) \ Done : y \in net[b]
      BY <1>3, <3>2 DEF Blocked
    <3>4. b \in Done' => weight'[b] <= weight'[u]
      BY <1>2, <1>7, <1>8, <2>1, <3>3
    <3>. QED BY <3>3, <3>4
  <2>2. CASE u # x
    <3>1. u \in Done /\ weight'[u] = weight[u] /\ weight[u] \in (top + 1)..balls
      BY <1>7, <1>9, <2>2
    <3>2. y \in Done => weight[y] < weight[u]
      BY <1>7, <1>9, <3>1
    <3>3. PICK b \in 0..MaxBall : y \in net[b] /\ (b \in Done => weight[b] <= weight[u])
      BY <1>3, <3>1, <3>2 DEF Waited
    <3>4. b \in Done' => weight'[b] <= weight'[u]
      BY <1>2, <1>7, <1>8, <1>9, <3>1, <3>3
    <3>. QED BY <3>3, <3>4
  <2>. QED BY <2>1, <2>2
<1>13. ASSUME NEW y \in Ball \ Done' PROVE grad'[y] = IF Blocked(y)' THEN 1 ELSE 0
  <2>1. y \in Ball \ Done /\ y # x /\ (grad[y] = IF Blocked(y) THEN 1 ELSE 0)
    BY <1>3, <1>7
  <2>2. Blocked(y)' <=> \E b \in (0..MaxBall) \ Done : b # x /\ y \in net[b]
    BY <1>1, <1>7 DEF Blocked
  <2>3. CASE y \in net[x]
    <3>1. grad'[y] = 0
      BY <1>1, <1>6, <2>1, <2>3
    <3>2. ~Blocked(y)'
      BY <1>3, <1>4, <2>2, <2>3 DEF OneRelation
    <3>. QED BY <3>1, <3>2
  <2>4. CASE y \notin net[x]
    <3>1. grad'[y] = grad[y]
      BY <1>1, <2>1, <2>4
    <3>2. Blocked(y)' <=> Blocked(y)
      BY <2>2, <2>4 DEF Blocked
    <3>. QED BY <2>1, <3>1, <3>2
  <2>. QED BY <2>3, <2>4
<1>14. OneRelation'
  BY <1>1, <1>3 DEF OneRelation
<1>15. BallsTypeOK'
  <2>1. given + 1 \in 0..balls
    BY <1>2
  <2>. QED BY <1>1, <1>7, <1>8, <2>1 DEF BallsIInv, BallsTypeOK, Ball
<1>16. Ball' = Ball
  BY DEF Ball
<1>. QED BY <1>1, <1>2, <1>10, <1>11, <1>12, <1>13, <1>14, <1>15, <1>16 DEF BallsIInv, WorkGivesLeast

\* Lines 86-90.  The ball to be given a weight next is one of greatest number without
\* one: in a labelling, the one of greatest weight of them waits for none of them.
LEMMA GiveUpKeeps == ASSUME BallsIInv, GiveUp PROVE BallsIInv'
<1>1. /\ ballsPc = "work" /\ ballsPc' = "input" /\ given < balls /\ Free = {} /\ labels' = <<-1>>
      /\ ballsFile' = ballsFile /\ unread' = unread /\ cases' = cases
      /\ balls' = balls /\ given' = given /\ net' = net /\ grad' = grad /\ weight' = weight
  BY DEF GiveUp
<1>2. /\ balls \in 1..MaxBall /\ given \in 0..(balls - 1)
      /\ net \in [0..MaxBall -> SUBSET Ball] /\ grad \in [Ball -> {-1, 0, 1}]
      /\ Ball = 1..MaxBall /\ OneRelation /\ Heaviest
      /\ \A y \in Ball \ Done : grad[y] = IF Blocked(y) THEN 1 ELSE 0
  BY <1>1, BallsAssumption DEF BallsIInv, BallsTypeOK, Ball
<1>3. \A y \in (1..balls) \ Done : Blocked(y)
  <2>. SUFFICES ASSUME NEW y \in (1..balls) \ Done PROVE Blocked(y)
    OBVIOUS
  <2>1. y \in Ball \ Done
    BY ONLY <1>2, BallsAssumption
  <2>2. grad[y] # 0
    BY <1>1 DEF Free
  <2>. QED BY <1>2, <2>1, <2>2
<1>4. Labellings = {}
  <2>. SUFFICES ASSUME NEW v \in Labellings PROVE FALSE
    OBVIOUS
  <2>1. \E y \in 1..balls : y \notin Done
    <3>. SUFFICES ASSUME \A y \in 1..balls : y \in Done PROVE FALSE
      OBVIOUS
    <3>1. Done = 1..balls /\ Cardinality(Done) = given
      BY <1>2 DEF Heaviest
    <3>2. balls \in Nat
      BY <1>2
    <3>3. Cardinality(1..balls) = balls
      BY ONLY <3>2, IntervalSize
    <3>. QED BY <1>2, <3>1, <3>3
  <2>2. \A y \in 1..balls : v[y] \in 1..balls
    BY DEF Labellings, LabellingsOf
  <2> DEFINE S == {v[y] : y \in (1..balls) \ Done}
  <2>3. S \in SUBSET ((-1)..balls) /\ S # {}
    <3>1. \A y \in (1..balls) \ Done : v[y] \in (-1)..balls
      BY <1>2, <2>2
    <3>. QED BY <2>1, <3>1
  <2>4. balls \in Nat
    BY <1>2
  <2>5. PICK g \in S : \A d \in S : d <= g
    <3> HIDE DEF S
    <3>. QED BY <2>3, <2>4, MaxIsGreatest
  <2>6. PICK y \in (1..balls) \ Done : g = v[y]
    OBVIOUS
  <2>7. PICK b \in (0..MaxBall) \ Done : y \in net[b]
    BY <1>3 DEF Blocked
  <2>8. b \in 1..balls /\ v[y] < v[b]
    <3>1. y \in net[b] \cap (1..balls)
      BY <2>7
    <3>. QED BY <3>1 DEF Labellings, LabellingsOf
  <2>9. v[b] \in S
    BY <2>7, <2>8
  <2>10. v[b] <= v[y] /\ v[b] \in 1..balls /\ v[y] \in 1..balls
    BY <2>2, <2>5, <2>6, <2>8, <2>9
  <2>. QED BY ONLY <2>4, <2>8, <2>10
<1>5. Labellings' = Labellings
  BY <1>1 DEF Labellings, LabellingsOf
<1>6. BallsTypeOK'
  <2>1. labels' \in Seq(Int)
    BY <1>1
  <2>. QED BY <1>1, <2>1 DEF BallsIInv, BallsTypeOK, Ball
<1>. QED BY <1>1, <1>4, <1>5, <1>6 DEF BallsIInv, WorkGivesLeast, IsLeastOf

\* Lines 96-99.
LEMMA PrintWeightsKeeps == ASSUME BallsIInv, PrintWeights PROVE BallsIInv'
<1>1. /\ ballsPc = "work" /\ ballsPc' = "input" /\ given = balls /\ labels' = SubSeq(weight, 1, balls)
      /\ ballsFile' = ballsFile /\ unread' = unread /\ cases' = cases
      /\ balls' = balls /\ given' = given /\ net' = net /\ grad' = grad /\ weight' = weight
  BY DEF PrintWeights
<1>2. /\ balls \in 1..MaxBall /\ weight \in [Ball -> 0..MaxBall] /\ Ball = 1..MaxBall
      /\ Heaviest /\ Respected /\ Waited
  BY <1>1, BallsAssumption DEF BallsIInv, BallsTypeOK, Ball
<1>3. balls \in Nat /\ balls >= 1 /\ balls <= MaxBall /\ MaxBall \in Nat
  BY <1>2, BallsAssumption
<1>4. Done = 1..balls
  <2>1. Cardinality(1..balls) = balls /\ IsFiniteSet(1..balls)
    BY ONLY <1>3, IntervalSize
  <2>2. Done \subseteq 1..balls /\ Cardinality(Done) = balls
    BY <1>1, <1>2 DEF Heaviest
  <2>. QED BY <2>1, <2>2, FS_Subset
<1> DEFINE w == [y \in 1..balls |-> weight[y]]
<1>5. labels' = w
  <2>1. weight \in Seq(0..MaxBall) /\ Len(weight) = MaxBall
    BY <1>2, <1>3
  <2>2. SubSeq(weight, 1, balls) = [y \in 1..balls |-> weight[y]]
    BY ONLY <1>3, <2>1
  <2>. QED BY <1>1, <2>2
<1>6. /\ \A y \in 1..balls : weight[y] \in 1..balls
      /\ \A x, y \in 1..balls : weight[x] = weight[y] => x = y
      /\ \A z \in 1..balls : \E x \in 1..balls : weight[x] = z
  <2>1. balls - given + 1 = 1
    BY <1>1, <1>3
  <2>. QED BY <1>2, <1>4, <2>1 DEF Heaviest
<1>7. \A b \in 0..MaxBall : \A x \in net[b] \cap (1..balls) : b \in 1..balls /\ weight[x] < weight[b]
  BY <1>2, <1>4 DEF Respected
<1>8. w \in Labellings
  <2>1. w \in [1..balls -> 1..balls]
    BY <1>6
  <2>2. \A a, b \in 1..balls : a # b => w[a] # w[b]
    BY <1>6
  <2>3. \A b \in 0..MaxBall : \A a \in net[b] \cap (1..balls) : b \in 1..balls /\ w[a] < w[b]
    BY <1>7
  <2> HIDE DEF w
  <2>. QED BY <2>1, <2>2, <2>3 DEF Labellings, LabellingsOf
<1>9. \A v \in Labellings : v = w \/ LighterFirst(w, v)
  <2>. SUFFICES ASSUME NEW v \in Labellings, v # w PROVE LighterFirst(w, v)
    OBVIOUS
  <2>1. \A z \in 1..balls : \E x \in 1..balls : w[x] = z
    BY <1>6
  <2>2. \A x, y \in 1..balls : y > x /\ w[y] < w[x] =>
            \E b \in 1..balls : y \in net[b] /\ w[b] <= w[x]
    <3>. SUFFICES ASSUME NEW x \in 1..balls, NEW y \in 1..balls, y > x, weight[y] < weight[x]
                  PROVE  \E b \in 1..balls : y \in net[b] /\ weight[b] <= weight[x]
      OBVIOUS
    <3>1. PICK b \in 0..MaxBall : y \in net[b] /\ (b \in Done => weight[b] <= weight[x])
      BY <1>2, <1>4 DEF Waited
    <3>2. b \in 1..balls
      BY <1>7, <3>1
    <3>. QED BY <1>4, <3>1, <3>2
  <2> HIDE DEF w
  <2>. QED BY <1>3, <1>8, <2>1, <2>2, LastFirstIsLeast
<1>10. w # <<-1>> /\ w \in Seq(Int)
  <2>1. w[1] \in 1..balls
    BY <1>3, <1>6
  <2>2. w[1] # -1
    BY <2>1
  <2>3. w \in [1..balls -> Int]
    BY <1>6
  <2>4. w \in Seq(Int)
    BY <1>3, <2>3
  <2> HIDE DEF w
  <2>. QED BY <2>2, <2>4
<1> HIDE DEF w
<1>11. WorkGivesLeast'
  <2>1. Labellings' = Labellings
    BY <1>1 DEF Labellings, LabellingsOf
  <2>2. labels' \in Labellings' /\ \A v \in Labellings' : v = labels' \/ LighterFirst(labels', v)
    BY <1>5, <1>8, <1>9, <2>1
  <2>. QED BY <1>5, <1>10, <2>2 DEF WorkGivesLeast, IsLeastOf, LighterFirst
<1>12. BallsTypeOK'
  BY <1>1, <1>5, <1>10 DEF BallsIInv, BallsTypeOK, Ball
<1>. QED BY <1>1, <1>11, <1>12 DEF BallsIInv

\* BallsIInv holds of every state of the program.
LEMMA BallsIInvHolds == BallsSpec => []BallsIInv
<1>1. BallsInit => BallsIInv
  <2>. SUFFICES ASSUME BallsInit PROVE BallsIInv
    OBVIOUS
  <2>1. /\ ballsPc = "start" /\ labels = <<>> /\ cases = 0 /\ balls = 0 /\ given = 0
        /\ ballsFile = <<>> /\ unread = <<>>
    BY DEF BallsInit
  <2>2. cases \in Nat /\ balls \in 0..MaxBall /\ given \in 0..balls
    BY <2>1, BallsAssumption
  <2>3. /\ net \in [0..MaxBall -> SUBSET Ball] /\ grad \in [Ball -> {-1, 0, 1}]
        /\ weight \in [Ball -> 0..MaxBall] /\ labels \in Seq(Int)
    BY BallsAssumption DEF BallsInit
  <2>. QED BY <2>1, <2>2, <2>3 DEF BallsIInv, BallsTypeOK, WorkGivesLeast
<1>2. BallsIInv /\ [BallsNext]_ballsVars => BallsIInv'
  <2>. SUFFICES ASSUME BallsIInv, [BallsNext]_ballsVars PROVE BallsIInv'
    OBVIOUS
  <2>1. CASE UNCHANGED ballsVars
    <3>1. /\ ballsPc' = ballsPc /\ ballsFile' = ballsFile /\ unread' = unread
          /\ cases' = cases /\ balls' = balls /\ given' = given
          /\ net' = net /\ grad' = grad /\ weight' = weight /\ labels' = labels
      BY <2>1 DEF ballsVars
    <3>2. Ball' = Ball /\ Done' = Done
      BY <3>1 DEF Ball, Done
    <3>3. /\ OneRelation' <=> OneRelation
          /\ Heaviest' <=> Heaviest
          /\ Respected' <=> Respected
          /\ Waited' <=> Waited
          /\ \A y : Blocked(y)' <=> Blocked(y)
      BY <3>1, <3>2 DEF OneRelation, Heaviest, Respected, Waited, Blocked
    <3>4. BallsTypeOK' <=> BallsTypeOK
      BY <3>1, <3>2 DEF BallsTypeOK
    <3>5. WorkGivesLeast' <=> WorkGivesLeast
      BY <3>1, WorkUntouched
    <3>. QED BY <3>1, <3>2, <3>3, <3>4, <3>5 DEF BallsIInv
  <2>. QED BY <2>1, ReadCountKeeps, InputKeeps, WeighKeeps, GiveUpKeeps, PrintWeightsKeeps DEF BallsNext
<1>. QED BY <1>1, <1>2, PTL DEF BallsSpec

\* The arrays of Labeling-Balls.cpp stay of their types (BallsTypeOK).
THEOREM BallsTypeCorrect == BallsSpec => []BallsTypeOK
<1>1. BallsIInv => BallsTypeOK
  BY DEF BallsIInv
<1>. QED BY <1>1, BallsIInvHolds, PTL

\* What work() prints is the least labelling for the relation that input() has left,
\* for any number of balls and any files (WorkGivesLeast, lines 79-103).
THEOREM WorkGivesLeastHolds == BallsSpec => []WorkGivesLeast
<1>1. BallsIInv => WorkGivesLeast
  BY DEF BallsIInv
<1>. QED BY <1>1, BallsIInvHolds, PTL

-----------------------------------------------------------------------------
(* NutsForNuts: sum and the bits of the nuts. *)

\* The recursive function exists: up to any e some function runs through the powers
\* of two, and all of them agree.
LEMMA DoubledUnfold == \A e \in Nat : doubled[e] = IF e = 0 THEN 1 ELSE 2 * doubled[e - 1]
<1> DEFINE Runs(m, f) == f[0] = 1 /\ \A o \in 1..m : f[o] = 2 * f[o - 1]
           P(m) == CHOOSE f : Runs(m, f)
           D(f) == [e \in Nat |-> IF e = 0 THEN 1 ELSE 2 * f[e - 1]]
<1>1. ASSUME NEW m \in Nat PROVE Runs(m, P(m))
  <2> DEFINE step == [o \in 1..m |-> [v \in Nat |-> 2 * v]]
  <2>1. step \in [1..m -> [Nat -> Nat]] /\ 1 \in Nat
    OBVIOUS
  <2>2. \A o \in 1..m : \A v \in Nat : step[o][v] = 2 * v
    OBVIOUS
  <2> HIDE DEF step
  <2>3. PICK f : /\ \A o \in 0..m : f[o] \in Nat
                 /\ f[0] = 1 /\ \A o \in 1..m : f[o] = step[o][f[o - 1]]
    <3> DEFINE Num == Nat
               one == 1
    <3>1. step \in [1..m -> [Num -> Num]] /\ one \in Num
      BY <2>1
    <3> HIDE DEF Num, one
    <3>2. \E f : /\ \A o \in 0..m : f[o] \in Num
                /\ f[0] = one /\ \A o \in 1..m : f[o] = step[o][f[o - 1]]
      BY ONLY <3>1, m \in Nat, IterationExists
    <3>. QED BY <3>2 DEF Num, one
  <2>4. ASSUME NEW o \in 1..m PROVE f[o] = 2 * f[o - 1]
    <3>1. o - 1 \in 0..m
      OBVIOUS
    <3>. QED BY <2>2, <2>3, <3>1
  <2>5. Runs(m, f)
    BY <2>3, <2>4
  <2> HIDE DEF Runs
  <2>. QED BY <2>5
<1>2. ASSUME NEW m \in Nat, NEW l \in 0..m, NEW f, NEW g, Runs(m, f), Runs(l, g) PROVE f[l] = g[l]
  <2> DEFINE T == {o \in Nat : f[o] = g[o]}
  <2>1. 0 \in T
    BY <1>2
  <2>2. ASSUME NEW o \in 1..l, o - 1 \in T PROVE o \in T
    <3>1. o \in 1..m /\ f[o - 1] = g[o - 1]
      BY <2>2
    <3>. QED BY <1>2, <3>1
  <2>3. T \in SUBSET Nat /\ l \in Nat
    OBVIOUS
  <2> HIDE DEF T
  <2>4. \A o \in 0..l : o \in T
    BY <2>1, <2>2, <2>3, NatUpTo
  <2>5. l \in T
    BY <2>3, <2>4
  <2>. QED BY <2>5 DEF T
<1> DEFINE h == [e \in Nat |-> P(e)[e]]
<1>3. ASSUME NEW e \in Nat PROVE h[e] = IF e = 0 THEN 1 ELSE 2 * h[e - 1]
  <2>1. Runs(e, P(e))
    BY <1>1
  <2>2. CASE e = 0
    <3> HIDE DEF P
    <3>. QED BY <2>1, <2>2
  <2>3. CASE e # 0
    <3>1. e - 1 \in Nat /\ e - 1 \in 0..e /\ e \in 1..e
      BY <2>3
    <3>2. Runs(e - 1, P(e - 1))
      BY <1>1, <3>1
    <3>3. P(e)[e - 1] = P(e - 1)[e - 1]
      <4> HIDE DEF Runs, P
      <4>. QED BY ONLY <1>2, <2>1, <3>1, <3>2, e \in Nat
    <3>4. P(e)[e] = 2 * P(e)[e - 1]
      <4> HIDE DEF P
      <4>. QED BY <2>1, <3>1
    <3> HIDE DEF P
    <3>. QED BY <2>3, <3>1, <3>3, <3>4
  <2>. QED BY <2>2, <2>3
<1> HIDE DEF P
<1>4. h = D(h)
  <2>1. h = [e \in Nat |-> h[e]]
    OBVIOUS
  <2> HIDE DEF h
  <2>. QED BY <1>3, <2>1
<1>5. doubled = CHOOSE f : f = D(f)
  BY DEF doubled
<1>6. doubled = D(doubled)
  <2> HIDE DEF h, D
  <2>. QED BY <1>4, <1>5
<1>. QED BY <1>6

\* It is positive, and a multiple of twice each of its earlier elements.
LEMMA DoubledMultiple ==
    /\ \A e \in Nat : doubled[e] \in Nat /\ doubled[e] >= 1
    /\ \A e \in Nat : \A l \in 0..(e - 1) : \E r \in Nat : doubled[e] = doubled[l] * (2 * r)
<1>1. doubled[0] = 1 /\ \A e \in Nat : doubled[e + 1] = 2 * doubled[e]
  <2>1. \A e \in Nat : e + 1 \in Nat /\ e + 1 # 0 /\ (e + 1) - 1 = e
    OBVIOUS
  <2>. QED BY <2>1, DoubledUnfold
<1> DEFINE S == {e \in Nat : doubled[e] \in Nat /\ doubled[e] >= 1}
           U == {e \in Nat : \A l \in 0..(e - 1) : \E r \in Nat : doubled[e] = doubled[l] * (2 * r)}
<1>2. \A e \in Nat : e \in S
  <2>1. 0 \in S
    BY <1>1
  <2>2. ASSUME NEW e \in S PROVE e + 1 \in S
    BY <1>1
  <2>3. S \in SUBSET Nat
    OBVIOUS
  <2> HIDE DEF S
  <2>. QED BY <2>1, <2>2, <2>3, NatClosed
<1>3. \A e \in Nat : e \in U
  <2>1. 0 \in U
    OBVIOUS
  <2>2. ASSUME NEW e \in U PROVE e + 1 \in U
    <3>. SUFFICES ASSUME NEW l \in 0..e PROVE \E r \in Nat : doubled[e + 1] = doubled[l] * (2 * r)
      OBVIOUS
    <3>1. e \in Nat /\ l \in Nat /\ doubled[e + 1] = 2 * doubled[e] /\ doubled[l] \in Nat
      BY <1>1, <1>2
    <3>2. CASE l = e
      <4>1. doubled[e + 1] = doubled[l] * (2 * 1)
        BY <3>1, <3>2
      <4>. QED BY <4>1
    <3>3. CASE l # e
      <4>1. PICK r \in Nat : doubled[e] = doubled[l] * (2 * r)
        BY <3>1, <3>3
      <4>2. doubled[e + 1] = doubled[l] * (2 * (2 * r))
        BY <3>1, <4>1
      <4>3. 2 * r \in Nat
        OBVIOUS
      <4>. QED BY <4>2, <4>3
    <3>. QED BY <3>2, <3>3
  <2>3. U \in SUBSET Nat
    OBVIOUS
  <2> HIDE DEF U
  <2>. QED BY <2>1, <2>2, <2>3, NatClosed
<1>. QED BY <1>2, <1>3

\* Adding the bit of a nut leaves a number of nuts below sum.
LEMMA WithBelow ==
    ASSUME NEW got \in Nat, NEW val \in Int, NEW top \in Nat, got < top,
           val > 0 => \E r \in Nat : top = val * (2 * r)
    PROVE  With(got, val) \in 0..(top - 1)
<1>1. CASE With(got, val) = got
  BY <1>1
<1>2. CASE With(got, val) # got
  <2>1. val > 0 /\ (got \div val) % 2 # 1 /\ With(got, val) = got + val
    BY <1>2 DEF With
  <2>2. PICK r \in Nat : top = val * (2 * r)
    BY <2>1
  <2> DEFINE Q == got \div val
  <2>3. Q \in Nat /\ Q * val <= got /\ got < (Q + 1) * val
    BY <2>1
  <2>4. PICK h \in Nat : Q = 2 * h
    <3> HIDE DEF Q
    <3>1. Q % 2 = 0
      BY <2>1, <2>3 DEF Q
    <3>. QED BY <2>3, <3>1
  <2>5. val * (2 * h) <= got /\ got < val * (2 * h) + val
    BY <2>1, <2>3, <2>4
  <2>6. h < r
    <3>. SUFFICES ASSUME r <= h PROVE FALSE
      BY <2>2, <2>4
    <3>1. \A a, b, c \in Nat : a <= b => c * (2 * a) <= c * (2 * b)
      OBVIOUS
    <3>2. val * (2 * r) <= val * (2 * h)
      BY <2>1, <2>2, <2>4, <3>1
    <3>. QED BY <2>2, <2>5, <3>2
  <2>7. val * (2 * h) + 2 * val <= top
    <3>1. \A b, c \in Nat : \A a \in Nat : a + 1 <= b => c * (2 * a) + 2 * c <= c * (2 * b)
      OBVIOUS
    <3>. QED BY <2>1, <2>2, <2>4, <2>6, <3>1
  <2>. QED BY <2>1, <2>5, <2>7
<1>. QED BY <1>1, <1>2

-----------------------------------------------------------------------------
(* The states of the search for nuts. *)

\* What the array of the nuts is like.
Bordered ==
    /\ DOMAIN land \subseteq Nat \X Nat /\ IsFiniteSet(DOMAIN land)
    /\ \A c \in Ground : \A a, b \in {-1, 0, 1} : <<c[1] + a, c[2] + b>> \in DOMAIN land
    /\ \A c \in DOMAIN land : land[c] > 0 => \E r \in Nat : sum = land[c] * (2 * r)

\* Every state of the queue is marked, and one of this field.
Marked ==
    \A p \in 1..Len(queue) :
        /\ <<queue[p].x, queue[p].y>> \in Ground
        /\ queue[p].get < sum
        /\ Slot(queue[p]) \in hash

NutsIInv ==
    /\ NutsTypeOK
    /\ Bordered
    /\ Marked
    /\ IsInjective(queue)

\* The cells of a field, which has finitely many, and the border around them.
LEMMA FieldCells ==
    ASSUME NEW field \in Fields
    PROVE  /\ field.n \in Nat /\ field.m \in Nat
           /\ field.start \in Cells(field) /\ field.nuts \subseteq Cells(field)
           /\ IsFiniteSet((0..(field.n + 1)) \X (0..(field.m + 1))) /\ IsFiniteSet(field.nuts)
           /\ DOMAIN Land(field) = (0..(field.n + 1)) \X (0..(field.m + 1))
           /\ Cells(field) \subseteq DOMAIN Land(field)
<1>1. /\ field.n \in Nat /\ field.m \in Nat
      /\ field.start \in Cells(field) /\ field.nuts \subseteq Cells(field)
  BY FieldsAssumption
<1>2. IsFiniteSet(0..(field.n + 1)) /\ IsFiniteSet(0..(field.m + 1))
  <2>1. \A l \in Nat : IsFiniteSet(0..(l + 1))
    BY ONLY FS_Interval
  <2>. QED BY <1>1, <2>1
<1>3. IsFiniteSet((0..(field.n + 1)) \X (0..(field.m + 1)))
  BY <1>2, FS_Product
<1>4. Cells(field) \subseteq (0..(field.n + 1)) \X (0..(field.m + 1))
  BY <1>1 DEF Cells
<1>5. IsFiniteSet(field.nuts)
  BY <1>1, <1>3, <1>4, FS_Subset
<1>. QED BY <1>1, <1>3, <1>4, <1>5 DEF Land

\* Every nut has a bit of its own in sum.
LEMMA LandBits ==
    ASSUME NEW field \in Fields, NEW c \in DOMAIN Land(field)
    PROVE  /\ Land(field)[c] \in Int
           /\ Land(field)[c] >= 0 <=> c \in Cells(field)
           /\ Land(field)[c] > 0 =>
                \E r \in Nat : doubled[Cardinality(field.nuts)] = Land(field)[c] * (2 * r)
<1> DEFINE before == Before(field, c)
<1>1. Land(field)[c] = IF c \notin Cells(field) THEN -1
                       ELSE IF c \in field.nuts THEN doubled[Cardinality(before)] ELSE 0
  BY FieldCells DEF Land
<1>2. before \subseteq field.nuts /\ IsFiniteSet(before) /\ Cardinality(before) \in Nat
  <2>1. before \subseteq field.nuts
    BY DEF Before
  <2>. QED BY <2>1, FieldCells, FS_Subset, FS_CardinalityType
<1>3. doubled[Cardinality(before)] \in Nat /\ doubled[Cardinality(before)] >= 1
  BY <1>2, DoubledMultiple
<1>4. ASSUME c \in field.nuts
      PROVE  \E r \in Nat : doubled[Cardinality(field.nuts)] = doubled[Cardinality(before)] * (2 * r)
  <2>1. c \notin before
    <3>1. c[1] \in Nat /\ c[2] \in Nat
      <4>1. c \in (1..field.n) \X (1..field.m)
        BY <1>4, FieldCells DEF Cells
      <4>. QED BY ONLY <4>1
    <3>. QED BY <3>1 DEF Before
  <2>2. IsFiniteSet(field.nuts) /\ Cardinality(field.nuts) \in Nat
    BY FieldCells, FS_CardinalityType
  <2>3. Cardinality(before) <= Cardinality(field.nuts)
        /\ (Cardinality(before) = Cardinality(field.nuts) => before = field.nuts)
    <3> HIDE DEF before
    <3>. QED BY <1>2, <2>2, FS_Subset
  <2> HIDE DEF before
  <2>4. Cardinality(before) \in 0..(Cardinality(field.nuts) - 1)
    BY <1>2, <1>4, <2>1, <2>2, <2>3
  <2>. QED BY <2>2, <2>4, DoubledMultiple
<1> HIDE DEF before
<1>. QED BY <1>1, <1>3, <1>4, FieldCells

\* Lines 41-73.
LEMMA ReadFieldKeeps == ASSUME NutsIInv, ReadField PROVE NutsIInv'
<1>1. PICK field \in Fields :
        /\ land' = Land(field) /\ start' = field.start
        /\ sum' = doubled[Cardinality(field.nuts)]
        /\ queue' = <<[x |-> field.start[1], y |-> field.start[2], get |-> 0]>>
  BY DEF ReadField
<1>2. /\ hash' = {Slot(queue'[1])}
      /\ head' = 1 /\ tail' = 1 /\ here' = 1 /\ way' = 1 /\ move' = 0
      /\ flag' \in BOOLEAN /\ nutsPc' \in {"print", "extend"}
  BY DEF ReadField
<1> DEFINE first == [x |-> field.start[1], y |-> field.start[2], get |-> 0]
<1>3. /\ field.n \in Nat /\ field.m \in Nat /\ field.start \in Cells(field)
      /\ IsFiniteSet(DOMAIN Land(field)) /\ Cells(field) \subseteq DOMAIN Land(field)
      /\ DOMAIN Land(field) = (0..(field.n + 1)) \X (0..(field.m + 1))
      /\ Cardinality(field.nuts) \in Nat
  BY FieldCells, FS_CardinalityType
<1>4. sum' \in Nat /\ sum' >= 1
  BY <1>1, <1>3, DoubledMultiple
<1>5. Ground' = Cells(field)
  BY <1>1, <1>3, LandBits DEF Ground
<1>6. Bordered'
  <2>1. DOMAIN land' \subseteq Nat \X Nat /\ IsFiniteSet(DOMAIN land')
    BY <1>1, <1>3
  <2>2. \A c \in Ground' : \A a, b \in {-1, 0, 1} : <<c[1] + a, c[2] + b>> \in DOMAIN land'
    BY <1>1, <1>3, <1>5 DEF Cells
  <2>3. \A c \in DOMAIN land' : land'[c] > 0 => \E r \in Nat : sum' = land'[c] * (2 * r)
    BY <1>1, LandBits
  <2>. QED BY <2>1, <2>2, <2>3 DEF Bordered
<1>7. /\ field.start[1] \in Nat /\ field.start[2] \in Nat
      /\ field.start = <<field.start[1], field.start[2]>>
  BY <1>3 DEF Cells
<1>8. /\ first \in [x : Nat, y : Nat, get : Nat]
      /\ first.x = field.start[1] /\ first.y = field.start[2] /\ first.get = 0
      /\ <<first.x, first.y>> \in Ground'
  BY <1>3, <1>5, <1>7
<1> HIDE DEF first
<1>9. queue' = <<first>> /\ Len(queue') = 1 /\ queue'[1] = first /\ DOMAIN queue' = {1}
      /\ queue' \in Seq([x : Nat, y : Nat, get : Nat])
  BY <1>1, <1>8 DEF first
<1>10. Slot(queue'[1]) \in Nat
  BY <1>8, <1>9 DEF Slot, maxn, HashSize
<1>11. Marked'
  <2>1. \A p \in 1..Len(queue') : p = 1
    BY <1>9
  <2>. QED BY <1>2, <1>4, <1>8, <1>9, <2>1 DEF Marked, Slot
<1>12. IsInjective(queue)'
  BY <1>9 DEF IsInjective
<1>13. NutsTypeOK'
  <2>1. land' \in [DOMAIN land' -> Int]
    <3>1. Land(field) = [c \in DOMAIN Land(field) |-> Land(field)[c]]
      BY <1>3 DEF Land
    <3>. QED BY <1>1, <3>1, LandBits
  <2>. QED BY <1>2, <1>4, <1>9, <1>10, <2>1 DEF NutsTypeOK
<1>. QED BY <1>6, <1>11, <1>12, <1>13 DEF NutsIInv

\* What the queue holds.
LEMMA QueueStates ==
    ASSUME NutsTypeOK, Marked, NEW p \in 1..Len(queue)
    PROVE  /\ queue[p] \in [x : Nat, y : Nat, get : Nat]
           /\ queue[p].x \in Nat /\ queue[p].y \in Nat /\ queue[p].get \in Nat
           /\ <<queue[p].x, queue[p].y>> \in Ground /\ queue[p].get < sum
<1> DEFINE R == [x : Nat, y : Nat, get : Nat]
<1>1. queue \in Seq(R)
  BY DEF NutsTypeOK
<1> HIDE DEF R
<1>2. queue[p] \in R
  BY ONLY <1>1, p \in 1..Len(queue)
<1>3. queue[p].x \in Nat /\ queue[p].y \in Nat /\ queue[p].get \in Nat
  BY ONLY <1>2 DEF R
<1>. QED BY <1>2, <1>3 DEF R, Marked

\* The state that a direction leads to, if it is a fresh one, is one of this field and
\* in the queue nowhere (lines 77-79).
LEMMA MovedIsNew ==
    ASSUME NutsIInv, here <= tail, Fresh(Moved)
    PROVE  /\ Moved \in [x : Nat, y : Nat, get : Nat]
           /\ <<Moved.x, Moved.y>> \in Ground /\ Moved.get < sum
           /\ \A p \in 1..Len(queue) : queue[p] # Moved
<1> DEFINE from == queue[here]
           x == from.x + Direction[way][1]
           y == from.y + Direction[way][2]
           val == land[<<x, y>>]
<1>1. /\ here \in 1..Len(queue) /\ way \in 1..8 /\ sum \in Nat
      /\ queue \in Seq([x : Nat, y : Nat, get : Nat])
  BY DEF NutsIInv, NutsTypeOK
<1>2. /\ from.x \in Nat /\ from.y \in Nat /\ from.get \in Nat
      /\ <<from.x, from.y>> \in Ground /\ from.get < sum
  BY <1>1, QueueStates DEF NutsIInv
<1>3. Direction[way][1] \in {-1, 0, 1} /\ Direction[way][2] \in {-1, 0, 1}
  BY <1>1 DEF Direction
<1>4. Moved = [x |-> x, y |-> y, get |-> With(from.get, val)]
  BY DEF Moved
<1> HIDE DEF from
<1>5. <<x, y>> \in DOMAIN land /\ x \in Nat /\ y \in Nat
  <2>1. /\ \A c \in Ground : \A a, b \in {-1, 0, 1} : <<c[1] + a, c[2] + b>> \in DOMAIN land
        /\ DOMAIN land \subseteq Nat \X Nat
    BY DEF NutsIInv, Bordered
  <2>2. <<x, y>> \in DOMAIN land
    BY <1>2, <1>3, <2>1
  <2>. QED BY <2>1, <2>2
<1> HIDE DEF x, y
<1>6. val \in Int /\ (val > 0 => \E r \in Nat : sum = val * (2 * r))
  BY <1>5 DEF NutsIInv, NutsTypeOK, Bordered
<1> HIDE DEF val
<1>7. With(from.get, val) \in 0..(sum - 1)
  BY <1>1, <1>2, <1>6, WithBelow
<1>8. Moved.x = x /\ Moved.y = y /\ Moved.get = With(from.get, val)
  BY <1>4
<1>9. land[<<x, y>>] >= 0 /\ Slot(Moved) \notin hash
  BY <1>8 DEF Fresh
<1>10. <<x, y>> \in Ground
  BY <1>5, <1>9 DEF Ground
<1>11. \A p \in 1..Len(queue) : queue[p] # Moved
  BY <1>9 DEF NutsIInv, Marked
<1>12. Moved \in [x : Nat, y : Nat, get : Nat] /\ Moved.get < sum
  BY <1>1, <1>4, <1>5, <1>7, <1>8
<1>. QED BY <1>8, <1>10, <1>11, <1>12

\* Lines 75-88.
LEMMA ExtendKeeps == ASSUME NutsIInv, Extend PROVE NutsIInv'
<1>1. /\ nutsPc' = nutsPc /\ land' = land /\ start' = start /\ sum' = sum /\ head' = head
      /\ tail' = tail /\ move' = move /\ here <= tail
      /\ way' = (IF way = 8 THEN 1 ELSE way + 1) /\ here' = IF way = 8 THEN here + 1 ELSE here
  BY DEF Extend
<1>2. here' \in Nat \ {0} /\ way' \in 1..8
  <2>1. here \in Nat \ {0} /\ way \in 1..8
    BY DEF NutsIInv, NutsTypeOK
  <2>. QED BY ONLY <1>1, <2>1
<1>3. Bordered'
  <2>1. Ground' = Ground
    BY <1>1 DEF Ground
  <2>. QED BY <1>1, <2>1 DEF NutsIInv, Bordered
<1>4. CASE Fresh(Moved)
  <2> DEFINE new == Moved
  <2>1. /\ queue' = Append(queue, new) /\ hash' = hash \cup {Slot(new)}
        /\ flag' \in BOOLEAN
    BY <1>4 DEF Extend, NutsIInv, NutsTypeOK
  <2>2. /\ new \in [x : Nat, y : Nat, get : Nat]
        /\ <<new.x, new.y>> \in Ground /\ new.get < sum
        /\ \A p \in 1..Len(queue) : queue[p] # new
    BY <1>1, <1>4, MovedIsNew
  <2>3. /\ queue \in Seq([x : Nat, y : Nat, get : Nat]) /\ Len(queue) \in Nat
        /\ tail \in 0..Len(queue) /\ hash \subseteq Nat
    BY DEF NutsIInv, NutsTypeOK
  <2> HIDE DEF new
  <2>4. /\ queue' \in Seq([x : Nat, y : Nat, get : Nat]) /\ Len(queue') = Len(queue) + 1
        /\ queue'[Len(queue) + 1] = new /\ \A p \in 1..Len(queue) : queue'[p] = queue[p]
        /\ DOMAIN queue' = 1..(Len(queue) + 1) /\ DOMAIN queue = 1..Len(queue)
    BY <2>1, <2>2, <2>3
  <2>5. \A p \in 1..(Len(queue) + 1) : p \in 1..Len(queue) \/ p = Len(queue) + 1
    BY <2>3
  <2>6. Slot(new) \in Nat
    BY <2>2 DEF Slot, maxn, HashSize
  <2>7. Marked'
    <3>1. ASSUME NEW p \in 1..(Len(queue) + 1)
          PROVE  /\ <<queue'[p].x, queue'[p].y>> \in Ground
                 /\ queue'[p].get < sum /\ Slot(queue'[p]) \in hash'
      <4>1. CASE p = Len(queue) + 1
        BY <2>1, <2>2, <2>4, <4>1
      <4>2. CASE p \in 1..Len(queue)
        <5>1. queue'[p] = queue[p]
          BY <2>4, <4>2
        <5>2. <<queue[p].x, queue[p].y>> \in Ground /\ queue[p].get < sum /\ Slot(queue[p]) \in hash
          BY <4>2 DEF NutsIInv, Marked
        <5>. QED BY <2>1, <5>1, <5>2
      <4>. QED BY <2>5, <4>1, <4>2
    <3>2. Ground' = Ground
      BY <1>1 DEF Ground
    <3>. QED BY <1>1, <2>4, <3>1, <3>2 DEF Marked, Slot
  <2>8. IsInjective(queue)'
    <3>1. ASSUME NEW a \in 1..(Len(queue) + 1), NEW b \in 1..(Len(queue) + 1), queue'[a] = queue'[b]
          PROVE  a = b
      <4>1. a \in 1..Len(queue) /\ b \in 1..Len(queue) => a = b
        BY <2>4, <3>1 DEF NutsIInv, IsInjective
      <4>. QED BY <2>2, <2>4, <2>5, <3>1, <4>1
    <3>. QED BY <2>4, <3>1 DEF IsInjective
  <2>9. NutsTypeOK'
    <3>1. tail' \in 0..Len(queue')
      BY <1>1, <2>3, <2>4
    <3>2. hash' \subseteq Nat
      BY <2>1, <2>3, <2>6
    <3>. QED BY <1>1, <1>2, <2>1, <2>4, <3>1, <3>2 DEF NutsIInv, NutsTypeOK
  <2>. QED BY <1>3, <2>7, <2>8, <2>9 DEF NutsIInv
<1>5. CASE ~Fresh(Moved)
  <2>1. queue' = queue /\ hash' = hash /\ flag' = flag
    BY <1>5 DEF Extend
  <2>2. Marked' /\ IsInjective(queue)'
    BY <1>1, <2>1 DEF NutsIInv, Marked, IsInjective, Ground, Slot
  <2>3. NutsTypeOK'
    BY <1>1, <1>2, <2>1 DEF NutsIInv, NutsTypeOK
  <2>. QED BY <1>3, <2>2, <2>3 DEF NutsIInv
<1>. QED BY <1>4, <1>5

\* Lines 73, 90-93 and 99.
LEMMA OtherNutsSteps ==
    ASSUME NutsIInv, EndOfFields \/ NextLayer \/ PrintMove \/ UNCHANGED nutsVars
    PROVE  NutsIInv'
<1>1. /\ land' = land /\ start' = start /\ sum' = sum /\ queue' = queue /\ hash' = hash
      /\ flag' = flag /\ way' = way
  BY DEF EndOfFields, NextLayer, PrintMove, nutsVars
<1>2. Bordered' /\ Marked' /\ IsInjective(queue)'
  BY <1>1 DEF NutsIInv, Bordered, Marked, IsInjective, Ground, Slot
<1>3. /\ head' \in Nat /\ tail' \in 0..Len(queue) /\ here' \in Nat \ {0} /\ move' \in Nat
      /\ nutsPc' \in {"read", "extend", "print", "return"}
  <2>1. /\ head \in Nat /\ tail \in 0..Len(queue) /\ Len(queue) \in Nat /\ here \in Nat \ {0}
        /\ move \in Nat /\ nutsPc \in {"read", "extend", "print", "return"}
    BY DEF NutsIInv, NutsTypeOK
  <2>2. CASE NextLayer
    <3>1. /\ head' = tail + 1 /\ tail' = Len(queue) /\ here' = tail + 1 /\ move' = move + 1
          /\ nutsPc' \in {"extend", "print"}
      BY <2>2 DEF NextLayer
    <3>. QED BY <2>1, <3>1
  <2>3. CASE EndOfFields \/ PrintMove \/ UNCHANGED nutsVars
    BY <2>1, <2>3 DEF EndOfFields, PrintMove, nutsVars
  <2>. QED BY <2>2, <2>3
<1>4. NutsTypeOK'
  BY <1>1, <1>3 DEF NutsIInv, NutsTypeOK
<1>. QED BY <1>2, <1>4 DEF NutsIInv

\* Different states that are in the queue are as many as there are at most.
LEMMA QueueIsBounded == NutsIInv => EachStateOnce
<1>. SUFFICES ASSUME NutsIInv PROVE Len(queue) <= Cardinality(Ground) * sum
  BY DEF NutsIInv, EachStateOnce
<1> DEFINE T == Ground \X (0..(sum - 1))
           f == [p \in 1..Len(queue) |-> <<<<queue[p].x, queue[p].y>>, queue[p].get>>]
<1>1. /\ queue \in Seq([x : Nat, y : Nat, get : Nat]) /\ Len(queue) \in Nat /\ sum \in Nat
      /\ DOMAIN queue = 1..Len(queue)
  BY DEF NutsIInv, NutsTypeOK
<1>2. IsFiniteSet(Ground)
  <2>1. Ground \subseteq DOMAIN land
    BY DEF Ground
  <2>. QED BY <2>1, FS_Subset DEF NutsIInv, Bordered
<1>3. IsFiniteSet(0..(sum - 1)) /\ Cardinality(0..(sum - 1)) = sum
  BY ONLY <1>1, IntervalSize
<1>4. IsFiniteSet(T) /\ Cardinality(T) = Cardinality(Ground) * sum
  <2>1. IsFiniteSet(T) /\ Cardinality(T) = Cardinality(Ground) * Cardinality(0..(sum - 1))
    BY ONLY <1>2, <1>3, FS_Product
  <2>. QED BY <1>3, <2>1
<1>5. ASSUME NEW p \in 1..Len(queue) PROVE f[p] \in T
  <2>1. queue[p].get \in Nat /\ queue[p].get < sum /\ <<queue[p].x, queue[p].y>> \in Ground
    BY QueueStates DEF NutsIInv
  <2>2. queue[p].get \in 0..(sum - 1)
    BY <1>1, <2>1
  <2>. QED BY <2>1, <2>2
<1>6. ASSUME NEW a \in 1..Len(queue), NEW b \in 1..Len(queue), f[a] = f[b] PROVE a = b
  <2>1. queue[a].x = queue[b].x /\ queue[a].y = queue[b].y /\ queue[a].get = queue[b].get
    BY <1>6
  <2>2. queue[a] \in [x : Nat, y : Nat, get : Nat] /\ queue[b] \in [x : Nat, y : Nat, get : Nat]
    BY QueueStates DEF NutsIInv
  <2>3. queue[a] = queue[b]
    BY ONLY <2>1, <2>2
  <2>. QED BY <1>1, <2>3 DEF NutsIInv, IsInjective
<1>7. f \in Injection(1..Len(queue), T)
  <2>1. f \in [1..Len(queue) -> T]
    <3> HIDE DEF T
    <3>. QED BY <1>5
  <2> HIDE DEF f, T
  <2>. QED BY <1>6, <2>1 DEF Injection, IsInjective
<1>8. Cardinality(1..Len(queue)) <= Cardinality(T)
  <2> HIDE DEF f, T
  <2>. QED BY <1>4, <1>7, FS_Injection
<1>9. Cardinality(1..Len(queue)) = Len(queue)
  BY ONLY <1>1, IntervalSize
<1>. QED BY <1>4, <1>8, <1>9

\* The invariant holds in every state.
LEMMA NutsIInvHolds == NutsSpec => []NutsIInv
<1>1. NutsInit => NutsIInv
  <2>. SUFFICES ASSUME NutsInit PROVE NutsIInv
    OBVIOUS
  <2>1. /\ nutsPc = "read" /\ land = [c \in {} |-> 0] /\ sum = 0 /\ queue = <<>> /\ hash = {}
        /\ head = 1 /\ tail = 0 /\ here = 1 /\ way = 1 /\ move = 0 /\ flag = FALSE
    BY DEF NutsInit
  <2>2. DOMAIN land = {} /\ land \in [DOMAIN land -> Int] /\ Ground = {}
    BY <2>1 DEF Ground
  <2>3. Bordered
    BY <2>2, FS_EmptySet DEF Bordered
  <2>4. Marked /\ IsInjective(queue)
    BY <2>1 DEF Marked, IsInjective
  <2>5. /\ queue \in Seq([x : Nat, y : Nat, get : Nat]) /\ Len(queue) = 0 /\ tail \in 0..Len(queue)
        /\ sum \in Nat /\ hash \subseteq Nat
        /\ head \in Nat /\ here \in Nat \ {0} /\ way \in 1..8 /\ move \in Nat
    BY <2>1
  <2>6. NutsTypeOK
    BY <2>1, <2>2, <2>5 DEF NutsTypeOK
  <2>. QED BY <2>3, <2>4, <2>6 DEF NutsIInv
<1>2. NutsIInv /\ [NutsNext]_nutsVars => NutsIInv'
  BY ReadFieldKeeps, ExtendKeeps, OtherNutsSteps DEF NutsNext
<1>. QED BY <1>1, <1>2, PTL DEF NutsSpec

\* Types, for any fields.
THEOREM NutsTypeCorrect == NutsSpec => []NutsTypeOK
<1>1. NutsIInv => NutsTypeOK
  BY DEF NutsIInv
<1>. QED BY <1>1, NutsIInvHolds, PTL

\* No state is in the queue twice, and the queue is never longer than there are states,
\* for any fields, also those for which the array is too small (lines 79-84).
THEOREM EachStateOnceHolds == NutsSpec => []EachStateOnce
<1>. QED BY NutsIInvHolds, QueueIsBounded, PTL

-----------------------------------------------------------------------------
(* NutsForNuts: the bits of the nuts. *)

\* What div and mod are, when the divisor is not a number but a name.
LEMMA QuotientIs ==
    \A d \in Nat \ {0} : \A quo \in Nat, r \in 0..(d - 1) : (d * quo + r) \div d = quo
<1>. SUFFICES ASSUME NEW d \in Nat \ {0}, NEW quo \in Nat, NEW r \in 0..(d - 1)
     PROVE  (d * quo + r) \div d = quo
  OBVIOUS
<1> DEFINE u == (d * quo + r) \div d
           g == d * quo + r
<1>1. g \in Nat
  <2>1. d * quo \in Nat
    OBVIOUS
  <2>. QED BY <2>1
<1>2. u \in Nat /\ d * u <= g /\ g < d * u + d
  <2>1. \A e \in Nat : e \div d \in Nat /\ d * (e \div d) <= e /\ e < d * (e \div d) + d
    OBVIOUS
  <2> HIDE DEF g
  <2>. QED BY <1>1, <2>1 DEF g
<1>3. \A a, b \in Nat : a < b => d * a + d <= d * b
  <2>. SUFFICES ASSUME NEW a \in Nat, NEW b \in Nat, a < b PROVE d * a + d <= d * b
    OBVIOUS
  <2>1. d * (b - a) >= d
    OBVIOUS
  <2>2. d * b = d * a + d * (b - a)
    OBVIOUS
  <2>. QED BY <2>1, <2>2
<1>4. ~(u < quo)
  <2>1. d * quo <= g
    OBVIOUS
  <2> HIDE DEF u, g
  <2>. QED BY <1>1, <1>2, <1>3, <2>1
<1>5. ~(quo < u)
  <2>1. g < d * quo + d
    OBVIOUS
  <2> HIDE DEF u, g
  <2>. QED BY <1>1, <1>2, <1>3, <2>1
<1>6. u = quo
  <2> HIDE DEF u
  <2>. QED BY <1>2, <1>4, <1>5
<1>. QED BY <1>6

\* Every number is a multiple and a rest.
LEMMA QuotientAndRest ==
    \A d \in Nat \ {0} : \A g \in Nat :
        \E r \in 0..(d - 1) : g \div d \in Nat /\ g = d * (g \div d) + r
<1>. SUFFICES ASSUME NEW d \in Nat \ {0}, NEW g \in Nat
     PROVE  \E r \in 0..(d - 1) : g \div d \in Nat /\ g = d * (g \div d) + r
  OBVIOUS
<1>1. g \div d \in Nat /\ d * (g \div d) <= g /\ g < d * (g \div d) + d
  OBVIOUS
<1>2. g - d * (g \div d) \in 0..(d - 1)
  BY <1>1
<1>3. g = d * (g \div d) + (g - d * (g \div d))
  BY <1>1
<1>. QED BY <1>1, <1>2, <1>3

\* Adding a bit that is not there adds this bit and leaves the others as they are.
LEMMA BitAdded ==
    ASSUME NEW a \in Nat, NEW g \in Nat, (g \div doubled[a]) % 2 # 1
    PROVE  /\ ((g + doubled[a]) \div doubled[a]) % 2 = 1
           /\ \A b \in Nat \ {a} :
                ((g + doubled[a]) \div doubled[b]) % 2 = (g \div doubled[b]) % 2
<1> DEFINE P == doubled[a]
<1>1. P \in Nat \ {0}
  BY DoubledMultiple
<1> HIDE DEF P
<1> DEFINE quo == g \div P
<1>2. PICK r \in 0..(P - 1) : quo \in Nat /\ g = P * quo + r
  BY <1>1, QuotientAndRest
<1>3. quo % 2 # 1
  BY DEF P
<1> HIDE DEF quo
<1>4. PICK h \in Nat : quo = 2 * h
  BY <1>2, <1>3
<1>5. ((g + P) \div P) % 2 = 1
  <2>1. g + P = P * (quo + 1) + r /\ quo + 1 \in Nat
    BY <1>1, <1>2
  <2>2. (g + P) \div P = quo + 1
    BY ONLY <1>1, <2>1, QuotientIs
  <2>. QED BY <1>4, <2>2
<1>6. ASSUME NEW b \in Nat, b < a PROVE ((g + P) \div doubled[b]) % 2 = (g \div doubled[b]) % 2
  <2> DEFINE Q == doubled[b]
  <2>1. Q \in Nat \ {0} /\ \E s \in Nat : P = Q * (2 * s)
    <3>1. b \in 0..(a - 1)
      BY <1>6
    <3>. QED BY <3>1, DoubledMultiple DEF P
  <2> HIDE DEF Q
  <2>2. PICK s \in Nat : P = Q * (2 * s)
    BY <2>1
  <2> DEFINE u == g \div Q
  <2>3. PICK v \in 0..(Q - 1) : u \in Nat /\ g = Q * u + v
    BY <2>1, QuotientAndRest
  <2> HIDE DEF u
  <2>4. g + P = Q * (u + 2 * s) + v /\ u + 2 * s \in Nat
    BY <2>1, <2>2, <2>3
  <2>5. (g + P) \div Q = u + 2 * s
    BY ONLY <2>1, <2>3, <2>4, QuotientIs
  <2>6. (u + 2 * s) % 2 = u % 2
    BY <2>3
  <2>. QED BY <2>5, <2>6 DEF u, Q
<1>7. ASSUME NEW b \in Nat, a < b PROVE ((g + P) \div doubled[b]) % 2 = (g \div doubled[b]) % 2
  <2> DEFINE Q == doubled[b]
  <2>1. Q \in Nat \ {0} /\ \E s \in Nat : Q = P * (2 * s)
    <3>1. a \in 0..(b - 1)
      BY <1>7
    <3>. QED BY <3>1, DoubledMultiple DEF P
  <2> HIDE DEF Q
  <2>2. PICK s \in Nat : Q = P * (2 * s)
    BY <2>1
  <2>3. s \in Nat \ {0}
    BY <1>1, <2>1, <2>2
  <2> DEFINE u == h \div s
  <2>4. PICK v \in 0..(s - 1) : u \in Nat /\ h = s * u + v
    BY <1>4, <2>3, QuotientAndRest
  <2> HIDE DEF u
  <2> DEFINE w == P * (2 * v) + r
  <2>5. g = Q * u + w
    <3>1. P * (2 * (s * u + v)) = (P * (2 * s)) * u + P * (2 * v)
      BY <1>1, <2>3, <2>4
    <3>2. quo = 2 * (s * u + v)
      BY ONLY <1>4, <2>4
    <3>3. g = P * (2 * (s * u + v)) + r
      BY ONLY <1>2, <3>2
    <3>4. g = (Q * u + P * (2 * v)) + r
      BY ONLY <2>2, <3>1, <3>3
    <3>5. Q * u \in Nat /\ P * (2 * v) \in Nat /\ r \in Nat
      <4>1. 2 * v \in Nat
        BY <2>3, <2>4
      <4>. QED BY ONLY <1>1, <1>2, <2>1, <2>4, <4>1
    <3>. QED BY ONLY <3>4, <3>5
  <2>6. w \in Nat /\ w + P < Q
    <3>1. P * (2 * v) \in Nat /\ P * (2 * v) + 2 * P <= P * (2 * s)
      <4>1. P * (2 * v) + 2 * P = P * (2 * (v + 1))
        BY <1>1, <2>3, <2>4
      <4>2. P * (2 * (v + 1)) + P * (2 * (s - (v + 1))) = P * (2 * s)
        BY <1>1, <2>3, <2>4
      <4>3. P * (2 * v) \in Nat /\ P * (2 * (s - (v + 1))) \in Nat /\ P * (2 * s) \in Nat
        <5>1. 2 * v \in Nat /\ 2 * (s - (v + 1)) \in Nat /\ 2 * s \in Nat
          BY <2>3, <2>4
        <5>. QED BY <1>1, <5>1
      <4>. QED BY <1>1, <4>1, <4>2, <4>3
    <3>2. r \in Nat /\ r < P
      BY <1>1, <1>2
    <3>. QED BY <1>1, <2>2, <3>1, <3>2
  <2> HIDE DEF w
  <2>7. w \in 0..(Q - 1) /\ w + P \in 0..(Q - 1) /\ g + P = Q * u + (w + P)
    BY <1>1, <2>1, <2>4, <2>5, <2>6
  <2>8. g \div Q = u /\ (g + P) \div Q = u
    BY ONLY <2>1, <2>4, <2>5, <2>7, QuotientIs
  <2>. QED BY <2>8 DEF Q
<1>. QED BY <1>5, <1>6, <1>7 DEF P

\* All the bits below the e-th are there in the number before the e-th power, and in no
\* smaller one.
LEMMA AllBits ==
    \A e \in Nat : \A g \in 0..(doubled[e] - 1) :
        (\A l \in 0..(e - 1) : (g \div doubled[l]) % 2 = 1) <=> g = doubled[e] - 1
<1>1. ASSUME NEW e \in Nat, NEW l \in 0..(e - 1) PROVE ((doubled[e] - 1) \div doubled[l]) % 2 = 1
  <2> DEFINE Q == doubled[l]
             P == doubled[e]
  <2>1. Q \in Nat \ {0} /\ P \in Nat \ {0} /\ \E s \in Nat : P = Q * (2 * s)
    BY DoubledMultiple
  <2> HIDE DEF Q, P
  <2>2. PICK s \in Nat : P = Q * (2 * s)
    BY <2>1
  <2>3. s \in Nat \ {0}
    BY <2>1, <2>2
  <2>4. P - 1 = Q * (2 * s - 1) + (Q - 1)
    <3>1. Q * (2 * s) = Q * (2 * s - 1) + Q
      BY <2>1, <2>3
    <3>2. Q * (2 * s - 1) \in Nat
      <4>1. 2 * s - 1 \in Nat
        BY <2>3
      <4>. QED BY <2>1, <4>1
    <3>. QED BY <2>1, <2>2, <3>1, <3>2
  <2>5. 2 * s - 1 \in Nat /\ Q - 1 \in 0..(Q - 1)
    BY <2>1, <2>3
  <2>6. (P - 1) \div Q = 2 * s - 1
    BY ONLY <2>1, <2>4, <2>5, QuotientIs
  <2>7. (2 * s - 1) % 2 = 1
    BY <2>3
  <2>. QED BY <2>6, <2>7 DEF P, Q
<1> DEFINE T == {e \in Nat : \A g \in 0..(doubled[e] - 1) :
                    (\A l \in 0..(e - 1) : (g \div doubled[l]) % 2 = 1) => g = doubled[e] - 1}
<1>2. \A e \in Nat : e \in T
  <2>1. 0 \in T
    <3>1. doubled[0] = 1
      BY DoubledUnfold
    <3>. QED BY <3>1
  <2>2. ASSUME NEW e \in T PROVE e + 1 \in T
    <3>. SUFFICES ASSUME NEW g \in 0..(doubled[e + 1] - 1),
                         \A l \in 0..((e + 1) - 1) : (g \div doubled[l]) % 2 = 1
         PROVE  g = doubled[e + 1] - 1
      <4>1. e + 1 \in Nat
        OBVIOUS
      <4>. QED BY <4>1
    <3> DEFINE P == doubled[e]
               quo == g \div P
    <3>1. P \in Nat \ {0} /\ doubled[e + 1] = 2 * P
      <4>1. e \in Nat /\ e + 1 \in Nat /\ e + 1 # 0 /\ (e + 1) - 1 = e
        OBVIOUS
      <4>2. doubled[e + 1] = 2 * doubled[e]
        BY ONLY <4>1, DoubledUnfold
      <4>3. doubled[e] \in Nat \ {0}
        BY ONLY <4>1, DoubledMultiple
      <4>. QED BY <4>2, <4>3
    <3>2. quo % 2 = 1
      <4>1. e \in 0..((e + 1) - 1)
        OBVIOUS
      <4>. QED BY <4>1
    <3>3. \A l \in 0..(e - 1) : (g \div doubled[l]) % 2 = 1
      <4>1. \A l \in 0..(e - 1) : l \in 0..((e + 1) - 1)
        OBVIOUS
      <4>. QED BY <4>1
    <3> HIDE DEF P
    <3>4. g \in Nat /\ g < 2 * P
      BY <3>1
    <3>5. PICK r \in 0..(P - 1) : quo \in Nat /\ g = P * quo + r
      BY <3>1, <3>4, QuotientAndRest
    <3> HIDE DEF quo
    <3>6. quo = 1
      <4>1. CASE quo >= 2
        <5>1. P * quo = P * 2 + P * (quo - 2) /\ P * (quo - 2) \in Nat
          <6>1. quo - 2 \in Nat
            BY <3>5, <4>1
          <6>. QED BY <3>1, <3>5, <6>1
        <5>. QED BY <3>1, <3>4, <3>5, <5>1
      <4>. QED BY <3>2, <3>5, <4>1
    <3>7. r \in Nat /\ r < P /\ g = r + P
      BY <3>1, <3>5, <3>6
    <3>8. (r \div P) % 2 # 1
      <4>1. r = P * 0 + r /\ 0 \in Nat
        BY <3>1, <3>7
      <4>2. (P * 0 + r) \div P = 0
        BY ONLY <3>1, <3>5, <4>1, QuotientIs
      <4>3. r \div P = 0
        BY <4>1, <4>2
      <4>. QED BY <4>3
    <3>9. ASSUME NEW l \in 0..(e - 1) PROVE (r \div doubled[l]) % 2 = 1
      <4>1. e \in Nat /\ l \in Nat \ {e}
        OBVIOUS
      <4>2. (g \div doubled[l]) % 2 = (r \div doubled[l]) % 2
        BY <3>7, <3>8, <4>1, BitAdded DEF P
      <4>. QED BY <3>3, <4>2
    <3>10. r = P - 1
      BY <3>5, <3>9 DEF P
    <3>. QED BY <3>1, <3>7, <3>10
  <2>3. T \in SUBSET Nat
    OBVIOUS
  <2> HIDE DEF T
  <2>. QED BY <2>1, <2>2, <2>3, NatClosed
<1>3. ASSUME NEW e \in Nat, NEW g \in 0..(doubled[e] - 1)
      PROVE  (\A l \in 0..(e - 1) : (g \div doubled[l]) % 2 = 1) => g = doubled[e] - 1
  <2>1. e \in T
    BY <1>2
  <2>. QED BY <2>1
<1>. QED BY <1>1, <1>3

-----------------------------------------------------------------------------
(* NutsForNuts: lengths of ways. *)

\* What Apart is: the largest of four differences.
LEMMA ApartIs ==
    ASSUME NEW c \in Nat \X Nat, NEW d \in Nat \X Nat
    PROVE  /\ Apart(c, d) \in Nat
           /\ \A far \in Int : Apart(c, d) <= far <=>
                /\ c[1] - d[1] <= far /\ d[1] - c[1] <= far
                /\ c[2] - d[2] <= far /\ d[2] - c[2] <= far
<1> DEFINE S == {c[1] - d[1], d[1] - c[1], c[2] - d[2], d[2] - c[2]}
<1>1. c[1] \in Nat /\ c[2] \in Nat /\ d[1] \in Nat /\ d[2] \in Nat
  OBVIOUS
<1>2. \E x \in S : \A y \in S : x >= y
  BY <1>1
<1>3. Max(S) \in S /\ \A y \in S : Max(S) >= y
  <2> HIDE DEF S
  <2>. QED BY <1>2 DEF Max
<1>4. Apart(c, d) = Max(S)
  BY DEF Apart
<1>. QED BY <1>1, <1>3, <1>4

\* A move changes what is left to any cell by no more than one.
LEMMA ApartOneMove ==
    ASSUME NEW e \in Nat \X Nat, NEW c \in Nat \X Nat, NEW d \in Nat \X Nat,
           d[1] \in {c[1] - 1, c[1], c[1] + 1}, d[2] \in {c[2] - 1, c[2], c[2] + 1}
    PROVE  Apart(e, d) <= Apart(e, c) + 1
<1>1. /\ c[1] \in Nat /\ c[2] \in Nat /\ e[1] \in Nat /\ e[2] \in Nat
      /\ d[1] \in {c[1] - 1, c[1], c[1] + 1} /\ d[2] \in {c[2] - 1, c[2], c[2] + 1}
  OBVIOUS
<1> DEFINE far == Apart(e, c)
<1>2. /\ far \in Nat /\ e[1] - c[1] <= far /\ c[1] - e[1] <= far /\ e[2] - c[2] <= far /\ c[2] - e[2] <= far
  BY ApartIs
<1> HIDE DEF far
<1>3. /\ far + 1 \in Int
      /\ e[1] - d[1] <= far + 1 /\ d[1] - e[1] <= far + 1 /\ e[2] - d[2] <= far + 1 /\ d[2] - e[2] <= far + 1
  BY <1>1, <1>2
<1>. QED BY <1>3, ApartIs DEF far

\* Every cell but e itself is led to by a move from a cell that is nearer to e, and
\* lies between the two.
LEMMA ApartNearer ==
    ASSUME NEW e \in Nat \X Nat, NEW c \in Nat \X Nat, e # c
    PROVE  \E w \in 1..8 : \E d \in Nat \X Nat :
             /\ c = <<d[1] + Direction[w][1], d[2] + Direction[w][2]>>
             /\ Apart(e, d) + 1 <= Apart(e, c)
             /\ d[1] \in {c[1] - 1, c[1], c[1] + 1} /\ d[2] \in {c[2] - 1, c[2], c[2] + 1}
             /\ (d[1] < c[1] => e[1] <= d[1]) /\ (d[1] > c[1] => d[1] <= e[1])
             /\ (d[2] < c[2] => e[2] <= d[2]) /\ (d[2] > c[2] => d[2] <= e[2])
<1> DEFINE sign(f, led) == IF f < led THEN 1 ELSE IF f > led THEN -1 ELSE 0
           d1 == c[1] - sign(e[1], c[1])
           d2 == c[2] - sign(e[2], c[2])
<1>1. /\ c[1] \in Nat /\ c[2] \in Nat /\ e[1] \in Nat /\ e[2] \in Nat
      /\ c = <<c[1], c[2]>> /\ e = <<e[1], e[2]>>
  OBVIOUS
<1>2. \E w \in 1..8 : Direction[w][1] = sign(e[1], c[1]) /\ Direction[w][2] = sign(e[2], c[2])
  <2>1. /\ Direction[1] = <<0, 1>> /\ Direction[2] = <<-1, 1>> /\ Direction[3] = <<-1, 0>>
        /\ Direction[4] = <<-1, -1>> /\ Direction[5] = <<0, -1>> /\ Direction[6] = <<1, -1>>
        /\ Direction[7] = <<1, 0>> /\ Direction[8] = <<1, 1>>
    BY DEF Direction
  <2>2. sign(e[1], c[1]) # 0 \/ sign(e[2], c[2]) # 0
    BY <1>1
  <2>3. sign(e[1], c[1]) \in {-1, 0, 1} /\ sign(e[2], c[2]) \in {-1, 0, 1}
    OBVIOUS
  <2> HIDE DEF sign
  <2>. QED BY <2>1, <2>2, <2>3
<1>3. PICK w \in 1..8 : Direction[w][1] = sign(e[1], c[1]) /\ Direction[w][2] = sign(e[2], c[2])
  BY <1>2
<1>4. d1 \in Nat /\ d2 \in Nat
  BY <1>1
<1>5. c = <<<<d1, d2>>[1] + Direction[w][1], <<d1, d2>>[2] + Direction[w][2]>>
  BY <1>1, <1>3
<1>6. /\ d1 \in {c[1] - 1, c[1], c[1] + 1} /\ d2 \in {c[2] - 1, c[2], c[2] + 1}
      /\ (d1 < c[1] => e[1] <= d1) /\ (d1 > c[1] => d1 <= e[1])
      /\ (d2 < c[2] => e[2] <= d2) /\ (d2 > c[2] => d2 <= e[2])
  BY <1>1
<1>7. Apart(e, <<d1, d2>>) + 1 <= Apart(e, c)
  <2> DEFINE far == Apart(e, c)
  <2>1. /\ far \in Nat /\ e[1] - c[1] <= far /\ c[1] - e[1] <= far /\ e[2] - c[2] <= far /\ c[2] - e[2] <= far
    BY ApartIs
  <2> HIDE DEF far
  <2>2. e[1] - d1 <= far - 1 /\ d1 - e[1] <= far - 1 /\ e[2] - d2 <= far - 1 /\ d2 - e[2] <= far - 1
    BY <1>1, <2>1
  <2> HIDE DEF d1, d2
  <2>3. far - 1 \in Int /\ <<d1, d2>> \in Nat \X Nat /\ <<d1, d2>>[1] = d1 /\ <<d1, d2>>[2] = d2
    BY <1>4, <2>1
  <2>4. Apart(e, <<d1, d2>>) <= far - 1 /\ Apart(e, <<d1, d2>>) \in Nat
    BY <2>2, <2>3, ApartIs
  <2>. QED BY <2>1, <2>4 DEF far
<1> HIDE DEF d1, d2
<1>8. <<d1, d2>> \in Nat \X Nat /\ <<d1, d2>>[1] = d1 /\ <<d1, d2>>[2] = d2
  BY <1>4
<1>. QED BY <1>5, <1>6, <1>7, <1>8

\* The recursive function exists, and runs through the sums of the legs.
LEMMA WayLengthSums ==
    ASSUME NEW stops \in Seq(Nat \X Nat), Len(stops) >= 1
    PROVE  \E g : /\ g[1] = 0 /\ \A p \in 1..Len(stops) : g[p] \in Nat
                  /\ \A p \in 2..Len(stops) : g[p] = g[p - 1] + Apart(stops[p - 1], stops[p])
                  /\ WayLength(stops) = g[Len(stops)]
<1> DEFINE m == Len(stops) - 1
           leg == [b \in 1..m |-> Apart(stops[b], stops[b + 1])]
           R(f) == [p \in 1..Len(stops) |-> IF p = 1 THEN 0 ELSE f[p - 1] + Apart(stops[p - 1], stops[p])]
<1>1. m \in Nat /\ Len(stops) = m + 1 /\ \A p \in 1..Len(stops) : stops[p] \in Nat \X Nat
  OBVIOUS
<1>2. leg \in [1..m -> Nat]
  <2>. SUFFICES ASSUME NEW b \in 1..m PROVE Apart(stops[b], stops[b + 1]) \in Nat
    OBVIOUS
  <2>1. stops[b] \in Nat \X Nat /\ stops[b + 1] \in Nat \X Nat
    BY <1>1
  <2>. QED BY <2>1, ApartIs
<1>3. PICK f \in [0..m -> Nat] : f[0] = 0 /\ \A b \in 1..m : f[b] = f[b - 1] + leg[b]
  <2> HIDE DEF leg, m
  <2>. QED BY <1>1, <1>2, SumExists
<1> DEFINE g == [p \in 1..Len(stops) |-> f[p - 1]]
<1>4. \A p \in 1..Len(stops) : g[p] = IF p = 1 THEN 0 ELSE g[p - 1] + Apart(stops[p - 1], stops[p])
  <2>. SUFFICES ASSUME NEW p \in 2..Len(stops) PROVE g[p] = g[p - 1] + Apart(stops[p - 1], stops[p])
    BY <1>1, <1>3
  <2>1. p - 1 \in 1..m /\ p - 1 \in 1..Len(stops) /\ p \in 1..Len(stops) /\ (p - 1) + 1 = p
    BY <1>1
  <2>2. g[p] = f[p - 1] /\ g[p - 1] = f[(p - 1) - 1] /\ leg[p - 1] = Apart(stops[p - 1], stops[p])
    BY <2>1
  <2> HIDE DEF g, leg, m
  <2>. QED BY <1>3, <2>1, <2>2
<1>5. g = R(g)
  <2>1. g = [p \in 1..Len(stops) |-> g[p]]
    OBVIOUS
  <2> HIDE DEF g
  <2>. QED BY <1>4, <2>1
<1> DEFINE h == CHOOSE f_1 : f_1 = R(f_1)
<1>6. h = R(h)
  <2> HIDE DEF g, R
  <2>. QED BY <1>5
<1>7. WayLength(stops) = h[Len(stops)]
  BY DEF WayLength
<1> HIDE DEF h
<1>8. h[1] = 0 /\ \A p \in 2..Len(stops) : h[p] = h[p - 1] + Apart(stops[p - 1], stops[p])
  <2>1. \A p \in 1..Len(stops) : h[p] = IF p = 1 THEN 0 ELSE h[p - 1] + Apart(stops[p - 1], stops[p])
    BY ONLY <1>6
  <2>2. 1 \in 1..Len(stops) /\ \A p \in 2..Len(stops) : p \in 1..Len(stops) /\ p # 1
    BY <1>1
  <2>. QED BY ONLY <2>1, <2>2
<1>9. \A p \in 1..Len(stops) : h[p] \in Nat
  <2> DEFINE far == [b \in 0..m |-> h[b + 1]]
  <2>1. far[0] = 0 /\ \A b \in 1..m : far[b] = far[b - 1] + leg[b]
    <3>. SUFFICES ASSUME NEW b \in 1..m PROVE far[b] = far[b - 1] + leg[b]
      BY <1>1, <1>8
    <3>1. b + 1 \in 2..Len(stops) /\ (b + 1) - 1 = b /\ b \in 0..m /\ b - 1 \in 0..m /\ (b - 1) + 1 = b
      BY <1>1
    <3>2. h[b + 1] = h[b] + Apart(stops[b], stops[b + 1])
      BY <1>8, <3>1
    <3>. QED BY <3>1, <3>2
  <2> HIDE DEF far, leg, m
  <2>2. \A b \in 0..m : far[b] \in Nat
    BY <1>1, <1>2, <2>1, SumInNat
  <2>. SUFFICES ASSUME NEW p \in 1..Len(stops) PROVE h[p] \in Nat
    OBVIOUS
  <2>3. p - 1 \in 0..m /\ (p - 1) + 1 = p
    BY <1>1
  <2>4. far[p - 1] = h[p]
    BY <2>3 DEF far
  <2>. QED BY <2>2, <2>3, <2>4
<1>. QED BY <1>7, <1>8, <1>9

\* A stop more.
LEMMA WayLengthAppend ==
    ASSUME NEW stops \in Seq(Nat \X Nat), Len(stops) >= 1, NEW c \in Nat \X Nat
    PROVE  /\ WayLength(stops) \in Nat
           /\ WayLength(Append(stops, c)) = WayLength(stops) + Apart(stops[Len(stops)], c)
<1> DEFINE more == Append(stops, c)
           l == Len(stops)
<1>1. /\ more \in Seq(Nat \X Nat) /\ Len(more) = l + 1 /\ more[l + 1] = c
      /\ \A p \in 1..l : more[p] = stops[p]
  OBVIOUS
<1>2. PICK g : /\ g[1] = 0 /\ \A p \in 1..l : g[p] \in Nat
               /\ \A p \in 2..l : g[p] = g[p - 1] + Apart(stops[p - 1], stops[p])
               /\ WayLength(stops) = g[l]
  BY WayLengthSums
<1> HIDE DEF more
<1>3. PICK h : /\ h[1] = 0
               /\ \A p \in 2..(l + 1) : h[p] = h[p - 1] + Apart(more[p - 1], more[p])
               /\ WayLength(more) = h[l + 1]
  <2>1. Len(more) >= 1
    BY <1>1
  <2> HIDE DEF l
  <2>2. PICK h : /\ h[1] = 0 /\ \A p \in 1..Len(more) : h[p] \in Nat
                 /\ \A p \in 2..Len(more) : h[p] = h[p - 1] + Apart(more[p - 1], more[p])
                 /\ WayLength(more) = h[Len(more)]
    BY <1>1, <2>1, WayLengthSums
  <2>3. Len(more) = l + 1
    BY <1>1
  <2>4. /\ h[1] = 0 /\ WayLength(more) = h[l + 1]
        /\ \A p \in 2..(l + 1) : h[p] = h[p - 1] + Apart(more[p - 1], more[p])
    BY ONLY <2>2, <2>3
  <2>. QED BY ONLY <2>4
<1> DEFINE T == {b \in Nat : g[b + 1] = h[b + 1]}
<1>4. \A b \in 0..(l - 1) : b \in T
  <2>1. 0 \in T
    BY <1>2, <1>3
  <2>2. ASSUME NEW b \in 1..(l - 1), b - 1 \in T PROVE b \in T
    <3>1. /\ b + 1 \in 2..l /\ b + 1 \in 2..(l + 1) /\ (b + 1) - 1 = b /\ (b - 1) + 1 = b
          /\ b \in 1..l /\ b + 1 \in 1..l
      OBVIOUS
    <3>2. g[b] = h[b]
      BY <2>2, <3>1
    <3>3. g[b + 1] = g[b] + Apart(stops[b], stops[b + 1])
      BY <1>2, <3>1
    <3>4. h[b + 1] = h[b] + Apart(more[b], more[b + 1])
      BY <1>3, <3>1
    <3>. QED BY <1>1, <3>1, <3>2, <3>3, <3>4
  <2>3. T \in SUBSET Nat /\ l - 1 \in Nat
    OBVIOUS
  <2> HIDE DEF T
  <2>. QED BY <2>1, <2>2, <2>3, NatUpTo
<1>5. g[l] = h[l]
  <2>1. l - 1 \in 0..(l - 1) /\ (l - 1) + 1 = l
    OBVIOUS
  <2>2. l - 1 \in T
    BY <1>4, <2>1
  <2>. QED BY <2>1, <2>2
<1>6. h[l + 1] = h[l] + Apart(stops[l], c)
  <2>1. l + 1 \in 2..(l + 1) /\ (l + 1) - 1 = l /\ l \in 1..l
    OBVIOUS
  <2>. QED BY <1>1, <1>3, <2>1
<1>7. l \in 1..l
  OBVIOUS
<1>. QED BY <1>2, <1>3, <1>5, <1>6, <1>7 DEF more

\* One stop.
LEMMA WayLengthOne == ASSUME NEW c \in Nat \X Nat PROVE WayLength(<<c>>) = 0
<1> DEFINE stops == <<c>>
<1>1. stops \in Seq(Nat \X Nat) /\ Len(stops) = 1
  OBVIOUS
<1> HIDE DEF stops
<1>2. PICK g : g[1] = 0 /\ WayLength(stops) = g[Len(stops)]
  <2>1. Len(stops) >= 1
    BY ONLY <1>1
  <2>. QED BY ONLY <1>1, <2>1, WayLengthSums
<1>3. WayLength(stops) = 0
  BY ONLY <1>1, <1>2
<1>. QED BY <1>3 DEF stops

-----------------------------------------------------------------------------
(* NutsForNuts: the field that is searched. *)

\* The arrays and variables are those of one of the cases.
FieldRead ==
    \E field \in Fields :
        land = Land(field) /\ start = field.start /\ sum = doubled[Cardinality(field.nuts)]

\* The nut of this cell is among those of the number got.
Has(got, c) == (got \div land[c]) % 2 = 1

\* The nuts are counted through from 0.
LEMMA NutsCounted ==
    ASSUME NEW field \in Fields
    PROVE  /\ Cardinality(field.nuts) \in Nat
           /\ \A c \in field.nuts : Cardinality(Before(field, c)) \in 0..(Cardinality(field.nuts) - 1)
           /\ \A c, d \in field.nuts :
                Cardinality(Before(field, c)) = Cardinality(Before(field, d)) => c = d
           /\ \A l \in 0..(Cardinality(field.nuts) - 1) :
                \E c \in field.nuts : Cardinality(Before(field, c)) = l
<1> DEFINE nuts == field.nuts
           K == Cardinality(nuts)
           B(c) == Before(field, c)
           r == [c \in nuts |-> Cardinality(B(c))]
<1>1. IsFiniteSet(nuts) /\ K \in Nat
  BY FieldCells, FS_CardinalityType
<1>2. \A c \in nuts : c[1] \in Nat /\ c[2] \in Nat /\ c = <<c[1], c[2]>>
  <2>1. nuts \subseteq (1..field.n) \X (1..field.m)
    BY FieldCells DEF Cells
  <2>. QED BY ONLY <2>1
<1>3. ASSUME NEW c \in nuts
      PROVE  B(c) \subseteq nuts /\ IsFiniteSet(B(c)) /\ c \notin B(c) /\ Cardinality(B(c)) \in 0..(K - 1)
  <2>1. B(c) \subseteq nuts /\ c \notin B(c)
    BY <1>2 DEF Before
  <2>2. IsFiniteSet(B(c)) /\ Cardinality(B(c)) <= K /\ (K = Cardinality(B(c)) => nuts = B(c))
    <3> HIDE DEF nuts, B
    <3>. QED BY ONLY <1>1, <2>1, FS_Subset DEF K
  <2>3. Cardinality(B(c)) \in Nat
    BY ONLY <2>2, FS_CardinalityType
  <2>4. K # Cardinality(B(c))
    BY ONLY <2>1, <2>2, c \in nuts
  <2> HIDE DEF nuts, B, K
  <2>. QED BY <1>1, <2>1, <2>2, <2>3, <2>4
<1>4. ASSUME NEW c \in nuts, NEW d \in nuts, c \in B(d) PROVE Cardinality(B(c)) < Cardinality(B(d))
  <2>1. B(c) \subseteq B(d)
    BY <1>2, <1>4 DEF Before
  <2>2. Cardinality(B(c)) <= Cardinality(B(d)) /\ (Cardinality(B(d)) = Cardinality(B(c)) => B(d) = B(c))
    <3>1. IsFiniteSet(B(d))
      BY <1>3
    <3> HIDE DEF nuts, B
    <3>. QED BY ONLY <2>1, <3>1, FS_Subset
  <2>3. Cardinality(B(d)) # Cardinality(B(c))
    BY <1>3, <1>4, <2>2
  <2>4. Cardinality(B(c)) \in Nat /\ Cardinality(B(d)) \in Nat
    <3> HIDE DEF nuts, B, K
    <3>. QED BY <1>1, <1>3
  <2> HIDE DEF nuts, B
  <2>. QED BY ONLY <2>2, <2>3, <2>4
<1>5. ASSUME NEW c \in nuts, NEW d \in nuts, Cardinality(B(c)) = Cardinality(B(d)) PROVE c = d
  <2>1. c # d => c \in B(d) \/ d \in B(c)
    BY <1>2 DEF Before
  <2>2. Cardinality(B(c)) \in Nat
    <3> HIDE DEF nuts, B, K
    <3>. QED BY <1>1, <1>3
  <2> HIDE DEF nuts, B
  <2>. QED BY <1>4, <1>5, <2>1, <2>2
<1>6. \A l \in 0..(K - 1) : \E c \in nuts : Cardinality(B(c)) = l
  <2>1. r \in [nuts -> 0..(K - 1)]
    <3> HIDE DEF nuts, B, K
    <3>. QED BY <1>3
  <2>2. \A c \in nuts : r[c] = Cardinality(B(c))
    OBVIOUS
  <2> HIDE DEF r, B
  <2>3. \A c, d \in nuts : r[c] = r[d] => c = d
    <3> HIDE DEF nuts
    <3>. QED BY ONLY <1>5, <2>2
  <2> HIDE DEF nuts, K
  <2>4. r \in Injection(nuts, 0..(K - 1))
    BY ONLY <2>1, <2>3 DEF Injection, IsInjective
  <2>5. IsFiniteSet(0..(K - 1)) /\ Cardinality(0..(K - 1)) = K
    BY ONLY <1>1, IntervalSize
  <2>6. r \in Surjection(nuts, 0..(K - 1))
    BY ONLY <2>4, <2>5, FS_Injection DEF K
  <2>. QED BY ONLY <2>2, <2>6 DEF Surjection
<1> HIDE DEF r
<1>. QED BY <1>1, <1>3, <1>5, <1>6

\* What a case leaves in the arrays and variables.
LEMMA FieldIsRead ==
    ASSUME NEW field \in Fields, land = Land(field), start = field.start,
           sum = doubled[Cardinality(field.nuts)]
    PROVE  /\ Ground = (1..field.n) \X (1..field.m) /\ field.n \in Nat /\ field.m \in Nat
           /\ Nuts = field.nuts /\ IsFiniteSet(Nuts)
           /\ start \in Ground \ Nuts /\ Nuts \subseteq Ground
           /\ sum \in Nat /\ sum >= 1
           /\ \A c \in Nuts : land[c] = doubled[Cardinality(Before(field, c))]
           /\ \A c \in Ground \ Nuts : land[c] = 0
<1>1. Ground = Cells(field)
  BY FieldCells, LandBits DEF Ground
<1>2. \A c \in DOMAIN land : land[c] = IF c \notin Cells(field) THEN -1
                ELSE IF c \in field.nuts THEN doubled[Cardinality(Before(field, c))] ELSE 0
  BY FieldCells DEF Land
<1>3. \A c \in field.nuts : /\ doubled[Cardinality(Before(field, c))] \in Nat
                             /\ doubled[Cardinality(Before(field, c))] >= 1
  <2>1. \A c \in field.nuts : Cardinality(Before(field, c)) \in Nat
    BY NutsCounted
  <2>. QED BY <2>1, DoubledMultiple
<1>4. /\ field.nuts \subseteq Cells(field) /\ Cells(field) \subseteq DOMAIN land
      /\ field.start \in Cells(field) /\ field.start \notin field.nuts
  BY FieldCells, FieldsAssumption
<1>5. Nuts = field.nuts
  <2>1. \A c \in field.nuts : c \in DOMAIN land /\ land[c] > 0
    <3>1. \A c \in field.nuts : c \in DOMAIN land /\ c \in Cells(field)
      BY ONLY <1>4
    <3>2. \A c \in field.nuts : land[c] = doubled[Cardinality(Before(field, c))]
      BY ONLY <1>2, <3>1
    <3>. QED BY ONLY <1>3, <3>1, <3>2
  <2>2. \A c \in DOMAIN land : c \notin field.nuts => land[c] = -1 \/ land[c] = 0
    BY ONLY <1>2
  <2>3. \A c \in DOMAIN land : c \notin field.nuts => ~(land[c] > 0)
    BY ONLY <2>2
  <2>. QED BY ONLY <2>1, <2>3 DEF Nuts
<1>6. sum \in Nat /\ sum >= 1
  BY NutsCounted, DoubledMultiple
<1>7. \A c \in Ground \ Nuts : land[c] = 0
  <2>1. \A c \in Ground \ Nuts : c \in DOMAIN land /\ c \in Cells(field) /\ c \notin field.nuts
    BY ONLY <1>1, <1>4, <1>5
  <2>. QED BY ONLY <1>2, <2>1
<1>8. \A c \in Nuts : land[c] = doubled[Cardinality(Before(field, c))]
  <2>1. \A c \in Nuts : c \in DOMAIN land /\ c \in Cells(field) /\ c \in field.nuts
    BY ONLY <1>4, <1>5
  <2>. QED BY ONLY <1>2, <2>1
<1>9. field.n \in Nat /\ field.m \in Nat /\ IsFiniteSet(field.nuts)
  BY FieldCells
<1>. QED BY <1>1, <1>4, <1>5, <1>6, <1>7, <1>8, <1>9 DEF Cells

\* The field is a rectangle with the start in it, and nuts elsewhere.
LEMMA FieldShape ==
    ASSUME FieldRead
    PROVE  /\ \E rows, cols \in Nat : Ground = (1..rows) \X (1..cols)
           /\ IsFiniteSet(Nuts) /\ Nuts \subseteq Ground /\ start \in Ground \ Nuts
           /\ Ground \subseteq Nat \X Nat
           /\ sum \in Nat /\ sum >= 1
<1>1. PICK field \in Fields :
        land = Land(field) /\ start = field.start /\ sum = doubled[Cardinality(field.nuts)]
  BY DEF FieldRead
<1>2. Ground = (1..field.n) \X (1..field.m) /\ field.n \in Nat /\ field.m \in Nat
  BY <1>1, FieldIsRead
<1>3. Ground \subseteq Nat \X Nat
  BY ONLY <1>2
<1>. QED BY <1>1, <1>2, <1>3, FieldIsRead

\* Moving onto a cell adds its nut to those that the squirrel has, and no other.
LEMMA NutAdded ==
    ASSUME FieldRead, NEW got \in 0..(sum - 1), NEW c \in Ground
    PROVE  /\ With(got, land[c]) \in 0..(sum - 1)
           /\ \A d \in Nuts : Has(With(got, land[c]), d) <=> (Has(got, d) \/ d = c)
<1>1. PICK field \in Fields :
        land = Land(field) /\ start = field.start /\ sum = doubled[Cardinality(field.nuts)]
  BY DEF FieldRead
<1> DEFINE r(d) == Cardinality(Before(field, d))
<1>2. /\ Nuts = field.nuts /\ Nuts \subseteq Ground /\ sum \in Nat
      /\ \A d \in Nuts : land[d] = doubled[r(d)]
      /\ \A d \in Ground \ Nuts : land[d] = 0
  BY <1>1, FieldIsRead
<1>3. /\ Cardinality(field.nuts) \in Nat
      /\ \A d \in Nuts : r(d) \in 0..(Cardinality(field.nuts) - 1)
      /\ \A d, e \in Nuts : r(d) = r(e) => d = e
  BY <1>2, NutsCounted
<1> HIDE DEF r
<1>4. CASE c \notin Nuts
  <2>1. With(got, land[c]) = got
    BY <1>2, <1>4 DEF With
  <2>. QED BY <1>2, <1>4, <2>1
<1>5. CASE c \in Nuts
  <2>1. land[c] = doubled[r(c)] /\ r(c) \in Nat /\ doubled[r(c)] \in Nat /\ doubled[r(c)] >= 1
    BY <1>2, <1>3, <1>5, DoubledMultiple
  <2>2. \E s \in Nat : sum = land[c] * (2 * s)
    BY <1>1, <1>2, <1>3, <1>5, DoubledMultiple
  <2>3. With(got, land[c]) \in 0..(sum - 1)
    <3>1. got \in Nat /\ got < sum /\ land[c] \in Int
      BY <1>2, <2>1
    <3>. QED BY <1>2, <2>2, <3>1, WithBelow
  <2>4. CASE Has(got, c)
    <3>1. With(got, land[c]) = got
      BY <2>4 DEF With, Has
    <3>. QED BY <2>3, <2>4, <3>1
  <2>5. CASE ~Has(got, c)
    <3>1. With(got, land[c]) = got + doubled[r(c)]
      BY <2>1, <2>5 DEF With, Has
    <3>2. (got \div doubled[r(c)]) % 2 # 1 /\ got \in Nat
      BY <1>2, <2>1, <2>5 DEF Has
    <3>3. Has(With(got, land[c]), c)
      BY <2>1, <3>1, <3>2, BitAdded DEF Has
    <3>4. ASSUME NEW d \in Nuts, d # c PROVE Has(With(got, land[c]), d) <=> Has(got, d)
      <4>1. r(d) \in Nat \ {r(c)} /\ land[d] = doubled[r(d)]
        BY <1>2, <1>3, <1>5, <3>4
      <4>2. ((got + doubled[r(c)]) \div doubled[r(d)]) % 2 = (got \div doubled[r(d)]) % 2
        BY <2>1, <3>2, <4>1, BitAdded
      <4>. QED BY ONLY <3>1, <4>1, <4>2 DEF Has
    <3>. QED BY <2>3, <3>3, <3>4
  <2>. QED BY <2>4, <2>5
<1>. QED BY <1>4, <1>5

\* All nuts are there in the last number and in no other, and none in 0.
LEMMA NutsAll ==
    ASSUME FieldRead
    PROVE  /\ \A got \in 0..(sum - 1) : (\A d \in Nuts : Has(got, d)) <=> got = sum - 1
           /\ \A d \in Nuts : ~Has(0, d)
<1>1. PICK field \in Fields :
        land = Land(field) /\ start = field.start /\ sum = doubled[Cardinality(field.nuts)]
  BY DEF FieldRead
<1> DEFINE r(d) == Cardinality(Before(field, d))
           K == Cardinality(field.nuts)
<1>2. Nuts = field.nuts /\ \A d \in Nuts : land[d] = doubled[r(d)]
  BY <1>1, FieldIsRead
<1>3. /\ K \in Nat /\ \A d \in Nuts : r(d) \in 0..(K - 1)
      /\ \A l \in 0..(K - 1) : \E d \in Nuts : r(d) = l
  BY <1>2, NutsCounted
<1> HIDE DEF r
<1>4. ASSUME NEW got \in 0..(sum - 1) PROVE (\A d \in Nuts : Has(got, d)) <=> got = sum - 1
  <2>1. (\A d \in Nuts : Has(got, d)) <=> \A l \in 0..(K - 1) : (got \div doubled[l]) % 2 = 1
    <3> HIDE DEF K
    <3>1. \A d \in Nuts : Has(got, d) <=> (got \div doubled[r(d)]) % 2 = 1
      BY <1>2 DEF Has
    <3>. QED BY ONLY <1>3, <3>1
  <2>2. sum = doubled[K]
    BY <1>1
  <2> HIDE DEF K
  <2>. QED BY <1>3, <2>1, <2>2, AllBits
<1>5. ASSUME NEW d \in Nuts PROVE ~Has(0, d)
  <2>1. r(d) \in Nat /\ land[d] = doubled[r(d)]
    BY <1>2, <1>3
  <2>2. doubled[r(d)] \in Nat \ {0}
    BY <2>1, DoubledMultiple
  <2>3. \A e \in Nat \ {0} : (0 \div e) % 2 # 1
    OBVIOUS
  <2>. QED BY <2>1, <2>2, <2>3 DEF Has
<1>. QED BY <1>4, <1>5

-----------------------------------------------------------------------------
(* NutsForNuts: ways along stops. *)

\* The moves it takes from the start along these stops, and then to the cell c.
Way(order) == WayLength(<<start>> \o order)
LastStop(order) == IF order = <<>> THEN start ELSE order[Len(order)]
WayTo(order, c) == Way(order) + Apart(LastStop(order), c)

\* No stop twice.
Single(order) == \A p, z \in 1..Len(order) : order[p] = order[z] => p = z

\* All of these stops, none of them twice.
Visits(order, S) ==
    /\ order \in Seq(S) /\ Single(order)
    /\ \A c \in S : \E p \in 1..Len(order) : order[p] = c

\* The orders of a set are its visits.
LEMMA OrdersAreVisits ==
    ASSUME NEW S, IsFiniteSet(S)
    PROVE  \A order : order \in SetToSeqs(S) <=> Visits(order, S)
<1> DEFINE K == Cardinality(S)
<1>1. K \in Nat
  BY FS_CardinalityType
<1>2. IsFiniteSet(1..K) /\ Cardinality(1..K) = K
  BY ONLY <1>1, IntervalSize
<1>3. ASSUME NEW order \in SetToSeqs(S) PROVE Visits(order, S)
  <2>1. order \in [1..K -> S] /\ \A p, z \in 1..K : p # z => order[p] # order[z]
    BY <1>3 DEF SetToSeqs
  <2> HIDE DEF K
  <2>2. order \in Seq(S) /\ Len(order) = K
    BY <1>1, <2>1
  <2>3. order \in Injection(1..K, S)
    BY ONLY <2>1 DEF Injection, IsInjective
  <2>4. order \in Surjection(1..K, S)
    BY ONLY <1>2, <2>3, IsFiniteSet(S), FS_Injection DEF K
  <2>5. \A c \in S : \E p \in 1..K : order[p] = c
    BY ONLY <2>4 DEF Surjection
  <2>. QED BY ONLY <2>1, <2>2, <2>5 DEF Visits, Single
<1>4. ASSUME NEW order, Visits(order, S) PROVE order \in SetToSeqs(S)
  <2> DEFINE l == Len(order)
  <2>1. /\ order \in Seq(S) /\ \A p, z \in 1..l : order[p] = order[z] => p = z
        /\ \A c \in S : \E p \in 1..l : order[p] = c
    BY <1>4 DEF Visits, Single
  <2>2. order \in [1..l -> S] /\ l \in Nat
    BY ONLY <2>1
  <2> HIDE DEF l, K
  <2>3. order \in Bijection(1..l, S)
    BY ONLY <2>1, <2>2 DEF Bijection, Injection, Surjection, IsInjective
  <2>4. ExistsBijection(1..l, S)
    BY ONLY <2>3 DEF ExistsBijection
  <2>5. K = l
    BY ONLY <2>2, <2>4, FS_CountingElements DEF K
  <2>. QED BY ONLY <2>1, <2>2, <2>5 DEF SetToSeqs, K
<1>. QED BY <1>3, <1>4

\* Nobody has to move before the first stop; a stop more is a way to it; a round is a way
\* back to the start.
LEMMA WayFacts ==
    ASSUME start \in Nat \X Nat, NEW order \in Seq(Nat \X Nat)
    PROVE  /\ Way(<<>>) = 0 /\ LastStop(<<>>) = start
           /\ Way(order) \in Nat /\ LastStop(order) \in Nat \X Nat
           /\ \A c \in Nat \X Nat :
                /\ Way(Append(order, c)) = WayTo(order, c) /\ LastStop(Append(order, c)) = c
                /\ WayTo(order, c) \in Nat
           /\ Round(order) = WayTo(order, start)
<1> DEFINE C == Nat \X Nat
           s == <<start>> \o order
<1>. HIDE DEF C
<1>1. start \in C /\ order \in Seq(C)
  BY DEF C
<1>2. s \in Seq(C) /\ Len(s) = Len(order) + 1 /\ Len(s) >= 1 /\ Len(order) \in Nat
  BY ONLY <1>1
<1>3. s[Len(s)] = LastStop(order) /\ LastStop(order) \in C
  <2>1. CASE order = <<>>
    BY ONLY <1>1, <2>1 DEF LastStop
  <2>2. CASE order # <<>>
    <3>1. Len(order) \in 1..Len(order)
      BY ONLY <1>1, <2>2
    <3>. QED BY ONLY <1>1, <2>2, <3>1 DEF LastStop
  <2>. QED BY ONLY <2>1, <2>2
<1>4. ASSUME NEW c \in C
      PROVE  <<start>> \o Append(order, c) = Append(s, c) /\ s \o <<c>> = Append(s, c)
  BY ONLY <1>1, <1>4
<1> HIDE DEF s
<1>5. ASSUME NEW c \in C PROVE WayLength(Append(s, c)) = WayTo(order, c) /\ WayTo(order, c) \in Nat
  <2>1. WayLength(s) \in Nat /\ WayLength(Append(s, c)) = WayLength(s) + Apart(s[Len(s)], c)
    BY ONLY <1>2, <1>5, WayLengthAppend DEF C
  <2>2. Apart(LastStop(order), c) \in Nat
    BY ONLY <1>3, <1>5, ApartIs DEF C
  <2>3. WayTo(order, c) = WayLength(s) + Apart(s[Len(s)], c)
    BY ONLY <1>3 DEF WayTo, Way, s
  <2>. QED BY ONLY <1>3, <2>1, <2>2, <2>3
<1>6. Way(order) \in Nat
  BY ONLY <1>2, start \in C, WayLengthAppend DEF C, Way, s
<1>7. ASSUME NEW c \in C
      PROVE  Way(Append(order, c)) = WayTo(order, c) /\ LastStop(Append(order, c)) = c
  <2>1. Way(Append(order, c)) = WayTo(order, c)
    BY ONLY <1>4, <1>5, c \in C DEF Way
  <2>2. Append(order, c) # <<>> /\ Append(order, c)[Len(Append(order, c))] = c
    BY ONLY <1>1, c \in C
  <2>. QED BY ONLY <2>1, <2>2 DEF LastStop
<1>8. Round(order) = WayTo(order, start)
  BY ONLY <1>1, <1>4, <1>5 DEF Round, s
<1>9. Way(<<>>) = 0 /\ LastStop(<<>>) = start
  <2>1. <<start>> \o <<>> = <<start>>
    BY ONLY <1>1
  <2>2. WayLength(<<start>>) = 0
    BY ONLY <1>1, WayLengthOne DEF C
  <2>. QED BY ONLY <2>1, <2>2 DEF Way, LastStop
<1>. QED BY ONLY <1>3, <1>5, <1>6, <1>7, <1>8, <1>9 DEF C

\* A move lengthens the way to where the squirrel is by no more than one, and a nut that
\* is found there makes a stop of the cell at no cost.
LEMMA WayOneMove ==
    ASSUME start \in Nat \X Nat, NEW order \in Seq(Nat \X Nat),
           NEW c \in Nat \X Nat, NEW d \in Nat \X Nat,
           d[1] \in {c[1] - 1, c[1], c[1] + 1}, d[2] \in {c[2] - 1, c[2], c[2] + 1}
    PROVE  /\ WayTo(order, d) <= WayTo(order, c) + 1
           /\ WayTo(Append(order, d), d) = WayTo(order, d)
<1>1. Way(order) \in Nat /\ LastStop(order) \in Nat \X Nat
  BY ONLY start \in Nat \X Nat, order \in Seq(Nat \X Nat), WayFacts
<1>2. /\ Apart(LastStop(order), d) <= Apart(LastStop(order), c) + 1
      /\ Apart(LastStop(order), d) \in Nat /\ Apart(LastStop(order), c) \in Nat
  <2> DEFINE e == LastStop(order)
  <2>1. e \in Nat \X Nat
    BY <1>1
  <2> HIDE DEF e
  <2>2. Apart(e, d) <= Apart(e, c) + 1
    BY ONLY <2>1, c \in Nat \X Nat, d \in Nat \X Nat, d[1] \in {c[1] - 1, c[1], c[1] + 1},
            d[2] \in {c[2] - 1, c[2], c[2] + 1}, ApartOneMove
  <2>3. Apart(e, d) \in Nat /\ Apart(e, c) \in Nat
    BY ONLY <2>1, c \in Nat \X Nat, d \in Nat \X Nat, ApartIs
  <2>. QED BY ONLY <2>2, <2>3 DEF e
<1>3. Apart(d, d) = 0
  <2>1. d[1] \in Nat /\ d[2] \in Nat
    OBVIOUS
  <2>2. Apart(d, d) \in Nat /\ \A far \in Int : Apart(d, d) <= far <=>
          /\ d[1] - d[1] <= far /\ d[1] - d[1] <= far
          /\ d[2] - d[2] <= far /\ d[2] - d[2] <= far
    BY ONLY d \in Nat \X Nat, ApartIs
  <2>3. Apart(d, d) <= 0
    BY ONLY <2>1, <2>2
  <2>. QED BY ONLY <2>2, <2>3
<1>4. /\ Way(Append(order, d)) = WayTo(order, d) /\ LastStop(Append(order, d)) = d
      /\ WayTo(order, d) \in Nat
  BY ONLY start \in Nat \X Nat, order \in Seq(Nat \X Nat), d \in Nat \X Nat, WayFacts
<1>. QED BY ONLY <1>1, <1>2, <1>3, <1>4 DEF WayTo

-----------------------------------------------------------------------------
(* NutsForNuts: the layers of the search. *)

Place(s) == <<s.x, s.y>>

\* The state that a direction leads to from a state.
Target(s, w) ==
    LET x == s.x + Direction[w][1]
        y == s.y + Direction[w][2]
    IN [x |-> x, y |-> y, get |-> With(s.get, land[<<x, y>>])]

\* The nuts of a number.
Held(got) == {c \in Nuts : Has(got, c)}

\* To every state of the queue there is a way, over the nuts it has, in the moves of its layer.
WaysThere ==
    \A p \in 1..Len(queue) : \E order :
        /\ Visits(order, Held(queue[p].get))
        /\ WayTo(order, Place(queue[p])) <= IF p <= tail THEN move ELSE move + 1

\* On the cell of a nut the squirrel has it.
OwnNut == \A p \in 1..Len(queue) : Place(queue[p]) \in Nuts => Has(queue[p].get, Place(queue[p]))

Flagged == flag <=> \E p \in 1..Len(queue) : IsLast(queue[p])

HashOnly == \A h \in hash : \E p \in 1..Len(queue) : Slot(queue[p]) = h

\* A state of the first m of the queue is on the cell with these nuts, and maybe others.
Found(order, c, m) ==
    \E p \in 1..m : Place(queue[p]) = c /\ \A z \in 1..Len(order) : Has(queue[p].get, order[z])

\* What a way of so many moves leads to has been found.
Reached(far) ==
    \A order \in Seq(Nuts), c \in Ground :
        Single(order) /\ WayTo(order, c) <= far => Found(order, c, tail)

Leads(p, w) ==
    Place(Target(queue[p], w)) \in Ground => \E z \in 1..Len(queue) : queue[z] = Target(queue[p], w)

Extended ==
    /\ \A p \in 1..tail, w \in 1..8 : p < here \/ (p = here /\ w < way) => Leads(p, w)
    /\ here > tail => way = 1

\* The moves that have been counted are those of a shortest round.
MovesAreLeast ==
    /\ \E order : Visits(order, Nuts) /\ Round(order) <= move
    /\ \A order : Visits(order, Nuts) => Round(order) \in Nat /\ move <= Round(order)

LayersIInv ==
    nutsPc \in {"extend", "print"} =>
        /\ FieldRead /\ WaysThere /\ OwnNut /\ Flagged /\ HashOnly
        /\ nutsPc = "extend" =>
             Reached(move) /\ Extended /\ \A p \in 1..tail : ~IsLast(queue[p])
        /\ nutsPc = "print" => MovesAreLeast

\* Two states that share a place in the array are the same.
LEMMA SlotsDiffer ==
    ASSUME FieldsFit, FieldRead,
           NEW s \in [x : Nat, y : Nat, get : Nat], NEW led \in [x : Nat, y : Nat, get : Nat],
           Place(s) \in Ground, Place(led) \in Ground, s.get < sum, led.get < sum, Slot(s) = Slot(led)
    PROVE  s = led
<1>1. PICK field \in Fields :
        land = Land(field) /\ start = field.start /\ sum = doubled[Cardinality(field.nuts)]
  BY DEF FieldRead
<1>2. /\ Ground = (1..field.n) \X (1..field.m) /\ field.n \in Nat /\ field.m \in Nat
      /\ field.m + 2 <= 22 /\ sum \in Nat /\ sum <= 32678
  BY <1>1, FieldIsRead DEF FieldsFit, maxn, HashSize
<1>3. /\ s.x \in Nat /\ s.y \in Nat /\ s.get \in Nat /\ s.y <= field.m /\ s.get < 32678
      /\ led.x \in Nat /\ led.y \in Nat /\ led.get \in Nat /\ led.y <= field.m /\ led.get < 32678
  BY <1>2 DEF Place
<1>4. (s.x * 22 + s.y) * 32678 + s.get = (led.x * 22 + led.y) * 32678 + led.get
  BY DEF Slot, maxn, HashSize
<1>5. \A a, b, g, h \in Nat :
        a * 32678 + g = b * 32678 + h /\ g < 32678 /\ h < 32678 => a = b /\ g = h
  OBVIOUS
<1>6. s.x * 22 + s.y \in Nat /\ led.x * 22 + led.y \in Nat
  BY <1>3
<1>7. s.x * 22 + s.y = led.x * 22 + led.y /\ s.get = led.get
  <2> DEFINE a == s.x * 22 + s.y
             b == led.x * 22 + led.y
  <2>1. a \in Nat /\ b \in Nat /\ a * 32678 + s.get = b * 32678 + led.get
    BY ONLY <1>4, <1>6
  <2> HIDE DEF a, b
  <2>2. a = b /\ s.get = led.get
    BY ONLY <1>3, <1>5, <2>1
  <2>. QED BY ONLY <2>2 DEF a, b
<1>8. s.x = led.x /\ s.y = led.y
  BY ONLY <1>2, <1>3, <1>7
<1>. QED BY ONLY <1>7, <1>8, s \in [x : Nat, y : Nat, get : Nat], led \in [x : Nat, y : Nat, get : Nat]

\* A direction leads to a cell beside the state's, with the nut of that cell added.
LEMMA TargetIs ==
    ASSUME NutsIInv, FieldRead, NEW p \in 1..Len(queue), NEW w \in 1..8
    PROVE  /\ Direction[w][1] \in {-1, 0, 1} /\ Direction[w][2] \in {-1, 0, 1}
           /\ Place(Target(queue[p], w)) =
                <<Place(queue[p])[1] + Direction[w][1], Place(queue[p])[2] + Direction[w][2]>>
           /\ Place(Target(queue[p], w)) \in DOMAIN land
           /\ queue[p].get \in 0..(sum - 1) /\ Place(queue[p]) \in Ground
           /\ Place(Target(queue[p], w)) \in Ground =>
                /\ Target(queue[p], w) \in [x : Nat, y : Nat, get : Nat]
                /\ Target(queue[p], w).get \in 0..(sum - 1)
                /\ \A d \in Nuts : Has(Target(queue[p], w).get, d)
                                   <=> (Has(queue[p].get, d) \/ d = Place(Target(queue[p], w)))
<1> DEFINE s == queue[p]
           x == s.x + Direction[w][1]
           y == s.y + Direction[w][2]
           led == Target(s, w)
<1>1. Direction[w][1] \in {-1, 0, 1} /\ Direction[w][2] \in {-1, 0, 1}
  BY DEF Direction
<1>2. s.x \in Nat /\ s.y \in Nat /\ s.get \in Nat /\ <<s.x, s.y>> \in Ground /\ s.get < sum
  BY QueueStates DEF NutsIInv
<1>3. led = [x |-> x, y |-> y, get |-> With(s.get, land[<<x, y>>])]
  BY DEF Target
<1>4. Place(led) = <<x, y>> /\ led.get = With(s.get, land[<<x, y>>])
  BY <1>3 DEF Place
<1> HIDE DEF s
<1>5. Place(s)[1] = s.x /\ Place(s)[2] = s.y /\ Place(s) \in Ground
  BY <1>2 DEF Place
<1>6. <<x, y>> \in DOMAIN land
  BY <1>1, <1>2 DEF NutsIInv, Bordered
<1>7. s.get \in 0..(sum - 1)
  BY <1>2, FieldShape
<1> HIDE DEF led
<1>8. ASSUME <<x, y>> \in Ground
      PROVE  /\ led \in [x : Nat, y : Nat, get : Nat] /\ led.get \in 0..(sum - 1)
             /\ \A d \in Nuts : Has(led.get, d) <=> (Has(s.get, d) \/ d = <<x, y>>)
  <2>1. x \in Nat /\ y \in Nat
    <3>1. <<x, y>> \in Nat \X Nat
      BY <1>8, FieldShape
    <3>. QED BY ONLY <3>1
  <2>2. /\ With(s.get, land[<<x, y>>]) \in 0..(sum - 1)
        /\ \A d \in Nuts : Has(With(s.get, land[<<x, y>>]), d) <=> (Has(s.get, d) \/ d = <<x, y>>)
    <3> HIDE DEF x, y
    <3>. QED BY <1>7, <1>8, NutAdded
  <2>3. sum \in Nat
    BY FieldShape
  <2> HIDE DEF x, y
  <2>. QED BY <1>3, <1>4, <2>1, <2>2, <2>3
<1>. QED BY <1>1, <1>4, <1>5, <1>6, <1>7, <1>8 DEF s, led

\* The last state is on the start's cell with all nuts.
LEMMA LastIs ==
    ASSUME NutsIInv, FieldRead, NEW p \in 1..Len(queue)
    PROVE  IsLast(queue[p]) <=> Place(queue[p]) = start /\ \A d \in Nuts : Has(queue[p].get, d)
<1>1. queue[p].get \in 0..(sum - 1)
  <2>1. NutsTypeOK /\ Marked /\ sum \in Nat
    BY FieldShape DEF NutsIInv
  <2>2. queue[p].get \in Nat /\ queue[p].get < sum
    BY ONLY <2>1, p \in 1..Len(queue), QueueStates
  <2>. QED BY ONLY <2>1, <2>2
<1>2. (\A d \in Nuts : Has(queue[p].get, d)) <=> queue[p].get = sum - 1
  BY ONLY <1>1, FieldRead, NutsAll
<1>. QED BY ONLY <1>2 DEF IsLast, Place

\* With the way to a state there is one to what it leads to, a move longer.
LEMMA WayOnward ==
    ASSUME NutsIInv, FieldRead, NEW p \in 1..Len(queue), NEW w \in 1..8,
           Place(Target(queue[p], w)) \in Ground, NEW far \in Nat,
           NEW order, Visits(order, Held(queue[p].get)), WayTo(order, Place(queue[p])) <= far
    PROVE  \E more : /\ Visits(more, Held(Target(queue[p], w).get))
                     /\ WayTo(more, Place(Target(queue[p], w))) <= far + 1
<1> DEFINE C == Nat \X Nat
           c == Place(queue[p])
           led == Target(queue[p], w)
           d == Place(led)
           a == Direction[w][1]
           b == Direction[w][2]
           H == Held(queue[p].get)
<1>1. /\ a \in {-1, 0, 1} /\ b \in {-1, 0, 1} /\ d = <<c[1] + a, c[2] + b>>
      /\ c \in Ground /\ d \in Ground
      /\ \A e \in Nuts : Has(led.get, e) <=> (Has(queue[p].get, e) \/ e = d)
  BY TargetIs
<1>2. start \in C /\ c \in C /\ d \in C /\ Nuts \subseteq C
  BY <1>1, FieldShape
<1>3. /\ order \in Seq(H) /\ Single(order) /\ \A e \in H : \E z \in 1..Len(order) : order[z] = e
      /\ WayTo(order, c) <= far
  BY DEF Visits
<1>4. H \subseteq C /\ H \subseteq Nuts
  BY <1>2 DEF Held
<1>5. Held(led.get) = IF d \in Nuts THEN H \cup {d} ELSE H
  BY <1>1 DEF Held
<1> HIDE DEF c, led, d, a, b, H, C
<1>6. order \in Seq(C)
  BY ONLY <1>3, <1>4
<1>7. /\ WayTo(order, d) <= WayTo(order, c) + 1
      /\ WayTo(Append(order, d), d) = WayTo(order, d)
  <2>1. c \in Nat \X Nat /\ d \in Nat \X Nat /\ start \in Nat \X Nat /\ order \in Seq(Nat \X Nat)
    BY ONLY <1>2, <1>6 DEF C
  <2>2. d[1] \in {c[1] - 1, c[1], c[1] + 1} /\ d[2] \in {c[2] - 1, c[2], c[2] + 1}
    <3>1. a \in {-1, 0, 1} /\ b \in {-1, 0, 1} /\ d = <<c[1] + a, c[2] + b>>
      BY ONLY <1>1
    <3>2. c[1] \in Nat /\ c[2] \in Nat /\ d[1] = c[1] + a /\ d[2] = c[2] + b
      BY ONLY <2>1, <3>1
    <3>3. d[1] \in {c[1] - 1, c[1], c[1] + 1}
      BY ONLY <3>1, <3>2
    <3>4. d[2] \in {c[2] - 1, c[2], c[2] + 1}
      BY ONLY <3>1, <3>2
    <3>. QED BY ONLY <3>3, <3>4
  <2>. QED BY ONLY <2>1, <2>2, WayOneMove
<1>8. WayTo(order, d) \in Nat /\ WayTo(order, c) \in Nat
  BY ONLY <1>2, <1>6, WayFacts DEF C
<1>9. WayTo(order, d) <= far + 1
  BY ONLY <1>3, <1>7, <1>8, far \in Nat
<1>10. CASE d \notin Nuts \/ d \in H
  <2>1. Held(led.get) = H
    BY ONLY <1>4, <1>5, <1>10
  <2>. QED BY ONLY <1>3, <1>9, <2>1 DEF Visits, led, d
<1>11. CASE d \in Nuts /\ d \notin H
  <2>1. Held(led.get) = H \cup {d}
    BY ONLY <1>5, <1>11
  <2> DEFINE more == Append(order, d)
  <2>2. /\ more \in Seq(H \cup {d}) /\ Len(more) = Len(order) + 1 /\ Len(order) \in Nat
        /\ more[Len(order) + 1] = d /\ \A z \in 1..Len(order) : more[z] = order[z]
    <3>1. order \in Seq(H \cup {d}) /\ d \in H \cup {d}
      BY ONLY <1>3
    <3>. QED BY ONLY <3>1
  <2>3. \A z \in 1..Len(order) : order[z] \in H
    BY ONLY <1>3
  <2> HIDE DEF more
  <2>4. \A z \in 1..Len(more) : z \in 1..Len(order) \/ z = Len(order) + 1
    BY ONLY <2>2
  <2>5. Single(more)
    <3>. SUFFICES ASSUME NEW z \in 1..Len(more), NEW r \in 1..Len(more), more[z] = more[r]
         PROVE  z = r
      BY DEF Single
    <3>1. z \in 1..Len(order) /\ r \in 1..Len(order) => z = r
      BY <1>3, <2>2 DEF Single
    <3>. QED BY <1>11, <2>2, <2>3, <2>4, <3>1
  <2>6. \A e \in H \cup {d} : \E z \in 1..Len(more) : more[z] = e
    <3>1. Len(order) + 1 \in 1..Len(more) /\ \A z \in 1..Len(order) : z \in 1..Len(more)
      BY ONLY <2>2
    <3>. QED BY <1>3, <2>2, <3>1
  <2>7. WayTo(more, d) <= far + 1
    BY ONLY <1>7, <1>9 DEF more
  <2>. QED BY ONLY <2>1, <2>2, <2>5, <2>6, <2>7 DEF Visits, led, d
<1>. QED BY <1>10, <1>11

\* An order of stops without the last one; on the way to this one there is a move to make.
LEMMA LastStopOff ==
    ASSUME FieldRead, NEW order \in Seq(Nuts), Single(order), order # <<>>
    PROVE  \E less \in Seq(Nuts), c \in Nuts :
             /\ order = Append(less, c) /\ Single(less) /\ LastStop(order) = c
             /\ LastStop(less) # c /\ Way(order) = WayTo(less, c) /\ Way(order) >= 1
             /\ Len(order) = Len(less) + 1
<1> DEFINE l == Len(order)
           less == SubSeq(order, 1, l - 1)
           c == order[l]
<1>1. Nuts \subseteq Nat \X Nat /\ start \in Nat \X Nat /\ start \notin Nuts
  BY FieldShape
<1>2. l \in Nat \ {0} /\ l \in 1..l /\ c \in Nuts
  BY ONLY order \in Seq(Nuts), order # <<>>
<1>3. /\ less \in Seq(Nuts) /\ Len(less) = l - 1 /\ \A z \in 1..(l - 1) : less[z] = order[z]
      /\ order = Append(less, c)
  <2>1. \A z \in 1..(l - 1) : z \in 1..l /\ order[z] \in Nuts
    BY ONLY order \in Seq(Nuts), <1>2
  <2>2. less = [z \in 1..(l - 1) |-> order[z]]
    BY ONLY order \in Seq(Nuts), <1>2
  <2>3. less \in Seq(Nuts) /\ Len(less) = l - 1 /\ \A z \in 1..(l - 1) : less[z] = order[z]
    <3> HIDE DEF less, l
    <3>. QED BY ONLY <1>2, <2>1, <2>2
  <2> HIDE DEF less
  <2>4. order = Append(less, c)
    <3> DEFINE more == Append(less, c)
    <3>1. /\ more \in Seq(Nuts) /\ Len(more) = l /\ more[l] = c
          /\ \A z \in 1..(l - 1) : more[z] = less[z]
      BY ONLY <1>2, <2>3
    <3> HIDE DEF more
    <3>2. \A z \in 1..l : more[z] = order[z]
      <4>1. \A z \in 1..l : z \in 1..(l - 1) \/ z = l
        BY ONLY <1>2
      <4>. QED BY ONLY <2>3, <3>1, <4>1
    <3>3. more = order
      BY ONLY <3>1, <3>2, order \in Seq(Nuts)
    <3>. QED BY ONLY <3>3 DEF more
  <2>. QED BY ONLY <2>3, <2>4
<1> HIDE DEF less
<1>4. Single(less)
  <2>1. \A z \in 1..(l - 1) : z \in 1..l
    BY <1>2
  <2>2. \A z, r \in 1..l : order[z] = order[r] => z = r
    BY DEF Single
  <2>3. \A z, r \in 1..(l - 1) : less[z] = less[r] => z = r
    BY ONLY <1>3, <2>1, <2>2
  <2>. QED BY ONLY <1>3, <2>3 DEF Single
<1>5. LastStop(less) # c
  <2>1. CASE less = <<>>
    BY <1>1, <1>2, <2>1 DEF LastStop
  <2>2. CASE less # <<>>
    <3>1. l - 1 \in 1..(l - 1) /\ l - 1 \in 1..l /\ l - 1 # l
      <4>1. Len(less) # 0 /\ Len(less) \in Nat
        BY ONLY <1>3, <2>2
      <4>. QED BY ONLY <1>2, <1>3, <4>1
    <3>2. LastStop(less) = order[l - 1]
      BY <1>3, <2>2, <3>1 DEF LastStop
    <3>. QED BY <1>2, <3>1, <3>2 DEF Single
  <2>. QED BY <2>1, <2>2
<1> HIDE DEF c
<1>6. less \in Seq(Nat \X Nat) /\ c \in Nat \X Nat
  BY ONLY <1>1, <1>2, <1>3
<1>7. /\ Way(less) \in Nat /\ LastStop(less) \in Nat \X Nat
      /\ Way(order) = WayTo(less, c) /\ LastStop(order) = c
  BY ONLY <1>1, <1>3, <1>6, WayFacts
<1>8. Apart(LastStop(less), c) \in Nat /\ Apart(LastStop(less), c) >= 1
  <2> DEFINE e == LastStop(less)
  <2>1. e \in Nat \X Nat /\ e # c
    BY <1>5, <1>7
  <2> HIDE DEF e
  <2>2. PICK d \in Nat \X Nat : Apart(e, d) + 1 <= Apart(e, c)
    BY ONLY <1>6, <2>1, ApartNearer
  <2>3. Apart(e, d) \in Nat /\ Apart(e, c) \in Nat
    BY ONLY <1>6, <2>1, ApartIs
  <2>. QED BY ONLY <2>2, <2>3 DEF e
<1>9. Way(order) >= 1
  BY ONLY <1>7, <1>8 DEF WayTo
<1>10. l = Len(less) + 1
  BY ONLY <1>2, <1>3
<1>. QED BY ONLY <1>2, <1>3, <1>4, <1>5, <1>7, <1>9, <1>10

\* A step from y towards x stays among the rows, or the columns, of the two.
LEMMA StepBetween ==
    ASSUME NEW m \in Nat, NEW x \in 1..m, NEW y \in 1..m, NEW z \in Nat,
           z \in {y - 1, y, y + 1}, z < y => x <= z, z > y => z <= x
    PROVE  z \in 1..m
<1>1. CASE z = y
  BY <1>1
<1>2. CASE z = y - 1
  BY <1>2
<1>3. CASE z = y + 1
  BY <1>3
<1>. QED BY <1>1, <1>2, <1>3

\* When every state of the layers so far has been extended, what is one move further has
\* been found too.
LEMMA FoundOnward ==
    ASSUME NutsIInv, FieldRead, OwnNut, NEW far \in Nat, Reached(far),
           \A p \in 1..tail, w \in 1..8 : Leads(p, w),
           NEW order \in Seq(Nuts), NEW c \in Ground, Single(order), WayTo(order, c) <= far + 1
    PROVE  Found(order, c, Len(queue))
<1>1. PICK rows, cols \in Nat : Ground = (1..rows) \X (1..cols)
  BY FieldShape
<1>2. /\ Nuts \subseteq Ground /\ start \in Ground /\ Ground \subseteq Nat \X Nat
      /\ tail \in 0..Len(queue) /\ Len(queue) \in Nat
  BY FieldShape DEF NutsIInv, NutsTypeOK
<1>3. \A p \in 1..tail : p \in 1..Len(queue)
  BY <1>2
<1>4. ASSUME NEW o \in Seq(Nuts), Single(o), WayTo(o, c) <= far + 1, LastStop(o) # c
      PROVE  Found(o, c, Len(queue))
  <2> DEFINE e == LastStop(o)
  <2>1. e \in Ground
    <3>1. o # <<>> => o[Len(o)] \in Nuts
      BY ONLY o \in Seq(Nuts)
    <3>. QED BY <1>2, <3>1 DEF LastStop
  <2>2. e # c /\ Way(o) \in Nat /\ e \in Nat \X Nat /\ c \in Nat \X Nat
    <3>1. o \in Seq(Nat \X Nat) /\ start \in Nat \X Nat
      BY ONLY <1>2, o \in Seq(Nuts)
    <3>2. Way(o) \in Nat
      BY ONLY <3>1, WayFacts
    <3>. QED BY <1>2, <1>4, <2>1, <3>2
  <2>3. WayTo(o, c) = Way(o) + Apart(e, c)
    BY DEF WayTo
  <2> DEFINE to(d) == WayTo(o, d)
  <2>4. \A d : to(d) = Way(o) + Apart(e, d)
    BY DEF WayTo
  <2> HIDE DEF e, to
  <2>5. PICK w \in 1..8, d \in Nat \X Nat :
          /\ c = <<d[1] + Direction[w][1], d[2] + Direction[w][2]>>
          /\ Apart(e, d) + 1 <= Apart(e, c)
          /\ d[1] \in {c[1] - 1, c[1], c[1] + 1} /\ d[2] \in {c[2] - 1, c[2], c[2] + 1}
          /\ (d[1] < c[1] => e[1] <= d[1]) /\ (d[1] > c[1] => d[1] <= e[1])
          /\ (d[2] < c[2] => e[2] <= d[2]) /\ (d[2] > c[2] => d[2] <= e[2])
    BY ONLY <2>2, ApartNearer
  <2>6. d \in Ground
    <3>1. /\ e[1] \in 1..rows /\ e[2] \in 1..cols /\ c[1] \in 1..rows /\ c[2] \in 1..cols
      BY ONLY <1>1, <2>1, c \in Ground
    <3>2. d = <<d[1], d[2]>> /\ d[1] \in Nat /\ d[2] \in Nat
      BY ONLY d \in Nat \X Nat
    <3>3. d[1] \in 1..rows
      <4>1. /\ d[1] \in {c[1] - 1, c[1], c[1] + 1}
            /\ (d[1] < c[1] => e[1] <= d[1]) /\ (d[1] > c[1] => d[1] <= e[1])
        BY ONLY <2>5
      <4>2. e[1] \in 1..rows /\ c[1] \in 1..rows /\ d[1] \in Nat
        BY ONLY <3>1, <3>2
      <4>. QED BY ONLY <4>1, <4>2, rows \in Nat, StepBetween
    <3>4. d[2] \in 1..cols
      <4>1. /\ d[2] \in {c[2] - 1, c[2], c[2] + 1}
            /\ (d[2] < c[2] => e[2] <= d[2]) /\ (d[2] > c[2] => d[2] <= e[2])
        BY ONLY <2>5
      <4>2. e[2] \in 1..cols /\ c[2] \in 1..cols /\ d[2] \in Nat
        BY ONLY <3>1, <3>2
      <4>. QED BY ONLY <4>1, <4>2, cols \in Nat, StepBetween
    <3>. QED BY ONLY <1>1, <3>2, <3>3, <3>4
  <2>7. to(d) <= far
    <3>1. Apart(e, d) \in Nat /\ Apart(e, c) \in Nat
      BY ONLY <2>2, d \in Nat \X Nat, ApartIs
    <3>2. to(c) <= far + 1
      BY <1>4 DEF to
    <3>. QED BY ONLY <2>2, <2>4, <2>5, <3>1, <3>2, far \in Nat
  <2>8. Found(o, d, tail)
    BY <1>4, <2>6, <2>7 DEF Reached, to
  <2>9. PICK p \in 1..tail : Place(queue[p]) = d /\ \A z \in 1..Len(o) : Has(queue[p].get, o[z])
    BY ONLY <2>8 DEF Found
  <2>10. /\ Place(Target(queue[p], w)) = c
         /\ \A a \in Nuts : Has(Target(queue[p], w).get, a) <=> (Has(queue[p].get, a) \/ a = c)
    <3>1. p \in 1..Len(queue)
      BY <1>3
    <3>2. Place(Target(queue[p], w)) =
            <<Place(queue[p])[1] + Direction[w][1], Place(queue[p])[2] + Direction[w][2]>>
      BY ONLY <3>1, NutsIInv, FieldRead, w \in 1..8, TargetIs
    <3>3. Place(Target(queue[p], w)) = c
      BY ONLY <2>5, <2>9, <3>2
    <3>4. \A a \in Nuts : Has(Target(queue[p], w).get, a)
                          <=> (Has(queue[p].get, a) \/ a = Place(Target(queue[p], w)))
      BY ONLY <3>1, <3>3, NutsIInv, FieldRead, w \in 1..8, c \in Ground, TargetIs
    <3>. QED BY ONLY <3>3, <3>4
  <2>11. PICK z \in 1..Len(queue) : queue[z] = Target(queue[p], w)
    <3>1. Leads(p, w)
      OBVIOUS
    <3>. QED BY ONLY <2>10, <3>1, c \in Ground DEF Leads
  <2>12. \A r \in 1..Len(o) : Has(queue[z].get, o[r])
    <3>1. \A r \in 1..Len(o) : o[r] \in Nuts
      BY ONLY o \in Seq(Nuts)
    <3>. QED BY ONLY <2>9, <2>10, <2>11, <3>1
  <2>. QED BY ONLY <2>10, <2>11, <2>12 DEF Found
<1>5. CASE LastStop(order) # c
  BY <1>4, <1>5
<1>6. CASE LastStop(order) = c /\ order = <<>>
  <2>1. c = start
    BY <1>6 DEF LastStop
  <2>2. Single(<<>>) /\ <<>> \in Seq(Nuts)
    BY DEF Single
  <2>3. WayTo(<<>>, start) = 0
    <3>1. start \in Nat \X Nat /\ start[1] \in Nat /\ start[2] \in Nat
      BY <1>2
    <3>2. Way(<<>>) = 0 /\ LastStop(<<>>) = start
      <4>1. <<>> \in Seq(Nat \X Nat)
        OBVIOUS
      <4>. QED BY ONLY <3>1, <4>1, WayFacts
    <3>3. /\ Apart(start, start) \in Nat
          /\ \A a \in Int : Apart(start, start) <= a <=>
                 /\ start[1] - start[1] <= a /\ start[1] - start[1] <= a
                 /\ start[2] - start[2] <= a /\ start[2] - start[2] <= a
      BY ONLY <3>1, ApartIs
    <3>4. Apart(start, start) = 0
      <4>1. Apart(start, start) <= 0
        BY ONLY <3>1, <3>3
      <4>. QED BY ONLY <3>3, <4>1
    <3>. QED BY ONLY <3>2, <3>4 DEF WayTo
  <2>4. Found(order, c, tail)
    <3>1. WayTo(order, c) <= far
      BY ONLY <1>6, <2>1, <2>3, far \in Nat
    <3>. QED BY ONLY <3>1, Reached(far), order \in Seq(Nuts), c \in Ground, Single(order) DEF Reached
  <2>. QED BY ONLY <1>3, <2>4 DEF Found
<1>7. CASE LastStop(order) = c /\ order # <<>>
  <2>1. PICK less \in Seq(Nuts), d \in Nuts :
          /\ order = Append(less, d) /\ Single(less) /\ LastStop(order) = d
          /\ LastStop(less) # d /\ Way(order) = WayTo(less, d) /\ Len(order) = Len(less) + 1
    BY <1>7, LastStopOff
  <2>2. d = c
    BY <1>7, <2>1
  <2>3. WayTo(less, c) <= far + 1
    <3>1. Apart(c, c) \in Nat /\ Way(order) \in Nat
      <4>1. order \in Seq(Nat \X Nat) /\ start \in Nat \X Nat /\ c \in Nat \X Nat
        BY ONLY <1>2, order \in Seq(Nuts), c \in Ground
      <4>. QED BY ONLY <4>1, ApartIs, WayFacts
    <3>2. Way(order) + Apart(c, c) <= far + 1
      BY ONLY <1>7, WayTo(order, c) <= far + 1 DEF WayTo
    <3>. QED BY ONLY <2>1, <2>2, <3>1, <3>2, far \in Nat
  <2>4. Found(less, c, Len(queue))
    BY ONLY <1>4, <2>1, <2>2, <2>3
  <2>5. PICK p \in 1..Len(queue) :
          Place(queue[p]) = c /\ \A z \in 1..Len(less) : Has(queue[p].get, less[z])
    BY ONLY <2>4 DEF Found
  <2>6. Has(queue[p].get, c)
    BY ONLY <2>1, <2>2, <2>5, OwnNut DEF OwnNut
  <2>7. \A z \in 1..Len(order) : Has(queue[p].get, order[z])
    <3>1. \A z \in 1..Len(order) : order[z] = d \/ (z \in 1..Len(less) /\ order[z] = less[z])
      BY ONLY <2>1
    <3>. QED BY ONLY <2>2, <2>5, <2>6, <3>1
  <2>. QED BY ONLY <2>5, <2>7 DEF Found
<1>. QED BY <1>5, <1>6, <1>7

-----------------------------------------------------------------------------
(* NutsForNuts: the steps of the search. *)

\* A queued state on the start's cell with all nuts of an order of them is the last one.
LEMMA FoundLast ==
    ASSUME NutsIInv, FieldRead, NEW order, Visits(order, Nuts), NEW m \in 0..Len(queue),
           Found(order, start, m)
    PROVE  \E p \in 1..m : IsLast(queue[p])
<1>1. PICK p \in 1..m : Place(queue[p]) = start /\ \A z \in 1..Len(order) : Has(queue[p].get, order[z])
  BY DEF Found
<1>2. p \in 1..Len(queue)
  <2>1. Len(queue) \in Nat
    BY DEF NutsIInv, NutsTypeOK
  <2>. QED BY ONLY <2>1, m \in 0..Len(queue), p \in 1..m
<1>3. \A d \in Nuts : Has(queue[p].get, d)
  BY <1>1 DEF Visits
<1>. QED BY <1>1, <1>2, <1>3, LastIs

\* The first state, when nothing has been done about it (lines 66-73).
FirstState ==
    /\ FieldRead
    /\ queue = <<[x |-> start[1], y |-> start[2], get |-> 0]>> /\ hash = {Slot(queue[1])}
    /\ tail = 1 /\ here = 1 /\ way = 1 /\ move = 0
    /\ flag = (sum = 1) /\ nutsPc = IF flag THEN "print" ELSE "extend"

LEMMA FirstStateFits == NutsIInv /\ FirstState => LayersIInv
<1>. SUFFICES ASSUME NutsIInv, FirstState
     PROVE  /\ FieldRead /\ WaysThere /\ OwnNut /\ Flagged /\ HashOnly
            /\ ~flag => Reached(move) /\ Extended /\ \A p \in 1..tail : ~IsLast(queue[p])
            /\ flag => MovesAreLeast
  BY DEF FirstState, LayersIInv
<1>1. /\ FieldRead /\ tail = 1 /\ here = 1 /\ way = 1 /\ move = 0 /\ (flag <=> sum = 1)
      /\ queue = <<[x |-> start[1], y |-> start[2], get |-> 0]>> /\ hash = {Slot(queue[1])}
  BY DEF FirstState
<1>2. /\ start \in Nat \X Nat /\ start \in Ground /\ start \notin Nuts /\ Nuts \subseteq Nat \X Nat
      /\ Nuts \subseteq Ground /\ Ground \subseteq Nat \X Nat /\ sum \in Nat /\ sum >= 1
  BY ONLY <1>1, FieldShape
<1>3. /\ Len(queue) = 1 /\ queue[1].get = 0 /\ Place(queue[1]) = start
      /\ \A p \in 1..Len(queue) : p = 1
  <2>1. queue[1] = [x |-> start[1], y |-> start[2], get |-> 0] /\ Len(queue) = 1
    BY ONLY <1>1
  <2>2. start = <<start[1], start[2]>>
    BY ONLY <1>2
  <2>. QED BY ONLY <2>1, <2>2 DEF Place
<1>4. /\ \A d \in Nuts : ~Has(0, d)
      /\ (\A d \in Nuts : Has(0, d)) <=> 0 = sum - 1
  <2>1. 0 \in 0..(sum - 1)
    BY ONLY <1>2
  <2>. QED BY ONLY <1>1, <2>1, NutsAll
<1>5. Way(<<>>) = 0 /\ LastStop(<<>>) = start
  <2>1. <<>> \in Seq(Nat \X Nat)
    OBVIOUS
  <2>. QED BY ONLY <1>2, <2>1, WayFacts
<1>6. Apart(start, start) = 0
  <2>1. /\ Apart(start, start) \in Nat
        /\ \A a \in Int : Apart(start, start) <= a <=>
               /\ start[1] - start[1] <= a /\ start[1] - start[1] <= a
               /\ start[2] - start[2] <= a /\ start[2] - start[2] <= a
    BY ONLY <1>2, ApartIs
  <2>2. start[1] \in Nat /\ start[2] \in Nat
    BY ONLY <1>2
  <2>3. Apart(start, start) <= 0
    BY ONLY <2>1, <2>2
  <2>. QED BY ONLY <2>1, <2>3
<1>7. WayTo(<<>>, start) = 0
  BY ONLY <1>5, <1>6 DEF WayTo
<1>8. \A S : S = {} => Visits(<<>>, S)
  BY DEF Visits, Single
<1>9. WaysThere
  <2>1. Held(0) = {}
    BY ONLY <1>4 DEF Held
  <2>2. Visits(<<>>, Held(queue[1].get)) /\ WayTo(<<>>, Place(queue[1])) <= move
    BY ONLY <1>1, <1>3, <1>7, <1>8, <2>1
  <2>. QED BY ONLY <1>1, <1>3, <2>2 DEF WaysThere
<1>10. OwnNut
  BY ONLY <1>2, <1>3 DEF OwnNut
<1>11. IsLast(queue[1]) <=> sum = 1
  <2>1. IsLast(queue[1]) <=> 0 = sum - 1
    BY ONLY <1>3 DEF IsLast, Place
  <2>. QED BY ONLY <1>2, <2>1
<1>12. Flagged /\ HashOnly
  <2>1. \A p : p \in 1..Len(queue) <=> p = 1
    BY ONLY <1>3
  <2>2. Flagged
    BY ONLY <1>1, <1>11, <2>1 DEF Flagged
  <2>3. HashOnly
    BY ONLY <1>1, <2>1 DEF HashOnly
  <2>. QED BY <2>2, <2>3
<1>13. Reached(move)
  <2>. SUFFICES ASSUME NEW order \in Seq(Nuts), NEW c \in Ground, Single(order), WayTo(order, c) <= 0
       PROVE  Found(order, c, 1)
    BY <1>1 DEF Reached
  <2>1. order \in Seq(Nat \X Nat) /\ c \in Nat \X Nat
    BY ONLY <1>2, order \in Seq(Nuts), c \in Ground
  <2>2. /\ Way(order) \in Nat /\ LastStop(order) \in Nat \X Nat
        /\ Apart(LastStop(order), c) \in Nat
    <3>1. Way(order) \in Nat /\ LastStop(order) \in Nat \X Nat
      BY ONLY <1>2, <2>1, WayFacts
    <3>. QED BY ONLY <2>1, <3>1, ApartIs
  <2>3. Way(order) = 0 /\ Apart(LastStop(order), c) = 0
    BY ONLY <2>2, WayTo(order, c) <= 0 DEF WayTo
  <2>4. order = <<>>
    <3>1. order # <<>> => Way(order) >= 1
      BY ONLY <1>1, order \in Seq(Nuts), Single(order), LastStopOff
    <3>. QED BY ONLY <2>3, <3>1
  <2>5. start = c
    <3>1. start # c => \E d \in Nat \X Nat : Apart(start, d) + 1 <= Apart(start, c)
      BY ONLY <1>2, <2>1, ApartNearer
    <3>2. \A d \in Nat \X Nat : Apart(start, d) \in Nat
      BY ONLY <1>2, ApartIs
    <3>3. Apart(start, c) = 0
      BY ONLY <1>5, <2>3, <2>4
    <3>. QED BY ONLY <3>1, <3>2, <3>3
  <2>6. 1 \in 1..1 /\ \A z \in 1..Len(order) : Has(queue[1].get, order[z])
    BY ONLY <2>4
  <2>. QED BY ONLY <1>3, <2>5, <2>6 DEF Found
<1>14. Extended
  BY ONLY <1>1 DEF Extended
<1>15. ~flag => \A p \in 1..tail : ~IsLast(queue[p])
  <2>1. \A p \in 1..1 : p = 1
    OBVIOUS
  <2>. QED BY ONLY <1>1, <1>11, <2>1
<1>16. flag => MovesAreLeast
  <2>. SUFFICES ASSUME flag PROVE MovesAreLeast
    OBVIOUS
  <2>1. Nuts = {}
    <3>1. 0 = sum - 1
      BY ONLY <1>1, <1>2, flag
    <3>. QED BY ONLY <1>4, <3>1
  <2>2. \A order \in Seq(Nat \X Nat) : Round(order) = WayTo(order, start) /\ WayTo(order, start) \in Nat
    BY ONLY <1>2, WayFacts
  <2>3. <<>> \in Seq(Nat \X Nat)
    OBVIOUS
  <2>4. Visits(<<>>, Nuts) /\ Round(<<>>) <= move
    <3>1. Visits(<<>>, Nuts)
      BY ONLY <1>8, <2>1
    <3>2. Round(<<>>) = 0
      BY ONLY <1>7, <2>2, <2>3
    <3>. QED BY ONLY <1>1, <3>1, <3>2
  <2>5. ASSUME NEW order, Visits(order, Nuts) PROVE Round(order) \in Nat /\ move <= Round(order)
    <3>1. order \in Seq(Nat \X Nat)
      BY ONLY <1>2, <2>5 DEF Visits
    <3>. QED BY ONLY <1>1, <2>2, <3>1
  <2>. QED BY ONLY <2>4, <2>5 DEF MovesAreLeast
<1>. QED BY ONLY <1>1, <1>9, <1>10, <1>12, <1>13, <1>14, <1>15, <1>16

\* Lines 41-73.
LEMMA ReadFieldLayers == ASSUME NutsIInv, ReadField PROVE LayersIInv'
<1>1. PICK field \in Fields :
        /\ land' = Land(field) /\ start' = field.start
        /\ sum' = doubled[Cardinality(field.nuts)]
        /\ queue' = <<[x |-> field.start[1], y |-> field.start[2], get |-> 0]>>
  BY DEF ReadField
<1>2. FieldRead'
  BY <1>1 DEF FieldRead
<1>3. hash' = {Slot(queue[1])'}
  BY DEF ReadField, Slot
<1>4. /\ tail' = 1 /\ here' = 1 /\ way' = 1 /\ move' = 0
      /\ flag' = (sum' = 1) /\ nutsPc' = IF flag' THEN "print" ELSE "extend"
  BY DEF ReadField
<1>5. FirstState'
  BY <1>1, <1>2, <1>3, <1>4 DEF FirstState
<1>6. NutsIInv'
  BY ReadFieldKeeps
<1>7. (NutsIInv /\ FirstState => LayersIInv)'
  BY FirstStateFits, PTL
<1>. QED BY <1>5, <1>6, <1>7

\* When no state remains, and none is the last one, something has been missed.
LEMMA LayersEnd ==
    ASSUME NutsIInv, FieldRead, OwnNut, Reached(move), tail = Len(queue),
           \A p \in 1..tail, w \in 1..8 : Leads(p, w)
    PROVE  \E p \in 1..tail : IsLast(queue[p])
<1>1. /\ start \in Nat \X Nat /\ start \in Ground /\ Nuts \subseteq Nat \X Nat /\ IsFiniteSet(Nuts)
      /\ tail \in 0..Len(queue) /\ move \in Nat
  BY FieldShape DEF NutsIInv, NutsTypeOK
<1> DEFINE T == {far \in Nat : Reached(far)}
<1>2. ASSUME NEW order \in Seq(Nuts), NEW c \in Ground PROVE WayTo(order, c) \in Nat
  <2>1. order \in Seq(Nat \X Nat) /\ c \in Nat \X Nat
    <3>1. Ground \subseteq Nat \X Nat
      BY FieldShape
    <3>. QED BY ONLY <1>1, <3>1, order \in Seq(Nuts), c \in Ground
  <2>. QED BY ONLY <1>1, <2>1, WayFacts
<1>3. 0 \in T
  <2>1. Reached(0)
    <3>. SUFFICES ASSUME NEW order \in Seq(Nuts), NEW c \in Ground, Single(order), WayTo(order, c) <= 0
         PROVE  Found(order, c, tail)
      BY DEF Reached
    <3>1. WayTo(order, c) <= move
      BY <1>1, <1>2
    <3>. QED BY <3>1 DEF Reached
  <2>. QED BY <2>1
<1>4. ASSUME NEW far \in T PROVE far + 1 \in T
  <2>1. far \in Nat /\ far + 1 \in Nat /\ Reached(far)
    BY <1>4
  <2>2. Reached(far + 1)
    <3>. SUFFICES ASSUME NEW order \in Seq(Nuts), NEW c \in Ground, Single(order), WayTo(order, c) <= far + 1
         PROVE  Found(order, c, tail)
      BY DEF Reached
    <3> HIDE DEF T
    <3>1. Found(order, c, Len(queue))
      BY <2>1, FoundOnward
    <3>. QED BY <3>1
  <2>. QED BY <2>1, <2>2
<1>5. \A far \in Nat : far \in T
  <2>1. T \in SUBSET Nat
    OBVIOUS
  <2> HIDE DEF T
  <2>. QED BY ONLY <1>3, <1>4, <2>1, NatClosed
<1>6. PICK order : Visits(order, Nuts)
  <2>1. PICK f : f \in Bijection(1..Cardinality(Nuts), Nuts)
    BY <1>1, FS_CardinalityType DEF ExistsBijection
  <2>2. f \in SetToSeqs(Nuts)
    BY <2>1 DEF Bijection, Injection, IsInjective, SetToSeqs
  <2>. QED BY <1>1, <2>2, OrdersAreVisits
<1>7. order \in Seq(Nuts) /\ Single(order)
  BY ONLY <1>6 DEF Visits
<1>8. WayTo(order, start) \in Nat
  BY <1>1, <1>2, <1>7
<1>9. Reached(WayTo(order, start))
  BY <1>5, <1>8
<1>10. Found(order, start, tail)
  BY ONLY <1>1, <1>7, <1>8, <1>9 DEF Reached
<1>. QED BY <1>1, <1>6, <1>10, FoundLast

\* What the field is, and ways over it, do not change while it is searched.
LEMMA SameField ==
    ASSUME land' = land, start' = start, sum' = sum
    PROVE  /\ Ground' = Ground /\ Nuts' = Nuts /\ (FieldRead' <=> FieldRead)
           /\ \A got, c : Has(got, c)' <=> Has(got, c)
           /\ \A got : Held(got)' = Held(got)
           /\ \A order, c : WayTo(order, c)' = WayTo(order, c)
           /\ \A order : Round(order)' = Round(order)
           /\ \A s : IsLast(s)' <=> IsLast(s)
           /\ \A s, w : Target(s, w)' = Target(s, w)
<1>1. Ground' = Ground /\ Nuts' = Nuts
  BY DEF Ground, Nuts
<1>2. \A got, c : Has(got, c)' <=> Has(got, c)
  BY DEF Has
<1>3. \A got : Held(got)' = Held(got)
  BY <1>1, <1>2 DEF Held
<1>4. \A order, c : WayTo(order, c)' = WayTo(order, c)
  BY DEF WayTo, Way, LastStop
<1>5. \A order : Round(order)' = Round(order)
  BY DEF Round
<1>6. FieldRead' <=> FieldRead
  BY DEF FieldRead
<1>7. \A s : IsLast(s)' <=> IsLast(s)
  BY DEF IsLast
<1>8. \A s, w : Target(s, w)' = Target(s, w)
  BY DEF Target
<1>. QED BY <1>1, <1>2, <1>3, <1>4, <1>5, <1>6, <1>7, <1>8

\* A state of the field that is not fresh is in the queue (line 79).
LEMMA MetIsQueued ==
    ASSUME FieldsFit, NutsIInv, FieldRead, HashOnly, here <= tail, ~Fresh(Moved)
    PROVE  Leads(here, way)
<1>1. here \in 1..Len(queue) /\ way \in 1..8
  BY DEF NutsIInv, NutsTypeOK
<1>2. Moved = Target(queue[here], way)
  BY DEF Moved, Target
<1> DEFINE led == Target(queue[here], way)
<1>3. SUFFICES ASSUME Place(led) \in Ground PROVE \E z \in 1..Len(queue) : queue[z] = led
  BY DEF Leads
<1>4. led \in [x : Nat, y : Nat, get : Nat] /\ led.get < sum
  <2>1. led \in [x : Nat, y : Nat, get : Nat] /\ led.get \in 0..(sum - 1)
    BY ONLY <1>1, <1>3, NutsIInv, FieldRead, TargetIs
  <2>2. sum \in Nat
    BY FieldShape
  <2>. QED BY ONLY <2>1, <2>2
<1> HIDE DEF led
<1>5. Slot(led) \in hash
  BY <1>2, <1>3 DEF Fresh, Place, Ground, led
<1>6. PICK z \in 1..Len(queue) : Slot(queue[z]) = Slot(led)
  BY <1>5 DEF HashOnly
<1>7. /\ queue[z] \in [x : Nat, y : Nat, get : Nat]
      /\ Place(queue[z]) \in Ground /\ queue[z].get < sum
  BY QueueStates DEF NutsIInv, Place
<1>8. queue[z] = led
  BY ONLY <1>3, <1>4, <1>6, <1>7, FieldsFit, FieldRead, SlotsDiffer
<1>. QED BY <1>8

\* Lines 75-88.
LEMMA ExtendLayers == ASSUME FieldsFit, NutsIInv, LayersIInv, Extend PROVE LayersIInv'
<1>1. /\ nutsPc' = "extend" /\ nutsPc = "extend" /\ here <= tail
      /\ land' = land /\ start' = start /\ sum' = sum /\ tail' = tail /\ move' = move
      /\ way' = (IF way = 8 THEN 1 ELSE way + 1) /\ here' = IF way = 8 THEN here + 1 ELSE here
  BY DEF Extend
<1>2. /\ FieldRead /\ WaysThere /\ OwnNut /\ Flagged /\ HashOnly
      /\ Reached(move) /\ Extended /\ \A p \in 1..tail : ~IsLast(queue[p])
  BY <1>1 DEF LayersIInv
<1>3. /\ here \in 1..Len(queue) /\ way \in 1..8 /\ here \in Nat /\ tail \in 0..Len(queue)
      /\ Len(queue) \in Nat /\ queue \in Seq([x : Nat, y : Nat, get : Nat]) /\ move \in Nat
      /\ here \in 1..tail
  BY <1>1 DEF NutsIInv, NutsTypeOK
<1>4. /\ Ground' = Ground /\ Nuts' = Nuts /\ FieldRead'
      /\ \A got, c : Has(got, c)' <=> Has(got, c)
      /\ \A got : Held(got)' = Held(got)
      /\ \A order, c : WayTo(order, c)' = WayTo(order, c)
      /\ \A s : IsLast(s)' <=> IsLast(s)
      /\ \A s, w : Target(s, w)' = Target(s, w)
  BY ONLY <1>1, <1>2, SameField
<1>5. Moved = Target(queue[here], way)
  BY DEF Moved, Target
<1>6. ASSUME NEW p \in 1..tail, NEW w \in 1..8, p < here' \/ (p = here' /\ w < way')
      PROVE  p < here \/ (p = here /\ w < way) \/ (p = here /\ w = way)
  BY ONLY <1>1, <1>3, <1>6
<1>7. here' > tail' => way' = 1
  BY ONLY <1>1, <1>3
<1>8. CASE Fresh(Moved)
  <2> DEFINE new == Moved
             l == Len(queue)
  <2>1. /\ new \in [x : Nat, y : Nat, get : Nat]
        /\ <<new.x, new.y>> \in Ground
    BY <1>1, <1>8, MovedIsNew
  <2>2. /\ queue' = Append(queue, new) /\ hash' = hash \cup {Slot(new)}
        /\ flag' = (flag \/ IsLast(new))
    BY <1>8 DEF Extend
  <2> HIDE DEF new
  <2>3. /\ Len(queue') = l + 1 /\ queue'[l + 1] = new /\ l \in Nat
        /\ \A p \in 1..l : queue'[p] = queue[p]
    BY ONLY <1>3, <2>1, <2>2
  <2>4. /\ \A p \in 1..(l + 1) : p \in 1..l \/ p = l + 1
        /\ \A p \in 1..l : p \in 1..(l + 1)
        /\ \A p \in 1..tail : p \in 1..l
        /\ l + 1 \in 1..(l + 1) /\ ~(l + 1 <= tail)
    BY ONLY <1>3
  <2>5. Place(new) \in Ground
    BY <2>1 DEF Place
  <2>6. new = Target(queue[here], way)
    BY <1>5 DEF new
  <2>7. WaysThere'
    <3>. SUFFICES ASSUME NEW p \in 1..(l + 1)
         PROVE  \E order : /\ Visits(order, Held(queue'[p].get))
                           /\ WayTo(order, Place(queue'[p])) <= IF p <= tail THEN move ELSE move + 1
      <4>1. \A p, order : WayTo(order, Place(queue[p]))' = WayTo(order, Place(queue'[p]))
        BY ONLY <1>1 DEF WayTo, Way, LastStop, Place
      <4>2. \A p : Held(queue[p].get)' = Held(queue'[p].get)
        BY ONLY <1>1 DEF Held, Has, Nuts
      <4>3. \A p, order : Visits(order, Held(queue[p].get))' <=> Visits(order, Held(queue'[p].get))
        BY ONLY <4>2 DEF Visits, Single
      <4>. QED BY <1>1, <2>3, <4>1, <4>3 DEF WaysThere
    <3>1. CASE p \in 1..l
      <4>1. queue'[p] = queue[p]
        BY <2>3, <3>1
      <4>. QED BY <1>2, <3>1, <4>1 DEF WaysThere
    <3>2. CASE p = l + 1
      <4>1. PICK order : Visits(order, Held(queue[here].get)) /\ WayTo(order, Place(queue[here])) <= move
        <5>1. here <= tail
          BY <1>1
        <5>. QED BY ONLY <1>2, <1>3, <5>1 DEF WaysThere
      <4>2. Place(Target(queue[here], way)) \in Ground
        BY <2>5, <2>6
      <4>3. \E more : Visits(more, Held(new.get)) /\ WayTo(more, Place(new)) <= move + 1
        BY ONLY NutsIInv, <1>2, <1>3, <2>6, <4>1, <4>2, WayOnward
      <4>. QED BY <2>3, <2>4, <3>2, <4>3
    <3>. QED BY <2>4, <3>1, <3>2
  <2>8. OwnNut'
    <3>. SUFFICES ASSUME NEW p \in 1..(l + 1), Place(queue'[p]) \in Nuts
         PROVE  Has(queue'[p].get, Place(queue'[p]))
      BY <1>4, <2>3 DEF OwnNut, Place
    <3>1. CASE p \in 1..l
      <4>1. queue'[p] = queue[p]
        BY <2>3, <3>1
      <4>. QED BY <1>2, <3>1, <4>1 DEF OwnNut
    <3>2. CASE p = l + 1
      <4>1. Place(Target(queue[here], way)) \in Ground
        BY <2>5, <2>6
      <4>2. \A d \in Nuts : Has(Target(queue[here], way).get, d)
                 <=> (Has(queue[here].get, d) \/ d = Place(Target(queue[here], way)))
        BY ONLY NutsIInv, <1>2, <1>3, <4>1, TargetIs
      <4>. QED BY <2>3, <2>6, <3>2, <4>2
    <3>. QED BY <2>4, <3>1, <3>2
  <2>9. Flagged'
    <3>1. (\E p \in 1..(l + 1) : IsLast(queue'[p])) <=> (\E p \in 1..l : IsLast(queue[p])) \/ IsLast(new)
      BY ONLY <2>3, <2>4
    <3>2. flag' <=> flag \/ IsLast(new)
      BY ONLY <2>2
    <3>3. Flagged' <=> (flag' <=> \E p \in 1..(l + 1) : IsLast(queue'[p]))
      BY <1>4, <2>3 DEF Flagged
    <3>. QED BY <1>2, <3>1, <3>2, <3>3 DEF Flagged
  <2>10. HashOnly'
    <3>. SUFFICES ASSUME NEW h \in hash' PROVE \E p \in 1..(l + 1) : Slot(queue'[p]) = h
      BY <2>3 DEF HashOnly, Slot
    <3>1. CASE h \in hash
      <4>1. PICK p \in 1..l : Slot(queue[p]) = h
        BY <1>2, <3>1 DEF HashOnly
      <4>. QED BY <2>3, <2>4, <4>1
    <3>2. CASE h = Slot(new)
      BY <2>3, <2>4, <3>2
    <3>. QED BY <2>2, <3>1, <3>2
  <2>11. \A p \in 1..tail : queue'[p] = queue[p]
    BY ONLY <2>3, <2>4
  <2>12. Reached(move)'
    <3>1. \A order, c : Found(order, c, tail) => Found(order, c, tail)'
      BY ONLY <1>1, <1>4, <2>11 DEF Found, Place
    <3>2. \A order : Single(order)' <=> Single(order)
      BY DEF Single
    <3>. QED BY <1>1, <1>2, <1>4, <3>1, <3>2 DEF Reached
  <2>13. Extended'
    <3>. SUFFICES ASSUME NEW p \in 1..tail, NEW w \in 1..8, p < here' \/ (p = here' /\ w < way'),
                         Place(Target(queue[p], w)) \in Ground
         PROVE  \E z \in 1..(l + 1) : queue'[z] = Target(queue[p], w)
      <4>1. ASSUME NEW p \in 1..tail, NEW w \in 1..8
            PROVE  Leads(p, w)' <=> (Place(Target(queue[p], w)) \in Ground
                                     => \E z \in 1..(l + 1) : queue'[z] = Target(queue[p], w))
        BY ONLY <1>1, <1>4, <2>3, <2>11 DEF Leads, Place, Target
      <4>2. (\A p \in 1..tail, w \in 1..8 : p < here' \/ (p = here' /\ w < way') => Leads(p, w)')
            => Extended'
        BY ONLY <1>1, <1>7 DEF Extended
      <4>. QED BY <4>1, <4>2
    <3>1. CASE p < here \/ (p = here /\ w < way)
      <4>1. PICK z \in 1..l : queue[z] = Target(queue[p], w)
        BY <1>2, <3>1 DEF Extended, Leads
      <4>. QED BY <2>3, <2>4, <4>1
    <3>2. CASE p = here /\ w = way
      BY <2>3, <2>4, <2>6, <3>2
    <3>. QED BY <1>6, <3>1, <3>2
  <2>14. \A p \in 1..tail' : ~IsLast(queue[p])'
    <3>1. \A p \in 1..tail : IsLast(queue[p])' <=> IsLast(queue[p])
      BY ONLY <1>1, <2>11 DEF IsLast
    <3>. QED BY <1>1, <1>2, <3>1
  <2>. QED BY ONLY <1>1, <1>4, <2>7, <2>8, <2>9, <2>10, <2>12, <2>13, <2>14 DEF LayersIInv
<1>9. CASE ~Fresh(Moved)
  <2>1. queue' = queue /\ hash' = hash /\ flag' = flag
    BY <1>9 DEF Extend
  <2>2. WaysThere' /\ OwnNut' /\ Flagged' /\ HashOnly' /\ Reached(move)'
        /\ \A p \in 1..tail' : ~IsLast(queue[p])'
    <3>1. WaysThere'
      <4>1. \A p, order : WayTo(order, Place(queue[p]))' = WayTo(order, Place(queue[p]))
        BY ONLY <1>1, <2>1 DEF WayTo, Way, LastStop, Place
      <4>2. \A p : Held(queue[p].get)' = Held(queue[p].get)
        BY ONLY <1>1, <2>1 DEF Held, Has, Nuts
      <4>3. \A p, order : Visits(order, Held(queue[p].get))' <=> Visits(order, Held(queue[p].get))
        BY ONLY <4>2 DEF Visits, Single
      <4>4. tail' = tail /\ move' = move /\ queue' = queue
        BY ONLY <1>1, <2>1
      <4>5. WaysThere' <=> WaysThere
        BY ONLY <4>1, <4>3, <4>4 DEF WaysThere
      <4>. QED BY ONLY <1>2, <4>5
    <3>2. OwnNut'
      BY <1>1, <1>2, <1>4, <2>1 DEF OwnNut, Place
    <3>3. Flagged' /\ HashOnly'
      BY <1>1, <1>2, <1>4, <2>1 DEF Flagged, HashOnly, Slot, IsLast
    <3>4. Reached(move)'
      BY <1>1, <1>2, <1>4, <2>1 DEF Reached, Found, Place, Single
    <3>5. \A p \in 1..tail' : ~IsLast(queue[p])'
      BY <1>1, <1>2, <2>1 DEF IsLast
    <3>. QED BY <3>1, <3>2, <3>3, <3>4, <3>5
  <2>3. Extended'
    <3>1. \A p, w : Leads(p, w)' <=> Leads(p, w)
      BY <1>1, <1>4, <2>1 DEF Leads, Place, Target
    <3>2. Leads(here, way)
      BY ONLY <1>1, <1>2, <1>9, FieldsFit, NutsIInv, MetIsQueued
    <3>. QED BY <1>1, <1>2, <1>6, <1>7, <3>1, <3>2 DEF Extended
  <2>. QED BY ONLY <1>1, <1>4, <2>2, <2>3 DEF LayersIInv
<1>. QED BY <1>8, <1>9

\* Lines 73 and 90-91.
LEMMA NextLayerLayers == ASSUME NutsIInv, LayersIInv, NextLayer PROVE LayersIInv'
<1>1. /\ nutsPc = "extend" /\ here > tail /\ tail' = Len(queue) /\ here' = tail + 1
      /\ move' = move + 1
      /\ nutsPc' = IF tail + 1 <= Len(queue) /\ ~flag THEN "extend" ELSE "print"
      /\ land' = land /\ start' = start /\ sum' = sum /\ queue' = queue /\ hash' = hash
      /\ way' = way /\ flag' = flag
  BY DEF NextLayer
<1>2. /\ FieldRead /\ WaysThere /\ OwnNut /\ Flagged /\ HashOnly
      /\ Reached(move) /\ Extended /\ \A p \in 1..tail : ~IsLast(queue[p])
  BY <1>1 DEF LayersIInv
<1>3. /\ here \in Nat /\ tail \in 0..Len(queue) /\ Len(queue) \in Nat /\ move \in Nat /\ way \in 1..8
      /\ \A p \in 1..tail : p \in 1..Len(queue)
  BY DEF NutsIInv, NutsTypeOK
<1>4. /\ Ground' = Ground /\ Nuts' = Nuts /\ FieldRead'
      /\ \A got, c : Has(got, c)' <=> Has(got, c)
      /\ \A order, c : WayTo(order, c)' = WayTo(order, c)
      /\ \A order : Round(order)' = Round(order)
  BY ONLY <1>1, <1>2, SameField
<1>5. way = 1 /\ \A p \in 1..tail, w \in 1..8 : Leads(p, w)
  <2>1. \A p \in 1..tail : p < here
    BY ONLY <1>1, <1>3
  <2>. QED BY ONLY <1>1, <1>2, <2>1 DEF Extended
<1>6. /\ start \in Nat \X Nat /\ start \in Ground /\ Nuts \subseteq Nat \X Nat /\ IsFiniteSet(Nuts)
  BY <1>2, FieldShape
<1>7. WaysThere'
  <2>1. \A p \in 1..Len(queue) : \E order :
          /\ Visits(order, Held(queue[p].get)) /\ WayTo(order, Place(queue[p])) <= move + 1
    <3>. SUFFICES ASSUME NEW p \in 1..Len(queue)
         PROVE  \E order : /\ Visits(order, Held(queue[p].get))
                           /\ WayTo(order, Place(queue[p])) <= move + 1
      OBVIOUS
    <3>1. PICK order : /\ Visits(order, Held(queue[p].get))
                       /\ WayTo(order, Place(queue[p])) <= IF p <= tail THEN move ELSE move + 1
      BY <1>2 DEF WaysThere
    <3>2. WayTo(order, Place(queue[p])) \in Nat
      <4>1. order \in Seq(Nat \X Nat)
        BY ONLY <1>6, <3>1 DEF Visits, Held
      <4>2. Place(queue[p]) \in Nat \X Nat
        <5>1. Ground \subseteq Nat \X Nat
          BY <1>2, FieldShape
        <5>. QED BY <5>1, QueueStates DEF NutsIInv, Place
      <4>. QED BY ONLY <1>6, <4>1, <4>2, WayFacts
    <3>. QED BY ONLY <1>3, <3>1, <3>2
  <2>2. \A p, order : WayTo(order, Place(queue[p]))' = WayTo(order, Place(queue[p]))
    BY ONLY <1>1 DEF WayTo, Way, LastStop, Place
  <2>3. \A p, order : Visits(order, Held(queue[p].get))' <=> Visits(order, Held(queue[p].get))
    BY ONLY <1>1 DEF Visits, Single, Held, Has, Nuts
  <2>4. \A p \in 1..Len(queue) : p <= tail'
    BY ONLY <1>1, <1>3
  <2>. QED BY ONLY <1>1, <2>1, <2>2, <2>3, <2>4 DEF WaysThere
<1>8. OwnNut' /\ Flagged' /\ HashOnly'
  <2>1. OwnNut'
    BY ONLY <1>1, <1>2, <1>4 DEF OwnNut, Place
  <2>2. Flagged' /\ HashOnly'
    BY ONLY <1>1, <1>2 DEF Flagged, HashOnly, IsLast, Slot
  <2>. QED BY <2>1, <2>2
<1>9. CASE nutsPc' = "extend"
  <2>1. tail + 1 <= Len(queue) /\ ~flag
    BY ONLY <1>1, <1>9
  <2>2. Reached(move)'
    <3>1. \A order \in Seq(Nuts), c \in Ground :
            Single(order) /\ WayTo(order, c) <= move + 1 => Found(order, c, Len(queue))
      BY ONLY NutsIInv, <1>2, <1>3, <1>5, FoundOnward
    <3>2. \A order, c, m : Found(order, c, m)' <=> Found(order, c, m)
      BY ONLY <1>1 DEF Found, Has, Place
    <3>3. \A order : Single(order)' <=> Single(order)
      BY ONLY <1>1 DEF Single
    <3>. QED BY ONLY <1>1, <1>4, <3>1, <3>2, <3>3 DEF Reached
  <2>3. Extended'
    <3>1. \A p, w : Leads(p, w)' <=> Leads(p, w)
      BY ONLY <1>1 DEF Leads, Place, Target, Ground
    <3>2. ASSUME NEW p \in 1..tail', NEW w \in 1..8, p < here' \/ (p = here' /\ w < way')
          PROVE  p \in 1..tail
      BY ONLY <1>1, <1>3, <1>5, <3>2
    <3>. QED BY ONLY <1>1, <1>5, <3>1, <3>2 DEF Extended
  <2>4. \A p \in 1..tail' : ~IsLast(queue[p])'
    BY ONLY <1>1, <1>2, <2>1 DEF Flagged, IsLast
  <2>. QED BY ONLY <1>4, <1>7, <1>8, <1>9, <2>2, <2>3, <2>4 DEF LayersIInv
<1>10. CASE nutsPc' # "extend"
  <2>1. nutsPc' = "print" /\ (tail = Len(queue) \/ flag)
    BY ONLY <1>1, <1>3, <1>10
  <2>2. PICK p \in 1..Len(queue) : IsLast(queue[p])
    <3>1. CASE flag
      BY ONLY <1>2, <3>1 DEF Flagged
    <3>2. CASE tail = Len(queue)
      <4>1. \E p \in 1..tail : IsLast(queue[p])
        BY ONLY NutsIInv, <1>2, <1>5, <3>2, LayersEnd
      <4>. QED BY ONLY <3>2, <4>1
    <3>. QED BY <2>1, <3>1, <3>2
  <2>3. PICK order : /\ Visits(order, Held(queue[p].get))
                     /\ WayTo(order, Place(queue[p])) <= IF p <= tail THEN move ELSE move + 1
    BY <1>2 DEF WaysThere
  <2>4. Place(queue[p]) = start /\ Held(queue[p].get) = Nuts
    BY <1>2, <2>2, LastIs DEF Held
  <2>5. \A o \in Seq(Nuts) : Round(o) = WayTo(o, start) /\ WayTo(o, start) \in Nat
    <3>1. \A o \in Seq(Nuts) : o \in Seq(Nat \X Nat)
      BY ONLY <1>6
    <3>. QED BY ONLY <1>6, <3>1, WayFacts
  <2>6. Visits(order, Nuts) /\ Round(order) <= move + 1
    <3>1. order \in Seq(Nuts) /\ Visits(order, Nuts)
      BY ONLY <2>3, <2>4 DEF Visits
    <3>. QED BY ONLY <1>3, <2>3, <2>4, <2>5, <3>1
  <2>7. ASSUME NEW o, Visits(o, Nuts) PROVE Round(o) \in Nat /\ move + 1 <= Round(o)
    <3>1. o \in Seq(Nuts) /\ Single(o)
      BY ONLY <2>7 DEF Visits
    <3>2. Round(o) = WayTo(o, start) /\ Round(o) \in Nat
      BY ONLY <2>5, <3>1
    <3>3. ~(Round(o) <= move)
      <4>. SUFFICES ASSUME Round(o) <= move PROVE FALSE
        OBVIOUS
      <4>1. Found(o, start, tail)
        <5>1. WayTo(o, start) <= move
          BY ONLY <3>2, Round(o) <= move
        <5>. QED BY ONLY <1>2, <1>6, <3>1, <5>1 DEF Reached
      <4>2. \E r \in 1..tail : IsLast(queue[r])
        BY ONLY NutsIInv, <1>2, <1>3, <2>7, <4>1, FoundLast
      <4>. QED BY ONLY <1>2, <4>2
    <3>. QED BY ONLY <1>3, <3>2, <3>3
  <2>8. MovesAreLeast'
    <3>1. \A o : Visits(o, Nuts)' <=> Visits(o, Nuts)
      BY ONLY <1>4 DEF Visits, Single
    <3>. QED BY ONLY <1>1, <1>4, <2>6, <2>7, <3>1 DEF MovesAreLeast
  <2>. QED BY ONLY <1>4, <1>7, <1>8, <2>1, <2>8 DEF LayersIInv
<1>. QED BY <1>9, <1>10

\* Lines 93 and 99.
LEMMA OtherLayers ==
    ASSUME LayersIInv, EndOfFields \/ PrintMove \/ UNCHANGED nutsVars
    PROVE  LayersIInv'
<1>1. CASE EndOfFields \/ PrintMove
  BY <1>1 DEF EndOfFields, PrintMove, LayersIInv
<1>2. CASE UNCHANGED nutsVars
  <2>1. /\ nutsPc' = nutsPc /\ land' = land /\ start' = start /\ sum' = sum /\ queue' = queue
        /\ hash' = hash /\ tail' = tail /\ here' = here /\ way' = way /\ move' = move /\ flag' = flag
    BY <1>2 DEF nutsVars
  <2>2. FieldRead' <=> FieldRead
    BY ONLY <2>1 DEF FieldRead
  <2>3. WaysThere' <=> WaysThere
    BY ONLY <2>1 DEF WaysThere, Place, Visits, Single, Held, Has, Nuts, WayTo, Way, LastStop
  <2>4. (OwnNut' <=> OwnNut) /\ (Flagged' <=> Flagged) /\ (HashOnly' <=> HashOnly)
    BY ONLY <2>1 DEF OwnNut, Flagged, HashOnly, Place, Has, Nuts, IsLast, Slot
  <2>5. Reached(move)' <=> Reached(move)
    BY ONLY <2>1 DEF Reached, Found, Place, Has, Nuts, Ground, Single, WayTo, Way, LastStop
  <2>6. Extended' <=> Extended
    BY ONLY <2>1 DEF Extended, Leads, Place, Target, Ground
  <2>7. (\A p \in 1..tail : ~IsLast(queue[p]))' <=> (\A p \in 1..tail : ~IsLast(queue[p]))
    BY ONLY <2>1 DEF IsLast
  <2>8. MovesAreLeast' <=> MovesAreLeast
    BY ONLY <2>1 DEF MovesAreLeast, Visits, Single, Nuts, Round
  <2>. QED BY ONLY <2>1, <2>2, <2>3, <2>4, <2>5, <2>6, <2>7, <2>8, LayersIInv DEF LayersIInv
<1>. QED BY <1>1, <1>2

\* What is printed is what the layers say.
LEMMA LeastIsPrinted == NutsIInv /\ LayersIInv => AnswerIsLeast
<1>. SUFFICES ASSUME LayersIInv, NutsIInv, nutsPc = "print"
     PROVE  move = Min({Round(order) : order \in SetToSeqs(Nuts)})
  BY DEF AnswerIsLeast
<1>1. FieldRead /\ MovesAreLeast
  BY DEF LayersIInv
<1>2. IsFiniteSet(Nuts)
  BY <1>1, FieldShape
<1> DEFINE S == {Round(order) : order \in SetToSeqs(Nuts)}
<1>3. \A order : order \in SetToSeqs(Nuts) <=> Visits(order, Nuts)
  BY ONLY <1>2, OrdersAreVisits
<1>4. move \in S
  <2>1. PICK order : Visits(order, Nuts) /\ Round(order) <= move
    BY <1>1 DEF MovesAreLeast
  <2>2. Round(order) \in Nat /\ move <= Round(order)
    BY <1>1, <2>1 DEF MovesAreLeast
  <2>3. Round(order) = move
    <3>1. move \in Nat
      BY DEF NutsIInv, NutsTypeOK
    <3>. QED BY ONLY <2>1, <2>2, <3>1
  <2>. QED BY ONLY <1>3, <2>1, <2>3
<1>5. \A r \in S : r \in Nat /\ move <= r
  BY ONLY <1>1, <1>3 DEF MovesAreLeast
<1> HIDE DEF S
<1>6. move \in Nat
  BY ONLY <1>4, <1>5
<1>7. \A m \in S : (\A r \in S : m <= r) => m = move
  BY ONLY <1>4, <1>5, <1>6
<1>8. Min(S) = move
  BY ONLY <1>4, <1>5, <1>7 DEF Min
<1>. QED BY <1>8 DEF S

\* The layers are right in every state.
LEMMA LayersIInvHolds == ASSUME FieldsFit PROVE NutsSpec => []LayersIInv
<1>1. NutsInit => LayersIInv
  BY DEF NutsInit, LayersIInv
<1>2. NutsIInv /\ LayersIInv /\ [NutsNext]_nutsVars => LayersIInv'
  BY ReadFieldLayers, ExtendLayers, NextLayerLayers, OtherLayers DEF NutsNext
<1>. QED BY <1>1, <1>2, NutsIInvHolds, PTL DEF NutsSpec

\* What a case prints is the number of moves of a shortest round over its nuts, for any
\* cases for which the arrays are large enough (lines 73-93).
THEOREM AnswerIsLeastHolds == ASSUME FieldsFit PROVE NutsSpec => []AnswerIsLeast
<1>. QED BY NutsIInvHolds, LayersIInvHolds, LeastIsPrinted, PTL

-----------------------------------------------------------------------------
(* RomaniaSearch: the map. *)

\* The parts of the instance, by shorter names.
City == Romania!City
Goal == Romania!Goal
Road(c) == Romania!GetSuccessors(c)
Miles(c, d) == Romania!GetCost(c, d)
Left(c) == Romania!GoalDistanceEstimate(c)

\* The cities that have an entry in the map.
LEMMA CitiesListed ==
    City = {"Arad", "Bucharest", "Craiova", "Drobeta", "Eforie", "Fagaras", "Giurgiu",
            "Hirsova", "Iasi", "Lugoj", "Mehadia", "Neamt", "Oradea", "Pitesti",
            "RimnicuVilcea", "Sibiu", "Timisoara", "Urziceni", "Vaslui", "Zerind"}
BY DEF City, Romania!City, Romania!RomaniaMap

\* What the search needs of the figures typed in (lines 49-78 and 128-173): roads cost
\* something, and over no road the estimate falls by more than the road costs.
LEMMA MapFacts ==
    \A c \in City :
        /\ Left(c) \in Nat
        /\ \A d \in Road(c) :
             /\ d \in City /\ Miles(c, d) \in Nat \ {0}
             /\ Left(c) <= Miles(c, d) + Left(d)
BY CitiesListed DEF Left, Road, Miles, Romania!GetSuccessors, Romania!GetCost,
   Romania!GoalDistanceEstimate, Romania!Estimates, Romania!RomaniaMap

\* The cities are finitely many.
LEMMA CitiesFinite == IsFiniteSet(City)
<1> DEFINE list == <<"Arad", "Bucharest", "Craiova", "Drobeta", "Eforie", "Fagaras", "Giurgiu",
                     "Hirsova", "Iasi", "Lugoj", "Mehadia", "Neamt", "Oradea", "Pitesti",
                     "RimnicuVilcea", "Sibiu", "Timisoara", "Urziceni", "Vaslui", "Zerind">>
           number == [p \in 1..20 |-> list[p]]
<1>1. \A c \in City : \E p \in 1..20 : list[p] = c
  BY CitiesListed
<1>2. \A p \in 1..20 : list[p] \in City
  BY CitiesListed
<1> HIDE DEF list
<1>3. number \in Surjection(1..20, City)
  BY <1>1, <1>2 DEF Surjection
<1>4. IsFiniteSet(1..20)
  BY IntervalSize
<1> HIDE DEF number
<1>. QED BY ONLY <1>3, <1>4, FS_Surjection

-----------------------------------------------------------------------------
(* RomaniaSearch: the ways to the goal. *)

\* From city to city along roads, and all the way to the goal.
Goes(route) ==
    /\ route \in Seq(City) /\ Len(route) >= 1
    /\ \A p \in 1..(Len(route) - 1) : route[p + 1] \in Road(route[p])

IsWay(route) == Goes(route) /\ route[Len(route)] = Goal

\* The ways that are a leg longer.
Longer(S) ==
    UNION {{<<c>> \o route : c \in {d \in City \ ToSet(route) : Head(route) \in Road(d)}} : route \in S}

\* The recursive function exists.
LEMMA WaysUnfold ==
    /\ Cardinality(City) \in Nat /\ DOMAIN Romania!Ways = 0..Cardinality(City)
    /\ Romania!Ways[0] = {<<Goal>>}
    /\ \A l \in 1..Cardinality(City) : Romania!Ways[l] = Longer(Romania!Ways[l - 1])
<1> DEFINE K == Cardinality(City)
           Lines == SUBSET Seq(City)
           D(f) == [l \in 0..K |-> IF l = 0 THEN {<<Goal>>} ELSE Longer(f[l - 1])]
           step == [l \in 1..K |-> [S \in Lines |-> Longer(S)]]
           x0 == {<<Goal>>}
<1>1. K \in Nat
  BY CitiesFinite, FS_CardinalityType
<1>2. x0 \in Lines
  <2>1. Goal \in City
    BY CitiesListed DEF Goal, Romania!Goal
  <2>. QED BY <2>1
<1>3. ASSUME NEW S \in Lines PROVE Longer(S) \in Lines
  <2>. SUFFICES ASSUME NEW z \in Longer(S) PROVE z \in Seq(City)
    OBVIOUS
  <2>1. PICK route \in S, c \in City : z = <<c>> \o route
    BY DEF Longer
  <2>2. route \in Seq(City) /\ <<c>> \in Seq(City)
    OBVIOUS
  <2>. QED BY ONLY <2>1, <2>2
<1> HIDE DEF K
<1>4. step \in [1..K -> [Lines -> Lines]]
  <2> HIDE DEF Lines
  <2>. QED BY <1>3
<1>5. ASSUME NEW l \in 1..K, NEW S \in Lines PROVE step[l][S] = Longer(S)
  <2> HIDE DEF Lines
  <2>. QED OBVIOUS
<1> HIDE DEF step, Lines, x0
<1>6. PICK g : /\ \A l \in 0..K : g[l] \in Lines
               /\ g[0] = x0 /\ \A l \in 1..K : g[l] = step[l][g[l - 1]]
  BY ONLY <1>1, <1>2, <1>4, IterationExists
<1> DEFINE h == [l \in 0..K |-> g[l]]
<1>7. h = D(h)
  <2>1. ASSUME NEW l \in 0..K PROVE h[l] = IF l = 0 THEN {<<Goal>>} ELSE Longer(h[l - 1])
    <3>1. CASE l = 0
      BY <1>6, <3>1 DEF x0
    <3>2. CASE l # 0
      <4>1. l \in 1..K /\ l - 1 \in 0..K
        BY <1>1, <3>2
      <4>2. h[l] = g[l] /\ h[l - 1] = g[l - 1]
        BY <4>1
      <4>3. g[l] = Longer(g[l - 1])
        BY ONLY <1>5, <1>6, <4>1
      <4>. QED BY <3>2, <4>2, <4>3
    <3>. QED BY <3>1, <3>2
  <2>2. h = [l \in 0..K |-> h[l]]
    OBVIOUS
  <2> HIDE DEF h
  <2>. QED BY <2>1, <2>2
<1> DEFINE w == CHOOSE f : f = D(f)
<1>8. w = D(w)
  <2> HIDE DEF D, h
  <2>. QED BY <1>7
<1>9. Romania!Ways = w
  BY DEF Romania!Ways, Longer, Goal, City, Road, K, Romania!Cardinality, Cardinality, Romania!ToSet, ToSet
<1> HIDE DEF w
<1>10. DOMAIN w = 0..K /\ \A l \in 0..K : w[l] = IF l = 0 THEN {<<Goal>>} ELSE Longer(w[l - 1])
  BY ONLY <1>8
<1>11. 0 \in 0..K /\ \A l \in 1..K : l \in 0..K /\ l # 0
  BY <1>1
<1>12. /\ DOMAIN w = 0..K /\ w[0] = {<<Goal>>}
       /\ \A l \in 1..K : w[l] = Longer(w[l - 1])
  BY ONLY <1>10, <1>11
<1>. QED BY ONLY <1>1, <1>9, <1>12 DEF K

\* The ways searched for are ways, and all ways that are nowhere twice are among them.
LEMMA WaysAre ==
    /\ \A route \in Romania!AllWays : IsWay(route)
    /\ \A route : IsWay(route) /\ Single(route) => route \in Romania!AllWays
<1> DEFINE K == Cardinality(City)
           W(l) == Romania!Ways[l]
<1>1. /\ K \in Nat /\ DOMAIN Romania!Ways = 0..K /\ W(0) = {<<Goal>>}
      /\ \A l \in 1..K : W(l) = Longer(W(l - 1))
      /\ Goal \in City
  <2>1. Goal \in City
    BY CitiesListed DEF Goal, Romania!Goal
  <2>. QED BY <2>1, WaysUnfold
<1>2. Romania!AllWays = UNION {W(l) : l \in 0..K}
  BY <1>1 DEF Romania!AllWays
<1> HIDE DEF K, W
<1> DEFINE T == {l \in Nat : \A route \in W(l) : IsWay(route)}
           U == {l \in Nat : \A route : IsWay(route) /\ Single(route) /\ Len(route) = l + 1 => route \in W(l)}
<1>3. \A l \in 0..K : l \in T
  <2>1. 0 \in T
    <3>1. <<Goal>> \in Seq(City) /\ Len(<<Goal>>) = 1 /\ <<Goal>>[1] = Goal
      BY <1>1
    <3> DEFINE last == <<Goal>>
    <3> HIDE DEF last
    <3>2. IsWay(last)
      <4>1. last \in Seq(City) /\ Len(last) = 1 /\ last[1] = Goal
        BY <3>1 DEF last
      <4>. QED BY ONLY <4>1 DEF IsWay, Goes
    <3>3. W(0) = {last}
      BY <1>1 DEF last
    <3>. QED BY ONLY <3>2, <3>3
  <2>2. ASSUME NEW l \in 1..K, l - 1 \in T PROVE l \in T
    <3>. SUFFICES ASSUME NEW route \in W(l) PROVE IsWay(route)
      OBVIOUS
    <3>1. PICK rest \in W(l - 1), c \in City : route = <<c>> \o rest /\ Head(rest) \in Road(c)
      <4>1. route \in Longer(W(l - 1))
        BY <1>1
      <4>. QED BY <4>1 DEF Longer
    <3>2. IsWay(rest)
      BY <2>2, <3>1
    <3>3. /\ rest \in Seq(City) /\ Len(rest) \in Nat /\ Len(rest) >= 1 /\ rest[Len(rest)] = Goal
          /\ Head(rest) = rest[1]
          /\ \A p \in 1..(Len(rest) - 1) : rest[p + 1] \in Road(rest[p])
      BY <3>2 DEF IsWay, Goes
    <3>4. /\ route \in Seq(City) /\ Len(route) = Len(rest) + 1 /\ route[1] = c
          /\ \A p \in 1..Len(rest) : route[p + 1] = rest[p]
      BY ONLY <3>1, <3>3
    <3>5. ASSUME NEW p \in 1..Len(rest) PROVE route[p + 1] \in Road(route[p])
      <4>1. CASE p = 1
        BY ONLY <3>1, <3>3, <3>4, <4>1
      <4>2. CASE p # 1
        <5>1. p - 1 \in 1..(Len(rest) - 1) /\ p - 1 \in 1..Len(rest) /\ (p - 1) + 1 = p
          BY <3>3, <4>2
        <5>. QED BY ONLY <3>3, <3>4, <5>1, p \in 1..Len(rest)
      <4>. QED BY <4>1, <4>2
    <3>6. route[Len(route)] = Goal /\ Len(route) >= 1 /\ Len(route) - 1 = Len(rest)
      BY ONLY <3>3, <3>4
    <3>. QED BY ONLY <3>4, <3>5, <3>6 DEF IsWay, Goes
  <2>3. T \in SUBSET Nat
    OBVIOUS
  <2> HIDE DEF T
  <2>. QED BY <1>1, <2>1, <2>2, <2>3, NatUpTo
<1>4. \A l \in 0..K : l \in U
  <2>1. 0 \in U
    <3>. SUFFICES ASSUME NEW route, IsWay(route), Len(route) = 1 PROVE route = <<Goal>>
      BY <1>1
    <3>. QED BY DEF IsWay, Goes
  <2>2. ASSUME NEW l \in 1..K, l - 1 \in U PROVE l \in U
    <3>. SUFFICES ASSUME NEW route, IsWay(route), Single(route), Len(route) = l + 1 PROVE route \in W(l)
      OBVIOUS
    <3> DEFINE rest == Tail(route)
               c == route[1]
    <3>1. /\ route \in Seq(City) /\ Len(route) = l + 1 /\ l \in Nat /\ l >= 1 /\ route[l + 1] = Goal
          /\ \A p \in 1..l : route[p + 1] \in Road(route[p])
      BY DEF IsWay, Goes
    <3>2. /\ rest \in Seq(City) /\ Len(rest) = l /\ c \in City /\ route = <<c>> \o rest
          /\ Head(rest) = route[2] /\ \A p \in 1..l : rest[p] = route[p + 1]
      BY ONLY <3>1
    <3> HIDE DEF rest, c
    <3>3. IsWay(rest)
      <4>1. rest[l] = Goal
        BY <3>1, <3>2
      <4>2. ASSUME NEW p \in 1..(l - 1) PROVE rest[p + 1] \in Road(rest[p])
        <5>1. p \in 1..l /\ p + 1 \in 1..l
          BY <3>1
        <5>. QED BY <3>1, <3>2, <5>1
      <4>. QED BY ONLY <3>1, <3>2, <4>1, <4>2 DEF IsWay, Goes
    <3>4. Single(rest)
      <4>. SUFFICES ASSUME NEW p \in 1..l, NEW z \in 1..l, rest[p] = rest[z] PROVE p = z
        BY <3>2 DEF Single
      <4>1. p + 1 \in 1..Len(route) /\ z + 1 \in 1..Len(route) /\ route[p + 1] = route[z + 1]
        BY <3>1, <3>2
      <4>2. p + 1 = z + 1
        BY <4>1 DEF Single
      <4>. QED BY <4>2
    <3>5. c \notin ToSet(rest)
      <4>. SUFFICES ASSUME c \in ToSet(rest) PROVE FALSE
        OBVIOUS
      <4>1. PICK p \in 1..l : rest[p] = c
        <5>1. DOMAIN rest = 1..l
          BY ONLY <3>1, <3>2
        <5>2. ToSet(rest) = {rest[p] : p \in 1..l}
          BY ONLY <5>1 DEF ToSet
        <5>. QED BY ONLY <5>2, c \in ToSet(rest)
      <4>2. p + 1 \in 1..Len(route) /\ 1 \in 1..Len(route) /\ route[p + 1] = route[1]
        BY <3>1, <3>2, <4>1 DEF c
      <4>3. p + 1 = 1
        BY <4>2 DEF Single
      <4>. QED BY <4>3
    <3>6. Head(rest) \in Road(c)
      <4>1. 1 \in 1..l /\ 1 + 1 = 2
        BY <3>1
      <4>. QED BY <3>1, <3>2, <4>1 DEF c
    <3>7. rest \in W(l - 1)
      <4>1. Len(rest) = (l - 1) + 1
        BY <3>1, <3>2
      <4>. QED BY <2>2, <3>3, <3>4, <4>1
    <3>8. route \in Longer(W(l - 1))
      <4> DEFINE before == {d \in City \ ToSet(rest) : Head(rest) \in Road(d)}
                 led == {<<e>> \o rest : e \in before}
      <4>1. c \in before
        BY ONLY <3>2, <3>5, <3>6
      <4>2. route \in led
        BY ONLY <3>2, <4>1
      <4> HIDE DEF c, rest
      <4>3. led \subseteq Longer(W(l - 1))
        BY ONLY <3>7 DEF Longer
      <4>. QED BY ONLY <4>2, <4>3
    <3>. QED BY <1>1, <3>8
  <2>3. U \in SUBSET Nat
    OBVIOUS
  <2> HIDE DEF U
  <2>. QED BY <1>1, <2>1, <2>2, <2>3, NatUpTo
<1>5. ASSUME NEW route, IsWay(route), Single(route) PROVE route \in Romania!AllWays
  <2>1. Len(route) \in Nat /\ Len(route) >= 1 /\ \A p \in 1..Len(route) : route[p] \in City
    BY <1>5 DEF IsWay, Goes
  <2> DEFINE places == [p \in 1..Len(route) |-> route[p]]
  <2>2. places \in Injection(1..Len(route), City)
    BY <1>5, <2>1 DEF Injection, IsInjective, Single
  <2>3. Cardinality(1..Len(route)) = Len(route)
    BY <2>1, IntervalSize
  <2> HIDE DEF places
  <2>4. Cardinality(1..Len(route)) <= K
    BY ONLY <2>2, CitiesFinite, FS_Injection DEF K
  <2>5. Len(route) - 1 \in 0..K /\ (Len(route) - 1) + 1 = Len(route)
    BY ONLY <1>1, <2>1, <2>3, <2>4
  <2>6. route \in W(Len(route) - 1)
    BY ONLY <1>4, <1>5, <2>5
  <2>. QED BY ONLY <1>2, <2>5, <2>6
<1>6. ASSUME NEW route \in Romania!AllWays PROVE IsWay(route)
  <2>1. PICK l \in 0..K : route \in W(l)
    BY ONLY <1>2, <1>6
  <2>. QED BY ONLY <1>3, <2>1
<1>. QED BY <1>5, <1>6

-----------------------------------------------------------------------------
(* RomaniaSearch: the lengths of ways. *)

\* The recursive function exists, and runs through the sums of the legs.
LEMMA CostSums ==
    ASSUME NEW route, Goes(route)
    PROVE  \E g : /\ g[1] = 0 /\ \A p \in 1..Len(route) : g[p] \in Nat
                  /\ \A p \in 2..Len(route) : g[p] = g[p - 1] + Miles(route[p - 1], route[p])
                  /\ Romania!Cost(route) = g[Len(route)]
<1> DEFINE m == Len(route) - 1
           leg == [b \in 1..m |-> Miles(route[b], route[b + 1])]
           R(f) == [p \in 1..Len(route) |-> IF p = 1 THEN 0 ELSE f[p - 1] + Miles(route[p - 1], route[p])]
<1>1. m \in Nat /\ Len(route) = m + 1 /\ \A p \in 1..Len(route) : route[p] \in City
  BY DEF Goes
<1>2. leg \in [1..m -> Nat]
  <2>. SUFFICES ASSUME NEW b \in 1..m PROVE Miles(route[b], route[b + 1]) \in Nat
    OBVIOUS
  <2>1. route[b] \in City /\ route[b + 1] \in Road(route[b])
    BY <1>1 DEF Goes
  <2>. QED BY <2>1, MapFacts
<1>3. PICK f \in [0..m -> Nat] : f[0] = 0 /\ \A b \in 1..m : f[b] = f[b - 1] + leg[b]
  <2> HIDE DEF leg, m
  <2>. QED BY <1>1, <1>2, SumExists
<1> DEFINE g == [p \in 1..Len(route) |-> f[p - 1]]
<1>4. \A p \in 1..Len(route) : g[p] = IF p = 1 THEN 0 ELSE g[p - 1] + Miles(route[p - 1], route[p])
  <2>. SUFFICES ASSUME NEW p \in 2..Len(route) PROVE g[p] = g[p - 1] + Miles(route[p - 1], route[p])
    BY <1>1, <1>3
  <2>1. p - 1 \in 1..m /\ p - 1 \in 1..Len(route) /\ p \in 1..Len(route) /\ (p - 1) + 1 = p
    BY <1>1
  <2>2. g[p] = f[p - 1] /\ g[p - 1] = f[(p - 1) - 1] /\ leg[p - 1] = Miles(route[p - 1], route[p])
    BY <2>1
  <2> HIDE DEF g, leg, m
  <2>. QED BY <1>3, <2>1, <2>2
<1>5. g = R(g)
  <2>1. g = [p \in 1..Len(route) |-> g[p]]
    OBVIOUS
  <2> HIDE DEF g
  <2>. QED BY <1>4, <2>1
<1> DEFINE h == CHOOSE f_1 : f_1 = R(f_1)
<1>6. h = R(h)
  <2> HIDE DEF g, R
  <2>. QED BY <1>5
<1>7. Romania!Cost(route) = h[Len(route)]
  BY DEF Romania!Cost, Miles
<1> HIDE DEF h
<1>8. h[1] = 0 /\ \A p \in 2..Len(route) : h[p] = h[p - 1] + Miles(route[p - 1], route[p])
  <2>1. \A p \in 1..Len(route) : h[p] = IF p = 1 THEN 0 ELSE h[p - 1] + Miles(route[p - 1], route[p])
    BY ONLY <1>6
  <2>2. 1 \in 1..Len(route) /\ \A p \in 2..Len(route) : p \in 1..Len(route) /\ p # 1
    BY <1>1
  <2>. QED BY ONLY <2>1, <2>2
<1>9. \A p \in 1..Len(route) : h[p] \in Nat
  <2> DEFINE far == [b \in 0..m |-> h[b + 1]]
  <2>1. far[0] = 0 /\ \A b \in 1..m : far[b] = far[b - 1] + leg[b]
    <3>. SUFFICES ASSUME NEW b \in 1..m PROVE far[b] = far[b - 1] + leg[b]
      BY <1>1, <1>8
    <3>1. b + 1 \in 2..Len(route) /\ (b + 1) - 1 = b /\ b \in 0..m /\ b - 1 \in 0..m /\ (b - 1) + 1 = b
      BY <1>1
    <3>2. h[b + 1] = h[b] + Miles(route[b], route[b + 1])
      BY <1>8, <3>1
    <3>. QED BY <3>1, <3>2
  <2> HIDE DEF far, leg, m
  <2>2. \A b \in 0..m : far[b] \in Nat
    BY <1>1, <1>2, <2>1, SumInNat
  <2>. SUFFICES ASSUME NEW p \in 1..Len(route) PROVE h[p] \in Nat
    OBVIOUS
  <2>3. p - 1 \in 0..m /\ (p - 1) + 1 = p
    BY <1>1
  <2>4. far[p - 1] = h[p]
    BY <2>3 DEF far
  <2>. QED BY <2>2, <2>3, <2>4
<1>. QED BY <1>7, <1>8, <1>9

\* A stop more.
LEMMA CostAppend ==
    ASSUME NEW route, Goes(route), NEW c \in Road(route[Len(route)])
    PROVE  /\ Goes(Append(route, c))
           /\ Romania!Cost(route) \in Nat
           /\ Romania!Cost(Append(route, c)) = Romania!Cost(route) + Miles(route[Len(route)], c)
<1> DEFINE more == Append(route, c)
           l == Len(route)
<1>1. /\ route \in Seq(City) /\ l \in Nat /\ l >= 1
      /\ \A p \in 1..(l - 1) : route[p + 1] \in Road(route[p])
      /\ c \in City
  <2>1. route \in Seq(City) /\ Len(route) \in Nat /\ Len(route) >= 1
    BY DEF Goes
  <2>2. route[Len(route)] \in City
    BY <2>1
  <2>. QED BY <2>1, <2>2, MapFacts DEF Goes
<1>2. /\ more \in Seq(City) /\ Len(more) = l + 1 /\ more[l + 1] = c
      /\ \A p \in 1..l : more[p] = route[p]
  BY ONLY <1>1
<1>3. PICK g : /\ g[1] = 0 /\ \A p \in 1..l : g[p] \in Nat
               /\ \A p \in 2..l : g[p] = g[p - 1] + Miles(route[p - 1], route[p])
               /\ Romania!Cost(route) = g[l]
  BY CostSums
<1>4. Goes(more)
  <2> HIDE DEF more, l
  <2>1. ASSUME NEW p \in 1..l PROVE more[p + 1] \in Road(more[p])
    <3>1. CASE p = l
      BY <1>2, <2>1, <3>1, c \in Road(route[l]) DEF l
    <3>2. CASE p # l
      <4>1. p \in 1..(l - 1) /\ p + 1 \in 1..l
        BY <1>1, <3>2
      <4>. QED BY <1>1, <1>2, <4>1
    <3>. QED BY <3>1, <3>2
  <2>2. Len(more) >= 1 /\ Len(more) - 1 = l
    BY ONLY <1>1, <1>2
  <2>. QED BY ONLY <1>2, <2>1, <2>2 DEF Goes
<1> HIDE DEF more
<1>5. PICK h : /\ h[1] = 0
               /\ \A p \in 2..(l + 1) : h[p] = h[p - 1] + Miles(more[p - 1], more[p])
               /\ Romania!Cost(more) = h[l + 1]
  <2>1. Len(more) >= 1
    BY <1>2
  <2> HIDE DEF l
  <2>2. PICK h : /\ h[1] = 0 /\ \A p \in 1..Len(more) : h[p] \in Nat
                 /\ \A p \in 2..Len(more) : h[p] = h[p - 1] + Miles(more[p - 1], more[p])
                 /\ Romania!Cost(more) = h[Len(more)]
    BY ONLY <1>4, CostSums
  <2>3. Len(more) = l + 1
    BY <1>2
  <2>4. /\ h[1] = 0 /\ Romania!Cost(more) = h[l + 1]
        /\ \A p \in 2..(l + 1) : h[p] = h[p - 1] + Miles(more[p - 1], more[p])
    BY ONLY <2>2, <2>3
  <2>. QED BY ONLY <2>4
<1> DEFINE T == {b \in Nat : g[b + 1] = h[b + 1]}
<1>6. \A b \in 0..(l - 1) : b \in T
  <2>1. 0 \in T
    BY <1>3, <1>5
  <2>2. ASSUME NEW b \in 1..(l - 1), b - 1 \in T PROVE b \in T
    <3>1. /\ b + 1 \in 2..l /\ b + 1 \in 2..(l + 1) /\ (b + 1) - 1 = b /\ (b - 1) + 1 = b
          /\ b \in 1..l /\ b + 1 \in 1..l
      BY <1>1
    <3>2. g[b] = h[b]
      BY <2>2, <3>1
    <3>3. g[b + 1] = g[b] + Miles(route[b], route[b + 1])
      BY <1>3, <3>1
    <3>4. h[b + 1] = h[b] + Miles(more[b], more[b + 1])
      BY <1>5, <3>1
    <3>. QED BY <1>2, <3>1, <3>2, <3>3, <3>4
  <2>3. T \in SUBSET Nat /\ l - 1 \in Nat
    BY <1>1
  <2> HIDE DEF T
  <2>. QED BY <2>1, <2>2, <2>3, NatUpTo
<1>7. g[l] = h[l]
  <2>1. l - 1 \in 0..(l - 1) /\ (l - 1) + 1 = l
    BY <1>1
  <2>2. l - 1 \in T
    BY <1>6, <2>1
  <2>. QED BY <2>1, <2>2
<1>8. h[l + 1] = h[l] + Miles(route[l], c)
  <2>1. l + 1 \in 2..(l + 1) /\ (l + 1) - 1 = l /\ l \in 1..l
    BY <1>1
  <2>. QED BY <1>2, <1>5, <2>1
<1>9. l \in 1..l
  BY <1>1
<1>10. Romania!Cost(more) = Romania!Cost(route) + Miles(route[l], c) /\ Romania!Cost(route) \in Nat
  BY ONLY <1>3, <1>5, <1>7, <1>8, <1>9
<1>. QED BY ONLY <1>10, <1>4 DEF more, l

\* One city.
LEMMA CostOne == ASSUME NEW c \in City PROVE Goes(<<c>>) /\ Romania!Cost(<<c>>) = 0
<1> DEFINE route == <<c>>
<1>1. route \in Seq(City) /\ Len(route) = 1
  OBVIOUS
<1> HIDE DEF route
<1>2. Goes(route)
  BY ONLY <1>1 DEF Goes
<1>3. PICK g : g[1] = 0 /\ Romania!Cost(route) = g[Len(route)]
  BY ONLY <1>2, CostSums
<1>4. Romania!Cost(route) = 0
  BY ONLY <1>1, <1>3
<1>. QED BY <1>2, <1>4 DEF route

\* The figures of the goal.
LEMMA GoalFacts == Goal \in City /\ Left(Goal) = 0
BY CitiesListed DEF Goal, Romania!Goal, Left, Romania!GoalDistanceEstimate, Romania!Estimates

\* From no city of a way is the estimate more than the rest of the way.
LEMMA EstimateBelow ==
    ASSUME NEW route, IsWay(route)
    PROVE  \E g : /\ g[1] = 0 /\ \A p \in 1..Len(route) : g[p] \in Nat
                  /\ \A p \in 2..Len(route) : g[p] = g[p - 1] + Miles(route[p - 1], route[p])
                  /\ Romania!Cost(route) = g[Len(route)]
                  /\ \A p \in 1..Len(route) : g[p] + Left(route[p]) <= g[Len(route)]
<1> DEFINE l == Len(route)
<1>1. /\ l \in Nat /\ l >= 1 /\ route[l] = Goal /\ \A p \in 1..l : route[p] \in City
      /\ \A p \in 1..(l - 1) : route[p + 1] \in Road(route[p])
  BY DEF IsWay, Goes
<1>2. PICK g : /\ g[1] = 0 /\ \A p \in 1..l : g[p] \in Nat
               /\ \A p \in 2..l : g[p] = g[p - 1] + Miles(route[p - 1], route[p])
               /\ Romania!Cost(route) = g[l]
  BY CostSums DEF IsWay
<1> HIDE DEF l
<1> DEFINE T == {b \in Nat : g[l - b] + Left(route[l - b]) <= g[l]}
<1>3. 0 \in T
  <2>1. l - 0 = l /\ l \in 1..l
    BY <1>1
  <2>. QED BY <1>1, <1>2, <2>1, GoalFacts
<1>4. ASSUME NEW b \in 1..(l - 1), b - 1 \in T PROVE b \in T
  <2>1. PICK p \in 1..(l - 1) : p = l - b /\ p + 1 = l - (b - 1) /\ p \in 1..l /\ p + 1 \in 2..l /\ (p + 1) - 1 = p
                  /\ p + 1 \in 1..l
    <3>1. l - b \in 1..(l - 1)
      BY <1>1
    <3>2. \A p \in 1..(l - 1) : p = l - b => p + 1 = l - (b - 1) /\ p \in 1..l /\ p + 1 \in 2..l /\ (p + 1) - 1 = p
                  /\ p + 1 \in 1..l
      BY <1>1
    <3>. QED BY ONLY <3>1, <3>2
  <2>2. g[p + 1] = g[p] + Miles(route[p], route[p + 1]) /\ g[p] \in Nat /\ g[p + 1] \in Nat /\ g[l] \in Nat
    <3>1. l \in 1..l
      BY <1>1
    <3>. QED BY ONLY <1>2, <2>1, <3>1
  <2>3. /\ Left(route[p]) <= Miles(route[p], route[p + 1]) + Left(route[p + 1])
        /\ Left(route[p]) \in Nat /\ Left(route[p + 1]) \in Nat /\ Miles(route[p], route[p + 1]) \in Nat
    BY ONLY <1>1, <2>1, MapFacts
  <2>4. g[p + 1] + Left(route[p + 1]) <= g[l]
    BY ONLY <1>4, <2>1
  <2>5. g[p] + Left(route[p]) <= g[l]
    BY ONLY <2>2, <2>3, <2>4
  <2>6. b \in Nat
    OBVIOUS
  <2>. QED BY ONLY <2>1, <2>5, <2>6
<1>5. T \in SUBSET Nat /\ l - 1 \in Nat
  BY <1>1
<1>6. \A b \in 0..(l - 1) : b \in T
  <2> HIDE DEF T
  <2>. QED BY ONLY <1>3, <1>4, <1>5, NatUpTo
<1>7. ASSUME NEW p \in 1..l PROVE g[p] + Left(route[p]) <= g[l]
  <2>1. l - p \in 0..(l - 1) /\ l - (l - p) = p
    BY <1>1
  <2>2. l - p \in T
    BY ONLY <1>6, <2>1
  <2>. QED BY <2>1, <2>2
<1>. QED BY ONLY <1>2, <1>7 DEF l

-----------------------------------------------------------------------------
(* RomaniaSearch: what is known of the cities seen. *)

\* The cities seen, those expanded, the cost so far of a city and where it is reached from.
Seen == DOMAIN nodes
Expanded == Seen \ open
Far(c) == nodes[c].g
From(c) == nodes[c].parent

\* What a way over the city would cost by its estimate.
Promise(c) == Far(c) + Left(c)

\* The cities seen, and the roads they have been reached by.
Reachings ==
    /\ initCity \in City
    /\ Seen \subseteq City /\ open \subseteq Seen
    /\ \A c \in Seen : Far(c) \in Nat
    /\ \A c \in Seen \ {initCity} :
         /\ From(c) \in Expanded /\ c \in Road(From(c))
         /\ Far(c) = Far(From(c)) + Miles(From(c), c)

\* No road out of an expanded city improves on what is known.
Relaxations ==
    /\ initCity \in Seen /\ Far(initCity) = 0
    /\ \A c \in Expanded : \A d \in Road(c) : d \in Seen /\ Far(d) <= Far(c) + Miles(c, d)

\* No expanded city would be taken after one of the list.
InPromiseOrder == \A c \in Expanded, o \in open : Promise(c) <= Promise(o)

\* A way from the chosen city that costs no more than any other.
Cheapest(route) ==
    /\ route \in Romania!AllWays /\ route[1] = initCity
    /\ \A other \in Romania!AllWays : other[1] = initCity => Romania!Cost(route) <= Romania!Cost(other)

\* How far the display has come, and that it is of a cheapest way.
Told ==
    /\ romaniaPc \in {"args", "search", "report", "show", "return"}
    /\ solution \in Seq(City) /\ (solution = <<>> \/ Cheapest(solution))
    /\ shown \in Seq(City) /\ Len(shown) <= Len(solution)
    /\ \A p \in 1..Len(shown) : shown[p] = solution[p]
    /\ romaniaPc \in {"args", "search"} => solution = <<>>
    /\ romaniaPc = "report" => solution # <<>> /\ shown = <<>>
    /\ romaniaPc = "show" => Len(shown) >= 1
    /\ romaniaPc = "return" => Len(shown) = Len(solution)

RomaniaIInv ==
    /\ Reachings /\ Told
    /\ romaniaPc = "search" => Relaxations /\ InPromiseOrder /\ Goal \notin Expanded

\* When the goal is at the head of the list, no way to it is cheaper than the one found.
LEMMA NoneCheaper ==
    ASSUME Reachings, Relaxations, InPromiseOrder, Goal \in open,
           \A o \in open : Promise(Goal) <= Promise(o),
           NEW route, IsWay(route), route[1] = initCity
    PROVE  Far(Goal) <= Romania!Cost(route)
<1> DEFINE l == Len(route)
<1>1. /\ l \in Nat /\ l >= 1 /\ route[l] = Goal /\ \A p \in 1..l : route[p] \in City
      /\ \A p \in 1..(l - 1) : route[p + 1] \in Road(route[p])
  BY DEF IsWay, Goes
<1>2. PICK g : /\ g[1] = 0 /\ \A p \in 1..l : g[p] \in Nat
               /\ \A p \in 2..l : g[p] = g[p - 1] + Miles(route[p - 1], route[p])
               /\ Romania!Cost(route) = g[l]
               /\ \A p \in 1..l : g[p] + Left(route[p]) <= g[l]
  BY EstimateBelow
<1>3. open \subseteq Seen /\ Seen \subseteq City /\ (\A c \in Seen : Far(c) \in Nat)
  BY DEF Reachings
<1> HIDE DEF l
<1> DEFINE OpenUpTo(b) == \E p \in 1..l : p <= b + 1 /\ route[p] \in open /\ Far(route[p]) <= g[p]
           T == {b \in Nat : \/ OpenUpTo(b)
                             \/ route[b + 1] \in Expanded /\ Far(route[b + 1]) <= g[b + 1]}
<1>4. 0 \in T
  <2>1. 1 \in 1..l /\ 0 + 1 = 1 /\ 1 <= 1
    BY <1>1
  <2>2. route[1] \in Seen /\ Far(route[1]) = 0 /\ g[1] = 0
    BY <1>2 DEF Relaxations
  <2>. QED BY <2>1, <2>2 DEF Expanded
<1>5. ASSUME NEW b \in 1..(l - 1), b - 1 \in T PROVE b \in T
  <2>1. /\ b \in 1..l /\ b + 1 \in 1..l /\ b + 1 \in 2..l /\ (b - 1) + 1 = b /\ (b + 1) - 1 = b /\ b \in Nat
        /\ \A p \in 1..l : p <= b => p <= b + 1
    BY <1>1
  <2>2. CASE OpenUpTo(b - 1)
    BY ONLY <2>1, <2>2
  <2>3. CASE route[b] \in Expanded /\ Far(route[b]) <= g[b]
    <3>1. route[b + 1] \in Road(route[b])
      BY ONLY <1>1, b \in 1..(l - 1)
    <3>2. route[b + 1] \in Seen /\ Far(route[b + 1]) <= Far(route[b]) + Miles(route[b], route[b + 1])
      BY ONLY <2>3, <3>1, Relaxations DEF Relaxations
    <3>3. g[b + 1] = g[b] + Miles(route[b], route[b + 1]) /\ g[b] \in Nat /\ g[b + 1] \in Nat
      BY ONLY <1>2, <2>1
    <3>4. Miles(route[b], route[b + 1]) \in Nat
      BY ONLY <1>1, <2>1, <3>1, MapFacts
    <3>5. Far(route[b]) \in Nat /\ Far(route[b + 1]) \in Nat
      BY ONLY <1>3, <2>3, <3>2 DEF Expanded
    <3>6. Far(route[b + 1]) <= g[b + 1]
      BY ONLY <2>3, <3>2, <3>3, <3>4, <3>5
    <3>. QED BY ONLY <2>1, <3>2, <3>6 DEF Expanded
  <2>. QED BY ONLY <1>5, <2>1, <2>2, <2>3
<1>6. l - 1 \in T
  <2>1. T \in SUBSET Nat /\ l - 1 \in Nat /\ l - 1 \in 0..(l - 1)
    BY <1>1
  <2> HIDE DEF T
  <2>2. \A b \in 0..(l - 1) : b \in T
    BY ONLY <1>4, <1>5, <2>1, NatUpTo
  <2>. QED BY ONLY <2>1, <2>2
<1>7. route[l] \notin Expanded /\ (l - 1) + 1 = l
  BY <1>1 DEF Expanded
<1>8. PICK p \in 1..l : route[p] \in open /\ Far(route[p]) <= g[p]
  BY ONLY <1>6, <1>7
<1>9. Far(Goal) + Left(Goal) <= Far(route[p]) + Left(route[p])
  BY <1>8 DEF Promise
<1>10. /\ Far(Goal) \in Nat /\ Left(Goal) = 0 /\ Far(route[p]) \in Nat /\ Left(route[p]) \in Nat
       /\ g[p] \in Nat /\ g[l] \in Nat /\ g[p] + Left(route[p]) <= g[l]
  <2>1. l \in 1..l
    BY <1>1
  <2>. QED BY <1>2, <1>3, <1>8, <2>1, GoalFacts, MapFacts
<1>. QED BY ONLY <1>2, <1>8, <1>9, <1>10

\* The way back along the parents exists, since it gets nearer to the start.
LEMMA WayToUnfold ==
    ASSUME Reachings
    PROVE  \A c \in Seen : Romania!WayTo[c] =
             IF c = initCity THEN <<c>> ELSE Append(Romania!WayTo[From(c)], c)
<1> DEFINE rank == [c \in Seen |-> Far(c)]
           up == [c \in Seen |-> IF c = initCity THEN c ELSE From(c)]
           Lines == Seq(City)
           step == [c \in Seen |-> [w \in Lines |-> IF c = initCity THEN <<c>> ELSE Append(w, c)]]
           x0 == <<>>
           R(f) == [c \in Seen |-> IF c = initCity THEN <<c>> ELSE Append(f[From(c)], c)]
<1>1. /\ Seen \subseteq City /\ (\A c \in Seen : Far(c) \in Nat)
      /\ \A c \in Seen \ {initCity} :
           From(c) \in Seen /\ c \in Road(From(c)) /\ Far(c) = Far(From(c)) + Miles(From(c), c)
  BY DEF Reachings, Expanded
<1>2. IsFiniteSet(Seen)
  BY <1>1, CitiesFinite, FS_Subset
<1>3. /\ rank \in [Seen -> Nat] /\ up \in [Seen -> Seen]
      /\ \A c \in Seen : rank[c] = Far(c)
      /\ \A c \in Seen : up[c] = IF c = initCity THEN c ELSE From(c)
  BY <1>1
<1>4. step \in [Seen -> [Lines -> Lines]] /\ x0 \in Lines
  <2>1. \A c \in Seen : <<c>> \in Lines /\ \A w \in Lines : Append(w, c) \in Lines
    BY <1>1
  <2>2. <<>> \in Lines
    OBVIOUS
  <2> HIDE DEF Lines
  <2>. QED BY ONLY <2>1, <2>2
<1>5. \A c \in Seen : \A w \in Lines : step[c][w] = IF c = initCity THEN <<c>> ELSE Append(w, c)
  OBVIOUS
<1> HIDE DEF rank, up, Lines, step, x0
<1>6. ASSUME NEW c \in Seen
      PROVE  rank[up[c]] < rank[c] \/ \A u, v \in Lines : step[c][u] = step[c][v]
  <2>1. CASE c = initCity
    BY ONLY <1>5, <2>1, c \in Seen
  <2>2. CASE c # initCity
    <3>1. From(c) \in Seen /\ c \in Road(From(c)) /\ Far(c) = Far(From(c)) + Miles(From(c), c)
      BY <1>1, <2>2
    <3>2. Miles(From(c), c) \in Nat \ {0} /\ Far(c) \in Nat /\ Far(From(c)) \in Nat
      BY <1>1, <3>1, MapFacts
    <3>3. rank[up[c]] = Far(From(c)) /\ rank[c] = Far(c)
      BY <1>3, <2>2, <3>1
    <3>. QED BY ONLY <3>1, <3>2, <3>3
  <2>. QED BY <2>1, <2>2
<1>7. rank \in [Seen -> Nat] /\ up \in [Seen -> Seen]
  BY ONLY <1>3
<1>8. PICK g \in [Seen -> Lines] : \A c \in Seen : g[c] = step[c][g[up[c]]]
  <2>1. Grounded(Seen, rank, up, Lines, step)
    BY ONLY <1>6 DEF Grounded
  <2>2. \E f : f \in [Seen -> Lines] /\ Follows(Seen, up, step, f)
    BY ONLY <1>2, <1>4, <1>7, <2>1, RecursionExists
  <2>. QED BY ONLY <2>2 DEF Follows
<1>9. ASSUME NEW c \in Seen
      PROVE  g[c] = IF c = initCity THEN <<c>> ELSE Append(g[From(c)], c)
  <2>1. up[c] \in Seen /\ up[c] = IF c = initCity THEN c ELSE From(c)
    BY ONLY <1>3, c \in Seen
  <2>2. g[up[c]] \in Lines
    BY ONLY <2>1, g \in [Seen -> Lines]
  <2>3. g[c] = IF c = initCity THEN <<c>> ELSE Append(g[up[c]], c)
    BY ONLY <1>5, <1>8, <2>2, c \in Seen
  <2>. QED BY ONLY <2>1, <2>3
<1>10. g = R(g)
  <2>1. g = [c \in Seen |-> g[c]]
    BY ONLY g \in [Seen -> Lines]
  <2>. QED BY ONLY <1>9, <2>1
<1> DEFINE h == CHOOSE f : f = R(f)
<1>11. h = R(h)
  <2> HIDE DEF R
  <2>. QED BY ONLY <1>10
<1>12. Romania!WayTo = h
  BY DEF Romania!WayTo, Seen, From
<1> HIDE DEF h
<1>13. \A c \in Seen : h[c] = IF c = initCity THEN <<c>> ELSE Append(h[From(c)], c)
  BY ONLY <1>11
<1>. QED BY ONLY <1>12, <1>13

\* It is a way from the start with the cost so far, over cities seen, and never twice at one.
FoundWay(c, route) ==
    /\ Goes(route) /\ route[1] = initCity /\ route[Len(route)] = c
    /\ Romania!Cost(route) = Far(c) /\ Single(route)
    /\ \A p \in 1..Len(route) : route[p] \in Seen /\ Far(route[p]) <= Far(c)

LEMMA WayToFinds ==
    ASSUME Reachings, Relaxations
    PROVE  \A c \in Seen : FoundWay(c, Romania!WayTo[c])
<1> DEFINE W(c) == Romania!WayTo[c]
           T == {top \in Nat : \A c \in Seen : Far(c) < top => FoundWay(c, W(c))}
<1>1. /\ Seen \subseteq City /\ (\A c \in Seen : Far(c) \in Nat)
      /\ \A c \in Seen \ {initCity} :
           From(c) \in Seen /\ c \in Road(From(c)) /\ Far(c) = Far(From(c)) + Miles(From(c), c)
  BY DEF Reachings, Expanded
<1>2. \A c \in Seen : W(c) = IF c = initCity THEN <<c>> ELSE Append(W(From(c)), c)
  BY WayToUnfold
<1> HIDE DEF W
<1>3. 0 \in T
  BY ONLY <1>1
<1>4. ASSUME NEW top \in T PROVE top + 1 \in T
  <2>. SUFFICES ASSUME NEW c \in Seen, Far(c) < top + 1 PROVE FoundWay(c, W(c))
    OBVIOUS
  <2>1. CASE c = initCity
    <3> DEFINE route == <<c>>
    <3>1. Goes(route) /\ Romania!Cost(route) = 0 /\ Len(route) = 1 /\ route[1] = c
      BY <1>1, CostOne
    <3>2. W(c) = route
      BY <1>2, <2>1
    <3> HIDE DEF route
    <3>3. Far(c) = 0
      BY <2>1 DEF Relaxations
    <3>4. Single(route) /\ \A p \in 1..Len(route) : route[p] \in Seen /\ Far(route[p]) <= Far(c)
      BY ONLY <3>1, <3>3, c \in Seen DEF Single
    <3>. QED BY ONLY <2>1, <3>1, <3>2, <3>3, <3>4 DEF FoundWay
  <2>2. CASE c # initCity
    <3> DEFINE b == From(c)
               route == W(b)
               l == Len(route)
    <3>1. b \in Seen /\ c \in Road(b) /\ Far(c) = Far(b) + Miles(b, c) /\ Miles(b, c) \in Nat \ {0}
          /\ Far(b) \in Nat /\ Far(c) \in Nat
      BY <1>1, <2>2, MapFacts
    <3>2. FoundWay(b, route)
      <4>1. Far(b) < top
        BY ONLY <3>1, Far(c) < top + 1, top \in T
      <4>. QED BY <3>1, <4>1
    <3>3. W(c) = Append(route, c)
      BY <1>2, <2>2
    <3> HIDE DEF b, route
    <3>4. /\ Goes(route) /\ route[1] = initCity /\ route[l] = b /\ Romania!Cost(route) = Far(b) /\ Single(route)
          /\ \A p \in 1..l : route[p] \in Seen /\ Far(route[p]) <= Far(b)
      BY ONLY <3>2 DEF FoundWay
    <3>5. Goes(Append(route, c)) /\ Romania!Cost(Append(route, c)) = Far(c)
      <4>1. c \in Road(route[Len(route)])
        BY ONLY <3>1, <3>4
      <4>2. /\ Goes(Append(route, c))
            /\ Romania!Cost(Append(route, c)) = Romania!Cost(route) + Miles(route[Len(route)], c)
        BY ONLY <3>4, <4>1, CostAppend
      <4>. QED BY ONLY <3>1, <3>4, <4>2
    <3> DEFINE more == Append(route, c)
    <3>6. /\ l \in Nat /\ l >= 1 /\ Len(more) = l + 1 /\ more[l + 1] = c /\ \A p \in 1..l : more[p] = route[p]
      <4>1. route \in Seq(City) /\ l \in Nat /\ l >= 1 /\ c \in City
        BY <1>1, <3>4 DEF Goes
      <4>. QED BY ONLY <4>1
    <3> HIDE DEF more, l
    <3>7. \A p \in 1..(l + 1) : p \in 1..l \/ p = l + 1
      BY ONLY <3>6
    <3>8. \A p \in 1..(l + 1) : more[p] \in Seen /\ Far(more[p]) <= Far(c)
      <4>1. \A p \in 1..l : more[p] \in Seen /\ Far(more[p]) <= Far(b) /\ Far(more[p]) \in Nat
        BY ONLY <1>1, <3>4, <3>6
      <4>2. \A p \in 1..l : Far(more[p]) <= Far(c)
        BY ONLY <3>1, <4>1
      <4>3. Far(c) <= Far(c)
        BY ONLY <3>1
      <4>. QED BY ONLY <3>6, <3>7, <4>1, <4>2, <4>3, c \in Seen
    <3>9. Single(more)
      <4>. SUFFICES ASSUME NEW p \in 1..(l + 1), NEW z \in 1..(l + 1), more[p] = more[z] PROVE p = z
        BY <3>6 DEF Single
      <4>1. \A e \in 1..l : more[e] # c
        <5>. SUFFICES ASSUME NEW e \in 1..l, route[e] = c PROVE FALSE
          BY <3>6
        <5>1. Far(c) <= Far(b)
          BY <3>4
        <5>. QED BY ONLY <3>1, <5>1
      <4>2. p \in 1..l /\ z \in 1..l => p = z
        BY <3>4, <3>6 DEF Single, l
      <4>. QED BY <3>6, <3>7, <4>1, <4>2
    <3>10. more[1] = initCity /\ more[Len(more)] = c
      <4>1. 1 \in 1..l
        BY ONLY <3>6
      <4>. QED BY ONLY <3>4, <3>6, <4>1
    <3>. QED BY ONLY <3>3, <3>5, <3>6, <3>8, <3>9, <3>10 DEF FoundWay, more
  <2>. QED BY <2>1, <2>2
<1>5. T \in SUBSET Nat
  OBVIOUS
<1>6. ASSUME NEW c \in Seen PROVE FoundWay(c, W(c))
  <2>1. Far(c) + 1 \in Nat /\ Far(c) < Far(c) + 1
    BY ONLY <1>1, c \in Seen
  <2>2. Far(c) + 1 \in T
    <3> HIDE DEF T
    <3>. QED BY ONLY <1>3, <1>4, <1>5, <2>1, NatClosed
  <2>. QED BY ONLY <2>1, <2>2, c \in Seen
<1>. QED BY <1>6 DEF W

-----------------------------------------------------------------------------
(* RomaniaSearch: the steps of the search. *)

\* The city that is expanded is the best of the list; those expanded before, and the start,
\* are not reached at a lower cost by it.
LEMMA ClosedStay ==
    ASSUME Reachings, Relaxations, InPromiseOrder, NEW city \in open, Romania!Best(city)
    PROVE  /\ city \notin Romania!Improved(city) /\ initCity \notin Romania!Improved(city)
           /\ \A c \in Expanded : c \notin Romania!Improved(city)
<1>1. /\ open \subseteq Seen /\ Seen \subseteq City /\ (\A c \in Seen : Far(c) \in Nat)
      /\ city \in Seen /\ city \in City
  BY DEF Reachings
<1>2. ASSUME NEW c \in Seen, c \in Romania!Improved(city)
      PROVE  c \in Road(city) /\ Far(city) + Miles(city, c) < Far(c)
  BY <1>2 DEF Romania!Improved, Road, Miles, Seen, Far
<1>3. \A c \in Road(city) :
        /\ c \in City /\ Miles(city, c) \in Nat \ {0}
        /\ Left(city) \in Nat /\ Left(c) \in Nat /\ Left(city) <= Miles(city, c) + Left(c)
  BY ONLY <1>1, MapFacts
<1>4. ASSUME NEW c \in Expanded PROVE c \notin Romania!Improved(city)
  <2>. SUFFICES ASSUME c \in Romania!Improved(city) PROVE FALSE
    OBVIOUS
  <2>1. c \in Seen /\ c \in Road(city) /\ Far(city) + Miles(city, c) < Far(c)
    BY <1>2 DEF Expanded
  <2>2. Far(c) + Left(c) <= Far(city) + Left(city)
    BY DEF InPromiseOrder, Promise
  <2>. QED BY ONLY <1>1, <1>3, <2>1, <2>2
<1>5. city \notin Romania!Improved(city)
  BY <1>1, <1>2, <1>3
<1>6. initCity \notin Romania!Improved(city)
  <2>1. initCity \in Seen /\ Far(initCity) = 0
    BY DEF Relaxations
  <2>. QED BY ONLY <1>1, <1>2, <1>3, <2>1
<1>. QED BY <1>4, <1>5, <1>6

\* Expanding a city makes it one that no road improves on, and leaves the others so.
LEMMA ExpandKeeps ==
    ASSUME RomaniaIInv, romaniaPc = "search", NEW city \in open, Romania!Best(city), Romania!Expand(city),
           UNCHANGED <<initCity, shown>>
    PROVE  RomaniaIInv'
<1> DEFINE Better == Romania!Improved(city)
<1>1. Reachings /\ Told /\ Relaxations /\ InPromiseOrder /\ Goal \notin Expanded
  BY DEF RomaniaIInv
<1>2. /\ open \subseteq Seen /\ Seen \subseteq City /\ (\A c \in Seen : Far(c) \in Nat)
      /\ city \in Seen /\ city \in City /\ initCity \in Seen
  BY <1>1 DEF Reachings, Relaxations
<1>3. /\ city \notin Better /\ initCity \notin Better /\ \A c \in Expanded : c \notin Better
  BY <1>1, ClosedStay
<1>4. /\ Better \subseteq Road(city)
      /\ \A c \in Road(city) \ Better : c \in Seen /\ ~(Far(city) + Miles(city, c) < Far(c))
      /\ \A c \in Better \cap Seen : Far(city) + Miles(city, c) < Far(c)
  BY DEF Romania!Improved, Road, Miles, Seen, Far
<1>5. \A c \in Road(city) :
        /\ c \in City /\ Miles(city, c) \in Nat \ {0}
        /\ Left(city) \in Nat /\ Left(c) \in Nat /\ Left(city) <= Miles(city, c) + Left(c)
  BY ONLY <1>2, MapFacts
<1>6. /\ Seen' = Seen \cup Better
      /\ \A c \in Better : Far(c)' = Far(city) + Miles(city, c) /\ From(c)' = city
      /\ \A c \in Seen \ Better : Far(c)' = Far(c) /\ From(c)' = From(c)
      /\ open' = (open \ {city}) \cup Better
      /\ romaniaPc' = romaniaPc /\ solution' = solution /\ initCity' = initCity /\ shown' = shown
      /\ city # Goal
  BY DEF Romania!Expand, Seen, Far, From, Miles, Goal
<1> HIDE DEF Better
<1>7. Expanded' = Expanded \cup {city}
  <2>1. Expanded' = Seen' \ open'
    BY DEF Expanded
  <2>. QED BY ONLY <1>2, <1>3, <1>6, <2>1 DEF Expanded
<1>8. \A c \in Expanded' : c \notin Better /\ c \in Seen /\ Far(c)' = Far(c) /\ From(c)' = From(c)
  BY ONLY <1>2, <1>3, <1>6, <1>7 DEF Expanded
<1>9. \A c \in Seen' : Far(c)' \in Nat
  BY ONLY <1>2, <1>4, <1>5, <1>6
<1>10. Reachings'
  <2>1. Seen' \subseteq City /\ open' \subseteq Seen'
    BY ONLY <1>2, <1>4, <1>5, <1>6
  <2>2. ASSUME NEW c \in Seen', c # initCity
        PROVE  From(c)' \in Expanded' /\ c \in Road(From(c)') /\ Far(c)' = nodes'[From(c)'].g + Miles(From(c)', c)
    <3>1. CASE c \in Better
      <4>1. nodes'[city].g = Far(city)
        BY ONLY <1>2, <1>3, <1>6 DEF Far
      <4>. QED BY ONLY <1>4, <1>6, <1>7, <3>1, <4>1
    <3>2. CASE c \notin Better
      <4>1. c \in Seen
        BY ONLY <1>6, <3>2, c \in Seen'
      <4>2. From(c) \in Expanded /\ c \in Road(From(c)) /\ Far(c) = Far(From(c)) + Miles(From(c), c)
        BY ONLY <1>1, <2>2, <4>1 DEF Reachings
      <4>3. nodes'[From(c)].g = Far(From(c))
        BY ONLY <1>7, <1>8, <4>2 DEF Far
      <4>. QED BY ONLY <1>6, <1>7, <3>2, <4>1, <4>2, <4>3
    <3>. QED BY <3>1, <3>2
  <2>3. initCity' \in City
    BY <1>1, <1>6 DEF Reachings
  <2>4. (\A c \in Seen \ {initCity} :
          /\ From(c) \in Expanded /\ c \in Road(From(c))
          /\ Far(c) = Far(From(c)) + Miles(From(c), c))'
    <3>1. \A c \in Seen' \ {initCity} :
            From(c)' \in Expanded' /\ c \in Road(From(c)') /\ Far(c)' = nodes'[From(c)'].g + Miles(From(c)', c)
      BY ONLY <2>2
    <3>. QED BY ONLY <1>6, <3>1 DEF Far, From, Road, Miles, Romania!GetSuccessors, Romania!GetCost
  <2>. QED BY ONLY <1>9, <2>1, <2>3, <2>4 DEF Reachings
<1>11. Relaxations'
  <2>1. initCity' \in Seen' /\ Far(initCity)' = 0
    BY ONLY <1>1, <1>2, <1>3, <1>6 DEF Relaxations, Far
  <2>2. \A d \in Seen : d \in Seen' /\ Far(d)' <= Far(d)
    <3>. SUFFICES ASSUME NEW d \in Seen PROVE d \in Seen' /\ Far(d)' <= Far(d)
      OBVIOUS
    <3>1. CASE d \in Better
      BY ONLY <1>2, <1>4, <1>5, <1>6, <3>1, d \in Seen
    <3>2. CASE d \notin Better
      BY ONLY <1>2, <1>6, <3>2, d \in Seen
    <3>. QED BY <3>1, <3>2
  <2>3. ASSUME NEW c \in Expanded', NEW d \in Road(c)
        PROVE  d \in Seen' /\ Far(d)' <= Far(c)' + Miles(c, d)
    <3>1. c \in Seen /\ Far(c)' = Far(c) /\ Far(c) \in Nat /\ Miles(c, d) \in Nat
      BY ONLY <1>2, <1>8, <2>3, MapFacts
    <3>2. CASE c = city /\ d \in Better
      BY ONLY <1>2, <1>5, <1>4, <1>6, <3>1, <3>2
    <3>3. CASE ~(c = city /\ d \in Better)
      <4>1. d \in Seen /\ Far(d) <= Far(c) + Miles(c, d)
        <5>1. CASE c = city
          <6>1. d \in Seen /\ ~(Far(city) + Miles(city, d) < Far(d))
            BY ONLY <1>4, <2>3, <3>3, <5>1
          <6>. QED BY ONLY <1>2, <3>1, <5>1, <6>1
        <5>2. CASE c \in Expanded
          BY ONLY <1>1, <2>3, <5>2 DEF Relaxations
        <5>. QED BY ONLY <1>7, <2>3, <5>1, <5>2
      <4>2. d \in Seen' /\ Far(d)' <= Far(d) /\ Far(d)' \in Nat /\ Far(d) \in Nat
        BY ONLY <1>2, <1>9, <2>2, <4>1
      <4>. QED BY ONLY <3>1, <4>1, <4>2
    <3>. QED BY <3>2, <3>3
  <2>4. (\A c \in Expanded : \A d \in Road(c) : d \in Seen /\ Far(d) <= Far(c) + Miles(c, d))'
    BY ONLY <2>3 DEF Road, Miles, Romania!GetSuccessors, Romania!GetCost
  <2>. QED BY ONLY <2>1, <2>4 DEF Relaxations
<1>12. InPromiseOrder'
  <2>1. \A o \in open : Promise(city) <= Promise(o)
    BY DEF Romania!Best, Romania!f, Promise, Far, Left
  <2>2. \A c \in Expanded, o \in open : Promise(c) <= Promise(o)
    BY ONLY <1>1 DEF InPromiseOrder
  <2>3. \A c \in Seen : Promise(c) \in Nat
    BY ONLY <1>2, MapFacts DEF Promise
  <2>4. \A c \in Expanded' : c \in Seen /\ Promise(c)' = Promise(c) /\ Promise(c) <= Promise(city)
    <3>1. \A c \in Expanded' : Promise(c)' = Promise(c)
      BY ONLY <1>8 DEF Promise, Left, Romania!GoalDistanceEstimate
    <3>. QED BY ONLY <1>2, <1>7, <1>8, <2>2, <2>3, <3>1, city \in open
  <2>5. \A o \in open' : Promise(o)' \in Nat /\ Promise(city) <= Promise(o)'
    <3>. SUFFICES ASSUME NEW o \in open' PROVE Promise(o)' \in Nat /\ Promise(city) <= Promise(o)'
      OBVIOUS
    <3>1. Promise(o)' = Far(o)' + Left(o)
      BY DEF Promise, Left, Romania!GoalDistanceEstimate
    <3>2. CASE o \in Better
      <4>1. /\ Far(o)' = Far(city) + Miles(city, o) /\ o \in City /\ Miles(city, o) \in Nat
            /\ Left(city) \in Nat /\ Left(o) \in Nat /\ Left(city) <= Miles(city, o) + Left(o)
        BY ONLY <1>4, <1>5, <1>6, <3>2
      <4>. QED BY ONLY <1>2, <3>1, <4>1 DEF Promise
    <3>3. CASE o \notin Better
      <4>1. o \in open /\ Far(o)' = Far(o) /\ o \in Seen
        BY ONLY <1>2, <1>6, <3>3, o \in open'
      <4>. QED BY ONLY <2>1, <2>3, <3>1, <4>1 DEF Promise
    <3>. QED BY <3>2, <3>3
  <2>6. \A c \in Expanded', o \in open' : Promise(c)' <= Promise(o)'
    BY ONLY <1>2, <2>3, <2>4, <2>5
  <2>. QED BY ONLY <2>6 DEF InPromiseOrder
<1>13. Goal' \notin Expanded'
  BY ONLY <1>1, <1>6, <1>7 DEF Goal, Romania!Goal
<1>14. Told'
  BY ONLY <1>1, <1>6 DEF Told, Cheapest
<1>. QED BY ONLY <1>10, <1>11, <1>12, <1>13, <1>14 DEF RomaniaIInv

\* Before the search nothing is seen.
LEMMA RomaniaStart == Romania!Init => RomaniaIInv
<1>. SUFFICES ASSUME Romania!Init PROVE RomaniaIInv
  OBVIOUS
<1>1. romaniaPc = "args" /\ Seen = {} /\ open = {} /\ solution = <<>> /\ shown = <<>>
  BY DEF Romania!Init, Seen
<1>2. initCity \in City
  BY CitiesListed DEF Romania!Init
<1>3. Reachings
  BY <1>1, <1>2 DEF Reachings
<1>4. Told
  BY <1>1 DEF Told
<1>. QED BY <1>1, <1>3, <1>4 DEF RomaniaIInv

\* A search begins with its first city alone.
LEMMA ArgumentsKeep == ASSUME RomaniaIInv, Romania!Arguments PROVE RomaniaIInv'
<1>1. Reachings /\ Told /\ romaniaPc = "args" /\ solution' = solution /\ shown' = shown /\ solution = <<>>
  BY DEF RomaniaIInv, Romania!Arguments, Told
<1>2. shown = <<>> /\ Len(shown) = 0 /\ Len(solution) = 0
  BY <1>1 DEF Told
<1>3. CASE romaniaPc' = "return" /\ UNCHANGED <<initCity, nodes, open>>
  <2>1. Reachings'
    BY ONLY <1>1, <1>3 DEF Reachings, Seen, Expanded, Far, From, Road, Miles,
                           Romania!GetSuccessors, Romania!GetCost
  <2>2. Told'
    BY ONLY <1>1, <1>2, <1>3 DEF Told
  <2>. QED BY ONLY <1>3, <2>1, <2>2 DEF RomaniaIInv
<1>4. ASSUME NEW city \in City, Romania!SetStartAndGoalStates(city) PROVE RomaniaIInv'
  <2>1. /\ initCity' = city /\ Seen' = {city} /\ open' = {city} /\ romaniaPc' = "search"
        /\ nodes'[city].g = 0
    BY <1>4 DEF Romania!SetStartAndGoalStates, Seen
  <2>2. Expanded' = {}
    BY <2>1 DEF Expanded
  <2>3. Reachings'
    BY ONLY <2>1, city \in City DEF Reachings, Far
  <2>4. Relaxations'
    BY ONLY <2>1, <2>2 DEF Relaxations, Far
  <2>5. InPromiseOrder' /\ Goal' \notin Expanded'
    BY ONLY <2>2 DEF InPromiseOrder
  <2>6. Told'
    BY ONLY <1>1, <1>2, <2>1 DEF Told
  <2>. QED BY ONLY <2>3, <2>4, <2>5, <2>6 DEF RomaniaIInv
<1>5. initCity \in City
  BY <1>1 DEF Reachings
<1>. QED BY <1>3, <1>4, <1>5 DEF Romania!Arguments, City

\* The goal is taken from the list: the way back from it is a cheapest one.
LEMMA ReachKeeps ==
    ASSUME RomaniaIInv, romaniaPc = "search", NEW city \in open, Romania!Best(city), Romania!Reach(city),
           UNCHANGED <<initCity, shown>>
    PROVE  RomaniaIInv'
<1>1. Reachings /\ Told /\ Relaxations /\ InPromiseOrder /\ Goal \notin Expanded
  BY DEF RomaniaIInv
<1>2. /\ city = Goal /\ open' = open \ {Goal} /\ nodes' = nodes /\ romaniaPc' = "report"
      /\ solution' = Romania!WayTo[Goal] /\ initCity' = initCity /\ shown' = shown /\ Goal \in open
  BY DEF Romania!Reach, Goal
<1>3. open \subseteq Seen /\ Seen \subseteq City
  BY <1>1 DEF Reachings
<1>4. Reachings'
  <2>1. /\ Seen' = Seen /\ open' \subseteq open /\ \A c \in Expanded : c \in Expanded'
        /\ \A c : Far(c)' = Far(c) /\ From(c)' = From(c)
    BY ONLY <1>2 DEF Seen, Expanded, Far, From
  <2>2. (\A c \in Seen \ {initCity} :
          /\ From(c) \in Expanded /\ c \in Road(From(c))
          /\ Far(c) = Far(From(c)) + Miles(From(c), c))'
    <3>1. \A c \in Seen \ {initCity} :
            From(c) \in Expanded' /\ c \in Road(From(c)) /\ Far(c) = Far(From(c)) + Miles(From(c), c)
      BY <1>1, <2>1 DEF Reachings
    <3>. QED BY ONLY <1>2, <2>1, <3>1 DEF Seen, Far, From, Road, Miles, Romania!GetSuccessors, Romania!GetCost
  <2>. QED BY ONLY <1>1, <1>2, <2>1, <2>2 DEF Reachings
<1> DEFINE route == Romania!WayTo[Goal]
<1>5. FoundWay(Goal, route)
  BY <1>1, <1>2, <1>3, WayToFinds
<1>6. /\ IsWay(route) /\ Single(route) /\ route[1] = initCity /\ Romania!Cost(route) = Far(Goal)
      /\ route \in Seq(City) /\ Len(route) \in Nat /\ Len(route) >= 1
  BY <1>5 DEF FoundWay, IsWay, Goes
<1>7. ASSUME NEW other \in Romania!AllWays, other[1] = initCity
      PROVE  Romania!Cost(route) <= Romania!Cost(other)
  <2>1. IsWay(other)
    BY WaysAre
  <2>2. \A o \in open : Promise(Goal) <= Promise(o)
    BY <1>2 DEF Romania!Best, Romania!f, Promise, Far, Left
  <2>3. Far(Goal) <= Romania!Cost(other)
    BY ONLY <1>1, <1>2, <1>7, <2>1, <2>2, NoneCheaper
  <2>. QED BY ONLY <1>6, <2>3
<1> HIDE DEF route
<1>8. Cheapest(route)
  <2>1. route \in Romania!AllWays
    BY ONLY <1>6, WaysAre
  <2>. QED BY ONLY <1>6, <1>7, <2>1 DEF Cheapest
<1>9. Cheapest(solution)'
  <2>1. solution' = route
    BY <1>2 DEF route
  <2>. QED BY ONLY <1>2, <1>8, <2>1 DEF Cheapest
<1>10. shown = <<>> /\ Len(shown) = 0
  BY <1>1 DEF Told
<1>11. Told'
  <2>1. solution' \in Seq(City) /\ solution' # <<>> /\ Len(solution') >= 1 /\ Len(solution') \in Nat
    BY <1>2, <1>6 DEF route
  <2>. QED BY ONLY <1>2, <1>9, <1>10, <2>1 DEF Told
<1>. QED BY ONLY <1>2, <1>4, <1>11 DEF RomaniaIInv

\* What has been found is displayed from its start on.
LEMMA ShowKeeps ==
    ASSUME RomaniaIInv, Romania!ShowStart \/ Romania!ShowNext PROVE RomaniaIInv'
<1>1. /\ Reachings /\ Told /\ UNCHANGED <<initCity, nodes, open, solution>>
      /\ romaniaPc \in {"report", "show"} /\ romaniaPc' \in {"show", "return"}
  BY DEF RomaniaIInv, Romania!ShowStart, Romania!ShowNext
<1>2. Reachings'
  BY ONLY <1>1 DEF Reachings, Seen, Expanded, Far, From, Road, Miles,
                   Romania!GetSuccessors, Romania!GetCost
<1>3. /\ solution \in Seq(City) /\ Len(solution) \in Nat /\ (solution = <<>> \/ Cheapest(solution))'
      /\ shown \in Seq(City) /\ Len(shown) \in Nat /\ Len(shown) <= Len(solution)
      /\ \A p \in 1..Len(shown) : shown[p] = solution[p]
  BY ONLY <1>1 DEF Told, Cheapest
<1>4. Told'
  <2>1. CASE Romania!ShowStart
    <3>1. romaniaPc = "report" /\ romaniaPc' = "show" /\ solution # <<>> /\ shown' = <<solution[1]>>
      BY <1>1, <2>1 DEF Romania!ShowStart, Told
    <3>2. Len(solution) >= 1 /\ solution[1] \in City
      BY ONLY <1>3, <3>1
    <3>3. shown' \in Seq(City) /\ Len(shown') = 1 /\ shown'[1] = solution[1]
      BY ONLY <3>1, <3>2
    <3>. QED BY ONLY <1>1, <1>3, <3>1, <3>2, <3>3 DEF Told
  <2>2. CASE Romania!ShowNext /\ Len(shown) < Len(solution)
    <3>1. /\ romaniaPc = "show" /\ romaniaPc' = "show"
          /\ shown' = Append(shown, solution[Len(shown) + 1])
      BY <2>2 DEF Romania!ShowNext
    <3>2. solution[Len(shown) + 1] \in City
      BY ONLY <1>3, <2>2
    <3>3. /\ shown' \in Seq(City) /\ Len(shown') = Len(shown) + 1
          /\ \A p \in 1..(Len(shown) + 1) : shown'[p] = solution[p]
      BY ONLY <1>3, <3>1, <3>2
    <3>. QED BY ONLY <1>1, <1>3, <2>2, <3>1, <3>3 DEF Told
  <2>3. CASE Romania!ShowNext /\ ~(Len(shown) < Len(solution))
    <3>1. romaniaPc' = "return" /\ shown' = shown
      BY <2>3 DEF Romania!ShowNext
    <3>. QED BY ONLY <1>1, <1>3, <2>3, <3>1 DEF Told
  <2>. QED BY <2>1, <2>2, <2>3
<1>. QED BY ONLY <1>1, <1>2, <1>4 DEF RomaniaIInv

\* Nothing of it is about anything else.
LEMMA RomaniaStays == ASSUME RomaniaIInv, UNCHANGED Romania!vars PROVE RomaniaIInv'
<1>1. UNCHANGED <<romaniaPc, initCity, nodes, open, solution, shown>>
  BY DEF Romania!vars
<1>. QED BY <1>1 DEF RomaniaIInv, Reachings, Relaxations, InPromiseOrder, Told, Cheapest, Promise,
         Seen, Expanded, Far, From, Road, Miles, Left, Goal, City, Romania!City, Romania!Goal,
         Romania!GetSuccessors, Romania!GetCost, Romania!GoalDistanceEstimate

\* The invariant of the search.
LEMMA RomaniaIInvHolds == Romania!Spec => []RomaniaIInv
<1>1. RomaniaIInv /\ [Romania!Next]_Romania!vars => RomaniaIInv'
  <2>. SUFFICES ASSUME RomaniaIInv, [Romania!Next]_Romania!vars PROVE RomaniaIInv'
    OBVIOUS
  <2>1. CASE Romania!Arguments
    BY <2>1, ArgumentsKeep
  <2>2. CASE Romania!SearchStep
    <3>1. PICK city \in open : Romania!Best(city) /\ (Romania!Expand(city) \/ Romania!Reach(city))
      BY <2>2 DEF Romania!SearchStep
    <3>2. romaniaPc = "search" /\ UNCHANGED <<initCity, shown>>
      BY <2>2 DEF Romania!SearchStep
    <3>. QED BY <3>1, <3>2, ExpandKeeps, ReachKeeps
  <2>3. CASE Romania!ShowStart \/ Romania!ShowNext
    BY <2>3, ShowKeeps
  <2>4. CASE UNCHANGED Romania!vars
    BY <2>4, RomaniaStays
  <2>. QED BY <2>1, <2>2, <2>3, <2>4 DEF Romania!Next, Romania!Terminated
<1>. QED BY <1>1, RomaniaStart, PTL DEF Romania!Spec

\* What is displayed is a cheapest way from the chosen city to Bucharest, whatever the
\* library takes first of equal cities (AE86-github.cpp, lines 239-302).
THEOREM SolutionIsShortestHolds == Romania!Spec => []SolutionIsShortest
<1>1. RomaniaIInv => SolutionIsShortest
  <2>. SUFFICES ASSUME Reachings, Told PROVE Romania!TypeOK /\ Romania!SolutionIsShortest
    BY DEF RomaniaIInv, SolutionIsShortest
  <2>1. /\ solution \in Seq(City) /\ shown \in Seq(City) /\ Len(shown) <= Len(solution)
        /\ Len(shown) \in Nat /\ Len(solution) \in Nat /\ \A p \in 1..Len(shown) : shown[p] = solution[p]
    BY DEF Told
  <2>2. Romania!IsPrefix(shown, solution)
    <3>1. SubSeq(shown, 1, Len(shown)) = SubSeq(solution, 1, Len(shown))
      BY ONLY <2>1
    <3>. QED BY ONLY <2>1, <3>1 DEF Romania!IsPrefix
  <2>3. Romania!TypeOK
    BY <2>2 DEF Romania!TypeOK, Reachings, Told, Seen, Expanded, Far, From, Road, Miles, City
  <2>4. ASSUME romaniaPc = "return", shown # <<>>
        PROVE  /\ Head(shown) = initCity /\ shown \in Romania!AllWays
               /\ \A route \in Romania!AllWays :
                    Head(route) = initCity => Romania!Cost(shown) <= Romania!Cost(route)
    <3>1. Len(shown) = Len(solution)
      BY <2>4 DEF Told
    <3>2. shown = solution
      BY ONLY <2>1, <3>1
    <3>3. Cheapest(shown)
      BY <2>4, <3>2 DEF Told
    <3>4. Head(shown) = shown[1]
      BY <2>1, <2>4
    <3>5. ASSUME NEW route \in Romania!AllWays PROVE Head(route) = route[1]
      <4>1. route \in Seq(City) /\ Len(route) >= 1
        BY WaysAre DEF IsWay, Goes
      <4>. QED BY ONLY <4>1
    <3>. QED BY ONLY <3>3, <3>4, <3>5 DEF Cheapest
  <2>. QED BY <2>3, <2>4 DEF Romania!SolutionIsShortest
<1>. QED BY <1>1, RomaniaIInvHolds, PTL

-----------------------------------------------------------------------------
(* TrieST. *)

USE KeysAssumption, QueriesAssumption, NullAssumption

-----------------------------------------------------------------------------
(* Prefixes of a string. *)

\* A string is a prefix of itself, and all of it is its first Len(s) characters.
LEMMA PrefixRefl ==
    ASSUME NEW s \in Seq(Char)
    PROVE  IsPrefix(s, s) /\ First(s, Len(s)) = s
BY DEF IsPrefix, First

\* The first characters of a string are a string and a prefix of it.
LEMMA FirstIsPrefix ==
    ASSUME NEW s \in Seq(Char), NEW d \in 0..Len(s)
    PROVE  /\ First(s, d) \in Seq(Char)
           /\ Len(First(s, d)) = d
           /\ IsPrefix(First(s, d), s)
           /\ First(s, d) \in Prefixes(s)
<1>1. First(s, d) \in Seq(Char) /\ Len(First(s, d)) = d
  BY DEF First
<1>2. IsPrefix(First(s, d), s)
  BY DEF First, IsPrefix
<1>3. First(s, d) \in Prefixes(s)
  BY DEF First, Prefixes
<1>. QED BY <1>1, <1>2, <1>3

\* A prefix is determined by its length.
LEMMA PrefixIsFirst ==
    ASSUME NEW s \in Seq(Char), NEW p \in Seq(Char), IsPrefix(p, s)
    PROVE  Len(p) \in 0..Len(s) /\ p = First(s, Len(p))
<1>1. Len(p) \in 0..Len(s) /\ SubSeq(p, 1, Len(p)) = First(s, Len(p))
  BY DEF IsPrefix, First
<1>2. SubSeq(p, 1, Len(p)) = p
  BY PrefixRefl DEF First
<1>. QED BY <1>1, <1>2

\* Prefixes(s) holds the prefixes of s.
LEMMA PrefixesArePrefixes ==
    ASSUME NEW s \in Seq(Char)
    PROVE  \A p : p \in Prefixes(s) <=> p \in Seq(Char) /\ IsPrefix(p, s)
<1>1. ASSUME NEW p \in Prefixes(s) PROVE p \in Seq(Char) /\ IsPrefix(p, s)
  <2>1. PICK d \in 0..Len(s) : p = First(s, d)
    BY <1>1 DEF Prefixes, First
  <2>. QED BY <2>1, FirstIsPrefix
<1>2. ASSUME NEW p \in Seq(Char), IsPrefix(p, s) PROVE p \in Prefixes(s)
  BY <1>2, PrefixIsFirst, FirstIsPrefix
<1>. QED BY <1>1, <1>2

\* A prefix of a prefix is a prefix.
LEMMA PrefixTrans ==
    ASSUME NEW p \in Seq(Char), NEW w \in Seq(Char), NEW s \in Seq(Char),
           IsPrefix(p, w), IsPrefix(w, s)
    PROVE  IsPrefix(p, s)
<1>1. /\ Len(p) \in Nat /\ Len(w) \in Nat /\ Len(s) \in Nat
      /\ Len(p) <= Len(w) /\ Len(w) <= Len(s)
      /\ p = First(w, Len(p)) /\ w = First(s, Len(w))
  BY PrefixIsFirst
<1>2. \A c \in 1..Len(p) : p[c] = s[c]
  <2>1. \A c \in 1..Len(p) : p[c] = w[c]
    BY <1>1 DEF First
  <2>2. \A c \in 1..Len(w) : w[c] = s[c]
    BY <1>1 DEF First
  <2>. QED BY <1>1, <2>1, <2>2
<1>3. First(s, Len(p)) = p
  <2>1. First(s, Len(p)) \in Seq(Char) /\ Len(First(s, Len(p))) = Len(p)
    BY <1>1, FirstIsPrefix
  <2>2. \A c \in 1..Len(p) : First(s, Len(p))[c] = s[c]
    BY <1>1 DEF First
  <2>. QED BY <1>2, <2>1, <2>2
<1>. QED BY <1>1, <1>3, FirstIsPrefix

-----------------------------------------------------------------------------
(* The tree. *)

\* What Cut holds, in terms of nodes: strings on the way to the key, with
\* everything below them.
LEMMA CutClosed ==
    ASSUME TrieTypeOK, NEW key \in Keys
    PROVE  /\ \A u \in Cut(key) : IsPrefix(u, key) /\ (u = key \/ root[u] = null)
           /\ \A u \in Cut(key), m \in Nodes : IsPrefix(u, m) => m \in Cut(key)
<1>1. ASSUME NEW u \in Cut(key) PROVE IsPrefix(u, key) /\ (u = key \/ root[u] = null)
  <2>1. u \in Nodes /\ IsPrefix(u, u)
    BY PrefixRefl DEF Cut, TrieTypeOK
  <2>. QED BY <2>1 DEF Cut
<1>2. ASSUME NEW u \in Cut(key), NEW m \in Nodes, IsPrefix(u, m) PROVE m \in Cut(key)
  <2>1. ASSUME NEW o \in Nodes, IsPrefix(m, o) PROVE IsPrefix(u, o)
    BY <1>2, <2>1, PrefixTrans DEF Cut, TrieTypeOK
  <2>. QED BY <2>1 DEF Cut
<1>. QED BY <1>1, <1>2

\* The domain and the values after a delete.
LEMMA DeleteChanges ==
    ASSUME TrieTypeOK, NEW key \in Keys, delete(key)
    PROVE  /\ Nodes' = Nodes \ Cut(key)
           /\ root' \in [Nodes' -> Values \cup {null}]
           /\ \A u \in Nodes' : root'[u] = IF u = key THEN null ELSE root[u]
BY DEF delete, Nodes, TrieTypeOK

\* The domain and the values after a put.
LEMMA PutChanges ==
    ASSUME TrieTypeOK, NEW key \in Keys, NEW v \in Values \cup {null}, put(key, v)
    PROVE  /\ Nodes' = Nodes \cup Prefixes(key)
           /\ root' \in [Nodes' -> Values \cup {null}]
           /\ \A u \in Nodes' :
                root'[u] = IF u = key THEN v ELSE IF u \in Nodes THEN root[u] ELSE null
BY DEF put, Nodes, TrieTypeOK

\* A put keeps the tree in shape.
LEMMA PutTrieTypeOK ==
    ASSUME TrieTypeOK, NEW key \in Keys, NEW v \in Values \cup {null}, put(key, v)
    PROVE  TrieTypeOK'
<1>1. /\ Nodes' = Nodes \cup Prefixes(key)
      /\ root' \in [Nodes' -> Values \cup {null}]
      /\ \A u \in Nodes' :
            root'[u] = IF u = key THEN v ELSE IF u \in Nodes THEN root[u] ELSE null
  BY PutChanges
<1>2. Nodes' \subseteq Seq(Char)
  BY <1>1, PrefixesArePrefixes DEF TrieTypeOK
<1>3. ASSUME NEW u \in Nodes' PROVE Prefixes(u) \subseteq Nodes'
  <2>1. CASE u \in Nodes
    BY <1>1, <2>1 DEF TrieTypeOK
  <2>2. CASE u \in Prefixes(key)
    BY <1>1, <2>2, PrefixesArePrefixes, PrefixTrans
  <2>. QED BY <1>1, <2>1, <2>2
<1>4. \A u \in Nodes' \ Keys : root'[u] = null
  BY <1>1 DEF TrieTypeOK
<1>. QED BY <1>1, <1>2, <1>3, <1>4 DEF TrieTypeOK

\* A delete keeps the tree in shape: no node is left that hung from one taken away.
LEMMA DeleteTrieTypeOK ==
    ASSUME TrieTypeOK, NEW key \in Keys, delete(key)
    PROVE  TrieTypeOK'
<1>1. /\ Nodes' = Nodes \ Cut(key)
      /\ root' \in [Nodes' -> Values \cup {null}]
      /\ \A u \in Nodes' : root'[u] = IF u = key THEN null ELSE root[u]
  BY DeleteChanges
<1>2. Nodes' \subseteq Seq(Char)
  BY <1>1 DEF TrieTypeOK
<1>3. ASSUME NEW u \in Nodes', NEW p \in Prefixes(u) PROVE p \in Nodes'
  <2>1. p \in Nodes /\ IsPrefix(p, u)
    BY <1>1, PrefixesArePrefixes DEF TrieTypeOK
  <2>2. p \notin Cut(key)
    BY <1>1, <2>1, CutClosed
  <2>. QED BY <1>1, <2>1, <2>2
<1>4. \A u \in Nodes' \ Keys : root'[u] = null
  BY <1>1 DEF TrieTypeOK
<1>. QED BY <1>1, <1>2, <1>3, <1>4 DEF TrieTypeOK

\* Every node hangs from the root, and only keys have values (lines 7-11, 28-38,
\* 78-96).
THEOREM TrieTypeCorrect == TrieSpec => []TrieTypeOK
<1>1. TrieInit => TrieTypeOK
  BY DEF TrieInit, TrieTypeOK, Nodes
<1>2. TrieTypeOK /\ [TrieNext]_root => TrieTypeOK'
  <2>. SUFFICES ASSUME TrieTypeOK, [TrieNext]_root PROVE TrieTypeOK'
    OBVIOUS
  <2>1. CASE \E key \in Keys : delete(key)
    BY <2>1, DeleteTrieTypeOK
  <2>2. CASE \E key \in Keys : \E v \in Values \cup {null} : put(key, v)
    BY <2>2, PutTrieTypeOK
  <2>3. CASE UNCHANGED root
    BY <2>3 DEF TrieTypeOK, Nodes
  <2>. QED BY <2>1, <2>2, <2>3 DEF TrieNext
<1>. QED BY <1>1, <1>2, PTL DEF TrieSpec

-----------------------------------------------------------------------------
(* The tree as a map. *)

\* The first d characters of a string are a node only if the links lead there,
\* since all prefixes of a node are nodes.
LEMMA NodesAreReached ==
    ASSUME TrieTypeOK, NEW s \in Seq(Char), NEW d \in 0..Len(s)
    PROVE  Reaches(s, d) <=> First(s, d) \in Nodes
<1>1. ASSUME First(s, d) \in Nodes, NEW e \in 0..d PROVE First(s, e) \in Nodes
  <2>1. e \in 0..Len(s) /\ e \in 0..Len(First(s, d))
    BY FirstIsPrefix
  <2>2. First(First(s, d), e) = First(s, e)
    BY <2>1, FirstIsPrefix DEF First
  <2>3. First(First(s, d), e) \in Prefixes(First(s, d))
    BY <2>1, FirstIsPrefix
  <2>. QED BY <1>1, <2>2, <2>3 DEF TrieTypeOK
<1>. QED BY <1>1 DEF Reaches

\* get finds the val of the node of the key.
LEMMA GetReads ==
    ASSUME TrieTypeOK, NEW key \in Seq(Char)
    PROVE  get(key) = IF key \in Nodes THEN root[key] ELSE null
<1>1. First(key, Len(key)) = key /\ Len(key) \in 0..Len(key)
  BY PrefixRefl
<1>. QED BY <1>1, NodesAreReached DEF get

\* The table holds exactly the nodes that have a value.
TableIsTree ==
    /\ DOMAIN table = {u \in Nodes : root[u] # null}
    /\ \A l \in DOMAIN table : table[l] = root[l]
    /\ table = [l \in DOMAIN table |-> table[l]]

\* In a tree that is in shape, get finds the values of the nodes, and nothing else.
LEMMA TableReads == TrieTypeOK => TableIsTree
<1>. SUFFICES ASSUME TrieTypeOK PROVE TableIsTree
  OBVIOUS
<1>1. \A l \in Keys : get(l) = IF l \in Nodes THEN root[l] ELSE null
  BY GetReads
<1>2. DOMAIN table = {l \in Keys : get(l) # null}
  BY DEF table
<1>3. DOMAIN table = {u \in Nodes : root[u] # null}
  BY <1>1, <1>2 DEF TrieTypeOK
<1>. QED BY <1>1, <1>2, <1>3 DEF table, TableIsTree

\* What a put is to the callers: a put, or a delete when the value is null.
LEMMA PutRefines ==
    ASSUME TrieTypeOK, NEW key \in Keys, NEW v \in Values \cup {null}, put(key, v)
    PROVE  IF v = null THEN Abstract!Delete(key) ELSE Abstract!Put(key, v)
<1>1. TrieTypeOK' /\ TableIsTree
  BY PutTrieTypeOK, TableReads
<1>2. TableIsTree'
  BY <1>1, TableReads, PTL
<1>3. /\ Nodes' = Nodes \cup Prefixes(key) /\ key \in Prefixes(key)
      /\ \A u \in Nodes' :
            root'[u] = IF u = key THEN v ELSE IF u \in Nodes THEN root[u] ELSE null
  BY PutChanges, PrefixesArePrefixes, PrefixRefl
<1> DEFINE T == table
           U == table'
<1>4. /\ DOMAIN T = {u \in Nodes : root[u] # null}
      /\ \A l \in DOMAIN T : T[l] = root[l]
      /\ DOMAIN U = {u \in Nodes' : root'[u] # null}
      /\ \A l \in DOMAIN U : U[l] = root'[l]
      /\ U = [l \in DOMAIN U |-> U[l]]
  BY <1>1, <1>2 DEF TableIsTree
<1>5. CASE v = null
  <2>1. DOMAIN U = DOMAIN T \ {key}
    BY <1>3, <1>4, <1>5
  <2>2. \A l \in DOMAIN U : U[l] = T[l]
    BY <1>3, <1>4, <1>5
  <2>3. U = [l \in DOMAIN T \ {key} |-> T[l]]
    <3> HIDE DEF T, U
    <3>. QED BY <1>4, <2>1, <2>2
  <2>. QED BY <1>5, <2>3 DEF Abstract!Delete, Abstract!Without
<1>6. CASE v # null
  <2>1. DOMAIN U = DOMAIN T \cup {key}
    BY <1>3, <1>4, <1>6
  <2>2. \A l \in DOMAIN U : U[l] = IF l = key THEN v ELSE T[l]
    BY <1>3, <1>4, <1>6
  <2>3. U = [l \in DOMAIN T \cup {key} |-> IF l = key THEN v ELSE T[l]]
    <3> HIDE DEF T, U
    <3>. QED BY <1>4, <2>1, <2>2
  <2>. QED BY <1>6, <2>3 DEF Abstract!Put, Abstract!With
<1>. QED BY <1>5, <1>6

\* What a delete is to the callers: the key is gone, every other key stays.
LEMMA DeleteRefines ==
    ASSUME TrieTypeOK, NEW key \in Keys, delete(key)
    PROVE  Abstract!Delete(key)
<1>1. TrieTypeOK' /\ TableIsTree
  BY DeleteTrieTypeOK, TableReads
<1>2. TableIsTree'
  BY <1>1, TableReads, PTL
<1>3. /\ Nodes' = Nodes \ Cut(key)
      /\ \A u \in Nodes' : root'[u] = IF u = key THEN null ELSE root[u]
      /\ \A u \in Cut(key) : u = key \/ root[u] = null
  BY DeleteChanges, CutClosed
<1> DEFINE T == table
           U == table'
<1>4. /\ DOMAIN T = {u \in Nodes : root[u] # null}
      /\ \A l \in DOMAIN T : T[l] = root[l]
      /\ DOMAIN U = {u \in Nodes' : root'[u] # null}
      /\ \A l \in DOMAIN U : U[l] = root'[l]
      /\ U = [l \in DOMAIN U |-> U[l]]
  BY <1>1, <1>2 DEF TableIsTree
<1>5. DOMAIN U = DOMAIN T \ {key}
  BY <1>3, <1>4
<1>6. \A l \in DOMAIN U : U[l] = T[l]
  BY <1>3, <1>4
<1>7. U = [l \in DOMAIN T \ {key} |-> T[l]]
  <2> HIDE DEF T, U
  <2>. QED BY <1>4, <1>5, <1>6
<1>. QED BY <1>7 DEF Abstract!Delete, Abstract!Without

\* To its callers the tree is a map from keys to values (lines 13-39, 78-96).
THEOREM ImplementsMap == TrieSpec => ImplementsSymbolTable
<1>1. TrieInit => Abstract!Init
  BY DEF TrieInit, Abstract!Init, table, get, Reaches, Nodes
<1>2. TrieTypeOK /\ [TrieNext]_root => [Abstract!Next]_table
  <2>. SUFFICES ASSUME TrieTypeOK, [TrieNext]_root PROVE [Abstract!Next]_table
    OBVIOUS
  <2>1. CASE \E key \in Keys : delete(key)
    BY <2>1, DeleteRefines DEF Abstract!Next
  <2>2. ASSUME NEW key \in Keys, NEW v \in Values \cup {null}, put(key, v)
        PROVE  Abstract!Next
    <3>1. CASE v = null
      BY <2>2, <3>1, PutRefines DEF Abstract!Next
    <3>2. CASE v # null
      BY <2>2, <3>2, PutRefines DEF Abstract!Next
    <3>. QED BY <3>1, <3>2
  <2>3. CASE UNCHANGED root
    BY <2>3 DEF table, get, Reaches, Nodes
  <2>. QED BY <2>1, <2>2, <2>3 DEF TrieNext
<1>. QED BY <1>1, <1>2, TrieTypeCorrect, PTL DEF TrieSpec, ImplementsSymbolTable, Abstract!Spec

-----------------------------------------------------------------------------
(* Dead ends. *)

\* A put of a value makes no dead end, and leaves none on the way to its key, which
\* leads to a value now.
LEMMA PutDeadEnds ==
    ASSUME TrieTypeOK, NEW key \in Keys, NEW v \in Values, put(key, v)
    PROVE  DeadEnds' \subseteq DeadEnds \ Prefixes(key)
<1>1. /\ Nodes' = Nodes \cup Prefixes(key) /\ key \in Prefixes(key)
      /\ \A u \in Nodes' :
            root'[u] = IF u = key THEN v ELSE IF u \in Nodes THEN root[u] ELSE null
  BY PutChanges, PrefixesArePrefixes, PrefixRefl
<1>. SUFFICES ASSUME NEW u \in DeadEnds' PROVE u \in DeadEnds /\ u \notin Prefixes(key)
  OBVIOUS
<1>2. /\ u \in Nodes' /\ root'[u] = null
      /\ \A m \in Nodes' : IsPrefix(u, m) => m = u
  BY DEF DeadEnds
<1>3. u # key
  BY <1>1, <1>2
<1>4. u \in Nodes /\ u \notin Prefixes(key)
  <2>1. ~IsPrefix(u, key)
    BY <1>1, <1>2, <1>3
  <2>. QED BY <1>1, <1>2, <2>1, PrefixesArePrefixes
<1>. QED BY <1>1, <1>2, <1>3, <1>4 DEF DeadEnds

\* A delete takes away every node on the way to its key that leads to nothing else.
LEMMA DeleteDeadEnds ==
    ASSUME TrieTypeOK, NEW key \in Keys, delete(key)
    PROVE  DeadEnds' \subseteq DeadEnds \ Prefixes(key)
<1>1. /\ Nodes' = Nodes \ Cut(key)
      /\ \A u \in Nodes' : root'[u] = IF u = key THEN null ELSE root[u]
      /\ \A u \in Cut(key) : IsPrefix(u, key) /\ (u = key \/ root[u] = null)
  BY DeleteChanges, CutClosed
<1>. SUFFICES ASSUME NEW u \in DeadEnds', u \notin DeadEnds \/ u \in Prefixes(key) PROVE FALSE
  OBVIOUS
<1>2. /\ u \in Nodes /\ u \notin Cut(key) /\ (u = key \/ root[u] = null)
      /\ \A m \in Nodes \ Cut(key) : IsPrefix(u, m) => m = u
  BY <1>1 DEF DeadEnds
<1>3. \A m \in Nodes : m \in Seq(Char)
  BY DEF TrieTypeOK
<1>4. IsPrefix(u, key)
  <2>1. CASE u = key
    BY <1>2, <1>3, <2>1, PrefixRefl
  <2>2. CASE u \in Prefixes(key)
    BY <2>2, PrefixesArePrefixes
  <2>3. CASE root[u] = null /\ u \notin DeadEnds
    <3>1. PICK m \in Nodes : IsPrefix(u, m) /\ m # u
      BY <1>2, <2>3 DEF DeadEnds
    <3>2. m \in Cut(key) /\ IsPrefix(m, key)
      BY <1>1, <1>2, <3>1
    <3>. QED BY <1>2, <1>3, <3>1, <3>2, PrefixTrans
  <2>. QED BY <1>2, <2>1, <2>2, <2>3
<1>5. ASSUME NEW m \in Nodes, IsPrefix(u, m)
      PROVE  IsPrefix(m, key) /\ (m = key \/ root[m] = null)
  BY <1>1, <1>2, <1>4, <1>5
<1>6. u \in Cut(key)
  BY <1>2, <1>5 DEF Cut
<1>. QED BY <1>2, <1>6

\* Every delete and every put of a value leaves no dead end on the way to its key,
\* and makes none elsewhere, for any keys (lines 28-38 and 92-95).
THEOREM DeadEndsTakenAway == TrieSpec => LeavesNoDeadEnds
<1>1. ASSUME TrieTypeOK, NEW key \in Keys, delete(key) \/ \E v \in Values : put(key, v)
      PROVE  DeadEnds' \subseteq DeadEnds \ Prefixes(key)
  BY <1>1, DeleteDeadEnds, PutDeadEnds
<1>2. TrieTypeOK
        => [\A key \in Keys :
               delete(key) \/ (\E v \in Values : put(key, v)) =>
                   DeadEnds' \subseteq DeadEnds \ Prefixes(key)]_root
  BY <1>1
<1>. QED BY <1>2, TrieTypeCorrect, PTL DEF TrieSpec, LeavesNoDeadEnds

-----------------------------------------------------------------------------
(* The longest prefix. *)

\* The lengths that search assigns are those of the keys that the text starts with.
LEMMA SearchFinds ==
    ASSUME TrieTypeOK, NEW text \in Seq(Char)
    PROVE  search(text) = {d \in 0..Len(text) : First(text, d) \in DOMAIN table}
<1>1. DOMAIN table = {u \in Nodes : root[u] # null}
  BY TableReads DEF TableIsTree
<1>2. \A d \in 0..Len(text) : Reaches(text, d) <=> First(text, d) \in Nodes
  BY NodesAreReached
<1>. QED BY <1>1, <1>2 DEF search

\* longestPrefixOf answers with the longest key that the text starts with
\* (lines 61-74).
THEOREM LongestPrefix == TrieSpec => []LongestPrefixFound
<1>1. TrieTypeOK => LongestPrefixFound
  <2> DEFINE found(text) == {l \in DOMAIN table : IsPrefix(l, text)}
             longest(text) == longestPrefixOf(text)
  <2>. SUFFICES ASSUME TrieTypeOK, NEW text \in Queries
                PROVE  IF found(text) = {} THEN longest(text) = <<>>
                       ELSE /\ longest(text) \in found(text)
                            /\ \A l \in found(text) : Len(l) <= Len(longest(text))
    BY DEF LongestPrefixFound
  <2>1. text \in Seq(Char) /\ DOMAIN table \subseteq Seq(Char)
    BY TableReads DEF TableIsTree, TrieTypeOK
  <2>2. search(text) = {d \in 0..Len(text) : First(text, d) \in DOMAIN table}
    BY <2>1, SearchFinds
  <2>3. \A d \in search(text) : First(text, d) \in found(text) /\ Len(First(text, d)) = d
    BY <2>1, <2>2, FirstIsPrefix
  <2>4. \A l \in found(text) : Len(l) \in search(text) /\ l = First(text, Len(l))
    BY <2>1, <2>2, PrefixIsFirst
  <2>5. CASE search(text) = {}
    <3>1. found(text) = {}
      BY <2>4, <2>5
    <3>2. longest(text) = <<>>
      BY <2>1, <2>5 DEF longestPrefixOf, First
    <3>. QED BY <3>1, <3>2
  <2>6. CASE search(text) # {}
    <3>1. Len(text) \in Nat /\ search(text) \in SUBSET ((-1)..Len(text))
      BY <2>1, <2>2
    <3>2. /\ Max(search(text)) \in search(text)
          /\ \A d \in search(text) : d <= Max(search(text))
      BY <2>6, <3>1, MaxIsGreatest
    <3>3. longest(text) = First(text, Max(search(text)))
      BY <2>6 DEF longestPrefixOf
    <3>4. longest(text) \in found(text) /\ Len(longest(text)) = Max(search(text))
      BY <2>3, <3>2, <3>3
    <3>5. \A l \in found(text) : Len(l) <= Len(longest(text))
      BY <2>4, <3>2, <3>4
    <3>. QED BY <3>4, <3>5
  <2>. QED BY <2>5, <2>6
<1>. QED BY <1>1, TrieTypeCorrect, PTL
=============================================================================
