-------------------------- MODULE MCAntColonyRank --------------------------
(***************************************************************************)
(* Contents of TSP.txt for four cities: a quadrilateral, and one where the *)
(* formula of line 90 gives zero for a pair at first and has to be         *)
(* evaluated the other way round.                                          *)
(***************************************************************************)
EXTENDS AntColonyRank

P(a, b) == [x |-> a, y |-> b]

MCLayouts == {<<P(0, 0), P(7, 1), P(5, 8), P(1, 6)>>,
              <<P(3, 3), P(3, 8), P(6, 1), P(9, 9)>>}

\* The same and one where two of the cities are the same point.
MCAllLayouts == MCLayouts \cup {<<P(2, 2), P(2, 2), P(6, 1), P(0, 5)>>}
=============================================================================
