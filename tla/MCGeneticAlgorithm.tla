------------------------- MODULE MCGeneticAlgorithm -------------------------
(***************************************************************************)
(* A data file with four locations beside the start.  FOPT is such that    *)
(* some round trips are shorter and some longer, so both a population none *)
(* of which is recorded and one improved upon twice are reached.           *)
(***************************************************************************)
EXTENDS GeneticAlgorithm

\* The symmetric matrix with the given entries above the diagonal.
Symmetric(d) ==
    [a \in Location |-> [b \in Location |->
        IF a < b THEN d[a + 1][b - a] ELSE IF b < a THEN d[b + 1][a - b] ELSE 0]]

MCMaps == {Symmetric(<< <<51, 92, 50, 30>>, <<61, 57, 81>>, <<54, 62>>, <<21>> >>)}
=============================================================================
