-------------------------- MODULE RomaniaInstance --------------------------
(***************************************************************************)
(* The route search beside other programs, whose specifications have       *)
(* operators of the same names: its variables, its instance, and the       *)
(* properties of the instance.                                             *)
(***************************************************************************)

VARIABLES romaniaPc, initCity, nodes, open, solution, shown

Romania == INSTANCE RomaniaSearch WITH pc <- romaniaPc

\* RomaniaSearch: the displayed way is a cheapest one, and the roads and costs so
\* far that it is found by are those of the map (AE86-github.cpp).
SolutionIsShortest == Romania!TypeOK /\ Romania!SolutionIsShortest

\* RomaniaSearch: a search that has started displays its way (AE86-github.cpp).
SearchSucceeds == Romania!SearchSucceeds
=============================================================================
