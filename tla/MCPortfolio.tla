---------------------------- MODULE MCPortfolio ----------------------------
(* Model checking of Portfolio. *)
EXTENDS Portfolio, TLC

Symmetry == Permutations(Stock)

\* Three new shares for two old ones, and one for two.
Splits == {<<3, 2>>, <<1, 2>>}
=============================================================================
