--------------------------- MODULE MCPaperAccount ---------------------------
(* Model checking of PaperAccount. *)
EXTENDS PaperAccount, TLC

Symmetry == Permutations(Command) \union Permutations(Strategies)
=============================================================================
