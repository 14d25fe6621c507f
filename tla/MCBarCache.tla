----------------------------- MODULE MCBarCache -----------------------------
(* Two readers of one stock; the third day is a holiday.                      *)
EXTENDS BarCache, TLC

CONSTANTS r1, r2
Readers == Permutations({r1, r2})
=============================================================================
