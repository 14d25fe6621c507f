---------------------------- MODULE MCEngineDay ----------------------------
(* Two stocks over four days.                                                 *)
EXTENDS Snapshot, Results

Symbols == <<"a", "b">>
Ratios == {<<2, 1>>, <<1, 2>>}
=============================================================================
