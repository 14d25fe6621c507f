---------------------------- MODULE MCSidePanels ----------------------------
(* Two panels, interchangeable.                                               *)
EXTENDS SidePanels, TLC

Symmetric == Permutations(Panels)
=============================================================================
