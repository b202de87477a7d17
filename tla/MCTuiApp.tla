------------------------------ MODULE MCTuiApp ------------------------------
(* Small instances of TuiApp: two instances and two records at most.       *)
EXTENDS TuiApp, TLC

Symmetry == Permutations(Slot)
=============================================================================
