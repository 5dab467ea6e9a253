------------------------------ MODULE TopupsMC ------------------------------
(* Small instances of Topups.                                                *)
EXTENDS Topups, TLC
CONSTANTS f1, f2, p1, p2, p3
ProcessSymmetry == Permutations(Processes)
=============================================================================
