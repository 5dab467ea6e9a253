----------------------------- MODULE AdaptersMC -----------------------------
(* Small instances of Adapters.                                              *)
EXTENDS Adapters, TLC
CONSTANTS a1, a2, phone, m1, m2
Alike == Permutations(Sales) \cup Permutations(Amounts)
=============================================================================
