------------------------------ MODULE OrdersMC ------------------------------
(* Small instances of Orders.                                                *)
EXTENDS Orders, TLC
CONSTANTS o1, o2, c1, c2, w1, w2

OneCall  == (c1 :> o1)
TwoCalls == (c1 :> o1) @@ (c2 :> o1)
TwoOrders == (c1 :> o1) @@ (c2 :> o2)
WorkerSymmetry == Permutations(Workers)
=============================================================================
