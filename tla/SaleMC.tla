------------------------------- MODULE SaleMC -------------------------------
(* Small instances of Sale and Till.                                         *)
EXTENDS Till, TLC
CONSTANTS q1, q2, w1, i1
AllKeys == { "topup", "bill", "order", "pay", "cash", "execute" } \X (0 .. MaxOps)
Threads == Permutations(Requests)
=============================================================================
