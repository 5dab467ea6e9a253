----------------------------- MODULE BillPayMC ------------------------------
(* Small instances of BillPay.                                               *)
EXTENDS BillPay
CONSTANTS b1, p1, p2
=============================================================================
