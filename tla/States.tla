------------------------------- MODULE States -------------------------------
(* The two state machines every service shares (samy_common/states.py): the  *)
(* order, which is the money side and belongs to the payments service, and   *)
(* the fulfillment, which is the delivery side and belongs to the topups and *)
(* bill-payment services.  A target that is absent from the table makes      *)
(* assert_transition raise IllegalTransition, and the transaction around it  *)
(* rolls back.                                                               *)

OrderState == { "CREATED", "PAYMENT_PENDING", "PAID", "PROCESSING", "SUCCESS",
                "FAILED", "CANCELLED", "EXPIRED", "REFUND_PENDING",
                "REFUNDED", "UNDER_REVIEW" }

FulfillmentState == { "PENDING_PAYMENT", "QUEUED", "SENT", "SUCCEEDED",
                      "FAILED", "UNDER_REVIEW", "REVERSED" }

OrderTransitions ==
  [ s \in OrderState |->
      CASE s = "CREATED"         -> { "PAYMENT_PENDING", "PAID", "CANCELLED" }
        [] s = "PAYMENT_PENDING" -> { "PAID", "CANCELLED", "EXPIRED", "UNDER_REVIEW" }
        [] s = "PAID"            -> { "PROCESSING", "REFUND_PENDING" }
        [] s = "PROCESSING"      -> { "SUCCESS", "FAILED", "UNDER_REVIEW" }
        [] s = "FAILED"          -> { "REFUND_PENDING" }
        [] s = "REFUND_PENDING"  -> { "REFUNDED", "UNDER_REVIEW" }
        [] s = "UNDER_REVIEW"    -> { "PAID", "SUCCESS", "FAILED",
                                      "REFUND_PENDING", "EXPIRED" }
        [] OTHER                 -> {} ]

FulfillmentTransitions ==
  [ s \in FulfillmentState |->
      CASE s = "PENDING_PAYMENT" -> { "QUEUED", "FAILED" }
        [] s = "QUEUED"          -> { "SENT", "FAILED" }
        [] s = "SENT"            -> { "SUCCEEDED", "FAILED", "UNDER_REVIEW" }
        [] s = "UNDER_REVIEW"    -> { "SUCCEEDED", "FAILED" }
        [] s = "SUCCEEDED"       -> { "REVERSED" }
        [] OTHER                 -> {} ]

(* assert_transition: the step s -> t is in the table. *)
CanMoveOrder(s, t)       == t \in OrderTransitions[s]
CanMoveFulfillment(s, t) == t \in FulfillmentTransitions[s]
=============================================================================
