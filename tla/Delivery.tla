------------------------------ MODULE Delivery ------------------------------
(* What the delivery services promise to the payments service, for each sale *)
(* they deliver: nothing is requested of the operator before the order was   *)
(* paid, it is requested at most once, and what payments is told agrees with *)
(* how the delivery ended.  Orders relies on the last part: its environment  *)
(* publishes at most one of "succeeded" and "failed" about an order.         *)
EXTENDS Naturals

CONSTANT Sales

VARIABLES phase,    \* how far the delivery of each sale is
          requested, \* the sales the operator was asked to deliver
          told       \* the outcome payments was told, if any

Init == /\ phase     = [s \in Sales |-> "unpaid"]
        /\ requested = {}
        /\ told      = [s \in Sales |-> "nothing"]

Pay(s) == /\ phase[s] = "unpaid"
          /\ phase' = [phase EXCEPT ![s] = "paid"]
          /\ UNCHANGED << requested, told >>

\* From here on the sale belongs to one executor.
Claim(s) == /\ phase[s] = "paid"
            /\ phase' = [phase EXCEPT ![s] = "sent"]
            /\ UNCHANGED << requested, told >>

\* The outcome may be known before the executor hears of its own request.
Request(s) == /\ phase[s] # "unpaid" /\ phase[s] # "paid"
              /\ s \notin requested
              /\ requested' = requested \cup { s }
              /\ UNCHANGED << phase, told >>

Finish(s, outcome) == /\ phase[s] = "sent"
                      /\ phase' = [phase EXCEPT ![s] = outcome]
                      /\ UNCHANGED << requested, told >>

Tell(s) == /\ phase[s] \in { "succeeded", "failed" }
           /\ told[s] = "nothing"
           /\ told' = [told EXCEPT ![s] = phase[s]]
           /\ UNCHANGED << phase, requested >>

Next == \E s \in Sales :
          \/ Pay(s) \/ Claim(s) \/ Request(s) \/ Tell(s)
          \/ \E outcome \in { "succeeded", "failed" } : Finish(s, outcome)

Spec == Init /\ [][Next]_<< phase, requested, told >>
=============================================================================
