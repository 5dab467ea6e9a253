------------------------------ MODULE Channel -------------------------------
(* What the consumers of events count on, and no more: a message is about an *)
(* event whose transaction committed.  It may come again, late, in another   *)
(* order, and not at all.  Modules Orders, Topups and BillPay assume this    *)
(* much of the bus.                                                          *)
EXTENDS Naturals

CONSTANTS Events, Groups

VARIABLES committed, \* events whose transaction committed
          sent,      \* messages put on the stream, for each event
          handled    \* times a group handled an event

Init == /\ committed = {}
        /\ sent = [e \in Events |-> 0]
        /\ handled = [g \in Groups |-> [e \in Events |-> 0]]

Commit(e) == /\ e \notin committed
             /\ committed' = committed \cup { e }
             /\ UNCHANGED << sent, handled >>

SendIt(e) == /\ e \in committed
             /\ sent' = [sent EXCEPT ![e] = @ + 1]
             /\ UNCHANGED << committed, handled >>

\* A message is handled once: more copies are more handlings.
Handle(g, e) == /\ handled[g][e] < sent[e]
                /\ handled' = [handled EXCEPT ![g][e] = @ + 1]
                /\ UNCHANGED << committed, sent >>

Next == \E e \in Events : \/ Commit(e) \/ SendIt(e)
                          \/ \E g \in Groups : Handle(g, e)

Spec == Init /\ [][Next]_<< committed, sent, handled >>
=============================================================================
