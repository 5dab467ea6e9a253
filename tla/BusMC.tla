------------------------------- MODULE BusMC --------------------------------
(* Small instances of the two things that processes share in Redis, the      *)
(* streams of the bus and the token of Linntae.  One of the two runs in a    *)
(* behaviour: they share no key.                                             *)
EXTENDS Bus, LinntaeSession
CONSTANTS e1, e2, d1, d2, g1, r1, r2, c1, c2
VARIABLES desk
DeskInit == Init /\ SessionInit /\ desk \in { "bus", "session" }
DeskNext ==
  \/ desk = "bus" /\ Next /\ UNCHANGED << sessionVars, desk >>
  \/ desk = "session" /\ SessionNext /\ UNCHANGED << vars, desk >>
DeskSpec == DeskInit /\ [][DeskNext]_<< vars, sessionVars, desk >> /\ Fairness /\ SessionFairness
=============================================================================
