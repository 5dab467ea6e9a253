---------------------------- MODULE ReadinessMC ----------------------------
(* Small instances of four modules that share no state, one of which runs in *)
(* a behaviour: the environments of the providers, their price lists, the    *)
(* prices of the portal and its commissions.                                 *)
EXTENDS Readiness, Feed, Pricing, Commissions, TLC
CONSTANTS n1, n2, r1, r2, sA, sB, oA, p1
VARIABLES desk
SmallTariffs == { [percent |-> 3, fixed |-> 3, vat |-> 16], [percent |-> 7, fixed |-> 0, vat |-> 16] }
OneOrg == [s \in Stores |-> oA]
Rule == [store |-> Unset, org |-> Unset, product |-> Unset, priority |-> 0, active |-> TRUE,
         from |-> 0, until |-> Unset, fixed |-> 0, percent |-> 0, min |-> Unset, max |-> Unset,
         split |-> << 60, 30, 10 >>]
SmallShapes ==
  { [Rule EXCEPT !.fixed = 10],
    [Rule EXCEPT !.org = oA, !.percent = 7, !.min = 1, !.split = << 1, 1, 1 >>],
    [Rule EXCEPT !.org = oA, !.store = sA, !.percent = 5, !.fixed = 3],
    [Rule EXCEPT !.store = sB, !.percent = 50, !.max = 11, !.until = 1, !.split = << 0, 1, 1 >>],
    [Rule EXCEPT !.product = p1, !.fixed = 7, !.priority = 1, !.split = << 2, 3, 2 >>] }
\* A desk that does not run keeps one initial state.
Init ==
  /\ desk \in { "environments", "feed", "pricing", "commissions" }
  /\ ReadinessInit /\ FeedInit /\ PricingInit /\ CommissionsInit
  /\ desk # "environments" =>
       provider = "cash" /\ conf[n1].allowed /\ conf[n1].env = "production"
  /\ desk # "feed" => source = "linntae" /\ \A r \in Rows : worth[r] = Lowest
  /\ desk # "pricing" =>
       /\ rate = Unknown /\ mechanism = CHOOSE m \in Mechanisms : TRUE
       /\ tariff = CHOOSE t \in Tariffs : TRUE
Next ==
  \/ desk = "environments" /\ ReadinessNext
     /\ UNCHANGED << feedVars, walletVars, ruleVars, desk >>
  \/ desk = "feed" /\ FeedNext /\ UNCHANGED << readinessVars, walletVars, ruleVars, desk >>
  \/ desk = "pricing" /\ PricingNext /\ UNCHANGED << readinessVars, feedVars, ruleVars, desk >>
  \/ desk = "commissions" /\ CommissionsNext
     /\ UNCHANGED << readinessVars, feedVars, walletVars, desk >>
Spec == Init /\ [][Next]_<< readinessVars, feedVars, walletVars, ruleVars, desk >>
Symmetry == Permutations(Procs) \cup Permutations(Rows)
=============================================================================
