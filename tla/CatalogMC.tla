----------------------------- MODULE CatalogMC -----------------------------
(* Small instances of Sync, Commercial and Counter, one of which runs in a   *)
(* behaviour: they share no state.                                           *)
EXTENDS Sync, Commercial, Counter, TLC
CONSTANTS p1, q1, q2, s1, s2, l1, l2, k1, k2, g1, g2, oA, oB, r1, r2, r3
VARIABLES desk
OneLine == [p \in Products |-> l1]
FirstThenSecond == [q \in Providers |-> IF q = q1 THEN 1 ELSE 2]
Line(l, a) == [line |-> l, amount |-> a]
SmallFeeds ==
  { [s \in Skus |-> IF s = s1 THEN Line(l1, 100) ELSE None],
    [s \in Skus |-> Line(l1, 100)],
    [s \in Skus |-> IF s = s1 THEN Line(l1, 200) ELSE Line(l2, 100)],
    [s \in Skus |-> IF s = s2 THEN Line(l1, 100) ELSE None] }
Good(l, h) == [low |-> l, high |-> h]
SmallOffers ==
  { [s \in Goods |-> IF s = k1 THEN Good(1, 2) ELSE Nothing],
    [s \in Goods |-> IF s = k1 THEN Good(2, 2) ELSE Good(1, 1)],
    [s \in Goods |-> Nothing] }
AllCatalogues == [Items -> Operators \cup { Nil }]
\* A desk that does not run keeps one initial state.
DeskInit ==
  /\ Init /\ CommercialInit /\ CounterInit
  /\ desk \in { "sync", "commercial", "counter" }
  /\ desk # "sync" => listing = [g \in Items |-> Nil]
DeskNext ==
  \/ desk = "sync" /\ Next /\ UNCHANGED << catalogVars, counterVars, desk >>
  \/ desk = "commercial" /\ CommercialNext /\ UNCHANGED << vars, counterVars, desk >>
  \/ desk = "counter" /\ CounterNext /\ UNCHANGED << vars, catalogVars, desk >>
DeskSpec == DeskInit /\ [][DeskNext]_<< vars, catalogVars, counterVars, desk >>
Alike == Permutations(Runs) \cup Permutations(Items) \cup Permutations(Operators)
=============================================================================
