----------------------------- MODULE Commissions -----------------------------
(* The commission of an order: which rule applies to a store, what it comes  *)
(* to, and how it is split.  The result is frozen in the order, while rules  *)
(* are added, switched off and run out.                                      *)
EXTENDS Money

CONSTANTS Stores, Orgs,
          OrgOf,     \* [Stores -> Orgs]
          Products,
          Shapes,    \* the rules somebody may configure
          MaxRules,  \* rules there are
          Amounts,   \* base amounts of orders
          MaxOrders, \* orders there are
          MaxTime,   \* end of the clock
          Unset      \* a scope field left empty

Maybe(S) == S \cup { Unset }

\* CommissionSplit: whole weights, one of them positive.
Splits == { w \in [1 .. 3 -> Nat] : Total(w) > 0 }

\* CommissionRule, with a split.
RuleRows ==
  [store : Maybe(Stores), org : Maybe(Orgs), product : Maybe(Products), priority : Int,
   active : BOOLEAN, from : Nat, until : Maybe(Nat), fixed : Nat, percent : 0 .. 100,
   min : Maybe(Nat), max : Maybe(Nat), split : Splits]

ASSUME CommissionsAssumption ==
  /\ OrgOf \in [Stores -> Orgs]
  /\ Unset \notin Stores \cup Orgs \cup Products \cup Nat
  /\ Shapes \subseteq RuleRows
  /\ Amounts \subseteq Nat /\ MaxTime \in Nat

VARIABLES rules,  \* CommissionRule rows, in order of creation
          orders, \* what was frozen
          now

ruleVars == << rules, orders, now >>

NoRule == 0

\* What an order keeps of its commission.
OrderRows == [store : Stores, rule : Nat, commission : Nat, shares : [1 .. 3 -> Nat]]

\* Rules and frozen commissions are well formed: no share is negative.
CommissionsTypeOK ==
  /\ rules \in Seq(RuleRows)
  /\ orders \in Seq(OrderRows)
  /\ now \in 0 .. MaxTime

CommissionsInit == rules = << >> /\ orders = << >> /\ now = 0

Configure(shape) ==
  /\ Len(rules) < MaxRules
  /\ shape.until # Unset => shape.until > now
  /\ rules' = Append(rules, [shape EXCEPT !.from = now])
  /\ UNCHANGED << orders, now >>

Deactivate(i) ==
  /\ rules[i].active
  /\ rules' = [rules EXCEPT ![i].active = FALSE]
  /\ UNCHANGED << orders, now >>

Tick == now < MaxTime /\ now' = now + 1 /\ UNCHANGED << rules, orders >>

\* is_currently_valid, for a rule that may have no end (Unset).
Valid(r) == r.active /\ r.from <= now /\ (r.until = Unset \/ r.until > now)

\* The scope resolve_rule selects: the platform's rules, those of the
\* organisation and those of the store.  One match is enough.
InScope(r, store) ==
  \/ r.store = Unset /\ r.org = Unset
  \/ r.org = OrgOf[store]
  \/ r.store = store

\* An order may name no product (Unset): then a rule for a product does not apply.
ForProduct(r, product) == r.product \in { Unset, product }

Specificity(r) ==
  (IF r.org = Unset THEN 0 ELSE 1) + (IF r.store = Unset THEN 0 ELSE 2)
    + (IF r.product = Unset THEN 0 ELSE 4)

\* sort by specificity, priority and creation, the highest first.
Outranks(i, j) ==
  LET a == rules[i]  b == rules[j] IN
  \/ Specificity(a) > Specificity(b)
  \/ /\ Specificity(a) = Specificity(b)
     /\ a.priority > b.priority \/ (a.priority = b.priority /\ i > j)

Applicable(store, product) ==
  { i \in 1 .. Len(rules) :
      Valid(rules[i]) /\ InScope(rules[i], store) /\ ForProduct(rules[i], product) }

\* resolve_rule
Resolve(store, product) ==
  LET A == Applicable(store, product) IN
  IF A = {} THEN NoRule
  ELSE CHOOSE i \in A : \A j \in A \ { i } : Outranks(i, j)

Clamp(amount, low, high) ==
  IF low # Unset /\ amount < low THEN low
  ELSE IF high # Unset /\ amount > high THEN high ELSE amount

\* CommissionRule.calculate: fixed, a percentage rounded half up, or both.
Commission(r, base) == Clamp(r.fixed + HalfUp(base * r.percent, 100), r.min, r.max)

\* calculate: nothing without a rule.  A rule without a split leaves all to the
\* store, which weights of 1, 0 and 0 do too.
Frozen(store, product, base) ==
  LET i == Resolve(store, product)
      c == IF i = NoRule THEN 0 ELSE Commission(rules[i], base) IN
  [store |-> store, rule |-> i, commission |-> c,
   shares |-> IF i = NoRule THEN << 0, 0, 0 >> ELSE Allocate(c, rules[i].split)]

CreateOrder(store, product, base) ==
  /\ Len(orders) < MaxOrders
  /\ orders' = Append(orders, Frozen(store, product, base))
  /\ UNCHANGED << rules, now >>

CommissionsNext ==
  \/ \E shape \in Shapes : Configure(shape)
  \/ \E i \in 1 .. Len(rules) : Deactivate(i)
  \/ Tick
  \/ \E store \in Stores, product \in Maybe(Products), base \in Amounts :
       CreateOrder(store, product, base)

CommissionsSpec == CommissionsInit /\ [][CommissionsNext]_ruleVars

-----------------------------------------------------------------------------
\* Store, platform and provider together get the commission, to the cent.
SharesAddUp ==
  \A i \in 1 .. Len(orders) :
    LET s == orders[i].shares IN s[1] + s[2] + s[3] = orders[i].commission
==============================================================================
