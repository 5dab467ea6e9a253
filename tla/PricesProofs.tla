---------------------------- MODULE PricesProofs ----------------------------
(* Proofs about what is charged and what is delivered for it: a split of an  *)
(* amount by largest remainder gives out every cent, for every amount and    *)
(* all weights; a row sold for its provider's price delivers that price; the *)
(* lowest uniform fee pays and the costs of the quotes are what was spent,   *)
(* for any price, contract, commission and mechanism.                        *)
EXTENDS Commissions, Pricing, Feed, FiniteSetTheorems, SequenceTheorems, TLAPS

-----------------------------------------------------------------------------
(* Commissions                                                               *)

LEMMA Division ==
  ASSUME NEW n \in Nat, NEW d \in Nat \ {0}
  PROVE  n = d * (n \div d) + (n % d) /\ n \div d \in Nat /\ n % d \in 0 .. d - 1
  BY SMT

\* The three floors leave no cent, one or two.
LEMMA FewAreLeft ==
  ASSUME NEW a \in Nat, NEW w \in Splits
  PROVE  /\ \A i \in 1 .. 3 : Floor(a, w, i) \in Nat /\ Residue(a, w, i) \in 0 .. Total(w) - 1
         /\ Left(a, w) \in 0 .. 2
<1> DEFINE T == Total(w)
<1> DEFINE p(i) == a * w[i]
<1>1. /\ w[1] \in Nat /\ w[2] \in Nat /\ w[3] \in Nat
      /\ T \in Nat \ {0}
      /\ T = w[1] + w[2] + w[3]
  BY DEF Splits, Total
<1>2. p(1) \in Nat /\ p(2) \in Nat /\ p(3) \in Nat
  BY <1>1, SMT
<1>3. p(1) + p(2) + p(3) = T * a
  BY <1>1, SMT
<1> DEFINE f(i) == p(i) \div T
<1> DEFINE r(i) == p(i) % T
<1>4. \A i \in 1 .. 3 : p(i) = T * f(i) + r(i) /\ f(i) \in Nat /\ r(i) \in 0 .. T - 1
  <2> HIDE DEF T
  <2>1. \A n \in Nat : n = T * (n \div T) + (n % T) /\ n \div T \in Nat /\ n % T \in 0 .. T - 1
    BY <1>1, Division
  <2>2. \A i \in 1 .. 3 : p(i) \in Nat
    BY <1>2
  <2> HIDE DEF p
  <2> QED BY <2>1, <2>2
<1>5. a - (f(1) + f(2) + f(3)) \in 0 .. 2
  <2> DEFINE F == f(1) + f(2) + f(3)
  <2> DEFINE R == r(1) + r(2) + r(3)
  <2>1. T * a = T * f(1) + T * f(2) + T * f(3) + R /\ R \in 0 .. 3 * T - 3 /\ F \in Nat
    <3> HIDE DEF T, p, f, r
    <3> QED BY <1>1, <1>2, <1>3, <1>4
  <2>2. \A x \in Nat, y \in Nat, z \in Nat : T * x + T * y + T * z = T * (x + y + z)
    <3> HIDE DEF T
    <3> QED BY <1>1, SMT
  <2>3. T * a = T * F + R
    <3>1. f(1) \in Nat /\ f(2) \in Nat /\ f(3) \in Nat
      BY <1>4
    <3> HIDE DEF T, f, R
    <3> QED BY <2>1, <2>2, <3>1
  <2>4. \A t \in Nat \ {0} : \A x \in Nat, y \in Nat, z \in 0 .. 3 * t - 3 :
          t * x = t * y + z => x - y \in 0 .. 2
    <3> SUFFICES ASSUME NEW t \in Nat \ {0}, NEW x \in Nat, NEW y \in Nat, NEW z \in 0 .. 3 * t - 3,
                        t * x = t * y + z
                 PROVE  x - y \in 0 .. 2
      OBVIOUS
    <3>1. t * (x - y) = z
      BY SMT
    <3>2. CASE x - y < 0
      <4>1. x - y <= -1
        BY <3>2
      <4>2. t * (x - y) <= -t
        BY <4>1, SMT
      <4> QED BY <3>1, <4>2
    <3>3. CASE x - y > 2
      <4>1. x - y >= 3
        BY <3>3
      <4>2. t * (x - y) >= 3 * t
        BY <4>1, SMT
      <4> QED BY <3>1, <4>2
    <3> QED BY <3>2, <3>3
  <2> HIDE DEF T, F, R
  <2>5. a - F \in 0 .. 2
    BY <1>1, <2>1, <2>3, <2>4
  <2> QED BY <2>5 DEF F
<1>6. \A i \in 1 .. 3 : Floor(a, w, i) = f(i) /\ Residue(a, w, i) = r(i)
  BY DEF Floor, Residue
<1>7. Left(a, w) = a - (f(1) + f(2) + f(3))
  BY <1>6 DEF Left
<1> HIDE DEF f, r, p
<1> QED BY <1>4, <1>5, <1>6, <1>7

\* Parts are ranked without ties, so that as many get a cent as are left.
LEMMA RanksAreAPermutation ==
  ASSUME NEW a \in Nat, NEW w \in Splits
  PROVE  /\ \A i \in 1 .. 3 : Rank(a, w, i) \in 0 .. 2
         /\ \A i, j \in 1 .. 3 : i # j => Rank(a, w, i) # Rank(a, w, j)
<1>1. /\ Residue(a, w, 1) \in Int /\ Residue(a, w, 2) \in Int /\ Residue(a, w, 3) \in Int
  BY FewAreLeft
<1> DEFINE x == Residue(a, w, 1)
<1> DEFINE y == Residue(a, w, 2)
<1> DEFINE z == Residue(a, w, 3)
<1>2. /\ Rank(a, w, 1) = (IF y > x THEN 1 ELSE 0) + (IF z > x THEN 1 ELSE 0)
      /\ Rank(a, w, 2) = (IF x >= y THEN 1 ELSE 0) + (IF z > y THEN 1 ELSE 0)
      /\ Rank(a, w, 3) = (IF x >= z THEN 1 ELSE 0) + (IF y >= z THEN 1 ELSE 0)
  BY <1>1, SMTT(30) DEF Rank, Precedes
<1> HIDE DEF x, y, z
<1>3. x \in Int /\ y \in Int /\ z \in Int
  BY <1>1 DEF x, y, z
<1> QED BY <1>2, <1>3

\* Every cent of an amount is given out, and no share is negative: this is
\* what the assertion at the end of calculate checks for each order.
THEOREM AllocateAddsUp ==
  ASSUME NEW a \in Nat, NEW w \in Splits
  PROVE  /\ Allocate(a, w) \in [1 .. 3 -> Nat]
         /\ Allocate(a, w)[1] + Allocate(a, w)[2] + Allocate(a, w)[3] = a
<1> DEFINE cent(i) == IF Rank(a, w, i) < Left(a, w) THEN 1 ELSE 0
<1>1. \A i \in 1 .. 3 : Allocate(a, w)[i] = Floor(a, w, i) + cent(i) /\ Floor(a, w, i) \in Nat
  BY FewAreLeft DEF Allocate
<1>2. cent(1) + cent(2) + cent(3) = Left(a, w)
  BY FewAreLeft, RanksAreAPermutation
<1>3. Left(a, w) = a - (Floor(a, w, 1) + Floor(a, w, 2) + Floor(a, w, 3))
  BY DEF Left
<1>4. \A i \in 1 .. 3 : cent(i) \in Nat
  OBVIOUS
<1>5. Allocate(a, w) \in [1 .. 3 -> Nat]
  BY FewAreLeft DEF Allocate
<1> HIDE DEF cent
<1> QED BY <1>1, <1>2, <1>3, <1>4, <1>5

LEMMA CommissionIsNat ==
  ASSUME NEW r \in RuleRows, NEW base \in Nat
  PROVE  Commission(r, base) \in Nat
<1>1. /\ r.fixed \in Nat /\ r.percent \in Nat
      /\ r.min \in Nat \cup { Unset } /\ r.max \in Nat \cup { Unset }
  BY DEF RuleRows, Maybe
<1>2. base * r.percent \in Nat
  BY <1>1, SMT
<1>3. \A n \in Nat : HalfUp(n, 100) \in Nat
  BY SMT DEF HalfUp
<1>4. HalfUp(base * r.percent, 100) \in Nat
  BY <1>2, <1>3
<1>5. r.fixed + HalfUp(base * r.percent, 100) \in Nat
  BY <1>1, <1>4
<1> QED BY <1>1, <1>5, Zenon DEF Commission, Clamp

\* Rules are ranked without ties: more specific, of higher priority, newer.
LEMMA RulesAreRanked ==
  ASSUME rules \in Seq(RuleRows)
  PROVE  /\ \A i, j \in 1 .. Len(rules) : i # j => Outranks(i, j) \/ Outranks(j, i)
         /\ \A i \in 1 .. Len(rules) : ~ Outranks(i, i)
         /\ \A i, j, k \in 1 .. Len(rules) : Outranks(i, j) /\ Outranks(j, k) => Outranks(i, k)
<1>1. \A i \in 1 .. Len(rules) : rules[i].priority \in Int
  <2>1. \A i \in 1 .. Len(rules) : rules[i] \in RuleRows
    OBVIOUS
  <2> QED BY <2>1 DEF RuleRows
<1>2. \A i \in 1 .. Len(rules) : Specificity(rules[i]) \in Int
  BY DEF Specificity
<1>3. Len(rules) \in Nat
  OBVIOUS
<1> QED BY <1>1, <1>2, <1>3 DEF Outranks

\* So one of those that apply outranks the others, and resolve_rule finds it.
LEMMA TheBestApplies ==
  ASSUME rules \in Seq(RuleRows), NEW A \in SUBSET (1 .. Len(rules)), A # {}
  PROVE  \E i \in A : \A j \in A \ { i } : Outranks(i, j)
<1> DEFINE Better(i) == { j \in A : Outranks(j, i) }
<1> DEFINE All == { Better(i) : i \in A }
<1>1. IsFiniteSet(A)
  <2>1. Len(rules) \in Nat
    OBVIOUS
  <2>2. IsFiniteSet(1 .. Len(rules))
    BY <2>1, FS_Interval
  <2> QED BY <2>2, FS_Subset
<1>2. All \subseteq FiniteSubsetsOf(A) /\ All # {}
  <2>1. FiniteSubsetsOf(A) = SUBSET A
    BY <1>1, FS_FiniteSubsetsOfFinite
  <2>2. \A i \in A : Better(i) \in SUBSET A
    OBVIOUS
  <2>3. All # {}
    OBVIOUS
  <2> HIDE DEF Better
  <2> QED BY <2>1, <2>2, <2>3
<1>3. PICK best \in All : \A B \in All : ~ (<< B, best >> \in StrictSubsetOrdering(A))
  BY <1>2, FS_StrictSubsetOrderingWellFounded, WFMin, Zenon
<1>4. PICK i \in A : best = Better(i)
  BY <1>3
<1>5. ASSUME NEW j \in A, Outranks(j, i)
      PROVE  FALSE
  <2>1. Better(j) \subseteq Better(i)
    BY <1>4, <1>5, RulesAreRanked
  <2>2. j \in Better(i) /\ j \notin Better(j)
    BY <1>5, RulesAreRanked
  <2>3. << Better(j), Better(i) >> \in StrictSubsetOrdering(A)
    BY <2>1, <2>2 DEF StrictSubsetOrdering
  <2> QED BY <1>3, <1>4, <1>5, <2>3, Zenon
<1> QED BY <1>4, <1>5, RulesAreRanked

LEMMA ResolvedOK ==
  ASSUME rules \in Seq(RuleRows), NEW store, NEW product
  PROVE  Resolve(store, product) \in 0 .. Len(rules)
<1> DEFINE A == Applicable(store, product)
<1>1. A \in SUBSET (1 .. Len(rules)) /\ Len(rules) \in Nat
  BY DEF Applicable
<1>2. CASE A = {}
  BY <1>1, <1>2 DEF Resolve, NoRule
<1>3. CASE A # {}
  <2>1. PICK i \in A : \A j \in A \ { i } : Outranks(i, j)
    BY <1>1, <1>3, TheBestApplies
  <2>2. Resolve(store, product) \in A
    <3> HIDE DEF A
    <3>1. Resolve(store, product) = CHOOSE k \in A : \A j \in A \ { k } : Outranks(k, j)
      BY <1>3 DEF Resolve, A
    <3> QED BY <2>1, <3>1
  <2> QED BY <1>1, <2>2
<1> QED BY <1>2, <1>3

LEMMA FrozenOK ==
  ASSUME rules \in Seq(RuleRows), NEW store \in Stores, NEW product, NEW base \in Nat
  PROVE  LET o == Frozen(store, product, base) IN
         /\ o \in OrderRows
         /\ o.shares[1] + o.shares[2] + o.shares[3] = o.commission
<1> DEFINE i == Resolve(store, product)
<1> DEFINE c == IF i = NoRule THEN 0 ELSE Commission(rules[i], base)
<1> DEFINE shares == IF i = NoRule THEN << 0, 0, 0 >> ELSE Allocate(c, rules[i].split)
<1>1. i \in 0 .. Len(rules) /\ Len(rules) \in Nat
  BY ResolvedOK
<1>2. Frozen(store, product, base) =
        [store |-> store, rule |-> i, commission |-> c, shares |-> shares]
  BY DEF Frozen
<1> HIDE DEF i
<1>3. CASE i = NoRule
  <2>1. shares \in [1 .. 3 -> Nat] /\ c = 0 /\ shares[1] + shares[2] + shares[3] = 0
    BY <1>3
  <2> HIDE DEF c, shares
  <2> QED BY <1>1, <1>2, <2>1 DEF OrderRows
<1>4. CASE i # NoRule
  <2>1. i \in 1 .. Len(rules)
    BY <1>1, <1>4 DEF NoRule
  <2>2. rules[i] \in RuleRows
    BY <2>1
  <2>3. rules[i].split \in Splits
    BY <2>2 DEF RuleRows
  <2>4. c \in Nat
    BY <1>4, <2>2, CommissionIsNat
  <2>5. shares = Allocate(c, rules[i].split)
    BY <1>4
  <2> HIDE DEF c, shares
  <2>6. shares \in [1 .. 3 -> Nat] /\ shares[1] + shares[2] + shares[3] = c
    BY <2>3, <2>4, <2>5, AllocateAddsUp
  <2>7. i \in Nat
    BY <1>1
  <2> QED BY <1>2, <2>4, <2>6, <2>7 DEF OrderRows
<1> QED BY <1>3, <1>4

-----------------------------------------------------------------------------
Inv == CommissionsTypeOK /\ SharesAddUp

LEMMA InitOK == CommissionsInit => Inv
<1> SUFFICES ASSUME CommissionsInit
             PROVE  Inv
  OBVIOUS
<1>1. rules = << >> /\ orders = << >> /\ now = 0 /\ MaxTime \in Nat
  BY CommissionsAssumption DEF CommissionsInit
<1>2. Len(orders) = 0
  BY <1>1
<1> QED BY <1>1, <1>2 DEF Inv, CommissionsTypeOK, SharesAddUp

LEMMA NextOK == Inv /\ [CommissionsNext]_ruleVars => Inv'
<1> SUFFICES ASSUME Inv, [CommissionsNext]_ruleVars
             PROVE  Inv'
  OBVIOUS
<1>0. rules \in Seq(RuleRows) /\ orders \in Seq(OrderRows) /\ now \in 0 .. MaxTime
      /\ MaxTime \in Nat
  BY CommissionsAssumption DEF Inv, CommissionsTypeOK
<1>1. ASSUME NEW shape \in Shapes, Configure(shape)
      PROVE  Inv'
  <2>1. [shape EXCEPT !.from = now] \in RuleRows
    <3>1. shape \in RuleRows /\ now \in Nat
      BY <1>0, CommissionsAssumption
    <3> QED BY <3>1 DEF RuleRows
  <2>2. rules' \in Seq(RuleRows)
    <3>1. rules' = Append(rules, [shape EXCEPT !.from = now])
      BY <1>1 DEF Configure
    <3> QED BY <1>0, <2>1, <3>1
  <2> QED BY <1>0, <1>1, <2>2 DEF Configure, Inv, CommissionsTypeOK, SharesAddUp
<1>2. ASSUME NEW i \in 1 .. Len(rules), Deactivate(i)
      PROVE  Inv'
  <2>1. [rules[i] EXCEPT !.active = FALSE] \in RuleRows
    <3>1. rules[i] \in RuleRows
      BY <1>0
    <3> QED BY <3>1 DEF RuleRows
  <2>2. rules' = [rules EXCEPT ![i] = [rules[i] EXCEPT !.active = FALSE]]
    BY <1>2 DEF Deactivate
  <2>3. rules' \in Seq(RuleRows)
    BY <1>0, <2>1, <2>2
  <2> QED BY <1>0, <1>2, <2>3 DEF Deactivate, Inv, CommissionsTypeOK, SharesAddUp
<1>3. CASE Tick
  BY <1>0, <1>3 DEF Tick, Inv, CommissionsTypeOK, SharesAddUp
<1>4. ASSUME NEW store \in Stores, NEW product \in Maybe(Products), NEW base \in Amounts,
             CreateOrder(store, product, base)
      PROVE  Inv'
  <2> DEFINE o == Frozen(store, product, base)
  <2>1. o \in OrderRows /\ o.shares[1] + o.shares[2] + o.shares[3] = o.commission
    BY <1>0, CommissionsAssumption, FrozenOK
  <2>2. orders' = Append(orders, o) /\ UNCHANGED << rules, now >>
    BY <1>4 DEF CreateOrder
  <2> HIDE DEF o
  <2>3. orders' \in Seq(OrderRows) /\ Len(orders') = Len(orders) + 1 /\ Len(orders) \in Nat
        /\ \A k \in 1 .. Len(orders') :
             orders'[k] = IF k = Len(orders) + 1 THEN o ELSE orders[k]
    BY <1>0, <2>1, <2>2
  <2>4. SharesAddUp'
    BY <2>1, <2>3 DEF Inv, SharesAddUp
  <2> QED BY <1>0, <2>2, <2>3, <2>4 DEF Inv, CommissionsTypeOK
<1>5. CASE UNCHANGED ruleVars
  BY <1>0, <1>5 DEF ruleVars, Inv, CommissionsTypeOK, SharesAddUp
<1> QED BY <1>1, <1>2, <1>3, <1>4, <1>5 DEF CommissionsNext

\* Rules and frozen commissions are well formed whatever is configured.
THEOREM TypeCorrect == CommissionsSpec => []CommissionsTypeOK
<1>1. Inv => CommissionsTypeOK
  BY DEF Inv
<1> QED BY <1>1, InitOK, NextOK, PTL DEF CommissionsSpec

\* No order creates or loses a cent, for any rules, any weights and any base.
THEOREM EveryShareIsPaid == CommissionsSpec => []SharesAddUp
<1>1. Inv => SharesAddUp
  BY DEF Inv
<1> QED BY <1>1, InitOK, NextOK, PTL DEF CommissionsSpec

\* The rule that was applied outranks every other rule that could be.
THEOREM ResolvedIsBest ==
  ASSUME rules \in Seq(RuleRows), NEW store, NEW product, Applicable(store, product) # {}
  PROVE  /\ Resolve(store, product) \in Applicable(store, product)
         /\ \A j \in Applicable(store, product) \ { Resolve(store, product) } :
              Outranks(Resolve(store, product), j)
<1> DEFINE A == Applicable(store, product)
<1>1. A \in SUBSET (1 .. Len(rules))
  BY DEF Applicable
<1>2. PICK i \in A : \A j \in A \ { i } : Outranks(i, j)
  BY <1>1, TheBestApplies
<1>3. Resolve(store, product) = CHOOSE k \in A : \A j \in A \ { k } : Outranks(k, j)
  BY DEF Resolve
<1> HIDE DEF A
<1> QED BY <1>2, <1>3 DEF A

-----------------------------------------------------------------------------
(* Feed: what it guarantees for any rows and any amounts                     *)

Entry  == [low : Nat, high : Nat]
Ticket == [charged : Values, got : Nat, stale : BOOLEAN]

\* Linntae or TAECEL sell a row for what it delivered when it was last read, and
\* a ticket is for what its row delivers, unless it was repriced since.  Nothing
\* without amount or range is on sale.
FeedInv ==
  /\ source \in Sources
  /\ worth \in [Rows -> Values]
  /\ offered \in [Rows -> Entry \cup { Absent }]
  /\ ticket \in [Rows -> Ticket \cup { Absent }]
  /\ \A r \in Rows : source # "reloadly" /\ offered[r] # Absent /\ r \notin repriced =>
       offered[r] = Exactly(worth[r])
  /\ \A r \in Rows : source # "reloadly" /\ ticket[r] # Absent /\ ~ ticket[r].stale =>
       ticket[r].charged = worth[r]

LEMMA ExactlyIsPriced ==
  ASSUME NEW v \in Values
  PROVE  Exactly(v) \in Entry /\ Exactly(v).low = v /\ Exactly(v).high = v
BY FeedAssumption DEF Exactly, Entry

\* What each adapter makes of a row.
LEMMA RowsAreRead ==
  ASSUME NEW r \in Rows, worth[r] \in Values
  PROVE  /\ Product(r) \in Entry \cup { Absent }
         /\ source # "reloadly" => Product(r) \in { Absent, Exactly(worth[r]), Unpriced }
<1>1. Exactly(worth[r]) \in Entry /\ Unpriced \in Entry
  BY ExactlyIsPriced DEF Unpriced, Entry
<1>2. [low |-> Lowest, high |-> Highest] \in Entry
  BY FeedAssumption DEF Entry
<1>3. LinntaeRow(r) \in { Absent, Exactly(worth[r]), Unpriced }
  BY DEF LinntaeRow
<1>4. TaecelRow(r) \in { Absent, Exactly(worth[r]), Unpriced }
  BY DEF TaecelRow
<1>5. ReloadlyRow(r) \in Entry \cup { Absent }
  BY <1>1, <1>2 DEF ReloadlyRow
<1> QED BY <1>1, <1>3, <1>4, <1>5 DEF Product

\* The amount that a row of one amount allows is that amount.
LEMMA AllowedIsWorth ==
  ASSUME NEW v \in Values, NEW amount \in Values, Allows(Exactly(v), amount)
  PROVE  amount = v
<1>1. amount \in Nat /\ v \in Nat
  BY FeedAssumption
<1> QED BY <1>1, ExactlyIsPriced DEF Allows

LEMMA FeedInitial == FeedInit => FeedInv /\ WhatWasPaidArrives
BY DEF FeedInit, FeedInv, WhatWasPaidArrives

\* A reading that the database takes leaves on sale what it wrote, and one that
\* it refuses leaves what there was.
LEMMA FeedRead == ASSUME FeedInv, WhatWasPaidArrives, Read PROVE FeedInv' /\ WhatWasPaidArrives'
<1>1. CASE Refused
  BY <1>1 DEF Read, FeedInv, WhatWasPaidArrives, Exactly
<1>2. CASE ~ Refused
  <2>1. offered' = [r \in Rows |-> Product(r)] /\ UNCHANGED << source, worth, ticket >>
    BY <1>2 DEF Read
  <2>2. ASSUME NEW r \in Rows
        PROVE  /\ offered'[r] \in Entry \cup { Absent }
               /\ source # "reloadly" /\ offered'[r] # Absent => offered'[r] = Exactly(worth[r])
    <3>1. worth[r] \in Values /\ Product(r) # Unpriced
      BY <1>2 DEF FeedInv, Refused
    <3> QED BY <2>1, <3>1, RowsAreRead
  <2>3. offered' \in [Rows -> Entry \cup { Absent }]
    BY <2>1, <2>2
  <2> QED BY <2>1, <2>2, <2>3 DEF FeedInv, WhatWasPaidArrives, Exactly
<1> QED BY <1>1, <1>2

\* A record with another stale, spelled out.
LEMMA Marked ==
  ASSUME NEW e \in Ticket, NEW b
  PROVE  [e EXCEPT !.stale = b] = [charged |-> e.charged, got |-> e.got, stale |-> b]
BY DEF Ticket

LEMMA FeedReprice ==
  ASSUME FeedInv, WhatWasPaidArrives, NEW r \in Rows, NEW v \in Values, Reprice(r, v)
  PROVE  FeedInv' /\ WhatWasPaidArrives'
<1>1. /\ worth' = [worth EXCEPT ![r] = v] /\ repriced' = repriced \cup { r }
      /\ UNCHANGED << source, offered >>
  BY DEF Reprice
<1>2. \A q \in Rows : q # r => ticket'[q] = ticket[q] /\ worth'[q] = worth[q]
  BY <1>1 DEF Reprice, FeedInv
<1> DEFINE t == [charged |-> ticket[r].charged, got |-> ticket[r].got, stale |-> TRUE]
<1>3. \/ ticket[r] = Absent /\ ticket' = ticket
      \/ /\ ticket[r] # Absent /\ t \in Ticket
         /\ ticket' = [ticket EXCEPT ![r] = t]
  <2>1. CASE ticket[r] = Absent
    BY <2>1 DEF Reprice
  <2>2. CASE ticket[r] # Absent
    <3>1. ticket[r] \in Ticket
      BY <2>2 DEF FeedInv
    <3>2. t \in Ticket
      <4>1. ticket[r].charged \in Values /\ ticket[r].got \in Nat
        BY <3>1 DEF Ticket
      <4> QED BY <4>1 DEF Ticket
    <3>4. [ticket[r] EXCEPT !.stale = TRUE] = t
      BY <3>1, Marked
    <3>3. ticket' = [ticket EXCEPT ![r] = [ticket[r] EXCEPT !.stale = TRUE]]
      BY <2>2 DEF Reprice
    <3> QED BY <2>2, <3>2, <3>3, <3>4
  <2> QED BY <2>1, <2>2
<1>4. t.stale /\ t.got = ticket[r].got /\ t.charged = ticket[r].charged
  OBVIOUS
<1> HIDE DEF t
<1>5. /\ ticket' \in [Rows -> Ticket \cup { Absent }]
      /\ ticket'[r] # Absent => /\ ticket'[r].stale /\ ticket'[r].got = ticket[r].got
                                /\ ticket'[r].charged = ticket[r].charged /\ ticket[r] # Absent
  <2>1. ticket \in [Rows -> Ticket \cup { Absent }]
    BY DEF FeedInv
  <2> QED BY <1>3, <1>4, <2>1
<1>6. worth' \in [Rows -> Values]
  BY <1>1 DEF FeedInv
<1>7. FeedInv'
  BY <1>1, <1>2, <1>5, <1>6 DEF FeedInv, Exactly
<1>8. WhatWasPaidArrives'
  BY <1>1, <1>2, <1>5 DEF WhatWasPaidArrives
<1> QED BY <1>7, <1>8

LEMMA FeedSell ==
  ASSUME FeedInv, WhatWasPaidArrives, NEW r \in Rows, NEW v \in Values, SellRow(r, v)
  PROVE  FeedInv' /\ WhatWasPaidArrives'
<1> DEFINE t == [charged |-> v, got |-> 0, stale |-> r \in repriced]
<1>1. /\ t \in Ticket /\ ticket' = [ticket EXCEPT ![r] = t]
      /\ UNCHANGED << source, worth, offered, repriced >>
  BY DEF SellRow, Ticket
<1>2. t.got = 0 /\ t.charged = v /\ (~ t.stale => r \notin repriced)
  OBVIOUS
<1>3. source # "reloadly" /\ ~ t.stale => t.charged = worth[r]
  <2> SUFFICES ASSUME source # "reloadly", r \notin repriced PROVE v = worth[r]
    BY <1>2
  <2>1. offered[r] = Exactly(worth[r]) /\ worth[r] \in Values
    BY DEF SellRow, FeedInv
  <2> QED BY <2>1, AllowedIsWorth DEF SellRow
<1> HIDE DEF t
<1>4. ticket' \in [Rows -> Ticket \cup { Absent }]
  BY <1>1 DEF FeedInv
<1>5. ticket'[r] = t /\ \A q \in Rows : q # r => ticket'[q] = ticket[q]
  BY <1>1 DEF FeedInv
<1>6. FeedInv'
  BY <1>1, <1>3, <1>4, <1>5 DEF FeedInv, Exactly
<1>7. WhatWasPaidArrives'
  BY <1>1, <1>2, <1>5 DEF WhatWasPaidArrives
<1> QED BY <1>6, <1>7

LEMMA FeedDeliver ==
  ASSUME FeedInv, WhatWasPaidArrives, NEW r \in Rows, NEW v \in Values, Deliver(r, v)
  PROVE  FeedInv' /\ WhatWasPaidArrives'
<1>1. ticket[r] \in Ticket /\ v \in Nat
  BY FeedAssumption DEF Deliver, FeedInv
<1> DEFINE t == [charged |-> ticket[r].charged, got |-> v, stale |-> ticket[r].stale]
<1>2. /\ t \in Ticket /\ ticket' = [ticket EXCEPT ![r] = t]
      /\ UNCHANGED << source, worth, offered, repriced >>
  <2>1. t \in Ticket /\ [ticket[r] EXCEPT !.got = v] = t
    BY <1>1 DEF Ticket
  <2>2. ticket' = [ticket EXCEPT ![r] = [ticket[r] EXCEPT !.got = v]]
    BY DEF Deliver
  <2> QED BY <2>1, <2>2 DEF Deliver
<1>3. t.got = v /\ t.charged = ticket[r].charged /\ t.stale = ticket[r].stale
  OBVIOUS
<1>4. v = ticket[r].charged \/ (source # "reloadly" /\ ticket[r].stale)
  <2>1. source # "reloadly" /\ ~ ticket[r].stale => ticket[r].charged = worth[r]
    BY DEF Deliver, FeedInv
  <2>2. v = ticket[r].charged \/ (source # "reloadly" /\ v = worth[r])
    BY DEF Deliver, Asked
  <2>3. ticket[r].stale \in BOOLEAN
    BY <1>1 DEF Ticket
  <2> QED BY <2>1, <2>2, <2>3
<1> HIDE DEF t
<1>5. ticket' \in [Rows -> Ticket \cup { Absent }]
  BY <1>2 DEF FeedInv
<1>6. ticket'[r] = t /\ ticket[r] # Absent /\ \A q \in Rows : q # r => ticket'[q] = ticket[q]
  BY <1>2 DEF Deliver, FeedInv
<1>7. FeedInv'
  BY <1>2, <1>3, <1>5, <1>6 DEF FeedInv, Exactly
<1>8. WhatWasPaidArrives'
  BY <1>2, <1>3, <1>4, <1>6 DEF WhatWasPaidArrives
<1> QED BY <1>7, <1>8

LEMMA FeedStep ==
  FeedInv /\ WhatWasPaidArrives /\ [FeedNext]_feedVars => FeedInv' /\ WhatWasPaidArrives'
<1> SUFFICES ASSUME FeedInv, WhatWasPaidArrives, [FeedNext]_feedVars
             PROVE  FeedInv' /\ WhatWasPaidArrives'
  OBVIOUS
<1>1. ASSUME NEW r \in Rows, NEW how \in Writings, Rewrite(r, how)
      PROVE  FeedInv' /\ WhatWasPaidArrives'
  BY <1>1 DEF Rewrite, FeedInv, WhatWasPaidArrives, Exactly
<1>2. ASSUME UNCHANGED feedVars PROVE FeedInv' /\ WhatWasPaidArrives'
  BY <1>2 DEF feedVars, FeedInv, WhatWasPaidArrives, Exactly
<1> QED BY <1>1, <1>2, FeedRead, FeedReprice, FeedSell, FeedDeliver DEF FeedNext

\* For any rows and prices and however a provider writes, reprices and drops its
\* rows, and whichever readings the database refuses: what a customer is charged
\* is what arrives, unless Linntae or TAECEL repriced the row after it was last
\* read (sync_catalog, validate_amount and the three requests).
THEOREM PriceArrives == FeedSpec => []WhatWasPaidArrives
BY FeedInitial, FeedStep, PTL DEF FeedSpec

-----------------------------------------------------------------------------
(* Pricing: the lowest uniform fee                                           *)

\* Ceil is the ceiling, of negative numbers as well.
LEMMA CeilBounds ==
  ASSUME NEW n \in Int, NEW d \in Nat \ { 0 }
  PROVE  /\ Ceil(n, d) \in Int
         /\ d * Ceil(n, d) >= n
         /\ d * Ceil(n, d) <= n + d - 1
<1> DEFINE q == (-n) \div d
           m == d * q
           z == (-n) % d
<1>1. q \in Int /\ -n = d * q + z /\ z \in 0 .. d - 1
  BY SMT
<1>2. d * (-q) = -(d * q) /\ m \in Int
  BY <1>1, SMT
<1>3. -m >= n /\ -m <= n + d - 1
  <2>1. -n = m + z /\ z \in 0 .. d - 1
    BY <1>1
  <2> HIDE DEF q, m, z
  <2> QED BY <1>2, <2>1
<1> QED BY <1>1, <1>2, <1>3 DEF Ceil

\* A product keeps the order of its factors.
LEMMA Scale ==
  ASSUME NEW k \in Nat, NEW a \in Int, NEW b \in Int, a <= b
  PROVE  k * a <= k * b /\ k * a \in Int /\ k * b \in Int
BY SMT

LEMMA Unscale ==
  ASSUME NEW k \in Nat \ { 0 }, NEW a \in Int, NEW b \in Int, k * a <= k * b
  PROVE  a <= b
<1>1. CASE b < a
  <2>1. k * (b + 1) <= k * a
    BY <1>1, Scale
  <2>2. k * (b + 1) = k * b + k /\ k * a \in Int /\ k * b \in Int
    BY SMT
  <2> QED BY <2>1, <2>2
<1> QED BY <1>1

LEMMA CeilOfNat ==
  ASSUME NEW n \in Nat, NEW d \in Nat \ { 0 }
  PROVE  Ceil(n, d) \in Nat
<1>1. n \in Int /\ d * 0 = 0
  BY SMT
<1>2. Ceil(n, d) \in Int /\ d * Ceil(n, d) >= n
  BY <1>1, CeilBounds
<1> DEFINE c == Ceil(n, d)
<1> HIDE DEF c
<1>3. c \in Int /\ d * c >= n
  BY <1>2 DEF c
<1>4. d * 0 <= d * c
  <2>1. d * c \in Int
    BY <1>3, SMT
  <2> QED BY <1>1, <1>3, <2>1
<1>5. 0 <= c
  BY <1>3, <1>4, Unscale
<1> QED BY <1>3, <1>5 DEF c

\* The gateway's cost is never below the contract's two percentages, exactly.
LEMMA GatewayAtLeast ==
  ASSUME Base \in Nat \ { 0 },
         NEW t, t.percent \in Nat, t.fixed \in Nat, t.vat \in Nat, NEW x \in Nat
  PROVE  /\ GatewayCost(t, x) \in Nat
         /\ (x * t.percent + t.fixed * Base) * (Base + t.vat) <= Base * (Base * GatewayCost(t, x))
<1> DEFINE a == x * t.percent
           c == Ceil(a, Base)
           s == c + t.fixed
           b == s * t.vat
           e == Ceil(b, Base)
           k == Base + t.vat
<1>1. a \in Nat /\ k \in Nat
  BY SMT
<1>2. c \in Nat /\ a <= Base * c
  <2> HIDE DEF a
  <2>1. a \in Int /\ Base \in Nat \ { 0 }
    BY <1>1
  <2>2. Ceil(a, Base) \in Nat /\ Base * Ceil(a, Base) >= a
    BY <1>1, <2>1, CeilBounds, CeilOfNat
  <2>3. Base * c \in Int
    BY <2>2, SMT
  <2> QED BY <2>1, <2>2, <2>3
<1>3. s \in Nat
  BY <1>2
<1>4. b \in Nat
  BY <1>3, SMT
<1>5. e \in Nat /\ b <= Base * e
  <2> HIDE DEF b
  <2>1. b \in Int /\ Base \in Nat \ { 0 }
    BY <1>4
  <2>2. Ceil(b, Base) \in Nat /\ Base * Ceil(b, Base) >= b
    BY <1>4, <2>1, CeilBounds, CeilOfNat
  <2>3. Base * e \in Int
    BY <2>2, SMT
  <2> QED BY <2>1, <2>2, <2>3
<1>6. GatewayCost(t, x) = s + e
  BY DEF GatewayCost
<1>7. a + t.fixed * Base <= Base * s
  <2> HIDE DEF a, c
  <2>1. Base * (c + t.fixed) = Base * c + t.fixed * Base /\ Base * c \in Int /\ t.fixed * Base \in Int
    BY <1>2, SMT
  <2> QED BY <1>1, <1>2, <2>1
<1>8. s * k <= Base * (s + e)
  <2> HIDE DEF c, s, e
  <2>1. s * (Base + t.vat) = Base * s + s * t.vat /\ Base * (s + e) = Base * s + Base * e
        /\ Base * s \in Int /\ Base * e \in Int
    BY <1>3, <1>5, SMT
  <2> QED BY <1>4, <1>5, <2>1
<1>9. (a + t.fixed * Base) * k <= Base * (Base * (s + e))
  <2> HIDE DEF a, c, s, e, k
  <2>0. t.fixed * Base \in Nat /\ Base * s \in Nat /\ s * k \in Nat /\ Base * (s + e) \in Nat
    BY <1>1, <1>3, <1>5, SMT
  <2> DEFINE l == a + t.fixed * Base
             u == Base * s
  <2>1. l \in Nat /\ u \in Nat /\ l <= u
    BY <1>1, <1>7, <2>0
  <2>2. k * l <= k * u /\ k * l = l * k
    <3> HIDE DEF l, u
    <3>1. k * l = l * k
      BY <1>1, <2>1, SMT
    <3> QED BY <1>1, <2>1, <3>1, Scale
  <2>3. k * u = Base * (s * k)
    BY <1>1, <1>3, SMT
  <2>4. Base * (s * k) <= Base * (Base * (s + e))
    <3> DEFINE g == s * k
               h == Base * (s + e)
    <3>1. g \in Nat /\ h \in Nat /\ g <= h
      BY <1>8, <2>0
    <3> HIDE DEF g, h
    <3>2. Base * g <= Base * h
      BY <3>1, Scale
    <3> QED BY <3>2 DEF g, h
  <2>5. k * l \in Int /\ k * u \in Int /\ Base * (Base * (s + e)) \in Int
    <3>1. k * l \in Int /\ k * u \in Int
      <4> HIDE DEF l, u
      <4> QED BY <1>1, <2>1, SMT
    <3>2. Base * (Base * (s + e)) \in Int
      BY <2>0, SMT
    <3> QED BY <3>1, <3>2
  <2> HIDE DEF l, u
  <2>6. l * k <= Base * (Base * (s + e))
    BY <2>2, <2>3, <2>4, <2>5
  <2> QED BY <2>6 DEF l
<1> QED BY <1>3, <1>5, <1>6, <1>9

\* Below what the algebra gives, a card always loses.
LEMMA SeedIsLow ==
  ASSUME Base \in Nat \ { 0 },
         NEW t, t.percent \in Nat, t.fixed \in Nat, t.vat \in Nat,
         t.percent * (Base + t.vat) < Base * Base,
         NEW cost \in Int, NEW x \in Nat, x < Seed(t, cost)
  PROVE  x - GatewayCost(t, x) < cost
<1> DEFINE k == Base + t.vat
           d == Base * Base - t.percent * k
           n == (t.fixed * k + cost * Base) * Base
           g == GatewayCost(t, x)
           y == Base * (Base * cost)
           w == x * t.percent * k
           u == t.fixed * Base * k
           z == Ceil(n, d)
<1>1. k \in Nat /\ t.percent * k \in Nat /\ Base * Base \in Nat /\ d \in Nat \ { 0 }
  <2>1. k \in Nat
    OBVIOUS
  <2>2. t.percent * k \in Nat /\ Base * Base \in Nat
    <3> HIDE DEF k
    <3> QED BY <2>1, SMT
  <2> QED BY <2>1, <2>2
<1>2. n \in Int /\ y \in Int /\ w \in Int /\ u \in Int
  <2> HIDE DEF k
  <2> QED BY <1>1, SMT
<1>3. n = u + y
  <2> HIDE DEF k
  <2> QED BY <1>1, SMT
<1>4. d * x = Base * (Base * x) - w /\ Base * (Base * x) \in Int
  <2> HIDE DEF k
  <2> QED BY <1>1, SMT
<1>5. d * x <= u + y - 1
  <2> HIDE DEF n, d
  <2>1. z \in Int /\ d * z <= n + d - 1
    BY <1>1, <1>2, CeilBounds
  <2>2. x + 1 <= z
    <3>1. Seed(t, cost) = z
      BY DEF Seed, n, d
    <3> HIDE DEF z
    <3> QED BY <2>1, <3>1
  <2> HIDE DEF z
  <2>3. d * (x + 1) <= d * z /\ d * (x + 1) = d * x + d /\ d * z \in Int /\ d * x \in Int
    <3>1. d * (x + 1) <= d * z
      BY <1>1, <2>1, <2>2, Scale
    <3> QED BY <1>1, <2>1, <3>1, SMT
  <2> HIDE DEF u, y
  <2> QED BY <1>1, <1>2, <1>3, <2>1, <2>3
<1>6. g \in Nat /\ u + w <= Base * (Base * g)
  <2>1. g \in Nat /\ (x * t.percent + t.fixed * Base) * k <= Base * (Base * g)
    BY GatewayAtLeast
  <2> HIDE DEF k, g
  <2>2. (x * t.percent + t.fixed * Base) * k = u + w
    BY <1>1, SMT
  <2> QED BY <2>1, <2>2
<1>7. ASSUME cost <= x - g PROVE FALSE
  <2> HIDE DEF g
  <2>1. Base * (cost + g) <= Base * x /\ Base * (cost + g) \in Int /\ Base * x \in Int
    BY <1>6, <1>7, Scale
  <2>2. Base * (Base * (cost + g)) <= Base * (Base * x)
    BY <2>1, Scale
  <2>3. Base * (Base * (cost + g)) = y + Base * (Base * g) /\ Base * (Base * g) \in Int
    BY <1>6, SMT
  <2> DEFINE gg == Base * (Base * g)
             xx == Base * (Base * x)
             dx == d * x
  <2>4. /\ y + gg <= xx /\ gg \in Int /\ xx \in Int /\ dx = xx - w /\ dx <= u + y - 1
        /\ u + w <= gg
    BY <1>4, <1>5, <1>6, <2>2, <2>3
  <2> HIDE DEF gg, xx, dx, u, w, y
  <2> QED BY <1>2, <2>4
<1>8. g \in Int /\ (x - g < cost \/ cost <= x - g)
  <2>1. g \in Nat
    BY <1>6
  <2> HIDE DEF g
  <2> QED BY <2>1
<1> QED BY <1>7, <1>8

\* What cuota_minima_uniforme returns covers the sale, and one cent less does
\* not: either it was tried, or the algebra says so.
LEMMA FeeIsLowest ==
  ASSUME Base \in Nat \ { 0 }, Tries \in Nat \ { 0 },
         NEW t, t.percent \in Nat, t.fixed \in Nat, t.vat \in Nat,
         t.percent * (Base + t.vat) < Base * Base,
         NEW price \in Nat, NEW cost \in Int, FeeFrom(t, price, cost) # Unknown
  PROVE  LET m == FeeFrom(t, price, cost) IN
         /\ m \in Nat
         /\ price + m - GatewayCost(t, price + m) - cost >= 0
         /\ m > 0 => price + (m - 1) - GatewayCost(t, price + (m - 1)) - cost < 0
<1> DEFINE first == IF Seed(t, cost) - price > 2 THEN Seed(t, cost) - price - 2 ELSE 0
           Covers(fee) == price + fee - GatewayCost(t, price + fee) - cost >= 0
           fees == { fee \in first .. first + Tries - 1 :
                       Covers(fee) /\ \A lower \in first .. fee - 1 : ~ Covers(lower) }
           m == FeeFrom(t, price, cost)
<1>1. m \in fees
  <2>1. m = IF fees = {} THEN Unknown ELSE CHOOSE fee \in fees : TRUE
    BY DEF FeeFrom
  <2> HIDE DEF m, fees
  <2> QED BY <2>1 DEF m
<1>2. Seed(t, cost) \in Int
  <2> DEFINE k == Base + t.vat
             d == Base * Base - t.percent * k
             n == (t.fixed * k + cost * Base) * Base
  <2>1. k \in Nat
    OBVIOUS
  <2>2. t.percent * k \in Nat /\ Base * Base \in Nat /\ n \in Int
    <3> HIDE DEF k
    <3> QED BY <2>1, SMT
  <2>3. d \in Nat \ { 0 }
    BY <2>2
  <2>4. Seed(t, cost) = Ceil(n, d)
    BY DEF Seed
  <2> HIDE DEF n, d
  <2> QED BY <2>2, <2>3, <2>4, CeilBounds
<1>3. first \in Nat /\ (first > 0 => price + first < Seed(t, cost))
  BY <1>2
<1>4. m \in Nat /\ m >= first /\ Covers(m)
  <2> HIDE DEF m, first, Covers
  <2> QED BY <1>1, <1>3
<1>5. CASE m > first
  <2>1. m - 1 \in first .. m - 1 /\ m - 1 \in Nat
    <3> HIDE DEF m, first, Covers
    <3> QED BY <1>3, <1>4, <1>5
  <2>2. ~ Covers(m - 1)
    <3> HIDE DEF m, first, Covers
    <3> QED BY <1>1, <2>1
  <2>3. GatewayCost(t, price + (m - 1)) \in Nat
    <3> HIDE DEF m
    <3>1. price + (m - 1) \in Nat
      BY <2>1
    <3> QED BY <3>1, GatewayAtLeast
  <2> HIDE DEF m
  <2> QED BY <1>4, <2>1, <2>2, <2>3 DEF m
<1>6. CASE m = first
  <2>1. CASE m = 0
    BY <1>4, <2>1
  <2>2. CASE m > 0
    <3> DEFINE x == price + (m - 1)
    <3>1. x \in Nat /\ x < Seed(t, cost)
      <4> HIDE DEF m, first
      <4> QED BY <1>2, <1>3, <1>4, <1>6, <2>2
    <3> HIDE DEF x
    <3>2. x - GatewayCost(t, x) < cost /\ GatewayCost(t, x) \in Nat
      BY <3>1, SeedIsLow, GatewayAtLeast
    <3>3. x - GatewayCost(t, x) - cost < 0
      BY <3>1, <3>2
    <3>4. price + (m - 1) - GatewayCost(t, price + (m - 1)) - cost < 0
      <4> DEFINE g == GatewayCost(t, x)
      <4>1. g \in Nat /\ x - g - cost < 0 /\ m \in Nat
        BY <1>4, <3>2, <3>3
      <4> HIDE DEF g, m
      <4>2. price + (m - 1) - g - cost < 0
        BY <4>1 DEF x
      <4> QED BY <4>2 DEF g, x
    <3> HIDE DEF m
    <3> QED BY <1>4, <3>4 DEF m
  <2> QED BY <1>4, <2>1, <2>2
<1>7. m > first \/ m = first
  <2> HIDE DEF m, first
  <2> QED BY <1>3, <1>4
<1> QED BY <1>5, <1>6, <1>7

LEMMA CashIsFree ==
  ASSUME Base \in Nat \ { 0 }, NEW x \in Nat
  PROVE  GatewayCost(NoGateway, x) = 0
<1>1. Ceil(0, Base) = 0
  BY SMT DEF Ceil
<1>2. x * 0 = 0 /\ 0 * 0 = 0
  BY SMT
<1> QED BY <1>1, <1>2 DEF GatewayCost, NoGateway

PricingTypes ==
  /\ rate \in Rates \cup { Unknown } /\ mechanism \in Mechanisms /\ tariff \in Tariffs
  /\ balance \in Int /\ cash \in Nat /\ costs \in Int /\ deposits \in Nat /\ sales \in Nat

LEMMA CostIsKnown ==
  ASSUME PricingAssumption, PricingTypes, Determined(rate, mechanism), NEW face \in Nat
  PROVE  rate \in 0 .. Base - 1 /\ ProviderCost(rate, mechanism, face) \in Int
<1>1. rate \in 0 .. Base - 1 /\ Base \in Nat \ { 0 }
  BY PricingAssumption DEF PricingTypes, Determined
<1>2. face * Base \in Nat /\ Base + rate \in Nat \ { 0 } /\ (face * rate) \div Base \in Int
  <2>1. face * rate \in Int /\ face * Base \in Nat
    BY <1>1, SMT
  <2> DEFINE z == face * rate
  <2> HIDE DEF z
  <2>2. z \div Base \in Int
    BY <1>1, <2>1, SMT DEF z
  <2> QED BY <1>1, <2>1, <2>2 DEF z
<1>3. Ceil(face * Base, Base + rate) \in Nat
  <2> DEFINE z == face * Base
             k == Base + rate
  <2>1. z \in Nat /\ k \in Nat \ { 0 }
    BY <1>2
  <2> HIDE DEF z, k
  <2>2. Ceil(z, k) \in Nat
    BY <2>1, CeilOfNat
  <2> QED BY <2>2 DEF z, k
<1>4. mechanism \in { "BONO_AL_FONDEAR", "COMISION_ACREDITADA_APARTE", "DESCUENTO_POR_TRANSACCION" }
  BY DEF PricingTypes, Determined, Mechanisms
<1> HIDE DEF Ceil
<1> QED BY <1>1, <1>2, <1>3, <1>4 DEF ProviderCost

LEMMA FeesPay == PricingAssumption /\ PricingTypes => MinimumFeePays
<1> SUFFICES ASSUME PricingAssumption, PricingTypes, NEW price \in Prices,
                    MinimumFee(price) # Unknown
             PROVE  LET m == MinimumFee(price) IN
                    /\ m > 0 => \A method \in Methods :
                                  Quote(price, method, "CUOTA_UNIFORME", m).margin >= 0
                    /\ m > 0 => Quote(price, "TARJETA", "CUOTA_UNIFORME", m - 1).margin < 0
                    /\ m = 0 => Quote(price, "TARJETA", "ABSORBER", 0).margin >= 0
  BY DEF MinimumFeePays
<1> DEFINE cost == ProviderCost(rate, mechanism, price)
           m == MinimumFee(price)
           G(x) == GatewayCost(tariff, x)
<1>1. /\ Base \in Nat \ { 0 } /\ Tries \in Nat \ { 0 } /\ Unknown \notin Int /\ price \in Nat
      /\ tariff.percent \in Nat /\ tariff.fixed \in Nat /\ tariff.vat \in Nat
      /\ tariff.percent * (Base + tariff.vat) < Base * Base
  BY PricingAssumption DEF PricingTypes
<1>2. cost # Unknown /\ m = FeeFrom(tariff, price, cost)
  BY DEF MinimumFee
<1>3. Determined(rate, mechanism)
  BY <1>2 DEF ProviderCost
<1>4. cost \in Int
  BY <1>1, <1>3, CostIsKnown
<1> HIDE DEF cost
<1>5. /\ m \in Nat
      /\ price + m - G(price + m) - cost >= 0
      /\ m > 0 => price + (m - 1) - G(price + (m - 1)) - cost < 0
  BY <1>1, <1>2, <1>4, FeeIsLowest
<1> HIDE DEF m
<1>6. G(price + m) \in Nat /\ GatewayCost(NoGateway, price + m) = 0
  <2>1. price + m \in Nat
    BY <1>1, <1>5
  <2> QED BY <1>1, <2>1, GatewayAtLeast, CashIsFree
<1>7. ASSUME NEW fee
      PROVE  /\ Quote(price, "EFECTIVO", "CUOTA_UNIFORME", fee).margin =
                  (price + fee) - GatewayCost(NoGateway, price + fee) - cost
             /\ Quote(price, "TARJETA", "CUOTA_UNIFORME", fee).margin = (price + fee) - G(price + fee) - cost
             /\ Quote(price, "TARJETA", "ABSORBER", 0).margin = (price + 0) - G(price + 0) - cost
  BY <1>2 DEF Quote, Margin, cost
<1>8. ASSUME m > 0, NEW method \in Methods
      PROVE  Quote(price, method, "CUOTA_UNIFORME", m).margin >= 0
  <2>1. CASE method = "EFECTIVO"
    <3>1. Quote(price, method, "CUOTA_UNIFORME", m).margin =
            (price + m) - GatewayCost(NoGateway, price + m) - cost
      BY <1>7, <2>1
    <3> HIDE DEF G
    <3> QED BY <1>1, <1>4, <1>5, <1>6, <3>1 DEF G
  <2>2. CASE method = "TARJETA"
    <3>1. Quote(price, method, "CUOTA_UNIFORME", m).margin = (price + m) - G(price + m) - cost
      BY <1>7, <2>2
    <3> HIDE DEF G
    <3> QED BY <1>1, <1>4, <1>5, <1>6, <3>1
  <2> QED BY <1>8, <2>1, <2>2 DEF Methods
<1>9. ASSUME m > 0 PROVE Quote(price, "TARJETA", "CUOTA_UNIFORME", m - 1).margin < 0
  <2>1. Quote(price, "TARJETA", "CUOTA_UNIFORME", m - 1).margin
          = (price + (m - 1)) - G(price + (m - 1)) - cost
    BY <1>7
  <2>2. G(price + (m - 1)) \in Nat
    <3>1. price + (m - 1) \in Nat
      BY <1>1, <1>5, <1>9
    <3> QED BY <1>1, <3>1, GatewayAtLeast
  <2> HIDE DEF G
  <2> QED BY <1>1, <1>4, <1>5, <1>9, <2>1, <2>2
<1>10. ASSUME m = 0 PROVE Quote(price, "TARJETA", "ABSORBER", 0).margin >= 0
  <2>1. Quote(price, "TARJETA", "ABSORBER", 0).margin = (price + 0) - G(price + 0) - cost
    BY <1>7
  <2>2. price + m = price /\ price + 0 = price
    BY <1>1, <1>10
  <2> HIDE DEF G
  <2> QED BY <1>1, <1>4, <1>5, <1>6, <1>10, <2>1, <2>2
<1> QED BY <1>8, <1>9, <1>10 DEF m

-----------------------------------------------------------------------------
(* Pricing: the books                                                        *)

\* What the provider's balance and the costs are worth, times 100% and the
\* bonus, so that nothing is rounded: a deposit may lose less than a cent of
\* the balance and a sale add less than a cent of cost.
Worth == (Base + rate) * costs + Base * balance
BonusBooks ==
  /\ (Base + rate) * cash <= Worth + Base * deposits
  /\ Worth <= (Base + rate) * cash + (Base + rate) * sales

\* Without a bonus what a sale costs is what it takes, to the cent.
BooksInv ==
  /\ PricingTypes
  /\ Determined(rate, mechanism) =>
       IF mechanism = "BONO_AL_FONDEAR" THEN BonusBooks ELSE costs + balance = cash

LEMMA BooksInit == PricingAssumption /\ PricingInit => BooksInv
<1> SUFFICES ASSUME PricingAssumption, PricingInit PROVE BooksInv
  OBVIOUS
<1>1. PricingTypes
  BY DEF PricingInit, PricingTypes
<1>2. costs + balance = cash
  BY DEF PricingInit
<1>3. ASSUME Determined(rate, mechanism) PROVE BonusBooks
  <2>1. rate \in 0 .. Base - 1 /\ Base \in Nat
    BY <1>1, <1>3 DEF PricingTypes, Determined, PricingAssumption
  <2> DEFINE k == Base + rate
  <2>2. k \in Nat
    BY <2>1
  <2>3. k * 0 = 0 /\ Base * 0 = 0
    <3> HIDE DEF k
    <3> QED BY <2>1, <2>2, SMT
  <2> QED BY <2>3 DEF PricingInit, BonusBooks, Worth
<1> QED BY <1>1, <1>2, <1>3 DEF BooksInv

LEMMA BooksDeposit ==
  ASSUME PricingAssumption, BooksInv, NEW e \in Deposits, Deposit(e)
  PROVE  BooksInv'
<1> DEFINE credit == IF Determined(rate, mechanism) THEN BalanceFor(rate, mechanism, e) ELSE e
           k == Base + rate
           fl == (e * rate) \div Base
<1>1. /\ deposits' = deposits + 1 /\ cash' = cash + e /\ balance' = balance + credit
      /\ UNCHANGED << rate, mechanism, tariff, costs, sales >>
  BY DEF Deposit
<1>2. e \in Nat /\ Base \in Nat \ { 0 } /\ PricingTypes
  BY DEF PricingAssumption, BooksInv
<1>3. Determined(rate, mechanism) =>
        /\ rate \in 0 .. Base - 1 /\ e * rate \in Nat
        /\ fl \in Nat /\ Base * fl <= e * rate /\ e * rate <= Base * fl + Base
  <2> SUFFICES ASSUME Determined(rate, mechanism)
               PROVE  /\ rate \in 0 .. Base - 1 /\ e * rate \in Nat
                      /\ fl \in Nat /\ Base * fl <= e * rate /\ e * rate <= Base * fl + Base
    OBVIOUS
  <2>1. rate \in 0 .. Base - 1
    BY <1>2, PricingAssumption, CostIsKnown
  <2>2. e * rate \in Nat
    BY <1>2, <2>1, SMT
  <2> DEFINE z == e * rate
  <2> HIDE DEF z
  <2>3. z \in Nat
    BY <2>2 DEF z
  <2>4. /\ z = Base * (z \div Base) + (z % Base) /\ z \div Base \in Nat /\ z % Base \in 0 .. Base - 1
    BY <1>2, <2>3, Division
  <2> DEFINE y == z \div Base
             x == z % Base
  <2>5. Base * y \in Int
    <3> HIDE DEF y
    <3> QED BY <1>2, <2>4, SMT DEF y
  <2>6. Base * y <= z /\ z <= Base * y + Base
    <3> DEFINE w == Base * y
    <3>1. z = w + x /\ w \in Int /\ x \in 0 .. Base - 1
      BY <2>4, <2>5
    <3> HIDE DEF x, w
    <3>2. w <= z /\ z <= w + Base
      BY <1>2, <2>3, <3>1
    <3> QED BY <3>2 DEF w
  <2> HIDE DEF y
  <2>7. y \in Nat
    BY <2>4 DEF y
  <2> QED BY <2>1, <2>2, <2>6, <2>7 DEF y, z
<1> HIDE DEF fl
<1>4. /\ Determined(rate, mechanism) /\ mechanism = "BONO_AL_FONDEAR" => credit = e + fl
      /\ ~ (Determined(rate, mechanism) /\ mechanism = "BONO_AL_FONDEAR") => credit = e
  BY DEF BalanceFor, fl
<1> HIDE DEF credit
<1>5. PricingTypes'
  <2>1. credit \in Int
    BY <1>2, <1>3, <1>4
  <2> QED BY <1>1, <1>2, <2>1 DEF PricingTypes
<1>6. CASE Determined(rate, mechanism) /\ mechanism = "BONO_AL_FONDEAR"
  <2>1. /\ BonusBooks /\ credit = e + fl /\ k \in Nat
        /\ costs \in Int /\ balance \in Int /\ cash \in Nat /\ deposits \in Nat /\ sales \in Nat
    BY <1>2, <1>3, <1>4, <1>6 DEF BooksInv, PricingTypes
  <2>2. k * e = Base * e + e * rate
    BY <1>2, <1>3, <1>6, SMT
  <2>3. /\ k * (cash + e) = k * cash + k * e
        /\ Base * (balance + (e + fl)) = Base * balance + Base * e + Base * fl
        /\ Base * (deposits + 1) = Base * deposits + Base
        /\ k * costs \in Int /\ k * cash \in Int /\ k * e \in Int /\ k * sales \in Int
        /\ Base * balance \in Int /\ Base * e \in Int /\ Base * fl \in Int /\ Base * deposits \in Int
    <3> HIDE DEF k
    <3> QED BY <1>2, <1>3, <1>6, <2>1, SMT
  <2> DEFINE kc == k * costs  kh == k * cash  ke == k * e  ks == k * sales
             bb == Base * balance  be == Base * e  bf == Base * fl  bd == Base * deposits
             er == e * rate
  <2>4. /\ kh <= kc + bb + bd /\ kc + bb <= kh + ks /\ ke = be + er /\ bf <= er /\ er <= bf + Base
        /\ kc \in Int /\ kh \in Int /\ ke \in Int /\ ks \in Int /\ bb \in Int /\ be \in Int
        /\ bf \in Int /\ bd \in Int /\ er \in Int
    BY <1>3, <1>6, <2>1, <2>2, <2>3 DEF BonusBooks, Worth
  <2>5. /\ k' = k /\ Worth' = kc + Base * (balance + (e + fl))
        /\ k' * cash' = k * (cash + e) /\ Base * deposits' = Base * (deposits + 1)
        /\ k' * sales' = ks
    BY <1>1, <2>1 DEF Worth
  <2>6. /\ k' * cash' = kh + ke /\ Base * deposits' = bd + Base
        /\ Worth' = kc + (bb + be + bf) /\ k' * sales' = ks
    BY <2>3, <2>5
  <2>7. kh + ke <= kc + (bb + be + bf) + (bd + Base) /\ kc + (bb + be + bf) <= kh + ke + ks
    <3> HIDE DEF k, kc, kh, ke, ks, bb, be, bf, bd, er
    <3> QED BY <1>2, <2>4
  <2>8. BonusBooks'
    BY <2>6, <2>7 DEF BonusBooks
  <2> QED BY <1>1, <1>5, <1>6, <2>8 DEF BooksInv
<1>7. CASE ~ (Determined(rate, mechanism) /\ mechanism = "BONO_AL_FONDEAR")
  BY <1>1, <1>2, <1>4, <1>5, <1>7 DEF BooksInv, PricingTypes, Determined
<1> QED BY <1>6, <1>7

LEMMA BooksSell ==
  ASSUME PricingAssumption, BooksInv, NEW price \in Prices, NEW method, NEW policy, NEW fee,
         Sell(price, method, policy, fee)
  PROVE  BooksInv'
<1> DEFINE q == Quote(price, method, policy, fee)
           cost == ProviderCost(rate, mechanism, price)
           booked == IF q.provider = Unknown THEN 0 ELSE q.provider
           taken == Taken(price)
           k == Base + rate
<1>1. /\ sales' = sales + 1 /\ balance' = balance - taken /\ costs' = costs + booked
      /\ UNCHANGED << rate, mechanism, tariff, cash, deposits >>
  BY DEF Sell
<1>2. price \in Nat /\ Base \in Nat \ { 0 } /\ PricingTypes /\ Unknown \notin Int
  BY DEF PricingAssumption, BooksInv
<1>3. q.provider = cost
  BY DEF Quote
<1>4. Determined(rate, mechanism) => cost \in Int /\ rate \in 0 .. Base - 1 /\ booked = cost
  BY <1>2, <1>3, CostIsKnown, PricingAssumption
<1>5. ~ Determined(rate, mechanism) => booked = 0 /\ taken = price
  BY <1>3 DEF ProviderCost, Taken
<1> HIDE DEF q
<1>6. Determined(rate, mechanism) /\ mechanism # "BONO_AL_FONDEAR" => cost = taken
  <2> SUFFICES ASSUME Determined(rate, mechanism), mechanism # "BONO_AL_FONDEAR"
               PROVE  cost = taken
    OBVIOUS
  <2>1. mechanism \in { "COMISION_ACREDITADA_APARTE", "DESCUENTO_POR_TRANSACCION" }
    BY <1>2 DEF PricingTypes, Mechanisms, Determined
  <2> QED BY <2>1 DEF ProviderCost, Taken
<1>7. Determined(rate, mechanism) /\ mechanism = "BONO_AL_FONDEAR" =>
        cost = Ceil(price * Base, k) /\ taken = price
  BY DEF ProviderCost, Taken
<1> HIDE DEF cost, taken, booked
<1>8. booked \in Int /\ taken \in Int
  <2>1. CASE ~ Determined(rate, mechanism)
    BY <1>2, <1>5, <2>1
  <2>2. CASE Determined(rate, mechanism)
    BY <1>2, <1>4, <1>6, <1>7, <2>2
  <2> QED BY <2>1, <2>2
<1>9. PricingTypes'
  BY <1>1, <1>2, <1>8 DEF PricingTypes
<1>10. CASE Determined(rate, mechanism) /\ mechanism = "BONO_AL_FONDEAR"
  <2>1. /\ BonusBooks /\ booked = Ceil(price * Base, k) /\ taken = price /\ k \in Nat \ { 0 }
        /\ costs \in Int /\ balance \in Int /\ cash \in Nat /\ deposits \in Nat /\ sales \in Nat
    BY <1>2, <1>4, <1>7, <1>10 DEF BooksInv, PricingTypes
  <2>2. k * booked >= Base * price /\ k * booked <= Base * price + k
    <3> DEFINE z == price * Base
               y == k * booked
    <3>1. z = Base * price /\ z \in Nat
      BY <1>2, SMT
    <3> HIDE DEF z
    <3>2. z \in Int
      BY <3>1
    <3>3. k * Ceil(z, k) >= z /\ k * Ceil(z, k) <= z + k - 1
      <4> HIDE DEF k
      <4> QED BY <2>1, <3>2, CeilBounds
    <3>4. y >= z /\ y <= z + k - 1
      BY <2>1, <3>3 DEF z
    <3>5. y \in Int
      <4> HIDE DEF k
      <4> QED BY <1>8, <2>1, SMT
    <3> HIDE DEF y, k
    <3>6. y >= z /\ y <= z + k
      BY <2>1, <3>1, <3>4, <3>5
    <3> QED BY <3>1, <3>6 DEF y
  <2>3. /\ k * (costs + booked) = k * costs + k * booked
        /\ Base * (balance - price) = Base * balance - Base * price
        /\ k * (sales + 1) = k * sales + k
        /\ k * costs \in Int /\ k * booked \in Int /\ k * cash \in Int /\ k * sales \in Int
        /\ Base * balance \in Int /\ Base * price \in Int /\ Base * deposits \in Int
    <3> HIDE DEF k
    <3> QED BY <1>2, <1>8, <2>1, SMT
  <2> DEFINE kc == k * costs  kh == k * cash  kb == k * booked  ks == k * sales
             bb == Base * balance  bp == Base * price  bd == Base * deposits
  <2>4. /\ kh <= kc + bb + bd /\ kc + bb <= kh + ks /\ bp <= kb /\ kb <= bp + k
        /\ kc \in Int /\ kh \in Int /\ kb \in Int /\ ks \in Int /\ bb \in Int /\ bp \in Int
        /\ bd \in Int
    BY <2>1, <2>2, <2>3 DEF BonusBooks, Worth
  <2>5. /\ Worth' = k * (costs + booked) + Base * (balance - price)
        /\ k' * cash' = kh /\ Base * deposits' = bd /\ k' * sales' = k * (sales + 1)
    BY <1>1, <2>1 DEF Worth
  <2>6. Worth' = (kc + kb) + (bb - bp) /\ k' * sales' = ks + k
    BY <2>3, <2>5
  <2>7. kh <= (kc + kb) + (bb - bp) + bd /\ (kc + kb) + (bb - bp) <= kh + (ks + k)
    <3> HIDE DEF k, kc, kh, kb, ks, bb, bp, bd
    <3> QED BY <2>1, <2>4
  <2>8. BonusBooks'
    BY <2>5, <2>6, <2>7 DEF BonusBooks
  <2> QED BY <1>1, <1>9, <1>10, <2>8 DEF BooksInv
<1>11. CASE ~ (Determined(rate, mechanism) /\ mechanism = "BONO_AL_FONDEAR")
  <2>1. Determined(rate, mechanism) => costs + balance = cash /\ booked = taken
    BY <1>4, <1>6, <1>11 DEF BooksInv
  <2>2. Determined(rate, mechanism) => (costs + booked) + (balance - taken) = cash
    BY <1>2, <1>8, <2>1 DEF PricingTypes
  <2> QED BY <1>1, <1>9, <1>11, <2>2 DEF BooksInv, Determined
<1> QED BY <1>10, <1>11

\* The bound of BooksAgree: the roundings of the quotes and the deposits, and
\* one more for what the rest of the balance is worth.
LEMMA BooksSuffice == PricingAssumption /\ BooksInv => BooksAgree
<1> SUFFICES ASSUME PricingAssumption, BooksInv, Determined(rate, mechanism)
             PROVE  LET claimed == costs + CashFor(rate, mechanism, balance) IN
                    claimed + deposits >= cash /\ claimed <= cash + sales + 1
  BY DEF BooksAgree
<1>1. /\ rate \in 0 .. Base - 1 /\ Base \in Nat \ { 0 }
      /\ costs \in Int /\ balance \in Int /\ cash \in Nat /\ deposits \in Nat /\ sales \in Nat
  <2>1. PricingTypes
    BY DEF BooksInv
  <2> QED BY <2>1 DEF PricingTypes, PricingAssumption, Determined
<1>2. CASE mechanism # "BONO_AL_FONDEAR"
  BY <1>1, <1>2 DEF BooksInv, CashFor
<1>3. CASE mechanism = "BONO_AL_FONDEAR"
  <2> DEFINE k == Base + rate
             z == balance * Base
             w == Ceil(z, k)
             kc == k * costs  kh == k * cash  kd == k * deposits  ks == k * sales
             bd == Base * deposits  kw == k * w
  <2>1. BonusBooks /\ CashFor(rate, mechanism, balance) = w /\ k \in Nat \ { 0 }
    BY <1>1, <1>3 DEF BooksInv, CashFor
  <2>2. z \in Int /\ z = Base * balance
    BY <1>1, SMT
  <2>3. w \in Int /\ kw >= z /\ kw <= z + k - 1
    <3> HIDE DEF z, k
    <3> QED BY <2>1, <2>2, CeilBounds
  <2>4. kh <= (kc + z) + bd /\ kc + z <= kh + ks
    BY <2>1, <2>2 DEF BonusBooks, Worth
  <2> HIDE DEF w, z
  <2>5. bd <= kd /\ bd \in Int
    <3>1. kd = bd + rate * deposits /\ rate * deposits \in Nat /\ bd \in Int
      BY <1>1, SMT
    <3> DEFINE x == rate * deposits
    <3> HIDE DEF x, kd, bd
    <3>2. kd = bd + x /\ x \in Nat /\ bd \in Int
      BY <3>1 DEF x
    <3> QED BY <3>2
  <2> HIDE DEF k, bd
  <2>6. /\ k * (costs + w + deposits) = kc + kw + kd /\ k * (costs + w) = kc + kw
        /\ k * (cash + sales + 1) = kh + ks + k
        /\ kc \in Int /\ kw \in Int /\ kd \in Int /\ kh \in Int /\ ks \in Int
    BY <1>1, <2>1, <2>3, SMT
  <2> HIDE DEF kc, kh, kd, ks, kw
  <2>7. kh <= kc + kw + kd /\ kc + kw <= kh + ks + k
    BY <2>1, <2>2, <2>3, <2>4, <2>5, <2>6
  <2>8. cash <= costs + w + deposits
    <3>1. k * cash <= k * (costs + w + deposits)
      BY <2>6, <2>7 DEF kh
    <3>2. costs + w + deposits \in Int /\ cash \in Int
      BY <1>1, <2>3
    <3> QED BY <2>1, <3>1, <3>2, Unscale
  <2>9. costs + w <= cash + sales + 1
    <3>1. k * (costs + w) <= k * (cash + sales + 1)
      BY <2>6, <2>7
    <3>2. costs + w \in Int /\ cash + sales + 1 \in Int
      BY <1>1, <2>3
    <3> QED BY <2>1, <3>1, <3>2, Unscale
  <2> QED BY <1>1, <2>1, <2>3, <2>8, <2>9
<1> QED BY <1>2, <1>3

LEMMA BooksAlways == PricingSpec => [](PricingAssumption /\ BooksInv)
<1>1. PricingInit => BooksInv
  BY BooksInit, PricingAssumption
<1>2. BooksInv /\ [PricingNext]_walletVars => BooksInv'
  <2> SUFFICES ASSUME BooksInv, [PricingNext]_walletVars PROVE BooksInv'
    OBVIOUS
  <2>1. CASE UNCHANGED walletVars
    BY <2>1 DEF walletVars, BooksInv, PricingTypes, BonusBooks, Worth, Determined
  <2> QED BY <2>1, BooksDeposit, BooksSell, PricingAssumption DEF PricingNext
<1>3. PricingAssumption
  BY PricingAssumption
<1> QED BY <1>1, <1>2, <1>3, PTL DEF PricingSpec

\* For any amounts, commission and mechanism: what the quotes said the sales
\* cost and what is left of the balance come to the cash that was paid, within
\* a cent for each rounding (ComisionProveedor.costo, saldo_por_fondeo,
\* efectivo_para_saldo).
THEOREM BooksBalance == PricingSpec => []BooksAgree
BY BooksAlways, BooksSuffice, PTL

\* For any price, contract and commission: a fee that cuota_minima_uniforme
\* returns pays for the sale, by card and by cash, and one cent less does not.
THEOREM FeeIsEnough == PricingSpec => []MinimumFeePays
<1>1. PricingAssumption /\ BooksInv => MinimumFeePays
  BY FeesPay DEF BooksInv
<1> QED BY <1>1, BooksAlways, PTL
=============================================================================
