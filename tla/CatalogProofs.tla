--------------------------- MODULE CatalogProofs ----------------------------
(* Proofs about Sync, Commercial and Counter: the operators the cashier sees *)
(* have something to sell while at most two runs of sync_catalog overlap, for*)
(* any catalogue; what sells was reviewed as it is, for any number of        *)
(* commands; sales that come one after the other are covered, for any        *)
(* balance, reserve and life of the cache.                                   *)
EXTENDS Sync, Commercial, Counter, FiniteSetTheorems, WellFoundedInduction,
        TLAPS

(***************************************************************************)
(* The synchronisation                                                     *)
(***************************************************************************)

\* Of any three runs two are the same.
TwoRuns == \A r, q, p \in Runs : r = q \/ q = p \/ r = p

-----------------------------------------------------------------------------
(* The inductive invariant.                                                  *)

Past(r) == run[r].pc \in { "products", "operators" }

\* What a run wrote: an active product together with its operator.
Paired(g) ==
  owner[g] # Nil =>
    /\ draft[g] # Nil
    /\ draft[g].active => ownerOf[draft[g].op] = owner[g] /\ draft[g].op \in draftOn
DraftInv == \A g \in Items : Paired(g)

\* Where run r is.  What it wants and has passed, it owns.
Placed(r) ==
  /\ run[r].pc = "idle" =>
       (\A g \in Items : owner[g] # r) /\ (\A o \in Operators : ownerOf[o] # r)
  /\ run[r].pc # "upsert" => run[r].item = Nil /\ run[r].todo = {}
  /\ run[r].todo \subseteq { g \in Items : run[r].want[g] # Nil }
  /\ run[r].item # Nil =>
       /\ run[r].item \in run[r].todo
       /\ ownerOf[run[r].want[run[r].item]] = r
       /\ run[r].want[run[r].item] \in draftOn
  /\ run[r].pc # "idle" => \A g \in Items :
       run[r].want[g] # Nil /\ g \notin run[r].todo => owner[g] = r
  /\ run[r].pc = "products" => run[r].victims \subseteq Items
  /\ run[r].pc = "operators" => run[r].victims \subseteq Operators
RunInv == \A r \in Runs : Placed(r)

\* An active product that run r does not own: r still has to come to it.
Left(r, g) == run[r].pc = "products" /\ g \in run[r].victims
\* None of them names an operator that r owns ...
Foreign(r) ==
  Past(r) => \A g \in Items :
    owner[g] # r /\ Active(stored[g]) /\ ownerOf[stored[g].op] = r => Left(r, g)
ForeignInv == \A r \in Runs : Foreign(r)
\* ... and of two runs one has come to all of them, for it began later than the
\* last commit of the other.
Covers(r) == \A g \in Items : owner[g] # r /\ Active(stored[g]) => Left(r, g)
CoverInv ==
  \A r, q \in Runs : r # q /\ Past(r) /\ Past(q) => Covers(r) \/ Covers(q)

\* The operators that run r reads to have something to sell.
Sells(r, o) == \E g \in Items : Active(View(r, g)) /\ View(r, g).op = o
\* A committed active product of operator o is one that r took.
Taken(r, o) == \E g \in Items : owner[g] = r /\ Active(stored[g]) /\ stored[g].op = o
\* The last statement: what it will switch off has nothing to sell, because r
\* took the last of it, and what it will not has something.
Last(r) ==
  run[r].pc = "operators" =>
    /\ \A o \in run[r].victims : ~ Sells(r, o) /\ (ownerOf[o] # r => Taken(r, o))
    /\ \A o \in Operators : IsOn(r, o) => o \in run[r].victims \/ Sells(r, o)
LastInv == \A r \in Runs : Last(r)

IInv == /\ TypeOK /\ DraftInv /\ RunInv /\ ForeignInv /\ CoverInv /\ LastInv
        /\ OperatorsHaveProducts

LEMMA InvInit == Init => IInv
<1> SUFFICES ASSUME Init PROVE IInv
  OBVIOUS
<1>1. TypeOK
  BY SyncAssumption DEF Init, TypeOK, Idle, Progress
<1>2. \A r \in Runs : run[r].pc = "idle" /\ run[r] = Idle
  BY DEF Init, Idle
<1>3. DraftInv /\ RunInv /\ OperatorsHaveProducts
  BY <1>2, SyncAssumption DEF Init, DraftInv, Paired, RunInv, Placed, Idle, OperatorsHaveProducts, Selling, Active
<1> QED
  BY <1>1, <1>2, <1>3 DEF IInv, ForeignInv, Foreign, CoverInv, LastInv, Last, Past

\* What a step of run r does to the records of the runs.
LEMMA OneRun ==
  ASSUME TypeOK, NEW r \in Runs, NEW x, run' = [run EXCEPT ![r] = x]
  PROVE  run'[r] = x /\ \A q \in Runs : q # r => run'[q] = run[q]
  BY DEF TypeOK

LEMMA RunsStayTyped ==
  ASSUME TypeOK, NEW r \in Runs, NEW x \in Progress, run' = [run EXCEPT ![r] = x]
  PROVE  run' \in [Runs -> Progress]
  BY DEF TypeOK

LEMMA RunIsTyped ==
  ASSUME TypeOK, NEW r \in Runs
  PROVE  /\ run[r].pc \in { "idle", "upsert", "products", "operators" }
         /\ run[r].want \in [Items -> Operators \cup { Nil }]
         /\ run[r].item \in Items \cup { Nil }
         /\ run[r].todo \subseteq Items
         /\ run[r].victims \subseteq Items \cup Operators
         /\ run[r] = [ pc |-> run[r].pc, want |-> run[r].want, item |-> run[r].item,
                       todo |-> run[r].todo, victims |-> run[r].victims ]
         /\ r # Nil
  BY SyncAssumption DEF TypeOK, Progress

-----------------------------------------------------------------------------
(* A step of run r that commits nothing is none of the others' business.     *)

Quiet(r) ==
  /\ UNCHANGED << stored, on >>
  /\ \A q \in Runs : q # r => run'[q] = run[q]
  /\ \A g \in Items : owner'[g] = owner[g] \/ { owner[g], owner'[g] } \subseteq { Nil, r }
  /\ \A g \in Items : owner[g] # r /\ owner'[g] # r => draft'[g] = draft[g]
  /\ \A o \in Operators : ownerOf'[o] = ownerOf[o] \/ { ownerOf[o], ownerOf'[o] } \subseteq { Nil, r }
  /\ \A o \in Operators : ownerOf[o] # r /\ ownerOf'[o] # r => (o \in draftOn' <=> o \in draftOn)

LEMMA QuietViews ==
  ASSUME IInv, NEW r \in Runs, Quiet(r), NEW q \in Runs, q # r
  PROVE  /\ \A g \in Items : (owner'[g] = q <=> owner[g] = q) /\ View(q, g)' = View(q, g)
         /\ \A o \in Operators : (ownerOf'[o] = q <=> ownerOf[o] = q) /\ (IsOn(q, o)' <=> IsOn(q, o))
         /\ \A o \in Operators : ownerOf[o] = q => (o \in draftOn' <=> o \in draftOn)
         /\ run'[q] = run[q]
<1>1. r # Nil /\ q # Nil /\ TypeOK
  BY RunIsTyped DEF IInv
<1>2. \A g \in Items : owner'[g] = q <=> owner[g] = q
  BY <1>1 DEF Quiet
<1>3. \A o \in Operators : ownerOf'[o] = q <=> ownerOf[o] = q
  BY <1>1 DEF Quiet
<1>4. \A g \in Items : View(q, g)' = View(q, g)
  <2>1. \A g \in Items : owner[g] = q => draft'[g] = draft[g]
    BY <1>2 DEF Quiet
  <2>2. stored' = stored
    BY DEF Quiet
  <2> QED
    BY <1>2, <2>1, <2>2 DEF View
<1>5. \A o \in Operators : ownerOf[o] = q => (o \in draftOn' <=> o \in draftOn)
  BY <1>3 DEF Quiet
<1>6. \A o \in Operators : IsOn(q, o)' <=> IsOn(q, o)
  <2>1. on' = on
    BY DEF Quiet
  <2> QED
    BY <1>3, <1>5, <2>1 DEF IsOn
<1> QED
  BY <1>2, <1>3, <1>4, <1>5, <1>6 DEF Quiet

LEMMA QuietOthers ==
  ASSUME IInv, NEW r \in Runs, Quiet(r), NEW q \in Runs, q # r
  PROVE  Placed(q)' /\ Foreign(q)' /\ Last(q)' /\ (Covers(q) => Covers(q)')
<1> USE DEF IInv
<1>0. TypeOK /\ UNCHANGED << stored, on >> /\ run'[q] = run[q]
  BY DEF Quiet
<1>1. Placed(q)'
  <2>1. Placed(q)
    BY DEF RunInv
  <2>2. \A g \in Items : owner'[g] = q <=> owner[g] = q
    BY QuietViews
  <2>3. \A o \in Operators : ownerOf'[o] = q <=> ownerOf[o] = q
    BY QuietViews
  <2>4. \A o \in Operators : ownerOf[o] = q => (o \in draftOn' <=> o \in draftOn)
    BY QuietViews
  <2>5. run[q].item # Nil => run[q].want[run[q].item] \in Operators
    <3>1. run[q].item # Nil => run[q].item \in Items /\ run[q].want[run[q].item] # Nil
      BY <1>0, <2>1, RunIsTyped DEF Placed
    <3> QED
      BY <1>0, <3>1, RunIsTyped
  <2> QED
    BY <1>0, <2>1, <2>2, <2>3, <2>4, <2>5 DEF Placed
<1>2. Foreign(q)'
  <2>1. Foreign(q)
    BY DEF ForeignInv
  <2>2. \A g \in Items : Active(stored[g]) => stored[g].op \in Operators
    BY <1>0 DEF TypeOK, Active, Row
  <2> QED
    BY <1>0, <2>1, <2>2, QuietViews DEF Foreign, Left, Past, Active
<1>3. Covers(q) => Covers(q)'
  BY <1>0, QuietViews DEF Covers, Left, Active
<1>4. Last(q)'
  <2>1. Last(q)
    BY DEF LastInv
  <2>2. \A o \in Operators : Sells(q, o)' <=> Sells(q, o)
    BY QuietViews DEF Sells, Active
  <2>3. \A o \in Operators : Taken(q, o)' <=> Taken(q, o)
    BY <1>0, QuietViews DEF Taken, Active
  <2>4. run[q].pc = "operators" => run[q].victims \subseteq Operators
    BY DEF RunInv, Placed
  <2> QED
    BY <1>0, <2>1, <2>2, <2>3, <2>4, QuietViews DEF Last
<1> QED
  BY <1>1, <1>2, <1>3, <1>4

\* What is left to show of such a step is about r.
LEMMA QuietStep ==
  ASSUME IInv, NEW r \in Runs, Quiet(r), TypeOK',
         \A g \in Items : owner'[g] = r => Paired(g)',
         \A g \in Items : owner[g] # r => owner'[g] # r \/ owner[g] = Nil,
         Placed(r)', Foreign(r)', Last(r)',
         Past(r)' => Covers(r)' \/ (Past(r) /\ (Covers(r) => Covers(r)'))
  PROVE  IInv'
<1> USE DEF IInv
<1>1. ASSUME NEW g \in Items, owner'[g] # r, owner'[g] # Nil PROVE Paired(g)'
  <2>1. owner'[g] = owner[g] /\ draft'[g] = draft[g]
    BY <1>1 DEF Quiet
  <2>2. Paired(g) /\ owner[g] \in Runs
    BY <1>1, <2>1 DEF DraftInv, TypeOK
  <2>3. ASSUME draft[g].active
        PROVE  ownerOf'[draft[g].op] = owner[g] /\ draft[g].op \in draftOn'
    <3>1. draft[g].op \in Operators /\ ownerOf[draft[g].op] = owner[g] /\ draft[g].op \in draftOn
      BY <1>1, <2>1, <2>2, <2>3 DEF Paired, TypeOK, Row
    <3> QED
      BY <1>1, <2>1, <2>2, <3>1, QuietViews
  <2> QED
    BY <1>1, <2>1, <2>2, <2>3 DEF Paired
<1>2. DraftInv'
  BY <1>1 DEF DraftInv, Paired
<1>3. RunInv' /\ ForeignInv' /\ LastInv'
  BY QuietOthers DEF RunInv, ForeignInv, LastInv
<1>4. CoverInv'
  <2> SUFFICES ASSUME NEW p \in Runs, NEW q \in Runs, p # q, Past(p)', Past(q)'
               PROVE  Covers(p)' \/ Covers(q)'
    BY DEF CoverInv
  <2>1. \A s \in Runs : s # r => (Past(s)' <=> Past(s)) /\ (Covers(s) => Covers(s)')
    BY QuietOthers DEF Quiet, Past
  <2> QED
    BY <2>1 DEF CoverInv
<1>5. OperatorsHaveProducts'
  BY DEF Quiet, OperatorsHaveProducts, Selling, Active
<1> QED
  BY <1>2, <1>3, <1>4, <1>5

-----------------------------------------------------------------------------
(* The steps.                                                                *)

LEMMA OfferStep ==
  ASSUME IInv, NEW c \in Catalogues, ChangeListing(c) PROVE IInv'
  BY DEF ChangeListing, IInv, TypeOK, DraftInv, Paired, RunInv, Placed, ForeignInv, Foreign,
         CoverInv, Covers, Left, LastInv, Last, Taken, Past, Sells, View, IsOn, OperatorsHaveProducts, Selling

LEMMA FetchStep ==
  ASSUME IInv, NEW r \in Runs, FetchCatalog(r) PROVE IInv'
<1> USE DEF IInv
<1> DEFINE x == [ pc |-> "upsert", want |-> listing, item |-> Nil,
                  todo |-> { g \in Items : listing[g] # Nil }, victims |-> {} ]
<1>1. run'[r] = x /\ \A q \in Runs : q # r => run'[q] = run[q]
  BY OneRun DEF FetchCatalog
<1>2. listing \in [Items -> Operators \cup { Nil }]
  BY SyncAssumption DEF TypeOK
<1>3. UNCHANGED << listing, stored, on, owner, draft, ownerOf, draftOn >>
  BY DEF FetchCatalog
<1>4. TypeOK'
  <2>1. run' = [run EXCEPT ![r] = x]
    BY DEF FetchCatalog
  <2>2. fetches' \in 0 .. MaxFetches
    BY SyncAssumption DEF FetchCatalog, TypeOK
  <2>3. x \in Progress
    BY <1>2 DEF Progress
  <2> HIDE DEF x
  <2>4. run' \in [Runs -> Progress]
    BY <2>1, <2>3, RunsStayTyped
  <2> QED
    BY <1>3, <2>2, <2>4 DEF TypeOK
<1>5. run[r].pc = "idle"
  BY DEF FetchCatalog, Idle
<1>6. Quiet(r)
  BY <1>1, <1>3 DEF Quiet
<1>7. Placed(r) /\ DraftInv
  BY DEF RunInv
<1>8. Placed(r)'
  BY <1>1, <1>2, <1>3, <1>5, <1>7 DEF Placed
<1>9. ~ Past(r)' /\ run'[r].pc # "operators"
  BY <1>1 DEF Past
<1>10. \A g \in Items : Paired(g)'
  BY <1>3, <1>7 DEF DraftInv, Paired
<1> QED
  BY <1>3, <1>4, <1>6, <1>8, <1>9, <1>10, QuietStep DEF Foreign, Last

\* What a run wants is the operator of a product.
LEMMA Wanted ==
  ASSUME IInv, NEW r \in Runs, NEW g \in run[r].todo
  PROVE  g \in Items /\ run[r].want[g] \in Operators
<1>1. TypeOK /\ Placed(r)
  BY DEF IInv, RunInv
<1>2. run[r].want \in [Items -> Operators \cup { Nil }] /\ run[r].todo \subseteq Items
  BY <1>1, RunIsTyped
<1>3. g \in Items /\ run[r].want[g] # Nil
  BY <1>1, <1>2 DEF Placed
<1> QED
  BY ONLY <1>2, <1>3

LEMMA UpsertOperatorStep ==
  ASSUME IInv, NEW r \in Runs, NEW g \in Items, UpsertOperator(r, g) PROVE IInv'
<1> USE DEF IInv
<1> DEFINE o == run[r].want[g]
           x == [ pc |-> "upsert", want |-> run[r].want, item |-> g, todo |-> run[r].todo, victims |-> {} ]
<1>1. /\ run[r].pc = "upsert" /\ g \in run[r].todo /\ run[r].todo \subseteq Items
      /\ ownerOf[o] \in { Nil, r } /\ o \in Operators
  BY Wanted, RunIsTyped DEF UpsertOperator, FreeOf
<1>2. /\ ownerOf' = [ownerOf EXCEPT ![o] = r] /\ draftOn' = draftOn \cup { o }
      /\ UNCHANGED << listing, stored, on, owner, draft, fetches >>
  BY DEF UpsertOperator, WriteOn
<1>0. run' = [run EXCEPT ![r] = x]
  BY DEF GoesOn, UpsertOperator
<1> HIDE DEF o
<1>3. /\ run'[r].pc = "upsert" /\ run'[r].want = run[r].want /\ run'[r].item = g
      /\ run'[r].todo = run[r].todo
      /\ \A q \in Runs : q # r => run'[q] = run[q]
  <2>1. run'[r] = x /\ \A q \in Runs : q # r => run'[q] = run[q]
    BY <1>0, OneRun
  <2> QED
    BY <2>1
<1>4. TypeOK'
  <2>1. run' \in [Runs -> Progress]
    BY <1>0, <1>1, RunsStayTyped, RunIsTyped DEF Progress
  <2> QED
    BY <1>1, <1>2, <2>1 DEF TypeOK
<1>5. ownerOf'[o] = r /\ o \in draftOn' /\ \A p \in Operators : p # o => ownerOf'[p] = ownerOf[p] /\ (p \in draftOn' <=> p \in draftOn)
  BY <1>1, <1>2 DEF TypeOK
<1>6. Quiet(r)
  BY <1>1, <1>2, <1>3, <1>5 DEF Quiet
<1>7. \A k \in Items : owner'[k] = r => Paired(k)'
  <2> SUFFICES ASSUME NEW k \in Items, owner[k] = r PROVE Paired(k)'
    BY <1>2
  <2>1. Paired(k) /\ draft[k] \in Row \cup { Nil }
    BY DEF DraftInv, TypeOK
  <2> QED
    BY <1>2, <1>5, <2>1 DEF Paired, Row
<1>8. Placed(r)'
  <2>1. Placed(r)
    BY DEF RunInv
  <2>2. run'[r].want[g] = o
    BY <1>3 DEF o
  <2> QED
    BY <1>1, <1>2, <1>3, <1>5, <2>1, <2>2 DEF Placed
<1>9. ~ Past(r)' /\ run'[r].pc # "operators"
  BY <1>3 DEF Past
<1> QED
  BY <1>2, <1>4, <1>6, <1>7, <1>8, <1>9, QuietStep DEF Foreign, Last

LEMMA UpsertProductStep ==
  ASSUME IInv, NEW r \in Runs, NEW g \in Items, UpsertProduct(r, g) PROVE IInv'
<1> USE DEF IInv
<1> DEFINE new == [op |-> run[r].want[g], active |-> TRUE]
           rest == run[r].todo \ { g }
           x == [ pc |-> "upsert", want |-> run[r].want, item |-> Nil, todo |-> rest, victims |-> {} ]
<1>1. /\ run[r].pc = "upsert" /\ run[r].item = g /\ g \in run[r].todo /\ run[r].todo \subseteq Items
      /\ owner[g] \in { Nil, r } /\ run[r].want[g] \in Operators
  BY Wanted, RunIsTyped DEF UpsertProduct, Free
<1>2. /\ owner' = [owner EXCEPT ![g] = r] /\ draft' = [draft EXCEPT ![g] = new]
      /\ UNCHANGED << listing, stored, on, ownerOf, draftOn, fetches >>
  BY DEF UpsertProduct, Write
<1>0. run' = [run EXCEPT ![r] = x]
  BY DEF GoesOn, UpsertProduct
<1>3. /\ run'[r].pc = "upsert" /\ run'[r].want = run[r].want /\ run'[r].item = Nil
      /\ run'[r].todo = rest
      /\ \A q \in Runs : q # r => run'[q] = run[q]
  <2>1. run'[r] = x /\ \A q \in Runs : q # r => run'[q] = run[q]
    BY <1>0, OneRun
  <2> QED
    BY <2>1
<1>4. TypeOK'
  <2>1. run' \in [Runs -> Progress]
    BY <1>0, <1>1, RunsStayTyped, RunIsTyped DEF Progress
  <2>2. new \in Row
    BY <1>1 DEF Row
  <2> HIDE DEF new
  <2> QED
    BY <1>1, <1>2, <2>1, <2>2 DEF TypeOK
<1>5. /\ owner'[g] = r /\ draft'[g] = new
      /\ \A k \in Items : k # g => owner'[k] = owner[k] /\ draft'[k] = draft[k]
  BY <1>1, <1>2 DEF TypeOK
<1>6. Quiet(r)
  BY <1>1, <1>2, <1>3, <1>5 DEF Quiet
<1>7. Placed(r)
  BY DEF RunInv
<1>8. \A k \in Items : owner'[k] = r => Paired(k)'
  <2> SUFFICES ASSUME NEW k \in Items, owner'[k] = r PROVE Paired(k)'
    OBVIOUS
  <2>1. CASE k = g
    <3>1. new # Nil
      <4>1. new \in Row
        BY <1>1 DEF Row
      <4> QED
        BY <4>1, SyncAssumption
    <3>2. ownerOf[run[r].want[g]] = r /\ run[r].want[g] \in draftOn
      BY <1>1, <1>7, SyncAssumption DEF Placed
    <3>3. draft'[k] = new /\ new.op = run[r].want[g] /\ ownerOf' = ownerOf /\ draftOn' = draftOn
      BY <1>2, <1>5, <2>1
    <3> HIDE DEF new
    <3> QED
      BY <2>1, <3>1, <3>2, <3>3 DEF Paired
  <2>2. CASE k # g
    BY <1>2, <1>5, <2>2 DEF Paired, DraftInv
  <2> QED
    BY <2>1, <2>2
<1>9. Placed(r)'
  BY <1>1, <1>2, <1>3, <1>5, <1>7 DEF Placed
<1>10. ~ Past(r)' /\ run'[r].pc # "operators"
  BY <1>3 DEF Past
<1>11. Foreign(r)' /\ Last(r)'
  BY <1>10 DEF Foreign, Last
<1>12. \A k \in Items : owner[k] # r => owner'[k] # r \/ owner[k] = Nil
  BY <1>1, <1>5
<1> HIDE DEF new, rest
<1> QED
  BY <1>4, <1>6, <1>8, <1>9, <1>10, <1>11, <1>12, QuietStep

\* Only the record of run r changes, and what it owns stays what it was.
LEMMA BeginProductsStep ==
  ASSUME IInv, NEW r \in Runs, BeginProducts(r) PROVE IInv'
<1> USE DEF IInv
<1> DEFINE x == [ pc |-> "products", want |-> run[r].want, item |-> Nil, todo |-> {}, victims |-> Unseen(r) ]
<1>1. /\ run[r].pc = "upsert" /\ run[r].item = Nil /\ run[r].todo = {}
      /\ UNCHANGED << listing, stored, on, owner, draft, ownerOf, draftOn, fetches >>
  BY DEF BeginProducts
<1>2. run' = [run EXCEPT ![r] = x]
  BY DEF BeginProducts, GoesOn
<1>3. run'[r] = x /\ \A q \in Runs : q # r => run'[q] = run[q]
  BY <1>2, OneRun
<1>4. TypeOK'
  <2>1. Unseen(r) \subseteq Items
    BY DEF Unseen
  <2>2. x \in Progress
    BY <2>1, RunIsTyped DEF Progress
  <2> HIDE DEF x
  <2>3. run' \in [Runs -> Progress]
    BY <1>2, <2>2, RunsStayTyped
  <2> QED
    BY <1>1, <2>3 DEF TypeOK
<1>5. Quiet(r)
  BY <1>1, <1>3 DEF Quiet
<1>6. Placed(r)
  BY DEF RunInv
<1>7. Placed(r)'
  <2>1. Unseen(r) \subseteq Items
    BY DEF Unseen
  <2> QED
    BY <1>1, <1>3, <1>6, <2>1 DEF Placed
<1>8. \A k \in Items : Paired(k)'
  BY <1>1 DEF DraftInv, Paired
<1>9. Covers(r)'
  <2> SUFFICES ASSUME NEW k \in Items, owner[k] # r, Active(stored[k]) PROVE k \in Unseen(r)
    BY <1>1, <1>3 DEF Covers, Left, Active
  <2>1. run[r].want[k] = Nil
    BY <1>1, <1>6 DEF Placed
  <2> QED
    BY <2>1 DEF Unseen, View
<1>10. Foreign(r)' /\ Last(r)'
  BY <1>3, <1>9 DEF Foreign, Covers, Last, Left
<1> HIDE DEF x
<1> QED
  BY <1>1, <1>4, <1>5, <1>7, <1>8, <1>9, <1>10, QuietStep

LEMMA SwitchOffStep ==
  ASSUME IInv, NEW r \in Runs, NEW g \in Items, SwitchOff(r, g) PROVE IInv'
<1> USE DEF IInv
<1> DEFINE rest == run[r].victims \ { g }
           x == [ pc |-> "products", want |-> run[r].want, item |-> Nil, todo |-> {}, victims |-> rest ]
           off == [View(r, g) EXCEPT !.active = FALSE]
<1>1. /\ run[r].pc = "products" /\ g \in run[r].victims
      /\ owner[g] \in { Nil, r }
      /\ UNCHANGED << listing, stored, on, ownerOf, draftOn, fetches >>
  BY DEF SwitchOff, Free
<1>2. run' = [run EXCEPT ![r] = x]
  BY DEF SwitchOff, GoesOn
<1>3. run'[r] = x /\ \A q \in Runs : q # r => run'[q] = run[q]
  BY <1>2, OneRun
<1>4. Placed(r)
  BY DEF RunInv
<1>5. \/ /\ Active(View(r, g))
         /\ owner' = [owner EXCEPT ![g] = r] /\ draft' = [draft EXCEPT ![g] = off]
      \/ ~ Active(View(r, g)) /\ UNCHANGED << owner, draft >>
  BY DEF SwitchOff, Write
<1>6. Active(View(r, g)) => off \in Row /\ ~ off.active
  <2>1. Active(View(r, g)) => View(r, g) \in Row
    BY DEF View, Active, TypeOK
  <2> QED
    BY <2>1 DEF Row
<1>7. TypeOK'
  <2>1. run[r].victims \subseteq Items
    BY <1>1, <1>4 DEF Placed
  <2>2. x \in Progress
    BY <2>1, RunIsTyped DEF Progress
  <2> HIDE DEF x, off
  <2>3. run' \in [Runs -> Progress]
    BY <1>2, <2>2, RunsStayTyped
  <2> QED
    BY <1>1, <1>5, <1>6, <2>3 DEF TypeOK
<1>8. /\ \A k \in Items : k # g => owner'[k] = owner[k] /\ draft'[k] = draft[k]
      /\ \/ owner'[g] = r /\ draft'[g] = off /\ off \in Row /\ ~ off.active
         \/ ~ Active(View(r, g)) /\ owner'[g] = owner[g] /\ draft'[g] = draft[g]
  <2> HIDE DEF off
  <2> QED
    BY <1>5, <1>6 DEF TypeOK
<1> HIDE DEF off
<1>9. Quiet(r)
  BY <1>1, <1>3, <1>8 DEF Quiet
<1>10. \A k \in Items : owner'[k] = r => Paired(k)'
  <2> SUFFICES ASSUME NEW k \in Items, owner'[k] = r PROVE Paired(k)'
    OBVIOUS
  <2>1. Paired(k)
    BY DEF DraftInv
  <2> QED
    BY <1>1, <1>8, <2>1, SyncAssumption DEF Paired
<1>11. Placed(r)'
  <2>1. \A k \in Items : owner[k] = r => owner'[k] = r
    BY <1>8
  <2> QED
    BY <1>1, <1>3, <1>4, <2>1 DEF Placed
<1>12. \A k \in Items : owner'[k] # r /\ Active(stored[k]) => owner[k] # r /\ (Left(r, k) => Left(r, k)')
  <2> SUFFICES ASSUME NEW k \in Items, owner'[k] # r, Active(stored[k]), k = g
               PROVE  FALSE
    BY <1>3, <1>8 DEF Left
  <2> QED
    BY <1>1, <1>8 DEF View
<1>13. Foreign(r)'
  <2>1. Foreign(r) /\ Past(r)
    BY <1>1 DEF ForeignInv, Past
  <2> QED
    BY <1>1, <1>12, <2>1 DEF Foreign, Active
<1>14. Last(r)'
  BY <1>3 DEF Last
<1>15. Past(r) /\ (Covers(r) => Covers(r)')
  BY <1>1, <1>12 DEF Past, Covers, Active
<1>16. \A k \in Items : owner[k] # r => owner'[k] # r \/ owner[k] = Nil
  BY <1>1, <1>8
<1> HIDE DEF x
<1> QED
  BY <1>7, <1>9, <1>10, <1>11, <1>13, <1>14, <1>15, <1>16, QuietStep

\* What the last statement finds: an operator that is on had something to sell,
\* and if nothing of it is left run r took it.
LEMMA BeginOperatorsStep ==
  ASSUME IInv, NEW r \in Runs, BeginOperators(r) PROVE IInv'
<1> USE DEF IInv
<1> DEFINE x == [ pc |-> "operators", want |-> run[r].want, item |-> Nil, todo |-> {}, victims |-> Empty(r) ]
<1>1. /\ run[r].pc = "products" /\ run[r].victims = {}
      /\ UNCHANGED << listing, stored, on, owner, draft, ownerOf, draftOn, fetches >>
  BY DEF BeginOperators
<1>2. run' = [run EXCEPT ![r] = x]
  BY DEF BeginOperators, GoesOn
<1>3. run'[r] = x /\ \A q \in Runs : q # r => run'[q] = run[q]
  BY <1>2, OneRun
<1>4. Empty(r) \subseteq Operators
  BY DEF Empty
<1>5. TypeOK'
  <2>1. x \in Progress
    BY <1>4, RunIsTyped DEF Progress
  <2> HIDE DEF x
  <2>2. run' \in [Runs -> Progress]
    BY <1>2, <2>1, RunsStayTyped
  <2> QED
    BY <1>1, <2>2 DEF TypeOK
<1>6. Quiet(r)
  BY <1>1, <1>3 DEF Quiet
<1>7. Placed(r) /\ Foreign(r) /\ Past(r)
  BY <1>1 DEF RunInv, ForeignInv, Past
<1>8. Placed(r)'
  BY <1>1, <1>3, <1>4, <1>7 DEF Placed
<1>9. \A k \in Items : Paired(k)'
  BY <1>1 DEF DraftInv, Paired
<1>10. Foreign(r)' /\ (Covers(r) => Covers(r)')
  BY <1>1, <1>3, <1>7 DEF Foreign, Covers, Left, Active
<1>11. \A o \in Operators : Sells(r, o)' <=> Sells(r, o)
  BY <1>1 DEF Sells, View, Active
<1>12. ASSUME NEW o \in Empty(r) PROVE ~ Sells(r, o)' /\ (ownerOf'[o] # r => Taken(r, o)')
  <2>1. o \in Operators /\ IsOn(r, o) /\ ~ Sells(r, o)
    BY DEF Empty, Sells
  <2>2. ASSUME ownerOf[o] # r PROVE Taken(r, o)
    <3>1. o \in on
      BY <2>1, <2>2 DEF IsOn
    <3>2. PICK g \in Items : Active(stored[g]) /\ stored[g].op = o
      BY <3>1 DEF OperatorsHaveProducts, Selling
    <3>3. owner[g] = r
      BY <2>1, <3>2 DEF Sells, View
    <3> QED
      BY <3>2, <3>3 DEF Taken
  <2> QED
    BY <1>1, <1>11, <2>1, <2>2 DEF Taken, Active
<1>13. ASSUME NEW o \in Operators, IsOn(r, o)' PROVE o \in Empty(r) \/ Sells(r, o)'
  BY <1>1, <1>11, <1>13 DEF IsOn, Empty, Sells
<1>14. Last(r)'
  BY <1>3, <1>12, <1>13 DEF Last
<1> HIDE DEF x
<1> QED
  BY <1>1, <1>5, <1>6, <1>7, <1>8, <1>9, <1>10, <1>14, QuietStep

LEMMA SwitchOffOperatorStep ==
  ASSUME IInv, NEW r \in Runs, NEW o \in Operators, SwitchOffOperator(r, o) PROVE IInv'
<1> USE DEF IInv
<1> DEFINE rest == run[r].victims \ { o }
           x == [ pc |-> "operators", want |-> run[r].want, item |-> Nil, todo |-> {}, victims |-> rest ]
<1>1. /\ run[r].pc = "operators" /\ o \in run[r].victims
      /\ ownerOf[o] \in { Nil, r }
      /\ UNCHANGED << listing, stored, on, owner, draft, fetches >>
  BY DEF SwitchOffOperator, FreeOf
<1>2. run' = [run EXCEPT ![r] = x]
  BY DEF SwitchOffOperator, GoesOn
<1>3. run'[r] = x /\ \A q \in Runs : q # r => run'[q] = run[q]
  BY <1>2, OneRun
<1>4. Placed(r) /\ Foreign(r) /\ Last(r) /\ run[r].victims \subseteq Operators
  BY <1>1 DEF RunInv, ForeignInv, LastInv, Placed
<1>5. \/ ownerOf' = [ownerOf EXCEPT ![o] = r] /\ draftOn' = draftOn \ { o }
      \/ ~ IsOn(r, o) /\ UNCHANGED << ownerOf, draftOn >>
  BY DEF SwitchOffOperator, WriteOn
<1>6. TypeOK'
  <2>1. x \in Progress
    BY <1>4, RunIsTyped DEF Progress
  <2> HIDE DEF x
  <2>2. run' \in [Runs -> Progress]
    BY <1>2, <2>1, RunsStayTyped
  <2> QED
    BY <1>1, <1>5, <2>2 DEF TypeOK
<1>7. /\ \A p \in Operators : p # o => ownerOf'[p] = ownerOf[p] /\ (p \in draftOn' <=> p \in draftOn)
      /\ \/ ownerOf'[o] = r /\ o \notin draftOn'
         \/ ~ IsOn(r, o) /\ ownerOf'[o] = ownerOf[o] /\ (o \in draftOn' <=> o \in draftOn)
  BY <1>5 DEF TypeOK
<1>8. Quiet(r)
  BY <1>1, <1>3, <1>7 DEF Quiet
<1>9. ~ Sells(r, o)
  BY <1>1, <1>4 DEF Last
<1>10. \A k \in Items : owner'[k] = r => Paired(k)'
  <2> SUFFICES ASSUME NEW k \in Items, owner[k] = r PROVE Paired(k)'
    BY <1>1
  <2>1. Paired(k) /\ draft[k] \in Row \cup { Nil }
    BY DEF DraftInv, TypeOK
  <2>2. draft[k] # Nil /\ draft[k].active => draft[k].op # o
    BY <1>9 DEF Sells, View, Active
  <2> QED
    BY <1>1, <1>7, <2>1, <2>2 DEF Paired, Row
<1>11. Placed(r)'
  BY <1>1, <1>3, <1>4 DEF Placed
<1>12. Foreign(r)' /\ (Covers(r) => Covers(r)')
  <2>1. \A k \in Items : owner[k] # r /\ Active(stored[k]) => stored[k].op # o /\ stored[k].op \in Operators
    BY <1>9 DEF Sells, View, TypeOK, Active, Row
  <2>2. Past(r)
    BY <1>1 DEF Past
  <2>3. Foreign(r)'
    BY <1>1, <1>4, <1>7, <2>1, <2>2 DEF Foreign, Left, Active
  <2>4. Covers(r) => Covers(r)'
    BY <1>1, <1>3 DEF Covers, Left, Active
  <2> QED
    BY <2>3, <2>4
<1>13. Last(r)'
  <2>1. \A p \in Operators : (Sells(r, p)' <=> Sells(r, p)) /\ (Taken(r, p)' <=> Taken(r, p))
    BY <1>1 DEF Sells, Taken, View, Active
  <2>2. ASSUME NEW p \in rest PROVE ~ Sells(r, p)' /\ (ownerOf'[p] # r => Taken(r, p)')
    BY <1>1, <1>4, <1>7, <2>1 DEF Last
  <2>3. ASSUME NEW p \in Operators, IsOn(r, p)' PROVE p \in rest \/ Sells(r, p)'
    <3>1. p # o
      BY <1>1, <1>7, <2>3 DEF IsOn
    <3>2. IsOn(r, p)
      BY <1>1, <1>7, <2>3, <3>1 DEF IsOn
    <3> QED
      BY <1>1, <1>4, <2>1, <3>1, <3>2 DEF Last
  <2> QED
    BY <1>3, <2>2, <2>3 DEF Last
<1>14. Past(r)
  BY <1>1 DEF Past
<1> HIDE DEF x
<1> QED
  BY <1>1, <1>6, <1>8, <1>10, <1>11, <1>12, <1>13, <1>14, QuietStep

\* The end of a run.
LEMMA ReleaseTyped ==
  ASSUME TypeOK, NEW r \in Runs, Release(r)
  PROVE  /\ owner' \in [Items -> Runs \cup { Nil }] /\ ownerOf' \in [Operators -> Runs \cup { Nil }]
         /\ run' \in [Runs -> Progress]
         /\ \A g \in Items : owner'[g] = IF owner[g] = r THEN Nil ELSE owner[g]
         /\ \A o \in Operators : ownerOf'[o] = IF ownerOf[o] = r THEN Nil ELSE ownerOf[o]
         /\ run'[r] = Idle /\ \A q \in Runs : q # r => run'[q] = run[q]
<1>1. Idle \in Progress
  BY DEF Idle, Progress
<1>2. run' = [run EXCEPT ![r] = Idle]
  BY DEF Release
<1>3. run' \in [Runs -> Progress]
  BY <1>1, <1>2, RunsStayTyped
<1>4. run'[r] = Idle /\ \A q \in Runs : q # r => run'[q] = run[q]
  BY <1>2, OneRun
<1> QED
  BY <1>3, <1>4 DEF Release, TypeOK

LEMMA AbortStep ==
  ASSUME IInv, NEW r \in Runs, Abort(r) PROVE IInv'
<1> USE DEF IInv
<1>1. Release(r) /\ UNCHANGED << listing, stored, on, draft, draftOn, fetches >>
  BY DEF Abort
<1>2. TypeOK'
  BY <1>1, ReleaseTyped DEF TypeOK
<1>3. /\ \A g \in Items : owner'[g] = IF owner[g] = r THEN Nil ELSE owner[g]
      /\ \A o \in Operators : ownerOf'[o] = IF ownerOf[o] = r THEN Nil ELSE ownerOf[o]
      /\ run'[r] = Idle /\ \A q \in Runs : q # r => run'[q] = run[q]
  BY <1>1, ReleaseTyped
<1>4. r # Nil
  BY RunIsTyped
<1>5. Quiet(r)
  BY <1>1, <1>3 DEF Quiet
<1>6. run'[r].pc = "idle" /\ run'[r].item = Nil /\ run'[r].todo = {}
  BY <1>3 DEF Idle
<1>7. \A g \in Items : owner'[g] # r
  BY <1>3, <1>4
<1>8. \A o \in Operators : ownerOf'[o] # r
  BY <1>3, <1>4
<1>9. Placed(r)'
  BY <1>6, <1>7, <1>8 DEF Placed
<1>10. Foreign(r)' /\ Last(r)' /\ ~ Past(r)'
  BY <1>6 DEF Foreign, Last, Past
<1> QED
  BY <1>2, <1>5, <1>7, <1>9, <1>10, QuietStep

\* What run r leaves: an operator is on if and only if something of it is.
LEMMA LeftByTheRun ==
  ASSUME IInv, NEW r \in Runs, run[r].pc = "operators", run[r].victims = {}, NEW o \in Operators
  PROVE  IsOn(r, o) <=> Sells(r, o)
<1> USE DEF IInv
<1>1. IsOn(r, o) => Sells(r, o)
  BY DEF LastInv, Last
<1>2. ASSUME Sells(r, o) PROVE IsOn(r, o)
  <2>1. PICK g \in Items : Active(View(r, g)) /\ View(r, g).op = o
    BY <1>2 DEF Sells
  <2>2. CASE owner[g] = r
    BY <2>1, <2>2, RunIsTyped DEF View, Active, DraftInv, Paired, IsOn
  <2>3. CASE owner[g] # r
    <3>1. Active(stored[g]) /\ stored[g].op = o
      BY <2>1, <2>3 DEF View
    <3>2. o \in on
      BY <3>1 DEF OperatorsHaveProducts, Selling
    <3>3. ownerOf[o] # r
      BY <2>3, <3>1 DEF ForeignInv, Foreign, Left, Past
    <3> QED
      BY <3>2, <3>3 DEF IsOn
  <2> QED
    BY <2>2, <2>3
<1> QED
  BY <1>1, <1>2

\* The other run, at its last statement while r commits.
LEMMA LastOfTheOther ==
  ASSUME IInv, NEW r \in Runs, Commit(r), NEW q \in Runs, q # r, run[q].pc = "operators",
         \A g \in Items : stored'[g] = View(r, g),
         \A o \in Operators : o \in on' <=> IsOn(r, o)
  PROVE  Last(q)'
<1> USE DEF IInv
<1>1. /\ run[r].pc = "operators" /\ run[r].victims = {}
      /\ UNCHANGED << draft, draftOn >> /\ Release(r)
  BY DEF Commit
<1>2. /\ \A g \in Items : owner'[g] = IF owner[g] = r THEN Nil ELSE owner[g]
      /\ \A o \in Operators : ownerOf'[o] = IF ownerOf[o] = r THEN Nil ELSE ownerOf[o]
      /\ run'[q] = run[q]
  BY <1>1, ReleaseTyped
<1>3. r # Nil /\ q # Nil
  BY RunIsTyped
<1>4. \A g \in Items : View(q, g)' = IF owner[g] = q THEN draft[g] ELSE View(r, g)
  BY <1>1, <1>2, <1>3 DEF View
<1>5. Last(q) /\ Foreign(q) /\ Foreign(r) /\ Past(q) /\ Past(r)
  BY <1>1 DEF LastInv, ForeignInv, Past
\* Neither still has an UPDATE of products to do.
<1>6. \A g \in Items : ~ Left(q, g) /\ ~ Left(r, g)
  BY <1>1 DEF Left
<1>7. \A o \in Operators : ownerOf'[o] = q <=> ownerOf[o] = q
  BY <1>2, <1>3
<1>8. \A g \in Items : owner'[g] = q <=> owner[g] = q
  BY <1>2, <1>3
<1>9. run[q].victims \subseteq Operators
  BY DEF RunInv, Placed
<1>10. ASSUME NEW o \in run[q].victims PROVE ~ Sells(q, o)'
  <2> SUFFICES ASSUME NEW g \in Items, Active(View(q, g)'), View(q, g)'.op = o PROVE FALSE
    BY DEF Sells, Active
  <2>1. o \in Operators /\ ~ Sells(q, o) /\ (ownerOf[o] # q => Taken(q, o))
    BY <1>5, <1>9 DEF Last
  <2>2. CASE owner[g] = r
    <3>1. draft[g] # Nil /\ draft[g].active /\ draft[g].op = o
      BY <1>4, <2>2 DEF View, Active
    <3>2. ownerOf[o] = r
      BY <1>3, <2>2, <3>1 DEF DraftInv, Paired
    <3>3. PICK k \in Items : owner[k] = q /\ Active(stored[k]) /\ stored[k].op = o
      BY <2>1, <3>2 DEF Taken
    <3> QED
      BY <1>5, <1>6, <3>2, <3>3 DEF Foreign
  <2>3. CASE owner[g] # r
    <3>1. View(q, g)' = View(q, g)
      BY <1>4, <2>3 DEF View
    <3> QED
      BY <2>1, <3>1 DEF Sells
  <2> QED
    BY <2>2, <2>3
<1>11. ASSUME NEW o \in run[q].victims, ownerOf'[o] # q PROVE Taken(q, o)'
  <2>1. o \in Operators
    BY <1>9
  <2>2. PICK k \in Items : owner[k] = q /\ Active(stored[k]) /\ stored[k].op = o
    BY <1>5, <1>7, <1>11, <2>1 DEF Last, Taken
  <2>3. stored'[k] = stored[k] /\ owner'[k] = q
    BY <1>8, <2>2 DEF View
  <2> QED
    BY <2>2, <2>3 DEF Taken, Active
<1>12. ASSUME NEW o \in Operators, IsOn(q, o)' PROVE o \in run[q].victims \/ Sells(q, o)'
  <2>1. ASSUME NEW g \in Items, owner[g] = q, Active(View(q, g)), View(q, g).op = o
        PROVE  Sells(q, o)'
    <3>1. View(q, g)' = View(q, g)
      BY <1>4, <2>1 DEF View
    <3> QED
      BY <2>1, <3>1 DEF Sells, Active
  <2>2. CASE ownerOf[o] = q
    <3>1. IsOn(q, o)
      BY <1>1, <1>7, <1>12, <2>2 DEF IsOn
    <3>2. ASSUME Sells(q, o) PROVE Sells(q, o)'
      <4>1. PICK g \in Items : Active(View(q, g)) /\ View(q, g).op = o
        BY <3>2 DEF Sells
      <4>2. owner[g] = q
        BY <1>5, <1>6, <2>2, <4>1 DEF Foreign, View
      <4> QED
        BY <2>1, <4>1, <4>2
    <3> QED
      BY <1>5, <3>1, <3>2 DEF Last
  <2>3. CASE ownerOf[o] # q
    <3>1. IsOn(r, o)
      BY <1>7, <1>12, <2>3 DEF IsOn
    <3>2. PICK g \in Items : Active(View(r, g)) /\ View(r, g).op = o
      BY <1>1, <3>1, LeftByTheRun DEF Sells
    <3>3. CASE owner[g] # q
      <4>1. View(q, g)' = View(r, g)
        BY <1>4, <3>3
      <4> QED
        BY <3>2, <4>1 DEF Sells, Active
    <3>4. CASE owner[g] = q
      <4>1. Active(stored[g]) /\ stored[g].op = o /\ owner[g] # r
        BY <3>2, <3>4 DEF View
      <4>2. ~ Covers(r)
        BY <1>6, <4>1 DEF Covers
      <4>3. Covers(q)
        BY <1>5, <4>2 DEF CoverInv
      <4>4. ownerOf[o] # r /\ o \in on
        BY <1>5, <1>6, <4>1 DEF Foreign, OperatorsHaveProducts, Selling
      <4>5. IsOn(q, o)
        BY <2>3, <4>4 DEF IsOn
      <4>6. ASSUME Sells(q, o) PROVE Sells(q, o)'
        <5>1. PICK k \in Items : Active(View(q, k)) /\ View(q, k).op = o
          BY <4>6 DEF Sells
        <5>2. owner[k] = q
          BY <1>6, <4>3, <5>1 DEF Covers, View
        <5> QED
          BY <2>1, <5>1, <5>2
      <4> QED
        BY <1>5, <4>5, <4>6 DEF Last
    <3> QED
      BY <3>3, <3>4
  <2> QED
    BY <2>2, <2>3
<1> QED
  BY <1>2, <1>10, <1>11, <1>12 DEF Last

LEMMA CommitStep ==
  ASSUME TwoRuns, IInv, NEW r \in Runs, Commit(r) PROVE IInv'
<1> USE DEF IInv
<1>1. /\ run[r].pc = "operators" /\ run[r].victims = {}
      /\ stored' = [g \in Items |-> View(r, g)]
      /\ on' = { o \in Operators : IsOn(r, o) }
      /\ UNCHANGED << listing, draft, draftOn, fetches >> /\ Release(r)
  BY DEF Commit
<1>2. /\ \A g \in Items : owner'[g] = IF owner[g] = r THEN Nil ELSE owner[g]
      /\ \A o \in Operators : ownerOf'[o] = IF ownerOf[o] = r THEN Nil ELSE ownerOf[o]
      /\ run'[r] = Idle /\ \A q \in Runs : q # r => run'[q] = run[q]
  BY <1>1, ReleaseTyped
<1>3. \A q \in Runs : q # Nil
  BY RunIsTyped
<1>4. /\ \A g \in Items : stored'[g] = View(r, g)
      /\ \A o \in Operators : o \in on' <=> IsOn(r, o)
  BY <1>1
<1>5. TypeOK'
  <2>1. \A g \in Items : View(r, g) \in Row \cup { Nil }
    BY DEF View, TypeOK
  <2>2. stored' \in [Items -> Row \cup { Nil }] /\ on' \subseteq Operators
    BY <1>1, <2>1
  <2> QED
    BY <1>1, <2>2, ReleaseTyped DEF TypeOK
<1>6. run'[r].pc = "idle" /\ run'[r].item = Nil /\ run'[r].todo = {}
  BY <1>2 DEF Idle
<1>7. \A q \in Runs : q # r =>
        /\ \A g \in Items : owner'[g] = q <=> owner[g] = q
        /\ \A o \in Operators : ownerOf'[o] = q <=> ownerOf[o] = q
  BY <1>2, <1>3
<1>8. DraftInv'
  <2> SUFFICES ASSUME NEW g \in Items, owner'[g] # Nil PROVE Paired(g)'
    BY DEF DraftInv, Paired
  <2>1. owner[g] # r /\ owner'[g] = owner[g] /\ Paired(g) /\ draft[g] \in Row \cup { Nil }
    BY <1>2 DEF DraftInv, TypeOK
  <2> QED
    BY <1>1, <1>2, <2>1 DEF Paired, Row
<1>9. RunInv'
  <2>1. Placed(r)'
    <3>1. (\A g \in Items : owner'[g] # r) /\ (\A o \in Operators : ownerOf'[o] # r)
      BY <1>2, <1>3
    <3> QED
      BY <1>6, <3>1 DEF Placed
  <2>2. ASSUME NEW q \in Runs, q # r PROVE Placed(q)'
    <3>1. Placed(q)
      BY DEF RunInv
    <3>2. run[q].item # Nil => run[q].want[run[q].item] \in Operators
      BY <3>1, Wanted DEF Placed
    <3>3. run'[q] = run[q] /\ draftOn' = draftOn
      BY <1>1, <1>2, <2>2
    <3> QED
      BY <1>7, <2>2, <3>1, <3>2, <3>3 DEF Placed
  <2> QED
    BY <2>1, <2>2 DEF RunInv
<1>10. ForeignInv'
  <2> SUFFICES ASSUME NEW q \in Runs, Past(q)', NEW g \in Items, owner'[g] # q,
                      Active(stored[g])', ownerOf'[stored'[g].op] = q
               PROVE  Left(q, g)'
    BY DEF ForeignInv, Foreign
  <2>1. q # r /\ run'[q] = run[q]
    BY <1>2, <1>6 DEF Past
  <2>2. stored'[g] = View(r, g) /\ stored'[g] # Nil /\ stored'[g].active /\ stored'[g].op \in Operators
    BY <1>4, <1>5 DEF Active, TypeOK, Row
  <2>3. ownerOf[stored'[g].op] = q
    BY <1>7, <2>1, <2>2
  <2>4. CASE owner[g] = r
    BY <1>3, <2>1, <2>2, <2>3, <2>4 DEF View, DraftInv, Paired
  <2>5. CASE owner[g] # r
    BY <1>7, <2>1, <2>2, <2>3, <2>5 DEF View, ForeignInv, Foreign, Active, Past, Left
  <2> QED
    BY <2>4, <2>5
<1>11. CoverInv'
  BY <1>6 DEF CoverInv, Past, TwoRuns
<1>12. LastInv'
  <2>1. Last(r)'
    BY <1>6 DEF Last
  <2>2. ASSUME NEW q \in Runs, q # r, run[q].pc = "operators" PROVE Last(q)'
    BY <1>4, <2>2, LastOfTheOther
  <2>3. ASSUME NEW q \in Runs, q # r, run[q].pc # "operators" PROVE Last(q)'
    BY <1>2, <2>3 DEF Last
  <2> QED
    BY <2>1, <2>2, <2>3 DEF LastInv
<1>13. OperatorsHaveProducts'
  <2>1. \A o \in Operators : o \in on' <=> Sells(r, o)
    BY <1>1, <1>4, LeftByTheRun
  <2>2. \A o \in Operators : Sells(r, o) <=> o \in Selling'
    BY <1>4 DEF Sells, Selling, Active
  <2>3. on' \subseteq Operators /\ Selling' \subseteq Operators
    BY <1>1 DEF Selling
  <2> QED
    BY <2>1, <2>2, <2>3 DEF OperatorsHaveProducts
<1> QED
  BY <1>5, <1>8, <1>9, <1>10, <1>11, <1>12, <1>13

-----------------------------------------------------------------------------
\* For any products, operators and catalogues, while no more than two runs of
\* sync_catalog overlap: the operators that are on are the ones that have an
\* active product, after every commit and whichever rows one run waited for.
THEOREM TwoRunsKeepOperators == ASSUME TwoRuns PROVE Spec => []OperatorsHaveProducts
<1>1. IInv /\ [Next]_vars => IInv'
  <2> SUFFICES ASSUME IInv, [Next]_vars PROVE IInv'
    OBVIOUS
  <2>1. CASE UNCHANGED vars
    BY <2>1 DEF vars, IInv, TypeOK, DraftInv, Paired, RunInv, Placed, ForeignInv, Foreign, CoverInv,
       Covers, Left, LastInv, Last, Taken, Past, Sells, View, IsOn, OperatorsHaveProducts, Selling
  <2> QED
    BY <2>1, OfferStep, FetchStep, UpsertOperatorStep, UpsertProductStep, BeginProductsStep, SwitchOffStep,
       BeginOperatorsStep, SwitchOffOperatorStep, AbortStep, CommitStep DEF Next
<1>2. IInv => OperatorsHaveProducts
  BY DEF IInv
<1> QED
  BY <1>1, <1>2, InvInit, PTL DEF Spec
-----------------------------------------------------------------------------
USE CommercialAssumption DEF RowKeys, MapKeys

(***************************************************************************)
(* The commercial catalogue                                                *)
(***************************************************************************)

Reviewed == [sku : Skus, is : Identities]

\* Proposals and approvals name a SKU and the identity it had.
ReviewsTyped ==
  /\ \A k \in DOMAIN proposal : proposal[k] \in Reviewed
  /\ approved \in [MapKeys -> Reviewed \cup { None }]

\* In every environment, not only the one that sells, a usable mapping is what
\* a person approved, and the provider's last word on its SKU.
UsableReviewed ==
  \A k \in MapKeys : Usable(k) =>
    /\ approved[k] = [sku |-> mapping[k].sku, is |-> mapping[k].is]
    /\ row[<< k[2], k[3], mapping[k].sku >>] # None
    /\ row[<< k[2], k[3], mapping[k].sku >>].is = mapping[k].is

ReviewInv == CommercialTypeOK /\ ReviewsTyped /\ UsableReviewed

LEMMA ReviewInit == CommercialInit => ReviewInv
  BY DEF CommercialInit, ReviewInv, CommercialTypeOK, ReviewsTyped, UsableReviewed, Usable,
     Envs

LEMMA ReviewLoad ==
  ASSUME ReviewInv, NEW p \in Products, NEW price \in Amounts, NEW status \in FileStatus,
         NEW data \in Data \cup { None }, Load(p, price, status, data)
  PROVE  ReviewInv'
<1>1. product' \in [Products -> CommercialProduct \cup { None }]
  <2> DEFINE new == [price |-> price, active |-> TRUE, status |-> status,
                     overdue |-> product[p] # None /\ product[p].overdue]
  <2>1. product' = [product EXCEPT ![p] = new]
    BY DEF Load
  <2>2. new \in CommercialProduct
    BY DEF ReviewInv, CommercialTypeOK, CommercialProduct
  <2> QED BY <2>1, <2>2 DEF ReviewInv, CommercialTypeOK
<1>2. versions' \in [Products -> Seq(CommercialProductVersion)]
  <2>1. versions[p] \in Seq(CommercialProductVersion)
    BY DEF ReviewInv, CommercialTypeOK
  <2>2. Version(versions[p], price, data) \in Seq(CommercialProductVersion)
    <3>1. CASE data = None
      BY <2>1, <3>1 DEF Version
    <3>2. CASE data # None
      <4>1. [price |-> price, data |-> data] \in CommercialProductVersion
        BY <3>2 DEF CommercialProductVersion
      <4> QED BY <2>1, <4>1 DEF Version
    <3> QED BY <3>1, <3>2
  <2> QED BY <2>2 DEF Load, ReviewInv, CommercialTypeOK
<1> QED BY <1>1, <1>2 DEF Load, ReviewInv, CommercialTypeOK, ReviewsTyped, UsableReviewed, Usable

LEMMA ReviewImport ==
  ASSUME ReviewInv, NEW q \in Providers, NEW feed \in Feeds, Import(q, feed)
  PROVE  ReviewInv'
<1> DEFINE e == mode[q]
           seen == { s \in Skus : feed[s] # None }
           newRow(k) == IF k[1] # q \/ k[2] # e THEN row[k]
                        ELSE IF k[3] \in seen THEN [is |-> feed[k[3]], active |-> TRUE]
                        ELSE IF row[k] # None THEN [row[k] EXCEPT !.active = FALSE] ELSE None
           stale(k) == /\ mapping[k] # None /\ k[2] = q /\ k[3] = e
                       /\ mapping[k].sku \in seen
                       /\ Changed(row[<< q, e, mapping[k].sku >>], feed[mapping[k].sku])
           newMap(k) == IF stale(k) THEN [mapping[k] EXCEPT !.status = "REVIEW_REQUIRED"]
                        ELSE mapping[k]
<1>1. /\ row' = [k \in RowKeys |-> newRow(k)]
      /\ mapping' = [k \in MapKeys |-> newMap(k)]
      /\ UNCHANGED << product, versions, mode, proposal, approved >>
  BY DEF Import
<1>2. /\ e \in Envs
      /\ \A s \in seen : feed[s] \in Identities
      /\ \A k \in RowKeys : row[k] \in ProviderCatalogItem \cup { None }
      /\ \A k \in MapKeys : mapping[k] \in ProviderProductMapping \cup { None }
  BY DEF ReviewInv, CommercialTypeOK
<1>3. \A k \in RowKeys : newRow(k) \in ProviderCatalogItem \cup { None }
  BY <1>2 DEF ProviderCatalogItem
<1>4. \A k \in MapKeys : newMap(k) \in ProviderProductMapping \cup { None }
  BY <1>2 DEF ProviderProductMapping
<1>5. CommercialTypeOK' /\ ReviewsTyped'
  BY <1>1, <1>3, <1>4 DEF ReviewInv, CommercialTypeOK, ReviewsTyped
<1>6. ASSUME NEW k \in MapKeys, Usable(k)'
      PROVE  /\ approved'[k] = [sku |-> mapping'[k].sku, is |-> mapping'[k].is]
             /\ row'[<< k[2], k[3], mapping'[k].sku >>] # None
             /\ row'[<< k[2], k[3], mapping'[k].sku >>].is = mapping'[k].is
  <2> DEFINE m == mapping[k]
             r == << k[2], k[3], m.sku >>
  <2>1. ~ stale(k) /\ mapping'[k] = m
    BY <1>1, <1>2, <1>6 DEF Usable, ProviderProductMapping
  <2>2. Usable(k) /\ m \in ProviderProductMapping /\ r \in RowKeys
    BY <1>2, <1>6, <2>1 DEF Usable, ProviderProductMapping
  <2>3. approved[k] = [sku |-> m.sku, is |-> m.is] /\ row[r] # None /\ row[r].is = m.is
    BY <2>2 DEF ReviewInv, UsableReviewed
  <2>4. row'[r] = newRow(r)
    BY <1>1, <2>2
  <2>5. newRow(r) # None /\ newRow(r).is = m.is
    <3>1. CASE k[2] # q \/ k[3] # e
      BY <3>1, <2>3
    <3>2. CASE k[2] = q /\ k[3] = e /\ m.sku \in seen
      <4>1. feed[m.sku] = row[r].is
        BY <2>1, <2>2, <2>3, <3>2 DEF Changed, Usable
      <4>2. newRow(r) = [is |-> feed[m.sku], active |-> TRUE]
        BY <3>2
      <4>3. newRow(r) \in [is : Identities, active : BOOLEAN]
        BY <1>2, <3>2, <4>2
      <4> QED BY <2>3, <4>1, <4>2, <4>3
    <3>3. CASE k[2] = q /\ k[3] = e /\ m.sku \notin seen
      <4>1. newRow(r) = [row[r] EXCEPT !.active = FALSE] /\ row[r] \in ProviderCatalogItem
        BY <1>2, <2>2, <2>3, <3>3
      <4>2. newRow(r) \in ProviderCatalogItem /\ newRow(r).is = row[r].is
        BY <4>1 DEF ProviderCatalogItem
      <4> QED BY <2>3, <4>2 DEF ProviderCatalogItem
    <3> QED BY <3>1, <3>2, <3>3
  <2> QED BY <1>1, <2>1, <2>3, <2>4, <2>5
<1> QED BY <1>5, <1>6 DEF ReviewInv, UsableReviewed

LEMMA ReviewMatch ==
  ASSUME ReviewInv, NEW q \in Providers, NEW e \in Envs, Match(q, e)
  PROVE  ReviewInv'
<1>1. ASSUME NEW p \in Products, Proposed(p, q, e) # None
      PROVE  Proposed(p, q, e) \in Reviewed
  <2> DEFINE s == CHOOSE s \in Exact(p, q, e) : TRUE
  <2>1. Exact(p, q, e) # {}
    <3>1. Cardinality(Exact(p, q, e)) = 1
      BY <1>1 DEF Proposed
    <3>2. Cardinality({}) = 0
      BY FS_EmptySet
    <3>3. ASSUME Exact(p, q, e) = {} PROVE FALSE
      <4>1. Cardinality(Exact(p, q, e)) = 0
        BY <3>2, <3>3, Zenon
      <4> QED BY <3>1, <4>1
    <3> QED BY <3>3
  <2>2. s \in Exact(p, q, e)
    BY <2>1
  <2>3. s \in Skus /\ row[<< q, e, s >>] # None /\ << q, e, s >> \in RowKeys
    BY <2>2 DEF Exact
  <2>4. row[<< q, e, s >>].is \in Identities
    BY <2>3 DEF ReviewInv, CommercialTypeOK, ProviderCatalogItem
  <2>5. Proposed(p, q, e) = [sku |-> s, is |-> row[<< q, e, s >>].is]
    BY <1>1 DEF Proposed
  <2> QED BY <2>3, <2>4, <2>5 DEF Reviewed
<1>2. \A k \in DOMAIN proposal' : k \in MapKeys /\ proposal'[k] \in Reviewed
  BY <1>1 DEF Match
<1> QED BY <1>2 DEF Match, ReviewInv, CommercialTypeOK, ReviewsTyped, UsableReviewed, Usable

LEMMA ReviewSave ==
  ASSUME ReviewInv, NEW k \in MapKeys, Save(k)
  PROVE  ReviewInv'
<1> DEFINE new == [sku |-> proposal[k].sku, is |-> proposal[k].is, enabled |-> FALSE,
                   status |-> "REVIEW_REQUIRED"]
<1>1. /\ mapping' = [mapping EXCEPT ![k] = new]
      /\ proposal' = [j \in DOMAIN proposal \ { k } |-> proposal[j]]
      /\ proposal[k] \in Reviewed
  BY DEF Save, Saved, ReviewInv, ReviewsTyped
<1>2. new \in ProviderProductMapping
  BY <1>1 DEF Reviewed, ProviderProductMapping
<1>3. CommercialTypeOK'
  <2>1. mapping' \in [MapKeys -> ProviderProductMapping \cup { None }]
    BY <1>1, <1>2 DEF ReviewInv, CommercialTypeOK
  <2>2. DOMAIN proposal' \subseteq MapKeys
    BY <1>1 DEF ReviewInv, CommercialTypeOK
  <2> QED BY <2>1, <2>2 DEF Save, ReviewInv, CommercialTypeOK
<1>5. ReviewsTyped'
  <2>1. \A j \in DOMAIN proposal' : proposal'[j] = proposal[j] /\ j \in DOMAIN proposal
    BY <1>1
  <2> QED BY <2>1 DEF Save, ReviewInv, ReviewsTyped
<1>4. UsableReviewed'
  BY <1>1 DEF Save, ReviewInv, CommercialTypeOK, UsableReviewed, Usable
<1> QED BY <1>3, <1>4, <1>5 DEF ReviewInv

LEMMA ReviewApprove ==
  ASSUME ReviewInv, NEW k \in MapKeys, Approve(k)
  PROVE  ReviewInv'
<1> DEFINE m == mapping[k]
<1>1. m \in ProviderProductMapping
  BY DEF Approve, ReviewInv, CommercialTypeOK
<1>2. /\ mapping' = [mapping EXCEPT ![k] = [m EXCEPT !.enabled = TRUE, !.status = "OK"]]
      /\ approved' = [approved EXCEPT ![k] = [sku |-> m.sku, is |-> m.is]]
      /\ row[<< k[2], k[3], m.sku >>] # None /\ row[<< k[2], k[3], m.sku >>].is = m.is
  BY <1>1 DEF Approve, ReviewInv, CommercialTypeOK
<1>3. /\ [m EXCEPT !.enabled = TRUE, !.status = "OK"] \in ProviderProductMapping
      /\ [m EXCEPT !.enabled = TRUE, !.status = "OK"].sku = m.sku
      /\ [m EXCEPT !.enabled = TRUE, !.status = "OK"].is = m.is
      /\ [sku |-> m.sku, is |-> m.is] \in Reviewed
  BY <1>1 DEF ProviderProductMapping, Reviewed
<1>4. CommercialTypeOK' /\ ReviewsTyped'
  BY <1>2, <1>3 DEF Approve, ReviewInv, CommercialTypeOK, ReviewsTyped
<1>5. ASSUME NEW j \in MapKeys, Usable(j)'
      PROVE  /\ approved'[j] = [sku |-> mapping'[j].sku, is |-> mapping'[j].is]
             /\ row'[<< j[2], j[3], mapping'[j].sku >>] # None
             /\ row'[<< j[2], j[3], mapping'[j].sku >>].is = mapping'[j].is
  <2>1. CASE j = k
    BY <1>2, <1>3, <2>1 DEF Approve, ReviewInv, CommercialTypeOK, ReviewsTyped
  <2>2. CASE j # k
    BY <1>2, <1>5, <2>2 DEF Approve, ReviewInv, CommercialTypeOK, ReviewsTyped, UsableReviewed, Usable
  <2> QED BY <2>1, <2>2
<1> QED BY <1>4, <1>5 DEF ReviewInv, UsableReviewed

LEMMA ReviewStep == ReviewInv /\ [CommercialNext]_catalogVars => ReviewInv'
<1> SUFFICES ASSUME ReviewInv, [CommercialNext]_catalogVars PROVE ReviewInv'
  OBVIOUS
<1>1. ASSUME NEW p \in Products, Expire(p) PROVE ReviewInv'
  <2>1. product' \in [Products -> CommercialProduct \cup { None }]
    <3>1. product[p] \in CommercialProduct
      BY <1>1 DEF Expire, ReviewInv, CommercialTypeOK
    <3>2. [product[p] EXCEPT !.overdue = TRUE] \in CommercialProduct
      BY <3>1 DEF CommercialProduct
    <3> QED BY <1>1, <3>2 DEF Expire, ReviewInv, CommercialTypeOK
  <2> QED BY <1>1, <2>1 DEF Expire, ReviewInv, CommercialTypeOK, ReviewsTyped, UsableReviewed, Usable
<1>2. ASSUME NEW p \in Products, NEW status \in Statuses, NEW active \in BOOLEAN,
             SetStatus(p, status, active)
      PROVE  ReviewInv'
  <2>1. product' \in [Products -> CommercialProduct \cup { None }]
    <3>1. product[p] \in CommercialProduct
      BY <1>2 DEF SetStatus, ReviewInv, CommercialTypeOK
    <3>2. [product[p] EXCEPT !.status = status, !.active = active] \in CommercialProduct
      BY <3>1 DEF CommercialProduct
    <3> QED BY <1>2, <3>2 DEF SetStatus, ReviewInv, CommercialTypeOK
  <2> QED BY <1>2, <2>1 DEF SetStatus, ReviewInv, CommercialTypeOK, ReviewsTyped, UsableReviewed, Usable
<1>3. ASSUME NEW q \in Providers, NEW e \in Envs, Reconfigure(q, e) PROVE ReviewInv'
  BY <1>3 DEF Reconfigure, ReviewInv, CommercialTypeOK, ReviewsTyped, UsableReviewed, Usable
<1>4. CASE UNCHANGED catalogVars
  BY <1>4 DEF catalogVars, ReviewInv, CommercialTypeOK, ReviewsTyped, UsableReviewed, Usable
<1> QED
  BY <1>1, <1>2, <1>3, <1>4, ReviewLoad, ReviewImport, ReviewMatch, ReviewSave, ReviewApprove
  DEF CommercialNext

LEMMA AlwaysReviewed == CommercialSpec => []ReviewInv
  BY ReviewInit, ReviewStep, PTL DEF CommercialSpec

\* Among candidates there is one of the least rank: elegir_ruta chooses it.
LEMMA RouteIsCandidate ==
  ASSUME NEW p \in Products, NEW ready \in SUBSET Providers, Route(p, ready) # None
  PROVE  Route(p, ready) \in Candidates(p) \cap ready
<1> DEFINE T == Candidates(p) \cap ready
           N == { Rank[q] : q \in T }
<1>1. T # {} /\ T \subseteq Providers
  BY DEF Route, Availability, Candidates
<1>2. N \subseteq Nat /\ N # {}
  BY <1>1
<1>3. PICK n \in N : \A m \in N : ~ (<< m, n >> \in OpToRel(<, Nat))
  BY <1>2, WFMin, NatLessThanWellFounded
<1>4. \A m \in N : n <= m
  <2> SUFFICES ASSUME NEW m \in N, m < n PROVE FALSE
    BY <1>2
  <2>1. m \in Nat /\ n \in Nat
    BY <1>2
  <2>2. << m, n >> \in OpToRel(<, Nat)
    BY <2>1 DEF OpToRel
  <2> QED BY <1>3, <2>2
<1>5. PICK q \in T : Rank[q] = n
  BY <1>3
<1>6. \A r \in T : Rank[q] <= Rank[r]
  BY <1>4, <1>5
<1> QED BY <1>5, <1>6 DEF Route

\* cargar, importar, emparejar and guardar in any order and at any moment of the
\* sale: whatever is sold or retried was approved as it is, and is what the
\* provider last said of its SKU.
THEOREM SalesAreReviewed == CommercialSpec => []SoldAsReviewed
<1>1. ASSUME ReviewInv PROVE SoldAsReviewed
  <2> SUFFICES ASSUME NEW p \in Products, NEW ready \in SUBSET Providers,
                      NEW q \in ({ Route(p, ready) } \cup { RetryRoute(p, r) : r \in Providers }) \ { None }
               PROVE  LET k == << p, q, mode[Main] >>
                          m == mapping[k] IN
                      /\ approved[k] = [sku |-> m.sku, is |-> m.is]
                      /\ row[<< q, mode[Main], m.sku >>].is = m.is
    BY DEF SoldAsReviewed
  <2>1. q \in Providers /\ Usable(<< p, q, mode[Main] >>)
    <3>1. CASE q = Route(p, ready)
      BY <3>1, RouteIsCandidate DEF Candidates
    <3>2. CASE q \in { RetryRoute(p, r) : r \in Providers }
      BY <3>2 DEF RetryRoute
    <3> QED BY <3>1, <3>2
  <2>2. << p, q, mode[Main] >> \in MapKeys
    BY <1>1, <2>1 DEF ReviewInv, CommercialTypeOK
  <2> QED BY <1>1, <2>1, <2>2 DEF ReviewInv, UsableReviewed
<1> QED BY <1>1, AlwaysReviewed, PTL

(***************************************************************************)
(* The counter                                                             *)
(***************************************************************************)

SaleRecord == [state : States, sku : Goods \cup { Nothing }, amount : Nat, at : Nat]
CacheEntry == [value : Nat \cup { NotSaid }, until : Nat]

SalesTyped ==
  /\ sale \in [Sales -> SaleRecord]
  /\ heard \in [Sales -> Nat \cup { NotSaid, Nothing }]
  /\ \A i \in Sales : sale[i].state = "checking" => heard[i] \in Nat \cup { NotSaid }
  /\ cached \in CacheEntry \cup { Nothing }
  /\ balance \in Nat /\ now \in Nat /\ orderly \in BOOLEAN

\* A report is forgotten when its time is over.
CacheLives == cached # Nothing => cached.until >= now /\ cached.until <= now + TTL

\* Sales that come one after the other: one of them is open.
OneOpen == \A i, j \in Sales : sale[i].state \in Open /\ sale[j].state \in Open => i = j

\* What is pending or on its way can be paid from the balance.
Covered == \A i \in Sales : sale[i].state \in { "pending", "sent" } => sale[i].amount <= balance

\* What a check was told is still there when it is cached.
HeardTruly ==
  \A i \in Sales : sale[i].state = "checking" =>
    heard[i] = NotSaid \/ (heard[i] \in Nat /\ heard[i] <= balance)

\* The cache promises more than there is only after a lost answer, and not for
\* longer than the life of a report from then on.
CachedTruly ==
  cached # Nothing /\ cached.value # NotSaid =>
    \/ cached.value <= balance
    \/ \E j \in Sales : sale[j].state = "lost" /\ cached.until <= sale[j].at + TTL

ServedInv ==
  /\ SalesTyped /\ CacheLives
  /\ Production /\ orderly => OneOpen /\ Covered /\ HeardTruly /\ CachedTruly /\ OneAtATimeIsServed

LEMMA ServedInit == CounterInit => ServedInv
  BY CounterAssumption DEF CounterInit, ServedInv, SalesTyped, SaleRecord, CacheEntry, CacheLives,
     OneOpen, Covered, HeardTruly, CachedTruly, OneAtATimeIsServed, States, Open, Fresh

\* What a decision writes, with a report that is true or not said.
LEMMA DecidedSale ==
  ASSUME SalesTyped, NEW i \in Sales, NEW s \in Goods \cup { Nothing }, NEW amount \in Nat,
         NEW value \in Nat \cup { NotSaid }, sale' = Decided(i, s, amount, value)
  PROVE  /\ sale' \in [Sales -> SaleRecord]
         /\ \A j \in Sales \ { i } : sale'[j] = sale[j]
         /\ sale'[i].state \in { "pending", "refused" } /\ sale'[i].amount = amount
         /\ Production /\ sale'[i].state = "pending" =>
              value # NotSaid /\ value \in Nat /\ amount <= value
<1> DEFINE new == [state |-> IF Permits(value, amount) THEN "pending" ELSE "refused",
                   sku |-> s, amount |-> amount, at |-> now]
<1>1. new \in SaleRecord
  BY DEF SaleRecord, States, SalesTyped
<1>2. sale' = [sale EXCEPT ![i] = new]
  BY DEF Decided
<1>3. sale'[i] = new /\ sale' \in [Sales -> SaleRecord]
  BY <1>1, <1>2 DEF SalesTyped
<1>4. Production /\ new.state = "pending" => value # NotSaid /\ value \in Nat /\ amount <= value
  BY CounterAssumption DEF Permits
<1> QED BY <1>2, <1>3, <1>4 DEF SalesTyped

LEMMA ServedFromCache ==
  ASSUME ServedInv, NEW i \in Sales, NEW s \in Goods, NEW amount \in Values,
         CreateFromCache(i, s, amount)
  PROVE  ServedInv'
<1>1. /\ cached # Nothing /\ cached \in CacheEntry /\ amount \in Nat
      /\ sale[i].state = "new"
      /\ sale' = Decided(i, s, amount, cached.value)
      /\ orderly' = (orderly /\ Alone(i))
      /\ UNCHANGED << now, balance, cached, heard >>
  BY CounterAssumption DEF CreateFromCache, ServedInv, SalesTyped
<1>2. cached.value \in Nat \cup { NotSaid } /\ SalesTyped
  BY <1>1 DEF CacheEntry, ServedInv
<1>3. /\ sale' \in [Sales -> SaleRecord]
      /\ \A j \in Sales \ { i } : sale'[j] = sale[j]
      /\ sale'[i].state \in { "pending", "refused" } /\ sale'[i].amount = amount
      /\ Production /\ sale'[i].state = "pending" =>
           cached.value # NotSaid /\ cached.value \in Nat /\ amount <= cached.value
  BY <1>1, <1>2, DecidedSale
<1>4. SalesTyped' /\ CacheLives'
  BY <1>1, <1>3 DEF ServedInv, SalesTyped, CacheLives
<1>5. ASSUME Production, orderly'
      PROVE  OneOpen' /\ Covered' /\ HeardTruly' /\ CachedTruly' /\ OneAtATimeIsServed'
  <2>1. /\ orderly /\ Alone(i)
        /\ OneOpen /\ Covered /\ HeardTruly /\ CachedTruly /\ OneAtATimeIsServed
    BY <1>1, <1>5 DEF ServedInv
  <2>2. \A j \in Sales \ { i } : sale[j].state \notin Open
    BY <2>1 DEF Alone
  <2>3. OneOpen'
    BY <1>3, <2>2 DEF OneOpen
  <2>4. ASSUME sale'[i].state = "pending" PROVE amount <= balance
    <3>1. cached.value # NotSaid /\ cached.value \in Nat /\ amount <= cached.value
      BY <1>3, <1>5, <2>4
    <3>2. ASSUME NEW j \in Sales, sale[j].state = "lost", cached.until <= sale[j].at + TTL
          PROVE  FALSE
      <4>1. j # i
        BY <1>1, <3>2
      <4>2. now > sale[j].at + TTL
        BY <1>2, <2>1, <3>2, <4>1, CounterAssumption DEF Alone, SalesTyped, SaleRecord
      <4>3. cached.until >= now
        BY <1>1 DEF ServedInv, CacheLives
      <4> QED BY <1>1, <1>2, <3>2, <4>2, <4>3, CounterAssumption DEF CacheEntry, SalesTyped, SaleRecord
    <3>3. cached.value <= balance
      BY <1>1, <2>1, <3>1, <3>2 DEF CachedTruly
    <3> QED BY <1>1, <1>2, <3>1, <3>3 DEF SalesTyped
  <2>5. Covered'
    BY <1>1, <1>3, <2>1, <2>4 DEF Covered
  <2>6. HeardTruly' /\ OneAtATimeIsServed'
    BY <1>1, <1>3, <1>5, <2>1 DEF HeardTruly, OneAtATimeIsServed
  <2>7. CachedTruly'
    <3>1. ASSUME NEW j \in Sales, sale[j].state = "lost" PROVE sale'[j] = sale[j]
      BY <1>1, <1>3, <3>1
    <3> QED BY <1>1, <2>1, <3>1 DEF CachedTruly
  <2> QED BY <2>1, <2>3, <2>5, <2>6, <2>7
<1> QED BY <1>4, <1>5 DEF ServedInv

LEMMA ServedAsk ==
  ASSUME ServedInv, NEW i \in Sales, NEW s \in Goods, NEW amount \in Values, Ask(i, s, amount)
  PROVE  ServedInv'
<1> DEFINE new == [state |-> "checking", sku |-> s, amount |-> amount, at |-> now]
<1>1. /\ sale[i].state = "new" /\ sale' = [sale EXCEPT ![i] = new]
      /\ heard' = [heard EXCEPT ![i] = balance] \/ heard' = [heard EXCEPT ![i] = NotSaid]
      /\ orderly' = (orderly /\ Alone(i))
      /\ cached = Nothing
      /\ UNCHANGED << now, balance, cached >>
  BY DEF Ask
<1>2. new \in SaleRecord /\ amount \in Nat
  BY CounterAssumption DEF SaleRecord, States, ServedInv, SalesTyped
<1>3. SalesTyped' /\ CacheLives' /\ CachedTruly'
  BY <1>1, <1>2 DEF ServedInv, SalesTyped, CacheLives, CachedTruly
<1>4. /\ \A j \in Sales \ { i } : sale'[j] = sale[j] /\ heard'[j] = heard[j]
      /\ sale'[i] = new /\ heard'[i] \in { balance, NotSaid } /\ balance \in Nat
  BY <1>1 DEF ServedInv, SalesTyped
<1>5. ASSUME Production, orderly'
      PROVE  OneOpen' /\ Covered' /\ HeardTruly' /\ OneAtATimeIsServed'
  <2>1. /\ orderly /\ Alone(i)
        /\ OneOpen /\ Covered /\ HeardTruly /\ CachedTruly /\ OneAtATimeIsServed
    BY <1>1, <1>5 DEF ServedInv
  <2>2. OneOpen'
    BY <1>4, <2>1 DEF OneOpen, Alone
  <2>3. Covered' /\ OneAtATimeIsServed'
    BY <1>1, <1>4, <1>5, <2>1 DEF Covered, OneAtATimeIsServed
  <2>4. HeardTruly'
    BY <1>1, <1>4, <2>1 DEF HeardTruly
  <2> QED BY <2>2, <2>3, <2>4
<1> QED BY <1>3, <1>5 DEF ServedInv

LEMMA ServedCreate ==
  ASSUME ServedInv, NEW i \in Sales, Create(i)
  PROVE  ServedInv'
<1> DEFINE report == [value |-> heard[i], until |-> now + TTL]
<1>1. /\ sale[i].state = "checking" /\ sale[i] \in SaleRecord
      /\ cached' = report
      /\ sale' = Decided(i, sale[i].sku, sale[i].amount, heard[i])
      /\ heard' = [heard EXCEPT ![i] = Nothing]
      /\ UNCHANGED << now, balance, orderly >>
  BY DEF Create, ServedInv, SalesTyped
<1>2. heard[i] \in Nat \cup { NotSaid }
  BY <1>1 DEF ServedInv, SalesTyped
<1>3. ServedInv'
  <2>1. /\ sale' \in [Sales -> SaleRecord]
        /\ \A j \in Sales \ { i } : sale'[j] = sale[j]
        /\ sale'[i].state \in { "pending", "refused" } /\ sale'[i].amount = sale[i].amount
        /\ Production /\ sale'[i].state = "pending" =>
             heard[i] # NotSaid /\ heard[i] \in Nat /\ sale[i].amount <= heard[i]
    BY <1>1, <1>2, DecidedSale DEF SaleRecord, ServedInv
  <2>2. report \in CacheEntry
    BY <1>2, CounterAssumption DEF CacheEntry, ServedInv, SalesTyped
  <2>3. SalesTyped' /\ CacheLives'
    BY <1>1, <2>1, <2>2, CounterAssumption DEF ServedInv, SalesTyped, CacheLives
  <2>4. ASSUME Production, orderly'
        PROVE  OneOpen' /\ Covered' /\ HeardTruly' /\ CachedTruly' /\ OneAtATimeIsServed'
    <3>1. /\ orderly /\ OneOpen /\ Covered /\ HeardTruly /\ OneAtATimeIsServed
      BY <1>1, <2>4 DEF ServedInv
    <3>2. OneOpen'
      BY <1>1, <2>1, <3>1 DEF OneOpen, Open
    <3>3. Covered'
      <4>1. sale'[i].state = "pending" => sale[i].amount <= balance
        BY <1>1, <2>1, <2>4, <3>1 DEF HeardTruly, ServedInv, SalesTyped, SaleRecord
      <4> QED BY <1>1, <2>1, <3>1, <4>1 DEF Covered
    <3>4. HeardTruly' /\ OneAtATimeIsServed'
      BY <1>1, <2>1, <2>4, <3>1 DEF HeardTruly, OneAtATimeIsServed, ServedInv, SalesTyped
    <3>5. CachedTruly'
      BY <1>1, <3>1 DEF HeardTruly, CachedTruly
    <3> QED BY <3>2, <3>3, <3>4, <3>5
  <2> QED BY <2>3, <2>4 DEF ServedInv
<1> QED BY <1>3

\* A sale moves from one state to another and keeps what it is about.
LEMMA MovedSale ==
  ASSUME SalesTyped, NEW i \in Sales, NEW st \in States, sale' = [sale EXCEPT ![i].state = st]
  PROVE  /\ sale' \in [Sales -> SaleRecord]
         /\ \A j \in Sales \ { i } : sale'[j] = sale[j]
         /\ sale'[i].state = st /\ sale'[i].amount = sale[i].amount
<1>1. sale[i] \in SaleRecord /\ sale' = [sale EXCEPT ![i] = [sale[i] EXCEPT !.state = st]]
  BY DEF SalesTyped
<1>2. [sale[i] EXCEPT !.state = st] \in SaleRecord
  BY <1>1 DEF SaleRecord
<1> QED BY <1>1, <1>2 DEF SalesTyped, SaleRecord

LEMMA ServedCancel ==
  ASSUME ServedInv, NEW i \in Sales, Cancel(i)
  PROVE  ServedInv'
<1>1. /\ sale[i].state = "pending"
      /\ \A j \in Sales \ { i } : sale'[j] = sale[j]
      /\ sale' \in [Sales -> SaleRecord] /\ sale'[i].state = "cancelled"
  BY MovedSale DEF Cancel, States, ServedInv
<1>2. SalesTyped' /\ CacheLives'
  BY <1>1 DEF Cancel, ServedInv, SalesTyped, CacheLives
<1>3. CachedTruly => CachedTruly'
  <2>1. ASSUME NEW j \in Sales, sale[j].state = "lost" PROVE sale'[j] = sale[j]
    BY <1>1, <2>1
  <2> QED BY <2>1 DEF Cancel, CachedTruly
<1>4. OneOpen /\ Covered /\ HeardTruly /\ OneAtATimeIsServed /\ Production /\ orderly =>
        OneOpen' /\ Covered' /\ HeardTruly' /\ OneAtATimeIsServed'
  BY <1>1 DEF Cancel, OneOpen, Open, Covered, HeardTruly, OneAtATimeIsServed
<1> QED BY <1>2, <1>3, <1>4 DEF Cancel, ServedInv

LEMMA ServedSend ==
  ASSUME ServedInv, NEW i \in Sales, Send(i)
  PROVE  ServedInv'
<1> DEFINE report == [value |-> balance, until |-> now + TTL]
<1>1. /\ sale[i].state = "pending"
      /\ \A j \in Sales \ { i } : sale'[j] = sale[j]
      /\ sale' \in [Sales -> SaleRecord] /\ sale'[i].state = "sent"
      /\ sale'[i].amount = sale[i].amount
  BY MovedSale DEF Send, States, ServedInv
<1>2. /\ cached' \in { report, cached } /\ UNCHANGED << now, balance, heard, orderly >>
      /\ report \in CacheEntry
  BY CounterAssumption DEF Send, CacheEntry, ServedInv, SalesTyped
<1>3. SalesTyped' /\ CacheLives'
  BY <1>1, <1>2, CounterAssumption DEF ServedInv, SalesTyped, CacheLives
<1>4. CachedTruly => CachedTruly'
  <2>1. ASSUME NEW j \in Sales, sale[j].state = "lost" PROVE sale'[j] = sale[j]
    BY <1>1, <2>1
  <2>2. CASE cached' = report
    BY <1>2, <2>2 DEF CachedTruly, ServedInv, SalesTyped
  <2>3. CASE cached' = cached
    BY <1>2, <2>1, <2>3 DEF CachedTruly
  <2> QED BY <1>2, <2>2, <2>3
<1>5. OneOpen /\ Covered /\ HeardTruly /\ OneAtATimeIsServed /\ Production /\ orderly =>
        OneOpen' /\ Covered' /\ HeardTruly' /\ OneAtATimeIsServed'
  BY <1>1, <1>2 DEF OneOpen, Open, Covered, HeardTruly, OneAtATimeIsServed
<1> QED BY <1>2, <1>3, <1>4, <1>5 DEF ServedInv

LEMMA ServedDeliver ==
  ASSUME ServedInv, NEW i \in Sales, Deliver(i)
  PROVE  ServedInv'
<1> DEFINE rest == balance - sale[i].amount
           report == [value |-> rest, until |-> now + TTL]
<1>1. /\ sale[i].state = "sent" /\ sale[i].amount \in Nat /\ rest \in Nat
      /\ \A j \in Sales \ { i } : sale'[j] = sale[j]
      /\ sale' \in [Sales -> SaleRecord] /\ sale'[i].state = "delivered"
  <2>1. sale[i].amount \in Nat /\ balance \in Nat /\ balance >= sale[i].amount
    BY DEF Deliver, ServedInv, SalesTyped, SaleRecord
  <2>2. rest \in Nat
    BY <2>1
  <2> QED BY <2>1, <2>2, MovedSale DEF Deliver, States, ServedInv
<1>2. /\ balance' = rest /\ cached' \in { report, Nothing }
      /\ UNCHANGED << now, heard, orderly >> /\ report \in CacheEntry
  BY <1>1, CounterAssumption DEF Deliver, Invalidated, CacheEntry, ServedInv, SalesTyped
<1>3. SalesTyped' /\ CacheLives'
  BY <1>1, <1>2, CounterAssumption DEF ServedInv, SalesTyped, CacheLives
<1>4. CachedTruly'
  BY <1>1, <1>2 DEF CachedTruly
<1>5. OneOpen /\ Covered /\ HeardTruly /\ OneAtATimeIsServed /\ Production /\ orderly =>
        OneOpen' /\ Covered' /\ HeardTruly' /\ OneAtATimeIsServed'
  BY <1>1, <1>2 DEF OneOpen, Open, Covered, HeardTruly, OneAtATimeIsServed
<1> QED BY <1>2, <1>3, <1>4, <1>5 DEF ServedInv

LEMMA ServedUnheard ==
  ASSUME ServedInv, NEW i \in Sales, DeliverUnheard(i)
  PROVE  ServedInv'
<1> DEFINE rest == balance - sale[i].amount
           new == [sale[i] EXCEPT !.state = "lost", !.at = now]
<1>1. /\ sale[i].state = "sent" /\ sale[i] \in SaleRecord /\ rest \in Nat /\ rest <= balance
      /\ sale' = [sale EXCEPT ![i] = new] /\ balance' = rest
      /\ UNCHANGED << now, cached, heard, orderly >>
  <2>1. /\ sale[i].amount \in Nat /\ balance \in Nat /\ balance >= sale[i].amount
        /\ sale[i] \in SaleRecord
    BY DEF DeliverUnheard, ServedInv, SalesTyped, SaleRecord
  <2>2. rest \in Nat /\ rest <= balance
    BY <2>1
  <2>3. sale' = [sale EXCEPT ![i] = new]
    BY DEF DeliverUnheard, ServedInv, SalesTyped
  <2> QED BY <2>1, <2>2, <2>3 DEF DeliverUnheard
<1>2. new \in SaleRecord /\ new.state = "lost" /\ new.at = now
  BY <1>1 DEF SaleRecord, States, ServedInv, SalesTyped
<1>3. sale'[i] = new /\ sale' \in [Sales -> SaleRecord] /\ \A j \in Sales \ { i } : sale'[j] = sale[j]
  BY <1>1, <1>2 DEF ServedInv, SalesTyped
<1>4. SalesTyped' /\ CacheLives'
  BY <1>1, <1>2, <1>3 DEF ServedInv, SalesTyped, CacheLives
<1>5. CachedTruly'
  <2>1. cached # Nothing => cached.until <= sale'[i].at + TTL
    BY <1>1, <1>2, <1>3 DEF ServedInv, CacheLives
  <2> QED BY <1>1, <1>2, <1>3, <2>1 DEF CachedTruly
<1>6. OneOpen /\ Covered /\ HeardTruly /\ OneAtATimeIsServed /\ Production /\ orderly =>
        OneOpen' /\ Covered' /\ HeardTruly' /\ OneAtATimeIsServed'
  BY <1>1, <1>2, <1>3 DEF OneOpen, Open, Covered, HeardTruly, OneAtATimeIsServed
<1> QED BY <1>1, <1>4, <1>5, <1>6 DEF ServedInv

\* The balance covers whatever is on its way, so that nothing is short.
LEMMA ServedShort ==
  ASSUME ServedInv, NEW i \in Sales, Short(i)
  PROVE  ServedInv'
<1>1. /\ sale[i].state = "sent" /\ balance < sale[i].amount
      /\ \A j \in Sales \ { i } : sale'[j] = sale[j]
      /\ sale' \in [Sales -> SaleRecord] /\ sale'[i].state = "short"
      /\ UNCHANGED << now, balance, cached, heard, orderly >>
  BY MovedSale DEF Short, States, ServedInv
<1>2. ~ (Production /\ orderly)
  BY <1>1 DEF ServedInv, Covered, SalesTyped, SaleRecord
<1>3. SalesTyped' /\ CacheLives'
  BY <1>1 DEF ServedInv, SalesTyped, CacheLives
<1> QED BY <1>1, <1>2, <1>3 DEF ServedInv

LEMMA ServedStep == ServedInv /\ [CounterNext]_counterVars => ServedInv'
<1> SUFFICES ASSUME ServedInv, [CounterNext]_counterVars PROVE ServedInv'
  OBVIOUS
<1>1. CASE UNCHANGED << now, balance, cached, sale, heard, orderly >>
  BY <1>1 DEF ServedInv, SalesTyped, CacheLives, OneOpen, Covered, HeardTruly, CachedTruly,
     OneAtATimeIsServed
<1>2. CASE Tick
  <2>1. /\ now' \in Nat /\ now' = now + 1 /\ UNCHANGED << balance, sale, heard, orderly >>
        /\ cached' = Nothing \/ (cached' = cached /\ cached.until >= now')
    BY <1>2 DEF Tick, saleVars, ServedInv, SalesTyped, CacheEntry
  <2>2. SalesTyped' /\ CacheLives'
    BY <2>1, CounterAssumption DEF ServedInv, SalesTyped, CacheLives, CacheEntry
  <2>3. CachedTruly => CachedTruly'
    BY <2>1 DEF CachedTruly
  <2>4. OneOpen /\ Covered /\ HeardTruly /\ OneAtATimeIsServed =>
          OneOpen' /\ Covered' /\ HeardTruly' /\ OneAtATimeIsServed'
    BY <2>1 DEF OneOpen, Covered, HeardTruly, OneAtATimeIsServed
  <2> QED BY <2>1, <2>2, <2>3, <2>4 DEF ServedInv
<1>3. ASSUME NEW o \in Offers, Synchronize(o) PROVE ServedInv'
  BY <1>1, <1>3 DEF Synchronize, saleVars
<1>4. CASE UNCHANGED counterVars
  BY <1>1, <1>4 DEF counterVars
<1> QED
  BY <1>2, <1>3, <1>4, ServedFromCache, ServedAsk, ServedCreate, ServedCancel, ServedSend,
     ServedDeliver, ServedUnheard, ServedShort
  DEF CounterNext

\* verificar_o_fallar over a cache that invalidar forgets: with any balance,
\* reserve and TTL, sales that come one after the other are all covered.
THEOREM OneAfterTheOther == CounterSpec => []OneAtATimeIsServed
<1>1. ServedInv => OneAtATimeIsServed
  BY DEF ServedInv, OneAtATimeIsServed
<1> QED BY <1>1, ServedInit, ServedStep, PTL DEF CounterSpec
=============================================================================
