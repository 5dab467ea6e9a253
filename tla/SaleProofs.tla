----------------------------- MODULE SaleProofs -----------------------------
(* Proofs about Sale and Till: one sale for each operation, the one that was *)
(* shown, and the change that belongs to the payment, for any number of      *)
(* threads, operations, retries and faults.                                  *)
EXTENDS Till, FiniteSetTheorems, TLAPS

(***************************************************************************)
(* The inductive invariant.                                                *)
(***************************************************************************)

Names == Whos \cup { Nothing }
Goods == Items \cup { Nothing }
Ops   == 0 .. MaxOps
Bodies == [flow : Flows, who : Names, item : Goods, f : Nat, o : Nat, op : Ops]
RequestPcs == { "idle", "phone", "choose", "inquire", "pop" } \cup Stages

Requested == [pc : RequestPcs, flow : Flows, saw : [Flows -> Draft], who : Names, item : Goods,
              f : Nat, o : Nat, try : Nat, asked : BOOLEAN]
Called    == [by : Requests \cup { Nothing }, stage : Stages, key : Keys \cup { Nothing },
              body : Bodies, pc : { "claim", "work", "seal" }, answer : Nat \cup { Nothing }]
KeyRow    == [status : { "free", "IN_PROGRESS", "COMPLETED" },
              body : Bodies \cup { Nothing }, answer : Nat \cup { Nothing }]
Delivered == [flow : Flows, who : Names, item : Goods, op : Ops, order : Nat]
Ordered   == [op : Ops, flow : Flows, who : Names, item : Goods, f : Nat]

SaleTypes ==
  /\ session \in [Flows -> Draft]
  /\ req \in [Requests -> Requested]
  /\ ops \in Ops /\ shown \subseteq Draft
  /\ row \in [Keys -> KeyRow]
  /\ calls \subseteq Called
  /\ fulfillments \in Seq(Delivered)
  /\ orders \in Seq(Ordered)

\* What a confirmation page showed of a sale.
Card(x) == [who |-> x.who, item |-> x.item, op |-> x.op]
Known(x, pages) == x.op # 0 /\ Card(x) \in pages

\* An operation was shown once; a draft with an operation is what was shown, a
\* draft without one has no product; and what the services were asked was shown.
ShownInv ==
  /\ \A a \in shown : a.op \in 1 .. ops
  /\ \A a, b \in shown : a.op = b.op => a = b
DraftFits(d, pages) == IF d.op = 0 THEN d.item = Nothing ELSE d \in pages
DraftInv ==
  /\ \A w \in Flows : DraftFits(session[w], shown)
  /\ \A r \in Requests, w \in Flows : DraftFits(req[r].saw[w], shown)
KnownInv ==
  /\ \A c \in calls : Known(c.body, shown)
  /\ \A i \in 1 .. Len(fulfillments) : Known(fulfillments[i], shown)
  /\ \A i \in 1 .. Len(orders) : Known(orders[i], shown)

\* An operation belongs to one flow: g says to which.
DraftsAre(g, drafts) == \A w \in Flows : drafts[w].op # 0 => g[drafts[w].op] = w
FlowsAre(g) ==
  /\ DraftsAre(g, session)
  /\ \A r \in Requests : DraftsAre(g, req[r].saw)
  /\ \A c \in calls : g[c.body.op] = c.body.flow
  /\ \A i \in 1 .. Len(fulfillments) : g[fulfillments[i].op] = fulfillments[i].flow
  /\ \A i \in 1 .. Len(orders) : g[orders[i].op] = orders[i].flow
FlowInv == \E g \in [Ops -> Flows] : FlowsAre(g)

\* Row i of topups or billpay, and row j of payments, are of operation op.
FulfillmentOf(F, i, op) == i \in 1 .. Len(F) /\ F[i].op = op
OrderOf(O, j, op)       == j \in 1 .. Len(O) /\ O[j].op = op

\* What a request knows of the rows it had made.
RequestFits(q, F, O) ==
  LET op == q.saw[q.flow].op IN
  /\ q.asked => q.pc \in Stages
  /\ q.pc \in { "order", "link", "pop" } => FulfillmentOf(F, q.f, op)
  /\ q.pc \in { "link", "pop" } => OrderOf(O, q.o, op)
  /\ q.pc = "link" => q.flow = "topup"
  /\ q.pc = "pop" /\ q.flow = "topup" => F[q.f].order = q.o
RequestInv == \A r \in Requests : RequestFits(req[r], fulfillments, orders)

\* What an attempt carries, and who waits for it.
CallFits(c, F, O) ==
  /\ c.key = CASE c.stage = "fulfillment" -> << c.body.flow, c.body.op >>
               [] c.stage = "order"       -> << "order", c.body.op >>
               [] OTHER                   -> Nothing
  /\ c.stage # "fulfillment" => FulfillmentOf(F, c.body.f, c.body.op)
  /\ c.stage = "link" => OrderOf(O, c.body.o, c.body.op) /\ c.pc # "claim" /\ c.body.flow = "topup"
WaitFits(c) == c.by # Nothing => req[c.by].asked /\ c.stage = req[c.by].pc /\ c.body = Body(c.by)
CallInv ==
  /\ \A c \in calls : CallFits(c, fulfillments, orders) /\ WaitFits(c)
  /\ \A c, d \in calls : c.by # Nothing /\ c.by = d.by => c = d

\* An attempt at work holds the row of its key, alone.
Holds(c) == c.key # Nothing /\ c.pc # "claim"
HoldInv ==
  /\ \A c \in calls : Holds(c) => row[c.key].status = "IN_PROGRESS"
  /\ \A c, d \in calls : Holds(c) /\ Holds(d) /\ c.key = d.key => c = d
  /\ \A k \in Keys : row[k].status = "free" => row[k] = Free

\* What was answered, or is about to be, is a row of the operation.
Answers(F, O, c, answer) ==
  CASE c.stage = "fulfillment" -> FulfillmentOf(F, answer, c.body.op)
    [] c.stage = "order"       -> OrderOf(O, answer, c.body.op)
    [] c.stage = "link"        -> F[c.body.f].order = c.body.o
AnswerInv ==
  /\ \A c \in calls : c.pc = "seal" => Answers(fulfillments, orders, c, c.answer)
  /\ \A w \in Flows, op \in Ops :
       row[<< w, op >>].status = "COMPLETED" => FulfillmentOf(fulfillments, row[<< w, op >>].answer, op)
  /\ \A op \in Ops :
       row[<< "order", op >>].status = "COMPLETED" => OrderOf(orders, row[<< "order", op >>].answer, op)

\* One row for each operation.  A fulfillment keeps the key of its operation taken,
\* and nobody is at work on another one.
AtWork(c, op) == c.pc = "work" /\ c.stage = "fulfillment" /\ c.body.op = op
UniqueInv ==
  /\ \A i, j \in 1 .. Len(fulfillments) : fulfillments[i].op = fulfillments[j].op => i = j
  /\ \A i, j \in 1 .. Len(orders) : orders[i].op = orders[j].op => i = j
TakenInv ==
  \A i \in 1 .. Len(fulfillments) :
    /\ row[<< fulfillments[i].flow, fulfillments[i].op >>].status # "free"
    /\ \A c \in calls : ~ AtWork(c, fulfillments[i].op)
LinkInv ==
  /\ \A i \in 1 .. Len(fulfillments) : fulfillments[i].order # 0 =>
       fulfillments[i].order \in 1 .. Len(orders) /\ orders[fulfillments[i].order].f = i
  /\ \A j \in 1 .. Len(orders) : FulfillmentOf(fulfillments, orders[j].f, orders[j].op)

SaleInv ==
  /\ SaleTypes /\ ShownInv /\ DraftInv /\ KnownInv /\ FlowInv
  /\ RequestInv /\ CallInv /\ HoldInv /\ AnswerInv
  /\ UniqueInv /\ TakenInv /\ LinkInv

-----------------------------------------------------------------------------
(* The inductive invariant of the till                                       *)

Tills   == { "pay", "cash", "execute" }
Clerks  == [pc : Tills \cup { "idle" }, amount : Nat, try : Nat, asked : BOOLEAN]
Rung    == [by : Requests \cup { Nothing }, stage : Tills, key : Keys, body : Nat,
            pc : { "claim", "work", "seal" }, answer : Nat \cup { Nothing }]
RungRow == [status : { "free", "IN_PROGRESS", "COMPLETED", "FAILED" },
            body : Nat \cup { Nothing }, answer : Nat \cup { Nothing }]
TillTypes ==
  /\ clerk \in [Requests -> Clerks]
  /\ row \in [Keys -> RungRow]
  /\ calls \subseteq Rung
  /\ tendered \in Nat
  /\ \A r \in Requests : clerk[r].asked => clerk[r].pc \in Tills

CashKey == << "cash", 1 >>

\* What an attempt carries, who waits for it, and the row it holds, alone.
AskedInv ==
  /\ \A c \in calls :
       /\ c.key = << c.stage, 1 >>
       /\ c.by # Nothing =>
            /\ clerk[c.by].asked /\ clerk[c.by].pc = c.stage
            /\ c.stage = "cash" => c.body = clerk[c.by].amount
       /\ c.pc # "claim" => row[c.key].status = "IN_PROGRESS"
  /\ \A c, d \in calls : c.by # Nothing /\ c.by = d.by => c = d
  /\ \A c, d \in calls : c.pc # "claim" /\ d.pc # "claim" /\ c.key = d.key => c = d

\* The payment is confirmed by the one attempt that works on the key, and what it
\* answers is of what it confirmed.
CashInv ==
  /\ row[CashKey].status = "free" => tendered = 0
  /\ row[CashKey].status = "COMPLETED" =>
       tendered = row[CashKey].body /\ row[CashKey].answer = tendered - Total
  /\ \A c \in calls : c.stage = "cash" /\ c.pc # "claim" =>
       /\ row[CashKey].body = c.body
       /\ c.pc = "work" => tendered = 0
       /\ c.pc = "seal" => tendered = c.body /\ c.answer = tendered - Total
  /\ told # {} => row[CashKey].status = "COMPLETED"
  /\ ChangeIsTrue

TillInv == TillTypes /\ AskedInv /\ CashInv

\* Only one of the two desks is open.
DeskInv ==
  /\ desk \in { "sale", "till" }
  /\ desk = "sale" => SaleInv /\ told = {}
  /\ desk = "till" => TillInv /\ fulfillments = << >> /\ orders = << >> /\ \A r \in Requests : req[r] = Idle

-----------------------------------------------------------------------------
(* Facts about the keys and about rows that are added                        *)

LEMMA KeyFacts ==
  /\ Nothing \notin Keys /\ Nothing \notin Requests /\ Nothing \notin Whos /\ Nothing \notin Items
  /\ \A w \in Flows, op \in Ops : << w, op >> \in Keys
  /\ \A op \in Ops : << "order", op >> \in Keys
  /\ MaxOps \in Nat \ { 0 } /\ MaxRetries \in Nat
BY SaleAssumption DEF Flows, Ops

\* Rows of the services only grow, and an order that a fulfillment knows stays.
Grow(F, O, F2, O2) ==
  /\ \A i \in 1 .. Len(F) : /\ i \in 1 .. Len(F2) /\ F2[i].op = F[i].op
                            /\ F[i].order # 0 => F2[i].order = F[i].order
  /\ \A j \in 1 .. Len(O) : j \in 1 .. Len(O2) /\ O2[j] = O[j]

LEMMA RowsStay ==
  ASSUME NEW F, NEW O, NEW F2, NEW O2, Grow(F, O, F2, O2)
  PROVE  /\ \A i, op : FulfillmentOf(F, i, op) => FulfillmentOf(F2, i, op)
         /\ \A j, op : OrderOf(O, j, op) => OrderOf(O2, j, op)
BY DEF Grow, FulfillmentOf, OrderOf

\* What a request and an attempt know stays true while rows grow.
LEMMA KnownStays ==
  ASSUME NEW F, NEW O, NEW F2, NEW O2, Grow(F, O, F2, O2)
  PROVE  /\ \A q \in Requested : RequestFits(q, F, O) => RequestFits(q, F2, O2)
         /\ \A c \in Called : CallFits(c, F, O) => CallFits(c, F2, O2)
<1>1. ASSUME NEW q \in Requested, RequestFits(q, F, O) PROVE RequestFits(q, F2, O2)
  <2>1. q.pc = "pop" /\ q.flow = "topup" => q.f \in 1 .. Len(F) /\ F[q.f].order = q.o /\ q.o # 0
    BY <1>1 DEF RequestFits, FulfillmentOf, OrderOf
  <2>2. q.pc = "pop" /\ q.flow = "topup" => F2[q.f].order = q.o
    BY <2>1 DEF Grow
  <2> QED BY <1>1, <2>2, RowsStay DEF RequestFits
<1>2. ASSUME NEW c \in Called, CallFits(c, F, O) PROVE CallFits(c, F2, O2)
  BY <1>2, RowsStay DEF CallFits
<1> QED BY <1>1, <1>2

LEMMA AnswersStay ==
  ASSUME NEW F, NEW O, NEW F2, NEW O2, Grow(F, O, F2, O2),
         NEW c \in Called, CallFits(c, F, O), NEW a, Answers(F, O, c, a)
  PROVE  Answers(F2, O2, c, a)
<1>1. c.stage \in { "fulfillment", "order", "link" }
  BY DEF Called, Stages
<1>2. CASE c.stage = "link"
  <2>1. c.body.f \in 1 .. Len(F) /\ F[c.body.f].order = c.body.o /\ c.body.o # 0
    BY <1>2 DEF Answers, CallFits, FulfillmentOf, OrderOf
  <2> QED BY <1>2, <2>1 DEF Answers, Grow
<1> QED BY <1>1, <1>2, RowsStay DEF Answers

\* Nobody waits for an attempt of a thread that asked for nothing.
LEMMA NobodyWaits ==
  ASSUME SaleInv, NEW r \in Requests, ~ req[r].asked
  PROVE  \A c \in calls : c.by # r
BY KeyFacts DEF SaleInv, CallInv, WaitFits

LEMMA EmptyDraft ==
  /\ NoDraft \in Draft /\ Idle \in Requested /\ Idle.pc = "idle" /\ ~ Idle.asked
  /\ \A w \in Flows : Idle.saw[w] = NoDraft
  /\ NoDraft.op = 0 /\ NoDraft.item = Nothing
BY KeyFacts DEF NoDraft, Draft, Idle, Requested, RequestPcs, Names, Goods, Flows

LEMMA SaleInitial == Init => SaleInv
<1> SUFFICES ASSUME Init PROVE SaleInv
  OBVIOUS
<1>1. SaleTypes
  BY EmptyDraft, KeyFacts DEF Init, SaleTypes, Ops, KeyRow, Free
<1>2. ShownInv /\ KnownInv
  BY DEF Init, ShownInv, KnownInv
<1>3. DraftInv
  BY EmptyDraft DEF Init, DraftInv, DraftFits
<1>4. FlowInv
  <2>1. PICK g : g \in [Ops -> Flows]
    <3>1. [op \in Ops |-> "topup"] \in [Ops -> Flows]
      BY DEF Flows
    <3> QED BY <3>1
  <2>2. FlowsAre(g)
    BY EmptyDraft DEF Init, FlowsAre, DraftsAre
  <2> QED BY <2>1, <2>2 DEF FlowInv
<1>5. RequestInv
  BY EmptyDraft DEF Init, RequestInv, RequestFits
<1>6. CallInv /\ HoldInv /\ UniqueInv /\ TakenInv /\ LinkInv
  BY DEF Init, CallInv, HoldInv, UniqueInv, TakenInv, LinkInv, Free
<1>7. AnswerInv
  BY KeyFacts DEF Init, AnswerInv, Free
<1> QED BY <1>1, <1>2, <1>3, <1>4, <1>5, <1>6, <1>7 DEF SaleInv

-----------------------------------------------------------------------------
(* The pages                                                                 *)

Page(r) == Open(r) \/ ValidatePhone(r) \/ ConfirmStep(r) \/ Inquire(r) \/ Expired(r) \/ Pop(r)

\* What a page does to a draft: it empties it, or shows a new operation.
Emptied(d) == d.op = 0 /\ d.item = Nothing /\ ops' = ops /\ shown' = shown
Shows(d)   == d.op = ops + 1 /\ ops < MaxOps /\ ops' = ops + 1 /\ shown' = shown \cup { d }
Writes(r)  ==
  \E w \in Flows, d \in Draft :
    session' = [req[r].saw EXCEPT ![w] = d] /\ (Emptied(d) \/ Shows(d))

LEMMA ConfirmableWrites ==
  ASSUME SaleTypes, NEW r \in Requests, NEW flow \in Flows, NEW who \in Names, NEW item \in Goods,
         Confirmable(r, flow, who, item)
  PROVE  Writes(r) /\ req' = [req EXCEPT ![r] = Idle]
<1> DEFINE d == [who |-> who, item |-> item, op |-> ops + 1]
<1>1. d \in Draft
  BY KeyFacts DEF Confirmable, Draft, Names, Goods, SaleTypes, Ops
<1>2. Shows(d) /\ session' = [req[r].saw EXCEPT ![flow] = d]
  BY DEF Confirmable, Shows, Save
<1> HIDE DEF d
<1> QED BY <1>1, <1>2 DEF Confirmable, Save, Writes

LEMMA PageShape ==
  ASSUME SaleTypes, RequestInv, NEW r \in Requests, Page(r)
  PROVE  /\ \E n \in Requested : /\ req' = [req EXCEPT ![r] = n]
                                 /\ ~ n.asked /\ n.pc \notin { "order", "link", "pop" }
                                 /\ n.saw \in { session, Idle.saw }
         /\ ~ req[r].asked
         /\ (session' = session /\ UNCHANGED << ops, shown >>) \/ Writes(r)
         /\ UNCHANGED << row, calls, fulfillments, orders >>
<1> DEFINE Bare == req' = [req EXCEPT ![r] = Idle]
<1> DEFINE Plain == session' = session /\ UNCHANGED << ops, shown >>
<1> DEFINE Same == UNCHANGED << row, calls, fulfillments, orders >>
<1>0. req[r] \in Requested /\ req[r].saw \in [Flows -> Draft] /\ session \in [Flows -> Draft]
  BY DEF SaleTypes, Requested
<1>1. Bare => \E n \in Requested : /\ req' = [req EXCEPT ![r] = n]
                                   /\ ~ n.asked /\ n.pc \notin { "order", "link", "pop" }
                                   /\ n.saw \in { session, Idle.saw }
  BY EmptyDraft
<1>2. CASE Open(r)
  <2>1. ~ req[r].asked /\ Plain /\ Same
    BY <1>2 DEF Open, Idle, services
  <2>2. ASSUME NEW pc \in { "phone", "choose", "inquire", "fulfillment" }, NEW flow \in Flows,
               NEW who \in Names, NEW item \in Goods, Begin(r, pc, flow, who, item)
        PROVE  \E n \in Requested : /\ req' = [req EXCEPT ![r] = n]
                                    /\ ~ n.asked /\ n.pc \notin { "order", "link", "pop" }
                                    /\ n.saw \in { session, Idle.saw }
    <3> DEFINE n == [Idle EXCEPT !.pc = pc, !.flow = flow, !.saw = session, !.who = who, !.item = item]
    <3>1. n \in Requested /\ ~ n.asked /\ n.pc = pc /\ n.saw = session
      BY ZenonT(30), <1>0, EmptyDraft DEF Idle, Requested, RequestPcs, Stages
    <3>2. req' = [req EXCEPT ![r] = n]
      BY <2>2 DEF Begin
    <3> HIDE DEF n
    <3> QED BY <3>1, <3>2
  <2>3. \E pc \in { "phone", "choose", "inquire", "fulfillment" }, flow \in Flows, who \in Names,
           item \in Goods : Begin(r, pc, flow, who, item)
    <3>1. "topup" \in Flows /\ "bill" \in Flows /\ Nothing \in Names /\ Nothing \in Goods
          /\ Whos \subseteq Names /\ Items \subseteq Goods
      BY DEF Flows, Names, Goods
    <3> QED BY <1>2, <3>1 DEF Open
  <2> QED BY <2>1, <2>2, <2>3
<1>3. CASE ValidatePhone(r)
  <2> DEFINE d == [NoDraft EXCEPT !.who = req[r].who]
  <2>0. d = [who |-> req[r].who, item |-> Nothing, op |-> 0] /\ req[r].who \in Names
    BY <1>0 DEF NoDraft, Requested
  <2>1. d \in Draft /\ Emptied(d)
    BY <2>0, <1>3, KeyFacts DEF ValidatePhone, Emptied, Draft, Names
  <2>2. session' = [req[r].saw EXCEPT !["topup"] = d] /\ Bare /\ Same /\ "topup" \in Flows
    BY <1>3 DEF ValidatePhone, Save, services, Flows
  <2>3. ~ req[r].asked
    BY <1>3 DEF ValidatePhone, RequestInv, RequestFits, Stages
  <2> HIDE DEF d
  <2> QED BY <1>1, <2>1, <2>2, <2>3 DEF Writes
<1>4. CASE ConfirmStep(r)
  <2>1. ~ req[r].asked /\ Same
    BY <1>4 DEF ConfirmStep, RequestInv, RequestFits, Stages, services
  <2>2. CASE Leave(r) /\ UNCHANGED << ops, shown >>
    BY <1>1, <2>1, <2>2 DEF Leave
  <2>3. CASE Confirmable(r, "topup", req[r].saw["topup"].who, req[r].item)
    <3>1. req[r].saw["topup"].who \in Names /\ req[r].item \in Goods /\ "topup" \in Flows
      BY <1>0 DEF Requested, Draft, Names, Goods, Flows
    <3> QED BY <1>1, <2>1, <2>3, <3>1, ConfirmableWrites
  <2> QED BY <1>4, <2>2, <2>3 DEF ConfirmStep
<1>5. CASE Inquire(r)
  <2>1. ~ req[r].asked /\ Same
    BY <1>5 DEF Inquire, RequestInv, RequestFits, Stages, services
  <2>2. CASE Leave(r) /\ UNCHANGED << ops, shown >>
    BY <1>1, <2>1, <2>2 DEF Leave
  <2>3. CASE Confirmable(r, "bill", req[r].who, req[r].item)
    <3>1. req[r].who \in Names /\ req[r].item \in Goods /\ "bill" \in Flows
      BY <1>0 DEF Requested, Flows
    <3> QED BY <1>1, <2>1, <2>3, <3>1, ConfirmableWrites
  <2> QED BY <1>5, <2>2, <2>3 DEF Inquire
<1>6. CASE Expired(r)
  BY <1>1, <1>6 DEF Expired, Leave, services
<1>7. CASE Pop(r)
  <2>1. ~ req[r].asked /\ Same
    BY <1>7 DEF Pop, RequestInv, RequestFits, Stages, services
  <2>2. session' = [req[r].saw EXCEPT ![req[r].flow] = NoDraft] /\ Bare /\ Emptied(NoDraft)
    BY <1>7, EmptyDraft DEF Pop, Save, Emptied
  <2>3. req[r].flow \in Flows
    BY <1>0 DEF Requested
  <2> QED BY <1>1, <2>1, <2>2, <2>3, EmptyDraft DEF Writes
<1> QED BY <1>2, <1>3, <1>4, <1>5, <1>6, <1>7 DEF Page

\* A page touches drafts only: what was asked, made and known is as it was.
LEMMA PageKeepsRows ==
  ASSUME SaleInv, NEW r \in Requests, Page(r)
  PROVE  RequestInv' /\ CallInv' /\ HoldInv' /\ AnswerInv' /\ UniqueInv' /\ TakenInv' /\ LinkInv'
<1>1. PICK n \in Requested : /\ req' = [req EXCEPT ![r] = n]
                             /\ ~ n.asked /\ n.pc \notin { "order", "link", "pop" }
  BY PageShape DEF SaleInv
<1>2. ~ req[r].asked /\ UNCHANGED << row, calls, fulfillments, orders >>
  BY PageShape DEF SaleInv
<1>4. \A q \in Requests : req'[q] = IF q = r THEN n ELSE req[q]
  BY <1>1 DEF SaleInv, SaleTypes
<1>5. RequestInv'
  <2>1. RequestFits(n, fulfillments, orders)
    BY <1>1 DEF RequestFits
  <2> QED BY <1>2, <1>4, <2>1 DEF SaleInv, RequestInv
<1>6. CallInv'
  <2>1. \A c \in calls : c.by # r
    BY <1>2, NobodyWaits
  <2>2. ASSUME NEW c \in calls PROVE WaitFits(c)'
    <3>1. WaitFits(c) /\ c.by # r /\ c.by \in Requests \cup { Nothing }
      BY <2>1 DEF SaleInv, CallInv, SaleTypes, Called
    <3>2. c.by # Nothing => req'[c.by] = req[c.by]
      BY <1>4, <3>1
    <3> QED BY <3>1, <3>2 DEF WaitFits, Body, DraftOf
  <2> QED BY <1>2, <2>2 DEF CallInv, SaleInv
<1>7. HoldInv' /\ UniqueInv' /\ TakenInv' /\ LinkInv'
  BY <1>2 DEF SaleInv, HoldInv, UniqueInv, TakenInv, LinkInv, Holds, AtWork
<1>8. AnswerInv'
  BY <1>2 DEF SaleInv, AnswerInv
<1> QED BY <1>5, <1>6, <1>7, <1>8

LEMMA PageKeepsDrafts ==
  ASSUME SaleInv, NEW r \in Requests, Page(r)
  PROVE  SaleTypes' /\ ShownInv' /\ DraftInv' /\ KnownInv' /\ FlowInv'
<1>1. PICK n \in Requested : /\ req' = [req EXCEPT ![r] = n]
                             /\ n.saw \in { session, Idle.saw }
  BY PageShape DEF SaleInv
<1>2. UNCHANGED << row, calls, fulfillments, orders >>
  BY PageShape DEF SaleInv
<1>3. \A q \in Requests : req'[q] = IF q = r THEN n ELSE req[q]
  BY <1>1 DEF SaleInv, SaleTypes
<1>4. CASE session' = session /\ UNCHANGED << ops, shown >>
  <2>1. SaleTypes'
    BY <1>1, <1>2, <1>4 DEF SaleInv, SaleTypes
  <2>2. ShownInv' /\ KnownInv'
    BY <1>2, <1>4 DEF SaleInv, ShownInv, KnownInv, Known
  <2>3. DraftInv'
    BY <1>1, <1>3, <1>4, EmptyDraft DEF SaleInv, DraftInv, DraftFits
  <2>4. FlowInv'
    <3>1. PICK g \in [Ops -> Flows] : FlowsAre(g)
      BY DEF SaleInv, FlowInv
    <3>2. DraftsAre(g, Idle.saw)
      BY EmptyDraft DEF DraftsAre
    <3>3. FlowsAre(g)'
      BY <1>1, <1>2, <1>3, <1>4, <3>1, <3>2 DEF FlowsAre, DraftsAre
    <3> QED BY <3>3 DEF FlowInv
  <2> QED BY <2>1, <2>2, <2>3, <2>4
<1>5. CASE Writes(r)
  <2>1. PICK w \in Flows, d \in Draft :
          session' = [req[r].saw EXCEPT ![w] = d] /\ (Emptied(d) \/ Shows(d))
    BY <1>5 DEF Writes
  <2>2. req[r].saw \in [Flows -> Draft]
    BY DEF SaleInv, SaleTypes, Requested
  <2>3. \A v \in Flows : session'[v] = IF v = w THEN d ELSE req[r].saw[v]
    BY <2>1, <2>2
  <2>4. shown \subseteq shown' /\ ops \in Ops /\ MaxOps \in Nat
    BY <2>1, KeyFacts DEF Emptied, Shows, SaleInv, SaleTypes
  <2>5. SaleTypes'
    <3>1. session' \in [Flows -> Draft]
      BY <2>1, <2>2
    <3>2. ops' \in Ops /\ shown' \subseteq Draft
      BY <2>1, <2>4 DEF Emptied, Shows, SaleInv, SaleTypes, Ops
    <3>3. req' \in [Requests -> Requested]
      BY <1>1 DEF SaleInv, SaleTypes
    <3> QED BY <1>2, <3>1, <3>2, <3>3 DEF SaleInv, SaleTypes
  <2>6. ShownInv'
    <3>1. CASE Emptied(d)
      BY <3>1 DEF Emptied, SaleInv, ShownInv
    <3>2. CASE Shows(d)
      BY <2>4, <3>2 DEF Shows, SaleInv, ShownInv, Ops
    <3> QED BY <2>1, <3>1, <3>2
  <2>7. KnownInv'
    BY <1>2, <2>4 DEF SaleInv, KnownInv, Known, Card
  <2>8. DraftInv'
    <3>1. \A e : DraftFits(e, shown) => DraftFits(e, shown')
      BY <2>4 DEF DraftFits
    <3>2. DraftFits(d, shown')
      BY <2>1, <2>4 DEF DraftFits, Emptied, Shows, Ops
    <3>3. \A v \in Flows : DraftFits(session'[v], shown')
      BY <2>3, <3>1, <3>2 DEF SaleInv, DraftInv
    <3>4. \A v \in Flows : DraftFits(n.saw[v], shown')
      BY <1>1, <3>1, EmptyDraft DEF SaleInv, DraftInv, DraftFits
    <3>5. \A q \in Requests, v \in Flows : DraftFits(req'[q].saw[v], shown')
      BY <1>3, <3>1, <3>4 DEF SaleInv, DraftInv
    <3> QED BY <3>3, <3>5 DEF DraftInv
  <2>9. FlowInv'
    <3>1. PICK g \in [Ops -> Flows] : FlowsAre(g)
      BY DEF SaleInv, FlowInv
    <3> DEFINE h == IF d.op = 0 THEN g ELSE [g EXCEPT ![d.op] = w]
    <3>2. h \in [Ops -> Flows]
      BY <3>1
    <3>3. \A op \in Ops : op # 0 /\ op = d.op => h[op] = w
      BY <3>1
    <3>4. \A op \in Ops : op \in 1 .. ops => h[op] = g[op]
      BY <2>1, <2>4, <3>1 DEF Emptied, Shows, Ops
    <3> HIDE DEF h
    <3>5. ASSUME NEW e \in Draft, DraftFits(e, shown), e.op # 0 PROVE h[e.op] = g[e.op]
      <4>1. e.op \in Ops /\ e.op \in 1 .. ops
        BY <3>5 DEF DraftFits, SaleInv, ShownInv, Draft, Ops
      <4> QED BY <3>4, <4>1
    <3>6. ASSUME NEW x, Known(x, shown), x.op \in Ops PROVE h[x.op] = g[x.op]
      <4>1. x.op \in 1 .. ops
        BY <3>6 DEF Known, Card, SaleInv, ShownInv
      <4> QED BY <3>4, <3>6, <4>1
    <3>7. ASSUME NEW s \in [Flows -> Draft], DraftsAre(g, s), \A v \in Flows : DraftFits(s[v], shown)
          PROVE  DraftsAre(h, s)
      BY <3>5, <3>7 DEF DraftsAre
    <3>8. DraftsAre(h, session) /\ DraftsAre(h, Idle.saw) /\ DraftsAre(h, n.saw)
      <4>1. DraftsAre(h, session)
        BY <3>1, <3>7 DEF FlowsAre, SaleInv, SaleTypes, DraftInv
      <4>2. DraftsAre(h, Idle.saw)
        BY EmptyDraft DEF DraftsAre
      <4> QED BY <1>1, <4>1, <4>2
    <3>9. \A q \in Requests : DraftsAre(h, req[q].saw)
      BY <3>1, <3>7 DEF FlowsAre, SaleInv, SaleTypes, Requested, DraftInv
    <3>10. DraftsAre(h, session')
      <4>1. d.op \in Ops
        BY DEF Draft, Ops
      <4>2. \A v \in Flows : req[r].saw[v].op # 0 => h[req[r].saw[v].op] = v
        BY <3>9 DEF DraftsAre
      <4> QED BY <2>3, <3>3, <4>1, <4>2 DEF DraftsAre
    <3>11. \A q \in Requests : DraftsAre(h, req'[q].saw)
      BY <1>3, <3>8, <3>9
    <3>12. \A c \in calls : h[c.body.op] = c.body.flow
      BY <3>1, <3>6 DEF FlowsAre, SaleInv, SaleTypes, KnownInv, Called, Bodies
    <3>13. \A i \in 1 .. Len(fulfillments) : h[fulfillments[i].op] = fulfillments[i].flow
      <4>1. \A i \in 1 .. Len(fulfillments) : fulfillments[i] \in Delivered
        BY DEF SaleInv, SaleTypes
      <4> QED BY <3>1, <3>6, <4>1 DEF FlowsAre, SaleInv, KnownInv, Delivered
    <3>14. \A i \in 1 .. Len(orders) : h[orders[i].op] = orders[i].flow
      <4>1. \A i \in 1 .. Len(orders) : orders[i] \in Ordered
        BY DEF SaleInv, SaleTypes
      <4> QED BY <3>1, <3>6, <4>1 DEF FlowsAre, SaleInv, KnownInv, Ordered
    <3>15. FlowsAre(h)'
      BY <1>2, <3>10, <3>11, <3>12, <3>13, <3>14 DEF FlowsAre, DraftsAre
    <3> QED BY <3>2, <3>15 DEF FlowInv
  <2> QED BY <2>5, <2>6, <2>7, <2>8, <2>9
<1> QED BY <1>4, <1>5, PageShape DEF SaleInv

-----------------------------------------------------------------------------
(* What a request hears                                                      *)

\* One request at most goes on, with what it may know, and asks for nothing yet.
Goes(r) ==
  \E n \in Requested : /\ req' = [req EXCEPT ![r] = n]
                       /\ ~ n.asked /\ n.saw \in { req[r].saw, Idle.saw }
                       /\ RequestFits(n, fulfillments, orders)

LEMMA IdleFits == RequestFits(Idle, fulfillments, orders)
BY EmptyDraft DEF RequestFits

LEMMA TriedAgain ==
  ASSUME NEW q \in Requested, NEW n, n = [q EXCEPT !.asked = FALSE, !.try = @ + 1]
  PROVE  /\ n \in Requested /\ ~ n.asked /\ n.saw = q.saw /\ n.pc = q.pc
         /\ n.flow = q.flow /\ n.f = q.f /\ n.o = q.o
<1>1. q.try + 1 \in Nat
  BY DEF Requested
<1> QED BY <1>1 DEF Requested

LEMMA StopsOrTriesAgain ==
  ASSUME SaleInv, NEW r \in Requests, Failed(r) \/ AgainOrFail(r)
  PROVE  session' = session /\ Goes(r)
<1>1. CASE Failed(r)
  BY <1>1, EmptyDraft, IdleFits DEF Failed, Leave, Goes
<1>2. CASE TryAgain(req[r].try) /\ AgainOrFail(r)
  <2> DEFINE n == [req[r] EXCEPT !.asked = FALSE, !.try = @ + 1]
  <2>1. req[r] \in Requested /\ RequestFits(req[r], fulfillments, orders)
    BY DEF SaleInv, SaleTypes, RequestInv
  <2>2. /\ n \in Requested /\ ~ n.asked /\ n.saw = req[r].saw /\ n.pc = req[r].pc
        /\ n.flow = req[r].flow /\ n.f = req[r].f /\ n.o = req[r].o
    BY <2>1, TriedAgain
  <2>3. req' = [req EXCEPT ![r] = n] /\ session' = session
    BY <1>2 DEF AgainOrFail
  <2> HIDE DEF n
  <2>4. RequestFits(n, fulfillments, orders)
    BY <2>1, <2>2 DEF RequestFits
  <2> QED BY <2>2, <2>3, <2>4 DEF Goes
<1>3. CASE ~ TryAgain(req[r].try) /\ AgainOrFail(r)
  BY <1>1, <1>3 DEF AgainOrFail
<1> QED BY <1>1, <1>2, <1>3

LEMMA Proceeds ==
  ASSUME SaleInv, NEW c \in calls, Waiting(c), NEW id, Proceed(c, id),
         Answers(fulfillments, orders, c, id)
  PROVE  Goes(c.by)
<1> DEFINE r == c.by
<1> DEFINE next == CASE c.stage = "fulfillment" -> "order"
                     [] c.stage = "order" /\ req[r].flow = "topup" -> "link"
                     [] OTHER -> "pop"
<1> DEFINE f == IF c.stage = "fulfillment" THEN id ELSE req[r].f
<1> DEFINE o == IF c.stage = "order" THEN id ELSE req[r].o
<1> DEFINE n == [req[r] EXCEPT !.pc = next, !.asked = FALSE, !.try = 0, !.f = f, !.o = o]
<1>1. /\ r \in Requests /\ c \in Called
      /\ req[r] \in Requested /\ RequestFits(req[r], fulfillments, orders)
      /\ c.stage = req[r].pc /\ c.body = Body(r)
  BY DEF Waiting, SaleInv, SaleTypes, Called, RequestInv, CallInv, WaitFits
<1>2. /\ c.body.op = req[r].saw[req[r].flow].op
      /\ c.body.f = req[r].f /\ c.body.o = req[r].o
  BY <1>1 DEF Body, DraftOf
<1>3. f \in Nat /\ o \in Nat /\ next \in RequestPcs
  <2>1. next \in RequestPcs
    BY DEF RequestPcs, Stages
  <2>2. req[r].f \in Nat /\ req[r].o \in Nat
    BY <1>1 DEF Requested
  <2>3. c.stage = "fulfillment" => id \in 1 .. Len(fulfillments)
    BY DEF Answers, FulfillmentOf
  <2>4. c.stage = "order" => id \in 1 .. Len(orders)
    BY DEF Answers, OrderOf
  <2> HIDE DEF next
  <2> QED BY <2>1, <2>2, <2>3, <2>4
<1>4. /\ n \in Requested /\ ~ n.asked /\ n.saw = req[r].saw /\ n.pc = next
      /\ n.flow = req[r].flow /\ n.f = f /\ n.o = o
  <2> HIDE DEF f, o, next
  <2> QED BY <1>1, <1>3 DEF Requested
<1>5. req' = [req EXCEPT ![r] = n]
  BY <1>1 DEF Proceed, SaleInv, SaleTypes, Requested
<1> HIDE DEF n
<1>6. RequestFits(n, fulfillments, orders)
  <2>1. CASE c.stage = "fulfillment"
    BY <1>1, <1>2, <1>4, <2>1 DEF RequestFits, Answers
  <2>2. CASE c.stage = "order"
    <3>1. FulfillmentOf(fulfillments, n.f, n.saw[n.flow].op)
      BY <1>1, <1>4, <2>2 DEF RequestFits
    <3>2. OrderOf(orders, n.o, n.saw[n.flow].op)
      BY <1>1, <1>2, <1>4, <2>2 DEF Answers
    <3> QED BY <1>4, <2>2, <3>1, <3>2 DEF RequestFits
  <2>3. CASE c.stage = "link"
    BY <1>1, <1>2, <1>4, <2>3 DEF RequestFits, Answers
  <2> QED BY <1>1, <2>1, <2>2, <2>3 DEF Called, Stages
<1> QED BY <1>4, <1>5, <1>6 DEF Goes

LEMMA Hears ==
  ASSUME SaleInv, NEW c \in calls, NEW result, NEW id, Hear(c, result, id),
         result = "ok" => Answers(fulfillments, orders, c, id)
  PROVE  /\ session' = session
         /\ (c.by = Nothing /\ req' = req) \/ (c.by \in Requests /\ Goes(c.by))
<1>1. c.by \in Requests \cup { Nothing }
  BY DEF SaleInv, SaleTypes, Called
<1>2. CASE ~ Waiting(c)
  <2>1. UNCHANGED << req, session >>
    BY <1>2 DEF Hear
  <2> QED BY <1>2, <2>1 DEF Waiting
<1>3. CASE Waiting(c)
  <2>1. c.by \in Requests
    BY <1>1, <1>3 DEF Waiting
  <2>2. CASE result = "ok" /\ Proceed(c, id) /\ UNCHANGED << session >>
    BY <1>3, <2>1, <2>2, Proceeds
  <2>3. CASE Failed(c.by) \/ AgainOrFail(c.by)
    BY <2>1, <2>3, StopsOrTriesAgain
  <2> QED BY <1>3, <2>2, <2>3 DEF Hear
<1> QED BY <1>2, <1>3

\* The attempts that remain when attempt c is over, whatever was heard of it.
LEMMA OverKeeps ==
  ASSUME SaleInv, NEW c \in calls, calls' = calls \ { c }, session' = session,
         (c.by = Nothing /\ req' = req) \/ (c.by \in Requests /\ Goes(c.by)),
         UNCHANGED << ops, shown, fulfillments, orders >>
  PROVE  /\ req' \in [Requests -> Requested] /\ calls' \subseteq Called
         /\ ShownInv' /\ DraftInv' /\ KnownInv' /\ FlowInv'
         /\ RequestInv' /\ CallInv' /\ UniqueInv' /\ LinkInv'
<1>1. ShownInv' /\ KnownInv' /\ UniqueInv' /\ LinkInv' /\ calls' \subseteq Called
  BY DEF SaleInv, SaleTypes, ShownInv, KnownInv, UniqueInv, LinkInv
<1>2. \A q \in Requests :
        /\ req'[q] \in Requested /\ req'[q].saw \in { req[q].saw, Idle.saw }
        /\ RequestFits(req'[q], fulfillments, orders)
        /\ q # c.by => req'[q] = req[q]
  BY DEF Goes, SaleInv, SaleTypes, RequestInv
<1>3. req' \in [Requests -> Requested]
  BY DEF Goes, SaleInv, SaleTypes
<1>4. DraftInv' /\ FlowInv'
  <2>1. DraftInv'
    BY <1>2, EmptyDraft DEF SaleInv, DraftInv, DraftFits
  <2>2. PICK g \in [Ops -> Flows] : FlowsAre(g)
    BY DEF SaleInv, FlowInv
  <2>3. DraftsAre(g, Idle.saw)
    BY EmptyDraft DEF DraftsAre
  <2>4. FlowsAre(g)'
    BY <1>2, <2>2, <2>3 DEF FlowsAre, DraftsAre
  <2> QED BY <2>1, <2>4 DEF FlowInv
<1>5. RequestInv'
  BY <1>2 DEF RequestInv
<1>6. CallInv'
  <2>1. ASSUME NEW d \in calls' PROVE WaitFits(d)'
    <3>1. WaitFits(d) /\ d.by \in Requests \cup { Nothing } /\ (d.by # Nothing => d.by # c.by)
      BY DEF SaleInv, CallInv, SaleTypes, Called
    <3>2. d.by # Nothing => req'[d.by] = req[d.by]
      BY <1>2, <3>1
    <3> QED BY <3>1, <3>2 DEF WaitFits, Body, DraftOf
  <2> QED BY <2>1 DEF SaleInv, CallInv
<1> QED BY <1>1, <1>3, <1>4, <1>5, <1>6

LEMMA RowsAreTyped ==
  ASSUME SaleTypes
  PROVE  /\ \A i \in 1 .. Len(fulfillments) :
              /\ fulfillments[i] \in Delivered
              /\ fulfillments[i].op \in Ops /\ fulfillments[i].flow \in Flows
              /\ << fulfillments[i].flow, fulfillments[i].op >> \in Keys
         /\ \A j \in 1 .. Len(orders) : orders[j] \in Ordered
<1>1. \A i \in 1 .. Len(fulfillments) : fulfillments[i] \in Delivered
  BY DEF SaleTypes
<1>2. \A j \in 1 .. Len(orders) : orders[j] \in Ordered
  BY DEF SaleTypes
<1> QED BY <1>1, <1>2, KeyFacts DEF Delivered

\* A duplicate and a death leave the row.
LEMMA RowLeft ==
  ASSUME SaleInv, NEW c \in calls, calls' = calls \ { c }, row' = row,
         UNCHANGED << fulfillments, orders >>
  PROVE  row' \in [Keys -> KeyRow] /\ HoldInv' /\ AnswerInv' /\ TakenInv'
BY DEF SaleInv, SaleTypes, HoldInv, AnswerInv, TakenInv, AtWork, Holds

LEMMA HolderIs ==
  ASSUME SaleInv, NEW c \in calls, c.key # Nothing
  PROVE  /\ c.key \in Keys
         /\ \/ c.stage = "fulfillment" /\ c.key = << c.body.flow, c.body.op >>
            \/ c.stage = "order" /\ c.key = << "order", c.body.op >>
         /\ c.body \in Bodies /\ c.body.flow \in Flows /\ c.body.op \in Ops /\ c.body.op # 0
BY DEF SaleInv, SaleTypes, Called, CallInv, CallFits, KnownInv, Known, Bodies, Stages

LEMMA NoKeyIsLink ==
  ASSUME SaleInv, NEW c \in calls, c.key = Nothing
  PROVE  c.stage = "link" /\ c.pc # "claim"
<1>1. c \in Called /\ CallFits(c, fulfillments, orders) /\ c.body \in Bodies
  BY DEF SaleInv, SaleTypes, CallInv, Called
<1>2. << c.body.flow, c.body.op >> \in Keys /\ << "order", c.body.op >> \in Keys
  BY <1>1, KeyFacts DEF Bodies
<1> QED BY <1>1, <1>2, KeyFacts DEF CallFits, Called, Stages

\* The flows of the keys of an operation are the flow of the operation.
LEMMA SameFlow ==
  ASSUME SaleInv
  PROVE  /\ \A c \in calls, i \in 1 .. Len(fulfillments) :
              fulfillments[i].op = c.body.op => fulfillments[i].flow = c.body.flow
         /\ \A c, d \in calls : c.body.op = d.body.op => c.body.flow = d.body.flow
BY DEF SaleInv, FlowInv, FlowsAre

\* The view raised: the key is free again, and nothing was made with it.
LEMMA RowFreed ==
  ASSUME SaleInv, NEW c \in calls, c.pc = "work", Unclaim(c), UNCHANGED << fulfillments, orders >>
  PROVE  row' \in [Keys -> KeyRow] /\ HoldInv' /\ AnswerInv' /\ TakenInv'
<1>1. CASE c.key = Nothing
  BY <1>1, RowLeft DEF Unclaim, Ended
<1>2. CASE c.key # Nothing
  <2>1. /\ calls' = calls \ { c } /\ row' = [row EXCEPT ![c.key] = Free]
        /\ row \in [Keys -> KeyRow] /\ Free \in KeyRow /\ Free.status = "free"
    BY <1>2 DEF Unclaim, Ended, SaleInv, SaleTypes, Free, KeyRow
  <2>2. \A k \in Keys : row'[k] = IF k = c.key THEN Free ELSE row[k]
    BY <2>1
  <2>3. \A d \in calls' : Holds(d) => d.key # c.key /\ d.key \in Keys
    BY <1>2, <2>1, HolderIs DEF SaleInv, HoldInv, Holds
  <2>4. HoldInv'
    BY <2>1, <2>2, <2>3 DEF SaleInv, HoldInv, Holds
  <2>5. AnswerInv'
    BY <2>1, <2>2, KeyFacts DEF SaleInv, AnswerInv
  <2>6. TakenInv'
    <3>1. ASSUME NEW i \in 1 .. Len(fulfillments)
          PROVE  << fulfillments[i].flow, fulfillments[i].op >> # c.key
      <4>1. fulfillments[i].flow \in Flows /\ ~ AtWork(c, fulfillments[i].op)
        BY RowsAreTyped DEF SaleInv, TakenInv
      <4>2. ~ (c.stage = "fulfillment" /\ c.body.op = fulfillments[i].op)
        BY <4>1 DEF AtWork
      <4> QED BY <1>2, <4>1, <4>2, HolderIs DEF Flows
    <3> QED BY <2>1, <2>2, <3>1, RowsAreTyped DEF SaleInv, TakenInv, AtWork
  <2> QED BY <2>1, <2>4, <2>5, <2>6
<1> QED BY <1>1, <1>2

\* The answer goes out, and the row keeps it.
LEMMA RowSealed ==
  ASSUME SaleInv, NEW c \in calls, Seal(c), UNCHANGED << fulfillments, orders >>
  PROVE  row' \in [Keys -> KeyRow] /\ HoldInv' /\ AnswerInv' /\ TakenInv'
<1>1. CASE c.key = Nothing
  BY <1>1, RowLeft DEF Seal, Ended
<1>2. CASE c.key # Nothing
  <2> DEFINE k == [row[c.key] EXCEPT !.status = "COMPLETED", !.answer = c.answer]
  <2>1. c.key \in Keys /\ c.pc = "seal" /\ calls' = calls \ { c } /\ c.answer \in Nat \cup { Nothing }
    BY <1>2, HolderIs DEF Seal, Ended, SaleInv, SaleTypes, Called
  <2>2. row \in [Keys -> KeyRow] /\ k \in KeyRow /\ k.status = "COMPLETED" /\ k.answer = c.answer
    BY ZenonT(30), <2>1 DEF SaleInv, SaleTypes, KeyRow
  <2>3. row' = [row EXCEPT ![c.key] = k]
    BY <1>2, <2>1, <2>2 DEF Seal
  <2> HIDE DEF k
  <2>4. \A x \in Keys : row'[x] = IF x = c.key THEN k ELSE row[x]
    BY <2>2, <2>3
  <2>5. \A d \in calls' : Holds(d) => d.key # c.key /\ d.key \in Keys
    BY <1>2, <2>1, HolderIs DEF SaleInv, HoldInv, Holds
  <2>6. HoldInv'
    BY <2>1, <2>2, <2>4, <2>5 DEF SaleInv, HoldInv, Holds
  <2>7. AnswerInv'
    <3>1. Answers(fulfillments, orders, c, c.answer)
      BY <2>1 DEF SaleInv, AnswerInv
    <3>2. ASSUME NEW w \in Flows, NEW op \in Ops, << w, op >> = c.key
          PROVE  FulfillmentOf(fulfillments, c.answer, op)
      <4>1. c.stage = "fulfillment" /\ c.body.op = op
        BY <1>2, <3>2, HolderIs DEF Flows
      <4> QED BY <3>1, <4>1 DEF Answers
    <3>3. ASSUME NEW op \in Ops, << "order", op >> = c.key
          PROVE  OrderOf(orders, c.answer, op)
      <4>1. c.stage = "order" /\ c.body.op = op
        BY <1>2, <3>3, HolderIs DEF Flows
      <4> QED BY <3>1, <4>1 DEF Answers
    <3>4. \A w \in Flows, op \in Ops :
            row'[<< w, op >>].status = "COMPLETED" => FulfillmentOf(fulfillments, row'[<< w, op >>].answer, op)
      BY <2>2, <2>4, <3>2, KeyFacts DEF SaleInv, AnswerInv
    <3>5. \A op \in Ops :
            row'[<< "order", op >>].status = "COMPLETED" => OrderOf(orders, row'[<< "order", op >>].answer, op)
      BY <2>2, <2>4, <3>3, KeyFacts DEF SaleInv, AnswerInv
    <3> QED BY <2>1, <3>4, <3>5 DEF SaleInv, AnswerInv
  <2>8. TakenInv'
    BY <2>1, <2>2, <2>4, RowsAreTyped DEF SaleInv, TakenInv, AtWork
  <2> QED BY <2>2, <2>3, <2>6, <2>7, <2>8
<1> QED BY <1>1, <1>2

-----------------------------------------------------------------------------
(* The steps of an attempt                                                   *)

\* An attempt that is over, by whatever way, with what its caller heard.
LEMMA Over ==
  ASSUME SaleInv, NEW c \in calls, calls' = calls \ { c }, session' = session,
         (c.by = Nothing /\ req' = req) \/ (c.by \in Requests /\ Goes(c.by)),
         UNCHANGED << ops, shown, fulfillments, orders >>,
         row' \in [Keys -> KeyRow], HoldInv', AnswerInv', TakenInv'
  PROVE  SaleInv'
<1>1. SaleTypes'
  BY OverKeeps DEF SaleInv, SaleTypes
<1> QED BY <1>1, OverKeeps DEF SaleInv

LEMMA DuplicateStep ==
  ASSUME SaleInv, NEW c \in calls, HandleDuplicate(c) PROVE SaleInv'
<1> DEFINE result == Duplicate(c).result
<1> DEFINE answer == Duplicate(c).answer
<1>1. c.key # Nothing
  BY NoKeyIsLink DEF HandleDuplicate
<1>2. result = "ok" => row[c.key].status = "COMPLETED" /\ answer = row[c.key].answer
  BY DEF Duplicate
<1>3. result = "ok" => Answers(fulfillments, orders, c, answer)
  <2>1. CASE c.stage = "fulfillment"
    BY <1>1, <1>2, <2>1, HolderIs DEF Answers, SaleInv, AnswerInv
  <2>2. CASE c.stage = "order"
    BY <1>1, <1>2, <2>2, HolderIs DEF Answers, SaleInv, AnswerInv
  <2> QED BY <1>1, <2>1, <2>2, HolderIs
<1>4. Hear(c, result, answer) /\ calls' = calls \ { c } /\ row' = row
      /\ UNCHANGED << ops, shown, fulfillments, orders >>
  BY DEF HandleDuplicate, Ended
<1> HIDE DEF result, answer
<1>5. session' = session /\ ((c.by = Nothing /\ req' = req) \/ (c.by \in Requests /\ Goes(c.by)))
  BY <1>3, <1>4, Hears
<1>6. row' \in [Keys -> KeyRow] /\ HoldInv' /\ AnswerInv' /\ TakenInv'
  BY <1>4, RowLeft
<1> QED BY <1>4, <1>5, <1>6, Over

LEMMA RaiseStep ==
  ASSUME SaleInv, NEW c \in calls, ViewRaises(c) PROVE SaleInv'
<1>1. PICK result \in { "refused", "error" } : Hear(c, result, Nothing)
  BY DEF ViewRaises
<1>2. Unclaim(c) /\ c.pc = "work" /\ UNCHANGED << ops, shown, fulfillments, orders >>
  BY DEF ViewRaises
<1>3. calls' = calls \ { c }
  BY <1>2 DEF Unclaim, Ended
<1>4. session' = session /\ ((c.by = Nothing /\ req' = req) \/ (c.by \in Requests /\ Goes(c.by)))
  BY <1>1, Hears
<1>5. row' \in [Keys -> KeyRow] /\ HoldInv' /\ AnswerInv' /\ TakenInv'
  BY <1>2, RowFreed
<1> QED BY <1>2, <1>3, <1>4, <1>5, Over

LEMMA SealStep ==
  ASSUME SaleInv, NEW c \in calls, SealAnswer(c) PROVE SaleInv'
<1>1. Seal(c) /\ Hear(c, "ok", c.answer) /\ UNCHANGED << ops, shown, fulfillments, orders >>
  BY DEF SealAnswer
<1>2. c.pc = "seal" /\ calls' = calls \ { c }
  BY <1>1 DEF Seal, Ended
<1>3. Answers(fulfillments, orders, c, c.answer)
  BY <1>2 DEF SaleInv, AnswerInv
<1>4. session' = session /\ ((c.by = Nothing /\ req' = req) \/ (c.by \in Requests /\ Goes(c.by)))
  BY <1>1, <1>3, Hears
<1>5. row' \in [Keys -> KeyRow] /\ HoldInv' /\ AnswerInv' /\ TakenInv'
  BY <1>1, RowSealed
<1> QED BY <1>1, <1>2, <1>4, <1>5, Over

\* Attempt c becomes attempt d: the same caller, step, key and body.
Becomes(c, d) ==
  d.by = c.by /\ d.stage = c.stage /\ d.key = c.key /\ d.body = c.body

\* A death, with nobody told.
LEMMA DeathStep ==
  ASSUME SaleInv, NEW c \in calls, HandlerDies(c) PROVE SaleInv'
<1>1. calls' = calls \ { c } /\ row' = row /\ req' = req /\ session' = session
      /\ UNCHANGED << ops, shown, fulfillments, orders >>
  BY DEF HandlerDies, Die, Ended
<1>2. row' \in [Keys -> KeyRow] /\ HoldInv' /\ AnswerInv' /\ TakenInv'
  BY <1>1, RowLeft
<1>3. SaleTypes' /\ ShownInv' /\ DraftInv' /\ KnownInv' /\ RequestInv' /\ UniqueInv' /\ LinkInv'
  BY <1>1, <1>2 DEF SaleInv, SaleTypes, ShownInv, DraftInv, KnownInv, RequestInv, UniqueInv, LinkInv
<1>4. FlowInv'
  BY <1>1 DEF SaleInv, FlowInv, FlowsAre
<1>5. CallInv'
  BY <1>1 DEF SaleInv, CallInv, WaitFits, Body, DraftOf
<1> QED BY <1>2, <1>3, <1>4, <1>5 DEF SaleInv

\* A call times out: its attempt goes on, with nobody waiting.
LEMMA TimeoutStep ==
  ASSUME SaleInv, NEW r \in Requests, Timeout(r) PROVE SaleInv'
<1> DEFINE Left(c) == [c EXCEPT !.by = IF @ = r THEN Nothing ELSE @]
<1>1. calls' = { Left(c) : c \in calls } /\ UNCHANGED << row, ops, shown, fulfillments, orders >>
  BY DEF Timeout, Abandon
<1>2. session' = session /\ Goes(r)
  BY StopsOrTriesAgain DEF Timeout
<1>3. \A c \in calls :
        /\ Left(c) \in Called /\ Left(c).by = IF c.by = r THEN Nothing ELSE c.by
        /\ Left(c).stage = c.stage /\ Left(c).key = c.key /\ Left(c).body = c.body
        /\ Left(c).pc = c.pc /\ Left(c).answer = c.answer
  BY DEF SaleInv, SaleTypes, Called
<1> HIDE DEF Left
<1>4. \A d \in calls' : \E c \in calls : d = Left(c)
  BY <1>1
<1>5. \A q \in Requests :
        /\ req'[q] \in Requested /\ req'[q].saw \in { req[q].saw, Idle.saw }
        /\ RequestFits(req'[q], fulfillments, orders)
        /\ q # r => req'[q] = req[q]
  BY <1>2 DEF Goes, SaleInv, SaleTypes, RequestInv
<1>6. SaleTypes' /\ ShownInv' /\ RequestInv' /\ UniqueInv' /\ LinkInv'
  <2>1. calls' \subseteq Called
    BY <1>3, <1>4
  <2>2. req' \in [Requests -> Requested]
    BY <1>2 DEF Goes, SaleInv, SaleTypes
  <2> QED BY <1>1, <1>2, <1>5, <2>1, <2>2
          DEF SaleInv, SaleTypes, ShownInv, RequestInv, UniqueInv, LinkInv
<1>7. DraftInv' /\ KnownInv'
  <2>1. DraftInv'
    BY <1>1, <1>2, <1>5, EmptyDraft DEF SaleInv, DraftInv, DraftFits
  <2>2. KnownInv'
    BY <1>1, <1>3, <1>4 DEF SaleInv, KnownInv
  <2> QED BY <2>1, <2>2
<1>8. FlowInv'
  <2>1. PICK g \in [Ops -> Flows] : FlowsAre(g)
    BY DEF SaleInv, FlowInv
  <2>2. DraftsAre(g, Idle.saw)
    BY EmptyDraft DEF DraftsAre
  <2>3. \A d \in calls' : g[d.body.op] = d.body.flow
    BY <1>3, <1>4, <2>1 DEF FlowsAre
  <2>4. FlowsAre(g)'
    BY <1>1, <1>2, <1>5, <2>1, <2>2, <2>3 DEF FlowsAre, DraftsAre
  <2> QED BY <2>4 DEF FlowInv
<1>9. CallInv'
  <2>1. ASSUME NEW c \in calls
        PROVE  CallFits(Left(c), fulfillments, orders) /\ WaitFits(Left(c))'
    <3>1. CallFits(c, fulfillments, orders) /\ WaitFits(c) /\ c.by \in Requests \cup { Nothing }
      BY DEF SaleInv, CallInv, SaleTypes, Called
    <3>2. CallFits(Left(c), fulfillments, orders)
      BY <1>3, <3>1 DEF CallFits
    <3>3. c.by # Nothing /\ c.by # r => req'[c.by] = req[c.by]
      BY <1>5, <3>1
    <3>4. WaitFits(Left(c))'
      BY <1>3, <3>1, <3>3 DEF WaitFits, Body, DraftOf
    <3> QED BY <3>2, <3>4
  <2>2. \A c, d \in calls : Left(c).by # Nothing /\ Left(c).by = Left(d).by => c = d
    BY <1>3 DEF SaleInv, CallInv
  <2> QED BY <1>1, <1>4, <2>1, <2>2 DEF CallInv
<1>10. HoldInv' /\ AnswerInv' /\ TakenInv'
  <2>1. HoldInv'
    BY <1>1, <1>3, <1>4 DEF SaleInv, HoldInv, Holds
  <2>2. AnswerInv'
    <3>1. \A c \in calls : Left(c).pc = "seal" => Answers(fulfillments, orders, Left(c), Left(c).answer)
      BY <1>3 DEF SaleInv, AnswerInv, Answers
    <3>2. \A d \in calls' : d.pc = "seal" => Answers(fulfillments, orders, d, d.answer)
      BY <1>4, <3>1
    <3> QED BY <1>1, <3>2 DEF SaleInv, AnswerInv
  <2>3. TakenInv'
    BY <1>1, <1>3, <1>4 DEF SaleInv, TakenInv, AtWork
  <2> QED BY <2>1, <2>2, <2>3
<1> QED BY <1>6, <1>7, <1>8, <1>9, <1>10 DEF SaleInv

\* Attempt c goes on as d, and rows may be added.
Steps(c, d) ==
  /\ calls' = (calls \ { c }) \cup { d } /\ Becomes(c, d) /\ d.pc # "claim"
  /\ UNCHANGED << session, req, ops, shown >>
  /\ Grow(fulfillments, orders, fulfillments', orders')

LEMMA StepKeeps ==
  ASSUME SaleInv, NEW c \in calls, NEW d \in Called, Steps(c, d)
  PROVE  /\ ShownInv' /\ DraftInv' /\ RequestInv' /\ CallInv' /\ calls' \subseteq Called
         /\ \A e \in calls' : Known(e.body, shown)
         /\ \A g : FlowsAre(g) => \A e \in calls' : g[e.body.op] = e.body.flow
<1>1. ShownInv' /\ DraftInv' /\ calls' \subseteq Called
  BY DEF SaleInv, SaleTypes, ShownInv, DraftInv, Steps
<1>2. RequestInv'
  BY KnownStays DEF SaleInv, SaleTypes, RequestInv, Steps
<1>3. \A e \in calls' : Known(e.body, shown)
  BY DEF SaleInv, KnownInv, Steps, Becomes
<1>4. \A g : FlowsAre(g) => \A e \in calls' : g[e.body.op] = e.body.flow
  BY DEF FlowsAre, Steps, Becomes
<1>5. CallInv'
  <2>1. \A e \in calls : CallFits(e, fulfillments', orders')
    BY KnownStays DEF SaleInv, SaleTypes, CallInv, Steps
  <2>2. CallFits(d, fulfillments', orders')
    BY <2>1 DEF CallFits, Steps, Becomes
  <2>3. \A e \in calls : WaitFits(e)'
    BY DEF SaleInv, CallInv, WaitFits, Body, DraftOf, Steps
  <2>4. WaitFits(d)'
    BY <2>3 DEF WaitFits, Body, DraftOf, Steps, Becomes
  <2>5. \A e, f \in calls' : e.by # Nothing /\ e.by = f.by => e = f
    BY DEF SaleInv, CallInv, Steps, Becomes
  <2> QED BY <2>1, <2>2, <2>3, <2>4, <2>5 DEF CallInv, Steps
<1> QED BY <1>1, <1>2, <1>3, <1>4, <1>5

LEMMA ClaimStep ==
  ASSUME SaleInv, NEW c \in calls, ClaimKey(c) PROVE SaleInv'
<1> DEFINE d == [c EXCEPT !.pc = "work"]
<1> DEFINE k == [status |-> "IN_PROGRESS", body |-> c.body, answer |-> Nothing]
<1>1. /\ c.pc = "claim" /\ row[c.key] = Free /\ row' = [row EXCEPT ![c.key] = k]
      /\ calls' = (calls \ { c }) \cup { d }
      /\ UNCHANGED << session, req, ops, shown, fulfillments, orders >>
  BY DEF ClaimKey, Claim, Unseen, Moved
<1>2. c.key # Nothing /\ c.key \in Keys
  BY <1>1, NoKeyIsLink, HolderIs
<1>3. /\ d \in Called /\ Becomes(c, d) /\ d.pc = "work"
      /\ d.stage = c.stage /\ d.key = c.key /\ d.body = c.body
  BY DEF SaleInv, SaleTypes, Called, Becomes
<1>4. k \in KeyRow /\ k.status = "IN_PROGRESS" /\ row \in [Keys -> KeyRow]
  BY DEF SaleInv, SaleTypes, Called, KeyRow
<1> HIDE DEF d, k
<1>5. Steps(c, d)
  BY <1>1, <1>3 DEF Steps, Grow
<1>13. /\ ShownInv' /\ DraftInv' /\ RequestInv' /\ CallInv' /\ calls' \subseteq Called
       /\ \A e \in calls' : Known(e.body, shown)
       /\ \A g : FlowsAre(g) => \A e \in calls' : g[e.body.op] = e.body.flow
  BY <1>3, <1>5, StepKeeps
<1>6. \A x \in Keys : row'[x] = IF x = c.key THEN k ELSE row[x]
  BY <1>1, <1>4
<1>7. \A e \in calls : Holds(e) => e.key # c.key /\ e.key \in Keys
  BY <1>1, HolderIs DEF SaleInv, HoldInv, Holds, Free
<1>8. HoldInv'
  BY <1>1, <1>2, <1>3, <1>4, <1>6, <1>7 DEF SaleInv, HoldInv, Holds
<1>9. AnswerInv'
  BY <1>1, <1>3, <1>4, <1>6, KeyFacts DEF SaleInv, AnswerInv
<1>10. TakenInv'
  <2>1. ASSUME NEW i \in 1 .. Len(fulfillments) PROVE ~ AtWork(d, fulfillments[i].op)
    <3> SUFFICES ASSUME AtWork(d, fulfillments[i].op) PROVE FALSE
      OBVIOUS
    <3>1. c.stage = "fulfillment" /\ fulfillments[i].op = c.body.op
      BY <1>3 DEF AtWork
    <3>2. c.key = << fulfillments[i].flow, fulfillments[i].op >>
      BY <1>2, <3>1, SameFlow, HolderIs
    <3>3. row[c.key].status # "free"
      BY <3>2 DEF SaleInv, TakenInv
    <3> QED BY <1>1, <3>3 DEF Free
  <2>2. \A i \in 1 .. Len(fulfillments) :
          row'[<< fulfillments[i].flow, fulfillments[i].op >>].status # "free"
    BY <1>4, <1>6, RowsAreTyped DEF SaleInv, TakenInv
  <2> QED BY <1>1, <2>1, <2>2 DEF SaleInv, TakenInv
<1>11. SaleTypes' /\ KnownInv' /\ UniqueInv' /\ LinkInv'
  <2>1. SaleTypes'
    BY <1>1, <1>4, <1>13 DEF SaleInv, SaleTypes
  <2>2. KnownInv'
    BY <1>1, <1>13 DEF SaleInv, KnownInv
  <2>3. UniqueInv' /\ LinkInv'
    BY <1>1 DEF SaleInv, UniqueInv, LinkInv
  <2> QED BY <2>1, <2>2, <2>3
<1>12. FlowInv'
  <2>1. PICK g \in [Ops -> Flows] : FlowsAre(g)
    BY DEF SaleInv, FlowInv
  <2>2. FlowsAre(g)'
    BY <1>1, <1>13, <2>1 DEF FlowsAre, DraftsAre
  <2> QED BY <2>2 DEF FlowInv
<1> QED BY <1>8, <1>9, <1>10, <1>11, <1>12, <1>13 DEF SaleInv

\* An attempt leaves, with the draft that was shown.
LEMMA AskStep ==
  ASSUME SaleInv, NEW r \in Requests, Ask(r) PROVE SaleInv'
<1> DEFINE asked == Attempt(r, req[r].pc, KeyOf(r), Body(r))
<1> DEFINE n == [req[r] EXCEPT !.asked = TRUE]
<1> DEFINE d == DraftOf(r)
<1>0. /\ req[r] \in Requested /\ RequestFits(req[r], fulfillments, orders) /\ req[r].flow \in Flows
      /\ d \in Draft /\ DraftFits(d, shown)
  BY DEF SaleInv, SaleTypes, RequestInv, DraftInv, Requested, DraftOf
<1>1. /\ req[r].pc \in Stages /\ ~ req[r].asked /\ calls' = calls \cup { asked }
      /\ req' = [req EXCEPT ![r] = n]
      /\ UNCHANGED << row, session, ops, shown, fulfillments, orders >>
      /\ d.who # Nothing /\ d.item # Nothing
  BY DEF Ask, Complete
<1>2. /\ Body(r) \in Bodies /\ Body(r).op = d.op /\ Body(r).flow = req[r].flow
      /\ Body(r).f = req[r].f /\ Body(r).o = req[r].o
      /\ Body(r).who = d.who /\ Body(r).item = d.item
  BY <1>0 DEF Body, Bodies, Requested, Draft, Names, Goods, Ops
<1>3. KeyOf(r) = CASE req[r].pc = "fulfillment" -> << req[r].flow, d.op >>
                   [] req[r].pc = "order"       -> << "order", d.op >>
                   [] OTHER                     -> Nothing
  BY DEF KeyOf
<1>4. KeyOf(r) \in Keys \cup { Nothing } /\ (KeyOf(r) = Nothing <=> req[r].pc = "link")
  <2>1. d.op \in Ops
    BY <1>0 DEF Draft, Ops
  <2> HIDE DEF d
  <2> QED BY <1>0, <1>1, <1>3, <2>1, KeyFacts DEF Stages
<1>5. PICK a \in Called :
        /\ a.by = r /\ a.stage = req[r].pc /\ a.key = KeyOf(r) /\ a.body = Body(r)
        /\ a.pc = IF req[r].pc = "link" THEN "work" ELSE "claim"
        /\ calls' = calls \cup { a }
  <2>1. /\ asked \in Called /\ asked.by = r /\ asked.stage = req[r].pc
        /\ asked.key = KeyOf(r) /\ asked.body = Body(r)
        /\ asked.pc = IF req[r].pc = "link" THEN "work" ELSE "claim"
    BY <1>1, <1>2, <1>4 DEF Attempt, Called
  <2> HIDE DEF asked
  <2> QED BY <1>1, <2>1
<1>6. /\ n \in Requested /\ n.asked /\ n.pc = req[r].pc /\ n.saw = req[r].saw
      /\ n.flow = req[r].flow /\ n.f = req[r].f /\ n.o = req[r].o
      /\ n.who = req[r].who /\ n.item = req[r].item
  BY <1>0 DEF Requested
<1> HIDE DEF asked, n
<1>7. \A q \in Requests : req'[q] = IF q = r THEN n ELSE req[q]
  BY <1>1 DEF SaleInv, SaleTypes
<1>8. Known(a.body, shown)
  <2>1. d.op # 0
    BY <1>0, <1>1 DEF DraftFits
  <2>2. Card(a.body) = d
    BY <1>0, <1>2, <1>5 DEF Card, Draft
  <2> HIDE DEF d
  <2> QED BY <1>0, <1>2, <1>5, <2>1, <2>2 DEF DraftFits, Known
<1>9. SaleTypes' /\ ShownInv' /\ KnownInv' /\ UniqueInv' /\ LinkInv'
  BY <1>1, <1>5, <1>6, <1>8 DEF SaleInv, SaleTypes, ShownInv, KnownInv, UniqueInv, LinkInv
<1>10. DraftInv'
  BY <1>1, <1>6, <1>7 DEF SaleInv, DraftInv
<1>11. FlowInv'
  <2>1. PICK g \in [Ops -> Flows] : FlowsAre(g)
    BY DEF SaleInv, FlowInv
  <2>2. g[a.body.op] = a.body.flow
    <3>1. d.op # 0 => g[d.op] = req[r].flow
      BY <1>0, <2>1 DEF FlowsAre, DraftsAre, DraftOf
    <3> QED BY <1>2, <1>5, <1>8, <3>1 DEF Known
  <2>3. FlowsAre(g)'
    BY <1>1, <1>5, <1>6, <1>7, <2>1, <2>2 DEF FlowsAre, DraftsAre
  <2> QED BY <2>3 DEF FlowInv
<1>12. RequestInv'
  <2>1. RequestFits(n, fulfillments, orders)
    BY <1>0, <1>1, <1>6 DEF RequestFits
  <2> QED BY <1>1, <1>7, <2>1 DEF SaleInv, RequestInv
<1>13. CallInv'
  <2>1. CallFits(a, fulfillments, orders)
    BY <1>0, <1>1, <1>2, <1>3, <1>5 DEF CallFits, RequestFits, DraftOf, Stages
  <2>2. WaitFits(a)'
    <3>1. req'[r] = n /\ Body(r)' = Body(r)
      BY <1>6, <1>7 DEF Body, DraftOf
    <3> QED BY <1>5, <1>6, <3>1 DEF WaitFits
  <2>3. \A c \in calls : c.by # r
    BY <1>1, NobodyWaits
  <2>4. ASSUME NEW c \in calls PROVE WaitFits(c)'
    <3>1. WaitFits(c) /\ c.by # r /\ c.by \in Requests \cup { Nothing }
      BY <2>3 DEF SaleInv, CallInv, SaleTypes, Called
    <3>2. c.by # Nothing => req'[c.by] = req[c.by]
      BY <1>7, <3>1
    <3> QED BY <3>1, <3>2 DEF WaitFits, Body, DraftOf
  <2>5. \A c \in calls' : CallFits(c, fulfillments, orders) /\ WaitFits(c)'
    BY <1>5, <2>1, <2>2, <2>4 DEF SaleInv, CallInv
  <2>6. \A c, e \in calls' : c.by # Nothing /\ c.by = e.by => c = e
    BY <1>1, <1>5, <2>3 DEF SaleInv, CallInv
  <2> QED BY <1>1, <2>5, <2>6 DEF CallInv
<1>14. HoldInv' /\ AnswerInv' /\ TakenInv'
  <2>1. ~ Holds(a) /\ a.pc # "seal" /\ \A op : ~ AtWork(a, op)
    BY <1>4, <1>5 DEF Holds, AtWork
  <2>2. HoldInv' /\ TakenInv'
    BY <1>1, <1>5, <2>1 DEF SaleInv, HoldInv, TakenInv, Holds, AtWork
  <2>3. AnswerInv'
    BY <1>1, <1>5, <2>1 DEF SaleInv, AnswerInv
  <2> QED BY <2>2, <2>3
<1> QED BY <1>9, <1>10, <1>11, <1>12, <1>13, <1>14 DEF SaleInv

-----------------------------------------------------------------------------
(* The work of the services                                                  *)

\* Attempt c did its work and is about to answer, as d.
Works(c, d) ==
  /\ Steps(c, d) /\ c.pc = "work" /\ d.pc = "seal" /\ row' = row
  /\ Answers(fulfillments', orders', d, d.answer)

LEMMA AnsweredIs ==
  ASSUME SaleInv, NEW c \in calls, NEW id \in Nat, Answered(c, id)
  PROVE  \E d \in Called : /\ calls' = (calls \ { c }) \cup { d } /\ Becomes(c, d)
                           /\ d.pc = "seal" /\ d.answer = id
<1> DEFINE d == [c EXCEPT !.pc = "seal", !.answer = id]
<1>1. d \in Called /\ Becomes(c, d) /\ d.pc = "seal" /\ d.answer = id
  BY DEF SaleInv, SaleTypes, Called, Becomes
<1>2. calls' = (calls \ { c }) \cup { d }
  BY DEF Answered
<1> HIDE DEF d
<1> QED BY <1>1, <1>2

LEMMA WorkKeeps ==
  ASSUME SaleInv, NEW c \in calls, NEW d \in Called, Works(c, d)
  PROVE  HoldInv' /\ AnswerInv'
<1>1. calls' = (calls \ { c }) \cup { d } /\ row' = row /\ d.pc = "seal" /\ c.pc = "work"
      /\ d.key = c.key /\ Grow(fulfillments, orders, fulfillments', orders')
  BY DEF Works, Steps, Becomes
<1>2. HoldInv'
  BY <1>1 DEF SaleInv, HoldInv, Holds
<1>3. AnswerInv'
  <2>1. \A e \in calls : e.pc = "seal" => Answers(fulfillments', orders', e, e.answer)
    BY <1>1, AnswersStay DEF SaleInv, SaleTypes, CallInv, AnswerInv
  <2>2. \A e \in calls' : e.pc = "seal" => Answers(fulfillments', orders', e, e.answer)
    BY <1>1, <2>1 DEF Works
  <2>3. /\ \A i, op : FulfillmentOf(fulfillments, i, op) => FulfillmentOf(fulfillments', i, op)
        /\ \A j, op : OrderOf(orders, j, op) => OrderOf(orders', j, op)
    BY <1>1, RowsStay
  <2> QED BY <1>1, <2>2, <2>3 DEF SaleInv, AnswerInv
<1> QED BY <1>2, <1>3

LEMMA FulfillmentStep ==
  ASSUME SaleInv, NEW c \in calls, c.pc = "work", CreateFulfillment(c),
         UNCHANGED << row, session, req, ops, shown >>
  PROVE  SaleInv'
<1> DEFINE x == [flow |-> c.body.flow, who |-> c.body.who, item |-> c.body.item,
                 op |-> c.body.op, order |-> 0]
<1> DEFINE n == Len(fulfillments) + 1
<1>1. c.stage = "fulfillment" /\ orders' = orders /\ fulfillments' = Append(fulfillments, x)
      /\ Answered(c, n)
  BY DEF CreateFulfillment
<1>2. /\ c \in Called /\ CallFits(c, fulfillments, orders) /\ Known(c.body, shown) /\ c.body \in Bodies
      /\ fulfillments \in Seq(Delivered) /\ Len(fulfillments) \in Nat
  BY DEF SaleInv, SaleTypes, CallInv, KnownInv, Called
<1>3. /\ x \in Delivered /\ x.op = c.body.op /\ x.flow = c.body.flow /\ x.order = 0
      /\ x.who = c.body.who /\ x.item = c.body.item
  BY <1>2 DEF Delivered, Bodies, Ops
<1> HIDE DEF x
<1>4. /\ fulfillments' \in Seq(Delivered) /\ Len(fulfillments') = n
      /\ fulfillments'[n] = x /\ \A i \in 1 .. Len(fulfillments) : fulfillments'[i] = fulfillments[i]
  BY <1>1, <1>2, <1>3
<1>5. n \in Nat /\ \A i \in 1 .. Len(fulfillments') : i = n \/ i \in 1 .. Len(fulfillments)
  BY <1>2, <1>4
<1>6. PICK d \in Called : /\ calls' = (calls \ { c }) \cup { d } /\ Becomes(c, d)
                          /\ d.pc = "seal" /\ d.answer = n
  BY <1>1, <1>5, AnsweredIs
<1>7. Grow(fulfillments, orders, fulfillments', orders')
  BY <1>1, <1>2, <1>4 DEF Grow
<1>8. Works(c, d)
  <2>1. Answers(fulfillments', orders', d, d.answer)
    BY <1>1, <1>2, <1>3, <1>4, <1>5, <1>6 DEF Answers, FulfillmentOf, Becomes
  <2> QED BY <1>6, <1>7, <2>1 DEF Works, Steps
<1> HIDE DEF n
<1>9. /\ ShownInv' /\ DraftInv' /\ RequestInv' /\ CallInv' /\ calls' \subseteq Called
      /\ \A e \in calls' : Known(e.body, shown)
      /\ \A g : FlowsAre(g) => \A e \in calls' : g[e.body.op] = e.body.flow
  BY <1>8, StepKeeps DEF Works
<1>10. HoldInv' /\ AnswerInv'
  BY <1>8, WorkKeeps
<1>11. SaleTypes'
  BY <1>1, <1>4, <1>9 DEF SaleInv, SaleTypes
<1>12. KnownInv'
  <2>1. Known(x, shown)
    BY <1>2, <1>3 DEF Known, Card
  <2> QED BY <1>1, <1>4, <1>5, <1>9, <2>1 DEF SaleInv, KnownInv
<1>13. FlowInv'
  <2>1. PICK g \in [Ops -> Flows] : FlowsAre(g)
    BY DEF SaleInv, FlowInv
  <2>2. g[x.op] = x.flow
    BY <1>3, <2>1 DEF FlowsAre
  <2>3. FlowsAre(g)'
    BY <1>1, <1>4, <1>5, <1>9, <2>1, <2>2 DEF FlowsAre, DraftsAre
  <2> QED BY <2>3 DEF FlowInv
\* It is the only one of its operation: another would have kept this attempt from working.
<1>14. \A i \in 1 .. Len(fulfillments) : fulfillments[i].op # x.op
  BY <1>1, <1>3 DEF SaleInv, TakenInv, AtWork
<1>15. UniqueInv'
  BY <1>1, <1>4, <1>5, <1>14 DEF SaleInv, UniqueInv
<1>16. TakenInv'
  <2>1. c.key = << x.flow, x.op >> /\ c.key # Nothing
    <3>1. << x.flow, x.op >> \in Keys
      BY <1>2, <1>3, KeyFacts DEF Bodies
    <3> QED BY <1>1, <1>2, <1>3, <3>1, KeyFacts DEF CallFits
  <2>2. row[c.key].status = "IN_PROGRESS"
    BY <2>1 DEF SaleInv, HoldInv, Holds
  <2>3. ASSUME NEW e \in calls, AtWork(e, x.op) PROVE e = c
    <3>1. e.body.flow = x.flow /\ e.key = << e.body.flow, e.body.op >>
      BY <1>3, <2>3, SameFlow DEF AtWork, SaleInv, CallInv, CallFits
    <3>2. e.key = c.key /\ Holds(e) /\ Holds(c)
      BY <2>1, <2>3, <3>1 DEF AtWork, Holds
    <3> QED BY <3>2 DEF SaleInv, HoldInv
  <2>4. \A e \in calls' : ~ AtWork(e, x.op)
    BY <1>6, <2>3 DEF AtWork
  <2>5. \A i \in 1 .. Len(fulfillments) : \A e \in calls' : ~ AtWork(e, fulfillments[i].op)
    BY <1>6 DEF SaleInv, TakenInv, AtWork
  <2>6. row[<< x.flow, x.op >>].status # "free"
    BY <2>1, <2>2
  <2> QED BY <1>4, <1>5, <2>4, <2>5, <2>6 DEF SaleInv, TakenInv
<1>17. LinkInv'
  <2>1. \A i \in 1 .. Len(fulfillments') : fulfillments'[i].order # 0 =>
          fulfillments'[i].order \in 1 .. Len(orders) /\ orders[fulfillments'[i].order].f = i
    BY <1>3, <1>4, <1>5 DEF SaleInv, LinkInv
  <2>2. \A j \in 1 .. Len(orders) : FulfillmentOf(fulfillments', orders[j].f, orders[j].op)
    BY <1>7, RowsStay DEF SaleInv, LinkInv
  <2> QED BY <1>1, <2>1, <2>2 DEF LinkInv
<1> QED BY <1>9, <1>10, <1>11, <1>12, <1>13, <1>15, <1>16, <1>17 DEF SaleInv

\* The order of the operation is there already.
LEMMA SameOrderStep ==
  ASSUME SaleInv, NEW c \in calls, c.pc = "work", c.stage = "order",
         NEW i \in 1 .. Len(orders), orders[i].op = c.body.op, Answered(c, i),
         UNCHANGED << row, session, req, ops, shown, fulfillments, orders >>
  PROVE  SaleInv'
<1>1. i \in Nat
  OBVIOUS
<1>2. PICK d \in Called : /\ calls' = (calls \ { c }) \cup { d } /\ Becomes(c, d)
                          /\ d.pc = "seal" /\ d.answer = i
  BY <1>1, AnsweredIs
<1>3. Works(c, d)
  <2>1. Answers(fulfillments', orders', d, d.answer)
    BY <1>2 DEF Answers, OrderOf, Becomes
  <2>2. Grow(fulfillments, orders, fulfillments', orders')
    BY DEF Grow
  <2> QED BY <1>2, <2>1, <2>2 DEF Works, Steps
<1>4. /\ ShownInv' /\ DraftInv' /\ RequestInv' /\ CallInv' /\ calls' \subseteq Called
      /\ \A e \in calls' : Known(e.body, shown)
      /\ \A g : FlowsAre(g) => \A e \in calls' : g[e.body.op] = e.body.flow
  BY <1>3, StepKeeps DEF Works
<1>5. HoldInv' /\ AnswerInv'
  BY <1>3, WorkKeeps
<1>6. SaleTypes' /\ KnownInv' /\ UniqueInv' /\ LinkInv'
  <2>1. SaleTypes'
    BY <1>4 DEF SaleInv, SaleTypes
  <2>2. KnownInv' /\ UniqueInv' /\ LinkInv'
    BY <1>4 DEF SaleInv, KnownInv, UniqueInv, LinkInv
  <2> QED BY <2>1, <2>2
<1>7. FlowInv'
  <2>1. PICK g \in [Ops -> Flows] : FlowsAre(g)
    BY DEF SaleInv, FlowInv
  <2>2. FlowsAre(g)'
    BY <1>4, <2>1 DEF FlowsAre, DraftsAre
  <2> QED BY <2>2 DEF FlowInv
<1>8. TakenInv'
  BY <1>2 DEF SaleInv, TakenInv, AtWork, Becomes
<1> QED BY <1>4, <1>5, <1>6, <1>7, <1>8 DEF SaleInv

\* A new order, for the fulfillment the request names.
LEMMA NewOrderStep ==
  ASSUME SaleInv, NEW c \in calls, c.pc = "work", c.stage = "order",
         \A i \in 1 .. Len(orders) : orders[i].op # c.body.op,
         orders' = Append(orders, [op |-> c.body.op, flow |-> c.body.flow, who |-> c.body.who,
                                   item |-> c.body.item, f |-> c.body.f]),
         Answered(c, Len(orders) + 1),
         UNCHANGED << row, session, req, ops, shown, fulfillments >>
  PROVE  SaleInv'
<1> DEFINE x == [op |-> c.body.op, flow |-> c.body.flow, who |-> c.body.who,
                 item |-> c.body.item, f |-> c.body.f]
<1> DEFINE n == Len(orders) + 1
<1>1. orders' = Append(orders, x) /\ Answered(c, n)
  OBVIOUS
<1>2. /\ c \in Called /\ CallFits(c, fulfillments, orders) /\ Known(c.body, shown) /\ c.body \in Bodies
      /\ orders \in Seq(Ordered) /\ Len(orders) \in Nat
  BY DEF SaleInv, SaleTypes, CallInv, KnownInv, Called
<1>3. /\ x \in Ordered /\ x.op = c.body.op /\ x.flow = c.body.flow /\ x.f = c.body.f
      /\ x.who = c.body.who /\ x.item = c.body.item
  BY <1>2 DEF Ordered, Bodies
<1> HIDE DEF x
<1>4. /\ orders' \in Seq(Ordered) /\ Len(orders') = n
      /\ orders'[n] = x /\ \A i \in 1 .. Len(orders) : orders'[i] = orders[i]
  BY <1>1, <1>2, <1>3
<1>5. n \in Nat /\ \A i \in 1 .. Len(orders') : i = n \/ i \in 1 .. Len(orders)
  BY <1>2, <1>4
<1>6. PICK d \in Called : /\ calls' = (calls \ { c }) \cup { d } /\ Becomes(c, d)
                          /\ d.pc = "seal" /\ d.answer = n
  BY <1>1, <1>5, AnsweredIs
<1>7. Grow(fulfillments, orders, fulfillments', orders')
  BY <1>2, <1>4 DEF Grow
<1>8. Works(c, d)
  <2>1. Answers(fulfillments', orders', d, d.answer)
    BY <1>2, <1>3, <1>4, <1>5, <1>6 DEF Answers, OrderOf, Becomes
  <2> QED BY <1>6, <1>7, <2>1 DEF Works, Steps
<1> HIDE DEF n
<1>9. /\ ShownInv' /\ DraftInv' /\ RequestInv' /\ CallInv' /\ calls' \subseteq Called
      /\ \A e \in calls' : Known(e.body, shown)
      /\ \A g : FlowsAre(g) => \A e \in calls' : g[e.body.op] = e.body.flow
  BY <1>8, StepKeeps DEF Works
<1>10. HoldInv' /\ AnswerInv'
  BY <1>8, WorkKeeps
<1>11. SaleTypes'
  BY <1>4, <1>9 DEF SaleInv, SaleTypes
<1>12. KnownInv'
  <2>1. Known(x, shown)
    BY <1>2, <1>3 DEF Known, Card
  <2> QED BY <1>4, <1>5, <1>9, <2>1 DEF SaleInv, KnownInv
<1>13. FlowInv'
  <2>1. PICK g \in [Ops -> Flows] : FlowsAre(g)
    BY DEF SaleInv, FlowInv
  <2>2. g[x.op] = x.flow
    BY <1>3, <2>1 DEF FlowsAre
  <2>3. FlowsAre(g)'
    BY <1>4, <1>5, <1>9, <2>1, <2>2 DEF FlowsAre, DraftsAre
  <2> QED BY <2>3 DEF FlowInv
<1>14. UniqueInv'
  BY <1>3, <1>4, <1>5 DEF SaleInv, UniqueInv
<1>15. TakenInv'
  BY <1>6 DEF SaleInv, TakenInv, AtWork, Becomes
<1>16. LinkInv'
  <2>1. FulfillmentOf(fulfillments, x.f, x.op)
    BY <1>2, <1>3 DEF CallFits
  <2>2. \A j \in 1 .. Len(orders') : FulfillmentOf(fulfillments, orders'[j].f, orders'[j].op)
    BY <1>4, <1>5, <2>1 DEF SaleInv, LinkInv
  <2>3. \A i \in 1 .. Len(fulfillments) : fulfillments[i].order # 0 =>
          fulfillments[i].order \in 1 .. Len(orders') /\ orders'[fulfillments[i].order].f = i
    BY <1>2, <1>4 DEF SaleInv, LinkInv
  <2> QED BY <2>2, <2>3 DEF LinkInv
<1> QED BY <1>9, <1>10, <1>11, <1>12, <1>13, <1>14, <1>15, <1>16 DEF SaleInv

\* The fulfillment learns its order: there is one of each of the operation, so
\* the order is for it.
LEMMA LinkStep ==
  ASSUME SaleInv, NEW c \in calls, c.pc = "work", LinkOrder(c),
         UNCHANGED << row, session, req, ops, shown >>
  PROVE  SaleInv'
<1> DEFINE f == c.body.f
<1> DEFINE o == c.body.o
<1>1. /\ c.stage = "link" /\ fulfillments[f].order \in { 0, o } /\ orders' = orders
      /\ fulfillments' = [fulfillments EXCEPT ![f].order = o] /\ Answered(c, o)
  BY DEF LinkOrder
<1>2. /\ c \in Called /\ c.body \in Bodies /\ o \in Nat
      /\ FulfillmentOf(fulfillments, f, c.body.op) /\ OrderOf(orders, o, c.body.op)
      /\ fulfillments \in Seq(Delivered) /\ Len(fulfillments) \in Nat
  <2>1. c \in Called /\ CallFits(c, fulfillments, orders) /\ c.body \in Bodies
    BY DEF SaleInv, SaleTypes, CallInv, Called
  <2>2. o \in Nat
    BY <2>1 DEF Bodies
  <2>3. FulfillmentOf(fulfillments, f, c.body.op) /\ OrderOf(orders, o, c.body.op)
    BY <1>1, <2>1 DEF CallFits
  <2>4. fulfillments \in Seq(Delivered) /\ Len(fulfillments) \in Nat
    BY DEF SaleInv, SaleTypes
  <2> QED BY <2>1, <2>2, <2>3, <2>4
<1> HIDE DEF f, o
<1>3. f \in 1 .. Len(fulfillments) /\ o \in 1 .. Len(orders) /\ orders[o].f = f
  <2>1. orders[o].f \in 1 .. Len(fulfillments) /\ fulfillments[orders[o].f].op = c.body.op
    BY <1>2 DEF SaleInv, LinkInv, FulfillmentOf, OrderOf
  <2> QED BY <1>2, <2>1 DEF SaleInv, UniqueInv, FulfillmentOf, OrderOf
<1>4. /\ fulfillments' \in Seq(Delivered) /\ Len(fulfillments') = Len(fulfillments)
      /\ \A i \in 1 .. Len(fulfillments) :
           /\ fulfillments'[i].op = fulfillments[i].op /\ fulfillments'[i].flow = fulfillments[i].flow
           /\ fulfillments'[i].who = fulfillments[i].who /\ fulfillments'[i].item = fulfillments[i].item
           /\ fulfillments'[i].order = IF i = f THEN o ELSE fulfillments[i].order
  <2> DEFINE x == [fulfillments[f] EXCEPT !.order = o]
  <2>1. \A i \in 1 .. Len(fulfillments) : fulfillments[i] \in Delivered
    BY RowsAreTyped DEF SaleInv
  <2>2. /\ x \in Delivered /\ x.op = fulfillments[f].op /\ x.flow = fulfillments[f].flow
        /\ x.who = fulfillments[f].who /\ x.item = fulfillments[f].item /\ x.order = o
    BY <1>2, <1>3, <2>1 DEF Delivered
  <2>3. fulfillments' = [fulfillments EXCEPT ![f] = x]
    BY <1>1
  <2> HIDE DEF x
  <2> QED BY <1>2, <1>3, <2>1, <2>2, <2>3
<1>5. PICK d \in Called : /\ calls' = (calls \ { c }) \cup { d } /\ Becomes(c, d)
                          /\ d.pc = "seal" /\ d.answer = o
  BY <1>1, <1>2, AnsweredIs
<1>6. Grow(fulfillments, orders, fulfillments', orders')
  BY <1>1, <1>3, <1>4 DEF Grow
<1>7. Works(c, d)
  <2>1. Answers(fulfillments', orders', d, d.answer)
    BY <1>1, <1>3, <1>4, <1>5 DEF Answers, Becomes, f, o
  <2> QED BY <1>5, <1>6, <2>1 DEF Works, Steps
<1>9. /\ ShownInv' /\ DraftInv' /\ RequestInv' /\ CallInv' /\ calls' \subseteq Called
      /\ \A e \in calls' : Known(e.body, shown)
      /\ \A g : FlowsAre(g) => \A e \in calls' : g[e.body.op] = e.body.flow
  BY <1>7, StepKeeps DEF Works
<1>10. HoldInv' /\ AnswerInv'
  BY <1>7, WorkKeeps
<1>11. SaleTypes'
  BY <1>1, <1>4, <1>9 DEF SaleInv, SaleTypes
<1>12. KnownInv'
  BY <1>1, <1>4, <1>9 DEF SaleInv, KnownInv, Known, Card
<1>13. FlowInv'
  <2>1. PICK g \in [Ops -> Flows] : FlowsAre(g)
    BY DEF SaleInv, FlowInv
  <2>2. FlowsAre(g)'
    BY <1>1, <1>4, <1>9, <2>1 DEF FlowsAre, DraftsAre
  <2> QED BY <2>2 DEF FlowInv
<1>14. UniqueInv'
  BY <1>1, <1>4 DEF SaleInv, UniqueInv
<1>15. TakenInv'
  BY <1>4, <1>5 DEF SaleInv, TakenInv, AtWork, Becomes
<1>16. LinkInv'
  <2>1. \A i \in 1 .. Len(fulfillments) : fulfillments'[i].order # 0 =>
          fulfillments'[i].order \in 1 .. Len(orders) /\ orders[fulfillments'[i].order].f = i
    BY <1>3, <1>4 DEF SaleInv, LinkInv
  <2>2. \A j \in 1 .. Len(orders) : FulfillmentOf(fulfillments', orders[j].f, orders[j].op)
    BY <1>6, RowsStay DEF SaleInv, LinkInv
  <2> QED BY <1>1, <1>4, <2>1, <2>2 DEF LinkInv
<1> QED BY <1>9, <1>10, <1>11, <1>12, <1>13, <1>14, <1>15, <1>16 DEF SaleInv

LEMMA WorkStep ==
  ASSUME SaleInv, NEW c \in calls, Work(c) PROVE SaleInv'
<1>1. c.pc = "work" /\ UNCHANGED << row, session, req, ops, shown >>
  BY DEF Work
<1>2. CASE CreateFulfillment(c)
  BY <1>1, <1>2, FulfillmentStep
<1>3. CASE CreateOrder(c)
  <2> DEFINE same == { i \in 1 .. Len(orders) : orders[i].op = c.body.op }
  <2>1. c.stage = "order" /\ fulfillments' = fulfillments
    BY <1>3 DEF CreateOrder
  <2>2. ASSUME NEW i \in same, Answered(c, i), orders' = orders PROVE SaleInv'
    BY <1>1, <2>1, <2>2, SameOrderStep
  <2>3. CASE /\ same = {}
             /\ orders' = Append(orders,
                  [op |-> c.body.op, flow |-> c.body.flow, who |-> c.body.who,
                   item |-> c.body.item, f |-> c.body.f])
             /\ Answered(c, Len(orders) + 1)
    <3>1. \A i \in 1 .. Len(orders) : orders[i].op # c.body.op
      BY <2>3
    <3> QED BY <1>1, <2>1, <2>3, <3>1, NewOrderStep
  <2> QED BY <1>3, <2>2, <2>3 DEF CreateOrder
<1>4. CASE LinkOrder(c)
  BY <1>1, <1>4, LinkStep
<1> QED BY <1>2, <1>3, <1>4 DEF Work

LEMMA SaleStep == SaleInv /\ [Next]_vars => SaleInv'
<1> SUFFICES ASSUME SaleInv, [Next]_vars PROVE SaleInv'
  OBVIOUS
<1>1. ASSUME NEW r \in Requests, Page(r) PROVE SaleInv'
  BY <1>1, PageKeepsRows, PageKeepsDrafts DEF SaleInv
<1>2. ASSUME NEW r \in Requests, Ask(r) PROVE SaleInv'
  BY <1>2, AskStep
<1>3. ASSUME NEW r \in Requests, Timeout(r) PROVE SaleInv'
  BY <1>3, TimeoutStep
<1>4. ASSUME NEW c \in calls,
             ClaimKey(c) \/ HandleDuplicate(c) \/ Work(c) \/ ViewRaises(c) \/ SealAnswer(c) \/ HandlerDies(c)
      PROVE  SaleInv'
  BY <1>4, ClaimStep, DuplicateStep, WorkStep, RaiseStep, SealStep, DeathStep
<1>5. CASE UNCHANGED vars
  <2>1. UNCHANGED << row, calls, session, req, ops, shown, fulfillments, orders >>
    BY <1>5 DEF vars
  <2>2. SaleTypes' /\ ShownInv' /\ DraftInv' /\ KnownInv' /\ RequestInv'
    BY <2>1 DEF SaleInv, SaleTypes, ShownInv, DraftInv, KnownInv, RequestInv
  <2>3. FlowInv'
    BY <2>1 DEF SaleInv, FlowInv, FlowsAre
  <2>4. CallInv'
    BY <2>1 DEF SaleInv, CallInv, WaitFits, Body, DraftOf
  <2>5. HoldInv' /\ AnswerInv' /\ UniqueInv' /\ TakenInv' /\ LinkInv'
    BY <2>1 DEF SaleInv, HoldInv, AnswerInv, UniqueInv, TakenInv, LinkInv
  <2> QED BY <2>2, <2>3, <2>4, <2>5 DEF SaleInv
<1>6. ASSUME Next PROVE SaleInv'
  <2>1. CASE \E r \in Requests : Page(r) \/ Ask(r) \/ Timeout(r)
    BY <2>1, <1>1, <1>2, <1>3
  <2>2. CASE \E c \in calls : \/ ClaimKey(c) \/ HandleDuplicate(c) \/ Work(c) \/ ViewRaises(c)
                              \/ SealAnswer(c) \/ HandlerDies(c)
    BY <2>2, <1>4
  <2> QED BY <1>6, <2>1, <2>2 DEF Next, Page
<1> QED BY <1>5, <1>6

-----------------------------------------------------------------------------
(* What the invariant says of the sales                                      *)

LEMMA AtMostOne ==
  ASSUME NEW n \in Nat, NEW S \in SUBSET (1 .. n), \A i, j \in S : i = j
  PROVE  Cardinality(S) <= 1
<1>1. CASE S = {}
  BY <1>1, FS_EmptySet
<1>2. CASE S # {}
  <2>1. PICK i \in S : TRUE
    BY <1>2
  <2>2. S = { i }
    BY <2>1
  <2> QED BY <2>2, FS_Singleton
<1> QED BY <1>1, <1>2

LEMMA SalesAreOne == SaleInv => OnePerOperation
<1> SUFFICES ASSUME SaleInv, NEW op \in 1 .. MaxOps
             PROVE  Cardinality(Made(fulfillments, op)) <= 1 /\ Cardinality(Made(orders, op)) <= 1
  BY DEF OnePerOperation
<1>1. Len(fulfillments) \in Nat /\ Len(orders) \in Nat
  BY DEF SaleInv, SaleTypes
<1>2. /\ Made(fulfillments, op) \in SUBSET (1 .. Len(fulfillments))
      /\ \A i, j \in Made(fulfillments, op) : i = j
  BY DEF Made, SaleInv, UniqueInv
<1>3. Made(orders, op) \in SUBSET (1 .. Len(orders)) /\ \A i, j \in Made(orders, op) : i = j
  BY DEF Made, SaleInv, UniqueInv
<1> QED BY <1>1, <1>2, <1>3, AtMostOne

\* Two pages that showed the same operation showed the same.
LEMMA OrdersFit == SaleInv => SaleIsOne
<1> SUFFICES ASSUME SaleInv PROVE SaleIsOne
  OBVIOUS
<1>1. ASSUME NEW i \in 1 .. Len(orders)
      PROVE  LET f == fulfillments[orders[i].f] IN
             f.op = orders[i].op /\ f.flow = orders[i].flow /\ f.who = orders[i].who /\ f.item = orders[i].item
  <2> DEFINE j == orders[i].f
  <2>1. j \in 1 .. Len(fulfillments) /\ fulfillments[j].op = orders[i].op
    BY DEF SaleInv, LinkInv, FulfillmentOf
  <2>2. fulfillments[j].flow = orders[i].flow
    BY <2>1 DEF SaleInv, FlowInv, FlowsAre
  <2>3. Card(fulfillments[j]) = Card(orders[i])
    <3>1. Card(fulfillments[j]) \in shown /\ Card(orders[i]) \in shown
      BY <2>1 DEF SaleInv, KnownInv, Known
    <3>2. Card(fulfillments[j]).op = fulfillments[j].op /\ Card(orders[i]).op = orders[i].op
      BY DEF Card
    <3> QED BY <2>1, <3>1, <3>2 DEF SaleInv, ShownInv
  <2>4. fulfillments[j].who = orders[i].who /\ fulfillments[j].item = orders[i].item
    <3>1. \A a, b : Card(a) = Card(b) => a.who = b.who /\ a.item = b.item
      <4> TAKE a, b
      <4> HAVE Card(a) = Card(b)
      <4>1. Card(a).who = a.who /\ Card(b).who = b.who /\ Card(a).item = a.item /\ Card(b).item = b.item
        BY DEF Card
      <4> QED BY <4>1
    <3> QED BY <2>3, <3>1
  <2> QED BY <2>1, <2>2, <2>4
<1>2. \A i \in 1 .. Len(fulfillments) : fulfillments[i].order # 0 => orders[fulfillments[i].order].f = i
  BY DEF SaleInv, LinkInv
<1> QED BY <1>1, <1>2 DEF SaleIsOne

LEMMA OrdersWereShown == SaleInv => SoldWasShown
BY DEF SaleInv, KnownInv, Known, Card, SoldWasShown

LEMMA PageIsPayable == SaleInv => PayPageIsPayable
<1> SUFFICES ASSUME SaleInv, NEW r \in Requests, req[r].pc = "pop"
             PROVE  /\ orders[req[r].o].f = req[r].f
                    /\ orders[req[r].o].op = DraftOf(r).op
                    /\ req[r].flow = "topup" => fulfillments[req[r].f].order = req[r].o
  BY DEF PayPageIsPayable
<1>1. /\ FulfillmentOf(fulfillments, req[r].f, DraftOf(r).op) /\ OrderOf(orders, req[r].o, DraftOf(r).op)
      /\ req[r].flow = "topup" => fulfillments[req[r].f].order = req[r].o
  BY DEF SaleInv, RequestInv, RequestFits, DraftOf
<1>2. FulfillmentOf(fulfillments, orders[req[r].o].f, DraftOf(r).op)
  BY <1>1 DEF SaleInv, LinkInv, OrderOf
<1> QED BY <1>1, <1>2 DEF SaleInv, UniqueInv, FulfillmentOf, OrderOf

-----------------------------------------------------------------------------
(* The till                                                                  *)

LEMMA TillKeys ==
  /\ Nothing \notin Keys /\ Nothing \notin Requests
  /\ \A s \in Tills : << s, 1 >> \in Keys
  /\ CashKey \in Keys
  /\ Total \in Nat /\ Amounts \subseteq Nat
BY SaleAssumption, TillAssumption DEF Tills, CashKey

\* Clerk r goes on and asks for nothing yet.
Turns(r) == \E n \in Clerks : clerk' = [clerk EXCEPT ![r] = n] /\ ~ n.asked

LEMMA NoClerkFits == NoClerk \in Clerks /\ ~ NoClerk.asked /\ NoClerk.pc = "idle"
BY DEF NoClerk, Clerks, Tills

LEMMA StopsOrTurns ==
  ASSUME TillInv, NEW r \in Requests, Stop(r) \/ RetryOrStop(r)
  PROVE  Turns(r) /\ told' = told
<1>1. CASE Stop(r)
  BY <1>1, NoClerkFits DEF Stop, Turns
<1>2. CASE TryAgain(clerk[r].try) /\ RetryOrStop(r)
  <2> DEFINE n == [clerk[r] EXCEPT !.asked = FALSE, !.try = @ + 1]
  <2>1. clerk[r] \in Clerks /\ clerk[r].try + 1 \in Nat
    BY DEF TillInv, TillTypes, Clerks
  <2>2. n \in Clerks /\ ~ n.asked
    BY <2>1 DEF Clerks
  <2>3. clerk' = [clerk EXCEPT ![r] = n] /\ told' = told
    BY <1>2 DEF RetryOrStop
  <2> HIDE DEF n
  <2> QED BY <2>2, <2>3 DEF Turns
<1>3. CASE ~ TryAgain(clerk[r].try) /\ RetryOrStop(r)
  BY <1>1, <1>3 DEF RetryOrStop
<1> QED BY <1>1, <1>2, <1>3

\* What is told of a cash payment is what its attempt carried and was answered.
Tells(c, answer) ==
  c.stage = "cash" /\ c.by # Nothing /\ told' = told \cup { [amount |-> c.body, change |-> answer] }

LEMMA GoesOnward ==
  ASSUME TillInv, NEW c \in calls, c.by \in Requests, NEW answer, Onward(c, answer)
  PROVE  Turns(c.by) /\ (told' = told \/ Tells(c, answer))
<1> DEFINE r == c.by
<1> DEFINE n == IF c.stage = "pay" THEN [clerk[r] EXCEPT !.pc = "cash", !.asked = FALSE, !.try = 0]
                                   ELSE NoClerk
<1>1. clerk[r] \in Clerks /\ r # Nothing
  BY TillKeys DEF TillInv, TillTypes
<1>2. n \in Clerks /\ ~ n.asked
  BY <1>1, NoClerkFits DEF Clerks, Tills
<1>3. clerk' = [clerk EXCEPT ![r] = n]
  BY DEF Onward
<1> HIDE DEF n
<1>4. c.stage = "cash" => c.body = clerk[r].amount
  BY <1>1 DEF TillInv, AskedInv
<1>5. told' = told \/ Tells(c, answer)
  BY <1>1, <1>4 DEF Onward, Tells
<1> QED BY <1>2, <1>3, <1>5 DEF Turns

LEMMA HearsTill ==
  ASSUME TillInv, NEW c \in calls, NEW result, NEW answer, HearTill(c, result, answer)
  PROVE  /\ (c.by = Nothing /\ clerk' = clerk) \/ (c.by \in Requests /\ Turns(c.by))
         /\ told' = told \/ (result = "ok" /\ Tells(c, answer))
<1>1. c.by \in Requests \cup { Nothing }
  BY DEF TillInv, TillTypes, Rung
<1>2. CASE ~ Waiting(c) /\ UNCHANGED << clerk, told >>
  BY <1>2 DEF Waiting
<1>3. CASE Waiting(c) /\ result = "ok" /\ Onward(c, answer)
  BY <1>1, <1>3, GoesOnward DEF Waiting
<1>4. CASE Waiting(c) /\ (Stop(c.by) \/ RetryOrStop(c.by))
  BY <1>1, <1>4, StopsOrTurns DEF Waiting
<1> QED BY <1>2, <1>3, <1>4 DEF HearTill

\* The attempts that remain when attempt c is over.
LEMMA TillOver ==
  ASSUME TillInv, NEW c \in calls, calls' = calls \ { c },
         (c.by = Nothing /\ clerk' = clerk) \/ (c.by \in Requests /\ Turns(c.by)),
         row' \in [Keys -> RungRow],
         row' = row \/ (c.pc # "claim" /\ \A k \in Keys \ { c.key } : row'[k] = row[k]),
         tendered' = tendered
  PROVE  TillTypes' /\ AskedInv'
<1>1. \A q \in Requests : q # c.by => clerk'[q] = clerk[q]
  BY DEF Turns, TillInv, TillTypes
<1>2. clerk' \in [Requests -> Clerks] /\ \A q \in Requests : clerk'[q].asked => clerk'[q].pc \in Tills
  BY DEF Turns, TillInv, TillTypes
<1>3. TillTypes'
  BY <1>2 DEF TillInv, TillTypes
<1>4. ASSUME NEW d \in calls'
      PROVE  /\ d.key = << d.stage, 1 >>
             /\ d.by # Nothing =>
                  /\ clerk'[d.by].asked /\ clerk'[d.by].pc = d.stage
                  /\ d.stage = "cash" => d.body = clerk'[d.by].amount
             /\ d.pc # "claim" => row'[d.key].status = "IN_PROGRESS"
  <2>1. d \in calls /\ d # c /\ d.by \in Requests \cup { Nothing } /\ d.key \in Keys
    BY DEF TillInv, TillTypes, Rung
  <2>2. d.by # Nothing => d.by # c.by /\ clerk'[d.by] = clerk[d.by]
    BY <1>1, <2>1 DEF TillInv, AskedInv
  <2>3. d.pc # "claim" => row'[d.key] = row[d.key]
    BY <2>1 DEF TillInv, AskedInv
  <2> QED BY <2>1, <2>2, <2>3 DEF TillInv, AskedInv
<1>5. AskedInv'
  BY <1>4 DEF TillInv, AskedInv
<1> QED BY <1>3, <1>5

\* Steps that have nothing to do with the cash row leave what is known of it.
LEMMA CashStays ==
  ASSUME TillInv, told' = told, tendered' = tendered, row'[CashKey] = row[CashKey],
         \A d \in calls' : d.stage = "cash" /\ d.pc # "claim" => d \in calls
  PROVE  CashInv'
<1>1. ChangeIsTrue'
  BY DEF TillInv, CashInv, ChangeIsTrue
<1>2. \A d \in calls' : d.stage = "cash" /\ d.pc # "claim" =>
        /\ row[CashKey].body = d.body
        /\ d.pc = "work" => tendered = 0
        /\ d.pc = "seal" => tendered = d.body /\ d.answer = tendered - Total
  BY DEF TillInv, CashInv
<1> QED BY <1>1, <1>2 DEF TillInv, CashInv

\* Who holds the cash row, and that nobody was told anything while it is held.
LEMMA CashIsHeld ==
  ASSUME TillInv, NEW c \in calls, c.pc # "claim"
  PROVE  /\ c \in Rung /\ c.key = << c.stage, 1 >> /\ c.key \in Keys
         /\ row[c.key].status = "IN_PROGRESS"
         /\ c.stage = "cash" <=> c.key = CashKey
         /\ c.stage = "cash" =>
              /\ row[CashKey].body = c.body /\ told = {}
              /\ \A d \in calls : d.stage = "cash" /\ d.pc # "claim" => d = c
<1>1. c \in Rung /\ c.key = << c.stage, 1 >> /\ c.key \in Keys /\ row[c.key].status = "IN_PROGRESS"
  BY DEF TillInv, TillTypes, AskedInv, Rung
<1>2. c.stage = "cash" <=> c.key = CashKey
  BY <1>1 DEF CashKey
<1>3. c.stage = "cash" => row[CashKey].body = c.body /\ told = {}
  BY <1>1, <1>2 DEF TillInv, CashInv
<1>4. c.stage = "cash" => \A d \in calls : d.stage = "cash" /\ d.pc # "claim" => d = c
  BY DEF TillInv, AskedInv
<1> QED BY <1>1, <1>2, <1>3, <1>4

LEMMA TillDuplicateStep ==
  ASSUME TillInv, NEW c \in calls, TillDuplicate(c) PROVE TillInv'
<1> DEFINE result == Duplicate(c).result
<1> DEFINE answer == Duplicate(c).answer
<1>1. /\ HearTill(c, result, answer) /\ calls' = calls \ { c } /\ c.pc = "claim"
      /\ row' = row /\ tendered' = tendered
  BY DEF TillDuplicate, Ended
<1>2. result = "ok" => /\ row[c.key].status = "COMPLETED" /\ row[c.key].body = c.body
                       /\ answer = row[c.key].answer
  BY DEF Duplicate
<1> HIDE DEF result, answer
<1>3. /\ (c.by = Nothing /\ clerk' = clerk) \/ (c.by \in Requests /\ Turns(c.by))
      /\ told' = told \/ (result = "ok" /\ Tells(c, answer))
  BY <1>1, HearsTill
<1>4. TillTypes' /\ AskedInv'
  BY <1>1, <1>3, TillOver DEF TillInv, TillTypes
<1>5. CashInv'
  <2>1. CASE told' = told
    BY <1>1, <2>1, CashStays
  <2>2. CASE result = "ok" /\ Tells(c, answer)
    <3>1. c.key = CashKey
      BY <2>2 DEF Tells, TillInv, AskedInv, CashKey
    <3>2. tendered = c.body /\ answer = c.body - Total /\ row[CashKey].status = "COMPLETED"
      BY <1>2, <2>2, <3>1 DEF TillInv, CashInv
    <3>3. ChangeIsTrue'
      BY <1>1, <2>2, <3>2 DEF Tells, TillInv, CashInv, ChangeIsTrue
    <3> QED BY <1>1, <3>2, <3>3 DEF TillInv, CashInv
  <2> QED BY <1>3, <2>1, <2>2
<1> QED BY <1>4, <1>5 DEF TillInv

\* The row is freed, or keeps a failure: nothing was confirmed with it.
LEMMA GivenUp ==
  ASSUME TillInv, NEW c \in calls, c.pc = "work", NEW k \in RungRow, k.status \in { "free", "FAILED" },
         row' = [row EXCEPT ![c.key] = k], calls' = calls \ { c },
         (c.by = Nothing /\ clerk' = clerk) \/ (c.by \in Requests /\ Turns(c.by)),
         told' = told, tendered' = tendered
  PROVE  TillInv'
<1>1. row \in [Keys -> RungRow] /\ c.key \in Keys
  BY DEF TillInv, TillTypes, Rung
<1>2. row' \in [Keys -> RungRow] /\ \A x \in Keys : row'[x] = IF x = c.key THEN k ELSE row[x]
  BY <1>1
<1>3. TillTypes' /\ AskedInv'
  BY <1>2, TillOver
<1>4. CashInv'
  <2>1. CASE c.stage # "cash"
    BY <1>2, <2>1, CashIsHeld, CashStays, TillKeys
  <2>2. CASE c.stage = "cash"
    <3>1. told = {} /\ tendered = 0 /\ c.key = CashKey
      BY <2>2, CashIsHeld DEF TillInv, CashInv
    <3>2. \A d \in calls' : d.stage = "cash" => d.pc = "claim"
      BY <2>2, CashIsHeld
    <3> QED BY <1>1, <1>2, <3>1, <3>2 DEF CashInv, ChangeIsTrue
  <2> QED BY <2>1, <2>2
<1> QED BY <1>3, <1>4 DEF TillInv

LEMMA TillRaiseStep ==
  ASSUME TillInv, NEW c \in calls, TillRaises(c) PROVE TillInv'
<1>1. PICK result \in { "refused", "error" } : HearTill(c, result, Nothing)
  BY DEF TillRaises
<1>2. c.pc = "work" /\ Unclaim(c) /\ tendered' = tendered
  BY DEF TillRaises
<1>3. c.key # Nothing
  BY TillKeys DEF TillInv, TillTypes, Rung
<1>4. row' = [row EXCEPT ![c.key] = Free] /\ calls' = calls \ { c }
  BY <1>2, <1>3 DEF Unclaim, Ended
<1>5. Free \in RungRow /\ Free.status = "free"
  BY DEF Free, RungRow
<1>6. /\ (c.by = Nothing /\ clerk' = clerk) \/ (c.by \in Requests /\ Turns(c.by))
      /\ told' = told
  BY <1>1, HearsTill
<1> QED BY <1>2, <1>4, <1>5, <1>6, GivenUp

LEMMA FailureStep ==
  ASSUME TillInv, NEW c \in calls, c.pc = "work", SealFailure(c), HearTill(c, "refused", Nothing),
         tendered' = tendered
  PROVE  TillInv'
<1> DEFINE k == [row[c.key] EXCEPT !.status = "FAILED"]
<1>1. c.key # Nothing /\ c.key \in Keys
  BY TillKeys DEF TillInv, TillTypes, Rung
<1>2. k \in RungRow /\ k.status = "FAILED" /\ row' = [row EXCEPT ![c.key] = k] /\ calls' = calls \ { c }
  BY <1>1 DEF SealFailure, Ended, TillInv, TillTypes, RungRow
<1> HIDE DEF k
<1>3. /\ (c.by = Nothing /\ clerk' = clerk) \/ (c.by \in Requests /\ Turns(c.by))
      /\ told' = told
  BY HearsTill
<1> QED BY <1>2, <1>3, GivenUp

LEMMA TillSealStep ==
  ASSUME TillInv, NEW c \in calls, TillSeal(c) PROVE TillInv'
<1> DEFINE k == [row[c.key] EXCEPT !.status = "COMPLETED", !.answer = c.answer]
<1>1. c.pc = "seal" /\ HearTill(c, "ok", c.answer) /\ tendered' = tendered
      /\ c \in Rung /\ c.key # Nothing /\ c.key \in Keys /\ row \in [Keys -> RungRow]
  BY TillKeys DEF TillSeal, Seal, TillInv, TillTypes, Rung
<1>2. /\ k \in RungRow /\ k.status = "COMPLETED" /\ k.answer = c.answer /\ k.body = row[c.key].body
      /\ row' = [row EXCEPT ![c.key] = k] /\ calls' = calls \ { c }
  BY <1>1 DEF TillSeal, Seal, Ended, RungRow, Rung
<1> HIDE DEF k
<1>3. row' \in [Keys -> RungRow] /\ \A x \in Keys : row'[x] = IF x = c.key THEN k ELSE row[x]
  BY <1>1, <1>2
<1>4. /\ (c.by = Nothing /\ clerk' = clerk) \/ (c.by \in Requests /\ Turns(c.by))
      /\ told' = told \/ Tells(c, c.answer)
  BY <1>1, HearsTill
<1>5. TillTypes' /\ AskedInv'
  BY <1>1, <1>2, <1>3, <1>4, TillOver
<1>6. CashInv'
  <2>1. CASE c.stage # "cash"
    <3>1. told' = told /\ row'[CashKey] = row[CashKey]
      BY <1>1, <1>3, <1>4, <2>1, CashIsHeld, TillKeys DEF Tells
    <3> QED BY <1>1, <1>2, <3>1, CashStays
  <2>2. CASE c.stage = "cash"
    <3>1. /\ c.key = CashKey /\ told = {} /\ row[CashKey].body = c.body
          /\ tendered = c.body /\ c.answer = tendered - Total
      BY <1>1, <2>2, CashIsHeld DEF TillInv, CashInv
    <3>2. row'[CashKey].status = "COMPLETED" /\ row'[CashKey].body = c.body /\ row'[CashKey].answer = c.answer
      BY <1>1, <1>2, <1>3, <3>1
    <3>3. \A d \in calls' : d.stage = "cash" => d.pc = "claim"
      BY <1>1, <1>2, <2>2, CashIsHeld
    <3>4. ChangeIsTrue'
      BY <1>1, <1>4, <3>1 DEF Tells, ChangeIsTrue
    <3> QED BY <1>1, <3>1, <3>2, <3>3, <3>4 DEF CashInv
  <2> QED BY <2>1, <2>2
<1> QED BY <1>5, <1>6 DEF TillInv

LEMMA TillDeathStep ==
  ASSUME TillInv, NEW c \in calls, TillDies(c) PROVE TillInv'
<1>1. calls' = calls \ { c } /\ row' = row /\ clerk' = clerk /\ tendered' = tendered /\ told' = told
  BY DEF TillDies, Die, Ended
<1>2. TillTypes' /\ AskedInv'
  BY <1>1 DEF TillInv, TillTypes, AskedInv
<1>3. CashInv'
  BY <1>1, CashStays
<1> QED BY <1>2, <1>3 DEF TillInv

\* A form is posted: its thread waited for nothing.
LEMMA FormStep ==
  ASSUME TillInv, NEW r \in Requests, ~ clerk[r].asked, Turns(r),
         UNCHANGED << row, calls, tendered, told >>
  PROVE  TillInv'
<1>1. \A c \in calls : c.by # r \/ c.by = Nothing
  BY DEF TillInv, AskedInv
<1>2. \A q \in Requests : q # r => clerk'[q] = clerk[q]
  BY DEF Turns, TillInv, TillTypes
<1>3. TillTypes'
  <2>1. clerk' \in [Requests -> Clerks] /\ \A q \in Requests : clerk'[q].asked => clerk'[q].pc \in Tills
    BY DEF Turns, TillInv, TillTypes
  <2> QED BY <2>1 DEF TillInv, TillTypes
<1>4. AskedInv'
  <2>1. \A c \in calls : c.by # Nothing => clerk'[c.by] = clerk[c.by]
    BY <1>1, <1>2 DEF TillInv, TillTypes, Rung
  <2> QED BY <2>1 DEF TillInv, AskedInv
<1>5. CashInv'
  BY CashStays
<1> QED BY <1>3, <1>4, <1>5 DEF TillInv

LEMMA PayCashStep ==
  ASSUME TillInv, NEW r \in Requests, PayCash(r) \/ ExecuteTopup(r) PROVE TillInv'
<1>1. clerk[r] = NoClerk /\ UNCHANGED << row, calls, tendered, told >>
  BY DEF PayCash, ExecuteTopup, world
<1>2. CASE PayCash(r)
  <2>1. PICK a \in Amounts : clerk' = [clerk EXCEPT ![r] = [NoClerk EXCEPT !.pc = "pay", !.amount = a]]
    BY <1>2 DEF PayCash
  <2>2. /\ [NoClerk EXCEPT !.pc = "pay", !.amount = a] \in Clerks
        /\ ~ [NoClerk EXCEPT !.pc = "pay", !.amount = a].asked
    BY TillKeys DEF NoClerk, Clerks, Tills
  <2> QED BY <1>1, <2>1, <2>2, NoClerkFits, FormStep DEF Turns
<1>3. CASE ExecuteTopup(r)
  <2>1. [NoClerk EXCEPT !.pc = "execute"] \in Clerks /\ ~ [NoClerk EXCEPT !.pc = "execute"].asked
    BY DEF NoClerk, Clerks, Tills
  <2>2. clerk' = [clerk EXCEPT ![r] = [NoClerk EXCEPT !.pc = "execute"]]
    BY <1>3 DEF ExecuteTopup
  <2> QED BY <1>1, <2>1, <2>2, NoClerkFits, FormStep DEF Turns
<1> QED BY <1>2, <1>3

LEMMA AskTillStep ==
  ASSUME TillInv, NEW r \in Requests, AskTill(r) PROVE TillInv'
<1> DEFINE s == clerk[r].pc
<1> DEFINE body == IF s = "cash" THEN clerk[r].amount ELSE 0
<1> DEFINE n == [clerk[r] EXCEPT !.asked = TRUE]
<1>1. /\ s \in Tills /\ ~ clerk[r].asked /\ clerk[r] \in Clerks /\ body \in Nat
      /\ calls' = calls \cup { Attempt(r, s, << s, 1 >>, body) }
      /\ clerk' = [clerk EXCEPT ![r] = n]
      /\ UNCHANGED << row, tendered, told >>
  BY DEF AskTill, TillInv, TillTypes, Clerks
<1>2. PICK a \in Rung : /\ a.by = r /\ a.stage = s /\ a.key = << s, 1 >> /\ a.body = body /\ a.pc = "claim"
                        /\ calls' = calls \cup { a }
  <2> DEFINE x == Attempt(r, s, << s, 1 >>, body)
  <2>1. /\ x \in Rung /\ x.by = r /\ x.stage = s /\ x.key = << s, 1 >> /\ x.body = body /\ x.pc = "claim"
    BY <1>1, TillKeys DEF Attempt, Rung
  <2>2. calls' = calls \cup { x }
    BY <1>1
  <2> HIDE DEF x
  <2> QED BY <2>1, <2>2
<1>3. /\ n \in Clerks /\ n.asked /\ n.pc = s /\ n.amount = clerk[r].amount
  BY <1>1 DEF Clerks
<1> HIDE DEF n
<1>4. \A q \in Requests : clerk'[q] = IF q = r THEN n ELSE clerk[q]
  BY <1>1 DEF TillInv, TillTypes
<1>5. TillTypes'
  BY <1>1, <1>2, <1>3, <1>4 DEF TillInv, TillTypes
<1>6. \A c \in calls : c.by # r
  BY <1>1, TillKeys DEF TillInv, AskedInv
<1>7. AskedInv'
  <2>1. ASSUME NEW c \in calls'
        PROVE  /\ c.key = << c.stage, 1 >>
               /\ c.by # Nothing =>
                    /\ clerk'[c.by].asked /\ clerk'[c.by].pc = c.stage
                    /\ c.stage = "cash" => c.body = clerk'[c.by].amount
               /\ c.pc # "claim" => row'[c.key].status = "IN_PROGRESS"
    <3>1. CASE c = a
      BY <1>2, <1>3, <1>4, <3>1
    <3>2. CASE c \in calls
      <4>1. c.by \in Requests \cup { Nothing }
        BY <3>2 DEF TillInv, TillTypes, Rung
      <4> QED BY <1>1, <1>4, <1>6, <3>2, <4>1 DEF TillInv, AskedInv
    <3> QED BY <1>2, <3>1, <3>2
  <2>2. \A c, d \in calls' : c.by # Nothing /\ c.by = d.by => c = d
    BY <1>2, <1>6 DEF TillInv, AskedInv
  <2>3. \A c, d \in calls' : c.pc # "claim" /\ d.pc # "claim" /\ c.key = d.key => c = d
    BY <1>2 DEF TillInv, AskedInv
  <2> QED BY <2>1, <2>2, <2>3 DEF AskedInv
<1>8. CashInv'
  BY <1>1, <1>2, CashStays
<1> QED BY <1>5, <1>7, <1>8 DEF TillInv

LEMMA TillTimeoutStep ==
  ASSUME TillInv, NEW r \in Requests, TillTimeout(r) PROVE TillInv'
<1> DEFINE Left(c) == [c EXCEPT !.by = IF @ = r THEN Nothing ELSE @]
<1>1. calls' = { Left(c) : c \in calls } /\ UNCHANGED << row, tendered >>
  BY DEF TillTimeout, Abandon
<1>2. Turns(r) /\ told' = told
  BY StopsOrTurns DEF TillTimeout
<1>3. \A c \in calls :
        /\ Left(c) \in Rung /\ Left(c).by = IF c.by = r THEN Nothing ELSE c.by
        /\ Left(c).stage = c.stage /\ Left(c).key = c.key /\ Left(c).body = c.body
        /\ Left(c).pc = c.pc /\ Left(c).answer = c.answer
  BY DEF TillInv, TillTypes, Rung
<1> HIDE DEF Left
<1>4. \A d \in calls' : \E c \in calls : d = Left(c)
  BY <1>1
<1>5. \A q \in Requests : q # r => clerk'[q] = clerk[q]
  BY <1>2 DEF Turns, TillInv, TillTypes
<1>6. TillTypes'
  <2>1. clerk' \in [Requests -> Clerks] /\ \A q \in Requests : clerk'[q].asked => clerk'[q].pc \in Tills
    BY <1>2 DEF Turns, TillInv, TillTypes
  <2>2. calls' \subseteq Rung
    BY <1>3, <1>4
  <2> QED BY <1>1, <2>1, <2>2 DEF TillInv, TillTypes
<1>7. AskedInv'
  <2>1. ASSUME NEW c \in calls
        PROVE  /\ Left(c).key = << Left(c).stage, 1 >>
               /\ Left(c).by # Nothing =>
                    /\ clerk'[Left(c).by].asked /\ clerk'[Left(c).by].pc = Left(c).stage
                    /\ Left(c).stage = "cash" => Left(c).body = clerk'[Left(c).by].amount
               /\ Left(c).pc # "claim" => row[Left(c).key].status = "IN_PROGRESS"
    <3>1. c.by \in Requests \cup { Nothing }
      BY DEF TillInv, TillTypes, Rung
    <3>2. Left(c).by # Nothing => Left(c).by = c.by /\ clerk'[c.by] = clerk[c.by]
      BY <1>3, <1>5, <3>1
    <3> QED BY <1>3, <3>1, <3>2 DEF TillInv, AskedInv
  <2>2. \A c, d \in calls :
          /\ Left(c).by # Nothing /\ Left(c).by = Left(d).by => c = d
          /\ Left(c).pc # "claim" /\ Left(d).pc # "claim" /\ Left(c).key = Left(d).key => c = d
    BY <1>3 DEF TillInv, AskedInv
  <2> QED BY <1>1, <1>4, <2>1, <2>2 DEF AskedInv
<1>8. CashInv'
  <2>1. \A d \in calls' : d.stage = "cash" /\ d.pc # "claim" =>
          /\ row[CashKey].body = d.body
          /\ d.pc = "work" => tendered = 0
          /\ d.pc = "seal" => tendered = d.body /\ d.answer = tendered - Total
    BY <1>3, <1>4 DEF TillInv, CashInv
  <2>2. ChangeIsTrue'
    BY <1>1, <1>2 DEF TillInv, CashInv, ChangeIsTrue
  <2> QED BY <1>1, <1>2, <2>1, <2>2 DEF TillInv, CashInv
<1> QED BY <1>6, <1>7, <1>8 DEF TillInv

\* Attempt c goes on as d, with the row of its key.
LEMMA TillGoesOn ==
  ASSUME TillInv, NEW c \in calls, NEW d \in Rung, Becomes(c, d),
         calls' = (calls \ { c }) \cup { d }, clerk' = clerk, tendered' \in Nat,
         row' \in [Keys -> RungRow], row'[c.key].status = "IN_PROGRESS",
         \A k \in Keys \ { c.key } : row'[k] = row[k],
         c.pc = "claim" => row[c.key].status # "IN_PROGRESS"
  PROVE  TillTypes' /\ AskedInv'
<1>1. TillTypes'
  BY DEF TillInv, TillTypes
<1>2. ASSUME NEW e \in calls'
      PROVE  /\ e.key = << e.stage, 1 >>
             /\ e.by # Nothing =>
                  /\ clerk[e.by].asked /\ clerk[e.by].pc = e.stage
                  /\ e.stage = "cash" => e.body = clerk[e.by].amount
             /\ e.pc # "claim" => row'[e.key].status = "IN_PROGRESS"
  <2>1. CASE e = d
    BY <2>1 DEF TillInv, AskedInv, Becomes
  <2>2. CASE e \in calls
    <3>1. e.key \in Keys
      BY <2>2 DEF TillInv, TillTypes, Rung
    <3> QED BY <2>2, <3>1 DEF TillInv, AskedInv
  <2> QED BY <2>1, <2>2
<1>3. \A e, x \in calls' : e.by # Nothing /\ e.by = x.by => e = x
  BY DEF TillInv, AskedInv, Becomes
<1>4. \A e \in calls : e # c /\ e.pc # "claim" => e.key # c.key
  BY DEF TillInv, AskedInv
<1>5. \A e, x \in calls' : e.pc # "claim" /\ x.pc # "claim" /\ e.key = x.key => e = x
  BY <1>4 DEF TillInv, AskedInv, Becomes
<1>6. AskedInv'
  BY <1>2, <1>3, <1>5 DEF AskedInv
<1> QED BY <1>1, <1>6

LEMMA TillClaimStep ==
  ASSUME TillInv, NEW c \in calls, TillClaim(c) PROVE TillInv'
<1> DEFINE d == [c EXCEPT !.pc = "work"]
<1> DEFINE k == [status |-> "IN_PROGRESS", body |-> c.body, answer |-> Nothing]
<1>1. /\ c.pc = "claim" /\ row[c.key] = Free /\ row' = [row EXCEPT ![c.key] = k]
      /\ calls' = (calls \ { c }) \cup { d }
      /\ clerk' = clerk /\ tendered' = tendered /\ told' = told
  BY DEF TillClaim, Claim, Unseen, Moved
<1>2. /\ d \in Rung /\ Becomes(c, d) /\ d.stage = c.stage /\ d.body = c.body /\ d.pc = "work"
      /\ c.key \in Keys /\ c.key = << c.stage, 1 >>
  BY DEF TillInv, TillTypes, AskedInv, Rung, Becomes
<1>3. k \in RungRow /\ k.status = "IN_PROGRESS" /\ k.body = c.body /\ row \in [Keys -> RungRow]
  BY DEF TillInv, TillTypes, Rung, RungRow
<1> HIDE DEF d, k
<1>4. row' \in [Keys -> RungRow] /\ \A x \in Keys : row'[x] = IF x = c.key THEN k ELSE row[x]
  BY <1>1, <1>3
<1>5. TillTypes' /\ AskedInv'
  <2>1. row[c.key].status # "IN_PROGRESS"
    BY <1>1 DEF Free
  <2>2. tendered' \in Nat
    BY <1>1 DEF TillInv, TillTypes
  <2> QED BY <1>1, <1>2, <1>3, <1>4, <2>1, <2>2, TillGoesOn
<1>6. CashInv'
  <2>1. CASE c.stage # "cash"
    <3>1. row'[CashKey] = row[CashKey]
      BY <1>2, <1>4, <2>1, TillKeys DEF CashKey
    <3> QED BY <1>1, <1>2, <2>1, <3>1, CashStays
  <2>2. CASE c.stage = "cash"
    <3>1. c.key = CashKey /\ row[CashKey].status = "free"
      BY <1>1, <1>2, <2>2 DEF CashKey, Free
    <3>2. tendered = 0 /\ told = {} /\ row'[CashKey].status = "IN_PROGRESS" /\ row'[CashKey].body = c.body
      BY <1>2, <1>3, <1>4, <3>1 DEF TillInv, CashInv
    <3>3. \A e \in calls : e.stage = "cash" => e.pc = "claim"
      BY <3>1, CashIsHeld
    <3> QED BY <1>1, <1>2, <3>2, <3>3 DEF CashInv, ChangeIsTrue
  <2> QED BY <2>1, <2>2
<1> QED BY <1>5, <1>6 DEF TillInv

\* Work that was done and will be answered.
LEMMA TillAnswered ==
  ASSUME TillInv, NEW c \in calls, NEW a \in Nat, c.pc = "work", Answered(c, a),
         row' = row, clerk' = clerk, tendered' \in Nat
  PROVE  /\ TillTypes' /\ AskedInv'
         /\ \E d \in Rung : /\ calls' = (calls \ { c }) \cup { d } /\ Becomes(c, d)
                            /\ d.pc = "seal" /\ d.answer = a
<1> DEFINE x == [c EXCEPT !.pc = "seal", !.answer = a]
<1>1. x \in Rung /\ Becomes(c, x) /\ x.pc = "seal" /\ x.answer = a /\ calls' = (calls \ { c }) \cup { x }
  BY DEF Answered, TillInv, TillTypes, Rung, Becomes
<1> HIDE DEF x
<1>2. row' \in [Keys -> RungRow]
  BY DEF TillInv, TillTypes
<1>3. row'[c.key].status = "IN_PROGRESS"
  BY CashIsHeld
<1>4. TillTypes' /\ AskedInv'
  BY <1>1, <1>2, <1>3, TillGoesOn
<1> QED BY <1>1, <1>4

\* The cash is confirmed: this is the one attempt, and nothing was before.
LEMMA CashConfirmed ==
  ASSUME TillInv, NEW c \in calls, c.pc = "work", ConfirmCash(c) PROVE TillInv'
<1>1. /\ c.stage = "cash" /\ c.body >= Total /\ Answered(c, c.body - Total)
      /\ row' = row /\ clerk' = clerk /\ told' = told
      /\ tendered' = IF tendered = 0 THEN c.body ELSE tendered
  BY DEF ConfirmCash, Enough
<1>2. /\ c.body \in Nat /\ tendered = 0 /\ told = {} /\ row[CashKey].status = "IN_PROGRESS"
      /\ row[CashKey].body = c.body
      /\ \A e \in calls : e.stage = "cash" /\ e.pc # "claim" => e = c
  BY <1>1, CashIsHeld DEF TillInv, CashInv, Rung
<1>3. tendered' = c.body /\ c.body - Total \in Nat
  BY <1>1, <1>2, TillKeys
<1>4. TillTypes' /\ AskedInv'
  BY <1>1, <1>2, <1>3, TillAnswered
<1>5. PICK d \in Rung : /\ calls' = (calls \ { c }) \cup { d } /\ Becomes(c, d)
                        /\ d.pc = "seal" /\ d.answer = c.body - Total
  BY <1>1, <1>2, <1>3, TillAnswered
<1>6. CashInv'
  BY <1>1, <1>2, <1>3, <1>5 DEF CashInv, ChangeIsTrue, Becomes
<1> QED BY <1>4, <1>6 DEF TillInv

\* Every other answer leaves the payment as it is.
LEMMA OtherAnswerStep ==
  ASSUME TillInv, NEW c \in calls, c.pc = "work", c.stage # "cash", Answered(c, 0),
         UNCHANGED << row, clerk, tendered, told >>
  PROVE  TillInv'
<1>1. tendered' \in Nat /\ 0 \in Nat
  BY DEF TillInv, TillTypes
<1>2. TillTypes' /\ AskedInv'
  BY <1>1, TillAnswered
<1>3. PICK d \in Rung : calls' = (calls \ { c }) \cup { d } /\ Becomes(c, d)
  BY <1>1, TillAnswered
<1>4. CashInv'
  BY <1>3, CashStays DEF Becomes
<1> QED BY <1>2, <1>4 DEF TillInv

LEMMA TillWorkStep ==
  ASSUME TillInv, NEW c \in calls, TillWork(c) PROVE TillInv'
<1>1. c.pc = "work"
  BY DEF TillWork
<1>2. CASE StartPayment(c)
  BY <1>1, <1>2, OtherAnswerStep DEF StartPayment
<1>3. CASE ConfirmCash(c)
  BY <1>1, <1>3, CashConfirmed
<1>4. CASE NoCashAttempt(c)
  BY <1>1, <1>4, FailureStep DEF NoCashAttempt
<1>5. CASE AlreadyExecuted(c)
  BY <1>1, <1>5, OtherAnswerStep DEF AlreadyExecuted
<1>6. CASE Executed(c)
  <2>1. c.stage # "cash" /\ tendered' = tendered
    BY <1>6 DEF Executed
  <2>2. CASE Answered(c, 0) /\ UNCHANGED << row, clerk, told >>
    BY <1>1, <2>1, <2>2, OtherAnswerStep
  <2>3. CASE SealFailure(c) /\ HearTill(c, "refused", Nothing)
    BY <1>1, <2>1, <2>3, FailureStep
  <2> QED BY <1>6, <2>2, <2>3 DEF Executed
<1>7. CASE NotSeenPaid(c)
  BY <1>1, <1>7, FailureStep DEF NotSeenPaid
<1> QED BY <1>2, <1>3, <1>4, <1>5, <1>6, <1>7 DEF TillWork

LEMMA ServeStep == TillInv /\ Serve => TillInv'
<1> SUFFICES ASSUME TillInv, Serve PROVE TillInv'
  OBVIOUS
<1>1. CASE \E r \in Requests : PayCash(r) \/ ExecuteTopup(r) \/ AskTill(r) \/ TillTimeout(r)
  BY <1>1, PayCashStep, AskTillStep, TillTimeoutStep
<1>2. CASE \E c \in calls : \/ TillClaim(c) \/ TillDuplicate(c) \/ TillWork(c)
                            \/ TillRaises(c) \/ TillSeal(c) \/ TillDies(c)
  BY <1>2, TillClaimStep, TillDuplicateStep, TillWorkStep, TillRaiseStep, TillSealStep, TillDeathStep
<1> QED BY <1>1, <1>2 DEF Serve

-----------------------------------------------------------------------------
(* The two desks                                                             *)

LEMMA DeskInitial == TillInit => DeskInv
<1> SUFFICES ASSUME TillInit PROVE DeskInv
  OBVIOUS
<1>1. Init /\ desk \in { "sale", "till" } /\ told = {} /\ tendered = 0
      /\ clerk = [r \in Requests |-> NoClerk] /\ row = [k \in Keys |-> Free] /\ calls = {}
  BY DEF TillInit, Init
<1>2. TillTypes
  BY <1>1, NoClerkFits DEF TillTypes, Free, RungRow
<1>3. AskedInv /\ CashInv
  BY <1>1, TillKeys DEF AskedInv, CashInv, ChangeIsTrue, Free
<1>4. fulfillments = << >> /\ orders = << >> /\ \A r \in Requests : req[r] = Idle
  BY <1>1 DEF Init
<1> QED BY <1>1, <1>2, <1>3, <1>4, SaleInitial DEF DeskInv, TillInv

LEMMA DeskStep == DeskInv /\ [TillNext]_allVars => DeskInv'
<1> SUFFICES ASSUME DeskInv, [TillNext]_allVars PROVE DeskInv'
  OBVIOUS
<1>1. CASE AtSale
  <2>1. desk = "sale" /\ desk' = desk /\ told' = told /\ SaleInv /\ told = {} /\ Next
    BY <1>1 DEF AtSale, tillVars, DeskInv
  <2> QED BY <2>1, SaleStep DEF DeskInv
<1>2. CASE AtTill /\ Serve
  <2>1. desk = "till" /\ UNCHANGED << req, fulfillments, orders, desk >> /\ TillInv
    BY <1>2 DEF AtTill, DeskInv
  <2> QED BY <1>2, <2>1, ServeStep DEF DeskInv
<1>3. CASE UNCHANGED allVars
  <2>1. UNCHANGED vars /\ UNCHANGED tillVars
    BY <1>3 DEF allVars
  <2>2. UNCHANGED << row, calls, req, fulfillments, orders, desk, clerk, tendered, told >>
    BY <2>1 DEF vars, tillVars
  <2>3. CASE desk = "sale"
    BY <2>1, <2>2, <2>3, SaleStep DEF DeskInv
  <2>4. CASE desk = "till"
    <3>1. TillTypes' /\ AskedInv'
      BY <2>2, <2>4 DEF DeskInv, TillInv, TillTypes, AskedInv
    <3>2. CashInv'
      BY <2>2, <2>4, CashStays DEF DeskInv
    <3> QED BY <2>2, <2>4, <3>1, <3>2 DEF DeskInv, TillInv
  <2> QED BY <2>3, <2>4 DEF DeskInv
<1> QED BY <1>1, <1>2, <1>3 DEF TillNext

LEMMA DeskIsSound == TillSpec => []DeskInv
BY DeskInitial, DeskStep, PTL DEF TillSpec

-----------------------------------------------------------------------------
(* Theorems, of any number of threads, operations, retries and faults        *)

LEMMA NoSales ==
  ASSUME fulfillments = << >>, orders = << >>, \A r \in Requests : req[r] = Idle
  PROVE  OnePerOperation /\ SaleIsOne /\ SoldWasShown /\ PayPageIsPayable
<1>1. \A op : Made(<< >>, op) = {}
  BY DEF Made
<1>2. OnePerOperation
  BY <1>1, FS_EmptySet DEF OnePerOperation
<1> QED BY <1>2, EmptyDraft DEF SaleIsOne, SoldWasShown, PayPageIsPayable

\* idempotencia.py and create_order of the gateway: of one operation come one
\* fulfillment and one order, however often the form is posted and a call is
\* tried again, and wherever a handler dies.
THEOREM OneSale == TillSpec => []OnePerOperation
<1>1. DeskInv => OnePerOperation
  BY SalesAreOne, NoSales DEF DeskInv
<1> QED BY <1>1, DeskIsSound, PTL

\* create_order of the gateway: an order is for the fulfillment it names, with
\* the same number and product, and a linked topup is known by its order.
THEOREM SaleFits == TillSpec => []SaleIsOne
<1>1. DeskInv => SaleIsOne
  BY OrdersFit, NoSales DEF DeskInv
<1> QED BY <1>1, DeskIsSound, PTL

\* confirm_step and inquire, and the session that two tabs share: what an order
\* sells was on the confirmation page of its operation.
THEOREM OrderWasShown == TillSpec => []SoldWasShown
<1>1. DeskInv => SoldWasShown
  BY OrdersWereShown, NoSales DEF DeskInv
<1> QED BY <1>1, DeskIsSound, PTL

\* create_order of the gateway: the tab that reaches the payment page has an
\* order, and a topup that is linked to it.
THEOREM PayablePage == TillSpec => []PayPageIsPayable
<1>1. DeskInv => PayPageIsPayable
  BY PageIsPayable, NoSales DEF DeskInv
<1> QED BY <1>1, DeskIsSound, PTL

\* pay_cash and confirm_cash: the change that is told belongs to the amount the
\* payment records, whatever is posted again with another amount.
THEOREM TrueChange == TillSpec => []ChangeIsTrue
<1>1. DeskInv => ChangeIsTrue
  BY DEF DeskInv, TillInv, CashInv, ChangeIsTrue
<1> QED BY <1>1, DeskIsSound, PTL
=============================================================================
