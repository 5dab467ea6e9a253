------------------------------ MODULE Counter ------------------------------
(* The counter of the topups service: what was last synchronised of the      *)
(* provider's catalogue (how, is module Sync), the guard that asks for the   *)
(* provider's balance before a sale, and what the sales take from it.        *)
EXTENDS Integers, FiniteSets

CONSTANTS Goods, Values,
          Offers,     \* catalogues the provider may have
          Sales,      \* topups somebody asks for
          Balance,    \* what is deposited at the provider
          Reserve,    \* TOPUP_RESERVA_SALDO_CENTS
          TTL,        \* TOPUP_SALDO_CACHE_SECONDS, in ticks
          Production, \* the adapter runs in production
          Measured,   \* the balance is measured before and after each topup
          MaxTime, MaxSyncs,
          NotSaid,    \* the provider does not say its balance
          Nothing

VARIABLES shelf,      \* TopupProduct
          syncs, now,
          balance,    \* at the provider
          cached,     \* the cached report of the balance
          sale,       \* TopupFulfillment, from the check of its balance on
          heard,      \* a report a sale has asked for and not used yet
          orderly     \* history: sales came one after the other

counterVars == << shelf, syncs, now, balance, cached, sale, heard, orderly >>
catVars  == << shelf, syncs >>
saleVars == << balance, cached, sale, heard, orderly >>

\* A product has one amount, or a range of them; both are low .. high.
OfferSet == [low : Values, high : Values]

ASSUME CounterAssumption ==
  /\ Offers \subseteq [Goods -> OfferSet \cup { Nothing }]
  /\ Values \subseteq Nat \ { 0 } /\ Balance \in Nat /\ Reserve \in Nat /\ TTL \in Nat
  /\ Production \in BOOLEAN /\ Measured \in BOOLEAN

\* "new", then checking, pending payment, sent, and how it ended.
States == { "new", "checking", "refused", "pending", "sent", "delivered", "short", "lost", "cancelled" }
Open   == { "checking", "pending", "sent" }
Fresh  == [state |-> "new", sku |-> Nothing, amount |-> 0, at |-> 0]

CounterTypeOK ==
  /\ \A s \in Goods : shelf[s] # Nothing => shelf[s].is \in OfferSet /\ shelf[s].active \in BOOLEAN
  /\ balance \in Nat
  /\ cached # Nothing => cached.value \in Nat \cup { NotSaid } /\ cached.until >= now
  /\ \A i \in Sales : sale[i].state \in States

CounterInit ==
  /\ shelf = [s \in Goods |-> Nothing]
  /\ syncs = 0 /\ now = 0
  /\ balance = Balance
  /\ cached = Nothing
  /\ sale = [i \in Sales |-> Fresh]
  /\ heard = [i \in Sales |-> Nothing]
  /\ orderly = TRUE

-----------------------------------------------------------------------------
(* sync_catalog                                                              *)

Stocked(old, o) ==
  [s \in Goods |->
     IF o[s] # Nothing THEN [is |-> o[s], active |-> TRUE]
     ELSE IF old[s] # Nothing THEN [old[s] EXCEPT !.active = FALSE] ELSE Nothing]

\* A run commits: upserts, and what the provider no longer sells is switched
\* off; an empty catalogue switches off everything.
Synchronize(o) ==
  /\ syncs < MaxSyncs
  /\ shelf' = Stocked(shelf, o)
  /\ syncs' = syncs + 1
  /\ UNCHANGED << now, saleVars >>

-----------------------------------------------------------------------------
(* The guard, in create_fulfillment                                          *)

\* verificar and bloquea: what is known to be short never sells, what is not
\* known does not sell in production.
Permits(value, amount) ==
  IF value = NotSaid THEN ~ Production ELSE value - amount >= Reserve

Sellable(s, amount) ==
  shelf[s] # Nothing /\ shelf[s].active /\ amount >= shelf[s].is.low /\ amount <= shelf[s].is.high

Decided(i, s, amount, value) ==
  [sale EXCEPT ![i] = [state |-> IF Permits(value, amount) THEN "pending" ELSE "refused",
                       sku |-> s, amount |-> amount, at |-> now]]

\* No other sale is open, and none lost its answer while its report may still
\* be cached.
Alone(i) ==
  \A j \in Sales \ { i } :
    sale[j].state \notin Open /\ ~ (sale[j].state = "lost" /\ now <= sale[j].at + TTL)

\* The cached report answers.
CreateFromCache(i, s, amount) ==
  /\ sale[i].state = "new"
  /\ Sellable(s, amount)
  /\ cached # Nothing
  /\ sale' = Decided(i, s, amount, cached.value)
  /\ orderly' = (orderly /\ Alone(i))
  /\ UNCHANGED << catVars, now, balance, cached, heard >>

\* Or the provider is asked, which may not say.
Ask(i, s, amount) ==
  /\ sale[i].state = "new"
  /\ Sellable(s, amount)
  /\ cached = Nothing
  /\ heard' = [heard EXCEPT ![i] = balance] \/ heard' = [heard EXCEPT ![i] = NotSaid]
  /\ sale' = [sale EXCEPT ![i] = [state |-> "checking", sku |-> s, amount |-> amount, at |-> now]]
  /\ orderly' = (orderly /\ Alone(i))
  /\ UNCHANGED << catVars, now, balance, cached >>

\* Its answer is cached, not saying included, and decides.
Create(i) ==
  /\ sale[i].state = "checking"
  /\ cached' = [value |-> heard[i], until |-> now + TTL]
  /\ sale' = Decided(i, sale[i].sku, sale[i].amount, heard[i])
  /\ heard' = [heard EXCEPT ![i] = Nothing]
  /\ UNCHANGED << catVars, now, balance, orderly >>

-----------------------------------------------------------------------------
(* The topup                                                                 *)

Cancel(i) ==
  /\ sale[i].state = "pending"
  /\ sale' = [sale EXCEPT ![i].state = "cancelled"]
  /\ UNCHANGED << catVars, now, balance, cached, heard, orderly >>

\* execute_topup, paid: the balance is measured, and the request sent.
Send(i) ==
  /\ sale[i].state = "pending"
  /\ sale' = [sale EXCEPT ![i].state = "sent"]
  /\ cached' = IF Measured THEN [value |-> balance, until |-> now + TTL] ELSE cached
  /\ UNCHANGED << catVars, now, balance, heard, orderly >>

\* Mutant: the cached report stays.
Mutant_NotInvalidated(report) == cached
\* invalidar, and the second measure when there is one.
Invalidated(report) == IF Measured THEN [value |-> report, until |-> now + TTL] ELSE Nothing

\* The provider delivers.
Deliver(i) ==
  /\ sale[i].state = "sent"
  /\ balance >= sale[i].amount
  /\ balance' = balance - sale[i].amount
  /\ sale' = [sale EXCEPT ![i].state = "delivered"]
  /\ cached' = Invalidated(balance - sale[i].amount)
  /\ UNCHANGED << catVars, now, heard, orderly >>

\* It delivers and the answer is lost: nothing invalidates the report.
DeliverUnheard(i) ==
  /\ sale[i].state = "sent"
  /\ balance >= sale[i].amount
  /\ balance' = balance - sale[i].amount
  /\ sale' = [sale EXCEPT ![i].state = "lost", ![i].at = now]
  /\ UNCHANGED << catVars, now, cached, heard, orderly >>

\* It has too little, and the customer has paid.
Short(i) ==
  /\ sale[i].state = "sent"
  /\ balance < sale[i].amount
  /\ sale' = [sale EXCEPT ![i].state = "short"]
  /\ UNCHANGED << catVars, now, balance, cached, heard, orderly >>

Tick ==
  /\ now < MaxTime
  /\ now' = now + 1
  /\ cached' = IF cached # Nothing /\ cached.until < now + 1 THEN Nothing ELSE cached
  /\ UNCHANGED << catVars, balance, sale, heard, orderly >>

CounterNext ==
  \/ \E o \in Offers : Synchronize(o)
  \/ \E i \in Sales, s \in Goods, amount \in Values :
       CreateFromCache(i, s, amount) \/ Ask(i, s, amount)
  \/ \E i \in Sales : \/ Create(i) \/ Cancel(i) \/ Send(i)
                      \/ Deliver(i) \/ DeliverUnheard(i) \/ Short(i)
  \/ Tick

CounterSpec == CounterInit /\ [][CounterNext]_counterVars

-----------------------------------------------------------------------------
\* In production, sales that come one after the other are all served: nobody
\* pays for a topup the balance cannot cover, whatever is cached.
OneAtATimeIsServed == Production /\ orderly => \A i \in Sales : sale[i].state # "short"

\* Nobody pays for a topup the provider then refuses for lack of balance.
PaidIsNeverShort == Production => \A i \in Sales : sale[i].state # "short"
=============================================================================
