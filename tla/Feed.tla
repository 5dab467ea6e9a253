-------------------------------- MODULE Feed --------------------------------
(* The catalogue of a topup provider as its adapter reads it, the price at   *)
(* which its rows are sold, and what the provider then delivers for them.    *)
EXTENDS Integers

CONSTANTS Rows,
          Values,    \* amounts, in pesos
          Absent,
          Lowest, Highest, \* the range of an operator without denominations
          MaxReads

VARIABLES source,   \* the provider
          worth,    \* what each row delivers
          listed,   \* how the provider writes it today
          offered,  \* TopupProduct.is_active rows: their limits
          repriced, \* history: rows that deliver another amount than when last read
          ticket,   \* the topup of each row, if one was sold
          reads

feedVars == << source, worth, listed, offered, repriced, ticket, reads >>

Sources == { "linntae", "reloadly", "taecel" }

\* "pesos": an amount in pesos.  "wallet": only in the currency of our wallet.
\* "range": any amount.  "none": no amount.  "odd": one that cannot be read.
\* "nameless": without what identifies it.
Writings == { "pesos", "wallet", "range", "none", "odd", "nameless", "gone" }

ASSUME FeedAssumption ==
  /\ Values \subseteq Nat \ { 0 } /\ { Lowest, Highest } \subseteq Values /\ MaxReads \in Nat

FeedTypeOK ==
  /\ source \in Sources /\ worth \in [Rows -> Values] /\ listed \in [Rows -> Writings]
  /\ repriced \subseteq Rows
  /\ \A r \in Rows : ticket[r] # Absent => ticket[r].charged \in Values
  /\ reads \in 0 .. MaxReads

FeedInit ==
  /\ source \in Sources
  /\ worth \in [Rows -> Values]
  /\ listed = [r \in Rows |-> "gone"]
  /\ offered = [r \in Rows |-> Absent]
  /\ repriced = {}
  /\ ticket = [r \in Rows |-> Absent]
  /\ reads = 0

-----------------------------------------------------------------------------
(* What an adapter makes of a row                                            *)

Exactly(v) == [low |-> v, high |-> v]

\* A product with neither amount nor range.
Unpriced == [low |-> 0, high |-> 0]

\* _oferta and a_money: without an idOffer it is no offer; without an amount it
\* is one.
LinntaeRow(r) ==
  IF listed[r] \in { "gone", "nameless" } THEN Absent
  ELSE IF listed[r] = "pesos" THEN Exactly(worth[r]) ELSE Unpriced

\* localFixedAmounts, or localMinAmount and localMaxAmount.
ReloadlyRow(r) ==
  IF listed[r] = "pesos" THEN Exactly(worth[r])
  ELSE IF listed[r] = "range" THEN [low |-> Lowest, high |-> Highest] ELSE Absent

\* An amount that cannot be read drops the row; one that is not there does not.
TaecelRow(r) ==
  IF listed[r] \in { "gone", "nameless", "odd" } THEN Absent
  ELSE IF listed[r] = "pesos" THEN Exactly(worth[r]) ELSE Unpriced

Product(r) ==
  IF source = "linntae" THEN LinntaeRow(r)
  ELSE IF source = "reloadly" THEN ReloadlyRow(r) ELSE TaecelRow(r)

\* The database refuses a product with neither amount nor range
\* (product_has_amount_or_range), and the transaction goes back with it.
Refused == \E r \in Rows : Product(r) = Unpriced

\* Mutant: what the provider does not list any more stays on sale.
Mutant_Read ==
  /\ reads < MaxReads /\ reads' = reads + 1
  /\ IF Refused THEN UNCHANGED << offered, repriced >>
     ELSE /\ offered' = [r \in Rows |-> IF Product(r) = Absent THEN offered[r] ELSE Product(r)]
          /\ repriced' = {}
  /\ UNCHANGED << source, worth, listed, ticket >>

\* fetch_catalog and sync_catalog: what is not there any more is not sold, and
\* when a row is refused yesterday's catalogue stays whole.
Read ==
  /\ reads < MaxReads /\ reads' = reads + 1
  /\ IF Refused THEN UNCHANGED << offered, repriced >>
     ELSE offered' = [r \in Rows |-> Product(r)] /\ repriced' = {}
  /\ UNCHANGED << source, worth, listed, ticket >>

\* What the provider may write next to this row.
Writes ==
  CASE source = "linntae"  -> { "pesos", "none", "odd", "nameless", "gone" }
    [] source = "reloadly" -> { "pesos", "wallet", "range", "odd", "gone" }
    [] source = "taecel"   -> { "pesos", "none", "odd", "nameless", "gone" }

Rewrite(r, how) ==
  /\ how \in Writes
  /\ listed' = [listed EXCEPT ![r] = how]
  /\ UNCHANGED << source, worth, offered, repriced, ticket, reads >>

\* The provider changes what the row delivers, and writes it where it writes it.
Reprice(r, v) ==
  /\ worth[r] # v
  /\ worth' = [worth EXCEPT ![r] = v]
  /\ repriced' = repriced \cup { r }
  /\ ticket' = IF ticket[r] = Absent THEN ticket ELSE [ticket EXCEPT ![r].stale = TRUE]
  /\ UNCHANGED << source, listed, offered, reads >>

-----------------------------------------------------------------------------
(* The sale and its delivery                                                 *)

\* TopupProduct.validate_amount
Allows(p, amount) == amount \in p.low .. p.high

\* create_fulfillment; stale: the row was repriced after it was last read.
SellRow(r, amount) ==
  /\ ticket[r] = Absent /\ offered[r] # Absent
  /\ Allows(offered[r], amount)
  /\ ticket' = [ticket EXCEPT ![r] = [charged |-> amount, got |-> 0, stale |-> r \in repriced]]
  /\ UNCHANGED << source, worth, listed, offered, repriced, reads >>

\* What the provider understands of the request.  Linntae's names an offer and
\* no amount.  Reloadly's names an amount, in pesos because useLocalAmount is
\* set.  TAECEL's names both, for nobody fills in amount_in_sku, and which one
\* counts is TAECEL's affair.
Asked(r) ==
  IF source = "linntae" THEN { worth[r] }
  ELSE IF source = "reloadly" THEN { ticket[r].charged } ELSE { worth[r], ticket[r].charged }

Deliver(r, v) ==
  /\ ticket[r] # Absent /\ ticket[r].got = 0
  /\ v \in Asked(r)
  /\ ticket' = [ticket EXCEPT ![r].got = v]
  /\ UNCHANGED << source, worth, listed, offered, repriced, reads >>

FeedNext ==
  \/ Read
  \/ \E r \in Rows : \/ \E how \in Writings : Rewrite(r, how)
                     \/ \E v \in Values : Reprice(r, v) \/ SellRow(r, v) \/ Deliver(r, v)

FeedSpec == FeedInit /\ [][FeedNext]_feedVars

-----------------------------------------------------------------------------
\* What the customer paid for is what arrives, however catalogues are written,
\* read or refused, unless Linntae or TAECEL changed what the row delivers after
\* the catalogue it was sold from was read: no row that was dropped, refused or
\* left out is sold for what it was once.
WhatWasPaidArrives ==
  \A r \in Rows : ticket[r] # Absent /\ ticket[r].got # 0 =>
    \/ ticket[r].got = ticket[r].charged
    \/ ticket[r].stale /\ source # "reloadly"

\* "un renglon que no trae identidad completa (codigo/SKU + operador + importe o
\* rango) NO se convierte en producto": at TAECEL, every other row is on sale
\* after a reading.
GapsDropTheirRow ==
  [][ source = "taecel" /\ reads' # reads =>
        \A r \in Rows : listed[r] = "pesos" => offered'[r] = Exactly(worth[r]) ]_feedVars
=============================================================================
