------------------------------- MODULE Pricing -------------------------------
(* What a sale costs and leaves: the gateway's fee with VAT, the provider's  *)
(* commission under each of its mechanisms, the quote, and the lowest        *)
(* uniform fee that does not lose money.                                     *)
(*                                                                           *)
(* The behaviour is a wallet at a provider: cash is deposited, sales spend   *)
(* the balance, and the costs the quotes claim are added up.                 *)
EXTENDS Money

CONSTANTS Base,        \* points of 100% (10 000 in the code)
          Tariffs,     \* gateway contracts: [percent, fixed, vat]
          Rates,       \* commissions in points
          Prices,      \* list prices, in cents
          Deposits,    \* cash deposited at once
          MaxDeposits, \* deposits there are
          MaxSales,    \* sales there are
          Tries,       \* fees that are tried (10 000 in the code)
          Unknown      \* None: a number nobody gave

ASSUME PricingAssumption ==
  /\ Base \in Nat \ { 0 } /\ Tries \in Nat \ { 0 }
  /\ \A t \in Tariffs : /\ t.percent \in 0 .. Base - 1
                        /\ t.fixed \in Nat /\ t.vat \in Nat
                        /\ t.percent * (Base + t.vat) < Base * Base
  /\ Rates \subseteq 0 .. Base - 1
  /\ Prices \subseteq Nat \ { 0 } /\ Deposits \subseteq Nat
  /\ Unknown \notin Int

VARIABLES rate,      \* the provider's commission, maybe Unknown
          mechanism, \* how the provider grants it
          tariff,    \* the gateway's contract
          balance,   \* what the provider says we have
          cash,      \* what was paid for it
          costs,     \* provider costs of the sales, by their quotes
          deposits, sales,
          quote      \* the last sale's quote

walletVars == << rate, mechanism, tariff, balance, cash, costs, deposits, sales, quote >>

Mechanisms == { "DESCUENTO_POR_TRANSACCION", "BONO_AL_FONDEAR",
                "COMISION_ACREDITADA_APARTE", "SIN_DETERMINAR" }
Methods    == { "EFECTIVO", "TARJETA" }
Policies   == { "SOLO_EFECTIVO", "CUOTA_UNIFORME", "ABSORBER" }
NoGateway  == [percent |-> 0, fixed |-> 0, vat |-> 0]

\* TarifaPasarela.costo: on everything that is charged, rounded up twice.
GatewayCost(t, charged) ==
  LET subtotal == Ceil(charged * t.percent, Base) + t.fixed IN
  subtotal + Ceil(subtotal * t.vat, Base)

Determined(r, m) == r # Unknown /\ m # "SIN_DETERMINAR"

\* Mutant: a bonus on the deposit is taken for a discount on the sale.
Mutant_BonusIsDiscount(r, m, face) ==
  IF ~ Determined(r, m) THEN Unknown
  ELSE IF m = "COMISION_ACREDITADA_APARTE" THEN face ELSE face - (face * r) \div Base
\* ComisionProveedor.costo: Unknown when the mechanism is, whatever the rate.
ProviderCost(r, m, face) ==
  IF ~ Determined(r, m) THEN Unknown
  ELSE CASE m = "BONO_AL_FONDEAR"            -> Ceil(face * Base, Base + r)
         [] m = "COMISION_ACREDITADA_APARTE" -> face
         [] m = "DESCUENTO_POR_TRANSACCION"  -> face - (face * r) \div Base

\* saldo_por_fondeo
BalanceFor(r, m, e) ==
  IF ~ Determined(r, m) THEN Unknown
  ELSE IF m = "BONO_AL_FONDEAR" THEN e + (e * r) \div Base ELSE e

\* efectivo_para_saldo
CashFor(r, m, s) ==
  IF ~ Determined(r, m) THEN Unknown
  ELSE IF m = "BONO_AL_FONDEAR" THEN Ceil(s * Base, Base + r) ELSE s

Margin(charged, gateway, provider) ==
  IF provider = Unknown THEN Unknown ELSE charged - gateway - provider

\* What cotizar refuses: a card where only cash is taken, a uniform fee of
\* nothing, a fee where the shop absorbs the cost.
Allowed(policy, method, fee) ==
  /\ policy = "SOLO_EFECTIVO" => method = "EFECTIVO"
  /\ policy = "CUOTA_UNIFORME" => fee # 0
  /\ policy = "ABSORBER" => fee = 0

Quote(price, method, policy, fee) ==
  LET charged  == price + IF policy = "CUOTA_UNIFORME" THEN fee ELSE 0
      gateway  == GatewayCost(IF method = "EFECTIVO" THEN NoGateway ELSE tariff, charged)
      provider == ProviderCost(rate, mechanism, price) IN
  [price |-> price, charged |-> charged, provider |-> provider, policy |-> policy,
   margin |-> Margin(charged, gateway, provider)]

\* Cotizacion.vendible: an unknown margin sells, a loss only when the shop
\* absorbs it.
Sellable(q) == ~ (q.margin # Unknown /\ q.margin < 0 /\ q.policy = "CUOTA_UNIFORME")

\* The algebra of cuota_minima_uniforme, rounded up: with p and v as fractions,
\* (fixed * (1 + v) + cost) / (1 - p * (1 + v)).
Seed(t, cost) ==
  Ceil((t.fixed * (Base + t.vat) + cost * Base) * Base, Base * Base - t.percent * (Base + t.vat))

\* Mutant: the algebra is trusted.
Mutant_SeedIsEnough(t, price, cost) ==
  IF Seed(t, cost) > price THEN Seed(t, cost) - price ELSE 0
\* From two cents below the algebra upwards, the first fee that does not lose;
\* when none of those that are tried is enough it raises, and there is no fee.
FeeFrom(t, price, cost) ==
  LET first == IF Seed(t, cost) - price > 2 THEN Seed(t, cost) - price - 2 ELSE 0
      Covers(fee) == price + fee - GatewayCost(t, price + fee) - cost >= 0
      fees == { fee \in first .. first + Tries - 1 :
                  Covers(fee) /\ \A lower \in first .. fee - 1 : ~ Covers(lower) } IN
  IF fees = {} THEN Unknown ELSE CHOOSE fee \in fees : TRUE

\* cuota_minima_uniforme
MinimumFee(price) ==
  LET cost == ProviderCost(rate, mechanism, price) IN
  IF cost = Unknown THEN Unknown ELSE FeeFrom(tariff, price, cost)

PricingInit ==
  /\ rate \in Rates \cup { Unknown }
  /\ mechanism \in Mechanisms
  /\ tariff \in Tariffs
  /\ balance = 0 /\ cash = 0 /\ costs = 0 /\ deposits = 0 /\ sales = 0
  /\ quote = Unknown

\* The provider credits the deposit, with its bonus when it grants one.
Deposit(e) ==
  /\ deposits < MaxDeposits
  /\ deposits' = deposits + 1
  /\ cash' = cash + e
  /\ balance' = balance + IF Determined(rate, mechanism) THEN BalanceFor(rate, mechanism, e) ELSE e
  /\ UNCHANGED << rate, mechanism, tariff, costs, sales, quote >>

\* What the sale takes from the balance: the discounted price when there is a
\* discount, the face value otherwise.
Taken(price) ==
  IF Determined(rate, mechanism) /\ mechanism = "DESCUENTO_POR_TRANSACCION"
  THEN price - (price * rate) \div Base ELSE price

Sell(price, method, policy, fee) ==
  LET q == Quote(price, method, policy, fee) IN
  /\ sales < MaxSales
  /\ Allowed(policy, method, fee)
  /\ Sellable(q)
  /\ Taken(price) <= balance
  /\ sales' = sales + 1
  /\ balance' = balance - Taken(price)
  /\ costs' = costs + IF q.provider = Unknown THEN 0 ELSE q.provider
  /\ quote' = q
  /\ UNCHANGED << rate, mechanism, tariff, cash, deposits >>

\* The owner sets the fee to nothing, or to the lowest that pays for a card.
FeesOf(price) == { 0 } \cup IF MinimumFee(price) = Unknown THEN {} ELSE { MinimumFee(price) }

PricingNext ==
  \/ \E e \in Deposits : Deposit(e)
  \/ \E price \in Prices, method \in Methods, policy \in Policies :
       \E fee \in FeesOf(price) : Sell(price, method, policy, fee)

PricingSpec == PricingInit /\ [][PricingNext]_walletVars

-----------------------------------------------------------------------------
\* The books agree with the till: the costs the quotes claimed and what the
\* rest of the balance is worth come to the cash that was paid for it, within
\* one cent for each deposit and each sale, the roundings there were.
\* Whatever the mechanism, no sale looks cheaper than it is.
BooksAgree ==
  Determined(rate, mechanism) =>
    LET worth == costs + CashFor(rate, mechanism, balance) IN
    /\ worth + deposits >= cash
    /\ worth <= cash + sales + 1

\* The lowest uniform fee pays for a sale by card and by cash, and one cent
\* less loses on the card.
MinimumFeePays ==
  \A price \in Prices :
    LET m == MinimumFee(price) IN
    m # Unknown =>
      /\ m > 0 => \A method \in Methods : Quote(price, method, "CUOTA_UNIFORME", m).margin >= 0
      /\ m > 0 => Quote(price, "TARJETA", "CUOTA_UNIFORME", m - 1).margin < 0
      /\ m = 0 => Quote(price, "TARJETA", "ABSORBER", 0).margin >= 0
==============================================================================
