# SAMY Cloud: formal models

SAMY Cloud sells telephone top-ups and bill payments, and takes payments for
merchants. Its backend is a set of Django services that share no database:
**payments** owns the order and the money, **topups** and **billpay** own the
delivery, **core** is the portal that drives them. They speak over signed HTTP
requests and over Redis streams fed by a transactional outbox. The rule of the
whole system is the *money rule*: nothing is delivered that was not paid, and
nothing that was paid is lost, delivered twice or refunded twice.

This directory holds TLA+ modules translated from that source, the TLC
configurations that check them on small instances, and TLAPS proofs of the
properties that matter most for every instance.

    tlc -workers 2 -config OrdersWorkers.cfg OrdersMC.tla
    for m in Orders Topups BillPay Bus Sale Prices Catalog Providers
    do tlapm ${m}Proofs.tla; done

## 1. Inventory

| Component | Source | State it keeps | Operations | Modules |
|---|---|---|---|---|
| State machines | `libs/samy_common/.../states.py` | two tables | `assert_transition` | `States` |
| Orders | `services/payments/apps/orders` | order row, `expires_at`, history, outbox rows | `create_order`, `start_payment`, `confirm_payment`, `confirm_cash`, `mark_processing`, `record_fulfillment_result`, `expire_order`, three sweeps, the results consumer | `Orders` |
| Attempts, webhooks | `services/payments/apps/payments`, `.../webhooks` | attempt row, `ReceivedWebhook` | `apply_provider_result`, `mark_*`, `_handle` | `Orders` |
| Payment adapters | `services/payments/apps/providers` | keys | `create_payment`, `get_payment_status`, `verify_webhook`, `check_health` | `Orders` (their answers), `Readiness` |
| Commissions | `services/payments/apps/commissions` | rules, the split frozen in an order | `resolve_rule`, `calculate` | `Commissions`, `Money` |
| Topup fulfillment | `services/topups/apps/fulfillment` | fulfillment row, outbox rows | `create_fulfillment`, `link_order`, `execute_topup`, consumer, task, rescue, reconciliation, `ejecutar_recarga` | `Topups`, `Delivery` |
| Topup adapters | `services/topups/apps/providers` | tokens and balances in the cache | `send_topup`, three ways to ask for a result, the reads, `check_health`, `fetch_catalog` | `Adapters`, `LinntaeSession`, `Readiness`, `Feed`, `Topups` (Reloadly's answers) |
| Catalogue | `services/topups/apps/catalog` | products, operators | `sync_catalog`, `validate_amount` | `Sync`, `Counter`, `Feed` |
| Commercial catalogue | `services/topups/apps/commercial` | products and versions, provider rows, mappings | load, import, match, save, approve, availability, routes | `Commercial` |
| Balance guard | `samy_common/saldo.py`, `fulfillment/saldo.py` | cached balance | `verificar`, `invalidar` | `Counter`, `Readiness` |
| Bill fulfillment | `services/billpay/apps/fulfillment` | fulfillment row, outbox rows | `create_fulfillment`, consumer, `execute_payment`, task, reconciliation | `BillPay` |
| Billers | `services/billpay/apps/{billers,providers}` | biller rows | catalogue reads, one adapter that is never ready | none |
| Outbox and bus | `samy_common/events`, `apps/outbox` | outbox rows, stream, cursors, pending lists | `drain_outbox`, `publish`, `consume` | `Bus`, `Channel` |
| Idempotency | `samy_common/idempotency`, `apps/api` | one row for each key | `idempotent` | `Idempotency` |
| Money and pricing | `money.py`, `pricing.py` | none | integer arithmetic | `Money`, `Pricing` |
| Gateway | `core/apps/gateway` | drafts in the session | the two flows to an order, cash, execution | `Sale`, `Till` |
| Plumbing | `providers/`, `http`, `security`, `observability` | none | `ensure_ready`, requests, signing, logging | `Readiness` (environments), `Idempotency` (retries) |
| Portal | `core/apps/{accounts,tenancy,audit,dashboard,platform_admin}` | users, stores, log | forms and queries | none |
| Deployment | `infra`, `scripts` | none | configuration | none |

**How they interact.** The gateway creates a fulfillment and an order, links
them, and starts a payment. `start_payment` asks the provider to charge. The
confirmation comes back on any of five paths: the answer itself, a webhook, the
sweep of pending payments, the sweep of indeterminate ones, the expiry sweep;
cash is confirmed by the cashier. `confirm_payment` writes `order.paid` to the
outbox in the transaction that moves the order. Topups (or billpay) reads the
event, asks payments itself whether the order is paid, claims the delivery with
the transition to `SENT`, asks the operator, and writes `fulfillment.result`,
which payments reads to close the order or to ask for a refund.

**What is hard.** Requests to providers are made between reading a state and
acting on it. Webhooks repeat and reorder. The same sale is worked on at once by
web threads, Celery slots and beat. Answers are lost after the money moved. Some
writes that belong together are two commits. Two tabs write one session. Caches
outlive what they describe. `PROJECT.json` lists the hazards with the line where
each one bites.

**What makes each part correct.** Orders: paid means charged, one
`order.paid`, one refund, events agree with states, paid in time never expires,
no order pending for ever. Topups and bills: one request for each delivery,
never for an unpaid order, closed with what the operator did, announced once and
truly, paid is executed, outcomes are reported. Bus: what was committed is
published at least once, what was read is applied once or accounted for.
Gateway: one sale for each operation, and the sale that was shown. Catalogue:
what sells was reviewed as it is. Guard: no sale the balance cannot cover.
Adapters: a topup closes with what happened to it; worlds and credentials never
mix. Pricing: margins and splits add up to the cent.

## 2. Plan

| | Modules | Status |
|---|---|---|
| 1 | `States`, `Orders`, `OrdersProofs`: the money | done |
| 2 | `Delivery`, `Topups`, `TopupsProofs`: the delivery and its promise | done |
| 3 | `BillPay`, `BillPayProofs`: the second delivery, as an implementation of `Topups` | done |
| 4 | `Bus`, `Channel`, `BusProofs`: the road between them | done |
| 5 | `Idempotency`, `Sale`, `Till`, `SaleProofs`: the portal's calls | done |
| 6 | `Money`, `Pricing`, `Commissions`, `PricesProofs`: amounts | done |
| 7 | `Sync`, `Commercial`, `Counter`, `CatalogProofs`: what is on sale, and the balance | done |
| 8 | `Adapters`, `LinntaeSession`, `ProvidersProofs`: the operators | done |
| 9 | `Readiness`, `Feed` (in `ProvidersProofs` and `PricesProofs`): settings, tokens, price lists | done |
| 10 | one behaviour of `Orders`, `Bus` and `Topups` together | left: the product is out of TLC's reach at bounds that say anything; `Channel` and `Delivery` are the interfaces the parts are checked against |
| 11 | a theorem for every safety property of a passing run | done |
| 12 | the promise of payments stated apart, and `Orders` shown to implement it | left |

## 3. Modules

**States** is the pair of transition tables and `assert_transition`. Every other
module moves states through `CanMoveOrder` and `CanMoveFulfillment`.

**Orders** models the payments service. One *call* is one execution of
`start_payment`: `call[c]` is where it is, `attempt[c]` the row it committed,
`charge[c]` what the provider did with it. `named` holds the attempts that have a
`provider_reference`, the only name by which the provider is asked about a charge;
an answer may be `UNKNOWN` for any charge, a paid one included, because a 2xx that
is not JSON and a status without a mapping both read so (`AnswerFor`). An attempt
without a reference is passed over by the expiry sweep, and asked about by our key
in the sweep of indeterminate ones, which the provider does not know: the 404
reads as a decline (`Heard`). `order`, `due` and `outbox` are the
order row, its deadline and the count of its events. `hook` is what became of
each webhook event (`unseen`, `recorded` after the first transaction, `closed`
after the second). `sweep[w]` and `reader[w]` are what a Celery slot holds in
memory between transactions: the attempt it selected and the answer it got, or
the message it read. Each database transaction that takes the row lock is one
action, because everything it reads under the lock is current; everything read
outside the lock is kept in a variable and used later, stale or not. An illegal
transition raises and rolls its transaction back, so it changes nothing but the
memory of the process.

| Actions | Code |
|---|---|
| `StartPayment`, `ProviderAnswers`, `ProviderRejects`, `AnswerLost`, `CommitPayment`, `CallCrash` | `start_payment` around `create_payment` |
| `ConfirmCash` | `confirm_cash` |
| `HookRecord`, `HookApply`, `HookLost` | webhook `_handle` |
| `SweepPick`, `SweepAsk`, then `ExpireApply` or `ReconcileApply`, `ReconcileClose`; `SweepCrash` | the three sweeps |
| `ReadResult`, `MarkProcessing`, `RecordResult`, `ReaderCrash` | `_aplicar_resultado` |
| `ProviderCharges`, `ChargeSettles`, `ChargeReversed`, `DeadlinePasses`, `PublishResult` | the world |

**Delivery** states what payments relies on, as three variables for each sale: it
is requested only after it was paid, at most once, and what payments is told is
how it ended.

**Topups** models `services/topups/apps/fulfillment`. `execute_topup` runs in no
transaction of its own, so each of its transitions and outbox rows is a step,
and `job[p]` is the local state of the process: where it is, the state it read
when it began, whether a task message stands behind it, and the outcome it is
about to write. `queue[f]` counts the copies of its task message up to
`MaxQueue`; more copies than that behave as that many. `paid[f]` is what payments
answers, which may turn false again when an order goes to review. `Hazards` names
what may go wrong besides: a `crash`, a `transient` error (a 5xx, or a connection
that broke after the request left, which is closed as a failure) and a `misleading`
answer of the status query. The history `misled` holds the topups that one of the
last two was wrong about.

**BillPay** models `services/billpay/apps/fulfillment`. It has the same claim, and
other ways in and out: a consumer that queues a task (`HandleOrderPaid`,
`Enqueue`), a task with retries that gives up (`RetryLater`, `lost`), no rescue,
and a reconciliation. `events[b]` are the messages of its order that are still to
be read. `known` holds the bills whose answer carried the aggregator's reference;
about the others the reconciliation asks by our key, and may be told that there is
no such payment, which reads as a failure (`Verdict`); `misled` records it when it
was not so, and `Topups` has the same hazard, so the refinement maps the one to the
other.

**Bus** follows an event: a row of the outbox, written with the change of state;
`drain_outbox`, which reads the ids of a batch without a lock (`Select`), then
locks each row and looks at its status again (`Lock`), adds the message
(`Publish`) and commits (`MarkPublished`), or fails before or after the bus took
it (`PublishFails`); the stream, trimmed by its `maxlen`; and the passes of a
consumer group, which only ever read what the group was not given (`Read`), apply
and acknowledge. **Channel** is what the services may count on: nothing is sent
before its commit, and no message is handled twice. `Orders`, `Topups` and
`BillPay` let messages repeat, reorder and vanish, which is no more than that.

**Idempotency** is the decorator of keyed calls: the row, claimed (`Claim`),
worked on by the view and sealed (`Seal`) in three commits, a handler that dies
between them (`Die`), a duplicate, an exception that frees the key. **Sale**
drives it from the two flows of the gateway: threads of one user share a session
that each request loads when it begins and saves whole when it ends, so a late
save may bring back a draft. **Till** adds the cash payment and the execution of
the topup, with keys that name the order.

**Money**, **Pricing** and **Commissions** are the arithmetic: roundings, the split
by largest remainder, the cost of a sale under each mechanism of the provider's
commission, the lowest uniform fee, which rule applies to a store. `Pricing` runs
as a wallet (deposits and sales) and `Commissions` as rules that change while
orders freeze their split. Percentages are whole numbers; roundings are those of
the code.

**Commercial** is the catalogue that people review: commands load, import and
match, people save and approve, and `Route` and `RetryRoute` say what would sell.
**Sync** is `sync_catalog`, statement by statement, as PostgreSQL runs it under READ
COMMITTED: the catalogue is fetched before the transaction (`FetchCatalog`), each
product is written after its operator (`UpsertOperator`, `UpsertProduct`), then one
UPDATE chooses the products that were not seen and takes them row by row
(`BeginProducts`, `SwitchOff`), and another the operators without an active product
(`BeginOperators`, `SwitchOffOperator`). A row that a run wrote is its own until it
ends (`owner`, `ownerOf`): another run that wants it waits, and looks again at that
row and at no other. `Commit` shows what was written, `Abort` none of it.
**Counter** is the balance guard in front of that catalogue: a sale is validated
against the products of the last synchronisation (`Synchronize`), the cached balance
is read, asked for and written (`CreateFromCache`, `Ask`, `Create`), and sales take
from the operator's money.

**Adapters** is Linntae and TAECEL behind `send_topup`: one request, every answer
each may give, what the adapter concludes, the operator's record and when its
history shows it, and the two reconciliations (by telephone and amount, and by
folio). A record of Linntae may show no legible amount, or no legible hour, and then
`_coincide` lets it pass (`Candidates`); a purchase answered 401 may have been done
or not (`MayAnswer`), and the history `refused` holds those that were.
**LinntaeSession** is the token all processes share: the lock to renew it, those who
wait for it, a 401 in the middle, the retries of a read.

**Readiness** is a deployment: the settings of each process, `check_health` and
`ensure_ready`, what is shared through the cache (tokens, the reported balance)
and where a request ends. **Feed** is a provider's price list as each adapter reads
it, the amount it lets be charged and what its request makes the provider deliver. A
row that states no amount is refused by the constraint `product_has_amount_or_range`,
and then nothing of that reading is kept (`Read`); the provider may change what a row
is worth at any time (`Reprice`), and `repriced` holds the rows that changed since
they were last read.

The `MC` modules name model values and symmetries. `CatalogMC`, `ReadinessMC` and
`BusMC` (the bus and the token of Linntae, which processes share in Redis)
instantiate several modules that share no state; a variable `desk` says which one
runs in a behaviour, so that one run is the union of the state spaces and not their
product.

## 4. What the runs check

| Run | Instance | Question |
|---|---|---|
| `orders_workers` | 1 order, 1 card payment, 2 worker slots, 2 event ids for each outcome, crashes, outages | no interleaving of webhooks, sweeps and results breaks the money rule |
| `orders_calls` | 2 overlapping payments of 1 order, 1 slot, outages | one announcement, one refund, no paid order expired |
| `orders_live` | a card order and a merchant sale in cash, 1 slot, no faults | the sweeps alone confirm what was paid under a reference, and close everything |
| `orders_double` | 2 overlapping payments of 1 order | violation: both charge |
| `topups_safe` | 1 topup, 3 processes, up to 2 waiting copies, crashes, transient errors, misleading answers | the money rule of the delivery, the truth of its end, and the contract `Delivery` |
| `topups_live` | 1 topup, 2 processes, none of the hazards | paid is executed, outcomes are told |
| `billpay` | 1 bill, 2 processes, 1 crash | it implements `Topups`; no paid bill without an event, a task or a failure on record; reviews end |
| `bus` | 1 event, 2 drainers, 1 group, 2 readers, 2 attempts, stream of 2, 2 crashes; 2 clients of Linntae, 3 attempts, 3 tokens | every repetition has a failure behind it; it implements `Channel`; what was committed arrives or is accounted for; a refused token is renewed; operations end |
| `gateway` | 2 threads, 2 operations, 1 retry, 2 faults | one sale for each operation, and the one that was shown; change belongs to the payment |
| `catalog` | 2 products, 2 operators, 2 runs of `sync_catalog` that overlap, 4 fetches; 1 commercial product, 2 providers, 2 SKUs, 6 steps; 2 goods, 2 synchronisations, 2 sales, balance of 3 | after every commit the operators that are on are those that have something to sell; what sells was reviewed; sales one at a time are covered |
| `adapters` | 2 sales to 1 telephone, 2 amounts, 3 units of time | a sale alone closes truly, unless it was answered 401 |
| `readiness` | 2 processes, 1 restart, 5 providers; 2 rows, 2 amounts, 2 readings; 2 tariffs, 3 prices; 2 rules of 5 shapes, 1 order | worlds never mix, tokens stay home, what was charged arrives, books agree, shares add up |

**Bounds.** No handler touches two orders, topups or bills, so one is enough for
safety; a second order appears where worker slots are shared (`orders_live`). Two
worker slots are what `docker-compose.yml` starts, one is what Cloud Run starts;
both are checked because they differ (finding `AnnouncedOnce`). Two calls are the shortest
overlap, and what a retry takes. Two event ids for one outcome are the shortest
repetition that deduplication by id does not stop. Three processes on one topup are
an execution, its repetition and a reconciliation. `outbox`, `sends` and `told` have
no bound: each step that raises one leaves a state that the table does not return
to.

No property of `Bus` relates two events and rows do not share a lock, so the run
has one; with two events and no crash, its safety properties were checked apart
and hold (2.0 million states). Two crashes and two attempts give a row three
copies, which overfill a stream of two. In `Sale` two operations are what it takes
for one draft to replace another. In `Commercial` six steps are load, import,
match, approve and two more that come between or after. In `Sync` two runs that
overlap are checked and proved, and three break the property; four fetches let each
run begin again after the other ended. In `Adapters` the gap in
which Linntae's records are confused is one unit of time, as is the distance of the
clocks, and three units put a sale inside it, at its edge and outside. In `Feed` one
refused row takes back what was read of the others, so there are two; of two readings
the second rewrites what the first put on sale. In `Readiness` a restart changes one
setting, or the mode and its URL; 20 fees are tried where the code tries 10 000, and TLC
finds the lowest fee of every tariff among them.

**Type invariants** are in no configuration; each was checked on its instance and
holds (add `INVARIANT TypeOK`, or the module's own `...TypeOK`), and those of
`Orders`, `Topups`, `BillPay`, `Commissions`, `Readiness`, `Commercial` (in
`ReviewInv`), `Sync` (in its `IInv`) and `Adapters` (in `CloseInv`) are proved, and
the other invariants begin with one of their own (`SaleTypes`, `PricingTypes`, ...).

**Symmetry** is used in runs without liveness only, over interchangeable slots,
processes, threads, sales, products or rows.

**Deadlock** checking is off: a closed order with its events consumed is the end,
as is a bound that is used up.

**Fairness.** `SweepFairness`: beat enqueues each sweep again and again and a
FIFO queue serves them, so a selection that keeps coming back is run (strong
fairness on `SweepPick`), a task that began ends (weak fairness on its steps),
time passes. Nothing is assumed of webhooks, customers or the operator.
`Topups!Fairness` gives the rescue, the reconciliation and the queue strong
fairness for the same reason, and strong fairness to a positive answer of
payments, of the configuration check and of the status query, each asked again
and again: a provider that never answers again proves nothing about this code.
The consumer and the view get none. `BillPay!Fairness` gives the consumer strong
fairness, because there beat runs it and nothing else drives a paid bill.
`Bus!Fairness`: a drainer and a reader that began go on (weak), a row that keeps
coming back in a batch is selected, and a group that keeps having messages is
read (strong). `SessionFairness`: each step of a client of Linntae has a time
limit, so it is taken or timed out (weak).

## 5. Findings

`PROJECT.json` quotes each with its lines. These have a definition that TLC
refutes. The first is a run; for the others, replace the properties of the
configuration by the definition to see the behaviour.

| Definition | Configuration | What happens |
|---|---|---|
| `NoDoubleCharge` | run `orders_double` | two clicks charge twice: the guard of `start_payment` reads committed rows and takes no lock |
| `RetryCanBeKept` | `OrdersDouble.cfg`, as a `PROPERTY` | a decline takes the order where no attempt can be kept any more, but the guard lets the next payment charge, and what it charged is rolled back |
| `PaidIsNeverExpired` | `OrdersWorkers.cfg` | the expiry sweep reads an answer it cannot interpret as "not paid" and expires an order paid in time |
| `RefundedIsUndelivered` | `TopupsSafe.cfg` with `Hazards = {"transient"}` | a transient error is closed as a failure and refunded though the operator may deliver |
| `ReviewFindsTheTruth` | `BillPay.cfg`, as a `PROPERTY` | a bill without a reference is asked about by our key, and the "not found" closes a paid bill as failed |
| `OperatorsHaveProducts` | `Catalog.cfg` with `Runs = {r1, r2, r3}`, `Operators = {oA}`, `MaxFetches = 5` | of three overlapping synchronisations one commits between what the others saw, and an operator with nothing to sell stays on |
| `LeavesItsCatalogue` | `Catalog.cfg`, as a `PROPERTY` | the second of two overlapping synchronisations does not see what the first inserted, and leaves it on sale |
| `UnauthorizedIsUnsettled` | `Adapters.cfg` | a purchase answered 401 is closed as a failure, which the client and its test call indeterminate |
| `EachByItsOwnRecord` | `Adapters.cfg` | the record of one sale closes another, of the same amount and minutes or because it shows neither |
| `GapsDropTheirRow` | `Readiness.cfg`, as a `PROPERTY` | an offer without an amount violates the constraint of the table, and the synchronisation of every row is rolled back |
| `AnnouncedOnce` | `OrdersWorkers.cfg` | with two slots `expire_order` moves an order to review on a stale answer; from there it is paid again, and a repeated result asks for a second refund |
| `LostAnswerIsTracked` | `OrdersCalls.cfg` | after a timeout `start_payment` rolls back the mark it promises |
| `ReviewIsResolved` | `OrdersCalls.cfg` with `Calls = {c1}`, `OrderOf <- OneCall` and `FairHookSpec` | an order sent to review by the expiry sweep is never asked about again |
| `ClosedIsTold` | `TopupsSafe.cfg` | the transition and its event are two commits, and a process dies between them |
| `PriceIsDelivered` | `Catalog.cfg` | a new price is loaded over a product whose mapping was reviewed for the old one |
| `PaidIsNeverShort` | `Catalog.cfg` | sales that overlap pass the guard against one balance |
| `NothingMissingOnceSent` | `Readiness.cfg` | a setting of Linntae is found missing after the topup is `SENT` |
| `ShelfOfItsWorld` | `Readiness.cfg` | a production service imports the demo catalogue |

The others were met while a module was written and follow from a reading of the
lines: what is never delivered again from a pending list (`CommittedArrives` has to
except it), what a keyed call repeats or refuses for a day, handlers of exceptions
that are never raised, a route nothing asks for, health checks that do not check.

## 6. Proofs

Every theorem holds for any value of the constants that satisfies the named
`ASSUME` of its module, which TLC evaluates on the instances.

`OrdersProofs` (`TypeCorrect`, `PaidHasMoney`, `EventsAreTrue`, `OutcomeIsUnique`,
`PaidInTimeIsKept`, `OneSlotAnnouncesOnce`, `OneSlotExpiresUnpaid`). None of these
invariants is inductive alone. `PaidIsBacked` needs to know that every confirmation
in flight carries true evidence: the answer a call holds (`CallInv`), the answer a
sweep holds (`SweepInv`), a recorded webhook (`HookInv`); charges only move forward,
so evidence that was true stays true. `NeverBothOutcomes` needs that the results on
the bus name one outcome for each order (`ResultInv`), that a reader holds a message
that was on the bus (`ReaderInv`), and that the events written agree with the
results (`OutcomeInv`). `IInv` is their conjunction with the type invariant; the
proof has one lemma for each conjunct and one step for each action that can disturb
it. That what was paid in time never expires is said of charges captured under a
reference, and not of one whose answer `expire_order` could not read (`unread`): for
those it is false (finding `PaidIsNeverExpired`). It needs what a sweep *knows*: the
answer that lets it expire an order was asked for after the deadline, so a charge
that was still pending then can be paid, but not in time (`AnswerInv`, `ExpiredInv`,
on top of `ChargeInv`, which also keeps cash apart: it is in the drawer only when
the order was settled in the same transaction). The last two theorems assume one
worker slot, as Cloud Run starts it; with two, as `docker-compose.yml` starts them,
they are false (finding `AnnouncedOnce`). `SlotInv` says what one slot gives: it
sweeps or reads and never both, an order about to be expired is not in delivery, and
an order that was announced as paid never goes back to review.

`TopupsProofs` (`TypeCorrect`, `OneRequest`, `MoneyFirst`, `OneTruth`, and
`Refinement`, that `Spec` implements `Delivery`). The inductive invariant says
what the transition table alone does not. A job that holds a claim, or found one,
works on a topup that left the waiting states for good (`ClaimInv`). A job past
the check holds a topup that is linked and was paid at some time (`PayInv`): the
order may be withdrawn meanwhile, so "is paid" would not be inductive. The claim
is exclusive: two jobs about to send have different topups, and a topup in
waiting, or in the hand of such a job, was never sent (`SendInv`). Only the job
that closed a topup is about to announce an outcome, its target is the state,
and nothing was told (`TellInv`). Every step has one of a few shapes
(`StepShape`), and each conjunct is shown to survive each shape. The refinement
reads the phase of a sale off `state` and `paid` (`PhaseOf`). `ClosedTruthfully`
says that a topup is closed with what the operator did, whatever goes wrong; only
one that is in `misled` is excused, because a wrong answer about it was believed.
`TruthInv`: a job about to close holds a target that is true of the operator for good
(`Truthful`), or is about a topup that is in `misled`, and `misled` only grows.

`BillPayProofs` (`TypeCorrect`, `Refinement`, `NothingForgotten`, `OnePayment`,
`PaidFirst`, `OneOutcome`, `ClosedTruthfully`). The refinement maps each step to one
of `Topups` or a stutter, with the invariant that a message is about a bill that is
ordered and was paid; the last four theorems are then those of `TopupsProofs`, read
through it. `NobodyForgets` is not inductive: what is added is who *minds* a paid
bill (an unread event, a queued task, an execution, a recorded failure) and that
whoever lets go of it *knows* that another has it, because the acknowledgement comes
after the work.

`BusProofs` (`RepeatsExplained`, `PublishedWasSent`, `Refinement`). `OutboxInv`: a
drainer that locked a row is its holder and the row is still pending, so no two
drainers are about to mark the same row; a row that may still be tried has an
attempt left; and a copy with neither a failed attempt nor a crash behind it is
either in the hand of the drainer about to mark the row, or the only one of a row
that is never tried again. Batches are finite because the table holds finitely many
committed rows. `PublishedIsSent` needs one thing more (`SentInv`): a row about to
be marked has its message on the stream. `ReadInv`: no message is given to two
passes of a group (the cursor moves past what a pass is given), and a group applied
an event at most as often as it is *done with* a message about it; a message in a
pass whose handler has not committed is not one of those, so `Apply` finds fewer
handlings than copies, which is the guard of `Channel`.

`SaleProofs` (`OneSale`, `SaleFits`, `OrderWasShown`, `PayablePage`, `TrueChange`), for
any number of threads, operations and attempts, with calls that are lost, repeated
and cut between the commits of the decorator. `SaleInv` says that a key names its
operation: an operation is numbered when a page shows it and is shown once
(`ShownInv`), every draft with an operation is one that was shown (`DraftInv`), and
an operation is of one flow (`FlowInv`, where the flow of each is an existential
function, since a retry may find the draft gone). An attempt past the claim holds
the row of its key alone (`HoldInv`), its answer is a row of its own operation
(`AnswerInv`), and a fulfillment keeps its key taken for good (`TakenInv`), which
is what makes it the only one. `TillInv`: while the row of the cash key is free
nothing was tendered; the attempt that works on it is alone, so what it answers is
the change of the amount it confirmed. `DeskInv` says that one of the two is open.

`PricesProofs` (`AllocateAddsUp`, `TypeCorrect`, `EveryShareIsPaid`,
`ResolvedIsBest`, `PriceArrives`, `BooksBalance`, `FeeIsEnough`). Three floors of an
amount leave 0, 1 or 2 cents, because the three remainders are multiples of the
weight together; the ranks of the remainders are a permutation, so that many shares
get one more. The best rule exists because a finite set has a rule that no other
outranks. `FeedInv`: a product that is on sale at a price says what its row was
worth when it was last read, which is what it delivers unless it is in `repriced`; a
topup that is not stale carries what was charged or what its row is worth; and a
reading that is refused leaves the shelf and what was known of it as they were.
`BooksInv` adds the books up before anything is rounded, in cents times the base and
the bonus: a deposit loses less than a cent of the balance and a sale adds less than
a cent of cost, and without a bonus there is no rounding at all. `FeeIsEnough` is
arithmetic: the two roundings of the gateway only add to its exact cost
(`GatewayAtLeast`), so below the solution of the algebra a card always loses
(`SeedIsLow`), and a search that starts there and goes up cent by cent returns the
lowest fee that pays, if it returns one; when none of the fees that are tried is
enough the code raises, and the theorem says nothing.

`ProvidersProofs` (`TypeCorrect`, `TokensAreOwn`, `WorldsAreApart`, `PurseWasSeen`,
`ClosedAsItWas`, `RenewedForReal`).
`TokenInv`: a cached token fits its key, and a job carries a token of its own host
and credentials. `GuardInv`: a job past the guard passed it with the settings it
has (a restart drops its jobs), and a cached balance came from the world its key
names. `CloseInv`: an answer not yet read
would close the topup as what the operator did, whatever settles meanwhile, unless it
is a 401, which tells nothing (`AnswersTell`); a record says what became of its own sale,
within the distance of the clocks (`RecordsTell`). So the only record in the window of
a topup that is alone is its own (`OwnRecord`): another sale to that telephone that
could be confused with it, for amount and hour or because it may show neither, would
leave it not alone. Sales only become more: a topup that is
alone was always so (`AlwaysAlone`), and what was closed truly stays so
(`StaysClosed`). `SessionInv`: a token just issued is known to nobody but the
process that asked for it, so what follows a refusal in the cache is not the token
that was refused.

`CatalogProofs` (`SalesAreReviewed`, `OneAfterTheOther`, `TwoRunsKeepOperators`).
The last assumes that at most two runs of `sync_catalog` overlap (`TwoRuns`), and is
false of three (finding `OperatorsHaveProducts`). What a run wrote is an active
product together with its operator, or one it switched off (`DraftInv`), and what it
wants and has passed it owns (`RunInv`). A product that a run does not own and will
not come to names no operator that the run owns (`ForeignInv`), and of two runs that
are past their loops one comes to every active product it does not own, because it
began after the last commit of the other (`CoverInv`). Hence the last statement is
right (`LastInv`): an operator it is about to switch off has nothing to sell,
because the run took the last of it, and every other has something. `ReviewInv`:
every usable mapping, of whatever environment, is the approved one and agrees with
its provider's row, because an import that changes a row switches its mappings off
in the same transaction; the property reads only the mappings of the main provider's
environment, and would not survive `Reconfigure` alone. `ServedInv`: a cached
balance is more than the operator has only after an answer was lost, and never past
its TTL; as long as sales come one after the other, what was heard covers the open
one.

Only model-checked: all liveness (`PaidInTimeIsConfirmed`, `PendingIsClosed`,
`PaidIsExecuted`, `OutcomeIsTold`, `PaidIsTaken`, `ReviewEnds`, `CommittedArrives`,
`OperationsEnd`), which is out of the prover's reach. Every safety property of a
passing run is a theorem.

## 7. Not modelled

*Payments.* Names, folios, signatures and history rows: no property reads them.
`cancel_order` has no caller. The states `CANCELLED`, `REFUNDED` and `REVERSED` are
in the tables and no code of the repository leads to them. The amount comparison
in `confirm_payment` is one of the reasons of `HookLost`. A batch is one task for
each row: that an exception ends a batch early, and delays the rows after it, is
not seen. A final result that comes while the order is in review is read and
dropped by the code; `Orders` lets it be read again, so that the loss is not seen
here. Time is only the deadline of an order; the one- and two-minute delays of the
sweeps are left out.

*Topups.* The 24-hour window and the 50 rows of the rescue: `topups_live` assumes an
outage shorter than the window. The provider's commissions
(`sincronizar_comisiones_proveedor`), reports, labels and logos. The filter by day
of Linntae's history at midnight, and the immediate query, which no code path
reaches in time (a finding). In `LinntaeSession` every `getToken` yields a token not
seen before. The simulator of Linntae.

*Bills.* `billers` and `providers` are catalogue reads and one adapter, tapi, that
is never ready: every execution of the code as it stands ends in `NotReady`, and
what `BillPay` says of an aggregator is the contract of `BillerProvider`. The
inquiry log is written and read by no step.

*Portal.* The card form (`pay_card`) and pages that only read. A confirmation page
left open in one tab may sell the draft of another: `SoldWasShown` says that
number and product were shown, not that it was by the tab that posts. The purge of
idempotency rows after 24 hours: the session that could repeat a key lives 8.
Accounts, tenancy, audit and dashboards are forms and queries.

*Plumbing.* Signing, masking and logging are cryptography and wording; deployment is
configuration, of which the number of slots, `acks_late` and the schedules are used.
`InMemoryBus` is a double for tests. XACK is modelled, and claims of pending
messages are not, because nothing in the repository makes one.
