------------------------------- MODULE Orders -------------------------------
(* The payments service: orders, payment attempts, the charges at the        *)
(* payment provider, webhooks, the three periodic sweeps, and the consumer   *)
(* that closes an order with the result of its delivery.                     *)
(*                                                                           *)
(* A "call" is one execution of start_payment; the attempt row it creates    *)
(* and the charge it asks the provider for carry the identity of the call.   *)
(* Every database transaction is one step, because each of them takes the    *)
(* row lock of its order (select_for_update) before it reads what it         *)
(* decides on.  What the code reads without the lock, or keeps in memory     *)
(* across a request to the provider, is state of its own: call, sweep,       *)
(* reader.                                                                   *)
EXTENDS Naturals, FiniteSets, States

CONSTANTS Orders,        \* orders, created by create_order
          Calls,         \* executions of start_payment
          Workers,       \* Celery worker slots: each runs one task at a time
          OrderOf,       \* the order a call is about
          CashCalls,     \* the calls whose method is CASH; the others are CARD
          MerchantSales, \* orders of kind MERCHANT_SALE: nothing to deliver
          HookIds,       \* the event ids the provider gives to one outcome
          Faults,        \* which of "crash" and "outage" may happen
          None

ASSUME OrdersAssumption ==
  /\ OrderOf \in [Calls -> Orders]
  /\ CashCalls \subseteq Calls
  /\ MerchantSales \subseteq Orders
  /\ Faults \subseteq { "crash", "outage" }
  /\ None \notin Calls \cup Orders

VARIABLES order,    \* state column of each order
          due,      \* expires_at has passed
          outbox,   \* how many events of each type were written for each order
          call,     \* where each execution of start_payment is
          attempt,  \* status column of the attempt a call committed
          charge,   \* the charge of a call, at the provider (or in the drawer)
          named,    \* calls whose answer carried the provider_reference
          inTime,   \* history: charges captured before expires_at
          unread,   \* history: paid charges whose status expire_order could not read
          hook,     \* what became of each webhook event
          sweep,    \* the attempt each worker is sweeping, and the answer it holds
          results,  \* fulfillment.result messages on the bus
          reader    \* the message each worker is applying

vars == << order, due, outbox, call, attempt, charge, named, inTime, unread,
           hook, sweep, results, reader >>

Outcomes == { "CONFIRMED", "PENDING", "DECLINED", "UNKNOWN" }
AttemptStatus == { "INITIATED", "AWAITING_CUSTOMER", "CONFIRMED", "DECLINED",
                   "INDETERMINATE" }
Events == { "order.paid", "order.succeeded", "order.refund_required" }
ChargeState == { "none", "pending", "paid", "declined", "reversed" }
\* An outcome is the phase of a call that holds the answer of the provider.
Phases == { "idle", "charging", "lost", "reused", "committed", "refused",
            "aborted" } \cup Outcomes
HookEvents == [ call : Calls \ CashCalls, outcome : { "CONFIRMED", "DECLINED" }, id : HookIds ]
Tasks == { "expire", "pending", "indeterminate" }
Kinds == { "review", "succeeded", "failed" }

\* What a worker slot holds in memory between two transactions.
NoSweep == [ task |-> "idle", call |-> None, answer |-> "unasked" ]
NoRead  == [ step |-> "idle", order |-> None, kind |-> "review" ]
SweepJob == { NoSweep } \cup
  [ task : Tasks, call : Calls,
    answer : Outcomes \cup { "unasked", "SKIPPED", "UNREACHABLE", "CLOSING" } ]
ReadJob == { NoRead } \cup
  [ step : { "mark", "record" }, order : Orders, kind : Kinds ]

TypeOK ==
  /\ order   \in [Orders -> OrderState]
  /\ due     \in [Orders -> BOOLEAN]
  /\ outbox  \in [Orders -> [Events -> Nat]]
  /\ call    \in [Calls -> Phases]
  /\ attempt \in [Calls -> AttemptStatus \cup { "NONE" }]
  /\ charge  \in [Calls -> ChargeState]
  /\ named   \subseteq Calls
  /\ inTime  \subseteq Calls
  /\ unread  \subseteq Calls
  /\ hook    \in [HookEvents -> { "unseen", "recorded", "closed" }]
  /\ sweep   \in [Workers -> SweepJob]
  /\ results \subseteq Orders \X Kinds
  /\ reader  \in [Workers -> ReadJob]

Init ==
  /\ order   = [o \in Orders |-> "CREATED"]
  /\ due     = [o \in Orders |-> FALSE]
  /\ outbox  = [o \in Orders |-> [e \in Events |-> 0]]
  /\ call    = [c \in Calls |-> "idle"]
  /\ attempt = [c \in Calls |-> "NONE"]
  /\ charge  = [c \in Calls |-> "none"]
  /\ named   = {}
  /\ inTime  = {}
  /\ unread  = {}
  /\ hook    = [e \in HookEvents |-> "unseen"]
  /\ sweep   = [w \in Workers |-> NoSweep]
  /\ results = {}
  /\ reader  = [w \in Workers |-> NoRead]

-----------------------------------------------------------------------------
(* Helpers shared by the handlers.                                           *)

\* A live attempt, as the guard of start_payment and the sweep of pending
\* payments select it: an attempt without a provider_reference does not count.
Live(c) == attempt[c] \in { "INITIATED", "AWAITING_CUSTOMER" } /\ c \in named

\* apply_provider_result
StatusFor(outcome) ==
  CASE outcome = "CONFIRMED" -> "CONFIRMED"
    [] outcome = "PENDING"   -> "AWAITING_CUSTOMER"
    [] outcome = "DECLINED"  -> "DECLINED"
    [] OTHER                 -> "INDETERMINATE"

\* confirm_payment returns early for these: the confirmation is a repetition.
AlreadyPaid == { "PAID", "PROCESSING", "SUCCESS" }

\* Mutant: confirm_payment writes PAID without assert_transition.
Mutant_NoAssert(o) == order[o] \notin AlreadyPaid

\* The states confirm_payment can lead to PAID from.
Confirmable(o) == order[o] \notin AlreadyPaid /\ CanMoveOrder(order[o], "PAID")

\* Where confirm_payment leaves an order: a merchant sale has nothing to
\* deliver, so the same transaction walks it to SUCCESS.
PaidState(o) == IF o \in MerchantSales THEN "SUCCESS" ELSE "PAID"

\* Mutant: order.paid is left to the caller.
Mutant_NoEvent(o) == IF o \in MerchantSales THEN { "order.succeeded" } ELSE {}

PaidEvents(o) == IF o \in MerchantSales
                   THEN { "order.paid", "order.succeeded" } ELSE { "order.paid" }

\* OutboxEvent.objects.create, in the transaction that moves the order.
Emit(o, events) ==
  outbox' = [outbox EXCEPT ![o] = [e \in Events |-> IF e \in events THEN @[e] + 1 ELSE @[e]]]

\* confirm_payment for call c.  A repetition and an illegal transition (which
\* rolls the transaction back) leave everything as it was.
Confirm(c) ==
  LET o == OrderOf[c] IN
  \/ /\ Confirmable(o)
     /\ order'   = [order EXCEPT ![o] = PaidState(o)]
     /\ Emit(o, PaidEvents(o))
     /\ attempt' = [attempt EXCEPT ![c] = "CONFIRMED"]
  \/ /\ ~ Confirmable(o)
     /\ UNCHANGED << order, outbox, attempt >>

\* order.transition(t) on its own: an illegal one changes nothing.
TryMove(o, t) ==
  order' = IF CanMoveOrder(order[o], t) THEN [order EXCEPT ![o] = t] ELSE order

-----------------------------------------------------------------------------
(* start_payment: check for a live attempt, ask the provider to charge, and  *)
(* commit the attempt and PAYMENT_PENDING - all in one transaction, which    *)
(* takes the lock of the order only after the provider has answered.         *)

\* Mutant: start_payment accepts a second attempt while the first is pending.
Mutant_SecondAttempt(o) == order[o] \in { "CREATED", "PAYMENT_PENDING" }

\* The transition that start_payment asks for.
CanStart(o) == CanMoveOrder(order[o], "PAYMENT_PENDING")

StartPayment(c) ==
  /\ call[c] = "idle"
  /\ call' = [call EXCEPT ![c] =
                IF \E d \in Calls : OrderOf[d] = OrderOf[c] /\ Live(d)
                  THEN "reused" ELSE "charging"]
  /\ UNCHANGED << order, due, outbox, attempt, charge, named, inTime, unread,
                  hook, sweep, results, reader >>

\* The provider processes the request.  It may still do so after start_payment
\* has given up on the answer.
ProviderCharges(c) ==
  /\ call[c] \in { "charging", "lost" }
  /\ c \notin CashCalls
  /\ charge[c] = "none"
  /\ \E s \in { "pending", "paid", "declined" } :
       /\ charge' = [charge EXCEPT ![c] = s]
       /\ inTime' = IF s = "paid" /\ ~ due[OrderOf[c]] THEN inTime \cup { c } ELSE inTime
  /\ UNCHANGED << order, due, outbox, call, attempt, named, unread, hook,
                  sweep, results, reader >>

\* Mutant: an authorisation that was not captured counts as money.
Mutant_AuthorisedIsPaid(c) ==
  CASE charge[c] \in { "paid", "pending" }        -> { "CONFIRMED" }
    [] charge[c] \in { "declined", "reversed" } -> { "DECLINED" }
    [] OTHER                                   -> {}
\* What an answer about the charge may say.  A status the adapter does not know
\* and a 2xx whose body is not JSON are UNKNOWN, whatever became of the charge.
AnswerFor(c) ==
  CASE charge[c] = "paid"                      -> { "CONFIRMED", "UNKNOWN" }
    [] charge[c] = "pending"                   -> { "PENDING", "UNKNOWN" }
    [] charge[c] \in { "declined", "reversed" } -> { "DECLINED", "UNKNOWN" }
    [] OTHER                                   -> {}

\* create_payment returns.  Cash has no provider: the answer is PENDING, with a
\* reference made of the folio.  A body that cannot be read names no reference.
ProviderAnswers(c) ==
  /\ call[c] = "charging"
  /\ \E r \in IF c \in CashCalls THEN { "PENDING" } ELSE AnswerFor(c) :
       /\ call' = [call EXCEPT ![c] = r]
       /\ \/ named' = named \cup { c }
          \/ r = "UNKNOWN" /\ named' = named
  /\ UNCHANGED << order, due, outbox, attempt, charge, inTime, unread, hook,
                  sweep, results, reader >>

\* create_payment raises ProviderPermanentError: nothing was charged.
ProviderRejects(c) ==
  /\ call[c] = "charging"
  /\ c \notin CashCalls
  /\ charge[c] \in { "none", "declined" }
  /\ call' = [call EXCEPT ![c] = "aborted"]
  /\ UNCHANGED << order, due, outbox, attempt, charge, named, inTime, unread,
                  hook, sweep, results, reader >>

\* A read timeout (ProviderIndeterminateError), a network error or a 5xx
\* (ProviderTransientError), or the death of the process.  The branch for the
\* timeout writes INDETERMINATE and UNDER_REVIEW and then raises again, inside
\* @transaction.atomic: those writes are rolled back with the rest.
AnswerLost(c) ==
  /\ call[c] = "charging"
  /\ c \notin CashCalls
  /\ "outage" \in Faults
  /\ call' = [call EXCEPT ![c] = "lost"]
  /\ UNCHANGED << order, due, outbox, attempt, charge, named, inTime, unread,
                  hook, sweep, results, reader >>

\* The rest of start_payment.  The attempt commits with PAYMENT_PENDING, and
\* with the confirmation when the provider confirmed at once; where
\* PAYMENT_PENDING is not a legal target everything rolls back.
CommitPayment(c) ==
  LET o == OrderOf[c] IN
  /\ call[c] \in Outcomes
  /\ \/ /\ CanStart(o)
        /\ call'    = [call EXCEPT ![c] = "committed"]
        /\ attempt' = [attempt EXCEPT ![c] = StatusFor(call[c])]
        /\ IF call[c] = "CONFIRMED"
             THEN /\ order'  = [order EXCEPT ![o] = PaidState(o)]
                  /\ Emit(o, PaidEvents(o))
             ELSE /\ order'  = [order EXCEPT ![o] = "PAYMENT_PENDING"]
                  /\ outbox' = outbox
     \/ /\ ~ CanStart(o)
        /\ call' = [call EXCEPT ![c] = "refused"]
        /\ UNCHANGED << order, outbox, attempt >>
  /\ UNCHANGED << due, charge, named, inTime, unread, hook, sweep, results,
                  reader >>

\* The process dies with the answer in memory; the database aborts the
\* transaction.
CallCrash(c) ==
  /\ "crash" \in Faults
  /\ call[c] \in Outcomes
  /\ call' = [call EXCEPT ![c] = "aborted"]
  /\ UNCHANGED << order, due, outbox, attempt, charge, named, inTime, unread,
                  hook, sweep, results, reader >>

-----------------------------------------------------------------------------
(* The world: the customer completes or loses a pending charge, the owner or *)
(* the bank reverses a captured one, and the deadline of the attempt passes. *)

ChargeSettles(c) ==
  /\ c \notin CashCalls
  /\ charge[c] = "pending"
  /\ \E s \in { "paid", "declined" } :
       /\ charge' = [charge EXCEPT ![c] = s]
       /\ inTime' = IF s = "paid" /\ ~ due[OrderOf[c]] THEN inTime \cup { c } ELSE inTime
  /\ UNCHANGED << order, due, outbox, call, attempt, named, unread, hook,
                  sweep, results, reader >>

ChargeReversed(c) ==
  /\ c \notin CashCalls
  /\ charge[c] = "paid"
  /\ charge' = [charge EXCEPT ![c] = "reversed"]
  /\ UNCHANGED << order, due, outbox, call, attempt, named, inTime, unread,
                  hook, sweep, results, reader >>

DeadlinePasses(o) ==
  /\ order[o] = "PAYMENT_PENDING"
  /\ ~ due[o]
  /\ due' = [due EXCEPT ![o] = TRUE]
  /\ UNCHANGED << order, outbox, call, attempt, charge, named, inTime, unread,
                  hook, sweep, results, reader >>

-----------------------------------------------------------------------------
(* confirm_cash: the cashier hands in the money for the cash attempt.  The   *)
(* money stays in the drawer only when the request succeeds.                 *)

ConfirmCash(c) ==
  /\ c \in CashCalls
  /\ attempt[c] # "NONE"
  /\ Confirmable(OrderOf[c])
  /\ Confirm(c)
  /\ charge' = [charge EXCEPT ![c] = "paid"]
  /\ inTime' = IF due[OrderOf[c]] THEN inTime ELSE inTime \cup { c }
  /\ UNCHANGED << due, call, named, unread, hook, sweep, results, reader >>

-----------------------------------------------------------------------------
(* webhooks/views._handle.  The event is recorded in a transaction of its    *)
(* own (cache and unique constraint), then applied in another: a repetition  *)
(* of a recorded event is answered 200 and dropped.                          *)

\* The provider emits an event for every final outcome a charge reached.
Emitted(e) ==
  charge[e.call] \in IF e.outcome = "CONFIRMED" THEN { "paid", "reversed" }
                                                ELSE { "declined", "reversed" }

HookRecord(e) ==
  /\ Emitted(e)
  /\ hook[e] = "unseen"
  /\ hook' = [hook EXCEPT ![e] = "recorded"]
  /\ UNCHANGED << order, due, outbox, call, attempt, charge, named, inTime,
                  unread, sweep, results, reader >>

\* The webhook finds its attempt by provider_reference.
Found(c) == attempt[c] # "NONE" /\ c \in named

\* Where no attempt has that reference: ORDER_NOT_FOUND.  CONFIRMED confirms the
\* payment; DECLINED overwrites the status of the attempt, whatever it is.
HookApply(e) ==
  /\ hook[e] = "recorded"
  /\ hook' = [hook EXCEPT ![e] = "closed"]
  /\ \/ /\ ~ Found(e.call)
        /\ UNCHANGED << order, outbox, attempt >>
     \/ /\ Found(e.call)
        /\ e.outcome = "CONFIRMED"
        /\ Confirm(e.call)
     \/ /\ Found(e.call)
        /\ e.outcome = "DECLINED"
        /\ attempt' = [attempt EXCEPT ![e.call] = "DECLINED"]
        /\ UNCHANGED << order, outbox >>
  /\ UNCHANGED << due, call, charge, named, inTime, unread, sweep, results,
                  reader >>

\* The handler dies after recording the event, or rejects its amount.
HookLost(e) ==
  /\ "crash" \in Faults
  /\ hook[e] = "recorded"
  /\ hook' = [hook EXCEPT ![e] = "closed"]
  /\ UNCHANGED << order, due, outbox, call, attempt, charge, named, inTime,
                  unread, sweep, results, reader >>

-----------------------------------------------------------------------------
(* The sweeps of orders/tasks.py.  Each one selects, asks the provider, and  *)
(* applies the answer in separate steps; the order may move in between.      *)

\* Mutant: the expiry sweep forgets the filter on expires_at.
Mutant_NotDue(t, c) ==
  /\ attempt[c] # "NONE"
  /\ order[OrderOf[c]] = "PAYMENT_PENDING"
  /\ t = "expire" \/ (Live(c) /\ c \notin CashCalls)
\* Mutant: the expiry sweep forgets the filter on the state of the order.
Mutant_AnyState(t, c) ==
  /\ attempt[c] # "NONE"
  /\ t = "expire" /\ due[OrderOf[c]]
\* Mutant: the expiry sweep leaves cash out, as the other two do.
Mutant_NoCash(t, c) ==
  /\ attempt[c] # "NONE" /\ c \notin CashCalls
  /\ order[OrderOf[c]] = "PAYMENT_PENDING"
  /\ IF t = "expire" THEN due[OrderOf[c]] ELSE Live(c)

\* What each sweep selects.
Eligible(t, c) ==
  /\ attempt[c] # "NONE"
  /\ CASE t = "expire"  -> order[OrderOf[c]] = "PAYMENT_PENDING" /\ due[OrderOf[c]]
       [] t = "pending" -> /\ order[OrderOf[c]] = "PAYMENT_PENDING"
                           /\ Live(c)
                           /\ c \notin CashCalls
       [] OTHER         -> attempt[c] = "INDETERMINATE" /\ c \notin CashCalls

SweepPick(w, t, c) ==
  /\ sweep[w] = NoSweep /\ reader[w] = NoRead
  /\ Eligible(t, c)
  /\ sweep' = [sweep EXCEPT ![w] = [task |-> t, call |-> c, answer |-> "unasked"]]
  /\ UNCHANGED << order, due, outbox, call, attempt, charge, named, inTime,
                  unread, hook, results, reader >>

\* Mutant: expire_order expires without asking the provider.
Mutant_NeverAsks(c) == TRUE

\* expire_order asks only about an attempt with a reference that is not cash.
NotAsked(c) == c \in CashCalls \/ c \notin named

\* What each sweep hears from get_payment_status.  The sweep of indeterminate
\* attempts asks by the idempotency_key when there is no reference, which the
\* provider does not know: 404, read as DECLINED.
Heard(t, c) ==
  LET down == IF "outage" \in Faults THEN { "UNREACHABLE" } ELSE {} IN
  IF t = "expire" /\ NotAsked(c) THEN { "SKIPPED" }
  ELSE (IF c \in named THEN AnswerFor(c) ELSE { "DECLINED" }) \cup down

SweepAsk(w) ==
  LET c == sweep[w].call  t == sweep[w].task IN
  /\ t # "idle"
  /\ sweep[w].answer = "unasked"
  /\ \E r \in Heard(t, c) :
       /\ sweep' = [sweep EXCEPT ![w].answer = r]
       /\ unread' = IF t = "expire" /\ r = "UNKNOWN" /\ charge[c] = "paid"
                      THEN unread \cup { c } ELSE unread
  /\ UNCHANGED << order, due, outbox, call, attempt, charge, named, inTime,
                  hook, results, reader >>

\* expire_order.  An exception - the provider did not answer, or the
\* confirmation was illegal - sends the order to review.
ExpireApply(w) ==
  LET c == sweep[w].call  o == OrderOf[c]  r == sweep[w].answer IN
  /\ sweep[w].task = "expire"
  /\ r # "unasked"
  /\ \/ /\ r = "CONFIRMED"
        /\ order[o] \in AlreadyPaid \/ Confirmable(o)
        /\ Confirm(c)
     \/ /\ \/ r = "UNREACHABLE"
           \/ r = "CONFIRMED" /\ order[o] \notin AlreadyPaid /\ ~ Confirmable(o)
        /\ TryMove(o, "UNDER_REVIEW")
        /\ UNCHANGED << outbox, attempt >>
     \/ /\ r \in { "PENDING", "DECLINED", "UNKNOWN", "SKIPPED" }
        /\ TryMove(o, "EXPIRED")
        /\ UNCHANGED << outbox, attempt >>
  /\ sweep' = [sweep EXCEPT ![w] = NoSweep]
  /\ UNCHANGED << due, call, charge, named, inTime, unread, hook, results,
                  reader >>

\* reconcile_pending_payments, and the first half of
\* reconcile_indeterminate_orders: for the latter a DECLINED commits the
\* attempt first and moves the order in a second transaction.
ReconcileApply(w) ==
  LET c == sweep[w].call  r == sweep[w].answer IN
  /\ sweep[w].task \in { "pending", "indeterminate" }
  /\ r \in Outcomes \cup { "UNREACHABLE" }
  /\ \/ /\ r = "CONFIRMED"
        /\ Confirm(c)
     \/ /\ r = "DECLINED"
        /\ attempt' = [attempt EXCEPT ![c] = "DECLINED"]
        /\ UNCHANGED << order, outbox >>
     \/ /\ r \in { "PENDING", "UNKNOWN", "UNREACHABLE" }
        /\ UNCHANGED << order, outbox, attempt >>
  /\ sweep' = [sweep EXCEPT ![w] =
                 IF sweep[w].task = "indeterminate" /\ r = "DECLINED"
                   THEN [@ EXCEPT !.answer = "CLOSING"] ELSE NoSweep]
  /\ UNCHANGED << due, call, charge, named, inTime, unread, hook, results,
                  reader >>

\* The second half: attempt.order.transition(EXPIRED).
ReconcileClose(w) ==
  /\ sweep[w].task = "indeterminate"
  /\ sweep[w].answer = "CLOSING"
  /\ TryMove(OrderOf[sweep[w].call], "EXPIRED")
  /\ sweep' = [sweep EXCEPT ![w] = NoSweep]
  /\ UNCHANGED << due, outbox, call, attempt, charge, named, inTime, unread,
                  hook, results, reader >>

SweepCrash(w) ==
  /\ "crash" \in Faults
  /\ sweep[w].task # "idle"
  /\ sweep' = [sweep EXCEPT ![w] = NoSweep]
  /\ UNCHANGED << order, due, outbox, call, attempt, charge, named, inTime,
                  unread, hook, results, reader >>

-----------------------------------------------------------------------------
(* consumers._aplicar_resultado.  The order is read without its lock; what   *)
(* was read decides which of the two transactions follow.                    *)

\* The delivery service publishes what happened to a paid order: any number of
\* "pending review" notices, and one final result.  The bus may repeat them.
PublishResult(o, k) ==
  /\ o \notin MerchantSales
  /\ outbox[o]["order.paid"] > 0
  /\ \A f \in { "succeeded", "failed" } \ { k } : << o, f >> \notin results
  /\ << o, k >> \notin results
  /\ results' = results \cup { << o, k >> }
  /\ UNCHANGED << order, due, outbox, call, attempt, charge, named, inTime,
                  unread, hook, sweep, reader >>

\* Mutant: a pending_review notice is applied like a result.
Mutant_ReviewIsResult(o, k) == order[o] \in { "PAID", "PROCESSING" }

\* Any state but these two drops the message, and so does a pending_review
\* notice about an order that is no longer PAID.
Readable(o, k) == order[o] = "PAID" \/ (order[o] = "PROCESSING" /\ k # "review")

ReadResult(w, o, k) ==
  /\ sweep[w] = NoSweep /\ reader[w] = NoRead
  /\ << o, k >> \in results
  /\ Readable(o, k)
  /\ reader' = [reader EXCEPT ![w] =
                  [ step  |-> IF order[o] = "PAID" THEN "mark" ELSE "record",
                    order |-> o, kind |-> k ]]
  /\ UNCHANGED << order, due, outbox, call, attempt, charge, named, inTime,
                  unread, hook, sweep, results >>

\* mark_processing.  When another worker was faster it raises, and the message
\* stays unacknowledged.
MarkProcessing(w) ==
  LET o == reader[w].order IN
  /\ reader[w].step = "mark"
  /\ TryMove(o, "PROCESSING")
  /\ reader' = [reader EXCEPT ![w] =
                  IF CanMoveOrder(order[o], "PROCESSING") /\ reader[w].kind # "review"
                    THEN [@ EXCEPT !.step = "record"] ELSE NoRead]
  /\ UNCHANGED << due, outbox, call, attempt, charge, named, inTime, unread,
                  hook, sweep, results >>

\* record_fulfillment_result.  The failed branch walks FAILED and
\* REFUND_PENDING in one transaction.
RecordResult(w) ==
  LET o == reader[w].order  ok == reader[w].kind = "succeeded" IN
  /\ reader[w].step = "record"
  /\ \/ /\ CanMoveOrder(order[o], IF ok THEN "SUCCESS" ELSE "FAILED")
        /\ order'  = [order EXCEPT ![o] = IF ok THEN "SUCCESS" ELSE "REFUND_PENDING"]
        /\ Emit(o, { IF ok THEN "order.succeeded" ELSE "order.refund_required" })
     \/ /\ ~ CanMoveOrder(order[o], IF ok THEN "SUCCESS" ELSE "FAILED")
        /\ UNCHANGED << order, outbox >>
  /\ reader' = [reader EXCEPT ![w] = NoRead]
  /\ UNCHANGED << due, call, attempt, charge, named, inTime, unread, hook,
                  sweep, results >>

ReaderCrash(w) ==
  /\ "crash" \in Faults
  /\ reader[w].step # "idle"
  /\ reader' = [reader EXCEPT ![w] = NoRead]
  /\ UNCHANGED << order, due, outbox, call, attempt, charge, named, inTime,
                  unread, hook, sweep, results >>

-----------------------------------------------------------------------------
Paying(c)   == \/ StartPayment(c) \/ ProviderCharges(c) \/ ProviderAnswers(c)
               \/ ProviderRejects(c) \/ AnswerLost(c) \/ CommitPayment(c)
               \/ CallCrash(c) \/ ConfirmCash(c)
World       == \/ \E c \in Calls : ChargeSettles(c) \/ ChargeReversed(c)
               \/ \E o \in Orders : DeadlinePasses(o)
               \/ \E o \in Orders, k \in Kinds : PublishResult(o, k)
Hooks(e)    == HookRecord(e) \/ HookApply(e) \/ HookLost(e)
Sweeping(w) == \/ \E t \in Tasks, c \in Calls : SweepPick(w, t, c)
               \/ SweepAsk(w) \/ ExpireApply(w) \/ ReconcileApply(w)
               \/ ReconcileClose(w) \/ SweepCrash(w)
Reading(w)  == \/ \E o \in Orders, k \in Kinds : ReadResult(w, o, k)
               \/ MarkProcessing(w) \/ RecordResult(w) \/ ReaderCrash(w)

Next == \/ \E c \in Calls : Paying(c)
        \/ World
        \/ \E e \in HookEvents : Hooks(e)
        \/ \E w \in Workers : Sweeping(w) \/ Reading(w)

Spec == Init /\ [][Next]_vars

-----------------------------------------------------------------------------
(* Properties.                                                               *)

Has(o, e) == outbox[o][e] > 0

Money == { "paid", "reversed" }   \* the money was captured

\* The money rule seen from the payments service: an order the topups service
\* may deliver (is_paid), delivered or owes a refund for, was charged through
\* an attempt the database knows.  Every confirmation relays evidence - a
\* webhook, an answer held by a sweep, the answer to create_payment - that was
\* true some steps earlier.
PaidIsBacked ==
  \A o \in Orders :
    order[o] \in { "PAID", "PROCESSING", "SUCCESS", "REFUND_PENDING" } =>
      \E c \in Calls : OrderOf[c] = o /\ attempt[c] # "NONE" /\ charge[c] \in Money

\* The events the rest of the system acts on were written with the state that
\* caused them: no order is paid "and nobody finds out", none is closed without
\* its closing event, and none is announced before it is paid.
EventsMatchState ==
  \A o \in Orders :
    /\ order[o] \in AlreadyPaid \cup { "REFUND_PENDING" } => Has(o, "order.paid")
    /\ order[o] = "SUCCESS" <=> Has(o, "order.succeeded")
    /\ order[o] = "REFUND_PENDING" => Has(o, "order.refund_required")
    /\ order[o] \in { "CREATED", "PAYMENT_PENDING" } => \A e \in Events : ~ Has(o, e)

\* A repeated or reordered result never makes an order both delivered and
\* refundable.
NeverBothOutcomes ==
  \A o \in Orders : ~ (Has(o, "order.succeeded") /\ Has(o, "order.refund_required"))

\* expire_order asks the provider before it expires an order, so that a
\* customer who paid before the deadline is not expired, however late the
\* webhook: the answer the sweep holds can be old, but not that old.  It asks
\* only where create_payment gave a reference, and it must be able to read the
\* answer: the other paid orders are those of PaidIsNeverExpired.
PaidInTimeNeverExpires ==
  \A c \in (inTime \cap named) \ unread :
    attempt[c] # "NONE" /\ charge[c] = "paid" => order[OrderOf[c]] # "EXPIRED"

\* "Before it expires, the real state is asked of the provider": no order whose
\* customer paid in time is expired.  An answer that cannot be read counts as
\* not paid, and an attempt without a reference is not asked about.
PaidIsNeverExpired ==
  \A c \in inTime :
    attempt[c] # "NONE" /\ charge[c] = "paid" => order[OrderOf[c]] # "EXPIRED"

\* "The card is declined, the customer pays in cash": an order may have several
\* attempts.  An execution that goes on to charge after a declined attempt is
\* about an order that can take the attempt, or its charge will be rolled back.
RetryCanBeKept ==
  [][\A c, d \in Calls :
       (/\ OrderOf[c] = OrderOf[d] /\ attempt[d] = "DECLINED"
        /\ call[c] = "idle" /\ call'[c] = "charging") => CanStart(OrderOf[c])]_vars

\* confirm_payment is idempotent: order.paid, which starts the delivery, is
\* written once, and a repeated result does not ask for a second refund.  With
\* one worker slot nothing moves an order to PROCESSING while a sweep holds an
\* old answer about it, and this holds; with two slots expire_order can send a
\* paid order to review, from where it is paid again and open to another result.
AnnouncedOnce ==
  \A o \in Orders : outbox[o]["order.paid"] <= 1 /\ outbox[o]["order.refund_required"] <= 1

\* An order whose order.paid was written never ends EXPIRED, although review
\* is left towards both.
ExpiredWasNeverPaid == \A o \in Orders : order[o] = "EXPIRED" => ~ Has(o, "order.paid")

\* "Two clicks on Pay would be two charges": the guard start_payment has
\* against it.  The guard reads committed attempts and holds no lock.
NoDoubleCharge ==
  \A c, d \in Calls : OrderOf[c] = OrderOf[d] /\ charge[c] = "paid" /\ charge[d] = "paid" => c = d

\* After a lost answer start_payment leaves the attempt marked, for a sweep to
\* ask about it.  The mark is rolled back by the exception that reports it.
LostAnswerIsTracked == \A c \in Calls : call[c] = "lost" /\ charge[c] = "paid" => attempt[c] # "NONE"

-----------------------------------------------------------------------------
(* Liveness.  Beat enqueues every sweep again and again into a FIFO queue,   *)
(* so each selection that keeps coming back is eventually run (strong        *)
(* fairness), and a task that started runs to its end.  Webhooks may never   *)
(* come: nothing is assumed of them here.                                    *)

SweepFairness ==
  /\ \A t \in Tasks, c \in Calls : SF_vars(\E w \in Workers : SweepPick(w, t, c))
  /\ \A w \in Workers : /\ WF_vars(SweepAsk(w))
                        /\ WF_vars(ExpireApply(w) \/ ReconcileApply(w) \/ ReconcileClose(w))
                        /\ WF_vars(MarkProcessing(w) \/ RecordResult(w))
  /\ \A o \in Orders : WF_vars(DeadlinePasses(o))

HookFairness == \A e \in HookEvents : WF_vars(HookRecord(e)) /\ WF_vars(HookApply(e))

FairSpec     == Spec /\ SweepFairness
FairHookSpec == FairSpec /\ HookFairness

\* Money captured in time under a reference is never left behind: the sweeps
\* confirm it even if every webhook is lost, unless the answer they expire the
\* order on could not be read.
PaidInTimeIsConfirmed ==
  \A c \in Calls :
    (c \in inTime \cap named /\ attempt[c] # "NONE") ~>
      (\/ order[OrderOf[c]] \in AlreadyPaid \cup { "REFUND_PENDING" }
       \/ charge[c] = "reversed" \/ c \in unread)

\* No order waits for its payment for ever, whatever the provider answers.
PendingIsClosed ==
  \A o \in Orders : (order[o] = "PAYMENT_PENDING") ~> (order[o] # "PAYMENT_PENDING")

\* An order sent to review is asked about again until it is known what
\* happened to its charge.
ReviewIsResolved ==
  \A c \in Calls :
    (/\ attempt[c] # "NONE" /\ order[OrderOf[c]] = "UNDER_REVIEW"
     /\ charge[c] \in { "paid", "declined" })
      ~> (order[OrderOf[c]] # "UNDER_REVIEW")
=============================================================================
