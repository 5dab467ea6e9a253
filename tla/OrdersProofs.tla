---------------------------- MODULE OrdersProofs ----------------------------
(* What holds of the payments service for any number of orders, executions  *)
(* of start_payment, workers and webhook events.                             *)
EXTENDS Orders, TLAPS

-----------------------------------------------------------------------------
(* Type correctness.                                                         *)

LEMMA NonesAreTyped == NoSweep \in SweepJob /\ NoRead \in ReadJob
  BY DEF SweepJob, ReadJob

LEMMA TypeInit == Init => TypeOK
  BY NonesAreTyped, OrdersAssumption
     DEF Init, TypeOK, OrderState, Phases, AttemptStatus, ChargeState

LEMMA EmitIsTyped ==
  ASSUME TypeOK, NEW o \in Orders, NEW E, Emit(o, E)
  PROVE  outbox' \in [Orders -> [Events -> Nat]]
  BY DEF TypeOK, Emit

LEMMA ConfirmIsTyped ==
  ASSUME TypeOK, NEW c \in Calls, Confirm(c)
  PROVE  /\ order' \in [Orders -> OrderState]
         /\ outbox' \in [Orders -> [Events -> Nat]]
         /\ attempt' \in [Calls -> AttemptStatus \cup { "NONE" }]
<1> OrderOf[c] \in Orders
  BY OrdersAssumption
<1>1. CASE Confirmable(OrderOf[c])
  BY <1>1, EmitIsTyped DEF TypeOK, Confirm, PaidState, OrderState, AttemptStatus
<1>2. CASE ~ Confirmable(OrderOf[c])
  BY <1>2 DEF TypeOK, Confirm
<1> QED
  BY <1>1, <1>2

LEMMA MoveIsTyped ==
  ASSUME TypeOK, NEW o \in Orders, NEW t \in OrderState, TryMove(o, t)
  PROVE  order' \in [Orders -> OrderState]
  BY DEF TypeOK, TryMove

LEMMA PayingIsTyped ==
  ASSUME TypeOK, NEW c \in Calls, Paying(c)
  PROVE  TypeOK'
<1> OrderOf[c] \in Orders
  BY OrdersAssumption
<1>1. CASE StartPayment(c)
  BY <1>1 DEF StartPayment, TypeOK, Phases
<1>2. CASE ProviderCharges(c)
  BY <1>2 DEF ProviderCharges, TypeOK, ChargeState
<1>3. CASE ProviderAnswers(c)
  <2>1. call' \in [Calls -> Phases]
    BY <1>3 DEF ProviderAnswers, AnswerFor, TypeOK, Phases, Outcomes
  <2> QED
    BY <1>3, <2>1 DEF ProviderAnswers, TypeOK
<1>4. CASE ProviderRejects(c)
  BY <1>4 DEF ProviderRejects, TypeOK, Phases
<1>5. CASE AnswerLost(c)
  BY <1>5 DEF AnswerLost, TypeOK, Phases
<1>6. CASE CommitPayment(c)
  <2>1. /\ call' \in [Calls -> Phases]
        /\ attempt' \in [Calls -> AttemptStatus \cup { "NONE" }]
    BY <1>6 DEF CommitPayment, StatusFor, AttemptStatus, TypeOK, Phases, Outcomes
  <2>2. /\ order' \in [Orders -> OrderState]
        /\ outbox' \in [Orders -> [Events -> Nat]]
    BY <1>6, EmitIsTyped DEF CommitPayment, PaidState, OrderState, TypeOK
  <2> QED
    BY <1>6, <2>1, <2>2 DEF CommitPayment, TypeOK
<1>7. CASE CallCrash(c)
  BY <1>7 DEF CallCrash, TypeOK, Phases
<1>8. CASE ConfirmCash(c)
  BY <1>8, ConfirmIsTyped DEF ConfirmCash, TypeOK, ChargeState
<1> QED
  BY <1>1, <1>2, <1>3, <1>4, <1>5, <1>6, <1>7, <1>8 DEF Paying

LEMMA WorldIsTyped ==
  ASSUME TypeOK, World
  PROVE  TypeOK'
<1>1. CASE \E c \in Calls : ChargeSettles(c)
  BY <1>1 DEF ChargeSettles, TypeOK, ChargeState
<1>2. CASE \E c \in Calls : ChargeReversed(c)
  BY <1>2 DEF ChargeReversed, TypeOK, ChargeState
<1>3. CASE \E o \in Orders : DeadlinePasses(o)
  BY <1>3 DEF DeadlinePasses, TypeOK
<1>4. CASE \E o \in Orders, k \in Kinds : PublishResult(o, k)
  BY <1>4 DEF PublishResult, TypeOK
<1> QED
  BY <1>1, <1>2, <1>3, <1>4 DEF World

LEMMA HooksAreTyped ==
  ASSUME TypeOK, NEW e \in HookEvents, Hooks(e)
  PROVE  TypeOK'
<1> e.call \in Calls
  BY DEF HookEvents
<1>1. CASE HookRecord(e)
  BY <1>1 DEF HookRecord, TypeOK
<1>2. CASE HookApply(e)
  <2>1. /\ order' \in [Orders -> OrderState]
        /\ outbox' \in [Orders -> [Events -> Nat]]
        /\ attempt' \in [Calls -> AttemptStatus \cup { "NONE" }]
    BY <1>2, ConfirmIsTyped DEF HookApply, TypeOK, AttemptStatus
  <2> QED
    BY <1>2, <2>1 DEF HookApply, TypeOK
<1>3. CASE HookLost(e)
  BY <1>3 DEF HookLost, TypeOK
<1> QED
  BY <1>1, <1>2, <1>3 DEF Hooks

\* A sweep that is not idle is about a call, and a read about an order.
LEMMA BusyJobs ==
  ASSUME TypeOK, NEW w \in Workers
  PROVE  /\ sweep[w].task # "idle" => sweep[w].call \in Calls
         /\ reader[w].step # "idle" => reader[w].order \in Orders
  BY DEF TypeOK, SweepJob, ReadJob, NoSweep, NoRead

\* Whatever a sweep asks, it hears an outcome or nothing, and a confirmation is
\* of money that was captured.
LEMMA HeardIsTrue ==
  ASSUME NEW t, NEW c \in Calls, NEW r \in Heard(t, c)
  PROVE  /\ r \in { "CONFIRMED", "PENDING", "DECLINED", "UNKNOWN", "SKIPPED", "UNREACHABLE" }
         /\ r = "CONFIRMED" => charge[c] = "paid"
         /\ r = "PENDING" => charge[c] = "pending"
         /\ r = "SKIPPED" => t = "expire" /\ NotAsked(c)
         /\ t = "expire" /\ NotAsked(c) => r = "SKIPPED"
         /\ r = "DECLINED" /\ c \in named => charge[c] \in { "declined", "reversed" }
<1>1. CASE t = "expire" /\ NotAsked(c)
  <2>1. r = "SKIPPED"
    BY <1>1 DEF Heard
  <2> QED
    BY <1>1, <2>1
<1>2. CASE ~ (t = "expire" /\ NotAsked(c)) /\ c \in named
  <2>1. r \in AnswerFor(c) \/ r = "UNREACHABLE"
    BY <1>2 DEF Heard
  <2> QED
    BY <1>2, <2>1 DEF AnswerFor
<1>3. CASE ~ (t = "expire" /\ NotAsked(c)) /\ c \notin named
  <2>1. r \in { "DECLINED", "UNREACHABLE" }
    BY <1>3 DEF Heard
  <2> QED
    BY <1>3, <2>1
<1> QED
  BY <1>1, <1>2, <1>3

LEMMA SweepingIsTyped ==
  ASSUME TypeOK, NEW w \in Workers, Sweeping(w)
  PROVE  TypeOK'
<1>1. CASE \E t \in Tasks, c \in Calls : SweepPick(w, t, c)
  BY <1>1 DEF SweepPick, TypeOK, SweepJob
<1>2. CASE SweepAsk(w)
  <2> DEFINE c == sweep[w].call
  <2>1. c \in Calls /\ sweep[w] \in SweepJob /\ sweep[w] # NoSweep
    BY <1>2, BusyJobs DEF SweepAsk, TypeOK, NoSweep
  <2>2. PICK r \in Heard(sweep[w].task, c) :
          /\ sweep' = [sweep EXCEPT ![w].answer = r]
          /\ unread' \in { unread, unread \cup { c } }
    BY <1>2 DEF SweepAsk
  <2>3. r \in Outcomes \cup { "SKIPPED", "UNREACHABLE" }
    BY <2>1, <2>2, HeardIsTrue DEF Outcomes
  <2>4. [sweep[w] EXCEPT !.answer = r] \in SweepJob
    BY <2>1, <2>3 DEF SweepJob
  <2>5. sweep' \in [Workers -> SweepJob]
    BY <2>2, <2>4 DEF TypeOK
  <2> QED
    BY <1>2, <2>1, <2>2, <2>5 DEF SweepAsk, TypeOK
<1>3. CASE ExpireApply(w)
  <2> DEFINE c == sweep[w].call
  <2>1. c \in Calls /\ OrderOf[c] \in Orders
    BY <1>3, BusyJobs, OrdersAssumption DEF ExpireApply
  <2>2. /\ order' \in [Orders -> OrderState]
        /\ outbox' \in [Orders -> [Events -> Nat]]
        /\ attempt' \in [Calls -> AttemptStatus \cup { "NONE" }]
    BY <1>3, <2>1, ConfirmIsTyped, MoveIsTyped DEF ExpireApply, TypeOK, OrderState
  <2> QED
    BY <1>3, <2>2, NonesAreTyped DEF ExpireApply, TypeOK
<1>4. CASE ReconcileApply(w)
  <2> DEFINE c == sweep[w].call
  <2>1. c \in Calls
    BY <1>4, BusyJobs DEF ReconcileApply
  <2>2. /\ order' \in [Orders -> OrderState]
        /\ outbox' \in [Orders -> [Events -> Nat]]
        /\ attempt' \in [Calls -> AttemptStatus \cup { "NONE" }]
    BY <1>4, <2>1, ConfirmIsTyped DEF ReconcileApply, TypeOK, AttemptStatus
  <2>3. sweep' \in [Workers -> SweepJob]
    BY <1>4 DEF ReconcileApply, TypeOK, SweepJob, NoSweep
  <2> QED
    BY <1>4, <2>2, <2>3 DEF ReconcileApply, TypeOK
<1>5. CASE ReconcileClose(w)
  <2>1. sweep[w].call \in Calls /\ OrderOf[sweep[w].call] \in Orders
    BY <1>5, BusyJobs, OrdersAssumption DEF ReconcileClose
  <2> QED
    BY <1>5, <2>1, MoveIsTyped, NonesAreTyped DEF ReconcileClose, TypeOK, OrderState
<1>6. CASE SweepCrash(w)
  BY <1>6, NonesAreTyped DEF SweepCrash, TypeOK
<1> QED
  BY <1>1, <1>2, <1>3, <1>4, <1>5, <1>6 DEF Sweeping

LEMMA ReadingIsTyped ==
  ASSUME TypeOK, NEW w \in Workers, Reading(w)
  PROVE  TypeOK'
<1>1. CASE \E o \in Orders, k \in Kinds : ReadResult(w, o, k)
  BY <1>1 DEF ReadResult, TypeOK, ReadJob
<1>2. CASE MarkProcessing(w)
  BY <1>2, BusyJobs, MoveIsTyped DEF MarkProcessing, TypeOK, ReadJob, NoRead, OrderState
<1>3. CASE RecordResult(w)
  <2>1. reader[w].order \in Orders
    BY <1>3, BusyJobs DEF RecordResult
  <2>2. order' \in [Orders -> OrderState] /\ outbox' \in [Orders -> [Events -> Nat]]
    BY <1>3, <2>1, EmitIsTyped DEF RecordResult, TypeOK, OrderState
  <2> QED
    BY <1>3, <2>2, NonesAreTyped DEF RecordResult, TypeOK
<1>4. CASE ReaderCrash(w)
  BY <1>4, NonesAreTyped DEF ReaderCrash, TypeOK
<1> QED
  BY <1>1, <1>2, <1>3, <1>4 DEF Reading

LEMMA TypeStep == TypeOK /\ [Next]_vars => TypeOK'
<1> SUFFICES ASSUME TypeOK, [Next]_vars PROVE TypeOK'
  OBVIOUS
<1>1. CASE Next
  BY <1>1, PayingIsTyped, WorldIsTyped, HooksAreTyped, SweepingIsTyped, ReadingIsTyped
     DEF Next
<1>2. CASE UNCHANGED vars
  BY <1>2 DEF vars, TypeOK
<1> QED
  BY <1>1, <1>2

\* Every variable keeps its type, for every value of the constants.
THEOREM TypeCorrect == Spec => []TypeOK
  BY TypeInit, TypeStep, PTL DEF Spec

-----------------------------------------------------------------------------
(* Safety.  Each part of the inductive invariant says what one kind of       *)
(* memory may rely on: what a handler, a webhook, a sweep or a reader knew   *)
(* some steps ago is still true, because charges, attempts, events and       *)
(* results only grow.                                                        *)

\* What an execution of start_payment knows.
CallInv ==
  \A c \in Calls :
    /\ attempt[c] # "NONE" <=> call[c] = "committed"
    /\ attempt[c] # "NONE" => order[OrderOf[c]] # "CREATED"
    /\ call[c] = "CONFIRMED" => charge[c] \in Money

\* At most one execution of start_payment commits an attempt for an order:
\* PAYMENT_PENDING is reached from CREATED only, and never back.
OneAttemptPerOrder ==
  \A c, d \in Calls :
    OrderOf[c] = OrderOf[d] /\ attempt[c] # "NONE" /\ attempt[d] # "NONE" => c = d

\* What a sweep knows while it waits for the provider.
SweepInv ==
  \A w \in Workers :
    sweep[w].task # "idle" =>
      /\ attempt[sweep[w].call] # "NONE"
      /\ sweep[w].answer = "CONFIRMED" => charge[sweep[w].call] \in Money

\* What a recorded webhook proves.
HookInv ==
  \A e \in HookEvents :
    e.outcome = "CONFIRMED" /\ hook[e] # "unseen" => charge[e.call] \in Money

\* An attempt the database knows, whose money was captured.
Backed(o) == \E c \in Calls : OrderOf[c] = o /\ attempt[c] # "NONE" /\ charge[c] \in Money
PaidInv == \A o \in Orders : Has(o, "order.paid") => Backed(o)

\* What the bus and the readers of the bus know.
ResultInv ==
  /\ \A o \in Orders, k \in Kinds :
       << o, k >> \in results => o \notin MerchantSales /\ Has(o, "order.paid")
  /\ \A o \in Orders : ~ (<< o, "succeeded" >> \in results /\ << o, "failed" >> \in results)
ReaderInv ==
  \A w \in Workers :
    reader[w].step # "idle" =>
      /\ << reader[w].order, reader[w].kind >> \in results
      /\ reader[w].step = "record" => reader[w].kind # "review"

\* An outcome is written only for a result that was published.
OutcomeInv ==
  \A o \in Orders :
    /\ Has(o, "order.refund_required") => << o, "failed" >> \in results
    /\ Has(o, "order.succeeded") /\ o \notin MerchantSales => << o, "succeeded" >> \in results

IInv == /\ TypeOK /\ CallInv /\ SweepInv /\ HookInv /\ PaidInv
        /\ ResultInv /\ ReaderInv /\ OutcomeInv
        /\ EventsMatchState /\ OneAttemptPerOrder

LEMMA InitHolds == Init => IInv
<1> SUFFICES ASSUME Init PROVE IInv
  OBVIOUS
<1>1. TypeOK
  BY TypeInit
<1>2. \A o \in Orders, e \in Events : ~ Has(o, e)
  BY DEF Init, Has
<1>3. CallInv /\ HookInv /\ OneAttemptPerOrder
  BY DEF Init, CallInv, HookInv, OneAttemptPerOrder
<1>4. SweepInv /\ ReaderInv
  BY DEF Init, SweepInv, ReaderInv, NoSweep, NoRead
<1>5. PaidInv /\ ResultInv /\ OutcomeInv
  BY <1>2 DEF Init, PaidInv, ResultInv, OutcomeInv, Events
<1>6. EventsMatchState
  BY <1>2 DEF Init, EventsMatchState, AlreadyPaid, Events
<1> QED
  BY <1>1, <1>3, <1>4, <1>5, <1>6 DEF IInv

\* What never shrinks, whatever the step.
Grows == /\ \A c \in Calls : charge[c] \in Money => charge'[c] \in Money
         /\ \A c \in Calls : attempt[c] # "NONE" => attempt'[c] # "NONE"
         /\ \A o \in Orders, e \in Events : Has(o, e) => Has(o, e)'
         /\ results \subseteq results'

LEMMA EmitGrows ==
  ASSUME TypeOK, NEW o \in Orders, NEW E, Emit(o, E)
  PROVE  /\ \A p \in Orders, e \in Events : Has(p, e) => Has(p, e)'
         /\ \A e \in Events : e \in E => Has(o, e)'
         /\ \A p \in Orders, e \in Events : (p # o \/ e \notin E) => (Has(p, e)' <=> Has(p, e))
  BY DEF TypeOK, Emit, Has

LEMMA ConfirmGrows ==
  ASSUME TypeOK, NEW c \in Calls, Confirm(c)
  PROVE  /\ \A d \in Calls : attempt[d] # "NONE" => attempt'[d] # "NONE"
         /\ \A d \in Calls : d # c => attempt'[d] = attempt[d]
         /\ \A p \in Orders, e \in Events : Has(p, e) => Has(p, e)'
<1> OrderOf[c] \in Orders
  BY OrdersAssumption
<1>1. CASE Confirmable(OrderOf[c])
  BY <1>1, EmitGrows DEF TypeOK, Confirm
<1>2. CASE ~ Confirmable(OrderOf[c])
  BY <1>2 DEF Confirm, Has
<1> QED
  BY <1>1, <1>2

LEMMA GrowsStep ==
  ASSUME IInv, [Next]_vars
  PROVE  Grows
<1> USE DEF IInv, Grows
<1>1. ASSUME NEW c \in Calls, Paying(c) PROVE Grows
  <2> OrderOf[c] \in Orders
    BY OrdersAssumption
  <2>1. CASE StartPayment(c) \/ ProviderAnswers(c) \/ ProviderRejects(c)
             \/ AnswerLost(c) \/ CallCrash(c)
    BY <2>1 DEF StartPayment, ProviderAnswers, ProviderRejects, AnswerLost, CallCrash, Has
  <2>2. CASE ProviderCharges(c)
    BY <2>2 DEF ProviderCharges, Has, Money, TypeOK
  <2>3. CASE CommitPayment(c)
    <3>1. \A p \in Orders, e \in Events : Has(p, e) => Has(p, e)'
      BY <2>3, EmitGrows DEF CommitPayment, Has
    <3>2. \A d \in Calls : attempt[d] # "NONE" => attempt'[d] # "NONE"
      BY <2>3 DEF CommitPayment, StatusFor, TypeOK
    <3> QED
      BY <2>3, <3>1, <3>2 DEF CommitPayment
  <2>4. CASE ConfirmCash(c)
    BY <2>4, ConfirmGrows DEF ConfirmCash, Money, TypeOK
  <2> QED
    BY <1>1, <2>1, <2>2, <2>3, <2>4 DEF Paying
<1>2. ASSUME World PROVE Grows
  BY <1>2 DEF World, ChargeSettles, ChargeReversed, DeadlinePasses, PublishResult,
              Has, Money, TypeOK
<1>3. ASSUME NEW e \in HookEvents, Hooks(e) PROVE Grows
  <2> e.call \in Calls
    BY DEF HookEvents
  <2>1. CASE HookRecord(e) \/ HookLost(e)
    BY <2>1 DEF HookRecord, HookLost, Has
  <2>2. CASE HookApply(e)
    BY <2>2, ConfirmGrows DEF HookApply, Has, TypeOK
  <2> QED
    BY <1>3, <2>1, <2>2 DEF Hooks
<1>4. ASSUME NEW w \in Workers, Sweeping(w) PROVE Grows
  <2>1. CASE (\E t \in Tasks, c \in Calls : SweepPick(w, t, c)) \/ SweepAsk(w)
             \/ ReconcileClose(w) \/ SweepCrash(w)
    BY <2>1 DEF SweepPick, SweepAsk, ReconcileClose, SweepCrash, Has
  <2>2. CASE ExpireApply(w)
    BY <2>2, BusyJobs, ConfirmGrows DEF ExpireApply, Has
  <2>3. CASE ReconcileApply(w)
    BY <2>3, BusyJobs, ConfirmGrows DEF ReconcileApply, Has, TypeOK
  <2> QED
    BY <1>4, <2>1, <2>2, <2>3 DEF Sweeping
<1>5. ASSUME NEW w \in Workers, Reading(w) PROVE Grows
  <2>1. CASE (\E o \in Orders, k \in Kinds : ReadResult(w, o, k)) \/ MarkProcessing(w)
             \/ ReaderCrash(w)
    BY <2>1 DEF ReadResult, MarkProcessing, ReaderCrash, Has
  <2>2. CASE RecordResult(w)
    BY <2>2, BusyJobs, EmitGrows DEF RecordResult, Has
  <2> QED
    BY <1>5, <2>1, <2>2 DEF Reading
<1>6. CASE UNCHANGED vars
  BY <1>6 DEF vars, Has
<1> QED
  BY <1>1, <1>2, <1>3, <1>4, <1>5, <1>6 DEF Next

-----------------------------------------------------------------------------
(* Each part of the invariant is preserved.                                  *)

LEMMA CallStep ==
  ASSUME IInv, [Next]_vars
  PROVE  CallInv' /\ OneAttemptPerOrder'
<1> Grows
  BY GrowsStep
<1> USE DEF IInv
\* No step leads to CREATED, and only CommitPayment adds an attempt.
<1> DEFINE Same == /\ \A o \in Orders : order'[o] = "CREATED" => order[o] = "CREATED"
                   /\ \A c \in Calls : attempt'[c] # "NONE" <=> attempt[c] # "NONE"
<1>1. ASSUME Same, UNCHANGED call PROVE CallInv' /\ OneAttemptPerOrder'
  BY <1>1, OrdersAssumption DEF CallInv, OneAttemptPerOrder, Grows
<1>2. ASSUME NEW c \in Calls, Confirm(c), attempt[c] # "NONE" PROVE Same
  BY <1>2, OrdersAssumption DEF Confirm, PaidState, TypeOK
<1>3. ASSUME NEW o \in Orders, NEW t, t # "CREATED", TryMove(o, t), UNCHANGED attempt PROVE Same
  BY <1>3 DEF TryMove, TypeOK
<1>4. ASSUME NEW c \in Calls, Paying(c) PROVE CallInv' /\ OneAttemptPerOrder'
  <2>1. CASE StartPayment(c) \/ ProviderAnswers(c) \/ ProviderRejects(c)
             \/ AnswerLost(c) \/ CallCrash(c)
    <3>1. /\ UNCHANGED << order, attempt, charge >>
          /\ \A d \in Calls : d # c => call'[d] = call[d]
      BY <2>1 DEF StartPayment, ProviderAnswers, ProviderRejects, AnswerLost, CallCrash, TypeOK
    <3>2. call[c] # "committed" /\ call'[c] # "committed"
      BY <2>1 DEF StartPayment, ProviderAnswers, ProviderRejects, AnswerLost, CallCrash,
                  TypeOK, AnswerFor, Outcomes
    <3>3. call'[c] = "CONFIRMED" => charge[c] \in Money
      BY <2>1 DEF StartPayment, ProviderAnswers, ProviderRejects, AnswerLost, CallCrash,
                  TypeOK, AnswerFor, Money
    <3> QED
      BY <3>1, <3>2, <3>3, OrdersAssumption DEF CallInv, OneAttemptPerOrder
  <2>2. CASE ProviderCharges(c)
    BY <1>1, <2>2 DEF ProviderCharges
  <2>3. CASE CommitPayment(c)
    <3> DEFINE o == OrderOf[c]
    <3>1. CASE CanStart(o)
      <4>1. o \in Orders /\ order[o] = "CREATED"
        BY <3>1, OrdersAssumption
           DEF TypeOK, CanStart, CanMoveOrder, OrderTransitions, OrderState
      <4>2. \A d \in Calls : OrderOf[d] = o => attempt[d] = "NONE"
        BY <4>1 DEF CallInv
      <4>3. /\ \A d \in Calls : d # c => attempt'[d] = attempt[d] /\ call'[d] = call[d]
            /\ call'[c] = "committed" /\ attempt'[c] = StatusFor(call[c])
        BY <2>3, <3>1 DEF CommitPayment, TypeOK
      <4>4. attempt'[c] # "NONE"
        BY <4>3 DEF StatusFor
      <4>5. order'[o] # "CREATED" /\ \A p \in Orders : p # o => order'[p] = order[p]
        BY <2>3, <3>1, <4>1 DEF CommitPayment, PaidState, TypeOK
      <4> QED
        BY <4>1, <4>2, <4>3, <4>4, <4>5, OrdersAssumption
           DEF CallInv, OneAttemptPerOrder, Grows
    <3>2. CASE ~ CanStart(o)
      BY <2>3, <3>2, OrdersAssumption
         DEF CommitPayment, CallInv, OneAttemptPerOrder, TypeOK, Outcomes
    <3> QED
      BY <3>1, <3>2
  <2>4. CASE ConfirmCash(c)
    BY <1>1, <1>2, <2>4 DEF ConfirmCash
  <2> QED
    BY <1>4, <2>1, <2>2, <2>3, <2>4 DEF Paying
<1>5. ASSUME World PROVE CallInv' /\ OneAttemptPerOrder'
  BY <1>1, <1>5 DEF World, ChargeSettles, ChargeReversed, DeadlinePasses, PublishResult
<1>6. ASSUME NEW e \in HookEvents, Hooks(e) PROVE CallInv' /\ OneAttemptPerOrder'
  <2> e.call \in Calls
    BY DEF HookEvents
  <2>1. CASE HookRecord(e) \/ HookLost(e)
    BY <1>1, <2>1 DEF HookRecord, HookLost
  <2>2. CASE HookApply(e)
    <3>1. Same
      BY <1>2, <2>2 DEF HookApply, Found, TypeOK
    <3> QED
      BY <1>1, <2>2, <3>1 DEF HookApply
  <2> QED
    BY <1>6, <2>1, <2>2 DEF Hooks
<1>7. ASSUME NEW w \in Workers, Sweeping(w) PROVE CallInv' /\ OneAttemptPerOrder'
  <2>1. CASE (\E t \in Tasks, c \in Calls : SweepPick(w, t, c)) \/ SweepAsk(w) \/ SweepCrash(w)
    BY <1>1, <2>1 DEF SweepPick, SweepAsk, SweepCrash
  <2> DEFINE c == sweep[w].call
  <2>2. sweep[w].task # "idle" => c \in Calls /\ OrderOf[c] \in Orders /\ attempt[c] # "NONE"
    BY BusyJobs, OrdersAssumption DEF SweepInv
  <2>3. CASE ExpireApply(w)
    <3>1. Same
      BY <1>2, <1>3, <2>2, <2>3 DEF ExpireApply
    <3> QED
      BY <1>1, <2>3, <3>1 DEF ExpireApply
  <2>4. CASE ReconcileApply(w)
    <3>1. Same
      BY <1>2, <2>2, <2>4 DEF ReconcileApply, TypeOK
    <3> QED
      BY <1>1, <2>4, <3>1 DEF ReconcileApply
  <2>5. CASE ReconcileClose(w)
    BY <1>1, <1>3, <2>2, <2>5 DEF ReconcileClose
  <2> QED
    BY <1>7, <2>1, <2>3, <2>4, <2>5 DEF Sweeping
<1>8. ASSUME NEW w \in Workers, Reading(w) PROVE CallInv' /\ OneAttemptPerOrder'
  <2>1. CASE (\E o \in Orders, k \in Kinds : ReadResult(w, o, k)) \/ ReaderCrash(w)
    BY <1>1, <2>1 DEF ReadResult, ReaderCrash
  <2>2. CASE MarkProcessing(w)
    BY <1>1, <1>3, <2>2, BusyJobs DEF MarkProcessing
  <2>3. CASE RecordResult(w)
    BY <1>1, <2>3, BusyJobs DEF RecordResult, TypeOK
  <2> QED
    BY <1>8, <2>1, <2>2, <2>3 DEF Reading
<1>9. CASE UNCHANGED vars
  BY <1>1, <1>9 DEF vars
<1> QED
  BY <1>4, <1>5, <1>6, <1>7, <1>8, <1>9 DEF Next

LEMMA SweepStep ==
  ASSUME IInv, [Next]_vars
  PROVE  SweepInv'
<1> Grows
  BY GrowsStep
<1> USE DEF IInv
\* A worker whose slot did not change knows what it knew.
<1>1. ASSUME UNCHANGED sweep PROVE SweepInv'
  BY <1>1, BusyJobs DEF SweepInv, Grows
<1>2. ASSUME NEW w \in Workers,
             \A v \in Workers : v # w => sweep'[v] = sweep[v],
             sweep'[w].task # "idle" =>
               /\ sweep'[w].call \in Calls /\ attempt[sweep'[w].call] # "NONE"
               /\ sweep'[w].answer = "CONFIRMED" => charge[sweep'[w].call] \in Money
      PROVE  SweepInv'
  BY <1>2, BusyJobs DEF SweepInv, Grows
<1>3. ASSUME NEW w \in Workers, Sweeping(w) PROVE SweepInv'
  <2> /\ sweep \in [Workers -> SweepJob]
      /\ sweep[w].task # "idle" => sweep[w].call \in Calls /\ attempt[sweep[w].call] # "NONE"
    BY BusyJobs DEF TypeOK, SweepInv
  <2>1. CASE \E t \in Tasks, c \in Calls : SweepPick(w, t, c)
    BY <1>2, <2>1 DEF SweepPick, Eligible
  <2>2. CASE SweepAsk(w)
    <3> DEFINE c == sweep[w].call
    <3>1. PICK r \in Heard(sweep[w].task, c) : sweep' = [sweep EXCEPT ![w].answer = r]
      BY <2>2 DEF SweepAsk
    <3>2. r = "CONFIRMED" => charge[c] \in Money
      BY <2>2, <3>1, HeardIsTrue DEF Money, SweepAsk
    <3>3. /\ \A v \in Workers : v # w => sweep'[v] = sweep[v]
          /\ sweep'[w].call = c /\ sweep'[w].answer = r /\ sweep[w].task # "idle"
      BY <2>2, <3>1 DEF SweepAsk, SweepJob, NoSweep
    <3> QED
      BY <1>2, <3>2, <3>3
  <2>3. CASE ExpireApply(w) \/ ReconcileClose(w) \/ SweepCrash(w)
    BY <1>2, <2>3 DEF ExpireApply, ReconcileClose, SweepCrash, NoSweep
  <2>4. CASE ReconcileApply(w)
    BY <1>2, <2>4 DEF ReconcileApply, NoSweep, SweepJob
  <2> QED
    BY <1>3, <2>1, <2>2, <2>3, <2>4 DEF Sweeping
<1>4. ASSUME NEW c \in Calls, Paying(c) PROVE SweepInv'
  BY <1>1, <1>4
     DEF Paying, StartPayment, ProviderCharges, ProviderAnswers, ProviderRejects,
         AnswerLost, CommitPayment, CallCrash, ConfirmCash
<1>5. ASSUME World PROVE SweepInv'
  BY <1>1, <1>5 DEF World, ChargeSettles, ChargeReversed, DeadlinePasses, PublishResult
<1>6. ASSUME NEW e \in HookEvents, Hooks(e) PROVE SweepInv'
  BY <1>1, <1>6 DEF Hooks, HookRecord, HookApply, HookLost
<1>7. ASSUME NEW w \in Workers, Reading(w) PROVE SweepInv'
  BY <1>1, <1>7 DEF Reading, ReadResult, MarkProcessing, RecordResult, ReaderCrash
<1>8. CASE UNCHANGED vars
  BY <1>1, <1>8 DEF vars
<1> QED
  BY <1>3, <1>4, <1>5, <1>6, <1>7, <1>8 DEF Next

LEMMA HookStep ==
  ASSUME IInv, [Next]_vars
  PROVE  HookInv'
<1> Grows
  BY GrowsStep
<1> USE DEF IInv
<1>1. ASSUME UNCHANGED hook PROVE HookInv'
  BY <1>1 DEF HookInv, HookEvents, Grows
<1>2. ASSUME NEW e \in HookEvents, Hooks(e) PROVE HookInv'
  <2> e.call \in Calls
    BY DEF HookEvents
  <2>1. CASE HookRecord(e)
    BY <2>1 DEF HookRecord, Emitted, HookInv, HookEvents, Money, Grows, TypeOK
  <2>2. CASE HookApply(e) \/ HookLost(e)
    BY <2>2 DEF HookApply, HookLost, HookInv, HookEvents, Grows, TypeOK
  <2> QED
    BY <1>2, <2>1, <2>2 DEF Hooks
<1>3. ASSUME NEW c \in Calls, Paying(c) PROVE HookInv'
  BY <1>1, <1>3
     DEF Paying, StartPayment, ProviderCharges, ProviderAnswers, ProviderRejects,
         AnswerLost, CommitPayment, CallCrash, ConfirmCash
<1>4. ASSUME World PROVE HookInv'
  BY <1>1, <1>4 DEF World, ChargeSettles, ChargeReversed, DeadlinePasses, PublishResult
<1>5. ASSUME NEW w \in Workers, Sweeping(w) PROVE HookInv'
  BY <1>1, <1>5
     DEF Sweeping, SweepPick, SweepAsk, ExpireApply, ReconcileApply, ReconcileClose, SweepCrash
<1>6. ASSUME NEW w \in Workers, Reading(w) PROVE HookInv'
  BY <1>1, <1>6 DEF Reading, ReadResult, MarkProcessing, RecordResult, ReaderCrash
<1>7. CASE UNCHANGED vars
  BY <1>1, <1>7 DEF vars
<1> QED
  BY <1>2, <1>3, <1>4, <1>5, <1>6, <1>7 DEF Next

LEMMA ReaderStep ==
  ASSUME IInv, [Next]_vars
  PROVE  ResultInv' /\ ReaderInv'
<1> Grows
  BY GrowsStep
<1> USE DEF IInv
<1>1. ASSUME UNCHANGED << results, reader >> PROVE ResultInv' /\ ReaderInv'
  BY <1>1 DEF ResultInv, ReaderInv, Grows, Events
<1>2. ASSUME NEW o \in Orders, NEW k \in Kinds, PublishResult(o, k)
      PROVE  ResultInv' /\ ReaderInv'
  <2>1. Has(o, "order.paid") /\ o \notin MerchantSales
    BY <1>2 DEF PublishResult, Has
  <2>2. ResultInv'
    BY <1>2, <2>1 DEF PublishResult, ResultInv, Grows, Events
  <2>3. ReaderInv'
    BY <1>2 DEF PublishResult, ReaderInv
  <2> QED
    BY <2>2, <2>3
<1>3. ASSUME NEW w \in Workers, Reading(w) PROVE ResultInv' /\ ReaderInv'
  <2>1. UNCHANGED results
    BY <1>3 DEF Reading, ReadResult, MarkProcessing, RecordResult, ReaderCrash
  <2>2. ResultInv'
    BY <2>1 DEF ResultInv, Grows, Events
  <2> reader \in [Workers -> ReadJob] /\ reader[w] \in ReadJob
    BY DEF TypeOK
  <2>9. ASSUME \A v \in Workers : v # w => reader'[v] = reader[v],
             reader'[w].step # "idle" =>
               /\ << reader'[w].order, reader'[w].kind >> \in results
               /\ reader'[w].step = "record" => reader'[w].kind # "review"
      PROVE  ReaderInv'
    BY <2>1, <2>9 DEF ReaderInv
  <2>3. CASE \E o \in Orders, k \in Kinds : ReadResult(w, o, k)
    BY <2>2, <2>3, <2>9 DEF ReadResult, Readable
  <2>4. CASE MarkProcessing(w)
    <3>1. CASE reader'[w] = NoRead
      BY <2>2, <2>4, <2>9, <3>1 DEF MarkProcessing, NoRead
    <3>2. CASE reader'[w] # NoRead
      <4>1. reader' = [reader EXCEPT ![w] = [reader[w] EXCEPT !.step = "record"]]
            /\ reader[w].kind # "review" /\ reader[w].step = "mark"
        BY <2>4, <3>2 DEF MarkProcessing
      <4>2. reader[w] \in [ step : { "mark", "record" }, order : Orders, kind : Kinds ]
        BY <4>1 DEF ReadJob, NoRead
      <4> QED
        BY <2>2, <2>9, <4>1, <4>2 DEF ReaderInv
    <3> QED
      BY <3>1, <3>2
  <2>5. CASE RecordResult(w) \/ ReaderCrash(w)
    BY <2>2, <2>5, <2>9 DEF RecordResult, ReaderCrash, NoRead
  <2> QED
    BY <1>3, <2>2, <2>3, <2>4, <2>5 DEF Reading
<1>4. ASSUME NEW c \in Calls, Paying(c) PROVE ResultInv' /\ ReaderInv'
  BY <1>1, <1>4
     DEF Paying, StartPayment, ProviderCharges, ProviderAnswers, ProviderRejects,
         AnswerLost, CommitPayment, CallCrash, ConfirmCash
<1>5. ASSUME NEW e \in HookEvents, Hooks(e) PROVE ResultInv' /\ ReaderInv'
  BY <1>1, <1>5 DEF Hooks, HookRecord, HookApply, HookLost
<1>6. ASSUME NEW w \in Workers, Sweeping(w) PROVE ResultInv' /\ ReaderInv'
  BY <1>1, <1>6
     DEF Sweeping, SweepPick, SweepAsk, ExpireApply, ReconcileApply, ReconcileClose, SweepCrash
<1>7. ASSUME World PROVE ResultInv' /\ ReaderInv'
  BY <1>1, <1>2, <1>7 DEF World, ChargeSettles, ChargeReversed, DeadlinePasses
<1>8. CASE UNCHANGED vars
  BY <1>1, <1>8 DEF vars
<1> QED
  BY <1>3, <1>4, <1>5, <1>6, <1>7, <1>8 DEF Next

\* A step that writes no event moves an order along these edges only.
Quiet ==
  /\ UNCHANGED outbox
  /\ \A o \in Orders :
       \/ order'[o] = order[o]
       \/ order[o] = "CREATED" /\ order'[o] = "PAYMENT_PENDING"
       \/ order[o] # "SUCCESS" /\ order'[o] \in { "UNDER_REVIEW", "EXPIRED" }
       \/ order[o] = "PAID" /\ order'[o] = "PROCESSING"

LEMMA MoveIsQuiet ==
  ASSUME TypeOK, NEW o \in Orders, NEW t \in { "UNDER_REVIEW", "EXPIRED", "PROCESSING" },
         TryMove(o, t), UNCHANGED outbox
  PROVE  Quiet
<1>1. CASE CanMoveOrder(order[o], t)
  <2>1. order[o] # "SUCCESS" /\ (t = "PROCESSING" => order[o] = "PAID")
    BY <1>1 DEF TypeOK, CanMoveOrder, OrderTransitions, OrderState
  <2> QED
    BY <1>1, <2>1 DEF Quiet, TryMove, TypeOK
<1>2. CASE ~ CanMoveOrder(order[o], t)
  BY <1>2 DEF Quiet, TryMove
<1> QED
  BY <1>1, <1>2

\* How a step can write events: by confirming an attempt, by committing a
\* payment that the provider confirmed, by recording a result, or not at all.
LEMMA EventSources ==
  ASSUME IInv, [Next]_vars
  PROVE  \/ Quiet
         \/ \E c \in Calls :
              /\ attempt[c] # "NONE" \/ attempt'[c] # "NONE"
              /\ charge'[c] \in Money
              /\ order'[OrderOf[c]] = PaidState(OrderOf[c])
              /\ \A p \in Orders : p # OrderOf[c] => order'[p] = order[p]
              /\ Emit(OrderOf[c], PaidEvents(OrderOf[c]))
              /\ ~ (order[OrderOf[c]] \in AlreadyPaid)
         \/ \E w \in Workers :
              /\ reader[w].step = "record" /\ UNCHANGED results
              /\ RecordResult(w)
              /\ order[reader[w].order] # "SUCCESS"
<1> Grows
  BY GrowsStep
<1> USE DEF IInv
<1> DEFINE Paid(c) ==
             /\ attempt[c] # "NONE" \/ attempt'[c] # "NONE"
             /\ charge'[c] \in Money
             /\ order'[OrderOf[c]] = PaidState(OrderOf[c])
             /\ \A p \in Orders : p # OrderOf[c] => order'[p] = order[p]
             /\ Emit(OrderOf[c], PaidEvents(OrderOf[c]))
             /\ ~ (order[OrderOf[c]] \in AlreadyPaid)
<1>1. ASSUME NEW c \in Calls, Confirm(c), attempt[c] # "NONE", charge'[c] \in Money
      PROVE  Quiet \/ Paid(c)
  BY <1>1, OrdersAssumption DEF Confirm, Confirmable, TypeOK, Quiet
<1>2. ASSUME NEW c \in Calls, Paying(c) PROVE Quiet \/ Paid(c)
  <2>1. CASE StartPayment(c) \/ ProviderCharges(c) \/ ProviderAnswers(c) \/ ProviderRejects(c)
             \/ AnswerLost(c) \/ CallCrash(c)
    BY <2>1 DEF StartPayment, ProviderCharges, ProviderAnswers, ProviderRejects, AnswerLost,
                CallCrash, Quiet
  <2>2. CASE CommitPayment(c)
    <3>1. CASE CanStart(OrderOf[c]) /\ call[c] = "CONFIRMED"
      <4>1. order[OrderOf[c]] = "CREATED" /\ OrderOf[c] \in Orders
        BY <3>1, OrdersAssumption
           DEF TypeOK, CanStart, CanMoveOrder, OrderTransitions, OrderState
      <4>2. attempt'[c] # "NONE"
        BY <2>2, <3>1 DEF CommitPayment, StatusFor, TypeOK
      <4>3. charge'[c] \in Money
        BY <2>2, <3>1 DEF CommitPayment, CallInv
      <4>4. /\ order' = [order EXCEPT ![OrderOf[c]] = PaidState(OrderOf[c])]
            /\ Emit(OrderOf[c], PaidEvents(OrderOf[c]))
        BY <2>2, <3>1 DEF CommitPayment
      <4> QED
        BY <4>1, <4>2, <4>3, <4>4 DEF TypeOK, AlreadyPaid
    <3>2. CASE ~ (CanStart(OrderOf[c]) /\ call[c] = "CONFIRMED")
      <4>1. CanStart(OrderOf[c]) => order[OrderOf[c]] = "CREATED" /\ OrderOf[c] \in Orders
        BY OrdersAssumption DEF TypeOK, CanStart, CanMoveOrder, OrderTransitions, OrderState
      <4> QED
        BY <2>2, <3>2, <4>1 DEF CommitPayment, Quiet, TypeOK
    <3> QED
      BY <3>1, <3>2
  <2>3. CASE ConfirmCash(c)
    BY <1>1, <2>3 DEF ConfirmCash, Money, TypeOK
  <2> QED
    BY <1>2, <2>1, <2>2, <2>3 DEF Paying
<1>3. ASSUME World PROVE Quiet
  BY <1>3 DEF World, ChargeSettles, ChargeReversed, DeadlinePasses, PublishResult, Quiet
<1>4. ASSUME NEW e \in HookEvents, Hooks(e) PROVE Quiet \/ Paid(e.call)
  <2>1. CASE HookRecord(e) \/ HookLost(e)
    BY <2>1 DEF HookRecord, HookLost, Quiet
  <2>2. CASE HookApply(e)
    <3>1. e.call \in Calls
      BY DEF HookEvents
    <3>2. e.outcome = "CONFIRMED" => charge'[e.call] \in Money
      BY <2>2 DEF HookApply, HookInv
    <3> QED
      BY <1>1, <2>2, <3>1, <3>2 DEF HookApply, Found, Quiet
  <2> QED
    BY <1>4, <2>1, <2>2 DEF Hooks
<1>5. ASSUME NEW w \in Workers, Sweeping(w) 
      PROVE  Quiet \/ (sweep[w].call \in Calls /\ Paid(sweep[w].call))
  <2>1. CASE (\E t \in Tasks, c \in Calls : SweepPick(w, t, c)) \/ SweepAsk(w)
             \/ SweepCrash(w)
    BY <2>1 DEF SweepPick, SweepAsk, SweepCrash, Quiet
  <2>2. sweep[w].task # "idle" =>
          /\ sweep[w].call \in Calls /\ attempt[sweep[w].call] # "NONE"
          /\ sweep[w].answer = "CONFIRMED" => charge[sweep[w].call] \in Money
    BY BusyJobs DEF SweepInv
  <2>3. CASE ExpireApply(w)
    BY <1>1, <2>2, <2>3, MoveIsQuiet, OrdersAssumption DEF ExpireApply
  <2>4. CASE ReconcileApply(w)
    BY <1>1, <2>2, <2>4 DEF ReconcileApply, Quiet
  <2>5. CASE ReconcileClose(w)
    BY <2>2, <2>5, MoveIsQuiet, OrdersAssumption DEF ReconcileClose
  <2> QED
    BY <1>5, <2>1, <2>3, <2>4, <2>5 DEF Sweeping
<1>6. ASSUME NEW w \in Workers, Reading(w)
      PROVE  \/ Quiet
             \/ /\ reader[w].step = "record" /\ UNCHANGED results
                /\ RecordResult(w)
                /\ order[reader[w].order] # "SUCCESS"
  <2>1. CASE RecordResult(w)
    <3>1. CASE order[reader[w].order] = "SUCCESS"
      BY <2>1, <3>1 DEF RecordResult, CanMoveOrder, OrderTransitions, OrderState, Quiet
    <3>2. CASE order[reader[w].order] # "SUCCESS"
      BY <2>1, <3>2 DEF RecordResult
    <3> QED
      BY <3>1, <3>2
  <2>2. CASE (\E o \in Orders, k \in Kinds : ReadResult(w, o, k)) \/ ReaderCrash(w)
    BY <2>2 DEF ReadResult, ReaderCrash, Quiet
  <2>3. CASE MarkProcessing(w)
    BY <2>3, BusyJobs, MoveIsQuiet DEF MarkProcessing
  <2> QED
    BY <1>6, <2>1, <2>2, <2>3 DEF Reading
<1>7. ASSUME NEW e \in HookEvents PROVE e.call \in Calls
  BY DEF HookEvents
<1>8. CASE UNCHANGED vars
  BY <1>8 DEF vars, Quiet
<1> QED
  BY <1>2, <1>3, <1>4, <1>5, <1>6, <1>7, <1>8 DEF Next

LEMMA PaidStep ==
  ASSUME IInv, [Next]_vars
  PROVE  PaidInv'
<1> Grows
  BY GrowsStep
<1> USE DEF IInv
\* An order that was backed stays so.
<1>1. \A o \in Orders : Backed(o) => Backed(o)'
  BY DEF Backed, Grows
<1>2. CASE Quiet
  BY <1>1, <1>2 DEF PaidInv, Has, Quiet
<1>3. ASSUME NEW c \in Calls,
             attempt[c] # "NONE" \/ attempt'[c] # "NONE",
             charge'[c] \in Money,
             Emit(OrderOf[c], PaidEvents(OrderOf[c]))
      PROVE  PaidInv'
  <2>1. OrderOf[c] \in Orders
    BY OrdersAssumption
  <2>2. Backed(OrderOf[c])'
    BY <1>3 DEF Backed, Grows
  <2>3. \A p \in Orders : p # OrderOf[c] => (Has(p, "order.paid")' <=> Has(p, "order.paid"))
    BY <1>3, <2>1, EmitGrows DEF Events
  <2> QED
    BY <1>1, <2>2, <2>3 DEF PaidInv
<1>4. ASSUME NEW w \in Workers, RecordResult(w), reader[w].step = "record" PROVE PaidInv'
  <2> DEFINE o == reader[w].order
  <2>1. o \in Orders
    BY <1>4, BusyJobs
  <2>2. \A p \in Orders : Has(p, "order.paid")' <=> Has(p, "order.paid")
    BY <1>4, <2>1, EmitGrows DEF RecordResult, Events, Has
  <2> QED
    BY <1>1, <2>2 DEF PaidInv
<1> QED
  BY <1>2, <1>3, <1>4, EventSources

LEMMA OutcomeStep ==
  ASSUME IInv, [Next]_vars
  PROVE  OutcomeInv'
<1> Grows
  BY GrowsStep
<1> USE DEF IInv
<1>1. CASE UNCHANGED outbox
  BY <1>1 DEF OutcomeInv, Has, Grows
<1>2. ASSUME NEW c \in Calls, Emit(OrderOf[c], PaidEvents(OrderOf[c])) PROVE OutcomeInv'
  <2>1. OrderOf[c] \in Orders
    BY OrdersAssumption
  <2>2. \A p \in Orders :
          /\ Has(p, "order.refund_required")' <=> Has(p, "order.refund_required")
          /\ p \notin MerchantSales => (Has(p, "order.succeeded")' <=> Has(p, "order.succeeded"))
    BY <1>2, <2>1, EmitGrows DEF PaidEvents, Events
  <2> QED
    BY <2>2 DEF OutcomeInv, Grows
<1>3. ASSUME NEW w \in Workers, RecordResult(w), reader[w].step = "record" PROVE OutcomeInv'
  <2> DEFINE o == reader[w].order  ok == reader[w].kind = "succeeded"
             e == IF ok THEN "order.succeeded" ELSE "order.refund_required"
  <2>1. o \in Orders /\ << o, IF ok THEN "succeeded" ELSE "failed" >> \in results
    BY <1>3, BusyJobs DEF ReaderInv, TypeOK, ReadJob, NoRead, Kinds
  <2>2. CASE UNCHANGED outbox
    BY <1>1, <2>2
  <2>3. CASE Emit(o, { e })
    <3>1. \A p \in Orders, f \in Events : (p # o \/ f # e) => (Has(p, f)' <=> Has(p, f))
      BY <2>1, <2>3, EmitGrows
    <3> QED
      BY <2>1, <3>1 DEF OutcomeInv, Grows, Events
  <2> QED
    BY <1>3, <2>2, <2>3 DEF RecordResult
<1> QED
  BY <1>1, <1>2, <1>3, EventSources DEF Quiet

LEMMA EventsStep ==
  ASSUME IInv, [Next]_vars
  PROVE  EventsMatchState'
<1> Grows
  BY GrowsStep
<1> USE DEF IInv
<1>1. CASE Quiet
  BY <1>1 DEF Quiet, EventsMatchState, AlreadyPaid, Has
<1>2. ASSUME NEW c \in Calls,
             order'[OrderOf[c]] = PaidState(OrderOf[c]),
             \A p \in Orders : p # OrderOf[c] => order'[p] = order[p],
             Emit(OrderOf[c], PaidEvents(OrderOf[c])),
             order[OrderOf[c]] \notin AlreadyPaid
      PROVE  EventsMatchState'
  <2> DEFINE o == OrderOf[c]
  <2>1. o \in Orders
    BY OrdersAssumption
  <2>2. /\ \A e \in PaidEvents(o) : Has(o, e)'
        /\ \A p \in Orders, e \in Events : (p # o \/ e \notin PaidEvents(o)) => (Has(p, e)' <=> Has(p, e))
    BY <1>2, <2>1, EmitGrows DEF PaidEvents, Events
  <2> QED
    BY <1>2, <2>1, <2>2 DEF EventsMatchState, PaidState, PaidEvents, AlreadyPaid, Events
<1>3. ASSUME NEW w \in Workers, RecordResult(w), reader[w].step = "record",
             order[reader[w].order] # "SUCCESS"
      PROVE  EventsMatchState'
  <2> DEFINE o == reader[w].order  ok == reader[w].kind = "succeeded"
             e == IF ok THEN "order.succeeded" ELSE "order.refund_required"
  <2>1. o \in Orders /\ Has(o, "order.paid")
    BY <1>3, BusyJobs DEF ReaderInv, ResultInv, TypeOK, ReadJob, NoRead
  <2>2. CASE UNCHANGED << order, outbox >>
    BY <2>2 DEF EventsMatchState, Has
  <2>3. CASE /\ order' = [order EXCEPT ![o] = IF ok THEN "SUCCESS" ELSE "REFUND_PENDING"]
             /\ Emit(o, { e })
    <3>0. e \in Events /\ e # "order.paid"
      BY DEF Events
    <3> HIDE DEF e
    <3>1. /\ \A p \in Orders, f \in Events : p = o /\ f = e => Has(p, f)'
          /\ \A p \in Orders, f \in Events : (p # o \/ f # e) => (Has(p, f)' <=> Has(p, f))
      BY <2>1, <2>3, <3>0, EmitGrows
    <3>2. /\ order'[o] = IF ok THEN "SUCCESS" ELSE "REFUND_PENDING"
          /\ \A p \in Orders : p # o => order'[p] = order[p]
      BY <2>1, <2>3 DEF TypeOK
    <3>3. ok => e = "order.succeeded" /\ order'[o] = "SUCCESS"
      BY <3>2 DEF e
    <3>4. ~ ok => e = "order.refund_required" /\ order'[o] = "REFUND_PENDING"
      BY <3>2 DEF e
    <3> HIDE DEF ok
    <3>5. ~ Has(o, "order.succeeded")
      BY <1>3, <2>1 DEF EventsMatchState
    <3> QED
      BY <1>3, <2>1, <3>0, <3>1, <3>2, <3>3, <3>4, <3>5 DEF EventsMatchState, AlreadyPaid, Events
  <2> QED
    BY <1>3, <2>2, <2>3 DEF RecordResult
<1> QED
  BY <1>1, <1>2, <1>3, EventSources

-----------------------------------------------------------------------------
(* The invariant and the theorems.                                           *)

LEMMA StepHolds == IInv /\ [Next]_vars => IInv'
<1> SUFFICES ASSUME IInv, [Next]_vars PROVE IInv'
  OBVIOUS
<1>1. TypeOK'
  BY TypeStep DEF IInv
<1> QED
  BY <1>1, CallStep, SweepStep, HookStep, PaidStep, ReaderStep, OutcomeStep, EventsStep
     DEF IInv

LEMMA Invariance == Spec => []IInv
  BY InitHolds, StepHolds, PTL DEF Spec

LEMMA Consequences == IInv => PaidIsBacked /\ NeverBothOutcomes
<1> SUFFICES ASSUME IInv PROVE PaidIsBacked /\ NeverBothOutcomes
  OBVIOUS
<1>1. PaidIsBacked
  BY DEF IInv, PaidIsBacked, EventsMatchState, AlreadyPaid, PaidInv, Backed
<1>2. NeverBothOutcomes
  BY DEF IInv, NeverBothOutcomes, OutcomeInv, ResultInv, Kinds
<1> QED
  BY <1>1, <1>2

\* An order that is paid, delivered or owed a refund has a committed attempt
\* whose money was captured: no webhook, sweep or answer confirms less.
THEOREM PaidHasMoney == Spec => []PaidIsBacked
  BY Invariance, Consequences, PTL

\* The events of an order say what its state says, for any number of workers,
\* webhooks and crashes.
THEOREM EventsAreTrue == Spec => []EventsMatchState
  BY Invariance, PTL DEF IInv

\* No order is announced both as delivered and as refundable, as long as the
\* delivery service does not publish both results.
THEOREM OutcomeIsUnique == Spec => []NeverBothOutcomes
  BY Invariance, Consequences, PTL

-----------------------------------------------------------------------------
(* Expiry.  A sweep acts on an answer that may be old.  It is never so old   *)
(* that it expires what was paid in time under a reference: the answer was   *)
(* asked for after the deadline, when a charge that is still pending cannot  *)
(* be in time any more, and what could not be read is in unread.             *)

\* How one step may move an order.
Settled == { "PAID", "PROCESSING", "SUCCESS", "REFUND_PENDING" }
Reviews(w, o) ==
  /\ sweep[w].task = "expire" /\ sweep[w].answer \in { "UNREACHABLE", "CONFIRMED" }
  /\ OrderOf[sweep[w].call] = o
  /\ CanMoveOrder(order[o], "UNDER_REVIEW") /\ order'[o] = "UNDER_REVIEW"
Expires(w, o) ==
  /\ \/ sweep[w].task = "expire" /\ sweep[w].answer \in { "PENDING", "DECLINED", "UNKNOWN", "SKIPPED" }
     \/ sweep[w].task = "indeterminate" /\ sweep[w].answer = "CLOSING"
  /\ OrderOf[sweep[w].call] = o
  /\ CanMoveOrder(order[o], "EXPIRED") /\ order'[o] = "EXPIRED"
Finishes(w, o) ==
  /\ reader[w].step # "idle" /\ reader[w].order = o
  /\ \/ order[o] = "PAID" /\ order'[o] = "PROCESSING"
     \/ order[o] \in { "PROCESSING", "UNDER_REVIEW" } /\ order'[o] \in { "SUCCESS", "REFUND_PENDING" }
Moved(o) ==
  \/ order'[o] = order[o]
  \/ order[o] = "CREATED" /\ order'[o] \in { "PAYMENT_PENDING", "PAID", "SUCCESS" }
  \/ order[o] \in { "PAYMENT_PENDING", "UNDER_REVIEW" } /\ order'[o] \in { "PAID", "SUCCESS" }
  \/ \E w \in Workers : Reviews(w, o) \/ Expires(w, o) \/ Finishes(w, o)

LEMMA OrderTable ==
  ASSUME NEW s \in OrderState
  PROVE  /\ CanMoveOrder(s, "PAYMENT_PENDING") <=> s = "CREATED"
         /\ CanMoveOrder(s, "PAID") <=> s \in { "CREATED", "PAYMENT_PENDING", "UNDER_REVIEW" }
         /\ CanMoveOrder(s, "PROCESSING") <=> s = "PAID"
         /\ CanMoveOrder(s, "SUCCESS") <=> s \in { "PROCESSING", "UNDER_REVIEW" }
         /\ CanMoveOrder(s, "FAILED") <=> s \in { "PROCESSING", "UNDER_REVIEW" }
         /\ CanMoveOrder(s, "EXPIRED") <=> s \in { "PAYMENT_PENDING", "UNDER_REVIEW" }
         /\ CanMoveOrder(s, "UNDER_REVIEW") <=>
              s \in { "PAYMENT_PENDING", "PROCESSING", "REFUND_PENDING" }
  BY DEF CanMoveOrder, OrderTransitions, OrderState

LEMMA ConfirmMoves ==
  ASSUME TypeOK, NEW c \in Calls, Confirm(c), NEW o \in Orders
  PROVE  Moved(o)
<1>1. OrderOf[c] \in Orders
  BY OrdersAssumption
<1>2. CASE Confirmable(OrderOf[c])
  <2>1. order[OrderOf[c]] \in { "CREATED", "PAYMENT_PENDING", "UNDER_REVIEW" }
    BY <1>1, <1>2, OrderTable DEF Confirmable, TypeOK
  <2> QED
    BY <1>1, <1>2, <2>1 DEF Confirm, PaidState, Moved, TypeOK
<1>3. CASE ~ Confirmable(OrderOf[c])
  BY <1>3 DEF Confirm, Moved
<1> QED
  BY <1>2, <1>3

LEMMA OrderMoves ==
  ASSUME TypeOK, [Next]_vars, NEW o \in Orders
  PROVE  Moved(o)
<1>1. ASSUME UNCHANGED order PROVE Moved(o)
  BY <1>1 DEF Moved
<1>2. ASSUME NEW c \in Calls, Paying(c) PROVE Moved(o)
  <2>1. CASE CommitPayment(c)
    <3>1. OrderOf[c] \in Orders
      BY OrdersAssumption
    <3>2. CanStart(OrderOf[c]) => order[OrderOf[c]] = "CREATED"
      BY <3>1, OrderTable DEF CanStart, TypeOK
    <3> QED
      BY <2>1, <3>1, <3>2 DEF CommitPayment, PaidState, Moved, TypeOK
  <2>2. CASE ConfirmCash(c)
    BY <2>2, ConfirmMoves DEF ConfirmCash
  <2> QED
    BY <1>1, <1>2, <2>1, <2>2
       DEF Paying, StartPayment, ProviderCharges, ProviderAnswers, ProviderRejects, AnswerLost,
           CallCrash
<1>3. ASSUME World PROVE Moved(o)
  BY <1>1, <1>3 DEF World, ChargeSettles, ChargeReversed, DeadlinePasses, PublishResult
<1>4. ASSUME NEW e \in HookEvents, Hooks(e) PROVE Moved(o)
  <2>1. e.call \in Calls
    BY DEF HookEvents
  <2> QED
    BY <1>1, <1>4, <2>1, ConfirmMoves DEF Hooks, HookRecord, HookLost, HookApply
<1>5. ASSUME NEW w \in Workers, Sweeping(w) PROVE Moved(o)
  <2> DEFINE c == sweep[w].call
  <2>1. sweep[w].task # "idle" => c \in Calls /\ OrderOf[c] \in Orders
    BY BusyJobs, OrdersAssumption
  <2>2. CASE ExpireApply(w)
    <3>1. CASE Confirm(c)
      BY <2>1, <2>2, <3>1, ConfirmMoves DEF ExpireApply
    <3>2. CASE TryMove(OrderOf[c], "UNDER_REVIEW") /\ sweep[w].answer \in { "UNREACHABLE", "CONFIRMED" }
      BY <2>1, <2>2, <3>2 DEF ExpireApply, TryMove, Moved, Reviews, TypeOK
    <3>3. CASE TryMove(OrderOf[c], "EXPIRED")
               /\ sweep[w].answer \in { "PENDING", "DECLINED", "UNKNOWN", "SKIPPED" }
      BY <2>1, <2>2, <3>3 DEF ExpireApply, TryMove, Moved, Expires, TypeOK
    <3> QED
      BY <2>2, <3>1, <3>2, <3>3 DEF ExpireApply
  <2>3. CASE ReconcileApply(w)
    BY <1>1, <2>1, <2>3, ConfirmMoves DEF ReconcileApply
  <2>4. CASE ReconcileClose(w)
    BY <2>1, <2>4 DEF ReconcileClose, TryMove, Moved, Expires, TypeOK
  <2> QED
    BY <1>1, <1>5, <2>2, <2>3, <2>4 DEF Sweeping, SweepPick, SweepAsk, SweepCrash
<1>6. ASSUME NEW w \in Workers, Reading(w) PROVE Moved(o)
  <2>1. CASE MarkProcessing(w)
    <3>1. reader[w].order \in Orders
      BY <2>1, BusyJobs DEF MarkProcessing
    <3>2. CanMoveOrder(order[reader[w].order], "PROCESSING") => order[reader[w].order] = "PAID"
      BY <3>1, OrderTable DEF TypeOK
    <3> QED
      BY <2>1, <3>1, <3>2 DEF MarkProcessing, TryMove, Moved, Finishes, TypeOK
  <2>2. CASE RecordResult(w)
    <3>1. reader[w].order \in Orders
      BY <2>2, BusyJobs DEF RecordResult
    <3>2. \A t \in { "SUCCESS", "FAILED" } : CanMoveOrder(order[reader[w].order], t) =>
            order[reader[w].order] \in { "PROCESSING", "UNDER_REVIEW" }
      BY <3>1, OrderTable DEF TypeOK
    <3> QED
      BY <2>2, <3>1, <3>2 DEF RecordResult, Moved, Finishes, TypeOK
  <2> QED
    BY <1>1, <1>6, <2>1, <2>2 DEF Reading, ReadResult, ReaderCrash
<1>7. CASE UNCHANGED vars
  BY <1>1, <1>7 DEF vars
<1> QED
  BY <1>2, <1>3, <1>4, <1>5, <1>6, <1>7 DEF Next

\* How one step may change a charge, the record of what was in time, and the
\* deadline of an order.
ChargeMoved(c) ==
  \/ charge'[c] = charge[c] /\ (c \in inTime' <=> c \in inTime)
  \/ /\ c \notin CashCalls
     /\ \/ charge[c] = "none" /\ call[c] \in { "charging", "lost" }
        \/ charge[c] = "pending"
     /\ charge'[c] \in { "pending", "paid", "declined" }
     /\ c \in inTime' => c \in inTime \/ (charge'[c] = "paid" /\ ~ due[OrderOf[c]])
  \/ c \notin CashCalls /\ charge[c] = "paid" /\ charge'[c] = "reversed" /\ (c \in inTime' <=> c \in inTime)
  \/ c \in CashCalls /\ charge'[c] = "paid" /\ attempt[c] # "NONE" /\ order'[OrderOf[c]] \in { "PAID", "SUCCESS" }

LEMMA ChargeMoves ==
  ASSUME TypeOK, [Next]_vars
  PROVE  /\ \A c \in Calls : ChargeMoved(c)
         /\ \A o \in Orders : due[o] => due'[o]
<1> USE DEF ChargeMoved
<1>1. ASSUME UNCHANGED << charge, inTime, due >>
      PROVE  (\A c \in Calls : ChargeMoved(c)) /\ \A o \in Orders : due[o] => due'[o]
  BY <1>1
<1>2. ASSUME NEW c \in Calls, Paying(c)
      PROVE  (\A d \in Calls : ChargeMoved(d)) /\ \A o \in Orders : due[o] => due'[o]
  <2>1. CASE ProviderCharges(c)
    BY <2>1 DEF ProviderCharges, TypeOK
  <2>2. CASE ConfirmCash(c)
    <3>1. order'[OrderOf[c]] \in { "PAID", "SUCCESS" }
      BY <2>2, OrdersAssumption DEF ConfirmCash, Confirm, PaidState, TypeOK
    <3> QED
      BY <2>2, <3>1 DEF ConfirmCash, TypeOK
  <2> QED
    BY <1>1, <1>2, <2>1, <2>2
       DEF Paying, StartPayment, ProviderAnswers, ProviderRejects, AnswerLost, CommitPayment, CallCrash
<1>3. ASSUME World
      PROVE  (\A d \in Calls : ChargeMoved(d)) /\ \A o \in Orders : due[o] => due'[o]
  <2>1. CASE \E c \in Calls : ChargeSettles(c)
    BY <2>1 DEF ChargeSettles, TypeOK
  <2>2. CASE \E c \in Calls : ChargeReversed(c)
    BY <2>2 DEF ChargeReversed, TypeOK
  <2>3. CASE \E o \in Orders : DeadlinePasses(o)
    BY <2>3 DEF DeadlinePasses, TypeOK
  <2> QED
    BY <1>1, <1>3, <2>1, <2>2, <2>3 DEF World, PublishResult
<1>4. ASSUME NEW e \in HookEvents, Hooks(e) PROVE UNCHANGED << charge, inTime, due >>
  BY <1>4 DEF Hooks, HookRecord, HookApply, HookLost
<1>5. ASSUME NEW w \in Workers, Sweeping(w) \/ Reading(w) PROVE UNCHANGED << charge, inTime, due >>
  BY <1>5
     DEF Sweeping, SweepPick, SweepAsk, ExpireApply, ReconcileApply, ReconcileClose, SweepCrash,
         Reading, ReadResult, MarkProcessing, RecordResult, ReaderCrash
<1>6. CASE UNCHANGED vars
  BY <1>1, <1>6 DEF vars
<1> QED
  BY <1>1, <1>2, <1>3, <1>4, <1>5, <1>6 DEF Next

\* The order of this card charge may expire: the charge was made, and it has no
\* reference to ask by, could not be read, is over, or is too late to be in time.
Expirable(c) ==
  /\ c \notin CashCalls /\ charge[c] # "none"
  /\ c \in named \ unread /\ charge[c] \in { "pending", "paid" } =>
       due[OrderOf[c]] /\ c \notin inTime

\* A card charge that is over, or has no reference to ask by.
Over(c) ==
  /\ c \notin CashCalls
  /\ c \in named => charge[c] \in { "declined", "reversed" }

\* What a charge says of its call and its order.  Cash in the drawer is of an order
\* that was settled in the same transaction and is never reviewed.
ChargeInv ==
  \A c \in Calls :
    /\ c \in inTime => charge[c] \in Money
    /\ c \notin CashCalls /\ call[c] \in Outcomes \cup { "committed" } => charge[c] # "none"
    /\ c \in CashCalls /\ charge[c] # "none" => attempt[c] # "NONE" /\ order[OrderOf[c]] \in Settled
    /\ c \in CashCalls /\ attempt[c] # "NONE" => order[OrderOf[c]] # "UNDER_REVIEW"

\* What a job knows when it holds the answer about a call.
Knows(job) ==
  job.task # "idle" =>
    /\ job.task = "expire" => due[OrderOf[job.call]]
    /\ job.task = "expire" /\ job.answer \in { "PENDING", "UNKNOWN" } => Expirable(job.call)
    /\ job.answer \in { "DECLINED", "CLOSING" } => Over(job.call)
    /\ job.call \in CashCalls => job.task = "expire" /\ job.answer \in { "unasked", "SKIPPED" }
    /\ job.call \notin CashCalls /\ job.answer = "SKIPPED" => job.call \notin named
AnswerInv == \A w \in Workers : Knows(sweep[w])

\* What expired had been asked about after it could be in time.
ExpiredInv ==
  \A c \in Calls :
    attempt[c] # "NONE" /\ order[OrderOf[c]] = "EXPIRED" => c \in CashCalls \/ Expirable(c)

ExpiryInv == ChargeInv /\ AnswerInv /\ ExpiredInv

LEMMA ExpiryInit == Init => ExpiryInv
  BY DEF Init, ExpiryInv, ChargeInv, AnswerInv, Knows, ExpiredInv, NoSweep, Outcomes

\* The reference of a committed attempt came with the answer to create_payment.
LEMMA NamedStays ==
  ASSUME IInv, [Next]_vars, NEW c \in Calls, attempt[c] # "NONE"
  PROVE  (c \in named' <=> c \in named) /\ unread \subseteq unread'
<1>0. call[c] = "committed"
  BY DEF IInv, CallInv
<1>1. ASSUME NEW d \in Calls, Paying(d)
      PROVE  (c \in named' <=> c \in named) /\ unread \subseteq unread'
  BY <1>0, <1>1
     DEF Paying, StartPayment, ProviderCharges, ProviderAnswers, ProviderRejects, AnswerLost,
         CommitPayment, CallCrash, ConfirmCash
<1>2. ASSUME World PROVE UNCHANGED << named, unread >>
  BY <1>2 DEF World, ChargeSettles, ChargeReversed, DeadlinePasses, PublishResult
<1>3. ASSUME NEW e \in HookEvents, Hooks(e) PROVE UNCHANGED << named, unread >>
  BY <1>3 DEF Hooks, HookRecord, HookApply, HookLost
<1>4. ASSUME NEW w \in Workers, Sweeping(w) PROVE UNCHANGED named /\ unread \subseteq unread'
  BY <1>4
     DEF Sweeping, SweepPick, SweepAsk, ExpireApply, ReconcileApply, ReconcileClose, SweepCrash
<1>5. ASSUME NEW w \in Workers, Reading(w) PROVE UNCHANGED << named, unread >>
  BY <1>5 DEF Reading, ReadResult, MarkProcessing, RecordResult, ReaderCrash
<1>6. CASE UNCHANGED vars
  BY <1>6 DEF vars
<1> QED
  BY <1>1, <1>2, <1>3, <1>4, <1>5, <1>6 DEF Next

\* Once it may expire, an order may expire; a charge that is over stays over.
LEMMA ExpirableStays ==
  ASSUME IInv, ChargeInv, [Next]_vars, NEW c \in Calls, attempt[c] # "NONE"
  PROVE  /\ Expirable(c) => Expirable(c)'
         /\ Over(c) => Over(c)'
<1>1. ChargeMoved(c) /\ (due[OrderOf[c]] => due'[OrderOf[c]])
  BY ChargeMoves, OrdersAssumption DEF IInv
<1>2. (c \in named' <=> c \in named) /\ unread \subseteq unread'
  BY NamedStays
<1>3. Over(c) => Over(c)'
  BY <1>1, <1>2 DEF ChargeMoved, Over
<1>4. Expirable(c) => Expirable(c)'
  BY <1>1, <1>2 DEF ChargeMoved, Expirable, ChargeInv, Money
<1> QED
  BY <1>3, <1>4

\* A sweep reviews or expires no order whose attempt is in cash and paid.
LEMMA CashIsSettled ==
  ASSUME IInv, ExpiryInv, [Next]_vars, NEW c \in CashCalls, attempt[c] # "NONE"
  PROVE  /\ order'[OrderOf[c]] # "UNDER_REVIEW"
         /\ order[OrderOf[c]] \in Settled => order'[OrderOf[c]] \in Settled
<1> DEFINE o == OrderOf[c]
<1>1. c \in Calls /\ o \in Orders
  BY OrdersAssumption
<1>2. Moved(o) /\ order[o] # "CREATED" /\ order[o] # "UNDER_REVIEW"
  BY <1>1, OrderMoves DEF IInv, CallInv, ExpiryInv, ChargeInv
<1>3. ASSUME NEW w \in Workers PROVE ~ Reviews(w, o)
  <2> SUFFICES ASSUME Reviews(w, o) PROVE FALSE
    OBVIOUS
  <2>1. sweep[w].call \in Calls /\ attempt[sweep[w].call] # "NONE"
    BY BusyJobs DEF Reviews, IInv, SweepInv
  <2>2. sweep[w].call = c
    BY <1>1, <2>1 DEF Reviews, IInv, OneAttemptPerOrder
  <2> QED
    BY <2>2 DEF Reviews, ExpiryInv, AnswerInv, Knows
<1>4. ASSUME NEW w \in Workers, Expires(w, o) PROVE order[o] = "PAYMENT_PENDING" /\ order'[o] = "EXPIRED"
  BY <1>1, <1>2, <1>4, OrderTable DEF Expires, IInv, TypeOK
<1> QED
  BY <1>2, <1>3, <1>4 DEF Moved, Settled, Finishes

\* Only start_payment adds an attempt, and only while the order is CREATED.
LEMMA FirstAttempt ==
  ASSUME IInv, [Next]_vars, NEW c \in Calls, attempt[c] = "NONE", attempt'[c] # "NONE"
  PROVE  CommitPayment(c) /\ CanStart(OrderOf[c])
<1>0. Grows /\ OrderOf[c] \in Orders /\ TypeOK
  BY GrowsStep, OrdersAssumption DEF IInv
<1>1. ASSUME NEW d \in Calls, Confirm(d), attempt[d] # "NONE" PROVE attempt'[c] = attempt[c]
  BY <1>1, <1>0, ConfirmGrows
<1>2. ASSUME NEW d \in Calls, Paying(d) PROVE CommitPayment(c) /\ CanStart(OrderOf[c])
  BY <1>0, <1>1, <1>2
     DEF Paying, StartPayment, ProviderCharges, ProviderAnswers, ProviderRejects, AnswerLost,
         CommitPayment, CallCrash, ConfirmCash, TypeOK
<1>3. ~ World
  BY DEF World, ChargeSettles, ChargeReversed, DeadlinePasses, PublishResult
<1>4. ASSUME NEW e \in HookEvents PROVE ~ Hooks(e)
  <2>1. e.call \in Calls
    BY DEF HookEvents
  <2> QED
    BY <1>0, <1>1, <2>1 DEF Hooks, HookRecord, HookApply, HookLost, Found, TypeOK
<1>5. ASSUME NEW w \in Workers PROVE ~ Sweeping(w)
  <2>1. sweep[w].task # "idle" => sweep[w].call \in Calls /\ attempt[sweep[w].call] # "NONE"
    BY BusyJobs DEF IInv, SweepInv
  <2> QED
    BY <1>0, <1>1, <2>1
       DEF Sweeping, SweepPick, SweepAsk, ExpireApply, ReconcileApply, ReconcileClose, SweepCrash,
           TypeOK
<1>6. ASSUME NEW w \in Workers PROVE ~ Reading(w)
  BY DEF Reading, ReadResult, MarkProcessing, RecordResult, ReaderCrash
<1>7. ~ UNCHANGED vars
  BY DEF vars
<1> QED
  BY <1>2, <1>3, <1>4, <1>5, <1>6, <1>7 DEF Next

LEMMA ChargeStep ==
  ASSUME IInv, ExpiryInv, [Next]_vars
  PROVE  ChargeInv'
<1> SUFFICES ASSUME NEW c \in Calls
             PROVE  /\ c \in inTime' => charge'[c] \in Money
                    /\ c \notin CashCalls /\ call'[c] \in Outcomes \cup { "committed" } => charge'[c] # "none"
                    /\ c \in CashCalls /\ charge'[c] # "none" =>
                         attempt'[c] # "NONE" /\ order'[OrderOf[c]] \in Settled
                    /\ c \in CashCalls /\ attempt'[c] # "NONE" => order'[OrderOf[c]] # "UNDER_REVIEW"
  BY DEF ChargeInv, Money
<1>1. ChargeMoved(c) /\ Grows /\ OrderOf[c] \in Orders /\ TypeOK
  BY ChargeMoves, GrowsStep, OrdersAssumption DEF IInv
<1>2. c \in inTime' => charge'[c] \in Money
  BY <1>1 DEF ChargeMoved, ExpiryInv, ChargeInv, Money
<1>3. ASSUME c \notin CashCalls, call'[c] \in Outcomes \cup { "committed" } PROVE charge'[c] # "none"
  <2>1. call[c] \in Outcomes \cup { "committed" } \/ charge[c] # "none"
    <3>1. ASSUME NEW d \in Calls, Paying(d), call'[c] # call[c]
          PROVE  call[c] \in Outcomes \cup { "committed" } \/ charge[c] # "none"
      BY <1>1, <1>3, <3>1
         DEF Paying, StartPayment, ProviderCharges, ProviderAnswers, ProviderRejects, AnswerLost,
             CommitPayment, CallCrash, ConfirmCash, AnswerFor, TypeOK, Outcomes
    <3>2. ASSUME call'[c] # call[c] PROVE \E d \in Calls : Paying(d)
      BY <3>2 DEF Next, vars, World, ChargeSettles, ChargeReversed, DeadlinePasses, PublishResult,
             Hooks, HookRecord, HookApply, HookLost,
             Sweeping, SweepPick, SweepAsk, ExpireApply, ReconcileApply, ReconcileClose, SweepCrash,
             Reading, ReadResult, MarkProcessing, RecordResult, ReaderCrash
    <3> QED
      BY <1>3, <3>1, <3>2
  <2>2. charge[c] # "none"
    BY <1>3, <2>1 DEF ExpiryInv, ChargeInv
  <2> QED
    BY <1>1, <2>2 DEF ChargeMoved
<1>4. ASSUME c \in CashCalls, charge'[c] # "none"
      PROVE  attempt'[c] # "NONE" /\ order'[OrderOf[c]] \in Settled
  <2>1. CASE charge[c] # "none"
    BY <1>1, <1>4, <2>1, CashIsSettled DEF ExpiryInv, ChargeInv, Grows
  <2>2. CASE charge[c] = "none"
    BY <1>1, <1>4, <2>2 DEF ChargeMoved, Grows, Settled
  <2> QED
    BY <2>1, <2>2
<1>5. ASSUME c \in CashCalls, attempt'[c] # "NONE" PROVE order'[OrderOf[c]] # "UNDER_REVIEW"
  <2>1. CASE attempt[c] # "NONE"
    BY <1>5, <2>1, CashIsSettled
  <2>2. CASE attempt[c] = "NONE"
    <3>1. CommitPayment(c) /\ CanStart(OrderOf[c])
      BY <1>5, <2>2, FirstAttempt
    <3> QED
      BY <1>1, <3>1 DEF CommitPayment, PaidState, TypeOK
  <2> QED
    BY <2>1, <2>2
<1> QED
  BY <1>2, <1>3, <1>4, <1>5

LEMMA AnswerStep ==
  ASSUME IInv, ExpiryInv, [Next]_vars
  PROVE  AnswerInv'
<1>0. TypeOK /\ sweep \in [Workers -> SweepJob]
  BY DEF IInv, TypeOK
<1> USE <1>0
\* What was known of a call stays known.
<1>1. ASSUME NEW w \in Workers, sweep'[w] = sweep[w] PROVE Knows(sweep[w])'
  <2>1. CASE sweep[w].task = "idle"
    BY <1>1, <2>1 DEF Knows
  <2>2. CASE sweep[w].task # "idle"
    <3>1. PICK c \in Calls : c = sweep[w].call /\ OrderOf[c] \in Orders /\ attempt[c] # "NONE"
      BY <2>2, BusyJobs, OrdersAssumption DEF IInv, SweepInv
    <3>2. /\ Expirable(c) => Expirable(c)'
          /\ Over(c) => Over(c)'
          /\ due[OrderOf[c]] => due'[OrderOf[c]]
          /\ c \notin named => c \notin named'
      BY <3>1, ExpirableStays, NamedStays, ChargeMoves DEF ExpiryInv
    <3> QED
      BY <1>1, <3>1, <3>2 DEF ExpiryInv, AnswerInv, Knows
  <2> QED
    BY <2>1, <2>2
<1>2. ASSUME NEW w \in Workers, Sweeping(w) PROVE Knows(sweep[w])'
  <2> DEFINE c == sweep[w].call
  <2>1. CASE \E t \in Tasks, d \in Calls : SweepPick(w, t, d)
    <3>1. PICK t \in Tasks, d \in Calls : SweepPick(w, t, d)
      BY <2>1
    <3>2. sweep'[w] = [task |-> t, call |-> d, answer |-> "unasked"] /\ UNCHANGED due
      BY <3>1 DEF SweepPick
    <3>3. t = "expire" => due[OrderOf[d]]
      BY <3>1 DEF SweepPick, Eligible
    <3>4. d \in CashCalls => t = "expire"
      BY <3>1 DEF SweepPick, Eligible, Tasks
    <3> QED
      BY <3>2, <3>3, <3>4 DEF Knows
  <2>2. CASE SweepAsk(w)
    <3> DEFINE t == sweep[w].task
    <3>1. PICK r \in Heard(t, c) :
            /\ sweep' = [sweep EXCEPT ![w].answer = r]
            /\ unread' = IF t = "expire" /\ r = "UNKNOWN" /\ charge[c] = "paid"
                           THEN unread \cup { c } ELSE unread
      BY <2>2 DEF SweepAsk
    <3>2. /\ t # "idle" /\ sweep[w].answer = "unasked"
          /\ UNCHANGED << due, charge, inTime, named >>
      BY <2>2 DEF SweepAsk
    <3>3. sweep'[w].task = t /\ sweep'[w].call = c /\ sweep'[w].answer = r
      BY <3>1, <3>2 DEF SweepJob, NoSweep
    <3>4. c \in Calls /\ (c \in inTime => charge[c] \in Money) /\ attempt[c] # "NONE"
      BY <3>2, BusyJobs DEF ExpiryInv, ChargeInv, IInv, SweepInv
    <3>5. Knows(sweep[w])
      BY DEF ExpiryInv, AnswerInv
    <3>6. CASE c \in CashCalls
      <4>1. t = "expire" /\ NotAsked(c)
        BY <3>2, <3>5, <3>6 DEF Knows, NotAsked
      <4>2. r = "SKIPPED"
        BY <3>1, <3>4, <4>1, HeardIsTrue
      <4> QED
        BY <3>2, <3>3, <3>5, <3>6, <4>1, <4>2 DEF Knows
    <3>7. CASE c \notin CashCalls
      <4>1. /\ r # "CLOSING"
            /\ r = "PENDING" => charge[c] = "pending"
            /\ r = "SKIPPED" => c \notin named
            /\ r = "DECLINED" => Over(c)
        BY <3>1, <3>4, <3>7, HeardIsTrue DEF NotAsked, Over
      <4>2. t = "expire" => due[OrderOf[c]]
        BY <3>2, <3>5 DEF Knows
      <4>3. charge[c] # "none"
        BY <3>4, <3>7 DEF ExpiryInv, ChargeInv, IInv, CallInv
      <4>4. t = "expire" /\ charge[c] = "pending" => Expirable(c)'
        <5>1. ASSUME t = "expire", charge[c] = "pending" PROVE c \notin inTime /\ due[OrderOf[c]]
          BY <3>4, <4>2, <5>1 DEF Money
        <5>2. ASSUME t = "expire", charge[c] = "pending"
              PROVE  charge'[c] = "pending" /\ c \notin inTime' /\ due'[OrderOf[c]]
          BY <3>2, <5>1, <5>2
        <5> QED
          BY <3>3, <3>7, <5>2 DEF Expirable
      <4>5. t = "expire" /\ r = "UNKNOWN" /\ charge[c] # "pending" => Expirable(c)'
        BY <3>1, <3>2, <3>4, <3>7, <4>3 DEF Expirable
      <4>6. r = "DECLINED" => Over(c)'
        <5>1. Over(c) => Over(c)'
          BY <3>2, <3>3 DEF Over
        <5> QED
          BY <4>1, <5>1
      <4> QED
        BY <3>2, <3>3, <3>7, <4>1, <4>2, <4>4, <4>5, <4>6 DEF Knows
    <3> QED
      BY <3>6, <3>7
  <2>3. CASE ExpireApply(w) \/ ReconcileClose(w) \/ SweepCrash(w)
    BY <2>3 DEF ExpireApply, ReconcileClose, SweepCrash, NoSweep, Knows
  <2>4. CASE ReconcileApply(w)
    <3>1. CASE sweep'[w] = NoSweep
      BY <3>1 DEF NoSweep, Knows
    <3>2. CASE sweep'[w] # NoSweep
      <4>1. /\ sweep'[w] = [sweep[w] EXCEPT !.answer = "CLOSING"]
            /\ sweep[w].task = "indeterminate" /\ sweep[w].answer = "DECLINED"
            /\ UNCHANGED << charge, named >>
        BY <2>4, <3>2 DEF ReconcileApply
      <4>2. sweep'[w].task = "indeterminate" /\ sweep'[w].call = c /\ sweep'[w].answer = "CLOSING"
        BY <4>1 DEF SweepJob, NoSweep
      <4>3. Knows(sweep[w])
        BY DEF ExpiryInv, AnswerInv
      <4> QED
        BY <4>1, <4>2, <4>3 DEF Knows, Over
    <3> QED
      BY <3>1, <3>2
  <2> QED
    BY <1>2, <2>1, <2>2, <2>3, <2>4 DEF Sweeping
<1>3. ASSUME NEW w \in Workers, sweep'[w] # sweep[w] PROVE Sweeping(w)
  <2>1. ASSUME NEW v \in Workers, Sweeping(v) PROVE v = w
    BY <1>3, <2>1
       DEF Sweeping, SweepPick, SweepAsk, ExpireApply, ReconcileApply, ReconcileClose, SweepCrash
  <2> QED
    BY <1>3, <2>1
       DEF Next, vars, World, ChargeSettles, ChargeReversed, DeadlinePasses, PublishResult,
           Paying, StartPayment, ProviderCharges, ProviderAnswers, ProviderRejects, AnswerLost,
           CommitPayment, CallCrash, ConfirmCash, Hooks, HookRecord, HookApply, HookLost,
           Reading, ReadResult, MarkProcessing, RecordResult, ReaderCrash
<1> QED
  BY <1>1, <1>2, <1>3 DEF AnswerInv

LEMMA ExpiredStep ==
  ASSUME IInv, ExpiryInv, [Next]_vars
  PROVE  ExpiredInv'
<1> SUFFICES ASSUME NEW c \in Calls, attempt'[c] # "NONE", order'[OrderOf[c]] = "EXPIRED",
                    c \notin CashCalls
             PROVE  Expirable(c)'
  BY DEF ExpiredInv
<1> DEFINE o == OrderOf[c]
<1>1. o \in Orders /\ Moved(o) /\ (attempt[c] # "NONE" /\ Expirable(c) => Expirable(c)')
  BY OrderMoves, OrdersAssumption, ExpirableStays DEF IInv, ExpiryInv
<1>2. CASE order[o] = "EXPIRED"
  <2>1. attempt[c] # "NONE"
    BY <1>1, <1>2, FirstAttempt, OrderTable DEF CanStart, IInv, TypeOK
  <2> QED
    BY <1>1, <1>2, <2>1 DEF ExpiryInv, ExpiredInv
<1>3. CASE order[o] # "EXPIRED"
  <2>1. PICK w \in Workers : Expires(w, o)
    BY <1>1, <1>3 DEF Moved, Reviews, Finishes
  <2> DEFINE d == sweep[w].call
  <2>2. d \in Calls /\ attempt[d] # "NONE" /\ OrderOf[d] = o
    BY <2>1, BusyJobs DEF Expires, IInv, SweepInv
  <2>3. c = d
    BY <2>2, CallStep, GrowsStep DEF OneAttemptPerOrder, Grows
  <2>4. Knows(sweep[w]) /\ sweep[w].task # "idle"
    BY <2>1 DEF Expires, ExpiryInv, AnswerInv
  <2>5. charge[c] # "none"
    BY <2>2, <2>3 DEF ExpiryInv, ChargeInv, IInv, CallInv
  <2>6. Expirable(c)
    BY <2>1, <2>3, <2>4, <2>5 DEF Expires, Knows, Expirable, Over
  <2> QED
    BY <1>1, <2>2, <2>3, <2>6
<1> QED
  BY <1>2, <1>3

LEMMA ExpiryStep == IInv /\ ExpiryInv /\ [Next]_vars => ExpiryInv'
  BY ChargeStep, AnswerStep, ExpiredStep DEF ExpiryInv

LEMMA ExpiryImplies == IInv /\ ExpiryInv => PaidInTimeNeverExpires
<1> SUFFICES ASSUME IInv, ExpiryInv,
                    NEW c \in Calls, c \in (inTime \cap named) \ unread,
                    attempt[c] # "NONE", charge[c] = "paid", order[OrderOf[c]] = "EXPIRED"
             PROVE  FALSE
  BY DEF PaidInTimeNeverExpires, IInv, TypeOK
<1>1. c \notin CashCalls
  BY DEF ExpiryInv, ChargeInv, Settled
<1> QED
  BY <1>1 DEF ExpiryInv, ExpiredInv, Expirable

\* A customer who paid before the deadline under a reference is not expired on
\* an answer that could be read, for any number of worker slots, overlapping
\* payments, lost answers and crashes: expire_order asks only after the deadline,
\* and what it was answered then cannot become "in time".
THEOREM PaidInTimeIsKept == Spec => []PaidInTimeNeverExpires
  BY Invariance, ExpiryInit, ExpiryStep, ExpiryImplies, PTL DEF Spec

-----------------------------------------------------------------------------
(* One worker slot, as Cloud Run starts: what is paid is settled for good.   *)

OneSlot == \A v, w \in Workers : v = w

\* The slot does one thing at a time, an order about to be expired is not in
\* delivery, and what was announced is never reviewed.
SlotInv ==
  /\ \A w \in Workers : sweep[w] = NoSweep \/ reader[w] = NoRead
  /\ \A w \in Workers : sweep[w].task = "expire" =>
       order[OrderOf[sweep[w].call]] \notin { "PROCESSING", "REFUND_PENDING" }
  /\ \A o \in Orders : Has(o, "order.paid") => order[o] \in Settled
  /\ \A o \in Orders : Has(o, "order.refund_required") => order[o] = "REFUND_PENDING"
  /\ AnnouncedOnce

LEMMA SlotInit == Init => SlotInv
  BY DEF Init, SlotInv, NoSweep, NoRead, Has, AnnouncedOnce, Events

\* The slot holds a sweep or a read, never both.
LEMMA SlotIsExclusive ==
  ASSUME IInv, SlotInv, [Next]_vars, NEW w \in Workers
  PROVE  sweep'[w] = NoSweep \/ reader'[w] = NoRead
<1>0. sweep \in [Workers -> SweepJob] /\ reader \in [Workers -> ReadJob]
  BY DEF IInv, TypeOK
<1>1. ASSUME UNCHANGED << sweep, reader >> PROVE sweep'[w] = NoSweep \/ reader'[w] = NoRead
  BY <1>1 DEF SlotInv
<1>2. ASSUME NEW v \in Workers, Sweeping(v) PROVE sweep'[w] = NoSweep \/ reader'[w] = NoRead
  BY <1>0, <1>2
     DEF SlotInv, Sweeping, SweepPick, SweepAsk, ExpireApply, ReconcileApply, ReconcileClose,
         SweepCrash, NoSweep, NoRead
<1>3. ASSUME NEW v \in Workers, Reading(v) PROVE sweep'[w] = NoSweep \/ reader'[w] = NoRead
  <2>1. UNCHANGED sweep /\ \A u \in Workers : u # v => reader'[u] = reader[u]
    BY <1>0, <1>3 DEF Reading, ReadResult, MarkProcessing, RecordResult, ReaderCrash
  <2>2. sweep[v] = NoSweep
    <3>1. reader[v].step # "idle" => sweep[v] = NoSweep
      BY DEF SlotInv, NoRead
    <3>2. CASE \E o \in Orders, k \in Kinds : ReadResult(v, o, k)
      BY <3>2 DEF ReadResult
    <3> QED
      BY <1>3, <3>1, <3>2 DEF Reading, MarkProcessing, RecordResult, ReaderCrash
  <2> QED
    BY <2>1, <2>2 DEF SlotInv
<1> QED
  BY <1>1, <1>2, <1>3
     DEF Next, vars, World, ChargeSettles, ChargeReversed, DeadlinePasses, PublishResult,
         Paying, StartPayment, ProviderCharges, ProviderAnswers, ProviderRejects, AnswerLost,
         CommitPayment, CallCrash, ConfirmCash, Hooks, HookRecord, HookApply, HookLost

\* While the slot is about to expire an order, no reader moves it.
LEMMA SlotKeepsOrder ==
  ASSUME OneSlot, IInv, SlotInv, [Next]_vars, NEW w \in Workers, sweep'[w].task = "expire"
  PROVE  order'[OrderOf[sweep'[w].call]] \notin { "PROCESSING", "REFUND_PENDING" }
<1>0. TypeOK /\ sweep \in [Workers -> SweepJob]
  BY DEF IInv, TypeOK
<1>1. CASE sweep[w].task = "expire" /\ sweep'[w].call = sweep[w].call
  <2>1. PICK o \in Orders : o = OrderOf[sweep[w].call]
    BY <1>0, <1>1, BusyJobs, OrdersAssumption
  <2>2. Moved(o) /\ order[o] \notin { "PROCESSING", "REFUND_PENDING" }
    BY <1>0, <1>1, <2>1, OrderMoves DEF SlotInv
  <2>3. reader[w].step = "idle"
    BY <1>1 DEF SlotInv, NoSweep, NoRead
  <2>4. \A v \in Workers : ~ Finishes(v, o)
    BY <2>3 DEF OneSlot, Finishes
  <2> QED
    BY <1>1, <2>1, <2>2, <2>4 DEF Moved, Reviews, Expires
<1>2. CASE ~ (sweep[w].task = "expire" /\ sweep'[w].call = sweep[w].call)
  <2>1. PICK v \in Workers : Sweeping(v)
    BY <1>2
       DEF Next, vars, World, ChargeSettles, ChargeReversed, DeadlinePasses, PublishResult,
           Paying, StartPayment, ProviderCharges, ProviderAnswers, ProviderRejects, AnswerLost,
           CommitPayment, CallCrash, ConfirmCash, Hooks, HookRecord, HookApply, HookLost,
           Reading, ReadResult, MarkProcessing, RecordResult, ReaderCrash
  <2>2. v = w
    BY DEF OneSlot
  <2>3. PICK c \in Calls : SweepPick(w, "expire", c)
    <3>1. ~ SweepAsk(w)
      BY <1>0, <1>2 DEF SweepAsk, SweepJob, NoSweep
    <3>2. ~ ExpireApply(w) /\ ~ ReconcileClose(w) /\ ~ SweepCrash(w)
      BY <1>0 DEF ExpireApply, ReconcileClose, SweepCrash, NoSweep
    <3>3. ~ ReconcileApply(w)
      BY <1>0, <1>2 DEF ReconcileApply, SweepJob, NoSweep
    <3>4. PICK t \in Tasks, c \in Calls : SweepPick(w, t, c)
      BY <2>1, <2>2, <3>1, <3>2, <3>3 DEF Sweeping
    <3>5. t = "expire"
      BY <1>0, <3>4 DEF SweepPick
    <3> QED
      BY <3>4, <3>5
  <2> QED
    BY <1>0, <2>3 DEF SweepPick, Eligible
<1> QED
  BY <1>1, <1>2

\* What was announced stays settled.
LEMMA SettledStays ==
  ASSUME OneSlot, IInv, SlotInv, [Next]_vars, NEW o \in Orders
  PROVE  /\ order[o] \in Settled => order'[o] \in Settled
         /\ order[o] = "REFUND_PENDING" => order'[o] = "REFUND_PENDING"
<1>1. Moved(o) /\ order[o] \in OrderState
  BY OrderMoves DEF IInv, TypeOK
<1>2. ASSUME NEW w \in Workers, Reviews(w, o) PROVE order[o] \notin Settled
  BY <1>1, <1>2, OrderTable DEF Reviews, SlotInv, Settled
<1>3. ASSUME NEW w \in Workers, Expires(w, o) PROVE order[o] \notin Settled
  BY <1>1, <1>3, OrderTable DEF Expires, Settled
<1> QED
  BY <1>1, <1>2, <1>3 DEF Moved, Finishes, Settled

LEMMA SlotStep == OneSlot /\ IInv /\ SlotInv /\ [Next]_vars => SlotInv'
<1> SUFFICES ASSUME OneSlot, IInv, SlotInv, [Next]_vars PROVE SlotInv'
  OBVIOUS
<1> DEFINE Written(o) ==
             /\ Has(o, "order.paid") => order[o] \in Settled
             /\ Has(o, "order.refund_required") => order[o] = "REFUND_PENDING"
             /\ outbox[o]["order.paid"] <= 1 /\ outbox[o]["order.refund_required"] <= 1
<1>0. TypeOK /\ \A o \in Orders, e \in Events : outbox[o][e] \in Nat
  BY DEF IInv, TypeOK
<1>1. \A o \in Orders : Written(o)
  BY DEF SlotInv, AnnouncedOnce
<1>2. ASSUME NEW o \in Orders, outbox'[o] = outbox[o] PROVE Written(o)'
  BY <1>1, <1>2, SettledStays DEF Has
<1>3. ASSUME NEW o \in Orders PROVE Written(o)'
  <2>1. CASE Quiet
    BY <1>2, <2>1 DEF Quiet
  <2>2. ASSUME NEW c \in Calls, order'[OrderOf[c]] = PaidState(OrderOf[c]),
               Emit(OrderOf[c], PaidEvents(OrderOf[c])), order[OrderOf[c]] \notin AlreadyPaid
        PROVE  Written(o)'
    <3>1. CASE o # OrderOf[c]
      <4>1. outbox'[o] = outbox[o]
        BY <2>2, <3>1 DEF Emit, IInv, TypeOK
      <4> QED
        BY <1>2, <4>1
    <3>2. CASE o = OrderOf[c]
      <4>1. order[o] # "REFUND_PENDING"
        BY <2>2, <3>2, SettledStays DEF PaidState
      <4>2. ~ Has(o, "order.paid") /\ ~ Has(o, "order.refund_required")
        BY <1>1, <2>2, <3>2, <4>1 DEF AlreadyPaid, Settled
      <4>3. /\ outbox'[o]["order.paid"] = outbox[o]["order.paid"] + 1
            /\ outbox'[o]["order.refund_required"] = outbox[o]["order.refund_required"]
        BY <2>2, <3>2 DEF Emit, PaidEvents, Events, IInv, TypeOK
      <4>4. order'[o] \in Settled
        BY <2>2, <3>2 DEF PaidState, Settled
      <4>5. outbox[o]["order.paid"] = 0 /\ outbox[o]["order.refund_required"] = 0
        BY <1>0, <4>2 DEF Has, Events
      <4> QED
        BY <4>3, <4>4, <4>5 DEF Has
    <3> QED
      BY <3>1, <3>2
  <2>3. ASSUME NEW w \in Workers, reader[w].step = "record", RecordResult(w)
        PROVE  Written(o)'
    <3>1. CASE outbox'[o] = outbox[o]
      BY <1>2, <3>1
    <3>2. CASE outbox'[o] # outbox[o]
      <4> DEFINE ok == reader[w].kind = "succeeded"
      <4>1. reader[w].order \in Orders
        BY <1>0, <2>3, BusyJobs
      <4>2. /\ o = reader[w].order
            /\ CanMoveOrder(order[o], IF ok THEN "SUCCESS" ELSE "FAILED")
            /\ order'[o] = IF ok THEN "SUCCESS" ELSE "REFUND_PENDING"
            /\ Emit(o, { IF ok THEN "order.succeeded" ELSE "order.refund_required" })
        BY <1>0, <2>3, <3>2, <4>1 DEF RecordResult, Emit, TypeOK
      <4>3. order[o] # "REFUND_PENDING"
        BY <1>0, <4>2, OrderTable DEF TypeOK
      <4>4. outbox[o]["order.refund_required"] = 0
        BY <1>0, <1>1, <4>3 DEF Has, Events
      <4>5. /\ outbox'[o]["order.paid"] = outbox[o]["order.paid"]
            /\ outbox'[o]["order.refund_required"] = IF ok THEN 0 ELSE 1
        BY <1>0, <4>2, <4>4 DEF Emit, Events, TypeOK
      <4> QED
        BY <1>1, <4>2, <4>5 DEF Has, Settled
    <3> QED
      BY <3>1, <3>2
  <2> QED
    BY <2>1, <2>2, <2>3, EventSources
<1>4. AnnouncedOnce'
  BY <1>3 DEF AnnouncedOnce
<1> QED
  BY <1>3, <1>4, SlotIsExclusive, SlotKeepsOrder DEF SlotInv

LEMMA SlotImplies == IInv /\ SlotInv => AnnouncedOnce /\ ExpiredWasNeverPaid
  BY DEF SlotInv, ExpiredWasNeverPaid, Settled

\* With one worker slot, order.paid and the request for a refund are each written
\* once, whatever the webhooks, the overlapping payments and the crashes.
THEOREM OneSlotAnnouncesOnce == ASSUME OneSlot PROVE Spec => []AnnouncedOnce
<1>1. IInv /\ SlotInv /\ [Next]_vars => SlotInv'
  BY SlotStep
<1> QED
  BY <1>1, Invariance, SlotInit, SlotImplies, PTL DEF Spec

\* With one worker slot, nothing that was announced as paid ever expires: while the
\* slot is about to expire an order, nobody can take it into delivery.
THEOREM OneSlotExpiresUnpaid == ASSUME OneSlot PROVE Spec => []ExpiredWasNeverPaid
<1>1. IInv /\ SlotInv /\ [Next]_vars => SlotInv'
  BY SlotStep
<1> QED
  BY <1>1, Invariance, SlotInit, SlotImplies, PTL DEF Spec
=============================================================================
