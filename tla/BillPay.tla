------------------------------ MODULE BillPay -------------------------------
(* The bill-payment service, the second one that delivers what was paid.  It *)
(* has the same claim as topups, a transition to SENT, but other ways in and *)
(* out: it is driven by the stream of events alone, nothing rescues a paid   *)
(* bill that no event or task is about, and an aggregator pays the biller.   *)
(*                                                                           *)
(* The aggregator is the contract of BillerProvider: the one adapter of the  *)
(* repository, tapi, is never ready, so every execution ends in NotReady     *)
(* until a contract is signed.                                               *)
EXTENDS Naturals, States

CONSTANTS Bills,     \* bill payments, created in PENDING_PAYMENT
          Processes, \* Celery worker slots
          MaxQueue,  \* copies of an event or of a task message told apart
          MaxCrashes, \* how many processes die
          NoOne      \* the bill of an idle process

ASSUME BillPayAssumption ==
  /\ MaxQueue \in Nat \ { 0 }
  /\ MaxCrashes \in Nat
  /\ NoOne \notin Bills

VARIABLES state,   \* state column
          ordered, \* order_id is set: the event about it was read
          paid,    \* what payments answers about the order
          events,  \* order.paid messages the group was not given yet
          queue,   \* execute_payment_task messages waiting
          job,     \* what each process is doing
          biller,  \* what the aggregator did with the payment
          pays,    \* payments requested of the aggregator
          told,    \* fulfillment.result events written, by kind
          lost,    \* bills that a handler or an execution gave up on
          crashes,
          known,   \* bills whose provider_reference is stored
          misled   \* history: bills about which an answer said something else
                   \* than what the aggregator did

vars == << state, ordered, paid, events, queue, job, biller, pays, told, lost, crashes,
           known, misled >>

Waiting  == { "PENDING_PAYMENT", "QUEUED" }
Outcomes == { "SUCCEEDED", "FAILED", "UNDER_REVIEW" }
Kinds    == { "review", "succeeded", "failed" }
KindOf   == [ t \in Outcomes |->
                CASE t = "SUCCEEDED" -> "succeeded" [] t = "FAILED" -> "failed"
                  [] OTHER -> "review" ]

\* seen: the state of the row the task read.  task: the message is acknowledged
\* when the task ends, so a crash delivers it again.
Idle == [ pc |-> "idle", f |-> NoOne, seen |-> "QUEUED", task |-> FALSE,
          target |-> "UNDER_REVIEW" ]
Job == { Idle } \cup
  [ pc     : { "enqueue", "check", "queue", "mark", "send", "wait", "query",
               "close", "publish" },
    f      : Bills,
    seen   : Waiting,
    task   : BOOLEAN,
    target : Outcomes ]

TypeOK ==
  /\ state   \in [Bills -> FulfillmentState]
  /\ ordered \in [Bills -> BOOLEAN]
  /\ paid    \in [Bills -> { "no", "yes", "withdrawn" }]
  /\ events  \in [Bills -> 0 .. MaxQueue]
  /\ queue   \in [Bills -> 0 .. MaxQueue]
  /\ job     \in [Processes -> Job]
  /\ biller  \in [Bills -> { "none", "accepted", "delivered", "rejected" }]
  /\ pays    \in [Bills -> Nat]
  /\ told    \in [Bills -> [Kinds -> Nat]]
  /\ lost    \subseteq Bills
  /\ crashes \in 0 .. MaxCrashes
  /\ known   \subseteq Bills
  /\ misled  \subseteq Bills

\* create_fulfillment leaves the row like this, with no order.
Init ==
  /\ state   = [b \in Bills |-> "PENDING_PAYMENT"]
  /\ ordered = [b \in Bills |-> FALSE]
  /\ paid    = [b \in Bills |-> "no"]
  /\ events  = [b \in Bills |-> 0]
  /\ queue   = [b \in Bills |-> 0]
  /\ job     = [p \in Processes |-> Idle]
  /\ biller  = [b \in Bills |-> "none"]
  /\ pays    = [b \in Bills |-> 0]
  /\ told    = [b \in Bills |-> [k \in Kinds |-> 0]]
  /\ lost    = {}
  /\ crashes = 0
  /\ known   = {}
  /\ misled  = {}

Goto(p, pc)     == job' = [job EXCEPT ![p].pc = pc]
Leave(p)        == job' = [job EXCEPT ![p] = Idle]
Begin(p, pc, b) == job' = [job EXCEPT ![p] = [Idle EXCEPT !.pc = pc, !.f = b]]
Conclude(p, t)  == job' = [job EXCEPT ![p].pc = "close", ![p].target = t]
Capped(n)       == IF n < MaxQueue THEN n + 1 ELSE n
Put(b)          == queue' = [queue EXCEPT ![b] = Capped(@)]
GiveUp(b)       == lost' = lost \cup { b }

\* BillPaymentFulfillment.transition: it locks the row, reads it again and
\* asks the table.  IllegalTransition is no ProviderError: the job ends there.
Transition(p, t, pc) ==
  LET b == job[p].f IN
  \/ /\ CanMoveFulfillment(state[b], t)
     /\ state' = [state EXCEPT ![b] = t]
     /\ Goto(p, pc)
  \/ /\ ~ CanMoveFulfillment(state[b], t)
     /\ state' = state
     /\ Leave(p)

-----------------------------------------------------------------------------
(* The orders of these bills, seen from here.                                *)

\* The order becomes PAID, and its event is committed with that.
OrderPaid(b) ==
  /\ paid[b] # "yes"
  /\ paid' = [paid EXCEPT ![b] = "yes"]
  /\ events' = [events EXCEPT ![b] = Capped(@)]
  /\ UNCHANGED << state, ordered, queue, job, biller, pays, told, lost,
                  crashes, known, misled >>

\* The outbox publishes at least once: the same event comes again.
EventAgain(b) ==
  /\ paid[b] # "no"
  /\ events[b] < MaxQueue
  /\ events' = [events EXCEPT ![b] = @ + 1]
  /\ UNCHANGED << state, ordered, paid, queue, job, biller, pays, told, lost,
                  crashes, known, misled >>

OrderWithdrawn(b) ==
  /\ paid[b] = "yes"
  /\ paid' = [paid EXCEPT ![b] = "withdrawn"]
  /\ UNCHANGED << state, ordered, events, queue, job, biller, pays, told, lost,
                  crashes, known, misled >>

-----------------------------------------------------------------------------
(* consume_payment_events.                                                   *)

\* _handle_order_paid of a bill that waits, up to the task it enqueues.
HandleOrderPaid(p, b) ==
  /\ job[p] = Idle
  /\ events[b] > 0
  /\ events' = [events EXCEPT ![b] = @ - 1]
  /\ IF state[b] \in Waiting
       THEN ordered' = [ordered EXCEPT ![b] = TRUE] /\ Begin(p, "enqueue", b)
       ELSE UNCHANGED << ordered, job >>
  /\ UNCHANGED << state, paid, queue, biller, pays, told, lost, crashes, known,
                  misled >>

Enqueue(p) ==
  /\ job[p].pc = "enqueue"
  /\ Put(job[p].f)
  /\ Leave(p)
  /\ UNCHANGED << state, ordered, paid, events, biller, pays, told, lost,
                  crashes, known, misled >>

\* The handler raises: the message is left without XACK, and a group that only
\* reads ">" is never given it again.
EnqueueFails(p) ==
  /\ job[p].pc = "enqueue"
  /\ GiveUp(job[p].f)
  /\ Leave(p)
  /\ UNCHANGED << state, ordered, paid, events, queue, biller, pays, told,
                  crashes, known, misled >>

\* The same, before the handler wrote: it failed, or the pass that had read the
\* message with a batch of others died on its way to it.
HandlerFails(b) ==
  /\ events[b] > 0
  /\ events' = [events EXCEPT ![b] = @ - 1]
  /\ GiveUp(b)
  /\ UNCHANGED << state, ordered, paid, queue, job, biller, pays, told,
                  crashes, known, misled >>

-----------------------------------------------------------------------------
(* execute_payment_task and execute_payment.                                 *)

\* Mutant: a bill that an execution left QUEUED is taken for executed.
Mutant_NotQueued(b) == state[b] = "PENDING_PAYMENT" /\ ordered[b]
\* The guards of execute_payment.
Executable(b) == state[b] \in Waiting /\ ordered[b]

RunTask(p, b) ==
  /\ job[p] = Idle
  /\ queue[b] > 0
  /\ queue' = [queue EXCEPT ![b] = @ - 1]
  /\ job' = IF Executable(b)
              THEN [job EXCEPT ![p] = [Idle EXCEPT !.pc = "check", !.f = b,
                                                   !.task = TRUE, !.seen = state[b]]]
              ELSE job
  /\ UNCHANGED << state, ordered, paid, events, biller, pays, told, lost,
                  crashes, known, misled >>

\* _order_is_paid answers yes.
OrderIsPaid(b) == paid[b] = "yes"

CheckPaid(p) ==
  /\ job[p].pc = "check"
  /\ OrderIsPaid(job[p].f)
  /\ Goto(p, IF job[p].seen = "PENDING_PAYMENT" THEN "queue" ELSE "mark")
  /\ UNCHANGED << state, ordered, paid, events, queue, biller, pays, told,
                  lost, crashes, known, misled >>

\* Not paid, or payments did not answer: False in both cases, an error that is
\* not retried, and the task ends well.
CheckFails(p) ==
  /\ job[p].pc = "check"
  /\ GiveUp(job[p].f)
  /\ Leave(p)
  /\ UNCHANGED << state, ordered, paid, events, queue, biller, pays, told,
                  crashes, known, misled >>

QueueIt(p) ==
  /\ job[p].pc = "queue"
  /\ Transition(p, "QUEUED", "mark")
  /\ UNCHANGED << ordered, paid, events, queue, biller, pays, told, lost,
                  crashes, known, misled >>

\* ensure_ready raises a transient error: retried, three times at most.
RetryLater(p) ==
  /\ job[p].pc = "mark"
  /\ Put(job[p].f)
  /\ Leave(p)
  /\ UNCHANGED << state, ordered, paid, events, biller, pays, told, lost,
                  crashes, known, misled >>

\* The last transient error, or an adapter that is not configured or belongs to
\* another environment: the task ends well and the bill stays QUEUED.
NotReady(p) ==
  /\ job[p].pc = "mark"
  /\ GiveUp(job[p].f)
  /\ Leave(p)
  /\ UNCHANGED << state, ordered, paid, events, queue, biller, pays, told,
                  crashes, known, misled >>

\* Mutant: the payment is requested before the bill is claimed.
Mutant_PayFirst(p) ==
  /\ job[p].pc = "mark"
  /\ Goto(p, "send")
  /\ UNCHANGED << state, ordered, paid, events, queue, biller, pays, told,
                  lost, crashes, known, misled >>
\* The claim: one execution of a bill gets past this step.
MarkSent(p) ==
  /\ job[p].pc = "mark"
  /\ Transition(p, "SENT", "send")
  /\ UNCHANGED << ordered, paid, events, queue, biller, pays, told, lost,
                  crashes, known, misled >>

\* provider.pay: the request may never reach the aggregator.
Pay(p) ==
  LET b == job[p].f IN
  /\ job[p].pc = "send"
  /\ pays' = [pays EXCEPT ![b] = @ + 1]
  /\ \E s \in { biller[b], "accepted", "delivered", "rejected" } :
       biller' = [biller EXCEPT ![b] = s]
  /\ Goto(p, "wait")
  /\ UNCHANGED << state, ordered, paid, events, queue, told, lost, crashes,
                  known, misled >>

\* BillPaymentStatus SUCCEEDED or FAILED; ProviderPermanentError is FAILED.
Verdict(b) == CASE biller[b] = "delivered" -> { "SUCCEEDED" }
                [] biller[b] = "rejected"  -> { "FAILED" }
                [] OTHER                   -> {}

\* The provider_reference of a result is stored; a result may bring none.
Stored(b) == known' \in { known, known \cup { b } }

\* PENDING or UNKNOWN: the bill stays SENT, for the reconciliation.
AnswerPending(p) ==
  /\ job[p].pc = "wait"
  /\ Stored(job[p].f)
  /\ Leave(p)
  /\ UNCHANGED << state, ordered, paid, events, queue, biller, pays, told,
                  lost, crashes, misled >>

\* A ProviderPermanentError brings no result, and so no reference.
AnswerFinal(p) ==
  /\ job[p].pc = "wait"
  /\ \E t \in Verdict(job[p].f) : Conclude(p, t)
  /\ Stored(job[p].f)
  /\ UNCHANGED << state, ordered, paid, events, queue, biller, pays, told,
                  lost, crashes, misled >>

\* ProviderIndeterminateError.
AnswerLost(p) ==
  /\ job[p].pc = "wait"
  /\ Conclude(p, "UNDER_REVIEW")
  /\ UNCHANGED << state, ordered, paid, events, queue, biller, pays, told,
                  lost, crashes, known, misled >>

\* ProviderTransientError, closed like a rejection.  An adapter may raise it
\* after the payment left, and then it says nothing about the payment.
AnswerTransient(p) ==
  /\ job[p].pc = "wait"
  /\ Conclude(p, "FAILED")
  /\ misled' = IF biller[job[p].f] \in { "accepted", "delivered" }
                 THEN misled \cup { job[p].f } ELSE misled
  /\ UNCHANGED << state, ordered, paid, events, queue, biller, pays, told,
                  lost, crashes, known >>

BillerFinishes(b) ==
  /\ biller[b] = "accepted"
  /\ \E s \in { "delivered", "rejected" } : biller' = [biller EXCEPT ![b] = s]
  /\ UNCHANGED << state, ordered, paid, events, queue, job, pays, told, lost,
                  crashes, known, misled >>

-----------------------------------------------------------------------------
(* reconcile_pending_payments.                                               *)

\* Mutant: only the bills in review are asked about.
Mutant_ReviewOnly(b) == state[b] = "UNDER_REVIEW"
Reviewable(b) == state[b] \in { "UNDER_REVIEW", "SENT" }

SelectPending(p, b) ==
  /\ job[p] = Idle
  /\ Reviewable(b)
  /\ Begin(p, "query", b)
  /\ UNCHANGED << state, ordered, paid, events, queue, biller, pays, told,
                  lost, crashes, known, misled >>

\* get_payment_status by the aggregator's reference, or by the key of the bill
\* when there is none and the aggregator finds it.  A success stores the
\* reference before its transition.
QueryAnswers(p) ==
  LET b == job[p].f IN
  /\ job[p].pc = "query"
  /\ \E t \in Verdict(b) : Conclude(p, t)
  /\ IF "SUCCEEDED" \in Verdict(b) THEN Stored(b) ELSE known' = known
  /\ UNCHANGED << state, ordered, paid, events, queue, biller, pays, told,
                  lost, crashes, misled >>

\* By the key, which is no reference of the aggregator: a payment it does not
\* find under it reads as one that failed.
QueryByKeyFails(p) ==
  LET b == job[p].f IN
  /\ job[p].pc = "query"
  /\ b \notin known
  /\ Conclude(p, "FAILED")
  /\ misled' = IF "FAILED" \in Verdict(b) THEN misled ELSE misled \cup { b }
  /\ UNCHANGED << state, ordered, paid, events, queue, biller, pays, told, lost,
                  crashes, known >>

\* PENDING, UNKNOWN or a ProviderError: the next pass asks again.
QueryUnknown(p) ==
  /\ job[p].pc = "query"
  /\ Leave(p)
  /\ UNCHANGED << state, ordered, paid, events, queue, biller, pays, told,
                  lost, crashes, known, misled >>

-----------------------------------------------------------------------------
(* The end of both: the transition, and the event in a write of its own.     *)

Close(p) ==
  /\ job[p].pc = "close"
  /\ Transition(p, job[p].target, "publish")
  /\ UNCHANGED << ordered, paid, events, queue, biller, pays, told, lost,
                  crashes, known, misled >>

\* _publish_result and _notify.
Publish(p) ==
  /\ job[p].pc = "publish"
  /\ told' = [told EXCEPT ![job[p].f][KindOf[job[p].target]] = @ + 1]
  /\ Leave(p)
  /\ UNCHANGED << state, ordered, paid, events, queue, biller, pays, lost,
                  crashes, known, misled >>

\* Mutant: a task message is acknowledged when the task begins.
Mutant_AcksEarly(p) == queue' = queue /\ lost' = lost
\* What is left of the message of a process that dies: the task comes again,
\* the event of the consumer does not.
AfterCrash(p) ==
  /\ IF job[p].task THEN Put(job[p].f) ELSE queue' = queue
  /\ IF job[p].pc = "enqueue" THEN GiveUp(job[p].f) ELSE lost' = lost

Crash(p) ==
  /\ crashes < MaxCrashes
  /\ crashes' = crashes + 1
  /\ job[p] # Idle
  /\ AfterCrash(p)
  /\ Leave(p)
  /\ UNCHANGED << state, ordered, paid, events, biller, pays, told, known,
                  misled >>

-----------------------------------------------------------------------------
Outside(b)   == \/ OrderPaid(b) \/ EventAgain(b) \/ OrderWithdrawn(b)
                \/ HandlerFails(b) \/ BillerFinishes(b)
Taking(p, b) == HandleOrderPaid(p, b) \/ RunTask(p, b) \/ SelectPending(p, b)
Executing(p) == \/ Enqueue(p) \/ EnqueueFails(p) \/ CheckPaid(p) \/ CheckFails(p)
                \/ QueueIt(p) \/ RetryLater(p) \/ NotReady(p) \/ MarkSent(p) \/ Pay(p)
                \/ AnswerPending(p) \/ AnswerFinal(p) \/ AnswerLost(p) \/ AnswerTransient(p)
Reviewing(p) == QueryAnswers(p) \/ QueryByKeyFails(p) \/ QueryUnknown(p)
Ending(p)    == Close(p) \/ Publish(p) \/ Crash(p)

Next == \/ \E b \in Bills : Outside(b)
        \/ \E p \in Processes, b \in Bills : Taking(p, b)
        \/ \E p \in Processes : Executing(p) \/ Reviewing(p) \/ Ending(p)

Spec == Init /\ [][Next]_vars

-----------------------------------------------------------------------------
(* Properties.                                                               *)

\* Every behaviour of this service is one that module Topups allows, with an
\* empty rescue and no view: what is proved there about one request, about the
\* payment before it and about what payments is told holds here.
Topup == INSTANCE Topups WITH
  Fulfillments <- Bills, linked <- ordered, provider <- biller, sends <- pays,
  Hazards <- { "crash", "transient", "misleading" }
DeliversLikeTopups == Topup!Spec

\* The reconciliation "asks the provider for the REAL state": a bill that the
\* aggregator paid is not concluded to have failed by what it is told.
ReviewFindsTheTruth ==
  [][\A p \in Processes :
       (/\ job[p].pc = "query" /\ job'[p].pc = "close"
        /\ biller[job[p].f] = "delivered") => job'[p].target = "SUCCEEDED"]_vars

\* "Perder un order.paid significa un cliente que pago y no recibio nada": a
\* bill whose order was paid and that nobody executed has an event or a task
\* that somebody will read, or an execution gave up on it.
NobodyForgets ==
  \A b \in Bills :
    paid[b] # "no" /\ state[b] \in Waiting =>
      \/ events[b] > 0 \/ queue[b] > 0 \/ b \in lost
      \/ \E p \in Processes : job[p].f = b /\ job[p].pc \in { "enqueue", "check", "queue", "mark" }

-----------------------------------------------------------------------------
(* Liveness.  Beat runs the consumer and the reconciliation again and again, *)
(* workers take their tasks, and a job that began goes on.  A retry is not   *)
(* for ever, and the aggregator answers a query now and then.                *)
Fairness ==
  /\ \A p \in Processes :
       /\ WF_vars(Executing(p) \/ Reviewing(p) \/ Close(p) \/ Publish(p))
       /\ SF_vars(MarkSent(p) \/ NotReady(p))
       /\ SF_vars(QueryAnswers(p) \/ QueryByKeyFails(p))
  /\ \A b \in Bills :
       /\ SF_vars(\E p \in Processes : HandleOrderPaid(p, b))
       /\ SF_vars(\E p \in Processes : RunTask(p, b))
       /\ SF_vars(\E p \in Processes : SelectPending(p, b))

FairSpec == Spec /\ Fairness

\* A bill that was paid is executed, or an execution gave up on it, or its
\* payment is withdrawn: no event is left unread for ever.
PaidIsTaken ==
  \A b \in Bills :
    (paid[b] = "yes") ~> (state[b] \notin Waiting \/ b \in lost)

\* What the aggregator did with a bill ends its review, whatever the process
\* that had claimed it did.
ReviewEnds ==
  \A b \in Bills :
    (biller[b] \in { "delivered", "rejected" }) ~> (state[b] \in { "SUCCEEDED", "FAILED" })
=============================================================================
