------------------------------- MODULE Topups -------------------------------
(* The topups service: a fulfillment waits for its order to be paid, is      *)
(* claimed with a transition to SENT, requested of the operator, and closed  *)
(* with what the operator answered or with what the reconciliation found.    *)
(*                                                                           *)
(* execute_topup runs in no transaction of its own: each transition and each *)
(* outbox row commits by itself, so every one of them is a step, and what    *)
(* the execution read before is kept in its job.  A process runs one job:    *)
(* a Celery task (execute_topup_task, the consumer, the two sweeps) or the   *)
(* view that executes a topup at once.                                       *)
EXTENDS Naturals, States

CONSTANTS Fulfillments, \* topups, created in PENDING_PAYMENT
          Processes,    \* Celery worker slots and threads of the web server
          MaxQueue,     \* copies of a task message that are told apart
          Hazards,      \* which of "crash", "transient" and "misleading" may happen
          NoOne         \* the fulfillment of an idle process

ASSUME TopupsAssumption ==
  /\ MaxQueue \in Nat \ { 0 }
  /\ Hazards \subseteq { "crash", "transient", "misleading" }
  /\ NoOne \notin Fulfillments

VARIABLES state,    \* state column
          linked,   \* order_id is set
          paid,     \* what payments answers about the order
          queue,    \* execute_topup_task messages waiting
          job,      \* what each process is doing
          provider, \* what the operator did with the request
          sends,    \* requests sent to the operator
          told,     \* fulfillment.result events written, by kind
          misled    \* history: topups about which an answer said something else
                    \* than what the operator did

vars == << state, linked, paid, queue, job, provider, sends, told, misled >>

Waiting == { "PENDING_PAYMENT", "QUEUED" }
Kinds   == { "review", "succeeded", "failed" }
KindOf  == [ t \in { "SUCCEEDED", "FAILED", "UNDER_REVIEW" } |->
               CASE t = "SUCCEEDED" -> "succeeded" [] t = "FAILED" -> "failed"
                 [] OTHER -> "review" ]

\* seen: the state the job read when it began.  task: a crash redelivers the
\* message.  target: the transition the job is about to ask for.
Idle == [ pc |-> "idle", f |-> NoOne, seen |-> "QUEUED", task |-> FALSE,
          target |-> "UNDER_REVIEW" ]
Job == { Idle } \cup
  [ pc     : { "enqueue", "check", "queue", "mark", "send", "wait", "query",
               "close", "publish" },
    f      : Fulfillments,
    seen   : Waiting,
    task   : BOOLEAN,
    target : { "SUCCEEDED", "FAILED", "UNDER_REVIEW" } ]

TypeOK ==
  /\ state    \in [Fulfillments -> FulfillmentState]
  /\ linked   \in [Fulfillments -> BOOLEAN]
  /\ paid     \in [Fulfillments -> { "no", "yes", "withdrawn" }]
  /\ queue    \in [Fulfillments -> 0 .. MaxQueue]
  /\ job      \in [Processes -> Job]
  /\ provider \in [Fulfillments -> { "none", "accepted", "delivered", "rejected" }]
  /\ sends    \in [Fulfillments -> Nat]
  /\ told     \in [Fulfillments -> [Kinds -> Nat]]
  /\ misled   \subseteq Fulfillments

Init ==
  /\ state    = [f \in Fulfillments |-> "PENDING_PAYMENT"]
  /\ linked   = [f \in Fulfillments |-> FALSE]
  /\ paid     = [f \in Fulfillments |-> "no"]
  /\ queue    = [f \in Fulfillments |-> 0]
  /\ job      = [p \in Processes |-> Idle]
  /\ provider = [f \in Fulfillments |-> "none"]
  /\ sends    = [f \in Fulfillments |-> 0]
  /\ told     = [f \in Fulfillments |-> [k \in Kinds |-> 0]]
  /\ misled   = {}

Goto(p, pc)  == job' = [job EXCEPT ![p].pc = pc]
Leave(p)     == job' = [job EXCEPT ![p] = Idle]
Begin(p, pc, f) == job' = [job EXCEPT ![p] = [Idle EXCEPT !.pc = pc, !.f = f]]
Execute(p, f, task) ==
  job' = [job EXCEPT ![p] = [Idle EXCEPT !.pc = "check", !.f = f, !.task = task,
                                         !.seen = state[f]]]

\* delay: further copies of a message that is already waiting change nothing.
Put(f) == queue' = [queue EXCEPT ![f] = IF @ < MaxQueue THEN @ + 1 ELSE @]

\* Mutant: the target is written without assert_transition.
Mutant_NoAssert(p, t, pc) ==
  /\ state' = [state EXCEPT ![job[p].f] = t]
  /\ Goto(p, pc)
\* Mutant: IllegalTransition is caught, and the job goes on.
Mutant_Swallowed(p, t, pc) ==
  LET f == job[p].f IN
  /\ state' = IF CanMoveFulfillment(state[f], t) THEN [state EXCEPT ![f] = t] ELSE state
  /\ Goto(p, pc)

\* fulfillment.transition(t), which locks the row and reads it again.  When it
\* is legal the job goes on at pc; IllegalTransition is no ProviderError, so
\* otherwise the job ends there.
Transition(p, t, pc) ==
  LET f == job[p].f IN
  \/ /\ CanMoveFulfillment(state[f], t)
     /\ state' = [state EXCEPT ![f] = t]
     /\ Goto(p, pc)
  \/ /\ ~ CanMoveFulfillment(state[f], t)
     /\ state' = state
     /\ Leave(p)

-----------------------------------------------------------------------------
(* The orders of these topups, seen from here.                               *)

\* is_paid turns true, and false again when the order goes to review.
OrderPaid(f) ==
  /\ paid[f] # "yes"
  /\ paid' = [paid EXCEPT ![f] = "yes"]
  /\ UNCHANGED << state, linked, queue, job, provider, sends, told, misled >>

OrderWithdrawn(f) ==
  /\ paid[f] = "yes"
  /\ paid' = [paid EXCEPT ![f] = "withdrawn"]
  /\ UNCHANGED << state, linked, queue, job, provider, sends, told, misled >>

\* link_order: once, never to another order.
LinkOrder(f) ==
  /\ ~ linked[f]
  /\ linked' = [linked EXCEPT ![f] = TRUE]
  /\ UNCHANGED << state, paid, queue, job, provider, sends, told, misled >>

-----------------------------------------------------------------------------
(* How an execution is asked for.                                            *)

\* _handle_order_paid, up to the task it enqueues: the event may come twice,
\* late or never.
HandleOrderPaid(p, f) ==
  /\ job[p] = Idle
  /\ paid[f] # "no"
  /\ state[f] \in Waiting
  /\ linked' = [linked EXCEPT ![f] = TRUE]
  /\ Begin(p, "enqueue", f)
  /\ UNCHANGED << state, paid, queue, provider, sends, told, misled >>

\* Mutant: the rescue looks only for topups that were never queued.
Mutant_NeverQueued(f) == state[f] = "PENDING_PAYMENT" /\ linked[f]
\* What the rescue selects.
Recoverable(f) == state[f] \in Waiting /\ linked[f]

\* recover_paid_without_execution: it trusts no event and asks nobody.
Recover(p, f) ==
  /\ job[p] = Idle
  /\ Recoverable(f)
  /\ Begin(p, "enqueue", f)
  /\ UNCHANGED << state, linked, paid, queue, provider, sends, told, misled >>

Enqueue(p) ==
  /\ job[p].pc = "enqueue"
  /\ Put(job[p].f)
  /\ Leave(p)
  /\ UNCHANGED << state, linked, paid, provider, sends, told, misled >>

\* execute_topup_task reads the row and calls execute_topup, which leaves at
\* once when the topup is not waiting or has no order.
RunTask(p, f) ==
  /\ job[p] = Idle
  /\ queue[f] > 0
  /\ queue' = [queue EXCEPT ![f] = @ - 1]
  /\ IF state[f] \in Waiting /\ linked[f] THEN Execute(p, f, TRUE) ELSE job' = job
  /\ UNCHANGED << state, linked, paid, provider, sends, told, misled >>

\* ejecutar_recarga: the same inside a request, with no message behind it.
RunView(p, f) ==
  /\ job[p] = Idle
  /\ state[f] \in Waiting /\ linked[f]
  /\ Execute(p, f, FALSE)
  /\ UNCHANGED << state, linked, paid, queue, provider, sends, told, misled >>

-----------------------------------------------------------------------------
(* execute_topup.                                                            *)

\* Mutant: the event that asked for the execution is believed.
Mutant_TrustEvent(f) == TRUE
\* _order_is_paid answers yes.
OrderIsPaid(f) == paid[f] = "yes"

CheckPaid(p) ==
  /\ job[p].pc = "check"
  /\ OrderIsPaid(job[p].f)
  /\ Goto(p, IF job[p].seen = "PENDING_PAYMENT" THEN "queue" ELSE "mark")
  /\ UNCHANGED << state, linked, paid, queue, provider, sends, told, misled >>

\* Not paid, or payments did not answer: False in both cases, and the job ends.
CheckFails(p) ==
  /\ job[p].pc = "check"
  /\ Leave(p)
  /\ UNCHANGED << state, linked, paid, queue, provider, sends, told, misled >>

QueueIt(p) ==
  /\ job[p].pc = "queue"
  /\ Transition(p, "QUEUED", "mark")
  /\ UNCHANGED << linked, paid, queue, provider, sends, told, misled >>

\* ensure_ready raises.  The task is retried when the error is transient.
NotReady(p) ==
  /\ job[p].pc = "mark"
  /\ \/ job[p].task /\ Put(job[p].f)
     \/ queue' = queue
  /\ Leave(p)
  /\ UNCHANGED << state, linked, paid, provider, sends, told, misled >>

\* The claim: of all the executions of a topup, one gets past this step.
MarkSent(p) ==
  /\ job[p].pc = "mark"
  /\ Transition(p, "SENT", "send")
  /\ UNCHANGED << linked, paid, queue, provider, sends, told, misled >>

\* send_topup.  The request may never reach the operator.
Send(p) ==
  LET f == job[p].f IN
  /\ job[p].pc = "send"
  /\ sends' = [sends EXCEPT ![f] = @ + 1]
  /\ \E s \in { provider[f], "accepted", "delivered", "rejected" } :
       provider' = [provider EXCEPT ![f] = s]
  /\ Goto(p, "wait")
  /\ UNCHANGED << state, linked, paid, queue, told, misled >>

Conclude(p, t) == job' = [job EXCEPT ![p].pc = "close", ![p].target = t]

\* The operator answers PENDING, or a status nobody knows: the topup stays SENT.
AnswerPending(p) ==
  /\ job[p].pc = "wait"
  /\ Leave(p)
  /\ UNCHANGED << state, linked, paid, queue, provider, sends, told, misled >>

\* SUCCEEDED, or FAILED, or ProviderPermanentError.
AnswerFinal(p) ==
  /\ job[p].pc = "wait"
  /\ \/ provider[job[p].f] = "delivered" /\ Conclude(p, "SUCCEEDED")
     \/ provider[job[p].f] = "rejected"  /\ Conclude(p, "FAILED")
  /\ UNCHANGED << state, linked, paid, queue, provider, sends, told, misled >>

\* A read timeout: ProviderIndeterminateError.
AnswerLost(p) ==
  /\ job[p].pc = "wait"
  /\ Conclude(p, "UNDER_REVIEW")
  /\ UNCHANGED << state, linked, paid, queue, provider, sends, told, misled >>

\* ProviderTransientError, handled like a rejection.  The connection may have
\* failed before the request left; a 5xx, a 401 or a broken connection after it
\* left says nothing about the request ("transient" in Hazards).  The retry that
\* follows finds the topup FAILED and leaves.
AnswerTransient(p) ==
  LET f == job[p].f IN
  /\ job[p].pc = "wait"
  /\ provider[f] = "none" \/ "transient" \in Hazards
  /\ Conclude(p, "FAILED")
  /\ misled' = IF provider[f] \in { "accepted", "delivered" } THEN misled \cup { f } ELSE misled
  /\ UNCHANGED << state, linked, paid, queue, provider, sends, told >>

\* The operator ends what it had accepted.
ProviderFinishes(f) ==
  /\ provider[f] = "accepted"
  /\ \E s \in { "delivered", "rejected" } : provider' = [provider EXCEPT ![f] = s]
  /\ UNCHANGED << state, linked, paid, queue, job, sends, told, misled >>

-----------------------------------------------------------------------------
(* reconcile_pending_topups: it selects, asks, and closes.                   *)

\* Mutant: only the topups in review are asked about.
Mutant_ReviewOnly(f) == state[f] = "UNDER_REVIEW"
Reviewable(f) == state[f] \in { "SENT", "UNDER_REVIEW" }

SelectPending(p, f) ==
  /\ job[p] = Idle
  /\ Reviewable(f)
  /\ Begin(p, "query", f)
  /\ UNCHANGED << state, linked, paid, queue, provider, sends, told, misled >>

\* Mutant: what the operator cannot find is taken for a failure.
Mutant_AbsentIsFailed(f) == IF provider[f] = "delivered" THEN { "SUCCEEDED" } ELSE { "FAILED" }
\* _consultar_estado: the outcome the operator gives, or nothing.
Evidence(f) == CASE provider[f] = "delivered" -> { "SUCCEEDED" }
                 [] provider[f] = "rejected"  -> { "FAILED" }
                 [] OTHER                     -> {}

QueryAnswers(p) ==
  /\ job[p].pc = "query"
  /\ \E t \in Evidence(job[p].f) : Conclude(p, t)
  /\ UNCHANGED << state, linked, paid, queue, provider, sends, told, misled >>

\* The operator is asked by something that does not name this request, and what
\* it answers is of another one: the record of a sale that looks the same, or
\* the absence of a key it never knew ("misleading" in Hazards).
QueryMisleads(p) ==
  LET f == job[p].f IN
  /\ job[p].pc = "query"
  /\ "misleading" \in Hazards
  /\ \E t \in { "SUCCEEDED", "FAILED" } \ Evidence(f) : Conclude(p, t)
  /\ misled' = misled \cup { f }
  /\ UNCHANGED << state, linked, paid, queue, provider, sends, told >>

\* Still in progress, not found, or the operator did not answer.
QueryUnknown(p) ==
  /\ job[p].pc = "query"
  /\ Leave(p)
  /\ UNCHANGED << state, linked, paid, queue, provider, sends, told, misled >>

-----------------------------------------------------------------------------
(* The end of both: the transition, and then the event in a write of its own.*)

Close(p) ==
  /\ job[p].pc = "close"
  /\ Transition(p, job[p].target, "publish")
  /\ UNCHANGED << linked, paid, queue, provider, sends, told, misled >>

\* _publish_result and _notify.
Publish(p) ==
  /\ job[p].pc = "publish"
  /\ told' = [told EXCEPT ![job[p].f][KindOf[job[p].target]] = @ + 1]
  /\ Leave(p)
  /\ UNCHANGED << state, linked, paid, queue, provider, sends, misled >>

\* The process dies; acks_late redelivers its task.
Crash(p) ==
  /\ "crash" \in Hazards
  /\ job[p] # Idle
  /\ IF job[p].task THEN Put(job[p].f) ELSE queue' = queue
  /\ Leave(p)
  /\ UNCHANGED << state, linked, paid, provider, sends, told, misled >>

-----------------------------------------------------------------------------
Payments(f)   == OrderPaid(f) \/ OrderWithdrawn(f) \/ LinkOrder(f)
Asking(p, f)  == HandleOrderPaid(p, f) \/ Recover(p, f) \/ RunTask(p, f) \/ RunView(p, f)
Executing(p)  == \/ Enqueue(p) \/ CheckPaid(p) \/ CheckFails(p) \/ QueueIt(p)
                 \/ NotReady(p) \/ MarkSent(p) \/ Send(p)
                 \/ AnswerPending(p) \/ AnswerFinal(p) \/ AnswerLost(p) \/ AnswerTransient(p)
Reviewing(p)  == QueryAnswers(p) \/ QueryMisleads(p) \/ QueryUnknown(p)
Ending(p)     == Close(p) \/ Publish(p) \/ Crash(p)

Next == \/ \E f \in Fulfillments : Payments(f) \/ ProviderFinishes(f)
        \/ \E p \in Processes, f \in Fulfillments : Asking(p, f) \/ SelectPending(p, f)
        \/ \E p \in Processes : Executing(p) \/ Reviewing(p) \/ Ending(p)

Spec == Init /\ [][Next]_vars

-----------------------------------------------------------------------------
(* Properties.                                                               *)

\* A topup is requested of the operator once, however many events, retries,
\* rescues and clicks ask for it, and whatever dies in between: the request
\* that an execution repeats would be money that does not come back.
AtMostOneSend == \A f \in Fulfillments : sends[f] <= 1

\* The money rule: nothing was requested for an order that was never paid.
PaidBeforeSend == \A f \in Fulfillments : sends[f] > 0 => linked[f] /\ paid[f] # "no"

\* A topup is closed with what happened to it at the operator, whoever closed
\* it: the execution that sent it, or a sweep that knew nothing of that
\* execution - and whatever was lost, repeated, late or not found meanwhile.
\* Only the topups whose operator answered something else than what it did are
\* excused; RefundedIsUndelivered does not excuse them and is violated.
ClosedWithTheTruth ==
  \A f \in Fulfillments \ misled :
    /\ state[f] = "SUCCEEDED" => provider[f] = "delivered"
    /\ state[f] = "FAILED" => provider[f] \in { "none", "rejected" }

\* Payments is told one outcome at most, and it is the state of the topup:
\* an execution and a sweep that conclude at once do not both speak.
ToldOnceAndTrue ==
  \A f \in Fulfillments :
    /\ told[f]["succeeded"] + told[f]["failed"] <= 1
    /\ told[f]["succeeded"] > 0 => state[f] = "SUCCEEDED"
    /\ told[f]["failed"] > 0 => state[f] = "FAILED"

\* "The event is saved with the change of state", so that no topup fails
\* without anybody asking for the refund: a closed topup was announced, or is
\* about to be by a process that lives.
ClosedIsTold ==
  \A f \in Fulfillments :
    state[f] \in { "SUCCEEDED", "FAILED" } =>
      \/ told[f]["succeeded"] + told[f]["failed"] > 0
      \/ \E p \in Processes : job[p].pc = "publish" /\ job[p].f = f

\* A transient error is never a silent failure: the topup that payments is
\* asked to refund was not delivered and will not be.
RefundedIsUndelivered ==
  \A f \in Fulfillments : told[f]["failed"] > 0 => provider[f] \in { "none", "rejected" }

\* How far the delivery of a topup is, and what payments knows of it.
PhaseOf(f) == CASE state[f] = "SUCCEEDED" -> "succeeded"
                [] state[f] = "FAILED"    -> "failed"
                [] state[f] \in Waiting -> IF paid[f] = "no" THEN "unpaid" ELSE "paid"
                [] OTHER -> "sent"
ToldOf(f)  == CASE told[f]["succeeded"] > 0 -> "succeeded"
                [] told[f]["failed"] > 0    -> "failed"
                [] OTHER                    -> "nothing"
Phase     == [f \in Fulfillments |-> PhaseOf(f)]
Requested == { f \in Fulfillments : sends[f] > 0 }
Told      == [f \in Fulfillments |-> ToldOf(f)]

\* The promise to the other services (module Delivery): nothing is requested
\* before the payment, it is requested once, and what is told is how it ended.
Contract == INSTANCE Delivery WITH
  Sales <- Fulfillments, phase <- Phase, requested <- Requested, told <- Told
KeepsContract == Contract!Spec

-----------------------------------------------------------------------------
(* Liveness.  A job that began goes on (its requests have timeouts), tasks   *)
(* are taken from their queue, and beat runs the rescue and the              *)
(* reconciliation again and again.  Payments and the operator answer now and *)
(* then.  The consumer of events and the view are owed nothing: the rescue   *)
(* exists because an event can be lost.                                      *)
Fairness ==
  /\ \A p \in Processes :
       /\ WF_vars(Enqueue(p)) /\ WF_vars(QueueIt(p)) /\ WF_vars(Send(p))
       /\ WF_vars(AnswerPending(p) \/ AnswerFinal(p) \/ AnswerLost(p) \/ AnswerTransient(p))
       /\ WF_vars(CheckPaid(p) \/ CheckFails(p)) /\ SF_vars(CheckPaid(p))
       /\ WF_vars(MarkSent(p) \/ NotReady(p)) /\ SF_vars(MarkSent(p))
       /\ WF_vars(QueryAnswers(p) \/ QueryUnknown(p)) /\ SF_vars(QueryAnswers(p))
       /\ WF_vars(Close(p)) /\ WF_vars(Publish(p))
  /\ \A f \in Fulfillments :
       /\ SF_vars(\E p \in Processes : RunTask(p, f))
       /\ SF_vars(\E p \in Processes : Recover(p, f))
       /\ SF_vars(\E p \in Processes : SelectPending(p, f))

FairSpec == Spec /\ Fairness

\* A topup whose order stays paid leaves the waiting states even if its event
\* is lost, the provider was not ready and payments did not answer.
PaidIsExecuted ==
  \A f \in Fulfillments :
    (paid[f] = "yes" /\ linked[f]) ~> (state[f] \notin Waiting \/ paid[f] # "yes")

\* What the operator did with a topup reaches payments.
OutcomeIsTold ==
  \A f \in Fulfillments :
    (provider[f] \in { "delivered", "rejected" }) ~>
      (told[f]["succeeded"] + told[f]["failed"] > 0)
=============================================================================
