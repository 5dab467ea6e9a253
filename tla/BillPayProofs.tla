--------------------------- MODULE BillPayProofs ----------------------------
(* The bill-payment service is a topups service for every number of bills    *)
(* and processes and whatever crashes; what is proved of topups holds of it. *)
EXTENDS BillPay, TLAPS

Topups2 == INSTANCE TopupsProofs WITH
  Fulfillments <- Bills, linked <- ordered, provider <- biller, sends <- pays,
  Hazards <- { "crash", "transient", "misleading" }

-----------------------------------------------------------------------------
(* The inductive invariant: what the service knows that makes each of its    *)
(* steps one of topups.                                                      *)

\* An event exists only of an order that was paid once.
EventInv == \A b \in Bills : events[b] > 0 => paid[b] # "no"

\* A job that executes came from a task message; one that enqueues did not.
\* Only a job that read PENDING_PAYMENT goes by the queue.
MessageInv ==
  \A p \in Processes :
    /\ job[p].pc \in { "check", "queue", "mark" } => job[p].task
    /\ job[p].pc = "enqueue" => ~ job[p].task
    /\ job[p].pc = "queue" => job[p].seen = "PENDING_PAYMENT"

IInv == TypeOK /\ EventInv /\ MessageInv

LEMMA IdleIsTyped == Idle \in Job /\ Idle.pc = "idle" /\ NoOne \notin Bills
  BY BillPayAssumption DEF Idle, Job

LEMMA BusyJob ==
  ASSUME TypeOK, NEW p \in Processes, job[p].pc # "idle"
  PROVE  job[p] \in Job \ { Idle } /\ job[p].f \in Bills /\ job[p] # Idle
  BY DEF TypeOK, Job, Idle

LEMMA CappedIsTyped ==
  ASSUME NEW n \in 0 .. MaxQueue PROVE Capped(n) \in 0 .. MaxQueue /\ Capped(n) > 0
  BY BillPayAssumption DEF Capped

LEMMA InvInit == Init => IInv
  BY BillPayAssumption, IdleIsTyped
     DEF Init, IInv, TypeOK, EventInv, MessageInv, FulfillmentState, Idle

-----------------------------------------------------------------------------
(* The steps that preserve it, by what they write.                           *)

\* The variables the jobs do not write: all but state, queue, job, pays, told.
EdgesTyped ==
  /\ ordered \in [Bills -> BOOLEAN]
  /\ paid    \in [Bills -> { "no", "yes", "withdrawn" }]
  /\ events  \in [Bills -> 0 .. MaxQueue]
  /\ biller  \in [Bills -> { "none", "accepted", "delivered", "rejected" }]
  /\ lost    \subseteq Bills
  /\ crashes \in 0 .. MaxCrashes
  /\ known   \subseteq Bills
  /\ misled  \subseteq Bills

\* A job the invariant says nothing about.
Free(j) == j \in Job /\ j.pc \notin { "enqueue", "check", "queue", "mark" }

LEMMA OutsideStep ==
  ASSUME IInv, NEW b \in Bills, Outside(b) PROVE IInv'
<1> USE DEF IInv, TypeOK, EventInv, MessageInv
<1>1. CASE OrderPaid(b)
  BY <1>1, CappedIsTyped DEF OrderPaid
<1>2. CASE EventAgain(b)
  BY <1>2, BillPayAssumption DEF EventAgain
<1>3. CASE OrderWithdrawn(b)
  BY <1>3 DEF OrderWithdrawn
<1>4. CASE BillerFinishes(b)
  BY <1>4 DEF BillerFinishes
<1>5. CASE HandlerFails(b)
  BY <1>5, BillPayAssumption DEF HandlerFails, GiveUp
<1> QED
  BY <1>1, <1>2, <1>3, <1>4, <1>5 DEF Outside

LEMMA TakingStep ==
  ASSUME IInv, NEW p \in Processes, NEW b \in Bills, Taking(p, b) PROVE IInv'
<1>1. CASE HandleOrderPaid(p, b)
  <2> DEFINE j == [Idle EXCEPT !.pc = "enqueue", !.f = b]
  <2>1. j \in Job /\ j.pc = "enqueue" /\ ~ j.task
    BY DEF Idle, Job, Waiting, Outcomes
  <2>2. events' \in [Bills -> 0 .. MaxQueue] /\ EventInv'
    BY <1>1, BillPayAssumption DEF HandleOrderPaid, IInv, TypeOK, EventInv
  <2>3. ordered' \in [Bills -> BOOLEAN] /\ (job' = job \/ job' = [job EXCEPT ![p] = j])
    BY <1>1 DEF HandleOrderPaid, Begin, IInv, TypeOK
  <2>4. job' \in [Processes -> Job] /\ MessageInv'
    BY <2>1, <2>3 DEF IInv, TypeOK, MessageInv
  <2> QED
    BY <1>1, <2>2, <2>3, <2>4 DEF HandleOrderPaid, IInv, TypeOK
<1>2. CASE RunTask(p, b)
  <2> DEFINE j == [Idle EXCEPT !.pc = "check", !.f = b, !.task = TRUE, !.seen = state[b]]
  <2>1. Executable(b) => j \in Job /\ j.pc = "check" /\ j.task
    BY DEF Idle, Job, Waiting, Outcomes, Executable
  <2>2. queue' \in [Bills -> 0 .. MaxQueue]
    BY <1>2, BillPayAssumption DEF RunTask, IInv, TypeOK
  <2>3. CASE Executable(b)
    <3>1. job' = [job EXCEPT ![p] = j]
      BY <1>2, <2>3 DEF RunTask
    <3> QED
      BY <1>2, <2>1, <2>2, <2>3, <3>1 DEF RunTask, IInv, TypeOK, MessageInv, EventInv
  <2>4. CASE ~ Executable(b)
    BY <1>2, <2>2, <2>4 DEF RunTask, IInv, TypeOK, MessageInv, EventInv
  <2> QED
    BY <2>3, <2>4
<1>3. CASE SelectPending(p, b)
  <2> DEFINE j == [Idle EXCEPT !.pc = "query", !.f = b]
  <2>1. j \in Job /\ j.pc = "query"
    BY DEF Idle, Job, Waiting, Outcomes
  <2>2. job' = [job EXCEPT ![p] = j]
    BY <1>3 DEF SelectPending, Begin
  <2> QED
    BY <1>3, <2>1, <2>2 DEF SelectPending, IInv, TypeOK, MessageInv, EventInv
<1> QED
  BY <1>1, <1>2, <1>3 DEF Taking

\* A job that leaves, whatever it left in the queue.
LEMMA LeaveStep ==
  ASSUME IInv, NEW p \in Processes, Leave(p), EdgesTyped', UNCHANGED << paid, events >>,
         state' \in [Bills -> FulfillmentState], queue' \in [Bills -> 0 .. MaxQueue],
         pays' \in [Bills -> Nat], told' \in [Bills -> [Kinds -> Nat]]
  PROVE  IInv'
<1>1. job' \in [Processes -> Job]
  BY IdleIsTyped DEF Leave, IInv, TypeOK
<1>2. MessageInv'
  BY IdleIsTyped DEF Leave, IInv, TypeOK, MessageInv
<1> QED
  BY <1>1, <1>2 DEF IInv, TypeOK, EdgesTyped, EventInv

\* A job that goes on, from an execution or to a part the invariant leaves free.
LEMMA GoStep ==
  ASSUME IInv, NEW p \in Processes, NEW j \in Job, job' = [job EXCEPT ![p] = j],
         \/ Free(j)
         \/ /\ j.task /\ j.pc \in { "check", "queue", "mark" }
            /\ j.pc = "queue" => j.seen = "PENDING_PAYMENT",
         state' \in [Bills -> FulfillmentState], pays' \in [Bills -> Nat],
         EdgesTyped', UNCHANGED << paid, events, queue, told >>
  PROVE  IInv'
<1>1. job' \in [Processes -> Job]
  BY DEF IInv, TypeOK
<1>2. MessageInv'
  BY DEF IInv, TypeOK, MessageInv, Free
<1> QED
  BY <1>1, <1>2 DEF IInv, TypeOK, EdgesTyped, EventInv

LEMMA TransitionStep ==
  ASSUME IInv, NEW p \in Processes, NEW t \in FulfillmentState,
         NEW pc \in { "mark", "send", "publish" }, job[p].pc # "idle",
         pc = "mark" => job[p].task,
         Transition(p, t, pc), EdgesTyped', UNCHANGED << paid, events, queue, pays, told >>
  PROVE  IInv'
<1>1. job[p] \in Job \ { Idle } /\ job[p].f \in Bills
  BY BusyJob DEF IInv
<1>2. CASE CanMoveFulfillment(state[job[p].f], t)
  <2> DEFINE j == [job[p] EXCEPT !.pc = pc]
  <2>1. j \in Job /\ j.pc = pc /\ j.task = job[p].task
    BY <1>1 DEF Job
  <2>3. \/ Free(j)
        \/ j.task /\ j.pc = "mark"
    <3>1. CASE pc = "mark"
      BY <2>1, <3>1
    <3>2. CASE pc # "mark"
      BY <2>1, <3>2 DEF Free
    <3> QED
      BY <3>1, <3>2
  <2>2. job' = [job EXCEPT ![p] = j] /\ state' \in [Bills -> FulfillmentState]
    <3>1. Goto(p, pc) /\ state' = [state EXCEPT ![job[p].f] = t]
      BY <1>2 DEF Transition
    <3>2. TypeOK
      BY DEF IInv
    <3>3. state' \in [Bills -> FulfillmentState]
      BY <3>1, <3>2 DEF TypeOK
    <3> QED
      BY <3>1, <3>2, <3>3 DEF Goto, TypeOK
  <2> QED
    BY <2>1, <2>2, <2>3, GoStep DEF IInv, TypeOK
<1>3. CASE ~ CanMoveFulfillment(state[job[p].f], t)
  BY <1>3, LeaveStep DEF Transition, IInv, TypeOK
<1> QED
  BY <1>2, <1>3

LEMMA ConcludeStep ==
  ASSUME IInv, NEW p \in Processes, NEW t \in Outcomes, job[p].pc # "idle",
         Conclude(p, t), EdgesTyped', UNCHANGED << state, paid, events, queue, pays, told >>
  PROVE  IInv'
<1> DEFINE j == [job[p] EXCEPT !.pc = "close", !.target = t]
<1>1. job[p] \in Job \ { Idle }
  BY BusyJob DEF IInv
<1>2. j \in Job /\ Free(j) /\ job' = [job EXCEPT ![p] = j]
  BY <1>1 DEF Job, Free, Conclude, IInv, TypeOK
<1> QED
  BY <1>2, GoStep DEF IInv, TypeOK

LEMMA EdgesKept ==
  ASSUME IInv, UNCHANGED << ordered, paid, events, biller, crashes >>,
         lost' = lost \/ \E b \in Bills : GiveUp(b),
         known' = known \/ \E b \in Bills : Stored(b),
         misled' = misled \/ \E b \in Bills : misled' = misled \cup { b }
  PROVE  EdgesTyped'
  BY DEF IInv, TypeOK, EdgesTyped, GiveUp, Stored

LEMMA PutIsTyped ==
  ASSUME IInv, NEW b \in Bills, Put(b) PROVE queue' \in [Bills -> 0 .. MaxQueue]
  BY CappedIsTyped DEF Put, IInv, TypeOK

LEMMA ExecutingStep ==
  ASSUME IInv, NEW p \in Processes, Executing(p) PROVE IInv'
<1> USE DEF IInv
<1>0. job[p].pc # "idle" /\ job[p] \in Job \ { Idle } /\ job[p].f \in Bills
  BY BusyJob DEF Executing, Enqueue, EnqueueFails, CheckPaid, CheckFails, QueueIt, RetryLater,
       NotReady, MarkSent, Pay, AnswerPending, AnswerFinal, AnswerLost, AnswerTransient
<1>1. CASE Enqueue(p)
  BY <1>0, <1>1, EdgesKept, PutIsTyped, LeaveStep DEF Enqueue, TypeOK
<1>2. CASE EnqueueFails(p)
  BY <1>0, <1>2, EdgesKept, LeaveStep DEF EnqueueFails, TypeOK
<1>3. CASE CheckPaid(p)
  <2> DEFINE pc == IF job[p].seen = "PENDING_PAYMENT" THEN "queue" ELSE "mark"
             j  == [job[p] EXCEPT !.pc = pc]
  <2>1. /\ j \in Job /\ j.task /\ j.pc \in { "queue", "mark" }
        /\ j.pc = "queue" => j.seen = "PENDING_PAYMENT"
    BY <1>0, <1>3 DEF Job, CheckPaid, MessageInv
  <2>2. job' = [job EXCEPT ![p] = j]
    BY <1>3 DEF CheckPaid, Goto, TypeOK
  <2> QED
    BY <1>3, <2>1, <2>2, EdgesKept, GoStep DEF CheckPaid, TypeOK
<1>4. CASE CheckFails(p)
  BY <1>0, <1>4, EdgesKept, LeaveStep DEF CheckFails, TypeOK
<1>5. CASE QueueIt(p)
  BY <1>0, <1>5, EdgesKept, TransitionStep DEF QueueIt, MessageInv, FulfillmentState
<1>6. CASE RetryLater(p)
  BY <1>0, <1>6, EdgesKept, PutIsTyped, LeaveStep DEF RetryLater, TypeOK
<1>7. CASE NotReady(p)
  BY <1>0, <1>7, EdgesKept, LeaveStep DEF NotReady, TypeOK
<1>8. CASE MarkSent(p)
  BY <1>0, <1>8, EdgesKept, TransitionStep DEF MarkSent, FulfillmentState
<1>9. CASE Pay(p)
  <2> DEFINE j == [job[p] EXCEPT !.pc = "wait"]
  <2>1. j \in Job /\ Free(j)
    BY <1>0 DEF Job, Free
  <2>2. job' = [job EXCEPT ![p] = j] /\ pays' \in [Bills -> Nat]
    BY <1>0, <1>9 DEF Pay, Goto, TypeOK
  <2>3. EdgesTyped'
    BY <1>0, <1>9 DEF Pay, TypeOK, EdgesTyped
  <2> QED
    BY <1>9, <2>1, <2>2, <2>3, GoStep DEF Pay, TypeOK
<1>10. CASE AnswerPending(p)
  BY <1>0, <1>10, EdgesKept, LeaveStep DEF AnswerPending, TypeOK
<1>11. CASE AnswerFinal(p) \/ AnswerLost(p) \/ AnswerTransient(p)
  BY <1>0, <1>11, EdgesKept, ConcludeStep
     DEF AnswerFinal, AnswerLost, AnswerTransient, Verdict, Outcomes
<1> QED
  BY <1>1, <1>2, <1>3, <1>4, <1>5, <1>6, <1>7, <1>8, <1>9, <1>10, <1>11 DEF Executing

LEMMA ClosingStep ==
  ASSUME IInv, NEW p \in Processes, Reviewing(p) \/ Ending(p) PROVE IInv'
<1> USE DEF IInv
<1>0. job[p].pc # "idle" => job[p].f \in Bills
  BY BusyJob
<1>1. CASE QueryAnswers(p)
  BY <1>0, <1>1, EdgesKept, ConcludeStep DEF QueryAnswers, Verdict, Outcomes
<1>6. CASE QueryByKeyFails(p)
  BY <1>0, <1>6, EdgesKept, ConcludeStep DEF QueryByKeyFails, Outcomes
<1>2. CASE QueryUnknown(p)
  BY <1>2, EdgesKept, LeaveStep DEF QueryUnknown, TypeOK
<1>3. CASE Close(p)
  <2>1. job[p].pc # "idle" /\ job[p].target \in FulfillmentState
    BY <1>3, BusyJob DEF Close, Job, Outcomes, FulfillmentState
  <2> QED
    BY <1>3, <2>1, EdgesKept, TransitionStep DEF Close
<1>4. CASE Publish(p)
  <2>1. job[p].f \in Bills /\ job[p].target \in Outcomes
    BY <1>4, BusyJob DEF Publish, Job
  <2>2. told' \in [Bills -> [Kinds -> Nat]]
    BY <1>4, <2>1 DEF Publish, TypeOK, KindOf, Kinds, Outcomes
  <2> QED
    BY <1>4, <2>2, EdgesKept, LeaveStep DEF Publish, TypeOK
<1>5. CASE Crash(p)
  <2>1. job[p].f \in Bills /\ job[p] \in Job \ { Idle }
    BY <1>5 DEF Crash, TypeOK, Job
  <2>2. queue' \in [Bills -> 0 .. MaxQueue] /\ lost' \subseteq Bills
    BY <1>5, <2>1, PutIsTyped DEF Crash, AfterCrash, GiveUp, TypeOK
  <2>3. EdgesTyped'
    BY <1>5, <2>2, BillPayAssumption DEF Crash, TypeOK, EdgesTyped
  <2> QED
    BY <1>5, <2>2, <2>3, LeaveStep DEF Crash, TypeOK
<1> QED
  BY <1>1, <1>2, <1>3, <1>4, <1>5, <1>6 DEF Reviewing, Ending

LEMMA InvStep == IInv /\ [Next]_vars => IInv'
<1> SUFFICES ASSUME IInv, [Next]_vars PROVE IInv'
  OBVIOUS
<1>1. CASE UNCHANGED vars
  BY <1>1 DEF vars, IInv, TypeOK, EventInv, MessageInv
<1>2. CASE Next
  BY <1>2, OutsideStep, TakingStep, ExecutingStep, ClosingStep DEF Next
<1> QED
  BY <1>1, <1>2

LEMMA Invariance == Spec => []IInv
  BY InvInit, InvStep, PTL DEF Spec

\* The columns, the messages and the jobs keep their types.
THEOREM TypeCorrect == Spec => []TypeOK
<1>1. IInv => TypeOK
  BY DEF IInv
<1> QED
  BY Invariance, <1>1, PTL

-----------------------------------------------------------------------------
(* Every step is a step of topups, or changes nothing topups knows of.       *)

LEMMA SameWords ==
  /\ Idle = Topup!Idle /\ Waiting = Topup!Waiting /\ Kinds = Topup!Kinds
  /\ KindOf = Topup!KindOf
  BY DEF Idle, Topup!Idle, Waiting, Topup!Waiting, Kinds, Topup!Kinds,
         KindOf, Topup!KindOf, Outcomes

LEMMA InitMaps == Init => Topup!Init
  BY SameWords DEF Init, Topup!Init

LEMMA PutMaps == ASSUME NEW b \in Bills, Put(b) PROVE Topup!Put(b)
  BY DEF Put, Capped, Topup!Put

LEMMA LeaveMaps == ASSUME NEW p \in Processes, Leave(p) PROVE Topup!Leave(p)
  BY SameWords DEF Leave, Topup!Leave

LEMMA TransitionMaps ==
  ASSUME NEW p \in Processes, NEW t, NEW pc, Transition(p, t, pc)
  PROVE  Topup!Transition(p, t, pc)
  BY SameWords DEF Transition, Topup!Transition, Goto, Topup!Goto, Leave, Topup!Leave,
       CanMoveFulfillment, Topup!CanMoveFulfillment,
       FulfillmentTransitions, Topup!FulfillmentTransitions,
       FulfillmentState, Topup!FulfillmentState

LEMMA OutsideMaps ==
  ASSUME IInv, NEW b \in Bills, Outside(b) PROVE [Topup!Next]_(Topup!vars)
<1>1. CASE OrderPaid(b)
  <2>1. Topup!OrderPaid(b)
    BY <1>1 DEF OrderPaid, Topup!OrderPaid
  <2> QED
    BY <2>1 DEF Topup!Next, Topup!Payments
<1>2. CASE EventAgain(b)
  BY <1>2 DEF EventAgain, Topup!vars
<1>3. CASE OrderWithdrawn(b)
  <2>1. Topup!OrderWithdrawn(b)
    BY <1>3 DEF OrderWithdrawn, Topup!OrderWithdrawn
  <2> QED
    BY <2>1 DEF Topup!Next, Topup!Payments
<1>4. CASE BillerFinishes(b)
  <2>1. Topup!ProviderFinishes(b)
    BY <1>4 DEF BillerFinishes, Topup!ProviderFinishes
  <2> QED
    BY <2>1 DEF Topup!Next
<1>5. CASE HandlerFails(b)
  BY <1>5 DEF HandlerFails, Topup!vars
<1> QED
  BY <1>1, <1>2, <1>3, <1>4, <1>5 DEF Outside

LEMMA TakingMaps ==
  ASSUME IInv, NEW p \in Processes, NEW b \in Bills, Taking(p, b)
  PROVE  [Topup!Next]_(Topup!vars)
<1> USE SameWords
<1>1. CASE HandleOrderPaid(p, b)
  <2>1. CASE state[b] \in Waiting
    <3>1. paid[b] # "no"
      BY <1>1 DEF HandleOrderPaid, IInv, EventInv
    <3>2. Topup!HandleOrderPaid(p, b)
      BY <1>1, <2>1, <3>1 DEF HandleOrderPaid, Topup!HandleOrderPaid, Begin, Topup!Begin
    <3> QED
      BY <3>2 DEF Topup!Next, Topup!Asking
  <2>2. CASE state[b] \notin Waiting
    BY <1>1, <2>2 DEF HandleOrderPaid, Topup!vars
  <2> QED
    BY <2>1, <2>2
<1>2. CASE RunTask(p, b)
  <2>1. Topup!RunTask(p, b)
    BY <1>2 DEF RunTask, Executable, Topup!RunTask, Topup!Execute
  <2> QED
    BY <2>1 DEF Topup!Next, Topup!Asking
<1>3. CASE SelectPending(p, b)
  <2>1. Topup!SelectPending(p, b)
    BY <1>3 DEF SelectPending, Topup!SelectPending, Reviewable, Topup!Reviewable,
         Begin, Topup!Begin
  <2> QED
    BY <2>1 DEF Topup!Next
<1> QED
  BY <1>1, <1>2, <1>3 DEF Taking

\* A process that dies while it holds a message, or none, dies in topups too.
LEMMA DyingMaps ==
  ASSUME NEW p \in Processes, job[p] # Idle, Leave(p),
         IF job[p].task THEN Put(job[p].f) ELSE queue' = queue,
         job[p].f \in Bills,
         UNCHANGED << state, ordered, paid, biller, pays, told, misled >>
  PROVE  [Topup!Next]_(Topup!vars)
<1>1. Topup!Crash(p)
  BY SameWords, LeaveMaps, PutMaps DEF Topup!Crash
<1> QED
  BY <1>1 DEF Topup!Next, Topup!Ending

LEMMA ConcludeMaps ==
  ASSUME NEW p \in Processes, NEW t, Conclude(p, t) PROVE Topup!Conclude(p, t)
  BY DEF Conclude, Topup!Conclude

LEMMA ExecutingMaps ==
  ASSUME IInv, NEW p \in Processes, Executing(p) PROVE [Topup!Next]_(Topup!vars)
<1> USE DEF IInv
<1>0. job[p] # Idle /\ job[p].f \in Bills
  BY BusyJob DEF Executing, Enqueue, EnqueueFails, CheckPaid, CheckFails, QueueIt, RetryLater,
       NotReady, MarkSent, Pay, AnswerPending, AnswerFinal, AnswerLost, AnswerTransient
<1>1. CASE Enqueue(p)
  <2>1. Topup!Enqueue(p)
    BY <1>0, <1>1, PutMaps, LeaveMaps DEF Enqueue, Topup!Enqueue
  <2> QED
    BY <2>1 DEF Topup!Next, Topup!Executing
<1>2. CASE EnqueueFails(p)
  BY <1>0, <1>2, DyingMaps DEF EnqueueFails, MessageInv
<1>3. CASE CheckPaid(p)
  <2>1. Topup!CheckPaid(p)
    BY <1>3 DEF CheckPaid, OrderIsPaid, Goto, Topup!CheckPaid, Topup!OrderIsPaid, Topup!Goto
  <2> QED
    BY <2>1 DEF Topup!Next, Topup!Executing
<1>4. CASE CheckFails(p)
  <2>1. Topup!CheckFails(p)
    BY <1>4, LeaveMaps DEF CheckFails, Topup!CheckFails
  <2> QED
    BY <2>1 DEF Topup!Next, Topup!Executing
<1>5. CASE QueueIt(p)
  <2>1. Topup!QueueIt(p)
    BY <1>5, TransitionMaps DEF QueueIt, Topup!QueueIt
  <2> QED
    BY <2>1 DEF Topup!Next, Topup!Executing
<1>6. CASE RetryLater(p)
  BY <1>0, <1>6, DyingMaps DEF RetryLater, MessageInv
<1>7. CASE NotReady(p)
  <2>1. Topup!NotReady(p)
    BY <1>7, LeaveMaps DEF NotReady, Topup!NotReady
  <2> QED
    BY <2>1 DEF Topup!Next, Topup!Executing
<1>8. CASE MarkSent(p)
  <2>1. Topup!MarkSent(p)
    BY <1>8, TransitionMaps DEF MarkSent, Topup!MarkSent
  <2> QED
    BY <2>1 DEF Topup!Next, Topup!Executing
<1>9. CASE Pay(p)
  <2>1. Topup!Send(p)
    BY <1>9 DEF Pay, Goto, Topup!Send, Topup!Goto
  <2> QED
    BY <2>1 DEF Topup!Next, Topup!Executing
<1>10. CASE AnswerPending(p)
  <2>1. Topup!AnswerPending(p)
    BY <1>10, LeaveMaps DEF AnswerPending, Topup!AnswerPending
  <2> QED
    BY <2>1 DEF Topup!Next, Topup!Executing
<1>11. CASE AnswerFinal(p)
  <2>1. Topup!AnswerFinal(p)
    BY <1>11, ConcludeMaps DEF AnswerFinal, Verdict, Topup!AnswerFinal
  <2> QED
    BY <2>1 DEF Topup!Next, Topup!Executing
<1>12. CASE AnswerLost(p)
  <2>1. Topup!AnswerLost(p)
    BY <1>12, ConcludeMaps DEF AnswerLost, Topup!AnswerLost
  <2> QED
    BY <2>1 DEF Topup!Next, Topup!Executing
<1>13. CASE AnswerTransient(p)
  <2>1. Topup!AnswerTransient(p)
    BY <1>13, ConcludeMaps DEF AnswerTransient, Topup!AnswerTransient
  <2> QED
    BY <2>1 DEF Topup!Next, Topup!Executing
<1> QED
  BY <1>1, <1>2, <1>3, <1>4, <1>5, <1>6, <1>7, <1>8, <1>9, <1>10, <1>11, <1>12, <1>13
     DEF Executing

LEMMA ClosingMaps ==
  ASSUME IInv, NEW p \in Processes, Reviewing(p) \/ Ending(p)
  PROVE  [Topup!Next]_(Topup!vars)
<1>1. CASE QueryAnswers(p)
  <2>1. Topup!QueryAnswers(p)
    BY <1>1, ConcludeMaps DEF QueryAnswers, Verdict, Topup!QueryAnswers, Topup!Evidence
  <2> QED
    BY <2>1 DEF Topup!Next, Topup!Reviewing
<1>6. CASE QueryByKeyFails(p)
  <2>1. CASE "FAILED" \in Verdict(job[p].f)
    <3>1. Topup!QueryAnswers(p)
      BY <1>6, <2>1, ConcludeMaps
         DEF QueryByKeyFails, Verdict, Topup!QueryAnswers, Topup!Evidence
    <3> QED
      BY <3>1 DEF Topup!Next, Topup!Reviewing
  <2>2. CASE "FAILED" \notin Verdict(job[p].f)
    <3>1. Topup!QueryMisleads(p)
      BY <1>6, <2>2, ConcludeMaps
         DEF QueryByKeyFails, Verdict, Topup!QueryMisleads, Topup!Evidence
    <3> QED
      BY <3>1 DEF Topup!Next, Topup!Reviewing
  <2> QED
    BY <2>1, <2>2
<1>2. CASE QueryUnknown(p)
  <2>1. Topup!QueryUnknown(p)
    BY <1>2, LeaveMaps DEF QueryUnknown, Topup!QueryUnknown
  <2> QED
    BY <2>1 DEF Topup!Next, Topup!Reviewing
<1>3. CASE Close(p)
  <2>1. Topup!Close(p)
    BY <1>3, TransitionMaps DEF Close, Topup!Close
  <2> QED
    BY <2>1 DEF Topup!Next, Topup!Ending
<1>4. CASE Publish(p)
  <2>1. Topup!Publish(p)
    BY <1>4, SameWords, LeaveMaps DEF Publish, Topup!Publish
  <2> QED
    BY <2>1 DEF Topup!Next, Topup!Ending
<1>5. CASE Crash(p)
  <2>1. job[p].f \in Bills
    BY <1>5 DEF Crash, IInv, TypeOK, Job
  <2> QED
    BY <1>5, <2>1, DyingMaps DEF Crash, AfterCrash
<1> QED
  BY <1>1, <1>2, <1>3, <1>4, <1>5, <1>6 DEF Reviewing, Ending

\* The service implements topups: what differs, the stream that drives it, the
\* rescue it lacks and the tasks it gives up, is nothing topups forbids.
THEOREM Refinement == Spec => DeliversLikeTopups
<1>1. IInv /\ [Next]_vars => [Topup!Next]_(Topup!vars)
  <2> SUFFICES ASSUME IInv, [Next]_vars PROVE [Topup!Next]_(Topup!vars)
    OBVIOUS
  <2>1. CASE UNCHANGED vars
    BY <2>1 DEF vars, Topup!vars
  <2>2. CASE Next
    BY <2>2, OutsideMaps, TakingMaps, ExecutingMaps, ClosingMaps DEF Next
  <2> QED
    BY <2>1, <2>2
<1> QED
  BY InitMaps, <1>1, Invariance, PTL DEF Spec, Topup!Spec, DeliversLikeTopups

-----------------------------------------------------------------------------
(* What is proved of topups, read for bills.                                 *)

\* The two instances of module Topups are the same.
LEMMA SameSpec == Topup!Spec <=> Topups2!Spec
<1>1. Topup!Init <=> Topups2!Init
  BY DEF Topup!Init, Topups2!Init, Topup!Idle, Topups2!Idle, Topup!Kinds, Topups2!Kinds
<1>2. Topup!vars = Topups2!vars
  BY DEF Topup!vars, Topups2!vars
<1>3. Topup!Next <=> Topups2!Next
  BY DEF Topup!Waiting, Topups2!Waiting, Topup!Kinds, Topups2!Kinds, Topup!KindOf, Topups2!KindOf, Topup!Idle, Topups2!Idle, Topup!Goto, Topups2!Goto, Topup!Leave, Topups2!Leave, Topup!Begin, Topups2!Begin, Topup!Execute, Topups2!Execute, Topup!Put, Topups2!Put, Topup!Transition, Topups2!Transition, Topup!OrderPaid, Topups2!OrderPaid, Topup!OrderWithdrawn, Topups2!OrderWithdrawn, Topup!LinkOrder, Topups2!LinkOrder, Topup!HandleOrderPaid, Topups2!HandleOrderPaid, Topup!Recoverable, Topups2!Recoverable, Topup!Recover, Topups2!Recover, Topup!Enqueue, Topups2!Enqueue, Topup!RunTask, Topups2!RunTask, Topup!RunView, Topups2!RunView, Topup!OrderIsPaid, Topups2!OrderIsPaid, Topup!CheckPaid, Topups2!CheckPaid, Topup!CheckFails, Topups2!CheckFails, Topup!QueueIt, Topups2!QueueIt, Topup!NotReady, Topups2!NotReady, Topup!MarkSent, Topups2!MarkSent, Topup!Send, Topups2!Send, Topup!Conclude, Topups2!Conclude, Topup!AnswerPending, Topups2!AnswerPending, Topup!AnswerFinal, Topups2!AnswerFinal, Topup!AnswerLost, Topups2!AnswerLost, Topup!AnswerTransient, Topups2!AnswerTransient, Topup!ProviderFinishes, Topups2!ProviderFinishes, Topup!Reviewable, Topups2!Reviewable, Topup!SelectPending, Topups2!SelectPending, Topup!Evidence, Topups2!Evidence, Topup!QueryAnswers, Topups2!QueryAnswers, Topup!QueryMisleads, Topups2!QueryMisleads, Topup!QueryUnknown, Topups2!QueryUnknown, Topup!Close, Topups2!Close, Topup!Publish, Topups2!Publish, Topup!Crash, Topups2!Crash, Topup!Payments, Topups2!Payments, Topup!Asking, Topups2!Asking, Topup!Executing, Topups2!Executing, Topup!Reviewing, Topups2!Reviewing, Topup!Ending, Topups2!Ending, Topup!Next, Topups2!Next, Topup!CanMoveFulfillment, Topups2!CanMoveFulfillment, Topup!FulfillmentTransitions, Topups2!FulfillmentTransitions, Topup!FulfillmentState, Topups2!FulfillmentState
<1>4. [Topup!Next]_(Topup!vars) <=> [Topups2!Next]_(Topups2!vars)
  BY <1>2, <1>3 DEF Topup!vars, Topups2!vars
<1> QED
  BY <1>1, <1>4, PTL DEF Topup!Spec, Topups2!Spec

-----------------------------------------------------------------------------
(* No paid bill is forgotten.  NobodyForgets is not inductive: a process may *)
(* hold a bill and be about to lose the claim.  A bill is minded by one that *)
(* will not: it enqueues, or is past the queue, or read the state the bill   *)
(* still has.                                                                *)

Minds(p, b) ==
  /\ job[p].f = b
  /\ \/ job[p].pc \in { "enqueue", "mark" }
     \/ job[p].pc \in { "check", "queue" } /\ job[p].seen = state[b]

Kept(b)  == events[b] > 0 \/ queue[b] > 0 \/ b \in lost
Cared(b) == Kept(b) \/ \E p \in Processes : Minds(p, b)

\* A task began after the event of its bill; an execution that read QUEUED, or
\* is past the queue, has a bill that never waits for its payment again.
Knows(j) ==
  /\ j.pc = "enqueue" \/ j.task => ordered[j.f]
  /\ j.pc = "mark" \/ (j.pc = "check" /\ j.seen = "QUEUED")
       => state[j.f] # "PENDING_PAYMENT"

CareInv ==
  /\ \A b \in Bills : queue[b] > 0 => ordered[b]
  /\ \A p \in Processes : Knows(job[p])
  /\ \A b \in Bills : paid[b] # "no" /\ state[b] \in Waiting => Cared(b)

LEMMA CareInit == Init => CareInv
  BY DEF Init, CareInv, Knows, Idle

\* What a job knows stays true: an order is not unlinked, and no transition goes
\* back to PENDING_PAYMENT.
LEMMA KnowsStays ==
  ASSUME IInv, CareInv, NEW q \in Processes, job'[q] = job[q],
         \A c \in Bills : ordered[c] => ordered'[c],
         \A c \in Bills : state'[c] = "PENDING_PAYMENT" => state[c] = "PENDING_PAYMENT"
  PROVE  Knows(job[q])'
<1>1. CASE job[q].pc = "idle"
  BY <1>1 DEF Knows, IInv, TypeOK, Job, Idle
<1>2. CASE job[q].pc # "idle"
  <2>1. job[q].f \in Bills
    BY <1>2, BusyJob DEF IInv
  <2> QED
    BY <2>1 DEF Knows, CareInv
<1> QED
  BY <1>1, <1>2

LEMMA CareOutside ==
  ASSUME IInv, CareInv, NEW b \in Bills, Outside(b) PROVE CareInv'
<1> USE DEF IInv, TypeOK, CareInv, Cared, Kept, Minds, Knows
<1>1. CASE OrderPaid(b)
  <2>1. events'[b] > 0 /\ \A c \in Bills : events[c] > 0 => events'[c] > 0
    BY <1>1, CappedIsTyped DEF OrderPaid
  <2>2. \A c \in Bills : c # b => paid'[c] = paid[c]
    BY <1>1 DEF OrderPaid
  <2> QED
    BY <1>1, <2>1, <2>2 DEF OrderPaid
<1>2. CASE EventAgain(b)
  <2>1. \A c \in Bills : events[c] > 0 => events'[c] > 0
    BY <1>2, BillPayAssumption DEF EventAgain
  <2> QED
    BY <1>2, <2>1 DEF EventAgain
<1>3. CASE OrderWithdrawn(b)
  BY <1>3 DEF OrderWithdrawn
<1>4. CASE BillerFinishes(b)
  BY <1>4 DEF BillerFinishes
<1>5. CASE HandlerFails(b)
  BY <1>5, BillPayAssumption DEF HandlerFails, GiveUp
<1> QED
  BY <1>1, <1>2, <1>3, <1>4, <1>5 DEF Outside

\* A process that leaves a bill it minds leaves something behind it.
LEMMA CareLeave ==
  ASSUME IInv, CareInv, NEW p \in Processes, Leave(p),
         UNCHANGED << state, ordered, paid, events >>,
         \A b \in Bills : queue[b] > 0 => queue'[b] > 0,
         \A b \in Bills : queue'[b] > 0 => ordered[b],
         lost \subseteq lost',
         \A b \in Bills : Minds(p, b) /\ state[b] \in Waiting => Kept(b)'
  PROVE  CareInv'
<1>1. job'[p] = Idle /\ \A q \in Processes : q # p => job'[q] = job[q]
  BY DEF Leave, IInv, TypeOK
<1>2. \A q \in Processes, b \in Bills : q # p /\ Minds(q, b) => Minds(q, b)'
  BY <1>1 DEF Minds
<1>3. \A b \in Bills : Kept(b) => Kept(b)'
  BY DEF Kept
<1>4. \A b \in Bills : paid[b] # "no" /\ state[b] \in Waiting => Cared(b)'
  BY <1>2, <1>3 DEF CareInv, Cared
<1>5. \A q \in Processes : Knows(job[q])'
  BY <1>1, IdleIsTyped DEF Knows, CareInv, Idle
<1> QED
  BY <1>4, <1>5 DEF CareInv

\* A process that goes on with a bill it need not mind any longer, or minds.
LEMMA CareGo ==
  ASSUME IInv, CareInv, NEW p \in Processes, NEW j \in Job,
         job' = [job EXCEPT ![p] = j],
         UNCHANGED << state, ordered, paid, events, queue, lost >>,
         Knows(j),
         \A b \in Bills : Minds(p, b) /\ state[b] \in Waiting => Minds(p, b)'
  PROVE  CareInv'
<1>1. job'[p] = j /\ \A q \in Processes : q # p => job'[q] = job[q]
  BY DEF IInv, TypeOK
<1>2. \A q \in Processes, b \in Bills :
        Minds(q, b) /\ state[b] \in Waiting => Minds(q, b)'
  BY <1>1 DEF Minds
<1>3. \A b \in Bills : paid[b] # "no" /\ state[b] \in Waiting => Cared(b)'
  BY <1>2 DEF CareInv, Cared, Kept
<1>4. \A q \in Processes : Knows(job[q])'
  BY <1>1 DEF CareInv, Knows
<1> QED
  BY <1>3, <1>4 DEF CareInv

LEMMA CareTaking ==
  ASSUME IInv, CareInv, NEW p \in Processes, NEW b \in Bills, Taking(p, b)
  PROVE  CareInv'
<1>0. job[p] = Idle /\ \A c \in Bills : ~ Minds(p, c)
  BY IdleIsTyped DEF Taking, HandleOrderPaid, RunTask, SelectPending, Minds
<1>1. CASE HandleOrderPaid(p, b)
  <2>1. CASE state[b] \in Waiting
    <3> DEFINE j == [Idle EXCEPT !.pc = "enqueue", !.f = b]
    <3>1. job' = [job EXCEPT ![p] = j] /\ j.pc = "enqueue" /\ j.f = b
      BY <1>1, <2>1 DEF HandleOrderPaid, Begin, Idle
    <3>2. job'[p] = j /\ \A q \in Processes : q # p => job'[q] = job[q]
      BY <3>1 DEF IInv, TypeOK
    <3>3. ordered'[b] /\ \A c \in Bills : ordered[c] => ordered'[c]
      BY <1>1, <2>1 DEF HandleOrderPaid, IInv, TypeOK
    <3>4. \A c \in Bills : c # b => events'[c] = events[c]
      BY <1>1 DEF HandleOrderPaid, IInv, TypeOK
    <3>5. Minds(p, b)'
      BY <3>1, <3>2 DEF Minds
    <3>6. \A q \in Processes, c \in Bills : Minds(q, c) => Minds(q, c)'
      BY <1>0, <1>1, <3>2 DEF HandleOrderPaid, Minds
    <3>7. \A c \in Bills : paid'[c] # "no" /\ state'[c] \in Waiting => Cared(c)'
      BY <1>1, <3>4, <3>5, <3>6 DEF HandleOrderPaid, CareInv, Cared, Kept
    <3>8. \A q \in Processes : Knows(job[q])'
      <4>1. Knows(job[p])'
        BY <3>1, <3>2, <3>3 DEF Knows
      <4>2. \A q \in Processes : q # p => Knows(job[q])'
        BY <1>1, <3>2, <3>3, KnowsStays DEF HandleOrderPaid
      <4> QED
        BY <4>1, <4>2
    <3> QED
      BY <1>1, <3>3, <3>7, <3>8 DEF HandleOrderPaid, CareInv
  <2>2. CASE state[b] \notin Waiting
    <3>1. \A c \in Bills : c # b => events'[c] = events[c]
      BY <1>1 DEF HandleOrderPaid, IInv, TypeOK
    <3> QED
      BY <1>1, <2>2, <3>1 DEF HandleOrderPaid, CareInv, Cared, Kept, Minds, Knows
  <2> QED
    BY <2>1, <2>2
<1>2. CASE RunTask(p, b)
  <2>0. ordered[b] /\ \A c \in Bills : c # b => queue'[c] = queue[c]
    BY <1>2 DEF RunTask, CareInv, IInv, TypeOK
  <2>1. CASE Executable(b)
    <3> DEFINE j == [Idle EXCEPT !.pc = "check", !.f = b, !.task = TRUE, !.seen = state[b]]
    <3>1. job' = [job EXCEPT ![p] = j] /\ j.pc = "check" /\ j.f = b /\ j.seen = state[b]
      BY <1>2, <2>1 DEF RunTask, Idle
    <3>2. job'[p] = j /\ \A q \in Processes : q # p => job'[q] = job[q]
      BY <3>1 DEF IInv, TypeOK
    <3>3. Minds(p, b)'
      BY <1>2, <3>1, <3>2 DEF Minds, RunTask
    <3>4. \A q \in Processes, c \in Bills : Minds(q, c) => Minds(q, c)'
      BY <1>0, <1>2, <3>2 DEF RunTask, Minds
    <3>5. \A c \in Bills : paid[c] # "no" /\ state[c] \in Waiting => Cared(c)'
      BY <1>2, <2>0, <3>3, <3>4 DEF RunTask, CareInv, Cared, Kept
    <3>6. \A c \in Bills : queue'[c] > 0 => ordered[c]
      BY <2>0 DEF CareInv
    <3>7. \A q \in Processes : Knows(job[q])'
      BY <1>2, <2>1, <3>1, <3>2 DEF RunTask, CareInv, Knows, Executable
    <3> QED
      BY <1>2, <3>5, <3>6, <3>7 DEF RunTask, CareInv
  <2>2. CASE ~ Executable(b)
    <3>1. state[b] \notin Waiting
      BY <2>0, <2>2 DEF Executable
    <3> QED
      BY <1>2, <2>0, <2>2, <3>1 DEF RunTask, CareInv, Cared, Kept, Minds, Knows
  <2> QED
    BY <2>1, <2>2
<1>3. CASE SelectPending(p, b)
  <2> DEFINE j == [Idle EXCEPT !.pc = "query", !.f = b]
  <2>1. j \in Job /\ j.pc = "query" /\ job' = [job EXCEPT ![p] = j]
    BY <1>3 DEF SelectPending, Begin, Idle, Job, Waiting, Outcomes
  <2>2. Knows(j)
    BY <2>1 DEF Knows, Idle
  <2> QED
    BY <1>0, <1>3, <2>1, <2>2, CareGo DEF SelectPending
<1> QED
  BY <1>1, <1>2, <1>3 DEF Taking

\* A transition moves the bill out of what the job read, or stops a job that
\* minded nothing.
LEMMA CareTransition ==
  ASSUME IInv, CareInv, NEW p \in Processes, NEW t \in FulfillmentState,
         NEW pc \in { "mark", "send", "publish" }, job[p].pc # "idle",
         Transition(p, t, pc), UNCHANGED << ordered, paid, events, queue, lost >>,
         \/ job[p].pc = "queue" /\ t = "QUEUED" /\ pc = "mark"
         \/ job[p].pc = "mark" /\ t = "SENT" /\ pc = "send"
         \/ job[p].pc = "close" /\ t \in Outcomes /\ pc = "publish"
  PROVE  CareInv'
<1> DEFINE f == job[p].f
           j == [job[p] EXCEPT !.pc = pc]
<1>1. job[p] \in Job \ { Idle } /\ f \in Bills
  BY BusyJob DEF IInv
<1>2. CASE CanMoveFulfillment(state[f], t)
  <2>1. j.pc = pc /\ j.f = f
    BY <1>1 DEF Job
  <2>2. job'[p] = j /\ \A q \in Processes : q # p => job'[q] = job[q]
    BY <1>2 DEF Transition, Goto, IInv, TypeOK
  <2>3. state'[f] = t /\ \A c \in Bills : c # f => state'[c] = state[c]
    BY <1>1, <1>2 DEF Transition, IInv, TypeOK
  <2>4. t # "PENDING_PAYMENT"
    BY DEF Outcomes
  <2>5. \A q \in Processes : q # p => Knows(job[q])'
    BY <2>2, <2>3, <2>4, KnowsStays
  <2>6. Knows(job[p])'
    BY <1>1, <2>1, <2>2, <2>3, <2>4 DEF Knows, CareInv
  <2>7. ASSUME NEW c \in Bills, paid[c] # "no", state'[c] \in Waiting PROVE Cared(c)'
    <3>1. CASE c = f
      <4>1. t = "QUEUED"
        BY <2>3, <2>7, <3>1 DEF Waiting, Outcomes
      <4>2. Minds(p, c)'
        BY <2>1, <2>2, <3>1, <4>1 DEF Minds, Outcomes
      <4> QED
        BY <4>2 DEF Cared
    <3>2. CASE c # f
      <4>1. \A q \in Processes : Minds(q, c) => q # p /\ Minds(q, c)'
        BY <2>2, <2>3, <3>2 DEF Minds
      <4> QED
        BY <2>3, <2>7, <3>2, <4>1 DEF CareInv, Cared, Kept
    <3> QED
      BY <3>1, <3>2
  <2> QED
    BY <2>5, <2>6, <2>7 DEF CareInv
<1>3. CASE ~ CanMoveFulfillment(state[f], t)
  <2>1. Leave(p) /\ state' = state
    BY <1>3 DEF Transition
  <2>2. \A b \in Bills : Minds(p, b) => state[b] \notin Waiting
    <3>1. CASE job[p].pc = "queue"
      BY <1>3, <3>1 DEF Minds, MessageInv, Waiting, CanMoveFulfillment, FulfillmentTransitions,
           FulfillmentState, IInv, TypeOK
    <3>2. CASE job[p].pc = "mark"
      BY <1>3, <3>2 DEF Minds, CareInv, Knows, Waiting, CanMoveFulfillment,
           FulfillmentTransitions, FulfillmentState, IInv, TypeOK
    <3>3. CASE job[p].pc = "close"
      BY <3>3 DEF Minds
    <3> QED
      BY <3>1, <3>2, <3>3
  <2> QED
    BY <2>1, <2>2, CareLeave DEF CareInv
<1> QED
  BY <1>2, <1>3

LEMMA PutKeeps ==
  ASSUME IInv, CareInv, NEW b \in Bills, Put(b), ordered[b]
  PROVE  /\ queue'[b] > 0
         /\ \A c \in Bills : queue[c] > 0 => queue'[c] > 0
         /\ \A c \in Bills : queue'[c] > 0 => ordered[c]
  BY CappedIsTyped DEF Put, IInv, TypeOK, CareInv

LEMMA CareConclude ==
  ASSUME IInv, CareInv, NEW p \in Processes, NEW t \in Outcomes,
         job[p].pc \in { "wait", "query" }, Conclude(p, t),
         UNCHANGED << state, ordered, paid, events, queue, lost >>
  PROVE  CareInv'
<1> DEFINE j == [job[p] EXCEPT !.pc = "close", !.target = t]
<1>1. job[p] \in Job \ { Idle }
  BY BusyJob DEF IInv
<1>2. j \in Job /\ j.pc = "close" /\ job' = [job EXCEPT ![p] = j]
  BY <1>1 DEF Job, Conclude, IInv, TypeOK
<1>3. \A b \in Bills : ~ Minds(p, b)
  BY DEF Minds
<1>4. Knows(j)
  BY <1>1 DEF Knows, CareInv, Job
<1> QED
  BY <1>2, <1>3, <1>4, CareGo

LEMMA CareExecuting ==
  ASSUME IInv, CareInv, NEW p \in Processes, Executing(p) PROVE CareInv'
<1> DEFINE f == job[p].f
<1>0. job[p].pc # "idle" /\ job[p] \in Job \ { Idle } /\ f \in Bills
  BY BusyJob DEF IInv, Executing, Enqueue, EnqueueFails, CheckPaid, CheckFails, QueueIt,
       RetryLater, NotReady, MarkSent, Pay, AnswerPending, AnswerFinal, AnswerLost,
       AnswerTransient
<1>1. CASE Enqueue(p) \/ RetryLater(p)
  <2>1. ordered[f]
    BY <1>1 DEF Enqueue, RetryLater, CareInv, Knows, IInv, MessageInv
  <2> QED
    BY <1>0, <1>1, <2>1, PutKeeps, CareLeave DEF Enqueue, RetryLater, Minds, Kept
<1>2. CASE EnqueueFails(p) \/ CheckFails(p) \/ NotReady(p)
  <2>1. lost' = lost \cup { f }
    BY <1>2 DEF EnqueueFails, CheckFails, NotReady, GiveUp
  <2> QED
    BY <1>0, <1>2, <2>1, CareLeave
       DEF EnqueueFails, CheckFails, NotReady, Minds, Kept, CareInv
<1>3. CASE CheckPaid(p)
  <2> DEFINE pc == IF job[p].seen = "PENDING_PAYMENT" THEN "queue" ELSE "mark"
             j  == [job[p] EXCEPT !.pc = pc]
  <2>1. j \in Job /\ j.pc = pc /\ j.f = f /\ j.seen = job[p].seen
    BY <1>0 DEF Job
  <2>2. job' = [job EXCEPT ![p] = j] /\ job'[p] = j
    BY <1>3 DEF CheckPaid, Goto, IInv, TypeOK
  <2>3. job[p].seen \in Waiting
    BY <1>0 DEF Job
  <2>4. Knows(j)
    BY <1>3, <2>1, <2>3 DEF CheckPaid, CareInv, Knows, Waiting
  <2>5. \A b \in Bills : Minds(p, b) => Minds(p, b)'
    BY <1>3, <2>1, <2>2, <2>3 DEF CheckPaid, Minds, Waiting
  <2> QED
    BY <1>3, <2>1, <2>2, <2>4, <2>5, CareGo DEF CheckPaid
<1>4. CASE QueueIt(p) \/ MarkSent(p)
  <2>1. "QUEUED" \in FulfillmentState /\ "SENT" \in FulfillmentState
    BY DEF FulfillmentState
  <2> QED
    BY <1>0, <1>4, <2>1, CareTransition DEF QueueIt, MarkSent
<1>5. CASE Pay(p)
  <2> DEFINE j == [job[p] EXCEPT !.pc = "wait"]
  <2>1. j \in Job /\ j.pc = "wait" /\ job' = [job EXCEPT ![p] = j]
    BY <1>0, <1>5 DEF Pay, Goto, Job, IInv, TypeOK
  <2>2. \A b \in Bills : ~ Minds(p, b)
    BY <1>5 DEF Pay, Minds
  <2>3. Knows(j)
    BY <1>0 DEF Knows, CareInv, Job
  <2> QED
    BY <1>5, <2>1, <2>2, <2>3, CareGo DEF Pay
<1>6. CASE AnswerPending(p)
  BY <1>6, CareLeave DEF AnswerPending, Minds, CareInv
<1>7. CASE AnswerFinal(p) \/ AnswerLost(p) \/ AnswerTransient(p)
  <2>1. PICK t \in Outcomes : Conclude(p, t)
    BY <1>7 DEF AnswerFinal, AnswerLost, AnswerTransient, Verdict, Outcomes
  <2> QED
    BY <1>7, <2>1, CareConclude DEF AnswerFinal, AnswerLost, AnswerTransient
<1> QED
  BY <1>1, <1>2, <1>3, <1>4, <1>5, <1>6, <1>7 DEF Executing

LEMMA CareClosing ==
  ASSUME IInv, CareInv, NEW p \in Processes, Reviewing(p) \/ Ending(p) PROVE CareInv'
<1> DEFINE f == job[p].f
<1>0. job[p].pc # "idle" /\ job[p] \in Job \ { Idle } /\ f \in Bills
  BY BusyJob DEF IInv, Reviewing, Ending, QueryAnswers, QueryByKeyFails, QueryUnknown, Close,
       Publish, Crash, TypeOK, Job
<1>1. CASE QueryAnswers(p)
  <2>1. PICK t \in Outcomes : Conclude(p, t)
    BY <1>1 DEF QueryAnswers, Verdict, Outcomes
  <2> QED
    BY <1>1, <2>1, CareConclude DEF QueryAnswers
<1>5. CASE QueryByKeyFails(p)
  BY <1>5, CareConclude DEF QueryByKeyFails, Outcomes
<1>2. CASE QueryUnknown(p) \/ Publish(p)
  BY <1>2, CareLeave DEF QueryUnknown, Publish, Minds, CareInv
<1>3. CASE Close(p)
  <2>1. job[p].target \in Outcomes /\ job[p].target \in FulfillmentState
    BY <1>0 DEF Job, Outcomes, FulfillmentState
  <2> QED
    BY <1>0, <1>3, <2>1, CareTransition DEF Close
<1>4. CASE Crash(p)
  <2>1. CASE job[p].task
    <3>1. Put(f) /\ lost' = lost
      BY <1>4, <2>1 DEF Crash, AfterCrash, IInv, MessageInv
    <3>2. ordered[f]
      BY <2>1 DEF CareInv, Knows
    <3> QED
      BY <1>0, <1>4, <3>1, <3>2, PutKeeps, CareLeave DEF Crash, Minds, Kept
  <2>2. CASE ~ job[p].task
    <3>1. queue' = queue /\ lost \subseteq lost'
      BY <1>4, <2>2 DEF Crash, AfterCrash, GiveUp
    <3>2. \A b \in Bills : Minds(p, b) => b \in lost'
      BY <1>4, <2>2 DEF Crash, AfterCrash, GiveUp, Minds, IInv, MessageInv
    <3> QED
      BY <1>4, <3>1, <3>2, CareLeave DEF Crash, Kept, CareInv
  <2> QED
    BY <2>1, <2>2
<1> QED
  BY <1>1, <1>2, <1>3, <1>4, <1>5 DEF Reviewing, Ending

LEMMA CareStep == IInv /\ CareInv /\ [Next]_vars => CareInv'
<1> SUFFICES ASSUME IInv, CareInv, [Next]_vars PROVE CareInv'
  OBVIOUS
<1>1. CASE UNCHANGED vars
  BY <1>1 DEF vars, CareInv, Cared, Kept, Minds, Knows
<1>2. CASE Next
  BY <1>2, CareOutside, CareTaking, CareExecuting, CareClosing DEF Next
<1> QED
  BY <1>1, <1>2

\* A paid bill that nobody executed has an event, a task or an execution that
\* is about it, or an execution gave up on it: the acknowledgement of a task
\* comes after its work, and no transition lets go of a bill.
THEOREM NothingForgotten == Spec => []NobodyForgets
<1>1. CareInv => NobodyForgets
  BY DEF CareInv, NobodyForgets, Cared, Kept, Minds
<1> QED
  BY CareInit, CareStep, Invariance, <1>1, PTL DEF Spec

-----------------------------------------------------------------------------
(* What topups promises, for bills.                                          *)

LEMMA IsTopups == Spec => Topups2!Spec
  BY Refinement, SameSpec, PTL DEF DeliversLikeTopups

LEMMA SameAssumption == Topups2!TopupsAssumption
  BY BillPayAssumption DEF Topups2!TopupsAssumption

\* However many executions of a bill overlap, whatever crashes and however often
\* a task comes back, the aggregator is asked for one payment.
THEOREM OnePayment == Spec => [](\A b \in Bills : pays[b] <= 1)
<1>1. Topups2!Spec => []Topups2!AtMostOneSend
  BY SameAssumption, Topups2!OneRequest
<1>2. Topups2!AtMostOneSend => (\A b \in Bills : pays[b] <= 1)
  BY DEF Topups2!AtMostOneSend
<1> QED
  BY <1>1, <1>2, IsTopups, PTL

\* The aggregator is asked only for bills whose order was paid.
THEOREM PaidFirst == Spec => [](\A b \in Bills : pays[b] > 0 => paid[b] # "no")
<1>1. Topups2!Spec => []Topups2!PaidBeforeSend
  BY SameAssumption, Topups2!MoneyFirst
<1>2. Topups2!PaidBeforeSend => (\A b \in Bills : pays[b] > 0 => paid[b] # "no")
  BY DEF Topups2!PaidBeforeSend
<1> QED
  BY <1>1, <1>2, IsTopups, PTL

\* Payments is told at most one outcome of a bill.
THEOREM OneOutcome ==
  Spec => [](\A b \in Bills : told[b]["succeeded"] + told[b]["failed"] <= 1)
<1>1. Topups2!Spec => []Topups2!ToldOnceAndTrue
  BY SameAssumption, Topups2!OneTruth
<1>2. Topups2!ToldOnceAndTrue => 
        (\A b \in Bills : told[b]["succeeded"] + told[b]["failed"] <= 1)
  BY DEF Topups2!ToldOnceAndTrue
<1> QED
  BY <1>1, <1>2, IsTopups, PTL

\* A bill is closed as paid only if the aggregator paid it and as failed only if it
\* never will, but for the bills about which a transient error, or the question by
\* our key, answered something else than what the aggregator did.
THEOREM ClosedTruthfully ==
  Spec => [](\A b \in Bills \ misled :
               /\ state[b] = "SUCCEEDED" => biller[b] = "delivered"
               /\ state[b] = "FAILED" => biller[b] \in { "none", "rejected" })
<1>1. Topups2!Spec => []Topups2!ClosedWithTheTruth
  BY SameAssumption, Topups2!ClosedTruthfully
<1>2. Topups2!ClosedWithTheTruth =>
        (\A b \in Bills \ misled :
           /\ state[b] = "SUCCEEDED" => biller[b] = "delivered"
           /\ state[b] = "FAILED" => biller[b] \in { "none", "rejected" })
  BY DEF Topups2!ClosedWithTheTruth
<1> QED
  BY <1>1, <1>2, IsTopups, PTL
=============================================================================
