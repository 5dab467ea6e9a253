---------------------------- MODULE TopupsProofs ----------------------------
(* What holds of the topups service for any number of topups and processes,  *)
(* whatever crashes, and that it keeps the contract of module Delivery.      *)
EXTENDS Topups, TLAPS

-----------------------------------------------------------------------------
(* The inductive invariant.                                                  *)

Final == { "SUCCEEDED", "FAILED" }

\* A job that claimed a topup, or found it claimed, works on a topup that has
\* left the waiting states for good.
ClaimInv ==
  \A p \in Processes :
    job[p].pc \in { "send", "wait", "query", "close", "publish" } =>
      state[job[p].f] \notin Waiting

\* A job that passed the check holds a topup whose order is linked, and was
\* paid at some time.
PayInv ==
  \A p \in Processes :
    /\ job[p].pc \in { "check", "queue", "mark", "send" } => linked[job[p].f]
    /\ job[p].pc \in { "queue", "mark", "send" } => paid[job[p].f] # "no"

\* The claim is exclusive, and the only one that may send.
SendInv ==
  /\ \A f \in Fulfillments : state[f] \in Waiting => sends[f] = 0
  /\ \A p \in Processes : job[p].pc = "send" => sends[job[p].f] = 0
  /\ \A p, q \in Processes :
       job[p].pc = "send" /\ job[q].pc = "send" /\ job[p].f = job[q].f => p = q

\* Only the job that closed a topup may announce its outcome.
Announcing(p) == job[p].pc = "publish" /\ job[p].target \in Final
TellInv ==
  /\ \A f \in Fulfillments :
       state[f] \notin Final => told[f]["succeeded"] = 0 /\ told[f]["failed"] = 0
  /\ \A p \in Processes :
       Announcing(p) => /\ state[job[p].f] = job[p].target
                        /\ told[job[p].f]["succeeded"] = 0
                        /\ told[job[p].f]["failed"] = 0
  /\ \A p, q \in Processes :
       Announcing(p) /\ Announcing(q) /\ job[p].f = job[q].f => p = q

IInv == /\ TypeOK /\ ClaimInv /\ PayInv /\ PaidBeforeSend
        /\ SendInv /\ AtMostOneSend /\ TellInv /\ ToldOnceAndTrue

-----------------------------------------------------------------------------
(* The shapes a step can have.                                               *)

\* The orders and the operator.
World ==
  /\ UNCHANGED << state, job, sends, told >>
  /\ \A f \in Fulfillments : linked[f] => linked'[f]
  /\ \A f \in Fulfillments : paid[f] # "no" => paid'[f] # "no"

\* A process that goes on, or begins a job, or ends one, and writes nothing
\* but a link, a message or what the operator was asked.
Walks(p, j) ==
  /\ UNCHANGED << state, paid, sends, told >>
  /\ \A f \in Fulfillments : linked[f] => linked'[f]
  /\ job' = [job EXCEPT ![p] = j]
  /\ \/ j = Idle
     \/ j.pc = "enqueue"
     \/ j.pc = "check" /\ linked[j.f]
     \/ /\ j.pc \in { "queue", "mark" } /\ j.f = job[p].f
        /\ job[p].pc = "check" /\ paid[j.f] = "yes"
     \/ j.pc = "query" /\ Reviewable(j.f)
     \/ /\ j.pc = "close" /\ j.f = job[p].f
        /\ job[p].pc \in { "wait", "query" }

LEMMA IdleIsTyped == Idle \in Job /\ Idle.pc = "idle" /\ NoOne \notin Fulfillments
  BY TopupsAssumption DEF Idle, Job

\* A job that is not idle is about a topup.
LEMMA BusyJob ==
  ASSUME TypeOK, NEW p \in Processes, job[p].pc # "idle"
  PROVE  /\ job[p] \in Job \ { Idle }
         /\ job[p].f \in Fulfillments
         /\ job[p] # Idle
  BY DEF TypeOK, Job, Idle

\* The variables that only the edges of the service write.
EdgesTyped ==
  /\ linked   \in [Fulfillments -> BOOLEAN]
  /\ paid     \in [Fulfillments -> { "no", "yes", "withdrawn" }]
  /\ queue    \in [Fulfillments -> 0 .. MaxQueue]
  /\ provider \in [Fulfillments -> { "none", "accepted", "delivered", "rejected" }]
  /\ misled   \subseteq Fulfillments

LEMMA PutIsTyped ==
  ASSUME TypeOK, NEW f \in Fulfillments, Put(f)
  PROVE  queue' \in [Fulfillments -> 0 .. MaxQueue]
  BY TopupsAssumption DEF TypeOK, Put

LEMMA WorldShape ==
  ASSUME TypeOK, NEW f \in Fulfillments, Payments(f) \/ ProviderFinishes(f)
  PROVE  World /\ EdgesTyped'
<1>1. CASE OrderPaid(f)
  BY <1>1 DEF OrderPaid, World, EdgesTyped, TypeOK
<1>2. CASE OrderWithdrawn(f)
  BY <1>2 DEF OrderWithdrawn, World, EdgesTyped, TypeOK
<1>3. CASE LinkOrder(f)
  BY <1>3 DEF LinkOrder, World, EdgesTyped, TypeOK
<1>4. CASE ProviderFinishes(f)
  BY <1>4 DEF ProviderFinishes, World, EdgesTyped, TypeOK
<1> QED
  BY <1>1, <1>2, <1>3, <1>4 DEF Payments

LEMMA AskingShape ==
  ASSUME TypeOK, NEW p \in Processes, NEW f \in Fulfillments,
         Asking(p, f) \/ SelectPending(p, f)
  PROVE  (\E j \in Job : Walks(p, j)) /\ EdgesTyped'
<1>1. CASE HandleOrderPaid(p, f)
  <2> DEFINE j == [Idle EXCEPT !.pc = "enqueue", !.f = f]
  <2>1. j \in Job /\ j.pc = "enqueue"
    BY DEF Idle, Job, Waiting
  <2>2. Walks(p, j) /\ EdgesTyped'
    BY <1>1, <2>1 DEF HandleOrderPaid, Begin, Walks, EdgesTyped, TypeOK
  <2> QED
    BY <2>1, <2>2
<1>2. CASE Recover(p, f)
  <2> DEFINE j == [Idle EXCEPT !.pc = "enqueue", !.f = f]
  <2>1. j \in Job /\ j.pc = "enqueue"
    BY DEF Idle, Job, Waiting
  <2>2. Walks(p, j) /\ EdgesTyped'
    BY <1>2, <2>1 DEF Recover, Begin, Walks, EdgesTyped, TypeOK
  <2> QED
    BY <2>1, <2>2
<1>3. ASSUME NEW task \in BOOLEAN, state[f] \in Waiting, linked[f], Execute(p, f, task),
             UNCHANGED << state, linked, paid, sends, told >>
      PROVE  \E j \in Job : Walks(p, j)
  <2> DEFINE j == [Idle EXCEPT !.pc = "check", !.f = f, !.task = task, !.seen = state[f]]
  <2>1. j \in Job /\ j.pc = "check" /\ j.f = f
    BY <1>3 DEF Idle, Job
  <2>2. Walks(p, j)
    BY <1>3, <2>1 DEF Execute, Walks
  <2> QED
    BY <2>1, <2>2
<1>4. CASE RunTask(p, f)
  <2>1. EdgesTyped'
    <3>1. queue' \in [Fulfillments -> 0 .. MaxQueue]
      BY <1>4, TopupsAssumption DEF RunTask, TypeOK
    <3> QED
      BY <1>4, <3>1 DEF RunTask, EdgesTyped, TypeOK
  <2>2. UNCHANGED << state, linked, paid, sends, told >>
    BY <1>4 DEF RunTask
  <2>3. CASE state[f] \in Waiting /\ linked[f]
    BY <1>3, <1>4, <2>1, <2>2, <2>3 DEF RunTask
  <2>4. CASE ~ (state[f] \in Waiting /\ linked[f])
    <3>1. job' = [job EXCEPT ![p] = Idle]
      BY <1>4, <2>4 DEF RunTask, TypeOK
    <3>2. Walks(p, Idle)
      BY <2>2, <3>1 DEF Walks
    <3> QED
      BY <2>1, <3>2, IdleIsTyped
  <2> QED
    BY <2>3, <2>4
<1>5. CASE RunView(p, f)
  BY <1>3, <1>5 DEF RunView, EdgesTyped, TypeOK
<1>6. CASE SelectPending(p, f)
  <2> DEFINE j == [Idle EXCEPT !.pc = "query", !.f = f]
  <2>1. j \in Job /\ j.pc = "query" /\ j.f = f
    BY DEF Idle, Job, Waiting
  <2>2. Walks(p, j) /\ EdgesTyped'
    BY <1>6, <2>1 DEF SelectPending, Begin, Walks, EdgesTyped, TypeOK
  <2> QED
    BY <2>1, <2>2
<1> QED
  BY <1>1, <1>2, <1>4, <1>5, <1>6 DEF Asking

\* A job that ends, or goes on in the same job record.
LEMMA LeaveWalks ==
  ASSUME NEW p \in Processes, Leave(p), UNCHANGED << state, linked, paid, sends, told >>
  PROVE  \E j \in Job : Walks(p, j)
  BY IdleIsTyped DEF Leave, Walks

LEMMA ConcludeWalks ==
  ASSUME TypeOK, NEW p \in Processes, NEW t \in { "SUCCEEDED", "FAILED", "UNDER_REVIEW" },
         job[p].pc \in { "wait", "query" }, Conclude(p, t),
         UNCHANGED << state, linked, paid, sends, told >>
  PROVE  \E j \in Job : Walks(p, j)
<1> DEFINE j == [job[p] EXCEPT !.pc = "close", !.target = t]
<1>1. job[p] \in Job \ { Idle }
  BY BusyJob
<1>2. j \in Job /\ j.pc = "close" /\ j.f = job[p].f
  BY <1>1 DEF Job
<1>3. job' = [job EXCEPT ![p] = j]
  BY DEF Conclude, TypeOK
<1>4. Walks(p, j)
  BY <1>2, <1>3 DEF Walks
<1> QED
  BY <1>2, <1>4

LEMMA CheckShape ==
  ASSUME TypeOK, NEW p \in Processes, CheckPaid(p)
  PROVE  (\E j \in Job : Walks(p, j)) /\ EdgesTyped'
<1> DEFINE pc == IF job[p].seen = "PENDING_PAYMENT" THEN "queue" ELSE "mark"
           j  == [job[p] EXCEPT !.pc = pc]
<1>1. job[p] \in Job \ { Idle }
  BY BusyJob DEF CheckPaid
<1>2. j \in Job /\ j.pc \in { "queue", "mark" } /\ j.f = job[p].f
  BY <1>1 DEF Job
<1>3. job' = [job EXCEPT ![p] = j]
  BY DEF CheckPaid, Goto, TypeOK
<1>4. Walks(p, j)
  BY <1>2, <1>3 DEF CheckPaid, OrderIsPaid, Walks
<1> QED
  BY <1>2, <1>4 DEF CheckPaid, EdgesTyped, TypeOK

LEMMA ProcessShape ==
  ASSUME TypeOK, NEW p \in Processes, Executing(p) \/ Reviewing(p) \/ Ending(p)
  PROVE  /\ \/ \E j \in Job : Walks(p, j)
            \/ QueueIt(p) \/ MarkSent(p) \/ Send(p) \/ Close(p) \/ Publish(p)
         /\ EdgesTyped'
<1>1. CASE Enqueue(p)
  <2>1. job[p].f \in Fulfillments
    BY <1>1, BusyJob DEF Enqueue
  <2> QED
    BY <1>1, <2>1, PutIsTyped, LeaveWalks DEF Enqueue, EdgesTyped, TypeOK
<1>2. CASE CheckPaid(p)
  BY <1>2, CheckShape
<1>3. CASE CheckFails(p)
  BY <1>3, LeaveWalks DEF CheckFails, EdgesTyped, TypeOK
<1>4. CASE QueueIt(p)
  BY <1>4 DEF QueueIt, EdgesTyped, TypeOK
<1>5. CASE NotReady(p)
  <2>1. job[p].f \in Fulfillments
    BY <1>5, BusyJob DEF NotReady
  <2>2. queue' \in [Fulfillments -> 0 .. MaxQueue]
    BY <1>5, <2>1, PutIsTyped DEF NotReady, TypeOK
  <2> QED
    BY <1>5, <2>2, LeaveWalks DEF NotReady, EdgesTyped, TypeOK
<1>6. CASE MarkSent(p)
  BY <1>6 DEF MarkSent, EdgesTyped, TypeOK
<1>7. CASE Send(p)
  <2>1. job[p].f \in Fulfillments
    BY <1>7, BusyJob DEF Send
  <2> QED
    BY <1>7, <2>1 DEF Send, EdgesTyped, TypeOK
<1>8. CASE AnswerPending(p) \/ QueryUnknown(p)
  BY <1>8, LeaveWalks DEF AnswerPending, QueryUnknown, EdgesTyped, TypeOK
<1>9. CASE AnswerFinal(p) \/ AnswerLost(p)
  BY <1>9, ConcludeWalks DEF AnswerFinal, AnswerLost, EdgesTyped, TypeOK
<1>10. CASE QueryAnswers(p)
  BY <1>10, ConcludeWalks DEF QueryAnswers, Evidence, EdgesTyped, TypeOK
<1>14. CASE AnswerTransient(p) \/ QueryMisleads(p)
  <2>1. job[p].f \in Fulfillments /\ misled' \subseteq Fulfillments
    BY <1>14, BusyJob DEF AnswerTransient, QueryMisleads, TypeOK
  <2>2. PICK t \in { "SUCCEEDED", "FAILED", "UNDER_REVIEW" } : Conclude(p, t)
    BY <1>14 DEF AnswerTransient, QueryMisleads
  <2>3. job[p].pc \in { "wait", "query" } /\ UNCHANGED << state, linked, paid, sends, told >>
    BY <1>14 DEF AnswerTransient, QueryMisleads
  <2>4. EdgesTyped'
    BY <1>14, <2>1 DEF AnswerTransient, QueryMisleads, EdgesTyped, TypeOK
  <2> QED
    BY <2>2, <2>3, <2>4, ConcludeWalks
<1>11. CASE Close(p)
  BY <1>11 DEF Close, EdgesTyped, TypeOK
<1>12. CASE Publish(p)
  BY <1>12 DEF Publish, EdgesTyped, TypeOK
<1>13. CASE Crash(p)
  <2>1. job[p].f \in Fulfillments /\ queue' \in [Fulfillments -> 0 .. MaxQueue]
    BY <1>13, PutIsTyped DEF Crash, TypeOK, Job
  <2> QED
    BY <1>13, <2>1, LeaveWalks DEF Crash, EdgesTyped, TypeOK
<1> QED
  BY <1>1, <1>2, <1>3, <1>4, <1>5, <1>6, <1>7, <1>8, <1>9, <1>10, <1>11, <1>12, <1>13, <1>14
     DEF Executing, Reviewing, Ending

-----------------------------------------------------------------------------
(* The three transitions a job asks for.                                     *)

\* What the table of transitions says of the targets the jobs ask for.
LEMMA Table ==
  /\ \A s \in FulfillmentState : CanMoveFulfillment(s, "QUEUED") => s = "PENDING_PAYMENT"
  /\ \A s \in FulfillmentState : CanMoveFulfillment(s, "SENT") => s = "QUEUED"
  /\ \A s \in FulfillmentState, t \in Final \cup { "UNDER_REVIEW" } :
       CanMoveFulfillment(s, t) => s \notin Final
  /\ \A s \in FulfillmentState : CanMoveFulfillment(s, "UNDER_REVIEW") => s = "SENT"
  BY DEF CanMoveFulfillment, FulfillmentTransitions, FulfillmentState, Final

\* Job p moves its topup to t and goes on at pc.
Moves(p, t, pc) ==
  /\ CanMoveFulfillment(state[job[p].f], t)
  /\ state' = [state EXCEPT ![job[p].f] = t]
  /\ job' = [job EXCEPT ![p] = [job[p] EXCEPT !.pc = pc]]

Stops(p) == state' = state /\ job' = [job EXCEPT ![p] = Idle]

LEMMA TransitionShape ==
  ASSUME TypeOK, NEW p \in Processes, NEW t, NEW pc, Transition(p, t, pc)
  PROVE  Moves(p, t, pc) \/ Stops(p)
  BY DEF Transition, Goto, Leave, Moves, Stops, TypeOK

LEMMA QueueItShape ==
  ASSUME TypeOK, NEW p \in Processes, QueueIt(p)
  PROVE  /\ Moves(p, "QUEUED", "mark") \/ Stops(p)
         /\ job[p] \in Job \ { Idle } /\ job[p].f \in Fulfillments /\ job[p].pc = "queue"
         /\ UNCHANGED << linked, paid, sends, told >>
  BY BusyJob, TransitionShape DEF QueueIt

LEMMA MarkSentShape ==
  ASSUME TypeOK, NEW p \in Processes, MarkSent(p)
  PROVE  /\ Moves(p, "SENT", "send") \/ Stops(p)
         /\ job[p] \in Job \ { Idle } /\ job[p].f \in Fulfillments /\ job[p].pc = "mark"
         /\ UNCHANGED << linked, paid, sends, told >>
  BY BusyJob, TransitionShape DEF MarkSent

LEMMA CloseShape ==
  ASSUME TypeOK, NEW p \in Processes, Close(p)
  PROVE  /\ Moves(p, job[p].target, "publish") \/ Stops(p)
         /\ job[p] \in Job \ { Idle } /\ job[p].f \in Fulfillments /\ job[p].pc = "close"
         /\ job[p].target \in Final \cup { "UNDER_REVIEW" }
         /\ UNCHANGED << linked, paid, sends, told >>
  BY BusyJob, TransitionShape DEF Close, Job, Final

-----------------------------------------------------------------------------
(* Type correctness.                                                         *)

LEMMA TypeInit == Init => TypeOK
  BY TopupsAssumption, IdleIsTyped DEF Init, TypeOK, FulfillmentState

LEMMA MovesAreTyped ==
  ASSUME TypeOK, NEW p \in Processes, NEW t \in FulfillmentState,
         NEW pc \in { "mark", "send", "publish" },
         job[p] \in Job \ { Idle }, job[p].f \in Fulfillments,
         Moves(p, t, pc) \/ Stops(p)
  PROVE  state' \in [Fulfillments -> FulfillmentState] /\ job' \in [Processes -> Job]
<1>1. [job[p] EXCEPT !.pc = pc] \in Job
  BY DEF Job
<1>2. CASE Moves(p, t, pc)
  BY <1>1, <1>2 DEF Moves, TypeOK
<1>3. CASE Stops(p)
  BY <1>3, IdleIsTyped DEF Stops, TypeOK
<1> QED
  BY <1>2, <1>3

LEMMA TypeStep == TypeOK /\ [Next]_vars => TypeOK'
<1> SUFFICES ASSUME TypeOK, [Next]_vars PROVE TypeOK'
  OBVIOUS
<1>1. CASE UNCHANGED vars
  BY <1>1 DEF vars, TypeOK
<1>2. ASSUME NEW f \in Fulfillments, Payments(f) \/ ProviderFinishes(f) PROVE TypeOK'
  BY <1>2, WorldShape DEF World, EdgesTyped, TypeOK
<1>3. ASSUME NEW p \in Processes, NEW j \in Job, Walks(p, j), EdgesTyped' PROVE TypeOK'
  BY <1>3 DEF Walks, EdgesTyped, TypeOK
<1>4. ASSUME NEW p \in Processes, NEW f \in Fulfillments, Asking(p, f) \/ SelectPending(p, f)
      PROVE  TypeOK'
  BY <1>3, <1>4, AskingShape
<1>5. ASSUME NEW p \in Processes, Executing(p) \/ Reviewing(p) \/ Ending(p) PROVE TypeOK'
  <2>1. EdgesTyped'
    BY <1>5, ProcessShape
  <2>2. CASE \E j \in Job : Walks(p, j)
    BY <1>3, <2>1, <2>2
  <2>3. CASE QueueIt(p)
    BY <2>1, <2>3, QueueItShape, MovesAreTyped DEF TypeOK, EdgesTyped, FulfillmentState
  <2>4. CASE MarkSent(p)
    BY <2>1, <2>4, MarkSentShape, MovesAreTyped DEF TypeOK, EdgesTyped, FulfillmentState
  <2>5. CASE Close(p)
    BY <2>1, <2>5, CloseShape, MovesAreTyped DEF TypeOK, EdgesTyped, FulfillmentState, Final
  <2>6. CASE Send(p)
    <3>1. job[p] \in Job \ { Idle } /\ job[p].f \in Fulfillments
      BY <2>6, BusyJob DEF Send
    <3>2. [job[p] EXCEPT !.pc = "wait"] \in Job
      BY <3>1 DEF Job
    <3>3. job' \in [Processes -> Job]
      BY <2>6, <3>2 DEF Send, Goto, TypeOK
    <3> QED
      BY <2>1, <2>6, <3>1, <3>3 DEF Send, EdgesTyped, TypeOK
  <2>7. CASE Publish(p)
    <3>1. /\ job[p].f \in Fulfillments
          /\ KindOf[job[p].target] \in Kinds
      BY <2>7, BusyJob DEF Publish, KindOf, Kinds, Job
    <3>2. told' \in [Fulfillments -> [Kinds -> Nat]]
      BY <2>7, <3>1 DEF Publish, TypeOK
    <3> QED
      BY <2>1, <2>7, <3>2, IdleIsTyped DEF Publish, Leave, EdgesTyped, TypeOK
  <2> QED
    BY <1>5, <2>2, <2>3, <2>4, <2>5, <2>6, <2>7, ProcessShape
<1> QED
  BY <1>1, <1>2, <1>4, <1>5 DEF Next

\* Every reachable state is well typed.
THEOREM TypeCorrect == Spec => []TypeOK
  BY TypeInit, TypeStep, PTL DEF Spec

-----------------------------------------------------------------------------
(* The shapes again, for the steps that preserve the other invariants.       *)

\* A case that every invariant is proved for.
Shape ==
  \/ World
  \/ \E p \in Processes :
       \/ \E j \in Job : Walks(p, j)
       \/ /\ job[p] \in Job \ { Idle } /\ job[p].f \in Fulfillments
          /\ \/ job[p].pc = "queue" /\ (Moves(p, "QUEUED", "mark") \/ Stops(p))
             \/ job[p].pc = "mark" /\ (Moves(p, "SENT", "send") \/ Stops(p))
             \/ /\ job[p].pc = "close"
                /\ job[p].target \in Final \cup { "UNDER_REVIEW" }
                /\ Moves(p, job[p].target, "publish") \/ Stops(p)
          /\ UNCHANGED << linked, paid, sends, told >>
       \/ Send(p) \/ Publish(p)

LEMMA StepShape == TypeOK /\ [Next]_vars => Shape
<1> SUFFICES ASSUME TypeOK, [Next]_vars PROVE Shape
  OBVIOUS
<1>1. CASE UNCHANGED vars
  BY <1>1 DEF vars, Shape, World
<1>2. ASSUME NEW f \in Fulfillments, Payments(f) \/ ProviderFinishes(f) PROVE Shape
  BY <1>2, WorldShape DEF Shape
<1>3. ASSUME NEW p \in Processes, NEW f \in Fulfillments, Asking(p, f) \/ SelectPending(p, f)
      PROVE  Shape
  BY <1>3, AskingShape DEF Shape
<1>4. ASSUME NEW p \in Processes, Executing(p) \/ Reviewing(p) \/ Ending(p) PROVE Shape
  BY <1>4, ProcessShape, QueueItShape, MarkSentShape, CloseShape DEF Shape
<1> QED
  BY <1>1, <1>2, <1>3, <1>4 DEF Next

\* What a process does to its own job only.
LEMMA OwnJob ==
  ASSUME TypeOK, NEW p \in Processes, NEW j, job' = [job EXCEPT ![p] = j]
  PROVE  job'[p] = j /\ \A q \in Processes : q # p => job'[q] = job[q]
  BY DEF TypeOK

LEMMA SendShape ==
  ASSUME TypeOK, NEW p \in Processes, Send(p)
  PROVE  /\ job[p] \in Job \ { Idle } /\ job[p].f \in Fulfillments /\ job[p].pc = "send"
         /\ job'[p] = [job[p] EXCEPT !.pc = "wait"]
         /\ job'[p].pc = "wait" /\ job'[p].f = job[p].f
         /\ \A q \in Processes : q # p => job'[q] = job[q]
         /\ UNCHANGED << state, linked, paid, told >>
         /\ sends' = [sends EXCEPT ![job[p].f] = @ + 1]
<1>1. job[p] \in Job \ { Idle } /\ job[p].f \in Fulfillments /\ job[p].pc = "send"
  BY BusyJob DEF Send
<1>2. job' = [job EXCEPT ![p] = [job[p] EXCEPT !.pc = "wait"]]
  BY DEF Send, Goto, TypeOK
<1>3. job'[p] = [job[p] EXCEPT !.pc = "wait"] /\ \A q \in Processes : q # p => job'[q] = job[q]
  BY <1>2, OwnJob
<1>4. job'[p].pc = "wait" /\ job'[p].f = job[p].f
  BY <1>1, <1>3 DEF Job
<1> QED
  BY <1>1, <1>3, <1>4 DEF Send

LEMMA PublishShape ==
  ASSUME TypeOK, NEW p \in Processes, Publish(p)
  PROVE  /\ job[p] \in Job \ { Idle } /\ job[p].f \in Fulfillments /\ job[p].pc = "publish"
         /\ job'[p] = Idle
         /\ \A q \in Processes : q # p => job'[q] = job[q]
         /\ UNCHANGED << state, linked, paid, sends >>
         /\ told' = [told EXCEPT ![job[p].f][KindOf[job[p].target]] = @ + 1]
<1>1. job[p] \in Job \ { Idle } /\ job[p].f \in Fulfillments /\ job[p].pc = "publish"
  BY BusyJob DEF Publish
<1>2. job' = [job EXCEPT ![p] = Idle]
  BY DEF Publish, Leave
<1> QED
  BY <1>1, <1>2, OwnJob DEF Publish

LEMMA ClaimStep == IInv /\ [Next]_vars => ClaimInv'
<1> SUFFICES ASSUME IInv, [Next]_vars PROVE ClaimInv'
  OBVIOUS
<1> USE DEF IInv
<1>0. TypeOK'
  BY TypeStep
<1>1. CASE World
  BY <1>1 DEF World, ClaimInv
<1>2. ASSUME NEW p \in Processes, NEW j \in Job, Walks(p, j) PROVE ClaimInv'
  <2>1. job'[p] = j /\ \A q \in Processes : q # p => job'[q] = job[q]
    BY <1>2, OwnJob DEF Walks
  <2>2. j.pc \in { "send", "wait", "query", "close", "publish" } => state[j.f] \notin Waiting
    BY <1>2, IdleIsTyped DEF Walks, ClaimInv, Reviewable, Waiting
  <2> QED
    BY <1>2, <2>1, <2>2 DEF Walks, ClaimInv
<1>3. ASSUME NEW p \in Processes, job[p] \in Job \ { Idle }, job[p].f \in Fulfillments,
             NEW t, NEW pc, Moves(p, t, pc),
             t \notin Waiting \/ (pc = "mark" /\ state[job[p].f] \in Waiting)
      PROVE  ClaimInv'
  <2>1. \A f \in Fulfillments : state[f] \notin Waiting => state'[f] \notin Waiting
    BY <1>3 DEF Moves, TypeOK
  <2>2. /\ job'[p] = [job[p] EXCEPT !.pc = pc]
        /\ \A q \in Processes : q # p => job'[q] = job[q]
    BY <1>3, OwnJob DEF Moves
  <2>3. job'[p].pc = pc /\ job'[p].f = job[p].f
    BY <1>3, <2>2 DEF Job
  <2>4. t \notin Waiting => state'[job[p].f] \notin Waiting
    BY <1>3 DEF Moves, TypeOK
  <2>5. \A q \in Processes : job[q].pc # "idle" => job[q].f \in Fulfillments
    BY BusyJob
  <2> QED
    BY <1>3, <2>1, <2>2, <2>3, <2>4, <2>5 DEF ClaimInv
<1>4. ASSUME NEW p \in Processes, Stops(p) PROVE ClaimInv'
  <2>1. job'[p] = Idle /\ \A q \in Processes : q # p => job'[q] = job[q]
    BY <1>4, OwnJob DEF Stops
  <2> QED
    BY <1>4, <2>1, IdleIsTyped DEF Stops, ClaimInv
<1>5. ASSUME NEW p \in Processes, Send(p) PROVE ClaimInv'
  BY <1>5, SendShape DEF ClaimInv
<1>6. ASSUME NEW p \in Processes, Publish(p) PROVE ClaimInv'
  BY <1>6, PublishShape, IdleIsTyped DEF ClaimInv
<1> QED
  BY <1>1, <1>2, <1>3, <1>4, <1>5, <1>6, StepShape, Table DEF Shape, Moves, Waiting, Final, TypeOK

LEMMA PayStep == IInv /\ [Next]_vars => PayInv'
<1> SUFFICES ASSUME IInv, [Next]_vars PROVE PayInv'
  OBVIOUS
<1> USE DEF IInv
<1>0. \A q \in Processes : job[q].pc # "idle" => job[q].f \in Fulfillments
  BY BusyJob
<1>1. CASE World
  BY <1>0, <1>1 DEF World, PayInv
<1>2. ASSUME NEW p \in Processes, NEW j \in Job, Walks(p, j) PROVE PayInv'
  <2>1. job'[p] = j /\ \A q \in Processes : q # p => job'[q] = job[q]
    BY <1>2, OwnJob DEF Walks
  <2>2. j.pc \in { "check", "queue", "mark", "send" } => j.f \in Fulfillments
    BY IdleIsTyped DEF Job
  <2>3. /\ j.pc \in { "check", "queue", "mark", "send" } => linked[j.f]
        /\ j.pc \in { "queue", "mark", "send" } => paid[j.f] # "no"
    BY <1>2, IdleIsTyped DEF Walks, PayInv
  <2> QED
    BY <1>0, <1>2, <2>1, <2>2, <2>3 DEF Walks, PayInv
<1>3. ASSUME NEW p \in Processes, job[p] \in Job \ { Idle }, NEW t, NEW pc, Moves(p, t, pc),
             UNCHANGED << linked, paid, sends, told >>,
             pc = "publish" \/ job[p].pc \in { "queue", "mark" }
      PROVE  PayInv'
  <2>1. /\ job'[p] = [job[p] EXCEPT !.pc = pc]
        /\ \A q \in Processes : q # p => job'[q] = job[q]
    BY <1>3, OwnJob DEF Moves
  <2>2. job'[p].pc = pc /\ job'[p].f = job[p].f
    BY <1>3, <2>1 DEF Job
  <2> QED
    BY <1>3, <2>1, <2>2 DEF PayInv
<1>4. ASSUME NEW p \in Processes, Stops(p), UNCHANGED << linked, paid, sends, told >>
      PROVE  PayInv'
  <2>1. job'[p] = Idle /\ \A q \in Processes : q # p => job'[q] = job[q]
    BY <1>4, OwnJob DEF Stops
  <2> QED
    BY <1>4, <2>1, IdleIsTyped DEF PayInv
<1>5. ASSUME NEW p \in Processes, Send(p) PROVE PayInv'
  BY <1>5, SendShape DEF PayInv
<1>6. ASSUME NEW p \in Processes, Publish(p) PROVE PayInv'
  BY <1>6, PublishShape, IdleIsTyped DEF PayInv
<1> QED
  BY <1>1, <1>2, <1>3, <1>4, <1>5, <1>6, StepShape DEF Shape

LEMMA PaidStep == IInv /\ [Next]_vars => PaidBeforeSend'
<1> SUFFICES ASSUME IInv, [Next]_vars PROVE PaidBeforeSend'
  OBVIOUS
<1> USE DEF IInv
<1>1. CASE World
  BY <1>1 DEF World, PaidBeforeSend
<1>2. ASSUME NEW p \in Processes, NEW j \in Job, Walks(p, j) PROVE PaidBeforeSend'
  BY <1>2 DEF Walks, PaidBeforeSend
<1>3. CASE UNCHANGED << linked, paid, sends, told >>
  BY <1>3 DEF PaidBeforeSend
<1>4. ASSUME NEW p \in Processes, Send(p) PROVE PaidBeforeSend'
  <2>1. /\ job[p].f \in Fulfillments /\ job[p].pc = "send"
        /\ UNCHANGED << linked, paid >>
        /\ sends' = [sends EXCEPT ![job[p].f] = @ + 1]
    BY <1>4, SendShape
  <2>2. linked[job[p].f] /\ paid[job[p].f] # "no"
    BY <2>1 DEF PayInv
  <2>3. \A f \in Fulfillments : f # job[p].f => sends'[f] = sends[f]
    BY <2>1 DEF TypeOK
  <2> QED
    BY <2>1, <2>2, <2>3 DEF PaidBeforeSend
<1>5. ASSUME NEW p \in Processes, Publish(p) PROVE PaidBeforeSend'
  BY <1>5, PublishShape DEF PaidBeforeSend
<1> QED
  BY <1>1, <1>2, <1>3, <1>4, <1>5, StepShape DEF Shape

LEMMA SendStep == IInv /\ [Next]_vars => SendInv' /\ AtMostOneSend'
<1> SUFFICES ASSUME IInv, [Next]_vars PROVE SendInv' /\ AtMostOneSend'
  OBVIOUS
<1> USE DEF IInv
<1>0. \A q \in Processes : job[q].pc # "idle" => job[q].f \in Fulfillments
  BY BusyJob
<1>1. CASE World
  BY <1>1 DEF World, SendInv, AtMostOneSend
<1>2. ASSUME NEW p \in Processes, NEW j \in Job, Walks(p, j) PROVE SendInv' /\ AtMostOneSend'
  <2>1. job'[p] = j /\ \A q \in Processes : q # p => job'[q] = job[q]
    BY <1>2, OwnJob DEF Walks
  <2>2. j.pc # "send"
    BY <1>2, IdleIsTyped DEF Walks
  <2> QED
    BY <1>2, <2>1, <2>2 DEF Walks, SendInv, AtMostOneSend
<1>3. ASSUME NEW p \in Processes, job[p] \in Job \ { Idle }, job[p].f \in Fulfillments,
             NEW t, NEW pc, Moves(p, t, pc), UNCHANGED << linked, paid, sends, told >>,
             \/ pc # "send" /\ (t \notin Waiting \/ state[job[p].f] \in Waiting)
             \/ pc = "send" /\ t \notin Waiting /\ state[job[p].f] \in Waiting
      PROVE  SendInv' /\ AtMostOneSend'
  <2>1. /\ job'[p] = [job[p] EXCEPT !.pc = pc]
        /\ \A q \in Processes : q # p => job'[q] = job[q]
    BY <1>3, OwnJob DEF Moves
  <2>2. job'[p].pc = pc /\ job'[p].f = job[p].f
    BY <1>3, <2>1 DEF Job
  <2>3. \A f \in Fulfillments : state'[f] \in Waiting => state[f] \in Waiting
    BY <1>3 DEF Moves, TypeOK
  <2>4. pc = "send" => \A q \in Processes : job[q].pc = "send" => job[q].f # job[p].f
    BY <1>3 DEF ClaimInv
  <2>5. AtMostOneSend' /\ \A f \in Fulfillments : state'[f] \in Waiting => sends'[f] = 0
    BY <1>3, <2>3 DEF SendInv, AtMostOneSend
  <2>6. \A q \in Processes : job'[q].pc = "send" => sends'[job'[q].f] = 0
    BY <1>3, <2>1, <2>2 DEF SendInv
  <2>7. \A q, r \in Processes :
          job'[q].pc = "send" /\ job'[r].pc = "send" /\ job'[q].f = job'[r].f => q = r
    <3> SUFFICES ASSUME NEW q \in Processes, NEW r \in Processes, q # r,
                        job'[q].pc = "send", job'[r].pc = "send", job'[q].f = job'[r].f
                 PROVE  FALSE
      OBVIOUS
    <3>1. CASE q = p
      BY <2>1, <2>2, <2>4, <3>1
    <3>2. CASE r = p
      BY <2>1, <2>2, <2>4, <3>2
    <3>3. CASE q # p /\ r # p
      BY <2>1, <3>3 DEF SendInv
    <3> QED
      BY <3>1, <3>2, <3>3
  <2> QED
    BY <2>5, <2>6, <2>7 DEF SendInv
<1>4. ASSUME NEW p \in Processes, Stops(p), UNCHANGED << linked, paid, sends, told >>
      PROVE  SendInv' /\ AtMostOneSend'
  <2>1. job'[p] = Idle /\ \A q \in Processes : q # p => job'[q] = job[q]
    BY <1>4, OwnJob DEF Stops
  <2> QED
    BY <1>4, <2>1, IdleIsTyped DEF Stops, SendInv, AtMostOneSend
<1>5. ASSUME NEW p \in Processes, Send(p) PROVE SendInv' /\ AtMostOneSend'
  <2>1. sends[job[p].f] = 0 /\ state[job[p].f] \notin Waiting
    BY <1>5, SendShape DEF SendInv, ClaimInv
  <2>2. \A q \in Processes : q # p /\ job[q].pc = "send" => job[q].f # job[p].f
    BY <1>5, SendShape DEF SendInv
  <2>3. \A f \in Fulfillments : sends'[f] = IF f = job[p].f THEN 1 ELSE sends[f]
    <3>1. sends' = [sends EXCEPT ![job[p].f] = @ + 1]
      BY <1>5, SendShape
    <3> QED
      BY <2>1, <3>1 DEF TypeOK
  <2>4. /\ job'[p].pc = "wait" /\ state' = state
        /\ \A q \in Processes : q # p => job'[q] = job[q]
    BY <1>5, SendShape
  <2>5. AtMostOneSend' /\ \A f \in Fulfillments : state'[f] \in Waiting => sends'[f] = 0
    BY <2>1, <2>3, <2>4 DEF SendInv, AtMostOneSend
  <2>6. \A q \in Processes : job'[q].pc = "send" => sends'[job'[q].f] = 0
    BY <1>0, <2>2, <2>3, <2>4 DEF SendInv
  <2>7. \A q, r \in Processes :
          job'[q].pc = "send" /\ job'[r].pc = "send" /\ job'[q].f = job'[r].f => q = r
    BY <2>4 DEF SendInv
  <2> QED
    BY <2>5, <2>6, <2>7 DEF SendInv
<1>6. ASSUME NEW p \in Processes, Publish(p) PROVE SendInv' /\ AtMostOneSend'
  <2>1. /\ job'[p] = Idle /\ UNCHANGED << state, sends >>
        /\ \A q \in Processes : q # p => job'[q] = job[q]
    BY <1>6, PublishShape
  <2>2. \A q \in Processes : job'[q].pc = "send" => job'[q] = job[q]
    BY <2>1, IdleIsTyped
  <2> QED
    BY <2>1, <2>2 DEF SendInv, AtMostOneSend
<1> QED
  BY <1>1, <1>2, <1>3, <1>4, <1>5, <1>6, StepShape, Table DEF Shape, Moves, Waiting, Final, TypeOK

LEMMA TellStep == IInv /\ [Next]_vars => TellInv' /\ ToldOnceAndTrue'
<1> SUFFICES ASSUME IInv, [Next]_vars PROVE TellInv' /\ ToldOnceAndTrue'
  OBVIOUS
<1> USE DEF IInv
<1>0. \A q \in Processes : job[q].pc # "idle" => job[q].f \in Fulfillments
  BY BusyJob
<1>1. CASE World
  BY <1>1 DEF World, TellInv, Announcing, ToldOnceAndTrue
<1>2. ASSUME NEW p \in Processes, NEW j \in Job, Walks(p, j)
      PROVE  TellInv' /\ ToldOnceAndTrue'
  <2>1. job'[p] = j /\ \A q \in Processes : q # p => job'[q] = job[q]
    BY <1>2, OwnJob DEF Walks
  <2>2. j.pc # "publish"
    BY <1>2, IdleIsTyped DEF Walks
  <2> QED
    BY <1>2, <2>1, <2>2 DEF Walks, TellInv, Announcing, ToldOnceAndTrue
<1>3. ASSUME NEW p \in Processes, job[p] \in Job \ { Idle }, job[p].f \in Fulfillments,
             NEW t, NEW pc, Moves(p, t, pc), UNCHANGED << linked, paid, sends, told >>,
             state[job[p].f] \notin Final,
             IF pc = "publish" THEN t = job[p].target ELSE t \notin Final
      PROVE  TellInv' /\ ToldOnceAndTrue'
  <2>1. /\ job'[p] = [job[p] EXCEPT !.pc = pc]
        /\ \A q \in Processes : q # p => job'[q] = job[q]
    BY <1>3, OwnJob DEF Moves
  <2>2. job'[p].pc = pc /\ job'[p].f = job[p].f /\ job'[p].target = job[p].target
    BY <1>3, <2>1 DEF Job
  <2>3. \A f \in Fulfillments : state'[f] = IF f = job[p].f THEN t ELSE state[f]
    BY <1>3 DEF Moves, TypeOK
  <2>4. told[job[p].f]["succeeded"] = 0 /\ told[job[p].f]["failed"] = 0
    BY <1>3 DEF TellInv
  <2>5. \A q \in Processes : Announcing(q) => job[q].f # job[p].f
    BY <1>3 DEF TellInv, Announcing
  <2>6. \A f \in Fulfillments :
          state'[f] \notin Final => told'[f]["succeeded"] = 0 /\ told'[f]["failed"] = 0
    BY <1>3, <2>3, <2>4 DEF TellInv
  <2>7. ASSUME NEW q \in Processes, Announcing(q)'
        PROVE  /\ state'[job'[q].f] = job'[q].target
               /\ told'[job'[q].f]["succeeded"] = 0
               /\ told'[job'[q].f]["failed"] = 0
    <3>1. CASE q = p
      BY <1>3, <2>2, <2>3, <2>4, <2>7, <3>1 DEF Announcing
    <3>2. CASE q # p
      <4>1. job'[q] = job[q] /\ Announcing(q)
        BY <2>1, <2>7, <3>2 DEF Announcing
      <4>2. job[q].f \in Fulfillments
        BY <1>0, <4>1 DEF Announcing
      <4> QED
        BY <1>3, <2>3, <2>5, <4>1, <4>2 DEF TellInv
    <3> QED
      BY <3>1, <3>2
  <2>8. ASSUME NEW q \in Processes, NEW r \in Processes, q # r,
               Announcing(q)', Announcing(r)', job'[q].f = job'[r].f
        PROVE  FALSE
    <3>1. CASE q = p
      BY <2>1, <2>2, <2>5, <2>8, <3>1 DEF Announcing
    <3>2. CASE r = p
      BY <2>1, <2>2, <2>5, <2>8, <3>2 DEF Announcing
    <3>3. CASE q # p /\ r # p
      BY <2>1, <2>8, <3>3 DEF TellInv, Announcing
    <3> QED
      BY <3>1, <3>2, <3>3
  <2>9. ToldOnceAndTrue'
    BY <1>3, <2>3, <2>4 DEF ToldOnceAndTrue
  <2> QED
    BY <2>6, <2>7, <2>8, <2>9 DEF TellInv
<1>4. ASSUME NEW p \in Processes, Stops(p), UNCHANGED << linked, paid, sends, told >>
      PROVE  TellInv' /\ ToldOnceAndTrue'
  <2>1. job'[p] = Idle /\ \A q \in Processes : q # p => job'[q] = job[q]
    BY <1>4, OwnJob DEF Stops
  <2> QED
    BY <1>4, <2>1, IdleIsTyped DEF Stops, TellInv, Announcing, ToldOnceAndTrue
<1>5. ASSUME NEW p \in Processes, Send(p) PROVE TellInv' /\ ToldOnceAndTrue'
  <2>1. /\ job'[p].pc = "wait" /\ state' = state /\ told' = told
        /\ \A q \in Processes : q # p => job'[q] = job[q]
    BY <1>5, SendShape
  <2>2. \A q \in Processes : Announcing(q)' => q # p /\ Announcing(q) /\ job'[q] = job[q]
    BY <2>1 DEF Announcing
  <2> QED
    BY <2>1, <2>2 DEF TellInv, ToldOnceAndTrue
<1>6. ASSUME NEW p \in Processes, Publish(p) PROVE TellInv' /\ ToldOnceAndTrue'
  <2>1. /\ job'[p].pc = "idle" /\ state' = state
        /\ \A q \in Processes : q # p => job'[q] = job[q]
    BY <1>6, PublishShape, IdleIsTyped
  <2>2. \A f \in Fulfillments : f # job[p].f => told'[f] = told[f]
    BY <1>6, PublishShape DEF TypeOK
  <2>3. CASE job[p].target \notin Final
    <3>1. KindOf[job[p].target] = "review"
      BY <1>6, <2>3, PublishShape DEF KindOf, Final, Job
    <3>2. told' = [told EXCEPT ![job[p].f][KindOf[job[p].target]] = @ + 1]
      BY <1>6, PublishShape
    <3>3. \A f \in Fulfillments : told[f] \in [Kinds -> Nat]
      BY DEF TypeOK
    <3>4. \A f \in Fulfillments : /\ told'[f]["succeeded"] = told[f]["succeeded"]
                                 /\ told'[f]["failed"] = told[f]["failed"]
      BY <3>1, <3>2, <3>3 DEF TypeOK, Kinds
    <3> QED
      BY <1>0, <2>1, <3>4 DEF TellInv, Announcing, ToldOnceAndTrue
  <2>4. CASE job[p].target \in Final
    <3>1. /\ state[job[p].f] = job[p].target
          /\ told[job[p].f]["succeeded"] = 0 /\ told[job[p].f]["failed"] = 0
          /\ \A q \in Processes : q # p /\ Announcing(q) => job[q].f # job[p].f
      BY <1>6, <2>4, PublishShape DEF TellInv, Announcing
    <3>2. /\ job[p].target = "SUCCEEDED" => KindOf[job[p].target] = "succeeded"
          /\ job[p].target = "FAILED" => KindOf[job[p].target] = "failed"
      BY DEF KindOf
    <3>3. told'[job[p].f] = [told[job[p].f] EXCEPT ![KindOf[job[p].target]] = @ + 1]
      <4>1. told' = [told EXCEPT ![job[p].f][KindOf[job[p].target]] = @ + 1]
        BY <1>6, PublishShape
      <4>2. job[p].f \in Fulfillments
        BY <1>6, PublishShape
      <4> QED
        BY <4>1, <4>2 DEF TypeOK
    <3>4. /\ job[p].target = "SUCCEEDED" => /\ told'[job[p].f]["succeeded"] = 1
                                           /\ told'[job[p].f]["failed"] = 0
          /\ job[p].target = "FAILED" => /\ told'[job[p].f]["succeeded"] = 0
                                        /\ told'[job[p].f]["failed"] = 1
      <4>1. told[job[p].f] \in [Kinds -> Nat]
        BY <1>6, PublishShape DEF TypeOK
      <4> QED
        BY <3>1, <3>2, <3>3, <4>1 DEF Kinds
    <3>5. ToldOnceAndTrue'
      BY <2>1, <2>2, <2>4, <3>1, <3>4 DEF ToldOnceAndTrue, Final
    <3>6. \A f \in Fulfillments :
            state'[f] \notin Final => told'[f]["succeeded"] = 0 /\ told'[f]["failed"] = 0
      BY <2>1, <2>2, <2>4, <3>1 DEF TellInv
    <3>7. \A q \in Processes : Announcing(q)' => q # p /\ Announcing(q) /\ job'[q] = job[q]
      BY <2>1 DEF Announcing
    <3> QED
      BY <1>0, <2>1, <2>2, <3>1, <3>5, <3>6, <3>7 DEF TellInv, Announcing
  <2> QED
    BY <2>3, <2>4
<1> QED
  BY <1>1, <1>2, <1>3, <1>4, <1>5, <1>6, StepShape, Table DEF Shape, Moves, Final, TypeOK

-----------------------------------------------------------------------------
(* The theorems.                                                             *)

LEMMA InitHolds == Init => IInv
  BY TypeInit, IdleIsTyped
     DEF Init, IInv, ClaimInv, PayInv, PaidBeforeSend, SendInv, AtMostOneSend,
         TellInv, Announcing, ToldOnceAndTrue, Final, Kinds

LEMMA StepHolds == IInv /\ [Next]_vars => IInv'
  BY TypeStep, ClaimStep, PayStep, PaidStep, SendStep, TellStep DEF IInv

LEMMA Invariance == Spec => []IInv
  BY InitHolds, StepHolds, PTL DEF Spec

\* However many executions, repetitions and reviews of a topup overlap, and
\* whatever crashes, the operator is asked for it once (AtMostOneSend).
THEOREM OneRequest == Spec => []AtMostOneSend
<1>1. IInv => AtMostOneSend
  BY DEF IInv
<1> QED
  BY <1>1, Invariance, PTL

\* The operator is asked only for topups whose order was paid (PaidBeforeSend).
THEOREM MoneyFirst == Spec => []PaidBeforeSend
<1>1. IInv => PaidBeforeSend
  BY DEF IInv
<1> QED
  BY <1>1, Invariance, PTL

\* Payments is told at most one outcome, and it is the state of the topup
\* (ToldOnceAndTrue).
THEOREM OneTruth == Spec => []ToldOnceAndTrue
<1>1. IInv => ToldOnceAndTrue
  BY DEF IInv
<1> QED
  BY <1>1, Invariance, PTL

-----------------------------------------------------------------------------
(* The service keeps the contract of module Delivery.                        *)

\* A change at one topup of a function of the topups.
LEMMA AtOne ==
  ASSUME NEW f \in Fulfillments, NEW v, PhaseOf(f)' = v,
         \A g \in Fulfillments : g # f => PhaseOf(g)' = PhaseOf(g)
  PROVE  Phase' = [Phase EXCEPT ![f] = v]
  BY DEF Phase

LEMMA PhaseStays ==
  ASSUME NEW g \in Fulfillments, state'[g] = state[g], paid'[g] = "no" <=> paid[g] = "no"
  PROVE  PhaseOf(g)' = PhaseOf(g)
  BY DEF PhaseOf

LEMMA AllStay ==
  ASSUME UNCHANGED << state, sends, told >>,
         \A g \in Fulfillments : paid'[g] = "no" <=> paid[g] = "no"
  PROVE  UNCHANGED << Phase, Requested, Told >>
<1>1. \A g \in Fulfillments : PhaseOf(g)' = PhaseOf(g)
  BY PhaseStays
<1> QED
  BY <1>1 DEF Phase, Requested, Told, ToldOf

ContractStep == Contract!Next \/ UNCHANGED << Phase, Requested, Told >>

LEMMA WorldRefines ==
  ASSUME TypeOK, NEW f \in Fulfillments, Payments(f) \/ ProviderFinishes(f)
  PROVE  ContractStep
<1>1. CASE LinkOrder(f) \/ ProviderFinishes(f)
  BY <1>1, AllStay DEF LinkOrder, ProviderFinishes, ContractStep
<1>2. CASE OrderWithdrawn(f)
  BY <1>2, AllStay DEF OrderWithdrawn, TypeOK, ContractStep
<1>3. CASE OrderPaid(f) /\ (paid[f] # "no")
  BY <1>3, AllStay DEF OrderPaid, TypeOK, ContractStep
<1>4. CASE OrderPaid(f) /\ paid[f] = "no"
  <2>1. /\ paid'[f] = "yes" /\ UNCHANGED << state, sends, told >>
        /\ \A g \in Fulfillments : g # f => paid'[g] = paid[g]
    BY <1>4 DEF OrderPaid, TypeOK
  <2>2. \A g \in Fulfillments : g # f => PhaseOf(g)' = PhaseOf(g)
    BY <2>1, PhaseStays
  <2>3. UNCHANGED << Requested, Told >>
    BY <2>1 DEF Requested, Told, ToldOf
  <2>4. CASE state[f] \in Waiting
    <3>1. Phase[f] = "unpaid" /\ PhaseOf(f)' = "paid"
      BY <1>4, <2>1, <2>4 DEF Phase, PhaseOf, Waiting
    <3>2. Phase' = [Phase EXCEPT ![f] = "paid"]
      BY <2>2, <3>1, AtOne
    <3> QED
      BY <2>3, <3>1, <3>2 DEF Contract!Pay, Contract!Next, ContractStep
  <2>5. CASE state[f] \notin Waiting
    <3>1. PhaseOf(f)' = PhaseOf(f)
      BY <2>1, <2>5 DEF PhaseOf, Waiting, TypeOK, FulfillmentState
    <3> QED
      BY <2>2, <2>3, <3>1 DEF Phase, ContractStep
  <2> QED
    BY <2>4, <2>5
<1> QED
  BY <1>1, <1>2, <1>3, <1>4 DEF Payments

LEMMA MoveRefines ==
  ASSUME IInv, NEW p \in Processes, NEW t, NEW pc, Moves(p, t, pc),
         NEW f \in Fulfillments, job[p].f = f, UNCHANGED << paid, sends, told >>,
         \/ t = "QUEUED"
         \/ t = "SENT" /\ paid[f] # "no"
         \/ t \in Final \cup { "UNDER_REVIEW" } /\ state[f] \notin Waiting
  PROVE  ContractStep
<1> USE DEF IInv
<1>1. /\ CanMoveFulfillment(state[f], t) /\ state[f] \in FulfillmentState /\ state'[f] = t
      /\ \A g \in Fulfillments : g # f => state'[g] = state[g]
  BY DEF Moves, TypeOK
<1>2. \A g \in Fulfillments : g # f => PhaseOf(g)' = PhaseOf(g)
  BY <1>1, PhaseStays
<1>3. UNCHANGED << Requested, Told >>
  BY DEF Requested, Told, ToldOf
<1>4. CASE t \in { "QUEUED", "UNDER_REVIEW" }
  <2>1. PhaseOf(f)' = PhaseOf(f)
    BY <1>1, <1>4, Table DEF PhaseOf, Waiting
  <2> QED
    BY <1>2, <1>3, <2>1 DEF Phase, ContractStep
<1>5. CASE t = "SENT"
  <2>1. Phase[f] = "paid" /\ PhaseOf(f)' = "sent"
    BY <1>1, <1>5, Table DEF Phase, PhaseOf, Waiting
  <2>2. Phase' = [Phase EXCEPT ![f] = "sent"]
    BY <1>2, <2>1, AtOne
  <2> QED
    BY <1>3, <2>1, <2>2 DEF Contract!Claim, Contract!Next, ContractStep
<1>6. CASE t \in Final
  <2>1. Phase[f] = "sent" /\ PhaseOf(f)' \in { "succeeded", "failed" }
    BY <1>1, <1>6, Table DEF Phase, PhaseOf, Final, Waiting, FulfillmentState
  <2>2. Phase' = [Phase EXCEPT ![f] = PhaseOf(f)']
    BY <1>2, AtOne
  <2>3. Contract!Finish(f, PhaseOf(f)')
    BY <1>3, <2>1, <2>2 DEF Contract!Finish
  <2> QED
    BY <2>1, <2>3 DEF Contract!Next, ContractStep
<1> QED
  BY <1>4, <1>5, <1>6 DEF Final

LEMMA SendRefines ==
  ASSUME IInv, NEW p \in Processes, Send(p)
  PROVE  ContractStep
<1> USE DEF IInv
<1> PICK f \in Fulfillments : f = job[p].f
  BY SendShape
<1>1. /\ f \in Fulfillments /\ UNCHANGED << state, paid, told >>
      /\ sends' = [sends EXCEPT ![f] = @ + 1]
      /\ sends[f] = 0 /\ state[f] \notin Waiting
  BY SendShape DEF SendInv, ClaimInv
<1>2. UNCHANGED << Phase, Told >>
  BY <1>1 DEF Phase, PhaseOf, Told, ToldOf
<1>3. Phase[f] \notin { "unpaid", "paid" }
  BY <1>1 DEF Phase, PhaseOf, Waiting, TypeOK, FulfillmentState
<1>4. f \notin Requested /\ Requested' = Requested \cup { f }
  <2>1. \A g \in Fulfillments : sends'[g] > 0 <=> (g = f \/ sends[g] > 0)
    BY <1>1 DEF TypeOK
  <2>2. ~ (sends[f] > 0)
    BY <1>1
  <2> QED
    BY <2>1, <2>2 DEF Requested
<1> QED
  BY <1>1, <1>2, <1>3, <1>4 DEF Contract!Request, Contract!Next, ContractStep

LEMMA PublishRefines ==
  ASSUME IInv, NEW p \in Processes, Publish(p)
  PROVE  ContractStep
<1> USE DEF IInv
<1> PICK f \in Fulfillments : f = job[p].f
  BY PublishShape
<1> PICK k : k = KindOf[job[p].target]
  OBVIOUS
<1>1. /\ f \in Fulfillments /\ UNCHANGED << state, paid, sends >>
      /\ told' = [told EXCEPT ![f][k] = @ + 1]
  BY PublishShape
<1>2. UNCHANGED << Phase, Requested >>
  BY <1>1 DEF Phase, PhaseOf, Requested
<1>3. \A g \in Fulfillments : told[g] \in [Kinds -> Nat]
  BY DEF TypeOK
<1>4. job[p].target \in Final \cup { "UNDER_REVIEW" }
  BY PublishShape DEF Job, Final
<1>5. CASE job[p].target = "UNDER_REVIEW"
  <2>1. k = "review"
    BY <1>5 DEF KindOf
  <2>2. \A g \in Fulfillments : ToldOf(g)' = ToldOf(g)
    BY <1>1, <1>3, <2>1 DEF ToldOf, Kinds
  <2> QED
    BY <1>2, <2>2 DEF Told, ContractStep
<1>6. CASE job[p].target \in Final
  <2>1. /\ state[f] = job[p].target
        /\ told[f]["succeeded"] = 0 /\ told[f]["failed"] = 0
    BY <1>6, PublishShape DEF TellInv, Announcing
  <2>2. Told[f] = "nothing" /\ Phase[f] \in { "succeeded", "failed" } /\ Phase[f] = k
    <3>1. Told[f] = "nothing"
      BY <1>1, <2>1 DEF Told, ToldOf
    <3>2. /\ job[p].target = "SUCCEEDED" => k = "succeeded"
          /\ job[p].target = "FAILED" => k = "failed"
      BY DEF KindOf
    <3>3. /\ state[f] = "SUCCEEDED" => Phase[f] = "succeeded"
          /\ state[f] = "FAILED" => Phase[f] = "failed"
      BY <1>1 DEF Phase, PhaseOf, Waiting
    <3> QED
      BY <1>6, <2>1, <3>1, <3>2, <3>3 DEF Final
  <2>3. told'[f] = [told[f] EXCEPT ![k] = @ + 1]
    BY <1>1, <1>3 DEF TypeOK
  <2>4. ToldOf(f)' = k
    BY <1>1, <1>3, <2>1, <2>2, <2>3 DEF ToldOf, Kinds
  <2>5. \A g \in Fulfillments : g # f => ToldOf(g)' = ToldOf(g)
    BY <1>1 DEF ToldOf
  <2>6. Told' = [Told EXCEPT ![f] = Phase[f]]
    BY <1>1, <2>2, <2>4, <2>5 DEF Told
  <2> QED
    BY <1>1, <1>2, <2>2, <2>6 DEF Contract!Tell, Contract!Next, ContractStep
<1> QED
  BY <1>4, <1>5, <1>6

LEMMA StepRefines == IInv /\ [Next]_vars => ContractStep
<1> SUFFICES ASSUME IInv, [Next]_vars PROVE ContractStep
  OBVIOUS
<1> USE DEF IInv
<1>1. CASE UNCHANGED vars
  BY <1>1, AllStay DEF vars, ContractStep
<1>2. ASSUME NEW f \in Fulfillments, Payments(f) \/ ProviderFinishes(f) PROVE ContractStep
  BY <1>2, WorldRefines
<1>3. ASSUME NEW p \in Processes, Stops(p), UNCHANGED << paid, sends, told >>
      PROVE  ContractStep
  BY <1>3, AllStay DEF Stops, ContractStep
<1>4. ASSUME NEW p \in Processes, NEW j \in Job, Walks(p, j) PROVE ContractStep
  BY <1>4, AllStay DEF Walks, ContractStep
<1>5. ASSUME NEW p \in Processes, NEW f \in Fulfillments, Asking(p, f) \/ SelectPending(p, f)
      PROVE  ContractStep
  <2>1. PICK j \in Job : Walks(p, j)
    BY <1>5, AskingShape
  <2> QED
    BY <1>4, <2>1
<1>6. ASSUME NEW p \in Processes, QueueIt(p) \/ MarkSent(p) \/ Close(p)
      PROVE  ContractStep
  <2>1. CASE QueueIt(p)
    BY <1>3, <2>1, QueueItShape, MoveRefines
  <2>2. CASE MarkSent(p)
    <3>1. /\ job[p].f \in Fulfillments /\ UNCHANGED << linked, paid, sends, told >>
          /\ paid[job[p].f] # "no"
          /\ Moves(p, "SENT", "send") \/ Stops(p)
      BY <2>2, MarkSentShape DEF PayInv
    <3> QED
      BY <1>3, <3>1, MoveRefines
  <2>3. CASE Close(p)
    <3>1. /\ job[p].f \in Fulfillments /\ UNCHANGED << linked, paid, sends, told >>
          /\ job[p].target \in Final \cup { "UNDER_REVIEW" } /\ state[job[p].f] \notin Waiting
          /\ Moves(p, job[p].target, "publish") \/ Stops(p)
      BY <2>3, CloseShape DEF ClaimInv
    <3> QED
      BY <1>3, <3>1, MoveRefines
  <2> QED
    BY <1>6, <2>1, <2>2, <2>3
<1>7. ASSUME NEW p \in Processes, Executing(p) \/ Reviewing(p) \/ Ending(p)
      PROVE  ContractStep
  <2>1. CASE \E j \in Job : Walks(p, j)
    BY <1>4, <2>1
  <2>2. CASE QueueIt(p) \/ MarkSent(p) \/ Close(p)
    BY <1>6, <2>2
  <2>3. CASE Send(p)
    BY <2>3, SendRefines
  <2>4. CASE Publish(p)
    BY <2>4, PublishRefines
  <2> QED
    BY <1>7, <2>1, <2>2, <2>3, <2>4, ProcessShape
<1> QED
  BY <1>1, <1>2, <1>5, <1>7 DEF Next

LEMMA InitRefines == Init => Contract!Init
<1> SUFFICES ASSUME Init PROVE Contract!Init
  OBVIOUS
<1>1. \A f \in Fulfillments : PhaseOf(f) = "unpaid"
  BY DEF Init, PhaseOf, Waiting
<1>2. \A f \in Fulfillments : ToldOf(f) = "nothing"
  BY DEF Init, ToldOf, Kinds
<1>3. \A f \in Fulfillments : ~ (sends[f] > 0)
  BY DEF Init
<1>4. Requested = {}
  BY <1>3 DEF Requested
<1> QED
  BY <1>1, <1>2, <1>4 DEF Contract!Init, Phase, Told

\* What the topups service does, seen as phases, requests and outcomes, is
\* what payments counts on (KeepsContract): paid before it is requested,
\* requested once, and told as it ended.
THEOREM Refinement == Spec => KeepsContract
<1>1. IInv /\ [Next]_vars => [Contract!Next]_<< Phase, Requested, Told >>
  BY StepRefines DEF ContractStep
<1> QED
  BY <1>1, InitRefines, Invariance, PTL DEF Spec, KeepsContract, Contract!Spec

-----------------------------------------------------------------------------
(* The truth.  A job that concludes has seen what the operator did for good, *)
(* or knows that the only request there will ever be did not reach it, or    *)
(* its topup is one that an answer misled the service about.                 *)

Truthful(f, t) ==
  f \notin misled =>
    /\ t = "SUCCEEDED" => provider[f] = "delivered"
    /\ t = "FAILED" => provider[f] = "rejected" \/ (provider[f] = "none" /\ sends[f] > 0)

TruthInv ==
  /\ \A f \in Fulfillments : sends[f] = 0 => provider[f] = "none"
  /\ \A p \in Processes : job[p].pc = "wait" => sends[job[p].f] > 0
  /\ \A p \in Processes : job[p].pc = "close" => Truthful(job[p].f, job[p].target)
  /\ \A f \in Fulfillments : Truthful(f, state[f])

LEMMA TruthInit == Init => TruthInv
  BY DEF Init, TruthInv, Truthful, Idle

\* A request changes what the operator did once, and the operator ends only what
\* it had accepted.
LEMMA ProviderMoves ==
  ASSUME IInv, TruthInv, [Next]_vars, NEW f \in Fulfillments
  PROVE  /\ \/ provider'[f] = provider[f]
            \/ provider[f] = "accepted" /\ provider'[f] \in { "delivered", "rejected" }
            \/ sends[f] = 0
         /\ sends'[f] = 0 => provider'[f] = "none" /\ sends[f] = 0
         /\ sends[f] > 0 => sends'[f] > 0
<1> USE DEF IInv
<1>0. sends[f] \in Nat /\ TypeOK
  BY DEF TypeOK
<1>1. CASE UNCHANGED << provider, sends >>
  BY <1>0, <1>1 DEF TruthInv
<1>2. ASSUME NEW p \in Processes, Send(p)
      PROVE  /\ provider'[f] = provider[f] \/ sends[f] = 0
             /\ sends'[f] = 0 => provider'[f] = "none" /\ sends[f] = 0
             /\ sends[f] > 0 => sends'[f] > 0
  <2>1. sends[job[p].f] = 0 /\ job[p].f \in Fulfillments
    BY <1>2, SendShape DEF SendInv, Send
  <2>2. \A g \in Fulfillments : g # job[p].f => provider'[g] = provider[g] /\ sends'[g] = sends[g]
    BY <1>2 DEF Send, TypeOK
  <2>3. sends'[job[p].f] = 1
    BY <1>2, <2>1 DEF Send, TypeOK
  <2> QED
    BY <1>0, <2>1, <2>2, <2>3 DEF TruthInv
<1>3. ASSUME NEW g \in Fulfillments, ProviderFinishes(g)
      PROVE  /\ \/ provider'[f] = provider[f]
                \/ provider[f] = "accepted" /\ provider'[f] \in { "delivered", "rejected" }
             /\ sends'[f] = sends[f]
  <2>1. PICK s \in { "delivered", "rejected" } : provider' = [provider EXCEPT ![g] = s]
    BY <1>3 DEF ProviderFinishes
  <2>2. provider[g] = "accepted" /\ UNCHANGED sends
    BY <1>3 DEF ProviderFinishes
  <2> QED
    BY <1>0, <2>1, <2>2 DEF TypeOK
<1>4. \/ UNCHANGED << provider, sends >>
      \/ \E p \in Processes : Send(p)
      \/ \E g \in Fulfillments : ProviderFinishes(g)
  BY DEF Next, vars, Payments, OrderPaid, OrderWithdrawn, LinkOrder,
         Asking, HandleOrderPaid, Recover, RunTask, RunView, SelectPending,
         Executing, Enqueue, CheckPaid, CheckFails, QueueIt, NotReady, MarkSent,
         AnswerPending, AnswerFinal, AnswerLost, AnswerTransient,
         Reviewing, QueryAnswers, QueryMisleads, QueryUnknown, Ending, Close, Publish, Crash
<1> QED
  BY <1>0, <1>1, <1>2, <1>3, <1>4 DEF TruthInv

\* What misled the service once is not forgotten.
LEMMA MisledStays == ASSUME [Next]_vars PROVE misled \subseteq misled'
  BY DEF Next, vars, Payments, OrderPaid, OrderWithdrawn, LinkOrder, ProviderFinishes,
         Asking, HandleOrderPaid, Recover, RunTask, RunView, SelectPending,
         Executing, Enqueue, CheckPaid, CheckFails, QueueIt, NotReady, MarkSent, Send,
         AnswerPending, AnswerFinal, AnswerLost, AnswerTransient,
         Reviewing, QueryAnswers, QueryMisleads, QueryUnknown, Ending, Close, Publish, Crash

LEMMA TruthStays ==
  ASSUME IInv, TruthInv, [Next]_vars, NEW f \in Fulfillments, NEW t, Truthful(f, t)
  PROVE  Truthful(f, t)'
<1>1. sends[f] \in Nat
  BY DEF IInv, TypeOK
<1> QED
  BY <1>1, ProviderMoves, MisledStays DEF Truthful, TruthInv

\* A process that comes to a conclusion in this step has evidence for it, or
\* was told something else than what happened.
LEMMA Concludes ==
  ASSUME IInv, TruthInv, NEW p \in Processes,
         \/ AnswerFinal(p) \/ AnswerLost(p) \/ AnswerTransient(p)
         \/ QueryAnswers(p) \/ QueryMisleads(p)
  PROVE  \E t \in { "SUCCEEDED", "FAILED", "UNDER_REVIEW" } :
           /\ job' = [job EXCEPT ![p] = [job[p] EXCEPT !.pc = "close", !.target = t]]
           /\ Truthful(job[p].f, t) \/ job[p].f \in misled'
           /\ job[p] \in Job \ { Idle } /\ job[p].f \in Fulfillments
<1> USE DEF IInv
<1>1. job[p].pc \in { "wait", "query" } /\ job[p] \in Job \ { Idle } /\ job[p].f \in Fulfillments
  BY BusyJob DEF AnswerFinal, AnswerLost, AnswerTransient, QueryAnswers, QueryMisleads
<1>2. ASSUME NEW t, Conclude(p, t)
      PROVE  job' = [job EXCEPT ![p] = [job[p] EXCEPT !.pc = "close", !.target = t]]
  BY <1>2 DEF Conclude, TypeOK
<1>3. CASE AnswerFinal(p)
  BY <1>1, <1>2, <1>3 DEF AnswerFinal, Truthful
<1>4. CASE AnswerLost(p)
  BY <1>1, <1>2, <1>4 DEF AnswerLost, Truthful
<1>5. CASE AnswerTransient(p)
  <2>1. Truthful(job[p].f, "FAILED") \/ job[p].f \in misled'
    <3>1. sends[job[p].f] > 0 /\ provider[job[p].f] \in { "none", "accepted", "delivered", "rejected" }
      BY <1>1, <1>5 DEF AnswerTransient, TruthInv, TypeOK
    <3> QED
      BY <1>5, <3>1 DEF AnswerTransient, Truthful
  <2> QED
    BY <1>1, <1>2, <1>5, <2>1 DEF AnswerTransient
<1>6. CASE QueryAnswers(p)
  BY <1>1, <1>2, <1>6 DEF QueryAnswers, Evidence, Truthful
<1>7. CASE QueryMisleads(p)
  BY <1>1, <1>2, <1>7 DEF QueryMisleads
<1> QED
  BY <1>3, <1>4, <1>5, <1>6, <1>7

\* The jobs and the topups a step leaves alone keep the truth.
LEMMA TruthKept ==
  ASSUME IInv, TruthInv, [Next]_vars,
         \A f \in Fulfillments : Truthful(f, state'[f]),
         \A q \in Processes :
           \/ job'[q] = job[q]
           \/ job'[q].pc \notin { "wait", "close" }
           \/ job'[q].pc = "wait" /\ job'[q].f \in Fulfillments /\ sends'[job'[q].f] > 0
           \/ /\ job'[q].pc = "close" /\ job'[q].f \in Fulfillments
              /\ Truthful(job'[q].f, job'[q].target) \/ job'[q].f \in misled'
  PROVE  TruthInv'
<1>1. \A f \in Fulfillments :
        /\ sends'[f] = 0 => provider'[f] = "none"
        /\ sends[f] > 0 => sends'[f] > 0
  BY ProviderMoves
<1>2. \A f \in Fulfillments : \A t : Truthful(f, t) => Truthful(f, t)'
  BY TruthStays
<1>3. \A f \in Fulfillments : Truthful(f, state[f])'
  BY <1>2 DEF Truthful
<1>4. \A q \in Processes : job[q].pc # "idle" => job[q].f \in Fulfillments
  BY BusyJob DEF IInv
<1>5. ASSUME NEW q \in Processes, job'[q].pc = "wait" PROVE sends'[job'[q].f] > 0
  BY <1>1, <1>4, <1>5 DEF TruthInv
<1>6. ASSUME NEW q \in Processes, job'[q].pc = "close" PROVE Truthful(job[q].f, job[q].target)'
  <2>1. /\ job'[q].f \in Fulfillments
        /\ Truthful(job'[q].f, job'[q].target) \/ job'[q].f \in misled'
    BY <1>4, <1>6 DEF TruthInv
  <2>2. PICK f \in Fulfillments : f = job'[q].f
    BY <2>1
  <2>3. PICK t : t = job'[q].target
    OBVIOUS
  <2> QED
    BY <1>2, <2>1, <2>2, <2>3 DEF Truthful
<1> QED
  BY <1>1, <1>3, <1>5, <1>6 DEF TruthInv

LEMMA TruthStep ==
  ASSUME IInv, TruthInv, [Next]_vars
  PROVE  TruthInv'
<1> USE DEF IInv
<1>0. TypeOK /\ \A q \in Processes : job[q].pc # "idle" => job[q].f \in Fulfillments
  BY BusyJob
<1> DEFINE Fine(q) ==
             \/ job'[q] = job[q]
             \/ job'[q].pc \notin { "wait", "close" }
             \/ job'[q].pc = "wait" /\ job'[q].f \in Fulfillments /\ sends'[job'[q].f] > 0
             \/ /\ job'[q].pc = "close" /\ job'[q].f \in Fulfillments
                /\ Truthful(job'[q].f, job'[q].target) \/ job'[q].f \in misled'
\* A topup that did not move, or moved to where no outcome is claimed.
<1>1. ASSUME UNCHANGED state PROVE \A f \in Fulfillments : Truthful(f, state'[f])
  BY <1>1 DEF TruthInv
<1>2. CASE UNCHANGED << state, job >>
  BY <1>1, <1>2, TruthKept
<1>3. ASSUME NEW p \in Processes, NEW j, j.pc \notin { "wait", "close" }, UNCHANGED state,
             job' = [job EXCEPT ![p] = j]
      PROVE  TruthInv'
  <2>1. \A q \in Processes : Fine(q)
    BY <1>0, <1>3, OwnJob
  <2> QED
    BY <1>1, <1>3, <2>1, TruthKept
<1>4. ASSUME NEW p \in Processes, NEW t, NEW pc, Moves(p, t, pc), job[p] \in Job \ { Idle },
             job[p].f \in Fulfillments, Truthful(job[p].f, t), pc \notin { "wait", "close" }
      PROVE  TruthInv'
  <2>1. \A q \in Processes : Fine(q)
    <3>1. job'[p] = [job[p] EXCEPT !.pc = pc] /\ \A q \in Processes : q # p => job'[q] = job[q]
      BY <1>4, OwnJob DEF Moves
    <3>2. job'[p].pc = pc
      BY <1>4, <3>1 DEF Job
    <3> QED
      BY <1>4, <3>1, <3>2
  <2>2. \A f \in Fulfillments : Truthful(f, state'[f])
    <3>1. \A f \in Fulfillments : state'[f] = IF f = job[p].f THEN t ELSE state[f]
      BY <1>0, <1>4 DEF Moves, TypeOK
    <3> QED
      BY <1>4, <3>1 DEF TruthInv
  <2> QED
    BY <2>1, <2>2, TruthKept
<1>5. ASSUME NEW p \in Processes, Stops(p) PROVE TruthInv'
  BY <1>3, <1>5, IdleIsTyped DEF Stops
<1>6. ASSUME NEW p \in Processes, Send(p) PROVE TruthInv'
  <2>1. /\ job[p].f \in Fulfillments /\ job'[p].pc = "wait" /\ job'[p].f = job[p].f
        /\ \A q \in Processes : q # p => job'[q] = job[q]
        /\ UNCHANGED state /\ sends' = [sends EXCEPT ![job[p].f] = @ + 1]
    BY <1>0, <1>6, SendShape
  <2>2. sends'[job[p].f] > 0
    BY <1>0, <2>1 DEF TypeOK
  <2>3. \A q \in Processes : Fine(q)
    BY <2>1, <2>2
  <2> QED
    BY <1>1, <2>1, <2>3, TruthKept
<1>7. ASSUME NEW p \in Processes,
             \/ AnswerFinal(p) \/ AnswerLost(p) \/ AnswerTransient(p)
             \/ QueryAnswers(p) \/ QueryMisleads(p)
      PROVE  TruthInv'
  <2>1. PICK t \in { "SUCCEEDED", "FAILED", "UNDER_REVIEW" } :
          /\ job' = [job EXCEPT ![p] = [job[p] EXCEPT !.pc = "close", !.target = t]]
          /\ Truthful(job[p].f, t) \/ job[p].f \in misled'
          /\ job[p] \in Job \ { Idle } /\ job[p].f \in Fulfillments
    BY <1>7, Concludes
  <2> DEFINE j == [job[p] EXCEPT !.pc = "close", !.target = t]
  <2>2. job'[p] = j /\ \A q \in Processes : q # p => job'[q] = job[q]
    BY <1>0, <2>1, OwnJob
  <2>3. j.pc = "close" /\ j.f = job[p].f /\ j.target = t
    BY <2>1 DEF Job
  <2> HIDE DEF j
  <2>4. UNCHANGED state
    BY <1>7 DEF AnswerFinal, AnswerLost, AnswerTransient, QueryAnswers, QueryMisleads
  <2>5. \A q \in Processes : Fine(q)
    BY <2>1, <2>2, <2>3
  <2> QED
    BY <1>1, <2>4, <2>5, TruthKept
<1>8. ASSUME NEW p \in Processes, QueueIt(p) \/ MarkSent(p) \/ Close(p) PROVE TruthInv'
  <2>1. CASE QueueIt(p)
    BY <1>0, <1>4, <1>5, <2>1, QueueItShape DEF Truthful
  <2>2. CASE MarkSent(p)
    BY <1>0, <1>4, <1>5, <2>2, MarkSentShape DEF Truthful
  <2>3. CASE Close(p)
    BY <1>0, <1>4, <1>5, <2>3, CloseShape DEF TruthInv
  <2> QED
    BY <1>8, <2>1, <2>2, <2>3
<1>9. ASSUME NEW p \in Processes, NEW f \in Fulfillments, Asking(p, f) \/ SelectPending(p, f)
      PROVE  TruthInv'
  <2>1. PICK j \in Job : Walks(p, j)
    BY <1>0, <1>9, AskingShape
  <2>2. UNCHANGED state /\ (job' = job \/ job'[p].pc \in { "enqueue", "check", "query" })
    <3>1. ASSUME NEW pc, Begin(p, pc, f) PROVE job'[p].pc = pc
      BY <1>0, <3>1 DEF Begin, Idle, TypeOK
    <3>2. ASSUME NEW task, Execute(p, f, task) PROVE job'[p].pc = "check"
      BY <1>0, <3>2 DEF Execute, Idle, TypeOK
    <3> QED
      BY <1>9, <3>1, <3>2 DEF Asking, HandleOrderPaid, Recover, RunTask, RunView, SelectPending
  <2>3. job'[p] = j
    BY <1>0, <2>1, OwnJob DEF Walks
  <2> QED
    BY <1>2, <1>3, <2>1, <2>2, <2>3 DEF Walks
<1>10. ASSUME NEW p \in Processes,
              \/ Enqueue(p) \/ CheckPaid(p) \/ CheckFails(p) \/ NotReady(p) \/ AnswerPending(p)
              \/ QueryUnknown(p) \/ Publish(p) \/ Crash(p)
       PROVE  TruthInv'
  <2>1. CASE CheckPaid(p)
    <3>1. PICK pc \in { "queue", "mark" } : job' = [job EXCEPT ![p] = [job[p] EXCEPT !.pc = pc]]
      BY <1>0, <2>1 DEF CheckPaid, Goto, TypeOK
    <3>2. [job[p] EXCEPT !.pc = pc].pc = pc /\ UNCHANGED state
      BY <1>0, <2>1, BusyJob DEF CheckPaid, Job
    <3> QED
      BY <1>3, <3>1, <3>2
  <2>2. CASE ~ CheckPaid(p)
    <3>1. Leave(p) /\ UNCHANGED state
      BY <1>10, <2>2 DEF Enqueue, CheckFails, NotReady, AnswerPending, QueryUnknown, Publish, Crash
    <3> QED
      BY <1>3, <3>1, IdleIsTyped DEF Leave
  <2> QED
    BY <2>1, <2>2
<1>11. ASSUME NEW f \in Fulfillments, Payments(f) \/ ProviderFinishes(f) PROVE TruthInv'
  BY <1>0, <1>2, <1>11, WorldShape DEF World
<1>12. CASE UNCHANGED vars
  BY <1>2, <1>12 DEF vars
<1> QED
  BY <1>6, <1>7, <1>8, <1>9, <1>10, <1>11, <1>12 DEF Next, Executing, Reviewing, Ending

LEMMA TruthImplies == IInv /\ TruthInv => ClosedWithTheTruth
  BY DEF TruthInv, Truthful, ClosedWithTheTruth

\* Whoever closes a topup, the execution that sent it or a sweep that knows nothing
\* of that execution, closes it with what the operator did and will not change,
\* whatever crashes and repeats, unless the operator itself answered about this
\* topup something else than what it did.
THEOREM ClosedTruthfully == Spec => []ClosedWithTheTruth
<1>1. IInv /\ TruthInv /\ [Next]_vars => TruthInv'
  BY TruthStep
<1> QED
  BY <1>1, Invariance, TruthInit, TruthImplies, PTL DEF Spec
=============================================================================
