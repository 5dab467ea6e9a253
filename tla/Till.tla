-------------------------------- MODULE Till --------------------------------
(* The counter after the sale: an order is paid in cash (two keyed calls, to *)
(* begin the payment and to confirm it with what the customer gave), and     *)
(* then its topup is executed with a keyed call of its own.  The keys name   *)
(* the order, so every click and every retry of a step has the same one.     *)
(*                                                                           *)
(* It runs beside Sale, with the same keyed calls.  The two desks share no   *)
(* row: a behaviour has one of them open.                                    *)
EXTENDS Sale

CONSTANTS Total,  \* what the order costs
          Amounts \* what the customer may hand over

ASSUME TillAssumption ==
  /\ Total \in Nat
  /\ Amounts \subseteq Nat
  /\ { << "pay", 1 >>, << "cash", 1 >>, << "execute", 1 >> } \subseteq Keys

VARIABLES desk,     \* which of the two desks is open
          clerk,    \* the request each thread serves
          attempt,  \* the order has a cash attempt
          tendered, \* what the confirmed payment records, 0: not paid
          topup,    \* state of the topup
          told      \* what pay_cash answered: the amount posted, the change

tillVars == << desk, clerk, attempt, tendered, topup, told >>
allVars  == << vars, tillVars >>
world    == << row, calls, faults >>

NoClerk == [pc |-> "idle", amount |-> 0, try |-> 0, asked |-> FALSE]

TillTypeOK ==
  /\ TypeOK
  /\ desk \in { "sale", "till" }
  /\ clerk \in [Requests ->
       [pc : { "idle", "pay", "cash", "execute" }, amount : Amounts \cup { 0 },
        try : 0 .. MaxRetries, asked : BOOLEAN]]
  /\ attempt \in BOOLEAN
  /\ tendered \in Amounts \cup { 0 }
  /\ topup \in { "QUEUED", "SUCCEEDED", "UNDER_REVIEW" }
  /\ told \in SUBSET [amount : Amounts, change : Nat]

TillInit ==
  /\ Init
  /\ desk \in { "sale", "till" }
  /\ clerk = [r \in Requests |-> NoClerk]
  /\ attempt = FALSE
  /\ tendered = 0
  /\ topup = "QUEUED"
  /\ told = {}

AtSale == desk = "sale" /\ Next /\ UNCHANGED tillVars
AtTill == desk = "till" /\ UNCHANGED << session, req, ops, shown, fulfillments, orders, desk >>

\* The form is refused when the customer gave less than the total.
Enough(a) == a >= Total

PayCash(r) ==
  /\ clerk[r] = NoClerk
  /\ \E a \in Amounts :
       Enough(a) /\ clerk' = [clerk EXCEPT ![r] = [NoClerk EXCEPT !.pc = "pay", !.amount = a]]
  /\ UNCHANGED << world, attempt, tendered, topup, told >>

\* The button is there for an order with a topup.
ExecuteTopup(r) ==
  /\ clerk[r] = NoClerk
  /\ clerk' = [clerk EXCEPT ![r] = [NoClerk EXCEPT !.pc = "execute"]]
  /\ UNCHANGED << world, attempt, tendered, topup, told >>

AskTill(r) ==
  LET s == clerk[r].pc IN
  /\ s # "idle"
  /\ ~ clerk[r].asked
  /\ calls' = calls \cup { Attempt(r, s, << s, 1 >>, IF s = "cash" THEN clerk[r].amount ELSE 0) }
  /\ clerk' = [clerk EXCEPT ![r].asked = TRUE]
  /\ UNCHANGED << row, faults, attempt, tendered, topup, told >>

\* What pay_cash and execute_topup make of an outcome.
Onward(c, answer) ==
  LET r == c.by IN
  /\ clerk' = [clerk EXCEPT ![r] = IF c.stage = "pay"
                                   THEN [@ EXCEPT !.pc = "cash", !.asked = FALSE, !.try = 0]
                                   ELSE NoClerk]
  /\ told' = IF c.stage = "cash"
             THEN told \cup { [amount |-> clerk[r].amount, change |-> answer] } ELSE told
Stop(r) == clerk' = [clerk EXCEPT ![r] = NoClerk] /\ UNCHANGED told
RetryOrStop(r) ==
  IF TryAgain(clerk[r].try)
  THEN clerk' = [clerk EXCEPT ![r].asked = FALSE, ![r].try = @ + 1] /\ UNCHANGED told
  ELSE Stop(r)

HearTill(c, result, answer) ==
  \/ ~ Waiting(c) /\ UNCHANGED << clerk, told >>
  \/ /\ Waiting(c)
     /\ \/ result = "ok" /\ Onward(c, answer)
        \/ result = "refused" /\ Stop(c.by)
        \/ result = "error" /\ RetryOrStop(c.by)

TillTimeout(r) ==
  /\ clerk[r].asked
  /\ Fault
  /\ RetryOrStop(r)
  /\ Abandon(r)
  /\ UNCHANGED << row, attempt, tendered, topup >>

TillClaim(c) ==
  /\ Claim(c)
  /\ UNCHANGED << faults, clerk, attempt, tendered, topup, told >>

TillDuplicate(c) ==
  /\ c.pc = "claim"
  /\ ~ Unseen(c)
  /\ HearTill(c, Duplicate(c).result, Duplicate(c).answer)
  /\ Ended(c)
  /\ UNCHANGED << row, faults, attempt, tendered, topup >>

\* start_payment in cash, of an order that is not paid yet.
StartPayment(c) ==
  /\ c.stage = "pay"
  /\ tendered = 0
  /\ attempt' = TRUE
  /\ Answered(c, 0)
  /\ UNCHANGED << row, clerk, tendered, topup, told >>

\* confirm_cash, with an attempt: the payment is confirmed, once, and the
\* change is worked out of what this request brought.
ConfirmCash(c) ==
  /\ c.stage = "cash"
  /\ attempt
  /\ Enough(c.body)
  /\ tendered' = IF tendered = 0 THEN c.body ELSE tendered
  /\ Answered(c, c.body - Total)
  /\ UNCHANGED << row, clerk, attempt, topup, told >>

\* confirm_cash without one: a 409 that is returned, so the row keeps it.
NoCashAttempt(c) ==
  /\ c.stage = "cash"
  /\ ~ attempt
  /\ SealFailure(c)
  /\ HearTill(c, "refused", Nothing)
  /\ UNCHANGED << attempt, tendered, topup >>

\* ejecutar_recarga: what was executed is answered as it is.
AlreadyExecuted(c) ==
  /\ c.stage = "execute"
  /\ topup # "QUEUED"
  /\ Answered(c, 0)
  /\ UNCHANGED << row, clerk, attempt, tendered, topup, told >>

\* execute_topup of a paid order: the provider says yes, or it is not known.
Executed(c) ==
  /\ c.stage = "execute"
  /\ topup = "QUEUED"
  /\ tendered # 0
  /\ \/ topup' = "SUCCEEDED" /\ Answered(c, 0) /\ UNCHANGED << row, clerk, told >>
     \/ /\ topup' = "UNDER_REVIEW"
        /\ SealFailure(c)
        /\ HearTill(c, "refused", Nothing)
  /\ UNCHANGED << attempt, tendered >>

\* The order is not paid, or payments did not answer: a 422 that is returned,
\* so the row keeps it.
NotSeenPaid(c) ==
  /\ c.stage = "execute"
  /\ topup = "QUEUED"
  /\ SealFailure(c)
  /\ HearTill(c, "refused", Nothing)
  /\ UNCHANGED << attempt, tendered, topup >>

TillWork(c) ==
  /\ c.pc = "work"
  /\ \/ StartPayment(c) \/ ConfirmCash(c) \/ NoCashAttempt(c)
     \/ AlreadyExecuted(c) \/ Executed(c) \/ NotSeenPaid(c)
  /\ UNCHANGED faults

\* The view raises: start_payment of a paid order, or a failure of its own.
TillRaises(c) ==
  /\ c.pc = "work"
  /\ Fault
  /\ Unclaim(c)
  /\ \E result \in { "refused", "error" } : HearTill(c, result, Nothing)
  /\ UNCHANGED << attempt, tendered, topup >>

TillSeal(c) ==
  /\ Seal(c)
  /\ HearTill(c, "ok", c.answer)
  /\ UNCHANGED << faults, attempt, tendered, topup >>

TillDies(c) ==
  /\ Fault
  /\ Die(c)
  /\ UNCHANGED << clerk, attempt, tendered, topup, told >>

Serve ==
  \/ \E r \in Requests : PayCash(r) \/ ExecuteTopup(r) \/ AskTill(r) \/ TillTimeout(r)
  \/ \E c \in calls : \/ TillClaim(c) \/ TillDuplicate(c) \/ TillWork(c)
                      \/ TillRaises(c) \/ TillSeal(c) \/ TillDies(c)

TillNext == AtSale \/ (AtTill /\ Serve)

TillSpec == TillInit /\ [][TillNext]_allVars

-----------------------------------------------------------------------------
\* The change the cashier is told to give belongs to the amount the payment
\* records: when the form is posted again with another amount, because the
\* first answer was lost, the change of the first is not given for the second.
ChangeIsTrue ==
  \A t \in told : tendered = t.amount /\ t.change = t.amount - Total
=============================================================================
