-------------------------------- MODULE Sale --------------------------------
(* The portal's two flows that end in an order: a topup (number, product,    *)
(* confirmation) and a bill (reference, confirmation).  What the cashier     *)
(* chose is a draft in the session of the user, which all the tabs share:    *)
(* each request loads the whole session when it begins and, when it changed  *)
(* something, saves the whole of it when it ends.                            *)
(*                                                                           *)
(* create_order turns the draft into a fulfillment, an order and, for a      *)
(* topup, the link between them, with one keyed call to a service each.      *)
EXTENDS Idempotency, Sequences, FiniteSets

CONSTANTS Requests, \* threads of the portal that serve this user
          Whos,     \* phone numbers and references
          Items,    \* products and billers
          MaxOps,   \* operations that are begun
          MaxFaults \* deaths of a handler, errors of a view and timeouts there are

ASSUME SaleAssumption ==
  /\ MaxRetries \in Nat
  /\ MaxOps \in Nat \ { 0 }
  /\ MaxFaults \in Nat
  /\ Nothing \notin Whos \cup Items \cup Keys \cup Requests
  /\ { "topup", "bill", "order" } \X (0 .. MaxOps) \subseteq Keys

VARIABLES session, \* the draft of each flow
          req,     \* the request each thread serves
          ops,     \* operation identifiers given so far
          shown,   \* what each operation's confirmation page showed
          fulfillments, \* rows of topups and billpay, in order of creation
          orders,  \* rows of payments
          faults

vars == << row, calls, session, req, ops, shown, fulfillments, orders, faults >>
services == << row, calls, fulfillments, orders, faults >>

Flows   == { "topup", "bill" }
NoDraft == [who |-> Nothing, item |-> Nothing, op |-> 0]
Draft   == [who : Whos \cup { Nothing }, item : Items \cup { Nothing }, op : 0 .. MaxOps]
Idle    == [pc |-> "idle", flow |-> "topup",
            saw |-> [w \in Flows |-> NoDraft], who |-> Nothing, item |-> Nothing,
            f |-> 0, o |-> 0, try |-> 0, asked |-> FALSE]
Stages  == { "fulfillment", "order", "link" }

TypeOK ==
  /\ session \in [Flows -> Draft]
  /\ req \in [Requests ->
       [pc   : { "idle", "phone", "choose", "inquire", "pop" } \cup Stages,
        flow : Flows, saw : [Flows -> Draft],
        who  : Whos \cup { Nothing }, item : Items \cup { Nothing },
        f    : 0 .. MaxOps, o : 0 .. MaxOps,
        try  : 0 .. MaxRetries, asked : BOOLEAN]]
  /\ \A k \in Keys : row[k].status \in { "free", "IN_PROGRESS", "COMPLETED", "FAILED" }
  /\ \A c \in calls : c.pc \in { "claim", "work", "seal" } /\ c.by \in Requests \cup { Nothing }
  /\ ops \in 0 .. MaxOps
  /\ \A i \in 1 .. Len(fulfillments) : fulfillments[i].order \in 0 .. Len(orders)
  /\ \A i \in 1 .. Len(orders) : orders[i].f \in 1 .. Len(fulfillments)
  /\ faults \in 0 .. MaxFaults

Init ==
  /\ row = [k \in Keys |-> Free]
  /\ calls = {}
  /\ session = [w \in Flows |-> NoDraft]
  /\ req = [r \in Requests |-> Idle]
  /\ ops = 0
  /\ shown = {}
  /\ fulfillments = << >>
  /\ orders = << >>
  /\ faults = 0

-----------------------------------------------------------------------------
(* The requests.  A page stays open in its tab however the session moves on, *)
(* so any form can be posted at any time, and twice.                         *)

\* A request begins: it loads the session.
Begin(r, pc, flow, who, item) ==
  req' = [req EXCEPT ![r] = [Idle EXCEPT !.pc = pc, !.flow = flow, !.saw = session,
                                         !.who = who, !.item = item]]

\* It ends, the session saved as the request has it.
Save(r, s) == session' = s /\ req' = [req EXCEPT ![r] = Idle]

\* It ends without touching the session.
Leave(r) == req' = [req EXCEPT ![r] = Idle] /\ UNCHANGED session

Open(r) ==
  /\ req[r] = Idle
  /\ \/ /\ ops < MaxOps
        /\ \/ \E who \in Whos : Begin(r, "phone", "topup", who, Nothing)
           \/ \E item \in Items : Begin(r, "choose", "topup", Nothing, item)
           \/ \E who \in Whos, item \in Items : Begin(r, "inquire", "bill", who, item)
     \/ \E flow \in Flows : Begin(r, "fulfillment", flow, Nothing, Nothing)
  /\ UNCHANGED << session, ops, shown, services >>

\* validate_phone: the number, and a new draft with nothing else in it.
ValidatePhone(r) ==
  /\ req[r].pc = "phone"
  /\ Save(r, [req[r].saw EXCEPT !["topup"] = [NoDraft EXCEPT !.who = req[r].who]])
  /\ UNCHANGED << ops, shown, services >>

\* The draft is complete, with the identifier of a new operation, and its page
\* is shown.
Confirmable(r, flow, who, item) ==
  LET d == [who |-> who, item |-> item, op |-> ops + 1] IN
  /\ ops < MaxOps
  /\ ops' = ops + 1
  /\ shown' = shown \cup { d }
  /\ Save(r, [req[r].saw EXCEPT ![flow] = d])

\* confirm_step: the product posted, the number of the draft.
ConfirmStep(r) ==
  LET d == req[r].saw["topup"] IN
  /\ req[r].pc = "choose"
  /\ \/ /\ d.who # Nothing
        /\ Confirmable(r, "topup", d.who, req[r].item)
     \/ Leave(r) /\ UNCHANGED << ops, shown >>
  /\ UNCHANGED services

\* inquire: the debt was found, and the draft is complete at once.
Inquire(r) ==
  /\ req[r].pc = "inquire"
  /\ \/ Confirmable(r, "bill", req[r].who, req[r].item)
     \/ Leave(r) /\ UNCHANGED << ops, shown >>
  /\ UNCHANGED services

-----------------------------------------------------------------------------
(* create_order: its calls, in this order, and what each one's answer means. *)

\* Mutant: what create_order asks of the draft is not asked.
Mutant_AnyDraft(flow, d) == d.who # Nothing
\* The keys create_order wants in the draft.
Complete(flow, d) == d.who # Nothing /\ d.item # Nothing

\* Mutant: the draft is read from the session again before the second call.
Mutant_ReadAgain(r) == session[req[r].flow]
DraftOf(r) == req[r].saw[req[r].flow]

KeyOf(r) == CASE req[r].pc = "fulfillment" -> << req[r].flow, DraftOf(r).op >>
              [] req[r].pc = "order"       -> << "order", DraftOf(r).op >>
              [] OTHER                     -> Nothing

Body(r) ==
  LET d == DraftOf(r) IN
  [flow |-> req[r].flow, who |-> d.who, item |-> d.item, f |-> req[r].f,
   o |-> req[r].o, op |-> d.op]

\* An attempt leaves.
Ask(r) ==
  /\ req[r].pc \in Stages
  /\ ~ req[r].asked
  /\ Complete(req[r].flow, DraftOf(r))
  /\ calls' = calls \cup { Attempt(r, req[r].pc, KeyOf(r), Body(r)) }
  /\ req' = [req EXCEPT ![r].asked = TRUE]
  /\ UNCHANGED << row, session, ops, shown, fulfillments, orders, faults >>

\* The draft is gone or not complete: the operation expired.
Expired(r) ==
  /\ req[r].pc = "fulfillment"
  /\ ~ req[r].asked
  /\ ~ Complete(req[r].flow, DraftOf(r))
  /\ Leave(r)
  /\ UNCHANGED << ops, shown, services >>

Fault == faults < MaxFaults /\ faults' = faults + 1

Waiting(c) == c.by # Nothing

\* Mutant: the link is left out, as the bill flow does.
Mutant_NoLink(c, id) ==
  LET r == c.by IN
  req' = [req EXCEPT ![r].pc = IF c.stage = "fulfillment" THEN "order" ELSE "pop",
                     ![r].asked = FALSE, ![r].try = 0,
                     ![r].f = IF c.stage = "fulfillment" THEN id ELSE @,
                     ![r].o = IF c.stage = "order" THEN id ELSE @]
\* The call succeeded: on to the next one, or to the end.
Proceed(c, id) ==
  LET r == c.by
      next == CASE c.stage = "fulfillment" -> "order"
                [] c.stage = "order" /\ req[r].flow = "topup" -> "link"
                [] OTHER -> "pop" IN
  req' = [req EXCEPT ![r].pc = next, ![r].asked = FALSE, ![r].try = 0,
                     ![r].f = IF c.stage = "fulfillment" THEN id ELSE @,
                     ![r].o = IF c.stage = "order" THEN id ELSE @]

\* A ProviderError: back to the catalogue, and the draft stays.
Failed(r) == Leave(r)

\* The attempt is made again, or it was the last one.
AgainOrFail(r) ==
  IF TryAgain(req[r].try)
  THEN /\ req' = [req EXCEPT ![r].asked = FALSE, ![r].try = @ + 1]
       /\ UNCHANGED << session >>
  ELSE Failed(r)

\* An outcome reaches the caller, if it is still waiting.
Hear(c, result, id) ==
  \/ ~ Waiting(c) /\ UNCHANGED << req, session >>
  \/ /\ Waiting(c)
     /\ \/ result = "ok" /\ Proceed(c, id) /\ UNCHANGED << session >>
        \/ result = "refused" /\ Failed(c.by)
        \/ result = "error" /\ AgainOrFail(c.by)

\* ReadTimeout: the caller stops waiting, the service goes on.
Timeout(r) ==
  /\ req[r].asked
  /\ Fault
  /\ AgainOrFail(r)
  /\ Abandon(r)
  /\ UNCHANGED << row, ops, shown, fulfillments, orders >>

-----------------------------------------------------------------------------
(* The services.                                                             *)

ClaimKey(c) ==
  /\ Claim(c)
  /\ UNCHANGED << session, req, ops, shown, fulfillments, orders, faults >>

HandleDuplicate(c) ==
  /\ c.pc = "claim"
  /\ ~ Unseen(c)
  /\ Hear(c, Duplicate(c).result, Duplicate(c).answer)
  /\ Ended(c)
  /\ UNCHANGED << row, ops, shown, fulfillments, orders, faults >>

Answered(c, id) == calls' = (calls \ { c }) \cup { [c EXCEPT !.pc = "seal", !.answer = id] }

\* services.create_fulfillment
CreateFulfillment(c) ==
  /\ c.stage = "fulfillment"
  /\ fulfillments' = Append(fulfillments,
       [flow |-> c.body.flow, who |-> c.body.who, item |-> c.body.item,
        op |-> c.body.op, order |-> 0])
  /\ Answered(c, Len(fulfillments) + 1)
  /\ UNCHANGED orders

\* services.create_order: the order of that key, or a new one.
CreateOrder(c) ==
  LET same == { i \in 1 .. Len(orders) : orders[i].op = c.body.op } IN
  /\ c.stage = "order"
  /\ \/ /\ same = {}
        /\ orders' = Append(orders,
             [op |-> c.body.op, flow |-> c.body.flow, who |-> c.body.who,
              item |-> c.body.item, f |-> c.body.f])
        /\ Answered(c, Len(orders) + 1)
     \/ /\ \E i \in same : Answered(c, i)
        /\ UNCHANGED orders
  /\ UNCHANGED fulfillments

\* link_order: once.
LinkOrder(c) ==
  /\ c.stage = "link"
  /\ fulfillments[c.body.f].order \in { 0, c.body.o }
  /\ fulfillments' = [fulfillments EXCEPT ![c.body.f].order = c.body.o]
  /\ Answered(c, c.body.o)
  /\ UNCHANGED orders

Work(c) ==
  /\ c.pc = "work"
  /\ CreateFulfillment(c) \/ CreateOrder(c) \/ LinkOrder(c)
  /\ UNCHANGED << row, session, req, ops, shown, faults >>

\* The view raises: a ValidationError (4xx), or something else (5xx).
ViewRaises(c) ==
  /\ c.pc = "work"
  /\ Fault
  /\ Unclaim(c)
  /\ \E result \in { "refused", "error" } : Hear(c, result, Nothing)
  /\ UNCHANGED << ops, shown, fulfillments, orders >>

SealAnswer(c) ==
  /\ Seal(c)
  /\ Hear(c, "ok", c.answer)
  /\ UNCHANGED << ops, shown, fulfillments, orders, faults >>

HandlerDies(c) ==
  /\ Fault
  /\ Die(c)
  /\ UNCHANGED << session, req, ops, shown, fulfillments, orders >>

\* The draft is taken out, and the tab is sent to the payment page.
Pop(r) ==
  /\ req[r].pc = "pop"
  /\ Save(r, [req[r].saw EXCEPT ![req[r].flow] = NoDraft])
  /\ UNCHANGED << ops, shown, services >>

Next ==
  \/ \E r \in Requests :
       \/ Open(r) \/ ValidatePhone(r) \/ ConfirmStep(r) \/ Inquire(r)
       \/ Ask(r) \/ Expired(r) \/ Timeout(r) \/ Pop(r)
  \/ \E c \in calls :
       \/ ClaimKey(c) \/ HandleDuplicate(c) \/ Work(c) \/ ViewRaises(c)
       \/ SealAnswer(c) \/ HandlerDies(c)

Spec == Init /\ [][Next]_vars

-----------------------------------------------------------------------------
Made(seq, op) == { i \in 1 .. Len(seq) : seq[i].op = op }

\* The key names the operation, not the request (idempotencia.py): however
\* often the cashier clicks and the client tries again, one fulfillment and
\* one order come of it.
OnePerOperation ==
  \A op \in 1 .. MaxOps :
    Cardinality(Made(fulfillments, op)) <= 1 /\ Cardinality(Made(orders, op)) <= 1

\* An order is for the fulfillment it names: the same sale, and a topup that
\* knows its order is known by it.
SaleIsOne ==
  /\ \A i \in 1 .. Len(orders) :
       LET f == fulfillments[orders[i].f] IN
       f.op = orders[i].op /\ f.flow = orders[i].flow /\ f.who = orders[i].who /\ f.item = orders[i].item
  /\ \A i \in 1 .. Len(fulfillments) :
       fulfillments[i].order # 0 => orders[fulfillments[i].order].f = i

\* Nothing is sold that no confirmation page showed: the operation of an order
\* showed this number and this product.
SoldWasShown ==
  \A i \in 1 .. Len(orders) :
    [who |-> orders[i].who, item |-> orders[i].item, op |-> orders[i].op] \in shown

\* The tab gets to the payment page with a sale that can be delivered: its
\* order exists and the topup is linked to it.
PayPageIsPayable ==
  \A r \in Requests : req[r].pc = "pop" =>
    /\ orders[req[r].o].f = req[r].f
    /\ orders[req[r].o].op = DraftOf(r).op
    /\ req[r].flow = "topup" => fulfillments[req[r].f].order = req[r].o
=============================================================================
