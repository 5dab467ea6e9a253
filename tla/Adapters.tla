------------------------------ MODULE Adapters ------------------------------
(* The topup providers Linntae and TAECEL behind the contract TopupProvider: *)
(* a request that is sent once, the answer that comes back, what the adapter *)
(* makes of it, and the reconciliation, which Linntae only answers by        *)
(* telephone and offer.                                                      *)
EXTENDS Integers, FiniteSets

CONSTANTS Sales,
          Phones, Amounts,
          Gap,         \* VENTANA_EMPAREJAMIENTO_MINUTOS
          Immediate,   \* VENTANA_CONSULTA_INMEDIATA_SEGUNDOS
          Cutoff,      \* age at which a topup is reconciled
          Skew,        \* between their clock and ours
          MaxTime

VARIABLES adapter, \* the provider these sales' product is mapped to
          target,  \* telephone and amount of each, which do not change
          state,   \* state of each topup, from SENT on
          sentAt,  \* sent_at
          folio,   \* provider_reference was stored
          answer,  \* what came back of the request, not read yet
          effect,  \* what the provider did
          row,     \* its record in the provider's history
          listed,  \* records the history already shows
          refused, \* history: sales that were answered 401
          now

adapterVars == << adapter, target, state, sentAt, folio, answer, effect, row, listed, refused, now >>
fixed == << adapter, target >>

Adapters == { "linntae", "taecel" }
States   == { "new", "sent", "posted", "succeeded", "failed", "review" }
Effects  == { "none", "nothing", "pending", "applied", "rejected" }
Verdicts == { "yes", "no", "unsaid" }

\* What may come back before any body is read: no connection, no answer in
\* time, a connection cut, an HTTP error, a body that cannot be decoded.
Wire == { "unreachable", "lost", "cut", "401", "403", "geo", "422", "4xx", "5xx", "garbled" }
\* Linntae's codes; 1, 2 and 3 stand for one another, and "0!" is an approval
\* without its authorization.  TAECEL's states; "ok!" comes without its folio.
Codes == { "0", "0!", "1", "22", "23", "24", "25", "other" }
Words == { "ok", "ok!", "failed", "pending", "other" }

ASSUME AdaptersAssumption ==
  /\ Gap \in Nat /\ Skew \in Nat /\ Immediate \in Nat /\ Cutoff \in Nat /\ MaxTime \in Nat
  /\ Immediate < Cutoff \* 75 and 120 seconds

\* Nothing came back yet, or what came.
Answers == Wire \cup Codes \cup Words \cup { "-" }
\* A row of /sale/list: its hour, under their clock, whether it says the sale
\* was made, and what of it can be read: neither amount nor hour need be.
Marks  == { "amount", "hour" }
Record == [at : Int, ok : Verdicts, shows : SUBSET Marks]

AdaptersTypeOK ==
  /\ adapter \in Adapters
  /\ target \in [Sales -> [phone : Phones, amount : Amounts]]
  /\ state \in [Sales -> States]
  /\ sentAt \in [Sales -> 0 .. MaxTime]
  /\ folio \in [Sales -> BOOLEAN]
  /\ answer \in [Sales -> Answers]
  /\ effect \in [Sales -> Effects]
  /\ row \in [Sales -> Record]
  /\ listed \subseteq Sales
  /\ refused \subseteq Sales
  /\ now \in 0 .. MaxTime

AdaptersInit ==
  /\ adapter \in Adapters
  /\ target \in [Sales -> [phone : Phones, amount : Amounts]]
  /\ state = [s \in Sales |-> "new"]
  /\ sentAt = [s \in Sales |-> 0]
  /\ folio = [s \in Sales |-> FALSE]
  /\ answer = [s \in Sales |-> "-"]
  /\ effect = [s \in Sales |-> "none"]
  /\ row = [s \in Sales |-> [at |-> 0, ok |-> "unsaid", shows |-> Marks]]
  /\ listed = {} /\ refused = {}
  /\ now = 0

-----------------------------------------------------------------------------
(* send_topup                                                                *)

\* execute_topup has moved the topup to SENT.
Start(s) ==
  /\ state[s] = "new"
  /\ state' = [state EXCEPT ![s] = "sent"]
  /\ sentAt' = [sentAt EXCEPT ![s] = now]
  /\ UNCHANGED << fixed, folio, answer, effect, row, listed, refused, now >>

\* ensure_ready, typeBalance and the switch for real operations come after: what
\* they raise nobody catches, and the topup stays in SENT with nothing posted.
NeverPosted(s) ==
  /\ state[s] = "sent" /\ effect[s] = "none"
  /\ effect' = [effect EXCEPT ![s] = "nothing"]
  /\ UNCHANGED << fixed, state, sentAt, folio, answer, row, listed, refused, now >>

\* Answers a request may get, by what the provider did with it.  A 401 in the
\* middle of a purchase does not tell.
MayAnswer(s, done) ==
  LET doubt == { "lost", "cut", "401", "5xx", "garbled", "other" } IN
  IF adapter = "linntae"
  THEN CASE done = "nothing"  -> doubt \cup { "unreachable", "403", "geo", "422", "4xx", "1", "22", "23" }
         [] done = "applied"  -> doubt \cup { "0", "0!", "22", "25" }
         [] OTHER             -> doubt \cup { "22" }
  ELSE CASE done = "nothing"  -> doubt \cup { "unreachable", "4xx", "failed" }
         [] done = "applied"  -> doubt \cup { "ok", "ok!", "pending" }
         [] done = "rejected" -> doubt \cup { "failed", "pending" }
         [] OTHER             -> doubt \cup { "pending" }

\* The request, once: the provider acts or not, records the sale under its own
\* clock, and answers.
Sold(done, at, shows) ==
  [ at |-> at, shows |-> shows,
    ok |-> CASE done = "applied" -> "yes" [] done = "rejected" -> "no" [] OTHER -> "unsaid" ]

Request(s, done, a) ==
  /\ state[s] = "sent" /\ effect[s] = "none"
  /\ a \in MayAnswer(s, done)
  /\ state' = [state EXCEPT ![s] = "posted"]
  /\ answer' = [answer EXCEPT ![s] = a]
  /\ effect' = [effect EXCEPT ![s] = done]
  /\ IF done = "nothing" \/ adapter = "taecel" THEN UNCHANGED row
     ELSE \E d \in -Skew .. Skew, shows \in SUBSET Marks :
            row' = [row EXCEPT ![s] = Sold(done, now + d, shows)]
  /\ refused' = IF a = "401" THEN refused \cup { s } ELSE refused
  /\ UNCHANGED << fixed, sentAt, folio, listed, now >>

\* Linntae refuses a second sale of the same amount to a telephone in a day.
Duplicate(s) ==
  /\ state[s] = "sent" /\ effect[s] = "none" /\ adapter = "linntae"
  /\ \E t \in Sales \ { s } :
       /\ target[t] = target[s]
       /\ effect[t] \in { "pending", "applied" }
  /\ state' = [state EXCEPT ![s] = "posted"]
  /\ answer' = [answer EXCEPT ![s] = "24"]
  /\ effect' = [effect EXCEPT ![s] = "nothing"]
  /\ UNCHANGED << fixed, sentAt, folio, row, listed, refused, now >>

\* consecuencia_http, then consecuencia_de_compra.
Consequence(a) ==
  CASE a \in { "0", "0!", "25" } -> "EJECUTADA"
    [] a \in { "1", "422", "4xx" } -> "NO_EJECUTADA"
    [] a = "23" -> "NO_EJECUTADA_TRANSITORIA"
    [] a = "24" -> "DUPLICADA"
    [] a = "401" -> "AUTENTICACION"
    [] a = "403" -> "PERMISOS"
    [] a = "geo" -> "GEOBLOQUEO"
    [] OTHER -> "INDETERMINADA"

\* send_topup of Linntae, as execute_topup takes it: a transient or permanent
\* error fails the topup and an indeterminate one leaves it in review.
Linntae(a) ==
  IF a = "unreachable" THEN "failed"
  ELSE IF a \in { "lost", "cut" } THEN "review"
  ELSE CASE Consequence(a) = "EJECUTADA" -> IF a = "0!" THEN "review" ELSE "succeeded"
         [] Consequence(a) \in { "DUPLICADA", "INDETERMINADA" } -> "review"
         [] OTHER -> "failed"

\* send_topup of TAECEL: what httpx raises besides ReadTimeout is caught by
\* nobody, HTTP errors and bodies that are not JSON are permanent or transient.
Taecel(a) ==
  CASE a \in { "unreachable", "cut", "pending", "other" } -> "sent"
    [] a \in { "lost", "ok!" } -> "review"
    [] a = "ok" -> "succeeded"
    [] OTHER -> "failed"

Outcome(s, a) == IF adapter = "linntae" THEN Linntae(a) ELSE Taecel(a)

\* A folio comes with a state that is not an error.
Answer(s) ==
  /\ state[s] = "posted"
  /\ state' = [state EXCEPT ![s] = Outcome(s, answer[s])]
  /\ folio' = [folio EXCEPT ![s] = answer[s] \in { "0", "25", "ok", "pending" }]
  /\ answer' = [answer EXCEPT ![s] = "-"]
  /\ UNCHANGED << fixed, sentAt, effect, row, listed, refused, now >>

-----------------------------------------------------------------------------
(* The provider, and the clock                                               *)

Recorded(s) == adapter = "linntae" /\ effect[s] \in { "pending", "applied", "rejected" }

\* The history shows a sale some time after it happened.
List(s) ==
  /\ Recorded(s) /\ s \notin listed
  /\ listed' = listed \cup { s }
  /\ UNCHANGED << fixed, state, sentAt, folio, answer, effect, row, refused, now >>

\* What was in course ends.
Settle(s, done) ==
  /\ effect[s] = "pending"
  /\ effect' = [effect EXCEPT ![s] = done]
  /\ row' = IF adapter = "taecel" THEN row
            ELSE [row EXCEPT ![s].ok = IF done = "applied" THEN "yes" ELSE "no"]
  /\ UNCHANGED << fixed, state, sentAt, folio, answer, listed, refused, now >>

\* A request is over, or given up, within a tick.
Tick ==
  /\ now < MaxTime
  /\ \A s \in Sales : state[s] # "posted" /\ (state[s] = "sent" => effect[s] # "none")
  /\ now' = now + 1
  /\ UNCHANGED << fixed, state, sentAt, folio, answer, effect, row, listed, refused >>

-----------------------------------------------------------------------------
(* reconcile_pending_topups, with the provider that was asked                *)

\* checkTransacctionTae: the last sale of that offer to that telephone.  It is
\* only asked of young sales, and the reconciliation takes none of those.
Direct(s) ==
  IF now - sentAt[s] > Immediate THEN {}
  ELSE { t \in Sales : target[t] = target[s] /\ effect[t] = "applied" }

Near(x, y, distance) == x - y <= distance /\ y - x <= distance
SamePhone(s, t) == target[t].phone = target[s].phone
\* An amount that cannot be read is as good as the same.
Fits(s, t) == SamePhone(s, t) /\ ("amount" \in row[t].shows => target[t].amount = target[s].amount)

\* Mutant: any hour of the day will do.
Mutant_AnyTime(s) == { t \in listed : Fits(s, t) }
\* buscar_en_historico and _coincide: same telephone, same amount, close in
\* time; of the day's records the one whose amount or hour cannot be read stays.
Candidates(s) ==
  { t \in listed : Fits(s, t) /\ ("hour" \in row[t].shows => Near(row[t].at, sentAt[s], Gap)) }

\* resolver: a record closes, its absence does not, and neither do two.
Resolved(s) ==
  IF Direct(s) # {} THEN "succeeded"
  ELSE IF Cardinality(Candidates(s)) # 1 THEN "unknown"
  ELSE LET t == CHOOSE t \in Candidates(s) : TRUE IN
       CASE row[t].ok = "yes" -> "succeeded" [] row[t].ok = "no" -> "failed" [] OTHER -> "unknown"

Pending(s) == state[s] \in { "sent", "review" } /\ now - sentAt[s] >= Cutoff

ReconcileLinntae(s) ==
  /\ adapter = "linntae" /\ Pending(s)
  /\ Resolved(s) # "unknown"
  /\ state' = [state EXCEPT ![s] = Resolved(s)]
  /\ folio' = [folio EXCEPT ![s] = TRUE]
  /\ UNCHANGED << fixed, sentAt, answer, effect, row, listed, refused, now >>

\* StatusTXN by folio; without one TAECEL cannot be asked.
ReconcileTaecel(s, a) ==
  /\ adapter = "taecel" /\ Pending(s) /\ folio[s]
  /\ a \in MayAnswer(s, effect[s]) \cap { "ok", "failed" }
  /\ state' = [state EXCEPT ![s] = Taecel(a)]
  /\ UNCHANGED << fixed, sentAt, folio, answer, effect, row, listed, refused, now >>

AdaptersNext ==
  \/ \E s \in Sales : \/ Start(s) \/ NeverPosted(s) \/ Duplicate(s) \/ Answer(s)
                      \/ List(s) \/ ReconcileLinntae(s)
  \/ \E s \in Sales, done \in { "nothing", "pending", "applied", "rejected" },
        a \in Wire \cup Codes \cup Words : Request(s, done, a)
  \/ \E s \in Sales, done \in { "applied", "rejected" } : Settle(s, done)
  \/ \E s \in Sales, a \in { "ok", "failed" } : ReconcileTaecel(s, a)
  \/ Tick

AdaptersSpec == AdaptersInit /\ [][AdaptersNext]_adapterVars

-----------------------------------------------------------------------------
\* No other sale of the day can be taken for this one: not one to another
\* telephone, nor one whose record shows another amount or an hour far away.
Alone(s) ==
  \A t \in Sales \ { s } :
    \/ state[t] = "new" \/ ~ Fits(s, t)
    \/ "hour" \in row[t].shows /\ ~ Near(sentAt[t], sentAt[s], Gap + Skew)

Kept(s)     == state[s] = "succeeded" => effect[s] = "applied"
Refunded(s) == state[s] = "failed" => effect[s] \in { "nothing", "rejected" }

\* Whatever the provider answers, or does not, and however late its history shows
\* a sale, a topup at Linntae that is alone closes with what happened to it:
\* nothing undelivered is taken for done, and nothing that was delivered is
\* refunded, but for the purchases that were answered 401.  At TAECEL, which is
\* asked by folio, what is taken for done is done.
ClosedTruly ==
  \A s \in Sales : IF adapter = "linntae" THEN Alone(s) => Kept(s) /\ (s \in refused \/ Refunded(s))
                   ELSE Kept(s)

\* The same of every topup at Linntae, alone or not: none is closed with the
\* evidence of another.
EachByItsOwnRecord == \A s \in Sales \ refused : adapter = "linntae" => Kept(s) /\ Refunded(s)

\* "Un 401 a mitad de una compra deja el resultado indeterminado": it is not
\* closed as failed, and refunded, when it was delivered.
UnauthorizedIsUnsettled ==
  \A s \in refused : adapter = "linntae" /\ state[s] = "failed" => effect[s] # "applied"
=============================================================================
