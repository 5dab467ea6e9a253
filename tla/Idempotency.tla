----------------------------- MODULE Idempotency -----------------------------
(* A call between services that carries an Idempotency-Key: the row the      *)
(* called service keeps of each key, the handling of one attempt, and the    *)
(* attempts the calling side makes.  The three services share this code.     *)
(*                                                                           *)
(* The row and the work of the view commit apart, so a handling is three     *)
(* steps (claim, work, seal) and may die between any two of them.  An answer *)
(* that gets lost is a caller that stopped waiting before the last step.     *)
EXTENDS Naturals

CONSTANTS Keys,       \* scope and key of the rows
          MaxRetries, \* attempts after the first one
          Nothing     \* no answer, no body

VARIABLES row,        \* the row of each key
          calls       \* attempts a service is handling

Free == [status |-> "free", body |-> Nothing, answer |-> Nothing]

\* An attempt: who waits for it (Nothing when nobody does any more), the key
\* (Nothing when the endpoint is not decorated), and the answer, once known.
Attempt(r, stage, key, body) ==
  [by |-> r, stage |-> stage, key |-> key, body |-> body,
   pc |-> IF key = Nothing THEN "work" ELSE "claim", answer |-> Nothing]

Ended(c)     == calls' = calls \ { c }
Abandon(r)   == calls' = { [c EXCEPT !.by = IF @ = r THEN Nothing ELSE @] : c \in calls }
Moved(c, pc) == calls' = (calls \ { c }) \cup { [c EXCEPT !.pc = pc] }

\* The INSERT does not hit the UNIQUE constraint.
Unseen(c) == row[c.key] = Free

\* The INSERT of the decorator, committed before the view runs.
Claim(c) ==
  /\ c.pc = "claim"
  /\ Unseen(c)
  /\ row' = [row EXCEPT ![c.key] = [status |-> "IN_PROGRESS", body |-> c.body,
                                     answer |-> Nothing]]
  /\ Moved(c, "work")

\* Mutant: a finished row answers whatever the body says.
Mutant_AnyBody(c) ==
  LET k == row[c.key] IN
  IF k.status = "COMPLETED" THEN [result |-> "ok", answer |-> k.answer]
                            ELSE [result |-> "refused", answer |-> Nothing]
\* _handle_duplicate: 422 for another body, 409 while it is in progress, the
\* stored answer when it ended.  A stored failure is a failure again.
Duplicate(c) ==
  LET k == row[c.key] IN
  IF k.status = "COMPLETED" /\ k.body = c.body
  THEN [result |-> "ok", answer |-> k.answer]
  ELSE [result |-> "refused", answer |-> Nothing]

\* The view raised: the row is deleted and the caller gets an error.
Unclaim(c) ==
  /\ row' = IF c.key = Nothing THEN row ELSE [row EXCEPT ![c.key] = Free]
  /\ Ended(c)

\* The view returned an error response: the row keeps it.
SealFailure(c) ==
  /\ row' = IF c.key = Nothing THEN row ELSE [row EXCEPT ![c.key].status = "FAILED"]
  /\ Ended(c)

\* Mutant: the row is removed when the work is done.
Mutant_Forget(c) ==
  /\ c.pc = "seal"
  /\ row' = IF c.key = Nothing THEN row ELSE [row EXCEPT ![c.key] = Free]
  /\ Ended(c)
\* mark_completed, and the answer goes out.
Seal(c) ==
  /\ c.pc = "seal"
  /\ row' = IF c.key = Nothing THEN row
            ELSE [row EXCEPT ![c.key].status = "COMPLETED",
                             ![c.key].answer = c.answer]
  /\ Ended(c)

\* The process of the service dies, or the request never reached it.
Die(c) == Ended(c) /\ row' = row

\* After attempt n, 5xx and silence are tried again; 4xx never is.
TryAgain(n) == n < MaxRetries
==============================================================================
