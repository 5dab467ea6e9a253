--------------------------- MODULE LinntaeSession ---------------------------
(* The token of Linntae, shared through the cache by every process that      *)
(* reads from it or buys: who asks for one, who waits, what a refusal of the *)
(* token does, and how often a read is tried.  Tokens are numbered as they   *)
(* are issued and 0 is no token.                                             *)
EXTENDS Integers, Sequences

CONSTANTS Clients, Nobody,
          Attempts,     \* reintentos_lectura + 1
          MaxTokens     \* bound of the model

VARIABLES cached,   \* the token in the cache
          lock,     \* who took "pidiendo"
          issued,   \* tokens issued so far
          op        \* what each process is doing

sessionVars == << cached, lock, issued, op >>

SessionSteps == { "idle", "token", "lock", "waiting", "asking", "keep", "send" }

ASSUME SessionAssumption ==
  Nobody \notin Clients /\ Attempts \in Nat \ { 0 } /\ MaxTokens \in Nat \ { 0 }

\* refused: the tokens for which this operation was answered 401.  early: the
\* token of a purchase is looked at before the request, for the life it has left.
\* mine: it took the lock, which may have expired since.
NoOp == [kind |-> "read", pc |-> "idle", try |-> 1, early |-> FALSE, mine |-> FALSE,
         token |-> 0, refused |-> << >>]

SessionTypeOK ==
  /\ cached \in 0 .. MaxTokens /\ issued \in 0 .. MaxTokens
  /\ lock \in Clients \cup { Nobody }
  /\ \A p \in Clients :
       /\ op[p].kind \in { "read", "buy" } /\ op[p].pc \in SessionSteps
       /\ op[p].try \in 1 .. Attempts + 1 /\ op[p].token \in 0 .. MaxTokens
       /\ Len(op[p].refused) <= 2

SessionInit ==
  /\ cached = 0 /\ lock = Nobody /\ issued = 0
  /\ op = [p \in Clients |-> NoOp]

-----------------------------------------------------------------------------
(* Autenticador.token                                                        *)

\* What a process does with a token: a purchase only makes sure of it first, and
\* takes it again to send.
Holding(o, t) ==
  IF o.early THEN [o EXCEPT !.pc = "token", !.early = FALSE]
  ELSE [o EXCEPT !.pc = "send", !.token = t]

Begin(p, k) ==
  /\ op[p].pc = "idle"
  /\ op' = [op EXCEPT ![p] = [NoOp EXCEPT !.kind = k, !.pc = "token", !.early = k = "buy"]]
  /\ UNCHANGED << cached, lock, issued >>

\* A token with less life left than a purchase wants goes, whoever put it.
LookUp(p) ==
  /\ op[p].pc = "token"
  /\ \/ cached # 0 /\ cached' = cached /\ op' = [op EXCEPT ![p] = Holding(@, cached)]
     \/ /\ cached = 0 \/ op[p].early
        /\ cached' = 0
        /\ op' = [op EXCEPT ![p].pc = "lock"]
  /\ UNCHANGED << lock, issued >>

\* _pedir_con_candado: the lock is a courtesy.
TakeLock(p) ==
  /\ op[p].pc = "lock"
  /\ IF lock = Nobody
     THEN lock' = p /\ op' = [op EXCEPT ![p].pc = "asking", ![p].mine = TRUE]
     ELSE lock' = lock /\ op' = [op EXCEPT ![p].pc = "waiting"]
  /\ UNCHANGED << cached, issued >>

Mutant_Waited(p) ==
  /\ op[p].pc = "waiting" /\ cached # 0
  /\ op' = [op EXCEPT ![p] = Holding(op[p], cached)]
  /\ UNCHANGED << cached, lock, issued >>

\* Two seconds later there is a token, or this process asks for one as well.
Waited(p) ==
  /\ op[p].pc = "waiting"
  /\ op' = [op EXCEPT ![p] = IF cached # 0 THEN Holding(@, cached) ELSE [@ EXCEPT !.pc = "asking"]]
  /\ UNCHANGED << cached, lock, issued >>

\* The lock goes before the token is in the cache.  If it expired meanwhile it
\* may be another's.
Unlock(p) == lock' = IF op[p].mine THEN Nobody ELSE lock

Asked(p) ==
  /\ op[p].pc = "asking" /\ issued < MaxTokens
  /\ issued' = issued + 1
  /\ op' = [op EXCEPT ![p].pc = "keep", ![p].mine = FALSE, ![p].token = issued + 1]
  /\ Unlock(p)
  /\ UNCHANGED << cached >>

\* No answer, an error, or credentials refused: what the caller gets is not
\* something it tries again.
AskFails(p) ==
  /\ op[p].pc = "asking"
  /\ op' = [op EXCEPT ![p].pc = "idle", ![p].mine = FALSE]
  /\ Unlock(p)
  /\ UNCHANGED << cached, issued >>

Keep(p) ==
  /\ op[p].pc = "keep"
  /\ cached' = op[p].token
  /\ op' = [op EXCEPT ![p] = Holding(@, @.token)]
  /\ UNCHANGED << lock, issued >>

-----------------------------------------------------------------------------
(* leer and comprar                                                          *)

\* The loop goes round again, or has run out.
Again(o) ==
  IF o.try < Attempts THEN [o EXCEPT !.pc = "token", !.try = @ + 1, !.token = 0]
  ELSE [o EXCEPT !.pc = "idle"]

\* An answer that settles it, and anything at all that a purchase gets.
Concluded(p) ==
  /\ op[p].pc = "send"
  /\ op' = [op EXCEPT ![p].pc = "idle"]
  /\ UNCHANGED << cached, lock, issued >>

\* No answer, 5xx, or code 23, of a read.
ReadFails(p) ==
  /\ op[p].pc = "send" /\ op[p].kind = "read"
  /\ op' = [op EXCEPT ![p] = Again(@)]
  /\ UNCHANGED << cached, lock, issued >>

Mutant_Refused(p) ==
  /\ op[p].pc = "send" /\ op[p].kind = "read"
  /\ LET o == [op[p] EXCEPT !.refused = Append(@, op[p].token)] IN
     op' = [op EXCEPT ![p] = IF Len(o.refused) = 1 THEN Again(o) ELSE [o EXCEPT !.pc = "idle"]]
  /\ UNCHANGED << cached, lock, issued >>

\* 401: the first time, whatever token is in the cache is forgotten and the read
\* goes round; the second time it is over.
Refused(p) ==
  /\ op[p].pc = "send" /\ op[p].kind = "read"
  /\ LET o == [op[p] EXCEPT !.refused = Append(@, op[p].token)] IN
     IF Len(o.refused) = 1
     THEN cached' = 0 /\ op' = [op EXCEPT ![p] = Again(o)]
     ELSE cached' = cached /\ op' = [op EXCEPT ![p] = [o EXCEPT !.pc = "idle"]]
  /\ UNCHANGED << lock, issued >>

-----------------------------------------------------------------------------
(* What happens around them                                                  *)

CacheExpires == cached # 0 /\ cached' = 0 /\ UNCHANGED << lock, issued, op >>

LockExpires == lock # Nobody /\ lock' = Nobody /\ UNCHANGED << cached, issued, op >>

\* The process dies and leaves what it took.
Dies(p) ==
  /\ op[p].pc # "idle"
  /\ op' = [op EXCEPT ![p] = NoOp]
  /\ UNCHANGED << cached, lock, issued >>

Proceed(p) ==
  \/ LookUp(p) \/ TakeLock(p) \/ Waited(p) \/ Asked(p) \/ AskFails(p) \/ Keep(p)
  \/ Concluded(p) \/ ReadFails(p) \/ Refused(p)

SessionNext ==
  \/ \E p \in Clients : \/ Proceed(p) \/ Dies(p)
                        \/ \E k \in { "read", "buy" } : Begin(p, k)
  \/ CacheExpires \/ LockExpires

SessionSpec == SessionInit /\ [][SessionNext]_sessionVars

\* A process goes on with what it began: every wait of it has a time limit.
SessionFairness == \A p \in Clients : WF_sessionVars(Proceed(p))

-----------------------------------------------------------------------------
\* An operation is given up for a second 401 only when it was about another
\* token: what the cache held, or another process put there meanwhile, is not
\* tried again after Linntae refused it.
RenewalIsReal ==
  \A p \in Clients : Len(op[p].refused) = 2 => op[p].refused[1] # op[p].refused[2]

\* Every operation ends, though the process that had the lock died with it
\* and the token it has just asked for is thrown away by another.
OperationsEnd == \A p \in Clients : (op[p].pc # "idle") ~> (op[p].pc = "idle")
=============================================================================
