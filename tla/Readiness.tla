----------------------------- MODULE Readiness -----------------------------
(* What a deployment is configured with, what the adapters of the providers  *)
(* find out about it before they move money, and where their requests go.    *)
(* Processes started with different settings share one cache.                *)
EXTENDS Integers

CONSTANTS Procs, Nothing,
          MaxRestarts   \* bound of the model

VARIABLES provider, \* the adapter this behaviour is about
          conf,     \* [Procs -> Settings]: what each process was started with
          restarts,
          tokens,   \* the cache: [TokenKeys -> Token \cup { Nothing }]
          report,   \* the cached balance: [Modes -> Report \cup { Nothing }]
          job,      \* what each process is doing
          shelf     \* where the technical catalogue came from

readinessVars == << provider, conf, restarts, tokens, report, job, shelf >>

Providers == { "linntae", "reloadly", "taecel", "conekta", "cash" }
Modes     == { "SANDBOX", "PRODUCTION" }
Worlds    == { "sandbox", "production" }
WorldOf(m) == IF m = "PRODUCTION" THEN "production" ELSE "sandbox"

\* env: "staging" stands for every environment that is not production, "unknown"
\* for none and for what is not in the table.  host: what the base URL points to,
\* "elsewhere" when to no provider of ours.  key: the credentials' world.
\* allowed: real operations are switched on, TAECEL's contract is verified, the
\* webhook key is one of the account's, or cash is enabled.  purse: typeBalance
\* and extraComision, or the path of the balance: "odd" is an extraComision
\* that is not one of the values Linntae takes.
Settings == [env : { "production", "staging", "unknown" }, mode : Modes,
             host : Worlds \cup { "elsewhere" }, key : Worlds \cup { "none" },
             allowed : BOOLEAN, purse : { "set", "odd", "unset" }]

\* LINNTAE_MODE follows LINNTAE_ENV, which has two values or the service does not
\* start.
LinntaeSettings == Settings
\* base_url follows the mode.
ReloadlySettings == { c \in Settings : c.host = WorldOf(c.mode) /\ c.allowed /\ c.purse = "set" }
\* Its base URL is nobody's published one, and TAECEL_ENV says nothing of it.
TaecelSettings == { c \in Settings : c.purse # "odd" }
\* One domain for both worlds: what tells them apart is the key's livemode.
ConektaSettings == { c \in Settings : c.host = "elsewhere" /\ c.purse = "set" }
CashSettings ==
  { c \in Settings : c.mode = "PRODUCTION" /\ c.host = "elsewhere" /\ c.key = "none" /\ c.purse = "set" }

\* get_provider
Deployed ==
  CASE provider = "linntae"  -> LinntaeSettings
    [] provider = "reloadly" -> ReloadlySettings
    [] provider = "taecel"   -> TaecelSettings
    [] provider = "conekta"  -> ConektaSettings
    [] provider = "cash"     -> CashSettings

\* The world a request of these settings is about.
Reached(c) == IF provider = "conekta" THEN c.key ELSE c.host

Token     == [host : Worlds \cup { "elsewhere" }, key : Worlds]
TokenKeys == Modes \X (Worlds \cup { "elsewhere" }) \X (Worlds \cup { "none" })
Balances  == { "enough", "short", "unsaid" }
Report    == [from : Worlds \cup { "elsewhere" }, says : Balances]

\* "sell": the guard of create_fulfillment; "execute": execute_topup before SENT,
\* or start_payment before there is an attempt; "send": the operation itself;
\* "catalogue": sync_catalog; "panel": describe_all.
Purposes == { "sell", "execute", "send", "catalogue", "panel" }
Steps    == { "idle", "asking", "sold", "sent", "clear", "posted", "stuck" }
Idle     == [for |-> "panel", pc |-> "idle", token |-> Nothing, seen |-> Nothing]

Job == [for : Purposes, pc : Steps, token : Token \cup { Nothing }, seen : Report \cup { Nothing }]

ReadinessTypeOK ==
  /\ provider \in Providers
  /\ conf \in [Procs -> Deployed] /\ restarts \in Nat
  /\ tokens \in [TokenKeys -> Token \cup { Nothing }]
  /\ report \in [Modes -> Report \cup { Nothing }]
  /\ job \in [Procs -> Job]

ReadinessInit ==
  /\ provider \in Providers
  /\ \E c \in Deployed : conf = [p \in Procs |-> c]
  /\ restarts = 0
  /\ tokens = [k \in TokenKeys |-> Nothing]
  /\ report = [m \in Modes |-> Nothing]
  /\ job = [p \in Procs |-> Idle]
  /\ shelf = Nothing

-----------------------------------------------------------------------------
(* The guards                                                                *)

Mutant_EnvironmentAgrees(c) == c.env # "unknown"

\* resolver_ambiente, modo_esperado and verificar_ambiente.
EnvironmentAgrees(c) ==
  /\ c.env # "unknown"
  /\ c.mode = IF c.env = "production" THEN "PRODUCTION" ELSE "SANDBOX"

\* LinntaeConfig.problemas_de_ambiente: before every request of Linntae's client.
Coherent(c) == provider = "linntae" => c.host = WorldOf(c.mode)

Mutant_TokenKey(c) == << "SANDBOX", "elsewhere", c.key >>

\* Linntae: the label of the environment and a print of URL and user.  Reloadly:
\* the mode and the client, and its URL follows the mode.
TokenKey(c) == << c.mode, IF provider = "linntae" THEN c.host ELSE "elsewhere", c.key >>

Mutant_ReportKey(c) == "SANDBOX"

\* The cached balance is the provider's in that mode.
ReportKey(c) == c.mode

Bears == { "linntae", "reloadly" }

\* _ensure_token and Autenticador.token.  A provider gives a token to its own
\* credentials only.
Authenticates(c) == c.key # "none" /\ c.key = c.host

Grant(c) == IF tokens[TokenKey(c)] # Nothing THEN tokens[TokenKey(c)]
            ELSE [host |-> c.host, key |-> c.key]

\* What is left of check_health once the provider has answered with its balance.
LinntaeReady(c, b)  == Coherent(c) /\ b = "enough" /\ c.purse # "unset" /\ c.allowed
ReloadlyReady(c, b) == b # "short"
TaecelReady(c, b)   == c.allowed /\ c.purse = "set" /\ b = "enough"
\* _describir_ambiente: livemode is the mode, and the webhook key is the account's.
ConektaReady(c)     == c.key = WorldOf(c.mode) /\ c.allowed
CashReady(c)        == c.allowed

\* check_health is READY.
Ready(c, b) ==
  CASE provider = "linntae"  -> LinntaeReady(c, b)
    [] provider = "reloadly" -> ReloadlyReady(c, b)
    [] provider = "taecel"   -> TaecelReady(c, b)
    [] provider = "conekta"  -> ConektaReady(c)
    [] provider = "cash"     -> CashReady(c)

\* Whether a request can be answered at all with what it carries.
Answered(c, t) ==
  CASE provider \in Bears   -> t = [host |-> c.host, key |-> c.key]
    [] provider = "taecel"  -> c.key # "none" /\ c.host = c.key
    [] provider = "conekta" -> c.key # "none"
    [] provider = "cash"    -> TRUE

-----------------------------------------------------------------------------
(* Asking a provider                                                         *)

\* ensure_ready looks at the environment first.  Linntae's catalogue is read
\* without it, and so are every balance and the panel.
Guarded(w) == w \in { "execute", "send" } \/ (w = "catalogue" /\ provider # "linntae")

Topups == { "linntae", "reloadly", "taecel" }

\* What an adapter looks at before it asks the provider anything.
MayAsk(c) ==
  /\ Coherent(c)
  /\ provider # "cash" => c.key # "none"
  /\ provider = "taecel" => c.allowed /\ c.purse = "set" /\ c.host # "elsewhere"

\* There is a token in the cache, or one is given and put there.
CanBear(c) == provider \in Bears => tokens[TokenKey(c)] # Nothing \/ Authenticates(c)

Bear(p, j) ==
  LET c == conf[p] IN
  /\ CanBear(c)
  /\ IF provider \in Bears
     THEN /\ tokens' = [tokens EXCEPT ![TokenKey(c)] = Grant(c)]
          /\ job' = [job EXCEPT ![p] = [j EXCEPT !.token = Grant(c)]]
     ELSE tokens' = tokens /\ job' = [job EXCEPT ![p] = j]

Ask(p, w) ==
  /\ job[p].pc = IF w = "send" THEN "sent" ELSE "idle"
  /\ Guarded(w) => EnvironmentAgrees(conf[p])
  /\ w \in { "sell", "catalogue" } => provider \in Topups
  /\ w = "sell" => report[ReportKey(conf[p])] = Nothing
  /\ MayAsk(conf[p])
  /\ Bear(p, [Idle EXCEPT !.for = w, !.pc = "asking"])
  /\ UNCHANGED << provider, conf, restarts, report, shelf >>

-----------------------------------------------------------------------------
(* The guard of the balance                                                  *)

\* saldo.verificar and bloquea.
Sells(c, r) == r.says = "enough" \/ (r.says = "unsaid" /\ c.mode = "SANDBOX")

Judge(p, r) ==
  job' = [job EXCEPT ![p] = [Idle EXCEPT !.seen = r,
                                         !.pc = IF Sells(conf[p], r) THEN "sold" ELSE "idle"]]

\* saldo.consultar keeps what was said, also that it is not known.
Note(p, b) ==
  LET r == [from |-> conf[p].host, says |-> b] IN
  report' = [report EXCEPT ![ReportKey(conf[p])] = r] /\ Judge(p, r)

FromCache(p) ==
  /\ job[p].pc = "idle" /\ report[ReportKey(conf[p])] # Nothing
  /\ Judge(p, report[ReportKey(conf[p])])
  /\ UNCHANGED << provider, conf, restarts, tokens, report, shelf >>

\* saldo_disponible finds that it cannot ask, or is given no token.
Unasked(p) ==
  /\ job[p].pc = "idle" /\ provider \in Topups /\ report[ReportKey(conf[p])] = Nothing
  /\ ~ (MayAsk(conf[p]) /\ CanBear(conf[p]))
  /\ Note(p, "unsaid")
  /\ UNCHANGED << provider, conf, restarts, tokens, shelf >>

Told(p, b) ==
  /\ job[p].pc = "asking" /\ job[p].for = "sell"
  /\ b # "unsaid" => Answered(conf[p], job[p].token)
  /\ Note(p, b)
  /\ UNCHANGED << provider, conf, restarts, tokens, shelf >>

-----------------------------------------------------------------------------
(* ensure_ready, and what it is there for                                    *)

\* NOT_CONFIGURED, DEGRADED or no answer: after SENT nobody expects it.
NotReady(p) ==
  /\ \/ job[p].pc = "asking" /\ job[p].for # "sell"
     \/ job[p].pc = "sent" /\ ~ (EnvironmentAgrees(conf[p]) /\ MayAsk(conf[p]) /\ CanBear(conf[p]))
  /\ job' = [job EXCEPT ![p] = [Idle EXCEPT !.pc =
               IF job[p].pc = "sent" \/ job[p].for = "send" THEN "stuck" ELSE "idle"]]
  /\ UNCHANGED << provider, conf, restarts, tokens, report, shelf >>

ReadySays(p) == /\ job[p].pc = "asking" /\ Answered(conf[p], job[p].token)
                /\ \E b \in Balances : Ready(conf[p], b)

\* execute_topup goes on to SENT, start_payment to an attempt.
Clear(p) ==
  /\ job[p].for \in { "execute", "send" } /\ ReadySays(p)
  /\ job' = [job EXCEPT ![p].pc = IF job[p].for = "send" THEN "clear" ELSE "sent"]
  /\ UNCHANGED << provider, conf, restarts, tokens, report, shelf >>

\* send_topup and create_payment, after their own ensure_ready: each looks for
\* its token again.
Post(p) ==
  /\ job[p].pc = "clear"
  /\ IF provider = "linntae" /\ conf[p].purse = "odd"
     THEN job' = [job EXCEPT ![p].pc = "stuck"] /\ tokens' = tokens
     ELSE Bear(p, [job[p] EXCEPT !.pc = "posted"])
  /\ UNCHANGED << provider, conf, restarts, report, shelf >>

\* fetch_catalog
Fetch(p) ==
  /\ job[p].pc = "asking" /\ job[p].for = "catalogue" /\ Answered(conf[p], job[p].token)
  /\ provider = "linntae" \/ ReadySays(p)
  /\ shelf' = [env |-> conf[p].env, from |-> Reached(conf[p])]
  /\ job' = [job EXCEPT ![p] = Idle]
  /\ UNCHANGED << provider, conf, restarts, tokens, report >>

Done(p) ==
  /\ job[p].pc \in { "sold", "posted", "stuck" }
  /\ job' = [job EXCEPT ![p] = Idle]
  /\ UNCHANGED << provider, conf, restarts, tokens, report, shelf >>

-----------------------------------------------------------------------------
(* What happens around them                                                  *)

\* A token or a balance goes with its time, or is forgotten after a refusal or a
\* topup.
Expires ==
  /\ \/ \E k \in TokenKeys : tokens[k] # Nothing /\ tokens' = [tokens EXCEPT ![k] = Nothing]
                             /\ report' = report
     \/ \E m \in Modes : report[m] # Nothing /\ report' = [report EXCEPT ![m] = Nothing]
                         /\ tokens' = tokens
  /\ UNCHANGED << provider, conf, restarts, job, shelf >>

\* One process comes up with one setting changed, or with a mode and the URL that
\* goes with it; the others still have theirs.
Restart(p, c) ==
  /\ restarts < MaxRestarts /\ c # conf[p]
  /\ \/ \E f \in DOMAIN c : c = [conf[p] EXCEPT ![f] = c[f]]
     \/ c = [conf[p] EXCEPT !.mode = c.mode, !.host = WorldOf(c.mode)]
  /\ conf' = [conf EXCEPT ![p] = c]
  /\ restarts' = restarts + 1
  /\ job' = [job EXCEPT ![p] = Idle]
  /\ UNCHANGED << provider, tokens, report, shelf >>

ReadinessNext ==
  \/ \E p \in Procs :
       \/ FromCache(p) \/ Unasked(p) \/ NotReady(p) \/ Clear(p) \/ Post(p) \/ Fetch(p) \/ Done(p)
       \/ \E w \in Purposes : Ask(p, w)
       \/ \E b \in Balances : Told(p, b)
       \/ \E c \in Deployed : Restart(p, c)
  \/ Expires

ReadinessSpec == ReadinessInit /\ [][ReadinessNext]_readinessVars

-----------------------------------------------------------------------------
\* Real money moves from the production environment and nowhere else, and it
\* moves through requests to the world of production: the two failures of
\* environment.py, whatever each process was started with.  What TAECEL's URL
\* points to nobody knows.
WorldsNeverMix ==
  \A p \in Procs : job[p].pc = "posted" /\ provider \in { "linntae", "reloadly", "conekta" } =>
    (Reached(conf[p]) = "production" <=> conf[p].env = "production")

\* A token is only ever sent to the host that gave it, by processes with the
\* credentials it was given for, though all of them share the cache.
TokensStayHome ==
  \A p \in Procs : job[p].token # Nothing =>
    job[p].token = [host |-> conf[p].host, key |-> conf[p].key]

\* A sale of a production process was let through by a balance that the
\* production host said there was.
GuardSawThePurse ==
  \A p \in Procs : job[p].pc = "sold" /\ conf[p].mode = "PRODUCTION" /\ provider # "taecel" =>
    job[p].seen = [from |-> "production", says |-> "enough"]

\* What check_health and ensure_ready say of themselves: nothing is found to be
\* missing from the settings once the topup is SENT.  Violated: extraComision is
\* only looked at in send_topup.
NothingMissingOnceSent ==
  \A p \in Procs : job[p].pc = "clear" => conf[p].purse # "odd"

\* The technical catalogue of a production service is production's.  Violated:
\* Linntae's is read without a look at ENVIRONMENT.
ShelfOfItsWorld ==
  shelf # Nothing /\ provider # "taecel" => (shelf.env = "production" <=> shelf.from = "production")
=============================================================================
