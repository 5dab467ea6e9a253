--------------------------- MODULE ProvidersProofs ---------------------------
(* What Readiness guarantees for any number of processes and restarts; that  *)
(* Linntae and TAECEL close a topup with what happened to it, for any number *)
(* of sales and any window; that a second refusal is of another token, for   *)
(* any number of processes.                                                  *)
EXTENDS Readiness, Adapters, LinntaeSession, FiniteSetTheorems, TLAPS

-----------------------------------------------------------------------------
(* The inductive invariants                                                  *)

\* What a token in the cache is for can be told from its key: the host is in
\* the key, or follows from the mode.
HostOf(k) == IF provider = "linntae" THEN k[2] ELSE WorldOf(k[1])
TokensFitKeys ==
  \A k \in TokenKeys : tokens[k] # Nothing =>
    provider \in Bears /\ tokens[k] = [host |-> HostOf(k), key |-> k[3]]

TokenInv == ReadinessTypeOK /\ TokensFitKeys /\ TokensStayHome

\* What the settings of a process have passed when its job is this far.
Passed(p, j) ==
  /\ j.pc = "asking" =>
       /\ Coherent(conf[p])
       /\ j.for = "sell" => provider \in Topups
       /\ j.for = "send" => EnvironmentAgrees(conf[p])
  /\ j.pc \in { "clear", "posted" } =>
       /\ Coherent(conf[p]) /\ EnvironmentAgrees(conf[p])
       /\ provider = "conekta" => ConektaReady(conf[p])
  /\ j.pc = "sold" /\ conf[p].mode = "PRODUCTION" /\ provider # "taecel" =>
       j.seen = [from |-> "production", says |-> "enough"]
JobsPassed == \A p \in Procs : Passed(p, job[p])

\* A host of production was behind every balance of production that says enough.
BalancesAreTold ==
  \A m \in Modes : report[m] # Nothing =>
    /\ provider \in Topups
    /\ m = "PRODUCTION" /\ provider # "taecel" /\ report[m].says = "enough" =>
         report[m].from = "production"

GuardInv == JobsPassed /\ BalancesAreTold

-----------------------------------------------------------------------------
(* Settings                                                                  *)

LEMMA DeployedIsSettings ==
  ASSUME provider \in Providers PROVE Deployed \subseteq Settings
BY DEF Providers, Deployed, LinntaeSettings, ReloadlySettings, TaecelSettings,
       ConektaSettings, CashSettings

\* Reloadly's host follows its mode.
LEMMA ReloadlyHost ==
  ASSUME provider = "reloadly", NEW c \in Deployed PROVE c.host = WorldOf(c.mode)
BY DEF Deployed, ReloadlySettings

LEMMA KeysAreKeys ==
  ASSUME NEW c \in Settings PROVE TokenKey(c) \in TokenKeys
BY DEF Settings, TokenKey, TokenKeys

\* Two settings that share a token have the same host and the same credentials.
LEMMA KeyTellsHost ==
  ASSUME provider \in Bears, NEW c \in Deployed, c \in Settings
  PROVE  HostOf(TokenKey(c)) = c.host /\ TokenKey(c)[3] = c.key
<1>1. CASE provider = "linntae"
  BY <1>1 DEF HostOf, TokenKey
<1>2. CASE provider = "reloadly"
  BY <1>2, ReloadlyHost DEF HostOf, TokenKey
<1> QED BY <1>1, <1>2 DEF Bears

\* What a process is given, from the cache or by the provider, is its own.
LEMMA GrantIsOwn ==
  ASSUME ReadinessTypeOK, TokensFitKeys, provider \in Bears,
         NEW c \in Deployed, CanBear(c)
  PROVE  Grant(c) = [host |-> c.host, key |-> c.key] /\ Grant(c) \in Token
<1>1. c \in Settings
  BY DeployedIsSettings DEF ReadinessTypeOK
<1>2. TokenKey(c) \in TokenKeys
  BY <1>1, KeysAreKeys
<1>3. CASE tokens[TokenKey(c)] # Nothing
  <2>1. tokens[TokenKey(c)] = [host |-> c.host, key |-> c.key]
    BY <1>1, <1>2, <1>3, KeyTellsHost DEF TokensFitKeys
  <2>2. tokens[TokenKey(c)] \in Token
    BY <1>2, <1>3 DEF ReadinessTypeOK
  <2> QED BY <2>1, <2>2, <1>3 DEF Grant
<1>4. CASE tokens[TokenKey(c)] = Nothing
  <2>1. Authenticates(c)
    BY <1>4 DEF CanBear
  <2>2. c.host \in Worlds \cup { "elsewhere" } /\ c.key \in Worlds
    BY <1>1, <2>1 DEF Settings, Authenticates
  <2> QED BY <1>4, <2>2 DEF Grant, Token
<1> QED BY <1>3, <1>4
-----------------------------------------------------------------------------
(* Tokens                                                                    *)

\* A token is only ever the process's own, when it is used and when it is kept.
LEMMA BearKeeps ==
  ASSUME ReadinessTypeOK, TokensFitKeys, NEW p \in Procs, NEW j \in Job, Bear(p, j),
         j.token # Nothing => j.token = [host |-> conf[p].host, key |-> conf[p].key],
         UNCHANGED << provider, conf >>
  PROVE  /\ tokens' \in [TokenKeys -> Token \cup { Nothing }] /\ TokensFitKeys'
         /\ job'[p] \in Job /\ job' = [job EXCEPT ![p] = job'[p]]
         /\ job'[p].pc = j.pc /\ job'[p].for = j.for /\ job'[p].seen = j.seen
         /\ job'[p].token # Nothing =>
              job'[p].token = [host |-> conf[p].host, key |-> conf[p].key]
<1> DEFINE c == conf[p]
<1>1. c \in Deployed /\ c \in Settings
  BY DeployedIsSettings DEF ReadinessTypeOK
<1>2. TokenKey(c) \in TokenKeys
  BY <1>1, KeysAreKeys
<1>3. CASE provider \in Bears
  <2>1. Grant(c) = [host |-> c.host, key |-> c.key] /\ Grant(c) \in Token
    BY <1>1, <1>3, GrantIsOwn DEF Bear
  <2>2. /\ tokens' = [tokens EXCEPT ![TokenKey(c)] = Grant(c)]
        /\ job' = [job EXCEPT ![p] = [j EXCEPT !.token = Grant(c)]]
    BY <1>3 DEF Bear
  <2>3. Grant(c) = [host |-> HostOf(TokenKey(c)), key |-> TokenKey(c)[3]]
    BY <1>1, <1>3, <2>1, KeyTellsHost
  <2>4. tokens' \in [TokenKeys -> Token \cup { Nothing }]
    BY <1>2, <2>1, <2>2 DEF ReadinessTypeOK
  <2>5. TokensFitKeys'
    BY <1>2, <1>3, <2>2, <2>3 DEF TokensFitKeys, HostOf, ReadinessTypeOK
  <2>6. [j EXCEPT !.token = Grant(c)] \in Job
    BY <2>1 DEF Job
  <2>7. job'[p] = [j EXCEPT !.token = Grant(c)]
    BY <2>2 DEF ReadinessTypeOK
  <2> QED BY <2>1, <2>2, <2>4, <2>5, <2>6, <2>7 DEF Job
<1>4. CASE provider \notin Bears
  <2>1. tokens' = tokens /\ job' = [job EXCEPT ![p] = j]
    BY <1>4 DEF Bear
  <2>2. job'[p] = j
    BY <2>1 DEF ReadinessTypeOK
  <2>3. TokensFitKeys'
    BY <2>1 DEF TokensFitKeys, HostOf
  <2> QED BY <2>1, <2>2, <2>3 DEF ReadinessTypeOK
<1> QED BY <1>3, <1>4

LEMMA IdleIsJob == Idle \in Job
BY DEF Idle, Job, Purposes, Steps

\* The same for the jobs of all, once it holds of the one that moved.
LEMMA OthersStay ==
  ASSUME ReadinessTypeOK, TokensStayHome, NEW p \in Procs, NEW j \in Job,
         job' = [job EXCEPT ![p] = j], UNCHANGED conf,
         j.token # Nothing => j.token = [host |-> conf[p].host, key |-> conf[p].key]
  PROVE  job' \in [Procs -> Job] /\ TokensStayHome'
BY DEF ReadinessTypeOK, TokensStayHome

LEMMA TokenInit == ReadinessInit => TokenInv
<1> SUFFICES ASSUME ReadinessInit PROVE TokenInv
  OBVIOUS
<1>1. ReadinessTypeOK
  BY IdleIsJob DEF ReadinessInit, ReadinessTypeOK
<1>2. TokensFitKeys
  BY DEF ReadinessInit, TokensFitKeys
<1>3. TokensStayHome
  BY DEF ReadinessInit, TokensStayHome, Idle
<1> QED BY <1>1, <1>2, <1>3 DEF TokenInv

LEMMA TokenStep == TokenInv /\ [ReadinessNext]_readinessVars => TokenInv'
<1> SUFFICES ASSUME TokenInv, [ReadinessNext]_readinessVars PROVE TokenInv'
  OBVIOUS
<1> USE IdleIsJob
<1> DEFINE Quiet == UNCHANGED << provider, conf, restarts, tokens >>
           Own(p, j) == j.token # Nothing => j.token = [host |-> conf[p].host, key |-> conf[p].key]
\* A step that leaves the tokens alone, with a job of its own.
<1>a. ASSUME Quiet, report' \in [Modes -> Report \cup { Nothing }], NEW p \in Procs,
             NEW j \in Job, job' = [job EXCEPT ![p] = j], Own(p, j)
      PROVE  TokenInv'
  <2>1. job' \in [Procs -> Job] /\ TokensStayHome'
    BY <1>a, OthersStay DEF TokenInv
  <2>2. TokensFitKeys'
    BY <1>a DEF TokenInv, TokensFitKeys, HostOf
  <2>3. ReadinessTypeOK'
    BY <1>a, <2>1 DEF TokenInv, ReadinessTypeOK, Deployed, LinntaeSettings, ReloadlySettings,
       TaecelSettings, ConektaSettings, CashSettings
  <2> QED BY <2>1, <2>2, <2>3 DEF TokenInv
\* A step that looks for a token.
<1>b. ASSUME UNCHANGED << provider, conf, restarts, report >>, NEW p \in Procs, NEW j \in Job,
             Bear(p, j), Own(p, j)
      PROVE  TokenInv'
  <2>1. /\ tokens' \in [TokenKeys -> Token \cup { Nothing }] /\ TokensFitKeys'
        /\ job'[p] \in Job /\ job' = [job EXCEPT ![p] = job'[p]] /\ Own(p, job'[p])
    BY <1>b, BearKeeps DEF TokenInv
  <2>2. job' \in [Procs -> Job] /\ TokensStayHome'
    BY <1>b, <2>1, OthersStay DEF TokenInv
  <2>3. ReadinessTypeOK'
    BY <1>b, <2>1, <2>2 DEF TokenInv, ReadinessTypeOK, Deployed, LinntaeSettings,
       ReloadlySettings, TaecelSettings, ConektaSettings, CashSettings
  <2> QED BY <2>1, <2>2, <2>3 DEF TokenInv
<1>c. ASSUME NEW p \in Procs PROVE job[p] \in Job /\ Own(p, job[p])
  BY <1>c DEF TokenInv, ReadinessTypeOK, TokensStayHome
<1>d. ASSUME NEW p \in Procs, NEW r \in Report, Judge(p, r)
      PROVE  \E j \in Job : job' = [job EXCEPT ![p] = j] /\ Own(p, j)
  <2> DEFINE j == [Idle EXCEPT !.seen = r, !.pc = IF Sells(conf[p], r) THEN "sold" ELSE "idle"]
  <2>1. j.token = Nothing /\ j \in Job
    BY DEF Idle, Job, Purposes, Steps
  <2> QED BY <1>d, <2>1 DEF Judge
<1>e. ASSUME NEW p \in Procs, NEW b \in Balances, Note(p, b)
      PROVE  /\ report' \in [Modes -> Report \cup { Nothing }]
             /\ \E j \in Job : job' = [job EXCEPT ![p] = j] /\ Own(p, j)
  <2>1. conf[p] \in Settings
    BY DeployedIsSettings DEF TokenInv, ReadinessTypeOK
  <2>2. [from |-> conf[p].host, says |-> b] \in Report /\ ReportKey(conf[p]) \in Modes
    BY <2>1 DEF Settings, Report, ReportKey
  <2> QED BY <1>e, <2>2, <1>d DEF Note, TokenInv, ReadinessTypeOK
<1>1. ASSUME NEW p \in Procs, FromCache(p) PROVE TokenInv'
  <2>1. report[ReportKey(conf[p])] \in Report
    <3>1. conf[p] \in Settings
      BY DeployedIsSettings DEF TokenInv, ReadinessTypeOK
    <3> QED BY <1>1, <3>1 DEF FromCache, TokenInv, ReadinessTypeOK, Settings, ReportKey
  <2> QED BY <1>1, <2>1, <1>a, <1>d DEF FromCache, TokenInv, ReadinessTypeOK
<1>2. ASSUME NEW p \in Procs, Unasked(p) PROVE TokenInv'
  BY <1>2, <1>a, <1>e DEF Unasked, Balances
<1>3. ASSUME NEW p \in Procs, NEW b \in Balances, Told(p, b) PROVE TokenInv'
  BY <1>3, <1>a, <1>e DEF Told
<1>4. ASSUME NEW p \in Procs, NotReady(p) PROVE TokenInv'
  <2>1. \E s \in { "stuck", "idle" } : job' = [job EXCEPT ![p] = [Idle EXCEPT !.pc = s]]
    BY <1>4 DEF NotReady
  <2>2. ASSUME NEW s \in { "stuck", "idle" }
        PROVE  [Idle EXCEPT !.pc = s] \in Job /\ Own(p, [Idle EXCEPT !.pc = s])
    BY DEF Idle, Job, Purposes, Steps
  <2> QED BY <1>4, <2>1, <2>2, <1>a DEF NotReady, TokenInv, ReadinessTypeOK
<1>5. ASSUME NEW p \in Procs, Clear(p) PROVE TokenInv'
  <2>1. PICK s \in { "clear", "sent" } : job' = [job EXCEPT ![p] = [job[p] EXCEPT !.pc = s]]
    BY <1>5 DEF Clear, TokenInv, ReadinessTypeOK
  <2>2. [job[p] EXCEPT !.pc = s] \in Job /\ Own(p, [job[p] EXCEPT !.pc = s])
    BY <1>c DEF Job, Steps
  <2> QED BY <1>5, <2>1, <2>2, <1>a DEF Clear, TokenInv, ReadinessTypeOK
<1>6. ASSUME NEW p \in Procs, Post(p) PROVE TokenInv'
  <2>1. CASE provider = "linntae" /\ conf[p].purse = "odd"
    <3>1. job' = [job EXCEPT ![p] = [job[p] EXCEPT !.pc = "stuck"]]
      BY <1>6, <2>1 DEF Post, TokenInv, ReadinessTypeOK
    <3>2. [job[p] EXCEPT !.pc = "stuck"] \in Job /\ Own(p, [job[p] EXCEPT !.pc = "stuck"])
      BY <1>c DEF Job, Steps
    <3> QED BY <1>6, <2>1, <3>1, <3>2, <1>a DEF Post, TokenInv, ReadinessTypeOK
  <2>2. CASE ~ (provider = "linntae" /\ conf[p].purse = "odd")
    <3>1. [job[p] EXCEPT !.pc = "posted"] \in Job /\ Own(p, [job[p] EXCEPT !.pc = "posted"])
      BY <1>c DEF Job, Steps
    <3> QED BY <1>6, <2>2, <3>1, <1>b DEF Post
  <2> QED BY <2>1, <2>2
<1>7. ASSUME NEW p \in Procs, Fetch(p) \/ Done(p) PROVE TokenInv'
  <2>1. Own(p, Idle)
    BY DEF Idle
  <2> QED BY <1>7, <2>1, <1>a DEF Fetch, Done, TokenInv, ReadinessTypeOK
<1>8. ASSUME NEW p \in Procs, NEW w \in Purposes, Ask(p, w) PROVE TokenInv'
  <2>1. [Idle EXCEPT !.for = w, !.pc = "asking"] \in Job
        /\ Own(p, [Idle EXCEPT !.for = w, !.pc = "asking"])
    BY DEF Idle, Job, Purposes, Steps
  <2> QED BY <1>8, <2>1, <1>b DEF Ask
<1>9. ASSUME NEW p \in Procs, NEW c \in Deployed, Restart(p, c) PROVE TokenInv'
  <2>1. /\ conf' = [conf EXCEPT ![p] = c] /\ job' = [job EXCEPT ![p] = Idle]
        /\ restarts' = restarts + 1
        /\ UNCHANGED << provider, tokens, report >>
    BY <1>9 DEF Restart
  <2>2. conf' \in [Procs -> Deployed]
    BY <2>1 DEF TokenInv, ReadinessTypeOK
  <2>3. ReadinessTypeOK'
    <3>1. restarts' \in Nat /\ job' \in [Procs -> Job]
      BY <2>1 DEF TokenInv, ReadinessTypeOK
    <3>2. Deployed' = Deployed
      BY <2>1 DEF Deployed, LinntaeSettings, ReloadlySettings, TaecelSettings,
         ConektaSettings, CashSettings
    <3> QED BY <2>1, <2>2, <3>1, <3>2 DEF TokenInv, ReadinessTypeOK
  <2>4. TokensStayHome'
    BY <2>1 DEF TokenInv, ReadinessTypeOK, TokensStayHome, Idle
  <2>5. TokensFitKeys'
    BY <2>1 DEF TokenInv, TokensFitKeys, HostOf
  <2> QED BY <2>3, <2>4, <2>5 DEF TokenInv
<1>10. ASSUME Expires PROVE TokenInv'
  <2>1. /\ tokens' \in [TokenKeys -> Token \cup { Nothing }]
        /\ report' \in [Modes -> Report \cup { Nothing }]
    BY <1>10 DEF Expires, TokenInv, ReadinessTypeOK
  <2>2. \A k \in TokenKeys : tokens'[k] # Nothing => tokens'[k] = tokens[k]
    BY <1>10 DEF Expires, TokenInv, ReadinessTypeOK
  <2>3. TokensFitKeys'
    BY <1>10, <2>2 DEF Expires, TokenInv, TokensFitKeys, HostOf
  <2>4. TokensStayHome'
    BY <1>10 DEF Expires, TokenInv, TokensStayHome
  <2>5. ReadinessTypeOK'
    BY <1>10, <2>1 DEF Expires, TokenInv, ReadinessTypeOK, Deployed, LinntaeSettings,
       ReloadlySettings, TaecelSettings, ConektaSettings, CashSettings
  <2> QED BY <2>3, <2>4, <2>5 DEF TokenInv
<1>11. ASSUME UNCHANGED readinessVars PROVE TokenInv'
  BY <1>11 DEF readinessVars, TokenInv, ReadinessTypeOK, TokensFitKeys, TokensStayHome, HostOf,
     Deployed, LinntaeSettings, ReloadlySettings, TaecelSettings, ConektaSettings, CashSettings
<1> QED
  BY <1>1, <1>2, <1>3, <1>4, <1>5, <1>6, <1>7, <1>8, <1>9, <1>10, <1>11 DEF ReadinessNext
-----------------------------------------------------------------------------
(* Guards                                                                    *)

LEMMA OnlyOneMoves ==
  ASSUME ReadinessTypeOK, JobsPassed, NEW p \in Procs, NEW j,
         job' = [job EXCEPT ![p] = j], UNCHANGED << provider, conf >>, Passed(p, j)
  PROVE  JobsPassed'
<1> SUFFICES ASSUME NEW q \in Procs PROVE Passed(q, job[q])'
  BY DEF JobsPassed
<1>1. Passed(q, job'[q])
  BY DEF ReadinessTypeOK, JobsPassed
<1> QED BY <1>1 DEF Passed, Coherent, EnvironmentAgrees, ConektaReady, Topups

\* A sale that the guard lets through in production saw what it had to see.
LEMMA JudgedRight ==
  ASSUME ReadinessTypeOK, NEW p \in Procs, NEW r \in Report, provider \in Topups,
         /\ conf[p].mode = "PRODUCTION" /\ provider # "taecel" /\ r.says = "enough"
              => r.from = "production"
  PROVE  Passed(p, [Idle EXCEPT !.seen = r, !.pc = IF Sells(conf[p], r) THEN "sold" ELSE "idle"])
<1> DEFINE j == [Idle EXCEPT !.seen = r, !.pc = IF Sells(conf[p], r) THEN "sold" ELSE "idle"]
<1>1. j.pc \in { "sold", "idle" } /\ j.seen = r /\ (j.pc = "sold" => Sells(conf[p], r))
  BY DEF Idle
<1>2. ASSUME j.pc = "sold", conf[p].mode = "PRODUCTION", provider # "taecel"
      PROVE  j.seen = [from |-> "production", says |-> "enough"]
  <2>1. r.says = "enough"
    BY <1>1, <1>2 DEF Sells
  <2> QED BY <1>1, <1>2, <2>1 DEF Report
<1> QED BY <1>1, <1>2 DEF Passed

\* A coherent process in production mode asks the host of production.
LEMMA AskedAtHome ==
  ASSUME ReadinessTypeOK, NEW p \in Procs, provider \in { "linntae", "reloadly" },
         Coherent(conf[p]), conf[p].mode = "PRODUCTION"
  PROVE  conf[p].host = "production"
<1>1. CASE provider = "linntae"
  BY <1>1 DEF Coherent, WorldOf
<1>2. CASE provider = "reloadly"
  BY <1>2, ReloadlyHost DEF ReadinessTypeOK, WorldOf
<1> QED BY <1>1, <1>2

\* saldo.consultar keeps a balance that was told, or that it is not known.
LEMMA NoteKeeps ==
  ASSUME TokenInv, GuardInv, NEW p \in Procs, NEW b \in Balances, Note(p, b),
         UNCHANGED << provider, conf >>, provider \in Topups,
         b # "unsaid" => Coherent(conf[p])
  PROVE  GuardInv'
<1> DEFINE c == conf[p]
           r == [from |-> c.host, says |-> b]
           j == [Idle EXCEPT !.seen = r, !.pc = IF Sells(c, r) THEN "sold" ELSE "idle"]
<1>1. c \in Settings /\ r \in Report
  BY DeployedIsSettings DEF TokenInv, ReadinessTypeOK, Settings, Report
<1>2. c.mode = "PRODUCTION" /\ provider # "taecel" /\ r.says = "enough" => r.from = "production"
  BY AskedAtHome DEF TokenInv, Topups
<1>3. JobsPassed'
  <2>1. Passed(p, j)
    BY <1>1, <1>2, JudgedRight DEF TokenInv
  <2>2. job' = [job EXCEPT ![p] = j]
    BY DEF Note, Judge
  <2> QED BY <2>1, <2>2, OnlyOneMoves DEF TokenInv, GuardInv
<1>4. BalancesAreTold'
  <2>1. report' = [report EXCEPT ![c.mode] = r]
    BY DEF Note, ReportKey
  <2> QED BY <2>1, <1>1, <1>2 DEF TokenInv, ReadinessTypeOK, GuardInv, BalancesAreTold, Settings, Topups
<1> QED BY <1>3, <1>4 DEF GuardInv

LEMMA GuardInit == ReadinessInit => GuardInv
BY DEF ReadinessInit, GuardInv, JobsPassed, Passed, BalancesAreTold, Idle

LEMMA GuardStep == TokenInv /\ GuardInv /\ [ReadinessNext]_readinessVars => GuardInv'
<1> SUFFICES ASSUME TokenInv, GuardInv, [ReadinessNext]_readinessVars PROVE GuardInv'
  OBVIOUS
<1> USE DEF TokenInv, GuardInv
\* A step that leaves the balances alone, with a job that has passed.
<1>a. ASSUME UNCHANGED << provider, conf, report >>, NEW p \in Procs, NEW j,
             job' = [job EXCEPT ![p] = j], Passed(p, j)
      PROVE  GuardInv'
  <2>1. JobsPassed'
    BY <1>a, OnlyOneMoves
  <2>2. BalancesAreTold'
    BY <1>a DEF BalancesAreTold
  <2> QED BY <2>1, <2>2
\* The same for a step that looks for a token.
<1>b. ASSUME UNCHANGED << provider, conf, report >>, NEW p \in Procs, NEW j \in Job,
             Bear(p, j), Passed(p, j),
             j.token # Nothing => j.token = [host |-> conf[p].host, key |-> conf[p].key]
      PROVE  GuardInv'
  <2>1. /\ job' = [job EXCEPT ![p] = job'[p]]
        /\ job'[p].pc = j.pc /\ job'[p].for = j.for /\ job'[p].seen = j.seen
    BY <1>b, BearKeeps
  <2>2. Passed(p, job'[p])
    BY <1>b, <2>1 DEF Passed
  <2> QED BY <1>b, <2>1, <2>2, <1>a
<1>1. ASSUME NEW p \in Procs, FromCache(p) PROVE GuardInv'
  <2> DEFINE r == report[conf[p].mode]
  <2>1. conf[p].mode \in Modes
    BY DeployedIsSettings DEF ReadinessTypeOK, Settings
  <2>2. r \in Report /\ r # Nothing /\ Judge(p, r)
    BY <1>1, <2>1 DEF FromCache, ReportKey, ReadinessTypeOK
  <2>3. /\ provider \in Topups
        /\ conf[p].mode = "PRODUCTION" /\ provider # "taecel" /\ r.says = "enough"
             => r.from = "production"
    BY <2>1, <2>2 DEF BalancesAreTold
  <2>4. Passed(p, [Idle EXCEPT !.seen = r, !.pc = IF Sells(conf[p], r) THEN "sold" ELSE "idle"])
    BY <2>2, <2>3, JudgedRight
  <2> QED BY <1>1, <2>2, <2>4, <1>a DEF FromCache, Judge
<1>2. ASSUME NEW p \in Procs, Unasked(p) PROVE GuardInv'
  BY <1>2, NoteKeeps DEF Unasked, Balances
<1>3. ASSUME NEW p \in Procs, NEW b \in Balances, Told(p, b) PROVE GuardInv'
  BY <1>3, NoteKeeps DEF Told, JobsPassed, Passed
<1>4. ASSUME NEW p \in Procs, NotReady(p) PROVE GuardInv'
  <2>1. \E s \in { "stuck", "idle" } : job' = [job EXCEPT ![p] = [Idle EXCEPT !.pc = s]]
    BY <1>4 DEF NotReady
  <2>2. ASSUME NEW s \in { "stuck", "idle" } PROVE Passed(p, [Idle EXCEPT !.pc = s])
    BY DEF Idle, Passed
  <2> QED BY <1>4, <2>1, <2>2, <1>a DEF NotReady
<1>5. ASSUME NEW p \in Procs, Clear(p) PROVE GuardInv'
  <2> DEFINE s == IF job[p].for = "send" THEN "clear" ELSE "sent"
             j == [job[p] EXCEPT !.pc = s]
  <2>1. job[p] \in Job /\ job[p].pc = "asking" /\ job[p].for \in { "execute", "send" }
    BY <1>5 DEF Clear, ReadySays, ReadinessTypeOK
  <2>2. Passed(p, job[p])
    BY DEF JobsPassed
  <2>3. provider = "conekta" => ConektaReady(conf[p])
    BY <1>5 DEF Clear, ReadySays, Ready
  <2>4. j.pc = s /\ j.for = job[p].for
    BY <2>1 DEF Job
  <2>5. Passed(p, j)
    BY <2>1, <2>2, <2>3, <2>4 DEF Passed
  <2>6. job' = [job EXCEPT ![p] = j]
    BY <1>5 DEF Clear, ReadinessTypeOK
  <2> QED BY <1>5, <2>5, <2>6, <1>a DEF Clear
<1>6. ASSUME NEW p \in Procs, Post(p) PROVE GuardInv'
  <2>1. job[p] \in Job /\ job[p].pc = "clear"
        /\ (job[p].token # Nothing => job[p].token = [host |-> conf[p].host, key |-> conf[p].key])
    BY <1>6 DEF Post, ReadinessTypeOK, TokensStayHome
  <2>2. Passed(p, job[p])
    BY DEF JobsPassed
  <2>3. Passed(p, [job[p] EXCEPT !.pc = "stuck"])
    BY <2>1 DEF Job, Passed
  <2>4. [job[p] EXCEPT !.pc = "posted"] \in Job /\ Passed(p, [job[p] EXCEPT !.pc = "posted"])
    BY <2>1, <2>2 DEF Job, Passed, Steps
  <2>5. CASE provider = "linntae" /\ conf[p].purse = "odd"
    <3>1. job' = [job EXCEPT ![p] = [job[p] EXCEPT !.pc = "stuck"]]
      BY <1>6, <2>5 DEF Post, ReadinessTypeOK
    <3> QED BY <1>6, <3>1, <2>3, <1>a DEF Post
  <2>6. CASE ~ (provider = "linntae" /\ conf[p].purse = "odd")
    <3>1. Bear(p, [job[p] EXCEPT !.pc = "posted"])
      BY <1>6, <2>6 DEF Post
    <3>2. LET j == [job[p] EXCEPT !.pc = "posted"] IN
          j.token # Nothing => j.token = [host |-> conf[p].host, key |-> conf[p].key]
      BY <2>1 DEF Job
    <3> QED BY <1>6, <3>1, <3>2, <2>4, <1>b DEF Post
  <2> QED BY <2>5, <2>6
<1>7. ASSUME NEW p \in Procs, Fetch(p) \/ Done(p) PROVE GuardInv'
  <2>1. Passed(p, Idle)
    BY DEF Idle, Passed
  <2> QED BY <1>7, <2>1, <1>a DEF Fetch, Done
<1>8. ASSUME NEW p \in Procs, NEW w \in Purposes, Ask(p, w) PROVE GuardInv'
  <2> DEFINE j == [Idle EXCEPT !.for = w, !.pc = "asking"]
  <2>1. j \in Job /\ j.token = Nothing /\ j.for = w /\ j.pc = "asking"
    BY DEF Idle, Job, Purposes, Steps
  <2>2. Coherent(conf[p]) /\ (w = "send" => EnvironmentAgrees(conf[p]))
    BY <1>8 DEF Ask, MayAsk, Guarded
  <2>3. Passed(p, j)
    BY <1>8, <2>1, <2>2 DEF Ask, Passed
  <2> QED BY <1>8, <2>1, <2>3, <1>b DEF Ask
<1>9. ASSUME NEW p \in Procs, NEW c \in Deployed, Restart(p, c) PROVE GuardInv'
  <2>1. /\ conf' = [conf EXCEPT ![p] = c] /\ job' = [job EXCEPT ![p] = Idle]
        /\ UNCHANGED << provider, report >>
    BY <1>9 DEF Restart
  <2>2. BalancesAreTold'
    BY <2>1 DEF BalancesAreTold
  <2>3. ASSUME NEW q \in Procs PROVE Passed(q, job[q])'
    <3>1. CASE q = p
      BY <2>1, <3>1 DEF ReadinessTypeOK, Idle, Passed
    <3>2. CASE q # p
      <4>1. conf'[q] = conf[q] /\ job'[q] = job[q] /\ Passed(q, job[q])
        BY <2>1, <3>2 DEF ReadinessTypeOK, JobsPassed
      <4> QED BY <2>1, <4>1 DEF Passed, Coherent, EnvironmentAgrees, ConektaReady, Topups
    <3> QED BY <3>1, <3>2
  <2> QED BY <2>2, <2>3 DEF JobsPassed
<1>10. ASSUME Expires PROVE GuardInv'
  <2>1. \A m \in Modes : report'[m] # Nothing => report'[m] = report[m]
    BY <1>10 DEF Expires, ReadinessTypeOK
  <2>2. BalancesAreTold'
    BY <1>10, <2>1 DEF Expires, BalancesAreTold, Topups
  <2>3. JobsPassed'
    BY <1>10 DEF Expires, JobsPassed, Passed, Coherent, EnvironmentAgrees, ConektaReady, Topups
  <2> QED BY <2>2, <2>3
<1>11. ASSUME UNCHANGED readinessVars PROVE GuardInv'
  BY <1>11 DEF readinessVars, JobsPassed, BalancesAreTold, Passed, Coherent,
     EnvironmentAgrees, ConektaReady, Topups
<1> QED
  BY <1>1, <1>2, <1>3, <1>4, <1>5, <1>6, <1>7, <1>8, <1>9, <1>10, <1>11 DEF ReadinessNext

-----------------------------------------------------------------------------
(* Theorems                                                                  *)

LEMMA Invariants == ReadinessSpec => [](TokenInv /\ GuardInv)
<1>1. ReadinessInit => TokenInv /\ GuardInv
  BY TokenInit, GuardInit
<1>2. TokenInv /\ GuardInv /\ [ReadinessNext]_readinessVars => (TokenInv /\ GuardInv)'
  BY TokenStep, GuardStep
<1> QED BY <1>1, <1>2, PTL DEF ReadinessSpec

\* Every variable keeps to its values: what a cache of tokens, balances and jobs
\* may hold for the provider at hand.
THEOREM TypeCorrect == ReadinessSpec => []ReadinessTypeOK
<1>1. TokenInv => ReadinessTypeOK
  BY DEF TokenInv
<1> QED BY <1>1, Invariants, PTL

\* _ensure_token and Autenticador.token: whatever is restarted with whatever
\* settings, no process sends a token of another host or of other credentials.
THEOREM TokensAreOwn == ReadinessSpec => []TokensStayHome
<1>1. TokenInv => TokensStayHome
  BY DEF TokenInv
<1> QED BY <1>1, Invariants, PTL

\* ensure_ready and the guards of the clients: real money moves from production
\* and only from there.
THEOREM WorldsAreApart == ReadinessSpec => []WorldsNeverMix
<1>1. TokenInv /\ GuardInv => WorldsNeverMix
  <2> SUFFICES ASSUME TokenInv, GuardInv, NEW p \in Procs, job[p].pc = "posted",
                      provider \in { "linntae", "reloadly", "conekta" }
               PROVE  Reached(conf[p]) = "production" <=> conf[p].env = "production"
    BY DEF WorldsNeverMix
  <2> DEFINE c == conf[p]
  <2>1. /\ c \in Deployed /\ Coherent(c) /\ EnvironmentAgrees(c)
        /\ provider = "conekta" => ConektaReady(c)
    BY DEF TokenInv, ReadinessTypeOK, GuardInv, JobsPassed, Passed
  <2>2. Reached(c) = WorldOf(c.mode)
    BY <2>1, ReloadlyHost DEF Reached, Coherent, ConektaReady
  <2> QED BY <2>1, <2>2 DEF EnvironmentAgrees, WorldOf
<1> QED BY <1>1, Invariants, PTL

\* saldo.verificar over the shared cache: no sale passes in production without
\* a balance that production told.
THEOREM PurseWasSeen == ReadinessSpec => []GuardSawThePurse
<1>1. GuardInv => GuardSawThePurse
  BY DEF GuardInv, JobsPassed, Passed, GuardSawThePurse
<1> QED BY <1>1, Invariants, PTL

-----------------------------------------------------------------------------
(* LinntaeSession: the inductive invariant                                   *)

Operation == [kind : { "read", "buy" }, pc : SessionSteps, try : Nat, early : BOOLEAN,
              mine : BOOLEAN, token : Nat, refused : Seq(Nat)]

\* An operation o while the cache holds c and n tokens were issued: what it has
\* was issued; what it has just been issued is not in the cache; once a token
\* was refused to it, the cache does not hold that token and it is not sent
\* again; after a second refusal it is over, and that was of another token.
Held(c, n, o) ==
  /\ o.pc \in { "keep", "send" } => o.token \in 1 .. n
  /\ \A i \in 1 .. Len(o.refused) : o.refused[i] \in 1 .. n
  /\ o.pc = "keep" => /\ c # o.token
                      /\ \A i \in 1 .. Len(o.refused) : o.refused[i] # o.token
  /\ Len(o.refused) <= 2
  /\ Len(o.refused) = 1 =>
       c # o.refused[1] /\ (o.pc = "send" => o.token # o.refused[1])
  /\ Len(o.refused) = 2 => o.pc = "idle" /\ o.refused[1] # o.refused[2]

\* What o has just been issued, u does not send, keep or know as refused.
NewTo(o, u) ==
  o.pc = "keep" =>
    /\ u.pc \in { "keep", "send" } => u.token # o.token
    /\ \A i \in 1 .. Len(u.refused) : u.refused[i] # o.token

SessionInv ==
  /\ cached \in Nat /\ issued \in Nat /\ cached <= issued
  /\ op \in [Clients -> Operation]
  /\ \A p \in Clients : Held(cached, issued, op[p])
  /\ \A p, q \in Clients : p # q => NewTo(op[p], op[q])

LEMMA NoOpHolds ==
  ASSUME NEW c \in Nat, NEW n \in Nat
  PROVE  NoOp \in Operation /\ Held(c, n, NoOp) /\ \A u : NewTo(u, NoOp) /\ NewTo(NoOp, u)
<1>1. NoOp \in Operation /\ Len(NoOp.refused) = 0 /\ NoOp.pc = "idle"
  BY DEF NoOp, Operation, SessionSteps
<1> QED BY <1>1 DEF Held, NewTo

LEMMA SessionInitInv == SessionInit => SessionInv
<1> SUFFICES ASSUME SessionInit PROVE SessionInv
  OBVIOUS
<1>1. \A p \in Clients : op[p] = NoOp
  BY DEF SessionInit
<1>2. /\ op \in [Clients -> Operation]
      /\ \A p \in Clients : Held(cached, issued, op[p])
      /\ \A p, q \in Clients : p # q => NewTo(op[p], op[q])
  BY <1>1, NoOpHolds DEF SessionInit
<1> QED BY <1>2 DEF SessionInv, SessionInit

\* A process that keeps no new token goes on, and at most the cache is emptied.
LEMMA GoesOn ==
  ASSUME SessionInv, NEW p \in Clients, NEW o \in Operation,
         op' = [op EXCEPT ![p] = o], issued' = issued, cached' \in { cached, 0 },
         o.pc # "keep", Held(cached', issued, o),
         \A q \in Clients : q # p => NewTo(op[q], o)
  PROVE  SessionInv'
<1>1. op' \in [Clients -> Operation] /\ op'[p] = o /\ \A q \in Clients : q # p => op'[q] = op[q]
  BY DEF SessionInv
<1>2. \A q \in Clients : q # p => Held(cached', issued', op'[q])
  BY <1>1 DEF SessionInv, Held
<1>3. \A q \in Clients : NewTo(o, op'[q])
  BY DEF NewTo
<1>4. \A r, q \in Clients : r # q => NewTo(op'[r], op'[q])
  BY <1>1, <1>3 DEF SessionInv
<1> QED BY <1>1, <1>2, <1>4 DEF SessionInv

\* Having got t, an operation to which t was not refused may go on with it.
LEMMA HoldingHolds ==
  ASSUME NEW c \in Nat, NEW n \in Nat, NEW o \in Operation, Held(c, n, o), o.pc # "idle",
         NEW t \in 1 .. n, \A i \in 1 .. Len(o.refused) : o.refused[i] # t,
         NEW d \in { c, t }
  PROVE  /\ Holding(o, t) \in Operation /\ Holding(o, t).pc \in { "token", "send" }
         /\ Holding(o, t).refused = o.refused
         /\ Holding(o, t).pc = "send" => Holding(o, t).token = t
         /\ Held(d, n, Holding(o, t))
<1>1. t \in Nat
  OBVIOUS
<1>2. /\ Holding(o, t) \in Operation /\ Holding(o, t).pc \in { "token", "send" }
      /\ Holding(o, t).refused = o.refused
      /\ Holding(o, t).pc = "send" => Holding(o, t).token = t
  <2>1. CASE o.early
    BY <2>1 DEF Holding, Operation, SessionSteps
  <2>2. CASE ~ o.early
    BY <1>1, <2>2 DEF Holding, Operation, SessionSteps
  <2> QED BY <2>1, <2>2
<1> QED BY <1>2 DEF Held

LEMMA BelowTwo == \A k \in Nat : k <= 2 /\ k # 2 => k \in { 0, 1 }
OBVIOUS

\* The same when t was in the cache.
LEMMA TakesCached ==
  ASSUME SessionInv, NEW p \in Clients, op[p].pc # "idle", cached # 0,
         op' = [op EXCEPT ![p] = Holding(op[p], cached)], cached' = cached, issued' = issued
  PROVE  SessionInv'
<1> DEFINE o == Holding(op[p], cached)
<1>1. op[p] \in Operation /\ Held(cached, issued, op[p]) /\ cached \in 1 .. issued
  BY DEF SessionInv
<1>2. Len(op[p].refused) \in Nat
  BY <1>1 DEF Operation
<1>3. \A i \in 1 .. Len(op[p].refused) : op[p].refused[i] # cached
  <2>1. Len(op[p].refused) <= 2 /\ Len(op[p].refused) # 2
    BY <1>1 DEF Held
  <2>2. Len(op[p].refused) \in { 0, 1 }
    BY <1>2, <2>1, BelowTwo
  <2>3. CASE Len(op[p].refused) = 1
    BY <1>1, <2>3 DEF Held
  <2> QED BY <2>2, <2>3
<1>4. /\ o \in Operation /\ o.pc \in { "token", "send" } /\ o.refused = op[p].refused
      /\ o.pc = "send" => o.token = cached
      /\ Held(cached, issued, o)
  BY <1>1, <1>3, HoldingHolds DEF SessionInv
<1> HIDE DEF o
<1>5. ASSUME NEW q \in Clients, q # p PROVE NewTo(op[q], o)
  <2>1. NewTo(op[q], op[p]) /\ Held(cached, issued, op[q])
    BY <1>5 DEF SessionInv
  <2> QED BY <1>4, <2>1 DEF NewTo, Held
<1>6. op' = [op EXCEPT ![p] = o]
  BY DEF o
<1> QED BY <1>4, <1>5, <1>6, GoesOn

LEMMA AgainIs ==
  ASSUME NEW o \in Operation
  PROVE  /\ Again(o) \in Operation /\ Again(o).pc \in { "token", "idle" }
         /\ Again(o).refused = o.refused
<1>1. CASE o.try < Attempts
  <2> DEFINE n == o.try + 1
             u == [o EXCEPT !.pc = "token", !.try = n, !.token = 0]
  <2>1. n \in Nat /\ 0 \in Nat
    BY DEF Operation
  <2>2. Again(o) = u
    BY <1>1 DEF Again, Operation
  <2> HIDE DEF n
  <2>3. u \in Operation /\ u.pc = "token" /\ u.refused = o.refused
    BY <2>1 DEF Operation, SessionSteps
  <2> QED BY <2>2, <2>3
<1>2. CASE ~ (o.try < Attempts)
  BY <1>2 DEF Again, Operation, SessionSteps
<1> QED BY <1>1, <1>2

-----------------------------------------------------------------------------
(* LinntaeSession: the steps                                                 *)

\* What most steps do: the operation is at another step, with the same token
\* and the same refusals.
LEMMA MovesOn ==
  ASSUME SessionInv, NEW p \in Clients, op[p].pc # "idle", NEW o \in Operation,
         o.pc \notin { "keep", "send" }, o.refused = op[p].refused,
         op' = [op EXCEPT ![p] = o], issued' = issued, cached' \in { cached, 0 }
  PROVE  SessionInv'
<1>1. Held(cached, issued, op[p]) /\ \A q \in Clients : q # p => NewTo(op[q], op[p])
  BY DEF SessionInv
<1>2. Held(cached', issued, o)
  BY <1>1 DEF Held
<1>3. \A q \in Clients : q # p => NewTo(op[q], o)
  BY <1>1 DEF NewTo
<1> QED BY <1>2, <1>3, GoesOn

LEMMA SessionAsked ==
  ASSUME SessionInv, NEW p \in Clients, Asked(p)
  PROVE  SessionInv'
<1> DEFINE o == [op[p] EXCEPT !.pc = "keep", !.mine = FALSE, !.token = issued + 1]
<1>1. /\ op' = [op EXCEPT ![p] = o] /\ issued' = issued + 1 /\ cached' = cached
      /\ op[p].pc = "asking"
  BY DEF Asked, SessionInv
<1>2. op[p] \in Operation /\ issued \in Nat /\ cached \in Nat /\ cached <= issued
  BY DEF SessionInv
<1>3. o \in Operation /\ o.pc = "keep" /\ o.token = issued + 1 /\ o.refused = op[p].refused
  <2> DEFINE t == issued + 1
  <2>1. t \in Nat
    BY <1>2
  <2> HIDE DEF t
  <2>2. LET u == [op[p] EXCEPT !.pc = "keep", !.mine = FALSE, !.token = t]
        IN  u \in Operation /\ u.pc = "keep" /\ u.token = t /\ u.refused = op[p].refused
    BY <1>2, <2>1 DEF Operation, SessionSteps
  <2> QED BY <2>2 DEF t
<1> HIDE DEF o
<1>4. \A q \in Clients : op[q] \in Operation /\ Held(cached, issued, op[q])
  BY DEF SessionInv
<1>5. \A q \in Clients : Held(cached, issued + 1, op[q])
  BY <1>2, <1>4 DEF Held
<1>6. Held(cached, issued + 1, o)
  BY <1>1, <1>2, <1>3, <1>4 DEF Held
<1>7. \A q \in Clients : q # p => NewTo(o, op[q])
  BY <1>2, <1>3, <1>4 DEF Held, NewTo
<1>8. \A q \in Clients : q # p => NewTo(op[q], o)
  <2> SUFFICES ASSUME NEW q \in Clients, q # p PROVE NewTo(op[q], o)
    OBVIOUS
  <2>1. NewTo(op[q], op[p]) /\ (op[q].pc = "keep" => op[q].token \in 1 .. issued)
    BY <1>4 DEF SessionInv, Held
  <2> QED BY <1>2, <1>3, <2>1 DEF NewTo
<1>9. op'[p] = o /\ op' \in [Clients -> Operation] /\ \A q \in Clients : q # p => op'[q] = op[q]
  BY <1>1, <1>3 DEF SessionInv
<1>10. \A q \in Clients : Held(cached', issued', op'[q])
  BY <1>1, <1>5, <1>6, <1>9
<1>11. \A r, q \in Clients : r # q => NewTo(op'[r], op'[q])
  BY <1>7, <1>8, <1>9 DEF SessionInv
<1> QED BY <1>1, <1>2, <1>9, <1>10, <1>11 DEF SessionInv

LEMMA SessionKeep ==
  ASSUME SessionInv, NEW p \in Clients, Keep(p)
  PROVE  SessionInv'
<1> DEFINE t == op[p].token
           o == Holding(op[p], t)
<1>1. op' = [op EXCEPT ![p] = o] /\ issued' = issued /\ cached' = t /\ op[p].pc = "keep"
  BY DEF Keep, SessionInv
<1>2. /\ op[p] \in Operation /\ Held(cached, issued, op[p])
      /\ issued \in Nat /\ cached \in Nat
  BY DEF SessionInv
<1>3. t \in 1 .. issued /\ \A i \in 1 .. Len(op[p].refused) : op[p].refused[i] # t
  BY <1>1, <1>2 DEF Held
<1>4. /\ o \in Operation /\ o.pc \in { "token", "send" } /\ o.refused = op[p].refused
      /\ o.pc = "send" => o.token = t
      /\ Held(t, issued, o)
  BY <1>1, <1>2, <1>3, HoldingHolds
<1> HIDE DEF o
<1>5. op'[p] = o /\ op' \in [Clients -> Operation] /\ \A q \in Clients : q # p => op'[q] = op[q]
  BY <1>1, <1>4 DEF SessionInv
<1>6. ASSUME NEW q \in Clients, q # p
      PROVE  Held(t, issued, op[q]) /\ NewTo(op[q], o) /\ NewTo(o, op[q])
  <2>1. /\ Held(cached, issued, op[q]) /\ NewTo(op[p], op[q]) /\ NewTo(op[q], op[p])
        /\ op[q] \in Operation
    BY <1>6 DEF SessionInv
  <2>2. Len(op[q].refused) \in Nat
    BY <2>1 DEF Operation
  <2>3. /\ op[q].pc \in { "keep", "send" } => op[q].token # t
        /\ \A i \in 1 .. Len(op[q].refused) : op[q].refused[i] # t
    BY <1>1, <2>1 DEF NewTo
  <2>4. Held(t, issued, op[q])
    BY <2>1, <2>2, <2>3 DEF Held
  <2>5. NewTo(op[q], o)
    BY <1>1, <1>4, <2>1, <2>3 DEF NewTo
  <2> QED BY <1>4, <2>4, <2>5 DEF NewTo
<1>7. \A q \in Clients : Held(cached', issued', op'[q])
  BY <1>1, <1>4, <1>5, <1>6
<1>8. \A r, q \in Clients : r # q => NewTo(op'[r], op'[q])
  BY <1>5, <1>6 DEF SessionInv
<1> QED BY <1>1, <1>2, <1>3, <1>5, <1>7, <1>8 DEF SessionInv

\* The first refusal empties the cache, so the next token is another; whatever
\* is put there meanwhile was issued to somebody who had not kept it yet.
LEMMA SessionRefused ==
  ASSUME SessionInv, NEW p \in Clients, Refused(p)
  PROVE  SessionInv'
<1> DEFINE t == op[p].token
           o == [op[p] EXCEPT !.refused = Append(@, t)]
<1>1. /\ op[p] \in Operation /\ Held(cached, issued, op[p])
      /\ op[p].pc = "send" /\ issued \in Nat /\ cached \in Nat
      /\ \A q \in Clients : q # p => NewTo(op[q], op[p])
  BY DEF SessionInv, Refused
<1>2. op[p].refused \in Seq(Nat) /\ t \in 1 .. issued /\ t \in Nat /\ Len(op[p].refused) \in { 0, 1 }
  <2>1. op[p].refused \in Seq(Nat) /\ t \in Nat
    BY <1>1 DEF Operation
  <2>2. Len(op[p].refused) \in Nat
    BY <2>1
  <2>3. t \in 1 .. issued /\ Len(op[p].refused) <= 2 /\ Len(op[p].refused) # 2
    BY <1>1 DEF Held
  <2> QED BY <2>1, <2>2, <2>3, BelowTwo
<1>3. /\ o \in Operation /\ o.pc = "send" /\ o.token = t
      /\ o.refused = Append(op[p].refused, t) /\ Len(o.refused) = Len(op[p].refused) + 1
      /\ o.refused \in Seq(Nat)
  <2> DEFINE r == Append(op[p].refused, t)
  <2>1. r \in Seq(Nat) /\ Len(r) = Len(op[p].refused) + 1
    BY <1>2
  <2> HIDE DEF r
  <2>2. LET u == [op[p] EXCEPT !.refused = r]
        IN  u \in Operation /\ u.pc = "send" /\ u.token = t /\ u.refused = r
    BY <1>1, <2>1 DEF Operation
  <2>3. o = [op[p] EXCEPT !.refused = r]
    BY DEF r
  <2> QED BY <2>1, <2>2, <2>3 DEF r
<1>4. /\ \A i \in 1 .. Len(op[p].refused) : o.refused[i] = op[p].refused[i]
      /\ o.refused[Len(op[p].refused) + 1] = t
  BY <1>2, <1>3
<1>5. ASSUME NEW q \in Clients, q # p, op[q].pc = "keep"
      PROVE  \A i \in 1 .. Len(o.refused) : o.refused[i] # op[q].token
  BY <1>1, <1>2, <1>3, <1>4, <1>5 DEF NewTo
<1>6. /\ issued' = issued
      /\ \/ Len(o.refused) = 1 /\ cached' = 0 /\ op' = [op EXCEPT ![p] = Again(o)]
         \/ /\ Len(o.refused) # 1 /\ cached' = cached
            /\ op' = [op EXCEPT ![p] = [o EXCEPT !.pc = "idle"]]
  BY DEF Refused
<1> HIDE DEF o
<1>7. CASE Len(o.refused) = 1
  <2> DEFINE u == Again(o)
  <2>1. u \in Operation /\ u.pc \in { "token", "idle" } /\ u.refused = o.refused
    BY <1>3, AgainIs
  <2>2. cached' = 0 /\ op' = [op EXCEPT ![p] = u]
    BY <1>6, <1>7
  <2> HIDE DEF u
  <2>3. o.refused[1] = t
    BY <1>2, <1>3, <1>4, <1>7
  <2>4. /\ Len(u.refused) = 1 /\ u.refused[1] \in 1 .. issued
        /\ 0 # u.refused[1] /\ u.pc \notin { "keep", "send" }
    BY <1>2, <1>7, <2>1, <2>3
  <2>5. Held(0, issued, u)
    BY <2>4 DEF Held
  <2>6. \A q \in Clients : q # p => NewTo(op[q], u)
    BY <1>5, <2>1 DEF NewTo
  <2> QED BY <1>6, <2>1, <2>2, <2>5, <2>6, GoesOn
<1>8. CASE Len(o.refused) # 1
  <2> DEFINE u == [o EXCEPT !.pc = "idle"]
  <2>1. u \in Operation /\ u.pc = "idle" /\ u.refused = o.refused
    BY <1>3 DEF Operation, SessionSteps
  <2>2. cached' = cached /\ op' = [op EXCEPT ![p] = u]
    BY <1>6, <1>8
  <2> HIDE DEF u
  <2>3. Len(op[p].refused) = 1 /\ Len(o.refused) = 2
    <3>1. CASE Len(op[p].refused) = 0
      BY <1>3, <1>8, <3>1
    <3>2. CASE Len(op[p].refused) = 1
      BY <1>3, <3>2
    <3> QED BY <1>2, <3>1, <3>2
  <2>4. o.refused[1] = op[p].refused[1] /\ o.refused[2] = t
    BY <1>4, <2>3
  <2>5. op[p].refused[1] # t /\ op[p].refused[1] \in 1 .. issued
    BY <1>1, <2>3 DEF Held
  <2>6. Held(cached, issued, u)
    BY <1>2, <2>1, <2>3, <2>4, <2>5 DEF Held
  <2>7. \A q \in Clients : q # p => NewTo(op[q], u)
    BY <1>5, <2>1 DEF NewTo
  <2> QED BY <1>6, <2>1, <2>2, <2>6, <2>7, GoesOn
<1> QED BY <1>7, <1>8

LEMMA SessionStep == SessionInv /\ [SessionNext]_sessionVars => SessionInv'
<1> SUFFICES ASSUME SessionInv, [SessionNext]_sessionVars PROVE SessionInv'
  OBVIOUS
<1>a. \A p \in Clients : op[p] \in Operation
  BY DEF SessionInv
<1>1. ASSUME NEW p \in Clients, NEW k \in { "read", "buy" }, Begin(p, k) PROVE SessionInv'
  <2> DEFINE o == [NoOp EXCEPT !.kind = k, !.pc = "token", !.early = k = "buy"]
  <2>1. NoOp \in Operation /\ Len(NoOp.refused) = 0
    BY NoOpHolds DEF NoOp
  <2>2. o \in Operation /\ o.pc = "token" /\ o.refused = NoOp.refused
    BY <2>1 DEF Operation, SessionSteps
  <2>3. op' = [op EXCEPT ![p] = o] /\ issued' = issued /\ cached' = cached
    BY <1>1 DEF Begin
  <2> HIDE DEF o
  <2>4. Held(cached', issued, o) /\ \A q \in Clients : q # p => NewTo(op[q], o)
    BY <2>1, <2>2 DEF Held, NewTo
  <2> QED BY <2>2, <2>3, <2>4, GoesOn
<1>2. ASSUME NEW p \in Clients, LookUp(p) PROVE SessionInv'
  <2>1. CASE cached # 0 /\ cached' = cached /\ op' = [op EXCEPT ![p] = Holding(@, cached)]
    BY <1>2, <2>1, TakesCached DEF LookUp
  <2>2. CASE cached' = 0 /\ op' = [op EXCEPT ![p].pc = "lock"]
    <3> DEFINE o == [op[p] EXCEPT !.pc = "lock"]
    <3>1. o \in Operation /\ o.pc = "lock" /\ o.refused = op[p].refused
      BY <1>a DEF Operation, SessionSteps
    <3>2. op' = [op EXCEPT ![p] = o] /\ issued' = issued /\ op[p].pc # "idle"
      BY <1>2, <2>2 DEF LookUp
    <3> HIDE DEF o
    <3> QED BY <2>2, <3>1, <3>2, MovesOn
  <2> QED BY <1>2, <2>1, <2>2 DEF LookUp
<1>3. ASSUME NEW p \in Clients, TakeLock(p) PROVE SessionInv'
  <2> DEFINE o == IF lock = Nobody THEN [op[p] EXCEPT !.pc = "asking", !.mine = TRUE]
                  ELSE [op[p] EXCEPT !.pc = "waiting"]
  <2>1. o \in Operation /\ o.pc \in { "asking", "waiting" } /\ o.refused = op[p].refused
    BY <1>a DEF Operation, SessionSteps
  <2>2. op' = [op EXCEPT ![p] = o] /\ issued' = issued /\ cached' = cached /\ op[p].pc # "idle"
    BY <1>3 DEF TakeLock
  <2> HIDE DEF o
  <2> QED BY <2>1, <2>2, MovesOn
<1>4. ASSUME NEW p \in Clients, Waited(p) PROVE SessionInv'
  <2>1. CASE cached # 0
    BY <1>4, <2>1, TakesCached DEF Waited
  <2>2. CASE cached = 0
    <3> DEFINE o == [op[p] EXCEPT !.pc = "asking"]
    <3>1. o \in Operation /\ o.pc = "asking" /\ o.refused = op[p].refused
      BY <1>a DEF Operation, SessionSteps
    <3>2. op' = [op EXCEPT ![p] = o] /\ issued' = issued /\ cached' = cached /\ op[p].pc # "idle"
      BY <1>4, <2>2 DEF Waited
    <3> HIDE DEF o
    <3> QED BY <3>1, <3>2, MovesOn
  <2> QED BY <2>1, <2>2
<1>5. ASSUME NEW p \in Clients, AskFails(p) PROVE SessionInv'
  <2> DEFINE o == [op[p] EXCEPT !.pc = "idle", !.mine = FALSE]
  <2>1. o \in Operation /\ o.pc = "idle" /\ o.refused = op[p].refused
    BY <1>a DEF Operation, SessionSteps
  <2>2. op' = [op EXCEPT ![p] = o] /\ issued' = issued /\ cached' = cached /\ op[p].pc # "idle"
    BY <1>5 DEF AskFails
  <2> HIDE DEF o
  <2> QED BY <2>1, <2>2, MovesOn
<1>6. ASSUME NEW p \in Clients, Concluded(p) PROVE SessionInv'
  <2> DEFINE o == [op[p] EXCEPT !.pc = "idle"]
  <2>1. o \in Operation /\ o.pc = "idle" /\ o.refused = op[p].refused
    BY <1>a DEF Operation, SessionSteps
  <2>2. op' = [op EXCEPT ![p] = o] /\ issued' = issued /\ cached' = cached /\ op[p].pc # "idle"
    BY <1>6 DEF Concluded
  <2> HIDE DEF o
  <2> QED BY <2>1, <2>2, MovesOn
<1>7. ASSUME NEW p \in Clients, ReadFails(p) PROVE SessionInv'
  <2> DEFINE o == Again(op[p])
  <2>1. op[p].pc = "send"
    BY <1>7 DEF ReadFails
  <2>2. o \in Operation /\ o.pc \in { "token", "idle" } /\ o.refused = op[p].refused
    BY <1>a, AgainIs
  <2>3. op' = [op EXCEPT ![p] = o] /\ issued' = issued /\ cached' = cached
    BY <1>7 DEF ReadFails
  <2> HIDE DEF o
  <2> QED BY <2>1, <2>2, <2>3, MovesOn
<1>8. ASSUME NEW p \in Clients, Dies(p) PROVE SessionInv'
  <2>1. op' = [op EXCEPT ![p] = NoOp] /\ issued' = issued /\ cached' = cached
    BY <1>8 DEF Dies
  <2>2. NoOp \in Operation /\ NoOp.pc = "idle" /\ Held(cached, issued, NoOp) /\ \A u : NewTo(u, NoOp)
    BY NoOpHolds DEF SessionInv, NoOp
  <2> QED BY <2>1, <2>2, GoesOn
<1>9. ASSUME op' = op, issued' = issued, cached' \in { cached, 0 } PROVE SessionInv'
  <2>1. \A p \in Clients : Held(cached', issued, op[p])
    BY <1>9 DEF SessionInv, Held
  <2> QED BY <1>9, <2>1 DEF SessionInv
<1>10. CASE CacheExpires \/ LockExpires \/ UNCHANGED sessionVars
  BY <1>9, <1>10 DEF CacheExpires, LockExpires, sessionVars
<1> QED
  BY <1>1, <1>2, <1>3, <1>4, <1>5, <1>6, <1>7, <1>8, <1>10, SessionAsked, SessionKeep, SessionRefused
  DEF SessionNext, Proceed

\* For any number of processes, tries and tokens: a read is only given up for a
\* second 401 when the token was another, whoever asked for it, kept it or
\* emptied the cache meanwhile (Autenticador.token and olvidar, leer).
THEOREM RenewedForReal == SessionSpec => []RenewalIsReal
<1>1. SessionInv => RenewalIsReal
  BY DEF SessionInv, Held, RenewalIsReal
<1> QED BY <1>1, SessionInitInv, SessionStep, PTL DEF SessionSpec

-----------------------------------------------------------------------------
(* Adapters: the inductive invariant                                         *)

\* A topup that has not begun left nothing anywhere, what is being sent was begun
\* in this tick, and no record has been written of what was not asked.
BeginsClean ==
  \A s \in Sales :
    /\ state[s] = "new" => effect[s] = "none"
    /\ state[s] = "sent" /\ effect[s] = "none" => sentAt[s] = now
    /\ effect[s] = "none" => row[s].shows = Marks

\* An answer that will close a topup tells what the provider did with it; what
\* it did since cannot have changed that.  A 401 tells nothing.
AnswersTell ==
  \A s \in Sales : state[s] = "posted" =>
    /\ Outcome(s, answer[s]) = "succeeded" => effect[s] = "applied"
    /\ adapter = "linntae" /\ Outcome(s, answer[s]) = "failed" =>
         s \in refused \/ effect[s] \in { "nothing", "rejected" }
    /\ effect[s] # "none"

\* A record of Linntae's says what became of its sale, close to its hour.
RecordsTell ==
  /\ \A s \in listed : Recorded(s)
  /\ \A s \in Sales : Recorded(s) =>
       /\ row[s].at - sentAt[s] <= Skew /\ sentAt[s] - row[s].at <= Skew
       /\ row[s].ok = "yes" <=> effect[s] = "applied"
       /\ row[s].ok = "no" <=> effect[s] = "rejected"

CloseInv == AdaptersTypeOK /\ BeginsClean /\ AnswersTell /\ RecordsTell /\ ClosedTruly

LEMMA CloseInit == AdaptersInit => CloseInv
<1> SUFFICES ASSUME AdaptersInit PROVE CloseInv
  OBVIOUS
<1>1. AdaptersTypeOK
  <2>1. [at |-> 0, ok |-> "unsaid", shows |-> Marks] \in Record
    BY DEF Record, Verdicts, Marks
  <2> QED BY <2>1, AdaptersAssumption
      DEF AdaptersInit, AdaptersTypeOK, States, Effects, Answers
<1>2. BeginsClean /\ AnswersTell /\ RecordsTell /\ ClosedTruly
  BY DEF AdaptersInit, BeginsClean, AnswersTell, RecordsTell, Recorded, ClosedTruly, Kept,
     Refunded
<1> QED BY <1>1, <1>2 DEF fixed, CloseInv

\* Of one topup, what ClosedTruly says.
ClosedSo(s) == IF adapter = "linntae" THEN Alone(s) => Kept(s) /\ (s \in refused \/ Refunded(s))
               ELSE Kept(s)

\* A step under which no topup begins again or at another hour, and no record
\* shows more than before.
OnlyForward ==
  /\ adapter' = adapter /\ target' = target /\ refused \subseteq refused'
  /\ \A t \in Sales : /\ state[t] # "new" => state'[t] # "new" /\ sentAt'[t] = sentAt[t]
                      /\ row'[t].shows \subseteq row[t].shows

\* So one that is alone always was.
LEMMA AlwaysAlone ==
  ASSUME OnlyForward, NEW s \in Sales, state[s] # "new", Alone(s)'
  PROVE  Alone(s)
<1> SUFFICES ASSUME NEW t \in Sales \ { s }, state[t] # "new", Fits(s, t)
             PROVE  "hour" \in row[t].shows /\ ~ Near(sentAt[t], sentAt[s], Gap + Skew)
  BY DEF Alone
<1>1. state'[t] # "new" /\ sentAt'[t] = sentAt[t] /\ sentAt'[s] = sentAt[s]
  BY DEF OnlyForward
<1>2. row'[t].shows \subseteq row[t].shows /\ target' = target
  BY DEF OnlyForward
<1>3. Fits(s, t)'
  BY <1>2 DEF Fits, SamePhone
<1>4. "hour" \in row'[t].shows /\ ~ Near(sentAt'[t], sentAt'[s], Gap + Skew)
  BY <1>1, <1>3 DEF Alone
<1> QED BY <1>1, <1>2, <1>4

\* And what was still pending at the provider was not closed as anything, unless
\* it was answered 401.
LEMMA StaysClosed ==
  ASSUME CloseInv, NEW s \in Sales, OnlyForward,
         state'[s] \in { "succeeded", "failed" } =>
           state[s] = state'[s] /\ (effect'[s] = effect[s] \/ effect[s] = "pending")
  PROVE  ClosedSo(s)'
<1>1. CASE state'[s] \notin { "succeeded", "failed" }
  BY <1>1 DEF ClosedSo, Kept, Refunded
<1>2. CASE state'[s] \in { "succeeded", "failed" }
  <2>1. state[s] = state'[s] /\ state[s] # "new"
    BY <1>2
  <2>2. Alone(s)' => Alone(s)
    BY <2>1, AlwaysAlone
  <2>3. ClosedSo(s)
    BY DEF CloseInv, ClosedTruly, ClosedSo
  <2>4. adapter' = adapter /\ (s \in refused => s \in refused')
    BY DEF OnlyForward
  <2>5. /\ Kept(s) => Kept(s)'
        /\ Refunded(s) => Refunded(s)'
    BY <1>2, <2>1 DEF Kept, Refunded
  <2> QED BY <2>2, <2>3, <2>4, <2>5 DEF ClosedSo
<1> QED BY <1>1, <1>2

LEMMA CloseStart ==
  ASSUME CloseInv, NEW s \in Sales, Start(s)
  PROVE  CloseInv'
<1>1. /\ state' = [state EXCEPT ![s] = "sent"] /\ sentAt' = [sentAt EXCEPT ![s] = now]
      /\ UNCHANGED << fixed, folio, answer, effect, row, listed, refused, now >>
      /\ state[s] = "new" /\ effect[s] = "none"
  BY DEF Start, CloseInv, BeginsClean
<1>2. AdaptersTypeOK'
  BY <1>1 DEF fixed, CloseInv, AdaptersTypeOK, States
<1>3. BeginsClean'
  BY <1>1 DEF fixed, CloseInv, AdaptersTypeOK, BeginsClean
<1>4. AnswersTell'
  BY <1>1 DEF fixed, CloseInv, AdaptersTypeOK, AnswersTell, Outcome
<1>5. RecordsTell'
  BY <1>1 DEF fixed, CloseInv, AdaptersTypeOK, RecordsTell, Recorded
<1>6. \A t \in Sales : ClosedSo(t)'
  BY <1>1, StaysClosed DEF fixed, CloseInv, AdaptersTypeOK, OnlyForward
<1> QED BY <1>2, <1>3, <1>4, <1>5, <1>6 DEF CloseInv, ClosedTruly, ClosedSo

LEMMA CloseNeverPosted ==
  ASSUME CloseInv, NEW s \in Sales, NeverPosted(s)
  PROVE  CloseInv'
<1>1. /\ effect' = [effect EXCEPT ![s] = "nothing"]
      /\ UNCHANGED << fixed, state, sentAt, folio, answer, row, listed, refused, now >>
      /\ state[s] = "sent" /\ effect[s] = "none"
  BY DEF NeverPosted
<1>2. AdaptersTypeOK'
  BY <1>1 DEF fixed, CloseInv, AdaptersTypeOK, Effects
<1>3. BeginsClean' /\ AnswersTell'
  BY <1>1 DEF fixed, CloseInv, AdaptersTypeOK, BeginsClean, AnswersTell, Outcome
<1>4. RecordsTell'
  BY <1>1 DEF fixed, CloseInv, AdaptersTypeOK, RecordsTell, Recorded
<1>5. \A t \in Sales : ClosedSo(t)'
  BY <1>1, StaysClosed DEF fixed, CloseInv, AdaptersTypeOK, OnlyForward
<1> QED BY <1>2, <1>3, <1>4, <1>5 DEF CloseInv, ClosedTruly, ClosedSo

\* An answer that closes a topup comes of what it closes it as.
LEMMA AnswerIsTrue ==
  ASSUME NEW s \in Sales, adapter \in Adapters,
         NEW done \in { "nothing", "pending", "applied", "rejected" }, NEW a \in MayAnswer(s, done)
  PROVE  /\ Outcome(s, a) = "succeeded" => done = "applied"
         /\ adapter = "linntae" /\ Outcome(s, a) = "failed" => a = "401" \/ done = "nothing"
<1>1. CASE adapter = "linntae"
  BY <1>1 DEF MayAnswer, Outcome, Linntae, Consequence
<1>2. CASE adapter = "taecel"
  BY <1>2 DEF MayAnswer, Outcome, Taecel
<1> QED BY <1>1, <1>2 DEF Adapters

LEMMA CloseRequest ==
  ASSUME CloseInv, NEW s \in Sales, NEW done \in { "nothing", "pending", "applied", "rejected" },
         NEW a \in Answers, Request(s, done, a)
  PROVE  CloseInv'
<1>1. /\ state' = [state EXCEPT ![s] = "posted"] /\ answer' = [answer EXCEPT ![s] = a]
      /\ effect' = [effect EXCEPT ![s] = done]
      /\ UNCHANGED << fixed, sentAt, folio, listed, now >>
      /\ state[s] = "sent" /\ effect[s] = "none" /\ a \in MayAnswer(s, done)
  BY DEF Request
<1>2. sentAt[s] = now /\ s \notin listed /\ sentAt[s] \in Int /\ now \in Int /\ Skew \in Int
  BY <1>1, AdaptersAssumption DEF fixed, CloseInv, AdaptersTypeOK, BeginsClean, RecordsTell, Recorded
<1>3. /\ refused \subseteq refused' /\ refused' \subseteq Sales
      /\ a = "401" => s \in refused'
  BY DEF Request, CloseInv, AdaptersTypeOK
<1>4. PICK d \in -Skew .. Skew, shows \in SUBSET Marks :
        \/ (done = "nothing" \/ adapter = "taecel") /\ row' = row
        \/ /\ done # "nothing" /\ adapter # "taecel"
           /\ row' = [row EXCEPT ![s] = Sold(done, now + d, shows)]
  <2>1. CASE done = "nothing" \/ adapter = "taecel"
    <3>1. 0 \in -Skew .. Skew /\ Marks \in SUBSET Marks
      BY AdaptersAssumption
    <3>2. row' = row
      BY <2>1 DEF Request
    <3> QED BY <2>1, <3>1, <3>2
  <2>2. CASE ~ (done = "nothing" \/ adapter = "taecel")
    BY <2>2 DEF Request
  <2> QED BY <2>1, <2>2
<1> DEFINE r == Sold(done, now + d, shows)
<1>5. /\ r \in Record /\ r.at - now <= Skew /\ now - r.at <= Skew
      /\ r.ok = "yes" <=> done = "applied"
      /\ r.ok = "no" <=> done = "rejected"
      /\ r.shows \subseteq Marks
  <2>1. /\ now + d \in Int /\ (now + d) - now <= Skew /\ now - (now + d) <= Skew
    BY <1>2
  <2>2. /\ r.ok \in Verdicts
        /\ r.ok = "yes" <=> done = "applied"
        /\ r.ok = "no" <=> done = "rejected"
    BY DEF Verdicts, Sold
  <2>3. r.at = now + d /\ r.shows = shows
    BY DEF Sold
  <2>4. r = [at |-> now + d, ok |-> r.ok, shows |-> shows]
    BY DEF Sold
  <2>5. [at |-> now + d, ok |-> r.ok, shows |-> shows] \in Record
    BY <2>1, <2>2 DEF Record
  <2> QED BY <2>1, <2>2, <2>3, <2>4, <2>5
<1>6. \/ (done = "nothing" \/ adapter = "taecel") /\ row' = row
      \/ done # "nothing" /\ adapter # "taecel" /\ row' = [row EXCEPT ![s] = r]
  BY <1>4
<1> HIDE DEF r
<1>7. AdaptersTypeOK'
  BY <1>1, <1>3, <1>5, <1>6 DEF fixed, CloseInv, AdaptersTypeOK, States, Effects
<1>8. BeginsClean'
  <2>1. \A t \in Sales : t # s => row'[t] = row[t] /\ effect'[t] = effect[t] /\ state'[t] = state[t]
    BY <1>1, <1>6 DEF fixed, CloseInv, AdaptersTypeOK
  <2>2. state'[s] = "posted" /\ effect'[s] # "none"
    BY <1>1 DEF fixed, CloseInv, AdaptersTypeOK
  <2>3. sentAt' = sentAt /\ now' = now
    BY <1>1
  <2> QED BY <2>1, <2>2, <2>3 DEF fixed, CloseInv, BeginsClean
<1>9. AnswersTell'
  <2>1. /\ Outcome(s, a) = "succeeded" => done = "applied"
        /\ adapter = "linntae" /\ Outcome(s, a) = "failed" => a = "401" \/ done = "nothing"
    BY <1>1, AnswerIsTrue DEF fixed, CloseInv, AdaptersTypeOK
  <2>2. adapter' = adapter
    BY <1>1 DEF fixed
  <2> QED BY <1>1, <1>3, <2>1, <2>2 DEF fixed, CloseInv, AdaptersTypeOK, AnswersTell, Outcome
<1>10. RecordsTell'
  <2>1. \A t \in Sales : t # s => row'[t] = row[t] /\ (Recorded(t)' <=> Recorded(t))
    BY <1>1, <1>6 DEF fixed, CloseInv, AdaptersTypeOK, Recorded
  <2>2. Recorded(s)' => row'[s] = r
    BY <1>1, <1>6 DEF fixed, CloseInv, AdaptersTypeOK, Recorded
  <2>3. effect'[s] = done /\ sentAt' = sentAt /\ sentAt'[s] = now /\ listed' = listed
    BY <1>1, <1>2 DEF fixed, CloseInv, AdaptersTypeOK
  <2>4. \A t \in Sales : t # s => effect'[t] = effect[t]
    BY <1>1 DEF fixed, CloseInv, AdaptersTypeOK
  <2>5. \A t \in listed' : Recorded(t)'
    BY <1>2, <2>1, <2>3 DEF CloseInv, AdaptersTypeOK, RecordsTell
  <2>6. Recorded(s)' =>
          /\ row'[s].at - sentAt'[s] <= Skew /\ sentAt'[s] - row'[s].at <= Skew
          /\ row'[s].ok = "yes" <=> effect'[s] = "applied"
          /\ row'[s].ok = "no" <=> effect'[s] = "rejected"
    BY <1>5, <2>2, <2>3
  <2>7. ASSUME NEW t \in Sales, t # s, Recorded(t)'
        PROVE  /\ row'[t].at - sentAt'[t] <= Skew /\ sentAt'[t] - row'[t].at <= Skew
               /\ row'[t].ok = "yes" <=> effect'[t] = "applied"
               /\ row'[t].ok = "no" <=> effect'[t] = "rejected"
    BY <2>1, <2>3, <2>4, <2>7 DEF CloseInv, RecordsTell
  <2> QED BY <2>5, <2>6, <2>7 DEF RecordsTell
<1>11. \A t \in Sales : ClosedSo(t)'
  <2>1. row[s].shows = Marks
    BY <1>1 DEF fixed, CloseInv, BeginsClean
  <2>2. \A t \in Sales : row'[t].shows \subseteq row[t].shows
    BY <1>5, <1>6, <2>1 DEF fixed, CloseInv, AdaptersTypeOK
  <2>3. OnlyForward
    BY <1>1, <1>3, <2>2 DEF OnlyForward, fixed, CloseInv, AdaptersTypeOK
  <2> QED BY <1>1, <2>3, StaysClosed DEF fixed, CloseInv, AdaptersTypeOK
<1> QED BY <1>7, <1>8, <1>9, <1>10, <1>11 DEF CloseInv, ClosedTruly, ClosedSo

LEMMA CloseDuplicate ==
  ASSUME CloseInv, NEW s \in Sales, Duplicate(s)
  PROVE  CloseInv'
<1>1. /\ state' = [state EXCEPT ![s] = "posted"] /\ answer' = [answer EXCEPT ![s] = "24"]
      /\ effect' = [effect EXCEPT ![s] = "nothing"]
      /\ UNCHANGED << fixed, sentAt, folio, row, listed, refused, now >>
      /\ state[s] = "sent" /\ effect[s] = "none" /\ adapter = "linntae"
  BY DEF Duplicate
<1>2. AdaptersTypeOK'
  BY <1>1 DEF fixed, CloseInv, AdaptersTypeOK, States, Effects, Answers, Codes
<1>3. BeginsClean'
  BY <1>1 DEF fixed, CloseInv, AdaptersTypeOK, BeginsClean
<1>4. AnswersTell'
  <2>1. Outcome(s, "24") = "review"
    BY <1>1 DEF Outcome, Linntae, Consequence
  <2> QED BY <1>1, <2>1 DEF fixed, CloseInv, AdaptersTypeOK, AnswersTell, Outcome
<1>5. RecordsTell'
  BY <1>1 DEF fixed, CloseInv, AdaptersTypeOK, RecordsTell, Recorded
<1>6. \A t \in Sales : ClosedSo(t)'
  BY <1>1, StaysClosed DEF fixed, CloseInv, AdaptersTypeOK, OnlyForward
<1> QED BY <1>2, <1>3, <1>4, <1>5, <1>6 DEF CloseInv, ClosedTruly, ClosedSo

LEMMA OutcomeIsState ==
  ASSUME NEW s \in Sales, NEW a
  PROVE  Outcome(s, a) \in { "sent", "succeeded", "failed", "review" }
BY DEF Outcome, Linntae, Taecel

LEMMA CloseAnswer ==
  ASSUME CloseInv, NEW s \in Sales, Answer(s)
  PROVE  CloseInv'
<1> DEFINE o == Outcome(s, answer[s])
<1>1. /\ state' = [state EXCEPT ![s] = o] /\ answer' = [answer EXCEPT ![s] = "-"]
      /\ folio' = [folio EXCEPT ![s] = answer[s] \in { "0", "25", "ok", "pending" }]
      /\ UNCHANGED << fixed, sentAt, effect, row, listed, refused, now >>
      /\ state[s] = "posted"
  BY DEF Answer
<1>2. /\ o \in { "sent", "succeeded", "failed", "review" }
      /\ o = "succeeded" => effect[s] = "applied"
      /\ adapter = "linntae" /\ o = "failed" => s \in refused \/ effect[s] \in { "nothing", "rejected" }
      /\ effect[s] # "none"
  BY <1>1, OutcomeIsState DEF fixed, CloseInv, AnswersTell
<1> HIDE DEF o
<1>3. AdaptersTypeOK'
  BY <1>1, <1>2 DEF fixed, CloseInv, AdaptersTypeOK, States, Answers
<1>4. BeginsClean'
  BY <1>1, <1>2 DEF fixed, CloseInv, AdaptersTypeOK, BeginsClean
<1>5. AnswersTell'
  BY <1>1, <1>2 DEF fixed, CloseInv, AdaptersTypeOK, AnswersTell, Outcome
<1>6. RecordsTell'
  BY <1>1 DEF fixed, CloseInv, AdaptersTypeOK, RecordsTell, Recorded
<1>7. ClosedSo(s)'
  BY <1>1, <1>2 DEF fixed, CloseInv, AdaptersTypeOK, ClosedSo, Kept, Refunded
<1>8. \A t \in Sales : t # s => ClosedSo(t)'
  BY <1>1, <1>2, StaysClosed DEF fixed, CloseInv, AdaptersTypeOK, OnlyForward
<1> QED BY <1>3, <1>4, <1>5, <1>6, <1>7, <1>8 DEF CloseInv, ClosedTruly, ClosedSo

LEMMA CloseSettle ==
  ASSUME CloseInv, NEW s \in Sales, NEW done \in { "applied", "rejected" }, Settle(s, done)
  PROVE  CloseInv'
<1> DEFINE r == [row[s] EXCEPT !.ok = IF done = "applied" THEN "yes" ELSE "no"]
<1>1. /\ effect' = [effect EXCEPT ![s] = done]
      /\ UNCHANGED << fixed, state, sentAt, folio, answer, listed, refused, now >>
      /\ effect[s] = "pending"
      /\ row' = IF adapter = "taecel" THEN row ELSE [row EXCEPT ![s] = r]
  BY DEF Settle
<1>2. /\ r \in Record /\ r.at = row[s].at /\ r.shows = row[s].shows
      /\ r.ok = "yes" <=> done = "applied"
      /\ r.ok = "no" <=> done = "rejected"
  BY DEF fixed, CloseInv, AdaptersTypeOK, Record, Verdicts
<1> HIDE DEF r
<1>3. AdaptersTypeOK'
  BY <1>1, <1>2 DEF fixed, CloseInv, AdaptersTypeOK, Effects
<1>4. BeginsClean' /\ AnswersTell'
  BY <1>1 DEF fixed, CloseInv, AdaptersTypeOK, BeginsClean, AnswersTell, Outcome
<1>5. RecordsTell'
  <2>1. \A t \in Sales : t # s => row'[t] = row[t] /\ (Recorded(t)' <=> Recorded(t))
    BY <1>1 DEF fixed, CloseInv, AdaptersTypeOK, Recorded
  <2>2. Recorded(s)' => row'[s] = r
    BY <1>1 DEF fixed, CloseInv, AdaptersTypeOK, Recorded, Adapters
  <2>3. Recorded(s)' <=> Recorded(s)
    BY <1>1 DEF fixed, CloseInv, AdaptersTypeOK, Recorded
  <2> QED BY <1>1, <1>2, <2>1, <2>2, <2>3 DEF fixed, CloseInv, AdaptersTypeOK, RecordsTell
<1>6. \A t \in Sales : ClosedSo(t)'
  <2>1. \A t \in Sales : row'[t].shows \subseteq row[t].shows
    BY <1>1, <1>2 DEF CloseInv, AdaptersTypeOK
  <2>2. OnlyForward
    BY <1>1, <2>1 DEF OnlyForward, fixed
  <2> QED BY <1>1, <2>2, StaysClosed DEF CloseInv, AdaptersTypeOK
<1> QED BY <1>3, <1>4, <1>5, <1>6 DEF CloseInv, ClosedTruly, ClosedSo

-----------------------------------------------------------------------------
(* Adapters: the reconciliation                                              *)

\* Of a topup that is alone, the only record close to it is its own.
LEMMA OwnRecord ==
  ASSUME CloseInv, NEW s \in Sales, Alone(s), NEW t \in Candidates(s)
  PROVE  t = s
<1>1. /\ t \in listed /\ t \in Sales /\ Fits(s, t)
      /\ "hour" \in row[t].shows => Near(row[t].at, sentAt[s], Gap)
  BY DEF Candidates, CloseInv, AdaptersTypeOK
<1>2. /\ row[t].at - sentAt[t] <= Skew /\ sentAt[t] - row[t].at <= Skew
      /\ state[t] # "new"
  BY <1>1 DEF fixed, CloseInv, RecordsTell, BeginsClean, Recorded
<1>3. /\ row[t].at \in Int /\ sentAt[s] \in Int /\ sentAt[t] \in Int
      /\ Gap \in Int /\ Skew \in Int
  BY <1>1, AdaptersAssumption DEF fixed, CloseInv, AdaptersTypeOK, Record
<1>4. "hour" \in row[t].shows => Near(sentAt[t], sentAt[s], Gap + Skew)
  BY <1>1, <1>2, <1>3 DEF Near
<1> QED BY <1>1, <1>2, <1>4 DEF Alone

LEMMA ResolvedTruly ==
  ASSUME CloseInv, NEW s \in Sales, Alone(s), Pending(s), adapter = "linntae"
  PROVE  /\ Resolved(s) = "succeeded" => effect[s] = "applied"
         /\ Resolved(s) = "failed" => effect[s] = "rejected"
<1>1. Direct(s) = {}
  <2>1. now \in Int /\ sentAt[s] \in Int /\ Immediate \in Int /\ Cutoff \in Int
    BY AdaptersAssumption DEF fixed, CloseInv, AdaptersTypeOK
  <2> QED BY <2>1, AdaptersAssumption DEF Direct, Pending
<1>2. CASE Cardinality(Candidates(s)) # 1
  BY <1>1, <1>2 DEF Resolved
<1>3. CASE Cardinality(Candidates(s)) = 1
  <2> DEFINE t == CHOOSE t \in Candidates(s) : TRUE
  <2>1. Candidates(s) # {}
    <3>1. ASSUME Candidates(s) = {} PROVE FALSE
      <4>1. Cardinality(Candidates(s)) = 0
        BY <3>1, FS_EmptySet, Zenon
      <4> QED BY <1>3, <4>1
    <3> QED BY <3>1
  <2>2. t \in Candidates(s)
    BY <2>1
  <2>3. t = s
    BY <2>2, OwnRecord
  <2>4. s \in listed
    BY <2>2, <2>3 DEF Candidates
  <2>5. /\ row[s].ok = "yes" <=> effect[s] = "applied"
        /\ row[s].ok = "no" <=> effect[s] = "rejected"
    BY <2>4 DEF fixed, CloseInv, RecordsTell
  <2>6. Resolved(s) = CASE row[s].ok = "yes" -> "succeeded" [] row[s].ok = "no" -> "failed"
                        [] OTHER -> "unknown"
    BY <1>1, <1>3, <2>3 DEF Resolved
  <2> QED BY <2>5, <2>6
<1> QED BY <1>2, <1>3

LEMMA CloseReconcileLinntae ==
  ASSUME CloseInv, NEW s \in Sales, ReconcileLinntae(s)
  PROVE  CloseInv'
<1> DEFINE o == Resolved(s)
<1>1. /\ state' = [state EXCEPT ![s] = o] /\ folio' = [folio EXCEPT ![s] = TRUE]
      /\ UNCHANGED << fixed, sentAt, answer, effect, row, listed, refused, now >>
      /\ adapter = "linntae" /\ Pending(s) /\ state[s] \in { "sent", "review" }
      /\ o # "unknown"
  BY DEF ReconcileLinntae, Pending
<1>2. o \in { "succeeded", "failed" }
  BY <1>1 DEF Resolved
<1>3. Alone(s) => /\ o = "succeeded" => effect[s] = "applied"
                  /\ o = "failed" => effect[s] = "rejected"
  BY <1>1, ResolvedTruly
<1> HIDE DEF o
<1>4. AdaptersTypeOK'
  BY <1>1, <1>2 DEF fixed, CloseInv, AdaptersTypeOK, States
<1>5. BeginsClean'
  BY <1>1, <1>2 DEF fixed, CloseInv, AdaptersTypeOK, BeginsClean
<1>6. AnswersTell'
  BY <1>1, <1>2 DEF fixed, CloseInv, AdaptersTypeOK, AnswersTell, Outcome
<1>7. RecordsTell'
  BY <1>1 DEF fixed, CloseInv, AdaptersTypeOK, RecordsTell, Recorded
<1>8. ClosedSo(s)'
  <2>1. state'[s] = o /\ effect'[s] = effect[s] /\ adapter' = "linntae"
    BY <1>1 DEF fixed, CloseInv, AdaptersTypeOK
  <2>2. Alone(s)' => Alone(s)
    BY <1>1, <1>2, AlwaysAlone DEF fixed, CloseInv, AdaptersTypeOK, OnlyForward
  <2> QED BY <1>3, <2>1, <2>2 DEF ClosedSo, Kept, Refunded
<1>9. \A t \in Sales : t # s => ClosedSo(t)'
  BY <1>1, <1>2, StaysClosed DEF fixed, CloseInv, AdaptersTypeOK, OnlyForward
<1> QED BY <1>4, <1>5, <1>6, <1>7, <1>8, <1>9 DEF CloseInv, ClosedTruly, ClosedSo

LEMMA CloseReconcileTaecel ==
  ASSUME CloseInv, NEW s \in Sales, NEW a \in { "ok", "failed" }, ReconcileTaecel(s, a)
  PROVE  CloseInv'
<1>1. /\ state' = [state EXCEPT ![s] = Taecel(a)]
      /\ UNCHANGED << fixed, sentAt, folio, answer, effect, row, listed, refused, now >>
      /\ adapter = "taecel" /\ state[s] \in { "sent", "review" }
      /\ a \in MayAnswer(s, effect[s])
  BY DEF ReconcileTaecel, Pending
<1>2. /\ Taecel(a) \in { "succeeded", "failed" }
      /\ Taecel(a) = "succeeded" => effect[s] = "applied"
  BY <1>1 DEF Taecel, MayAnswer
<1>3. effect[s] # "none"
  BY <1>1 DEF MayAnswer
<1>4. AdaptersTypeOK'
  BY <1>1, <1>2 DEF fixed, CloseInv, AdaptersTypeOK, States
<1>5. BeginsClean'
  BY <1>1, <1>2 DEF fixed, CloseInv, AdaptersTypeOK, BeginsClean
<1>6. AnswersTell'
  BY <1>1, <1>2 DEF fixed, CloseInv, AdaptersTypeOK, AnswersTell, Outcome
<1>7. RecordsTell'
  BY <1>1 DEF fixed, CloseInv, AdaptersTypeOK, RecordsTell, Recorded
<1>8. ClosedSo(s)'
  BY <1>1, <1>2 DEF fixed, CloseInv, AdaptersTypeOK, ClosedSo, Kept
<1>9. \A t \in Sales : t # s => ClosedSo(t)'
  BY <1>1, <1>2, StaysClosed DEF fixed, CloseInv, AdaptersTypeOK, OnlyForward
<1> QED BY <1>4, <1>5, <1>6, <1>7, <1>8, <1>9 DEF CloseInv, ClosedTruly, ClosedSo

LEMMA CloseTick ==
  ASSUME CloseInv, Tick
  PROVE  CloseInv'
<1>1. /\ now < MaxTime /\ now' = now + 1
      /\ \A s \in Sales : state[s] = "sent" => effect[s] # "none"
      /\ UNCHANGED << fixed, state, sentAt, folio, answer, effect, row, listed, refused >>
  BY DEF Tick
<1>2. AdaptersTypeOK'
  BY <1>1, AdaptersAssumption DEF fixed, CloseInv, AdaptersTypeOK
<1>3. BeginsClean' /\ AnswersTell' /\ RecordsTell'
  BY <1>1 DEF fixed, CloseInv, BeginsClean, AnswersTell, RecordsTell, Recorded, Outcome
<1>4. \A t \in Sales : ClosedSo(t)'
  BY <1>1, StaysClosed DEF OnlyForward, fixed
<1> QED BY <1>2, <1>3, <1>4 DEF CloseInv, ClosedTruly, ClosedSo

LEMMA CloseStep == CloseInv /\ [AdaptersNext]_adapterVars => CloseInv'
<1> SUFFICES ASSUME CloseInv, [AdaptersNext]_adapterVars PROVE CloseInv'
  OBVIOUS
<1>1. ASSUME NEW s \in Sales, List(s) PROVE CloseInv'
  BY <1>1 DEF fixed, List, CloseInv, AdaptersTypeOK, BeginsClean, AnswersTell, RecordsTell,
     Recorded, Outcome, ClosedTruly, Alone, Kept, Refunded, Fits, SamePhone
<1>2. ASSUME UNCHANGED adapterVars PROVE CloseInv'
  BY <1>2 DEF adapterVars, CloseInv, AdaptersTypeOK, BeginsClean, AnswersTell, RecordsTell,
     Recorded, Outcome, ClosedTruly, Alone, Kept, Refunded, Fits, SamePhone
<1>3. Wire \cup Codes \cup Words \subseteq Answers
  BY DEF Answers
<1> QED
  BY <1>1, <1>2, <1>3, CloseStart, CloseNeverPosted, CloseRequest, CloseDuplicate, CloseAnswer,
     CloseSettle, CloseReconcileLinntae, CloseReconcileTaecel, CloseTick
  DEF AdaptersNext

\* For any number of sales, any window of the reconciliation and any distance
\* between the clocks, whatever the records show of amount and hour: what Linntae
\* or TAECEL answers, and when, never takes for done what was not, and at Linntae
\* never refunds a delivered topup that is alone, but for those answered 401
\* (send_topup, reconcile_pending_topups, resolver).
THEOREM ClosedAsItWas == AdaptersSpec => []ClosedTruly
<1>1. CloseInv => ClosedTruly
  BY DEF fixed, CloseInv
<1> QED BY <1>1, CloseInit, CloseStep, PTL DEF AdaptersSpec
=============================================================================
