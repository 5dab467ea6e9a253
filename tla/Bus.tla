-------------------------------- MODULE Bus ---------------------------------
(* The road of an event from one service to another: a row of the outbox,    *)
(* written by the transaction that changed the state; drain_outbox, which    *)
(* adds it to a Redis stream; and the passes of a consumer group.            *)
EXTENDS Integers, Sequences, FiniteSets

CONSTANTS Events,      \* rows of one outbox
          Drainers,    \* worker slots running drain_outbox
          Groups,      \* consumer groups of the stream, one for each service
          Readers,     \* worker slots running a consumer's pass
          MaxAttempts, \* OUTBOX_MAX_ATTEMPTS
          Batch,       \* batch_size and BATCH_SIZE
          MaxLen,      \* maxlen of the stream
          MaxCrashes,  \* how many tasks die
          NoOne        \* the holder of a row that is not locked

ASSUME BusAssumption ==
  /\ MaxAttempts \in Nat \ { 0 } /\ Batch \in Nat \ { 0 } /\ MaxLen \in Nat \ { 0 }
  /\ MaxCrashes \in Nat
  /\ NoOne \notin Drainers

VARIABLES row,      \* status column; "none" is a row that is not written yet
          created,  \* created_at, as the place of each row among those written
          attempts, \* attempts column
          holder,   \* the drainer that locks the row
          drain,    \* what each drainer is doing
          stream,   \* every message that was ever added
          trimmed,  \* how many of the oldest ones are gone
          cursor,   \* last message each group was given
          acked,    \* messages each group acknowledged
          pass,     \* what each reader is doing
          applied,  \* times a group applied an event
          crashes

vars == << row, created, attempts, holder, drain, stream, trimmed, cursor, acked, pass,
           applied, crashes >>
outbox  == << row, created, attempts, holder, drain >>
reading == << cursor, acked, pass, applied >>

Resting == [pc |-> "idle", todo |-> << >>]
Unread  == [pc |-> "idle", group |-> NoOne, batch |-> << >>]

TypeOK ==
  /\ row \in [Events -> { "none", "PENDING", "PUBLISHED", "FAILED" }]
  /\ created \in [Events -> Nat]
  /\ attempts \in [Events -> 0 .. MaxAttempts]
  /\ holder \in [Events -> Drainers \cup { NoOne }]
  /\ drain \in [Drainers ->
                  [pc : { "idle", "pick", "publish", "commit" }, todo : Seq(Events)]]
  /\ stream \in Seq(Events)
  /\ trimmed \in Nat
  /\ cursor \in [Groups -> Nat]
  /\ acked \in [Groups -> SUBSET (1 .. Len(stream))]
  /\ pass \in [Readers ->
                 [pc : { "idle", "handle", "ack" }, group : Groups \cup { NoOne },
                  batch : Seq(1 .. Len(stream))]]
  /\ applied \in [Groups -> [Events -> Nat]]
  /\ crashes \in 0 .. MaxCrashes

\* ensure_group creates a group at "0": it reads the stream from its beginning.
Init ==
  /\ row = [e \in Events |-> "none"]
  /\ created = [e \in Events |-> 0]
  /\ attempts = [e \in Events |-> 0]
  /\ holder = [e \in Events |-> NoOne]
  /\ drain = [d \in Drainers |-> Resting]
  /\ stream = << >>
  /\ trimmed = 0
  /\ cursor = [g \in Groups |-> 0]
  /\ acked = [g \in Groups |-> {}]
  /\ pass = [r \in Readers |-> Unread]
  /\ applied = [g \in Groups |-> [e \in Events |-> 0]]
  /\ crashes = 0

-----------------------------------------------------------------------------
(* The outbox.                                                               *)

\* OutboxEvent.objects.create, in the transaction of the change of state.
Commit(e) ==
  /\ row[e] = "none"
  /\ row' = [row EXCEPT ![e] = "PENDING"]
  /\ created' = [created EXCEPT ![e] = Cardinality({ f \in Events : row[f] # "none" }) + 1]
  /\ UNCHANGED << attempts, holder, drain, stream, trimmed, reading, crashes >>

\* Mutant: a row that failed once is never due again.
Mutant_NeverAgain(S) == S = { e \in Events : row[e] = "PENDING" /\ attempts[e] = 0 }
\* A row that failed waits for its next_attempt_at; a new one is due at once.
Due(S) == /\ S \subseteq { e \in Events : row[e] = "PENDING" }
          /\ \A e \in Events : row[e] = "PENDING" /\ attempts[e] = 0 => e \in S

AtMostBatch(n) == IF n < Batch THEN n ELSE Batch

\* The first of S by created_at: what is older than a member comes before it.
Oldest(S) ==
  { s \in [1 .. AtMostBatch(Cardinality(S)) -> S] :
      /\ \A i, j \in DOMAIN s : s[i] = s[j] => i = j
      /\ \A i \in DOMAIN s : \A e \in S :
           created[e] < created[s[i]] => \E j \in DOMAIN s : j < i /\ s[j] = e }

\* The ids of a batch, read without a lock.
Select(d, S) ==
  /\ drain[d].pc = "idle"
  /\ Due(S)
  /\ S # {}
  /\ \E s \in Oldest(S) : drain' = [drain EXCEPT ![d] = [pc |-> "pick", todo |-> s]]
  /\ UNCHANGED << row, created, attempts, holder, stream, trimmed, reading, crashes >>

Rest(d) == IF Len(drain[d].todo) > 1
             THEN [pc |-> "pick", todo |-> Tail(drain[d].todo)] ELSE Resting

\* Mutant: the status is not looked at again under the lock.
Mutant_TrustSelect(e) == holder[e] = NoOne
\* select_for_update(skip_locked) of a row that is still PENDING.
Lockable(e) == holder[e] = NoOne /\ row[e] = "PENDING"

Lock(d) ==
  LET e == Head(drain[d].todo) IN
  /\ drain[d].pc = "pick"
  /\ IF Lockable(e)
       THEN holder' = [holder EXCEPT ![e] = d] /\ drain' = [drain EXCEPT ![d].pc = "publish"]
       ELSE holder' = holder /\ drain' = [drain EXCEPT ![d] = Rest(d)]
  /\ UNCHANGED << row, created, attempts, stream, trimmed, reading, crashes >>

\* xadd with an approximate maxlen: it drops none of the newest MaxLen.
Add(e) ==
  /\ stream' = Append(stream, e)
  /\ trimmed' \in trimmed .. (IF Len(stream') > MaxLen + trimmed THEN Len(stream') - MaxLen
                                                              ELSE trimmed)

Publish(d) ==
  /\ drain[d].pc = "publish"
  /\ Add(Head(drain[d].todo))
  /\ drain' = [drain EXCEPT ![d].pc = "commit"]
  /\ UNCHANGED << row, created, attempts, holder, reading, crashes >>

\* The end of the row's transaction.
Release(d, e) == /\ holder' = [holder EXCEPT ![e] = NoOne]
                 /\ drain' = [drain EXCEPT ![d] = Rest(d)]

\* The bus raised, with the message added or not: mark_failed and, after the
\* last attempt, FAILED.
PublishFails(d) ==
  LET e == Head(drain[d].todo) IN
  /\ drain[d].pc = "publish"
  /\ Add(e) \/ UNCHANGED << stream, trimmed >>
  /\ attempts' = [attempts EXCEPT ![e] = @ + 1]
  /\ row' = [row EXCEPT ![e] = IF attempts'[e] >= MaxAttempts THEN "FAILED" ELSE @]
  /\ Release(d, e)
  /\ UNCHANGED << created, reading, crashes >>

MarkPublished(d) ==
  LET e == Head(drain[d].todo) IN
  /\ drain[d].pc = "commit"
  /\ row' = [row EXCEPT ![e] = "PUBLISHED"]
  /\ Release(d, e)
  /\ UNCHANGED << created, attempts, stream, trimmed, reading, crashes >>

\* A drainer that dies, or whose commit fails: the row is unlocked as it was.
DrainerDies(d) ==
  /\ crashes < MaxCrashes
  /\ crashes' = crashes + 1
  /\ drain[d].pc # "idle"
  /\ holder' = [e \in Events |-> IF holder[e] = d THEN NoOne ELSE holder[e]]
  /\ drain' = [drain EXCEPT ![d] = Resting]
  /\ UNCHANGED << row, created, attempts, stream, trimmed, reading >>

-----------------------------------------------------------------------------
(* The passes of the consumers.                                              *)

\* Mutant: every pass reads the stream from its beginning.
Mutant_FromZero(g) == trimmed
\* The last message a group has no more to be given: what was trimmed is gone.
Given(g) == IF trimmed > cursor[g] THEN trimmed ELSE cursor[g]

\* xreadgroup with ">": the group's cursor moves past what the pass is given.
Read(r, g) ==
  LET n == AtMostBatch(Len(stream) - Given(g)) IN
  /\ pass[r].pc = "idle"
  /\ n > 0
  /\ cursor' = [cursor EXCEPT ![g] = Given(g) + n]
  /\ pass' = [pass EXCEPT ![r] =
       [pc |-> "handle", group |-> g, batch |-> [i \in 1 .. n |-> Given(g) + i]]]
  /\ UNCHANGED << outbox, stream, trimmed, acked, applied, crashes >>

\* The handler's transaction commits.
Apply(r) ==
  /\ pass[r].pc = "handle"
  /\ applied' = [applied EXCEPT ![pass[r].group][stream[Head(pass[r].batch)]] = @ + 1]
  /\ pass' = [pass EXCEPT ![r].pc = "ack"]
  /\ UNCHANGED << outbox, stream, trimmed, cursor, acked, crashes >>

NextMessage(r) ==
  LET p == pass[r] IN
  pass' = [pass EXCEPT ![r] =
             IF Len(p.batch) > 1 THEN [p EXCEPT !.pc = "handle", !.batch = Tail(p.batch)]
                                 ELSE Unread]

Ack(r) ==
  /\ pass[r].pc = "ack"
  /\ acked' = [acked EXCEPT ![pass[r].group] = @ \cup { Head(pass[r].batch) }]
  /\ NextMessage(r)
  /\ UNCHANGED << outbox, stream, trimmed, cursor, applied, crashes >>

\* "Sin XACK": the message stays in the group's pending list.
HandlerFails(r) ==
  /\ pass[r].pc = "handle"
  /\ NextMessage(r)
  /\ UNCHANGED << outbox, stream, trimmed, cursor, acked, applied, crashes >>

\* The pass dies with what is left of its batch.
ReaderDies(r) ==
  /\ crashes < MaxCrashes
  /\ crashes' = crashes + 1
  /\ pass[r].pc # "idle"
  /\ pass' = [pass EXCEPT ![r] = Unread]
  /\ UNCHANGED << outbox, stream, trimmed, cursor, acked, applied >>

-----------------------------------------------------------------------------
Draining(d) == \/ \E S \in SUBSET Events : Select(d, S)
               \/ Lock(d) \/ Publish(d) \/ PublishFails(d) \/ MarkPublished(d)
Handling(r) == Apply(r) \/ Ack(r) \/ HandlerFails(r)

Next == \/ \E e \in Events : Commit(e)
        \/ \E d \in Drainers : Draining(d) \/ DrainerDies(d)
        \/ \E r \in Readers : \/ \E g \in Groups : Read(r, g)
                              \/ Handling(r) \/ ReaderDies(r)

Spec == Init /\ [][Next]_vars

\* Beat runs the drainer and the passes again and again, and a row whose time
\* has come is in the batch of one of them.
Fairness ==
  /\ \A d \in Drainers : WF_vars(Lock(d) \/ Publish(d) \/ PublishFails(d) \/ MarkPublished(d))
  /\ \A e \in Events :
       SF_vars(\E d \in Drainers, S \in SUBSET Events :
                 Select(d, S) /\ \E i \in DOMAIN drain'[d].todo : drain'[d].todo[i] = e)
  /\ \A r \in Readers : WF_vars(Handling(r))
  /\ \A g \in Groups : SF_vars(\E r \in Readers : Read(r, g))

FairSpec == Spec /\ Fairness

-----------------------------------------------------------------------------
(* Properties.                                                               *)

Copies(e) == Cardinality({ i \in 1 .. Len(stream) : stream[i] = e })

\* Why an event may be on the stream twice: a drainer died between the message
\* and the commit, or the bus failed after it took the message.  Drainers that
\* overlap are not a reason: the row lock and the second look at the status see
\* to that.
RepeatsAreExplained ==
  \A e \in Events : Copies(e) <= attempts[e] + crashes + 1

\* A row that is no longer tried was sent, or every attempt failed.
PublishedIsSent ==
  \A e \in Events :
    /\ row[e] = "PUBLISHED" => Copies(e) > 0
    /\ row[e] = "FAILED" => attempts[e] = MaxAttempts

\* The bus is the channel that the services assume: what they handle was
\* committed, and no message is handled twice.
Committed == { e \in Events : row[e] # "none" }
Sent      == [e \in Events |-> Copies(e)]
Channels  == INSTANCE Channel WITH
  committed <- Committed, sent <- Sent, handled <- applied
IsChannel == Channels!Spec

\* A message that was given to a pass and that no pass will see again.
Stranded(g, i) ==
  /\ i <= cursor[g] \/ i <= trimmed
  /\ i \notin acked[g]
  /\ \A r \in Readers : pass[r].group = g => \A j \in DOMAIN pass[r].batch : pass[r].batch[j] # i

\* The transactional outbox: what was committed reaches every group, unless all
\* the attempts to send it failed, or the pass that had it failed.
CommittedArrives ==
  \A e \in Events, g \in Groups :
    (row[e] # "none") ~>
      \/ applied[g][e] > 0 \/ row[e] = "FAILED"
      \/ \E i \in 1 .. Len(stream) : stream[i] = e /\ Stranded(g, i)
=============================================================================
