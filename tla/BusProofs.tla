----------------------------- MODULE BusProofs ------------------------------
(* Proofs about Bus, for any rows, drainers, groups and readers, any batch,  *)
(* stream and number of attempts: a repetition of a message has a failure    *)
(* behind it, and the road from the outbox to the handlers is the channel    *)
(* the services count on.                                                    *)
EXTENDS Bus, FiniteSetTheorems, TLAPS

USE BusAssumption

(***************************************************************************)
(* The outbox                                                              *)
(***************************************************************************)

OutboxTyped ==
  /\ row \in [Events -> { "none", "PENDING", "PUBLISHED", "FAILED" }]
  /\ created \in [Events -> Nat]
  /\ attempts \in [Events -> 0 .. MaxAttempts]
  /\ holder \in [Events -> Drainers \cup { NoOne }]
  /\ drain \in [Drainers -> [pc : { "idle", "pick", "publish", "commit" }, todo : Seq(Events)]]
  /\ stream \in Seq(Events)
  /\ trimmed \in 0 .. Len(stream)
  /\ crashes \in 0 .. MaxCrashes

Row(d) == Head(drain[d].todo)
Locking(d) == drain[d].pc \in { "publish", "commit" }

\* The table holds what was committed, so a batch of it is finite.
RowsFinite == IsFiniteSet(Committed)

\* A drainer works on a row it has, and one that it locked is still to be sent.
DrainersHold ==
  \A d \in Drainers :
    /\ drain[d].pc # "idle" => drain[d].todo # << >>
    /\ Locking(d) => holder[Row(d)] = d /\ row[Row(d)] = "PENDING"

\* A row that may still be tried has an attempt left.
AttemptsLeft == \A e \in Events : row[e] \in { "none", "PENDING" } => attempts[e] < MaxAttempts

\* The copy that nothing explains yet is in the hand of the drainer that is
\* about to mark the row, or is the one of a row that is never sent again.
CopiesExplained ==
  \A e \in Events :
    /\ Copies(e) <= attempts[e] + crashes + 1
    /\ row[e] \in { "none", "PENDING" } =>
         \/ Copies(e) <= attempts[e] + crashes
         \/ \E d \in Drainers : drain[d].pc = "commit" /\ Row(d) = e

OutboxInv == OutboxTyped /\ RowsFinite /\ DrainersHold /\ AttemptsLeft /\ CopiesExplained

LEMMA CopiesType ==
  ASSUME stream \in Seq(Events), NEW e \in Events
  PROVE  Copies(e) \in Nat /\ IsFiniteSet({ i \in 1 .. Len(stream) : stream[i] = e })
<1>1. IsFiniteSet(1 .. Len(stream))
  BY FS_Interval
<1>2. { i \in 1 .. Len(stream) : stream[i] = e } \in SUBSET (1 .. Len(stream))
  OBVIOUS
<1> QED BY <1>1, <1>2, FS_Subset, FS_CardinalityType DEF Copies

LEMMA CopiesAppend ==
  ASSUME stream \in Seq(Events), NEW x \in Events, stream' = Append(stream, x)
  PROVE  \A e \in Events : Copies(e)' = IF e = x THEN Copies(e) + 1 ELSE Copies(e)
<1> SUFFICES ASSUME NEW e \in Events
             PROVE  Copies(e)' = IF e = x THEN Copies(e) + 1 ELSE Copies(e)
  OBVIOUS
<1> DEFINE old == { i \in 1 .. Len(stream) : stream[i] = e }
           new == { i \in 1 .. Len(stream') : stream'[i] = e }
           n   == Len(stream) + 1
<1>1. IsFiniteSet(old) /\ Copies(e) = Cardinality(old) /\ Copies(e)' = Cardinality(new)
  BY CopiesType DEF Copies
<1>2. /\ Len(stream') = n /\ n \in Nat /\ stream'[n] = x
      /\ \A i \in 1 .. Len(stream) : stream'[i] = stream[i]
  OBVIOUS
<1>3. n \notin old
  OBVIOUS
<1>4. CASE e = x
  <2>1. new = old \cup { n }
    BY <1>2, <1>4
  <2> QED BY ZenonT(30), <1>1, <1>3, <1>4, <2>1, FS_AddElement
<1>5. CASE e # x
  <2>1. new = old
    BY <1>2, <1>5
  <2> QED BY <1>1, <1>5, <2>1
<1> QED BY <1>4, <1>5

LEMMA AddTyped ==
  ASSUME OutboxTyped, NEW e \in Events, Add(e)
  PROVE  /\ stream' = Append(stream, e) /\ stream' \in Seq(Events)
         /\ trimmed' \in 0 .. Len(stream')
<1>1. stream' = Append(stream, e) /\ stream' \in Seq(Events) /\ Len(stream') = Len(stream) + 1
  BY DEF Add, OutboxTyped
<1>2. CASE Len(stream') > MaxLen + trimmed
  BY <1>1, <1>2 DEF Add, OutboxTyped
<1>3. CASE ~ (Len(stream') > MaxLen + trimmed)
  BY <1>1, <1>3 DEF Add, OutboxTyped
<1> QED BY <1>1, <1>2, <1>3

LEMMA NotEmpty ==
  ASSUME NEW s \in Seq(Events), Len(s) > 0
  PROVE  s # << >>
OBVIOUS

LEMMA NotNothing ==
  ASSUME NEW s \in Seq(Nat), Len(s) > 0
  PROVE  s # << >>
OBVIOUS

\* What a drainer turns to is typed and never empty while it works.
LEMMA RestTyped ==
  ASSUME OutboxTyped, NEW d \in Drainers, drain[d].todo # << >>
  PROVE  /\ Rest(d) \in [pc : { "idle", "pick", "publish", "commit" }, todo : Seq(Events)]
         /\ Rest(d).pc \in { "idle", "pick" }
         /\ Rest(d).pc # "idle" => Rest(d).todo # << >>
         /\ Row(d) \in Events
<1>1. drain[d].todo \in Seq(Events)
  BY DEF OutboxTyped
<1>2. CASE Len(drain[d].todo) > 1
  <2>1. Tail(drain[d].todo) \in Seq(Events) /\ Len(Tail(drain[d].todo)) = Len(drain[d].todo) - 1
    BY <1>1, <1>2
  <2>2. Tail(drain[d].todo) # << >>
    <3> DEFINE t == Tail(drain[d].todo)
    <3>1. t \in Seq(Events) /\ Len(t) > 0
      BY <1>1, <1>2, <2>1
    <3> HIDE DEF t
    <3>2. t # << >>
      BY <3>1, NotEmpty
    <3> QED BY <3>2 DEF t
  <2>3. Row(d) \in Events
    BY <1>1, <1>2 DEF Row
  <2>4. Rest(d) = [pc |-> "pick", todo |-> Tail(drain[d].todo)]
    BY <1>2 DEF Rest
  <2> QED BY <2>1, <2>2, <2>3, <2>4
<1>3. CASE ~ (Len(drain[d].todo) > 1)
  BY <1>1, <1>3 DEF Rest, Resting, Row
<1> QED BY <1>2, <1>3

LEMMA OutboxInit == Init => OutboxInv
<1> SUFFICES ASSUME Init PROVE OutboxInv
  OBVIOUS
<1>1. OutboxTyped /\ DrainersHold /\ AttemptsLeft
  BY DEF Init, OutboxTyped, DrainersHold, AttemptsLeft, Locking, Resting
<1>4. RowsFinite
  <2>1. Committed = {}
    BY DEF Init, Committed
  <2> QED BY <2>1, FS_EmptySet DEF RowsFinite
<1>2. \A e \in Events : Copies(e) = 0
  <2> TAKE e \in Events
  <2>1. { i \in 1 .. Len(stream) : stream[i] = e } = {}
    BY DEF Init
  <2> QED BY <2>1, FS_EmptySet DEF Copies
<1>3. CopiesExplained
  BY <1>1, <1>2 DEF Init, CopiesExplained, OutboxTyped
<1> QED BY <1>1, <1>3, <1>4 DEF OutboxInv

-----------------------------------------------------------------------------
(* One lemma for each step of the outbox.                                    *)

LEMMA CommitStep ==
  ASSUME OutboxInv, NEW e \in Events, Commit(e)
  PROVE  OutboxInv'
<1> USE DEF OutboxInv
<1>1. Committed' = Committed \cup { e } /\ Cardinality(Committed) \in Nat
  BY FS_CardinalityType DEF Commit, Committed, RowsFinite, OutboxTyped
<1>2. RowsFinite'
  BY <1>1, FS_AddElement DEF RowsFinite
<1>3. OutboxTyped'
  <2>1. created'[e] \in Nat /\ created' = [created EXCEPT ![e] = Cardinality(Committed) + 1]
    BY <1>1 DEF Commit, Committed, OutboxTyped
  <2> QED BY <1>1, <2>1 DEF Commit, OutboxTyped
<1>4. DrainersHold'
  BY DEF Commit, DrainersHold, Locking, Row, OutboxTyped
<1>5. AttemptsLeft'
  BY DEF Commit, AttemptsLeft, OutboxTyped
<1>6. CopiesExplained'
  BY DEF Commit, CopiesExplained, Copies, Row, OutboxTyped
<1> QED BY <1>2, <1>3, <1>4, <1>5, <1>6

LEMMA SelectStep ==
  ASSUME OutboxInv, NEW d \in Drainers, NEW S \in SUBSET Events, Select(d, S)
  PROVE  OutboxInv'
<1> USE DEF OutboxInv
<1>1. PICK s \in Oldest(S) : drain' = [drain EXCEPT ![d] = [pc |-> "pick", todo |-> s]]
  BY DEF Select
<1>2. Cardinality(S) \in Nat /\ Cardinality(S) # 0
  <2>1. S \subseteq Committed
    BY DEF Select, Due, Committed
  <2>2. IsFiniteSet(S)
    BY <2>1, FS_Subset DEF RowsFinite
  <2> QED BY <2>2, FS_CardinalityType, FS_EmptySet DEF Select
<1>3. s \in Seq(Events) /\ s # << >>
  <2> DEFINE n == AtMostBatch(Cardinality(S))
  <2>1. n \in Nat /\ n > 0
    BY <1>2 DEF AtMostBatch, BusAssumption
  <2>2. s \in [1 .. n -> S]
    BY DEF Oldest
  <2>3. s \in Seq(Events) /\ Len(s) = n
    BY <2>1, <2>2
  <2> QED BY <2>1, <2>3
<1>4. OutboxTyped'
  BY <1>1, <1>3 DEF Select, OutboxTyped
<1>5. DrainersHold'
  BY <1>1, <1>3 DEF Select, DrainersHold, Locking, Row, OutboxTyped
<1>6. RowsFinite' /\ AttemptsLeft'
  BY DEF Select, RowsFinite, Committed, AttemptsLeft
<1>7. CopiesExplained'
  BY <1>1 DEF Select, CopiesExplained, Copies, Row, OutboxTyped
<1> QED BY <1>4, <1>5, <1>6, <1>7

LEMMA LockStep ==
  ASSUME OutboxInv, NEW d \in Drainers, Lock(d)
  PROVE  OutboxInv'
<1> USE DEF OutboxInv
<1>1. drain[d].pc = "pick" /\ drain[d].todo # << >>
  BY DEF Lock, DrainersHold
<1>2. /\ Rest(d) \in [pc : { "idle", "pick", "publish", "commit" }, todo : Seq(Events)]
      /\ Rest(d).pc \in { "idle", "pick" }
      /\ Rest(d).pc # "idle" => Rest(d).todo # << >>
      /\ Row(d) \in Events
  BY <1>1, RestTyped
<1>3. RowsFinite' /\ AttemptsLeft'
  BY DEF Lock, RowsFinite, Committed, AttemptsLeft
<1>4. CASE Lockable(Row(d))
  <2>1. /\ holder' = [holder EXCEPT ![Row(d)] = d]
        /\ drain' = [drain EXCEPT ![d].pc = "publish"]
        /\ UNCHANGED << row, created, attempts, stream, trimmed, crashes >>
    BY <1>4 DEF Lock, Row
  <2>2. OutboxTyped'
    BY <1>2, <2>1 DEF OutboxTyped
  <2>3. DrainersHold'
    <3> SUFFICES ASSUME NEW c \in Drainers
                 PROVE  /\ drain'[c].pc # "idle" => drain'[c].todo # << >>
                        /\ Locking(c)' => holder'[Row(c)'] = c /\ row'[Row(c)'] = "PENDING"
      BY DEF DrainersHold
    <3>1. Row(c)' = Row(c)
      BY <2>1 DEF Row, OutboxTyped
    <3>2. CASE c = d
      BY <1>1, <1>2, <1>4, <2>1, <3>1, <3>2 DEF Lockable, OutboxTyped
    <3>3. CASE c # d
      <4>1. drain'[c] = drain[c]
        BY <2>1, <3>3 DEF OutboxTyped
      <4>2. Locking(c) => Row(c) # Row(d)
        BY <1>4 DEF DrainersHold, Lockable, BusAssumption
      <4>3. Locking(c)' <=> Locking(c)
        BY <4>1 DEF Locking
      <4>4. drain'[c].pc # "idle" => drain'[c].todo # << >>
        BY <4>1 DEF DrainersHold
      <4>5. ASSUME Locking(c) PROVE holder'[Row(c)] = c /\ row'[Row(c)] = "PENDING"
        BY <1>2, <2>1, <4>2, <4>5 DEF DrainersHold, OutboxTyped
      <4> QED BY <3>1, <4>3, <4>4, <4>5
    <3> QED BY <3>2, <3>3
  <2>4. CopiesExplained'
    BY <1>1, <2>1 DEF CopiesExplained, Copies, Row, OutboxTyped
  <2> QED BY <1>3, <2>2, <2>3, <2>4
<1>5. CASE ~ Lockable(Row(d))
  <2>1. /\ drain' = [drain EXCEPT ![d] = Rest(d)]
        /\ UNCHANGED << row, created, attempts, holder, stream, trimmed, crashes >>
    BY <1>5 DEF Lock, Row
  <2>2. OutboxTyped'
    BY <1>2, <2>1 DEF OutboxTyped
  <2>3. DrainersHold'
    BY SMTT(30), <1>2, <2>1 DEF DrainersHold, Locking, Row, OutboxTyped
  <2>4. CopiesExplained'
    BY <1>1, <2>1 DEF CopiesExplained, Copies, Row, OutboxTyped
  <2> QED BY <1>3, <2>2, <2>3, <2>4
<1> QED BY <1>4, <1>5

\* No two drainers are about to mark the same row.
LEMMA OneHolder ==
  ASSUME DrainersHold, NEW d \in Drainers, drain[d].pc = "publish"
  PROVE  ~ \E c \in Drainers : drain[c].pc = "commit" /\ Row(c) = Row(d)
BY DEF DrainersHold, Locking

LEMMA PublishStep ==
  ASSUME OutboxInv, NEW d \in Drainers, Publish(d)
  PROVE  OutboxInv'
<1> USE DEF OutboxInv
<1>1. /\ drain[d].pc = "publish" /\ drain[d].todo # << >>
      /\ row[Row(d)] = "PENDING" /\ Row(d) \in Events
  BY RestTyped DEF Publish, DrainersHold, Locking
<1>2. /\ Add(Row(d)) /\ drain' = [drain EXCEPT ![d].pc = "commit"]
      /\ UNCHANGED << row, created, attempts, holder, crashes >>
  BY DEF Publish, Row
<1>3. stream' = Append(stream, Row(d)) /\ stream' \in Seq(Events) /\ trimmed' \in 0 .. Len(stream')
  BY <1>1, <1>2, AddTyped
<1>4. OutboxTyped'
  BY <1>2, <1>3 DEF OutboxTyped
<1>5. DrainersHold'
  BY <1>1, <1>2 DEF DrainersHold, Locking, Row, OutboxTyped
<1>6. RowsFinite' /\ AttemptsLeft'
  BY <1>2 DEF RowsFinite, Committed, AttemptsLeft
<1>7. CopiesExplained'
  <2>1. \A e \in Events : Copies(e)' = IF e = Row(d) THEN Copies(e) + 1 ELSE Copies(e)
    BY <1>1, <1>3, CopiesAppend DEF OutboxTyped
  <2> SUFFICES ASSUME NEW e \in Events
               PROVE  /\ Copies(e)' <= attempts[e] + crashes + 1
                      /\ row[e] \in { "none", "PENDING" } =>
                           \/ Copies(e)' <= attempts[e] + crashes
                           \/ \E c \in Drainers : drain'[c].pc = "commit" /\ Row(c)' = e
    BY <1>2 DEF CopiesExplained
  <2>2. Copies(e) \in Nat /\ attempts[e] \in Nat /\ crashes \in Nat
    <3>1. Copies(e) \in Nat
      BY CopiesType DEF OutboxTyped
    <3> QED BY <3>1 DEF OutboxTyped
  <2>3. drain'[d].pc = "commit" /\ \A c \in Drainers : Row(c)' = Row(c)
    BY <1>2 DEF Row, OutboxTyped
  <2>4. CASE e = Row(d)
    <3>1. Copies(e) <= attempts[e] + crashes
      BY <1>1, <2>4, OneHolder DEF CopiesExplained
    <3> QED BY <2>1, <2>2, <2>3, <2>4, <3>1
  <2>5. CASE e # Row(d)
    <3>1. \A c \in Drainers : drain[c].pc = "commit" /\ Row(c) = e
                                => drain'[c].pc = "commit" /\ Row(c)' = e
      BY <1>2, <2>3 DEF OutboxTyped
    <3> QED BY <2>1, <2>2, <2>5, <3>1 DEF CopiesExplained
  <2> QED BY <2>4, <2>5
<1> QED BY <1>4, <1>5, <1>6, <1>7

\* The two ways a row's transaction ends leave the drainer at its next row.
LEMMA Released ==
  ASSUME OutboxInv, NEW d \in Drainers, Locking(d), Release(d, Row(d))
  PROVE  /\ Row(d) \in Events /\ row[Row(d)] = "PENDING" /\ attempts[Row(d)] < MaxAttempts
         /\ drain' \in [Drainers ->
                          [pc : { "idle", "pick", "publish", "commit" }, todo : Seq(Events)]]
         /\ holder' \in [Events -> Drainers \cup { NoOne }]
         /\ drain'[d].pc \in { "idle", "pick" }
         /\ drain'[d].pc # "idle" => drain'[d].todo # << >>
         /\ \A c \in Drainers \ { d } : drain'[c] = drain[c] /\ (Locking(c) => Row(c) # Row(d))
         /\ \A e \in Events \ { Row(d) } : holder'[e] = holder[e]
<1> USE DEF OutboxInv
<1>1. drain[d].todo # << >> /\ holder[Row(d)] = d /\ row[Row(d)] = "PENDING"
  BY DEF DrainersHold, Locking
<1>2. /\ Rest(d) \in [pc : { "idle", "pick", "publish", "commit" }, todo : Seq(Events)]
      /\ Rest(d).pc \in { "idle", "pick" }
      /\ Rest(d).pc # "idle" => Rest(d).todo # << >>
      /\ Row(d) \in Events
  BY <1>1, RestTyped
<1>3. /\ drain' = [drain EXCEPT ![d] = Rest(d)]
      /\ holder' = [holder EXCEPT ![Row(d)] = NoOne]
  BY DEF Release
<1>4. /\ drain' \in [Drainers ->
                       [pc : { "idle", "pick", "publish", "commit" }, todo : Seq(Events)]]
      /\ holder' \in [Events -> Drainers \cup { NoOne }]
      /\ drain'[d] = Rest(d)
      /\ \A c \in Drainers \ { d } : drain'[c] = drain[c]
      /\ \A e \in Events \ { Row(d) } : holder'[e] = holder[e]
  BY <1>2, <1>3 DEF OutboxTyped
<1>5. \A c \in Drainers \ { d } : Locking(c) => Row(c) # Row(d)
  BY <1>1 DEF DrainersHold
<1>6. attempts[Row(d)] < MaxAttempts
  BY <1>1, <1>2 DEF AttemptsLeft
<1> QED BY <1>1, <1>2, <1>4, <1>5, <1>6

\* Drainers go on holding their rows when one of them ends its transaction.
LEMMA OthersHold ==
  ASSUME OutboxInv, NEW d \in Drainers, Locking(d), Release(d, Row(d)),
         \A e \in Events \ { Row(d) } : row'[e] = row[e]
  PROVE  DrainersHold'
<1> USE DEF OutboxInv
<1> SUFFICES ASSUME NEW c \in Drainers
             PROVE  /\ drain'[c].pc # "idle" => drain'[c].todo # << >>
                    /\ Locking(c)' => holder'[Row(c)'] = c /\ row'[Row(c)'] = "PENDING"
  BY DEF DrainersHold
<1>1. CASE c = d
  BY <1>1, Released DEF Locking
<1>2. CASE c # d
  <2>1. drain'[c] = drain[c] /\ (Locking(c) => Row(c) # Row(d))
    BY <1>2, Released
  <2>2. Row(c)' = Row(c) /\ (Locking(c)' <=> Locking(c))
    BY <2>1 DEF Row, Locking
  <2>3. drain'[c].pc # "idle" => drain'[c].todo # << >>
    BY <2>1 DEF DrainersHold
  <2>4. ASSUME Locking(c) PROVE holder'[Row(c)] = c /\ row'[Row(c)] = "PENDING"
    <3>1. Row(c) \in Events /\ holder[Row(c)] = c /\ row[Row(c)] = "PENDING"
      BY <2>4, RestTyped DEF DrainersHold, Locking
    <3> QED BY <2>1, <2>4, <3>1, Released
  <2> QED BY <2>2, <2>3, <2>4
<1> QED BY <1>1, <1>2

LEMMA MarkPublishedStep ==
  ASSUME OutboxInv, NEW d \in Drainers, MarkPublished(d)
  PROVE  OutboxInv'
<1> USE DEF OutboxInv
<1>1. /\ Locking(d) /\ Release(d, Row(d))
      /\ row' = [row EXCEPT ![Row(d)] = "PUBLISHED"]
      /\ UNCHANGED << created, attempts, stream, trimmed, crashes >>
  BY DEF MarkPublished, Row, Locking
<1>2. Row(d) \in Events
  BY <1>1, Released
<1>3. OutboxTyped'
  BY <1>1, <1>2, Released DEF OutboxTyped
<1>4. DrainersHold'
  BY <1>1, <1>2, OthersHold DEF OutboxTyped
<1>5. RowsFinite'
  <2>1. Committed' = Committed \cup { Row(d) }
    BY <1>1, <1>2 DEF Committed, OutboxTyped
  <2> QED BY <2>1, FS_AddElement DEF RowsFinite
<1>6. AttemptsLeft'
  BY <1>1, <1>2 DEF AttemptsLeft, OutboxTyped
<1>7. CopiesExplained'
  <2> SUFFICES ASSUME NEW e \in Events
               PROVE  /\ Copies(e) <= attempts[e] + crashes + 1
                      /\ row'[e] \in { "none", "PENDING" } =>
                           \/ Copies(e) <= attempts[e] + crashes
                           \/ \E c \in Drainers : drain'[c].pc = "commit" /\ Row(c)' = e
    BY <1>1 DEF CopiesExplained, Copies
  <2>1. CASE e = Row(d)
    BY <1>1, <1>2, <2>1 DEF CopiesExplained, OutboxTyped
  <2>2. CASE e # Row(d)
    <3>1. row'[e] = row[e]
      BY <1>1, <1>2, <2>2 DEF OutboxTyped
    <3>2. ASSUME NEW c \in Drainers, drain[c].pc = "commit", Row(c) = e
          PROVE  drain'[c].pc = "commit" /\ Row(c)' = e
      <4>1. c # d
        BY <2>2, <3>2
      <4>2. drain'[c] = drain[c]
        BY <1>1, <4>1, Released
      <4> QED BY <3>2, <4>2 DEF Row
    <3> QED BY <3>1, <3>2 DEF CopiesExplained
  <2> QED BY <2>1, <2>2
<1> QED BY <1>3, <1>4, <1>5, <1>6, <1>7

LEMMA PublishFailsStep ==
  ASSUME OutboxInv, NEW d \in Drainers, PublishFails(d)
  PROVE  OutboxInv'
<1> USE DEF OutboxInv
<1> DEFINE r == Row(d)
<1>1. /\ drain[d].pc = "publish" /\ Locking(d) /\ Release(d, r)
      /\ attempts' = [attempts EXCEPT ![r] = @ + 1]
      /\ row' = [row EXCEPT ![r] = IF attempts'[r] >= MaxAttempts THEN "FAILED" ELSE @]
      /\ Add(r) \/ UNCHANGED << stream, trimmed >>
      /\ UNCHANGED << created, crashes >>
  BY DEF PublishFails, Row, Locking
<1>2. r \in Events /\ row[r] = "PENDING" /\ attempts[r] < MaxAttempts
  BY <1>1, Released
<1>3. stream' \in Seq(Events) /\ trimmed' \in 0 .. Len(stream')
  BY <1>1, <1>2, AddTyped DEF OutboxTyped
<1>4. /\ attempts' \in [Events -> 0 .. MaxAttempts] /\ attempts'[r] = attempts[r] + 1
      /\ \A e \in Events \ { r } : attempts'[e] = attempts[e] /\ row'[e] = row[e]
      /\ row' \in [Events -> { "none", "PENDING", "PUBLISHED", "FAILED" }]
      /\ row'[r] = IF attempts'[r] >= MaxAttempts THEN "FAILED" ELSE "PENDING"
  BY <1>1, <1>2 DEF OutboxTyped, BusAssumption
<1>5. OutboxTyped'
  BY <1>1, <1>3, <1>4, Released DEF OutboxTyped
<1>6. DrainersHold'
  BY <1>1, <1>4, OthersHold
<1>7. RowsFinite'
  <2>1. Committed' = Committed
    BY <1>2, <1>4 DEF Committed
  <2> QED BY <2>1 DEF RowsFinite
<1>8. AttemptsLeft'
  <2> SUFFICES ASSUME NEW e \in Events, row'[e] \in { "none", "PENDING" }
               PROVE  attempts'[e] < MaxAttempts
    BY DEF AttemptsLeft
  <2>1. CASE e = r
    <3>1. ~ (attempts'[r] >= MaxAttempts)
      BY <1>4, <2>1
    <3>2. attempts'[r] \in Nat /\ MaxAttempts \in Nat
      BY <1>2, <1>4 DEF BusAssumption
    <3> QED BY <2>1, <3>1, <3>2
  <2>2. CASE e # r
    BY <1>4, <2>2 DEF AttemptsLeft
  <2> QED BY <2>1, <2>2
<1>9. CopiesExplained'
  <2>1. \A e \in Events : Copies(e)' \in { Copies(e), IF e = r THEN Copies(e) + 1 ELSE Copies(e) }
    <3>1. CASE Add(r)
      <4>1. stream' = Append(stream, r)
        BY <1>2, <3>1, AddTyped
      <4> QED BY <1>2, <4>1, CopiesAppend DEF OutboxTyped
    <3>2. CASE UNCHANGED << stream, trimmed >>
      BY <3>2 DEF Copies
    <3> QED BY <1>1, <3>1, <3>2
  <2> SUFFICES ASSUME NEW e \in Events
               PROVE  /\ Copies(e)' <= attempts'[e] + crashes + 1
                      /\ row'[e] \in { "none", "PENDING" } =>
                           \/ Copies(e)' <= attempts'[e] + crashes
                           \/ \E c \in Drainers : drain'[c].pc = "commit" /\ Row(c)' = e
    BY <1>1 DEF CopiesExplained
  <2>2. Copies(e) \in Nat /\ attempts[e] \in Nat /\ crashes \in Nat
    <3>1. Copies(e) \in Nat
      BY CopiesType DEF OutboxTyped
    <3> QED BY <3>1 DEF OutboxTyped
  <2>3. CASE e = r
    <3>1. Copies(e) <= attempts[e] + crashes
      BY <1>1, <1>2, <2>3, OneHolder DEF CopiesExplained
    <3> HIDE DEF r
    <3> QED BY <1>4, <2>1, <2>2, <2>3, <3>1
  <2>4. CASE e # r
    <3>1. ASSUME NEW c \in Drainers, drain[c].pc = "commit", Row(c) = e
          PROVE  drain'[c].pc = "commit" /\ Row(c)' = e
      <4>1. drain'[c] = drain[c]
        BY <1>1, <3>1, Released
      <4> QED BY <3>1, <4>1 DEF Row
    <3>2. Copies(e)' = Copies(e)
      BY <2>1, <2>4
    <3> QED BY <1>4, <2>4, <3>1, <3>2 DEF CopiesExplained
  <2> QED BY <2>3, <2>4
<1> QED BY <1>5, <1>6, <1>7, <1>8, <1>9

LEMMA DrainerDiesStep ==
  ASSUME OutboxInv, NEW d \in Drainers, DrainerDies(d)
  PROVE  OutboxInv'
<1> USE DEF OutboxInv
<1>1. /\ crashes < MaxCrashes /\ crashes' = crashes + 1
      /\ holder' = [e \in Events |-> IF holder[e] = d THEN NoOne ELSE holder[e]]
      /\ drain' = [drain EXCEPT ![d] = Resting]
      /\ UNCHANGED << row, created, attempts, stream, trimmed >>
  BY DEF DrainerDies
<1>2. Resting \in [pc : { "idle", "pick", "publish", "commit" }, todo : Seq(Events)]
  BY DEF Resting
<1>3. OutboxTyped'
  BY <1>1, <1>2 DEF OutboxTyped, BusAssumption
<1>4. drain'[d] = Resting /\ \A c \in Drainers \ { d } : drain'[c] = drain[c]
  BY <1>1 DEF OutboxTyped
<1>5. DrainersHold'
  <2> SUFFICES ASSUME NEW c \in Drainers
               PROVE  /\ drain'[c].pc # "idle" => drain'[c].todo # << >>
                      /\ Locking(c)' => holder'[Row(c)'] = c /\ row'[Row(c)'] = "PENDING"
    BY DEF DrainersHold
  <2>1. CASE c = d
    BY <1>4, <2>1 DEF Locking, Resting
  <2>2. CASE c # d
    <3>1. drain'[c] = drain[c] /\ Row(c)' = Row(c) /\ (Locking(c)' <=> Locking(c))
      BY <1>4, <2>2 DEF Row, Locking
    <3>2. ASSUME Locking(c) PROVE holder'[Row(c)] = c /\ row[Row(c)] = "PENDING"
      <4>1. Row(c) \in Events /\ holder[Row(c)] = c /\ row[Row(c)] = "PENDING"
        BY <3>2, RestTyped DEF DrainersHold, Locking
      <4> QED BY <1>1, <2>2, <4>1
    <3> QED BY <1>1, <3>1, <3>2 DEF DrainersHold
  <2> QED BY <2>1, <2>2
<1>6. RowsFinite' /\ AttemptsLeft'
  BY <1>1 DEF RowsFinite, Committed, AttemptsLeft
<1>7. CopiesExplained'
  <2> SUFFICES ASSUME NEW e \in Events
               PROVE  /\ Copies(e) <= attempts[e] + crashes' + 1
                      /\ row[e] \in { "none", "PENDING" } => Copies(e) <= attempts[e] + crashes'
    BY <1>1 DEF CopiesExplained, Copies
  <2>1. Copies(e) \in Nat
    BY CopiesType DEF OutboxTyped
  <2>2. attempts[e] \in Nat /\ crashes \in Nat /\ crashes' = crashes + 1
    BY <1>1 DEF OutboxTyped
  <2> QED BY <2>1, <2>2 DEF CopiesExplained
<1> QED BY <1>3, <1>5, <1>6, <1>7

LEMMA OutboxStep ==
  ASSUME OutboxInv, [Next]_vars
  PROVE  OutboxInv'
<1>1. CASE UNCHANGED << outbox, stream, trimmed, crashes >>
  BY <1>1 DEF outbox, OutboxInv, OutboxTyped, RowsFinite, Committed, DrainersHold, Locking, Row,
              AttemptsLeft, CopiesExplained, Copies
<1>2. ASSUME NEW e \in Events, Commit(e) PROVE OutboxInv'
  BY <1>2, CommitStep
<1>3. ASSUME NEW d \in Drainers, Draining(d) \/ DrainerDies(d) PROVE OutboxInv'
  BY <1>3, SelectStep, LockStep, PublishStep, PublishFailsStep, MarkPublishedStep,
     DrainerDiesStep DEF Draining
<1>4. ASSUME NEW r \in Readers, ReaderDies(r) PROVE OutboxInv'
  <2>1. /\ crashes \in 0 .. MaxCrashes /\ crashes < MaxCrashes /\ crashes' = crashes + 1
        /\ UNCHANGED << outbox, stream, trimmed >>
    BY <1>4 DEF ReaderDies, OutboxInv, OutboxTyped
  <2>2. OutboxTyped' /\ RowsFinite' /\ DrainersHold' /\ AttemptsLeft'
    BY <2>1 DEF outbox, OutboxInv, OutboxTyped, RowsFinite, Committed, DrainersHold, Locking,
                Row, AttemptsLeft, BusAssumption
  <2>3. CopiesExplained'
    <3> SUFFICES ASSUME NEW e \in Events
                 PROVE  /\ Copies(e) <= attempts[e] + crashes' + 1
                        /\ row[e] \in { "none", "PENDING" } => Copies(e) <= attempts[e] + crashes'
      BY <2>1 DEF outbox, CopiesExplained, Copies
    <3>1. Copies(e) \in Nat
      BY CopiesType DEF OutboxInv, OutboxTyped
    <3>2. attempts[e] \in Nat /\ crashes \in Nat
      BY DEF OutboxInv, OutboxTyped
    <3> QED BY <2>1, <3>1, <3>2 DEF OutboxInv, CopiesExplained
  <2> QED BY <2>2, <2>3 DEF OutboxInv
<1>5. ASSUME NEW r \in Readers, NEW g \in Groups, Read(r, g) PROVE OutboxInv'
  BY <1>1, <1>5 DEF Read
<1>6. ASSUME NEW r \in Readers, Handling(r) PROVE OutboxInv'
  BY <1>1, <1>6 DEF Handling, Apply, Ack, HandlerFails
<1>7. CASE UNCHANGED vars
  BY <1>1, <1>7 DEF vars, outbox
<1> QED BY <1>2, <1>3, <1>4, <1>5, <1>6, <1>7 DEF Next

\* A row about to be marked has its message on the stream.
SentInv == PublishedIsSent /\ \A d \in Drainers : drain[d].pc = "commit" => Copies(Row(d)) > 0

\* Messages are only added, and SentInv is kept by a step that moves no other
\* drainer, publishes no row and fails none before its last attempt.
LEMMA SentKept ==
  ASSUME OutboxInv, SentInv, OutboxInv',
         stream' = stream \/ \E x \in Events : stream' = Append(stream, x),
         \A e \in Events : row'[e] = "PUBLISHED" => row[e] = "PUBLISHED" \/ Copies(e) > 0,
         \A e \in Events : row'[e] = "FAILED" =>
           attempts'[e] >= MaxAttempts \/ (row[e] = "FAILED" /\ attempts'[e] = attempts[e]),
         \A d \in Drainers : drain'[d].pc = "commit" =>
           (drain[d].pc = "commit" /\ Row(d)' = Row(d)) \/ Copies(Row(d))' > 0
  PROVE  SentInv'
<1>1. \A e \in Events : Copies(e) \in Nat /\ Copies(e)' \in Nat /\ Copies(e)' >= Copies(e)
  <2>1. \A e \in Events : Copies(e) \in Nat
    BY CopiesType DEF OutboxInv, OutboxTyped
  <2>2. CASE stream' = stream
    BY <2>1, <2>2 DEF Copies
  <2>3. CASE \E x \in Events : stream' = Append(stream, x)
    <3>1. PICK x \in Events : stream' = Append(stream, x)
      BY <2>3
    <3>2. \A e \in Events : Copies(e)' = IF e = x THEN Copies(e) + 1 ELSE Copies(e)
      BY <3>1, CopiesAppend DEF OutboxInv, OutboxTyped
    <3> QED BY <2>1, <3>2
  <2> QED BY <2>2, <2>3
<1>2. ASSUME NEW e \in Events, row'[e] = "PUBLISHED" PROVE Copies(e)' > 0
  BY <1>1, <1>2 DEF SentInv, PublishedIsSent
<1>3. ASSUME NEW e \in Events, row'[e] = "FAILED" PROVE attempts'[e] = MaxAttempts
  <2>1. attempts'[e] \in 0 .. MaxAttempts /\ MaxAttempts \in Nat
    BY DEF OutboxInv, OutboxTyped, BusAssumption
  <2> QED BY <1>3, <2>1 DEF SentInv, PublishedIsSent
<1>4. ASSUME NEW d \in Drainers, drain'[d].pc = "commit" PROVE Copies(Row(d))' > 0
  <2>1. CASE drain[d].pc = "commit" /\ Row(d)' = Row(d)
    <3>1. Row(d) \in Events /\ Copies(Row(d)) > 0
      BY <2>1, RestTyped DEF OutboxInv, DrainersHold, SentInv
    <3> QED BY <1>1, <2>1, <3>1
  <2> QED BY <1>4, <2>1
<1> QED BY <1>2, <1>3, <1>4 DEF SentInv, PublishedIsSent

LEMMA SentStep ==
  ASSUME OutboxInv, SentInv, [Next]_vars, OutboxInv'
  PROVE  SentInv'
<1> USE DEF OutboxInv
<1>1. CASE UNCHANGED << row, attempts, drain, stream >>
  BY <1>1, SentKept DEF Row
<1>2. ASSUME NEW e \in Events, Commit(e) PROVE SentInv'
  <2>1. \A x \in Events : row'[x] \in { row[x], "PENDING" }
    BY <1>2 DEF Commit, OutboxTyped
  <2> QED BY <1>2, <2>1, SentKept DEF Commit, Row
<1>3. ASSUME NEW d \in Drainers, Draining(d) \/ DrainerDies(d) PROVE SentInv'
  <2>1. CASE (\E S \in SUBSET Events : Select(d, S)) \/ Lock(d) \/ DrainerDies(d)
    <3>1. UNCHANGED << row, attempts, stream >>
      BY <2>1 DEF Select, Lock, DrainerDies
    <3>2. \A c \in Drainers \ { d } : drain'[c] = drain[c]
      BY <2>1 DEF Select, Lock, DrainerDies, OutboxTyped
    <3>3. drain'[d].pc # "commit"
      <4>1. CASE \E S \in SUBSET Events : Select(d, S)
        BY <4>1 DEF Select, OutboxTyped
      <4>2. CASE Lock(d)
        <5>1. Rest(d).pc # "commit"
          BY DEF Rest, Resting
        <5> QED BY <4>2, <5>1 DEF Lock, OutboxTyped
      <4>3. CASE DrainerDies(d)
        BY <4>3 DEF DrainerDies, Resting, OutboxTyped
      <4> QED BY <2>1, <4>1, <4>2, <4>3
    <3> QED BY <3>1, <3>2, <3>3, SentKept DEF Row
  <2>2. CASE Publish(d)
    <3>1. Row(d) \in Events /\ stream' = Append(stream, Row(d))
      BY <2>2, AddTyped, RestTyped DEF Publish, DrainersHold, Row
    <3>2. /\ UNCHANGED << row, attempts >> /\ Row(d)' = Row(d)
          /\ \A c \in Drainers \ { d } : drain'[c] = drain[c]
      BY <2>2 DEF Publish, Row, OutboxTyped
    <3>3. Copies(Row(d))' > 0
      <4>1. PICK x \in Events : x = Row(d)
        BY <3>1
      <4>2. Copies(x) \in Nat /\ Copies(x)' = Copies(x) + 1
        BY <3>1, <4>1, CopiesType, CopiesAppend DEF OutboxTyped
      <4>3. Copies(Row(d))' = Copies(x)'
        BY <3>2, <4>1 DEF Copies
      <4> QED BY <4>2, <4>3
    <3> QED BY <3>1, <3>2, <3>3, SentKept DEF Row
  <2>3. ASSUME Locking(d), Release(d, Row(d)),
               \A e \in Events \ { Row(d) } : row'[e] = row[e] /\ attempts'[e] = attempts[e],
               row'[Row(d)] = "PUBLISHED" => Copies(Row(d)) > 0,
               row'[Row(d)] = "FAILED" => attempts'[Row(d)] >= MaxAttempts,
               stream' = stream \/ \E x \in Events : stream' = Append(stream, x)
        PROVE  SentInv'
    <3>1. /\ drain'[d].pc # "commit"
          /\ \A c \in Drainers \ { d } : drain'[c] = drain[c]
      BY <2>3, Released
    <3> QED BY <2>3, <3>1, SentKept DEF Row
  <2>4. CASE PublishFails(d)
    <3>1. /\ Locking(d) /\ Release(d, Row(d))
          /\ attempts' = [attempts EXCEPT ![Row(d)] = @ + 1]
          /\ row' = [row EXCEPT ![Row(d)] = IF attempts'[Row(d)] >= MaxAttempts
                                              THEN "FAILED" ELSE @]
          /\ Add(Row(d)) \/ UNCHANGED << stream, trimmed >>
      BY <2>4 DEF PublishFails, Row, Locking
    <3>2. Row(d) \in Events /\ row[Row(d)] = "PENDING"
      BY <3>1, Released
    <3>3. stream' = stream \/ \E x \in Events : stream' = Append(stream, x)
      BY <3>1, <3>2, AddTyped
    <3>4. /\ \A e \in Events \ { Row(d) } : row'[e] = row[e] /\ attempts'[e] = attempts[e]
          /\ row'[Row(d)] = IF attempts'[Row(d)] >= MaxAttempts THEN "FAILED" ELSE "PENDING"
      BY <3>1, <3>2 DEF OutboxTyped
    <3> QED BY <2>3, <3>1, <3>3, <3>4
  <2>5. CASE MarkPublished(d)
    <3>1. /\ Locking(d) /\ Release(d, Row(d)) /\ drain[d].pc = "commit"
          /\ row' = [row EXCEPT ![Row(d)] = "PUBLISHED"] /\ UNCHANGED << attempts, stream >>
      BY <2>5 DEF MarkPublished, Row, Locking
    <3>2. Row(d) \in Events /\ Copies(Row(d)) > 0
      BY <3>1, Released DEF SentInv
    <3>3. /\ \A e \in Events \ { Row(d) } : row'[e] = row[e] /\ attempts'[e] = attempts[e]
          /\ row'[Row(d)] = "PUBLISHED"
      BY <3>1, <3>2 DEF OutboxTyped
    <3> QED BY <2>3, <3>1, <3>2, <3>3
  <2> QED BY <1>3, <2>1, <2>2, <2>4, <2>5 DEF Draining
<1>4. ASSUME NEW r \in Readers,
             (\E g \in Groups : Read(r, g)) \/ Handling(r) \/ ReaderDies(r)
      PROVE  SentInv'
  BY <1>1, <1>4 DEF Read, Handling, Apply, Ack, HandlerFails, ReaderDies, outbox
<1>5. CASE UNCHANGED vars
  BY <1>1, <1>5 DEF vars
<1> QED BY <1>2, <1>3, <1>4, <1>5 DEF Next

THEOREM OutboxAlways == Spec => []OutboxInv
<1>1. OutboxInv /\ [Next]_vars => OutboxInv'
  BY OutboxStep
<1> QED BY OutboxInit, <1>1, PTL DEF Spec

\* Every copy of an event after the first has a failed attempt or a death of a
\* task behind it: drainers that overlap never send a row twice by themselves
\* (drain_outbox, whose row lock and second look at the status see to it).
THEOREM RepeatsExplained == Spec => []RepeatsAreExplained
<1>1. OutboxInv => RepeatsAreExplained
  BY DEF OutboxInv, CopiesExplained, RepeatsAreExplained
<1> QED BY OutboxAlways, <1>1, PTL

\* The transactional outbox loses no row: one that is no longer tried has its
\* message on the stream, or used up every attempt (drain_outbox marks a row
\* after publish returned, mark_failed gives up at OUTBOX_MAX_ATTEMPTS).
THEOREM PublishedWasSent == Spec => []PublishedIsSent
<1>1. Init => SentInv
  BY DEF Init, SentInv, PublishedIsSent, Resting
<1>2. SentInv => PublishedIsSent
  BY DEF SentInv
<1> QED BY OutboxAlways, <1>1, <1>2, SentStep, PTL DEF Spec

(***************************************************************************)
(* The passes                                                              *)
(***************************************************************************)

PassType == [pc : { "idle", "handle", "ack" }, group : Groups \cup { NoOne }, batch : Seq(Nat)]

PassesTyped ==
  /\ cursor \in [Groups -> Nat]
  /\ \A g \in Groups : cursor[g] <= Len(stream)
  /\ applied \in [Groups -> [Events -> Nat]]
  /\ pass \in [Readers -> PassType]

\* The messages of a pass whose handler has not committed.
LeftOf(p) == { p.batch[j] : j \in (IF p.pc = "handle" THEN 1 ELSE 2) .. Len(p.batch) }

\* A pass has messages that its group was given, each of them once.
Passes(p) ==
  /\ p.pc = "idle" => p.batch = << >>
  /\ p.pc # "idle" =>
       /\ p.group \in Groups /\ p.batch # << >>
       /\ \A j \in 1 .. Len(p.batch) : p.batch[j] \in 1 .. cursor[p.group]
       /\ \A i, j \in 1 .. Len(p.batch) : p.batch[i] = p.batch[j] => i = j

PassesHold == \A r \in Readers : Passes(pass[r])

\* No message is given to two passes of a group.
Apart == \A r, q \in Readers :
           r # q /\ pass[r].group = pass[q].group => LeftOf(pass[r]) \cap LeftOf(pass[q]) = {}

Waiting(g) == UNION { LeftOf(pass[r]) : r \in { q \in Readers : pass[q].group = g } }

\* The messages about e that a group is done with.
Passed(g, e) == { i \in (1 .. cursor[g]) \ Waiting(g) : stream[i] = e }

HandledOnce == \A g \in Groups, e \in Events : applied[g][e] <= Cardinality(Passed(g, e))

ReadInv == PassesTyped /\ PassesHold /\ Apart /\ HandledOnce

LEMMA PassedFinite ==
  ASSUME PassesTyped, stream \in Seq(Events), NEW g \in Groups, NEW e \in Events
  PROVE  /\ IsFiniteSet(Passed(g, e)) /\ Cardinality(Passed(g, e)) \in Nat
         /\ Passed(g, e) \subseteq { i \in 1 .. Len(stream) : stream[i] = e }
<1>1. IsFiniteSet(1 .. cursor[g])
  BY FS_Interval DEF PassesTyped
<1>2. Passed(g, e) \in SUBSET (1 .. cursor[g])
  BY DEF Passed
<1>3. IsFiniteSet(Passed(g, e))
  BY <1>1, <1>2, FS_Subset
<1>4. cursor[g] \in Nat /\ cursor[g] <= Len(stream) /\ Len(stream) \in Nat
  BY DEF PassesTyped
<1> QED BY <1>3, <1>4, FS_CardinalityType DEF Passed

\* A pass that goes on has fewer messages left, and its group is done with more.
LEMMA PassShrinks ==
  ASSUME ReadInv, stream \in Seq(Events), NEW r \in Readers, NEW p \in PassType,
         pass' = [pass EXCEPT ![r] = p], Passes(p), LeftOf(p) \subseteq LeftOf(pass[r]),
         p.group = pass[r].group \/ LeftOf(p) = {}, UNCHANGED << cursor, stream >>
  PROVE  /\ pass' \in [Readers -> PassType] /\ PassesHold' /\ Apart'
         /\ \A g \in Groups : Waiting(g)' \subseteq Waiting(g)
         /\ \A g \in Groups, e \in Events :
              /\ Passed(g, e) \subseteq Passed(g, e)' /\ IsFiniteSet(Passed(g, e)')
              /\ Cardinality(Passed(g, e)) <= Cardinality(Passed(g, e)')
<1> USE DEF ReadInv
<1>1. /\ pass' \in [Readers -> PassType] /\ pass'[r] = p
      /\ \A q \in Readers \ { r } : pass'[q] = pass[q]
  BY DEF PassesTyped
<1>2. PassesHold'
  BY <1>1 DEF PassesHold, Passes
<1>3. Apart'
  <2> SUFFICES ASSUME NEW c \in Readers, NEW q \in Readers, c # q,
                      pass'[c].group = pass'[q].group
               PROVE  LeftOf(pass'[c]) \cap LeftOf(pass'[q]) = {}
    BY DEF Apart, LeftOf
  <2>1. CASE c = r
    BY <1>1, <2>1 DEF Apart
  <2>2. CASE q = r
    BY <1>1, <2>2 DEF Apart
  <2>3. CASE c # r /\ q # r
    BY <1>1, <2>3 DEF Apart
  <2> QED BY <2>1, <2>2, <2>3
<1>4. ASSUME NEW g \in Groups PROVE Waiting(g)' \subseteq Waiting(g)
  <2>1. ASSUME NEW q \in Readers, pass'[q].group = g
        PROVE  LeftOf(pass'[q]) \subseteq Waiting(g)
    <3>1. CASE q = r
      BY <1>1, <2>1, <3>1 DEF Waiting
    <3>2. CASE q # r
      BY <1>1, <2>1, <3>2 DEF Waiting
    <3> QED BY <3>1, <3>2
  <2>2. Waiting(g)' = UNION { LeftOf(pass'[c]) : c \in { q \in Readers : pass'[q].group = g } }
    BY DEF Waiting, LeftOf
  <2> QED BY <2>1, <2>2
<1>5. ASSUME NEW g \in Groups, NEW e \in Events
      PROVE  /\ Passed(g, e) \subseteq Passed(g, e)' /\ IsFiniteSet(Passed(g, e)')
             /\ Cardinality(Passed(g, e)) <= Cardinality(Passed(g, e)')
  <2>1. Passed(g, e) \subseteq Passed(g, e)'
    BY <1>4 DEF Passed
  <2>2. IsFiniteSet(1 .. cursor[g]) /\ Passed(g, e)' \in SUBSET (1 .. cursor[g])
    BY FS_Interval DEF Passed, PassesTyped
  <2>3. IsFiniteSet(Passed(g, e)')
    BY <2>2, FS_Subset
  <2> QED BY <2>1, <2>3, FS_Subset
<1> QED BY <1>1, <1>2, <1>3, <1>4, <1>5

\* The next message of a pass, or its end.
LEMMA NextPass ==
  ASSUME ReadInv, NEW r \in Readers, pass[r].pc # "idle", NextMessage(r)
  PROVE  \E p \in PassType :
           /\ pass' = [pass EXCEPT ![r] = p] /\ Passes(p)
           /\ LeftOf(p) \subseteq LeftOf(pass[r])
           /\ p.group = pass[r].group \/ LeftOf(p) = {}
<1> USE DEF ReadInv
<1> DEFINE old == pass[r]
<1>1. old \in PassType /\ Passes(old)
  BY DEF PassesTyped, PassesHold
<1>2. CASE Len(old.batch) > 1
  <2> DEFINE p == [old EXCEPT !.pc = "handle", !.batch = Tail(old.batch)]
  <2>1. pass' = [pass EXCEPT ![r] = p]
    BY <1>2 DEF NextMessage
  <2>2. /\ Tail(old.batch) \in Seq(Nat) /\ Len(Tail(old.batch)) = Len(old.batch) - 1
        /\ Len(old.batch) \in Nat
        /\ \A j \in 1 .. Len(Tail(old.batch)) : Tail(old.batch)[j] = old.batch[j + 1]
    BY <1>1, <1>2 DEF PassType
  <2>3. /\ p \in PassType /\ p.pc = "handle" /\ p.group = old.group
        /\ p.batch = Tail(old.batch)
    BY <1>1, <2>2 DEF PassType
  <2> HIDE DEF p
  <2>4. Len(p.batch) = Len(old.batch) - 1 /\ \A j \in 1 .. Len(p.batch) : p.batch[j] = old.batch[j + 1]
    BY <2>2, <2>3
  <2>5. p.batch # << >>
    BY SMTT(30), <1>2, <2>2, <2>3, <2>4 DEF PassType
  <2>6. \A j \in 1 .. Len(p.batch) : j + 1 \in 2 .. Len(old.batch)
    BY <2>2, <2>4
  <2>7. Passes(p)
    BY <1>1, <2>2, <2>3, <2>4, <2>5, <2>6 DEF Passes
  <2>8. LeftOf(p) \subseteq LeftOf(old)
    <3> SUFFICES ASSUME NEW j \in 1 .. Len(p.batch) PROVE p.batch[j] \in LeftOf(old)
      BY <2>3 DEF LeftOf
    <3>1. j + 1 \in (IF old.pc = "handle" THEN 1 ELSE 2) .. Len(old.batch)
      BY <2>2, <2>6
    <3> QED BY <2>4, <3>1 DEF LeftOf
  <2> QED BY <2>1, <2>3, <2>7, <2>8
<1>3. CASE ~ (Len(old.batch) > 1)
  <2>1. pass' = [pass EXCEPT ![r] = Unread]
    BY <1>3 DEF NextMessage
  <2>2. Unread \in PassType /\ Passes(Unread) /\ LeftOf(Unread) = {}
    BY DEF Unread, PassType, Passes, LeftOf
  <2> QED BY <2>1, <2>2
<1> QED BY <1>2, <1>3

-----------------------------------------------------------------------------
(* One lemma for each step of a pass, and one for the steps of the outbox.   *)

LEMMA ReadInit == Init => ReadInv
<1> SUFFICES ASSUME Init PROVE ReadInv
  OBVIOUS
<1>1. Unread \in PassType /\ Passes(Unread) /\ LeftOf(Unread) = {}
  BY DEF Unread, PassType, Passes, LeftOf
<1>2. PassesTyped /\ stream \in Seq(Events)
  BY <1>1 DEF Init, PassesTyped
<1>3. PassesHold /\ Apart
  BY <1>1 DEF Init, PassesHold, Apart
<1>4. HandledOnce
  <2> SUFFICES ASSUME NEW g \in Groups, NEW e \in Events
               PROVE  applied[g][e] <= Cardinality(Passed(g, e))
    BY DEF HandledOnce
  <2>1. applied[g][e] = 0 /\ Cardinality(Passed(g, e)) \in Nat
    BY <1>2, PassedFinite DEF Init
  <2> QED BY <2>1
<1> QED BY <1>2, <1>3, <1>4 DEF ReadInv

LEMMA StreamGrows ==
  ASSUME ReadInv, stream \in Seq(Events), UNCHANGED << cursor, pass, applied >>,
         \/ stream' = stream
         \/ \E x \in Events : stream' = Append(stream, x)
  PROVE  ReadInv'
<1> USE DEF ReadInv
<1>1. /\ stream' \in Seq(Events) /\ Len(stream') >= Len(stream)
      /\ Len(stream) \in Nat /\ Len(stream') \in Nat
      /\ \A i \in 1 .. Len(stream) : stream'[i] = stream[i]
  OBVIOUS
<1>2. PassesTyped'
  BY <1>1 DEF PassesTyped
<1>3. PassesHold' /\ Apart'
  <2>1. PassesHold'
    BY DEF PassesHold, Passes
  <2>2. Apart'
    <3>1. pass' = pass
      OBVIOUS
    <3> QED BY <3>1 DEF Apart
  <2> QED BY <2>1, <2>2
<1>4. HandledOnce'
  <2> SUFFICES ASSUME NEW g \in Groups, NEW e \in Events
               PROVE  Passed(g, e)' = Passed(g, e)
    BY DEF HandledOnce
  <2>1. Waiting(g)' = Waiting(g)
    BY DEF Waiting, LeftOf
  <2>2. \A i \in 1 .. cursor[g] : stream'[i] = stream[i]
    BY <1>1 DEF PassesTyped
  <2> QED BY <2>1, <2>2 DEF Passed
<1> QED BY <1>2, <1>3, <1>4

\* A pass that moves on without applying anything.
LEMMA MovesOn ==
  ASSUME ReadInv, stream \in Seq(Events), NEW r \in Readers, NEW p \in PassType,
         pass' = [pass EXCEPT ![r] = p], Passes(p), LeftOf(p) \subseteq LeftOf(pass[r]),
         p.group = pass[r].group \/ LeftOf(p) = {}, UNCHANGED << cursor, stream, applied >>
  PROVE  ReadInv'
<1>1. /\ pass' \in [Readers -> PassType] /\ PassesHold' /\ Apart'
      /\ \A g \in Groups, e \in Events :
           /\ IsFiniteSet(Passed(g, e)')
           /\ Cardinality(Passed(g, e)) <= Cardinality(Passed(g, e)')
  BY PassShrinks
<1>2. PassesTyped'
  BY <1>1 DEF ReadInv, PassesTyped
<1>3. HandledOnce'
  <2> SUFFICES ASSUME NEW g \in Groups, NEW e \in Events
               PROVE  applied[g][e] <= Cardinality(Passed(g, e)')
    BY DEF HandledOnce
  <2>1. applied[g][e] \in Nat /\ Cardinality(Passed(g, e)) \in Nat
        /\ applied[g][e] <= Cardinality(Passed(g, e))
    BY PassedFinite DEF ReadInv, PassesTyped, HandledOnce
  <2>2. Cardinality(Passed(g, e)') \in Nat
    BY <1>1, FS_CardinalityType
  <2> QED BY <1>1, <2>1, <2>2
<1> QED BY <1>1, <1>2, <1>3 DEF ReadInv

\* What a pass handles is on the stream, and its group is not done with it.
LEMMA NotPassed ==
  ASSUME ReadInv, stream \in Seq(Events), NEW r \in Readers, pass[r].pc = "handle"
  PROVE  LET g == pass[r].group
             i == Head(pass[r].batch)
         IN  /\ g \in Groups /\ i \in 1 .. cursor[g] /\ i \in 1 .. Len(stream)
             /\ stream[i] \in Events
             /\ i \in LeftOf(pass[r])
             /\ i \notin Passed(g, stream[i])
<1> USE DEF ReadInv
<1> DEFINE g == pass[r].group
           i == Head(pass[r].batch)
<1>1. pass[r] \in PassType /\ Passes(pass[r])
  BY DEF PassesTyped, PassesHold
<1>2. g \in Groups /\ pass[r].batch # << >> /\ pass[r].batch \in Seq(Nat)
  BY <1>1 DEF Passes, PassType
<1>3. 1 \in 1 .. Len(pass[r].batch) /\ i = pass[r].batch[1]
  BY <1>2
<1>4. i \in 1 .. cursor[g] /\ i \in LeftOf(pass[r])
  BY <1>1, <1>3 DEF Passes, LeftOf
<1>5. i \in 1 .. Len(stream)
  <2>1. cursor[g] \in Nat /\ cursor[g] <= Len(stream) /\ Len(stream) \in Nat
    BY <1>2 DEF PassesTyped
  <2> QED BY <1>4, <2>1
<1>6. i \in Waiting(g)
  BY <1>4 DEF Waiting
<1> QED BY <1>2, <1>4, <1>5, <1>6 DEF Passed

LEMMA ApplyStep ==
  ASSUME ReadInv, stream \in Seq(Events), NEW r \in Readers, Apply(r)
  PROVE  LET g == pass[r].group
             e == stream[Head(pass[r].batch)]
         IN  /\ ReadInv' /\ g \in Groups /\ e \in Events /\ applied[g][e] < Copies(e)
<1> USE DEF ReadInv
<1> DEFINE p == [pass[r] EXCEPT !.pc = "ack"]
<1>0. PICK g, i, e : g = pass[r].group /\ i = Head(pass[r].batch) /\ e = stream[i]
  OBVIOUS
<1>1. /\ pass[r].pc = "handle" /\ pass' = [pass EXCEPT ![r] = p]
      /\ applied' = [applied EXCEPT ![g][e] = @ + 1]
      /\ UNCHANGED << cursor, stream >>
  BY <1>0 DEF Apply
<1>2. /\ g \in Groups /\ i \in 1 .. cursor[g] /\ i \in 1 .. Len(stream) /\ e \in Events
      /\ i \in LeftOf(pass[r]) /\ i \notin Passed(g, e)
  BY <1>0, <1>1, NotPassed
<1>3. pass[r] \in PassType /\ Passes(pass[r])
  BY DEF PassesTyped, PassesHold
<1>4. p \in PassType /\ p.pc = "ack" /\ p.group = g /\ p.batch = pass[r].batch
  BY <1>0, <1>3 DEF PassType
<1>5. LeftOf(p) \subseteq LeftOf(pass[r]) /\ i \notin LeftOf(p)
  <2>1. pass[r].batch # << >> /\ pass[r].batch \in Seq(Nat)
    BY <1>1, <1>3 DEF Passes, PassType
  <2>2. 1 \in 1 .. Len(pass[r].batch) /\ i = pass[r].batch[1]
    BY <1>0, <2>1
  <2>3. \A j \in 2 .. Len(pass[r].batch) : j \in 1 .. Len(pass[r].batch) /\ j # 1
    BY <2>1
  <2>4. \A j \in 2 .. Len(pass[r].batch) : pass[r].batch[j] # i
    BY <1>1, <1>3, <2>2, <2>3 DEF Passes
  <2> QED BY <1>1, <1>4, <2>3, <2>4 DEF LeftOf
<1>6. Passes(p)
  BY <1>0, <1>1, <1>3, <1>4 DEF Passes
<1> HIDE DEF p
<1>7. /\ pass' \in [Readers -> PassType] /\ PassesHold' /\ Apart'
      /\ \A h \in Groups : Waiting(h)' \subseteq Waiting(h)
      /\ \A h \in Groups, x \in Events :
           /\ Passed(h, x) \subseteq Passed(h, x)' /\ IsFiniteSet(Passed(h, x)')
           /\ Cardinality(Passed(h, x)) <= Cardinality(Passed(h, x)')
  BY <1>0, <1>1, <1>4, <1>5, <1>6, PassShrinks
<1>8. /\ applied' \in [Groups -> [Events -> Nat]]
      /\ applied'[g][e] = applied[g][e] + 1
      /\ \A h \in Groups, x \in Events : h # g \/ x # e => applied'[h][x] = applied[h][x]
  BY <1>1, <1>2 DEF PassesTyped
<1>9. i \in Passed(g, e)'
  <2>1. \A q \in Readers : pass'[q].group = g => i \notin LeftOf(pass'[q])
    <3> TAKE q \in Readers
    <3>1. CASE q = r
      BY <1>1, <1>5, <3>1 DEF PassesTyped
    <3>2. CASE q # r
      <4>1. pass'[q] = pass[q]
        BY <1>1, <3>2 DEF PassesTyped
      <4> QED BY <1>0, <1>2, <3>2, <4>1 DEF Apart
    <3> QED BY <3>1, <3>2
  <2>2. Waiting(g)' = UNION { LeftOf(pass'[c]) : c \in { q \in Readers : pass'[q].group = g } }
    BY DEF Waiting, LeftOf
  <2>3. i \notin Waiting(g)'
    BY <2>1, <2>2
  <2> QED BY <1>0, <1>1, <1>2, <2>3 DEF Passed
<1>10. \A h \in Groups, x \in Events :
         /\ applied[h][x] \in Nat /\ Cardinality(Passed(h, x)) \in Nat
         /\ applied[h][x] <= Cardinality(Passed(h, x)) /\ Cardinality(Passed(h, x)') \in Nat
  <2> TAKE h \in Groups, x \in Events
  <2>1. Cardinality(Passed(h, x)) \in Nat
    BY PassedFinite
  <2>2. Cardinality(Passed(h, x)') \in Nat
    BY <1>7, FS_CardinalityType
  <2> QED BY <2>1, <2>2 DEF PassesTyped, HandledOnce
<1>11. HandledOnce'
  <2> SUFFICES ASSUME NEW h \in Groups, NEW x \in Events
               PROVE  applied'[h][x] <= Cardinality(Passed(h, x)')
    BY DEF HandledOnce
  <2>1. CASE h = g /\ x = e
    <3>1. IsFiniteSet(Passed(g, e)) /\ IsFiniteSet(Passed(g, e)')
      BY <1>2, <1>7, PassedFinite
    <3>2. Cardinality(Passed(g, e) \cup { i }) = Cardinality(Passed(g, e)) + 1
      BY <1>2, <3>1, FS_AddElement
    <3>3. Passed(g, e) \cup { i } \subseteq Passed(g, e)'
      BY <1>2, <1>7, <1>9
    <3>4. Cardinality(Passed(g, e) \cup { i }) <= Cardinality(Passed(g, e)')
      BY <3>1, <3>3, FS_Subset
    <3> QED BY SMTT(30), <1>2, <1>8, <1>10, <2>1, <3>2, <3>4
  <2>2. CASE h # g \/ x # e
    <3>1. applied'[h][x] = applied[h][x]
      BY <1>8, <2>2
    <3>2. Cardinality(Passed(h, x)) <= Cardinality(Passed(h, x)')
      BY <1>7
    <3> QED BY <1>10, <3>1, <3>2
  <2> QED BY <2>1, <2>2
<1>12. PassesTyped'
  BY <1>1, <1>7, <1>8 DEF PassesTyped
<1>13. applied[g][e] < Copies(e)
  <2> DEFINE all == { j \in 1 .. Len(stream) : stream[j] = e }
  <2>1. IsFiniteSet(all) /\ Copies(e) = Cardinality(all) /\ Copies(e) \in Nat
    BY <1>2, CopiesType DEF Copies
  <2>2. IsFiniteSet(Passed(g, e)) /\ Passed(g, e) \subseteq all
    BY <1>2, PassedFinite
  <2>3. i \in all
    BY <1>0, <1>2
  <2>4. Cardinality(Passed(g, e) \cup { i }) = Cardinality(Passed(g, e)) + 1
    BY <1>2, <2>2, FS_AddElement
  <2>5. Cardinality(Passed(g, e) \cup { i }) <= Cardinality(all)
    BY <2>1, <2>2, <2>3, FS_Subset
  <2> QED BY <1>2, <1>10, <2>1, <2>4, <2>5
<1> QED BY <1>0, <1>2, <1>7, <1>11, <1>12, <1>13

LEMMA ReadingStep ==
  ASSUME ReadInv, OutboxTyped, NEW r \in Readers, NEW g \in Groups, Read(r, g)
  PROVE  ReadInv'
<1> USE DEF ReadInv
<1>1. PICK a \in Nat, n \in Nat : a = Given(g) /\ n = AtMostBatch(Len(stream) - Given(g))
                                   /\ n > 0 /\ cursor[g] <= a /\ a + n <= Len(stream)
  <2>1. /\ cursor[g] \in Nat /\ trimmed \in Nat /\ Len(stream) \in Nat /\ Batch \in Nat
        /\ cursor[g] <= Len(stream) /\ trimmed <= Len(stream)
        /\ AtMostBatch(Len(stream) - Given(g)) > 0
    BY DEF Read, PassesTyped, OutboxTyped, BusAssumption
  <2>2. Given(g) \in Nat /\ cursor[g] <= Given(g) /\ Given(g) <= Len(stream)
    BY <2>1 DEF Given
  <2>3. /\ AtMostBatch(Len(stream) - Given(g)) \in Nat
        /\ AtMostBatch(Len(stream) - Given(g)) <= Len(stream) - Given(g)
    BY <2>1, <2>2 DEF AtMostBatch
  <2> QED BY <2>1, <2>2, <2>3
<1>0. PICK p : p = [pc |-> "handle", group |-> g, batch |-> [i \in 1 .. n |-> a + i]]
  OBVIOUS
<1>2. /\ pass[r].pc = "idle" /\ pass' = [pass EXCEPT ![r] = p]
      /\ cursor' = [cursor EXCEPT ![g] = a + n]
      /\ UNCHANGED << stream, applied >>
  BY <1>0, <1>1 DEF Read
<1>3. p.batch \in Seq(Nat) /\ Len(p.batch) = n /\ \A j \in 1 .. n : p.batch[j] = a + j
  BY <1>0, <1>1
<1>4. p \in PassType /\ p.pc = "handle" /\ p.group = g
  BY <1>0, <1>3 DEF PassType
<1>5. /\ pass' \in [Readers -> PassType] /\ pass'[r] = p
      /\ \A q \in Readers \ { r } : pass'[q] = pass[q]
      /\ cursor' \in [Groups -> Nat] /\ cursor'[g] = a + n
      /\ \A h \in Groups \ { g } : cursor'[h] = cursor[h]
  BY <1>1, <1>2, <1>4 DEF PassesTyped
<1>6. \A h \in Groups : cursor[h] \in Nat /\ cursor'[h] \in Nat /\ cursor[h] <= cursor'[h]
  <2> TAKE h \in Groups
  <2>1. CASE h = g
    BY <1>1, <1>5, <2>1 DEF PassesTyped
  <2>2. CASE h # g
    BY <1>5, <2>2 DEF PassesTyped
  <2> QED BY <2>1, <2>2
<1>7. PassesTyped'
  BY <1>1, <1>2, <1>5 DEF PassesTyped
<1>8. Passes(p)'
  <2>1. p.batch # << >>
    BY <1>1, <1>3, NotNothing
  <2>2. \A j \in 1 .. Len(p.batch) : p.batch[j] \in 1 .. cursor'[g]
    <3> TAKE j \in 1 .. Len(p.batch)
    <3>1. j \in 1 .. n /\ p.batch[j] = a + j
      BY <1>3
    <3>2. a + j \in 1 .. (a + n)
      BY <1>1, <3>1
    <3> QED BY <1>5, <3>1, <3>2
  <2>3. \A i, j \in 1 .. Len(p.batch) : p.batch[i] = p.batch[j] => i = j
    <3> TAKE i, j \in 1 .. Len(p.batch)
    <3>1. i \in Int /\ j \in Int /\ p.batch[i] = a + i /\ p.batch[j] = a + j
      BY <1>3
    <3> QED BY <1>1, <3>1
  <2> QED BY <1>4, <2>1, <2>2, <2>3 DEF Passes
<1>9. PassesHold'
  <2> SUFFICES ASSUME NEW q \in Readers PROVE Passes(pass[q])'
    BY DEF PassesHold
  <2>1. CASE q = r
    BY <1>5, <1>8, <2>1 DEF Passes
  <2>2. CASE q # r
    <3>1. pass'[q] = pass[q] /\ Passes(pass[q])
      BY <1>5, <2>2 DEF PassesHold
    <3>2. pass[q].pc # "idle" => \A j \in 1 .. Len(pass[q].batch) :
                                   pass[q].batch[j] \in 1 .. cursor'[pass[q].group]
      BY <1>6, <3>1 DEF Passes
    <3> QED BY <3>1, <3>2 DEF Passes
  <2> QED BY <2>1, <2>2
<1>10. LeftOf(pass[r]) = {}
  <2>1. pass[r].batch = << >>
    BY <1>2 DEF PassesHold, Passes
  <2> QED BY <1>2, <2>1 DEF LeftOf
<1>11. \A i \in LeftOf(p) : i > a
  <2> SUFFICES ASSUME NEW j \in 1 .. n PROVE a + j > a
    BY ONLY <1>3, <1>4, SMTT(30) DEF LeftOf
  <2> QED BY ONLY <1>1
<1>12. \A q \in Readers : pass[q].group = g => \A i \in LeftOf(pass[q]) : i \in 1 .. cursor[g]
  <2> SUFFICES ASSUME NEW q \in Readers, pass[q].group = g, NEW i \in LeftOf(pass[q])
               PROVE  i \in 1 .. cursor[g]
    OBVIOUS
  <2>1. Passes(pass[q]) /\ pass[q] \in PassType
    BY DEF PassesHold, PassesTyped
  <2>2. PICK j \in 1 .. Len(pass[q].batch) : i = pass[q].batch[j]
    BY <2>1 DEF LeftOf, PassType
  <2>3. pass[q].pc # "idle"
    BY <2>1, <2>2 DEF Passes
  <2> QED BY <2>1, <2>2, <2>3 DEF Passes
<1>13. Apart'
  <2> SUFFICES ASSUME NEW c \in Readers, NEW q \in Readers, c # q,
                      pass'[c].group = pass'[q].group
               PROVE  LeftOf(pass'[c]) \cap LeftOf(pass'[q]) = {}
    BY DEF Apart
  <2>1. ASSUME NEW x \in Readers, x # r, pass'[x].group = g
        PROVE  LeftOf(pass'[x]) \cap LeftOf(p) = {}
    <3>1. \A i \in LeftOf(pass[x]) : i \in 1 .. cursor[g]
      BY <1>5, <1>12, <2>1
    <3> QED BY <1>1, <1>5, <1>6, <1>11, <2>1, <3>1
  <2>2. CASE c = r
    BY <1>4, <1>5, <2>1, <2>2
  <2>3. CASE q = r
    BY <1>4, <1>5, <2>1, <2>3
  <2>4. CASE c # r /\ q # r
    BY <1>5, <2>4 DEF Apart
  <2> QED BY <2>2, <2>3, <2>4
<1>14. HandledOnce'
  <2> SUFFICES ASSUME NEW h \in Groups, NEW e \in Events
               PROVE  applied[h][e] <= Cardinality(Passed(h, e)')
    BY <1>2 DEF HandledOnce
  <2>1. ASSUME NEW i \in Passed(h, e), i \in Waiting(h)' PROVE FALSE
    <3>1. Waiting(h)' = UNION { LeftOf(pass'[c]) : c \in { q \in Readers : pass'[q].group = h } }
      BY DEF Waiting
    <3>2. PICK q \in Readers : pass'[q].group = h /\ i \in LeftOf(pass'[q])
      BY <2>1, <3>1
    <3>3. i \in 1 .. cursor[h] /\ i \notin Waiting(h)
      BY DEF Passed
    <3>4. CASE q = r
      BY <1>1, <1>4, <1>5, <1>6, <1>11, <3>2, <3>3, <3>4
    <3>5. CASE q # r
      BY <1>5, <3>2, <3>3, <3>5 DEF Waiting
    <3> QED BY <3>4, <3>5
  <2>2. \A i \in 1 .. cursor[h] : i \in 1 .. cursor'[h]
    BY <1>6
  <2>3. Passed(h, e) \subseteq Passed(h, e)'
    BY <1>2, <2>1, <2>2 DEF Passed
  <2>4. IsFiniteSet(1 .. cursor'[h]) /\ Passed(h, e)' \in SUBSET (1 .. cursor'[h])
    <3>1. Passed(h, e)' \in SUBSET (1 .. cursor'[h])
      BY DEF Passed
    <3>2. cursor'[h] \in Int /\ 1 \in Int
      BY <1>6
    <3> QED BY <3>1, <3>2, FS_Interval
  <2>5. IsFiniteSet(Passed(h, e)')
    BY <2>4, FS_Subset
  <2>6. Cardinality(Passed(h, e)) <= Cardinality(Passed(h, e)') /\ Cardinality(Passed(h, e)') \in Nat
    BY <2>3, <2>5, FS_Subset, FS_CardinalityType
  <2>7. applied[h][e] \in Nat /\ Cardinality(Passed(h, e)) \in Nat
        /\ applied[h][e] <= Cardinality(Passed(h, e))
    BY PassedFinite DEF PassesTyped, HandledOnce, OutboxTyped
  <2> QED BY <2>6, <2>7
<1> QED BY <1>7, <1>9, <1>13, <1>14

LEMMA ReadStep ==
  ASSUME OutboxInv, ReadInv, [Next]_vars
  PROVE  ReadInv'
<1>1. stream \in Seq(Events) /\ OutboxTyped
  BY DEF OutboxInv, OutboxTyped
<1>2. ASSUME UNCHANGED << cursor, pass, applied, stream >> PROVE ReadInv'
  BY <1>1, <1>2, StreamGrows
<1>3. ASSUME NEW e \in Events, Commit(e) PROVE ReadInv'
  BY <1>2, <1>3 DEF Commit, reading
<1>4. ASSUME NEW d \in Drainers, Draining(d) \/ DrainerDies(d) PROVE ReadInv'
  <2>1. ASSUME drain[d].pc = "publish", Add(Row(d)), UNCHANGED reading PROVE ReadInv'
    <3>1. Row(d) \in Events
      BY <1>1, <2>1, RestTyped DEF OutboxInv, DrainersHold
    <3>2. stream' = Append(stream, Row(d))
      BY <1>1, <2>1, <3>1, AddTyped
    <3> QED BY <1>1, <2>1, <3>1, <3>2, StreamGrows DEF reading
  <2>2. CASE Publish(d)
    BY <2>1, <2>2 DEF Publish, Row
  <2>3. CASE PublishFails(d)
    BY <1>2, <2>1, <2>3 DEF PublishFails, Row, reading
  <2>4. CASE (\E S \in SUBSET Events : Select(d, S)) \/ Lock(d) \/ MarkPublished(d) \/ DrainerDies(d)
    BY <1>2, <2>4 DEF Select, Lock, MarkPublished, DrainerDies, reading
  <2> QED BY <1>4, <2>2, <2>3, <2>4 DEF Draining
<1>5. ASSUME NEW r \in Readers, NEW g \in Groups, Read(r, g) PROVE ReadInv'
  BY <1>1, <1>5, ReadingStep
<1>6. ASSUME NEW r \in Readers, Handling(r) PROVE ReadInv'
  <2>1. CASE Apply(r)
    BY <1>1, <2>1, ApplyStep
  <2>2. CASE Ack(r) \/ HandlerFails(r)
    <3>1. pass[r].pc # "idle" /\ NextMessage(r) /\ UNCHANGED << cursor, stream, applied >>
      BY <2>2 DEF Ack, HandlerFails
    <3> QED BY <1>1, <3>1, NextPass, MovesOn
  <2> QED BY <1>6, <2>1, <2>2 DEF Handling
<1>7. ASSUME NEW r \in Readers, ReaderDies(r) PROVE ReadInv'
  <2>1. Unread \in PassType /\ Passes(Unread) /\ LeftOf(Unread) = {}
    BY DEF Unread, PassType, Passes, LeftOf
  <2>2. pass' = [pass EXCEPT ![r] = Unread] /\ UNCHANGED << cursor, stream, applied >>
    BY <1>7 DEF ReaderDies
  <2> QED BY <1>1, <2>1, <2>2, MovesOn
<1>8. CASE UNCHANGED vars
  BY <1>2, <1>8 DEF vars, reading
<1> QED BY <1>3, <1>4, <1>5, <1>6, <1>7, <1>8 DEF Next

THEOREM BusAlways == Spec => [](OutboxInv /\ ReadInv)
<1>1. Init => OutboxInv /\ ReadInv
  BY OutboxInit, ReadInit
<1>2. OutboxInv /\ ReadInv /\ [Next]_vars => (OutboxInv /\ ReadInv)'
  BY OutboxStep, ReadStep
<1> QED BY <1>1, <1>2, PTL DEF Spec

(***************************************************************************)
(* The channel                                                             *)
(***************************************************************************)

\* Events that are not sent leave the counts alone, and so does a stutter.
LEMMA Stutters ==
  ASSUME UNCHANGED << row, stream, applied >>
  PROVE  UNCHANGED << Committed, Sent, applied >>
BY DEF Committed, Sent, Copies

LEMMA SendingSends ==
  ASSUME OutboxInv, NEW e \in Events, row[e] # "none", stream' = Append(stream, e),
         Committed' = Committed, applied' = applied
  PROVE  Channels!SendIt(e)
<1>1. \A x \in Events : Copies(x)' = IF x = e THEN Copies(x) + 1 ELSE Copies(x)
  BY CopiesAppend DEF OutboxInv, OutboxTyped
<1>2. Sent' = [x \in Events |-> IF x = e THEN Copies(x) + 1 ELSE Copies(x)]
  BY <1>1 DEF Sent
<1>3. [Sent EXCEPT ![e] = @ + 1] = [x \in Events |-> IF x = e THEN Copies(x) + 1 ELSE Copies(x)]
  BY DEF Sent
<1> QED BY <1>2, <1>3 DEF Channels!SendIt, Committed

LEMMA InitRefines == Init => Channels!Init
<1> SUFFICES ASSUME Init PROVE Channels!Init
  OBVIOUS
<1>1. Committed = {}
  BY DEF Init, Committed
<1>2. ASSUME NEW e \in Events PROVE Copies(e) = 0
  <2>1. { i \in 1 .. Len(stream) : stream[i] = e } = {}
    BY DEF Init
  <2> QED BY <2>1, FS_EmptySet DEF Copies
<1> QED BY <1>1, <1>2 DEF Init, Sent, Channels!Init

LEMMA StepRefines ==
  ASSUME OutboxInv, ReadInv, [Next]_vars
  PROVE  [Channels!Next]_<< Committed, Sent, applied >>
<1>1. stream \in Seq(Events) /\ OutboxTyped
  BY DEF OutboxInv, OutboxTyped
<1>2. ASSUME NEW e \in Events, Commit(e) PROVE Channels!Next
  <2>1. e \notin Committed /\ Committed' = Committed \cup { e }
    BY <1>1, <1>2 DEF Commit, Committed, OutboxTyped
  <2>2. UNCHANGED << Sent, applied >>
    BY <1>2 DEF Commit, reading, Sent, Copies
  <2> QED BY <2>1, <2>2 DEF Channels!Commit, Channels!Next
<1>3. ASSUME NEW d \in Drainers, drain[d].pc = "publish", Add(Row(d)),
             Committed' = Committed, applied' = applied
      PROVE  Channels!Next
  <2>1. Row(d) \in Events /\ row[Row(d)] # "none"
    BY <1>1, <1>3, RestTyped DEF OutboxInv, DrainersHold, Locking
  <2>2. stream' = Append(stream, Row(d))
    BY <1>1, <1>3, <2>1, AddTyped
  <2> QED BY <1>3, <2>1, <2>2, SendingSends DEF Channels!Next
<1>4. ASSUME NEW d \in Drainers, Draining(d) \/ DrainerDies(d)
      PROVE  [Channels!Next]_<< Committed, Sent, applied >>
  <2>1. CASE Publish(d)
    BY <1>3, <2>1 DEF Publish, Row, Committed, reading
  <2>2. ASSUME Locking(d), NEW s \in { "PENDING", "PUBLISHED", "FAILED" },
               row' = [row EXCEPT ![Row(d)] = s]
        PROVE  Committed' = Committed
    BY <1>1, <2>2 DEF Committed, OutboxInv, OutboxTyped, DrainersHold
  <2>3. CASE PublishFails(d)
    <3>1. /\ drain[d].pc = "publish" /\ Locking(d) /\ applied' = applied
          /\ row' = [row EXCEPT ![Row(d)] = IF attempts'[Row(d)] >= MaxAttempts
                                              THEN "FAILED" ELSE @]
          /\ Add(Row(d)) \/ UNCHANGED << stream, trimmed >>
      BY <2>3 DEF PublishFails, Row, Locking, reading
    <3>2. row[Row(d)] = "PENDING"
      BY <3>1 DEF OutboxInv, DrainersHold
    <3>3. Committed' = Committed
      BY <2>2, <3>1, <3>2
    <3>4. CASE UNCHANGED << stream, trimmed >>
      BY <3>1, <3>3, <3>4 DEF Sent, Copies
    <3> QED BY <1>3, <3>1, <3>3, <3>4
  <2>4. CASE MarkPublished(d)
    <3>1. Committed' = Committed
      BY <2>2, <2>4 DEF MarkPublished, Row, Locking
    <3>2. UNCHANGED << Sent, applied >>
      BY <2>4 DEF MarkPublished, reading, Sent, Copies
    <3> QED BY <3>1, <3>2
  <2>5. CASE (\E S \in SUBSET Events : Select(d, S)) \/ Lock(d) \/ DrainerDies(d)
    BY <2>5, Stutters DEF Select, Lock, DrainerDies, reading
  <2> QED BY <1>4, <2>1, <2>3, <2>4, <2>5 DEF Draining
<1>5. ASSUME NEW r \in Readers, Apply(r) PROVE Channels!Next
  <2>1. PICK g \in Groups, e \in Events :
           g = pass[r].group /\ e = stream[Head(pass[r].batch)] /\ applied[g][e] < Copies(e)
    BY <1>1, <1>5, ApplyStep
  <2>2. applied' = [applied EXCEPT ![g][e] = @ + 1] /\ UNCHANGED << Committed, Sent >>
    BY <1>5, <2>1 DEF Apply, outbox, Committed, Sent, Copies
  <2>3. applied[g][e] < Sent[e]
    BY <2>1 DEF Sent
  <2> QED BY <2>1, <2>2, <2>3 DEF Channels!Handle, Channels!Next
<1>6. ASSUME NEW r \in Readers,
             (\E g \in Groups : Read(r, g)) \/ Ack(r) \/ HandlerFails(r) \/ ReaderDies(r)
      PROVE  UNCHANGED << Committed, Sent, applied >>
  BY <1>6, Stutters DEF Read, Ack, HandlerFails, ReaderDies, outbox
<1>7. CASE UNCHANGED vars
  BY <1>7, Stutters DEF vars
<1> QED BY <1>2, <1>4, <1>5, <1>6, <1>7 DEF Next, Handling

\* The outbox, the stream and the passes are the channel that Orders, Topups
\* and BillPay assume: an event is sent after the commit of its transaction,
\* and no message is handled twice (drain_outbox, RedisStreamBus.publish and
\* RedisStreamBus.consume).
THEOREM Refinement == Spec => IsChannel
<1>1. OutboxInv /\ ReadInv /\ [Next]_vars => [Channels!Next]_<< Committed, Sent, applied >>
  BY StepRefines
<1> QED BY BusAlways, InitRefines, <1>1, PTL DEF Spec, IsChannel, Channels!Spec
=============================================================================
