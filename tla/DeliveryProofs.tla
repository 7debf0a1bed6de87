--------------------------- MODULE DeliveryProofs ---------------------------
(***************************************************************************)
(* What StoreService does with the events it is delivered: each is counted *)
(* once, a checkpoint passes none but those dropped, and in the end the    *)
(* newest win.                                                             *)
(*                                                                         *)
(* The counting is by the number of events in each place.  The other two   *)
(* are about the events of a source in one line, from the apply loop's     *)
(* hand back to the adapter's queue: a step moves an event along, appends  *)
(* one, or takes one out whose record is done.                             *)
(***************************************************************************)
EXTENDS StoreProofs, SequenceTheorems

-----------------------------------------------------------------------------
(***************************************************************************)
(* Every delivery is accounted for: each step moves one event from one     *)
(* place to the next, and the last place is one of the five counters.      *)
(***************************************************************************)
\* A poll overwrites the batch, which must have been offered by then.
BatchOffered == ingestAt # "offer" => batch = <<>>

AccountInv == BatchOffered /\ EveryDeliveryAccounted

LEMMA QueuesTyped ==
  ASSUME TypeOK
  PROVE  /\ sent \in [Source -> Seq(UpsertEvent)]
         /\ inbox \in [Source -> Seq(UpsertEvent)]
         /\ batch \in Seq(UpsertEvent)
         /\ applyQueue \in Seq(UpsertEvent)
         /\ redelivered \in Nat
  BY DEF TypeOK

LEMMA MetricsTyped ==
  ASSUME TypeOK
  PROVE  /\ metrics["applied"] \in Nat /\ metrics["duplicates"] \in Nat
         /\ metrics["stale"] \in Nat /\ metrics["drops"] \in Nat
         /\ metrics["publishFailures"] \in Nat
  BY DEF TypeOK, Metric

LEMMA TotalsTyped ==
  ASSUME TypeOK
  PROVE  Delivered \in Nat /\ Waiting \in Nat /\ Counted \in Nat /\ InHand \in Nat
<1>1. Delivered \in Nat /\ Waiting \in Nat
  BY QueuesTyped DEF Delivered, Waiting, Source
<1>2. Counted \in Nat
  BY MetricsTyped DEF Counted
<1> QED
  BY <1>1, <1>2 DEF InHand

\* One more under a metric is one more counted.
LEMMA CountAddsOne ==
  ASSUME TypeOK, NEW m \in Metric, Count(m)
  PROVE  Counted' = Counted + 1
<1>1. \A x \in Metric : metrics'[x] = IF x = m THEN metrics[x] + 1 ELSE metrics[x]
  BY DEF TypeOK, Count
<1>2. m \in {"applied", "duplicates", "stale", "drops", "publishFailures"}
  BY DEF Metric
<1>3. CASE m = "applied"
  BY <1>1, <1>3, MetricsTyped DEF Counted, Metric
<1>4. CASE m = "duplicates"
  BY <1>1, <1>4, MetricsTyped DEF Counted, Metric
<1>5. CASE m = "stale"
  BY <1>1, <1>5, MetricsTyped DEF Counted, Metric
<1>6. CASE m = "drops"
  BY <1>1, <1>6, MetricsTyped DEF Counted, Metric
<1>7. CASE m = "publishFailures"
  BY <1>1, <1>7, MetricsTyped DEF Counted, Metric
<1> QED
  BY <1>2, <1>3, <1>4, <1>5, <1>6, <1>7

\* What two queues hold together, before and after one of them changes.
Both(f) == Len(f["AERON"]) + Len(f["KAFKA"])

LEMMA BothTyped ==
  ASSUME NEW f \in [Source -> Seq(UpsertEvent)]
  PROVE  Both(f) \in Nat
  BY DEF Both, Source

LEMMA BothAfterUpdate ==
  ASSUME NEW f \in [Source -> Seq(UpsertEvent)], NEW s \in Source,
         NEW g \in [Source -> Seq(UpsertEvent)],
         \A r \in Source : r # s => g[r] = f[r]
  PROVE  Both(g) = Both(f) - Len(f[s]) + Len(g[s])
<1>1. CASE s = "AERON"
  BY <1>1 DEF Source, Both
<1>2. CASE s = "KAFKA"
  BY <1>2 DEF Source, Both
<1> QED
  BY <1>1, <1>2 DEF Source

LEMMA AppendAddsOne ==
  ASSUME NEW f \in [Source -> Seq(UpsertEvent)], NEW s \in Source, NEW e \in UpsertEvent,
         NEW g \in [Source -> Seq(UpsertEvent)],
         g = [f EXCEPT ![s] = Append(@, e)]
  PROVE  Both(g) = Both(f) + 1
<1>1. /\ \A r \in Source : r # s => g[r] = f[r]
      /\ Len(g[s]) = Len(f[s]) + 1
      /\ Len(f[s]) \in Nat
  OBVIOUS
<1>2. Both(g) = Both(f) - Len(f[s]) + Len(g[s])
  BY <1>1, BothAfterUpdate
<1> QED
  BY <1>1, <1>2, BothTyped

LEMMA AccountInit == Init => AccountInv
<1> SUFFICES ASSUME Init PROVE AccountInv
  OBVIOUS
<1>1. Delivered = 0 /\ Waiting = 0 /\ InHand = 0
  BY DEF Init, Delivered, Waiting, InHand, Source
<1>2. Counted = 0
  BY DEF Init, Counted, Metric
<1> QED
  BY <1>1, <1>2 DEF Init, AccountInv, BatchOffered, EveryDeliveryAccounted

\* An accepted delivery is one more delivered and one more waiting.
LEMMA AccountSources ==
  ASSUME TypeOK, TypeOK', AccountInv, NEW s \in Source, Send(s) \/ Redeliver(s)
  PROVE  AccountInv'
<1>1. /\ UNCHANGED <<metrics, ingestAt, batch, applyQueue, applyAt>>
  BY DEF Send, Redeliver, ingestVars, applyVars
<1>2. /\ Counted' = Counted /\ InHand' = InHand
  BY <1>1 DEF Counted, InHand
<1>3. /\ sent \in [Source -> Seq(UpsertEvent)]
      /\ inbox \in [Source -> Seq(UpsertEvent)]
  BY DEF TypeOK
<1>4. PICK e \in UpsertEvent :
        /\ inbox' = [inbox EXCEPT ![s] = Append(@, e)]
        /\ \/ sent' = [sent EXCEPT ![s] = Append(@, e)] /\ redelivered' = redelivered
           \/ sent' = sent /\ redelivered' = redelivered + 1
  <2>1. CASE Send(s)
    <3>1. PICK k \in Key, v \in Version, p \in Payload :
            /\ sent' = [sent EXCEPT ![s] = Append(@, NextRecord(s, k, v, p))]
            /\ inbox' = [inbox EXCEPT ![s] = Append(@, NextRecord(s, k, v, p))]
      BY <2>1 DEF Send, Accept
    <3>2. NextRecord(s, k, v, p) \in UpsertEvent
      BY <1>3 DEF NextRecord, UpsertEvent
    <3> QED
      BY <2>1, <3>1, <3>2 DEF Send
  <2>2. CASE Redeliver(s)
    <3>1. PICK i \in DOMAIN sent[s] : inbox' = [inbox EXCEPT ![s] = Append(@, sent[s][i])]
      BY <2>2 DEF Redeliver, Accept
    <3>2. sent[s][i] \in UpsertEvent
      BY <1>3
    <3> QED
      BY <2>2, <3>1, <3>2 DEF Redeliver
  <2> QED
    BY <2>1, <2>2
<1>5. sent' \in [Source -> Seq(UpsertEvent)] /\ inbox' \in [Source -> Seq(UpsertEvent)]
  BY DEF TypeOK
<1>6. Waiting' = Waiting + 1
  <2>1. Both(inbox') = Both(inbox) + 1 /\ Both(inbox) \in Nat
    BY <1>3, <1>4, <1>5, AppendAddsOne, BothTyped
  <2>2. Waiting = Both(inbox) + Len(batch) + Len(applyQueue)
    BY DEF Waiting, Both
  <2>3. Waiting' = Both(inbox') + Len(batch) + Len(applyQueue)
    BY <1>1 DEF Waiting, Both
  <2> QED
    BY <2>1, <2>2, <2>3, QueuesTyped
<1>7. Delivered' = Delivered + 1
  <2>1. Delivered = Both(sent) + redelivered /\ Both(sent) \in Nat
    BY <1>3, BothTyped DEF Delivered, Both
  <2>2. Delivered' = Both(sent') + redelivered'
    BY DEF Delivered, Both
  <2>3. CASE sent' = sent /\ redelivered' = redelivered + 1
    BY <2>1, <2>2, <2>3, QueuesTyped
  <2>4. CASE sent' = [sent EXCEPT ![s] = Append(@, e)] /\ redelivered' = redelivered
    <3>1. PICK f \in [Source -> Seq(UpsertEvent)], g \in [Source -> Seq(UpsertEvent)] :
            f = sent /\ g = sent'
      BY <1>3, <1>5
    <3>2. g = [f EXCEPT ![s] = Append(@, e)]
      BY <2>4, <3>1
    <3>3. Both(g) = Both(f) + 1
      BY <3>2, AppendAddsOne
    <3> QED
      BY <2>1, <2>2, <2>4, <3>1, <3>3, QueuesTyped
  <2> QED
    BY <1>4, <2>3, <2>4
<1> QED
  BY <1>1, <1>2, <1>6, <1>7, TotalsTyped DEF AccountInv, BatchOffered, EveryDeliveryAccounted

\* What is polled is in the batch; what is offered is queued or counted.
LEMMA AccountIngest ==
  ASSUME TypeOK, TypeOK', AccountInv, IngestStep
  PROVE  AccountInv'
<1>1. Delivered' = Delivered /\ InHand' = InHand
  BY DEF IngestStep, IngestOnce, Poll, OfferAccepted, OfferDropped, SourceDone,
         Delivered, InHand, sourceVars, applyVars
<1> USE DEF AccountInv, BatchOffered, EveryDeliveryAccounted
<1>2. CASE IngestOnce \/ SourceDone
  <2>1. UNCHANGED <<inbox, batch, applyQueue, metrics>> /\ batch = <<>>
    BY <1>2 DEF IngestOnce, SourceDone, sourceVars
  <2>2. Waiting' = Waiting /\ Counted' = Counted
    BY <2>1 DEF Waiting, Counted
  <2> QED
    BY <1>1, <2>1, <2>2
<1>3. CASE Poll
  <2> DEFINE q == inbox[polling]
             n == Smaller(MaxBatch, Len(q))
  <2>1. polling \in Source /\ q \in Seq(UpsertEvent) /\ Len(q) \in Nat
    BY DEF TypeOK
  <2>2. n \in 0 .. Len(q)
    BY <2>1, ArgumentsAssumption DEF Smaller
  <2>3. /\ batch' = SubSeq(q, 1, n)
        /\ inbox' = [inbox EXCEPT ![polling] = SubSeq(q, n + 1, Len(q))]
    BY <1>3 DEF Poll
  <2>4. inbox' \in [Source -> Seq(UpsertEvent)] /\ batch' \in Seq(UpsertEvent)
    BY DEF TypeOK
  <2>5. UNCHANGED <<applyQueue, metrics>> /\ ingestAt' = "offer" /\ batch = <<>>
    BY <1>3 DEF Poll
  <2> HIDE DEF n
  <2>6. Waiting' = Waiting
    <3>1. /\ Len(batch') = n /\ Len(batch) = 0
          /\ Len(SubSeq(q, n + 1, Len(q))) = Len(q) - n
      BY <2>1, <2>2, <2>3, <2>5
    <3>2. Both(inbox') = Both(inbox) - Len(q) + (Len(q) - n)
      <4>1. /\ inbox'[polling] = SubSeq(q, n + 1, Len(q))
            /\ \A r \in Source : r # polling => inbox'[r] = inbox[r]
        BY <2>1, <2>3, QueuesTyped
      <4>2. Both(inbox') = Both(inbox) - Len(inbox[polling]) + Len(inbox'[polling])
        BY <2>1, <2>4, <4>1, QueuesTyped, BothAfterUpdate
      <4> QED
        BY <3>1, <4>1, <4>2
    <3>3. Both(inbox) \in Nat
      BY QueuesTyped, BothTyped
    <3>4. Waiting = Both(inbox) + Len(applyQueue)
      BY <3>1, <3>3, QueuesTyped DEF Waiting, Both
    <3>5. Waiting' = Both(inbox') + n + Len(applyQueue)
      BY <2>5, <3>1 DEF Waiting, Both
    <3> QED
      BY <2>1, <2>2, <3>2, <3>3, <3>4, <3>5, QueuesTyped
  <2>7. Counted' = Counted
    BY <2>5 DEF Counted
  <2> QED
    BY <1>1, <2>5, <2>6, <2>7
<1>4. CASE OfferAccepted
  <2>1. /\ UNCHANGED <<inbox, metrics, ingestAt>> /\ ingestAt = "offer"
        /\ batch \in Seq(UpsertEvent) /\ batch # <<>> /\ applyQueue \in Seq(UpsertEvent)
        /\ applyQueue' = Append(applyQueue, Head(batch)) /\ batch' = Tail(batch)
    BY <1>4 DEF OfferAccepted, TypeOK, sourceVars
  <2>2. Len(applyQueue') = Len(applyQueue) + 1 /\ Len(batch') = Len(batch) - 1
    BY <2>1
  <2>3. Waiting' = Waiting /\ Counted' = Counted
    BY <2>1, <2>2, QueuesTyped DEF Waiting, Counted, Source
  <2> QED
    BY <1>1, <2>1, <2>3
<1>5. CASE OfferDropped
  <2>1. /\ UNCHANGED <<inbox, applyQueue, ingestAt>> /\ ingestAt = "offer"
        /\ batch \in Seq(UpsertEvent) /\ batch # <<>> /\ batch' = Tail(batch)
        /\ Count("drops")
    BY <1>5 DEF OfferDropped, TypeOK, sourceVars
  <2>2. Len(batch') = Len(batch) - 1
    BY <2>1
  <2>3. Waiting' = Waiting - 1
    BY <2>1, <2>2, QueuesTyped DEF Waiting, Source
  <2>4. Counted' = Counted + 1
    BY <2>1, CountAddsOne DEF Metric
  <2> QED
    BY <1>1, <2>1, <2>3, <2>4, TotalsTyped
<1> QED
  BY <1>2, <1>3, <1>4, <1>5 DEF IngestStep

\* The apply path takes one in hand, and counts it when it lets it go.
LEMMA AccountApply ==
  ASSUME TypeOK, TypeOK', AccountInv, ApplyStep
  PROVE  AccountInv'
<1>1. UNCHANGED <<sent, redelivered, inbox, ingestAt, batch>>
  BY DEF ApplyStep, LoadRow, LoadRejected, LoadDone, ProcessOnce, Take, ProcessReturns,
         ApplyUpsert, SkipUpsert, PublishAttempt, PublishReturned, PublishThrew,
         SaveCheckpoint, sourceVars, ingestVars
<1>2. Delivered' = Delivered
  BY <1>1 DEF Delivered
<1> USE DEF AccountInv, BatchOffered, EveryDeliveryAccounted
<1>3. CASE \/ LoadRow \/ LoadRejected \/ LoadDone \/ ProcessOnce \/ ProcessReturns
           \/ ApplyUpsert \/ PublishAttempt \/ SaveCheckpoint
  <2>1. UNCHANGED <<applyQueue, metrics>>
    BY <1>3 DEF LoadRow, LoadRejected, LoadDone, ProcessOnce, ProcessReturns, ApplyUpsert,
                PublishAttempt, SaveCheckpoint
  <2>2. InHand' = InHand
    BY <1>3 DEF LoadRow, LoadRejected, LoadDone, ProcessOnce, ProcessReturns, ApplyUpsert,
                PublishAttempt, SaveCheckpoint, applyVars, InHand
  <2>3. Waiting' = Waiting /\ Counted' = Counted
    BY <1>1, <2>1 DEF Waiting, Counted
  <2> QED
    BY <1>1, <1>2, <2>2, <2>3
<1>4. CASE Take
  <2>1. /\ applyQueue \in Seq(UpsertEvent) /\ applyQueue # <<>>
        /\ applyQueue' = Tail(applyQueue) /\ metrics' = metrics
        /\ applyAt = "take" /\ applyAt' = "evaluate"
    BY <1>4 DEF Take, TypeOK
  <2>2. Len(applyQueue') = Len(applyQueue) - 1
    BY <2>1
  <2>3. Waiting' = Waiting - 1 /\ InHand' = InHand + 1 /\ Counted' = Counted
    BY <1>1, <2>1, <2>2, QueuesTyped DEF Waiting, InHand, Counted, Source
  <2> QED
    BY <1>1, <1>2, <2>3, TotalsTyped
<1>5. CASE SkipUpsert \/ PublishReturned \/ PublishThrew
  <2>1. Counted' = Counted + 1
    BY <1>5, CountAddsOne DEF SkipUpsert, PublishReturned, PublishThrew, Metric
  <2>2. applyAt \in {"evaluate", "publishing"} /\ applyAt' \notin {"evaluate", "publishing"}
    BY <1>5 DEF SkipUpsert, PublishReturned, PublishThrew, Conclude, TypeOK
  <2>3. applyQueue' = applyQueue
    BY <1>5 DEF SkipUpsert, PublishReturned, PublishThrew
  <2>4. Waiting' = Waiting /\ InHand = 1 /\ InHand' = 0
    BY <1>1, <2>2, <2>3 DEF Waiting, InHand
  <2> QED
    BY <1>1, <1>2, <2>1, <2>4, TotalsTyped
<1> QED
  BY <1>3, <1>4, <1>5 DEF ApplyStep

(***************************************************************************)
(* At every moment the deliveries are the events waiting, the one in hand  *)
(* and the five counters together: the service loses no event without a    *)
(* count and counts none twice.                                            *)
(***************************************************************************)
THEOREM DeliveriesAccounted == Spec => []EveryDeliveryAccounted
<1>1. Init => AccountInv
  BY AccountInit
<1>2. TypeOK /\ TypeOK' /\ AccountInv /\ [Next]_vars => AccountInv'
  <2> SUFFICES ASSUME TypeOK, TypeOK', AccountInv, [Next]_vars PROVE AccountInv'
    OBVIOUS
  <2>1. CASE UNCHANGED vars
    BY <2>1
    DEF AccountInv, BatchOffered, EveryDeliveryAccounted, Delivered, Waiting, InHand,
        Counted, vars, sourceVars, ingestVars, applyVars
  <2> QED
    BY <2>1, AccountSources, AccountIngest, AccountApply DEF Next
<1>3. AccountInv => EveryDeliveryAccounted
  BY DEF AccountInv
<1> QED
  BY <1>1, <1>2, <1>3, TypeCorrect, PTL DEF Spec

-----------------------------------------------------------------------------
(***************************************************************************)
(* Lines of events.                                                        *)
(***************************************************************************)
Events == Seq(UpsertEvent)

\* The positions of a source that occur in a line of events.
Positions(line, s) ==
  {line[m].position : m \in {n \in DOMAIN line : line[n].source = s}}

(***************************************************************************)
(* Done is a set of positions of source s that need nothing more.  A line  *)
(* of events is in order when whatever comes before an event in the        *)
(* source's log is done or stands before it in the line too; redeliveries  *)
(* may follow.                                                             *)
(***************************************************************************)
InOrder(line, s, done) ==
  \A m \in DOMAIN line : line[m].source = s =>
    1 .. line[m].position \subseteq done \cup Positions(SubSeq(line, 1, m), s)

Lined(line, s, done, upto) ==
  InOrder(line, s, done) /\ 1 .. upto \subseteq done \cup Positions(line, s)

LEMMA PositionsConcat ==
  ASSUME NEW x \in Events, NEW y \in Events, NEW s
  PROVE  Positions(x \o y, s) = Positions(x, s) \cup Positions(y, s)
<1>1. /\ DOMAIN x = 1 .. Len(x) /\ DOMAIN y = 1 .. Len(y)
      /\ DOMAIN (x \o y) = 1 .. Len(x) + Len(y)
      /\ Len(x) \in Nat /\ Len(y) \in Nat
      /\ \A m \in 1 .. Len(x) : (x \o y)[m] = x[m]
      /\ \A m \in 1 .. Len(y) : (x \o y)[m + Len(x)] = y[m]
  BY ConcatProperties DEF Events
<1>2. ASSUME NEW i \in Positions(x \o y, s)
      PROVE  i \in Positions(x, s) \cup Positions(y, s)
  <2>1. PICK m \in 1 .. Len(x) + Len(y) : (x \o y)[m].source = s /\ (x \o y)[m].position = i
    BY <1>1 DEF Positions
  <2>2. CASE m \in 1 .. Len(x)
    BY <1>1, <2>1, <2>2 DEF Positions
  <2>3. CASE m - Len(x) \in 1 .. Len(y)
    <3>1. (x \o y)[m] = y[m - Len(x)]
      BY <1>1, <2>3
    <3> QED
      BY <1>1, <2>1, <2>3, <3>1 DEF Positions
  <2> QED
    BY <1>1, <2>2, <2>3
<1>3. ASSUME NEW i \in Positions(x, s) PROVE i \in Positions(x \o y, s)
  BY <1>1 DEF Positions
<1>4. ASSUME NEW i \in Positions(y, s) PROVE i \in Positions(x \o y, s)
  <2>1. PICK m \in 1 .. Len(y) : y[m].source = s /\ y[m].position = i
    BY <1>1 DEF Positions
  <2>2. m + Len(x) \in DOMAIN (x \o y)
    BY <1>1
  <2> QED
    BY <1>1, <2>1, <2>2 DEF Positions
<1> QED
  BY <1>2, <1>3, <1>4

LEMMA PositionsOne ==
  ASSUME NEW e \in UpsertEvent, NEW s
  PROVE  /\ e.source = s => Positions(<<e>>, s) = {e.position}
         /\ e.source # s => Positions(<<e>>, s) = {}
  BY DEF Positions, UpsertEvent

LEMMA PositionsNone ==
  ASSUME NEW s
  PROVE  Positions(<<>>, s) = {}
  BY DEF Positions

LEMMA LineOfOne ==
  ASSUME NEW e \in UpsertEvent
  PROVE  /\ <<e>> \in Events
         /\ DOMAIN <<e>> = {1} /\ <<e>>[1] = e
         /\ SubSeq(<<e>>, 1, 1) = <<e>>
<1>1. /\ <<e>> \in Events
      /\ Len(<<e>>) = 1 /\ DOMAIN <<e>> = 1 .. 1 /\ <<e>>[1] = e
  BY DEF Events
<1>2. SubSeq(<<e>>, 1, Len(<<e>>)) = <<e>>
  BY <1>1, SubSeqFull DEF Events
<1> QED
  BY <1>1, <1>2

LEMMA Prefixes ==
  ASSUME NEW x \in Events, NEW y \in Events, NEW m \in Nat
  PROVE  /\ m \in 1 .. Len(x) => SubSeq(x \o y, 1, m) = SubSeq(x, 1, m)
         /\ m \in 1 .. Len(y) => SubSeq(x \o y, 1, m + Len(x)) = x \o SubSeq(y, 1, m)
  BY SubSeqOfConcat1, SubSeqOfConcat2 DEF Events

LEMMA InOrderConcat ==
  ASSUME NEW x \in Events, NEW y \in Events, NEW s, NEW done
  PROVE  InOrder(x \o y, s, done)
           <=> InOrder(x, s, done) /\ InOrder(y, s, done \cup Positions(x, s))
<1>1. /\ DOMAIN x = 1 .. Len(x) /\ DOMAIN y = 1 .. Len(y)
      /\ DOMAIN (x \o y) = 1 .. Len(x) + Len(y)
      /\ Len(x) \in Nat /\ Len(y) \in Nat
      /\ \A m \in 1 .. Len(x) : (x \o y)[m] = x[m]
      /\ \A m \in 1 .. Len(y) : (x \o y)[m + Len(x)] = y[m]
  BY ConcatProperties DEF Events
<1>2. \A m \in 1 .. Len(x) : SubSeq(x \o y, 1, m) = SubSeq(x, 1, m)
  BY <1>1, Prefixes
<1>3. ASSUME NEW m \in 1 .. Len(y)
      PROVE  Positions(SubSeq(x \o y, 1, m + Len(x)), s)
               = Positions(x, s) \cup Positions(SubSeq(y, 1, m), s)
  <2>1. SubSeq(y, 1, m) \in Events
    BY <1>1 DEF Events
  <2>2. SubSeq(x \o y, 1, m + Len(x)) = x \o SubSeq(y, 1, m)
    BY <1>1, Prefixes
  <2>3. Positions(x \o SubSeq(y, 1, m), s) = Positions(x, s) \cup Positions(SubSeq(y, 1, m), s)
    BY <2>1, PositionsConcat
  <2> QED
    BY <2>2, <2>3
<1>4. ASSUME InOrder(x \o y, s, done)
      PROVE  InOrder(x, s, done) /\ InOrder(y, s, done \cup Positions(x, s))
  <2>1. \A m \in 1 .. Len(x) : m \in DOMAIN (x \o y)
    BY <1>1
  <2>2. \A m \in 1 .. Len(y) : m + Len(x) \in DOMAIN (x \o y)
    BY <1>1
  <2>3. InOrder(x, s, done)
    BY <1>1, <1>2, <1>4, <2>1 DEF InOrder
  <2>4. InOrder(y, s, done \cup Positions(x, s))
    <3> SUFFICES ASSUME NEW m \in 1 .. Len(y), y[m].source = s
                 PROVE  1 .. y[m].position
                          \subseteq (done \cup Positions(x, s)) \cup Positions(SubSeq(y, 1, m), s)
      BY <1>1 DEF InOrder
    <3>1. 1 .. y[m].position \subseteq done \cup Positions(SubSeq(x \o y, 1, m + Len(x)), s)
      BY <1>1, <1>4, <2>2 DEF InOrder
    <3> QED
      BY <1>3, <3>1
  <2> QED
    BY <2>3, <2>4
<1>5. ASSUME InOrder(x, s, done), InOrder(y, s, done \cup Positions(x, s))
      PROVE  InOrder(x \o y, s, done)
  <2> SUFFICES ASSUME NEW m \in 1 .. Len(x) + Len(y), (x \o y)[m].source = s
               PROVE  1 .. (x \o y)[m].position
                        \subseteq done \cup Positions(SubSeq(x \o y, 1, m), s)
    BY <1>1 DEF InOrder
  <2>1. CASE m \in 1 .. Len(x)
    BY <1>1, <1>2, <1>5, <2>1 DEF InOrder
  <2>2. CASE m - Len(x) \in 1 .. Len(y)
    <3>1. PICK n \in 1 .. Len(y) : m = n + Len(x)
      BY <1>1, <2>2
    <3>2. (x \o y)[m] = y[n]
      BY <1>1, <3>1
    <3>3. 1 .. y[n].position
            \subseteq (done \cup Positions(x, s)) \cup Positions(SubSeq(y, 1, n), s)
      BY <1>1, <1>5, <3>2 DEF InOrder
    <3> QED
      BY <1>3, <3>1, <3>2, <3>3
  <2> QED
    BY <1>1, <2>1, <2>2
<1> QED
  BY <1>4, <1>5

LEMMA LinedMore ==
  ASSUME NEW line, NEW s, NEW done, NEW upto, Lined(line, s, done, upto),
         NEW more, done \subseteq more
  PROVE  Lined(line, s, more, upto)
  BY DEF Lined, InOrder

\* A record comes in, the next one or one that came before.
LEMMA LinedArrival ==
  ASSUME NEW line \in Events, NEW e \in UpsertEvent, NEW s, NEW done,
         NEW upto \in Nat, NEW now \in Nat, Lined(line, s, done, upto),
         \/ e.source # s /\ now = upto
         \/ e.source = s /\ now = upto + 1 /\ e.position = now
         \/ e.source = s /\ now = upto /\ e.position <= upto
  PROVE  Lined(line \o <<e>>, s, done, now)
<1>1. <<e>> \in Events /\ e.position \in Nat
  BY DEF Events, UpsertEvent
<1>2. Positions(line \o <<e>>, s) = Positions(line, s) \cup Positions(<<e>>, s)
  BY <1>1, PositionsConcat
<1>3. 1 .. now \subseteq done \cup Positions(line \o <<e>>, s)
  BY <1>1, <1>2, PositionsOne DEF Lined
<1>4. InOrder(<<e>>, s, done \cup Positions(line, s))
  <2>1. e.source = s => 1 .. e.position \subseteq 1 .. now
    BY <1>1
  <2> QED
    BY <1>2, <1>3, <2>1, LineOfOne DEF InOrder
<1>5. InOrder(line \o <<e>>, s, done)
  BY <1>1, <1>4, InOrderConcat DEF Lined
<1> QED
  BY <1>3, <1>5 DEF Lined

\* An event leaves the line, and its record is done.
LEMMA LinedDeparture ==
  ASSUME NEW x \in Events, NEW e \in UpsertEvent, NEW y \in Events, NEW s, NEW done,
         NEW upto, Lined((x \o <<e>>) \o y, s, done, upto),
         e.source = s => e.position \in done
  PROVE  Lined(x \o y, s, done, upto)
<1>1. <<e>> \in Events /\ x \o <<e>> \in Events
  BY ConcatProperties DEF Events
<1>2. /\ Positions(x \o <<e>>, s) = Positions(x, s) \cup Positions(<<e>>, s)
      /\ Positions((x \o <<e>>) \o y, s) = Positions(x \o <<e>>, s) \cup Positions(y, s)
      /\ Positions(x \o y, s) = Positions(x, s) \cup Positions(y, s)
  BY <1>1, PositionsConcat
<1>3. Positions(<<e>>, s) \subseteq done
  BY PositionsOne
<1>4. 1 .. upto \subseteq done \cup Positions(x \o y, s)
  BY <1>2, <1>3 DEF Lined
<1>5. /\ InOrder(x \o <<e>>, s, done)
      /\ InOrder(y, s, done \cup Positions(x \o <<e>>, s))
  BY <1>1, InOrderConcat DEF Lined
<1>6. InOrder(x, s, done)
  BY <1>1, <1>5, InOrderConcat
<1>7. done \cup Positions(x \o <<e>>, s) = done \cup Positions(x, s)
  BY <1>2, <1>3
<1>8. InOrder(x \o y, s, done)
  BY <1>5, <1>6, <1>7, InOrderConcat
<1> QED
  BY <1>4, <1>8 DEF Lined

\* Events of another source come in between.
LEMMA LinedOthers ==
  ASSUME NEW x \in Events, NEW z \in Events, NEW y \in Events, NEW s, NEW done,
         NEW upto, Lined(x \o y, s, done, upto),
         \A m \in DOMAIN z : z[m].source # s
  PROVE  Lined((x \o z) \o y, s, done, upto)
<1>1. x \o z \in Events
  BY ConcatProperties DEF Events
<1>2. /\ Positions(x \o z, s) = Positions(x, s) \cup Positions(z, s)
      /\ Positions((x \o z) \o y, s) = Positions(x \o z, s) \cup Positions(y, s)
      /\ Positions(x \o y, s) = Positions(x, s) \cup Positions(y, s)
  BY <1>1, PositionsConcat
<1>3. Positions(z, s) = {}
  BY DEF Positions
<1>4. InOrder(z, s, done \cup Positions(x, s))
  BY DEF InOrder
<1>5. InOrder(x, s, done) /\ InOrder(y, s, done \cup Positions(x, s))
  BY InOrderConcat DEF Lined
<1>6. InOrder(x \o z, s, done)
  BY <1>4, <1>5, InOrderConcat
<1>7. Positions(x \o z, s) = Positions(x, s)
  BY <1>2, <1>3
<1>8. InOrder((x \o z) \o y, s, done)
  BY <1>1, <1>5, <1>6, <1>7, InOrderConcat
<1> QED
  BY <1>2, <1>3, <1>8 DEF Lined

\* Everything before the first event of a line is done.
LEMMA LinedFirst ==
  ASSUME NEW e \in UpsertEvent, NEW y \in Events, NEW done, NEW upto,
         Lined(<<e>> \o y, e.source, done, upto)
  PROVE  1 .. e.position \subseteq done \cup {e.position}
<1>1. <<e>> \in Events
  BY DEF Events
<1>2. InOrder(<<e>>, e.source, done)
  BY <1>1, InOrderConcat DEF Lined
<1>3. Positions(<<e>>, e.source) = {e.position}
  BY PositionsOne
<1> QED
  BY <1>2, <1>3, LineOfOne DEF InOrder

-----------------------------------------------------------------------------
(***************************************************************************)
(* The pipeline.  The lemmas are about one life, in which the source s is  *)
(* resumed after from[s] and its records up to upto[s] have arrived;       *)
(* RecoveryProofs uses them for every life.                                *)
(***************************************************************************)
\* Every record is where its position says.
LogInPlace ==
  \A s \in Source : \A i \in DOMAIN sent[s] :
    sent[s][i].source = s /\ sent[s][i].position = i

\* What has arrived of a source's log, resumed after from and read to upto.
ArrivedAt(s, from, upto) == {sent[s][i] : i \in from[s] + 1 .. upto[s]}

Arrived(from, upto) == UNION {ArrivedAt(s, from, upto) : s \in Source}

EventsArrived(from, upto) ==
  /\ \A s \in Source : upto[s] \in from[s] .. Len(sent[s])
  /\ \A s \in Source : inbox[s] \in Seq(ArrivedAt(s, from, upto))
  /\ batch \in Seq(Arrived(from, upto))
  /\ applyQueue \in Seq(Arrived(from, upto))
  /\ current \in Arrived(from, upto) \cup {None}

StoreArrived(from, upto) ==
  \A k \in DOMAIN store :
    \/ Seeded(k)
    \/ \E e \in Arrived(from, upto) : e.key = k /\ RecordOf(e) = store[k]

\* The positions of a source that need nothing more.
Done(s, from) ==
  {i \in DOMAIN sent[s] :
     i <= from[s] \/ Reflected(sent[s][i]) \/ <<s, i>> \in dropped}

Hand == IF current = None THEN <<>> ELSE <<current>>

\* The events on their way to the store, first the one that is there first.
Line(s) == ((Hand \o applyQueue) \o batch) \o inbox[s]

AllLined(from, upto) ==
  \A s \in Source : Lined(Line(s), s, Done(s, from), upto[s])

CheckpointDone(from) == \A s \in Source : 1 .. checkpoint[s] \subseteq Done(s, from)

HandReflected == applyAt \in {"publishing", "saving"} => Reflected(current)

LoadedAccepted == \A i \in 1 .. loaded : rows[i].version > 0

PipelineInv(from, upto) ==
  /\ LogInPlace
  /\ LoadedAccepted
  /\ EventsArrived(from, upto)
  /\ StoreArrived(from, upto)
  /\ AllLined(from, upto)
  /\ CheckpointDone(from)
  /\ HandReflected

-----------------------------------------------------------------------------
LEMMA AssumedTypes ==
  ASSUME TypeOK
  PROVE  /\ sent \in [Source -> Events]
         /\ inbox \in [Source -> Events]
         /\ batch \in Events
         /\ applyQueue \in Events
         /\ current \in UpsertEvent \cup {None}
         /\ Hand \in Events
         /\ checkpoint \in [Source -> Nat]
<1>1. Hand \in Events
  BY LineOfOne DEF TypeOK, Hand, Events
<1> QED
  BY <1>1 DEF TypeOK, Events

LEMMA LineTyped ==
  ASSUME TypeOK, NEW s \in Source
  PROVE  Line(s) \in Events
<1>1. Hand \in Events /\ applyQueue \in Events /\ batch \in Events /\ inbox[s] \in Events
  BY AssumedTypes
<1>2. Hand \o applyQueue \in Events
  BY <1>1, ConcatProperties DEF Events
<1>3. (Hand \o applyQueue) \o batch \in Events
  BY <1>1, <1>2, ConcatProperties DEF Events
<1> QED
  BY <1>1, <1>3, ConcatProperties DEF Events, Line

-----------------------------------------------------------------------------
(***************************************************************************)
(* What only grows: the logs, the store's versions, the drops, and with    *)
(* them what is done and what has arrived.                                 *)
(***************************************************************************)
LogGrows ==
  \A s \in Source : \A i \in DOMAIN sent[s] :
    i \in DOMAIN sent'[s] /\ sent'[s][i] = sent[s][i]

LEMMA DoneGrows ==
  ASSUME TypeOK, TypeOK', StoreGrows, LogGrows, dropped \subseteq dropped',
         NEW s \in Source, NEW from
  PROVE  Done(s, from) \subseteq Done(s, from)'
<1> SUFFICES ASSUME NEW i \in Done(s, from)
             PROVE  i \in Done(s, from)'
  OBVIOUS
<1>1. /\ i \in DOMAIN sent[s]
      /\ i \in DOMAIN sent'[s] /\ sent'[s][i] = sent[s][i]
  BY DEF Done, LogGrows
<1>2. ASSUME Reflected(sent[s][i])
      PROVE  VersionIn(store', sent[s][i].key) >= sent[s][i].version
  <2>1. sent[s][i] \in UpsertEvent
    BY <1>1, AssumedTypes DEF Events
  <2>2. sent[s][i].version \in Int
    BY <2>1, MaxVersionAssumption DEF UpsertEvent, Version
  <2> QED
    BY <1>2, <2>2, ReflectedKept
<1> QED
  BY <1>1, <1>2 DEF Done, Reflected

LEMMA ArrivedGrows ==
  ASSUME TypeOK, TypeOK', LogGrows,
         NEW from \in [Source -> Nat], NEW upto \in [Source -> Nat],
         NEW now \in [Source -> Nat],
         \A s \in Source : upto[s] \in from[s] .. Len(sent[s]) /\ upto[s] <= now[s]
  PROVE  /\ \A s \in Source : ArrivedAt(s, from, upto) \subseteq ArrivedAt(s, from, now)'
         /\ Arrived(from, upto) \subseteq Arrived(from, now)'
<1>1. ASSUME NEW s \in Source
      PROVE  ArrivedAt(s, from, upto) \subseteq ArrivedAt(s, from, now)'
  <2> SUFFICES ASSUME NEW i \in from[s] + 1 .. upto[s]
               PROVE  sent[s][i] \in ArrivedAt(s, from, now)'
    BY DEF ArrivedAt
  <2>1. /\ from[s] \in Nat /\ upto[s] \in Nat /\ now[s] \in Nat
        /\ upto[s] <= Len(sent[s]) /\ upto[s] <= now[s]
        /\ Len(sent[s]) \in Nat /\ DOMAIN sent[s] = 1 .. Len(sent[s])
    BY SMTT(30) DEF TypeOK
  <2>2. i \in DOMAIN sent[s] /\ i \in from[s] + 1 .. now[s]
    BY <2>1
  <2>3. sent'[s][i] = sent[s][i]
    BY <2>2 DEF LogGrows
  <2> QED
    BY <2>2, <2>3 DEF ArrivedAt
<1> QED
  BY <1>1 DEF Arrived

\* An event that arrived is done once it is reflected or dropped.
LEMMA ArrivedDone ==
  ASSUME TypeOK, LogInPlace, NEW from \in [Source -> Nat], NEW upto \in [Source -> Nat],
         \A s \in Source : upto[s] \in from[s] .. Len(sent[s]),
         NEW e \in Arrived(from, upto),
         Reflected(e) \/ <<e.source, e.position>> \in dropped
  PROVE  e.position \in Done(e.source, from)
<1>1. PICK s \in Source : e \in ArrivedAt(s, from, upto)
  BY DEF Arrived
<1>2. PICK i \in from[s] + 1 .. upto[s] : e = sent[s][i]
  BY <1>1 DEF ArrivedAt
<1>3. /\ from[s] \in Nat /\ upto[s] \in Nat /\ upto[s] <= Len(sent[s])
      /\ sent[s] \in Events
  BY AssumedTypes
<1>4. i \in DOMAIN sent[s] /\ i \in from[s] + 1 .. Len(sent[s])
  BY <1>3 DEF Events
<1>5. e.source = s /\ e.position = i
  BY <1>2, <1>4 DEF LogInPlace
<1> QED
  BY <1>2, <1>4, <1>5 DEF Done

-----------------------------------------------------------------------------
(***************************************************************************)
(* How a line is put together does not matter.                             *)
(***************************************************************************)
LEMMA HeadAndTail ==
  ASSUME NEW S, NEW q \in Seq(S), q # <<>>
  PROVE  /\ Head(q) \in S /\ Tail(q) \in Seq(S)
         /\ <<Head(q)>> \o Tail(q) = q
<1>1. Len(q) \in Nat \ {0} /\ Head(q) = q[1]
  OBVIOUS
<1>2. SubSeq(q, 1, Len(q)) = <<q[1]>> \o SubSeq(q, 2, Len(q))
  BY <1>1, SubSeqRecursiveFirst
<1>3. SubSeq(q, 1, Len(q)) = q /\ Tail(q) = SubSeq(q, 2, Len(q))
  BY SubSeqFull, TailIsSubSeq
<1> QED
  BY <1>1, <1>2, <1>3, HeadTailProperties

LEMMA Associative ==
  ASSUME NEW a \in Events, NEW b \in Events, NEW c \in Events
  PROVE  (a \o b) \o c = a \o (b \o c)
  BY ConcatAssociative DEF Events

\* The queue is offered the first of the batch, or takes nothing.
LEMMA OfferedLine ==
  ASSUME NEW x \in Events, NEW q \in Events, NEW b \in Events, b # <<>>
  PROVE  (x \o Append(q, Head(b))) \o Tail(b) = (x \o q) \o b
<1>1. Head(b) \in UpsertEvent /\ Tail(b) \in Events /\ <<Head(b)>> \o Tail(b) = b
  BY HeadAndTail DEF Events
<1>2. Append(q, Head(b)) = q \o <<Head(b)>> /\ <<Head(b)>> \in Events
  BY <1>1, AppendIsConcat DEF Events
<1>3. x \o (q \o <<Head(b)>>) = (x \o q) \o <<Head(b)>>
  BY <1>2, ConcatAssociative DEF Events
<1>4. x \o q \in Events
  BY ConcatProperties DEF Events
<1>5. ((x \o q) \o <<Head(b)>>) \o Tail(b) = (x \o q) \o (<<Head(b)>> \o Tail(b))
  BY <1>1, <1>2, <1>4, ConcatAssociative, SMTT(30) DEF Events
<1> QED
  BY <1>1, <1>2, <1>3, <1>5

LEMMA DroppedLine ==
  ASSUME NEW x \in Events, NEW e \in UpsertEvent, NEW t \in Events, NEW y \in Events
  PROVE  /\ (x \o (<<e>> \o t)) \o y = (x \o <<e>>) \o (t \o y)
         /\ (x \o t) \o y = x \o (t \o y)
         /\ t \o y \in Events
<1>1. <<e>> \in Events
  BY LineOfOne
<1>2. x \o (<<e>> \o t) = (x \o <<e>>) \o t
  BY <1>1, Associative, SMTT(30)
<1>3. ((x \o <<e>>) \o t) \o y = (x \o <<e>>) \o (t \o y)
  <2>1. x \o <<e>> \in Events
    BY <1>1, ConcatProperties DEF Events
  <2> QED
    BY <2>1, Associative
<1>4. /\ (x \o t) \o y = x \o (t \o y)
      /\ t \o y \in Events
  BY Associative, ConcatProperties DEF Events
<1> QED
  BY <1>2, <1>3, <1>4

LEMMA FrontLine ==
  ASSUME NEW e \in UpsertEvent, NEW a \in Events, NEW b \in Events, NEW c \in Events
  PROVE  /\ (a \o b) \o c \in Events
         /\ ((<<e>> \o a) \o b) \o c = <<e>> \o ((a \o b) \o c)
         /\ ((<<>> \o a) \o b) \o c = <<>> \o ((a \o b) \o c)
         /\ <<>> \o <<e>> = <<e>>
<1>1. <<e>> \in Events /\ <<>> \in Events
  BY LineOfOne DEF Events
<1>2. a \o b \in Events
  BY ConcatProperties DEF Events
<1>3. (a \o b) \o c \in Events
  BY <1>2, ConcatProperties DEF Events
<1>4. ASSUME NEW h \in Events
      PROVE  ((h \o a) \o b) \o c = h \o ((a \o b) \o c)
  <2>1. PICK ab \in Events : ab = a \o b
    BY <1>2
  <2>2. (h \o a) \o b = h \o ab
    BY <2>1, Associative, SMTT(30)
  <2>3. (h \o ab) \o c = h \o (ab \o c)
    BY Associative
  <2> QED
    BY <2>1, <2>2, <2>3
<1>5. ((<<>> \o a) \o b) \o c = <<>> \o ((a \o b) \o c)
  BY <1>1, <1>4
<1>6. <<>> \o <<e>> = <<e>>
  BY <1>1, ConcatEmptySeq DEF Events
<1> QED
  BY <1>1, <1>3, <1>4, <1>5, <1>6

LEMMA PolledLine ==
  ASSUME NEW x \in Events, NEW q \in Events, NEW n \in 0 .. Len(q)
  PROVE  /\ SubSeq(q, 1, n) \in Events /\ SubSeq(q, n + 1, Len(q)) \in Events
         /\ (x \o SubSeq(q, 1, n)) \o SubSeq(q, n + 1, Len(q)) = x \o q
<1>1. SubSeq(q, 1, n) \in Events /\ SubSeq(q, n + 1, Len(q)) \in Events
  BY DEF Events
<1>2. SubSeq(q, 1, n) \o SubSeq(q, n + 1, Len(q)) = SubSeq(q, 1, Len(q))
  <2>1. 1 \in 1 .. Len(q) + 1 /\ n \in 1 - 1 .. Len(q) /\ Len(q) \in n .. Len(q)
    BY DEF Events
  <2> QED
    BY <2>1, ConcatAdjacentSubSeq DEF Events
<1>3. SubSeq(q, 1, Len(q)) = q
  BY SubSeqFull DEF Events
<1> DEFINE y == SubSeq(q, 1, n)
           z == SubSeq(q, n + 1, Len(q))
<1>4. y \in Events /\ z \in Events /\ y \o z = q
  BY <1>1, <1>2, <1>3
<1> HIDE DEF y, z
<1>5. (x \o y) \o z = x \o (y \o z)
  BY <1>4, Associative
<1>6. (x \o y) \o z = x \o q
  BY <1>4, <1>5
<1> QED
  BY <1>1, <1>6 DEF y, z

-----------------------------------------------------------------------------
(***************************************************************************)
(* Steps that move no event.                                               *)
(***************************************************************************)
LEMMA PipelineKept ==
  ASSUME TypeOK, TypeOK', StoreGrows,
         UNCHANGED <<sent, inbox, batch, applyQueue, current, checkpoint, dropped>>,
         NEW from \in [Source -> Nat], NEW upto \in [Source -> Nat],
         PipelineInv(from, upto),
         StoreArrived(from, upto)', LoadedAccepted', HandReflected'
  PROVE  PipelineInv(from, upto)'
<1>1. LogGrows
  BY DEF LogGrows
<1>2. \A s \in Source : Done(s, from) \subseteq Done(s, from)'
  BY <1>1, DoneGrows
<1>3. LogInPlace' /\ EventsArrived(from, upto)'
  <2>1. \A s \in Source : ArrivedAt(s, from, upto)' = ArrivedAt(s, from, upto)
    BY DEF ArrivedAt
  <2>2. Arrived(from, upto)' = Arrived(from, upto)
    BY <2>1 DEF Arrived
  <2>3. EventsArrived(from, upto)'
    BY <2>1, <2>2 DEF PipelineInv, EventsArrived
  <2> QED
    BY <2>3 DEF PipelineInv, LogInPlace
<1>4. AllLined(from, upto)'
  <2> SUFFICES ASSUME NEW s \in Source
               PROVE  Lined(Line(s), s, Done(s, from), upto[s])'
    BY DEF AllLined
  <2>1. Line(s)' = Line(s)
    BY DEF Line, Hand
  <2>2. Lined(Line(s), s, Done(s, from)', upto[s])
    BY <1>2, LinedMore DEF PipelineInv, AllLined
  <2> QED
    BY <2>1, <2>2
<1>5. CheckpointDone(from)'
  BY <1>2 DEF PipelineInv, CheckpointDone
<1> QED
  BY <1>3, <1>4, <1>5 DEF PipelineInv

LEMMA PipelineIdle ==
  ASSUME TypeOK, TypeOK', UNCHANGED vars,
         NEW from \in [Source -> Nat], NEW upto \in [Source -> Nat],
         PipelineInv(from, upto)
  PROVE  PipelineInv(from, upto)'
<1>1. /\ UNCHANGED <<sent, inbox, batch, applyQueue, current, applyAt, checkpoint, dropped>>
      /\ UNCHANGED <<store, rows, loaded>>
  BY DEF vars, sourceVars, ingestVars, applyVars, viewVars, historyVars
<1>2. StoreGrows
  BY <1>1 DEF StoreGrows
<1>3. LoadedAccepted' /\ HandReflected'
  BY <1>1 DEF PipelineInv, LoadedAccepted, HandReflected, Reflected
<1>4. Arrived(from, upto)' = Arrived(from, upto)
  BY <1>1 DEF Arrived, ArrivedAt
<1>5. StoreArrived(from, upto)'
  BY <1>1, <1>4 DEF PipelineInv, StoreArrived, Seeded
<1> QED
  BY <1>1, <1>2, <1>3, <1>5, PipelineKept

-----------------------------------------------------------------------------
(***************************************************************************)
(* Steps that move an event and leave the logs and the store alone.        *)
(***************************************************************************)
Moving ==
  /\ UNCHANGED <<sent, store, rows, loaded>>
  /\ dropped \subseteq dropped'

LEMMA MovingDone ==
  ASSUME TypeOK, TypeOK', Moving, NEW s \in Source, NEW from
  PROVE  Done(s, from) \subseteq Done(s, from)'
<1>1. StoreGrows /\ LogGrows
  BY DEF Moving, StoreGrows, LogGrows
<1> QED
  BY <1>1, DoneGrows DEF Moving

LEMMA MovingArrived ==
  ASSUME Moving, NEW from, NEW upto
  PROVE  /\ \A s \in Source : ArrivedAt(s, from, upto)' = ArrivedAt(s, from, upto)
         /\ Arrived(from, upto)' = Arrived(from, upto)
<1>1. \A s \in Source : ArrivedAt(s, from, upto)' = ArrivedAt(s, from, upto)
  BY DEF ArrivedAt, Moving
<1> QED
  BY <1>1 DEF Arrived

LEMMA PipelineMoved ==
  ASSUME TypeOK, TypeOK', Moving,
         NEW from \in [Source -> Nat], NEW upto \in [Source -> Nat],
         PipelineInv(from, upto),
         EventsArrived(from, upto)', HandReflected',
         \A s \in Source : Lined(Line(s)', s, Done(s, from), upto[s])
                             \/ Lined(Line(s)', s, Done(s, from)', upto[s]),
         CheckpointDone(from)' \/ checkpoint' = checkpoint
  PROVE  PipelineInv(from, upto)'
<1>1. /\ LogInPlace'
      /\ LoadedAccepted'
  BY DEF PipelineInv, LogInPlace, LoadedAccepted, Moving
<1>2. StoreArrived(from, upto)'
  BY MovingArrived DEF PipelineInv, StoreArrived, Seeded, Moving
<1>3. AllLined(from, upto)'
  <2> SUFFICES ASSUME NEW s \in Source
               PROVE  Lined(Line(s), s, Done(s, from), upto[s])'
    BY DEF AllLined
  <2>1. CASE Lined(Line(s)', s, Done(s, from), upto[s])
    <3>1. Lined(Line(s)', s, Done(s, from)', upto[s])
      BY <2>1, MovingDone, LinedMore
    <3> QED
      BY <3>1
  <2> QED
    BY <2>1
<1>4. CheckpointDone(from)'
  BY MovingDone DEF PipelineInv, CheckpointDone
<1> QED
  BY <1>1, <1>2, <1>3, <1>4 DEF PipelineInv

\* What arrived is an event of the source it arrived from.
LEMMA PipelineEvents ==
  ASSUME TypeOK, NEW from \in [Source -> Nat], NEW upto \in [Source -> Nat],
         PipelineInv(from, upto)
  PROVE  /\ \A s \in Source : upto[s] \in from[s] .. Len(sent[s])
         /\ Arrived(from, upto) \subseteq UpsertEvent
         /\ \A s \in Source : \A e \in ArrivedAt(s, from, upto) : e.source = s
         /\ \A e \in Arrived(from, upto) :
              /\ e.source \in Source
              /\ e.position \in from[e.source] + 1 .. upto[e.source]
              /\ e = sent[e.source][e.position]
<1>1. LogInPlace /\ \A s \in Source : upto[s] \in from[s] .. Len(sent[s])
  BY DEF PipelineInv, EventsArrived
<1>2. ASSUME NEW s \in Source, NEW i \in from[s] + 1 .. upto[s]
      PROVE  sent[s][i] \in UpsertEvent /\ sent[s][i].source = s /\ sent[s][i].position = i
  <2>1. /\ from[s] \in Nat /\ upto[s] \in Nat /\ upto[s] <= Len(sent[s])
        /\ sent[s] \in Seq(UpsertEvent)
    BY <1>1 DEF TypeOK
  <2>2. i \in DOMAIN sent[s]
    BY <2>1
  <2> QED
    BY <1>1, <2>1, <2>2 DEF LogInPlace
<1>3. \A s \in Source : \A e \in ArrivedAt(s, from, upto) :
        /\ e \in UpsertEvent
        /\ e.source = s
        /\ e.position \in from[s] + 1 .. upto[s]
        /\ e = sent[s][e.position]
  BY <1>2 DEF ArrivedAt
<1> QED
  BY <1>1, <1>3 DEF Arrived

LEMMA PipelinePoll ==
  ASSUME TypeOK, TypeOK', BatchOffered, Poll,
         NEW from \in [Source -> Nat], NEW upto \in [Source -> Nat],
         PipelineInv(from, upto)
  PROVE  PipelineInv(from, upto)'
<1> DEFINE q == inbox[polling]
           n == Smaller(MaxBatch, Len(q))
           x == Hand \o applyQueue
<1>1. /\ polling \in Source /\ q \in Events
      /\ Len(q) \in Nat /\ n \in 0 .. Len(q)
  BY ArgumentsAssumption DEF TypeOK, Smaller, Events
<1>2. /\ batch = <<>> /\ batch' = SubSeq(q, 1, n)
      /\ inbox'[polling] = SubSeq(q, n + 1, Len(q))
      /\ \A s \in Source : s # polling => inbox'[s] = inbox[s]
      /\ UNCHANGED <<sent, applyQueue, current, applyAt, checkpoint>>
  BY DEF Poll, BatchOffered, TypeOK, applyVars
<1>3. Moving /\ HandReflected'
  BY DEF Poll, Moving, viewVars, historyVars, applyVars, PipelineInv, HandReflected, Reflected
<1> HIDE DEF n
<1>4. EventsArrived(from, upto)'
  <2>1. q \in Seq(ArrivedAt(polling, from, upto))
    BY <1>1 DEF PipelineInv, EventsArrived
  <2>2. /\ batch' \in Seq(ArrivedAt(polling, from, upto))
        /\ inbox'[polling] \in Seq(ArrivedAt(polling, from, upto))
    BY <1>1, <1>2, <2>1
  <2>3. ArrivedAt(polling, from, upto) \subseteq Arrived(from, upto)
    BY <1>1 DEF Arrived
  <2>4. batch' \in Seq(Arrived(from, upto))
    BY <2>2, <2>3, SeqMonotonic
  <2>5. \A s \in Source : inbox'[s] \in Seq(ArrivedAt(s, from, upto))
    BY <1>2, <2>2 DEF PipelineInv, EventsArrived
  <2> QED
    BY <1>2, <1>3, <2>4, <2>5, MovingArrived DEF PipelineInv, EventsArrived
<1>5. ASSUME NEW s \in Source
      PROVE  Lined(Line(s)', s, Done(s, from), upto[s])
  <2>1. /\ x \in Events /\ inbox[s] \in Events
        /\ x \o <<>> = x
    BY AssumedTypes, ConcatProperties, ConcatEmptySeq DEF Events
  <2>2. /\ Lined(x \o inbox[s], s, Done(s, from), upto[s])
        /\ Line(s)' = (x \o SubSeq(q, 1, n)) \o inbox'[s]
    BY <1>2, <2>1 DEF Line, Hand, PipelineInv, AllLined
  <2>3. CASE s = polling
    <3>1. (x \o SubSeq(q, 1, n)) \o SubSeq(q, n + 1, Len(q)) = x \o q
      BY <1>1, <2>1, PolledLine
    <3> QED
      BY <1>2, <2>2, <2>3, <3>1
  <2>4. CASE s # polling
    <3>1. SubSeq(q, 1, n) \in Events
      BY <1>1, PolledLine
    <3>2. \A m \in DOMAIN SubSeq(q, 1, n) : SubSeq(q, 1, n)[m].source # s
      <4>1. q \in Seq(ArrivedAt(polling, from, upto))
        BY <1>1 DEF PipelineInv, EventsArrived
      <4>2. SubSeq(q, 1, n) \in Seq(ArrivedAt(polling, from, upto))
        BY <1>1, <4>1
      <4>3. \A r \in Source : \A e \in ArrivedAt(r, from, upto) : e.source = r
        BY PipelineEvents
      <4>4. ASSUME NEW z \in Seq(ArrivedAt(polling, from, upto)), NEW m \in DOMAIN z
            PROVE  z[m] \in ArrivedAt(polling, from, upto)
        OBVIOUS
      <4> QED
        BY <1>1, <2>4, <4>2, <4>3, <4>4
    <3>3. Lined((x \o SubSeq(q, 1, n)) \o inbox[s], s, Done(s, from), upto[s])
      BY <2>1, <2>2, <3>1, <3>2, LinedOthers
    <3> QED
      BY <1>2, <2>2, <2>4, <3>3
  <2> QED
    BY <2>3, <2>4
<1> QED
  BY <1>2, <1>3, <1>4, <1>5, PipelineMoved

LEMMA PipelineOfferAccepted ==
  ASSUME TypeOK, TypeOK', OfferAccepted,
         NEW from \in [Source -> Nat], NEW upto \in [Source -> Nat],
         PipelineInv(from, upto)
  PROVE  PipelineInv(from, upto)'
<1>1. /\ batch # <<>> /\ batch' = Tail(batch)
      /\ applyQueue' = Append(applyQueue, Head(batch))
      /\ UNCHANGED <<sent, inbox, current, applyAt, checkpoint>>
  BY DEF OfferAccepted, sourceVars, applyVars
<1>2. Moving /\ HandReflected'
  BY DEF OfferAccepted, Moving, sourceVars, viewVars, historyVars, applyVars,
         PipelineInv, HandReflected, Reflected
<1>3. EventsArrived(from, upto)'
  <2>1. /\ batch \in Seq(Arrived(from, upto)) /\ applyQueue \in Seq(Arrived(from, upto))
    BY DEF PipelineInv, EventsArrived
  <2>2. /\ batch' \in Seq(Arrived(from, upto)) /\ applyQueue' \in Seq(Arrived(from, upto))
    BY <1>1, <2>1
  <2> QED
    BY <1>1, <1>2, <2>2, MovingArrived DEF PipelineInv, EventsArrived
<1>4. ASSUME NEW s \in Source
      PROVE  Lined(Line(s)', s, Done(s, from), upto[s])
  <2>1. (Hand \o applyQueue') \o batch' = (Hand \o applyQueue) \o batch
    BY <1>1, OfferedLine, AssumedTypes
  <2>2. Line(s)' = Line(s)
    BY <1>1, <2>1 DEF Line, Hand
  <2> QED
    BY <2>2 DEF PipelineInv, AllLined
<1> QED
  BY <1>1, <1>2, <1>3, <1>4, PipelineMoved

\* A dropped event leaves the line, and is done.
LEMMA PipelineOfferDropped ==
  ASSUME TypeOK, TypeOK', OfferDropped,
         NEW from \in [Source -> Nat], NEW upto \in [Source -> Nat],
         PipelineInv(from, upto)
  PROVE  PipelineInv(from, upto)'
<1> DEFINE e == Head(batch)
           x == Hand \o applyQueue
<1>1. /\ batch # <<>> /\ batch' = Tail(batch)
      /\ dropped' = dropped \cup {<<e.source, e.position>>}
      /\ UNCHANGED <<sent, store, inbox, applyQueue, current, applyAt, checkpoint>>
  BY DEF OfferDropped, sourceVars, viewVars, applyVars
<1>2. Moving /\ HandReflected'
  BY DEF OfferDropped, Moving, sourceVars, viewVars, historyVars, applyVars,
         PipelineInv, HandReflected, Reflected
<1>3. /\ e \in Arrived(from, upto) /\ Tail(batch) \in Seq(Arrived(from, upto))
      /\ e \in UpsertEvent /\ <<e>> \in Events /\ Tail(batch) \in Events
      /\ <<e>> \o Tail(batch) = batch
  <2>1. batch \in Seq(Arrived(from, upto)) /\ batch \in Seq(UpsertEvent)
    BY DEF PipelineInv, EventsArrived, TypeOK
  <2> QED
    BY <1>1, <2>1, HeadAndTail, LineOfOne DEF Events
<1> HIDE DEF e
<1>4. EventsArrived(from, upto)'
  BY <1>1, <1>2, <1>3, MovingArrived DEF PipelineInv, EventsArrived
<1>5. ASSUME NEW s \in Source
      PROVE  Lined(Line(s)', s, Done(s, from)', upto[s])
  <2>1. x \in Events /\ inbox[s] \in Events
    BY AssumedTypes, ConcatProperties DEF Events
  <2> HIDE DEF x
  <2>2. Line(s) = (x \o (<<e>> \o Tail(batch))) \o inbox[s]
    BY <1>3 DEF Line, x
  <2>3. Line(s)' = (x \o Tail(batch)) \o inbox[s]
    BY <1>1 DEF Line, Hand, x
  <2>4. /\ Line(s) = (x \o <<e>>) \o (Tail(batch) \o inbox[s])
        /\ Line(s)' = x \o (Tail(batch) \o inbox[s])
        /\ Tail(batch) \o inbox[s] \in Events
    <3>1. /\ (x \o (<<e>> \o Tail(batch))) \o inbox[s]
               = (x \o <<e>>) \o (Tail(batch) \o inbox[s])
          /\ (x \o Tail(batch)) \o inbox[s] = x \o (Tail(batch) \o inbox[s])
          /\ Tail(batch) \o inbox[s] \in Events
      BY <1>3, <2>1, DroppedLine
    <3> QED
      BY <2>2, <2>3, <3>1
  <2>5. Lined(Line(s), s, Done(s, from)', upto[s])
    BY <1>2, MovingDone, LinedMore DEF PipelineInv, AllLined
  <2>6. e.source = s => e.position \in Done(s, from)'
    <3> SUFFICES ASSUME e.source = s PROVE e.position \in Done(s, from)'
      OBVIOUS
    <3>1. /\ e.position \in from[s] + 1 .. upto[s]
          /\ upto[s] \in from[s] .. Len(sent[s])
      BY <1>3, PipelineEvents
    <3>2. from[s] \in Nat /\ upto[s] \in Nat /\ sent[s] \in Seq(UpsertEvent)
      BY AssumedTypes DEF Events
    <3>3. e.position \in DOMAIN sent[s]
      BY <3>1, <3>2
    <3> QED
      BY <1>1, <3>3 DEF Done
  <2> QED
    BY <1>3, <2>1, <2>4, <2>5, <2>6, LinedDeparture
<1> QED
  BY <1>1, <1>2, <1>4, <1>5, PipelineMoved

LEMMA PipelineTake ==
  ASSUME TypeOK, TypeOK', Take,
         NEW from \in [Source -> Nat], NEW upto \in [Source -> Nat],
         PipelineInv(from, upto)
  PROVE  PipelineInv(from, upto)'
<1>1. /\ applyQueue # <<>> /\ applyQueue' = Tail(applyQueue)
      /\ current = None /\ current' = Head(applyQueue)
      /\ applyAt' = "evaluate"
      /\ UNCHANGED <<sent, inbox, batch, checkpoint>>
  BY DEF Take, TypeOK, sourceVars, ingestVars
<1>2. Moving /\ HandReflected'
  BY DEF Take, Moving, sourceVars, viewVars, historyVars, HandReflected
<1>3. /\ current' \in Arrived(from, upto) /\ applyQueue' \in Seq(Arrived(from, upto))
      /\ current' \in UpsertEvent /\ applyQueue' \in Events
      /\ <<current'>> \o applyQueue' = applyQueue
  <2>1. applyQueue \in Seq(Arrived(from, upto)) /\ applyQueue \in Seq(UpsertEvent)
    BY DEF PipelineInv, EventsArrived, TypeOK
  <2> QED
    BY <1>1, <2>1, HeadAndTail DEF Events
<1>4. EventsArrived(from, upto)'
  BY <1>1, <1>2, <1>3, MovingArrived DEF PipelineInv, EventsArrived
<1>5. ASSUME NEW s \in Source
      PROVE  Lined(Line(s)', s, Done(s, from), upto[s])
  <2>1. Hand \o applyQueue = applyQueue
    BY <1>1, AssumedTypes, ConcatEmptySeq DEF Hand, Events
  <2>2. Hand' = <<current'>>
    BY <1>3, NoEventAssumption DEF Hand
  <2>3. Line(s)' = Line(s)
    BY <1>1, <1>3, <2>1, <2>2 DEF Line
  <2> QED
    BY <2>3 DEF PipelineInv, AllLined
<1> QED
  BY <1>1, <1>2, <1>4, <1>5, PipelineMoved

\* The event in hand is reflected when it is let go, and so is done.
LEMMA HandLetGo ==
  ASSUME TypeOK, TypeOK', Moving,
         NEW from \in [Source -> Nat], NEW upto \in [Source -> Nat],
         PipelineInv(from, upto),
         current # None, Reflected(current), current' = None,
         UNCHANGED <<inbox, batch, applyQueue>>
  PROVE  /\ EventsArrived(from, upto)'
         /\ \A s \in Source : Lined(Line(s)', s, Done(s, from), upto[s])
         /\ current.source \in Source
         /\ 1 .. current.position \subseteq Done(current.source, from)
<1> DEFINE behind(s) == (applyQueue \o batch) \o inbox[s]
<1>1. /\ current \in UpsertEvent /\ current \in Arrived(from, upto)
      /\ current.source \in Source
  BY DEF PipelineInv, EventsArrived, TypeOK, UpsertEvent
<1>2. current.position \in Done(current.source, from)
  BY <1>1, ArrivedDone DEF PipelineInv, EventsArrived
<1>3. EventsArrived(from, upto)'
  BY MovingArrived DEF PipelineInv, EventsArrived, Moving
<1>4. ASSUME NEW s \in Source
      PROVE  /\ behind(s) \in Events
             /\ Line(s) = <<current>> \o behind(s)
             /\ Line(s)' = <<>> \o behind(s)
             /\ Lined(Line(s), s, Done(s, from), upto[s])
             /\ <<>> \o <<current>> = <<current>>
             /\ <<>> \in Events
  <2>1. /\ Line(s) = ((<<current>> \o applyQueue) \o batch) \o inbox[s]
        /\ Line(s)' = ((<<>> \o applyQueue) \o batch) \o inbox[s]
    BY DEF Line, Hand
  <2>2. /\ behind(s) \in Events
        /\ ((<<current>> \o applyQueue) \o batch) \o inbox[s] = <<current>> \o behind(s)
        /\ ((<<>> \o applyQueue) \o batch) \o inbox[s] = <<>> \o behind(s)
        /\ <<>> \o <<current>> = <<current>>
    BY <1>1, AssumedTypes, FrontLine
  <2>3. Lined(Line(s), s, Done(s, from), upto[s])
    BY DEF PipelineInv, AllLined
  <2>4. <<>> \in Events
    BY DEF Events
  <2> QED
    BY <2>1, <2>2, <2>3, <2>4
<1> HIDE DEF behind
<1>5. ASSUME NEW s \in Source
      PROVE  Lined(Line(s)', s, Done(s, from), upto[s])
  <2>1. Lined((<<>> \o <<current>>) \o behind(s), s, Done(s, from), upto[s])
    BY <1>4
  <2>2. Lined(<<>> \o behind(s), s, Done(s, from), upto[s])
    BY <1>1, <1>2, <1>4, <2>1, LinedDeparture
  <2> QED
    BY <1>4, <2>2
<1>6. 1 .. current.position \subseteq Done(current.source, from)
  <2>1. Lined(<<current>> \o behind(current.source), current.source,
              Done(current.source, from), upto[current.source])
    BY <1>1, <1>4
  <2>2. 1 .. current.position \subseteq Done(current.source, from) \cup {current.position}
    BY <1>1, <1>4, <2>1, LinedFirst
  <2> QED
    BY <1>2, <2>2
<1> QED
  BY <1>1, <1>3, <1>5, <1>6

LEMMA PipelineThrew ==
  ASSUME TypeOK, TypeOK', PublishThrew,
         NEW from \in [Source -> Nat], NEW upto \in [Source -> Nat],
         PipelineInv(from, upto)
  PROVE  PipelineInv(from, upto)'
<1>1. /\ current # None /\ current' = None /\ applyAt = "publishing"
      /\ applyAt' \in {"dead", "idle"}
      /\ UNCHANGED <<inbox, batch, applyQueue, checkpoint>>
  BY DEF PublishThrew, Conclude, TypeOK, sourceVars, ingestVars
<1>2. Moving /\ HandReflected' /\ Reflected(current)
  BY <1>1 DEF PublishThrew, Moving, sourceVars, viewVars, PipelineInv, HandReflected
<1> QED
  BY <1>1, <1>2, HandLetGo, PipelineMoved

\* Everything of its source before the event in hand is done.
LEMMA PipelineSave ==
  ASSUME TypeOK, TypeOK', SaveCheckpoint,
         NEW from \in [Source -> Nat], NEW upto \in [Source -> Nat],
         PipelineInv(from, upto)
  PROVE  PipelineInv(from, upto)'
<1>1. /\ current # None /\ current' = None /\ applyAt = "saving"
      /\ applyAt' = "take"
      /\ checkpoint' = [checkpoint EXCEPT ![current.source] = current.position]
      /\ UNCHANGED <<inbox, batch, applyQueue>>
  BY DEF SaveCheckpoint, TypeOK, sourceVars, ingestVars
<1>2. Moving /\ HandReflected' /\ Reflected(current)
  BY <1>1 DEF SaveCheckpoint, Moving, sourceVars, viewVars, historyVars, PipelineInv,
              HandReflected
<1>3. 1 .. current.position \subseteq Done(current.source, from)
  BY <1>1, <1>2, HandLetGo
<1>4. CheckpointDone(from)'
  <2> SUFFICES ASSUME NEW s \in Source
               PROVE  1 .. checkpoint'[s] \subseteq Done(s, from)'
    BY DEF CheckpointDone
  <2>1. 1 .. checkpoint'[s] \subseteq Done(s, from)
    BY <1>1, <1>3, AssumedTypes DEF PipelineInv, CheckpointDone
  <2> QED
    BY <1>2, <2>1, MovingDone
<1> QED
  BY <1>1, <1>2, <1>4, HandLetGo, PipelineMoved

LEMMA PipelineIngest ==
  ASSUME TypeOK, TypeOK', BatchOffered, IngestStep,
         NEW from \in [Source -> Nat], NEW upto \in [Source -> Nat],
         PipelineInv(from, upto)
  PROVE  PipelineInv(from, upto)'
<1>1. CASE IngestOnce \/ SourceDone
  <2>1. /\ UNCHANGED <<sent, inbox, batch, applyQueue, current, applyAt, checkpoint, dropped>>
        /\ UNCHANGED <<store, rows, loaded>>
    BY <1>1 DEF IngestOnce, SourceDone, sourceVars, applyVars, viewVars, historyVars
  <2>2. Moving /\ StoreGrows
    BY <2>1 DEF Moving, StoreGrows
  <2>3. StoreArrived(from, upto)' /\ LoadedAccepted' /\ HandReflected'
    BY <2>1, <2>2, MovingArrived
    DEF PipelineInv, StoreArrived, Seeded, LoadedAccepted, HandReflected, Reflected
  <2> QED
    BY <2>1, <2>2, <2>3, PipelineKept
<1> QED
  BY <1>1, PipelinePoll, PipelineOfferAccepted, PipelineOfferDropped DEF IngestStep

-----------------------------------------------------------------------------
(***************************************************************************)
(* The apply path.                                                         *)
(***************************************************************************)
LEMMA PipelineLoadRow ==
  ASSUME StoreInv, TypeOK', LoadRow,
         NEW from \in [Source -> Nat], NEW upto \in [Source -> Nat],
         PipelineInv(from, upto)
  PROVE  PipelineInv(from, upto)'
<1> DEFINE row == rows[loaded + 1]
<1>1. /\ UNCHANGED <<sent, inbox, batch, applyQueue, current, applyAt, checkpoint, dropped>>
      /\ rows' = rows /\ loaded' = loaded + 1 /\ loaded \in Nat
      /\ loaded + 1 \in DOMAIN rows
  BY SnapshotsAssumption
  DEF LoadRow, StoreInv, TypeOK, sourceVars, ingestVars, applyVars, historyVars
<1>2. /\ row.key \notin DOMAIN store /\ row.version > 0
      /\ store' = Put(store, row.key, RecordOf(row))
  BY NextRow
<1>3. StoreGrows
  BY LoadGrows
<1>4. LoadedAccepted'
  BY <1>1, <1>2 DEF PipelineInv, LoadedAccepted
<1>5. HandReflected'
  BY <1>1 DEF LoadRow, HandReflected
<1>6. Arrived(from, upto)' = Arrived(from, upto)
  BY <1>1 DEF Arrived, ArrivedAt
<1>7. StoreArrived(from, upto)'
  <2> SUFFICES ASSUME NEW k \in DOMAIN store'
               PROVE  \/ Seeded(k)'
                      \/ \E e \in Arrived(from, upto) : e.key = k /\ RecordOf(e) = store'[k]
    BY <1>6 DEF StoreArrived
  <2>1. CASE k = row.key
    BY <1>1, <1>2, <2>1 DEF Put, Seeded
  <2>2. CASE k # row.key
    <3>1. k \in DOMAIN store /\ store'[k] = store[k]
      BY <1>2, <2>2 DEF Put
    <3> QED
      BY <1>1, <3>1 DEF PipelineInv, StoreArrived, Seeded
  <2> QED
    BY <2>1, <2>2
<1> QED
  BY <1>1, <1>3, <1>4, <1>5, <1>7, PipelineKept DEF StoreInv

LEMMA PipelineApplyUpsert ==
  ASSUME StoreInv, TypeOK', ApplyUpsert,
         NEW from \in [Source -> Nat], NEW upto \in [Source -> Nat],
         PipelineInv(from, upto)
  PROVE  PipelineInv(from, upto)'
<1>1. /\ UNCHANGED <<sent, inbox, batch, applyQueue, current, checkpoint, dropped>>
      /\ UNCHANGED <<rows, loaded>>
      /\ store' = Put(store, current.key, RecordOf(current))
  BY DEF ApplyUpsert, sourceVars, ingestVars, historyVars
<1>2. current \in Arrived(from, upto) /\ current \in UpsertEvent
  BY DEF ApplyUpsert, StoreInv, TypeOK, PipelineInv, EventsArrived
<1>3. StoreGrows
  BY ApplyGrows
<1>4. LoadedAccepted'
  BY <1>1 DEF PipelineInv, LoadedAccepted
<1>5. HandReflected'
  <2>1. VersionIn(store', current.key) = current.version /\ current.version \in Int
    BY <1>1, <1>2, MaxVersionAssumption DEF Put, VersionIn, RecordOf, UpsertEvent, Version
  <2> QED
    BY <1>1, <2>1 DEF HandReflected, Reflected
<1>6. Arrived(from, upto)' = Arrived(from, upto)
  BY <1>1 DEF Arrived, ArrivedAt
<1>7. StoreArrived(from, upto)'
  <2> SUFFICES ASSUME NEW k \in DOMAIN store'
               PROVE  \/ Seeded(k)'
                      \/ \E e \in Arrived(from, upto) : e.key = k /\ RecordOf(e) = store'[k]
    BY <1>6 DEF StoreArrived
  <2>1. CASE k = current.key
    BY <1>1, <1>2, <2>1 DEF Put
  <2>2. CASE k # current.key
    <3>1. k \in DOMAIN store /\ store'[k] = store[k]
      BY <1>1, <2>2 DEF Put
    <3> QED
      BY <1>1, <3>1 DEF PipelineInv, StoreArrived, Seeded
  <2> QED
    BY <2>1, <2>2
<1> QED
  BY <1>1, <1>3, <1>4, <1>5, <1>7, PipelineKept DEF StoreInv

\* What the gate does not apply is there already.
LEMMA SkippedReflected ==
  ASSUME TypeOK, SkipUpsert
  PROVE  Reflected(current)
<1>1. current \in UpsertEvent /\ ~Supersedes(store, current)
  BY DEF SkipUpsert, Evaluate, TypeOK
<1>2. current.key \in DOMAIN store /\ ~(current.version > store[current.key].version)
  BY <1>1 DEF Supersedes
<1>3. store[current.key].version \in Int /\ current.version \in Int
  BY <1>1, <1>2, MaxVersionAssumption DEF TypeOK, IsView, StateRecord, UpsertEvent, Version
<1> QED
  BY <1>2, <1>3 DEF Reflected, VersionIn

LEMMA PipelineApply ==
  ASSUME StoreInv, TypeOK', ApplyStep,
         NEW from \in [Source -> Nat], NEW upto \in [Source -> Nat],
         PipelineInv(from, upto)
  PROVE  PipelineInv(from, upto)'
<1>1. CASE \/ LoadRejected \/ LoadDone \/ ProcessOnce \/ ProcessReturns
           \/ SkipUpsert \/ PublishAttempt \/ PublishReturned
  <2>1. /\ UNCHANGED <<sent, inbox, batch, applyQueue, current, checkpoint, dropped>>
        /\ UNCHANGED <<store, rows, loaded>>
    BY <1>1
    DEF LoadRejected, LoadDone, ProcessOnce, ProcessReturns, SkipUpsert, PublishAttempt,
        PublishReturned, sourceVars, ingestVars, applyVars, viewVars, historyVars
  <2>2. Moving /\ StoreGrows
    BY <2>1 DEF Moving, StoreGrows
  <2>3. \/ applyAt' \notin {"publishing", "saving"}
        \/ applyAt \in {"publishing", "saving"}
        \/ SkipUpsert
    BY <1>1
    DEF LoadRejected, LoadDone, ProcessOnce, ProcessReturns, SkipUpsert, PublishAttempt,
        PublishReturned, Conclude, applyVars, StoreInv, TypeOK
  <2>4. HandReflected'
    BY <2>1, <2>3, SkippedReflected DEF PipelineInv, HandReflected, Reflected, StoreInv
  <2>5. StoreArrived(from, upto)' /\ LoadedAccepted'
    BY <2>1, <2>2, MovingArrived DEF PipelineInv, StoreArrived, Seeded, LoadedAccepted
  <2> QED
    BY <2>1, <2>2, <2>4, <2>5, PipelineKept DEF StoreInv
<1> QED
  BY <1>1, PipelineLoadRow, PipelineApplyUpsert, PipelineTake, PipelineThrew, PipelineSave
  DEF ApplyStep, StoreInv

-----------------------------------------------------------------------------
(***************************************************************************)
(* The sources.  What is delivered is the next record of the log or one    *)
(* that has arrived before.                                                *)
(***************************************************************************)
Arrival(s, e, from, upto, now) ==
  /\ Accept(s, e)
  /\ UNCHANGED <<store, rows, loaded, batch, applyQueue, applyAt, current,
                 checkpoint, dropped>>
  /\ LogGrows /\ LogInPlace'
  /\ \A r \in Source : now[r] <= Len(sent'[r]) /\ (r # s => now[r] = upto[r])
  /\ \/ now[s] = upto[s] + 1 /\ e.position = now[s]
     \/ now[s] = upto[s] /\ e.position <= upto[s]
  /\ e.source = s /\ e \in ArrivedAt(s, from, now)'

LEMMA PipelineArrival ==
  ASSUME TypeOK, TypeOK',
         NEW from \in [Source -> Nat], NEW upto \in [Source -> Nat],
         NEW now \in [Source -> Nat],
         PipelineInv(from, upto),
         NEW s \in Source, NEW e \in UpsertEvent, Arrival(s, e, from, upto, now)
  PROVE  PipelineInv(from, now)'
<1> USE DEF Arrival
<1>1. /\ inbox'[s] = Append(inbox[s], e)
      /\ \A r \in Source : r # s => inbox'[r] = inbox[r]
  BY AssumedTypes DEF Accept
<1>2. \A r \in Source : /\ upto[r] \in from[r] .. Len(sent[r])
                        /\ upto[r] <= now[r]
                        /\ now[r] \in from[r] .. Len(sent'[r])
  <2>1. \A r \in Source : upto[r] \in from[r] .. Len(sent[r])
    BY PipelineEvents
  <2>2. ASSUME NEW r \in Source
        PROVE  /\ from[r] \in Nat /\ upto[r] \in Nat /\ now[r] \in Nat
               /\ Len(sent[r]) \in Nat /\ Len(sent'[r]) \in Nat
               /\ upto[r] <= now[r]
    <3>1. from[r] \in Nat /\ upto[r] \in Nat /\ now[r] \in Nat
      OBVIOUS
    <3>2. sent[r] \in Seq(UpsertEvent) /\ sent'[r] \in Seq(UpsertEvent)
      BY DEF TypeOK
    <3>3. upto[r] <= now[r]
      <4>1. CASE r = s
        BY <3>1, <4>1
      <4>2. CASE r # s
        BY <3>1, <4>2
      <4> QED
        BY <4>1, <4>2
    <3> QED
      BY <3>1, <3>2, <3>3
  <2> QED
    BY <2>1, <2>2
<1>3. /\ \A r \in Source : ArrivedAt(r, from, upto) \subseteq ArrivedAt(r, from, now)'
      /\ Arrived(from, upto) \subseteq Arrived(from, now)'
  BY <1>2, ArrivedGrows
<1>4. EventsArrived(from, now)'
  <2>1. /\ batch \in Seq(Arrived(from, now)')
        /\ applyQueue \in Seq(Arrived(from, now)')
        /\ \A r \in Source : inbox[r] \in Seq(ArrivedAt(r, from, now)')
    <3>1. /\ batch \in Seq(Arrived(from, upto)) /\ applyQueue \in Seq(Arrived(from, upto))
          /\ \A r \in Source : inbox[r] \in Seq(ArrivedAt(r, from, upto))
      BY DEF PipelineInv, EventsArrived
    <3>2. Seq(Arrived(from, upto)) \subseteq Seq(Arrived(from, now)')
      BY <1>3, SeqMonotonic
    <3>3. \A r \in Source :
            Seq(ArrivedAt(r, from, upto)) \subseteq Seq(ArrivedAt(r, from, now)')
      BY <1>3, SeqMonotonic
    <3> QED
      BY <3>1, <3>2, <3>3
  <2>2. ASSUME NEW r \in Source
        PROVE  inbox'[r] \in Seq(ArrivedAt(r, from, now)')
    <3>1. Append(inbox[s], e) \in Seq(ArrivedAt(s, from, now)')
      BY <2>1, AppendProperties
    <3>2. CASE r = s
      BY <1>1, <3>1, <3>2
    <3>3. CASE r # s
      BY <1>1, <2>1, <3>3
    <3> QED
      BY <3>2, <3>3
  <2>3. current \in Arrived(from, now)' \cup {None}
    BY <1>3 DEF PipelineInv, EventsArrived
  <2> QED
    BY <1>2, <2>1, <2>2, <2>3 DEF EventsArrived
<1>5. StoreArrived(from, now)'
  BY <1>3 DEF PipelineInv, StoreArrived, Seeded
<1>6. ASSUME NEW r \in Source PROVE Done(r, from) \subseteq Done(r, from)'
  <2>1. StoreGrows
    BY DEF StoreGrows
  <2> QED
    BY <2>1, DoneGrows
<1>7. AllLined(from, now)'
  <2> SUFFICES ASSUME NEW r \in Source
               PROVE  Lined(Line(r)', r, Done(r, from)', now[r])
    BY DEF AllLined
  <2>1. Lined(Line(r), r, Done(r, from)', upto[r])
    BY <1>6, LinedMore DEF PipelineInv, AllLined
  <2>2. CASE r # s
    <3>1. Line(r)' = Line(r)
      BY <1>1, <2>2 DEF Line, Hand
    <3> QED
      BY <2>1, <2>2, <3>1
  <2>3. CASE r = s
    <3>1. Append(inbox[s], e) = inbox[s] \o <<e>> /\ <<e>> \in Events
      <4>1. inbox[s] \in Seq(UpsertEvent)
        BY DEF TypeOK
      <4>2. Append(inbox[s], e) = inbox[s] \o <<e>>
        BY <4>1, AppendIsConcat
      <4>3. <<e>> \in Events
        BY LineOfOne
      <4> QED
        BY <4>2, <4>3
    <3>2. (Hand \o applyQueue) \o batch \in Events
      <4>1. Hand \o applyQueue \in Events
        BY AssumedTypes, ConcatProperties DEF Events
      <4> QED
        BY <4>1, AssumedTypes, ConcatProperties DEF Events
    <3>3. Line(s)' = ((Hand \o applyQueue) \o batch) \o (inbox[s] \o <<e>>)
      BY <1>1, <3>1 DEF Line, Hand
    <3>4. Line(s)' = Line(s) \o <<e>>
      <4>1. PICK h \in Events, u \in Events, o \in Events :
              h = (Hand \o applyQueue) \o batch /\ u = inbox[s] /\ o = <<e>>
        BY <3>1, <3>2, AssumedTypes
      <4>2. (h \o u) \o o = h \o (u \o o)
        BY Associative
      <4> QED
        BY <3>3, <4>1, <4>2 DEF Line
    <3>5. upto[s] \in Nat /\ now[s] \in Nat
      OBVIOUS
    <3> QED
      BY <2>1, <2>3, <3>4, <3>5, LineTyped, LinedArrival
  <2> QED
    BY <2>2, <2>3
<1>8. LoadedAccepted' /\ HandReflected' /\ CheckpointDone(from)'
  BY <1>6 DEF PipelineInv, LoadedAccepted, HandReflected, Reflected, CheckpointDone
<1> QED
  BY <1>4, <1>5, <1>7, <1>8 DEF PipelineInv

LEMMA SendAppends ==
  ASSUME TypeOK, TypeOK', LogInPlace, NEW s \in Source, Send(s)
  PROVE  /\ LogGrows /\ LogInPlace'
         /\ Len(sent'[s]) = Len(sent[s]) + 1
         /\ \A r \in Source : r # s => sent'[r] = sent[r]
         /\ LET e == sent'[s][Len(sent[s]) + 1] IN
              /\ e \in UpsertEvent /\ e.source = s /\ e.position = Len(sent[s]) + 1
              /\ Accept(s, e)
<1>1. PICK k \in Key, v \in Version, p \in Payload :
        /\ sent' = [sent EXCEPT ![s] = Append(@, NextRecord(s, k, v, p))]
        /\ Accept(s, NextRecord(s, k, v, p))
  BY DEF Send
<1> DEFINE e == NextRecord(s, k, v, p)
<1>2. /\ sent[s] \in Seq(UpsertEvent) /\ Len(sent[s]) \in Nat
      /\ e \in UpsertEvent /\ e.source = s /\ e.position = Len(sent[s]) + 1
  <2>1. sent[s] \in Seq(UpsertEvent) /\ Len(sent[s]) \in Nat
    BY AssumedTypes DEF Events
  <2> QED
    BY <2>1 DEF NextRecord, UpsertEvent
<1> HIDE DEF e
<1>3. /\ sent'[s] = Append(sent[s], e)
      /\ \A r \in Source : r # s => sent'[r] = sent[r]
  BY <1>1 DEF TypeOK, e
<1>4. /\ Len(sent'[s]) = Len(sent[s]) + 1
      /\ DOMAIN sent'[s] = 1 .. Len(sent[s]) + 1 /\ DOMAIN sent[s] = 1 .. Len(sent[s])
      /\ sent'[s][Len(sent[s]) + 1] = e
      /\ \A i \in 1 .. Len(sent[s]) : sent'[s][i] = sent[s][i]
  BY <1>2, <1>3
<1>5. LogGrows
  BY <1>3, <1>4 DEF LogGrows
<1>6. LogInPlace'
  <2> SUFFICES ASSUME NEW r \in Source, NEW i \in DOMAIN sent'[r]
               PROVE  sent'[r][i].source = r /\ sent'[r][i].position = i
    BY DEF LogInPlace
  <2>1. CASE r # s
    BY <1>3, <2>1 DEF LogInPlace
  <2>2. CASE r = s /\ i = Len(sent[s]) + 1
    BY <1>2, <1>4, <2>2
  <2>3. CASE r = s /\ i \in 1 .. Len(sent[s])
    BY <1>4, <2>3 DEF LogInPlace
  <2> QED
    BY <1>2, <1>4, <2>1, <2>2, <2>3
<1> QED
  BY <1>1, <1>2, <1>3, <1>4, <1>5, <1>6 DEF e

\* A new record, when all before it have arrived.
LEMMA PipelineSend ==
  ASSUME TypeOK, TypeOK', NEW s \in Source, Send(s),
         NEW from \in [Source -> Nat], NEW upto \in [Source -> Nat],
         NEW now \in [Source -> Nat],
         PipelineInv(from, upto),
         upto[s] = Len(sent[s]),
         now[s] = upto[s] + 1,
         \A r \in Source : r # s => now[r] = upto[r]
  PROVE  PipelineInv(from, now)'
<1> DEFINE e == sent'[s][Len(sent[s]) + 1]
<1>1. LogInPlace
  BY DEF PipelineInv
<1>2. /\ LogGrows /\ LogInPlace'
      /\ Len(sent'[s]) = Len(sent[s]) + 1
      /\ \A r \in Source : r # s => sent'[r] = sent[r]
      /\ e \in UpsertEvent /\ e.source = s /\ e.position = Len(sent[s]) + 1
      /\ Accept(s, e)
  BY <1>1, SendAppends
<1>3. UNCHANGED <<store, rows, loaded, batch, applyQueue, applyAt, current, checkpoint, dropped>>
  BY DEF Send, viewVars, ingestVars, applyVars, historyVars
<1>4. \A r \in Source : upto[r] \in from[r] .. Len(sent[r])
  BY PipelineEvents
<1>5. /\ from[s] \in Nat /\ upto[s] \in Nat /\ now[s] \in Nat
      /\ \A r \in Source : upto[r] \in Nat /\ from[r] \in Nat
      /\ \A r \in Source : sent[r] \in Seq(UpsertEvent)
  BY DEF TypeOK
<1>6. ASSUME NEW r \in Source PROVE now[r] <= Len(sent'[r])
  <2>1. CASE r = s
    BY <1>2, <2>1
  <2>2. CASE r # s
    <3>1. sent'[r] = sent[r] /\ now[r] = upto[r] /\ upto[r] \in from[r] .. Len(sent[r])
      BY <1>2, <1>4, <2>2
    <3> QED
      BY <1>5, <3>1
  <2> QED
    BY <2>1, <2>2
<1>7. e \in ArrivedAt(s, from, now)'
  <2>1. now[s] \in from[s] + 1 .. now[s]
    BY <1>4, <1>5
  <2> QED
    BY <2>1 DEF ArrivedAt
<1>8. now[s] = upto[s] + 1 /\ e.position = now[s]
  BY <1>2
<1> HIDE DEF e
<1>9. Arrival(s, e, from, upto, now)
  BY <1>2, <1>3, <1>6, <1>7, <1>8 DEF Arrival
<1> QED
  BY <1>2, <1>9, PipelineArrival

\* A record of a source that is read from its beginning and to its end.
LEMMA PipelineRedeliver ==
  ASSUME TypeOK, TypeOK', NEW s \in Source, Redeliver(s),
         NEW from \in [Source -> Nat], NEW upto \in [Source -> Nat],
         PipelineInv(from, upto),
         from[s] = 0, upto[s] = Len(sent[s])
  PROVE  PipelineInv(from, upto)'
<1>1. PICK i \in DOMAIN sent[s] : Accept(s, sent[s][i])
  BY DEF Redeliver
<1> DEFINE e == sent[s][i]
<1>2. UNCHANGED <<sent, store, rows, loaded, batch, applyQueue, applyAt, current,
                  checkpoint, dropped>>
  BY DEF Redeliver, viewVars, ingestVars, applyVars, historyVars
<1>3. LogGrows /\ LogInPlace'
  BY <1>2 DEF LogGrows, PipelineInv, LogInPlace
<1>4. /\ sent[s] \in Seq(UpsertEvent) /\ i \in 1 .. Len(sent[s])
      /\ e \in UpsertEvent /\ e.source = s /\ e.position = i
  <2>1. sent[s] \in Seq(UpsertEvent)
    BY AssumedTypes DEF Events
  <2> QED
    BY <2>1 DEF PipelineInv, LogInPlace
<1>5. e \in ArrivedAt(s, from, upto)'
  BY <1>2, <1>4 DEF ArrivedAt
<1>6. \A r \in Source : upto[r] \in from[r] .. Len(sent[r])
  BY PipelineEvents
<1>7. \A r \in Source : /\ upto[r] \in Nat /\ from[r] \in Nat
                        /\ sent[r] \in Seq(UpsertEvent)
  BY DEF TypeOK
<1>8. \A r \in Source : upto[r] <= Len(sent'[r])
  BY <1>2, <1>6, <1>7
<1>9. e.position <= upto[s]
  BY <1>4
<1> HIDE DEF e
<1>10. Arrival(s, e, from, upto, upto)
  BY <1>1, <1>2, <1>3, <1>4, <1>5, <1>8, <1>9 DEF Arrival, e
<1> QED
  BY <1>4, <1>10, PipelineArrival

-----------------------------------------------------------------------------
(***************************************************************************)
(* What the store ends with.  When nothing is on its way and nothing was   *)
(* dropped, everything that arrived is reflected.                          *)
(***************************************************************************)
ArrivedRecords(from, upto, k) ==
  {RecordOf(rows[i]) : i \in {j \in DOMAIN rows : rows[j].key = k}}
    \cup {RecordOf(e) : e \in {x \in Arrived(from, upto) : x.key = k}}

AtRest == bootstrapped /\ Waiting = 0 /\ current = None /\ dropped = {}

LEMMA RestReflects ==
  ASSUME StoreInv, AtRest,
         NEW from \in [Source -> Nat], NEW upto \in [Source -> Nat],
         PipelineInv(from, upto)
  PROVE  \A e \in Arrived(from, upto) : Reflected(e)
<1>1. \A s \in Source : Line(s) = <<>>
  <2>1. /\ Len(inbox["AERON"]) = 0 /\ Len(inbox["KAFKA"]) = 0
        /\ Len(batch) = 0 /\ Len(applyQueue) = 0
    <3>1. /\ Len(inbox["AERON"]) \in Nat /\ Len(inbox["KAFKA"]) \in Nat
          /\ Len(batch) \in Nat /\ Len(applyQueue) \in Nat
      BY DEF StoreInv, TypeOK, Source
    <3>2. Len(inbox["AERON"]) + Len(inbox["KAFKA"]) + Len(batch) + Len(applyQueue) = 0
      BY DEF AtRest, Waiting
    <3>3. \A a, b, c, d \in Nat : a + b + c + d = 0 => a = 0 /\ b = 0 /\ c = 0 /\ d = 0
      OBVIOUS
    <3> QED
      BY <3>1, <3>2, <3>3
  <2>2. /\ batch = <<>> /\ applyQueue = <<>>
        /\ \A s \in Source : inbox[s] = <<>>
    BY <2>1 DEF StoreInv, TypeOK, Source
  <2>3. <<>> \o <<>> = <<>>
    BY ConcatEmptySeq, EmptySeq
  <2> QED
    BY <2>2, <2>3 DEF Line, Hand, AtRest
<1>2. ASSUME NEW e \in Arrived(from, upto) PROVE Reflected(e)
  <2>1. /\ e.source \in Source
        /\ e.position \in from[e.source] + 1 .. upto[e.source]
        /\ e = sent[e.source][e.position]
    BY PipelineEvents DEF StoreInv
  <2>2. 1 .. upto[e.source] \subseteq Done(e.source, from)
    BY <1>1, <2>1, PositionsNone DEF PipelineInv, AllLined, Lined
  <2>3. e.position \in Done(e.source, from) /\ ~(e.position <= from[e.source])
    <3>1. from[e.source] \in Nat /\ upto[e.source] \in Nat
      BY <2>1
    <3> QED
      BY <2>1, <2>2, <3>1
  <2> QED
    BY <2>1, <2>3 DEF Done, AtRest
<1> QED
  BY <1>2

LEMMA RestHasNewest ==
  ASSUME StoreInv, AtRest,
         NEW from \in [Source -> Nat], NEW upto \in [Source -> Nat],
         PipelineInv(from, upto), NEW k \in Key
  PROVE  /\ k \in DOMAIN store <=> ArrivedRecords(from, upto, k) # {}
         /\ k \in DOMAIN store =>
              /\ store[k] \in ArrivedRecords(from, upto, k)
              /\ \A r \in ArrivedRecords(from, upto, k) : r.version <= store[k].version
<1>1. k \in DOMAIN store => store[k] \in ArrivedRecords(from, upto, k)
  BY DEF PipelineInv, StoreArrived, Seeded, ArrivedRecords
<1>2. ASSUME NEW r \in ArrivedRecords(from, upto, k)
      PROVE  k \in DOMAIN store /\ r.version <= store[k].version
  <2>1. r.version \in Int /\ r.version > 0 /\ VersionIn(store, k) >= r.version
    <3>1. CASE \E i \in DOMAIN rows : rows[i].key = k /\ r = RecordOf(rows[i])
      <4>1. PICK i \in DOMAIN rows : rows[i].key = k /\ r = RecordOf(rows[i])
        BY <3>1
      <4>2. rows \in Snapshots /\ loaded = Len(rows)
        BY DEF StoreInv, LoadInv, TypeOK, AtRest
      <4>3. i \in 1 .. loaded /\ rows[i] \in SnapshotRow
        BY <4>2, RowTyped
      <4>4. rows[i].version > 0 /\ Reflected(rows[i])
        BY <4>3 DEF PipelineInv, LoadedAccepted, StoreInv, LoadInv
      <4> QED
        BY <4>1, <4>3, <4>4 DEF RecordOf, Reflected, SnapshotRow
    <3>2. CASE \E e \in Arrived(from, upto) : e.key = k /\ r = RecordOf(e)
      <4>1. PICK e \in Arrived(from, upto) : e.key = k /\ r = RecordOf(e)
        BY <3>2
      <4>2. e \in UpsertEvent /\ Reflected(e)
        BY RestReflects, PipelineEvents DEF StoreInv
      <4> QED
        BY <4>1, <4>2, MaxVersionAssumption DEF RecordOf, Reflected, UpsertEvent, Version
    <3> QED
      BY <3>1, <3>2 DEF ArrivedRecords
  <2> QED
    BY <2>1 DEF VersionIn
<1> QED
  BY <1>1, <1>2

-----------------------------------------------------------------------------
(***************************************************************************)
(* In one life a source is read from its beginning, and all of its log has *)
(* been delivered.                                                         *)
(***************************************************************************)
Beginning == [s \in Source |-> 0]

Sent == [s \in Source |-> Len(sent[s])]

OneLifeInv == BatchOffered /\ PipelineInv(Beginning, Sent)

LEMMA SentTyped ==
  ASSUME TypeOK
  PROVE  Beginning \in [Source -> Nat] /\ Sent \in [Source -> Nat]
<1>1. \A s \in Source : sent[s] \in Seq(UpsertEvent)
  BY DEF TypeOK
<1> QED
  BY <1>1 DEF Beginning, Sent

LEMMA OneLifeInit == Init => OneLifeInv
<1> SUFFICES ASSUME Init PROVE OneLifeInv
  OBVIOUS
<1>1. /\ \A s \in Source : sent[s] = <<>> /\ inbox[s] = <<>> /\ checkpoint[s] = 0
      /\ batch = <<>> /\ applyQueue = <<>> /\ current = None /\ loaded = 0
      /\ store = EmptyView /\ applyAt = "loading"
  BY DEF Init
<1>2. LogInPlace /\ LoadedAccepted /\ HandReflected
  BY <1>1 DEF LogInPlace, LoadedAccepted, HandReflected
<1>3. EventsArrived(Beginning, Sent)
  <2>1. \A s \in Source : Beginning[s] = 0 /\ Sent[s] = 0 /\ Len(sent[s]) = 0
    BY <1>1 DEF Beginning, Sent
  <2>2. \A s \in Source : <<>> \in Seq(ArrivedAt(s, Beginning, Sent))
    BY EmptySeq
  <2>3. <<>> \in Seq(Arrived(Beginning, Sent))
    BY EmptySeq
  <2>4. \A s \in Source : Sent[s] \in Beginning[s] .. Len(sent[s])
    BY <2>1
  <2>5. \A s \in Source : inbox[s] \in Seq(ArrivedAt(s, Beginning, Sent))
    BY <1>1, <2>2
  <2> QED
    BY <1>1, <2>3, <2>4, <2>5 DEF EventsArrived
<1>4. StoreArrived(Beginning, Sent)
  BY <1>1 DEF StoreArrived, EmptyView
<1>5. AllLined(Beginning, Sent)
  <2> SUFFICES ASSUME NEW s \in Source
               PROVE  Lined(Line(s), s, Done(s, Beginning), Sent[s])
    BY DEF AllLined
  <2>1. Line(s) = <<>> /\ Sent[s] = 0
    BY <1>1, ConcatEmptySeq, EmptySeq DEF Line, Hand, Sent
  <2> QED
    BY <2>1 DEF Lined, InOrder
<1>6. CheckpointDone(Beginning)
  BY <1>1 DEF CheckpointDone
<1> QED
  BY <1>1, <1>2, <1>3, <1>4, <1>5, <1>6 DEF OneLifeInv, BatchOffered, PipelineInv

LEMMA BatchOfferedStep ==
  ASSUME TypeOK, BatchOffered, [Next]_vars
  PROVE  BatchOffered'
<1>1. CASE \E s \in Source : Send(s) \/ Redeliver(s)
  BY <1>1 DEF Send, Redeliver, ingestVars, BatchOffered
<1>2. CASE IngestStep
  BY <1>2 DEF IngestStep, IngestOnce, Poll, OfferAccepted, OfferDropped, SourceDone,
              BatchOffered
<1>3. CASE ApplyStep
  BY <1>3
  DEF ApplyStep, LoadRow, LoadRejected, LoadDone, ProcessOnce, Take, ProcessReturns,
      ApplyUpsert, SkipUpsert, PublishAttempt, PublishReturned, PublishThrew,
      SaveCheckpoint, ingestVars, BatchOffered
<1>4. CASE UNCHANGED vars
  BY <1>4 DEF vars, ingestVars, BatchOffered
<1> QED
  BY <1>1, <1>2, <1>3, <1>4 DEF Next

LEMMA OneLifeStep ==
  ASSUME StoreInv, TypeOK', OneLifeInv, [Next]_vars
  PROVE  OneLifeInv'
<1>1. PICK from \in [Source -> Nat], upto \in [Source -> Nat], now \in [Source -> Nat] :
        from = Beginning /\ upto = Sent /\ now = Sent'
  <2>1. Sent' \in [Source -> Nat]
    <3>1. \A s \in Source : sent'[s] \in Seq(UpsertEvent)
      BY DEF TypeOK
    <3> QED
      BY <3>1 DEF Sent
  <2> QED
    BY <2>1, SentTyped DEF StoreInv
<1>2. BatchOffered'
  BY BatchOfferedStep DEF OneLifeInv, StoreInv
<1>3. /\ PipelineInv(from, upto)
      /\ \A s \in Source : /\ upto[s] = Len(sent[s]) /\ now[s] = Len(sent'[s])
                           /\ from[s] = 0
      /\ sent' = sent => now = upto
  BY <1>1 DEF OneLifeInv, Sent, Beginning
<1>4. TypeOK
  BY DEF StoreInv
<1>5. PipelineInv(from, now)'
  <2>1. ASSUME NEW s \in Source, Send(s)
        PROVE  PipelineInv(from, now)'
    <3>1. /\ Len(sent'[s]) = Len(sent[s]) + 1
          /\ \A r \in Source : r # s => sent'[r] = sent[r]
      BY <1>3, <1>4, <2>1, SendAppends DEF PipelineInv
    <3>2. now[s] = upto[s] + 1 /\ \A r \in Source : r # s => now[r] = upto[r]
      BY <1>3, <3>1
    <3> QED
      BY <1>3, <1>4, <2>1, <3>2, PipelineSend
  <2>2. ASSUME NEW s \in Source, Redeliver(s)
        PROVE  PipelineInv(from, now)'
    <3>1. now = upto
      BY <1>3, <2>2 DEF Redeliver
    <3> QED
      BY <1>3, <1>4, <2>2, <3>1, PipelineRedeliver
  <2>3. CASE IngestStep
    <3>1. now = upto
      BY <1>3, <2>3
      DEF IngestStep, IngestOnce, Poll, OfferAccepted, OfferDropped, SourceDone, sourceVars
    <3> QED
      BY <1>3, <1>4, <2>3, <3>1, PipelineIngest DEF OneLifeInv
  <2>4. CASE ApplyStep
    <3>1. now = upto
      BY <1>3, <2>4
      DEF ApplyStep, LoadRow, LoadRejected, LoadDone, ProcessOnce, Take, ProcessReturns,
          ApplyUpsert, SkipUpsert, PublishAttempt, PublishReturned, PublishThrew,
          SaveCheckpoint, sourceVars
    <3> QED
      BY <1>3, <2>4, <3>1, PipelineApply
  <2>5. CASE UNCHANGED vars
    <3>1. now = upto
      BY <1>3, <2>5 DEF vars, sourceVars
    <3> QED
      BY <1>3, <1>4, <2>5, <3>1, PipelineIdle
  <2> QED
    BY <2>1, <2>2, <2>3, <2>4, <2>5 DEF Next
<1> QED
  BY <1>1, <1>2, <1>5 DEF OneLifeInv, Beginning

LEMMA OneLifeInvariant == Spec => []OneLifeInv
<1>1. StoreInv /\ StoreInv' /\ OneLifeInv /\ [Next]_vars => OneLifeInv'
  BY OneLifeStep DEF StoreInv
<1> QED
  BY <1>1, OneLifeInit, StoreInvariant, PTL DEF Spec

LEMMA OneLifeSafeCheckpoints ==
  ASSUME TypeOK, OneLifeInv
  PROVE  CheckpointSkipsOnlyDrops
<1> SUFFICES ASSUME NEW s \in Source
             PROVE  /\ checkpoint[s] <= Len(sent[s])
                    /\ \A i \in 1 .. checkpoint[s] :
                         Reflected(sent[s][i]) \/ <<s, i>> \in dropped
  BY DEF CheckpointSkipsOnlyDrops
<1>1. /\ 1 .. checkpoint[s] \subseteq Done(s, Beginning)
      /\ checkpoint[s] \in Nat /\ sent[s] \in Seq(UpsertEvent)
  BY AssumedTypes DEF OneLifeInv, PipelineInv, CheckpointDone, Events
<1>2. \A i \in 1 .. checkpoint[s] :
        i \in 1 .. Len(sent[s]) /\ (Reflected(sent[s][i]) \/ <<s, i>> \in dropped)
  BY <1>1 DEF Done, Beginning
<1>3. checkpoint[s] <= Len(sent[s])
  <2>1. CASE checkpoint[s] = 0
    BY <1>1, <2>1
  <2>2. CASE checkpoint[s] # 0
    <3>1. checkpoint[s] \in 1 .. checkpoint[s]
      BY <1>1, <2>2
    <3>2. checkpoint[s] \in 1 .. Len(sent[s])
      BY <1>2, <3>1
    <3> QED
      BY <1>1, <3>2
  <2> QED
    BY <2>1, <2>2
<1> QED
  BY <1>2, <1>3

LEMMA OneLifeCandidates ==
  ASSUME TypeOK, NEW k
  PROVE  ArrivedRecords(Beginning, Sent, k) = Candidates(k)
<1>1. \A s \in Source : ArrivedAt(s, Beginning, Sent) = {sent[s][i] : i \in DOMAIN sent[s]}
  <2> SUFFICES ASSUME NEW s \in Source
               PROVE  Beginning[s] + 1 .. Sent[s] = DOMAIN sent[s]
    BY DEF ArrivedAt
  <2>1. Beginning[s] = 0 /\ Sent[s] = Len(sent[s]) /\ sent[s] \in Seq(UpsertEvent)
    BY DEF TypeOK, Beginning, Sent
  <2> QED
    BY <2>1
<1>2. {RecordOf(e) : e \in {x \in Arrived(Beginning, Sent) : x.key = k}}
        = UNION {{RecordOf(sent[s][i]) : i \in {j \in DOMAIN sent[s] : sent[s][j].key = k}}
                  : s \in Source}
  BY <1>1 DEF Arrived
<1> QED
  BY <1>2 DEF ArrivedRecords, Candidates

(***************************************************************************)
(* A saved checkpoint is a safe place to resume from, but for drops: of    *)
(* the records of its source at or before it, each is in the store by its  *)
(* own or a newer version, or met a full queue.  It holds for all three    *)
(* drivers, with redeliveries and failed publications.                     *)
(***************************************************************************)
THEOREM CheckpointsSafe == Spec => []CheckpointSkipsOnlyDrops
<1>1. StoreInv /\ OneLifeInv => CheckpointSkipsOnlyDrops
  BY OneLifeSafeCheckpoints DEF StoreInv
<1> QED
  BY <1>1, OneLifeInvariant, StoreInvariant, PTL

(***************************************************************************)
(* At rest and without drops the store holds, for each key that the        *)
(* snapshot or a source has, one of its newest records: the final versions *)
(* do not depend on the order in which sources, queue, redeliveries and    *)
(* failed publications interleaved.                                        *)
(***************************************************************************)
THEOREM NewestAlwaysWins == Spec => []NewestWins
<1>1. StoreInv /\ OneLifeInv => NewestWins
  <2> SUFFICES ASSUME StoreInv, OneLifeInv, AtRest, NEW k \in Key
               PROVE  /\ k \in DOMAIN store <=> Candidates(k) # {}
                      /\ k \in DOMAIN store =>
                           /\ store[k] \in Candidates(k)
                           /\ \A r \in Candidates(k) : r.version <= store[k].version
    BY DEF NewestWins, AtRest
  <2>1. ArrivedRecords(Beginning, Sent, k) = Candidates(k)
    BY OneLifeCandidates DEF StoreInv
  <2>2. /\ Beginning \in [Source -> Nat] /\ Sent \in [Source -> Nat]
        /\ PipelineInv(Beginning, Sent)
    BY SentTyped DEF StoreInv, OneLifeInv
  <2> QED
    BY <2>1, <2>2, RestHasNewest
<1> QED
  BY <1>1, OneLifeInvariant, StoreInvariant, PTL
=============================================================================
