--------------------------- MODULE RecoveryProofs ---------------------------
(***************************************************************************)
(* Theorems about the service over any number of lives of its process, for *)
(* every value of its constants and every choice of where the sources      *)
(* resume.                                                                 *)
(*                                                                         *)
(* What StreamProofs and DeliveryProofs show of a life holds of each one   *)
(* with resumed, reached and announcedBy in the places of its beginning    *)
(* and end.  What is new is how a life begins: from nothing but the logs,  *)
(* the database and the streams.                                           *)
(***************************************************************************)
EXTENDS Recovery, StreamProofs, DeliveryProofs

\* What a life has of its own.
LivesTyped ==
  /\ resumed \in [Source -> Nat]
  /\ reached \in [Source -> Nat]
  /\ announcedBy \in [aeron : Nat, kafka : Nat]

\* A source's log has the record a notification is about.
FromLogs(m) ==
  \E s \in Source : \E i \in DOMAIN sent[s] :
    sent[s][i].key = m.key /\ sent[s][i].version = m.newVersion

OnAeronFromLogs == \A i \in DOMAIN aeronOut : FromLogs(aeronOut[i])

AnnouncedFromLogs == OnAeronFromLogs /\ (pending # None => FromLogs(pending))

LifeStreams == StreamInv(announcedBy.aeron, announcedBy.kafka)

LifePipeline == PipelineInv(resumed, reached)

LivesInv ==
  /\ StoreInv
  /\ LivesTyped
  /\ BatchOffered
  /\ LifePipeline
  /\ LifeStreams
  /\ ConsumersInv
  /\ AnnouncedFromLogs

-----------------------------------------------------------------------------
(***************************************************************************)
(* How a life begins, the first and any after a crash.                     *)
(***************************************************************************)
\* What a crash leaves.
Survivors ==
  /\ sent \in [Source -> Seq(UpsertEvent)]
  /\ LogInPlace
  /\ redelivered \in Nat
  /\ aeronOut \in Seq(StateChangeNotification)
  /\ kafkaOut \in Seq(StateChangeNotification)
  /\ OnAeronFromLogs

\* What main builds anew, and where the sources resume.
NewLife ==
  /\ rows \in Snapshots
  /\ loaded = 0 /\ store = EmptyView /\ bootstrapped = FALSE
  /\ inbox = [s \in Source |-> <<>>]
  /\ ingestAt = "idle" /\ polling = "AERON" /\ batch = <<>>
  /\ applyQueue = <<>>
  /\ applyAt = "loading" /\ processed = 0 /\ current = None
  /\ turn = "ingest"
  /\ checkpoint = [s \in Source |-> 0]
  /\ metrics = [m \in Metric |-> 0]
  /\ dropped = {} /\ unannounced = {}
  /\ phase = "idle" /\ attempt = 0 /\ pending = None
  /\ deadLetters = <<>>
  /\ resumed \in [Source -> Nat]
  /\ \A s \in Source : resumed[s] <= Len(sent[s])
  /\ reached = resumed
  /\ announcedBy = Streams

LEMMA FirstLife == RecoveryInit => Survivors /\ NewLife
<1> SUFFICES ASSUME RecoveryInit PROVE Survivors /\ NewLife
  OBVIOUS
<1> USE DEF RecoveryInit, Init, PublisherInit
<1>1. \A s \in Source : sent[s] = <<>> /\ Len(sent[s]) = 0 /\ resumed[s] = 0
  OBVIOUS
<1>2. Survivors
  BY <1>1 DEF Survivors, LogInPlace, OnAeronFromLogs
<1>3. NewLife
  BY <1>1 DEF NewLife
<1> QED
  BY <1>2, <1>3

LEMMA NextLife ==
  ASSUME Survivors, Crash
  PROVE  Survivors' /\ NewLife'
<1> USE DEF Crash, Resume
<1>1. Survivors'
  BY DEF Survivors, LogInPlace, OnAeronFromLogs, FromLogs
<1>2. /\ resumed' \in [Source -> Nat]
      /\ \A s \in Source : resumed'[s] <= Len(sent'[s])
      /\ reached' = resumed'
  BY ArgumentsAssumption
<1>3. announcedBy' = Streams'
  BY DEF Streams
<1>4. rows' \in Snapshots
  OBVIOUS
<1> QED
  BY <1>1, <1>2, <1>3, <1>4 DEF NewLife, HeapLost, IndexLost, CheckpointsLost

LEMMA NewLifeTyped == Survivors /\ NewLife => StoreInv /\ LivesTyped
<1> SUFFICES ASSUME Survivors, NewLife PROVE StoreInv /\ LivesTyped
  OBVIOUS
<1>1. PublisherTypeOK
  <2>1. <<>> \in Seq(StateChangeNotification)
    OBVIOUS
  <2> QED
    BY <2>1, NoneAssumption DEF Survivors, NewLife, PublisherTypeOK, PublisherPhase
<1>2. loaded \in 0 .. Len(rows) /\ IsView(store)
  BY SnapshotsAssumption DEF NewLife, IsView, EmptyView
<1>3. /\ <<>> \in Seq(UpsertEvent) /\ 0 \in Nat
      /\ Len(applyQueue) <= QueueCapacity
      /\ processed \in 0 .. MaxEvents /\ polling \in Source
  BY ArgumentsAssumption DEF NewLife, Source
<1>4. TypeOK
  BY <1>1, <1>2, <1>3 DEF Survivors, NewLife, TypeOK
<1>5. LoadInv
  BY DEF NewLife, LoadInv, EmptyView
<1>6. LivesTyped
  <2>1. Len(aeronOut) \in Nat /\ Len(kafkaOut) \in Nat
    BY DEF Survivors
  <2> QED
    BY <2>1 DEF NewLife, LivesTyped, Streams
<1> QED
  BY <1>4, <1>5, <1>6 DEF StoreInv

LEMMA NewLifePipeline == Survivors /\ NewLife => BatchOffered /\ LifePipeline
<1> SUFFICES ASSUME Survivors, NewLife PROVE BatchOffered /\ LifePipeline
  OBVIOUS
<1>1. /\ \A s \in Source : inbox[s] = <<>> /\ checkpoint[s] = 0
      /\ batch = <<>> /\ applyQueue = <<>> /\ current = None /\ loaded = 0
      /\ store = EmptyView /\ applyAt = "loading" /\ ingestAt = "idle"
      /\ reached = resumed
  BY DEF NewLife
<1>2. \A s \in Source : /\ resumed[s] \in Nat /\ reached[s] = resumed[s]
                        /\ resumed[s] <= Len(sent[s])
                        /\ sent[s] \in Seq(UpsertEvent)
  BY DEF NewLife, Survivors
<1>3. EventsArrived(resumed, reached)
  <2>1. \A s \in Source : <<>> \in Seq(ArrivedAt(s, resumed, reached))
    BY EmptySeq
  <2>2. <<>> \in Seq(Arrived(resumed, reached))
    BY EmptySeq
  <2>3. \A s \in Source : reached[s] \in resumed[s] .. Len(sent[s])
    BY <1>2
  <2>4. \A s \in Source : inbox[s] \in Seq(ArrivedAt(s, resumed, reached))
    BY <1>1, <2>1
  <2> QED
    BY <1>1, <2>2, <2>3, <2>4 DEF EventsArrived
<1>4. StoreArrived(resumed, reached)
  BY <1>1 DEF StoreArrived, EmptyView
<1>5. AllLined(resumed, reached)
  <2> SUFFICES ASSUME NEW s \in Source
               PROVE  Lined(Line(s), s, Done(s, resumed), reached[s])
    BY DEF AllLined
  <2>1. Line(s) = <<>>
    BY <1>1, ConcatEmptySeq, EmptySeq DEF Line, Hand
  <2>2. 1 .. reached[s] \subseteq Done(s, resumed)
    BY <1>2 DEF Done
  <2> QED
    BY <2>1, <2>2 DEF Lined, InOrder
<1>6. CheckpointDone(resumed) /\ HandReflected /\ LoadedAccepted
  BY <1>1 DEF CheckpointDone, HandReflected, LoadedAccepted
<1> QED
  BY <1>1, <1>3, <1>4, <1>5, <1>6 DEF BatchOffered, LifePipeline, PipelineInv, Survivors

LEMMA NewLifeTold ==
  Survivors /\ NewLife => LifeStreams /\ ConsumersInv /\ AnnouncedFromLogs
<1> SUFFICES ASSUME Survivors, NewLife
             PROVE  LifeStreams /\ ConsumersInv /\ AnnouncedFromLogs
  OBVIOUS
<1>1. /\ phase = "idle" /\ pending = None /\ deadLetters = <<>> /\ store = EmptyView
      /\ announcedBy.aeron = Len(aeronOut) /\ announcedBy.kafka = Len(kafkaOut)
  BY DEF NewLife, Streams
<1>2. /\ Len(aeronOut) \in Nat /\ Len(kafkaOut) \in Nat /\ Len(deadLetters) = 0
  BY <1>1 DEF Survivors
<1>3. /\ After(aeronOut, announcedBy.aeron) = {}
      /\ After(kafkaOut, announcedBy.kafka) = {}
      /\ After(deadLetters, 0) = {}
  BY <1>1, <1>2 DEF After
<1>4. LifeStreams
  BY <1>1, <1>3 DEF LifeStreams, StreamInv, PendingRaises, Chained, Continues
<1>5. ConsumersInv
  BY <1>1 DEF ConsumersInv, CurrentIsPending, EmptyView
<1>6. AnnouncedFromLogs
  BY <1>1 DEF AnnouncedFromLogs, Survivors
<1> QED
  BY <1>4, <1>5, <1>6

LEMMA NewLifeInv == Survivors /\ NewLife => LivesInv
  BY NewLifeTyped, NewLifePipeline, NewLifeTold DEF LivesInv

-----------------------------------------------------------------------------
(***************************************************************************)
(* How a life goes on.  A step of the service or of a source that sends is *)
(* a step of StoreService; a replay is not, because no life before has     *)
(* delivered the record to this one.                                       *)
(***************************************************************************)
\* A change is announced only of an event that arrived, and so is in a log.
LEMMA AnnouncedFromLogsStep ==
  ASSUME TypeOK, TypeOK', LogGrows, LivesTyped, LifePipeline, AnnouncedFromLogs, [Next]_vars
  PROVE  AnnouncedFromLogs'
<1>1. ASSUME NEW m, FromLogs(m)
      PROVE  \E s \in Source : \E i \in DOMAIN sent'[s] :
               sent'[s][i].key = m.key /\ sent'[s][i].version = m.newVersion
  BY <1>1 DEF FromLogs, LogGrows
<1>2. CASE UNCHANGED <<aeronOut, pending>>
  BY <1>1, <1>2 DEF AnnouncedFromLogs, OnAeronFromLogs, FromLogs
<1>3. CASE ApplyUpsert
  <2>1. /\ pending' = NotificationOf(store, current) /\ aeronOut' = aeronOut
        /\ current # None /\ sent' = sent
    BY <1>3 DEF ApplyUpsert, Publish, TypeOK, sourceVars
  <2>2. current \in Arrived(resumed, reached)
    BY <2>1 DEF LifePipeline, PipelineInv, EventsArrived
  <2>3. /\ current.source \in Source
        /\ current.position \in resumed[current.source] + 1 .. reached[current.source]
        /\ current = sent[current.source][current.position]
        /\ reached[current.source] <= Len(sent[current.source])
    <3>1. /\ \A s \in Source : reached[s] \in resumed[s] .. Len(sent[s])
          /\ \A e \in Arrived(resumed, reached) :
               /\ e.source \in Source
               /\ e.position \in resumed[e.source] + 1 .. reached[e.source]
               /\ e = sent[e.source][e.position]
      BY PipelineEvents DEF LivesTyped, LifePipeline
    <3> QED
      BY <2>2, <3>1
  <2>4. current.position \in DOMAIN sent[current.source]
    <3>1. /\ sent[current.source] \in Seq(UpsertEvent)
          /\ resumed[current.source] \in Nat /\ reached[current.source] \in Nat
      BY <2>3 DEF TypeOK, LivesTyped
    <3> QED
      BY <2>3, <3>1
  <2>5. FromLogs(pending')
    BY <2>1, <2>3, <2>4 DEF FromLogs, NotificationOf
  <2> QED
    BY <1>1, <2>1, <2>5 DEF AnnouncedFromLogs, OnAeronFromLogs, FromLogs
<1>4. CASE AeronAccepts
  <2>1. /\ aeronOut' = Append(aeronOut, pending) /\ pending' = pending
        /\ pending # None
        /\ aeronOut \in Seq(StateChangeNotification)
        /\ pending \in StateChangeNotification
    BY <1>4, StreamsTyped DEF AeronAccepts
  <2>2. \A i \in DOMAIN aeronOut' :
          \/ i \in DOMAIN aeronOut /\ aeronOut'[i] = aeronOut[i]
          \/ aeronOut'[i] = pending
    BY <2>1
  <2>3. \A i \in DOMAIN aeronOut' : FromLogs(aeronOut'[i])
    BY <2>1, <2>2 DEF AnnouncedFromLogs, OnAeronFromLogs
  <2> QED
    BY <1>1, <2>1, <2>3 DEF AnnouncedFromLogs, OnAeronFromLogs, FromLogs
<1>5. CASE aeronOut' = aeronOut /\ pending' = None
  BY <1>1, <1>5 DEF AnnouncedFromLogs, OnAeronFromLogs, FromLogs
<1> QED
  BY <1>2, <1>3, <1>4, <1>5, AnnouncingSteps
  DEF LoadRow, PublishAttempt, PublisherStep, KafkaAccepts, AttemptFails, AeronExhausted,
      KafkaExhausted, PublishReturned, PublishThrew, Conclude, NothingAnnounced, publisherVars

\* The parts a step of StoreService keeps whatever it does.
LEMMA ServiceKeeps ==
  ASSUME LivesInv, [Next]_vars, LogGrows, UNCHANGED announcedBy
  PROVE  /\ StoreInv' /\ BatchOffered' /\ LifeStreams' /\ ConsumersInv'
         /\ AnnouncedFromLogs'
<1>1. StoreInv /\ StoreInv' /\ TypeOK /\ TypeOK'
  BY StoreInvStep DEF LivesInv, StoreInv
<1>2. BatchOffered'
  BY <1>1, BatchOfferedStep DEF LivesInv
<1>3. LifeStreams'
  <2>1. PICK a \in Nat, k \in Nat : a = announcedBy.aeron /\ k = announcedBy.kafka
    BY DEF LivesInv, LivesTyped
  <2>2. StreamInv(a, k)'
    BY <1>1, <2>1, StreamInvStep DEF LivesInv, LifeStreams
  <2> QED
    BY <2>1, <2>2 DEF LifeStreams
<1>4. ConsumersInv'
  BY <1>1, ConsumersInvStep DEF LivesInv
<1>5. AnnouncedFromLogs'
  BY <1>1, AnnouncedFromLogsStep DEF LivesInv
<1> QED
  BY <1>1, <1>2, <1>3, <1>4, <1>5

LEMMA LivesService ==
  ASSUME LivesInv, IngestStep \/ ApplyStep \/ UNCHANGED vars, UNCHANGED lifeVars
  PROVE  LivesInv'
<1>1. [Next]_vars
  BY DEF Next
<1>2. UNCHANGED <<resumed, reached, announcedBy>>
  BY DEF lifeVars
<1>3. sent' = sent
  BY DEF IngestStep, IngestOnce, Poll, OfferAccepted, OfferDropped, SourceDone,
         ApplyStep, LoadRow, LoadRejected, LoadDone, ProcessOnce, Take, ProcessReturns,
         ApplyUpsert, SkipUpsert, PublishAttempt, PublishReturned, PublishThrew,
         SaveCheckpoint, vars, sourceVars
<1>4. LogGrows
  BY <1>3 DEF LogGrows
<1>5. /\ StoreInv' /\ BatchOffered' /\ LifeStreams' /\ ConsumersInv'
      /\ AnnouncedFromLogs'
  BY <1>1, <1>2, <1>4, ServiceKeeps
<1>6. LivesTyped'
  BY <1>2 DEF LivesInv, LivesTyped
<1>7. LifePipeline'
  <2>1. PICK from \in [Source -> Nat], upto \in [Source -> Nat] :
          from = resumed /\ upto = reached
    BY DEF LivesInv, LivesTyped
  <2>2. PipelineInv(from, upto) /\ StoreInv /\ TypeOK /\ TypeOK' /\ BatchOffered
    BY <1>5, <2>1 DEF LivesInv, LifePipeline, StoreInv
  <2>3. PipelineInv(from, upto)'
    BY <2>2, PipelineIngest, PipelineApply, PipelineIdle
  <2> QED
    BY <1>2, <2>1, <2>3 DEF LifePipeline
<1> QED
  BY <1>5, <1>6, <1>7 DEF LivesInv

LEMMA LivesProduce ==
  ASSUME LivesInv, NEW s \in Source, Produce(s)
  PROVE  LivesInv'
<1>1. [Next]_vars
  BY DEF Produce, Next
<1>2. /\ UNCHANGED <<resumed, announcedBy>>
      /\ reached' = [reached EXCEPT ![s] = @ + 1]
      /\ Send(s) /\ reached[s] = Len(sent[s])
  BY DEF Produce
<1>3. TypeOK /\ TypeOK'
  BY <1>1, StoreInvStep DEF LivesInv, StoreInv
<1>4. LogGrows
  BY <1>2, <1>3, SendAppends DEF LivesInv, LifePipeline, PipelineInv
<1>5. /\ StoreInv' /\ BatchOffered' /\ LifeStreams' /\ ConsumersInv'
      /\ AnnouncedFromLogs'
  BY <1>1, <1>2, <1>4, ServiceKeeps
<1>6. LivesTyped'
  BY <1>2 DEF LivesInv, LivesTyped
<1>7. LifePipeline'
  <2>1. PICK from \in [Source -> Nat], upto \in [Source -> Nat], now \in [Source -> Nat] :
          from = resumed /\ upto = reached /\ now = reached'
    BY <1>6 DEF LivesInv, LivesTyped
  <2>2. PipelineInv(from, upto)
    BY <2>1 DEF LivesInv, LifePipeline
  <2>3. /\ upto[s] = Len(sent[s]) /\ now[s] = upto[s] + 1
        /\ \A r \in Source : r # s => now[r] = upto[r]
    BY <1>2, <2>1
  <2>4. PipelineInv(from, now)'
    BY <1>2, <1>3, <2>2, <2>3, PipelineSend
  <2> QED
    BY <1>2, <2>1, <2>4 DEF LifePipeline
<1> QED
  BY <1>5, <1>6, <1>7 DEF LivesInv

LEMMA LivesReplay ==
  ASSUME LivesInv, NEW s \in Source, Replay(s)
  PROVE  LivesInv'
<1> DEFINE e == sent[s][reached[s] + 1]
<1>1. /\ UNCHANGED <<sent, redelivered, viewVars, ingestVars, applyQueue, applyVars,
                     turn, checkpoint, metrics, historyVars, publisherVars>>
      /\ UNCHANGED <<resumed, announcedBy>>
      /\ reached' = [reached EXCEPT ![s] = @ + 1]
      /\ reached[s] < Len(sent[s])
      /\ inbox' = [inbox EXCEPT ![s] = Append(@, e)]
  BY DEF Replay, Accept
<1>2. /\ TypeOK /\ StoreInv /\ LivesTyped /\ LogInPlace
      /\ resumed[s] \in Nat /\ reached[s] \in Nat /\ sent[s] \in Seq(UpsertEvent)
  BY DEF LivesInv, StoreInv, LivesTyped, TypeOK, LifePipeline, PipelineInv
<1>3. /\ reached[s] + 1 \in DOMAIN sent[s]
      /\ e \in UpsertEvent /\ e.source = s /\ e.position = reached[s] + 1
  <2>1. reached[s] + 1 \in DOMAIN sent[s]
    BY <1>1, <1>2
  <2> QED
    BY <1>2, <2>1 DEF LogInPlace
<1> HIDE DEF e
<1>4. TypeOK'
  <2>1. PublisherTypeOK'
    BY <1>1, <1>2, PublisherIdleTyped DEF TypeOK
  <2>2. inbox' \in [Source -> Seq(UpsertEvent)]
    <3>1. Append(inbox[s], e) \in Seq(UpsertEvent)
      BY <1>2, <1>3 DEF TypeOK
    <3> QED
      BY <1>1, <1>2, <3>1 DEF TypeOK
  <2>3. /\ UNCHANGED <<sent, redelivered, rows, loaded, store, bootstrapped, ingestAt>>
        /\ UNCHANGED <<polling, batch, applyQueue, applyAt, processed, current, turn>>
        /\ UNCHANGED <<checkpoint, metrics, dropped, unannounced, phase>>
    BY <1>1 DEF viewVars, ingestVars, applyVars, historyVars, publisherVars
  <2> QED
    BY <1>2, <2>1, <2>2, <2>3 DEF TypeOK
<1>5. StoreInv' /\ StoreGrows
  BY <1>1, <1>2, <1>4 DEF StoreInv, LoadInv, Reflected, StoreGrows, viewVars, applyVars
<1>6. LivesTyped'
  BY <1>1, <1>2 DEF LivesTyped
<1>7. BatchOffered'
  BY <1>1 DEF LivesInv, BatchOffered, ingestVars
<1>8. LifeStreams'
  <2>1. PICK a \in Nat, k \in Nat : a = announcedBy.aeron /\ k = announcedBy.kafka
    BY <1>2 DEF LivesTyped
  <2>2. StreamInv(a, k)'
    BY <1>1, <1>2, <1>4, <1>5, <2>1, StreamsKept DEF LivesInv, LifeStreams
  <2> QED
    BY <1>1, <2>1, <2>2 DEF LifeStreams
<1>9. ConsumersInv'
  <2>1. NothingAnnounced
    BY <1>1 DEF NothingAnnounced, viewVars, applyVars, historyVars
  <2> QED
    BY <2>1, ConsumersIdle DEF LivesInv
<1>10. AnnouncedFromLogs'
  BY <1>1 DEF LivesInv, AnnouncedFromLogs, OnAeronFromLogs, FromLogs, publisherVars
<1>11. LifePipeline'
  <2>1. PICK from \in [Source -> Nat], upto \in [Source -> Nat], now \in [Source -> Nat] :
          from = resumed /\ upto = reached /\ now = reached'
    BY <1>2, <1>6 DEF LivesTyped
  <2>2. PipelineInv(from, upto)
    BY <2>1 DEF LivesInv, LifePipeline
  <2>3. \A r \in Source : /\ upto[r] \in from[r] .. Len(sent[r])
                          /\ sent[r] \in Seq(UpsertEvent)
    BY <1>2, <2>2, PipelineEvents DEF TypeOK
  <2>4. /\ now[s] = upto[s] + 1 /\ e.position = now[s]
        /\ \A r \in Source : r # s => now[r] = upto[r]
    BY <1>1, <1>2, <1>3, <2>1
  <2>5. \A r \in Source : now[r] <= Len(sent'[r])
    <3>1. now[s] <= Len(sent'[s])
      BY <1>1, <1>2, <2>1, <2>4
    <3>2. ASSUME NEW r \in Source, r # s PROVE now[r] <= Len(sent'[r])
      BY <1>1, <2>3, <2>4, <3>2
    <3> QED
      BY <3>1, <3>2
  <2>6. e \in ArrivedAt(s, from, now)'
    <3>1. now[s] \in from[s] + 1 .. now[s] /\ e = sent'[s][now[s]]
      BY <1>1, <1>2, <2>1, <2>3, <2>4 DEF e
    <3> QED
      BY <3>1 DEF ArrivedAt
  <2>7. LogGrows /\ LogInPlace'
    BY <1>1, <1>2 DEF LogGrows, LogInPlace
  <2>8. Arrival(s, e, from, upto, now)
    <3>1. Accept(s, e)
      BY <1>1 DEF Accept
    <3>2. UNCHANGED <<store, rows, loaded, batch, applyQueue, applyAt, current,
                      checkpoint, dropped>>
      BY <1>1 DEF viewVars, ingestVars, applyVars, historyVars
    <3> QED
      BY <1>3, <2>4, <2>5, <2>6, <2>7, <3>1, <3>2 DEF Arrival
  <2>9. PipelineInv(from, now)'
    BY <1>2, <1>3, <1>4, <2>2, <2>8, PipelineArrival
  <2> QED
    BY <1>1, <2>1, <2>9 DEF LifePipeline
<1> QED
  BY <1>5, <1>6, <1>7, <1>8, <1>9, <1>10, <1>11 DEF LivesInv

LEMMA LivesSurvive == LivesInv => Survivors
  BY DEF LivesInv, StoreInv, TypeOK, PublisherTypeOK, LifePipeline, PipelineInv,
         AnnouncedFromLogs, Survivors

LEMMA LivesInvariant == RecoverySpec => []LivesInv
<1>1. RecoveryInit => LivesInv
  BY FirstLife, NewLifeInv
<1>2. LivesInv /\ Crash => LivesInv'
  <2>1. LivesInv /\ Crash => Survivors' /\ NewLife'
    BY NextLife, LivesSurvive
  <2> QED
    BY <2>1, NewLifeInv, PTL
<1>3. LivesInv /\ [RecoveryNext]_allVars => LivesInv'
  <2> SUFFICES ASSUME LivesInv, [RecoveryNext]_allVars PROVE LivesInv'
    OBVIOUS
  <2>1. ASSUME NEW s \in Source, Replay(s) \/ Produce(s) PROVE LivesInv'
    BY <2>1, LivesReplay, LivesProduce
  <2>2. CASE (IngestStep \/ ApplyStep) /\ UNCHANGED lifeVars
    BY <2>2, LivesService
  <2>3. CASE UNCHANGED allVars
    BY <2>3, LivesService DEF allVars
  <2> QED
    BY <1>2, <2>1, <2>2, <2>3 DEF RecoveryNext
<1> QED
  BY <1>1, <1>3, PTL DEF RecoverySpec

-----------------------------------------------------------------------------
LEMMA ReplayedArrived ==
  ASSUME NEW k
  PROVE  Replayed(k) = ArrivedRecords(resumed, reached, k)
<1>1. {RecordOf(e) : e \in {x \in Arrived(resumed, reached) : x.key = k}}
        = UNION {{RecordOf(sent[s][i]) :
                    i \in {j \in resumed[s] + 1 .. reached[s] : sent[s][j].key = k}}
                  : s \in Source}
  BY DEF Arrived, ArrivedAt
<1> QED
  BY <1>1 DEF ArrivedRecords, Replayed

(***************************************************************************)
(* Whatever earlier lives did, each life, at rest and without drops, holds *)
(* for each key one of the newest records of its snapshot and its replays: *)
(* what a restart recovers is decided by the rows and by where the sources *)
(* resumed, for any number of crashes at any point.                        *)
(***************************************************************************)
THEOREM EveryLifeHasNewest == RecoverySpec => []EachLifeHasNewest
<1>1. LivesInv => EachLifeHasNewest
  <2> SUFFICES ASSUME LivesInv, AtRest, NEW k \in Key
               PROVE  /\ k \in DOMAIN store <=> Replayed(k) # {}
                      /\ k \in DOMAIN store =>
                           /\ store[k] \in Replayed(k)
                           /\ \A r \in Replayed(k) : r.version <= store[k].version
    BY DEF EachLifeHasNewest, Quiet, AtRest
  <2>1. Replayed(k) = ArrivedRecords(resumed, reached, k)
    BY ReplayedArrived
  <2>2. /\ StoreInv /\ PipelineInv(resumed, reached)
        /\ resumed \in [Source -> Nat] /\ reached \in [Source -> Nat]
    BY DEF LivesInv, LivesTyped, LifePipeline
  <2> QED
    BY <2>1, <2>2, RestHasNewest
<1> QED
  BY <1>1, LivesInvariant, PTL

(***************************************************************************)
(* A restart that replays both logs from the beginning, without a drop,    *)
(* comes to rest at or past every version any life has put on Aeron.       *)
(***************************************************************************)
THEOREM FullReplayCatchesUp == RecoverySpec => []ReplayCatchesUpWithConsumers
<1>1. LivesInv => ReplayCatchesUpWithConsumers
  <2> SUFFICES ASSUME LivesInv, AtRest, FullReplay, NEW n \in DOMAIN aeronOut
               PROVE  VersionIn(store, aeronOut[n].key) >= aeronOut[n].newVersion
    BY DEF ReplayCatchesUpWithConsumers, Quiet, AtRest
  <2>1. /\ StoreInv /\ PipelineInv(resumed, reached)
        /\ resumed \in [Source -> Nat] /\ reached \in [Source -> Nat]
    BY DEF LivesInv, LivesTyped, LifePipeline
  <2>2. PICK s \in Source : \E i \in DOMAIN sent[s] :
          sent[s][i].key = aeronOut[n].key /\ sent[s][i].version = aeronOut[n].newVersion
    BY DEF LivesInv, AnnouncedFromLogs, OnAeronFromLogs, FromLogs
  <2> PICK i \in DOMAIN sent[s] :
          sent[s][i].key = aeronOut[n].key /\ sent[s][i].version = aeronOut[n].newVersion
    BY <2>2
  <2>3. i \in resumed[s] + 1 .. reached[s]
    <3>1. /\ sent[s] \in Seq(UpsertEvent)
          /\ resumed[s] = 0 /\ reached[s] = Len(sent[s])
      BY <2>1 DEF FullReplay, StoreInv, TypeOK
    <3> QED
      BY <3>1
  <2>4. sent[s][i] \in Arrived(resumed, reached)
    BY <2>3 DEF Arrived, ArrivedAt
  <2>5. Reflected(sent[s][i])
    BY <2>1, <2>4, RestReflects
  <2> QED
    BY <2>5 DEF Reflected
<1> QED
  BY <1>1, LivesInvariant, PTL

LEMMA SinceInOrder ==
  ASSUME NEW out \in Seq(StateChangeNotification), NEW n \in Nat, NEW view,
         Chained(out, n, view)
  PROVE  ChangesInOrder(Since(out, n))
<1>1. /\ Len(out) \in Nat
      /\ DOMAIN Since(out, n) = 1 .. Len(out) - n
      /\ \A i \in DOMAIN Since(out, n) : Since(out, n)[i] = out[n + i]
  <2>1. Since(out, n) = SubSeq(out, n + 1, Len(out)) /\ Len(out) \in Nat
    BY DEF Since
  <2>2. CASE n + 1 <= Len(out)
    BY <2>1, <2>2, SubSeqProperties
  <2>3. CASE n + 1 > Len(out)
    BY <2>1, <2>3
  <2> QED
    BY <2>1, <2>2, <2>3
<1>2. \A i \in DOMAIN Since(out, n) : n + i \in After(out, n) /\ i \in Nat
  BY <1>1 DEF After
<1>3. \A i, j \in DOMAIN Since(out, n) : i < j => n + i < n + j
  BY <1>2
<1> QED
  BY <1>1, <1>2, <1>3 DEF Chained, ChangesInOrder

(***************************************************************************)
(* Within each life both streams tell a key's changes in order and once,   *)
(* whatever was on them when it began.                                     *)
(***************************************************************************)
THEOREM EveryLifeInOrder == RecoverySpec => []EachLifeInOrder
<1>1. LivesInv => EachLifeInOrder
  <2> SUFFICES ASSUME LivesInv PROVE EachLifeInOrder
    OBVIOUS
  <2>1. /\ aeronOut \in Seq(StateChangeNotification)
        /\ kafkaOut \in Seq(StateChangeNotification)
        /\ announcedBy.aeron \in Nat /\ announcedBy.kafka \in Nat
        /\ Chained(aeronOut, announcedBy.aeron, store)
        /\ Chained(kafkaOut, announcedBy.kafka, store)
    BY StreamsTyped DEF LivesInv, StoreInv, LivesTyped, LifeStreams, StreamInv
  <2> QED
    BY <2>1, SinceInOrder DEF EachLifeInOrder
<1> QED
  BY <1>1, LivesInvariant, PTL

(***************************************************************************)
(* A checkpoint never covers a record that its life neither has in the     *)
(* store nor dropped, of those after the place where it resumed.           *)
(***************************************************************************)
THEOREM CheckpointsCoverReplays == RecoverySpec => []CheckpointCoversReplay
<1>1. LivesInv => CheckpointCoversReplay
  <2> SUFFICES ASSUME LivesInv, NEW s \in Source, NEW i \in resumed[s] + 1 .. checkpoint[s]
               PROVE  Reflected(sent[s][i]) \/ <<s, i>> \in dropped
    BY DEF CheckpointCoversReplay
  <2>1. /\ 1 .. checkpoint[s] \subseteq Done(s, resumed)
        /\ resumed[s] \in Nat /\ checkpoint[s] \in Nat
    BY DEF LivesInv, StoreInv, TypeOK, LivesTyped, LifePipeline, PipelineInv, CheckpointDone
  <2>2. i \in Done(s, resumed) /\ ~(i <= resumed[s])
    BY <2>1
  <2> QED
    BY <2>2 DEF Done
<1> QED
  BY <1>1, LivesInvariant, PTL

(***************************************************************************)
(* In every life, between publications, the last notification of a key     *)
(* shows its current record, with the exceptions of a single life: what an *)
(* earlier life announced is never taken for it.                           *)
(***************************************************************************)
THEOREM ConsumersKeepUpInEveryLife == RecoverySpec => []ConsumersSeeCurrentRecord
<1>1. LivesInv => ConsumersSeeCurrentRecord
  BY ConsumersInvSuffices DEF LivesInv
<1> QED
  BY <1>1, LivesInvariant, PTL

(***************************************************************************)
(* Over any number of crashes, wherever they fall and wherever the sources *)
(* resume, the store and Aeron's stream behave as VersionedView with       *)
(* restarts says.  Within a life the steps are those of StoreService; a    *)
(* replayed record reaches an inbox and no more; a crash is Restart.       *)
(***************************************************************************)
THEOREM LivesImplementRestartingView == RecoverySpec => ImplementsRestartingView
<1>1. RecoveryInit => Abstract!Init
  BY ViewInit DEF RecoveryInit
<1>2. LivesInv /\ [RecoveryNext]_allVars => [Abstract!RestartingNext]_(Abstract!viewVars)
  <2> SUFFICES ASSUME LivesInv, [RecoveryNext]_allVars
               PROVE  Abstract!RestartingNext \/ UNCHANGED Abstract!viewVars
    OBVIOUS
  <2>1. CASE [Next]_vars
    <3>1. Abstract!Next \/ UNCHANGED Abstract!viewVars
      BY <2>1, ViewStep DEF LivesInv
    <3> QED
      BY <3>1 DEF Abstract!RestartingNext
  <2>2. ASSUME NEW s \in Source, Replay(s)
        PROVE  UNCHANGED Abstract!viewVars
    BY <2>2 DEF Replay, viewVars, publisherVars, Abstract!viewVars
  <2>3. ASSUME NEW s \in Source, Produce(s)
        PROVE  [Next]_vars
    BY <2>3 DEF Produce, Next
  <2>4. CASE Crash
    <3>1. Abstract!Restart
      BY <2>4 DEF Crash, Resume, HeapLost, IndexLost, EmptyView,
                  Abstract!Restart, Abstract!EmptyView
    <3> QED
      BY <3>1 DEF Abstract!RestartingNext
  <2>5. CASE (IngestStep \/ ApplyStep) /\ UNCHANGED lifeVars
    BY <2>1, <2>5 DEF Next
  <2>6. CASE UNCHANGED allVars
    BY <2>1, <2>6 DEF allVars
  <2> QED
    BY <2>1, <2>2, <2>3, <2>4, <2>5, <2>6 DEF RecoveryNext
<1> QED
  BY <1>1, <1>2, LivesInvariant, PTL
  DEF RecoverySpec, ImplementsRestartingView, Abstract!RestartingSpec
=============================================================================
