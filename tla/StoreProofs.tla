----------------------------- MODULE StoreProofs -----------------------------
(***************************************************************************)
(* Theorems about StoreService, for every value of its constants: any      *)
(* keys, payloads and versions, any snapshots, any queue capacity, batch   *)
(* sizes and retries, any number of records and redeliveries, and each of  *)
(* the three drivers.                                                      *)
(***************************************************************************)
EXTENDS StoreProperties, RetryingPublisherProofs

-----------------------------------------------------------------------------
(***************************************************************************)
(* The pure functions of CoreDomain.                                       *)
(***************************************************************************)
LEMMA PutIsView ==
  ASSUME NEW view, IsView(view), NEW k \in Key, NEW r \in StateRecord
  PROVE  IsView(Put(view, k, r))
  BY DEF IsView, Put

LEMMA NotificationTyped ==
  ASSUME NEW view, IsView(view), NEW e \in UpsertEvent
  PROVE  NotificationOf(view, e) \in StateChangeNotification
<1>1. VersionIn(view, e.key) \in 0 .. MaxVersion
  BY MaxVersionAssumption DEF IsView, VersionIn, StateRecord, Version, UpsertEvent
<1> QED
  BY <1>1 DEF NotificationOf, UpsertEvent, StateChangeNotification

LEMMA RecordOfEvent ==
  ASSUME NEW e \in UpsertEvent
  PROVE  RecordOf(e) \in StateRecord
  BY DEF UpsertEvent, RecordOf, StateRecord

LEMMA RecordOfRow ==
  ASSUME NEW row \in SnapshotRow, row.version > 0
  PROVE  /\ RecordOf(row) \in StateRecord
         /\ row.key \in Key
  BY MaxVersionAssumption DEF SnapshotRow, RecordOf, StateRecord, Version

LEMMA RowTyped ==
  ASSUME NEW s \in Snapshots, NEW i \in DOMAIN s
  PROVE  /\ s \in Seq(SnapshotRow)
         /\ s[i] \in SnapshotRow
         /\ Len(s) \in Nat
         /\ DOMAIN s = 1 .. Len(s)
  BY SnapshotsAssumption

-----------------------------------------------------------------------------
(***************************************************************************)
(* Type correctness.                                                       *)
(***************************************************************************)
LEMMA InitTyped == Init => TypeOK
<1> SUFFICES ASSUME Init PROVE TypeOK
  OBVIOUS
<1>1. PublisherTypeOK
  BY PublisherInitTyped DEF Init
<1>2. loaded \in 0 .. Len(rows)
  BY SnapshotsAssumption DEF Init
<1>3. IsView(store)
  BY DEF Init, IsView, EmptyView
<1>4. /\ <<>> \in Seq(UpsertEvent)
      /\ Len(applyQueue) <= QueueCapacity
  BY ArgumentsAssumption DEF Init
<1>5. /\ sent \in [Source -> Seq(UpsertEvent)]
      /\ inbox \in [Source -> Seq(UpsertEvent)]
      /\ checkpoint \in [Source -> Nat]
      /\ metrics \in [Metric -> Nat]
  BY <1>4 DEF Init
<1>6. /\ processed \in 0 .. MaxEvents
      /\ polling \in Source
      /\ phase = "idle"
  BY ArgumentsAssumption DEF Init, PublisherInit, Source
<1> QED
  BY <1>1, <1>2, <1>3, <1>4, <1>5, <1>6 DEF Init, TypeOK

LEMMA SourcesTyped ==
  ASSUME TypeOK, NEW s \in Source, Send(s) \/ Redeliver(s)
  PROVE  TypeOK'
<1>1. PublisherTypeOK'
  BY PublisherIdleTyped DEF TypeOK, Send, Redeliver
<1>2. CASE Send(s)
  <2>1. PICK k \in Key, v \in Version, p \in Payload :
          /\ sent' = [sent EXCEPT ![s] = Append(@, NextRecord(s, k, v, p))]
          /\ Accept(s, NextRecord(s, k, v, p))
    BY <1>2 DEF Send
  <2>2. NextRecord(s, k, v, p) \in UpsertEvent
    BY DEF NextRecord, UpsertEvent, TypeOK
  <2> QED
    BY <1>1, <1>2, <2>1, <2>2
    DEF TypeOK, Send, Accept, viewVars, ingestVars, applyVars, historyVars, publisherVars
<1>3. CASE Redeliver(s)
  <2>1. PICK i \in DOMAIN sent[s] : Accept(s, sent[s][i])
    BY <1>3 DEF Redeliver
  <2>2. sent[s][i] \in UpsertEvent
    BY DEF TypeOK
  <2> QED
    BY <1>1, <1>3, <2>1, <2>2
    DEF TypeOK, Redeliver, Accept, viewVars, ingestVars, applyVars, historyVars, publisherVars
<1> QED
  BY <1>2, <1>3

LEMMA LoadTyped ==
  ASSUME TypeOK, LoadRow \/ LoadRejected \/ LoadDone
  PROVE  TypeOK'
<1>1. PublisherTypeOK'
  BY PublisherIdleTyped DEF TypeOK, LoadRow, LoadRejected, LoadDone
<1>2. CASE LoadRow
  <2>1. loaded + 1 \in DOMAIN rows /\ rows \in Snapshots /\ Len(rows) \in Nat
    BY <1>2, SnapshotsAssumption DEF TypeOK, LoadRow
  <2>2. rows[loaded + 1] \in SnapshotRow
    BY <2>1, RowTyped
  <2>3. IsView(store)'
    BY <1>2, <2>2, RecordOfRow, PutIsView DEF LoadRow, TypeOK
  <2>4. (loaded \in 0 .. Len(rows))'
    BY <1>2, <2>1 DEF LoadRow, TypeOK
  <2> QED
    BY <1>1, <1>2, <2>1, <2>3, <2>4
    DEF TypeOK, LoadRow, sourceVars, ingestVars, applyVars, historyVars, publisherVars
<1>3. CASE LoadRejected
  BY <1>1, <1>3
  DEF TypeOK, LoadRejected, sourceVars, viewVars, ingestVars, historyVars, publisherVars
<1>4. CASE LoadDone
  BY <1>1, <1>4
  DEF TypeOK, LoadDone, sourceVars, ingestVars, historyVars, publisherVars
<1> QED
  BY <1>2, <1>3, <1>4

LEMMA IngestTyped ==
  ASSUME TypeOK, IngestStep
  PROVE  TypeOK'
<1>1. PublisherTypeOK'
  BY PublisherIdleTyped
  DEF TypeOK, IngestStep, IngestOnce, Poll, OfferAccepted, OfferDropped, SourceDone
<1> USE DEF TypeOK, sourceVars, viewVars, ingestVars, applyVars, historyVars, publisherVars
<1>2. CASE IngestOnce
  BY <1>1, <1>2 DEF IngestOnce, Source
<1>3. CASE Poll
  <2> DEFINE q == inbox[polling]
             n == Smaller(MaxBatch, Len(q))
  <2>1. q \in Seq(UpsertEvent) /\ n \in 0 .. Len(q)
    BY ArgumentsAssumption DEF Smaller
  <2>2. SubSeq(q, 1, n) \in Seq(UpsertEvent) /\ SubSeq(q, n + 1, Len(q)) \in Seq(UpsertEvent)
    BY <2>1
  <2> QED
    BY <1>1, <1>3, <2>2 DEF Poll
<1>4. CASE OfferAccepted
  <2>1. Head(batch) \in UpsertEvent /\ Tail(batch) \in Seq(UpsertEvent)
    BY <1>4 DEF OfferAccepted
  <2>2. applyQueue' \in Seq(UpsertEvent) /\ Len(applyQueue') <= QueueCapacity
    BY <1>4, <2>1, ArgumentsAssumption DEF OfferAccepted
  <2> QED
    BY <1>1, <1>4, <2>1, <2>2 DEF OfferAccepted
<1>5. CASE OfferDropped
  <2>1. Head(batch) \in UpsertEvent /\ Tail(batch) \in Seq(UpsertEvent)
    BY <1>5 DEF OfferDropped
  <2>2. <<Head(batch).source, Head(batch).position>> \in Source \X (Nat \ {0})
    BY <2>1 DEF UpsertEvent
  <2>3. metrics' \in [Metric -> Nat]
    BY <1>5 DEF OfferDropped, Count, Metric
  <2> QED
    BY <1>1, <1>5, <2>1, <2>2, <2>3 DEF OfferDropped
<1>6. CASE SourceDone
  BY <1>1, <1>6 DEF SourceDone, Source
<1> QED
  BY <1>2, <1>3, <1>4, <1>5, <1>6 DEF IngestStep

LEMMA ProcessTyped ==
  ASSUME TypeOK, ProcessOnce \/ Take \/ ProcessReturns \/ SkipUpsert \/ SaveCheckpoint
  PROVE  TypeOK'
<1>1. PublisherTypeOK'
  BY PublisherIdleTyped
  DEF TypeOK, ProcessOnce, Take, ProcessReturns, SkipUpsert, SaveCheckpoint
<1> USE DEF TypeOK, sourceVars, viewVars, ingestVars, applyVars, historyVars, publisherVars
<1>2. CASE ProcessOnce
  BY <1>1, <1>2 DEF ProcessOnce
<1>3. CASE Take
  <2>1. /\ Head(applyQueue) \in UpsertEvent
        /\ Tail(applyQueue) \in Seq(UpsertEvent)
        /\ Len(Tail(applyQueue)) <= QueueCapacity
    BY <1>3, ArgumentsAssumption DEF Take
  <2>2. current' # None
    BY <1>3, <2>1, NoEventAssumption DEF Take
  <2>3. processed' \in 0 .. MaxEvents
    BY <1>3, ArgumentsAssumption DEF Take
  <2>4. current' \in UpsertEvent /\ applyQueue' \in Seq(UpsertEvent)
        /\ Len(applyQueue') <= QueueCapacity /\ applyAt' = "evaluate"
    BY <1>3, <2>1 DEF Take
  <2> QED
    BY <1>1, <1>3, <2>2, <2>3, <2>4 DEF Take
<1>4. CASE ProcessReturns
  BY <1>1, <1>4, ArgumentsAssumption DEF ProcessReturns
<1>5. CASE SkipUpsert
  <2>1. metrics' \in [Metric -> Nat]
    BY <1>5 DEF SkipUpsert, Count, Metric
  <2> QED
    BY <1>1, <1>5, <2>1 DEF SkipUpsert
<1>6. CASE SaveCheckpoint
  <2>1. current \in UpsertEvent
    BY <1>6 DEF SaveCheckpoint
  <2>2. current.source \in Source /\ current.position \in Nat
    BY <2>1 DEF UpsertEvent
  <2>3. checkpoint' \in [Source -> Nat]
    BY <1>6, <2>2 DEF SaveCheckpoint
  <2> QED
    BY <1>1, <1>6, <2>3 DEF SaveCheckpoint
<1> QED
  BY <1>2, <1>3, <1>4, <1>5, <1>6

LEMMA PublishingTyped ==
  ASSUME TypeOK, ApplyUpsert \/ PublishAttempt \/ PublishReturned \/ PublishThrew
  PROVE  TypeOK'
<1>1. CASE ApplyUpsert
  <2>1. current \in UpsertEvent
    BY <1>1 DEF TypeOK, ApplyUpsert
  <2>2. NotificationOf(store, current) \in StateChangeNotification
    BY <2>1, NotificationTyped DEF TypeOK
  <2>3. PublisherTypeOK'
    BY <1>1, <2>2, PublishTyped DEF TypeOK, ApplyUpsert
  <2>4. IsView(store)'
    BY <1>1, <2>1, PutIsView, RecordOfEvent DEF TypeOK, ApplyUpsert, UpsertEvent
  <2> QED
    BY <1>1, <2>3, <2>4 DEF TypeOK, ApplyUpsert, Publish, sourceVars, ingestVars, historyVars
<1>2. CASE PublishAttempt
  <2>1. PublisherTypeOK' /\ phase # "idle" /\ phase' # "idle"
    BY <1>2, PublisherStepTyped, PublisherStepPhases DEF TypeOK, PublishAttempt
  <2> QED
    BY <1>2, <2>1
    DEF TypeOK, PublishAttempt, sourceVars, viewVars, ingestVars, applyVars, historyVars
<1>3. CASE PublishReturned
  <2>1. PublisherTypeOK' /\ phase # "idle" /\ phase' = "idle"
    BY <1>3, ConcludeTyped DEF TypeOK, PublishReturned, Conclude
  <2>2. metrics' \in [Metric -> Nat]
    BY <1>3 DEF TypeOK, PublishReturned, Count, Metric
  <2> QED
    BY <1>3, <2>1, <2>2
    DEF TypeOK, PublishReturned, sourceVars, viewVars, ingestVars, historyVars
<1>4. CASE PublishThrew
  <2>1. PublisherTypeOK' /\ phase # "idle" /\ phase' = "idle"
    BY <1>4, ConcludeTyped DEF TypeOK, PublishThrew, Conclude
  <2>2. metrics' \in [Metric -> Nat]
    BY <1>4 DEF TypeOK, PublishThrew, Count, Metric
  <2>3. current \in UpsertEvent
    BY <1>4, <2>1 DEF TypeOK
  <2> QED
    BY <1>4, <2>1, <2>2, <2>3, ArgumentsAssumption
    DEF TypeOK, PublishThrew, sourceVars, viewVars, ingestVars
<1> QED
  BY <1>1, <1>2, <1>3, <1>4

LEMMA UnchangedTyped ==
  ASSUME TypeOK, UNCHANGED vars
  PROVE  TypeOK'
<1>1. UNCHANGED publisherVars
  BY DEF vars
<1>2. PublisherTypeOK'
  BY <1>1, PublisherIdleTyped DEF TypeOK
<1> QED
  BY <1>2
  DEF TypeOK, vars, sourceVars, viewVars, ingestVars, applyVars, historyVars, publisherVars

(***************************************************************************)
(* Every variable keeps its type; the apply queue never holds more than    *)
(* its capacity, processOnce holds an event exactly from its poll to its   *)
(* checkpoint or its exception, and a publish call runs exactly while it   *)
(* waits for one.                                                          *)
(***************************************************************************)
THEOREM TypeCorrect == Spec => []TypeOK
<1>1. Init => TypeOK
  BY InitTyped
<1>2. TypeOK /\ [Next]_vars => TypeOK'
  BY SourcesTyped, LoadTyped, IngestTyped, ProcessTyped, PublishingTyped, UnchangedTyped
  DEF Next, ApplyStep
<1> QED
  BY <1>1, <1>2, PTL DEF Spec

-----------------------------------------------------------------------------
(***************************************************************************)
(* The store over time.  A row overwrites nothing because the primary key  *)
(* makes its key new, which takes an invariant on what the loader has put; *)
(* an upsert overwrites only a lower version because of the gate.          *)
(***************************************************************************)
LoadInv ==
  /\ applyAt = "loading" =>
       ~bootstrapped /\ DOMAIN store = {rows[i].key : i \in 1 .. loaded}
  /\ applyAt \notin {"loading", "dead"} => bootstrapped
  /\ bootstrapped => loaded = Len(rows)
  /\ \A i \in 1 .. loaded : Reflected(rows[i])

StoreInv == TypeOK /\ LoadInv

StoreGrows ==
  \A k \in DOMAIN store :
    /\ k \in DOMAIN store'
    /\ store'[k] = store[k] \/ store'[k].version > store[k].version

\* Which steps touch what the loader and the apply engine write.
LEMMA ViewSteps ==
  ASSUME TypeOK, [Next]_vars
  PROVE  \/ LoadRow
         \/ LoadDone
         \/ ApplyUpsert
         \/ /\ UNCHANGED viewVars
            /\ \/ applyAt' = applyAt
               \/ applyAt' = "dead"
               \/ applyAt \notin {"loading", "dead"} /\ applyAt' # "loading"
<1>1. CASE \E s \in Source : Send(s) \/ Redeliver(s)
  BY <1>1 DEF Send, Redeliver, applyVars
<1>2. CASE IngestStep
  BY <1>2
  DEF IngestStep, IngestOnce, Poll, OfferAccepted, OfferDropped, SourceDone, applyVars
<1>3. CASE ApplyStep
  BY <1>3
  DEF ApplyStep, LoadRejected, ProcessOnce, Take, ProcessReturns, SkipUpsert,
      PublishAttempt, PublishReturned, PublishThrew, Conclude, SaveCheckpoint,
      TypeOK, applyVars
<1>4. CASE UNCHANGED vars
  BY <1>4 DEF vars, applyVars
<1> QED
  BY <1>1, <1>2, <1>3, <1>4 DEF Next

LEMMA AppliedSupersedes ==
  ASSUME NEW view, NEW e, Evaluate(view, e) = "APPLIED"
  PROVE  Supersedes(view, e)
  BY DEF Evaluate

LEMMA ApplyGrows ==
  ASSUME ApplyUpsert
  PROVE  StoreGrows
<1>1. Supersedes(store, current)
  BY AppliedSupersedes DEF ApplyUpsert
<1>2. store' = Put(store, current.key, RecordOf(current))
  BY DEF ApplyUpsert
<1>3. RecordOf(current).version = current.version
  BY DEF RecordOf
<1> QED
  BY <1>1, <1>2, <1>3 DEF Put, StoreGrows, Supersedes

\* The row the loader puts next, and its key, which no row before it has.
LEMMA NextRow ==
  ASSUME StoreInv, LoadRow
  PROVE  /\ rows[loaded + 1] \in SnapshotRow
         /\ rows[loaded + 1].version > 0
         /\ rows[loaded + 1].key \notin DOMAIN store
         /\ store' = Put(store, rows[loaded + 1].key, RecordOf(rows[loaded + 1]))
<1>1. /\ rows \in Snapshots
      /\ loaded \in Nat
      /\ loaded + 1 \in DOMAIN rows
      /\ \A i \in 1 .. loaded : i \in DOMAIN rows
  BY SnapshotsAssumption DEF StoreInv, TypeOK, LoadRow
<1>2. \A i \in 1 .. loaded : rows[i].key # rows[loaded + 1].key
  BY <1>1, SnapshotsAssumption
<1>3. DOMAIN store = {rows[i].key : i \in 1 .. loaded}
  BY DEF StoreInv, LoadInv, LoadRow
<1> QED
  BY <1>1, <1>2, <1>3, RowTyped DEF LoadRow

LEMMA LoadGrows ==
  ASSUME StoreInv, LoadRow
  PROVE  StoreGrows
  BY NextRow DEF Put, StoreGrows

LEMMA StepGrows ==
  ASSUME StoreInv, [Next]_vars
  PROVE  StoreGrows
<1>1. CASE LoadRow
  BY <1>1, LoadGrows
<1>2. CASE ApplyUpsert
  BY <1>2, ApplyGrows
<1>3. CASE UNCHANGED store
  BY <1>3 DEF StoreGrows
<1> QED
  BY <1>1, <1>2, <1>3, ViewSteps DEF StoreInv, LoadDone, viewVars

\* What is reflected once stays so.
LEMMA ReflectedKept ==
  ASSUME TypeOK, TypeOK', StoreGrows,
         NEW e, e.version \in Int, Reflected(e)
  PROVE  VersionIn(store', e.key) >= e.version
<1>1. /\ \A k \in DOMAIN store : store[k].version \in Version
      /\ \A k \in DOMAIN store' : store'[k].version \in Version
  BY DEF TypeOK, IsView, StateRecord
<1>2. VersionIn(store', e.key) >= VersionIn(store, e.key)
  BY <1>1, MaxVersionAssumption DEF VersionIn, StoreGrows, Version
<1>3. /\ VersionIn(store, e.key) \in Int
      /\ VersionIn(store', e.key) \in Int
  BY <1>1, MaxVersionAssumption DEF VersionIn, Version
<1> QED
  BY <1>2, <1>3 DEF Reflected

LEMMA LoadedRows ==
  ASSUME TypeOK, NEW i \in 1 .. loaded
  PROVE  rows[i].version \in Int
<1>1. rows \in Snapshots /\ i \in DOMAIN rows
  BY SnapshotsAssumption DEF TypeOK
<1> QED
  BY <1>1, RowTyped DEF SnapshotRow

LEMMA StoreInvInit == Init => StoreInv
  BY InitTyped DEF Init, StoreInv, LoadInv, EmptyView

LEMMA StoreInvStep ==
  ASSUME StoreInv, [Next]_vars
  PROVE  StoreInv'
<1>1. TypeOK /\ TypeOK'
  BY SourcesTyped, LoadTyped, IngestTyped, ProcessTyped, PublishingTyped, UnchangedTyped
  DEF Next, ApplyStep, StoreInv
<1>2. StoreGrows
  BY StepGrows
<1>3. ASSUME NEW i \in 1 .. loaded
      PROVE  VersionIn(store', rows[i].key) >= rows[i].version
  BY <1>1, <1>2, LoadedRows, ReflectedKept DEF StoreInv, LoadInv
<1>4. loaded \in Nat
  BY <1>1 DEF TypeOK
<1>5. CASE LoadRow
  <2>1. /\ applyAt = "loading" /\ applyAt' = applyAt
        /\ bootstrapped' = bootstrapped
        /\ rows' = rows
        /\ loaded' = loaded + 1
    BY <1>5 DEF LoadRow, applyVars
  <2>2. PICK row \in SnapshotRow :
          /\ row = rows[loaded + 1]
          /\ store' = Put(store, row.key, RecordOf(row))
    BY <1>5, NextRow
  <2>3. DOMAIN store' = {rows[i].key : i \in 1 .. loaded'}
    <3>1. DOMAIN store = {rows[i].key : i \in 1 .. loaded}
      BY <2>1 DEF StoreInv, LoadInv
    <3>2. 1 .. loaded' = (1 .. loaded) \cup {loaded + 1}
      BY <1>4, <2>1
    <3>3. DOMAIN store' = DOMAIN store \cup {row.key}
      BY <2>2 DEF Put
    <3> QED
      BY <2>2, <3>1, <3>2, <3>3
  <2>4. VersionIn(store', row.key) = row.version /\ row.version \in Int
    BY <2>2 DEF Put, VersionIn, RecordOf, SnapshotRow
  <2>5. \A i \in 1 .. loaded' : VersionIn(store', rows[i].key) >= rows[i].version
    <3>1. VersionIn(store', rows[loaded + 1].key) >= rows[loaded + 1].version
      BY <2>2, <2>4
    <3>2. \A i \in 1 .. loaded' : i \in 1 .. loaded \/ i = loaded + 1
      BY <1>4, <2>1
    <3> QED
      BY <1>3, <3>1, <3>2
  <2> QED
    BY <1>1, <2>1, <2>3, <2>5 DEF StoreInv, LoadInv, Reflected
<1>6. CASE LoadDone
  BY <1>1, <1>6 DEF LoadDone, StoreInv, LoadInv, Reflected
<1>7. CASE ApplyUpsert
  <2>1. /\ rows' = rows /\ loaded' = loaded /\ bootstrapped' = bootstrapped
        /\ applyAt = "evaluate" /\ applyAt' = "publishing"
    BY <1>7 DEF ApplyUpsert
  <2> QED
    BY <1>1, <1>3, <2>1 DEF StoreInv, LoadInv, Reflected
<1>8. CASE /\ UNCHANGED viewVars
           /\ \/ applyAt' = applyAt
              \/ applyAt' = "dead"
              \/ applyAt \notin {"loading", "dead"} /\ applyAt' # "loading"
  BY <1>1, <1>8 DEF StoreInv, LoadInv, viewVars, Reflected
<1> QED
  BY <1>1, <1>5, <1>6, <1>7, <1>8, ViewSteps

LEMMA StoreInvariant == Spec => []StoreInv
  BY StoreInvInit, StoreInvStep, PTL DEF Spec

(***************************************************************************)
(* No step of the loader, the transports, either driver thread or the      *)
(* publisher removes a key from the store, lowers its version, or changes  *)
(* its payload without raising the version.                                *)
(***************************************************************************)
THEOREM StoreVersionsNeverRegress == Spec => VersionsNeverRegress
<1>1. StoreInv /\ [Next]_vars =>
        [\A k \in DOMAIN store :
           /\ k \in DOMAIN store'
           /\ store'[k] = store[k] \/ store'[k].version > store[k].version]_vars
  BY StepGrows DEF StoreGrows
<1> QED
  BY <1>1, StoreInvariant, PTL DEF Spec, VersionsNeverRegress

(***************************************************************************)
(* isReady() is true only once every snapshot row is in the store, and     *)
(* every row stays reflected there by its own or a newer version.          *)
(***************************************************************************)
THEOREM ReadyImpliesSeeded == Spec => []ReadyMeansSeeded
<1>1. StoreInv => ReadyMeansSeeded
  <2> SUFFICES ASSUME StoreInv, bootstrapped, NEW i \in DOMAIN rows
               PROVE  Reflected(rows[i])
    BY DEF ReadyMeansSeeded
  <2>1. rows \in Snapshots /\ loaded = Len(rows)
    BY DEF StoreInv, TypeOK, LoadInv
  <2>2. i \in 1 .. loaded
    BY <2>1, RowTyped
  <2> QED
    BY <2>2 DEF StoreInv, LoadInv
<1> QED
  BY <1>1, StoreInvariant, PTL

-----------------------------------------------------------------------------
(***************************************************************************)
(* The service implements VersionedView.  The steps that matter to it are  *)
(* LoadRow (Seed), LoadDone (Open), ApplyUpsert (Change), AeronAccepts     *)
(* (Announce) and AeronExhausted (Lose); all others leave it unchanged.    *)
(***************************************************************************)
LEMMA LoadRowSeeds ==
  ASSUME StoreInv, LoadRow
  PROVE  Abstract!Next
<1>1. PICK row \in SnapshotRow :
        /\ row.version > 0
        /\ row.key \notin DOMAIN store
        /\ store' = Put(store, row.key, RecordOf(row))
  BY NextRow
<1>2. row.key \in Key /\ RecordOf(row) \in StateRecord
  BY <1>1, RecordOfRow
<1>3. ~bootstrapped /\ UNCHANGED <<bootstrapped, publisherVars>>
  BY DEF StoreInv, LoadInv, LoadRow
<1>4. Abstract!Seed(row.key, RecordOf(row))
  BY <1>1, <1>3 DEF Abstract!Seed, Abstract!Put, Put, publisherVars
<1> QED
  BY <1>2, <1>4 DEF Abstract!Next, Abstract!StateRecord, Abstract!Version, StateRecord, Version

LEMMA ApplyUpsertChanges ==
  ASSUME StoreInv, ApplyUpsert
  PROVE  Abstract!Next
<1>1. current \in UpsertEvent /\ IsView(store)
  BY DEF StoreInv, TypeOK, ApplyUpsert
<1>2. /\ bootstrapped /\ bootstrapped' = bootstrapped
      /\ phase = "idle" /\ phase' = "aeron"
      /\ pending' = NotificationOf(store, current)
      /\ aeronOut' = aeronOut
      /\ store' = Put(store, current.key, RecordOf(current))
  BY DEF StoreInv, LoadInv, ApplyUpsert, Publish
<1>3. current.version > VersionIn(store, current.key)
  <2>1. Supersedes(store, current)
    BY AppliedSupersedes DEF ApplyUpsert
  <2> QED
    BY <1>1, <2>1, MaxVersionAssumption DEF Supersedes, VersionIn, UpsertEvent, Version
<1>4. Abstract!Change(current.key, RecordOf(current))
  BY <1>2, <1>3
  DEF Abstract!Change, Abstract!Put, Abstract!VersionIn, Put, VersionIn, RecordOf,
      NotificationOf
<1> QED
  BY <1>1, <1>4, RecordOfEvent
  DEF Abstract!Next, Abstract!StateRecord, Abstract!Version, StateRecord, Version, UpsertEvent

\* An attempt on Aeron announces, its exhaustion loses, Kafka's do neither.
LEMMA PublishAttemptAnnounces ==
  ASSUME StoreInv, PublishAttempt
  PROVE  Abstract!Next \/ UNCHANGED Abstract!viewVars
<1>1. UNCHANGED <<store, bootstrapped>>
  BY DEF PublishAttempt, viewVars
<1>2. phase = "aeron" => pending # None
  BY DEF StoreInv, TypeOK, PublisherTypeOK
<1>3. CASE AeronAccepts
  <2>1. Abstract!Announce
    BY <1>1, <1>2, <1>3 DEF AeronAccepts, Abstract!Announce
  <2> QED
    BY <2>1 DEF Abstract!Next
<1>4. CASE AeronExhausted
  <2>1. Abstract!Lose
    BY <1>1, <1>2, <1>4 DEF AeronExhausted, Abstract!Lose
  <2> QED
    BY <2>1 DEF Abstract!Next
<1>5. CASE KafkaAccepts \/ AttemptFails \/ KafkaExhausted
  BY <1>1, <1>5 DEF KafkaAccepts, AttemptFails, KafkaExhausted, Abstract!viewVars
<1> QED
  BY <1>3, <1>4, <1>5 DEF PublishAttempt, PublisherStep

\* Steps of the sources, the ingress and the counters are not seen.
LEMMA OtherStepsUnseen ==
  ASSUME StoreInv, [Next]_vars
  PROVE  \/ LoadRow
         \/ LoadDone
         \/ ApplyUpsert
         \/ PublishAttempt
         \/ UNCHANGED Abstract!viewVars
<1> USE DEF Abstract!viewVars
<1>1. CASE \E s \in Source : Send(s) \/ Redeliver(s)
  BY <1>1 DEF Send, Redeliver, viewVars, publisherVars
<1>2. CASE IngestStep
  BY <1>2
  DEF IngestStep, IngestOnce, Poll, OfferAccepted, OfferDropped, SourceDone,
      viewVars, publisherVars
<1>3. CASE ApplyStep
  BY <1>3
  DEF ApplyStep, LoadRejected, ProcessOnce, Take, ProcessReturns, SkipUpsert,
      PublishReturned, PublishThrew, Conclude, SaveCheckpoint, viewVars, publisherVars
<1>4. CASE UNCHANGED vars
  BY <1>4 DEF vars, viewVars, publisherVars
<1> QED
  BY <1>1, <1>2, <1>3, <1>4 DEF Next

LEMMA ViewStep ==
  ASSUME StoreInv, [Next]_vars
  PROVE  Abstract!Next \/ UNCHANGED Abstract!viewVars
<1>1. CASE LoadDone
  <2>1. Abstract!Open
    BY <1>1 DEF LoadDone, StoreInv, LoadInv, publisherVars, Abstract!Open
  <2> QED
    BY <2>1 DEF Abstract!Next
<1> QED
  BY <1>1, LoadRowSeeds, ApplyUpsertChanges, PublishAttemptAnnounces, OtherStepsUnseen

LEMMA ViewInit == Init => Abstract!Init
  BY DEF Init, PublisherInit, EmptyView, Abstract!Init, Abstract!EmptyView

(***************************************************************************)
(* The store and Aeron's stream behave as VersionedView says: every change *)
(* raises a version and is announced once or lost, in order, before the    *)
(* next change.                                                            *)
(***************************************************************************)
THEOREM ServiceImplementsVersionedView == Spec => ImplementsVersionedView
<1>1. StoreInv /\ [Next]_vars => [Abstract!Next]_(Abstract!viewVars)
  BY ViewStep
<1> QED
  BY <1>1, ViewInit, StoreInvariant, PTL DEF Spec, ImplementsVersionedView, Abstract!Spec

=============================================================================
