---------------------------- MODULE StreamProofs ----------------------------
(***************************************************************************)
(* What consumers of StoreService are told: the order of the streams, and  *)
(* that they end with the current records.  The lemmas are about the steps *)
(* of one life and say from which place of Aeron's and Kafka's streams on  *)
(* they speak, so that RecoveryProofs can use them for every life.         *)
(***************************************************************************)
EXTENDS StoreProofs

\* The steps that write a record or take part in announcing it; all others:
NothingAnnounced ==
  /\ UNCHANGED <<store, rows, unannounced, publisherVars>>
  /\ phase = "idle" \/ current' = current

LEMMA AnnouncingSteps ==
  ASSUME TypeOK, [Next]_vars
  PROVE  \/ LoadRow
         \/ ApplyUpsert
         \/ PublishAttempt
         \/ PublishReturned
         \/ PublishThrew
         \/ NothingAnnounced
<1> USE DEF NothingAnnounced, viewVars, applyVars, historyVars, publisherVars
<1>1. CASE \E s \in Source : Send(s) \/ Redeliver(s)
  BY <1>1 DEF Send, Redeliver
<1>2. CASE IngestStep
  BY <1>2 DEF IngestStep, IngestOnce, Poll, OfferAccepted, OfferDropped, SourceDone
<1>3. CASE ApplyStep
  BY <1>3
  DEF ApplyStep, LoadRejected, LoadDone, ProcessOnce, Take, ProcessReturns, SkipUpsert,
      SaveCheckpoint, TypeOK
<1>4. CASE UNCHANGED vars
  BY <1>4 DEF vars
<1> QED
  BY <1>1, <1>2, <1>3, <1>4 DEF Next

LEMMA StreamsTyped ==
  ASSUME TypeOK
  PROVE  /\ aeronOut \in Seq(StateChangeNotification)
         /\ kafkaOut \in Seq(StateChangeNotification)
         /\ deadLetters \in Seq(StateChangeNotification)
         /\ pending \in StateChangeNotification \cup {None}
         /\ pending = None <=> phase = "idle"
         /\ \A k : VersionIn(store, k) \in 0 .. MaxVersion
<1>1. ASSUME NEW k PROVE VersionIn(store, k) \in 0 .. MaxVersion
  BY MaxVersionAssumption DEF TypeOK, IsView, VersionIn, StateRecord, Version
<1> QED
  BY <1>1 DEF TypeOK, PublisherTypeOK

LEMMA VersionsGrow ==
  ASSUME TypeOK, TypeOK', StoreGrows, NEW k
  PROVE  /\ VersionIn(store, k) \in Nat
         /\ VersionIn(store', k) \in Nat
         /\ VersionIn(store', k) >= VersionIn(store, k)
<1>1. /\ \A j \in DOMAIN store : store[j].version \in Version
      /\ \A j \in DOMAIN store' : store'[j].version \in Version
  BY DEF TypeOK, IsView, StateRecord
<1> QED
  BY <1>1, MaxVersionAssumption DEF VersionIn, StoreGrows, Version

-----------------------------------------------------------------------------
(***************************************************************************)
(* The order of the streams.  After its place n a stream tells changes in  *)
(* order, and has not told a version the store does not have yet.  The     *)
(* change being published comes after all that was told of its key on the  *)
(* streams it has still to reach.                                          *)
(***************************************************************************)
After(out, n) == n + 1 .. Len(out)

Chained(out, n, view) ==
  /\ \A i \in After(out, n) :
       /\ out[i].oldVersion < out[i].newVersion
       /\ out[i].newVersion <= VersionIn(view, out[i].key)
  /\ \A i, j \in After(out, n) :
       (i < j /\ out[i].key = out[j].key) => out[i].newVersion <= out[j].oldVersion

Continues(out, n, m) ==
  \A i \in After(out, n) : out[i].key = m.key => out[i].newVersion <= m.oldVersion

PendingRaises ==
  pending # None =>
    /\ pending.oldVersion < pending.newVersion
    /\ pending.newVersion <= VersionIn(store, pending.key)

StreamInv(a, k) ==
  /\ PendingRaises
  /\ Chained(aeronOut, a, store)
  /\ Chained(kafkaOut, k, store)
  /\ Chained(deadLetters, 0, store)
  /\ phase = "aeron" => Continues(aeronOut, a, pending)
  /\ phase \in {"aeron", "kafka"} =>
       Continues(kafkaOut, k, pending) /\ Continues(deadLetters, 0, pending)

\* A chain stays one while the store grows.
LEMMA ChainedKept ==
  ASSUME NEW out \in Seq(StateChangeNotification), NEW n \in Nat,
         NEW view, NEW later,
         \A k : /\ VersionIn(view, k) \in Nat /\ VersionIn(later, k) \in Nat
                /\ VersionIn(later, k) >= VersionIn(view, k),
         Chained(out, n, view)
  PROVE  Chained(out, n, later)
<1>1. ASSUME NEW i \in After(out, n)
      PROVE  out[i].newVersion <= VersionIn(later, out[i].key)
  <2>1. out[i] \in StateChangeNotification
    BY DEF After
  <2>2. out[i].newVersion \in Nat
    BY <2>1, MaxVersionAssumption DEF StateChangeNotification, Version
  <2>3. out[i].newVersion <= VersionIn(view, out[i].key)
    BY DEF Chained
  <2> QED
    BY <2>2, <2>3
<1> QED
  BY <1>1 DEF Chained

\* It is extended by a change that continues it.
LEMMA ChainedExtended ==
  ASSUME NEW out \in Seq(StateChangeNotification), NEW n \in Nat, NEW view,
         NEW m \in StateChangeNotification,
         Chained(out, n, view), Continues(out, n, m),
         m.oldVersion < m.newVersion, m.newVersion <= VersionIn(view, m.key)
  PROVE  Chained(Append(out, m), n, view)
<1> DEFINE longer == Append(out, m)
<1>1. /\ Len(out) \in Nat /\ Len(longer) = Len(out) + 1
      /\ longer[Len(out) + 1] = m
      /\ \A i \in 1 .. Len(out) : longer[i] = out[i]
  OBVIOUS
<1>2. ASSUME NEW i \in After(longer, n)
      PROVE  \/ i \in After(out, n) /\ longer[i] = out[i]
             \/ i = Len(out) + 1 /\ longer[i] = m
  BY <1>1 DEF After
<1>3. ASSUME NEW i \in After(longer, n)
      PROVE  /\ longer[i].oldVersion < longer[i].newVersion
             /\ longer[i].newVersion <= VersionIn(view, longer[i].key)
  BY <1>2 DEF Chained
<1>4. ASSUME NEW i \in After(longer, n), NEW j \in After(longer, n),
             i < j, longer[i].key = longer[j].key
      PROVE  longer[i].newVersion <= longer[j].oldVersion
  <2>1. i \in After(out, n) /\ longer[i] = out[i]
    BY <1>1, <1>2, <1>4 DEF After
  <2>2. CASE j \in After(out, n) /\ longer[j] = out[j]
    BY <1>4, <2>1, <2>2 DEF Chained
  <2>3. CASE j = Len(out) + 1 /\ longer[j] = m
    BY <1>4, <2>1, <2>3 DEF Continues
  <2> QED
    BY <1>2, <2>2, <2>3
<1> HIDE DEF longer
<1>5. Chained(longer, n, view)
  BY <1>3, <1>4 DEF Chained
<1> QED
  BY <1>5 DEF longer

\* The record that is applied continues all chains of its key.
LEMMA ChangeContinues ==
  ASSUME NEW out \in Seq(StateChangeNotification), NEW n \in Nat, NEW view, NEW e,
         Chained(out, n, view)
  PROVE  Continues(out, n, NotificationOf(view, e))
  BY DEF Chained, Continues, NotificationOf

LEMMA StreamsKept ==
  ASSUME TypeOK, TypeOK', StoreGrows, UNCHANGED publisherVars,
         NEW a \in Nat, NEW k \in Nat, StreamInv(a, k)
  PROVE  StreamInv(a, k)'
<1>1. \A j : /\ VersionIn(store, j) \in Nat /\ VersionIn(store', j) \in Nat
             /\ VersionIn(store', j) >= VersionIn(store, j)
  BY VersionsGrow
<1>2. UNCHANGED <<phase, pending, aeronOut, kafkaOut, deadLetters>>
  BY DEF publisherVars
<1>3. /\ Chained(aeronOut, a, store')
      /\ Chained(kafkaOut, k, store')
      /\ Chained(deadLetters, 0, store')
  BY <1>1, ChainedKept, StreamsTyped DEF StreamInv
<1>4. PendingRaises'
  <2> SUFFICES ASSUME pending # None
               PROVE  /\ pending.oldVersion < pending.newVersion
                      /\ pending.newVersion <= VersionIn(store', pending.key)
    BY <1>2 DEF PendingRaises
  <2>1. pending.newVersion \in Nat
    BY StreamsTyped, MaxVersionAssumption DEF StateChangeNotification, Version
  <2> QED
    BY <1>1, <2>1 DEF PendingRaises, StreamInv
<1> QED
  BY <1>2, <1>3, <1>4 DEF StreamInv

LEMMA StreamsApply ==
  ASSUME TypeOK, TypeOK', ApplyUpsert,
         NEW a \in Nat, NEW k \in Nat, StreamInv(a, k)
  PROVE  StreamInv(a, k)'
<1>1. /\ phase' = "aeron" /\ pending' = NotificationOf(store, current)
      /\ UNCHANGED <<aeronOut, kafkaOut, deadLetters>>
      /\ store' = Put(store, current.key, RecordOf(current))
      /\ current \in UpsertEvent
  BY DEF ApplyUpsert, Publish, TypeOK
<1>2. \A j : /\ VersionIn(store, j) \in Nat /\ VersionIn(store', j) \in Nat
             /\ VersionIn(store', j) >= VersionIn(store, j)
  BY ApplyGrows, VersionsGrow
<1>3. /\ Chained(aeronOut, a, store')
      /\ Chained(kafkaOut, k, store')
      /\ Chained(deadLetters, 0, store')
  BY <1>2, ChainedKept, StreamsTyped DEF StreamInv
<1>4. /\ Continues(aeronOut, a, pending')
      /\ Continues(kafkaOut, k, pending')
      /\ Continues(deadLetters, 0, pending')
  BY <1>1, ChangeContinues, StreamsTyped DEF StreamInv
<1>5. PendingRaises'
  <2>1. Supersedes(store, current)
    BY AppliedSupersedes DEF ApplyUpsert
  <2>2. VersionIn(store, current.key) < current.version
    BY <1>1, <2>1, MaxVersionAssumption DEF Supersedes, VersionIn, UpsertEvent, Version
  <2>3. VersionIn(store', current.key) = current.version /\ current.version \in Nat
    BY <1>1, MaxVersionAssumption DEF Put, VersionIn, RecordOf, UpsertEvent, Version
  <2> QED
    BY <1>1, <2>2, <2>3 DEF PendingRaises, NotificationOf
<1> QED
  BY <1>1, <1>3, <1>4, <1>5 DEF StreamInv

LEMMA StreamsAttempt ==
  ASSUME TypeOK, PublishAttempt,
         NEW a \in Nat, NEW k \in Nat, StreamInv(a, k)
  PROVE  StreamInv(a, k)'
<1>1. store' = store /\ pending' = pending
  BY PublisherStepPhases DEF PublishAttempt, viewVars
<1>2. /\ pending \in StateChangeNotification
      /\ pending.oldVersion < pending.newVersion
      /\ pending.newVersion <= VersionIn(store, pending.key)
  BY PublisherStepPhases, StreamsTyped DEF PublishAttempt, StreamInv, PendingRaises
<1>3. PendingRaises'
  BY <1>1, <1>2 DEF PendingRaises
<1>4. CASE AeronAccepts
  <2>1. Chained(Append(aeronOut, pending), a, store)
    BY <1>2, <1>4, ChainedExtended, StreamsTyped DEF AeronAccepts, StreamInv
  <2> QED
    BY <1>1, <1>3, <1>4, <2>1 DEF AeronAccepts, StreamInv
<1>5. CASE KafkaAccepts
  <2>1. Chained(Append(kafkaOut, pending), k, store)
    BY <1>2, <1>5, ChainedExtended, StreamsTyped DEF KafkaAccepts, StreamInv
  <2> QED
    BY <1>1, <1>3, <1>5, <2>1 DEF KafkaAccepts, StreamInv
<1>6. CASE KafkaExhausted
  <2>1. Chained(Append(deadLetters, pending), 0, store)
    BY <1>2, <1>6, ChainedExtended, StreamsTyped DEF KafkaExhausted, StreamInv
  <2> QED
    BY <1>1, <1>3, <1>6, <2>1 DEF KafkaExhausted, StreamInv
<1>7. CASE AttemptFails \/ AeronExhausted
  BY <1>1, <1>3, <1>7 DEF AttemptFails, AeronExhausted, StreamInv
<1> QED
  BY <1>4, <1>5, <1>6, <1>7 DEF PublishAttempt, PublisherStep

LEMMA StreamsConclude ==
  ASSUME PublishReturned \/ PublishThrew, NEW a \in Nat, NEW k \in Nat, StreamInv(a, k)
  PROVE  StreamInv(a, k)'
<1>1. /\ phase' = "idle" /\ pending' = None
      /\ UNCHANGED <<store, aeronOut, kafkaOut, deadLetters>>
  BY DEF PublishReturned, PublishThrew, Conclude, viewVars
<1> QED
  BY <1>1 DEF StreamInv, PendingRaises

LEMMA StreamInvStep ==
  ASSUME StoreInv, TypeOK', [Next]_vars,
         NEW a \in Nat, NEW k \in Nat, StreamInv(a, k)
  PROVE  StreamInv(a, k)'
<1>1. CASE LoadRow
  <2>1. UNCHANGED publisherVars
    BY <1>1 DEF LoadRow
  <2> QED
    BY <1>1, <2>1, StepGrows, StreamsKept DEF StoreInv
<1>2. CASE NothingAnnounced
  <2>1. UNCHANGED publisherVars
    BY <1>2 DEF NothingAnnounced
  <2> QED
    BY <2>1, StepGrows, StreamsKept DEF StoreInv
<1> QED
  BY <1>1, <1>2, AnnouncingSteps, StreamsApply, StreamsAttempt, StreamsConclude DEF StoreInv

LEMMA StreamInvInit == Init => StreamInv(0, 0)
  BY DEF Init, PublisherInit, StreamInv, PendingRaises, Chained, Continues, After

LEMMA ChainedInOrder ==
  ASSUME NEW out \in Seq(StateChangeNotification), NEW view, Chained(out, 0, view)
  PROVE  ChangesInOrder(out)
  BY DEF Chained, ChangesInOrder, After

(***************************************************************************)
(* Aeron's stream, Kafka's and the dead letters each tell a key's changes  *)
(* in the order the engine applied them and once, whatever attempts fail   *)
(* and whatever publications throw.                                        *)
(***************************************************************************)
THEOREM StreamsAlwaysInOrder == Spec => []StreamsInOrder
<1>1. Init => StreamInv(0, 0)
  BY StreamInvInit
<1>2. StoreInv /\ StoreInv' /\ StreamInv(0, 0) /\ [Next]_vars => StreamInv(0, 0)'
  BY StreamInvStep DEF StoreInv
<1>3. StoreInv /\ StreamInv(0, 0) => StreamsInOrder
  BY ChainedInOrder, StreamsTyped DEF StoreInv, StreamInv, StreamsInOrder
<1> QED
  BY <1>1, <1>2, <1>3, StoreInvariant, PTL DEF Spec

-----------------------------------------------------------------------------
(***************************************************************************)
(* What a consumer knows of a key.  Between the write of a record and the  *)
(* end of its publication the record is on its way, and is on the streams  *)
(* that the publication has been to.                                       *)
(***************************************************************************)
CurrentIsPending ==
  phase # "idle" =>
    /\ pending.key = current.key
    /\ pending.newVersion = current.version
    /\ store[pending.key] = [version |-> pending.newVersion, payload |-> pending.payload]

ToldBoth(k) == Shows(aeronOut, k) /\ (Shows(kafkaOut, k) \/ DeadLettered(k))

OnItsWay(k) ==
  /\ phase # "idle"
  /\ pending.key = k
  /\ phase = "kafka" => Shows(aeronOut, k)
  /\ phase = "returned" => ToldBoth(k)

Carried(k) ==
  \/ Seeded(k)
  \/ Unannounced(k)
  \/ OnItsWay(k)
  \/ ToldBoth(k)

ConsumersInv == CurrentIsPending /\ \A k \in DOMAIN store : Carried(k)

\* A stream shows what was put on it last, of that key, and for the other
\* keys what it showed before.
LEMMA ShowsExtended ==
  ASSUME NEW out \in Seq(StateChangeNotification), NEW n \in StateChangeNotification,
         NEW k,
         \/ k = n.key /\ store[k] = [version |-> n.newVersion, payload |-> n.payload]
         \/ k # n.key /\ Shows(out, k)
  PROVE  Shows(Append(out, n), k)
<1>1. /\ Len(out) \in Nat
      /\ DOMAIN out = 1 .. Len(out)
      /\ DOMAIN Append(out, n) = 1 .. Len(out) + 1
      /\ Append(out, n)[Len(out) + 1] = n
      /\ \A i \in 1 .. Len(out) : Append(out, n)[i] = out[i]
  OBVIOUS
<1>2. CASE k = n.key /\ store[k] = [version |-> n.newVersion, payload |-> n.payload]
  <2>1. /\ Len(out) + 1 \in DOMAIN Append(out, n)
        /\ \A j \in DOMAIN Append(out, n) : j <= Len(out) + 1
    BY <1>1
  <2> QED
    BY <1>1, <1>2, <2>1 DEF Shows
<1>3. CASE k # n.key /\ Shows(out, k)
  <2>1. PICK i \in DOMAIN out :
          /\ out[i].key = k
          /\ store[k] = [version |-> out[i].newVersion, payload |-> out[i].payload]
          /\ \A j \in DOMAIN out : out[j].key = k => j <= i
    BY <1>3 DEF Shows
  <2>2. \A j \in DOMAIN Append(out, n) : Append(out, n)[j].key = k => j <= i
    BY <1>1, <1>3, <2>1
  <2>3. i \in DOMAIN Append(out, n) /\ Append(out, n)[i] = out[i]
    BY <1>1
  <2> QED
    BY <2>1, <2>2, <2>3 DEF Shows
<1> QED
  BY <1>2, <1>3

LEMMA DeadLetteredExtended ==
  ASSUME TypeOK, NEW n \in StateChangeNotification, NEW k,
         deadLetters' = Append(deadLetters, n), store' = store,
         \/ DeadLettered(k)
         \/ k = n.key /\ store[k].version = n.newVersion
  PROVE  DeadLettered(k)'
<1>1. /\ Len(deadLetters) \in Nat
      /\ DOMAIN deadLetters = 1 .. Len(deadLetters)
      /\ DOMAIN deadLetters' = 1 .. Len(deadLetters) + 1
      /\ deadLetters'[Len(deadLetters) + 1] = n
      /\ \A i \in 1 .. Len(deadLetters) : deadLetters'[i] = deadLetters[i]
  BY StreamsTyped
<1> QED
  BY <1>1 DEF DeadLettered

\* A key whose record stays is known as before while nothing moves.
LEMMA CarriedKept ==
  ASSUME NEW k, Carried(k), store'[k] = store[k],
         UNCHANGED <<rows, unannounced, aeronOut, kafkaOut, deadLetters>>,
         OnItsWay(k) => OnItsWay(k)' \/ ToldBoth(k)
  PROVE  Carried(k)'
  BY DEF Carried, Seeded, Unannounced, ToldBoth, Shows, DeadLettered

LEMMA ConsumersLoad ==
  ASSUME StoreInv, ConsumersInv, LoadRow
  PROVE  ConsumersInv'
<1>1. /\ rows[loaded + 1].key \notin DOMAIN store
      /\ store' = Put(store, rows[loaded + 1].key, RecordOf(rows[loaded + 1]))
      /\ loaded + 1 \in DOMAIN rows
  BY NextRow, SnapshotsAssumption, SMTT(30) DEF LoadRow, StoreInv, TypeOK
<1>2. /\ phase = "idle"
      /\ UNCHANGED <<rows, unannounced, phase, aeronOut, kafkaOut, deadLetters>>
  BY DEF LoadRow, StoreInv, TypeOK, historyVars, publisherVars
<1>3. ASSUME NEW k \in DOMAIN store' PROVE Carried(k)'
  <2>1. CASE k \in DOMAIN store
    <3>1. store'[k] = store[k]
      BY <1>1, <2>1 DEF Put
    <3> QED
      BY <1>2, <2>1, <3>1, CarriedKept DEF ConsumersInv, OnItsWay
  <2>2. CASE k = rows[loaded + 1].key
    BY <1>1, <1>2, <2>2 DEF Put, Carried, Seeded
  <2> QED
    BY <1>1, <2>1, <2>2 DEF Put
<1> QED
  BY <1>2, <1>3 DEF ConsumersInv, CurrentIsPending

LEMMA ConsumersApply ==
  ASSUME TypeOK, ConsumersInv, ApplyUpsert
  PROVE  ConsumersInv'
<1>1. /\ store' = Put(store, current.key, RecordOf(current))
      /\ phase = "idle" /\ phase' = "aeron"
      /\ pending' = NotificationOf(store, current)
      /\ UNCHANGED <<current, rows, unannounced, aeronOut, kafkaOut, deadLetters>>
  BY DEF ApplyUpsert, Publish, historyVars
<1>2. CurrentIsPending'
  BY <1>1 DEF CurrentIsPending, NotificationOf, Put, RecordOf
<1>3. ASSUME NEW k \in DOMAIN store' PROVE Carried(k)'
  <2>1. CASE k = current.key
    BY <1>1, <2>1 DEF Carried, OnItsWay, NotificationOf
  <2>2. CASE k # current.key
    <3>1. k \in DOMAIN store /\ store'[k] = store[k]
      BY <1>1, <2>2 DEF Put
    <3> QED
      BY <1>1, <3>1, CarriedKept DEF ConsumersInv, OnItsWay
  <2> QED
    BY <2>1, <2>2
<1> QED
  BY <1>2, <1>3 DEF ConsumersInv

LEMMA ConsumersAttempt ==
  ASSUME TypeOK, ConsumersInv, PublishAttempt
  PROVE  ConsumersInv'
<1>1. /\ UNCHANGED <<store, rows, current, unannounced, pending>>
      /\ phase \in {"aeron", "kafka"} /\ phase' # "idle"
      /\ pending \in StateChangeNotification
  BY PublisherStepPhases, StreamsTyped
  DEF PublishAttempt, viewVars, applyVars, historyVars
<1>2. /\ CurrentIsPending'
      /\ store[pending.key] = [version |-> pending.newVersion, payload |-> pending.payload]
  BY <1>1 DEF ConsumersInv, CurrentIsPending
<1>3. ASSUME NEW k, Carried(k) PROVE Carried(k)'
  <2>1. CASE Seeded(k) \/ Unannounced(k)
    BY <1>1, <2>1 DEF Carried, Seeded, Unannounced
  <2>2. CASE (OnItsWay(k) \/ ToldBoth(k)) /\ AeronAccepts
    <3>1. /\ aeronOut' = Append(aeronOut, pending) /\ phase' = "kafka" /\ phase = "aeron"
          /\ UNCHANGED <<kafkaOut, deadLetters>>
      BY <2>2 DEF AeronAccepts
    <3>2. k = pending.key \/ Shows(aeronOut, k)
      BY <2>2 DEF OnItsWay, ToldBoth
    <3>3. Shows(Append(aeronOut, pending), k)
      BY <1>1, <1>2, <3>2, ShowsExtended, StreamsTyped
    <3>4. Shows(aeronOut, k)'
      BY <1>1, <3>1, <3>3 DEF Shows
    <3>5. CASE k = pending.key
      BY <1>1, <3>1, <3>4, <3>5 DEF Carried, OnItsWay
    <3>6. CASE k # pending.key
      BY <1>1, <2>2, <3>1, <3>4, <3>6 DEF Carried, OnItsWay, ToldBoth, Shows, DeadLettered
    <3> QED
      BY <3>5, <3>6
  <2>3. CASE (OnItsWay(k) \/ ToldBoth(k)) /\ KafkaAccepts
    <3>1. /\ kafkaOut' = Append(kafkaOut, pending) /\ phase' = "returned" /\ phase = "kafka"
          /\ UNCHANGED <<aeronOut, deadLetters>>
      BY <2>3 DEF KafkaAccepts
    <3>2. Shows(aeronOut, k) /\ (k = pending.key \/ Shows(kafkaOut, k) \/ DeadLettered(k))
      BY <2>3, <3>1 DEF OnItsWay, ToldBoth
    <3>3. Shows(Append(kafkaOut, pending), k) \/ DeadLettered(k)
      BY <1>1, <1>2, <3>2, ShowsExtended, StreamsTyped
    <3>4. Shows(aeronOut, k)'
      BY <1>1, <3>1, <3>2 DEF Shows
    <3>5. Shows(kafkaOut, k)' \/ DeadLettered(k)'
      BY <1>1, <3>1, <3>3 DEF Shows, DeadLettered
    <3> QED
      BY <3>4, <3>5 DEF Carried, ToldBoth
  <2>4. CASE (OnItsWay(k) \/ ToldBoth(k)) /\ KafkaExhausted
    <3>1. /\ deadLetters' = Append(deadLetters, pending) /\ phase' = "returned"
          /\ phase = "kafka" /\ UNCHANGED <<aeronOut, kafkaOut>>
      BY <2>4 DEF KafkaExhausted
    <3>2. Shows(aeronOut, k) /\ (k = pending.key \/ Shows(kafkaOut, k) \/ DeadLettered(k))
      BY <2>4, <3>1 DEF OnItsWay, ToldBoth
    <3>3. Shows(aeronOut, k)' /\ (Shows(kafkaOut, k) => Shows(kafkaOut, k)')
      BY <1>1, <3>1, <3>2 DEF Shows
    <3>4. k = pending.key => store[k].version = pending.newVersion
      BY <1>2
    <3>5. Shows(kafkaOut, k) \/ DeadLettered(k)'
      BY <1>1, <3>1, <3>2, <3>4, DeadLetteredExtended
    <3> QED
      BY <3>3, <3>5 DEF Carried, ToldBoth
  <2>5. CASE (OnItsWay(k) \/ ToldBoth(k)) /\ (AttemptFails \/ AeronExhausted)
    <3>1. /\ UNCHANGED <<aeronOut, kafkaOut, deadLetters>>
          /\ phase' = phase \/ phase' = "threw"
      BY <2>5 DEF AttemptFails, AeronExhausted
    <3>2. OnItsWay(k) => OnItsWay(k)'
      BY <1>1, <3>1 DEF OnItsWay, ToldBoth, Shows, DeadLettered
    <3> QED
      BY <1>1, <1>3, <3>1, <3>2, CarriedKept
  <2> QED
    BY <1>3, <2>1, <2>2, <2>3, <2>4, <2>5 DEF Carried, PublishAttempt, PublisherStep
<1> QED
  BY <1>1, <1>2, <1>3 DEF ConsumersInv

\* When the call returns the key has been told; when it throws, it has not.
LEMMA ConsumersConclude ==
  ASSUME TypeOK, ConsumersInv, PublishReturned \/ PublishThrew
  PROVE  ConsumersInv'
<1>1. /\ phase' = "idle"
      /\ UNCHANGED <<store, rows, aeronOut, kafkaOut, deadLetters>>
  BY DEF PublishReturned, PublishThrew, Conclude, viewVars
<1>2. CASE PublishReturned
  <2>1. phase = "returned" /\ unannounced' = unannounced
    BY <1>2 DEF PublishReturned, Conclude, historyVars
  <2> QED
    BY <1>1, <2>1, CarriedKept DEF ConsumersInv, CurrentIsPending, OnItsWay
<1>3. CASE PublishThrew
  <2>1. phase = "threw" /\ unannounced' = unannounced \cup {current}
    BY <1>3 DEF PublishThrew, Conclude
  <2>2. ASSUME NEW k, Carried(k) PROVE Carried(k)'
    <3>1. CASE OnItsWay(k)
      <4>1. current.key = k /\ current.version = store[k].version
        BY <2>1, <3>1 DEF ConsumersInv, CurrentIsPending, OnItsWay
      <4> QED
        BY <1>1, <2>1, <4>1 DEF Carried, Unannounced
    <3>2. CASE ~OnItsWay(k)
      BY <1>1, <2>1, <2>2, <3>2
      DEF Carried, Seeded, Unannounced, ToldBoth, Shows, DeadLettered
    <3> QED
      BY <3>1, <3>2
  <2> QED
    BY <1>1, <2>2 DEF ConsumersInv, CurrentIsPending
<1> QED
  BY <1>2, <1>3

LEMMA ConsumersIdle ==
  ASSUME ConsumersInv, NothingAnnounced
  PROVE  ConsumersInv'
<1>1. /\ UNCHANGED <<store, rows, unannounced, phase, pending, aeronOut, kafkaOut, deadLetters>>
      /\ phase = "idle" \/ current' = current
  BY DEF NothingAnnounced, publisherVars
<1>2. CurrentIsPending'
  BY <1>1 DEF ConsumersInv, CurrentIsPending
<1>3. ASSUME NEW k, Carried(k) PROVE Carried(k)'
  <2>1. OnItsWay(k) => OnItsWay(k)'
    BY <1>1 DEF OnItsWay, ToldBoth, Shows, DeadLettered
  <2> QED
    BY <1>1, <1>3, <2>1, CarriedKept
<1> QED
  BY <1>1, <1>2, <1>3 DEF ConsumersInv

LEMMA ConsumersInvStep ==
  ASSUME StoreInv, ConsumersInv, [Next]_vars
  PROVE  ConsumersInv'
  BY AnnouncingSteps, ConsumersLoad, ConsumersApply, ConsumersAttempt, ConsumersConclude,
     ConsumersIdle DEF StoreInv

LEMMA ConsumersInvInit == Init => ConsumersInv
  BY DEF Init, PublisherInit, EmptyView, ConsumersInv, CurrentIsPending

LEMMA ConsumersInvSuffices == ConsumersInv => ConsumersSeeCurrentRecord
  BY DEF ConsumersInv, ConsumersSeeCurrentRecord, Carried, OnItsWay, ToldBoth

(***************************************************************************)
(* Between publications a consumer that keeps the last notification of     *)
(* each key has the key's current record, but for a key whose current      *)
(* version is the one whose publication threw and, on Kafka, one whose     *)
(* current version went to the dead letters; a seeded key is announced     *)
(* only when it changes.                                                   *)
(***************************************************************************)
THEOREM ConsumersKeepUp == Spec => []ConsumersSeeCurrentRecord
<1>1. StoreInv /\ ConsumersInv /\ [Next]_vars => ConsumersInv'
  BY ConsumersInvStep
<1> QED
  BY <1>1, ConsumersInvInit, ConsumersInvSuffices, StoreInvariant, PTL DEF Spec
=============================================================================
