# A verification project for the local off-heap store

The program keeps the latest record of each entity in off-heap memory. It loads
a snapshot, takes upserts from two transports (Aeron and Kafka), lets a version
gate decide which of them apply, and announces each change on both transports.
This directory holds TLA+ modules translated from its Java sources, the TLC
configurations that check them on small instances, and theorems about them that
TLAPS checks for every instance.

    tlc -workers 2 -config main_loop.cfg MCStore      # one run
    tlapm StoreProofs.tla                             # one proof module

`PROJECT.json` is the index: components, runs, the source lines each definition
stands for, hazards, mutants (plausible bugs, one for each checked property,
that the property must catch), findings and theorems.

## 1. Inventory

| component | state | operations | works with |
|---|---|---|---|
| value classes (`core/model`) | none | constructors that refuse blank keys and versions that are not positive | everything |
| `OrderingAndVersionGate` | none | `evaluate`: APPLIED, DUPLICATE or STALE | engine |
| `UpsertApplyEngine` | none of its own | `apply`: read, evaluate, put, build the notification | store, gate |
| `DirectByteBufferOffHeapStore` | map from key to version and buffer | `get`, `put`, `keys`, `size`, `close` | engine, snapshot loader |
| `InMemoryCheckpointStore` | one position for each source type | `get` (called by no main code), `save` | service |
| `PostgresSnapshotLoader` and repository | the rows, a watermark | `load`: put every row | store |
| `AeronIngressAdapter`, `KafkaIngressAdapter` | an unbounded queue each | `accept`, `poll` | transports, service |
| `RealAeronIngressAdapter` | an Aeron subscription | `poll` with a fragment handler | codec |
| `LocalOffHeapStoreService` | bounded apply queue, ready flag | `bootstrap`, `ingestOnce`, `processOnce`, `isReady` | all of the above and the publisher |
| `ServiceMetrics` | five counters | increments | service |
| `RetryingStateChangePublisher` | none between calls | `publish`: Aeron, then Kafka, retries, dead letters | the two publishers, dead letters |
| simulated publishers | what they published, a failure switch | `publish`, `failNextPublish`, `failTimes` | |
| `RealAeronNotificationPublisher` | an Aeron publication | `publish` with a loop of offers | codec |
| `TextEventCodec` | none | encode and decode events and notifications | real Aeron adapters |
| `LocalOffHeapStoreApplication` | `RuntimeHandles` | `main`: wiring, bootstrap, the loop, a shutdown hook | service |

What is hard in it:

* one event passes through four queues (the source's log, the adapter, the
  batch, the apply queue) before the gate sees it, two sources meet in the third
  of them, and the fourth is bounded and drops;
* `processOnce` changes the store, publishes on two transports and saves a
  checkpoint, in that order, and the publication may throw between the others;
* delivery is at least once, so records come again, early and late;
* the retry loops give partial outcomes: Aeron carried it and Kafka did not;
* a bad snapshot row or, in `main`, an exception ends the thread half way;
* nothing the process keeps survives it, and no code says where the sources
  resume;
* messages come off the wire as fragments, cut, foreign or undecodable;
* the shutdown hook closes the transports while the loop is using them, and a
  start that fails half way leaves what it opened.

What makes the components correct, in the same order as the table of section 3:
Kafka mirrors Aeron; every call of publish ends; versions never regress; the
streams are the history of the view; readiness means the snapshot is in;
metrics add up; a checkpoint passes nothing but drops; the newest record wins
whatever the interleaving; a consumer is right but for the announced losses;
every record is in the end handled; a new life of the process has what its
snapshot and its sources gave it and no more; what comes off the wire was sent;
a transport is what the retry loops take it for; a process that ends has closed
what it opened, and consumers miss at most its last upsert.

## 2. The modules

| module | models | part of the repository |
|---|---|---|
| `CoreDomain` | value classes, gate, what the engine writes and announces; pure operators | core-domain |
| `RetryingPublisher` | one call of `publish`, attempt by attempt, over both transports and the dead letters | egress-publisher |
| `PublisherCaller` | the publisher closed with its most general caller | |
| `DualDelivery` | abstract: what a caller of `publish` is promised | |
| `StoreService` | the service with adapters, queue, engine, store, publisher, checkpoints and metrics | service-app, ingress, snapshot |
| `VersionedView` | abstract: what the service promises about its view and its primary stream | |
| `StoreProperties` | the properties of `StoreService` | |
| `Recovery` | `StoreService` over several lives of its process | service-app (`main` builds everything anew) |
| `TextEventCodec` | events and notifications as lines of text; pure operators | core-domain |
| `WireIngress` | `RealAeronIngressAdapter.poll`, fragment by fragment | ingress-aeron |
| `EventSource` | abstract: what the service expects of an ingress adapter | core-domain |
| `WiredPublisher` | `PublisherCaller` over the real and the simulated transports | egress-publisher |
| `Application` | start of the handles, the loop of `main`, the shutdown hook, the JVM | service-app |
| `MCStore`, `MCRecovery`, `MCWire` | model values, snapshots and events for TLC | |
| `RetryingPublisherProofs` | lemmas about the publisher, also used under the service | |
| `PublisherProofs` | theorems about `PublisherCaller` and `WiredPublisher` | |
| `StoreProofs`, `StreamProofs`, `DeliveryProofs` | theorems about `StoreService`: types and refinement, streams, pipeline | |
| `RecoveryProofs`, `WireProofs`, `ApplicationProofs` | theorems about `Recovery`, `WireIngress` with the codec, and `Application` | |

`StoreService` extends `RetryingPublisher` and closes it with `processOnce`
where `PublisherCaller` closes it with any caller.

How `StoreService` corresponds to the code:

* `applyAt` is the program counter of `bootstrap` and then `processOnce`, and
  `ingestAt` that of `ingestOnce`. `batch`, `current`, `processed`, `polling`
  and `pending` are locals of those methods; `attempt` is the `i` of
  `publishWithRetry`. `applyQueue`, `store`, `checkpoint`, `metrics`,
  `bootstrapped`, `inbox`, `aeronOut`, `kafkaOut` and `deadLetters` are fields.
* A step is as large as the code's own atomicity, or smaller: a poll of an
  adapter, one offer, one take, one apply, one attempt, one save. `poll` is one
  step because nobody else removes from the adapter. `apply` is one step because
  one thread alone writes the store.
* `turn` and `Driver` stand for the caller. `"main"` is the loop of
  `LocalOffHeapStoreApplication`: an exception of `processOnce` ends it.
  `"caller"` is the same loop in a caller that catches it, which is what the
  integration test does. `"threads"` puts ingestion and processing on two
  threads: nothing in the repository does so, but the service's volatile flag,
  its `ArrayBlockingQueue` and its atomic counters allow it, and
  `docs/architecture.md:42` promises a single thread for the apply path only.
  Every driver calls `bootstrap` once, and before anything else, as `main` and
  the tests do; the service itself does not insist on it.
* `sent` is the log behind each source, external to the repository: the records
  in the order of their positions. `Send` delivers the next one to `accept`,
  and `Redeliver` any earlier one again. A source may send any key, version and
  payload, so versions may come out of order and conflict between sources.
* A source position is an opaque string in the code, compared by nothing; here
  it is the record's place in its log, so that a property can say "passed".
* `dropped` and `unannounced` are history variables: no guard reads them. They
  record which deliveries met a full queue and which publications threw.
* Left out: times, the change type, the single operation type, and how a
  payload lies in its buffer. No branch of the code reads any of them.
* The transports' answer to an attempt is free: accept, or throw with nothing
  sent. `WiredPublisher` shows that the transports behave so.

`Recovery` runs `StoreService` again after a crash at any of its steps. All the
state of the program is lost, the checkpoints and the dead letters included; the
logs of the sources and what consumers have received are not the program's and
stay. No code reads a checkpoint or the watermark, so the place where a source
resumes is free, and the rows of the database may be others than last time. The
definitions for loss (`IndexLost`, `CheckpointsLost`) are apart because the
properties tell them apart: were the checkpoints durable and nothing else,
`CheckpointCoversReplay` would fail, because they would speak for records that
the new life never had.

`TextEventCodec` takes a text as the sequence of the pieces between its
delimiters: joining is concatenation, splitting gives all the pieces back, and a
key with a delimiter in it is two of them. Numbers, Base64 and enum names are
pieces of their own kind, so that what the parsers refuse is refused.

`WireIngress` gives the adapter a stream of fragments. Aeron is external, and
what is taken from it is that a poll hands over at most its limit, that a message
longer than the MTU comes as as many fragments as it needs unless a
`FragmentAssembler` is put before the handler, which the adapter does not do, and
that an exception of the handler goes to the client's error handler and ends the
poll, with the fragment consumed. `unsent` is what is still to come of a message
some fragments of which are in the stream. A fragment ends anywhere: before a
piece of the text, after it or through it (`Halves`). Messages of other
publishers may come between two fragments of one, since the subscription has the
streams of all of them; two messages under way in fragments at once are left out,
because each fragment is decoded alone and they would only change the order. `pollAt`, `seen` and `batch` are the poll in progress.

`WiredPublisher` adds to each attempt of `PublisherCaller` the steps of the
transport: `at` is its program counter, `offers` the `i` of the offer loop,
`failNext`, `failuresBeforeSuccess` the fields of the simulations, `countRead`
the value between the read and the write of `failuresBeforeSuccess--`. Requests
for failures come between any two steps, because they take no lock.

`Application` has the main thread and the hook's thread side by side. `open` is
the set of handles that are open, `closing` the line of `RuntimeHandles.close`
the hook has come to. Events are counted and not told apart: what becomes of
them is `StoreService`'s subject.

The abstract specifications. `EventSource` is a queue: what arrived is handed
out once and in order. `DualDelivery` has no attempts: a call is
refused, or carried on the primary stream and then settled on exactly one of the
other two. `VersionedView` has no queues, sources or threads: a view is seeded
and opened, a key's record is only replaced by one of a higher version, and each
change is announced once or lost before the next change. With `RestartingSpec`
it may also be lost at any moment, with the announcement it owes, and seeded anew.

## 3. The runs

| run | instance | checks |
|---|---|---|
| `publisher` | 2 keys, 1 payload, versions 1..2, 2 retries (as `main`), 3 notifications carried | `PublisherTypeOK`; `KafkaMirrorsAeron`: Kafka and the dead letters share out what Aeron carried, in order; `PublishEnds`; `ImplementsDualDelivery` |
| `main_loop` | driver main; 2 keys, 2 payloads, versions 1..2, no retries; no snapshot, a good one and one with a refused row; queue, batch and events 2; a record a source, one redelivery | `TypeOK`; `ReadyMeansSeeded`; `VersionsNeverRegress`; `ImplementsVersionedView`; `EveryRecordHandled` |
| `caller` | driver caller; 2 keys, 1 payload, versions 1..2, 1 retry; a record a source, one redelivery | `ConsumersSeeCurrentRecord`; `StreamsInOrder` |
| `redelivery` | driver caller; 1 key, 2 payloads, versions 1..2; 2 records a source, one redelivery | `CheckpointSkipsOnlyDrops`; `NewestWins` |
| `threads` | driver threads; queue of 1, batch 2, events 1; 2 records a source | `EveryDeliveryAccounted`; `CheckpointSkipsOnlyDrops`; `EveryRecordHandled` |
| `recovery` | driver caller; 1 key, versions 1..2, no retries; empty or seeded database; 2 records a source; a crash | `EachLifeHasNewest`; `ReplayCatchesUpWithConsumers`; `EachLifeInOrder`; `CheckpointCoversReplay`; `ConsumersSeeCurrentRecord`; `ImplementsRestartingView` |
| `wire` | batch 2, fragment limit 3, 3 fragments: a plain event, one whose key is itself a line and whose position holds a delimiter, a line with a refused version and one with a field too many, each in one fragment or cut into up to three | `WireTypeOK`; `ReceivesWhatWasSent`; `AnnouncementsReadable`; `ImplementsEventSource`; `PlainEventsArrive` |
| `transports` | both modes; 1 retry, 2 offers an attempt, 2 requests for failures to a transport, 2 notifications carried | `WiredTypeOK`; `OfferBudget`; `InjectedFailuresWereAsked`; `ImplementsPublisher` |
| `lifecycle` | both modes, with and without embedded driver, Aeron's threads daemons or not; batch 2, 4 events | `AppTypeOK`; `NothingOutlivesItsGround`; `LeftOpenOnlyIf`; `AtMostOneUnannounced`; `ShutdownCompletes` |
| `claim_checkpoint_held` | driver caller; 2 records a source | finding 1 |
| `claim_commit_section` | driver main; a record a source | finding 2 |
| `claim_wire` | as `wire`, with one event, which has a delimiter in its key | finding 3 |

What they show. With a caller that survives, a failed publication loses one
announcement and nothing else: the chain of versions on each stream stays in
order, and the next change of the key repairs what a consumer knows. A key's
final version does not depend on the order in which the sources and the queue
deliver; its payload does, when two sources send one version with different
payloads, and `NewestWins` allows it. The checkpoint is not monotonic (a
redelivered record takes it back), but it never passes a record that is neither
reflected in the store nor dropped at the full queue; drops it does pass, and
only the metric tells. A refused snapshot row leaves the rows before it in the
store and the service never ready.

A restart recovers what the snapshot holds and what the sources replay, nothing
else. Only when they replay from the beginning, or the snapshot is new enough,
does the store catch up with what consumers have been told; until then it
announces versions that they are past, and each life's streams are in order only
by themselves.

On the wire, nothing that decodes is lost, repeated or reordered, also when the
fragment before it threw. A message that Aeron sends in several fragments can
decode from one of them, with its key, its position or both cut short: a middle
fragment that begins inside the key and ends inside the position has seven parts.
And if a key, a position or a line of another kind spells an event, a fragment can
be the event it spells. `ReceivesWhatWasSent` lists these cases, and says that
there are no others. Every event that comes in by the wire can be announced in a
form a consumer decodes.

The real publication and the simulated ones are what the retry loops take them
for. A publication that is closed costs (maxRetries + 1) * maxOfferAttempts
offers, 3000 in `main`, and no more. A request for failures that falls between
the steps of `publish` can be lost, but no failure is made up.

At shutdown the loop goes on beside the hook. It can apply one more upsert after
the publication has been closed, and then the failed publication ends it. Handles
are left open when the start fails half way, when the signal comes before the
hook is registered, or when a close throws. If the threads of Aeron's driver and
client are not daemons, a process whose main thread died of a failed publication
stays up, with a subscription nobody polls, until a signal comes.

Findings (runs that expect a violation):

1. `docs/recovery-and-ordering.md:30` and the test
   `publishFailureDoesNotAdvanceCheckpoint` say that a failure does not advance
   the checkpoint. The failing call saves none, but the event is gone from the
   queue, and the next event of its source saves a position after it.
2. `docs/recovery-and-ordering.md:41` says that store and checkpoint are updated
   in one commit section. The publication lies between the two, and when it
   throws the store keeps a record that no checkpoint covers.
3. `docs/event-contracts.md` says at line 5 that every source's payload is mapped
   into the event model, and at line 21, as its only rule for a key, that it is
   not empty. An event whose key holds a `|` is made and encoded without an error
   and cannot be decoded. (The same goes for a source position with a `|`, of
   which the contract says only that it is a string.)

Two sentences of the documents have no counterpart in the code at all, so no run
is about them: `docs/recovery-and-ordering.md:34` (Aeron errors are retried with
a backoff; the loop retries at once) and lines 7, 8 and 35 (durable checkpoints
are read at the start; no code reads a checkpoint or the watermark).

### Bounds

`MaxSent` bounds a source's log, `MaxRedelivered` the repeated deliveries,
`MaxPublished` the calls of the publisher's caller; all three are guards of the
environment's actions only. So are `MaxCrashes`, `MaxFragments`, `MaxRequests`
and `MaxEvents` of the newer modules. `MaxVersion` stands for `Long.MAX_VALUE`: the code
compares versions and never computes with them. Queue capacity, batch and event
counts are the code's own parameters, taken small so that the queue fills, a
batch is cut and `processOnce` returns with events left. Two sources with a
record each are enough for the versions of a key to meet in both orders and to
conflict; two records a source with a redelivery are the least with which a
record comes again after a newer one and a checkpoint goes back. Two keys are
needed where the history of one must not leak into the other (`caller`,
`publisher`, `main_loop`); the checkpoint and the queue do not look at keys. One
crash gives two lives, and what a third would begin with is what the second
began with: logs, rows and streams. In `wire` the batch is smaller than the
fragment limit, so that a poll for the limit alone would overfill it; three
fragments are the least that put an undecodable one between two others, and the
least that cut a message at both ends of one. `redelivery` takes payloads up to
symmetry, since its snapshot is empty and nothing tells one from the other.
`transports` has a retry and two offers, so that a budget is used up, and
two requests, so that one falls into the other's countdown.

`CHECK_DEADLOCK FALSE` is said where the system may stop: in `main_loop`, whose
thread an exception ends, in `publisher` and `transports`, whose caller stops at
its bound, and in `lifecycle`, where the JVM halts.
In the other runs the polling loops never stop, and deadlock is checked.

### Fairness

`FairSpec` of `StoreService` asks weak fairness of `IngestStep` and of
`ApplyStep`, which are the steps of the calling thread or threads: both calls
return by themselves, no step of theirs waits on a lock or on a transport, and
`main` calls them in turn for ever. Nothing is asked of the transports: they
need not send, redeliver or accept an attempt. In `PublisherCaller` fairness is
asked of the publisher's own steps and its return and not of the next call.
`WireIngress` asks it of the poll, which the main loop repeats for as long as it
runs, and not of the senders; so `PlainEventsArrive` and `ImplementsEventSource`
speak of an adapter whose loop is alive, and what ends the loop (a publication
that fails) is in `StoreService` and `Application`. `WiredPublisher` asks it of the
publishing thread, which waits on nothing (an offer returns), and not of the
requests for failures or the closing thread;
`Application` of the main thread, of the hook's thread and of the JVM's halting,
but not of a signal. That a close returns is Aeron's promise.

## 4. The proofs

All theorems hold for every value of the constants that the named assumptions
allow: any keys and payloads, any snapshot with distinct keys, any capacity of
at least 1, any batch and event counts, all three drivers, and any number of
retries below `Integer.MAX_VALUE`, a negative one included.

* `PublisherCaller`: `PublisherTypeCorrect`; `KafkaAlwaysMirrorsAeron`;
  `RetryingImplementsDelivery` (the safety part of the refinement).
  `KafkaMirrorsAeron` is not inductive alone. It needs `PendingCarried`: while
  the call is at Kafka, the last notification Aeron carried is the pending one.
  The step that settles it extends one of the two embeddings by that place.
* `StoreService`: `TypeCorrect`, `StoreVersionsNeverRegress`,
  `ReadyImpliesSeeded`, `ServiceImplementsVersionedView`, all from
  `StoreInv == TypeOK /\ LoadInv`. `LoadInv` says that while the loader runs the
  service is not open and the keys of the store are exactly those of the rows
  loaded so far, which with the distinct keys of a snapshot makes each row a
  `Seed` of a new key; that the loading is over when the service is open; and
  that every loaded row is, and stays, reflected in the store.
* The streams (`StreamProofs`): `StreamsAlwaysInOrder` from `StreamInv`, which
  adds to the order of each stream that it tells no version the store does not
  have, and that the notification being published raises the version, to at most
  the store's, and starts at or after the end of all that was told of its key on
  the streams it has still to reach. `ConsumersKeepUp` from `ConsumersInv`, which
  adds the time inside `publish`: there the store's record of the key is the
  pending one, and the streams passed so far show it.
* The pipeline (`DeliveryProofs`): `DeliveriesAccounted`, `CheckpointsSafe` and
  `NewestAlwaysWins`, from `BatchOffered` (between calls of `ingestOnce` there is
  no batch left) and `PipelineInv`. Taken together, the event in hand, the apply
  queue, the batch and an adapter's inbox are a line, and `PipelineInv` says of it
  that whatever comes before an event in its source's log is done (reflected in
  the store, or dropped) or stands before it in the line too, and that every
  record delivered is done or in the line. Redeliveries may stand anywhere behind.
  So a save for the event in hand passes nothing but what is done, and once the
  line is empty everything is. The places from and up to which the sources have
  delivered are parameters, so that one proof serves the one life of
  `StoreService` and every life of `Recovery`. `DeliveriesAccounted` is the sum
  itself: each step moves one delivery from one term to another, `Poll` several.
* Several lives (`RecoveryProofs`): all properties of the run, from
  `LivesInv`. It holds the invariants of one life with the parameters of this
  one (`resumed`, `reached`, and the lengths of the streams when it began), and
  `AnnouncedFromLogs`: whatever consumers were told, in any life, is a record of
  some log, which is why a full replay overtakes them. A step of `StoreService`
  keeps it by the step lemmas of the two modules above; what is new is that a
  crash establishes it again for the next life from nothing but logs and streams.
  `LivesImplementRestartingView` adds to the steps of `ServiceImplementsVersionedView`
  that a crash is a `Restart` and a replay is not seen.
* The wire (`WireProofs`): `WireTyped`, `WhatIsReceivedWasSent` and
  `AnnouncementsCross`, from `WireInv`: every fragment in the stream is foreign,
  or the line of an event sent whole, or a part of a line sent in several
  fragments (`PartOf`: some of its pieces in a row, the first and the last of
  which may be what a cut left), what is still to be sent is the rest of such a
  line (`RestOf`), and what was received was decoded from those. The lemmas below
  it are about the codec: which piece of a line is which (`EncodedLine`), that a
  whole line which decodes gives its event back (`WholeDecodes`), that a cut of a
  rest leaves a part and a rest (`CutRest`), and what a part can decode to
  (`PartDecodes`), by where in the line its seven pieces begin. The number of
  fragments of a message does not appear in the proof: a part is a part however
  many there are.
* `WiredPublisher`: `WiredImplementsPublisher` maps every step of the transports
  to a step of `PublisherCaller` or to none, which hands over
  `WiredKafkaMirrorsAeron`. `FailuresWereAsked` is inductive as it stands because
  `ToCome` counts what is still to be produced by where `publish` stands between
  test, read and write. `OffersBounded` comes from `SpentByAttempts`: each
  attempt that is over spent at most `MaxOfferAttempts`.
* `Application`: `AppTypeCorrect`, `HandlesStandOnOpenOnes`,
  `OpenAtHaltExplained` from `AppInv`, which adds that the handles `close` has
  passed are closed, and that a start stands on what the earlier ones opened;
  `OneUpsertUnannounced` from `AnnouncedSoFar`, which says where the store is
  ahead.

Every invariant and every `[][..]_v` property that a passing run checks is stated
by a theorem. What is left to TLC: liveness (`PublishEnds`, `EveryRecordHandled`,
`PlainEventsArrive`, `ShutdownCompletes`, and the fairness in
`ImplementsDualDelivery`, `ImplementsPublisher` and `ImplementsEventSource`),
which is beyond the prover; and the safety part of `ImplementsEventSource`, whose
refinement mapping filters the stream with `SelectSeq`: what a filter does to a
sequence is proved by induction over the sequence, and no installed prover can
instantiate the induction theorems.

## 5. What is not modelled

What a restart reads: no code reads a checkpoint or the watermark, so `Recovery`
leaves the place of resumption free. A second call of `bootstrap`, which nothing
makes (it would put the snapshot past the version gate). Memory: every `put`
allocates a direct buffer, and when the collector frees the old one is not in the
code. `close()` of the store, which only tests call. Null fields, which the
constructors and the encoder refuse. Several partitions behind one source type. Arguments
the constructors of the JDK refuse (a queue capacity of 0, a negative batch
size). Interrupting the main thread, which nothing in the repository does. The
start scripts, the containers and the CI file hold no logic of the program.
Neither do the coverage reports: JaCoCo generated them, and `prettify.js` and
`sort.js`, of which four copies are committed with them and which are all the
JavaScript there is, are third-party assets that colour and sort the tables of
the reports. The program itself is the Java under `*/src/main/java`.

## 6. Plan

Left for later:

* theorems about the abstract specifications themselves, which the refinements
  then hand down: that `VersionedView` announces a key's changes in order, and
  that `DualDelivery` settles each notification on exactly one of two streams;
* the safety part of `ImplementsEventSource`, if its mapping can be stated over
  positions of the stream, without a filter.
