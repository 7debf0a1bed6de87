---------------------------- MODULE StoreService ----------------------------
(***************************************************************************)
(* LocalOffHeapStoreService over its collaborators: the two ingress        *)
(* adapters, the bounded apply queue, the apply engine over the off-heap   *)
(* store, the retrying publisher, the checkpoint store and the metrics,    *)
(* from the snapshot load of bootstrap() on.                               *)
(*                                                                         *)
(* Three kinds of process take steps: the transports, which accept events  *)
(* into the adapters at any time; ingestOnce; and the apply path, which is *)
(* bootstrap and then processOnce.  Driver says who calls the last two:    *)
(*                                                                         *)
(*   "main"    LocalOffHeapStoreApplication.main: one thread alternates    *)
(*             ingestOnce and processOnce, and an exception ends it;       *)
(*   "caller"  the same, in a caller that catches what processOnce throws, *)
(*             as the integration test does, and goes on;                  *)
(*   "threads" ingestOnce and processOnce each on a thread of its own,     *)
(*             which the service's thread-safe queue and counters allow;   *)
(*             the second catches what processOnce throws.                 *)
(*                                                                         *)
(* All of it is in memory and this is one life of the process.             *)
(***************************************************************************)
EXTENDS RetryingPublisher, FiniteSets

CONSTANTS
  Snapshots,      \* the snapshots the repository may hold, each a sequence of rows
  QueueCapacity,  \* capacity of the apply queue
  MaxBatch,       \* argument of ingestOnce
  MaxEvents,      \* argument of processOnce
  Driver,         \* who calls the service
  MaxSent,        \* bound: records in a source's log
  MaxRedelivered  \* bound: deliveries of a record already delivered

\* A row's version is a BIGINT of the database; 0 stands for all that are not positive.
SnapshotRow == [key: Key, version: 0 .. MaxVersion, payload: Payload]

\* entity_key is the primary key of entity_snapshot.
ASSUME SnapshotsAssumption ==
  \A s \in Snapshots :
    /\ s \in Seq(SnapshotRow)
    /\ \A i, j \in DOMAIN s : s[i].key = s[j].key => i = j

ASSUME ArgumentsAssumption ==
  /\ QueueCapacity \in Nat \ {0}
  /\ MaxBatch \in Nat
  /\ MaxEvents \in Nat
  /\ Driver \in {"main", "caller", "threads"}
  /\ MaxSent \in Nat
  /\ MaxRedelivered \in Nat

ASSUME NoEventAssumption == None \notin UpsertEvent

VARIABLES
  sent,         \* each source's log: the records it has produced, by position
  redelivered,  \* how many deliveries were of a record delivered before
  inbox,        \* each adapter's queue
  rows,         \* the snapshot in the repository
  loaded,       \* rows the loader has put in the store
  store,        \* the off-heap store's index
  bootstrapped, \* isReady()
  ingestAt,     \* where ingestOnce stands
  polling,      \* the source it is at
  batch,        \* what it polled there and has still to offer
  applyQueue,
  applyAt,      \* where bootstrap or processOnce stands
  processed,    \* processOnce's count
  current,      \* the event processOnce holds
  turn,         \* which call a single-threaded driver makes next
  checkpoint,   \* each source's saved position; 0 is none
  metrics,
  dropped,      \* history: records of which a delivery met a full queue
  unannounced   \* history: events whose publication threw

sourceVars == <<sent, redelivered, inbox>>
viewVars == <<rows, loaded, store, bootstrapped>>
ingestVars == <<ingestAt, polling, batch>>
applyVars == <<applyAt, processed, current>>
historyVars == <<dropped, unannounced>>

vars == <<sourceVars, viewVars, ingestVars, applyQueue, applyVars, turn,
          checkpoint, metrics, historyVars, publisherVars>>

Metric == {"applied", "duplicates", "stale", "drops", "publishFailures"}

TypeOK ==
  /\ PublisherTypeOK
  /\ sent \in [Source -> Seq(UpsertEvent)]
  /\ redelivered \in Nat
  /\ inbox \in [Source -> Seq(UpsertEvent)]
  /\ rows \in Snapshots
  /\ loaded \in 0 .. Len(rows)
  /\ IsView(store)
  /\ bootstrapped \in BOOLEAN
  /\ ingestAt \in {"idle", "poll", "offer"}
  /\ polling \in Source
  /\ batch \in Seq(UpsertEvent)
  /\ applyQueue \in Seq(UpsertEvent)
  /\ Len(applyQueue) <= QueueCapacity
  /\ applyAt \in {"loading", "idle", "take", "evaluate", "publishing", "saving", "dead"}
  /\ processed \in 0 .. MaxEvents
  /\ current \in UpsertEvent \cup {None}
  /\ applyAt \in {"evaluate", "publishing", "saving"} <=> current # None
  /\ applyAt = "publishing" <=> phase # "idle"
  /\ turn \in {"ingest", "process"}
  /\ checkpoint \in [Source -> Nat]
  /\ metrics \in [Metric -> Nat]
  /\ dropped \subseteq Source \X (Nat \ {0})
  /\ unannounced \subseteq UpsertEvent

Init ==
  /\ PublisherInit
  /\ sent = [s \in Source |-> <<>>]
  /\ redelivered = 0
  /\ inbox = [s \in Source |-> <<>>]
  /\ rows \in Snapshots
  /\ loaded = 0
  /\ store = EmptyView
  /\ bootstrapped = FALSE
  /\ ingestAt = "idle"
  /\ polling = "AERON"
  /\ batch = <<>>
  /\ applyQueue = <<>>
  /\ applyAt = "loading"
  /\ processed = 0
  /\ current = None
  /\ turn = "ingest"
  /\ checkpoint = [s \in Source |-> 0]
  /\ metrics = [m \in Metric |-> 0]
  /\ dropped = {}
  /\ unannounced = {}

Count(m) == metrics' = [metrics EXCEPT ![m] = @ + 1]

-----------------------------------------------------------------------------
(***************************************************************************)
(* The transports.  accept(event) adds to the adapter's unbounded queue.   *)
(* A source delivers its log in order, and an at-least-once transport may  *)
(* deliver a record again.                                                 *)
(***************************************************************************)
Accept(s, e) == inbox' = [inbox EXCEPT ![s] = Append(@, e)]

NextRecord(s, k, v, p) ==
  [key |-> k, version |-> v, payload |-> p, source |-> s,
   position |-> Len(sent[s]) + 1]

Send(s) ==
  /\ Len(sent[s]) < MaxSent
  /\ \E k \in Key, v \in Version, p \in Payload :
       LET e == NextRecord(s, k, v, p) IN
         /\ sent' = [sent EXCEPT ![s] = Append(@, e)]
         /\ Accept(s, e)
  /\ UNCHANGED <<redelivered, viewVars, ingestVars, applyQueue, applyVars,
                 turn, checkpoint, metrics, historyVars, publisherVars>>

Redeliver(s) ==
  /\ redelivered < MaxRedelivered
  /\ \E i \in DOMAIN sent[s] : Accept(s, sent[s][i])
  /\ redelivered' = redelivered + 1
  /\ UNCHANGED <<sent, viewVars, ingestVars, applyQueue, applyVars, turn,
                 checkpoint, metrics, historyVars, publisherVars>>

-----------------------------------------------------------------------------
(***************************************************************************)
(* bootstrap(): PostgresSnapshotLoader.load puts the rows one after the    *)
(* other, past the version gate.  The constructor of StateRecord throws on *)
(* a version that is not positive, and bootstrapped is then never set.     *)
(***************************************************************************)
LoadRow ==
  /\ applyAt = "loading"
  /\ loaded < Len(rows)
  /\ LET row == rows[loaded + 1] IN
       /\ row.version > 0
       /\ store' = Put(store, row.key, RecordOf(row))
  /\ loaded' = loaded + 1
  /\ UNCHANGED <<sourceVars, rows, bootstrapped, ingestVars, applyQueue,
                 applyVars, turn, checkpoint, metrics, historyVars, publisherVars>>

LoadRejected ==
  /\ applyAt = "loading"
  /\ loaded < Len(rows)
  /\ rows[loaded + 1].version = 0
  /\ applyAt' = "dead"
  /\ UNCHANGED <<sourceVars, viewVars, ingestVars, applyQueue, processed,
                 current, turn, checkpoint, metrics, historyVars, publisherVars>>

\* Mutant: ready is set before the load.
LoadDoneEarly ==
  /\ applyAt = "loading"
  /\ bootstrapped' = TRUE
  /\ applyAt' = "idle"
  /\ UNCHANGED <<sourceVars, rows, loaded, store, ingestVars, applyQueue,
                 processed, current, turn, checkpoint, metrics, historyVars,
                 publisherVars>>

LoadDone ==
  /\ applyAt = "loading"
  /\ loaded = Len(rows)
  /\ bootstrapped' = TRUE
  /\ applyAt' = "idle"
  /\ UNCHANGED <<sourceVars, rows, loaded, store, ingestVars, applyQueue,
                 processed, current, turn, checkpoint, metrics, historyVars,
                 publisherVars>>

-----------------------------------------------------------------------------
(***************************************************************************)
(* ingestOnce(MaxBatch): poll AERON and offer its batch, then KAFKA.  The  *)
(* poll is one step: only poll removes from the adapter's queue, so an     *)
(* event accepted while it runs might as well have come before or after.   *)
(* The offers are a step each, because processOnce may make room between.  *)
(***************************************************************************)
Smaller(a, b) == IF a <= b THEN a ELSE b

IngestOnce ==
  /\ bootstrapped
  /\ ingestAt = "idle"
  /\ Driver # "threads" => turn = "ingest" /\ applyAt = "idle"
  /\ ingestAt' = "poll"
  /\ polling' = "AERON"
  /\ turn' = IF Driver = "threads" THEN turn ELSE "process"
  /\ UNCHANGED <<sourceVars, viewVars, batch, applyQueue, applyVars,
                 checkpoint, metrics, historyVars, publisherVars>>

Poll ==
  /\ ingestAt = "poll"
  /\ LET n == Smaller(MaxBatch, Len(inbox[polling])) IN
       /\ batch' = SubSeq(inbox[polling], 1, n)
       /\ inbox' = [inbox EXCEPT ![polling] = SubSeq(@, n + 1, Len(@))]
  /\ ingestAt' = "offer"
  /\ UNCHANGED <<sent, redelivered, viewVars, polling, applyQueue, applyVars,
                 turn, checkpoint, metrics, historyVars, publisherVars>>

\* Mutant: the queue has no bound.
OfferUnbounded ==
  /\ ingestAt = "offer"
  /\ batch # <<>>
  /\ applyQueue' = Append(applyQueue, Head(batch))
  /\ batch' = Tail(batch)
  /\ UNCHANGED <<sourceVars, viewVars, ingestAt, polling, applyVars, turn,
                 checkpoint, metrics, historyVars, publisherVars>>

OfferAccepted ==
  /\ ingestAt = "offer"
  /\ batch # <<>>
  /\ Len(applyQueue) < QueueCapacity
  /\ applyQueue' = Append(applyQueue, Head(batch))
  /\ batch' = Tail(batch)
  /\ UNCHANGED <<sourceVars, viewVars, ingestAt, polling, applyVars, turn,
                 checkpoint, metrics, historyVars, publisherVars>>

\* Mutant: the drop is not counted.
OfferDroppedSilently ==
  /\ ingestAt = "offer"
  /\ batch # <<>>
  /\ Len(applyQueue) = QueueCapacity
  /\ batch' = Tail(batch)
  /\ dropped' = dropped \cup {<<Head(batch).source, Head(batch).position>>}
  /\ UNCHANGED <<sourceVars, viewVars, ingestAt, polling, applyQueue,
                 applyVars, turn, checkpoint, metrics, unannounced, publisherVars>>

\* Mutant: an event that finds the queue full is offered again after the rest.
OfferDroppedRequeues ==
  /\ ingestAt = "offer"
  /\ batch # <<>>
  /\ Len(applyQueue) = QueueCapacity
  /\ batch' = Append(Tail(batch), Head(batch))
  /\ UNCHANGED <<sourceVars, viewVars, ingestAt, polling, applyQueue,
                 applyVars, turn, checkpoint, metrics, historyVars, publisherVars>>

OfferDropped ==
  /\ ingestAt = "offer"
  /\ batch # <<>>
  /\ Len(applyQueue) = QueueCapacity
  /\ batch' = Tail(batch)
  /\ Count("drops")
  /\ dropped' = dropped \cup {<<Head(batch).source, Head(batch).position>>}
  /\ UNCHANGED <<sourceVars, viewVars, ingestAt, polling, applyQueue,
                 applyVars, turn, checkpoint, unannounced, publisherVars>>

\* Mutant: KAFKA is never polled.
SourceDoneAfterAeron ==
  /\ ingestAt = "offer"
  /\ batch = <<>>
  /\ ingestAt' = "idle"
  /\ polling' = "KAFKA"
  /\ UNCHANGED <<sourceVars, viewVars, batch, applyQueue, applyVars, turn,
                 checkpoint, metrics, historyVars, publisherVars>>

\* The batch is offered; after KAFKA's, ingestOnce returns.
SourceDone ==
  /\ ingestAt = "offer"
  /\ batch = <<>>
  /\ ingestAt' = IF polling = "AERON" THEN "poll" ELSE "idle"
  /\ polling' = "KAFKA"
  /\ UNCHANGED <<sourceVars, viewVars, batch, applyQueue, applyVars, turn,
                 checkpoint, metrics, historyVars, publisherVars>>

IngestStep ==
  \/ IngestOnce
  \/ Poll
  \/ OfferAccepted
  \/ OfferDropped
  \/ SourceDone

-----------------------------------------------------------------------------
(***************************************************************************)
(* processOnce(MaxEvents).                                                 *)
(***************************************************************************)
ProcessOnce ==
  /\ applyAt = "idle"
  /\ Driver # "threads" => turn = "process" /\ ingestAt = "idle"
  /\ applyAt' = "take"
  /\ turn' = IF Driver = "threads" THEN turn ELSE "ingest"
  /\ UNCHANGED <<sourceVars, viewVars, ingestVars, applyQueue, processed,
                 current, checkpoint, metrics, historyVars, publisherVars>>

\* Mutant: the checkpoint is saved when the event is taken.
TakeAndSave ==
  /\ applyAt = "take"
  /\ processed < MaxEvents
  /\ applyQueue # <<>>
  /\ current' = Head(applyQueue)
  /\ applyQueue' = Tail(applyQueue)
  /\ processed' = processed + 1
  /\ applyAt' = "evaluate"
  /\ checkpoint' = [checkpoint EXCEPT ![Head(applyQueue).source] =
                                         Head(applyQueue).position]
  /\ UNCHANGED <<sourceVars, viewVars, ingestVars, turn, metrics,
                 historyVars, publisherVars>>

Take ==
  /\ applyAt = "take"
  /\ processed < MaxEvents
  /\ applyQueue # <<>>
  /\ current' = Head(applyQueue)
  /\ applyQueue' = Tail(applyQueue)
  /\ processed' = processed + 1
  /\ applyAt' = "evaluate"
  /\ UNCHANGED <<sourceVars, viewVars, ingestVars, turn, checkpoint, metrics,
                 historyVars, publisherVars>>

ProcessReturns ==
  /\ applyAt = "take"
  /\ processed = MaxEvents \/ applyQueue = <<>>
  /\ applyAt' = "idle"
  /\ processed' = 0
  /\ UNCHANGED <<sourceVars, viewVars, ingestVars, applyQueue, current, turn,
                 checkpoint, metrics, historyVars, publisherVars>>

\* UpsertApplyEngine.apply writes the record; then publish is called.
ApplyUpsert ==
  /\ applyAt = "evaluate"
  /\ Evaluate(store, current) = "APPLIED"
  /\ store' = Put(store, current.key, RecordOf(current))
  /\ Publish(NotificationOf(store, current))
  /\ applyAt' = "publishing"
  /\ UNCHANGED <<sourceVars, rows, loaded, bootstrapped, ingestVars, applyQueue,
                 processed, current, turn, checkpoint, metrics, historyVars>>

\* A duplicate or stale event is only counted.
SkipUpsert ==
  /\ applyAt = "evaluate"
  /\ \/ Evaluate(store, current) = "DUPLICATE" /\ Count("duplicates")
     \/ Evaluate(store, current) = "STALE" /\ Count("stale")
  /\ applyAt' = "saving"
  /\ UNCHANGED <<sourceVars, viewVars, ingestVars, applyQueue, processed,
                 current, turn, checkpoint, historyVars, publisherVars>>

PublishAttempt ==
  /\ PublisherStep
  /\ UNCHANGED <<sourceVars, viewVars, ingestVars, applyQueue, applyVars, turn,
                 checkpoint, metrics, historyVars>>

PublishReturned ==
  /\ Conclude("returned")
  /\ Count("applied")
  /\ applyAt' = "saving"
  /\ UNCHANGED <<sourceVars, viewVars, ingestVars, applyQueue, processed,
                 current, turn, checkpoint, historyVars>>

\* The exception is counted and leaves processOnce: the event is not put
\* back, no checkpoint is saved, and main's loop has no handler for it.
PublishThrew ==
  /\ Conclude("threw")
  /\ Count("publishFailures")
  /\ unannounced' = unannounced \cup {current}
  /\ applyAt' = IF Driver = "main" THEN "dead" ELSE "idle"
  /\ processed' = 0
  /\ current' = None
  /\ UNCHANGED <<sourceVars, viewVars, ingestVars, applyQueue, turn,
                 checkpoint, dropped>>

\* InMemoryCheckpointStore.save overwrites the position, earlier or later.
SaveCheckpoint ==
  /\ applyAt = "saving"
  /\ checkpoint' = [checkpoint EXCEPT ![current.source] = current.position]
  /\ current' = None
  /\ applyAt' = "take"
  /\ UNCHANGED <<sourceVars, viewVars, ingestVars, applyQueue, processed, turn,
                 metrics, historyVars, publisherVars>>

ApplyStep ==
  \/ LoadRow
  \/ LoadRejected
  \/ LoadDone
  \/ ProcessOnce
  \/ Take
  \/ ProcessReturns
  \/ ApplyUpsert
  \/ SkipUpsert
  \/ PublishAttempt
  \/ PublishReturned
  \/ PublishThrew
  \/ SaveCheckpoint

Next ==
  \/ \E s \in Source : Send(s) \/ Redeliver(s)
  \/ IngestStep
  \/ ApplyStep

Spec == Init /\ [][Next]_vars

\* The calling threads go on; nothing obliges the transports to send.
FairSpec == Spec /\ WF_vars(IngestStep) /\ WF_vars(ApplyStep)
=============================================================================
