-------------------------- MODULE StoreProperties --------------------------
(***************************************************************************)
(* What makes StoreService correct.  The properties marked as claims are   *)
(* what the repository's documents and tests say of it and the code does   *)
(* not do.                                                                 *)
(***************************************************************************)
EXTENDS StoreService

(***************************************************************************)
(* OrderingAndVersionGate with UpsertApplyEngine: no step of any actor     *)
(* takes a key out of the store, lowers its version, or replaces its       *)
(* payload within the same version.                                        *)
(***************************************************************************)
VersionsNeverRegress ==
  [][\A k \in DOMAIN store :
       /\ k \in DOMAIN store'
       /\ store'[k] = store[k] \/ store'[k].version > store[k].version]_vars

(***************************************************************************)
(* The service implements VersionedView: queues, batches, duplicates,      *)
(* stale events, attempts and Kafka are all stuttering, and a publish that *)
(* throws is Lose.                                                         *)
(***************************************************************************)
Abstract == INSTANCE VersionedView WITH
  view <- store, open <- bootstrapped,
  owed <- IF phase = "aeron" THEN pending ELSE None,
  stream <- aeronOut, Nothing <- None

ImplementsVersionedView == Abstract!Spec

(***************************************************************************)
(* ServiceMetrics tells the truth: every event an adapter accepted is      *)
(* waiting somewhere, or is in processOnce's hands, or is counted under    *)
(* exactly one of the five metrics.  None is lost or counted twice between *)
(* the adapter's queue, the batch, the apply queue and the apply loop.     *)
(***************************************************************************)
Delivered == Len(sent["AERON"]) + Len(sent["KAFKA"]) + redelivered

Waiting ==
  Len(inbox["AERON"]) + Len(inbox["KAFKA"]) + Len(batch) + Len(applyQueue)

InHand == IF applyAt \in {"evaluate", "publishing"} THEN 1 ELSE 0

Counted ==
  metrics["applied"] + metrics["duplicates"] + metrics["stale"]
    + metrics["drops"] + metrics["publishFailures"]

EveryDeliveryAccounted == Delivered = Waiting + InHand + Counted

(***************************************************************************)
(* A saved checkpoint is a safe place to resume from but for drops: of the *)
(* records of a source at or before its checkpoint, each is reflected in   *)
(* the store by its own or a newer version, or met a full apply queue.     *)
(* It needs every stage from the adapter's queue to the apply loop to keep *)
(* each source's order, and the save to come after the apply.              *)
(***************************************************************************)
Reflected(e) == VersionIn(store, e.key) >= e.version

CheckpointSkipsOnlyDrops ==
  \A s \in Source :
    /\ checkpoint[s] <= Len(sent[s])
    /\ \A i \in 1 .. checkpoint[s] :
         Reflected(sent[s][i]) \/ <<s, i>> \in dropped

(***************************************************************************)
(* Once nothing is waiting or in hand and nothing was dropped, each key    *)
(* holds one of the newest records that the snapshot or any source had for *)
(* it, whatever order the sources, the queue and the redeliveries put them *)
(* in: the gate makes the final version independent of the interleaving.   *)
(***************************************************************************)
Candidates(k) ==
  {RecordOf(rows[i]) : i \in {j \in DOMAIN rows : rows[j].key = k}}
    \cup UNION {{RecordOf(sent[s][i]) : i \in {j \in DOMAIN sent[s] : sent[s][j].key = k}}
                  : s \in Source}

NewestWins ==
  (bootstrapped /\ Waiting = 0 /\ current = None /\ dropped = {}) =>
    \A k \in Key :
      /\ k \in DOMAIN store <=> Candidates(k) # {}
      /\ k \in DOMAIN store =>
           /\ store[k] \in Candidates(k)
           /\ \A r \in Candidates(k) : r.version <= store[k].version

(***************************************************************************)
(* A consumer that keeps the last notification of each key has the key's   *)
(* current record.  The exceptions are exact: on Aeron a key whose current *)
(* version is the one whose publication threw, on Kafka also one whose     *)
(* current version went to the dead letters; and the next change of the    *)
(* key that is published makes up for it.                                  *)
(***************************************************************************)
Shows(out, k) ==
  \E i \in DOMAIN out :
    /\ out[i].key = k
    /\ store[k] = [version |-> out[i].newVersion, payload |-> out[i].payload]
    /\ \A j \in DOMAIN out : out[j].key = k => j <= i

Seeded(k) == \E i \in DOMAIN rows : rows[i].key = k /\ RecordOf(rows[i]) = store[k]

Unannounced(k) ==
  \E e \in unannounced : e.key = k /\ e.version = store[k].version

DeadLettered(k) ==
  \E i \in DOMAIN deadLetters :
    deadLetters[i].key = k /\ deadLetters[i].newVersion = store[k].version

ConsumersSeeCurrentRecord ==
  phase = "idle" =>
    \A k \in DOMAIN store :
      \/ Seeded(k)
      \/ Unannounced(k)
      \/ Shows(aeronOut, k) /\ (Shows(kafkaOut, k) \/ DeadLettered(k))

(***************************************************************************)
(* Each stream and the dead letters tell a key's changes in order and      *)
(* once: a notification raises the version, and starts at or after the     *)
(* version where any before it on the same key ended.                      *)
(***************************************************************************)
ChangesInOrder(out) ==
  /\ \A i \in DOMAIN out : out[i].oldVersion < out[i].newVersion
  /\ \A i, j \in DOMAIN out :
       (i < j /\ out[i].key = out[j].key) => out[i].newVersion <= out[j].oldVersion

StreamsInOrder ==
  /\ ChangesInOrder(aeronOut)
  /\ ChangesInOrder(kafkaOut)
  /\ ChangesInOrder(deadLetters)

(***************************************************************************)
(* isReady() becomes true only when every row of the snapshot is in the    *)
(* store, and no upsert later undoes a row.                                *)
(***************************************************************************)
ReadyMeansSeeded ==
  bootstrapped => \A i \in DOMAIN rows : Reflected(rows[i])

(***************************************************************************)
(* Every record a source sent is in the end reflected in the store or      *)
(* dropped at a full queue, unless the calling thread has died: of a bad   *)
(* row in bootstrap or, in main, of a failed publication.                  *)
(***************************************************************************)
EveryRecordHandled ==
  \A s \in Source : \A i \in 1 .. MaxSent :
    Len(sent[s]) >= i ~>
      \/ applyAt = "dead"
      \/ i \in DOMAIN sent[s] /\ Reflected(sent[s][i])
      \/ <<s, i>> \in dropped

-----------------------------------------------------------------------------
(***************************************************************************)
(* Claim (docs/recovery-and-ordering.md, "Apply failures do not advance    *)
(* checkpoint"; the test publishFailureDoesNotAdvanceCheckpoint): a        *)
(* source's checkpoint does not pass an event whose publication failed.    *)
(***************************************************************************)
FailedPublishHoldsCheckpoint ==
  \A e \in unannounced : checkpoint[e.source] < e.position

(***************************************************************************)
(* Claim (docs/recovery-and-ordering.md, "Store update and checkpoint      *)
(* update happen in a single ordered commit section"): outside the         *)
(* handling of an event, every record in the store comes from the snapshot *)
(* or from an event at or before its source's checkpoint.                  *)
(***************************************************************************)
Checkpointed(k) ==
  \E s \in Source : \E i \in 1 .. checkpoint[s] :
    sent[s][i].key = k /\ RecordOf(sent[s][i]) = store[k]

StoreAndCheckpointTogether ==
  current = None => \A k \in DOMAIN store : Seeded(k) \/ Checkpointed(k)
=============================================================================
