------------------------------ MODULE Recovery ------------------------------
(***************************************************************************)
(* The service over several lives of its process.  Everything it keeps is  *)
(* in the heap or in direct buffers, the checkpoints and the dead letters  *)
(* included, so a crash leaves the sources' logs, the database and what    *)
(* consumers have received, and nothing else.                              *)
(*                                                                         *)
(* No code reads a checkpoint or the watermark: where a source resumes     *)
(* after a restart is its own choice, made anew in every life, and the     *)
(* model lets it be any place of the log.                                  *)
(***************************************************************************)
EXTENDS StoreProperties

CONSTANT MaxCrashes  \* bound

ASSUME MaxCrashesAssumption == MaxCrashes \in Nat

VARIABLES
  crashes,
  resumed,      \* in this life a source's records up to here are not delivered
  reached,      \* and those up to here are
  announcedBy   \* how long Aeron's and Kafka's streams were when this life began

lifeVars == <<crashes, resumed, reached, announcedBy>>

allVars == <<vars, lifeVars>>

Streams == [aeron |-> Len(aeronOut), kafka |-> Len(kafkaOut)]

RecoveryInit ==
  /\ Init
  /\ crashes = 0
  /\ resumed = [s \in Source |-> 0]
  /\ reached = [s \in Source |-> 0]
  /\ announcedBy = Streams

-----------------------------------------------------------------------------
(***************************************************************************)
(* The sources.  In a life each delivers its log in order from the place   *)
(* it resumed at; a new record comes after the old ones.                   *)
(***************************************************************************)
Replay(s) ==
  /\ reached[s] < Len(sent[s])
  /\ Accept(s, sent[s][reached[s] + 1])
  /\ reached' = [reached EXCEPT ![s] = @ + 1]
  /\ UNCHANGED <<sent, redelivered, viewVars, ingestVars, applyQueue, applyVars,
                 turn, checkpoint, metrics, historyVars, publisherVars,
                 crashes, resumed, announcedBy>>

Produce(s) ==
  /\ reached[s] = Len(sent[s])
  /\ Send(s)
  /\ reached' = [reached EXCEPT ![s] = @ + 1]
  /\ UNCHANGED <<crashes, resumed, announcedBy>>

(***************************************************************************)
(* The process ends, in the middle of whatever it does, and starts again:  *)
(* main builds every object anew and calls bootstrap.  The rows of the     *)
(* database may have been replaced since they were last read.              *)
(***************************************************************************)
\* Mutant: the index outlives the process and is loaded over.
IndexKept == UNCHANGED store

IndexLost == store' = EmptyView

\* Mutant: the checkpoints are durable, and nothing else is.
CheckpointsKept == UNCHANGED checkpoint

CheckpointsLost == checkpoint' = [s \in Source |-> 0]

HeapLost ==
  /\ IndexLost
  /\ CheckpointsLost
  /\ inbox' = [s \in Source |-> <<>>]
  /\ loaded' = 0 /\ bootstrapped' = FALSE
  /\ ingestAt' = "idle" /\ polling' = "AERON" /\ batch' = <<>>
  /\ applyQueue' = <<>>
  /\ applyAt' = "loading" /\ processed' = 0 /\ current' = None
  /\ turn' = "ingest"
  /\ metrics' = [m \in Metric |-> 0]
  /\ dropped' = {} /\ unannounced' = {}
  /\ phase' = "idle" /\ attempt' = 0 /\ pending' = None
  /\ deadLetters' = <<>>

Resume ==
  /\ crashes < MaxCrashes
  /\ crashes' = crashes + 1
  /\ rows' \in Snapshots
  /\ \E p \in [Source -> 0 .. MaxSent] :
       /\ \A s \in Source : p[s] <= Len(sent[s])
       /\ resumed' = p /\ reached' = p
  /\ announcedBy' = Streams
  /\ UNCHANGED <<sent, redelivered, aeronOut, kafkaOut>>

Crash == Resume /\ HeapLost

RecoveryNext ==
  \/ \E s \in Source : Replay(s) \/ Produce(s)
  \/ (IngestStep \/ ApplyStep) /\ UNCHANGED lifeVars
  \/ Crash

RecoverySpec == RecoveryInit /\ [][RecoveryNext]_allVars

-----------------------------------------------------------------------------
(***************************************************************************)
(* Each life, once nothing is waiting or in hand and nothing was dropped,  *)
(* has for each key one of the newest records among its snapshot and what  *)
(* its sources replayed: whatever earlier lives did leaves no trace, and   *)
(* whether a restart recovers a record is decided by the snapshot and by   *)
(* where the source resumed.                                               *)
(***************************************************************************)
Replayed(k) ==
  {RecordOf(rows[i]) : i \in {j \in DOMAIN rows : rows[j].key = k}}
    \cup UNION {{RecordOf(sent[s][i]) :
                   i \in {j \in resumed[s] + 1 .. reached[s] : sent[s][j].key = k}}
                  : s \in Source}

Quiet == bootstrapped /\ Waiting = 0 /\ current = None /\ dropped = {}

EachLifeHasNewest ==
  Quiet =>
    \A k \in Key :
      /\ k \in DOMAIN store <=> Replayed(k) # {}
      /\ k \in DOMAIN store =>
           /\ store[k] \in Replayed(k)
           /\ \A r \in Replayed(k) : r.version <= store[k].version

(***************************************************************************)
(* What a restart needs of the sources, since no code reads a checkpoint   *)
(* and everything else is lost: when both have replayed their logs from    *)
(* the beginning and nothing was dropped, the store is at or past every    *)
(* version any life has announced, so that a consumer is never ahead of    *)
(* it for good.  (docs/recovery-and-ordering.md describes a restart from   *)
(* durable checkpoints, which the code does not have.)                     *)
(***************************************************************************)
FullReplay ==
  \A s \in Source : resumed[s] = 0 /\ reached[s] = Len(sent[s])

ReplayCatchesUpWithConsumers ==
  Quiet /\ FullReplay =>
    \A i \in DOMAIN aeronOut :
      VersionIn(store, aeronOut[i].key) >= aeronOut[i].newVersion

(***************************************************************************)
(* Within a life each stream tells a key's changes in order and once.  The *)
(* next life may tell them again from an earlier version on, and only a    *)
(* consumer that knows where it began can tell a repetition from a change. *)
(***************************************************************************)
Since(out, n) == SubSeq(out, n + 1, Len(out))

EachLifeInOrder ==
  /\ ChangesInOrder(Since(aeronOut, announcedBy.aeron))
  /\ ChangesInOrder(Since(kafkaOut, announcedBy.kafka))

(***************************************************************************)
(* Crashes, replays and all, the service implements VersionedView with     *)
(* restarts: a crash at any step, of publish too, costs the view and at    *)
(* most the announcement it owed, nothing of a life before comes back to   *)
(* be announced, and each life seeds first and then only raises versions.  *)
(***************************************************************************)
ImplementsRestartingView == Abstract!RestartingSpec

(***************************************************************************)
(* A checkpoint speaks for the life that saved it, from where that life    *)
(* resumed: the records after that place and up to the checkpoint are      *)
(* reflected in the store or were dropped.                                 *)
(***************************************************************************)
CheckpointCoversReplay ==
  \A s \in Source : \A i \in resumed[s] + 1 .. checkpoint[s] :
    Reflected(sent[s][i]) \/ <<s, i>> \in dropped
=============================================================================
