----------------------------- MODULE CoreDomain -----------------------------
(***************************************************************************)
(* The value classes of core-domain and the pure functions over them: the  *)
(* off-heap store's index as a value, the ordering and version gate, and   *)
(* what the apply engine writes and announces.  The modules with state     *)
(* extend this one.                                                        *)
(*                                                                         *)
(* A payload is opaque to the core, so it is a member of a set compared    *)
(* only for equality.  A version is a positive Java long; MaxVersion       *)
(* stands for Long.MAX_VALUE, and no code does arithmetic on a version.    *)
(***************************************************************************)
EXTENDS Integers

CONSTANTS
  Key,         \* entity keys: the non-blank strings
  Payload,     \* payload byte arrays, compared by content
  MaxVersion   \* the largest version a long can hold

ASSUME MaxVersionAssumption == MaxVersion \in Nat \ {0}

Source == {"AERON", "KAFKA"}

\* StateRecord and UpsertEvent refuse a version that is not positive.
Version == 1 .. MaxVersion

StateRecord == [version: Version, payload: Payload]

\* sourcePosition is the place of the record in its source's log, from 1.
UpsertEvent == [key: Key, version: Version, payload: Payload,
                source: Source, position: Nat \ {0}]

\* oldVersion is 0 when the key had no record.
StateChangeNotification ==
  [key: Key, oldVersion: 0 .. MaxVersion, newVersion: Version, payload: Payload]

ApplyStatus == {"APPLIED", "DUPLICATE", "STALE"}

(***************************************************************************)
(* The store's index: a map with a record for some of the keys.            *)
(***************************************************************************)
IsView(view) ==
  /\ DOMAIN view \subseteq Key
  /\ view \in [DOMAIN view -> StateRecord]

EmptyView == [k \in {} |-> k]

\* put replaces or adds the key's entry, whatever was there.
Put(view, k, record) ==
  [j \in DOMAIN view \cup {k} |-> IF j = k THEN record ELSE view[j]]

RecordOf(e) == [version |-> e.version, payload |-> e.payload]

(***************************************************************************)
(* OrderingAndVersionGate.evaluate against the current record of the key.  *)
(***************************************************************************)
\* Mutant: an equal version supersedes too.
SupersedesOrEqual(view, e) ==
  e.key \in DOMAIN view => e.version >= view[e.key].version

Supersedes(view, e) ==
  e.key \in DOMAIN view => e.version > view[e.key].version

\* Mutant: last writer wins, whatever its version.
EvaluateLastWriter(view, e) ==
  IF e.key \in DOMAIN view /\ view[e.key] = RecordOf(e) THEN "DUPLICATE"
  ELSE "APPLIED"

Evaluate(view, e) ==
  IF Supersedes(view, e) THEN "APPLIED"
  ELSE IF view[e.key] = RecordOf(e) THEN "DUPLICATE"
  ELSE "STALE"

(***************************************************************************)
(* The notification UpsertApplyEngine.apply builds for an applied event,   *)
(* from the record it read before the put.                                 *)
(***************************************************************************)
VersionIn(view, k) == IF k \in DOMAIN view THEN view[k].version ELSE 0

\* Mutant: the old version is read after the put.
NotificationAfterPut(view, e) ==
  [key |-> e.key, oldVersion |-> e.version,
   newVersion |-> e.version, payload |-> e.payload]

NotificationOf(view, e) ==
  [key |-> e.key, oldVersion |-> VersionIn(view, e.key),
   newVersion |-> e.version, payload |-> e.payload]
=============================================================================
