--------------------------- MODULE VersionedView ---------------------------
(***************************************************************************)
(* What the service promises about its materialized view and its primary   *)
(* change stream, with no queues, sources, duplicates, retries or threads. *)
(* The view is seeded key by key and then opened.  From then on a key's    *)
(* record is only ever replaced by one of a higher version.  Each change   *)
(* owes the stream one announcement, which is made or lost before the next *)
(* change: the stream is the history of the view with the lost ones left   *)
(* out, in order and without repetition.                                   *)
(***************************************************************************)
EXTENDS CoreDomain, Sequences

CONSTANT Nothing

VARIABLES
  view,    \* the record of each key that has one
  open,    \* seeding is over
  owed,    \* the announcement of the last change, or Nothing
  stream   \* the announcements made

viewVars == <<view, open, owed, stream>>

Init ==
  /\ view = EmptyView
  /\ open = FALSE
  /\ owed = Nothing
  /\ stream = <<>>

Seed(k, r) ==
  /\ ~open
  /\ k \notin DOMAIN view
  /\ view' = Put(view, k, r)
  /\ UNCHANGED <<open, owed, stream>>

Open ==
  /\ ~open
  /\ open' = TRUE
  /\ UNCHANGED <<view, owed, stream>>

Change(k, r) ==
  /\ open
  /\ owed = Nothing
  /\ r.version > VersionIn(view, k)
  /\ view' = Put(view, k, r)
  /\ owed' = [key |-> k, oldVersion |-> VersionIn(view, k),
              newVersion |-> r.version, payload |-> r.payload]
  /\ UNCHANGED <<open, stream>>

Announce ==
  /\ owed # Nothing
  /\ stream' = Append(stream, owed)
  /\ owed' = Nothing
  /\ UNCHANGED <<view, open>>

Lose ==
  /\ owed # Nothing
  /\ owed' = Nothing
  /\ UNCHANGED <<view, open, stream>>

Next ==
  \/ \E k \in Key, r \in StateRecord : Seed(k, r) \/ Change(k, r)
  \/ Open
  \/ Announce
  \/ Lose

Spec == Init /\ [][Next]_viewVars

-----------------------------------------------------------------------------
(***************************************************************************)
(* The same over several lives: at any moment the view may be lost, with   *)
(* the announcement it owed, and is then seeded anew.  The stream stays.   *)
(***************************************************************************)
Restart ==
  /\ view' = EmptyView
  /\ open' = FALSE
  /\ owed' = Nothing
  /\ UNCHANGED stream

RestartingNext == Next \/ Restart

RestartingSpec == Init /\ [][RestartingNext]_viewVars
=============================================================================
