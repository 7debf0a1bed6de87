---------------------------- MODULE EventSource ----------------------------
(***************************************************************************)
(* What the service expects of an ingress adapter: every event that comes  *)
(* in waits until a poll hands it out, once and in the order of arrival.   *)
(***************************************************************************)
EXTENDS Sequences

LOCAL INSTANCE SequencesExt

CONSTANT Event

VARIABLES
  waiting,   \* events that have arrived and not been handed out
  handedOut  \* events handed out

sourceEvents == <<waiting, handedOut>>

Init == waiting = <<>> /\ handedOut = <<>>

Arrive ==
  /\ waiting' # <<>> /\ Last(waiting') \in Event
  /\ waiting = Front(waiting')
  /\ UNCHANGED handedOut

HandOut ==
  /\ waiting # <<>>
  /\ handedOut' = Append(handedOut, Head(waiting))
  /\ waiting' = Tail(waiting)

Next == Arrive \/ HandOut

Spec == Init /\ [][Next]_sourceEvents

FairSpec == Spec /\ WF_sourceEvents(HandOut)
=============================================================================
