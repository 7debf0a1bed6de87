-------------------------- MODULE PublisherCaller --------------------------
(***************************************************************************)
(* RetryingPublisher closed with its most general caller: any notification *)
(* of an upsert may be published next, one call at a time, whatever the    *)
(* earlier calls did.                                                      *)
(***************************************************************************)
EXTENDS RetryingPublisher

CONSTANT MaxPublished  \* bound: the caller stops when Aeron has carried so many

ASSUME MaxPublishedAssumption == MaxPublished \in Nat

Init == PublisherInit

Call ==
  /\ Len(aeronOut) < MaxPublished
  /\ \E n \in StateChangeNotification :
       n.oldVersion < n.newVersion /\ Publish(n)

Return == \E outcome \in {"returned", "threw"} : Conclude(outcome)

Next == Call \/ PublisherStep \/ Return

Spec == Init /\ [][Next]_publisherVars

\* The call runs on the caller's thread, which does not stop in the middle.
FairSpec == Spec /\ WF_publisherVars(PublisherStep \/ Return)

-----------------------------------------------------------------------------
(***************************************************************************)
(* Every call of publish ends, however the transports answer: the number   *)
(* of attempts is bounded and exhaustion always leads out of the loop.     *)
(***************************************************************************)
PublishEnds == phase # "idle" ~> phase = "idle"

(***************************************************************************)
(* The retry loops implement DualDelivery: attempts are stuttering, the    *)
(* exhausted Aeron loop is Refuse, and Kafka or the dead letters is        *)
(* Settle.                                                                 *)
(***************************************************************************)
StageOf ==
  CASE phase = "idle" -> "idle"
    [] phase = "aeron" -> "called"
    [] phase = "kafka" -> "carried"
    [] phase = "returned" -> "delivered"
    [] phase = "threw" -> "refused"

Delivery == INSTANCE DualDelivery WITH
  Message <- StateChangeNotification, Nothing <- None,
  stage <- StageOf, message <- pending,
  primary <- aeronOut, secondary <- kafkaOut, fallback <- deadLetters

ImplementsDualDelivery == Delivery!FairSpec
=============================================================================
