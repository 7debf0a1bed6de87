--------------------------- MODULE WiredPublisher ---------------------------
(***************************************************************************)
(* PublisherCaller over the transports main() wires to it: for Aeron the   *)
(* real publication with its loop of offers, or the simulated one that     *)
(* fails on request; for Kafka the simulated one.                          *)
(*                                                                         *)
(* The requests for failures, failNextPublish and failTimes, come from     *)
(* other threads and take no lock, while publish holds one: they fall      *)
(* between its test, its read and its write of the same field.             *)
(***************************************************************************)
EXTENDS PublisherCaller

CONSTANTS
  MaxOfferAttempts,  \* the real publication's constructor's
  FailureCounts,     \* arguments of failTimes
  MaxRequests        \* bound: requests for failures, to each transport

ASSUME WiredAssumption ==
  /\ MaxOfferAttempts \in Nat
  /\ FailureCounts \subseteq Nat
  /\ MaxRequests \in Nat

VARIABLES
  mode,                   \* AERON_MODE
  at,                     \* where publish of a transport stands
  offers,                 \* loop variable i of the real publication
  closed,                 \* the real publication has been closed
  failNext,               \* field of the simulated Aeron publisher
  failuresBeforeSuccess,  \* field of the simulated Kafka publisher
  countRead,              \* what its decrement has read
  requests,               \* history: requests to each transport
  asked,                  \* history: failures they asked for
  failed,                 \* history: failures the simulations produced
  spent                   \* history: offers of the current call of publish

simulationVars == <<failNext, failuresBeforeSuccess, countRead, requests, asked, failed>>
offerVars == <<offers, closed, spent>>
wiredVars == <<publisherVars, mode, at, offerVars, simulationVars>>

Transport == {"aeron", "kafka"}

WiredTypeOK ==
  /\ mode \in {"REAL", "INMEMORY"}
  /\ at \in {"called", "offering", "failing", "decrementing", "writing"}
  /\ at = "offering" => mode = "REAL" /\ phase = "aeron"
  /\ at = "failing" => mode = "INMEMORY" /\ phase = "aeron"
  /\ at \in {"decrementing", "writing"} => phase = "kafka"
  /\ at = "decrementing" => failuresBeforeSuccess >= 0
  /\ at # "called" => AttemptsLeft
  /\ offers \in 0 .. MaxOfferAttempts
  /\ closed \in BOOLEAN /\ failNext \in BOOLEAN
  /\ failuresBeforeSuccess \in Int /\ failuresBeforeSuccess >= -1
  /\ countRead \in Nat
  /\ requests \in [Transport -> 0 .. MaxRequests]
  /\ asked \in [Transport -> Nat] /\ failed \in [Transport -> Nat]
  /\ spent \in Nat

WiredInit ==
  /\ Init
  /\ mode \in {"REAL", "INMEMORY"}
  /\ at = "called"
  /\ offers = 0 /\ closed = FALSE
  /\ failNext = FALSE
  /\ failuresBeforeSuccess = 0 /\ countRead = 0
  /\ requests = [t \in Transport |-> 0]
  /\ asked = [t \in Transport |-> 0]
  /\ failed = [t \in Transport |-> 0]
  /\ spent = 0

-----------------------------------------------------------------------------
(***************************************************************************)
(* RealAeronNotificationPublisher.                                         *)
(***************************************************************************)
Entering(transport) == phase = transport /\ at = "called" /\ AttemptsLeft

StartOffers ==
  /\ Entering("aeron") /\ mode = "REAL"
  /\ at' = "offering"
  /\ offers' = 0
  /\ UNCHANGED <<publisherVars, mode, closed, spent, simulationVars>>

Offering == at = "offering" /\ offers < MaxOfferAttempts

OfferSent == Offering /\ spent' = spent + 1

\* Mutant: the loop goes on after an offer that was accepted.
OfferAcceptedGoesOn ==
  /\ OfferSent /\ ~closed
  /\ AeronAccepts
  /\ offers' = offers + 1
  /\ UNCHANGED <<mode, at, closed, simulationVars>>

OfferAccepted ==
  /\ OfferSent /\ ~closed
  /\ AeronAccepts
  /\ at' = "called"
  /\ UNCHANGED <<mode, offers, closed, simulationVars>>

\* Mutant: a publication that is not connected is offered to until it is.
OfferRefusedAgain ==
  /\ Offering
  /\ UNCHANGED <<publisherVars, mode, at, offerVars, simulationVars>>

\* A result that is not positive, whatever it says: back pressure, an
\* administrative action, no subscriber, closed.
OfferRefused ==
  /\ OfferSent
  /\ offers' = offers + 1
  /\ UNCHANGED <<publisherVars, mode, at, closed, simulationVars>>

\* offer refuses a message longer than the longest that Aeron carries.
OfferThrows ==
  /\ OfferSent /\ ~closed
  /\ AttemptFails
  /\ at' = "called"
  /\ UNCHANGED <<mode, offers, closed, simulationVars>>

OffersExhausted ==
  /\ at = "offering" /\ offers = MaxOfferAttempts
  /\ AttemptFails
  /\ at' = "called"
  /\ UNCHANGED <<mode, offerVars, simulationVars>>

\* close(), by the shutdown hook's thread.
ClosePublication ==
  /\ mode = "REAL" /\ ~closed
  /\ closed' = TRUE
  /\ UNCHANGED <<publisherVars, mode, at, offers, spent, simulationVars>>

-----------------------------------------------------------------------------
(***************************************************************************)
(* AeronNotificationPublisher.                                             *)
(***************************************************************************)
SimulatedAeron == Entering("aeron") /\ mode = "INMEMORY"

AeronPasses ==
  /\ SimulatedAeron /\ ~failNext
  /\ AeronAccepts
  /\ UNCHANGED <<mode, at, offerVars, simulationVars>>

AeronTests ==
  /\ SimulatedAeron /\ failNext
  /\ at' = "failing"
  /\ UNCHANGED <<publisherVars, mode, offerVars, simulationVars>>

AeronResets ==
  /\ at = "failing"
  /\ failNext' = FALSE
  /\ failed' = [failed EXCEPT !["aeron"] = @ + 1]
  /\ AttemptFails
  /\ at' = "called"
  /\ UNCHANGED <<mode, offerVars, failuresBeforeSuccess, countRead, requests, asked>>

-----------------------------------------------------------------------------
(***************************************************************************)
(* KafkaNotificationPublisher.                                             *)
(***************************************************************************)
KafkaPasses ==
  /\ Entering("kafka") /\ failuresBeforeSuccess <= 0
  /\ KafkaAccepts
  /\ UNCHANGED <<mode, at, offerVars, simulationVars>>

KafkaTests ==
  /\ Entering("kafka") /\ failuresBeforeSuccess > 0
  /\ at' = "decrementing"
  /\ UNCHANGED <<publisherVars, mode, offerVars, simulationVars>>

KafkaReads ==
  /\ at = "decrementing"
  /\ countRead' = failuresBeforeSuccess
  /\ at' = "writing"
  /\ UNCHANGED <<publisherVars, mode, offerVars, failNext, failuresBeforeSuccess,
                 requests, asked, failed>>

\* Mutant: the failures are not counted down.
KafkaKeepsCount ==
  /\ at = "writing"
  /\ countRead' = 0
  /\ failed' = [failed EXCEPT !["kafka"] = @ + 1]
  /\ AttemptFails
  /\ at' = "called"
  /\ UNCHANGED <<mode, offerVars, failNext, failuresBeforeSuccess, requests, asked>>

KafkaWrites ==
  /\ at = "writing"
  /\ failuresBeforeSuccess' = countRead - 1
  /\ countRead' = 0
  /\ failed' = [failed EXCEPT !["kafka"] = @ + 1]
  /\ AttemptFails
  /\ at' = "called"
  /\ UNCHANGED <<mode, offerVars, failNext, requests, asked>>

-----------------------------------------------------------------------------
(***************************************************************************)
(* The requests, at any time.                                              *)
(***************************************************************************)
Request(transport, failures) ==
  /\ requests[transport] < MaxRequests
  /\ requests' = [requests EXCEPT ![transport] = @ + 1]
  /\ asked' = [asked EXCEPT ![transport] = @ + failures]
  /\ UNCHANGED <<publisherVars, mode, at, offerVars, countRead, failed>>

FailNextPublish ==
  /\ mode = "INMEMORY"
  /\ Request("aeron", 1)
  /\ failNext' = TRUE
  /\ UNCHANGED failuresBeforeSuccess

FailTimes(failures) ==
  /\ Request("kafka", failures)
  /\ failuresBeforeSuccess' = failures
  /\ UNCHANGED failNext

-----------------------------------------------------------------------------
WiredCall ==
  /\ Call
  /\ spent' = 0
  /\ UNCHANGED <<mode, at, offers, closed, simulationVars>>

Leave ==
  /\ AeronExhausted \/ KafkaExhausted \/ Return
  /\ UNCHANGED <<mode, at, offerVars, simulationVars>>

WiredStep ==
  \/ StartOffers \/ OfferAccepted \/ OfferRefused \/ OfferThrows \/ OffersExhausted
  \/ AeronPasses \/ AeronTests \/ AeronResets
  \/ KafkaPasses \/ KafkaTests \/ KafkaReads \/ KafkaWrites
  \/ Leave

WiredNext ==
  \/ WiredCall
  \/ WiredStep
  \/ ClosePublication
  \/ FailNextPublish
  \/ \E failures \in FailureCounts : FailTimes(failures)

WiredSpec == WiredInit /\ [][WiredNext]_wiredVars

\* The publishing thread goes on; the others need not.
WiredFairSpec == WiredSpec /\ WF_wiredVars(WiredStep)

-----------------------------------------------------------------------------
(***************************************************************************)
(* The transports are what RetryingPublisher takes them for: an attempt    *)
(* either carries the notification or throws and leaves it uncarried, and  *)
(* every attempt ends, also on a publication that is closed or has no      *)
(* subscriber, and however requests for failures fall into it.             *)
(***************************************************************************)
ImplementsPublisher == FairSpec

(***************************************************************************)
(* One call of publish makes at most (MaxRetries + 1) * MaxOfferAttempts   *)
(* offers: with main's 2 and 1000, a subscriber that is gone holds the     *)
(* main loop for three thousand offers and no longer.                      *)
(***************************************************************************)
OfferBudget == pending # None /\ spent > 0 => spent <= (MaxRetries + 1) * MaxOfferAttempts

(***************************************************************************)
(* The simulations produce only failures that were asked for, with those   *)
(* still to come included: a request that falls between the steps of       *)
(* publish can be lost, and with it the failures it asked for, but none is *)
(* counted down twice or made up.                                          *)
(***************************************************************************)
AtLeast(least, n) == IF n > least THEN n ELSE least

ToCome ==
  CASE at = "decrementing" -> AtLeast(1, failuresBeforeSuccess)
    [] at = "writing" -> AtLeast(1, countRead)
    [] OTHER -> AtLeast(0, failuresBeforeSuccess)

InjectedFailuresWereAsked ==
  /\ failed["aeron"] + (IF failNext \/ at = "failing" THEN 1 ELSE 0) <= asked["aeron"]
  /\ failed["kafka"] + ToCome <= asked["kafka"]
=============================================================================
