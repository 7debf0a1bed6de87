--------------------------- MODULE PublisherProofs ---------------------------
(***************************************************************************)
(* Theorems about PublisherCaller: what RetryingStateChangePublisher keeps *)
(* for every maxRetries, every set of keys and payloads, every order of    *)
(* calls and every way the transports answer.  Then about WiredPublisher,  *)
(* whose transports answer so: for any number of offers and of requests    *)
(* for failures.                                                           *)
(***************************************************************************)
EXTENDS WiredPublisher, RetryingPublisherProofs

(***************************************************************************)
(* MirrorInv is inductive: it holds initially and each action keeps it.    *)
(***************************************************************************)
LEMMA MirrorInductive == Spec => []MirrorInv
<1>1. Init => MirrorInv
  BY MirrorInit DEF Init
<1>2. MirrorInv /\ [Next]_publisherVars => MirrorInv'
  <2> SUFFICES ASSUME MirrorInv, [Next]_publisherVars PROVE MirrorInv'
    OBVIOUS
  <2>1. CASE Call
    <3>1. PICK n \in StateChangeNotification : Publish(n)
      BY <2>1 DEF Call
    <3> QED
      BY <3>1, MirrorPublish
  <2>2. CASE PublisherStep
    BY <2>2, MirrorPublisherStep
  <2>3. CASE Return
    BY <2>3, MirrorConclude DEF Return
  <2>4. CASE UNCHANGED publisherVars
    BY <2>4, MirrorIdle
  <2> QED
    BY <2>1, <2>2, <2>3, <2>4 DEF Next
<1> QED
  BY <1>1, <1>2, PTL DEF Spec

(***************************************************************************)
(* Type correctness of the publisher: in particular the attempt counter    *)
(* never exceeds maxRetries + 1, and a notification is held exactly while  *)
(* a call is running.                                                      *)
(***************************************************************************)
THEOREM PublisherTypeCorrect == Spec => []PublisherTypeOK
<1>1. MirrorInv => PublisherTypeOK
  BY DEF MirrorInv
<1> QED
  BY <1>1, MirrorInductive, PTL

(***************************************************************************)
(* Kafka and the dead letters together mirror Aeron's stream: each         *)
(* notification Aeron carried is on exactly one of them, in Aeron's order, *)
(* and nothing else is.                                                    *)
(***************************************************************************)
THEOREM KafkaAlwaysMirrorsAeron == Spec => []KafkaMirrorsAeron
<1>1. MirrorInv => KafkaMirrorsAeron
  BY DEF MirrorInv
<1> QED
  BY <1>1, MirrorInductive, PTL

(***************************************************************************)
(* Every behaviour of the retry loops is one of DualDelivery: a step is a  *)
(* step of the abstract delivery or leaves it unchanged.                   *)
(***************************************************************************)
THEOREM RetryingImplementsDelivery == Spec => Delivery!Spec
<1>1. Init => Delivery!Init
  BY DEF Init, PublisherInit, Delivery!Init, StageOf
<1>2. PublisherTypeOK /\ [Next]_publisherVars => [Delivery!Next]_(Delivery!deliveryVars)
  <2> SUFFICES ASSUME PublisherTypeOK, [Next]_publisherVars
               PROVE  [Delivery!Next]_(Delivery!deliveryVars)
    OBVIOUS
  <2> USE DEF StageOf, Delivery!Next, Delivery!Advance, Delivery!deliveryVars
  <2>1. CASE Call
    <3>1. PICK n \in StateChangeNotification : Publish(n)
      BY <2>1 DEF Call
    <3>2. Delivery!Begin
      BY <3>1 DEF Publish, Delivery!Begin
    <3> QED
      BY <3>2
  <2>2. CASE AeronAccepts
    <3>1. Delivery!Carry
      BY <2>2 DEF AeronAccepts, Delivery!Carry
    <3> QED
      BY <3>1
  <2>3. CASE KafkaAccepts
    <3>1. Delivery!Settle
      BY <2>3 DEF KafkaAccepts, Delivery!Settle
    <3> QED
      BY <3>1
  <2>4. CASE AttemptFails
    BY <2>4 DEF AttemptFails
  <2>5. CASE AeronExhausted
    <3>1. Delivery!Refuse
      BY <2>5 DEF AeronExhausted, Delivery!Refuse
    <3> QED
      BY <3>1
  <2>6. CASE KafkaExhausted
    <3>1. Delivery!Settle
      BY <2>6 DEF KafkaExhausted, Delivery!Settle
    <3> QED
      BY <3>1
  <2>7. CASE Return
    <3>1. Delivery!End
      BY <2>7 DEF Return, Conclude, Delivery!End
    <3> QED
      BY <3>1
  <2>8. CASE UNCHANGED publisherVars
    BY <2>8 DEF publisherVars
  <2> QED
    BY <2>1, <2>2, <2>3, <2>4, <2>5, <2>6, <2>7, <2>8 DEF Next, PublisherStep
<1> QED
  BY <1>1, <1>2, PublisherTypeCorrect, PTL DEF Spec, Delivery!Spec

-----------------------------------------------------------------------------
(***************************************************************************)
(* The publisher over the transports that main wires.                      *)
(***************************************************************************)
\* What a step outside the retry loops' own is to the publisher: nothing.
LEMMA WiredStepIsPublisherStep ==
  ASSUME WiredStep
  PROVE  PublisherStep \/ Return \/ UNCHANGED publisherVars
<1>1. CASE StartOffers \/ OfferRefused \/ AeronTests \/ KafkaTests \/ KafkaReads
  BY <1>1 DEF StartOffers, OfferRefused, AeronTests, KafkaTests, KafkaReads
<1>2. CASE OfferAccepted \/ AeronPasses
  BY <1>2 DEF OfferAccepted, AeronPasses, PublisherStep
<1>3. CASE OfferThrows \/ OffersExhausted \/ AeronResets \/ KafkaWrites
  BY <1>3 DEF OfferThrows, OffersExhausted, AeronResets, KafkaWrites, PublisherStep
<1>4. CASE KafkaPasses
  BY <1>4 DEF KafkaPasses, PublisherStep
<1>5. CASE Leave
  BY <1>5 DEF Leave, PublisherStep
<1> QED
  BY <1>1, <1>2, <1>3, <1>4, <1>5 DEF WiredStep

LEMMA WiredNextIsPublisherNext ==
  ASSUME [WiredNext]_wiredVars
  PROVE  [Next]_publisherVars
<1>1. CASE WiredCall
  BY <1>1 DEF WiredCall, Next
<1>2. CASE WiredStep
  BY <1>2, WiredStepIsPublisherStep DEF Next
<1>3. CASE ClosePublication \/ FailNextPublish
             \/ \E failures \in FailureCounts : FailTimes(failures)
  BY <1>3 DEF ClosePublication, FailNextPublish, FailTimes, Request
<1>4. CASE UNCHANGED wiredVars
  BY <1>4 DEF wiredVars
<1> QED
  BY <1>1, <1>2, <1>3, <1>4 DEF WiredNext

(***************************************************************************)
(* The wired transports implement the attempts of RetryingPublisher: every *)
(* step is a step of the retry loops or leaves what they see as it was.    *)
(* This is the safety part of ImplementsPublisher.                         *)
(***************************************************************************)
THEOREM WiredImplementsPublisher == WiredSpec => Spec
<1>1. WiredInit => Init
  BY DEF WiredInit
<1> QED
  BY <1>1, WiredNextIsPublisherNext, PTL DEF WiredSpec, Spec

(***************************************************************************)
(* So what is proved of the retry loops holds over the real publication    *)
(* and over the simulated ones, closed, refused or failing on request: the *)
(* notifications Aeron carried are shared out between Kafka and the dead   *)
(* letters, in order.                                                      *)
(***************************************************************************)
THEOREM WiredKafkaMirrorsAeron == WiredSpec => []KafkaMirrorsAeron
  BY WiredImplementsPublisher, KafkaAlwaysMirrorsAeron, PTL

-----------------------------------------------------------------------------
LEMMA WiredInitTyped == WiredInit => WiredTypeOK
<1> SUFFICES ASSUME WiredInit PROVE WiredTypeOK
  OBVIOUS
<1>1. 0 \in 0 .. MaxRequests /\ 0 \in 0 .. MaxOfferAttempts
  BY WiredAssumption
<1>2. /\ requests \in [Transport -> 0 .. MaxRequests]
      /\ asked \in [Transport -> Nat]
      /\ failed \in [Transport -> Nat]
  BY <1>1 DEF WiredInit
<1>3. 0 \in Int /\ 0 >= -1
  OBVIOUS
<1> QED
  BY <1>1, <1>2, <1>3 DEF WiredInit, WiredTypeOK

LEMMA RequestTyped ==
  ASSUME WiredTypeOK, NEW t \in Transport, NEW n \in Nat, Request(t, n)
  PROVE  /\ requests' \in [Transport -> 0 .. MaxRequests]
         /\ asked' \in [Transport -> Nat]
         /\ failed' \in [Transport -> Nat]
  BY WiredAssumption DEF WiredTypeOK, Request

LEMMA WiredStepTyped ==
  ASSUME WiredTypeOK, [WiredNext]_wiredVars
  PROVE  WiredTypeOK'
<1> USE WiredAssumption
    DEF WiredTypeOK, Transport, simulationVars, offerVars, publisherVars,
        Entering, Offering, OfferSent, AttemptsLeft
<1>1. CASE WiredCall
  BY <1>1 DEF WiredCall, Call, Publish
<1>2. CASE StartOffers
  BY <1>2 DEF StartOffers
<1>3. CASE OfferAccepted
  BY <1>3 DEF OfferAccepted
<1>4. CASE OfferRefused
  BY <1>4 DEF OfferRefused
<1>5. CASE OfferThrows
  BY <1>5 DEF OfferThrows
<1>6. CASE OffersExhausted
  BY <1>6 DEF OffersExhausted
<1>7. CASE ClosePublication
  BY <1>7 DEF ClosePublication
<1>8. CASE AeronPasses \/ KafkaPasses
  BY <1>8 DEF AeronPasses, KafkaPasses, SimulatedAeron
<1>9. CASE AeronTests \/ KafkaTests \/ KafkaReads
  BY <1>9 DEF AeronTests, KafkaTests, KafkaReads, SimulatedAeron
<1>10. CASE AeronResets
  <2>1. failed' \in [Transport -> Nat]
    BY <1>10 DEF AeronResets
  <2>2. failNext' \in BOOLEAN
    BY <1>10 DEF AeronResets
  <2> QED
    BY <1>10, <2>1, <2>2 DEF AeronResets
<1>11. CASE KafkaWrites
  <2>1. failed' \in [Transport -> Nat]
    BY <1>11 DEF KafkaWrites
  <2>2. failuresBeforeSuccess' \in Int /\ failuresBeforeSuccess' >= -1
    BY <1>11 DEF KafkaWrites
  <2> QED
    BY <1>11, <2>1, <2>2 DEF KafkaWrites
<1>12. CASE FailNextPublish
  BY <1>12, RequestTyped DEF FailNextPublish, Request
<1>13. ASSUME NEW failures \in FailureCounts, FailTimes(failures)
       PROVE  WiredTypeOK'
  BY <1>13, RequestTyped DEF FailTimes, Request
<1>14. CASE Leave
  BY <1>14 DEF Leave, AeronExhausted, KafkaExhausted, Return, Conclude, AttemptsLeft
<1>15. CASE UNCHANGED wiredVars
  BY <1>15 DEF wiredVars
<1> QED
  BY <1>1, <1>2, <1>3, <1>4, <1>5, <1>6, <1>7, <1>8, <1>9, <1>10, <1>11, <1>12,
     <1>13, <1>14, <1>15 DEF WiredNext, WiredStep

(***************************************************************************)
(* The variables of the wired publisher keep their types: publish of a     *)
(* transport is entered only with attempts left, and the simulation's      *)
(* counter of failures never falls below -1.                               *)
(***************************************************************************)
THEOREM WiredTypeCorrect == WiredSpec => []WiredTypeOK
  BY WiredInitTyped, WiredStepTyped, PTL DEF WiredSpec

\* A request adds to what was asked of its transport, and nothing else.
LEMMA RequestCounts ==
  ASSUME WiredTypeOK, NEW t \in Transport, NEW n \in Nat, Request(t, n)
  PROVE  /\ failed' = failed
         /\ asked'[t] = asked[t] + n
         /\ \A u \in Transport \ {t} : asked'[u] = asked[u]
  BY DEF WiredTypeOK, Request

LEMMA AskedStep ==
  ASSUME WiredTypeOK, InjectedFailuresWereAsked, [WiredNext]_wiredVars
  PROVE  InjectedFailuresWereAsked'
<1> USE DEF InjectedFailuresWereAsked, ToCome, AtLeast
<1>0. /\ asked["aeron"] \in Nat /\ asked["kafka"] \in Nat
      /\ failed["aeron"] \in Nat /\ failed["kafka"] \in Nat
      /\ failuresBeforeSuccess \in Int /\ countRead \in Nat
  BY DEF WiredTypeOK, Transport
<1> DEFINE Between == {"called", "offering"}
<1>1. CASE /\ UNCHANGED <<failNext, failuresBeforeSuccess, asked, failed, countRead>>
           /\ at = at' \/ (at \in Between /\ at' \in Between)
  BY <1>0, <1>1
<1>2. CASE AeronTests
  BY <1>0, <1>2 DEF AeronTests, Entering, SimulatedAeron, simulationVars
<1>3. CASE AeronResets
  <2>1. failed'["aeron"] = failed["aeron"] + 1 /\ failed'["kafka"] = failed["kafka"]
    BY <1>3 DEF AeronResets, WiredTypeOK, Transport
  <2> QED
    BY <1>0, <1>3, <2>1 DEF AeronResets
<1>4. CASE KafkaTests
  BY <1>0, <1>4 DEF KafkaTests, Entering, simulationVars
<1>5. CASE KafkaReads
  BY <1>0, <1>5 DEF KafkaReads
<1>6. CASE KafkaWrites
  <2>1. failed'["kafka"] = failed["kafka"] + 1 /\ failed'["aeron"] = failed["aeron"]
    BY <1>6 DEF KafkaWrites, WiredTypeOK, Transport
  <2> QED
    BY <1>0, <1>6, <2>1 DEF KafkaWrites
<1>7. CASE FailNextPublish
  <2>1. failed' = failed /\ asked'["aeron"] = asked["aeron"] + 1
          /\ asked'["kafka"] = asked["kafka"]
    BY <1>7, RequestCounts DEF FailNextPublish, Transport
  <2>2. UNCHANGED <<at, countRead, failuresBeforeSuccess>>
    BY <1>7 DEF FailNextPublish, Request
  <2> QED
    BY <1>0, <2>1, <2>2
<1>8. ASSUME NEW failures \in FailureCounts, FailTimes(failures)
      PROVE  InjectedFailuresWereAsked'
  <2>1. failures \in Nat
    BY WiredAssumption
  <2>2. failed' = failed /\ asked'["kafka"] = asked["kafka"] + failures
          /\ asked'["aeron"] = asked["aeron"]
    BY <1>8, <2>1, RequestCounts DEF FailTimes, Transport
  <2>3. UNCHANGED <<at, countRead, failNext>> /\ failuresBeforeSuccess' = failures
    BY <1>8 DEF FailTimes, Request
  <2> QED
    BY <1>0, <2>1, <2>2, <2>3
<1>9. CASE WiredCall \/ Leave \/ ClosePublication \/ UNCHANGED wiredVars
  BY <1>1, <1>9 DEF WiredCall, Leave, ClosePublication, wiredVars, simulationVars
<1>10. CASE StartOffers \/ OfferAccepted \/ OfferRefused \/ OfferThrows \/ OffersExhausted
  BY <1>1, <1>10 DEF StartOffers, OfferAccepted, OfferRefused, OfferThrows,
       OffersExhausted, Entering, OfferSent, Offering, simulationVars
<1>11. CASE AeronPasses \/ KafkaPasses
  BY <1>1, <1>11 DEF AeronPasses, KafkaPasses, simulationVars
<1> QED
  BY <1>2, <1>3, <1>4, <1>5, <1>6, <1>7, <1>8, <1>9, <1>10, <1>11 DEF WiredNext, WiredStep

(***************************************************************************)
(* The failures the simulations have produced, and those still to come,    *)
(* were asked for, wherever the requests fall between the steps of         *)
(* publish.                                                                *)
(***************************************************************************)
THEOREM FailuresWereAsked == WiredSpec => []InjectedFailuresWereAsked
<1>1. WiredInit => InjectedFailuresWereAsked
  BY DEF WiredInit, InjectedFailuresWereAsked, ToCome, AtLeast, Transport
<1> QED
  BY <1>1, WiredTypeCorrect, AskedStep, PTL DEF WiredSpec

-----------------------------------------------------------------------------
(***************************************************************************)
(* Why the offers of a call are bounded: each attempt that is over made at *)
(* most MaxOfferAttempts of them, and the present one as many as its loop  *)
(* has counted.                                                            *)
(***************************************************************************)
Budget(attempts) == attempts * MaxOfferAttempts

SpentByAttempts ==
  /\ phase = "aeron" /\ at # "offering" => spent <= Budget(attempt)
  /\ phase = "aeron" /\ at = "offering" => spent <= Budget(attempt) + offers
  /\ phase \notin {"idle", "aeron"} => spent = 0 \/ spent <= Budget(MaxRetries + 1)

\* Budgets of whole numbers of attempts.
LEMMA BudgetOfOneMore ==
  ASSUME NEW a \in Nat
  PROVE  Budget(a) \in Nat /\ Budget(a + 1) = Budget(a) + MaxOfferAttempts
  BY WiredAssumption DEF Budget

LEMMA BudgetGrows ==
  ASSUME NEW a \in Nat, a <= MaxRetries
  PROVE  Budget(a) + MaxOfferAttempts <= Budget(MaxRetries + 1)
<1>1. MaxRetries - a \in Nat /\ MaxRetries \in Nat
  BY MaxRetriesAssumption
<1>2. Budget(MaxRetries + 1) = Budget(a) + MaxOfferAttempts + Budget(MaxRetries - a)
  BY <1>1, WiredAssumption DEF Budget
<1>3. Budget(MaxRetries - a) \in Nat /\ Budget(a) \in Nat
  BY <1>1, WiredAssumption DEF Budget
<1> QED
  BY <1>1, <1>2, <1>3, WiredAssumption, BudgetOfOneMore

\* The publisher's types hold of the wired one, which it implements.
LEMMA WiredPublisherTyped == WiredSpec => []PublisherTypeOK
  BY WiredImplementsPublisher, PublisherTypeCorrect, PTL

LEMMA SpentStep ==
  ASSUME WiredTypeOK, PublisherTypeOK, SpentByAttempts, [WiredNext]_wiredVars
  PROVE  SpentByAttempts'
<1> USE DEF SpentByAttempts
<1>0. /\ attempt \in Nat /\ spent \in Nat /\ offers \in Nat /\ offers <= MaxOfferAttempts
      /\ MaxOfferAttempts \in Nat /\ MaxRetries \in Int
      /\ attempt > 0 => attempt <= MaxRetries + 1
      /\ at # "called" => phase \in {"aeron", "kafka"} /\ attempt <= MaxRetries
      /\ at \in {"offering", "failing"} => phase = "aeron"
  BY WiredAssumption, MaxRetriesAssumption
  DEF WiredTypeOK, PublisherTypeOK, AttemptsLeft
<1>1. /\ Budget(attempt) \in Nat
      /\ Budget(attempt + 1) = Budget(attempt) + MaxOfferAttempts
      /\ attempt <= MaxRetries =>
           Budget(attempt) + MaxOfferAttempts <= Budget(MaxRetries + 1)
      /\ attempt = MaxRetries + 1 => Budget(attempt) = Budget(MaxRetries + 1)
      /\ attempt = 0 => Budget(attempt) = 0
  <2>1. Budget(0) = 0
    BY <1>0 DEF Budget
  <2> QED
    BY <1>0, <2>1, BudgetOfOneMore, BudgetGrows
<1>2. Budget(MaxRetries + 1)' = Budget(MaxRetries + 1)
        /\ (attempt' = attempt => Budget(attempt)' = Budget(attempt))
        /\ (attempt' = attempt + 1 => Budget(attempt)' = Budget(attempt + 1))
  BY DEF Budget
<1>3. CASE WiredCall
  BY <1>0, <1>1, <1>2, <1>3 DEF WiredCall, Call, Publish
<1>4. CASE StartOffers
  BY <1>0, <1>1, <1>2, <1>4 DEF StartOffers, Entering, publisherVars
<1>5. CASE OfferRefused
  BY <1>0, <1>1, <1>2, <1>5 DEF OfferRefused, OfferSent, Offering, publisherVars
<1>6. CASE OfferAccepted
  <2>1. /\ at = "offering" /\ offers < MaxOfferAttempts /\ spent' = spent + 1
        /\ phase' = "kafka"
    BY <1>6 DEF OfferAccepted, OfferSent, Offering, AeronAccepts
  <2>2. spent <= Budget(attempt) + offers /\ attempt <= MaxRetries
    BY <1>0, <2>1
  <2>3. Budget(MaxRetries + 1) \in Int
    BY <1>0 DEF Budget
  <2>4. spent' <= Budget(MaxRetries + 1)
    BY <1>0, <1>1, <2>1, <2>2, <2>3
  <2> QED
    BY <1>2, <2>1, <2>4
<1>7. CASE OfferThrows
  BY <1>0, <1>1, <1>2, <1>7 DEF OfferThrows, OfferSent, Offering, AttemptFails, WiredTypeOK
<1>8. CASE OffersExhausted
  BY <1>0, <1>1, <1>2, <1>8 DEF OffersExhausted, offerVars, AttemptFails, WiredTypeOK
<1>9. CASE AeronResets
  BY <1>0, <1>1, <1>2, <1>9 DEF AeronResets, offerVars, AttemptFails, WiredTypeOK
<1>10. CASE AeronPasses
  <2>1. /\ phase = "aeron" /\ at = "called" /\ attempt <= MaxRetries
        /\ spent' = spent /\ phase' = "kafka"
    BY <1>10
    DEF AeronPasses, SimulatedAeron, Entering, offerVars, AeronAccepts, AttemptsLeft
  <2>2. spent <= Budget(attempt)
    BY <2>1
  <2>3. Budget(MaxRetries + 1) \in Int
    BY <1>0 DEF Budget
  <2>4. spent' <= Budget(MaxRetries + 1)
    BY <1>0, <1>1, <2>1, <2>2, <2>3
  <2> QED
    BY <1>2, <2>1, <2>4
<1>11. CASE KafkaPasses
  BY <1>0, <1>1, <1>2, <1>11 DEF KafkaPasses, Entering, offerVars, KafkaAccepts
<1>12. CASE KafkaWrites
  BY <1>0, <1>1, <1>2, <1>12 DEF KafkaWrites, offerVars, AttemptFails, WiredTypeOK
<1>13. CASE AeronTests \/ KafkaTests \/ KafkaReads
  BY <1>0, <1>1, <1>2, <1>13
  DEF AeronTests, SimulatedAeron, Entering, KafkaTests, KafkaReads, offerVars,
      publisherVars, WiredTypeOK
<1>14. CASE Leave
  <2>1. CASE AeronExhausted
    BY <1>0, <1>1, <1>2, <1>14, <2>1 DEF Leave, AeronExhausted, AttemptsLeft, offerVars
  <2>2. CASE KafkaExhausted
    BY <1>0, <1>1, <1>2, <1>14, <2>2 DEF Leave, KafkaExhausted, offerVars
  <2>3. CASE Return
    BY <1>0, <1>1, <1>2, <1>14, <2>3 DEF Leave, Return, Conclude, offerVars
  <2> QED
    BY <1>14, <2>1, <2>2, <2>3 DEF Leave
<1>15. CASE ClosePublication \/ FailNextPublish \/ UNCHANGED wiredVars
              \/ \E failures \in FailureCounts : FailTimes(failures)
  BY <1>0, <1>1, <1>2, <1>15
  DEF ClosePublication, FailNextPublish, FailTimes, Request, wiredVars, offerVars,
      publisherVars
<1> QED
  BY <1>3, <1>4, <1>5, <1>6, <1>7, <1>8, <1>9, <1>10, <1>11, <1>12, <1>13, <1>14,
     <1>15 DEF WiredNext, WiredStep

(***************************************************************************)
(* One call of publish makes at most (MaxRetries + 1) * MaxOfferAttempts   *)
(* offers, whatever the publication answers.                               *)
(***************************************************************************)
THEOREM OffersBounded == WiredSpec => []OfferBudget
<1>1. WiredInit => SpentByAttempts
  BY DEF WiredInit, Init, PublisherInit, SpentByAttempts
<1>2. WiredTypeOK /\ PublisherTypeOK /\ SpentByAttempts => OfferBudget
  <2> SUFFICES ASSUME WiredTypeOK, PublisherTypeOK, SpentByAttempts,
                      pending # None, spent > 0
               PROVE  spent <= Budget(MaxRetries + 1)
    BY DEF OfferBudget, Budget
  <2>1. /\ attempt \in Nat /\ spent \in Nat /\ offers \in 0 .. MaxOfferAttempts
        /\ attempt > 0 => attempt <= MaxRetries + 1
        /\ at # "called" => attempt <= MaxRetries
        /\ phase # "idle"
    BY DEF WiredTypeOK, PublisherTypeOK, AttemptsLeft
  <2>2. MaxRetries \in Int /\ MaxOfferAttempts \in Nat /\ Budget(0) = 0
    BY MaxRetriesAssumption, WiredAssumption DEF Budget
  <2>3. Budget(attempt) \in Nat
    BY <2>1, BudgetOfOneMore
  <2>4. CASE phase # "aeron"
    BY <2>1, <2>4 DEF SpentByAttempts
  <2>5. CASE phase = "aeron" /\ attempt <= MaxRetries
    <3>1. spent <= Budget(attempt) + MaxOfferAttempts
      BY <2>1, <2>2, <2>3, <2>5 DEF SpentByAttempts
    <3>2. Budget(attempt) + MaxOfferAttempts <= Budget(MaxRetries + 1)
      BY <2>1, <2>5, BudgetGrows
    <3>3. Budget(MaxRetries + 1) \in Int
      BY <2>2 DEF Budget
    <3> QED
      BY <2>1, <2>2, <2>3, <3>1, <3>2, <3>3
  <2>6. CASE phase = "aeron" /\ ~(attempt <= MaxRetries)
    BY <2>1, <2>2, <2>6 DEF SpentByAttempts
  <2> QED
    BY <2>4, <2>5, <2>6
<1> QED
  BY <1>1, <1>2, SpentStep, WiredTypeCorrect, WiredPublisherTyped, PTL DEF WiredSpec
=============================================================================
