----------------------- MODULE RetryingPublisherProofs -----------------------
(***************************************************************************)
(* Facts about the actions of RetryingPublisher, whoever calls it: what    *)
(* each of them preserves.  PublisherProofs and StoreProofs build on them. *)
(***************************************************************************)
EXTENDS RetryingPublisher, TLAPS

(***************************************************************************)
(* The publisher starts well typed, and a call, each step of the retry     *)
(* loops and a return keep it so.                                          *)
(***************************************************************************)
LEMMA PublisherInitTyped == PublisherInit => PublisherTypeOK
  BY DEF PublisherInit, PublisherTypeOK, PublisherPhase

LEMMA PublishTyped ==
  ASSUME PublisherTypeOK, NEW n \in StateChangeNotification, Publish(n)
  PROVE  PublisherTypeOK'
  BY NoneAssumption DEF PublisherTypeOK, PublisherPhase, Publish

LEMMA PublisherStepTyped ==
  ASSUME PublisherTypeOK, PublisherStep
  PROVE  PublisherTypeOK'
<1> USE MaxRetriesAssumption DEF PublisherTypeOK, PublisherPhase
<1>1. phase \in {"aeron", "kafka"} => pending \in StateChangeNotification
  OBVIOUS
<1>2. CASE AeronAccepts
  BY <1>1, <1>2 DEF AeronAccepts
<1>3. CASE KafkaAccepts
  BY <1>1, <1>3 DEF KafkaAccepts
<1>4. CASE AttemptFails
  BY <1>4 DEF AttemptFails, AttemptsLeft
<1>5. CASE AeronExhausted
  BY <1>5 DEF AeronExhausted
<1>6. CASE KafkaExhausted
  BY <1>1, <1>6 DEF KafkaExhausted
<1> QED
  BY <1>2, <1>3, <1>4, <1>5, <1>6 DEF PublisherStep

LEMMA ConcludeTyped ==
  ASSUME PublisherTypeOK, NEW outcome \in {"returned", "threw"}, Conclude(outcome)
  PROVE  PublisherTypeOK'
  BY DEF PublisherTypeOK, PublisherPhase, Conclude

LEMMA PublisherIdleTyped ==
  ASSUME PublisherTypeOK, UNCHANGED publisherVars
  PROVE  PublisherTypeOK'
  BY DEF PublisherTypeOK, publisherVars

(***************************************************************************)
(* Where the call stands before and after each step of the retry loops.    *)
(***************************************************************************)
LEMMA PublisherStepPhases ==
  ASSUME PublisherStep
  PROVE  /\ phase \in {"aeron", "kafka"}
         /\ phase' # "idle"
         /\ pending' = pending
  BY DEF PublisherStep, AeronAccepts, KafkaAccepts, AttemptFails,
         AeronExhausted, KafkaExhausted

-----------------------------------------------------------------------------
(***************************************************************************)
(* KafkaMirrorsAeron needs to know one thing more: while Kafka is tried,   *)
(* the last notification Aeron has carried is the one being published.     *)
(***************************************************************************)
PendingCarried ==
  phase = "kafka" =>
    /\ aeronOut # <<>>
    /\ aeronOut[Len(aeronOut)] = pending

MirrorInv == PublisherTypeOK /\ PendingCarried /\ KafkaMirrorsAeron

\* The matrix of KafkaMirrorsAeron, for two given placements.
Mirrors(f, g) ==
  /\ PlacedInOrder(f, kafkaOut)
  /\ PlacedInOrder(g, deadLetters)
  /\ Places(g) = (1 .. Settled) \ Places(f)

LEMMA MirrorInit == PublisherInit => MirrorInv
<1> SUFFICES ASSUME PublisherInit PROVE MirrorInv
  OBVIOUS
<1>1. PublisherTypeOK
  BY PublisherInitTyped
<1>2. PendingCarried
  BY DEF PublisherInit, PendingCarried
<1>3. /\ Settled = 0
      /\ DOMAIN kafkaOut = {}
      /\ DOMAIN deadLetters = {}
      /\ 1 .. Settled = {}
  BY DEF PublisherInit, Settled
<1> DEFINE f == [i \in {} |-> i]
<1>4. f \in [DOMAIN kafkaOut -> 1 .. Settled] /\ f \in [DOMAIN deadLetters -> 1 .. Settled]
  BY <1>3
<1>5. Mirrors(f, f)
  BY <1>3 DEF Mirrors, PlacedInOrder, Places
<1>6. KafkaMirrorsAeron
  BY <1>4, <1>5 DEF KafkaMirrorsAeron, Mirrors
<1> QED
  BY <1>1, <1>2, <1>6 DEF MirrorInv

\* A step that leaves Kafka's stream and the dead letters alone, and Aeron's
\* up to what was settled.
LEMMA MirrorKept ==
  ASSUME MirrorInv,
         kafkaOut' = kafkaOut, deadLetters' = deadLetters,
         Settled' = Settled,
         \A i \in 1 .. Settled : aeronOut'[i] = aeronOut[i]
  PROVE  KafkaMirrorsAeron'
<1>1. PICK f \in [DOMAIN kafkaOut -> 1 .. Settled],
           g \in [DOMAIN deadLetters -> 1 .. Settled] : Mirrors(f, g)
  BY DEF MirrorInv, KafkaMirrorsAeron, Mirrors
<1>2. /\ f \in [DOMAIN kafkaOut' -> 1 .. Settled']
      /\ g \in [DOMAIN deadLetters' -> 1 .. Settled']
  OBVIOUS
<1>3. Mirrors(f, g)'
  BY <1>1 DEF Mirrors, PlacedInOrder
<1> QED
  BY <1>2, <1>3 DEF KafkaMirrorsAeron, Mirrors

LEMMA MirrorAeronAccepts ==
  ASSUME MirrorInv, AeronAccepts
  PROVE  PendingCarried' /\ KafkaMirrorsAeron'
<1> USE DEF MirrorInv, PublisherTypeOK, PublisherPhase, AeronAccepts
<1>1. pending \in StateChangeNotification
  OBVIOUS
<1>2. /\ aeronOut' \in Seq(StateChangeNotification)
      /\ Len(aeronOut') = Len(aeronOut) + 1
      /\ aeronOut'[Len(aeronOut')] = pending
      /\ \A i \in 1 .. Len(aeronOut) : aeronOut'[i] = aeronOut[i]
  BY <1>1
<1>3. PendingCarried'
  BY <1>2 DEF PendingCarried
<1>4. Settled' = Settled /\ Settled = Len(aeronOut)
  BY <1>2 DEF Settled
<1>5. KafkaMirrorsAeron'
  BY <1>2, <1>4, MirrorKept
<1> QED
  BY <1>3, <1>5

\* A placement of out before Aeron's last notification extends to one of out
\* followed by that notification, and covers that one place more.
LEMMA PlacementExtends ==
  ASSUME aeronOut \in Seq(StateChangeNotification), aeronOut # <<>>,
         NEW out \in Seq(StateChangeNotification),
         NEW f \in [DOMAIN out -> 1 .. Len(aeronOut) - 1], PlacedInOrder(f, out),
         NEW longer, longer = Append(out, aeronOut[Len(aeronOut)])
  PROVE  \E h \in [DOMAIN longer -> 1 .. Len(aeronOut)] :
           /\ PlacedInOrder(h, longer)
           /\ Places(h) = Places(f) \cup {Len(aeronOut)}
<1> DEFINE n == Len(aeronOut)
           m == Len(out)
<1>1. /\ n \in Nat \ {0} /\ m \in Nat
      /\ DOMAIN out = 1 .. m
      /\ DOMAIN longer = 1 .. m + 1
      /\ longer[m + 1] = aeronOut[n]
      /\ \A j \in 1 .. m : longer[j] = out[j]
  OBVIOUS
<1>2. /\ DOMAIN f = 1 .. m
      /\ \A j \in 1 .. m : f[j] \in 1 .. n - 1
  BY <1>1
<1>3. PICK h : h = [j \in 1 .. m + 1 |-> IF j = m + 1 THEN n ELSE f[j]]
  OBVIOUS
<1>4. /\ DOMAIN h = 1 .. m + 1
      /\ \A j \in 1 .. m : h[j] = f[j]
      /\ h[m + 1] = n
      /\ h \in [DOMAIN longer -> 1 .. n]
  BY <1>1, <1>2, <1>3
<1>5. PlacedInOrder(h, longer)
  <2>1. \A j \in 1 .. m : out[j] = aeronOut[f[j]]
    BY <1>1 DEF PlacedInOrder
  <2>2. \A i, j \in 1 .. m : i < j => f[i] < f[j]
    BY <1>1 DEF PlacedInOrder
  <2>3. ASSUME NEW j \in 1 .. m + 1 PROVE longer[j] = aeronOut[h[j]]
    <3>1. CASE j = m + 1
      BY <1>1, <1>4, <3>1
    <3>2. CASE j \in 1 .. m
      BY <1>1, <1>4, <2>1, <3>2
    <3> QED
      BY <1>1, <3>1, <3>2
  <2>4. ASSUME NEW i \in 1 .. m + 1, NEW j \in 1 .. m + 1, i < j
        PROVE  h[i] < h[j]
    <3>1. i \in 1 .. m /\ h[i] = f[i] /\ f[i] < n
      BY <1>1, <1>2, <1>4, <2>4
    <3>2. CASE j = m + 1
      BY <1>4, <3>1, <3>2
    <3>3. CASE j \in 1 .. m
      BY <1>4, <2>2, <2>4, <3>1, <3>3
    <3> QED
      BY <1>1, <3>2, <3>3
  <2> QED
    BY <1>1, <2>3, <2>4 DEF PlacedInOrder
<1>6. Places(h) = Places(f) \cup {n}
  <2>1. \A j \in 1 .. m + 1 : j \in 1 .. m \/ j = m + 1
    BY <1>1
  <2>2. \A j \in 1 .. m : j \in 1 .. m + 1
    BY <1>1
  <2>3. m + 1 \in 1 .. m + 1
    BY <1>1
  <2> QED
    BY <1>2, <1>4, <2>1, <2>2, <2>3 DEF Places
<1> QED
  BY <1>4, <1>5, <1>6

\* What Kafka and the dead letters share while Kafka is tried.
LEMMA MirrorSettles ==
  ASSUME MirrorInv, phase = "kafka"
  PROVE  /\ aeronOut \in Seq(StateChangeNotification)
         /\ kafkaOut \in Seq(StateChangeNotification)
         /\ deadLetters \in Seq(StateChangeNotification)
         /\ aeronOut # <<>>
         /\ Len(aeronOut) \in Nat \ {0}
         /\ pending = aeronOut[Len(aeronOut)]
         /\ Settled = Len(aeronOut) - 1
  BY DEF MirrorInv, PublisherTypeOK, PendingCarried, Settled

\* Kafka takes the notification Aeron carried last.
LEMMA MirrorKafkaAccepts ==
  ASSUME MirrorInv, KafkaAccepts
  PROVE  PendingCarried' /\ KafkaMirrorsAeron'
<1>1. /\ phase = "kafka" /\ phase' = "returned"
      /\ aeronOut' = aeronOut /\ deadLetters' = deadLetters
      /\ kafkaOut' = Append(kafkaOut, pending)
  BY DEF KafkaAccepts
<1>2. Settled' = Len(aeronOut)
  BY <1>1 DEF Settled
<1>3. PICK f \in [DOMAIN kafkaOut -> 1 .. Settled],
           g \in [DOMAIN deadLetters -> 1 .. Settled] : Mirrors(f, g)
  BY DEF MirrorInv, KafkaMirrorsAeron, Mirrors
<1>4. PICK h \in [DOMAIN kafkaOut' -> 1 .. Len(aeronOut)] :
        /\ PlacedInOrder(h, kafkaOut')
        /\ Places(h) = Places(f) \cup {Len(aeronOut)}
  BY <1>1, <1>3, MirrorSettles, PlacementExtends DEF Mirrors
<1>5. g \in [DOMAIN deadLetters' -> 1 .. Len(aeronOut)]
  BY <1>1, MirrorSettles
<1>6. Places(g) = (1 .. Len(aeronOut)) \ Places(h)
  BY <1>1, <1>3, <1>4, MirrorSettles DEF Mirrors
<1>7. PlacedInOrder(h, kafkaOut)' /\ PlacedInOrder(g, deadLetters)'
  BY <1>1, <1>3, <1>4 DEF Mirrors, PlacedInOrder
<1>8. KafkaMirrorsAeron'
  BY <1>2, <1>4, <1>5, <1>6, <1>7 DEF KafkaMirrorsAeron
<1> QED
  BY <1>1, <1>8 DEF PendingCarried

\* The dead letters take it: the same with the two roles exchanged.
LEMMA MirrorKafkaExhausted ==
  ASSUME MirrorInv, KafkaExhausted
  PROVE  PendingCarried' /\ KafkaMirrorsAeron'
<1>1. /\ phase = "kafka" /\ phase' = "returned"
      /\ aeronOut' = aeronOut /\ kafkaOut' = kafkaOut
      /\ deadLetters' = Append(deadLetters, pending)
  BY DEF KafkaExhausted
<1>2. Settled' = Len(aeronOut)
  BY <1>1 DEF Settled
<1>3. PICK f \in [DOMAIN kafkaOut -> 1 .. Settled],
           g \in [DOMAIN deadLetters -> 1 .. Settled] : Mirrors(f, g)
  BY DEF MirrorInv, KafkaMirrorsAeron, Mirrors
<1>4. PICK h \in [DOMAIN deadLetters' -> 1 .. Len(aeronOut)] :
        /\ PlacedInOrder(h, deadLetters')
        /\ Places(h) = Places(g) \cup {Len(aeronOut)}
  BY <1>1, <1>3, MirrorSettles, PlacementExtends DEF Mirrors
<1>5. f \in [DOMAIN kafkaOut' -> 1 .. Len(aeronOut)]
  BY <1>1, MirrorSettles
<1>6. Places(h) = (1 .. Len(aeronOut)) \ Places(f)
  <2>1. Places(f) \subseteq 1 .. Settled
    BY DEF Places
  <2>2. 1 .. Len(aeronOut) = (1 .. Settled) \cup {Len(aeronOut)} /\ Len(aeronOut) \notin 1 .. Settled
    BY <1>1, MirrorSettles
  <2> QED
    BY <1>3, <1>4, <2>1, <2>2 DEF Mirrors
<1>7. PlacedInOrder(f, kafkaOut)' /\ PlacedInOrder(h, deadLetters)'
  BY <1>1, <1>3, <1>4 DEF Mirrors, PlacedInOrder
<1>8. KafkaMirrorsAeron'
  BY <1>2, <1>4, <1>5, <1>6, <1>7 DEF KafkaMirrorsAeron
<1> QED
  BY <1>1, <1>8 DEF PendingCarried

(***************************************************************************)
(* Each step of the retry loops, and each call and return, keeps the       *)
(* mirror.                                                                 *)
(***************************************************************************)
LEMMA MirrorPublisherStep ==
  ASSUME MirrorInv, PublisherStep
  PROVE  MirrorInv'
<1>1. PublisherTypeOK'
  BY PublisherStepTyped DEF MirrorInv
<1>2. CASE AeronAccepts
  BY <1>1, <1>2, MirrorAeronAccepts DEF MirrorInv
<1>3. CASE KafkaAccepts
  BY <1>1, <1>3, MirrorKafkaAccepts DEF MirrorInv
<1>4. CASE AttemptFails
  <2>1. UNCHANGED <<phase, pending, aeronOut, kafkaOut, deadLetters>>
    BY <1>4 DEF AttemptFails
  <2>2. Settled' = Settled
    BY <2>1 DEF Settled
  <2>3. PendingCarried' /\ KafkaMirrorsAeron'
    BY <2>1, <2>2, MirrorKept DEF PendingCarried, MirrorInv
  <2> QED
    BY <1>1, <2>3 DEF MirrorInv
<1>5. CASE AeronExhausted
  <2>1. /\ phase = "aeron" /\ phase' = "threw"
        /\ UNCHANGED <<aeronOut, kafkaOut, deadLetters>>
    BY <1>5 DEF AeronExhausted
  <2>2. Settled' = Settled
    BY <2>1 DEF Settled
  <2>3. PendingCarried' /\ KafkaMirrorsAeron'
    BY <2>1, <2>2, MirrorKept DEF PendingCarried
  <2> QED
    BY <1>1, <2>3 DEF MirrorInv
<1>6. CASE KafkaExhausted
  BY <1>1, <1>6, MirrorKafkaExhausted DEF MirrorInv
<1> QED
  BY <1>2, <1>3, <1>4, <1>5, <1>6 DEF PublisherStep

LEMMA MirrorPublish ==
  ASSUME MirrorInv, NEW n \in StateChangeNotification, Publish(n)
  PROVE  MirrorInv'
<1>1. /\ phase = "idle" /\ phase' = "aeron"
      /\ UNCHANGED <<aeronOut, kafkaOut, deadLetters>>
  BY DEF Publish
<1>2. Settled' = Settled
  BY <1>1 DEF Settled
<1> QED
  BY <1>1, <1>2, PublishTyped, MirrorKept DEF MirrorInv, PendingCarried

LEMMA MirrorConclude ==
  ASSUME MirrorInv, NEW outcome \in {"returned", "threw"}, Conclude(outcome)
  PROVE  MirrorInv'
<1>1. /\ phase \notin {"kafka"} /\ phase' = "idle"
      /\ UNCHANGED <<aeronOut, kafkaOut, deadLetters>>
  BY DEF Conclude
<1>2. Settled' = Settled
  BY <1>1 DEF Settled
<1> QED
  BY <1>1, <1>2, ConcludeTyped, MirrorKept DEF MirrorInv, PendingCarried

LEMMA MirrorIdle ==
  ASSUME MirrorInv, UNCHANGED publisherVars
  PROVE  MirrorInv'
<1>1. UNCHANGED <<phase, pending, aeronOut, kafkaOut, deadLetters>>
  BY DEF publisherVars
<1>2. Settled' = Settled
  BY <1>1 DEF Settled
<1> QED
  BY <1>1, <1>2, PublisherIdleTyped, MirrorKept DEF MirrorInv, PendingCarried
=============================================================================
