------------------------- MODULE RetryingPublisher -------------------------
(***************************************************************************)
(* RetryingStateChangePublisher over its two transports and the dead       *)
(* letter queue.  One call of publish sends the notification to Aeron,     *)
(* then to Kafka, each with MaxRetries + 1 attempts.  When Aeron's are     *)
(* exhausted the call throws and Kafka is never tried; when Kafka's are,   *)
(* the notification goes to the dead letters and the call returns.         *)
(*                                                                         *)
(* An attempt either appends the notification to what the transport has    *)
(* published or throws, leaving it as it was; which of the two is the      *)
(* environment's choice.  The module holds the actions of one call; the    *)
(* caller closes it (PublisherCaller, StoreService).                       *)
(***************************************************************************)
EXTENDS CoreDomain, Sequences

CONSTANTS
  MaxRetries,  \* the constructor's maxRetries, which it does not check
  None         \* "no object": a null or a local out of scope

\* An int, negative ones included: then nothing is ever attempted.  With the
\* largest int the loop condition i <= maxRetries could not become false.
ASSUME MaxRetriesAssumption == MaxRetries \in Int /\ MaxRetries < 2147483647
ASSUME NoneAssumption == None \notin StateChangeNotification

VARIABLES
  phase,       \* where the call of publish stands
  attempt,     \* the loop variable i of publishWithRetry
  pending,     \* the notification being published
  aeronOut,    \* what each transport has published, in order
  kafkaOut,
  deadLetters

publisherVars == <<phase, attempt, pending, aeronOut, kafkaOut, deadLetters>>

PublisherPhase == {"idle", "aeron", "kafka", "returned", "threw"}

PublisherTypeOK ==
  /\ phase \in PublisherPhase
  /\ attempt \in Nat
  /\ attempt > 0 => attempt <= MaxRetries + 1
  /\ pending \in StateChangeNotification \cup {None}
  /\ pending = None <=> phase = "idle"
  /\ aeronOut \in Seq(StateChangeNotification)
  /\ kafkaOut \in Seq(StateChangeNotification)
  /\ deadLetters \in Seq(StateChangeNotification)

PublisherInit ==
  /\ phase = "idle"
  /\ attempt = 0
  /\ pending = None
  /\ aeronOut = <<>>
  /\ kafkaOut = <<>>
  /\ deadLetters = <<>>

(***************************************************************************)
(* publish(notification) is called, and enters Aeron's retry loop.         *)
(***************************************************************************)
Publish(n) ==
  /\ phase = "idle"
  /\ phase' = "aeron"
  /\ pending' = n
  /\ UNCHANGED <<attempt, aeronOut, kafkaOut, deadLetters>>

\* Mutant: one attempt too many.
OneMoreAttempt == attempt <= MaxRetries + 1

AttemptsLeft == attempt <= MaxRetries

AeronAccepts ==
  /\ phase = "aeron" /\ AttemptsLeft
  /\ aeronOut' = Append(aeronOut, pending)
  /\ phase' = "kafka"
  /\ attempt' = 0
  /\ UNCHANGED <<pending, kafkaOut, deadLetters>>

KafkaAccepts ==
  /\ phase = "kafka" /\ AttemptsLeft
  /\ kafkaOut' = Append(kafkaOut, pending)
  /\ phase' = "returned"
  /\ attempt' = 0
  /\ UNCHANGED <<pending, aeronOut, deadLetters>>

\* Mutant: the attempt that failed reached the transport after all.
AttemptFailsAfterSend ==
  /\ phase \in {"aeron", "kafka"} /\ AttemptsLeft
  /\ attempt' = attempt + 1
  /\ aeronOut' = IF phase = "aeron" THEN Append(aeronOut, pending) ELSE aeronOut
  /\ UNCHANGED <<phase, pending, kafkaOut, deadLetters>>

\* The attempt threw; publishWithRetry keeps the exception and goes round.
AttemptFails ==
  /\ phase \in {"aeron", "kafka"} /\ AttemptsLeft
  /\ attempt' = attempt + 1
  /\ UNCHANGED <<phase, pending, aeronOut, kafkaOut, deadLetters>>

\* Mutant: Aeron is retried without end.
AeronExhaustedRestarts ==
  /\ phase = "aeron" /\ ~AttemptsLeft
  /\ attempt' = 0
  /\ UNCHANGED <<phase, pending, aeronOut, kafkaOut, deadLetters>>

\* Mutant: Kafka is tried although Aeron failed.
AeronExhaustedGoesOn ==
  /\ phase = "aeron" /\ ~AttemptsLeft
  /\ phase' = "kafka"
  /\ attempt' = 0
  /\ UNCHANGED <<pending, aeronOut, kafkaOut, deadLetters>>

AeronExhausted ==
  /\ phase = "aeron" /\ ~AttemptsLeft
  /\ phase' = "threw"
  /\ attempt' = 0
  /\ UNCHANGED <<pending, aeronOut, kafkaOut, deadLetters>>

\* Mutant: the dead letter is forgotten.
KafkaExhaustedSilently ==
  /\ phase = "kafka" /\ ~AttemptsLeft
  /\ phase' = "returned"
  /\ attempt' = 0
  /\ UNCHANGED <<pending, aeronOut, kafkaOut, deadLetters>>

KafkaExhausted ==
  /\ phase = "kafka" /\ ~AttemptsLeft
  /\ deadLetters' = Append(deadLetters, pending)
  /\ phase' = "returned"
  /\ attempt' = 0
  /\ UNCHANGED <<pending, aeronOut, kafkaOut>>

PublisherStep ==
  \/ AeronAccepts
  \/ KafkaAccepts
  \/ AttemptFails
  \/ AeronExhausted
  \/ KafkaExhausted

\* The call is over and its frame is gone.
Conclude(outcome) ==
  /\ phase = outcome
  /\ phase' = "idle"
  /\ pending' = None
  /\ UNCHANGED <<attempt, aeronOut, kafkaOut, deadLetters>>

-----------------------------------------------------------------------------
\* How many of Aeron's notifications have left the publisher altogether.
Settled == IF phase = "kafka" THEN Len(aeronOut) - 1 ELSE Len(aeronOut)

\* f places every element of out in aeronOut, keeping the order.
PlacedInOrder(f, out) ==
  /\ \A i \in DOMAIN out : out[i] = aeronOut[f[i]]
  /\ \A i, j \in DOMAIN out : i < j => f[i] < f[j]

Places(f) == {f[i] : i \in DOMAIN f}

(***************************************************************************)
(* What Aeron has carried, less the one notification still being sent to   *)
(* Kafka, is shared out between Kafka and the dead letters: each is on     *)
(* exactly one of the two, and both keep Aeron's order.  Nothing reaches   *)
(* Kafka or the dead letters that Aeron did not carry first.               *)
(***************************************************************************)
KafkaMirrorsAeron ==
  \E f \in [DOMAIN kafkaOut -> 1 .. Settled],
     g \in [DOMAIN deadLetters -> 1 .. Settled] :
    /\ PlacedInOrder(f, kafkaOut)
    /\ PlacedInOrder(g, deadLetters)
    /\ Places(g) = (1 .. Settled) \ Places(f)
=============================================================================
