----------------------------- MODULE Application -----------------------------
(***************************************************************************)
(* LocalOffHeapStoreApplication: the start of the runtime's handles, the   *)
(* loop of main(), and the shutdown hook that closes the handles while the *)
(* loop is still running.                                                  *)
(*                                                                         *)
(* The JVM (external): a signal, or the end of the last thread that is not *)
(* a daemon, begins its shutdown, which runs the registered hook in a      *)
(* thread of its own, stops nothing else meanwhile, and then halts.        *)
(* Whether Aeron's threads are daemons is its thread factory's business.   *)
(* Nothing interrupts the main thread, so its sleep always comes back.     *)
(***************************************************************************)
EXTENDS Integers, Sequences

CONSTANTS
  MaxBatch,  \* argument of ingestOnce and processOnce
  MaxEvents  \* bound: events the subscription brings

ASSUME ApplicationAssumption == MaxBatch \in Nat /\ MaxEvents \in Nat

VARIABLES
  mode,      \* AERON_MODE
  embedded,  \* AERON_EMBEDDED_DRIVER
  holding,   \* Aeron's threads keep the JVM up
  main,      \* what main() does next
  open,      \* the handles that are open
  hook,      \* the shutdown hook
  closing,   \* the place of close() it has come to
  jvm,
  arrived,   \* events polled so far
  queued,    \* events in the service's queue
  taken,     \* events this processOnce has taken
  applied,   \* upserts in the store
  announced  \* upserts published

environment == <<mode, embedded, holding>>
events == <<arrived, queued, taken, applied, announced>>
appVars == <<environment, main, open, hook, closing, jvm, events>>

Handle == {"driver", "client", "subscription", "publication"}

\* Mutant: the driver goes first.
CloseOrderOfStart == <<"driver", "client", "subscription", "publication">>

\* Mutant: the driver is forgotten.
CloseOrderWithoutDriver == <<"publication", "subscription", "client">>

\* RuntimeHandles.close, which passes over a handle that is null.
CloseOrder == <<"publication", "subscription", "client", "driver">>

AppTypeOK ==
  /\ mode \in {"REAL", "INMEMORY"} /\ embedded \in BOOLEAN /\ holding \in BOOLEAN
  /\ main \in Handle \cup {"bootstrap", "register", "ingest", "process", "publish",
                           "sleep", "returned", "died"}
  /\ open \subseteq Handle
  /\ mode = "INMEMORY" => open = {}
  /\ ~embedded => "driver" \notin open
  /\ main \in {"ingest", "process", "publish", "sleep"} => hook # "none"
  /\ hook \in {"none", "registered", "threw"}
  /\ closing \in 1 .. Len(CloseOrder) + 1
  /\ jvm \in {"up", "stopping", "halted"}
  /\ arrived \in 0 .. MaxEvents /\ queued \in 0 .. arrived
  /\ taken \in 0 .. MaxBatch
  /\ applied \in Nat /\ announced \in Nat

Init ==
  /\ mode \in {"REAL", "INMEMORY"} /\ embedded \in BOOLEAN /\ holding \in BOOLEAN
  /\ main = IF mode = "INMEMORY" THEN "bootstrap"
            ELSE IF embedded THEN "driver" ELSE "client"
  /\ open = {}
  /\ hook = "none" /\ closing = 1
  /\ jvm = "up"
  /\ arrived = 0 /\ queued = 0 /\ taken = 0 /\ applied = 0 /\ announced = 0

-----------------------------------------------------------------------------
(***************************************************************************)
(* startFromEnvironment.                                                   *)
(***************************************************************************)
MainAt(place) == main = place /\ jvm # "halted"

After(handle) ==
  CASE handle = "driver" -> "client"
    [] handle = "client" -> "subscription"
    [] handle = "subscription" -> "publication"
    [] handle = "publication" -> "bootstrap"

Start(handle) ==
  /\ MainAt(handle)
  /\ open' = open \cup {handle}
  /\ main' = After(handle)
  /\ UNCHANGED <<environment, hook, closing, jvm, events>>

\* No driver, a directory in use, a stream id that is no number, a channel
\* that is no channel: what was open before stays so.
StartThrows(handle) ==
  /\ MainAt(handle)
  /\ main' = "died"
  /\ UNCHANGED <<environment, open, hook, closing, jvm, events>>

-----------------------------------------------------------------------------
(***************************************************************************)
(* main(), after the wiring.                                               *)
(***************************************************************************)
Bootstrap ==
  /\ MainAt("bootstrap")
  /\ main' = IF mode = "REAL" THEN "register" ELSE "returned"
  /\ UNCHANGED <<environment, open, hook, closing, jvm, events>>

RegisterHook ==
  /\ MainAt("register") /\ jvm = "up"
  /\ hook' = "registered"
  /\ main' = "ingest"
  /\ UNCHANGED <<environment, open, closing, jvm, events>>

\* A JVM that is shutting down takes no more hooks.
RegisterThrows ==
  /\ MainAt("register") /\ jvm = "stopping"
  /\ main' = "died"
  /\ UNCHANGED <<environment, open, hook, closing, jvm, events>>

\* A subscription that is closed brings nothing.
Ingest ==
  /\ MainAt("ingest")
  /\ \E n \in 0 .. MaxBatch :
       /\ n > 0 => "subscription" \in open
       /\ arrived + n <= MaxEvents
       /\ arrived' = arrived + n
       /\ queued' = queued + n
  /\ taken' = 0
  /\ main' = "process"
  /\ UNCHANGED <<environment, open, hook, closing, jvm, applied, announced>>

\* Mutant: an empty queue is not noticed.
TakeNextOfNone ==
  /\ MainAt("process")
  /\ taken < MaxBatch
  /\ taken' = taken + 1
  /\ queued' = queued - 1
  /\ UNCHANGED <<environment, open, hook, closing, jvm, arrived, announced>>

TakeNext ==
  /\ MainAt("process")
  /\ taken < MaxBatch /\ queued > 0
  /\ taken' = taken + 1
  /\ queued' = queued - 1
  /\ UNCHANGED <<environment, open, hook, closing, jvm, arrived, announced>>

Apply ==
  /\ TakeNext
  /\ applied' = applied + 1
  /\ main' = "publish"

\* The version gate drops it.
Skip == TakeNext /\ UNCHANGED <<applied, main>>

PublishSucceeds ==
  /\ MainAt("publish") /\ "publication" \in open
  /\ announced' = announced + 1
  /\ main' = "process"
  /\ UNCHANGED <<environment, open, hook, closing, jvm, arrived, queued, taken, applied>>

\* Mutant: the loop survives a failed publication.
PublishFailureIgnored ==
  /\ MainAt("publish")
  /\ main' = "process"
  /\ UNCHANGED <<environment, open, hook, closing, jvm, events>>

\* The offers are exhausted, at once or because the publication was closed,
\* and no one catches the exception.
PublishFails ==
  /\ MainAt("publish")
  /\ main' = "died"
  /\ UNCHANGED <<environment, open, hook, closing, jvm, events>>

ProcessReturns ==
  /\ MainAt("process")
  /\ taken = MaxBatch \/ queued = 0
  /\ main' = "sleep"
  /\ UNCHANGED <<environment, open, hook, closing, jvm, events>>

Wake ==
  /\ MainAt("sleep")
  /\ main' = "ingest"
  /\ UNCHANGED <<environment, open, hook, closing, jvm, events>>

-----------------------------------------------------------------------------
(***************************************************************************)
(* The JVM and the hook's thread.                                          *)
(***************************************************************************)
Signal ==
  /\ jvm = "up"
  /\ jvm' = "stopping"
  /\ UNCHANGED <<environment, main, open, hook, closing, events>>

MainOver == main \in {"returned", "died"}

HeldUp == holding /\ open \cap {"driver", "client"} # {}

LastThreadEnds ==
  /\ jvm = "up" /\ MainOver /\ ~HeldUp
  /\ jvm' = "stopping"
  /\ UNCHANGED <<environment, main, open, hook, closing, events>>

\* Mutant: the hook waits for the main thread first.
HookRunsAfterMain ==
  jvm = "stopping" /\ hook = "registered" /\ closing <= Len(CloseOrder) /\ MainOver

HookRuns == jvm = "stopping" /\ hook = "registered" /\ closing <= Len(CloseOrder)

HookCloses ==
  /\ HookRuns
  /\ open' = open \ {CloseOrder[closing]}
  /\ closing' = closing + 1
  /\ UNCHANGED <<environment, main, hook, jvm, events>>

\* A close throws, whether or not its handle is closed by then, and the rest
\* is not tried.
HookThrows ==
  /\ HookRuns
  /\ CloseOrder[closing] \in open
  /\ open' \in {open, open \ {CloseOrder[closing]}}
  /\ hook' = "threw"
  /\ UNCHANGED <<environment, main, closing, jvm, events>>

Halt ==
  /\ jvm = "stopping"
  /\ hook # "registered" \/ closing > Len(CloseOrder)
  /\ jvm' = "halted"
  /\ UNCHANGED <<environment, main, open, hook, closing, events>>

-----------------------------------------------------------------------------
MainStep ==
  \/ \E handle \in Handle : Start(handle) \/ StartThrows(handle)
  \/ Bootstrap \/ RegisterHook \/ RegisterThrows
  \/ Ingest \/ Apply \/ Skip \/ PublishSucceeds \/ PublishFails
  \/ ProcessReturns \/ Wake

ShutdownStep == LastThreadEnds \/ HookCloses \/ HookThrows \/ Halt

Next == MainStep \/ Signal \/ ShutdownStep

Spec == Init /\ [][Next]_appVars

\* The main thread and the hook's run side by side; a close comes back.
FairSpec == Spec /\ WF_appVars(MainStep) /\ WF_appVars(ShutdownStep)

-----------------------------------------------------------------------------
(***************************************************************************)
(* No handle is open without the one it stands on, at the start, after a   *)
(* start that failed, and at every step of closing: Aeron's client with    *)
(* the embedded driver, the subscription and the publication with the      *)
(* client.                                                                 *)
(***************************************************************************)
NothingOutlivesItsGround ==
  /\ "client" \in open /\ embedded => "driver" \in open
  /\ open \cap {"subscription", "publication"} # {} => "client" \in open

(***************************************************************************)
(* The process leaves a handle open only if the start failed, if it was    *)
(* told to stop before line 70 was done, or if a close threw.              *)
(***************************************************************************)
LeftOpenOnlyIf == jvm = "halted" /\ open # {} => hook \in {"none", "threw"}

(***************************************************************************)
(* An upsert whose publication failed is the last thing the process does:  *)
(* the store is never ahead of the consumers by more than one upsert, and  *)
(* is ahead only inside that publication or once the main thread is dead.  *)
(* So at most one event is applied after the hook closed the publication.  *)
(***************************************************************************)
AtMostOneUnannounced ==
  \/ applied = announced
  \/ applied = announced + 1 /\ main \in {"publish", "died"}

(***************************************************************************)
(* A shutdown once begun comes to its end, and one begins when the main    *)
(* thread is over and nothing of Aeron holds the JVM up, whatever the main *)
(* loop is doing in the meantime.                                          *)
(***************************************************************************)
ShutdownCompletes == (jvm = "stopping" \/ (MainOver /\ ~HeldUp)) ~> jvm = "halted"
=============================================================================
