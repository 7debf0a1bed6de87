-------------------------- MODULE ApplicationProofs --------------------------
(***************************************************************************)
(* Theorems about Application, for any batch size and number of events.    *)
(***************************************************************************)
EXTENDS Application, TLAPS

(***************************************************************************)
(* The hook's place in close(), and main's in the start, tell what is      *)
(* open: nothing that the hook has passed is, and everything is that the   *)
(* next start stands on.                                                   *)
(***************************************************************************)
PassedAreClosed ==
  /\ hook = "none" => closing = 1
  /\ hook = "registered" =>
       \A i \in 1 .. Len(CloseOrder) : i < closing => CloseOrder[i] \notin open

Starting == main \in Handle \cup {"bootstrap", "register"}

StartedInOrder ==
  /\ Starting => hook = "none"
  /\ main \in Handle => mode = "REAL"
  /\ main = "driver" => embedded
  /\ main = "client" /\ embedded => "driver" \in open
  /\ main \in {"subscription", "publication"} =>
       /\ "client" \in open
       /\ embedded => "driver" \in open

HaltedAtEnd == jvm = "halted" /\ hook = "registered" => closing > Len(CloseOrder)

AppInv ==
  /\ AppTypeOK
  /\ NothingOutlivesItsGround
  /\ PassedAreClosed
  /\ StartedInOrder
  /\ HaltedAtEnd

HandleSteps == UNCHANGED <<environment, open, hook, closing, jvm>>

\* The order of closing, place by place.
LEMMA FourHandles ==
  /\ Len(CloseOrder) = 4
  /\ CloseOrder[1] = "publication"
  /\ CloseOrder[2] = "subscription"
  /\ CloseOrder[3] = "client"
  /\ CloseOrder[4] = "driver"
  BY DEF CloseOrder

\* Every handle has its place in that order.
LEMMA AllPassed ==
  ASSUME AppInv, hook = "registered", closing > Len(CloseOrder)
  PROVE  open = {}
<1>1. closing \in Nat /\ open \subseteq Handle
  BY FourHandles DEF AppInv, AppTypeOK
<1>2. "publication" \notin open /\ "subscription" \notin open
  BY <1>1, FourHandles DEF AppInv, PassedAreClosed
<1>3. "client" \notin open /\ "driver" \notin open
  BY <1>1, FourHandles DEF AppInv, PassedAreClosed
<1> QED
  BY <1>1, <1>2, <1>3 DEF Handle

LEMMA AppInitInv == Init => AppInv
  BY ApplicationAssumption, FourHandles
  DEF Init, AppInv, AppTypeOK, NothingOutlivesItsGround, PassedAreClosed,
      StartedInOrder, HaltedAtEnd, Starting, Handle

\* The type invariant, by the part of the system that steps.
LEMMA MainStepTyped ==
  ASSUME AppInv, MainStep
  PROVE  AppTypeOK'
<1> USE ApplicationAssumption DEF AppInv, AppTypeOK, MainAt, environment, events
<1>1. CASE \E handle \in Handle : Start(handle)
  BY <1>1 DEF Start, After, Handle, StartedInOrder
<1>2. CASE \E handle \in Handle : StartThrows(handle)
  BY <1>2 DEF StartThrows
<1>3. CASE Bootstrap
  BY <1>3 DEF Bootstrap
<1>4. CASE RegisterHook
  BY <1>4 DEF RegisterHook, CloseOrder
<1>5. CASE RegisterThrows
  BY <1>5 DEF RegisterThrows
<1>6. CASE Ingest
  BY <1>6 DEF Ingest
<1>7. CASE Apply
  BY <1>7 DEF Apply, TakeNext
<1>8. CASE Skip
  BY <1>8 DEF Skip, TakeNext
<1>9. CASE PublishSucceeds
  BY <1>9 DEF PublishSucceeds
<1>10. CASE PublishFails
  BY <1>10 DEF PublishFails
<1>11. CASE ProcessReturns
  BY <1>11 DEF ProcessReturns
<1>12. CASE Wake
  BY <1>12 DEF Wake
<1> QED
  BY <1>1, <1>2, <1>3, <1>4, <1>5, <1>6, <1>7, <1>8, <1>9, <1>10, <1>11, <1>12
  DEF MainStep

LEMMA ShutdownStepTyped ==
  ASSUME AppInv, Signal \/ ShutdownStep
  PROVE  AppTypeOK'
<1> USE FourHandles DEF AppInv, AppTypeOK, environment, events
<1>1. CASE Signal
  BY <1>1 DEF Signal
<1>2. CASE LastThreadEnds
  BY <1>2 DEF LastThreadEnds
<1>3. CASE HookCloses
  BY <1>3 DEF HookCloses, HookRuns
<1>4. CASE HookThrows
  BY <1>4 DEF HookThrows, HookRuns
<1>5. CASE Halt
  BY <1>5 DEF Halt
<1> QED
  BY <1>1, <1>2, <1>3, <1>4, <1>5 DEF ShutdownStep

\* Main's steps after the start leave the handles alone.
LEMMA LoopLeavesHandles ==
  ASSUME Ingest \/ Apply \/ Skip \/ PublishSucceeds \/ PublishFails
           \/ ProcessReturns \/ Wake
  PROVE  /\ HandleSteps
         /\ main \in {"ingest", "process", "publish", "sleep"}
         /\ main' \in {"ingest", "process", "publish", "sleep", "died"}
  BY DEF HandleSteps, MainAt, Ingest, Apply, Skip, TakeNext, PublishSucceeds,
         PublishFails, ProcessReturns, Wake

LEMMA MainStepInv ==
  ASSUME AppInv, MainStep
  PROVE  AppInv'
<1> USE DEF AppInv, AppTypeOK, NothingOutlivesItsGround, PassedAreClosed,
            StartedInOrder, HaltedAtEnd, Starting, MainAt, environment, Handle
<1>0. AppTypeOK'
  BY MainStepTyped
<1>1. ASSUME NEW handle \in Handle, Start(handle)
      PROVE  AppInv'
  <2>1. hook = "none" /\ hook' = "none" /\ closing' = closing /\ mode' = mode
          /\ embedded' = embedded /\ mode = "REAL"
    BY <1>1 DEF Start
  <2>2. main' = After(handle) /\ open' = open \cup {handle} /\ main = handle
    BY <1>1 DEF Start
  <2>3. CASE handle = "driver"
    BY <1>0, <2>1, <2>2, <2>3 DEF After
  <2>4. CASE handle = "client"
    BY <1>0, <2>1, <2>2, <2>4 DEF After
  <2>5. CASE handle \in {"subscription", "publication"}
    BY <1>0, <2>1, <2>2, <2>5 DEF After
  <2> QED
    BY <1>1, <2>3, <2>4, <2>5
<1>2. ASSUME NEW handle \in Handle, StartThrows(handle)
      PROVE  AppInv'
  BY <1>0, <1>2 DEF StartThrows
<1>3. CASE Bootstrap
  BY <1>0, <1>3 DEF Bootstrap
<1>4. CASE RegisterHook
  <2>1. hook = "none" /\ closing' = 1 /\ open' = open /\ main' = "ingest"
    BY <1>4 DEF RegisterHook
  <2> QED
    BY <1>0, <1>4, <2>1, FourHandles DEF RegisterHook
<1>5. CASE RegisterThrows
  BY <1>0, <1>5 DEF RegisterThrows
<1>6. CASE HandleSteps /\ main \in {"ingest", "process", "publish", "sleep"}
             /\ main' \in {"ingest", "process", "publish", "sleep", "died"}
  BY <1>0, <1>6 DEF HandleSteps
<1> QED
  BY <1>1, <1>2, <1>3, <1>4, <1>5, <1>6, LoopLeavesHandles DEF MainStep

LEMMA ShutdownStepInv ==
  ASSUME AppInv, Signal \/ ShutdownStep
  PROVE  AppInv'
<1> USE DEF AppInv, NothingOutlivesItsGround, PassedAreClosed, StartedInOrder,
            HaltedAtEnd, Starting, environment
<1>0. AppTypeOK'
  BY ShutdownStepTyped
<1>1. CASE Signal
  BY <1>0, <1>1 DEF Signal
<1>2. CASE LastThreadEnds
  BY <1>0, <1>2 DEF LastThreadEnds
<1>3. ASSUME HookCloses \/ HookThrows
      PROVE  /\ closing \in 1 .. 4 /\ hook = "registered" /\ ~Starting
             /\ UNCHANGED <<mode, embedded, main, jvm>> /\ jvm # "halted"
             /\ open' \in {open, open \ {CloseOrder[closing]}}
  BY <1>3, FourHandles DEF AppTypeOK, HookCloses, HookThrows, HookRuns
<1>4. ASSUME HookCloses \/ HookThrows
      PROVE  NothingOutlivesItsGround'
  <2>1. CASE closing = 1
    BY <1>3, <1>4, <2>1, FourHandles
  <2>2. CASE closing = 2
    BY <1>3, <1>4, <2>2, FourHandles
  <2>3. CASE closing = 3
    BY <1>3, <1>4, <2>3, FourHandles
  <2>4. CASE closing = 4
    BY <1>3, <1>4, <2>4, FourHandles
  <2> QED
    BY <1>3, <1>4, <2>1, <2>2, <2>3, <2>4
<1>6. CASE HookCloses
  <2>1. hook' = "registered" /\ closing' = closing + 1 /\ open' = open \ {CloseOrder[closing]}
    BY <1>3, <1>6 DEF HookCloses
  <2>2. PassedAreClosed'
    BY <1>3, <1>6, <2>1, FourHandles
  <2> QED
    BY <1>0, <1>3, <1>4, <1>6, <2>1, <2>2, FourHandles DEF Handle
<1>7. CASE HookThrows
  <2>1. hook' = "threw"
    BY <1>7 DEF HookThrows
  <2> QED
    BY <1>0, <1>3, <1>4, <1>7, <2>1 DEF Handle
<1>8. CASE Halt
  BY <1>0, <1>8 DEF Halt
<1> QED
  BY <1>1, <1>2, <1>6, <1>7, <1>8 DEF ShutdownStep

LEMMA AppStepInv ==
  ASSUME AppInv, [Next]_appVars
  PROVE  AppInv'
<1>1. CASE MainStep
  BY <1>1, MainStepInv
<1>2. CASE Signal \/ ShutdownStep
  BY <1>2, ShutdownStepInv
<1>3. CASE UNCHANGED appVars
  BY <1>3 DEF appVars, environment, events, AppInv, AppTypeOK, PassedAreClosed,
              NothingOutlivesItsGround, StartedInOrder, HaltedAtEnd, Starting
<1> QED
  BY <1>1, <1>2, <1>3 DEF Next

LEMMA AppInvariant == Spec => []AppInv
  BY AppInitInv, AppStepInv, PTL DEF Spec

(***************************************************************************)
(* The application's variables keep their types: main() runs its loop only *)
(* with its hook registered, and no queue is polled below empty.           *)
(***************************************************************************)
THEOREM AppTypeCorrect == Spec => []AppTypeOK
<1>1. AppInv => AppTypeOK
  BY DEF AppInv
<1> QED
  BY <1>1, AppInvariant, PTL

(***************************************************************************)
(* At every step of the start, of a start that fails and of close(),       *)
(* what is open stands on handles that are open.                           *)
(***************************************************************************)
THEOREM HandlesStandOnOpenOnes == Spec => []NothingOutlivesItsGround
<1>1. AppInv => NothingOutlivesItsGround
  BY DEF AppInv
<1> QED
  BY <1>1, AppInvariant, PTL

(***************************************************************************)
(* A process that has halted left a handle open only if its hook was never *)
(* registered or a close threw.                                            *)
(***************************************************************************)
THEOREM OpenAtHaltExplained == Spec => []LeftOpenOnlyIf
<1>1. AppInv => LeftOpenOnlyIf
  BY AllPassed DEF AppInv, AppTypeOK, HaltedAtEnd, LeftOpenOnlyIf
<1> QED
  BY <1>1, AppInvariant, PTL

-----------------------------------------------------------------------------
\* Inside a publication the store is ahead; elsewhere it may be only at the end.
AnnouncedSoFar ==
  /\ AtMostOneUnannounced
  /\ main = "publish" => applied = announced + 1

\* Only Apply, and the outcomes of the publication, touch the two counters.
LEMMA UnannouncedStep ==
  ASSUME AppInv, AnnouncedSoFar, [Next]_appVars
  PROVE  AnnouncedSoFar'
<1> USE DEF AnnouncedSoFar, AtMostOneUnannounced, MainAt, environment, events
<1>0. applied \in Nat /\ announced \in Nat
  BY DEF AppInv, AppTypeOK
<1>1. CASE Apply
  BY <1>0, <1>1 DEF Apply, TakeNext
<1>2. CASE PublishSucceeds
  BY <1>0, <1>2 DEF PublishSucceeds
<1>3. CASE PublishFails
  BY <1>0, <1>3 DEF PublishFails
<1>4. CASE /\ UNCHANGED <<applied, announced>>
           /\ \/ UNCHANGED main
              \/ main \notin {"publish", "died"} /\ main' # "publish"
  BY <1>0, <1>4
<1>5. ASSUME NEW handle \in Handle, Start(handle) \/ StartThrows(handle)
      PROVE  AnnouncedSoFar'
  <2>1. UNCHANGED <<applied, announced>> /\ main \in Handle /\ main' # "publish"
    BY <1>5 DEF Start, StartThrows, After, Handle
  <2> QED
    BY <1>4, <2>1 DEF Handle
<1>6. CASE Bootstrap \/ RegisterHook \/ RegisterThrows
  BY <1>4, <1>6 DEF Bootstrap, RegisterHook, RegisterThrows
<1>7. CASE Ingest \/ Skip \/ ProcessReturns \/ Wake
  BY <1>4, <1>7 DEF Ingest, Skip, TakeNext, ProcessReturns, Wake
<1>8. CASE Signal \/ ShutdownStep \/ UNCHANGED appVars
  BY <1>4, <1>8 DEF Signal, ShutdownStep, LastThreadEnds, HookCloses, HookThrows,
                    Halt, appVars
<1> QED
  BY <1>1, <1>2, <1>3, <1>5, <1>6, <1>7, <1>8 DEF Next, MainStep

(***************************************************************************)
(* The store is never ahead of the consumers by more than one upsert, and  *)
(* is ahead only inside its publication or when the main thread is dead.   *)
(***************************************************************************)
THEOREM OneUpsertUnannounced == Spec => []AtMostOneUnannounced
<1>1. Init => AnnouncedSoFar
  BY DEF Init, AnnouncedSoFar, AtMostOneUnannounced
<1>2. AnnouncedSoFar => AtMostOneUnannounced
  BY DEF AnnouncedSoFar
<1> QED
  BY <1>1, <1>2, AppInvariant, UnannouncedStep, PTL DEF Spec
=============================================================================
