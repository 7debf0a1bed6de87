---------------------------- MODULE DualDelivery ----------------------------
(***************************************************************************)
(* What a caller of publish is promised, with no attempts, no retries and  *)
(* no transports: a call either is refused, and then nobody has seen the   *)
(* notification, or is carried on the primary stream first and is then     *)
(* settled on exactly one of the two secondary ones.  Every call ends.     *)
(***************************************************************************)
EXTENDS Sequences

CONSTANTS Message, Nothing

VARIABLES
  stage,      \* how far the call has come
  message,    \* what is being delivered
  primary,    \* the streams
  secondary,
  fallback

deliveryVars == <<stage, message, primary, secondary, fallback>>

Init ==
  /\ stage = "idle"
  /\ message = Nothing
  /\ primary = <<>>
  /\ secondary = <<>>
  /\ fallback = <<>>

Begin ==
  /\ stage = "idle"
  /\ stage' = "called"
  /\ message' \in Message
  /\ UNCHANGED <<primary, secondary, fallback>>

Carry ==
  /\ stage = "called"
  /\ stage' = "carried"
  /\ primary' = Append(primary, message)
  /\ UNCHANGED <<message, secondary, fallback>>

Refuse ==
  /\ stage = "called"
  /\ stage' = "refused"
  /\ UNCHANGED <<message, primary, secondary, fallback>>

Settle ==
  /\ stage = "carried"
  /\ stage' = "delivered"
  /\ \/ secondary' = Append(secondary, message) /\ UNCHANGED fallback
     \/ fallback' = Append(fallback, message) /\ UNCHANGED secondary
  /\ UNCHANGED <<message, primary>>

End ==
  /\ stage \in {"refused", "delivered"}
  /\ stage' = "idle"
  /\ message' = Nothing
  /\ UNCHANGED <<primary, secondary, fallback>>

Advance == Carry \/ Refuse \/ Settle \/ End

Next == Begin \/ Advance

Spec == Init /\ [][Next]_deliveryVars

FairSpec == Spec /\ WF_deliveryVars(Advance)
=============================================================================
