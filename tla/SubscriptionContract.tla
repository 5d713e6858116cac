------------------------ MODULE SubscriptionContract ------------------------
(***************************************************************************)
(* What the backend promises to a workspace about its plan, as long as     *)
(* requests and events are taken one after the other: a plan is granted    *)
(* because it was bought or asked for; a change to a higher price takes    *)
(* effect at once, any other one when a later billing period has begun; and*)
(* the plan goes back to FREE when the subscription has ended, not before. *)
(***************************************************************************)
EXTENDS Naturals

CONSTANTS Plans, Free, Price, NoPlan

VARIABLES
  plan,      \* the plan the workspace may use
  pending,   \* what it will have later: NoPlan, a plan, or Free after a cancellation
  ripe,      \* a period has begun since the pending plan was asked for
  bought,    \* the plan of a checkout that was paid and is not settled yet
  over       \* the subscription has ended, and the workspace does not know it yet

contractVars == <<plan, pending, ripe, bought, over>>

Paid == Plans \ {Free}

Init ==
  /\ plan = Free
  /\ pending = NoPlan
  /\ ripe = FALSE
  /\ bought = {}
  /\ over = FALSE

(* A plan of its own is due to the workspace once a checkout is paid. What *)
(* was pending for the subscription before is forgotten, then the plan is  *)
(* granted, and the purchase is settled with the first invoice.            *)
Buy ==
  /\ bought = {} /\ ~ over
  /\ \E q \in Paid : bought' = {q}
  /\ UNCHANGED <<plan, pending, ripe, over>>

Forget ==
  /\ bought # {}
  /\ pending' = NoPlan /\ ripe' = FALSE
  /\ UNCHANGED <<plan, bought, over>>

Grant ==
  /\ plan' \in bought
  /\ pending' = NoPlan /\ ripe' = FALSE
  /\ bought' \in {bought, {}}
  /\ UNCHANGED over

(* A change of plan.                                                       *)
Upgrade ==
  /\ plan' \in Paid /\ Price[plan'] > Price[plan]
  /\ pending' = NoPlan /\ ripe' = FALSE
  /\ UNCHANGED <<bought, over>>

Schedule ==
  /\ pending' \in Paid /\ Price[pending'] <= Price[plan]
  /\ ripe' = FALSE
  /\ UNCHANGED <<plan, bought, over>>

NextPeriod ==
  /\ pending \in Paid
  /\ ripe' = TRUE
  /\ UNCHANGED <<plan, pending, bought, over>>

CarryOut ==
  /\ pending \in Paid /\ ripe
  /\ plan' = pending
  /\ pending' = NoPlan /\ ripe' = FALSE
  /\ UNCHANGED <<bought, over>>

(* A cancellation, which lets the subscription go on to its end.           *)
Cancel ==
  /\ pending' = Free /\ ripe' = FALSE
  /\ UNCHANGED <<plan, bought, over>>

Expire ==
  /\ ~ over /\ over' = TRUE
  /\ UNCHANGED <<plan, pending, ripe, bought>>

GoFree ==
  /\ over /\ over' = FALSE
  /\ plan' = Free
  /\ pending' = NoPlan /\ ripe' = FALSE
  /\ UNCHANGED bought

Next ==
  \/ Buy \/ Forget \/ Grant
  \/ Upgrade \/ Schedule \/ NextPeriod \/ CarryOut
  \/ Cancel \/ Expire \/ GoFree

Spec == Init /\ [][Next]_contractVars
=============================================================================
