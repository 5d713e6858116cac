---------------------------- MODULE EventLedger ----------------------------
(***************************************************************************)
(* What the webhook side of the backend promises about Stripe events,      *)
(* whatever the deliveries, workers, retries and crashes do: an event has  *)
(* its effect on the database at most once, and an event that was once     *)
(* given up by the handler that took it never has an effect later.         *)
(***************************************************************************)
EXTENDS Naturals

CONSTANT Events        \* the ids of the Stripe events

VARIABLES
  pending,     \* events that may still have their effect
  abandoned,   \* events recorded by a handler that failed or died
  effects      \* how many times each event changed the database

ledgerVars == <<pending, abandoned, effects>>

Init ==
  /\ pending = Events
  /\ abandoned = {}
  /\ effects = [e \in Events |-> 0]

(* The effect of an event is committed, once, and the event is settled.    *)
Apply(e) ==
  /\ e \in pending
  /\ pending' = pending \ {e}
  /\ effects' = [effects EXCEPT ![e] = @ + 1]
  /\ UNCHANGED abandoned

(* The event is settled without an effect.                                 *)
Abandon(e) ==
  /\ e \in pending
  /\ pending' = pending \ {e}
  /\ abandoned' = abandoned \cup {e}
  /\ UNCHANGED effects

Next == \E e \in Events : Apply(e) \/ Abandon(e)

Spec == Init /\ [][Next]_ledgerVars
=============================================================================
