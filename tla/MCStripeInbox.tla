--------------------------- MODULE MCStripeInbox ---------------------------
(* StripeInbox for TLC. Two events and three deliveries make every kind of *)
(* duplicate: of one event in two workers, and of an event whose first job *)
(* is over. Three faults use up the two retries of a task (the code asks   *)
(* for three) or lose an event after it was recorded and fail the          *)
(* redeliveries as well.                                                   *)
EXTENDS StripeInbox, TLC
=============================================================================
