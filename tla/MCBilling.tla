----------------------------- MODULE MCBilling -----------------------------
(* Instances of Billing for TLC: the three plans of the plans table with    *)
(* their prices.                                                           *)
EXTENDS Billing, TLC

CONSTANTS free, pro, enterprise

MCPlans == {free, pro, enterprise}
MCPrice == (free :> 0) @@ (pro :> 9) @@ (enterprise :> 29)
Symmetry == Permutations(Subs) \cup Permutations(Procs)
=============================================================================
