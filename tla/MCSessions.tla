----------------------------- MODULE MCSessions -----------------------------
(* Sessions for TLC. The kinds of secret have keys of their own and meet   *)
(* only in the row of users, so each workload takes a few topics that meet *)
(* there or in the tokens. Two secrets of a kind tell a newer one from an  *)
(* older one; two requests at a time race for everything there is.         *)
EXTENDS Sessions, TLC

CONSTANTS v1, v2, f1, f2, i1, i2

MCSecrets == {v1, v2, f1, f2, i1, i2}
MCKindOf ==
  [s \in MCSecrets |-> CASE s \in {v1, v2} -> "email_verification"
                         [] s \in {f1, f2} -> "forgot_password"
                         [] s \in {i1, i2} -> "invite_token"]
MCWorkloads ==
  { {v1, v2, "register", "phone"}, {v1, f1, f2, "reset"}, {v1, f1, "login", "phone"}, {i1, i2, "login", "reset"},
    {i1, f1, "login", "change"}, {i1, "login", "change", "phone"}, {i1, "login", "device"} }
Symmetry == Permutations(Procs) \cup Permutations(Tokens) \cup Permutations(Rows)
=============================================================================
