---- MODULE MCPasswordReset ----
(* Small instances of PasswordReset for TLC. *)
EXTENDS PasswordReset, TLC

ResetSymmetry ==
    Permutations(Users) \cup Permutations(Sessions) \cup Permutations(Requests)
        \cup Permutations(Links) \cup Permutations(Jobs)
====
