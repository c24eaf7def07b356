---- MODULE MCTokenClient ----
(* Small instances of TokenClient for TLC. *)
EXTENDS TokenClient, TLC

ClientSymmetry == Permutations(Sessions) \cup Permutations(Requests) \cup Permutations(Tabs)
====
