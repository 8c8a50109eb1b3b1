----------------------------- MODULE MC_ApiAccess ------------------------------
(* ApiAccess for TLC: requests are interchangeable. *)
EXTENDS ApiAccess, TLC

Symmetry == Permutations(Requests)
================================================================================
