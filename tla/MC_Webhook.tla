------------------------------ MODULE MC_Webhook -------------------------------
(* Webhook for TLC: messages and handlers are interchangeable. *)
EXTENDS Webhook, TLC

Symmetry == Permutations(Msgs) \cup Permutations(Handlers)
===============================================================================
