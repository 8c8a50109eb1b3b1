---------------------------- MODULE MC_MessageSend ----------------------------
(* MessageSend for TLC: the messages and the processes are interchangeable. *)
EXTENDS MessageSend, TLC

Symmetry == Permutations(Msgs) \cup Permutations(Workers)
=============================================================================
