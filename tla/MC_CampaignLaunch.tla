--------------------------- MODULE MC_CampaignLaunch ---------------------------
(* CampaignLaunch for TLC: contacts, requests and workers are interchangeable. *)
EXTENDS CampaignLaunch, TLC

Symmetry == Permutations(Contacts) \cup Permutations(Requests) \cup Permutations(Workers)
================================================================================
