--------------------------- MODULE MC_PlanRateLimiter ---------------------------
(* PlanRateLimiter for TLC: callers are interchangeable; calls are bounded. *)
EXTENDS PlanRateLimiter, TLC

CONSTANTS
    MaxWait,       \* bound: ticks a call takes
    MaxGrants,     \* bound: calls allowed
    MaxLost        \* bound: answers lost

Symmetry == Permutations(Callers)
Bounded == /\ Len(grants) <= MaxGrants /\ lost <= MaxLost
           /\ \A k \in Keys : count[k] <= Limit + 1
           /\ \A c \in Callers : pc[c] # "idle" => now <= asked[c] + MaxWait
================================================================================
