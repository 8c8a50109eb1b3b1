------------------------------ MODULE HttpMetrics ------------------------------
(***************************************************************************)
(* MetricsService of the API: counters of requests by label (method and    *)
(* route), and a histogram of latencies, kept apart.  A label the map does *)
(* not have yet counts from zero, so the map is total here.                *)
(***************************************************************************)
EXTENDS Integers, FiniteSetsExt

CONSTANTS
    Labels,          \* keys of the routes map
    Buckets          \* LATENCY_BUCKETS_MS
ASSUME BucketsAssumption == Buckets \subseteq Nat
\* A map has finitely many entries.
ASSUME LabelsFinite == IsFiniteSet(Labels)

Metrics == [routes : [Labels -> [count : Nat, errors : Nat, total : Nat]],
            buckets : [Buckets -> Nat], count : Nat, sum : Nat]

NoMetrics == [routes |-> [l \in Labels |-> [count |-> 0, errors |-> 0, total |-> 0]],
              buckets |-> [b \in Buckets |-> 0], count |-> 0, sum |-> 0]

\* The entry of a route after one more request.
Counted(entry, status, duration) ==
    [count |-> entry.count + 1, total |-> entry.total + duration,
     errors |-> entry.errors + IF status >= 500 THEN 1 ELSE 0]

\* A slip: the search for a bucket ends at the first that fits.
RecordFirstBucket(m, label, status, duration) ==
    [routes |-> [m.routes EXCEPT ![label] = Counted(@, status, duration)],
     buckets |-> [b \in Buckets |-> m.buckets[b] +
                     IF duration <= b /\ \A c \in Buckets : duration <= c => b <= c THEN 1 ELSE 0],
     count |-> m.count + 1, sum |-> m.sum + duration]

Record(m, label, status, duration) ==
    [routes |-> [m.routes EXCEPT ![label] = Counted(@, status, duration)],
     buckets |-> [b \in Buckets |-> m.buckets[b] + IF duration <= b THEN 1 ELSE 0],
     count |-> m.count + 1, sum |-> m.sum + duration]

\* Totals of the snapshot, and of what toPrometheus prints.
Snapshot(m) == [requests |-> MapThenSumSet(LAMBDA l : m.routes[l].count, Labels),
                errors |-> MapThenSumSet(LAMBDA l : m.routes[l].errors, Labels),
                duration |-> MapThenSumSet(LAMBDA l : m.routes[l].total, Labels)]

(***************************************************************************)
(* What a scrape shows fits together, although three places count: the     *)
(* totals over the routes are those of the histogram, whose buckets are    *)
(* cumulative, and no more errors than requests are told for any route.    *)
(***************************************************************************)
Coherent(m) ==
    /\ Snapshot(m).requests = m.count /\ Snapshot(m).duration = m.sum
    /\ \A l \in Labels : m.routes[l].errors <= m.routes[l].count
    /\ \A b \in Buckets : /\ m.buckets[b] <= m.count
                          /\ \A c \in Buckets : b <= c => m.buckets[b] <= m.buckets[c]
===============================================================================
