---------------------------- MODULE SchemaHistory -----------------------------
(***************************************************************************)
(* What the migration runner promises: the files of sql/migrations take    *)
(* effect one at a time, in the order of their names, each of them once,   *)
(* together with its line in schema_migrations.                            *)
(***************************************************************************)
EXTENDS Integers

CONSTANT N            \* files in the newest checkout: 1..N, in order
Files == 1..N

VARIABLES
    applied,          \* schema_migrations
    effects           \* times the SQL of each file was committed
history == <<applied, effects>>

\* A database some first files were applied to.
Init == \E k \in 0..N : /\ applied = 1..k
                        /\ effects = [f \in Files |-> IF f <= k THEN 1 ELSE 0]

Apply(f) == /\ f \notin applied /\ 1..(f - 1) \subseteq applied
            /\ applied' = applied \cup {f}
            /\ effects' = [effects EXCEPT ![f] = @ + 1]

Next == \E f \in Files : Apply(f)
Spec == Init /\ [][Next]_history
===============================================================================
