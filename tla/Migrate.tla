------------------------------- MODULE Migrate --------------------------------
(***************************************************************************)
(* api/src/scripts/migrate.ts: several runners, of checkouts with more or  *)
(* fewer files, against one database.  A runner reads which files are      *)
(* applied before it waits for the advisory lock, so that it may know less *)
(* than the table says when it gets the lock.  The lock belongs to the     *)
(* session of lockClient and each file to a transaction on another one:    *)
(* PostgreSQL may end the first and let the second go on.                  *)
(*                                                                         *)
(* Failures of the last steps (rollback, unlock, pool.end) are those of a  *)
(* process that ends, which closes its sessions: Crash.                    *)
(***************************************************************************)
EXTENDS Integers, FiniteSets

CONSTANTS
    Runners,      \* processes
    NoRunner,     \* holder of a free lock
    N,            \* files in the newest checkout: 1..N, in order
    MaxStarts,    \* bound: times a runner is started
    MaxFaults     \* bound: failed queries, crashes, lost sessions

ASSUME NAssumption == N \in Nat \ {0}
ASSUME RunnersAssumption == NoRunner \notin Runners
ASSUME BoundsAssumption == MaxStarts \in Nat /\ MaxFaults \in Nat

Files == 1..N

VARIABLES
    applied,      \* schema_migrations
    effects,      \* times the SQL of each file was committed
    holder,       \* of the advisory lock
    release,      \* per runner: files in its checkout
    pc,           \* per runner: the query that comes next
    known,        \* per runner: the set it read
    file,         \* per runner: the file of this iteration
    starts, faults

history == <<applied, effects>>
runner == <<release, known, file>>
vars == <<history, holder, runner, pc, starts, faults>>

Labels == {"off", "read", "lock", "loop", "sql", "insert", "commit", "unlock", "fail",
           "done", "failed"}

TypeOK ==
    /\ applied \subseteq Files /\ effects \in [Files -> Nat]
    /\ holder \in Runners \cup {NoRunner}
    /\ release \in [Runners -> Files]
    /\ pc \in [Runners -> Labels]
    /\ known \in [Runners -> SUBSET Files]
    /\ file \in [Runners -> 1..(N + 1)]
    /\ starts \in 0..MaxStarts /\ faults \in 0..MaxFaults

Init ==
    /\ \E k \in 0..N : /\ applied = 1..k
                       /\ effects = [f \in Files |-> IF f <= k THEN 1 ELSE 0]
    /\ holder = NoRunner
    /\ release = [r \in Runners |-> 1]
    /\ pc = [r \in Runners |-> "off"]
    /\ known = [r \in Runners |-> {}]
    /\ file = [r \in Runners |-> 1]
    /\ starts = 0 /\ faults = 0

-----------------------------------------------------------------------------
Goto(r, label) == pc' = [pc EXCEPT ![r] = label]
Free(r) == holder' = IF holder = r THEN NoRunner ELSE holder

\* The process starts, creates the table if needed and lists the files.
Start(r) ==
    /\ pc[r] \in {"off", "done", "failed"} /\ starts < MaxStarts
    /\ starts' = starts + 1
    /\ \E k \in Files : release' = [release EXCEPT ![r] = k]
    /\ known' = [known EXCEPT ![r] = {}]
    /\ file' = [file EXCEPT ![r] = 1]
    /\ Goto(r, "read")
    /\ UNCHANGED <<history, holder, faults>>

\* The select of what is applied; --status prints it and ends.
Read(r) ==
    /\ pc[r] = "read"
    /\ known' = [known EXCEPT ![r] = applied]
    /\ Goto(r, "lock") \/ Goto(r, "off")
    /\ UNCHANGED <<history, holder, release, file, starts, faults>>

\* pg_advisory_lock
Lock(r) ==
    /\ pc[r] = "lock" /\ holder = NoRunner
    /\ holder' = r
    /\ Goto(r, "loop")
    /\ UNCHANGED <<history, runner, starts, faults>>

\* A slip Spec does not use: the loop leaves out every other file.
SkipTwice(r) ==
    /\ pc[r] = "loop" /\ file[r] <= release[r] /\ file[r] \in known[r]
    /\ file' = [file EXCEPT ![r] = @ + 2]
    /\ UNCHANGED <<history, holder, release, pc, known, starts, faults>>

Skip(r) ==
    /\ pc[r] = "loop" /\ file[r] <= release[r] /\ file[r] \in known[r]
    /\ file' = [file EXCEPT ![r] = @ + 1]
    /\ UNCHANGED <<history, holder, release, pc, known, starts, faults>>

Begin(r) ==
    /\ pc[r] = "loop" /\ file[r] <= release[r] /\ file[r] \notin known[r]
    /\ Goto(r, "sql")
    /\ UNCHANGED <<history, holder, runner, starts, faults>>

\* The SQL of the file, which no one else sees before the commit.
Sql(r) ==
    /\ pc[r] = "sql"
    /\ Goto(r, "insert")
    /\ UNCHANGED <<history, holder, runner, starts, faults>>

\* Slips Spec does not use: a version that is there already is no error; a failed file is
\* logged and left out; the lock is given back after a success only.
InsertOrNothing(r) ==
    /\ pc[r] = "insert"
    /\ Goto(r, "commit")
    /\ UNCHANGED <<history, holder, runner, starts, faults>>
QueryGoesOn(r) ==
    /\ pc[r] = "sql" /\ faults < MaxFaults
    /\ faults' = faults + 1
    /\ file' = [file EXCEPT ![r] = @ + 1]
    /\ Goto(r, "loop")
    /\ UNCHANGED <<history, holder, release, known, starts>>
UnlockDone(r) ==
    /\ pc[r] \in {"unlock", "fail"}
    /\ IF pc[r] = "unlock" THEN Free(r) /\ Goto(r, "done")
       ELSE UNCHANGED holder /\ Goto(r, "failed")
    /\ UNCHANGED <<history, runner, starts, faults>>

\* The insert waits for a transaction that inserted the same version.
Insert(r) ==
    /\ pc[r] = "insert"
    /\ \A q \in Runners : pc[q] = "commit" => file[q] # file[r]
    /\ Goto(r, IF file[r] \in applied THEN "fail" ELSE "commit")
    /\ UNCHANGED <<history, holder, runner, starts, faults>>

\* The answer of the commit may be lost.
Commit(r) ==
    /\ pc[r] = "commit"
    /\ applied' = applied \cup {file[r]}
    /\ effects' = [effects EXCEPT ![file[r]] = @ + 1]
    /\ \/ /\ file' = [file EXCEPT ![r] = @ + 1] /\ Goto(r, "loop")
          /\ UNCHANGED faults
       \/ /\ faults < MaxFaults /\ faults' = faults + 1 /\ Goto(r, "fail")
          /\ UNCHANGED file
    /\ UNCHANGED <<holder, release, known, starts>>

Finish(r) ==
    /\ pc[r] = "loop" /\ file[r] > release[r]
    /\ Goto(r, "unlock")
    /\ UNCHANGED <<history, holder, runner, starts, faults>>

\* finally: pg_advisory_unlock, then the end of the process.
Unlock(r) ==
    /\ pc[r] \in {"unlock", "fail"}
    /\ Free(r)
    /\ Goto(r, IF pc[r] = "unlock" THEN "done" ELSE "failed")
    /\ UNCHANGED <<history, runner, starts, faults>>

-----------------------------------------------------------------------------
\* A query throws; a transaction is rolled back.
QueryFails(r) ==
    /\ pc[r] \in {"read", "lock", "sql", "insert", "commit"} /\ faults < MaxFaults
    /\ faults' = faults + 1
    /\ Goto(r, IF pc[r] = "read" THEN "failed" ELSE "fail")
    /\ UNCHANGED <<history, holder, runner, starts>>

Crash(r) ==
    /\ pc[r] \notin {"off", "done", "failed"} /\ faults < MaxFaults
    /\ faults' = faults + 1
    /\ Free(r)
    /\ Goto(r, "failed")
    /\ UNCHANGED <<history, runner, starts>>

\* PostgreSQL ends the session of the lock; the runner does not know.
LoseLock(r) ==
    /\ holder = r /\ faults < MaxFaults
    /\ faults' = faults + 1
    /\ holder' = NoRunner
    /\ UNCHANGED <<history, runner, pc, starts>>

-----------------------------------------------------------------------------
Step(r) == Read(r) \/ Lock(r) \/ Skip(r) \/ Begin(r) \/ Sql(r) \/ Insert(r) \/ Commit(r)
           \/ Finish(r) \/ Unlock(r)

Next == \E r \in Runners : \/ Start(r) \/ Step(r)
                           \/ QueryFails(r) \/ Crash(r) \/ LoseLock(r)

Spec == Init /\ [][Next]_vars

\* Queries are answered; nobody has to start a runner, and none has to fail.
FairSpec == Spec /\ \A r \in Runners : WF_vars(Step(r))
-----------------------------------------------------------------------------
(***************************************************************************)
(* Every file is applied once and in order, although runners work from     *)
(* what they read before the lock, and also when a lock is lost and two of *)
(* them run the same file: the insert in the transaction decides.          *)
(***************************************************************************)
History == INSTANCE SchemaHistory
HistorySpec == History!Spec

(***************************************************************************)
(* A runner that ends without an error leaves every file it knows applied, *)
(* and applied files have no gap in front of them.                         *)
(***************************************************************************)
SuccessMeansApplied ==
    /\ \A r \in Runners : pc[r] = "done" => 1..release[r] \subseteq applied
    /\ \A f \in applied : 1..f \subseteq applied

(***************************************************************************)
(* Every runner ends: none waits for ever for a lock, whatever runner or   *)
(* session died holding it.                                                *)
(***************************************************************************)
EveryRunnerEnds == <>[](\A r \in Runners : pc[r] \in {"off", "done", "failed"})
===============================================================================
