---------------------------- MODULE Migrate_proofs ----------------------------
(***************************************************************************)
(* Theorems about Migrate, for any runners, files, starts and faults.      *)
(***************************************************************************)
EXTENDS Migrate, TLAPS

\* In the loop, in front of the file it is at.
Looping == {"loop", "sql", "insert", "commit", "unlock"}

(***************************************************************************)
(* What a runner relies on: the files it read as applied still are; the    *)
(* ones it has passed are applied; no two transactions hold one version.   *)
(***************************************************************************)
RunnerInv ==
    \A r \in Runners :
        /\ known[r] \subseteq applied
        /\ pc[r] \in Looping => 1..(file[r] - 1) \subseteq applied
        /\ pc[r] \in {"sql", "insert", "commit"} => file[r] <= release[r]
        /\ pc[r] \in {"unlock", "done"} => 1..release[r] \subseteq applied
        /\ pc[r] = "commit" => file[r] \notin applied
CommitInv ==
    \A r, q \in Runners : r # q /\ pc[r] = "commit" /\ pc[q] = "commit" => file[r] # file[q]
PrefixInv == \A f \in applied : 1..f \subseteq applied
FirstInv == \A r \in Runners : pc[r] \in {"read", "lock"} => file[r] = 1

IInv == TypeOK /\ RunnerInv /\ CommitInv /\ PrefixInv /\ FirstInv

-----------------------------------------------------------------------------
(***************************************************************************)
(* A database the first files were applied to, and no runner, is a state   *)
(* the invariant allows.                                                   *)
(***************************************************************************)
LEMMA InitInv == Init => IInv
  <1> SUFFICES ASSUME Init PROVE IInv
    OBVIOUS
  <1>1. PICK k \in 0..N : applied = 1..k /\ effects = [f \in Files |-> IF f <= k THEN 1 ELSE 0]
    BY DEF Init
  <1>2. TypeOK
    BY <1>1, NAssumption, BoundsAssumption DEF Init, TypeOK, Files, Labels
  <1>3. RunnerInv /\ CommitInv /\ FirstInv
    BY DEF Init, RunnerInv, CommitInv, FirstInv, Looping
  <1>4. PrefixInv
    BY <1>1, NAssumption DEF PrefixInv
  <1> QED BY <1>2, <1>3, <1>4 DEF IInv

(***************************************************************************)
(* Types are kept by every step: the file of an iteration stays within the *)
(* checkout or one past it.                                                *)
(***************************************************************************)
LEMMA TypeStep == TypeOK /\ RunnerInv /\ [Next]_vars => TypeOK'
  <1> SUFFICES ASSUME TypeOK, RunnerInv, [Next]_vars PROVE TypeOK'
    OBVIOUS
  <1> USE NAssumption, BoundsAssumption DEF TypeOK, Files, Labels
  <1>1. ASSUME NEW r \in Runners, Start(r) PROVE TypeOK'
    BY <1>1 DEF Start, Goto, history
  <1>2. ASSUME NEW r \in Runners, Read(r) PROVE TypeOK'
    BY <1>2 DEF Read, Goto, history
  <1>3. ASSUME NEW r \in Runners, Lock(r) PROVE TypeOK'
    BY <1>3 DEF Lock, Goto, history, runner
  <1>4. ASSUME NEW r \in Runners, Skip(r) PROVE TypeOK'
    BY <1>4 DEF Skip, history
  <1>5. ASSUME NEW r \in Runners, Begin(r) \/ Sql(r) \/ Insert(r) \/ Finish(r) PROVE TypeOK'
    BY <1>5 DEF Begin, Sql, Insert, Finish, Goto, history, runner
  <1>6. ASSUME NEW r \in Runners, Commit(r) PROVE TypeOK'
    <2>1. file[r] \in Files
      BY <1>6 DEF Commit, RunnerInv
    <2>2. applied' \subseteq Files
      BY <1>6, <2>1 DEF Commit
    <2>3. effects[file[r]] + 1 \in Nat
      BY <2>1
    <2>4. effects' \in [Files -> Nat]
      BY <1>6, <2>1, <2>3, Zenon DEF Commit
    <2>5. CASE file' = [file EXCEPT ![r] = @ + 1] /\ Goto(r, "loop") /\ UNCHANGED faults
      BY SMTT(30), <1>6, <2>1, <2>2, <2>4, <2>5 DEF Commit, Goto
    <2>6. CASE faults < MaxFaults /\ faults' = faults + 1 /\ Goto(r, "fail") /\ UNCHANGED file
      BY <1>6, <2>2, <2>4, <2>6 DEF Commit, Goto
    <2> QED BY <1>6, <2>5, <2>6 DEF Commit
  <1>7. ASSUME NEW r \in Runners, Unlock(r) PROVE TypeOK'
    BY <1>7 DEF Unlock, Free, Goto, history, runner
  <1>8. ASSUME NEW r \in Runners, QueryFails(r) \/ Crash(r) \/ LoseLock(r) PROVE TypeOK'
    <2>1. faults' \in 0..MaxFaults
      BY <1>8 DEF QueryFails, Crash, LoseLock
    <2>2. pc' \in [Runners -> Labels] /\ holder' \in Runners \cup {NoRunner}
      BY <1>8 DEF QueryFails, Crash, LoseLock, Free, Goto
    <2>3. UNCHANGED <<history, runner, starts>>
      BY <1>8 DEF QueryFails, Crash, LoseLock
    <2> QED BY <2>1, <2>2, <2>3 DEF history, runner
  <1>9. CASE UNCHANGED vars
    BY <1>9 DEF vars, history, runner
  <1> QED BY <1>1, <1>2, <1>3, <1>4, <1>5, <1>6, <1>7, <1>8, <1>9 DEF Next, Step

(***************************************************************************)
(* A step that leaves the table alone and moves one runner keeps the       *)
(* invariant when it keeps what is said of that runner.                    *)
(***************************************************************************)
LEMMA QuietStep ==
    ASSUME IInv, [Next]_vars, UNCHANGED history, NEW r \in Runners,
           \A q \in Runners \ {r} : /\ pc'[q] = pc[q] /\ file'[q] = file[q]
                                    /\ known'[q] = known[q] /\ release'[q] = release[q],
           known'[r] \subseteq applied,
           pc'[r] \in Looping => 1..(file'[r] - 1) \subseteq applied,
           pc'[r] \in {"sql", "insert", "commit"} => file'[r] <= release'[r],
           pc'[r] \in {"unlock", "done"} => 1..release'[r] \subseteq applied,
           pc'[r] = "commit" => /\ file'[r] \notin applied
                                /\ \A q \in Runners \ {r} : pc[q] = "commit" => file[q] # file'[r],
           pc'[r] \in {"read", "lock"} => file'[r] = 1
    PROVE  IInv'
  <1>1. TypeOK'
    BY TypeStep DEF IInv
  <1>2. RunnerInv'
    BY <1>1 DEF IInv, RunnerInv, history, Looping, TypeOK, Labels
  <1>3. CommitInv' /\ FirstInv' /\ PrefixInv'
    BY DEF IInv, CommitInv, FirstInv, PrefixInv, history
  <1> QED BY <1>1, <1>2, <1>3 DEF IInv

(***************************************************************************)
(* Every step of a runner, and every fault, keeps the invariant: a commit  *)
(* adds the first file that is missing, since the ones in front of it were *)
(* read as applied or committed before.                                    *)
(***************************************************************************)
LEMMA InvStep == IInv /\ [Next]_vars => IInv'
  <1> SUFFICES ASSUME IInv, [Next]_vars PROVE IInv'
    OBVIOUS
  <1> USE NAssumption DEF IInv, TypeOK, RunnerInv, FirstInv, Looping, Goto
  <1>1. ASSUME NEW r \in Runners, Start(r) PROVE IInv'
    BY <1>1, QuietStep DEF Start
  <1>2. ASSUME NEW r \in Runners, Read(r) PROVE IInv'
    BY <1>2, QuietStep DEF Read
  <1>3. ASSUME NEW r \in Runners, Lock(r) PROVE IInv'
    <2>1. 1..(file[r] - 1) = {}
      BY <1>3 DEF Lock
    <2> QED BY <1>3, <2>1, QuietStep DEF Lock, runner
  <1>4. ASSUME NEW r \in Runners, Skip(r) PROVE IInv'
    <2>1. 1..(file[r] - 1) \subseteq applied /\ file[r] \in applied
      BY <1>4 DEF Skip
    <2>2. 1..file[r] \subseteq applied
      BY <2>1
    <2> QED BY <1>4, <2>2, QuietStep DEF Skip
  <1>5. ASSUME NEW r \in Runners, Begin(r) PROVE IInv'
    BY <1>5, QuietStep DEF Begin, runner
  <1>6. ASSUME NEW r \in Runners, Sql(r) PROVE IInv'
    BY <1>6, QuietStep DEF Sql, runner
  <1>7. ASSUME NEW r \in Runners, Insert(r) PROVE IInv'
    BY <1>7, QuietStep DEF Insert, runner
  <1>8. ASSUME NEW r \in Runners, Commit(r) PROVE IInv'
    <2>1. TypeOK'
      BY TypeStep
    <2>2. file[r] \in Files /\ 1..(file[r] - 1) \subseteq applied /\ file[r] \notin applied
      BY <1>8 DEF Commit, Files
    <2>3. 1..file[r] \subseteq applied'
      BY <1>8, <2>2 DEF Commit, Files
    <2>4. PrefixInv'
      BY <1>8, <2>3 DEF Commit, PrefixInv
    <2>5. \A q \in Runners \ {r} : pc[q] = "commit" => file[q] \notin applied'
      BY <1>8 DEF Commit, CommitInv
    <2>6. RunnerInv'
      BY <1>8, <2>1, <2>3, <2>5 DEF Commit, Labels
    <2>7. CommitInv' /\ FirstInv'
      BY <1>8 DEF Commit, CommitInv
    <2> QED BY <2>1, <2>4, <2>6, <2>7
  <1>9. ASSUME NEW r \in Runners, Finish(r) PROVE IInv'
    <2>1. 1..release[r] \subseteq applied
      BY <1>9 DEF Finish, Files
    <2> QED BY <1>9, <2>1, QuietStep DEF Finish, runner
  <1>10. ASSUME NEW r \in Runners, Unlock(r) PROVE IInv'
    BY <1>10, QuietStep DEF Unlock, runner
  <1>11. ASSUME NEW r \in Runners, QueryFails(r) PROVE IInv'
    BY <1>11, QuietStep DEF QueryFails, runner
  <1>12. ASSUME NEW r \in Runners, Crash(r) PROVE IInv'
    BY <1>12, QuietStep DEF Crash, runner
  <1>13. ASSUME NEW r \in Runners, LoseLock(r) PROVE IInv'
    BY <1>13, TypeStep DEF LoseLock, runner, history, CommitInv, PrefixInv
  <1>14. CASE UNCHANGED vars
    BY <1>14, TypeStep DEF vars, history, runner, CommitInv, PrefixInv
  <1> QED BY <1>1, <1>2, <1>3, <1>4, <1>5, <1>6, <1>7, <1>8, <1>9, <1>10, <1>11, <1>12, <1>13,
             <1>14 DEF Next, Step

(***************************************************************************)
(* The invariant holds in every behaviour of the runners.                  *)
(***************************************************************************)
LEMMA Invariance == Spec => []IInv
  BY InitInv, InvStep, PTL DEF Spec

(***************************************************************************)
(* The table, the lock and the runners keep their types.                   *)
(***************************************************************************)
THEOREM TypeCorrect == Spec => []TypeOK
  <1>1. IInv => TypeOK
    BY DEF IInv
  <1> QED BY <1>1, Invariance, PTL

(***************************************************************************)
(* A runner that ends without an error leaves every file it knows applied, *)
(* and schema_migrations never has a gap.                                  *)
(***************************************************************************)
THEOREM SuccessMeansAppliedHolds == Spec => []SuccessMeansApplied
  <1>1. IInv => SuccessMeansApplied
    BY DEF IInv, RunnerInv, PrefixInv, SuccessMeansApplied
  <1> QED BY <1>1, Invariance, PTL

-----------------------------------------------------------------------------
(***************************************************************************)
(* A commit applies the next file of the history; every other step leaves  *)
(* the database as it is.                                                  *)
(***************************************************************************)
LEMMA HistoryStep == IInv /\ [Next]_vars => [History!Next]_(History!history)
  <1> SUFFICES ASSUME IInv, [Next]_vars PROVE [History!Next]_(History!history)
    OBVIOUS
  <1>1. ASSUME NEW r \in Runners, Commit(r) PROVE History!Next
    <2>1. file[r] \in Files /\ 1..(file[r] - 1) \subseteq applied /\ file[r] \notin applied
      BY <1>1, NAssumption DEF Commit, IInv, TypeOK, RunnerInv, Looping, Files
    <2>2. History!Apply(file[r])
      BY <1>1, <2>1 DEF Commit, History!Apply
    <2> QED BY <2>1, <2>2 DEF History!Next, History!Files, Files
  <1>2. ASSUME NEW r \in Runners, ~Commit(r), \/ Start(r) \/ Step(r) \/ QueryFails(r)
                                              \/ Crash(r) \/ LoseLock(r)
        PROVE UNCHANGED history
    BY <1>2 DEF Start, Step, Read, Lock, Skip, Begin, Sql, Insert, Finish, Unlock, QueryFails,
                Crash, LoseLock
  <1>3. CASE UNCHANGED vars
    BY <1>3 DEF vars, history, History!history
  <1> QED BY <1>1, <1>2, <1>3 DEF Next, history, History!history

(***************************************************************************)
(* The runner implements SchemaHistory: each file takes effect once and in *)
(* order, whatever runners start, fail or lose their lock.                 *)
(***************************************************************************)
THEOREM Refinement == Spec => HistorySpec
  <1>1. Init => History!Init
    BY DEF Init, History!Init, Files, History!Files
  <1> QED BY <1>1, HistoryStep, Invariance, PTL DEF Spec, HistorySpec, History!Spec
===============================================================================
