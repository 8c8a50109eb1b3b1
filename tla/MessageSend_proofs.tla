-------------------------- MODULE MessageSend_proofs --------------------------
(***************************************************************************)
(* Proofs about MessageSend, for every set of messages and processes and   *)
(* every limit.                                                            *)
(***************************************************************************)
EXTENDS MessageSend, CountingLemmas, FiniteSetTheorems, TLAPS

USE MsgsAssumption, WorkersAssumption, AttemptsAssumption, LimitAssumption

\* The slots of a process are finitely many, so what a crash requeues can be counted.
LEMMA SlotsFinite ==
    ASSUME NEW w \in Workers
    PROVE  SlotsOf(w) \subseteq Slot /\ IsFiniteSet(SlotsOf(w))
<1>1. SlotsOf(w) \subseteq Slot
  BY DEF SlotsOf, Slot
<1>2. IsFiniteSet(1..Prefetch)
  BY FS_Interval
<1>3. IsFiniteSet({w})
  BY FS_Singleton
<1>4. IsFiniteSet({w} \X (1..Prefetch))
  BY <1>2, <1>3, FS_Product
<1>. QED BY <1>1, <1>4 DEF SlotsOf

\* A slot belongs to exactly one process.
LEMMA SlotOwner ==
    ASSUME NEW s \in Slot
    PROVE  s[1] \in Workers /\ \A w : s \in SlotsOf(w) <=> s[1] = w
BY DEF Slot, SlotsOf

\* The number of handlers of w that hold m, or an attempt of m, is a natural
\* number, positive as soon as there is one.
LEMMA BusyCount ==
    ASSUME NEW w \in Workers, NEW m \in Msgs, NEW a \in Attempts
    PROVE  LET B == Busy(w, m)
               A == {s \in Busy(w, m) : attempt[s] = a}
           IN  /\ Cardinality(B) \in Nat
               /\ Cardinality(A) \in Nat
               /\ Cardinality(B) > 0 <=> B # {}
               /\ Cardinality(A) > 0 <=> A # {}
<1>. DEFINE B == Busy(w, m)
            A == {s \in Busy(w, m) : attempt[s] = a}
<1>1. IsFiniteSet(B) /\ IsFiniteSet(A)
  <2>1. B \in SUBSET SlotsOf(w) /\ A \in SUBSET SlotsOf(w)
    BY DEF Busy
  <2>. QED BY <2>1, SlotsFinite, FS_Subset
<1>2. Cardinality(B) \in Nat /\ Cardinality(A) \in Nat
  BY <1>1, FS_CardinalityType
<1>3. Cardinality(B) = 0 <=> B = {}
  BY <1>1, FS_EmptySet
<1>4. Cardinality(A) = 0 <=> A = {}
  BY <1>1, FS_EmptySet
<1>. QED BY <1>2, <1>3, <1>4

-----------------------------------------------------------------------------
\* What the row updates and the jumps of a handler preserve.
LEMMA CmUpdateType ==
    ASSUME TypeOK, NEW m \in Msgs, NEW st \in Statuses, NEW n \in Nat, NEW k \in Nat,
           CmUpdate(m, st, n, k)
    PROVE  cm' \in [Msgs -> [status : Statuses, metaId : Nat, attempts : Nat]]
<1>1. cm[m].metaId \in Nat /\ cm[m].attempts + k \in Nat
  BY DEF TypeOK
<1>2. [status |-> st, metaId |-> IF n = 0 THEN cm[m].metaId ELSE n,
       attempts |-> cm[m].attempts + k] \in [status : Statuses, metaId : Nat, attempts : Nat]
  BY <1>1
<1>. QED BY <1>2 DEF TypeOK, CmUpdate

\* The mirror update keeps the type of messages.
LEMMA MirrorUpdateType ==
    ASSUME TypeOK, NEW m \in Msgs, NEW st \in Statuses, NEW n \in Nat,
           MirrorUpdate(m, st, n)
    PROVE  mirror' \in [Msgs -> [status : Statuses, providerId : Nat]]
<1>1. [status |-> st, providerId |-> IF n = 0 THEN mirror[m].providerId ELSE n]
         \in [status : Statuses, providerId : Nat]
  BY DEF TypeOK
<1>. QED BY <1>1 DEF TypeOK, MirrorUpdate

Labels == {"idle"} \cup PcOfTry \cup PcOfCatch

\* A jump to a label keeps the type of pc.
LEMMA GotoType ==
    ASSUME TypeOK, NEW s \in Slot, NEW label \in Labels, label # "idle",
           pc[s] # "idle", Goto(s, label)
    PROVE  /\ pc' \in [Slot -> Labels]
           /\ \A t \in Slot : pc'[t] # "idle" <=> pc[t] # "idle"
BY DEF TypeOK, Goto, Labels

\* A query of the try block keeps the type of pc, whether it fails or not.
LEMMA TryQueryType ==
    ASSUME TypeOK, NEW s \in Slot, NEW label \in Labels, label # "idle",
           pc[s] # "idle", Goto(s, label) \/ Goto(s, "catch")
    PROVE  /\ pc' \in [Slot -> Labels]
           /\ \A t \in Slot : pc'[t] # "idle" <=> pc[t] # "idle"
<1>1. "catch" \in Labels
  BY DEF Labels, PcOfCatch
<1>. QED BY <1>1, GotoType

\* One more in a bag of jobs.
LEMMA OneMore ==
    ASSUME NEW S, NEW f \in [S -> Nat], NEW i
    PROVE  [f EXCEPT ![i] = @ + 1] \in [S -> Nat]
<1>1. CASE i \in S
  <2>1. f[i] + 1 \in Nat
    BY <1>1
  <2>. QED BY <2>1
<1>2. CASE i \notin S
  BY <1>2
<1>. QED BY <1>1, <1>2

\* The same for the copies of one attempt of one message.
LEMMA OneMoreJob ==
    ASSUME NEW f \in [Msgs -> [Attempts -> Nat]], NEW m \in Msgs, NEW i
    PROVE  [f EXCEPT ![m][i] = @ + 1] \in [Msgs -> [Attempts -> Nat]]
<1>. DEFINE g == [f[m] EXCEPT ![i] = @ + 1]
<1>1. g \in [Attempts -> Nat]
  BY OneMore
<1>2. [f EXCEPT ![m] = g] \in [Msgs -> [Attempts -> Nat]]
  <2>. HIDE DEF g
  <2>. QED BY <1>1
<1>. QED BY <1>2

\* A requeue keeps the types of the queue and of the redelivery count.
LEMMA RequeueType ==
    ASSUME TypeOK, NEW w \in Workers, Requeue(w)
    PROVE  ready' \in [Msgs -> [Attempts -> Nat]] /\ redelivered' \in [Msgs -> Nat]
<1>1. \A m \in Msgs, a \in Attempts :
         ready[m][a] + Cardinality({s \in Busy(w, m) : attempt[s] = a}) \in Nat
  <2>. TAKE m \in Msgs, a \in Attempts
  <2>1. ready[m][a] \in Nat
    BY DEF TypeOK
  <2>2. Cardinality({s \in Busy(w, m) : attempt[s] = a}) \in Nat
    BY BusyCount
  <2>. QED BY <2>1, <2>2
<1>2. \A m \in Msgs : redelivered[m] + Cardinality(Busy(w, m)) \in Nat
  <2>. TAKE m \in Msgs
  <2>1. redelivered[m] \in Nat
    BY DEF TypeOK
  <2>2. 1 \in Attempts
    BY DEF Attempts
  <2>3. Cardinality(Busy(w, m)) \in Nat
    BY <2>2, BusyCount
  <2>. QED BY <2>1, <2>3
<1>3. ready' \in [Msgs -> [Attempts -> Nat]]
  BY <1>1 DEF Requeue
<1>4. redelivered' \in [Msgs -> Nat]
  BY <1>2 DEF Requeue
<1>. QED BY <1>3, <1>4

-----------------------------------------------------------------------------
(***************************************************************************)
(* Rows, queues and handlers of the sending stage keep their types.        *)
(***************************************************************************)
THEOREM TypeCorrect == Spec => []TypeOK
<1>1. Init => TypeOK
  BY DEF Init, TypeOK, Attempts, Statuses
<1>2. TypeOK /\ [Next]_vars => TypeOK'
  <2> SUFFICES ASSUME TypeOK, [Next]_vars PROVE TypeOK'
    OBVIOUS
  <2>. USE DEF TypeOK, broker, rows, handler, outside, process, Goto,
               PcOfTry, PcOfCatch, Statuses
  <2>1. ASSUME NEW s \in Slot, Load(s) PROVE TypeOK'
    BY <2>1 DEF Load, TryQuery
  <2>2. ASSUME NEW s \in Slot, CheckLimit(s) PROVE TypeOK'
    <3>1. rate' \in 0..(Limit + 1)
      BY <2>2 DEF CheckLimit
    <3>2. pc[s] # "idle" /\ \E l \in {"rl_row", "send", "catch"} : Goto(s, l)
      BY <2>2 DEF CheckLimit
    <3>3. pc' \in [Slot -> Labels] /\ \A t \in Slot : pc'[t] # "idle" <=> pc[t] # "idle"
      BY <3>2, GotoType DEF Labels
    <3>. QED BY <2>2, <3>1, <3>2, <3>3 DEF CheckLimit, Labels
  <2>3. ASSUME NEW s \in Slot, Send(s) PROVE TypeOK'
    <3>1. pc' \in [Slot -> Labels] /\ \A t \in Slot : pc'[t] # "idle" <=> pc[t] # "idle"
      BY <2>3 DEF Send, Labels
    <3>2. msg[s] \in Msgs /\ sends[msg[s]] + 1 \in Nat
      BY <2>3 DEF Send
    <3>3. [sends EXCEPT ![msg[s]] = @ + 1] \in [Msgs -> Nat]
      BY <3>2
    <3>4. sends' \in [Msgs -> Nat]
      BY <2>3, <3>3 DEF Send
    <3>5. id' \in [Slot -> Nat]
      BY <2>3, <3>2 DEF Send
    <3>. QED BY <2>3, <3>1, <3>4, <3>5 DEF Send, Labels
  <2>4. ASSUME NEW s \in Slot, AcceptRow(s) PROVE TypeOK'
    <3>1. pc[s] # "idle" /\ "acc_mirror" \in Labels /\ (Goto(s, "acc_mirror") \/ Goto(s, "catch"))
      BY <2>4 DEF AcceptRow, TryQuery, Labels
    <3>2. pc' \in [Slot -> Labels] /\ \A t \in Slot : pc'[t] # "idle" <=> pc[t] # "idle"
      BY <3>1, TryQueryType
    <3>3. CmUpdate(msg[s], "accepted_meta", id[s], 1) \/ UNCHANGED cm
      BY <2>4 DEF AcceptRow, TryQuery
    <3>4. msg[s] \in Msgs /\ id[s] \in Nat /\ "accepted_meta" \in Statuses
      BY <3>1
    <3>5. cm' \in [Msgs -> [status : Statuses, metaId : Nat, attempts : Nat]]
      BY <3>3, <3>4, CmUpdateType
    <3>. QED BY <2>4, <3>2, <3>5 DEF AcceptRow, Labels
  <2>5. ASSUME NEW s \in Slot, AcceptMirror(s) PROVE TypeOK'
    <3>1. pc[s] # "idle" /\ "acc_log" \in Labels /\ (Goto(s, "acc_log") \/ Goto(s, "catch"))
      BY <2>5 DEF AcceptMirror, TryQuery, Labels
    <3>2. pc' \in [Slot -> Labels] /\ \A t \in Slot : pc'[t] # "idle" <=> pc[t] # "idle"
      BY <3>1, TryQueryType
    <3>3. MirrorUpdate(msg[s], "accepted_meta", id[s]) \/ UNCHANGED mirror
      BY <2>5 DEF AcceptMirror, TryQuery
    <3>4. msg[s] \in Msgs /\ id[s] \in Nat /\ "accepted_meta" \in Statuses
      BY <3>1
    <3>5. mirror' \in [Msgs -> [status : Statuses, providerId : Nat]]
      BY <3>3, <3>4, MirrorUpdateType
    <3>. QED BY <2>5, <3>2, <3>5 DEF AcceptMirror, Labels
  <2>6. ASSUME NEW s \in Slot, AcceptLog(s) PROVE TypeOK'
    <3>1. pc[s] # "idle" /\ "ack_ok" \in Labels /\ (Goto(s, "ack_ok") \/ Goto(s, "catch"))
      BY <2>6 DEF AcceptLog, TryQuery, Labels
    <3>2. pc' \in [Slot -> Labels] /\ \A t \in Slot : pc'[t] # "idle" <=> pc[t] # "idle"
      BY <3>1, TryQueryType
    <3>3. [logged EXCEPT ![msg[s]] = @ \cup {id[s]}] \in [Msgs -> SUBSET Nat]
      BY <3>1
    <3>4. logged' \in [Msgs -> SUBSET Nat]
      BY <2>6, <3>3 DEF AcceptLog, TryQuery
    <3>. QED BY <2>6, <3>2, <3>4 DEF AcceptLog, Labels
  <2>7. ASSUME NEW s \in Slot, FailRow(s) PROVE TypeOK'
    <3>1. pc[s] # "idle" /\ "fail_mirror" \in Labels /\ (Goto(s, "fail_mirror") \/ Goto(s, "catch"))
      BY <2>7 DEF FailRow, TryQuery, Labels
    <3>2. pc' \in [Slot -> Labels] /\ \A t \in Slot : pc'[t] # "idle" <=> pc[t] # "idle"
      BY <3>1, TryQueryType
    <3>3. CmUpdate(msg[s], "failed_retryable", 0, 1) \/ UNCHANGED cm
      BY <2>7 DEF FailRow, TryQuery
    <3>4. msg[s] \in Msgs /\ "failed_retryable" \in Statuses
      BY <3>1
    <3>5. cm' \in [Msgs -> [status : Statuses, metaId : Nat, attempts : Nat]]
      BY <3>3, <3>4, CmUpdateType
    <3>. QED BY <2>7, <3>2, <3>5 DEF FailRow, Labels
  <2>8. ASSUME NEW s \in Slot, FailMirror(s) PROVE TypeOK'
    <3>1. pc[s] # "idle" /\ "fail_log" \in Labels /\ (Goto(s, "fail_log") \/ Goto(s, "catch"))
      BY <2>8 DEF FailMirror, TryQuery, Labels
    <3>2. pc' \in [Slot -> Labels] /\ \A t \in Slot : pc'[t] # "idle" <=> pc[t] # "idle"
      BY <3>1, TryQueryType
    <3>3. MirrorUpdate(msg[s], "failed_retryable", 0) \/ UNCHANGED mirror
      BY <2>8 DEF FailMirror, TryQuery
    <3>4. msg[s] \in Msgs /\ "failed_retryable" \in Statuses
      BY <3>1
    <3>5. mirror' \in [Msgs -> [status : Statuses, providerId : Nat]]
      BY <3>3, <3>4, MirrorUpdateType
    <3>. QED BY <2>8, <3>2, <3>5 DEF FailMirror, Labels
  <2>9. ASSUME NEW s \in Slot, FailLog(s) PROVE TypeOK'
    BY <2>9 DEF FailLog
  <2>10. ASSUME NEW s \in Slot, LimitedRow(s) PROVE TypeOK'
    BY <2>10 DEF LimitedRow, CmUpdate
  <2>11. ASSUME NEW s \in Slot, LimitedPublish(s) PROVE TypeOK'
    BY <2>11 DEF LimitedPublish
  <2>12. ASSUME NEW s \in Slot, LimitedMirror(s) PROVE TypeOK'
    BY <2>12 DEF LimitedMirror, MirrorUpdate
  <2>13. ASSUME NEW s \in Slot, RetryPublish(s) PROVE TypeOK'
    BY <2>13 DEF RetryPublish
  <2>14. ASSUME NEW s \in Slot, RetryMirror(s) PROVE TypeOK'
    BY <2>14 DEF RetryMirror, MirrorUpdate
  <2>15. ASSUME NEW s \in Slot, DeadRow(s) PROVE TypeOK'
    BY <2>15 DEF DeadRow, CmUpdate
  <2>16. ASSUME NEW s \in Slot, DeadMirror(s) PROVE TypeOK'
    BY <2>16 DEF DeadMirror, MirrorUpdate
  <2>17. ASSUME NEW s \in Slot, DeadPublish(s) PROVE TypeOK'
    BY <2>17 DEF DeadPublish
  <2>18. ASSUME NEW s \in Slot, Flush(s) PROVE TypeOK'
    <3>1. msg[s] \in Msgs
      BY <2>18 DEF Flush
    <3>2. \/ retry' = [retry EXCEPT ![msg[s]][attempt[s]] = @ + 1] /\ dlq' = dlq
          \/ retry' = [retry EXCEPT ![msg[s]][attempt[s] + 1] = @ + 1] /\ dlq' = dlq
          \/ dlq' = [dlq EXCEPT ![msg[s]][attempt[s]] = @ + 1] /\ retry' = retry
      BY <2>18 DEF Flush
    <3>3. /\ retry' \in [Msgs -> [Attempts -> Nat]]
          /\ dlq' \in [Msgs -> [Attempts -> Nat]]
      <4>1. /\ [retry EXCEPT ![msg[s]][attempt[s]] = @ + 1] \in [Msgs -> [Attempts -> Nat]]
            /\ [retry EXCEPT ![msg[s]][attempt[s] + 1] = @ + 1] \in [Msgs -> [Attempts -> Nat]]
            /\ [dlq EXCEPT ![msg[s]][attempt[s]] = @ + 1] \in [Msgs -> [Attempts -> Nat]]
        BY <3>1, OneMoreJob
      <4>. QED BY <4>1, <3>2
    <3>. QED BY <2>18, <3>3 DEF Flush
  <2>19. ASSUME NEW s \in Slot, Ack(s) PROVE TypeOK'
    BY <2>19 DEF Ack
  <2>20. ASSUME NEW s \in Slot, AckThrows(s) PROVE TypeOK'
    BY <2>20 DEF AckThrows
  <2>21. ASSUME NEW s \in Slot, NEW m \in Msgs, NEW a \in Attempts, Deliver(s, m, a)
         PROVE TypeOK'
    <3>1. pc' \in [Slot -> Labels]
      BY <2>21 DEF Deliver, Labels
    <3>2. msg' \in [Slot -> Msgs \cup {NoMsg}] /\ attempt' \in [Slot -> Nat]
      BY SMTT(30), <2>21 DEF Deliver, Attempts
    <3>3. \A t \in Slot : pc'[t] # "idle" => msg'[t] \in Msgs /\ attempt'[t] \in Attempts
      BY <2>21 DEF Deliver
    <3>4. ready' \in [Msgs -> [Attempts -> Nat]]
      BY <2>21 DEF Deliver
    <3>. QED BY <2>21, <3>1, <3>2, <3>3, <3>4 DEF Deliver, Labels
  <2>22. ASSUME NEW m \in Msgs, NEW a \in Attempts, Expire(m, a) PROVE TypeOK'
    BY <2>22 DEF Expire
  <2>23. CASE Tick
    BY <2>23 DEF Tick
  <2>24. ASSUME NEW w \in Workers, Crash(w) PROVE TypeOK'
    <3>1. ready' \in [Msgs -> [Attempts -> Nat]] /\ redelivered' \in [Msgs -> Nat]
      BY <2>24, RequeueType DEF Crash
    <3>2. stops' \in 0..MaxStops
      BY <2>24 DEF Crash
    <3>. QED BY <2>24, <3>1, <3>2 DEF Crash, Requeue, Restart
  <2>25. ASSUME NEW w \in Workers, Shutdown(w) PROVE TypeOK'
    <3>1. ready' \in [Msgs -> [Attempts -> Nat]] /\ redelivered' \in [Msgs -> Nat]
      BY <2>25, RequeueType DEF Shutdown
    <3>2. stops' \in 0..MaxStops
      BY <2>25 DEF Shutdown
    <3>. QED BY <2>25, <3>1, <3>2 DEF Shutdown, Requeue
  <2>26. ASSUME NEW w \in Workers, Exit(w) PROVE TypeOK'
    BY <2>26 DEF Exit, Restart
  <2>27. CASE UNCHANGED vars
    BY <2>27 DEF vars
  <2>. QED
    BY <2>1, <2>2, <2>3, <2>4, <2>5, <2>6, <2>7, <2>8, <2>9, <2>10, <2>11, <2>12, <2>13,
       <2>14, <2>15, <2>16, <2>17, <2>18, <2>19, <2>20, <2>21, <2>22, <2>23, <2>24, <2>25,
       <2>26, <2>27 DEF Next, Handle
<1>. QED BY <1>1, <1>2, PTL DEF Spec
-----------------------------------------------------------------------------
(***************************************************************************)
(* What a handler knows at each await, and which frame it can have in the  *)
(* buffer there.                                                           *)
(***************************************************************************)
HandlerInv ==
    \A s \in Slot :
        /\ pc[s] \in {"acc_row", "acc_mirror", "acc_log"} => id[s] # 0
        /\ pc[s] \in {"acc_mirror", "acc_log", "ack_ok"} => cm[msg[s]].metaId # 0
        /\ frame[s] = "again" => pc[s] \in {"rl_mirror", "ack"}
        /\ frame[s] = "next" => pc[s] \in {"retry_mirror", "ack"} /\ attempt[s] + 1 <= MaxAttempts
        /\ frame[s] = "dlq" => pc[s] = "ack"
        /\ closing[s[1]] => frame[s] = "none"

\* A recorded provider id is never removed from the row.
LEMMA RecordedStays ==
    ASSUME TypeOK, NEW m \in Msgs, NEW st, NEW n \in Nat, NEW k, CmUpdate(m, st, n, k)
    PROVE  /\ \A x \in Msgs : cm[x].metaId # 0 => cm'[x].metaId # 0
           /\ n # 0 => cm'[m].metaId # 0
BY DEF TypeOK, CmUpdate

\* An update without a provider id leaves the recorded ids as they are.
LEMMA RecordedSame ==
    ASSUME TypeOK, NEW m \in Msgs, NEW st, NEW k, CmUpdate(m, st, 0, k)
    PROVE  \A x \in Msgs : cm'[x].metaId = cm[x].metaId
BY DEF TypeOK, CmUpdate

\* Every step keeps HandlerInv: what a handler's label says of its row and frame.
LEMMA HandlerInvariant ==
    ASSUME TypeOK, TypeOK', HandlerInv, [Next]_vars
    PROVE  HandlerInv'
<1>. USE DEF broker, rows, handler, outside, process, Goto, Open
<1>1. ASSUME NEW s \in Slot, Load(s) PROVE HandlerInv'
  BY <1>1 DEF Load, TryQuery, TypeOK, HandlerInv
<1>2. ASSUME NEW s \in Slot, CheckLimit(s) PROVE HandlerInv'
  BY <1>2 DEF CheckLimit, TypeOK, HandlerInv
<1>3. ASSUME NEW s \in Slot, Send(s) PROVE HandlerInv'
  BY <1>3 DEF Send, TypeOK, HandlerInv
<1>4. ASSUME NEW s \in Slot, AcceptRow(s) PROVE HandlerInv'
  <2>1. \/ CmUpdate(msg[s], "accepted_meta", id[s], 1)
        \/ UNCHANGED cm /\ Goto(s, "catch")
    BY <1>4 DEF AcceptRow, TryQuery
  <2>2. /\ \A x \in Msgs : cm[x].metaId # 0 => cm'[x].metaId # 0
        /\ Goto(s, "acc_mirror") => cm'[msg[s]].metaId # 0
    <3>1. msg[s] \in Msgs /\ id[s] \in Nat /\ id[s] # 0 /\ s \in DOMAIN pc
      BY <1>4 DEF AcceptRow, TypeOK, HandlerInv
    <3>2. CASE CmUpdate(msg[s], "accepted_meta", id[s], 1)
      BY <3>1, <3>2, RecordedStays
    <3>3. CASE UNCHANGED cm /\ Goto(s, "catch")
      <4>1. ~Goto(s, "acc_mirror")
        BY <3>1, <3>3
      <4>. QED BY <3>3, <4>1
    <3>. QED BY <2>1, <3>2, <3>3
  <2>. QED BY <1>4, <2>2 DEF AcceptRow, TryQuery, TypeOK, HandlerInv
<1>5. ASSUME NEW s \in Slot, AcceptMirror(s) PROVE HandlerInv'
  BY <1>5 DEF AcceptMirror, TryQuery, TypeOK, HandlerInv
<1>6. ASSUME NEW s \in Slot, AcceptLog(s) PROVE HandlerInv'
  BY <1>6 DEF AcceptLog, TryQuery, TypeOK, HandlerInv
<1>7. ASSUME NEW s \in Slot, FailRow(s) PROVE HandlerInv'
  <2>1. CmUpdate(msg[s], "failed_retryable", 0, 1) \/ UNCHANGED cm
    BY <1>7 DEF FailRow, TryQuery
  <2>2. \A x \in Msgs : cm[x].metaId # 0 => cm'[x].metaId # 0
    BY <1>7, <2>1, RecordedStays DEF FailRow, TypeOK
  <2>. QED BY <1>7, <2>2 DEF FailRow, TryQuery, TypeOK, HandlerInv
<1>8. ASSUME NEW s \in Slot, FailMirror(s) PROVE HandlerInv'
  BY <1>8 DEF FailMirror, TryQuery, TypeOK, HandlerInv
<1>9. ASSUME NEW s \in Slot, FailLog(s) PROVE HandlerInv'
  BY <1>9 DEF FailLog, TypeOK, HandlerInv
<1>10. ASSUME NEW s \in Slot, LimitedRow(s) PROVE HandlerInv'
  BY <1>10 DEF LimitedRow, CmUpdate, TypeOK, HandlerInv
<1>11. ASSUME NEW s \in Slot, LimitedPublish(s) PROVE HandlerInv'
  BY <1>11 DEF LimitedPublish, TypeOK, HandlerInv
<1>12. ASSUME NEW s \in Slot, LimitedMirror(s) PROVE HandlerInv'
  BY <1>12 DEF LimitedMirror, TypeOK, HandlerInv
<1>13. ASSUME NEW s \in Slot, RetryPublish(s) PROVE HandlerInv'
  BY <1>13 DEF RetryPublish, TypeOK, HandlerInv
<1>14. ASSUME NEW s \in Slot, RetryMirror(s) PROVE HandlerInv'
  BY <1>14 DEF RetryMirror, TypeOK, HandlerInv
<1>15. ASSUME NEW s \in Slot, DeadRow(s) PROVE HandlerInv'
  BY <1>15 DEF DeadRow, CmUpdate, TypeOK, HandlerInv
<1>16. ASSUME NEW s \in Slot, DeadMirror(s) PROVE HandlerInv'
  BY <1>16 DEF DeadMirror, TypeOK, HandlerInv
<1>17. ASSUME NEW s \in Slot, DeadPublish(s) PROVE HandlerInv'
  BY <1>17 DEF DeadPublish, TypeOK, HandlerInv
<1>18. ASSUME NEW s \in Slot, Flush(s) PROVE HandlerInv'
  BY <1>18 DEF Flush, TypeOK, HandlerInv
<1>19. ASSUME NEW s \in Slot, Ack(s) PROVE HandlerInv'
  BY <1>19 DEF Ack, TypeOK, HandlerInv
<1>20. ASSUME NEW s \in Slot, AckThrows(s) PROVE HandlerInv'
  BY <1>20 DEF AckThrows, TypeOK, HandlerInv
<1>21. ASSUME NEW s \in Slot, NEW m \in Msgs, NEW a \in Attempts, Deliver(s, m, a)
         PROVE HandlerInv'
  BY <1>21 DEF Deliver, TypeOK, HandlerInv
<1>22. ASSUME NEW m \in Msgs, NEW a \in Attempts, Expire(m, a) PROVE HandlerInv'
  BY <1>22 DEF Expire, TypeOK, HandlerInv
<1>23. CASE Tick
  BY <1>23 DEF Tick, TypeOK, HandlerInv
<1>24. ASSUME NEW w \in Workers, Crash(w) PROVE HandlerInv'
  BY <1>24 DEF Crash, Restart, Requeue, TypeOK, HandlerInv
<1>25. ASSUME NEW w \in Workers, Shutdown(w) PROVE HandlerInv'
  <2>1. \A s \in Slot : s[1] = w => frame[s] = "none"
    BY <1>25, SlotOwner DEF Shutdown
  <2>2. \A s \in Slot : closing'[s[1]] => closing[s[1]] \/ s[1] = w
    BY <1>25, SlotOwner DEF Shutdown, TypeOK
  <2>. QED BY <1>25, <2>1, <2>2 DEF Shutdown, HandlerInv
<1>26. ASSUME NEW w \in Workers, Exit(w) PROVE HandlerInv'
  BY <1>26 DEF Exit, Restart, TypeOK, HandlerInv
<1>27. CASE UNCHANGED vars
  BY <1>27 DEF vars, TypeOK, HandlerInv
<1>. QED
  BY <1>1, <1>2, <1>3, <1>4, <1>5, <1>6, <1>7, <1>8, <1>9, <1>10, <1>11, <1>12, <1>13,
     <1>14, <1>15, <1>16, <1>17, <1>18, <1>19, <1>20, <1>21, <1>22, <1>23, <1>24, <1>25, <1>26,
     <1>27 DEF Next, Handle
-----------------------------------------------------------------------------
(***************************************************************************)
(* The stage implements AtLeastOnce.  Most steps leave every message owed, *)
(* recorded and parked as it was.                                          *)
(***************************************************************************)
Unmoved == \A m \in Msgs : /\ Owed(m)' <=> Owed(m)
                           /\ Recorded(m)' <=> Recorded(m)
                           /\ Parked(m)' <=> Parked(m)

\* A step that moves no message is a stutter of AtLeastOnce.
LEMMA UnmovedStutters ==
    ASSUME Unmoved
    PROVE  UNCHANGED ALO!vars
<1>1. {m \in Msgs : Owed(m)}' = {m \in Msgs : Owed(m)}
  BY DEF Unmoved
<1>2. {m \in Msgs : Recorded(m)}' = {m \in Msgs : Recorded(m)}
  BY DEF Unmoved
<1>3. {m \in Msgs : Parked(m)}' = {m \in Msgs : Parked(m)}
  BY DEF Unmoved
<1>. QED BY <1>1, <1>2, <1>3 DEF ALO!vars

\* A step that touches neither the queues nor who is working on what.
SameHolders == /\ UNCHANGED <<ready, retry, dlq>>
               /\ \A t \in Slot, m \in Msgs : Owing(t, m)' <=> Owing(t, m)
               /\ \A m \in Msgs : Recorded(m)' <=> Recorded(m)

\* A step that leaves queues, holders and rows alone moves no message.
LEMMA SameHoldersUnmoved ==
    ASSUME SameHolders
    PROVE  Unmoved
BY DEF SameHolders, Unmoved, Owed, Queued, Parked

\* The steps of a handler between its delivery and its ack, flushes and the
\* recording of an acceptance apart.
LEMMA QuietSteps ==
    ASSUME TypeOK, HandlerInv, NEW s \in Slot,
           \/ Load(s) \/ CheckLimit(s) \/ Send(s) \/ AcceptMirror(s) \/ AcceptLog(s)
           \/ FailRow(s) \/ FailMirror(s) \/ FailLog(s)
           \/ LimitedRow(s) \/ LimitedPublish(s) \/ LimitedMirror(s)
           \/ RetryPublish(s) \/ RetryMirror(s)
           \/ DeadRow(s) \/ DeadMirror(s) \/ DeadPublish(s) \/ AckThrows(s)
    PROVE  SameHolders
<1>. USE DEF broker, rows, handler, outside, process, Goto, Open, TypeOK, HandlerInv,
             SameHolders, Owing, Shadow, Recorded
<1>1. CASE Load(s)
  BY <1>1 DEF Load, TryQuery
<1>2. CASE CheckLimit(s)
  BY <1>2 DEF CheckLimit
<1>3. CASE Send(s)
  BY <1>3 DEF Send
<1>4. CASE AcceptMirror(s)
  BY <1>4 DEF AcceptMirror, TryQuery
<1>5. CASE AcceptLog(s)
  BY <1>5 DEF AcceptLog, TryQuery
<1>6. CASE FailRow(s)
  <2>1. UNCHANGED cm \/ CmUpdate(msg[s], "failed_retryable", 0, 1)
    BY <1>6 DEF FailRow, TryQuery
  <2>2. \A m \in Msgs : cm'[m].metaId = cm[m].metaId
    BY <1>6, <2>1, RecordedSame DEF FailRow
  <2>3. \A t \in Slot, m \in Msgs : Owing(t, m)' <=> Owing(t, m)
    BY <1>6 DEF FailRow, TryQuery
  <2>. QED BY <1>6, <2>2, <2>3 DEF FailRow
<1>7. CASE FailMirror(s)
  BY <1>7 DEF FailMirror, TryQuery
<1>8. CASE FailLog(s)
  BY <1>8 DEF FailLog
<1>9. CASE LimitedRow(s)
  BY <1>9 DEF LimitedRow, CmUpdate
<1>10. CASE LimitedPublish(s)
  BY <1>10 DEF LimitedPublish
<1>11. CASE LimitedMirror(s)
  BY <1>11 DEF LimitedMirror
<1>12. CASE RetryPublish(s)
  BY <1>12 DEF RetryPublish
<1>13. CASE RetryMirror(s)
  BY <1>13 DEF RetryMirror
<1>14. CASE DeadRow(s)
  BY <1>14 DEF DeadRow, CmUpdate
<1>15. CASE DeadMirror(s)
  BY <1>15 DEF DeadMirror
<1>16. CASE DeadPublish(s)
  BY <1>16 DEF DeadPublish
<1>17. CASE AckThrows(s)
  BY <1>17 DEF AckThrows
<1>. QED
  BY <1>1, <1>2, <1>3, <1>4, <1>5, <1>6, <1>7, <1>8,
     <1>9, <1>10, <1>11, <1>12, <1>13, <1>14, <1>15, <1>16, <1>17

\* What a requeue adds: the messages a handler of w holds.
LEMMA RequeueOwed ==
    ASSUME TypeOK, NEW w \in Workers, Requeue(w)
    PROVE  \A m \in Msgs : Queued(m)' <=> Queued(m) \/ Busy(w, m) # {}
<1>. SUFFICES ASSUME NEW m \in Msgs
              PROVE  Queued(m)' <=> Queued(m) \/ Busy(w, m) # {}
  OBVIOUS
<1>. DEFINE A(a) == {s \in Busy(w, m) : attempt[s] = a}
<1>1. \A a \in Attempts : ready'[m][a] > 0 <=> ready[m][a] > 0 \/ A(a) # {}
  <2>. TAKE a \in Attempts
  <2>1. ready'[m][a] = ready[m][a] + Cardinality(A(a))
    BY DEF Requeue
  <2>2. Cardinality(A(a)) \in Nat /\ (Cardinality(A(a)) > 0 <=> A(a) # {})
    BY BusyCount
  <2>3. ready[m][a] \in Nat
    BY DEF TypeOK
  <2>. HIDE DEF A
  <2>. QED BY <2>1, <2>2, <2>3
<1>2. Busy(w, m) # {} <=> \E a \in Attempts : A(a) # {}
  <2>1. \A s \in Busy(w, m) : attempt[s] \in Attempts
    BY SlotsFinite DEF Busy, TypeOK
  <2>. QED BY <2>1
<1>3. retry' = retry
  BY DEF Requeue
<1>. HIDE DEF A
<1>. QED BY <1>1, <1>2, <1>3 DEF Queued

\* The single steps that do move a message.
LEMMA AcceptRowAccepts ==
    ASSUME TypeOK, HandlerInv, NEW s \in Slot, AcceptRow(s)
    PROVE  [ALO!Next]_(ALO!vars)
<1>1. \A t \in Slot, m \in Msgs : Owing(t, m)' <=> Owing(t, m)
  BY DEF AcceptRow, TryQuery, Goto, Owing, Shadow, Open, TypeOK, process, handler
<1>2. UNCHANGED <<ready, retry, dlq>>
  BY DEF AcceptRow, broker
<1>3. \A m \in Msgs : (Owed(m)' <=> Owed(m)) /\ (Parked(m)' <=> Parked(m))
  BY <1>1, <1>2 DEF Owed, Queued, Parked
<1>4. CASE UNCHANGED cm
  BY <1>1, <1>2, <1>4, SameHoldersUnmoved, UnmovedStutters DEF SameHolders, Recorded
<1>5. CASE CmUpdate(msg[s], "accepted_meta", id[s], 1)
  <2>1. msg[s] \in Msgs /\ id[s] # 0 /\ id[s] \in Nat
    BY DEF AcceptRow, TypeOK, HandlerInv
  <2>2. \A m \in Msgs : Recorded(m)' <=> Recorded(m) \/ m = msg[s]
    BY <1>5, <2>1 DEF CmUpdate, Recorded, TypeOK
  <2>3. {m \in Msgs : Recorded(m)}' = {m \in Msgs : Recorded(m)} \cup {msg[s]}
    BY <2>1, <2>2
  <2>4. /\ {m \in Msgs : Owed(m)}' = {m \in Msgs : Owed(m)}
        /\ {m \in Msgs : Parked(m)}' = {m \in Msgs : Parked(m)}
    BY <1>3
  <2>5. ALO!Accept(msg[s])
    BY <2>3, <2>4 DEF ALO!Accept
  <2>. QED BY <2>1, <2>5 DEF ALO!Next
<1>. QED BY <1>4, <1>5 DEF AcceptRow, TryQuery

\* A delivery moves a job from the queue to a handler: the message stays owed.
LEMMA DeliverUnmoved ==
    ASSUME TypeOK, NEW s \in Slot, NEW m \in Msgs, NEW a \in Attempts, Deliver(s, m, a)
    PROVE  Unmoved
<1>. USE DEF Deliver, Goto, TypeOK, Open, process
<1>1. Owed(m) /\ Owing(s, m)'
  BY DEF Owed, Queued, Owing, Shadow
<1>2. \A x \in Msgs : x # m => (Queued(x)' <=> Queued(x))
  BY DEF Queued
<1>3. \A x \in Msgs, t \in Slot : x # m => (Owing(t, x)' <=> Owing(t, x))
  BY DEF Owing, Shadow
<1>4. UNCHANGED <<cm, dlq>>
  BY DEF rows
<1>. QED BY <1>1, <1>2, <1>3, <1>4 DEF Unmoved, Owed, Recorded, Parked

\* An expiration moves a job from the retry queue to the queue.
LEMMA ExpireUnmoved ==
    ASSUME TypeOK, NEW m \in Msgs, NEW a \in Attempts, Expire(m, a)
    PROVE  Unmoved
<1>. USE DEF Expire, TypeOK
<1>1. Queued(m) /\ Queued(m)'
  BY DEF Queued
<1>2. \A x \in Msgs : x # m => (Queued(x)' <=> Queued(x))
  BY DEF Queued
<1>3. \A x \in Msgs, t \in Slot : Owing(t, x)' <=> Owing(t, x)
  BY DEF Owing, Shadow, Open, handler, process
<1>4. UNCHANGED <<cm, dlq>>
  BY DEF rows
<1>. QED BY <1>1, <1>2, <1>3, <1>4 DEF Unmoved, Owed, Recorded, Parked

\* A flush keeps the message owed, or parks it.
LEMMA FlushSteps ==
    ASSUME TypeOK, HandlerInv, NEW s \in Slot, Flush(s)
    PROVE  [ALO!Next]_(ALO!vars)
<1>1. PICK m \in Msgs : m = msg[s] /\ attempt[s] \in Attempts /\ Owing(s, m)
  BY DEF Flush, TypeOK, HandlerInv, Owing, Shadow, Open
<1>2. \A x \in Msgs, t \in Slot : x # m => (Owing(t, x)' <=> Owing(t, x))
  BY <1>1 DEF Flush, TypeOK, Owing, Shadow, Open, process
<1>3. UNCHANGED <<ready, cm>>
  BY DEF Flush, rows
<1>4. CASE frame[s] \in {"again", "next"}
  <2>1. PICK a \in Attempts : retry' = [retry EXCEPT ![m][a] = @ + 1]
    <3>1. CASE frame[s] = "again"
      BY <1>1, <3>1 DEF Flush
    <3>2. CASE frame[s] = "next"
      <4>1. attempt[s] + 1 \in Attempts
        BY <1>1, <3>2 DEF HandlerInv, Attempts
      <4>. QED BY <1>1, <3>2, <4>1 DEF Flush
    <3>. QED BY <1>4, <3>1, <3>2
  <2>2. dlq' = dlq
    BY <1>4 DEF Flush
  <2>3. retry'[m][a] = retry[m][a] + 1 /\ retry[m][a] \in Nat
    BY <1>1, <2>1 DEF TypeOK
  <2>4. Queued(m)'
    BY <2>3 DEF Queued
  <2>5. \A x \in Msgs : x # m => (Queued(x)' <=> Queued(x))
    BY <1>3, <2>1 DEF Queued, TypeOK
  <2>6. Unmoved
    BY <1>1, <1>2, <1>3, <2>2, <2>4, <2>5 DEF Unmoved, Owed, Recorded, Parked
  <2>. QED BY <2>6, UnmovedStutters
<1>5. CASE frame[s] = "dlq"
  <2>1. dlq' = [dlq EXCEPT ![m][attempt[s]] = @ + 1] /\ retry' = retry
    BY <1>1, <1>5 DEF Flush
  <2>2. dlq'[m][attempt[s]] = dlq[m][attempt[s]] + 1 /\ dlq[m][attempt[s]] \in Nat
    BY <1>1, <2>1 DEF TypeOK
  <2>3. Parked(m)' /\ \A x \in Msgs : x # m => (Parked(x)' <=> Parked(x))
    BY <1>1, <2>1, <2>2 DEF Parked, TypeOK
  <2>4. Owed(m) /\ \A x \in Msgs : x # m => (Owed(x)' <=> Owed(x))
    BY <1>1, <1>2, <1>3, <2>1 DEF Owed, Queued
  <2>5. {x \in Msgs : Parked(x)}' = {x \in Msgs : Parked(x)} \cup {m}
    BY <1>1, <2>3
  <2>6. {x \in Msgs : Owed(x)}' \in {{x \in Msgs : Owed(x)}, {x \in Msgs : Owed(x)} \ {m}}
    <3>1. CASE Owed(m)'
      BY <1>1, <2>4, <3>1
    <3>2. CASE ~Owed(m)'
      BY <1>1, <2>4, <3>2
    <3>. QED BY <3>1, <3>2
  <2>7. {x \in Msgs : Recorded(x)}' = {x \in Msgs : Recorded(x)}
    BY <1>3 DEF Recorded
  <2>8. m \in {x \in Msgs : Owed(x)}
    BY <1>1, <2>4
  <2>9. ALO!Park(m)
    BY <2>5, <2>6, <2>7, <2>8 DEF ALO!Park
  <2>. QED BY <1>1, <2>9 DEF ALO!Next
<1>. QED BY <1>4, <1>5 DEF Flush, TypeOK

\* An ack settles the message, or leaves it owed by another copy.
LEMMA AckSteps ==
    ASSUME TypeOK, HandlerInv, NEW s \in Slot, Ack(s)
    PROVE  [ALO!Next]_(ALO!vars)
<1>1. PICK m \in Msgs : m = msg[s]
  BY DEF Ack, TypeOK
<1>2. UNCHANGED <<ready, retry, dlq, cm>>
  BY DEF Ack, broker, rows
<1>3. \A x \in Msgs, t \in Slot : t # s => (Owing(t, x)' <=> Owing(t, x))
  BY DEF Ack, Goto, TypeOK, Owing, Shadow, Open, process
<1>4. \A x \in Msgs : ~Owing(s, x)'
  BY DEF Ack, Goto, TypeOK, Owing
<1>5. \A x \in Msgs : /\ x # m => ~Owing(s, x)
                      /\ Owing(s, x) => Recorded(m)
  BY <1>1 DEF Ack, Owing, Shadow, HandlerInv, Recorded
<1>6. \A x \in Msgs : x # m => (Owed(x)' <=> Owed(x))
  BY <1>2, <1>3, <1>4, <1>5 DEF Owed, Queued
<1>7. Owed(m)' => Owed(m)
  BY <1>2, <1>3, <1>4 DEF Owed, Queued
<1>8. CASE Owed(m)' <=> Owed(m)
  BY <1>2, <1>6, <1>8, UnmovedStutters DEF Unmoved, Recorded, Parked
<1>9. CASE Owed(m) /\ ~Owed(m)'
  <2>1. Recorded(m)
    BY <1>2, <1>3, <1>5, <1>9 DEF Owed, Queued
  <2>2. {x \in Msgs : Owed(x)}' = {x \in Msgs : Owed(x)} \ {m}
    BY <1>6, <1>9
  <2>3. /\ {x \in Msgs : Recorded(x)}' = {x \in Msgs : Recorded(x)}
        /\ {x \in Msgs : Parked(x)}' = {x \in Msgs : Parked(x)}
    BY <1>2 DEF Recorded, Parked
  <2>4. m \in {x \in Msgs : Owed(x)} /\ m \in {x \in Msgs : Recorded(x)}
    BY <1>9, <2>1
  <2>5. ALO!Settle(m)
    BY <2>2, <2>3, <2>4 DEF ALO!Settle
  <2>. QED BY <2>5 DEF ALO!Next
<1>. QED BY <1>7, <1>8, <1>9

\* A lost channel hands the messages of its handlers out once more.
LEMMA LostChannel ==
    ASSUME TypeOK, NEW w \in Workers, ~closing[w], Requeue(w), UNCHANGED <<cm, dlq>>,
           \A t \in Slot, m \in Msgs : Owing(t, m)' <=> Owing(t, m) /\ t \notin SlotsOf(w)
    PROVE  [ALO!Next]_(ALO!vars)
<1>. DEFINE M == {m \in Msgs : Busy(w, m) # {}}
<1>1. \A m \in Msgs : Queued(m)' <=> Queued(m) \/ Busy(w, m) # {}
  BY RequeueOwed
<1>2. \A m \in Msgs : \A t \in Slot : Owing(t, m) /\ t \in SlotsOf(w) => Busy(w, m) # {}
  BY DEF Owing, Busy
<1>3. \A m \in Msgs : Owed(m)' <=> Owed(m) \/ Busy(w, m) # {}
  <2>. TAKE m \in Msgs
  <2>1. CASE Busy(w, m) # {}
    BY <1>1, <2>1 DEF Owed
  <2>2. CASE Busy(w, m) = {}
    <3>1. \A t \in Slot : Owing(t, m)' <=> Owing(t, m)
      BY <1>2, <2>2
    <3>. QED BY <1>1, <2>2, <3>1 DEF Owed
  <2>. QED BY <2>1, <2>2
<1>4. {m \in Msgs : Owed(m)}' = {m \in Msgs : Owed(m)} \cup M
  BY <1>3
<1>5. /\ {m \in Msgs : Recorded(m)}' = {m \in Msgs : Recorded(m)}
      /\ {m \in Msgs : Parked(m)}' = {m \in Msgs : Parked(m)}
  BY DEF Recorded, Parked
<1>6. ALO!Redeliver(M) /\ M \in SUBSET Msgs
  <2>. HIDE DEF M
  <2>1. ALO!Redeliver(M)
    BY <1>4, <1>5 DEF ALO!Redeliver
  <2>. QED BY <2>1 DEF M
<1>. QED BY <1>6 DEF ALO!Next

\* Crash, shutdown and exit redeliver messages or change nothing.
LEMMA StopSteps ==
    ASSUME TypeOK, HandlerInv, NEW w \in Workers, Crash(w) \/ Shutdown(w) \/ Exit(w)
    PROVE  [ALO!Next]_(ALO!vars)
<1>1. CASE Crash(w)
  <2>1. \A t \in Slot, m \in Msgs : Owing(t, m)' <=> Owing(t, m) /\ t \notin SlotsOf(w)
    BY <1>1 DEF Crash, Restart, Owing, Shadow, Open, TypeOK
  <2>. QED BY <1>1, <2>1, LostChannel DEF Crash, Requeue, rows
<1>2. CASE Shutdown(w)
  <2>1. \A t \in Slot : Open(t)' <=> Open(t) /\ t \notin SlotsOf(w)
    BY <1>2, SlotOwner DEF Shutdown, Open, TypeOK
  <2>2. \A t \in Slot, m \in Msgs : Owing(t, m)' <=> Owing(t, m) /\ t \notin SlotsOf(w)
    BY <1>2, <2>1 DEF Shutdown, Owing, Shadow, handler
  <2>. QED BY <1>2, <2>2, LostChannel DEF Shutdown, Requeue, rows
<1>3. CASE Exit(w)
  <2>1. \A t \in Slot : t \in SlotsOf(w) => ~Open(t) /\ pc'[t] = "idle"
    BY <1>3, SlotOwner DEF Exit, Restart, Open
  <2>2. \A t \in Slot : t \notin SlotsOf(w) => (Open(t)' <=> Open(t))
    BY <1>3, SlotOwner DEF Exit, Open, TypeOK
  <2>3. \A t \in Slot, m \in Msgs : Owing(t, m)' <=> Owing(t, m)
    BY <1>3, <2>1, <2>2 DEF Exit, Restart, Owing, Shadow
  <2>4. SameHolders
    BY <1>3, <2>3 DEF Exit, SameHolders, Recorded, broker, rows
  <2>. QED BY <2>4, SameHoldersUnmoved, UnmovedStutters
<1>. QED BY <1>1, <1>2, <1>3

\* Every step of the stage is a step or a stutter of AtLeastOnce.
LEMMA StepRefines ==
    ASSUME TypeOK, HandlerInv, [Next]_vars
    PROVE  [ALO!Next]_(ALO!vars)
<1>1. ASSUME NEW s \in Slot, Handle(s)
      PROVE  [ALO!Next]_(ALO!vars)
  BY <1>1, QuietSteps, AcceptRowAccepts, FlushSteps, AckSteps,
     SameHoldersUnmoved, UnmovedStutters DEF Handle
<1>2. ASSUME NEW s \in Slot, NEW m \in Msgs, NEW a \in Attempts, Deliver(s, m, a)
      PROVE  [ALO!Next]_(ALO!vars)
  BY <1>2, DeliverUnmoved, UnmovedStutters
<1>3. ASSUME NEW m \in Msgs, NEW a \in Attempts, Expire(m, a)
      PROVE  [ALO!Next]_(ALO!vars)
  BY <1>3, ExpireUnmoved, UnmovedStutters
<1>4. CASE Tick \/ UNCHANGED vars
  <2>1. UNCHANGED <<broker, cm, handler, process>>
    BY <1>4 DEF Tick, vars, rows
  <2>2. SameHolders
    BY <2>1 DEF SameHolders, Owing, Shadow, Open, Recorded, broker, handler, process
  <2>. QED BY <2>2, SameHoldersUnmoved, UnmovedStutters
<1>5. ASSUME NEW w \in Workers, Crash(w) \/ Shutdown(w) \/ Exit(w)
      PROVE  [ALO!Next]_(ALO!vars)
  BY <1>5, StopSteps
<1>. QED BY <1>1, <1>2, <1>3, <1>4, <1>5 DEF Next

\* The initial states are initial states of AtLeastOnce.
LEMMA InitRefines ==
    ASSUME Init
    PROVE  ALO!Init
<1>1. 1 \in Attempts
  BY DEF Attempts
<1>2. \A m \in Msgs : Owed(m) /\ ~Recorded(m) /\ ~Parked(m)
  BY <1>1 DEF Init, Owed, Queued, Recorded, Parked
<1>. QED BY <1>2 DEF ALO!Init

\* The types and HandlerInv hold in every reachable state.
LEMMA InvariantHolds == Spec => [](TypeOK /\ HandlerInv)
<1>1. Init => HandlerInv
  BY DEF Init, HandlerInv
<1>2. TypeOK /\ TypeOK' /\ HandlerInv /\ [Next]_vars => HandlerInv'
  BY HandlerInvariant
<1>. QED BY <1>1, <1>2, TypeCorrect, PTL DEF Spec

(***************************************************************************)
(* Stage 2 delivers at least once: every behaviour of MessageSend is one   *)
(* of AtLeastOnce.  (consumeMessageQueue acks a job only when its message  *)
(* is on record, retried, or parked.)                                      *)
(***************************************************************************)
THEOREM Refinement == Spec => AtLeastOnceSpec
<1>1. Init => ALO!Init
  BY InitRefines
<1>2. TypeOK /\ HandlerInv /\ [Next]_vars => [ALO!Next]_(ALO!vars)
  BY StepRefines
<1>. QED BY <1>1, <1>2, InvariantHolds, PTL DEF Spec, AtLeastOnceSpec, ALO!Spec

(***************************************************************************)
(* No launched message is ever dropped by stage 2, whatever process dies   *)
(* and whatever query fails.                                               *)
(***************************************************************************)
THEOREM NoJobLostHolds == Spec => []NoJobLost
<1>1. ALO!Init => ALO!NothingDropped
  BY DEF ALO!Init, ALO!NothingDropped
<1>2. ALO!NothingDropped /\ [ALO!Next]_(ALO!vars) => ALO!NothingDropped'
  BY DEF ALO!NothingDropped, ALO!Next, ALO!Accept, ALO!Park, ALO!Settle, ALO!Redeliver, ALO!vars
<1>3. ALO!NothingDropped => NoJobLost
  BY DEF ALO!NothingDropped, NoJobLost
<1>. QED BY <1>1, <1>2, <1>3, Refinement, PTL DEF AtLeastOnceSpec, ALO!Spec

-----------------------------------------------------------------------------
(***************************************************************************)
(* Why a parked message has failed MAX_ATTEMPTS times: the attempt number  *)
(* of a job, wherever it is, is at most one more than the failures counted *)
(* so far, and a handler that has entered the generic branch of the catch  *)
(* block has counted its own.                                              *)
(***************************************************************************)
AttemptInv ==
    /\ \A m \in Msgs, a \in Attempts :
          /\ ready[m][a] > 0 => failed[m] + 1 >= a
          /\ retry[m][a] > 0 => failed[m] + 1 >= a
          /\ dlq[m][a] > 0 => failed[m] >= MaxAttempts
    /\ \A s \in Slot :
          /\ pc[s] # "idle" => failed[msg[s]] + 1 >= attempt[s]
          /\ pc[s] = "retry_mirror" \/ frame[s] = "next" => failed[msg[s]] >= attempt[s]
          /\ pc[s] \in {"dead_mirror", "dead_pub"} \/ frame[s] = "dlq" => failed[msg[s]] >= MaxAttempts

\* What a requeue puts back had the failures its attempt number says.
LEMMA RequeueAttempts ==
    ASSUME TypeOK, AttemptInv, NEW w \in Workers, Requeue(w)
    PROVE  \A m \in Msgs, a \in Attempts : ready'[m][a] > 0 => failed[m] + 1 >= a
<1>. SUFFICES ASSUME NEW m \in Msgs, NEW a \in Attempts, ready'[m][a] > 0
              PROVE  failed[m] + 1 >= a
  OBVIOUS
<1>. DEFINE A == {s \in Busy(w, m) : attempt[s] = a}
<1>1. ready'[m][a] = ready[m][a] + Cardinality(A)
  BY DEF Requeue
<1>2. Cardinality(A) \in Nat /\ (Cardinality(A) > 0 <=> A # {})
  BY BusyCount
<1>3. ready[m][a] \in Nat
  BY DEF TypeOK
<1>4. CASE A # {}
  <2>1. PICK s \in Slot : pc[s] # "idle" /\ msg[s] = m /\ attempt[s] = a
    BY <1>4, SlotsFinite DEF Busy
  <2>. QED BY <2>1 DEF AttemptInv
<1>5. CASE ready[m][a] > 0
  BY <1>5 DEF AttemptInv
<1>6. A # {} \/ ready[m][a] > 0
  <2>. HIDE DEF A
  <2>. QED BY <1>1, <1>2, <1>3
<1>. QED BY <1>4, <1>5, <1>6

\* Counting one more failure of the handler's message keeps what is known.
LEMMA OneMoreFailure ==
    ASSUME TypeOK, AttemptInv, NEW x \in Msgs,
           failed' = [failed EXCEPT ![x] = @ + 1],
           UNCHANGED <<ready, retry, dlq>>
    PROVE  /\ \A m \in Msgs, a \in Attempts :
                 /\ ready'[m][a] > 0 => failed'[m] + 1 >= a
                 /\ retry'[m][a] > 0 => failed'[m] + 1 >= a
                 /\ dlq'[m][a] > 0 => failed'[m] >= MaxAttempts
           /\ \A m \in Msgs : failed'[m] \in Nat /\ failed[m] \in Nat /\ failed'[m] >= failed[m]
           /\ failed'[x] = failed[x] + 1
<1>1. /\ \A m \in Msgs : failed'[m] \in Nat /\ failed[m] \in Nat /\ failed'[m] >= failed[m]
      /\ failed'[x] = failed[x] + 1
  BY DEF TypeOK
<1>2. ASSUME NEW m \in Msgs, NEW a \in Attempts
      PROVE  /\ ready'[m][a] > 0 => failed'[m] + 1 >= a
             /\ retry'[m][a] > 0 => failed'[m] + 1 >= a
             /\ dlq'[m][a] > 0 => failed'[m] >= MaxAttempts
  BY <1>1 DEF AttemptInv, Attempts
<1>. QED BY <1>1, <1>2

\* Every step keeps AttemptInv: a job of attempt a comes after a - 1 failures.
LEMMA AttemptInvariant ==
    ASSUME TypeOK, HandlerInv, AttemptInv, [Next]_vars
    PROVE  AttemptInv'
<1>. USE DEF broker, rows, handler, outside, process, Goto, Open, TypeOK, AttemptInv
<1>1. ASSUME NEW s \in Slot, Load(s) PROVE AttemptInv'
  BY <1>1 DEF Load, TryQuery, HandlerInv
<1>2. ASSUME NEW s \in Slot, CheckLimit(s) PROVE AttemptInv'
  BY <1>2 DEF CheckLimit, HandlerInv
<1>3. ASSUME NEW s \in Slot, Send(s) PROVE AttemptInv'
  BY <1>3 DEF Send, HandlerInv
<1>4. ASSUME NEW s \in Slot, AcceptRow(s) PROVE AttemptInv'
  BY <1>4 DEF AcceptRow, TryQuery, HandlerInv
<1>5. ASSUME NEW s \in Slot, AcceptMirror(s) PROVE AttemptInv'
  BY <1>5 DEF AcceptMirror, TryQuery, HandlerInv
<1>6. ASSUME NEW s \in Slot, AcceptLog(s) PROVE AttemptInv'
  BY <1>6 DEF AcceptLog, TryQuery, HandlerInv
<1>7. ASSUME NEW s \in Slot, FailRow(s) PROVE AttemptInv'
  BY <1>7 DEF FailRow, TryQuery, HandlerInv
<1>8. ASSUME NEW s \in Slot, FailMirror(s) PROVE AttemptInv'
  BY <1>8 DEF FailMirror, TryQuery, HandlerInv
<1>9. ASSUME NEW s \in Slot, FailLog(s) PROVE AttemptInv'
  BY <1>9 DEF FailLog, HandlerInv
<1>10. ASSUME NEW s \in Slot, LimitedRow(s) PROVE AttemptInv'
  BY <1>10 DEF LimitedRow, HandlerInv
<1>11. ASSUME NEW s \in Slot, LimitedPublish(s) PROVE AttemptInv'
  BY <1>11 DEF LimitedPublish, HandlerInv
<1>12. ASSUME NEW s \in Slot, LimitedMirror(s) PROVE AttemptInv'
  BY <1>12 DEF LimitedMirror, HandlerInv
<1>13. ASSUME NEW s \in Slot, RetryPublish(s) PROVE AttemptInv'
  <2>1. PICK x \in Msgs : x = msg[s] /\ pc[s] = "catch" /\ attempt[s] \in Attempts
    BY <1>13 DEF RetryPublish
  <2>2. failed' = [failed EXCEPT ![x] = @ + 1]
    BY <1>13, <2>1 DEF RetryPublish
  <2>3. UNCHANGED <<ready, retry, dlq, msg, attempt>>
    BY <1>13 DEF RetryPublish
  <2>4. /\ \A m \in Msgs, a \in Attempts :
             /\ ready'[m][a] > 0 => failed'[m] + 1 >= a
             /\ retry'[m][a] > 0 => failed'[m] + 1 >= a
             /\ dlq'[m][a] > 0 => failed'[m] >= MaxAttempts
        /\ \A m \in Msgs : failed'[m] \in Nat /\ failed[m] \in Nat /\ failed'[m] >= failed[m]
        /\ failed'[x] = failed[x] + 1
    BY <2>1, <2>2, <2>3, OneMoreFailure
  <2>5. failed[x] + 1 >= attempt[s]
    BY <2>1
  <2>6. \A t \in Slot : t # s => pc'[t] = pc[t] /\ frame'[t] = frame[t]
    BY <1>13 DEF RetryPublish
  <2>7. ASSUME NEW t \in Slot
        PROVE  /\ pc'[t] # "idle" => failed'[msg[t]] + 1 >= attempt[t]
               /\ pc'[t] = "retry_mirror" \/ frame'[t] = "next" => failed'[msg[t]] >= attempt[t]
               /\ pc'[t] \in {"dead_mirror", "dead_pub"} \/ frame'[t] = "dlq"
                    => failed'[msg[t]] >= MaxAttempts
    <3>1. CASE t = s
      BY <1>13, <2>1, <2>4, <2>5, <3>1 DEF RetryPublish, HandlerInv, Attempts
    <3>2. CASE t # s
      <4>1. pc[t] # "idle" => msg[t] \in Msgs /\ attempt[t] \in Nat
        OBVIOUS
      <4>2. frame[t] # "none" => pc[t] # "idle"
        OBVIOUS
      <4>. QED BY <2>4, <2>6, <3>2, <4>1, <4>2
    <3>. QED BY <3>1, <3>2
  <2>. QED BY <2>3, <2>4, <2>7
<1>14. ASSUME NEW s \in Slot, RetryMirror(s) PROVE AttemptInv'
  BY <1>14 DEF RetryMirror, HandlerInv
<1>15. ASSUME NEW s \in Slot, DeadRow(s) PROVE AttemptInv'
  <2>1. PICK x \in Msgs : x = msg[s] /\ pc[s] = "catch" /\ attempt[s] = MaxAttempts
    BY <1>15 DEF DeadRow, Attempts
  <2>2. failed' = [failed EXCEPT ![x] = @ + 1]
    BY <1>15, <2>1 DEF DeadRow
  <2>3. UNCHANGED <<ready, retry, dlq, msg, attempt>>
    BY <1>15 DEF DeadRow
  <2>4. /\ \A m \in Msgs, a \in Attempts :
             /\ ready'[m][a] > 0 => failed'[m] + 1 >= a
             /\ retry'[m][a] > 0 => failed'[m] + 1 >= a
             /\ dlq'[m][a] > 0 => failed'[m] >= MaxAttempts
        /\ \A m \in Msgs : failed'[m] \in Nat /\ failed[m] \in Nat /\ failed'[m] >= failed[m]
        /\ failed'[x] = failed[x] + 1
    BY <2>1, <2>2, <2>3, OneMoreFailure
  <2>5. failed[x] + 1 >= attempt[s]
    BY <2>1
  <2>6. \A t \in Slot : t # s => pc'[t] = pc[t] /\ frame'[t] = frame[t]
    BY <1>15 DEF DeadRow
  <2>7. ASSUME NEW t \in Slot
        PROVE  /\ pc'[t] # "idle" => failed'[msg[t]] + 1 >= attempt[t]
               /\ pc'[t] = "retry_mirror" \/ frame'[t] = "next" => failed'[msg[t]] >= attempt[t]
               /\ pc'[t] \in {"dead_mirror", "dead_pub"} \/ frame'[t] = "dlq"
                    => failed'[msg[t]] >= MaxAttempts
    <3>1. CASE t = s
      BY <1>15, <2>1, <2>4, <2>5, <3>1 DEF DeadRow, HandlerInv, Attempts
    <3>2. CASE t # s
      <4>1. pc[t] # "idle" => msg[t] \in Msgs /\ attempt[t] \in Nat
        OBVIOUS
      <4>2. frame[t] # "none" => pc[t] # "idle"
        OBVIOUS
      <4>. QED BY <2>4, <2>6, <3>2, <4>1, <4>2
    <3>. QED BY <3>1, <3>2
  <2>. QED BY <2>3, <2>4, <2>7
<1>16. ASSUME NEW s \in Slot, DeadMirror(s) PROVE AttemptInv'
  BY <1>16 DEF DeadMirror, HandlerInv
<1>17. ASSUME NEW s \in Slot, DeadPublish(s) PROVE AttemptInv'
  BY <1>17 DEF DeadPublish, HandlerInv
<1>18. ASSUME NEW s \in Slot, Flush(s) PROVE AttemptInv'
  <2>1. PICK x \in Msgs : x = msg[s] /\ pc[s] # "idle" /\ attempt[s] \in Attempts
    BY <1>18 DEF Flush
  <2>2. UNCHANGED <<ready, pc, msg, attempt, failed>>
    BY <1>18 DEF Flush
  <2>3. /\ \A m \in Msgs, a \in Attempts : retry'[m][a] > 0 => failed[m] + 1 >= a
        /\ \A m \in Msgs, a \in Attempts : dlq'[m][a] > 0 => failed[m] >= MaxAttempts
    <3>1. CASE frame[s] = "again"
      <4>1. retry' = [retry EXCEPT ![x][attempt[s]] = @ + 1] /\ dlq' = dlq
        BY <1>18, <2>1, <3>1 DEF Flush
      <4>. QED BY <2>1, <4>1
    <3>2. CASE frame[s] = "next"
      <4>1. retry' = [retry EXCEPT ![x][attempt[s] + 1] = @ + 1] /\ dlq' = dlq
        BY <1>18, <2>1, <3>2 DEF Flush
      <4>2. failed[x] >= attempt[s]
        BY <2>1, <3>2
      <4>3. \A m \in Msgs, a \in Attempts :
              m # x \/ a # attempt[s] + 1 => retry'[m][a] = retry[m][a]
        BY <2>1, <4>1
      <4>4. failed[x] \in Nat /\ attempt[s] \in Nat
        BY <2>1
      <4>. QED BY <4>1, <4>2, <4>3, <4>4
    <3>3. CASE frame[s] = "dlq"
      <4>1. dlq' = [dlq EXCEPT ![x][attempt[s]] = @ + 1] /\ retry' = retry
        BY <1>18, <2>1, <3>3 DEF Flush
      <4>2. failed[x] >= MaxAttempts
        BY <2>1, <3>3
      <4>. QED BY <2>1, <4>1, <4>2
    <3>. QED BY <1>18, <3>1, <3>2, <3>3 DEF Flush
  <2>4. \A t \in Slot : frame'[t] = "none" \/ frame'[t] = frame[t]
    BY <1>18 DEF Flush
  <2>. QED BY <2>2, <2>3, <2>4
<1>19. ASSUME NEW s \in Slot, Ack(s) PROVE AttemptInv'
  BY <1>19 DEF Ack, HandlerInv
<1>20. ASSUME NEW s \in Slot, AckThrows(s) PROVE AttemptInv'
  BY <1>20 DEF AckThrows, HandlerInv
<1>21. ASSUME NEW s \in Slot, NEW m \in Msgs, NEW a \in Attempts, Deliver(s, m, a)
      PROVE AttemptInv'
  BY <1>21 DEF Deliver
<1>22. ASSUME NEW m \in Msgs, NEW a \in Attempts, Expire(m, a) PROVE AttemptInv'
  BY <1>22 DEF Expire
<1>23. CASE Tick \/ UNCHANGED vars
  BY <1>23 DEF Tick, vars
<1>24. ASSUME NEW w \in Workers, Crash(w) PROVE AttemptInv'
  <2>1. \A m \in Msgs, a \in Attempts : ready'[m][a] > 0 => failed[m] + 1 >= a
    BY <1>24, RequeueAttempts DEF Crash
  <2>. QED BY <1>24, <2>1 DEF Crash, Requeue, Restart
<1>25. ASSUME NEW w \in Workers, Shutdown(w) PROVE AttemptInv'
  <2>1. \A m \in Msgs, a \in Attempts : ready'[m][a] > 0 => failed[m] + 1 >= a
    BY <1>25, RequeueAttempts DEF Shutdown
  <2>. QED BY <1>25, <2>1 DEF Shutdown, Requeue
<1>26. ASSUME NEW w \in Workers, Exit(w) PROVE AttemptInv'
  BY <1>26 DEF Exit, Restart
<1>. QED
  BY <1>1, <1>2, <1>3, <1>4, <1>5, <1>6, <1>7, <1>8, <1>9, <1>10, <1>11, <1>12, <1>13,
     <1>14, <1>15, <1>16, <1>17, <1>18, <1>19, <1>20, <1>21, <1>22, <1>23, <1>24, <1>25, <1>26 DEF Next, Handle

(***************************************************************************)
(* A message is in the dead-letter queue only after MAX_ATTEMPTS attempts  *)
(* of it ended in an error other than the rate limit.                      *)
(***************************************************************************)
THEOREM ParkedAfterMaxAttemptsHolds == Spec => []ParkedAfterMaxAttempts
<1>1. Init => AttemptInv
  BY DEF Init, AttemptInv, Attempts
<1>2. TypeOK /\ HandlerInv /\ AttemptInv /\ [Next]_vars => AttemptInv'
  BY AttemptInvariant
<1>3. AttemptInv => ParkedAfterMaxAttempts
  BY DEF AttemptInv, ParkedAfterMaxAttempts, Parked
<1>. QED BY <1>1, <1>2, <1>3, InvariantHolds, PTL DEF Spec

-----------------------------------------------------------------------------
(***************************************************************************)
(* The life of a message no consumer was lost for: what MessageSend keeps  *)
(* for every message until a crash or a shutdown hands its job out anew.   *)
(*                                                                         *)
(* Such a message is in one stage at a time.  It waits in one queue with   *)
(* the attempt number its failures say, or one handler owes it, or it is   *)
(* parked, or it is over with its outcome on record.  Shadow handlers of   *)
(* earlier attempts may still run beside it, but all they write is the     *)
(* status in the mirror.                                                   *)
(*                                                                         *)
(* The last part is about every message, disturbed or not: a budget of     *)
(* tokens bounds how often Meta is called for it.                          *)
(***************************************************************************)
Nowhere(q) == \A b \in Attempts : q[b] = 0
OnlyAt(q, a) == \A b \in Attempts : q[b] = IF b = a THEN 1 ELSE 0

NoJobIn(m) == Nowhere(ready[m]) /\ Nowhere(retry[m]) /\ Nowhere(dlq[m])
Nobody(m) == \A t \in Slot : ~Owing(t, m)

Accepted(m) == cm[m].status = "accepted_meta"
Permanent(m) == cm[m].status = "failed_permanent"

\* The job of m waits for a handler.
Waiting(m) ==
    /\ Nowhere(dlq[m]) /\ Nobody(m)
    /\ ~Permanent(m) /\ cm[m].attempts <= failed[m]
    /\ \E a \in Attempts :
          /\ failed[m] = a - 1
          /\ \/ OnlyAt(ready[m], a) /\ Nowhere(retry[m])
             \/ Nowhere(ready[m]) /\ OnlyAt(retry[m], a)

\* What the rows say of m while handler s owes its job, label by label.
Progress(s, m) ==
    /\ pc[s] \in {"load", "limit", "send", "acc_row", "fail_row", "rl_row", "rl_pub"}
          \/ frame[s] = "again"
       => failed[m] = attempt[s] - 1 /\ cm[m].attempts <= failed[m] /\ ~Permanent(m)
    /\ pc[s] \in {"acc_mirror", "acc_log", "ack_ok", "fail_mirror", "fail_log", "catch"}
       => failed[m] = attempt[s] - 1 /\ cm[m].attempts <= failed[m] + 1 /\ ~Permanent(m)
    /\ pc[s] = "retry_mirror" \/ frame[s] = "next"
       => failed[m] = attempt[s] /\ cm[m].attempts <= failed[m] /\ ~Permanent(m)
    /\ pc[s] \in {"dead_mirror", "dead_pub"} \/ frame[s] = "dlq"
       => failed[m] = MaxAttempts /\ cm[m].attempts <= failed[m] + 1 /\ Permanent(m)
    /\ pc[s] \in {"acc_mirror", "acc_log", "ack_ok"} => Accepted(m)
    /\ pc[s] \in {"acc_mirror", "acc_log"} => cm[m].metaId = id[s]
    /\ pc[s] \in {"acc_log", "ack_ok"} => cm[m].metaId = mirror[m].providerId
    /\ pc[s] = "ack_ok" => cm[m].metaId \in logged[m]

\* One handler owes the job of m.
HeldBy(s, m) ==
    /\ NoJobIn(m)
    /\ \A t \in Slot : Owing(t, m) <=> t = s
    /\ Progress(s, m)

Held(m) == \E s \in Slot : HeldBy(s, m)

\* The job of m is in the dead-letter queue.
Dead(m) ==
    /\ Nowhere(ready[m]) /\ Nowhere(retry[m]) /\ Nobody(m)
    /\ \E a \in Attempts : OnlyAt(dlq[m], a)
    /\ Permanent(m) /\ failed[m] = MaxAttempts /\ cm[m].attempts <= failed[m] + 1

\* The job of m is over.
Done(m) ==
    /\ NoJobIn(m) /\ Nobody(m)
    /\ Accepted(m) /\ cm[m].attempts <= failed[m] + 1
    /\ cm[m].metaId = mirror[m].providerId
    /\ cm[m].metaId \in logged[m]

Life(m) == Waiting(m) \/ Held(m) \/ Dead(m) \/ Done(m)

\* No handler of a closing process has it.
OpenHolders(m) == \A s \in Slot : pc[s] # "idle" /\ msg[s] = m => Open(s)

LifeInv == \A m \in Msgs : Undisturbed(m) => Life(m) /\ OpenHolders(m)
-----------------------------------------------------------------------------
\* A step that leaves the job of m and the handler that owes it alone, but for
\* the status in the mirror, leaves m in its stage.
LEMMA Untouched ==
    ASSUME NEW m \in Msgs, Life(m),
           ready'[m] = ready[m], retry'[m] = retry[m], dlq'[m] = dlq[m],
           failed'[m] = failed[m], cm'[m] = cm[m], logged'[m] = logged[m],
           mirror'[m].providerId = mirror[m].providerId,
           \A t \in Slot :
              /\ Owing(t, m)' <=> Owing(t, m)
              /\ Owing(t, m) => /\ pc'[t] = pc[t] /\ attempt'[t] = attempt[t]
                                /\ id'[t] = id[t] /\ frame'[t] = frame[t]
    PROVE  Life(m)'
<1>1. Nobody(m) <=> Nobody(m)'
  BY DEF Nobody
<1>2. CASE Waiting(m)
  <2>1. Waiting(m)'
    BY <1>1, <1>2 DEF Waiting, Nowhere, OnlyAt, Permanent
  <2>. QED BY <2>1 DEF Life
<1>3. CASE Held(m)
  <2>1. PICK s \in Slot : HeldBy(s, m)
    BY <1>3 DEF Held
  <2>2. Owing(s, m) /\ \A t \in Slot : Owing(t, m)' <=> t = s
    BY <2>1 DEF HeldBy
  <2>3. pc'[s] = pc[s] /\ attempt'[s] = attempt[s] /\ id'[s] = id[s] /\ frame'[s] = frame[s]
    BY <2>2
  <2>4. Progress(s, m)'
    BY <2>1, <2>3 DEF HeldBy, Progress, Accepted, Permanent
  <2>5. NoJobIn(m)'
    BY <2>1 DEF HeldBy, NoJobIn, Nowhere
  <2>6. HeldBy(s, m)'
    BY <2>2, <2>4, <2>5 DEF HeldBy
  <2>. QED BY <2>6 DEF Life, Held
<1>4. CASE Dead(m)
  <2>1. Dead(m)'
    BY <1>1, <1>4 DEF Dead, Nowhere, OnlyAt, Permanent
  <2>. QED BY <2>1 DEF Life
<1>5. CASE Done(m)
  <2>1. Done(m)'
    BY <1>1, <1>5 DEF Done, NoJobIn, Nowhere, Accepted
  <2>. QED BY <2>1 DEF Life
<1>. QED BY <1>2, <1>3, <1>4, <1>5 DEF Life

-----------------------------------------------------------------------------
\* What a step of one handler leaves alone: the other handlers and the other
\* messages.
LEMMA HandlerReach ==
    ASSUME TypeOK, NEW s \in Slot, Handle(s)
    PROVE  /\ pc[s] # "idle" /\ msg[s] \in Msgs /\ attempt[s] \in Attempts
           /\ UNCHANGED <<ready, redelivered, closing>>
           /\ msg'[s] \in {msg[s], NoMsg}
           /\ \A t \in Slot : t # s =>
                 /\ pc'[t] = pc[t] /\ msg'[t] = msg[t] /\ attempt'[t] = attempt[t]
                 /\ id'[t] = id[t] /\ frame'[t] = frame[t]
           /\ \A m \in Msgs : m # msg[s] =>
                 /\ retry'[m] = retry[m] /\ dlq'[m] = dlq[m] /\ failed'[m] = failed[m]
                 /\ sends'[m] = sends[m]
                 /\ cm'[m] = cm[m] /\ mirror'[m] = mirror[m] /\ logged'[m] = logged[m]
<1>. USE DEF broker, rows, handler, outside, process, Goto, TypeOK
<1>1. CASE Load(s)
  BY <1>1 DEF Load, TryQuery
<1>2. CASE CheckLimit(s)
  BY <1>2 DEF CheckLimit
<1>3. CASE Send(s)
  BY <1>3 DEF Send
<1>4. CASE AcceptRow(s)
  BY <1>4 DEF AcceptRow, TryQuery, CmUpdate
<1>5. CASE AcceptMirror(s)
  BY <1>5 DEF AcceptMirror, TryQuery, MirrorUpdate
<1>6. CASE AcceptLog(s)
  BY <1>6 DEF AcceptLog, TryQuery
<1>7. CASE FailRow(s)
  BY <1>7 DEF FailRow, TryQuery, CmUpdate
<1>8. CASE FailMirror(s)
  BY <1>8 DEF FailMirror, TryQuery, MirrorUpdate
<1>9. CASE FailLog(s)
  BY <1>9 DEF FailLog
<1>10. CASE LimitedRow(s)
  BY <1>10 DEF LimitedRow, CmUpdate
<1>11. CASE LimitedPublish(s)
  BY <1>11 DEF LimitedPublish
<1>12. CASE LimitedMirror(s)
  BY <1>12 DEF LimitedMirror, MirrorUpdate
<1>13. CASE RetryPublish(s)
  BY <1>13 DEF RetryPublish
<1>14. CASE RetryMirror(s)
  BY <1>14 DEF RetryMirror, MirrorUpdate
<1>15. CASE DeadRow(s)
  BY <1>15 DEF DeadRow, CmUpdate
<1>16. CASE DeadMirror(s)
  BY <1>16 DEF DeadMirror, MirrorUpdate
<1>17. CASE DeadPublish(s)
  BY <1>17 DEF DeadPublish
<1>18. CASE Flush(s)
  BY <1>18 DEF Flush
<1>19. CASE Ack(s)
  BY <1>19 DEF Ack
<1>20. CASE AckThrows(s)
  BY <1>20 DEF AckThrows
<1>. QED
  BY <1>1, <1>2, <1>3, <1>4, <1>5, <1>6, <1>7, <1>8, <1>9, <1>10, <1>11, <1>12, <1>13,
     <1>14, <1>15, <1>16, <1>17, <1>18, <1>19, <1>20 DEF Handle

\* A handler's step leaves every message but its own in its stage.
LEMMA OtherMessages ==
    ASSUME TypeOK, NEW s \in Slot, Handle(s), NEW m \in Msgs, m # msg[s], Life(m)
    PROVE  Life(m)'
<1>1. ~Owing(s, m) /\ ~Owing(s, m)'
  BY HandlerReach DEF Owing
<1>2. \A t \in Slot : t # s => (Owing(t, m)' <=> Owing(t, m))
  BY HandlerReach DEF Owing, Shadow, Open
<1>. QED BY <1>1, <1>2, HandlerReach, Untouched

-----------------------------------------------------------------------------
\* Between its delivery and its ack a handler's labels and the rows agree.
LEMMA ProgressKept ==
    ASSUME TypeOK, HandlerInv, NEW s \in Slot, NEW m \in Msgs, m = msg[s],
           Open(s), Progress(s, m),
           \/ Load(s) \/ CheckLimit(s) \/ Send(s)
           \/ AcceptRow(s) \/ AcceptMirror(s) \/ AcceptLog(s)
           \/ FailRow(s) \/ FailMirror(s) \/ FailLog(s)
           \/ LimitedRow(s) \/ LimitedPublish(s) \/ LimitedMirror(s)
           \/ RetryPublish(s) \/ RetryMirror(s)
           \/ DeadRow(s) \/ DeadMirror(s) \/ DeadPublish(s) \/ AckThrows(s)
    PROVE  Progress(s, m)'
<1>. USE DEF broker, rows, handler, outside, process, Goto, TypeOK, HandlerInv,
             Progress, Accepted, Permanent
<1>1. CASE Load(s)
  BY <1>1 DEF Load, TryQuery
<1>2. CASE CheckLimit(s)
  BY <1>2 DEF CheckLimit
<1>3. CASE Send(s)
  BY <1>3 DEF Send
<1>4. CASE AcceptRow(s)
  BY <1>4 DEF AcceptRow, TryQuery, CmUpdate
<1>5. CASE AcceptMirror(s)
  BY <1>5 DEF AcceptMirror, TryQuery, MirrorUpdate
<1>6. CASE AcceptLog(s)
  BY <1>6 DEF AcceptLog, TryQuery
<1>7. CASE FailRow(s)
  BY <1>7 DEF FailRow, TryQuery, CmUpdate
<1>8. CASE FailMirror(s)
  BY <1>8 DEF FailMirror, TryQuery
<1>9. CASE FailLog(s)
  BY <1>9 DEF FailLog
<1>10. CASE LimitedRow(s)
  BY <1>10 DEF LimitedRow, CmUpdate
<1>11. CASE LimitedPublish(s)
  BY <1>11 DEF LimitedPublish
<1>12. CASE LimitedMirror(s)
  BY <1>12 DEF LimitedMirror
<1>13. CASE RetryPublish(s)
  BY <1>13 DEF RetryPublish, Attempts
<1>14. CASE RetryMirror(s)
  BY <1>14 DEF RetryMirror
<1>15. CASE DeadRow(s)
  <2>1. attempt[s] = MaxAttempts /\ pc[s] = "catch" /\ pc'[s] = "dead_mirror" /\ frame'[s] = "none"
    <3>1. attempt[s] \in Attempts /\ attempt[s] + 1 > MaxAttempts
      BY <1>15 DEF DeadRow
    <3>2. attempt[s] = MaxAttempts
      BY <3>1 DEF Attempts
    <3>3. pc[s] = "catch" /\ pc'[s] = "dead_mirror" /\ frame' = frame
      BY <1>15 DEF DeadRow
    <3>4. frame[s] = "none"
      BY <3>3
    <3>. QED BY <3>2, <3>3, <3>4
  <2>2. failed[m] = attempt[s] - 1 /\ cm[m].attempts <= failed[m] + 1
    BY <2>1
  <2>3. failed'[m] = failed[m] + 1
    BY <1>15 DEF DeadRow
  <2>4. cm'[m].status = "failed_permanent" /\ cm'[m].attempts = cm[m].attempts + 1
    BY <1>15 DEF DeadRow, CmUpdate
  <2>5. failed[m] \in Nat /\ cm[m].attempts \in Nat
    OBVIOUS
  <2>6. failed'[m] = MaxAttempts /\ cm'[m].attempts <= failed'[m] + 1
    BY <2>1, <2>2, <2>3, <2>4, <2>5
  <2>. QED BY <2>1, <2>4, <2>6
<1>16. CASE DeadMirror(s)
  BY <1>16 DEF DeadMirror
<1>17. CASE DeadPublish(s)
  BY <1>17 DEF DeadPublish
<1>18. CASE AckThrows(s)
  BY <1>18 DEF AckThrows, Open
<1>. QED
  BY <1>1, <1>2, <1>3, <1>4, <1>5, <1>6, <1>7, <1>8, <1>9, <1>10, <1>11, <1>12, <1>13,
     <1>14, <1>15, <1>16, <1>17, <1>18

\* The quiet steps keep who owes what: the handler of m stays its holder.
LEMMA HolderKept ==
    ASSUME TypeOK, HandlerInv, NEW s \in Slot, NEW m \in Msgs, m = msg[s],
           Open(s), HeldBy(s, m),
           Progress(s, m)', UNCHANGED <<ready, retry, dlq>>,
           \A t \in Slot : Owing(t, m)' <=> Owing(t, m)
    PROVE  Life(m)'
<1>1. NoJobIn(m)'
  BY DEF HeldBy, NoJobIn, Nowhere
<1>2. HeldBy(s, m)'
  BY <1>1 DEF HeldBy
<1>. QED BY <1>2 DEF Life, Held

\* A handler that still owes its job takes its message from stage to stage.
LEMMA OwnMessage ==
    ASSUME TypeOK, HandlerInv, NEW s \in Slot, Handle(s), NEW m \in Msgs, m = msg[s],
           Open(s), Owing(s, m), Life(m)
    PROVE  Life(m)'
<1>1. HeldBy(s, m)
  <2>1. ~Nobody(m) /\ Held(m)
    BY DEF Life, Waiting, Dead, Done, Nobody
  <2>. QED BY <2>1 DEF Held, HeldBy
<1>. USE DEF HeldBy
<1>2. CASE \/ Load(s) \/ CheckLimit(s) \/ Send(s) \/ AcceptMirror(s) \/ AcceptLog(s)
           \/ FailRow(s) \/ FailMirror(s) \/ FailLog(s)
           \/ LimitedRow(s) \/ LimitedPublish(s) \/ LimitedMirror(s)
           \/ RetryPublish(s) \/ RetryMirror(s)
           \/ DeadRow(s) \/ DeadMirror(s) \/ DeadPublish(s) \/ AckThrows(s)
  <2>1. SameHolders
    BY <1>2, QuietSteps
  <2>2. Progress(s, m)'
    BY <1>1, <1>2, ProgressKept
  <2>. QED BY <1>1, <2>1, <2>2, HolderKept DEF SameHolders
<1>3. CASE AcceptRow(s)
  <2>1. \A t \in Slot : Owing(t, m)' <=> Owing(t, m)
    BY <1>3 DEF AcceptRow, TryQuery, Goto, Owing, Shadow, Open, TypeOK, process, handler
  <2>2. UNCHANGED <<ready, retry, dlq>>
    BY <1>3 DEF AcceptRow, broker
  <2>3. Progress(s, m)'
    BY <1>1, <1>3, ProgressKept
  <2>. QED BY <1>1, <2>1, <2>2, <2>3, HolderKept
<1>4. CASE Ack(s)
  <2>1. pc[s] = "ack_ok"
    BY <1>4 DEF Ack, Owing, Shadow
  <2>2. Nobody(m)'
    <3>1. ~Owing(s, m)'
      BY <1>4 DEF Ack, Goto, Owing, TypeOK
    <3>2. \A t \in Slot : t # s => (Owing(t, m)' <=> Owing(t, m))
      BY HandlerReach DEF Owing, Shadow, Open
    <3>. QED BY <1>1, <3>1, <3>2 DEF Nobody
  <2>3. UNCHANGED <<ready, retry, dlq, cm, mirror, logged, failed>>
    BY <1>4 DEF Ack, broker, rows, outside
  <2>4. NoJobIn(m)'
    BY <1>1, <2>3 DEF NoJobIn, Nowhere
  <2>5. failed[m] \in Nat /\ cm[m].attempts \in Nat
    BY DEF TypeOK
  <2>6. Done(m)'
    BY <1>1, <2>1, <2>2, <2>3, <2>4, <2>5 DEF Done, Progress, Accepted
  <2>. QED BY <2>6 DEF Life
<1>5. CASE Flush(s)
  <2>1. frame[s] # "none" /\ attempt[s] \in Attempts
    BY <1>5, HandlerReach DEF Flush
  <2>2. Nobody(m)'
    <3>1. ~Owing(s, m)'
      BY <1>5 DEF Flush, Owing, Shadow, TypeOK, HandlerInv
    <3>2. \A t \in Slot : t # s => (Owing(t, m)' <=> Owing(t, m))
      BY HandlerReach DEF Owing, Shadow, Open
    <3>. QED BY <1>1, <3>1, <3>2 DEF Nobody
  <2>3. UNCHANGED <<ready, cm, mirror, logged, failed>>
    BY <1>5 DEF Flush, rows, outside
  <2>4. Nowhere(ready[m])' /\ \A b \in Attempts : retry[m][b] = 0 /\ dlq[m][b] = 0
    BY <1>1, <2>3 DEF NoJobIn, Nowhere
  <2>5. ASSUME NEW a \in Attempts, failed[m] = a - 1, cm[m].attempts <= failed[m],
               ~Permanent(m), retry' = [retry EXCEPT ![m][a] = @ + 1], dlq' = dlq
        PROVE  Life(m)'
    <3>1. OnlyAt(retry[m], a)' /\ Nowhere(dlq[m])'
      BY <2>4, <2>5 DEF OnlyAt, Nowhere, TypeOK
    <3>2. Waiting(m)'
      BY <2>2, <2>3, <2>4, <2>5, <3>1 DEF Waiting, Permanent
    <3>. QED BY <3>2 DEF Life
  <2>6. CASE frame[s] = "again"
    BY <1>1, <1>5, <2>1, <2>5, <2>6 DEF Flush, Progress
  <2>7. CASE frame[s] = "next"
    <3>1. attempt[s] + 1 \in Attempts /\ failed[m] = (attempt[s] + 1) - 1
      BY <1>1, <2>1, <2>7 DEF HandlerInv, Progress, Attempts
    <3>. QED BY <1>1, <1>5, <2>5, <2>7, <3>1 DEF Flush, Progress
  <2>8. CASE frame[s] = "dlq"
    <3>1. PICK a \in Attempts : dlq' = [dlq EXCEPT ![m][a] = @ + 1] /\ retry' = retry
      BY <1>5, <2>1, <2>8 DEF Flush
    <3>2. OnlyAt(dlq[m], a)' /\ Nowhere(retry[m])'
      BY <2>4, <3>1 DEF OnlyAt, Nowhere, TypeOK
    <3>3. Dead(m)'
      BY <1>1, <2>1, <2>2, <2>3, <2>4, <2>8, <3>2 DEF Dead, Progress, Permanent
    <3>. QED BY <3>3 DEF Life
  <2>. QED BY <2>1, <2>6, <2>7, <2>8 DEF TypeOK
<1>. QED BY <1>2, <1>3, <1>4, <1>5 DEF Handle

\* A shadow handler writes nothing but the status in the mirror.
LEMMA ShadowStep ==
    ASSUME TypeOK, HandlerInv, NEW s \in Slot, Handle(s), NEW m \in Msgs, m = msg[s],
           Shadow(s), Life(m)
    PROVE  Life(m)'
<1>1. LimitedMirror(s) \/ RetryMirror(s) \/ Ack(s)
  BY DEF Shadow, Handle, Load, CheckLimit, Send, AcceptRow, AcceptMirror, AcceptLog,
         FailRow, FailMirror, FailLog, LimitedRow, LimitedPublish, RetryPublish,
         DeadRow, DeadMirror, DeadPublish, Flush, AckThrows
<1>2. UNCHANGED <<ready, retry, dlq, failed, cm, logged>>
  BY <1>1 DEF LimitedMirror, RetryMirror, Ack, broker, rows, outside
<1>3. mirror'[m].providerId = mirror[m].providerId
  BY <1>1 DEF LimitedMirror, RetryMirror, Ack, MirrorUpdate, TypeOK, rows
<1>4. ~Owing(s, m) /\ ~Owing(s, m)'
  BY <1>1 DEF LimitedMirror, RetryMirror, Ack, Shadow, Owing, Goto, TypeOK, handler
<1>5. \A t \in Slot : t # s => (Owing(t, m)' <=> Owing(t, m))
  BY HandlerReach DEF Owing, Shadow, Open
<1>. QED BY <1>2, <1>3, <1>4, <1>5, HandlerReach, Untouched

-----------------------------------------------------------------------------
\* A delivery starts the life of a handler that owes the job.
LEMMA DeliverLife ==
    ASSUME TypeOK, NEW s \in Slot, NEW x \in Msgs, NEW a \in Attempts, Deliver(s, x, a),
           NEW m \in Msgs, Life(m)
    PROVE  Life(m)'
<1>. USE DEF Deliver, rows, outside, process
<1>1. \A t \in Slot : t # s => (Owing(t, m)' <=> Owing(t, m))
  BY DEF Owing, Shadow, Open, Goto, TypeOK
<1>2. ~Owing(s, m)
  BY DEF Owing
<1>3. CASE m # x
  <2>1. ~Owing(s, m)'
    BY <1>3 DEF Owing, TypeOK
  <2>2. ready'[m] = ready[m]
    BY <1>3 DEF TypeOK
  <2>3. \A t \in Slot : Owing(t, m) =>
           pc'[t] = pc[t] /\ attempt'[t] = attempt[t] /\ id'[t] = id[t] /\ frame'[t] = frame[t]
    BY <1>2 DEF Goto, TypeOK
  <2>. QED BY <1>1, <1>2, <2>1, <2>2, <2>3, Untouched
<1>4. CASE m = x
  <2>1. ~Nowhere(ready[m])
    BY <1>4 DEF Nowhere, TypeOK
  <2>2. Waiting(m)
    BY <2>1 DEF Life, Held, HeldBy, Dead, Done, NoJobIn
  <2>3. failed[m] = a - 1 /\ OnlyAt(ready[m], a) /\ Nowhere(retry[m])
    BY <1>4, <2>1, <2>2 DEF Waiting, OnlyAt, Nowhere, TypeOK
  <2>4. NoJobIn(m)'
    BY <1>4, <2>2, <2>3 DEF Waiting, NoJobIn, Nowhere, OnlyAt, TypeOK
  <2>5. Owing(s, m)'
    BY <1>4 DEF Owing, Shadow, Open, Goto, TypeOK
  <2>6. \A t \in Slot : Owing(t, m)' <=> t = s
    BY <1>1, <2>2, <2>5 DEF Waiting, Nobody
  <2>7. pc'[s] = "load" /\ frame'[s] = "none" /\ attempt'[s] = a
    BY DEF Goto, TypeOK
  <2>8. Progress(s, m)'
    BY <2>2, <2>3, <2>7 DEF Progress, Waiting, Permanent
  <2>9. HeldBy(s, m)'
    BY <2>4, <2>6, <2>8 DEF HeldBy
  <2>. QED BY <2>9 DEF Life, Held
<1>. QED BY <1>3, <1>4

\* An expiration moves the waiting job from one queue to the other.
LEMMA ExpireLife ==
    ASSUME TypeOK, NEW x \in Msgs, NEW a \in Attempts, Expire(x, a), NEW m \in Msgs, Life(m)
    PROVE  Life(m)'
<1>. USE DEF Expire, rows, outside, process, handler
<1>1. \A t \in Slot : Owing(t, m)' <=> Owing(t, m)
  BY DEF Owing, Shadow, Open
<1>2. CASE m # x
  <2>1. ready'[m] = ready[m] /\ retry'[m] = retry[m]
    BY <1>2 DEF TypeOK
  <2>. QED BY <1>1, <2>1, Untouched
<1>3. CASE m = x
  <2>1. ~Nowhere(retry[m])
    BY <1>3 DEF Nowhere, TypeOK
  <2>2. Waiting(m)
    BY <2>1 DEF Life, Held, HeldBy, Dead, Done, NoJobIn
  <2>3. failed[m] = a - 1 /\ OnlyAt(retry[m], a) /\ Nowhere(ready[m])
    BY <1>3, <2>1, <2>2 DEF Waiting, OnlyAt, Nowhere, TypeOK
  <2>4. OnlyAt(ready[m], a)' /\ Nowhere(retry[m])'
    <3>1. \A b \in Attempts : ready'[m][b] = IF b = a THEN ready[m][b] + 1 ELSE ready[m][b]
      BY <1>3 DEF TypeOK
    <3>2. \A b \in Attempts : retry'[m][b] = IF b = a THEN retry[m][b] - 1 ELSE retry[m][b]
      BY <1>3 DEF TypeOK
    <3>. QED BY <2>3, <3>1, <3>2 DEF Nowhere, OnlyAt
  <2>5. Nobody(m)'
    BY <1>1, <2>2 DEF Waiting, Nobody
  <2>6. Waiting(m)'
    BY <2>2, <2>3, <2>4, <2>5 DEF Waiting, Permanent, Nowhere
  <2>. QED BY <2>6 DEF Life
<1>. QED BY <1>2, <1>3

\* A requeue leaves a message alone exactly when it counts none redelivered.
LEMMA RequeueSpares ==
    ASSUME TypeOK, NEW w \in Workers, Requeue(w), NEW m \in Msgs, Undisturbed(m)'
    PROVE  Undisturbed(m) /\ Busy(w, m) = {} /\ ready'[m] = ready[m]
<1>1. 1 \in Attempts
  BY DEF Attempts
<1>2. Cardinality(Busy(w, m)) \in Nat /\ (Cardinality(Busy(w, m)) > 0 <=> Busy(w, m) # {})
  BY <1>1, BusyCount
<1>3. redelivered'[m] = redelivered[m] + Cardinality(Busy(w, m)) /\ redelivered[m] \in Nat
  BY DEF Requeue, TypeOK
<1>4. Undisturbed(m) /\ Busy(w, m) = {}
  BY <1>2, <1>3 DEF Undisturbed
<1>5. \A a \in Attempts : ready'[m][a] = ready[m][a]
  <2>. TAKE a \in Attempts
  <2>1. {s \in Busy(w, m) : attempt[s] = a} = {}
    BY <1>4
  <2>2. Cardinality({s \in Busy(w, m) : attempt[s] = a}) = 0
    BY <2>1, FS_EmptySet
  <2>3. ready'[m][a] = ready[m][a] + Cardinality({s \in Busy(w, m) : attempt[s] = a})
    BY DEF Requeue
  <2>. QED BY <2>2, <2>3 DEF TypeOK
<1>6. ready'[m] = [a \in Attempts |-> ready'[m][a]] /\ ready[m] = [a \in Attempts |-> ready[m][a]]
  BY DEF Requeue, TypeOK
<1>. QED BY <1>4, <1>5, <1>6

\* The end of a process that holds no job of m leaves m alone.
LEMMA StopLife ==
    ASSUME TypeOK, NEW w \in Workers, Crash(w) \/ Shutdown(w) \/ Exit(w),
           NEW m \in Msgs, Undisturbed(m)',
           Undisturbed(m) => Life(m) /\ OpenHolders(m)
    PROVE  Life(m)' /\ OpenHolders(m)'
<1>1. UNCHANGED <<retry, dlq, failed, cm, logged, mirror>>
  BY DEF Crash, Shutdown, Exit, Requeue, broker, rows, outside
<1>2. /\ Undisturbed(m) /\ ready'[m] = ready[m]
      /\ Crash(w) \/ Shutdown(w) => Busy(w, m) = {}
  <2>1. CASE Crash(w) \/ Shutdown(w)
    BY <2>1, RequeueSpares DEF Crash, Shutdown
  <2>2. CASE Exit(w)
    <3>1. ~Crash(w) /\ ~Shutdown(w) /\ UNCHANGED <<ready, redelivered>>
      BY <2>2 DEF Crash, Shutdown, Exit, broker
    <3>. QED BY <3>1 DEF Undisturbed
  <2>. QED BY <2>1, <2>2
<1>3. Life(m) /\ OpenHolders(m)
  BY <1>2
<1>4. \A t \in SlotsOf(w) : ~(pc[t] # "idle" /\ msg[t] = m)
  <2>1. CASE Crash(w) \/ Shutdown(w)
    BY <1>2, <2>1 DEF Busy
  <2>2. CASE Exit(w)
    BY <1>3, <2>2, SlotOwner, SlotsFinite DEF Exit, OpenHolders, Open
  <2>. QED BY <2>1, <2>2
<1>5. \A t \in Slot : t \notin SlotsOf(w) =>
         /\ pc'[t] = pc[t] /\ msg'[t] = msg[t] /\ attempt'[t] = attempt[t]
         /\ id'[t] = id[t] /\ frame'[t] = frame[t]
         /\ Open(t)' <=> Open(t)
  BY SlotOwner DEF Crash, Shutdown, Exit, Restart, handler, Open, TypeOK
<1>6. \A t \in SlotsOf(w) : ~(pc'[t] # "idle" /\ msg'[t] = m)
  BY <1>4, SlotsFinite DEF Crash, Shutdown, Exit, Restart, handler
<1>7. \A t \in Slot : Owing(t, m)' <=> Owing(t, m)
  BY <1>4, <1>5, <1>6 DEF Owing, Shadow
<1>8. \A t \in Slot : Owing(t, m) =>
         pc'[t] = pc[t] /\ attempt'[t] = attempt[t] /\ id'[t] = id[t] /\ frame'[t] = frame[t]
  BY <1>4, <1>5 DEF Owing
<1>9. Life(m)'
  BY <1>1, <1>2, <1>3, <1>7, <1>8, Untouched
<1>10. OpenHolders(m)'
  BY <1>3, <1>5, <1>6 DEF OpenHolders
<1>. QED BY <1>9, <1>10

\* Every step keeps LifeInv.
LEMMA LifeInvariant ==
    ASSUME TypeOK, HandlerInv, LifeInv, [Next]_vars
    PROVE  LifeInv'
<1>. SUFFICES ASSUME NEW m \in Msgs, Undisturbed(m)'
              PROVE  Life(m)' /\ OpenHolders(m)'
  BY DEF LifeInv
<1>0. Undisturbed(m) => Life(m) /\ OpenHolders(m)
  BY DEF LifeInv
<1>1. ASSUME NEW s \in Slot, Handle(s)
      PROVE  Life(m)' /\ OpenHolders(m)'
  <2>1. Undisturbed(m) /\ Life(m) /\ OpenHolders(m)
    BY <1>0, <1>1, HandlerReach DEF Undisturbed
  <2>2. OpenHolders(m)'
    <3>1. \A t \in Slot : Open(t)' <=> Open(t)
      BY <1>1, HandlerReach DEF Open
    <3>2. \A t \in Slot : pc'[t] # "idle" /\ msg'[t] = m => pc[t] # "idle" /\ msg[t] = m
      BY <1>1, HandlerReach
    <3>. QED BY <2>1, <3>1, <3>2 DEF OpenHolders
  <2>3. CASE m # msg[s]
    BY <1>1, <2>1, <2>2, <2>3, OtherMessages
  <2>4. CASE m = msg[s]
    <3>1. Open(s) /\ (Owing(s, m) \/ Shadow(s))
      BY <1>1, <2>1, <2>4, HandlerReach DEF OpenHolders, Owing
    <3>. QED BY <1>1, <2>1, <2>2, <2>4, <3>1, OwnMessage, ShadowStep
  <2>. QED BY <2>3, <2>4
<1>2. ASSUME NEW s \in Slot, NEW x \in Msgs, NEW a \in Attempts, Deliver(s, x, a)
      PROVE  Life(m)' /\ OpenHolders(m)'
  <2>1. Undisturbed(m)
    BY <1>2 DEF Deliver, Undisturbed
  <2>2. OpenHolders(m)'
    BY <1>0, <1>2, <2>1 DEF Deliver, OpenHolders, Open, Goto, TypeOK, process
  <2>. QED BY <1>0, <1>2, <2>1, <2>2, DeliverLife
<1>3. ASSUME NEW x \in Msgs, NEW a \in Attempts, Expire(x, a)
      PROVE  Life(m)' /\ OpenHolders(m)'
  <2>1. Undisturbed(m) /\ UNCHANGED <<pc, msg, closing>>
    BY <1>3 DEF Expire, Undisturbed, handler, process
  <2>2. OpenHolders(m)'
    BY <1>0, <2>1 DEF OpenHolders, Open
  <2>. QED BY <1>0, <1>3, <2>1, <2>2, ExpireLife
<1>4. CASE Tick \/ UNCHANGED vars
  <2>1. UNCHANGED <<broker, rows, handler, failed, process>>
    BY <1>4 DEF Tick, vars, outside
  <2>2. Undisturbed(m) /\ OpenHolders(m)'
    BY <1>0, <2>1 DEF Undisturbed, OpenHolders, Open, broker, handler, process
  <2>3. \A t \in Slot : Owing(t, m)' <=> Owing(t, m)
    BY <2>1 DEF Owing, Shadow, Open, handler, process
  <2>4. Life(m)'
    BY <1>0, <2>1, <2>2, <2>3, Untouched DEF broker, rows, handler
  <2>. QED BY <2>2, <2>4
<1>5. ASSUME NEW w \in Workers, Crash(w) \/ Shutdown(w) \/ Exit(w)
      PROVE  Life(m)' /\ OpenHolders(m)'
  BY <1>0, <1>5, StopLife
<1>. QED BY <1>1, <1>2, <1>3, <1>4, <1>5 DEF Next

\* A launched message waits for its first attempt.
LEMMA LifeStarts ==
    ASSUME Init
    PROVE  LifeInv
<1>1. 1 \in Attempts
  BY DEF Attempts
<1>2. ASSUME NEW m \in Msgs
      PROVE  Waiting(m) /\ OpenHolders(m)
  <2>1. Nobody(m) /\ OpenHolders(m)
    BY DEF Init, Nobody, Owing, OpenHolders
  <2>2. OnlyAt(ready[m], 1) /\ Nowhere(retry[m]) /\ Nowhere(dlq[m])
    BY DEF Init, OnlyAt, Nowhere
  <2>3. failed[m] = 1 - 1 /\ cm[m].attempts <= failed[m] /\ ~Permanent(m)
    BY DEF Init, Permanent
  <2>. QED BY <1>1, <2>1, <2>2, <2>3 DEF Waiting
<1>. QED BY <1>2 DEF LifeInv, Life

\* LifeInv holds in every reachable state.
LEMMA LifeHolds == Spec => [](TypeOK /\ HandlerInv /\ LifeInv)
<1>1. Init => LifeInv
  BY LifeStarts
<1>2. TypeOK /\ HandlerInv /\ LifeInv /\ [Next]_vars => LifeInv'
  BY LifeInvariant
<1>. QED BY <1>1, <1>2, InvariantHolds, PTL DEF Spec

-----------------------------------------------------------------------------
(***************************************************************************)
(* As long as no consumer of it is lost, a message has one job, in one     *)
(* queue or with one handler, whatever query fails and however often the   *)
(* limiter refuses it.  (The publish before the ack in the catch block.)   *)
(***************************************************************************)
THEOREM SingleCopyHolds == Spec => []SingleCopy
<1>1. ASSUME TypeOK, LifeInv, NEW m \in Msgs, Undisturbed(m)
      PROVE  /\ Cardinality(Places(m)) <= 1
             /\ \A a \in Attempts : ready[m][a] <= 1 /\ retry[m][a] <= 1 /\ dlq[m][a] <= 1
  <2>1. Life(m)
    BY <1>1 DEF LifeInv
  <2>2. \A a \in Attempts : ready[m][a] <= 1 /\ retry[m][a] <= 1 /\ dlq[m][a] <= 1
    BY <2>1 DEF Life, Waiting, Held, HeldBy, Dead, Done, NoJobIn, Nowhere, OnlyAt
  <2>3. \E p : Places(m) \subseteq {p}
    <3>1. CASE Waiting(m)
      <4>1. PICK a \in Attempts : \/ OnlyAt(ready[m], a) /\ Nowhere(retry[m])
                                  \/ Nowhere(ready[m]) /\ OnlyAt(retry[m], a)
        BY <3>1 DEF Waiting
      <4>2. CASE OnlyAt(ready[m], a) /\ Nowhere(retry[m])
        <5>1. Places(m) \subseteq {<<"ready", a>>}
          BY <3>1, <4>2 DEF Places, Waiting, Nobody, Nowhere, OnlyAt
        <5>. QED BY <5>1
      <4>3. CASE Nowhere(ready[m]) /\ OnlyAt(retry[m], a)
        <5>1. Places(m) \subseteq {<<"retry", a>>}
          BY <3>1, <4>3 DEF Places, Waiting, Nobody, Nowhere, OnlyAt
        <5>. QED BY <5>1
      <4>. QED BY <4>1, <4>2, <4>3
    <3>2. CASE Held(m)
      <4>1. PICK s \in Slot : HeldBy(s, m)
        BY <3>2 DEF Held
      <4>2. Places(m) \subseteq {<<"slot", s>>}
        BY <4>1 DEF Places, HeldBy, NoJobIn, Nowhere
      <4>. QED BY <4>2
    <3>3. CASE Dead(m)
      <4>1. PICK a \in Attempts : OnlyAt(dlq[m], a)
        BY <3>3 DEF Dead
      <4>2. Places(m) \subseteq {<<"dlq", a>>}
        BY <3>3, <4>1 DEF Places, Dead, Nobody, Nowhere, OnlyAt
      <4>. QED BY <4>2
    <3>4. CASE Done(m)
      <4>1. Places(m) = {}
        BY <3>4 DEF Places, Done, Nobody, NoJobIn, Nowhere
      <4>. QED BY <4>1
    <3>. QED BY <2>1, <3>1, <3>2, <3>3, <3>4 DEF Life
  <2>4. PICK p : Places(m) = {} \/ Places(m) = {p}
    BY <2>3
  <2>5. Cardinality(Places(m)) <= 1
    BY <2>4, FS_EmptySet, FS_Singleton
  <2>. QED BY <2>2, <2>5
<1>2. TypeOK /\ LifeInv => SingleCopy
  BY <1>1 DEF SingleCopy
<1>. QED BY <1>2, LifeHolds, PTL

\* A message that is not owed and undisturbed is parked or over.
LEMMA OverIsDeadOrDone ==
    ASSUME TypeOK, LifeInv, NEW m \in Msgs, Undisturbed(m), ~Owed(m)
    PROVE  Dead(m) \/ Done(m)
<1>1. Life(m)
  BY DEF LifeInv
<1>2. Waiting(m) => Queued(m)
  BY DEF Waiting, OnlyAt, Queued
<1>3. Held(m) => Owed(m)
  BY DEF Held, HeldBy, Owed
<1>. QED BY <1>1, <1>2, <1>3 DEF Life, Owed

(***************************************************************************)
(* A message whose job is over, with no consumer lost, has its outcome on  *)
(* record: accepted with one provider id in the row, the mirror and the    *)
(* log, or failed_permanent after exactly MAX_ATTEMPTS failures.           *)
(***************************************************************************)
THEOREM OutcomeRecordedHolds == Spec => []OutcomeRecorded
<1>1. ASSUME TypeOK, LifeInv, NEW m \in Msgs, Undisturbed(m), ~Owed(m)
      PROVE  \/ /\ ~Parked(m) /\ cm[m].status = "accepted_meta"
                /\ cm[m].metaId = mirror[m].providerId
                /\ cm[m].metaId \in logged[m]
             \/ Parked(m) /\ cm[m].status = "failed_permanent" /\ failed[m] = MaxAttempts
  <2>1. CASE Dead(m)
    BY <2>1 DEF Dead, Permanent, Parked, OnlyAt
  <2>2. CASE Done(m)
    BY <2>2 DEF Done, Accepted, Parked, NoJobIn, Nowhere
  <2>. QED BY <1>1, <2>1, <2>2, OverIsDeadOrDone
<1>2. TypeOK /\ LifeInv => OutcomeRecorded
  BY <1>1 DEF OutcomeRecorded
<1>. QED BY <1>2, LifeHolds, PTL

(***************************************************************************)
(* attempt_count is at most one more than the failures of the message, as  *)
(* long as no consumer of it is lost.                                      *)
(***************************************************************************)
THEOREM AttemptCountBoundedHolds == Spec => []AttemptCountBounded
<1>1. ASSUME TypeOK, HandlerInv, LifeInv, NEW m \in Msgs, Undisturbed(m)
      PROVE  cm[m].attempts <= failed[m] + 1
  <2>1. cm[m].attempts \in Nat /\ failed[m] \in Nat /\ Life(m)
    BY <1>1 DEF TypeOK, LifeInv
  <2>2. CASE Held(m)
    <3>1. PICK s \in Slot : Owing(s, m) /\ Progress(s, m)
      BY <2>2 DEF Held, HeldBy
    <3>. QED BY <1>1, <2>1, <3>1
         DEF Owing, Shadow, Progress, TypeOK, HandlerInv, PcOfTry, PcOfCatch
  <2>. QED BY <2>1, <2>2 DEF Life, Waiting, Dead, Done
<1>2. TypeOK /\ HandlerInv /\ LifeInv => AttemptCountBounded
  BY <1>1 DEF AttemptCountBounded
<1>. QED BY <1>2, LifeHolds, PTL

\* A handler about to write the row of a message with no lost consumer finds
\* it in another status than failed_permanent.
LEMMA WriterFindsAlive ==
    ASSUME TypeOK, LifeInv, NEW s \in Slot, NEW m \in Msgs, m = msg[s], Undisturbed(m),
           pc[s] \in {"acc_row", "fail_row", "rl_row", "catch"}
    PROVE  ~Permanent(m)
<1>1. Life(m) /\ Open(s)
  BY DEF LifeInv, OpenHolders
<1>2. Owing(s, m)
  BY <1>1 DEF Owing, Shadow
<1>3. Held(m)
  BY <1>1, <1>2 DEF Life, Waiting, Dead, Done, Nobody
<1>4. HeldBy(s, m)
  BY <1>2, <1>3 DEF Held, HeldBy
<1>. QED BY <1>4 DEF HeldBy, Progress

(***************************************************************************)
(* failed_permanent is final in campaign_messages: with no consumer of the *)
(* message lost, no late write of an earlier attempt changes the row.      *)
(***************************************************************************)
THEOREM PermanentIsFinalHolds == Spec => PermanentIsFinal
<1>1. ASSUME TypeOK, LifeInv, [Next]_vars
      PROVE  \A m \in Msgs : redelivered'[m] = 0 /\ cm[m].status = "failed_permanent"
                             => cm'[m] = cm[m]
  <2>. SUFFICES ASSUME NEW m \in Msgs, redelivered'[m] = 0, Permanent(m)
                PROVE  cm'[m] = cm[m]
    BY DEF Permanent
  <2>1. ASSUME NEW s \in Slot, Handle(s)
        PROVE  cm'[m] = cm[m]
    <3>1. Undisturbed(m)
      BY <2>1, <1>1, HandlerReach DEF Undisturbed
    <3>2. CASE m # msg[s]
      BY <1>1, <2>1, <3>2, HandlerReach
    <3>3. CASE m = msg[s]
      <4>1. pc[s] \notin {"acc_row", "fail_row", "rl_row", "catch"}
        BY <1>1, <3>1, <3>3, WriterFindsAlive
      <4>2. cm' = cm
        BY <2>1, <4>1
           DEF Handle, Load, CheckLimit, Send, AcceptRow, AcceptMirror, AcceptLog,
               FailRow, FailMirror, FailLog, LimitedRow, LimitedPublish, LimitedMirror,
               RetryPublish, RetryMirror, DeadRow, DeadMirror, DeadPublish, Flush, Ack,
               AckThrows, rows
      <4>. QED BY <4>2
    <3>. QED BY <3>2, <3>3
  <2>2. CASE \/ \E s \in Slot, x \in Msgs, a \in Attempts : Deliver(s, x, a)
             \/ \E x \in Msgs, a \in Attempts : Expire(x, a)
             \/ Tick \/ UNCHANGED vars
             \/ \E w \in Workers : Crash(w) \/ Shutdown(w) \/ Exit(w)
    BY <2>2 DEF Deliver, Expire, Tick, Crash, Shutdown, Exit, rows, vars
  <2>. QED BY <1>1, <2>1, <2>2 DEF Next
<1>2. TypeOK /\ LifeInv /\ [Next]_vars =>
         [\A m \in Msgs : /\ redelivered'[m] = 0
                          /\ cm[m].status = "failed_permanent"
                          => cm'[m] = cm[m]]_vars
  BY <1>1
<1>. QED BY <1>2, LifeHolds, PTL DEF Spec, PermanentIsFinal
-----------------------------------------------------------------------------
(***************************************************************************)
(* How often Meta can still be called for a message.  Every copy of a job  *)
(* in a queue holds a token for its attempt number and each number above   *)
(* it; a handler holds one for every call it, or the retry it will         *)
(* publish, can still make.  A call spends a token, and a job handed out   *)
(* anew brings at most MAX_ATTEMPTS new ones.                              *)
(***************************************************************************)
Copies(q) == Chances(MaxAttempts, q)

Left(s) ==
    {k \in Attempts :
        \/ k = attempt[s] /\ pc[s] \in {"load", "limit", "send"}
        \/ k = attempt[s] /\ Open(s) /\ (pc[s] \in {"rl_row", "rl_pub"} \/ frame[s] = "again")
        \/ k > attempt[s] /\ Open(s) /\ ~Shadow(s) /\ frame[s] # "dlq"}

HandlerTokens(m) ==
    {t \in Slot \X Attempts : /\ pc[t[1]] # "idle" /\ msg[t[1]] = m
                              /\ t[2] \in Left(t[1])}

Finite(m) == IsFiniteSet(Copies(ready[m])) /\ IsFiniteSet(Copies(retry[m]))

Total(m) == Cardinality(Copies(ready[m])) + Cardinality(Copies(retry[m]))
            + Cardinality(HandlerTokens(m))

WithinBudget(m) == /\ Finite(m)
                   /\ sends[m] + Total(m) <= MaxAttempts * (redelivered[m] + 1)

Budget == \A m \in Msgs : WithinBudget(m)

LEMMA AttemptsAreTries == Count(MaxAttempts) /\ Attempts = Tries(MaxAttempts)
  BY AttemptsAssumption DEF Count, Tries, Attempts

\* The attempts from a on are as many tokens of a handler.
LEMMA RowOfTokens ==
    ASSUME NEW x, NEW a \in Attempts
    PROVE  /\ IsFiniteSet({x} \X (a..MaxAttempts))
           /\ Cardinality({x} \X (a..MaxAttempts)) = MaxAttempts + 1 - a
<1>1. a \in Tries(MaxAttempts) /\ Count(MaxAttempts)
  BY AttemptsAreTries
<1>. HIDE MsgsAssumption, WorkersAssumption, AttemptsAssumption, LimitAssumption
<1>. QED BY <1>1, RowOfChances

\* One more copy of a job of attempt a holds one more row of tokens, one less one less.
LEMMA OneCopy ==
    ASSUME NEW q \in [Attempts -> Nat], NEW a \in Attempts, IsFiniteSet(Copies(q)), NEW p
    PROVE  /\ p = [q EXCEPT ![a] = @ + 1] =>
                /\ IsFiniteSet(Copies(p))
                /\ Cardinality(Copies(p)) = Cardinality(Copies(q)) + (MaxAttempts + 1 - a)
           /\ p = [q EXCEPT ![a] = @ - 1] /\ q[a] > 0 =>
                /\ IsFiniteSet(Copies(p)) /\ Cardinality(Copies(p)) \in Nat
                /\ Cardinality(Copies(q)) = Cardinality(Copies(p)) + (MaxAttempts + 1 - a)
           /\ Cardinality(Copies(q)) \in Nat
<1>1. /\ q \in [Tries(MaxAttempts) -> Nat] /\ a \in Tries(MaxAttempts) /\ Count(MaxAttempts)
      /\ IsFiniteSet(Chances(MaxAttempts, q))
  BY AttemptsAreTries DEF Copies
<1>. HIDE MsgsAssumption, WorkersAssumption, AttemptsAssumption, LimitAssumption
<1>. QED BY <1>1, OneChance DEF Copies

\* The tokens of handlers are finitely many.
LEMMA HandlerTokensFinite ==
    ASSUME NEW m
    PROVE  /\ IsFiniteSet(HandlerTokens(m)) /\ Cardinality(HandlerTokens(m)) \in Nat
           /\ \A T \in SUBSET HandlerTokens(m) :
                 /\ IsFiniteSet(T) /\ Cardinality(T) \in Nat
                 /\ Cardinality(T) <= Cardinality(HandlerTokens(m))
<1>1. IsFiniteSet(1..Prefetch)
  BY FS_Interval
<1>2. IsFiniteSet(Slot)
  BY <1>1, FS_Product DEF Slot
<1>3. IsFiniteSet(Slot \X Attempts)
  <2>1. IsFiniteSet(Attempts)
    BY FS_Interval DEF Attempts
  <2>. QED BY <1>2, <2>1, FS_Product
<1>4. HandlerTokens(m) \in SUBSET (Slot \X Attempts)
  BY DEF HandlerTokens
<1>5. IsFiniteSet(HandlerTokens(m))
  BY <1>3, <1>4, FS_Subset
<1>. QED BY <1>5, FS_Subset, FS_CardinalityType

\* A requeue brings at most MAX_ATTEMPTS tokens for each handler that held m.
LEMMA RequeueTokens ==
    ASSUME TypeOK, NEW w \in Workers, Requeue(w), NEW m \in Msgs,
           IsFiniteSet(Copies(ready[m]))
    PROVE  /\ IsFiniteSet(Copies(ready'[m]))
           /\ Cardinality(Copies(ready'[m]))
                 <= Cardinality(Copies(ready[m])) + Cardinality(Busy(w, m)) * MaxAttempts
           /\ Cardinality(Copies(ready[m])) \in Nat /\ Cardinality(Copies(ready'[m])) \in Nat
           /\ redelivered'[m] = redelivered[m] + Cardinality(Busy(w, m))
           /\ Cardinality(Busy(w, m)) \in Nat
<1>. DEFINE q == ready[m]
            p == ready'[m]
            B == Busy(w, m)
<1>1. q \in [Attempts -> Nat] /\ p \in [Attempts -> Nat]
  BY RequeueType DEF TypeOK
<1>2. \A a \in Attempts : p[a] = q[a] + Cardinality({s \in B : attempt[s] = a})
  BY DEF Requeue
<1>3. IsFiniteSet(B) /\ Cardinality(B) \in Nat
  <2>1. B \in SUBSET SlotsOf(w)
    BY DEF Busy
  <2>. QED BY <2>1, SlotsFinite, FS_Subset, FS_CardinalityType
<1>4. \A s \in B : attempt[s] \in Attempts
  <2>1. \A s \in B : s \in Slot /\ pc[s] # "idle"
    BY SlotsFinite DEF Busy
  <2>. QED BY <2>1 DEF TypeOK
<1>5. /\ IsFiniteSet(Copies(p)) /\ Cardinality(B) * MaxAttempts \in Nat
      /\ Cardinality(Copies(p)) <= Cardinality(Copies(q)) + Cardinality(B) * MaxAttempts
      /\ Cardinality(Copies(q)) \in Nat /\ Cardinality(Copies(p)) \in Nat
  <2>. HIDE DEF q, p, B
  <2>1. IsFiniteSet(Copies(q))
    BY DEF q
  <2>. HIDE MsgsAssumption, WorkersAssumption, AttemptsAssumption, LimitAssumption
  <2>. QED BY <1>1, <1>2, <1>3, <1>4, <2>1, AttemptsAreTries, RequeuedChances DEF Copies
<1>6. redelivered'[m] = redelivered[m] + Cardinality(B)
  BY DEF Requeue
<1>. QED BY <1>3, <1>5, <1>6

\* The bound is a number.
LEMMA BoundType ==
    ASSUME TypeOK, NEW m \in Msgs
    PROVE  /\ MaxAttempts * (redelivered[m] + 1) \in Nat /\ sends[m] \in Nat
           /\ \A c \in Nat : MaxAttempts * (redelivered[m] + 1) + c * MaxAttempts
                                = MaxAttempts * (redelivered[m] + c + 1)
<1>1. redelivered[m] \in Nat /\ sends[m] \in Nat /\ MaxAttempts \in Nat
  BY DEF TypeOK
<1>. QED BY <1>1

\* A step that sends nothing, leaves the queues of m alone and gives no handler
\* more to send stays within the budget.
LEMMA NothingGained ==
    ASSUME TypeOK, NEW m \in Msgs, WithinBudget(m),
           ready'[m] = ready[m], retry'[m] = retry[m], sends'[m] = sends[m],
           redelivered'[m] = redelivered[m],
           HandlerTokens(m)' \in SUBSET HandlerTokens(m)
    PROVE  WithinBudget(m)'
<1>1. /\ Cardinality(HandlerTokens(m)') \in Nat /\ Cardinality(HandlerTokens(m)) \in Nat
      /\ Cardinality(HandlerTokens(m)') <= Cardinality(HandlerTokens(m))
  BY HandlerTokensFinite
<1>2. Finite(m)' /\ Cardinality(Copies(ready[m])) \in Nat /\ Cardinality(Copies(retry[m])) \in Nat
  BY FS_CardinalityType DEF WithinBudget, Finite
<1>3. Total(m)' <= Total(m) /\ Total(m)' \in Nat /\ Total(m) \in Nat
  BY <1>1, <1>2 DEF Total
<1>. QED BY <1>2, <1>3, BoundType DEF WithinBudget

\* What is left of a handler's tokens when the others keep theirs.
LEMMA OwnTokens ==
    ASSUME TypeOK, NEW s \in Slot, Handle(s), NEW m \in Msgs
    PROVE  \A t \in Slot, k \in Attempts : t # s =>
              (<<t, k>> \in HandlerTokens(m)' <=> <<t, k>> \in HandlerTokens(m))
<1>. TAKE t \in Slot, k \in Attempts
<1>1. ASSUME t # s
      PROVE  /\ pc'[t] = pc[t] /\ msg'[t] = msg[t] /\ attempt'[t] = attempt[t]
             /\ frame'[t] = frame[t]
             /\ closing' = closing
  BY <1>1, HandlerReach
<1>2. ASSUME t # s
      PROVE  k \in Left(t)' <=> k \in Left(t)
  BY <1>1, <1>2 DEF Left, Shadow, Open
<1>. QED BY <1>1, <1>2 DEF HandlerTokens

\* Between its delivery and its ack a handler gains nothing to send; without a
\* call of Meta it has sent nothing.
LEMMA LeftShrinks ==
    ASSUME TypeOK, HandlerInv, NEW s \in Slot, ~Flush(s), Handle(s), NEW k \in Attempts,
           pc'[s] # "idle", k \in Left(s)'
    PROVE  k \in Left(s) /\ (Send(s) => k # attempt[s])
<1>1. /\ ~Ack(s)
      /\ Open(s)' <=> Open(s)
      /\ attempt[s] \in Attempts
  BY HandlerReach DEF Ack, Goto, TypeOK, Open
<1>2. attempt' = attempt
  BY <1>1 DEF Handle, Load, CheckLimit, Send, AcceptRow, AcceptMirror, AcceptLog, FailRow,
              FailMirror, FailLog, LimitedRow, LimitedPublish, LimitedMirror, RetryPublish,
              RetryMirror, DeadRow, DeadMirror, DeadPublish, AckThrows
<1>3. /\ pc[s] \in {"load", "limit", "send"} /\ frame[s] = "none" /\ frame'[s] = "none"
      /\ pc'[s] \in IF pc[s] = "load" THEN {"limit", "catch"}
                    ELSE IF pc[s] = "limit" THEN {"send", "rl_row", "catch"}
                    ELSE {"acc_row", "fail_row", "catch"}
      /\ Send(s) <=> pc[s] = "send"
      => k \in Left(s) /\ (Send(s) => k # attempt[s])
  BY <1>1, <1>2 DEF Left, Shadow, Attempts
<1>. USE DEF broker, rows, handler, outside, process, Goto, TypeOK, HandlerInv
<1>4. CASE Load(s)
  <2>1. /\ pc[s] = "load" /\ pc'[s] \in {"limit", "catch"} /\ frame' = frame
        /\ ~Send(s) /\ frame[s] = "none"
    BY <1>4 DEF Load, TryQuery, Send
  <2>. QED BY <1>3, <2>1
<1>5. CASE CheckLimit(s)
  <2>1. /\ pc[s] = "limit" /\ pc'[s] \in {"send", "rl_row", "catch"} /\ frame' = frame
        /\ ~Send(s) /\ frame[s] = "none"
    BY <1>5 DEF CheckLimit, Send
  <2>. QED BY <1>3, <2>1
<1>6. CASE Send(s)
  <2>1. /\ pc[s] = "send" /\ pc'[s] \in {"acc_row", "fail_row", "catch"} /\ frame' = frame
        /\ frame[s] = "none"
    BY <1>6 DEF Send
  <2>. QED BY <1>3, <1>6, <2>1
<1>7. CASE AcceptRow(s) \/ AcceptMirror(s) \/ AcceptLog(s) \/ FailRow(s) \/ FailMirror(s)
           \/ FailLog(s) \/ AckThrows(s)
  <2>1. /\ pc[s] \in {"acc_row", "acc_mirror", "acc_log", "fail_row", "fail_mirror", "fail_log",
                      "ack_ok"}
        /\ pc'[s] \in {"acc_mirror", "acc_log", "ack_ok", "fail_mirror", "fail_log", "catch"}
        /\ frame' = frame /\ ~Send(s) /\ frame[s] = "none"
    BY <1>7 DEF AcceptRow, AcceptMirror, AcceptLog, FailRow, FailMirror, FailLog, AckThrows,
                TryQuery, Send
  <2>. QED BY <1>1, <1>2, <2>1 DEF Left, Shadow
<1>8. CASE LimitedRow(s)
  <2>1. pc[s] = "rl_row" /\ pc'[s] = "rl_pub" /\ frame' = frame /\ ~Send(s)
    BY <1>8 DEF LimitedRow, Send
  <2>. QED BY <1>1, <1>2, <2>1 DEF Left, Shadow
<1>9. CASE LimitedPublish(s)
  <2>1. pc[s] = "rl_pub" /\ pc'[s] = "rl_mirror" /\ frame[s] = "none" /\ Open(s) /\ ~Send(s)
    BY <1>9 DEF LimitedPublish, Send
  <2>. QED BY <1>1, <1>2, <2>1 DEF Left, Shadow
<1>10. CASE LimitedMirror(s) \/ RetryMirror(s)
  <2>1. /\ pc[s] \in {"rl_mirror", "retry_mirror"} /\ pc'[s] = "ack" /\ frame' = frame
        /\ ~Send(s)
    BY <1>10 DEF LimitedMirror, RetryMirror, Send
  <2>. QED BY <1>1, <1>2, <2>1 DEF Left, Shadow
<1>11. CASE RetryPublish(s)
  <2>1. /\ pc[s] = "catch" /\ pc'[s] = "retry_mirror" /\ frame[s] = "none"
        /\ frame'[s] = "next" /\ ~Send(s)
    BY <1>11 DEF RetryPublish, Send
  <2>. QED BY <1>1, <1>2, <2>1 DEF Left, Shadow
<1>12. CASE DeadRow(s) \/ DeadMirror(s)
  <2>1. /\ pc[s] \in {"catch", "dead_mirror"} /\ pc'[s] \in {"dead_mirror", "dead_pub"}
        /\ frame' = frame /\ ~Send(s)
    BY <1>12 DEF DeadRow, DeadMirror, Send
  <2>. QED BY <1>1, <1>2, <2>1 DEF Left, Shadow
<1>13. CASE DeadPublish(s)
  <2>1. pc[s] = "dead_pub" /\ pc'[s] = "ack" /\ frame'[s] = "dlq" /\ ~Send(s)
    BY <1>13 DEF DeadPublish, Send
  <2>. QED BY <1>1, <1>2, <2>1 DEF Left, Shadow
<1>. QED
  BY <1>1, <1>4, <1>5, <1>6, <1>7, <1>8, <1>9, <1>10, <1>11, <1>12, <1>13 DEF Handle

\* Without a flush the handlers of m have no more tokens than before, one less
\* after a call of Meta.
LEMMA TokensShrink ==
    ASSUME TypeOK, HandlerInv, NEW s \in Slot, ~Flush(s), Handle(s), NEW m \in Msgs
    PROVE  /\ HandlerTokens(m)' \in SUBSET HandlerTokens(m)
           /\ Send(s) => <<s, attempt[s]>> \notin HandlerTokens(m)'
<1>1. \A k \in Attempts : <<s, k>> \in HandlerTokens(m)' => /\ pc'[s] # "idle" /\ msg'[s] = m
                                                            /\ k \in Left(s)'
  BY DEF HandlerTokens
<1>2. \A k \in Attempts : <<s, k>> \in HandlerTokens(m)' =>
         <<s, k>> \in HandlerTokens(m) /\ (Send(s) => k # attempt[s])
  <2>. SUFFICES ASSUME NEW k \in Attempts, <<s, k>> \in HandlerTokens(m)'
                PROVE  <<s, k>> \in HandlerTokens(m) /\ (Send(s) => k # attempt[s])
    OBVIOUS
  <2>1. pc[s] # "idle" /\ msg[s] = m
    BY <1>1, HandlerReach
  <2>2. k \in Left(s) /\ (Send(s) => k # attempt[s])
    BY <1>1, LeftShrinks
  <2>. QED BY <2>1, <2>2 DEF HandlerTokens
<1>3. \A x \in HandlerTokens(m)' : \E t \in Slot, k \in Attempts : x = <<t, k>>
  BY DEF HandlerTokens
<1>4. HandlerTokens(m)' \in SUBSET HandlerTokens(m)
  <2>. SUFFICES ASSUME NEW x \in HandlerTokens(m)' PROVE x \in HandlerTokens(m)
    OBVIOUS
  <2>1. PICK t \in Slot, k \in Attempts : x = <<t, k>>
    BY <1>3
  <2>. QED BY <1>2, <2>1, OwnTokens
<1>5. attempt[s] \in Attempts
  BY HandlerReach
<1>. QED BY <1>2, <1>4, <1>5

\* A handler's step that is no flush keeps the budget: a call of Meta spends a token.
LEMMA HandleBudget ==
    ASSUME TypeOK, HandlerInv, NEW s \in Slot, ~Flush(s), Handle(s),
           NEW m \in Msgs, WithinBudget(m)
    PROVE  WithinBudget(m)'
<1>1. UNCHANGED <<ready, retry, redelivered>>
  BY DEF Handle, Load, CheckLimit, Send, AcceptRow, AcceptMirror, AcceptLog, FailRow,
         FailMirror, FailLog, LimitedRow, LimitedPublish, LimitedMirror, RetryPublish,
         RetryMirror, DeadRow, DeadMirror, DeadPublish, Ack, AckThrows, broker
<1>2. CASE sends'[m] = sends[m]
  BY <1>1, <1>2, TokensShrink, NothingGained
<1>3. CASE sends'[m] # sends[m]
  <2>1. Send(s)
    BY <1>3 DEF Handle, Load, CheckLimit, AcceptRow, AcceptMirror, AcceptLog, FailRow,
         FailMirror, FailLog, LimitedRow, LimitedPublish, LimitedMirror, RetryPublish,
         RetryMirror, DeadRow, DeadMirror, DeadPublish, Ack, AckThrows, outside
  <2>2. m = msg[s] /\ sends'[m] = sends[m] + 1
    BY <1>3, <2>1, HandlerReach DEF Send, TypeOK
  <2>3. <<s, attempt[s]>> \in HandlerTokens(m)
    BY <2>1, <2>2, HandlerReach DEF Send, HandlerTokens, Left
  <2>. DEFINE H == HandlerTokens(m) \ {<<s, attempt[s]>>}
  <2>4. HandlerTokens(m)' \in SUBSET H
    BY <2>1, TokensShrink
  <2>5. IsFiniteSet(H) /\ Cardinality(H) = Cardinality(HandlerTokens(m)) - 1
    BY <2>3, HandlerTokensFinite, FS_RemoveElement
  <2>. HIDE DEF H
  <2>6. Cardinality(HandlerTokens(m)') <= Cardinality(H) /\ Cardinality(HandlerTokens(m)') \in Nat
    BY <2>4, <2>5, FS_Subset, FS_CardinalityType
  <2>7. Cardinality(HandlerTokens(m)) \in Nat
    BY HandlerTokensFinite
  <2>8. Finite(m)' /\ Cardinality(Copies(ready[m])) \in Nat /\ Cardinality(Copies(retry[m])) \in Nat
    BY <1>1, FS_CardinalityType DEF WithinBudget, Finite
  <2>9. Total(m)' <= Total(m) - 1 /\ Total(m)' \in Nat /\ Total(m) \in Nat
    BY <1>1, <2>5, <2>6, <2>7, <2>8 DEF Total
  <2>. QED BY <1>1, <2>2, <2>8, <2>9, BoundType DEF WithinBudget
<1>. QED BY <1>2, <1>3

\* A flush moves a handler's tokens to the copy it puts in the retry queue.
LEMMA FlushBudget ==
    ASSUME TypeOK, HandlerInv, NEW s \in Slot, Flush(s), NEW m \in Msgs, WithinBudget(m)
    PROVE  WithinBudget(m)'
<1>0. Handle(s) /\ attempt[s] \in Attempts /\ msg[s] \in Msgs
  BY HandlerReach DEF Handle
<1>1. UNCHANGED <<ready, redelivered, sends, pc, msg, attempt, closing>>
  BY DEF Flush, outside, process
<1>2. \A k \in Attempts : <<s, k>> \notin HandlerTokens(m)'
  BY <1>1 DEF Flush, HandlerTokens, Left, Shadow, Open, HandlerInv, TypeOK
<1>3. \A x \in HandlerTokens(m) \cup HandlerTokens(m)' :
         \E t \in Slot, k \in Attempts : x = <<t, k>>
  BY DEF HandlerTokens
<1>4. /\ HandlerTokens(m)' \in SUBSET HandlerTokens(m)
      /\ \A x \in HandlerTokens(m) : x \in HandlerTokens(m)' \/ x[1] = s
  <2>1. ASSUME NEW t \in Slot, NEW k \in Attempts
        PROVE  /\ <<t, k>> \in HandlerTokens(m)' => <<t, k>> \in HandlerTokens(m)
               /\ <<t, k>> \in HandlerTokens(m) => <<t, k>> \in HandlerTokens(m)' \/ t = s
    BY <1>0, <1>2, OwnTokens
  <2>. QED BY <1>3, <2>1
<1>5. CASE m # msg[s] \/ frame[s] = "dlq"
  <2>1. retry'[m] = retry[m]
    BY <1>0, <1>5, HandlerReach DEF Flush
  <2>. QED BY <1>1, <1>4, <2>1, NothingGained
<1>6. ASSUME m = msg[s], NEW a \in Attempts,
             retry'[m] = [retry[m] EXCEPT ![a] = @ + 1],
             \A k \in a..MaxAttempts : <<s, k>> \in HandlerTokens(m)
      PROVE  WithinBudget(m)'
  <2>. DEFINE Row == {s} \X (a..MaxAttempts)
  <2>1. MaxAttempts + 1 - a \in Nat /\ a..MaxAttempts \subseteq Attempts
    BY DEF Attempts
  <2>2. IsFiniteSet(Row) /\ Cardinality(Row) = MaxAttempts + 1 - a
    BY <2>1, RowOfTokens
  <2>3. Row \subseteq HandlerTokens(m) /\ Row \cap HandlerTokens(m)' = {}
    BY <1>2, <1>6, <2>1
  <2>. HIDE DEF Row
  <2>4. /\ IsFiniteSet(HandlerTokens(m)') /\ Cardinality(HandlerTokens(m)') \in Nat
        /\ HandlerTokens(m)' \cup Row \in SUBSET HandlerTokens(m)
    BY <1>4, <2>3, HandlerTokensFinite
  <2>5. Cardinality(HandlerTokens(m)' \cup Row) = Cardinality(HandlerTokens(m)') + Cardinality(Row)
    BY <2>2, <2>3, <2>4, DisjointUnion
  <2>6. /\ Cardinality(HandlerTokens(m)' \cup Row) <= Cardinality(HandlerTokens(m))
        /\ Cardinality(HandlerTokens(m)) \in Nat
    BY <2>4, HandlerTokensFinite
  <2>7. retry[m] \in [Attempts -> Nat] /\ IsFiniteSet(Copies(retry[m])) /\ IsFiniteSet(Copies(ready[m]))
    BY DEF TypeOK, WithinBudget, Finite
  <2>8. /\ IsFiniteSet(Copies(retry'[m])) /\ Cardinality(Copies(retry[m])) \in Nat
        /\ Cardinality(Copies(retry'[m])) = Cardinality(Copies(retry[m])) + (MaxAttempts + 1 - a)
    BY <1>6, <2>7, OneCopy
  <2>9. Cardinality(Copies(ready[m])) \in Nat /\ a \in Nat
    BY <2>7, FS_CardinalityType DEF Attempts
  <2>10. Total(m)' <= Total(m) /\ Total(m)' \in Nat /\ Total(m) \in Nat
    <3>1. Total(m)' = Cardinality(Copies(ready[m])) + Cardinality(Copies(retry'[m]))
                      + Cardinality(HandlerTokens(m)')
      BY <1>1 DEF Total
    <3>2. MaxAttempts + 1 - a \in Nat
      BY <2>1
    <3>3. Cardinality(HandlerTokens(m)') + (MaxAttempts + 1 - a) <= Cardinality(HandlerTokens(m))
      BY <2>2, <2>5, <2>6
    <3>. QED BY <2>4, <2>6, <2>8, <2>9, <3>1, <3>2, <3>3 DEF Total
  <2>11. Finite(m)'
    BY <1>1, <2>7, <2>8 DEF Finite
  <2>. QED BY <1>1, <2>10, <2>11, BoundType DEF WithinBudget
<1>7. CASE m = msg[s] /\ frame[s] \in {"again", "next"}
  <2>1. Open(s) /\ pc[s] \in {"rl_mirror", "retry_mirror", "ack"}
    BY <1>7 DEF HandlerInv, Open
  <2>2. PICK a \in Attempts : /\ a = IF frame[s] = "again" THEN attempt[s] ELSE attempt[s] + 1
                              /\ retry' = [retry EXCEPT ![m][a] = @ + 1]
    <3>1. CASE frame[s] = "again"
      BY <1>0, <1>7, <3>1 DEF Flush
    <3>2. CASE frame[s] = "next"
      <4>1. attempt[s] + 1 \in Attempts
        BY <1>0, <3>2 DEF HandlerInv, Attempts
      <4>. QED BY <1>7, <3>2, <4>1 DEF Flush
    <3>. QED BY <1>7, <3>1, <3>2
  <2>3. retry'[m] = [retry[m] EXCEPT ![a] = @ + 1]
    BY <2>2 DEF TypeOK
  <2>4. ASSUME NEW k \in a..MaxAttempts
        PROVE  <<s, k>> \in HandlerTokens(m)
    <3>1. k \in Attempts /\ k \in Nat /\ attempt[s] \in Nat
      BY <1>0 DEF Attempts
    <3>2. (k = attempt[s] /\ frame[s] = "again") \/ k > attempt[s]
      BY <2>2, <3>1
    <3>3. k \in Left(s)
      BY <1>7, <2>1, <3>1, <3>2 DEF Left, Shadow
    <3>. QED BY <1>7, <2>1, <3>1, <3>3 DEF HandlerTokens
  <2>. QED BY <1>6, <1>7, <2>3, <2>4
<1>. QED BY <1>5, <1>7 DEF Flush, TypeOK

\* A delivery moves a row of tokens from the queue to a handler.
LEMMA DeliverBudget ==
    ASSUME TypeOK, NEW s \in Slot, NEW x \in Msgs, NEW a \in Attempts, Deliver(s, x, a),
           NEW m \in Msgs, WithinBudget(m)
    PROVE  WithinBudget(m)'
<1>1. UNCHANGED <<retry, redelivered, sends, closing>>
  BY DEF Deliver, outside, process
<1>2. \A t \in Slot, k \in Attempts : t # s =>
         (<<t, k>> \in HandlerTokens(m)' <=> <<t, k>> \in HandlerTokens(m))
  <2>. TAKE t \in Slot, k \in Attempts
  <2>1. t # s => /\ pc'[t] = pc[t] /\ msg'[t] = msg[t] /\ attempt'[t] = attempt[t]
                 /\ frame'[t] = frame[t]
    BY DEF Deliver, Goto, TypeOK
  <2>2. t # s => (k \in Left(t)' <=> k \in Left(t))
    BY <1>1, <2>1 DEF Left, Shadow, Open
  <2>. QED BY <2>1, <2>2 DEF HandlerTokens
<1>3. \A k \in Attempts : <<s, k>> \notin HandlerTokens(m)
  BY DEF Deliver, HandlerTokens
<1>4. \A y \in HandlerTokens(m) \cup HandlerTokens(m)' :
         \E t \in Slot, k \in Attempts : y = <<t, k>>
  BY DEF HandlerTokens
<1>5. /\ msg'[s] = x /\ pc'[s] = "load" /\ attempt'[s] = a /\ frame'[s] = "none" /\ ~closing'[s[1]]
  BY <1>1 DEF Deliver, Goto, TypeOK, Open
<1>6. CASE m # x
  <2>1. \A k \in Attempts : <<s, k>> \notin HandlerTokens(m)'
    BY <1>5, <1>6 DEF HandlerTokens
  <2>2. HandlerTokens(m)' \in SUBSET HandlerTokens(m)
    BY <1>2, <1>4, <2>1
  <2>3. ready'[m] = ready[m]
    BY <1>6 DEF Deliver, TypeOK
  <2>. QED BY <1>1, <2>2, <2>3, NothingGained
<1>7. CASE m = x
  <2>. DEFINE Row == {s} \X (a..MaxAttempts)
  <2>1. MaxAttempts + 1 - a \in Nat /\ a..MaxAttempts \subseteq Attempts /\ a \in Nat
    BY DEF Attempts
  <2>2. IsFiniteSet(Row) /\ Cardinality(Row) = MaxAttempts + 1 - a
    BY <2>1, RowOfTokens
  <2>3. \A k \in Attempts : <<s, k>> \in HandlerTokens(m)' <=> k \in a..MaxAttempts
    <3>1. \A k \in Attempts : k \in Left(s)' <=> k \in a..MaxAttempts
      BY <1>5, <2>1 DEF Left, Shadow, Open, Attempts
    <3>. QED BY <1>5, <1>7, <3>1 DEF HandlerTokens
  <2>4. HandlerTokens(m)' = HandlerTokens(m) \cup Row /\ HandlerTokens(m) \cap Row = {}
    <3>1. ASSUME NEW y \in HandlerTokens(m)' PROVE y \in HandlerTokens(m) \cup Row
      BY <1>2, <1>4, <2>3
    <3>2. ASSUME NEW y \in HandlerTokens(m) PROVE y \in HandlerTokens(m)' /\ y \notin Row
      BY <1>2, <1>3, <1>4
    <3>3. ASSUME NEW y \in Row PROVE y \in HandlerTokens(m)'
      <4>1. PICK k \in a..MaxAttempts : y = <<s, k>> /\ k \in Attempts
        BY <2>1
      <4>. QED BY <2>3, <4>1
    <3>. QED BY <3>1, <3>2, <3>3
  <2>. HIDE DEF Row
  <2>5. /\ IsFiniteSet(HandlerTokens(m)) /\ Cardinality(HandlerTokens(m)) \in Nat
        /\ Cardinality(HandlerTokens(m)') = Cardinality(HandlerTokens(m)) + Cardinality(Row)
    BY <2>2, <2>4, HandlerTokensFinite, DisjointUnion
  <2>6. ready[m] \in [Attempts -> Nat] /\ ready[m][a] > 0 /\ ready'[m] = [ready[m] EXCEPT ![a] = @ - 1]
    BY <1>7 DEF Deliver, TypeOK
  <2>7. IsFiniteSet(Copies(ready[m])) /\ IsFiniteSet(Copies(retry[m]))
    BY DEF WithinBudget, Finite
  <2>8. /\ IsFiniteSet(Copies(ready'[m])) /\ Cardinality(Copies(ready'[m])) \in Nat
        /\ Cardinality(Copies(ready[m])) = Cardinality(Copies(ready'[m])) + (MaxAttempts + 1 - a)
    BY <2>6, <2>7, OneCopy
  <2>9. Cardinality(Copies(retry[m])) \in Nat /\ MaxAttempts + 1 - a \in Nat
    BY <2>1, <2>7, FS_CardinalityType
  <2>10. Total(m)' = Total(m)
    <3>1. Total(m)' = Cardinality(Copies(ready'[m])) + Cardinality(Copies(retry[m]))
                      + Cardinality(HandlerTokens(m)')
      BY <1>1 DEF Total
    <3>. QED BY <2>2, <2>5, <2>8, <2>9, <3>1 DEF Total
  <2>. QED BY <1>1, <2>7, <2>8, <2>10 DEF WithinBudget, Finite
<1>. QED BY <1>6, <1>7

\* An expiration moves a row of tokens from one queue to the other.
LEMMA ExpireBudget ==
    ASSUME TypeOK, NEW x \in Msgs, NEW a \in Attempts, Expire(x, a),
           NEW m \in Msgs, WithinBudget(m)
    PROVE  WithinBudget(m)'
<1>1. UNCHANGED <<redelivered, sends, pc, msg, attempt, frame, closing>>
  BY DEF Expire, outside, process, handler
<1>2. HandlerTokens(m)' = HandlerTokens(m)
  BY <1>1 DEF HandlerTokens, Left, Shadow, Open
<1>3. CASE m # x
  <2>1. ready'[m] = ready[m] /\ retry'[m] = retry[m]
    BY <1>3 DEF Expire, TypeOK
  <2>. QED BY <1>1, <1>2, <2>1, NothingGained
<1>4. CASE m = x
  <2>1. /\ ready[m] \in [Attempts -> Nat] /\ retry[m] \in [Attempts -> Nat] /\ retry[m][a] > 0
        /\ retry'[m] = [retry[m] EXCEPT ![a] = @ - 1]
        /\ ready'[m] = [ready[m] EXCEPT ![a] = @ + 1]
    BY <1>4 DEF Expire, TypeOK
  <2>2. IsFiniteSet(Copies(ready[m])) /\ IsFiniteSet(Copies(retry[m]))
    BY DEF WithinBudget, Finite
  <2>3. /\ IsFiniteSet(Copies(ready'[m])) /\ Cardinality(Copies(ready[m])) \in Nat
        /\ Cardinality(Copies(ready'[m])) = Cardinality(Copies(ready[m])) + (MaxAttempts + 1 - a)
    BY <2>1, <2>2, OneCopy
  <2>4. /\ IsFiniteSet(Copies(retry'[m])) /\ Cardinality(Copies(retry'[m])) \in Nat
        /\ Cardinality(Copies(retry[m])) = Cardinality(Copies(retry'[m])) + (MaxAttempts + 1 - a)
    BY <2>1, <2>2, OneCopy
  <2>5. MaxAttempts + 1 - a \in Nat /\ Cardinality(HandlerTokens(m)) \in Nat
    BY HandlerTokensFinite DEF Attempts
  <2>6. Total(m)' = Total(m)
    <3>1. Total(m)' = Cardinality(Copies(ready'[m])) + Cardinality(Copies(retry'[m]))
                      + Cardinality(HandlerTokens(m))
      BY <1>2 DEF Total
    <3>. QED BY <2>3, <2>4, <2>5, <3>1 DEF Total
  <2>. QED BY <1>1, <2>3, <2>4, <2>6 DEF WithinBudget, Finite
<1>. QED BY <1>3, <1>4

\* The end of a process pays for what it hands out anew with the redeliveries it counts.
LEMMA StopBudget ==
    ASSUME TypeOK, NEW w \in Workers, Crash(w) \/ Shutdown(w) \/ Exit(w),
           NEW m \in Msgs, WithinBudget(m)
    PROVE  WithinBudget(m)'
<1>1. UNCHANGED <<retry, sends>>
  BY DEF Crash, Shutdown, Exit, Requeue, broker, outside
<1>2. \A t \in Slot, k \in Attempts :
         <<t, k>> \in HandlerTokens(m)' => <<t, k>> \in HandlerTokens(m)
  <2>. SUFFICES ASSUME NEW t \in Slot, NEW k \in Attempts, <<t, k>> \in HandlerTokens(m)'
                PROVE  <<t, k>> \in HandlerTokens(m)
    OBVIOUS
  <2>1. pc'[t] # "idle" /\ msg'[t] = m /\ k \in Left(t)'
    BY DEF HandlerTokens
  <2>2. /\ pc'[t] = pc[t] /\ msg'[t] = msg[t] /\ attempt'[t] = attempt[t] /\ frame'[t] = frame[t]
        /\ closing'[t[1]] = closing[t[1]] \/ closing'[t[1]]
    BY <2>1, SlotOwner DEF Crash, Shutdown, Exit, Restart, handler, TypeOK
  <2>3. k \in Left(t)
    BY <2>1, <2>2 DEF Left, Shadow, Open
  <2>. QED BY <2>1, <2>2, <2>3 DEF HandlerTokens
<1>3. HandlerTokens(m)' \in SUBSET HandlerTokens(m)
  <2>1. \A y \in HandlerTokens(m)' : \E t \in Slot, k \in Attempts : y = <<t, k>>
    BY DEF HandlerTokens
  <2>. QED BY <1>2, <2>1
<1>4. CASE Crash(w) \/ Shutdown(w)
  <2>. DEFINE b == Cardinality(Busy(w, m))
  <2>1. Requeue(w) /\ IsFiniteSet(Copies(ready[m])) /\ IsFiniteSet(Copies(retry[m]))
    BY <1>4 DEF Crash, Shutdown, WithinBudget, Finite
  <2>2. /\ IsFiniteSet(Copies(ready'[m])) /\ b \in Nat
        /\ Cardinality(Copies(ready'[m])) <= Cardinality(Copies(ready[m])) + b * MaxAttempts
        /\ Cardinality(Copies(ready[m])) \in Nat /\ Cardinality(Copies(ready'[m])) \in Nat
        /\ redelivered'[m] = redelivered[m] + b
    BY <2>1, RequeueTokens
  <2>3. /\ Cardinality(HandlerTokens(m)') \in Nat /\ Cardinality(HandlerTokens(m)) \in Nat
        /\ Cardinality(HandlerTokens(m)') <= Cardinality(HandlerTokens(m))
    BY <1>3, HandlerTokensFinite
  <2>. HIDE DEF b
  <2>4. Cardinality(Copies(retry[m])) \in Nat /\ b * MaxAttempts \in Nat
    BY <2>1, <2>2, FS_CardinalityType
  <2>5. Total(m)' <= Total(m) + b * MaxAttempts /\ Total(m)' \in Nat /\ Total(m) \in Nat
    BY <1>1, <2>2, <2>3, <2>4 DEF Total
  <2>6. /\ MaxAttempts * (redelivered[m] + 1) \in Nat /\ sends[m] \in Nat
        /\ MaxAttempts * (redelivered[m] + 1) + b * MaxAttempts
             = MaxAttempts * (redelivered[m] + b + 1)
    BY <2>2, BoundType
  <2>7. sends[m] + Total(m) <= MaxAttempts * (redelivered[m] + 1)
    BY DEF WithinBudget
  <2>8. sends[m] + Total(m)' <= MaxAttempts * (redelivered[m] + b + 1)
    BY <2>4, <2>5, <2>6, <2>7
  <2>. QED BY <1>1, <2>1, <2>2, <2>8 DEF WithinBudget, Finite
<1>5. CASE Exit(w)
  <2>1. UNCHANGED <<ready, redelivered>>
    BY <1>5 DEF Exit, broker
  <2>. QED BY <1>1, <1>3, <2>1, NothingGained
<1>. QED BY <1>4, <1>5

(***************************************************************************)
(* Meta accepts a message at most MAX_ATTEMPTS times for each time its job *)
(* is handed out, whatever crashes and whatever answers get lost.          *)
(***************************************************************************)
THEOREM BoundedSendsHolds == Spec => []BoundedSends
<1>1. Init => Budget
  <2>. SUFFICES ASSUME Init, NEW m \in Msgs PROVE WithinBudget(m)
    BY DEF Budget
  <2>. DEFINE none == [a \in Attempts |-> 0]
  <2>1. Copies(none) = {} /\ HandlerTokens(m) = {} /\ retry[m] = none
    BY AttemptsAreTries DEF Init, Copies, Chances, Tokens, HandlerTokens
  <2>2. none \in [Attempts -> Nat] /\ 1 \in Attempts
    BY DEF Attempts
  <2>3. ready[m] = [none EXCEPT ![1] = @ + 1]
    BY SMTT(30), <2>2 DEF Init
  <2>. HIDE DEF none
  <2>4. /\ IsFiniteSet(Copies(ready[m]))
        /\ Cardinality(Copies(ready[m])) = Cardinality(Copies(none)) + (MaxAttempts + 1 - 1)
    <3>1. IsFiniteSet(Copies(none))
      BY <2>1, FS_EmptySet
    <3>2. LET p == [none EXCEPT ![1] = @ + 1]
          IN  /\ IsFiniteSet(Copies(p))
              /\ Cardinality(Copies(p)) = Cardinality(Copies(none)) + (MaxAttempts + 1 - 1)
      BY <2>2, <3>1, OneCopy
    <3>. QED BY <2>3, <3>2
  <2>5. Total(m) = MaxAttempts /\ Finite(m)
    BY <2>1, <2>4, FS_EmptySet DEF Total, Finite
  <2>6. sends[m] = 0 /\ redelivered[m] = 0
    BY DEF Init
  <2>. QED BY <2>5, <2>6 DEF WithinBudget
<1>2. TypeOK /\ HandlerInv /\ Budget /\ [Next]_vars => Budget'
  <2>. SUFFICES ASSUME TypeOK, HandlerInv, [Next]_vars, NEW m \in Msgs, WithinBudget(m)
                PROVE  WithinBudget(m)'
    BY DEF Budget
  <2>1. ASSUME NEW s \in Slot, Handle(s) PROVE WithinBudget(m)'
    BY <2>1, HandleBudget, FlushBudget
  <2>2. ASSUME NEW s \in Slot, NEW x \in Msgs, NEW a \in Attempts, Deliver(s, x, a)
        PROVE  WithinBudget(m)'
    BY <2>2, DeliverBudget
  <2>3. ASSUME NEW x \in Msgs, NEW a \in Attempts, Expire(x, a) PROVE WithinBudget(m)'
    BY <2>3, ExpireBudget
  <2>4. ASSUME NEW w \in Workers, Crash(w) \/ Shutdown(w) \/ Exit(w) PROVE WithinBudget(m)'
    BY <2>4, StopBudget
  <2>5. CASE Tick \/ UNCHANGED vars
    <3>1. UNCHANGED <<broker, handler, sends, process>>
      BY <2>5 DEF Tick, vars, outside
    <3>2. HandlerTokens(m)' = HandlerTokens(m)
      BY <3>1 DEF HandlerTokens, Left, Shadow, Open, handler, process
    <3>. QED BY <3>1, <3>2, NothingGained DEF broker
  <2>. QED BY <2>1, <2>2, <2>3, <2>4, <2>5 DEF Next
<1>3. TypeOK /\ Budget => BoundedSends
  <2>. SUFFICES ASSUME TypeOK, NEW m \in Msgs, WithinBudget(m)
                PROVE  sends[m] <= MaxAttempts * (redelivered[m] + 1)
    BY DEF Budget, BoundedSends
  <2>1. Total(m) \in Nat
    BY HandlerTokensFinite, FS_CardinalityType DEF Total, WithinBudget, Finite
  <2>. QED BY <2>1, BoundType DEF WithinBudget
<1>. QED BY <1>1, <1>2, <1>3, InvariantHolds, PTL DEF Spec
=============================================================================
