----------------------------- MODULE MessageSend -----------------------------
(***************************************************************************)
(* Stage 2 of the worker: consumeMessageQueue and processMessageJob of     *)
(* worker/src/index.ts, with the queues message.send, message.send.retry   *)
(* and message.send.dlq, the campaign_messages row of every message and    *)
(* its mirror in messages.                                                 *)
(*                                                                         *)
(* A worker process runs up to Prefetch handlers at a time, and every      *)
(* await of a handler is a point where the others run, so each query, each *)
(* call of the limiter and each call of Meta is a step: pc is the await    *)
(* whose effect comes next.  A query fails with its effect applied (the    *)
(* answer is lost) or not.  In the try block a failure leads to "catch".   *)
(* In the catch block nothing handles it: the rejection ends the process,  *)
(* which is a Crash before or after that step.                             *)
(*                                                                         *)
(* Publishing and acking are synchronous calls that only put a frame in    *)
(* the socket buffer.  frame is the published job the broker has not got   *)
(* yet; an ack travels behind it on the same channel.  A crash loses the   *)
(* frames still buffered, and the broker hands unacked jobs out again.     *)
(* SIGINT closes the channel first: the broker takes the unacked jobs      *)
(* back while their handlers run on, able to reach the database and Meta   *)
(* but no longer the broker, until the process exits.                      *)
(*                                                                         *)
(* One tenant with Redis configured.  Delays are left out: a job in the    *)
(* retry queue may come back at any time.                                  *)
(***************************************************************************)
EXTENDS Integers, FiniteSets

CONSTANTS
    Msgs,          \* messages of a launched campaign
    NoMsg,         \* what a free handler slot holds
    Workers,       \* worker processes
    Prefetch,      \* channel.prefetch: handlers a process runs at a time
    MaxAttempts,   \* WORKER_MAX_ATTEMPTS
    Limit,         \* sends the plan allows in a minute
    MaxStops       \* bound: crashes and shutdowns of worker processes

ASSUME MsgsAssumption == IsFiniteSet(Msgs) /\ NoMsg \notin Msgs
ASSUME WorkersAssumption == IsFiniteSet(Workers) /\ Prefetch \in Nat \ {0}
ASSUME AttemptsAssumption == MaxAttempts \in Nat \ {0}
ASSUME LimitAssumption == Limit \in Nat \ {0} /\ MaxStops \in Nat

Slot == Workers \X (1..Prefetch)
Attempts == 1..MaxAttempts
SlotsOf(w) == {w} \X (1..Prefetch)

VARIABLES
    ready,         \* message.send: copies of each job, by message and attempt
    retry,         \* message.send.retry
    dlq,           \* message.send.dlq
    redelivered,   \* copies of a job the broker has handed out once more
    pc,            \* per slot: the await whose effect comes next
    msg,           \* per slot: the message of the delivery being handled
    attempt,       \* per slot: the attempt number its payload carries
    id,            \* per slot: the provider id Meta returned, 0 when none
    frame,         \* per slot: the published frame still in the socket buffer
    cm,            \* campaign_messages row of each message
    mirror,        \* messages row of each message
    logged,        \* provider ids message_logs reports as accepted
    rate,          \* rate:<tenant>:<window>, counted up to Limit + 1
    sends,         \* messages Meta has accepted so far; also the id it gives
    failed,        \* attempts of a message that ended in the generic catch
    closing,       \* per worker: SIGINT received, the channel is closed
    stops          \* crashes and shutdowns so far

broker == <<ready, retry, dlq, redelivered>>
rows == <<cm, mirror, logged>>
handler == <<pc, msg, attempt, id, frame>>
outside == <<rate, sends, failed>>
process == <<closing, stops>>
vars == <<broker, rows, handler, outside, process>>

PcOfTry == {"load", "limit", "send", "acc_row", "acc_mirror", "acc_log",
            "fail_row", "fail_mirror", "fail_log", "ack_ok"}
PcOfCatch == {"catch", "rl_row", "rl_pub", "rl_mirror", "retry_mirror",
              "dead_mirror", "dead_pub", "ack"}
Statuses == {"queued", "accepted_meta", "failed_retryable", "rate_limited",
             "failed_permanent"}

TypeOK ==
    /\ ready \in [Msgs -> [Attempts -> Nat]]
    /\ retry \in [Msgs -> [Attempts -> Nat]]
    /\ dlq \in [Msgs -> [Attempts -> Nat]]
    /\ redelivered \in [Msgs -> Nat]
    /\ pc \in [Slot -> {"idle"} \cup PcOfTry \cup PcOfCatch]
    /\ msg \in [Slot -> Msgs \cup {NoMsg}]
    /\ attempt \in [Slot -> Nat]
    /\ \A s \in Slot : pc[s] # "idle" => msg[s] \in Msgs /\ attempt[s] \in Attempts
    /\ id \in [Slot -> Nat]
    /\ frame \in [Slot -> {"none", "again", "next", "dlq"}]
    /\ \A s \in Slot : frame[s] # "none" => pc[s] # "idle"
    /\ cm \in [Msgs -> [status : Statuses, metaId : Nat, attempts : Nat]]
    /\ mirror \in [Msgs -> [status : Statuses, providerId : Nat]]
    /\ logged \in [Msgs -> SUBSET Nat]
    /\ rate \in 0..(Limit + 1)
    /\ sends \in [Msgs -> Nat]
    /\ failed \in [Msgs -> Nat]
    /\ closing \in [Workers -> BOOLEAN]
    /\ stops \in 0..MaxStops

\* The state processLaunchJob leaves: rows queued, one job per message.
Init ==
    /\ ready = [m \in Msgs |-> [a \in Attempts |-> IF a = 1 THEN 1 ELSE 0]]
    /\ retry = [m \in Msgs |-> [a \in Attempts |-> 0]]
    /\ dlq = [m \in Msgs |-> [a \in Attempts |-> 0]]
    /\ redelivered = [m \in Msgs |-> 0]
    /\ pc = [s \in Slot |-> "idle"]
    /\ msg = [s \in Slot |-> NoMsg]
    /\ attempt = [s \in Slot |-> 0]
    /\ id = [s \in Slot |-> 0]
    /\ frame = [s \in Slot |-> "none"]
    /\ cm = [m \in Msgs |-> [status |-> "queued", metaId |-> 0, attempts |-> 0]]
    /\ mirror = [m \in Msgs |-> [status |-> "queued", providerId |-> 0]]
    /\ logged = [m \in Msgs |-> {}]
    /\ rate = 0
    /\ sends = [m \in Msgs |-> 0]
    /\ failed = [m \in Msgs |-> 0]
    /\ closing = [w \in Workers |-> FALSE]
    /\ stops = 0

-----------------------------------------------------------------------------
Goto(s, label) == pc' = [pc EXCEPT ![s] = label]

\* A query of the try block: done, done with its answer lost, or not done.
TryQuery(s, label, Done, Undone) ==
    \/ Done /\ Goto(s, label)
    \/ (Done \/ Undone) /\ Goto(s, "catch")

Open(s) == ~closing[s[1]]

\* updates of the campaign_messages row
CmUpdate(m, st, newId, inc) ==
    cm' = [cm EXCEPT ![m] = [status |-> st,
                             metaId |-> IF newId = 0 THEN @.metaId ELSE newId,
                             attempts |-> @.attempts + inc]]

\* syncMessageMirror (newId = 0: null, coalesced) and syncMessageMirrorByCampaignMessage
MirrorUpdate(m, st, newId) ==
    mirror' = [mirror EXCEPT ![m] = [status |-> st,
                                     providerId |-> IF newId = 0 THEN @.providerId ELSE newId]]

-----------------------------------------------------------------------------
\* Slips the properties below are there to catch: Spec uses none of these.

\* A missing target is skipped instead of retried.
LoadSkipsMissing(s) ==
    /\ pc[s] = "load"
    /\ TryQuery(s, "limit", TRUE, TRUE) \/ Goto(s, "ack_ok")
    /\ UNCHANGED <<broker, rows, msg, attempt, id, frame, outside, process>>

\* The limit is reached one call early.
CheckLimitEarly(s) ==
    /\ pc[s] = "limit"
    /\ \/ /\ rate' = IF rate > Limit THEN rate ELSE rate + 1
          /\ Goto(s, IF rate + 1 >= Limit THEN "rl_row" ELSE "send")
       \/ UNCHANGED rate /\ Goto(s, "catch")
    /\ UNCHANGED <<broker, rows, msg, attempt, id, frame, sends, failed, process>>

\* The mirror is not given the provider id.
AcceptMirrorWithoutId(s) ==
    /\ pc[s] = "acc_mirror"
    /\ TryQuery(s, "acc_log", MirrorUpdate(msg[s], "accepted_meta", 0), UNCHANGED mirror)
    /\ UNCHANGED <<broker, cm, logged, msg, attempt, id, frame, outside, process>>

\* A status the table does not know.
FailRowUnknownStatus(s) ==
    /\ pc[s] = "fail_row"
    /\ TryQuery(s, "fail_mirror", CmUpdate(msg[s], "failed", 0, 1), UNCHANGED cm)
    /\ UNCHANGED <<broker, mirror, logged, msg, attempt, id, frame, outside, process>>

\* A refused call counts as an attempt.
LimitedRowCounts(s) ==
    /\ pc[s] = "rl_row"
    /\ CmUpdate(msg[s], "rate_limited", 0, 1)
    /\ Goto(s, "rl_pub")
    /\ UNCHANGED <<broker, mirror, logged, msg, attempt, id, frame, outside, process>>

\* A refused job is acked without a retry.
LimitedPublishNothing(s) ==
    /\ pc[s] = "rl_pub" /\ Open(s)
    /\ Goto(s, "rl_mirror")
    /\ UNCHANGED <<broker, rows, msg, attempt, id, frame, outside, process>>

\* The return after a refusal is missing.
LimitedMirrorFallsThrough(s) ==
    /\ pc[s] = "rl_mirror"
    /\ MirrorUpdate(msg[s], "rate_limited", 0)
    /\ Goto(s, "catch")
    /\ UNCHANGED <<broker, cm, logged, msg, attempt, id, frame, outside, process>>

\* The retry carries the attempt number of the job that failed.
RetryPublishSameAttempt(s) ==
    /\ pc[s] = "catch" /\ Open(s)
    /\ attempt[s] + 1 <= MaxAttempts
    /\ frame' = [frame EXCEPT ![s] = "again"]
    /\ failed' = [failed EXCEPT ![msg[s]] = @ + 1]
    /\ Goto(s, "retry_mirror")
    /\ UNCHANGED <<broker, rows, msg, attempt, id, rate, sends, process>>

\* The last attempt is not made.
DeadRowEarly(s) ==
    /\ pc[s] = "catch"
    /\ attempt[s] + 1 >= MaxAttempts
    /\ CmUpdate(msg[s], "failed_permanent", 0, 1)
    /\ failed' = [failed EXCEPT ![msg[s]] = @ + 1]
    /\ Goto(s, "dead_mirror")
    /\ UNCHANGED <<broker, mirror, logged, msg, attempt, id, frame, rate, sends, process>>

\* A dead job is published to the retry queue.
DeadPublishRetries(s) ==
    /\ pc[s] = "dead_pub" /\ Open(s)
    /\ frame' = [frame EXCEPT ![s] = "again"]
    /\ Goto(s, "ack")
    /\ UNCHANGED <<broker, rows, msg, attempt, id, outside, process>>

-----------------------------------------------------------------------------
\* channel.consume hands a job to a free handler, which parses it and queries its target.
Deliver(s, m, a) ==
    /\ pc[s] = "idle" /\ Open(s) /\ ready[m][a] > 0
    /\ ready' = [ready EXCEPT ![m][a] = @ - 1]
    /\ msg' = [msg EXCEPT ![s] = m]
    /\ attempt' = [attempt EXCEPT ![s] = a]
    /\ Goto(s, "load")
    /\ UNCHANGED <<retry, dlq, redelivered, id, frame, rows, outside, process>>

\* The select of the target; a row that is gone is an error like a failed query.
Load(s) ==
    /\ pc[s] = "load"
    /\ TryQuery(s, "limit", TRUE, TRUE)
    /\ UNCHANGED <<broker, rows, msg, attempt, id, frame, outside, process>>

\* limiter.assertAllowed: the call is counted, allowed or not.
CheckLimit(s) ==
    /\ pc[s] = "limit"
    /\ \/ /\ rate' = IF rate > Limit THEN rate ELSE rate + 1
          /\ Goto(s, IF rate + 1 > Limit THEN "rl_row" ELSE "send")
       \/ /\ rate' \in {rate, IF rate > Limit THEN rate ELSE rate + 1}
          /\ Goto(s, "catch")
    /\ UNCHANGED <<broker, rows, msg, attempt, id, frame, sends, failed, process>>

\* sendWhatsappTemplateMessage: an id, an error code, or an exception; without
\* an id Meta may still have taken the message.
Send(s) ==
    /\ pc[s] = "send"
    /\ \/ /\ sends' = [sends EXCEPT ![msg[s]] = @ + 1]
          /\ id' = [id EXCEPT ![s] = sends[msg[s]] + 1]
          /\ Goto(s, "acc_row")
       \/ /\ sends' \in {sends, [sends EXCEPT ![msg[s]] = @ + 1]}
          /\ \/ Goto(s, "fail_row")
             \/ Goto(s, "catch")
          /\ UNCHANGED id
    /\ UNCHANGED <<broker, rows, msg, attempt, frame, rate, failed, process>>

AcceptRow(s) ==
    /\ pc[s] = "acc_row"
    /\ TryQuery(s, "acc_mirror", CmUpdate(msg[s], "accepted_meta", id[s], 1), UNCHANGED cm)
    /\ UNCHANGED <<broker, mirror, logged, msg, attempt, id, frame, outside, process>>

AcceptMirror(s) ==
    /\ pc[s] = "acc_mirror"
    /\ TryQuery(s, "acc_log", MirrorUpdate(msg[s], "accepted_meta", id[s]), UNCHANGED mirror)
    /\ UNCHANGED <<broker, cm, logged, msg, attempt, id, frame, outside, process>>

AcceptLog(s) ==
    /\ pc[s] = "acc_log"
    /\ TryQuery(s, "ack_ok", logged' = [logged EXCEPT ![msg[s]] = @ \cup {id[s]}],
                UNCHANGED logged)
    /\ UNCHANGED <<broker, cm, mirror, msg, attempt, id, frame, outside, process>>

FailRow(s) ==
    /\ pc[s] = "fail_row"
    /\ TryQuery(s, "fail_mirror", CmUpdate(msg[s], "failed_retryable", 0, 1), UNCHANGED cm)
    /\ UNCHANGED <<broker, mirror, logged, msg, attempt, id, frame, outside, process>>

FailMirror(s) ==
    /\ pc[s] = "fail_mirror"
    /\ TryQuery(s, "fail_log", MirrorUpdate(msg[s], "failed_retryable", 0), UNCHANGED mirror)
    /\ UNCHANGED <<broker, cm, logged, msg, attempt, id, frame, outside, process>>

\* The log entry of a failure, then the throw.
FailLog(s) ==
    /\ pc[s] = "fail_log"
    /\ Goto(s, "catch")
    /\ UNCHANGED <<broker, rows, msg, attempt, id, frame, outside, process>>

\* catch, RateLimitError: the row, a retry with the same attempt, the mirror.
LimitedRow(s) ==
    /\ pc[s] = "rl_row"
    /\ CmUpdate(msg[s], "rate_limited", 0, 0)
    /\ Goto(s, "rl_pub")
    /\ UNCHANGED <<broker, mirror, logged, msg, attempt, id, frame, outside, process>>

LimitedPublish(s) ==
    /\ pc[s] = "rl_pub" /\ Open(s)
    /\ frame' = [frame EXCEPT ![s] = "again"]
    /\ Goto(s, "rl_mirror")
    /\ UNCHANGED <<broker, rows, msg, attempt, id, outside, process>>

LimitedMirror(s) ==
    /\ pc[s] = "rl_mirror"
    /\ MirrorUpdate(msg[s], "rate_limited", 0)
    /\ Goto(s, "ack")
    /\ UNCHANGED <<broker, cm, logged, msg, attempt, id, frame, outside, process>>

\* catch, any other error, attempts left: enqueueRetry, then the mirror.
RetryPublish(s) ==
    /\ pc[s] = "catch" /\ Open(s)
    /\ attempt[s] + 1 <= MaxAttempts
    /\ frame' = [frame EXCEPT ![s] = "next"]
    /\ failed' = [failed EXCEPT ![msg[s]] = @ + 1]
    /\ Goto(s, "retry_mirror")
    /\ UNCHANGED <<broker, rows, msg, attempt, id, rate, sends, process>>

RetryMirror(s) ==
    /\ pc[s] = "retry_mirror"
    /\ MirrorUpdate(msg[s], "failed_retryable", 0)
    /\ Goto(s, "ack")
    /\ UNCHANGED <<broker, cm, logged, msg, attempt, id, frame, outside, process>>

\* catch, no attempt left: the row, the mirror, enqueueDlq.
DeadRow(s) ==
    /\ pc[s] = "catch"
    /\ attempt[s] + 1 > MaxAttempts
    /\ CmUpdate(msg[s], "failed_permanent", 0, 1)
    /\ failed' = [failed EXCEPT ![msg[s]] = @ + 1]
    /\ Goto(s, "dead_mirror")
    /\ UNCHANGED <<broker, mirror, logged, msg, attempt, id, frame, rate, sends, process>>

DeadMirror(s) ==
    /\ pc[s] = "dead_mirror"
    /\ MirrorUpdate(msg[s], "failed_permanent", 0)
    /\ Goto(s, "dead_pub")
    /\ UNCHANGED <<broker, cm, logged, msg, attempt, id, frame, outside, process>>

DeadPublish(s) ==
    /\ pc[s] = "dead_pub" /\ Open(s)
    /\ frame' = [frame EXCEPT ![s] = "dlq"]
    /\ Goto(s, "ack")
    /\ UNCHANGED <<broker, rows, msg, attempt, id, outside, process>>

\* The broker receives a published frame.
Flush(s) ==
    /\ frame[s] # "none"
    /\ LET m == msg[s]
           a == attempt[s]
       IN  \/ /\ frame[s] = "again"
              /\ retry' = [retry EXCEPT ![m][a] = @ + 1]
              /\ UNCHANGED dlq
           \/ /\ frame[s] = "next"
              /\ retry' = [retry EXCEPT ![m][a + 1] = @ + 1]
              /\ UNCHANGED dlq
           \/ /\ frame[s] = "dlq"
              /\ dlq' = [dlq EXCEPT ![m][a] = @ + 1]
              /\ UNCHANGED retry
    /\ frame' = [frame EXCEPT ![s] = "none"]
    /\ UNCHANGED <<ready, redelivered, pc, msg, attempt, id, rows, outside, process>>

\* The broker receives the ack, behind everything published before it.
Ack(s) ==
    /\ pc[s] \in {"ack", "ack_ok"} /\ Open(s)
    /\ frame[s] = "none"
    /\ Goto(s, "idle")
    /\ msg' = [msg EXCEPT ![s] = NoMsg]
    /\ attempt' = [attempt EXCEPT ![s] = 0]
    /\ id' = [id EXCEPT ![s] = 0]
    /\ UNCHANGED <<broker, frame, rows, outside, process>>

\* The ack at the end of the try block throws on a closed channel.
AckThrows(s) ==
    /\ pc[s] = "ack_ok" /\ ~Open(s)
    /\ Goto(s, "catch")
    /\ UNCHANGED <<broker, rows, msg, attempt, id, frame, outside, process>>

\* message.send.retry dead-letters a job whose expiration is over to message.send.
Expire(m, a) ==
    /\ retry[m][a] > 0
    /\ retry' = [retry EXCEPT ![m][a] = @ - 1]
    /\ ready' = [ready EXCEPT ![m][a] = @ + 1]
    /\ UNCHANGED <<dlq, redelivered, rows, handler, outside, process>>

\* A new minute: the limiter counts under a fresh key.
Tick ==
    /\ rate > 0
    /\ rate' = 0
    /\ UNCHANGED <<broker, rows, handler, sends, failed, process>>

-----------------------------------------------------------------------------
Busy(w, m) == {s \in SlotsOf(w) : pc[s] # "idle" /\ msg[s] = m}

\* The broker puts the unacked jobs of a lost channel back in the queue.
Requeue(w) ==
    /\ ready' = [m \in Msgs |-> [a \in Attempts |->
                    ready[m][a] + Cardinality({s \in Busy(w, m) : attempt[s] = a})]]
    /\ redelivered' = [m \in Msgs |-> redelivered[m] + Cardinality(Busy(w, m))]
    /\ UNCHANGED <<retry, dlq>>

\* The handlers of a process are gone and a new process starts.
Restart(w) ==
    /\ pc' = [s \in Slot |-> IF s \in SlotsOf(w) THEN "idle" ELSE pc[s]]
    /\ msg' = [s \in Slot |-> IF s \in SlotsOf(w) THEN NoMsg ELSE msg[s]]
    /\ attempt' = [s \in Slot |-> IF s \in SlotsOf(w) THEN 0 ELSE attempt[s]]
    /\ id' = [s \in Slot |-> IF s \in SlotsOf(w) THEN 0 ELSE id[s]]
    /\ frame' = [s \in Slot |-> IF s \in SlotsOf(w) THEN "none" ELSE frame[s]]

\* The process dies: an error nothing handles, a lost connection, a kill.
Crash(w) ==
    /\ ~closing[w] /\ stops < MaxStops
    /\ stops' = stops + 1
    /\ Requeue(w)
    /\ Restart(w)
    /\ UNCHANGED <<rows, outside, closing>>

\* SIGINT: channel.close(), which sends what is buffered first.
Shutdown(w) ==
    /\ ~closing[w] /\ stops < MaxStops
    /\ \A s \in SlotsOf(w) : frame[s] = "none"
    /\ stops' = stops + 1
    /\ closing' = [closing EXCEPT ![w] = TRUE]
    /\ Requeue(w)
    /\ UNCHANGED <<rows, handler, outside>>

\* The closing process ends: process.exit, or a publish or ack that throws in
\* a catch block.
Exit(w) ==
    /\ closing[w]
    /\ closing' = [closing EXCEPT ![w] = FALSE]
    /\ Restart(w)
    /\ UNCHANGED <<broker, rows, outside, stops>>

-----------------------------------------------------------------------------
\* processMessageJob and the handler around it
Handle(s) ==
    \/ Load(s) \/ CheckLimit(s) \/ Send(s)
    \/ AcceptRow(s) \/ AcceptMirror(s) \/ AcceptLog(s)
    \/ FailRow(s) \/ FailMirror(s) \/ FailLog(s)
    \/ LimitedRow(s) \/ LimitedPublish(s) \/ LimitedMirror(s)
    \/ RetryPublish(s) \/ RetryMirror(s)
    \/ DeadRow(s) \/ DeadMirror(s) \/ DeadPublish(s)
    \/ Flush(s) \/ Ack(s) \/ AckThrows(s)

Next ==
    \/ \E s \in Slot : Handle(s)
    \/ \E s \in Slot, m \in Msgs, a \in Attempts : Deliver(s, m, a)
    \/ \E m \in Msgs, a \in Attempts : Expire(m, a)
    \/ Tick
    \/ \E w \in Workers : Crash(w) \/ Shutdown(w) \/ Exit(w)

Spec == Init /\ [][Next]_vars

(***************************************************************************)
(* Every query and every call is answered some day (pool, Redis and fetch  *)
(* time out), the broker delivers what is ready to a free consumer and     *)
(* dead-letters what has expired, minutes pass, and a closing process      *)
(* exits.  Nothing forces a crash.                                         *)
(***************************************************************************)
Fairness ==
    /\ \A s \in Slot : WF_vars(Handle(s))
    /\ \A m \in Msgs, a \in Attempts :
          /\ WF_vars(\E s \in Slot : Deliver(s, m, a))
          /\ WF_vars(Expire(m, a))
    /\ WF_vars(Tick)
    /\ \A w \in Workers : WF_vars(Exit(w))

FairSpec == Spec /\ Fairness
-----------------------------------------------------------------------------
\* A handler that has handed its job over: the broker has the retry or the
\* parked job, and only the mirror and the ack are left.
Shadow(s) == pc[s] \in {"rl_mirror", "retry_mirror", "ack"} /\ frame[s] = "none"

\* A handler the job of m depends on.
Owing(s, m) == pc[s] # "idle" /\ msg[s] = m /\ Open(s) /\ ~Shadow(s)

Queued(m) == \E a \in Attempts : ready[m][a] > 0 \/ retry[m][a] > 0
Owed(m) == Queued(m) \/ \E s \in Slot : Owing(s, m)
Parked(m) == \E a \in Attempts : dlq[m][a] > 0
Recorded(m) == cm[m].metaId # 0

\* Messages no consumer was lost for.
Undisturbed(m) == redelivered[m] = 0

(***************************************************************************)
(* A launched message is never dropped, whatever process dies and whatever *)
(* query fails: some copy of its job is in a queue or in a live handler,   *)
(* or a provider id is on its row, or it is in the dead-letter queue.      *)
(* (The order of query, publish and ack in consumeMessageQueue.)           *)
(***************************************************************************)
NoJobLost == \A m \in Msgs : Owed(m) \/ Recorded(m) \/ Parked(m)

(***************************************************************************)
(* A message is parked only after MAX_ATTEMPTS attempts ended in an error  *)
(* other than the rate limit, also when crashes repeat some of them.       *)
(***************************************************************************)
ParkedAfterMaxAttempts == \A m \in Msgs : Parked(m) => failed[m] >= MaxAttempts

(***************************************************************************)
(* Meta accepts a message at most MAX_ATTEMPTS times for each time its job *)
(* was handed out anew: rate-limited retries and late answers add none.    *)
(***************************************************************************)
BoundedSends == \A m \in Msgs : sends[m] <= MaxAttempts * (redelivered[m] + 1)

\* The places a job of m is in: the three queues and the handlers it depends on.
Places(m) ==
    {<<"ready", a>> : a \in {a \in Attempts : ready[m][a] > 0}} \cup
    {<<"retry", a>> : a \in {a \in Attempts : retry[m][a] > 0}} \cup
    {<<"dlq", a>> : a \in {a \in Attempts : dlq[m][a] > 0}} \cup
    {<<"slot", s>> : s \in {s \in Slot : Owing(s, m)}}

(***************************************************************************)
(* Without a lost consumer a message has one job at a time: the retry the  *)
(* catch block publishes before its ack never makes two.                   *)
(***************************************************************************)
SingleCopy ==
    \A m \in Msgs : Undisturbed(m) =>
        /\ Cardinality(Places(m)) <= 1
        /\ \A a \in Attempts : ready[m][a] <= 1 /\ retry[m][a] <= 1 /\ dlq[m][a] <= 1

(***************************************************************************)
(* Without a lost consumer a message whose job is over is either accepted, *)
(* with one provider id in its row, its mirror and its log, or parked,     *)
(* marked failed_permanent after exactly MAX_ATTEMPTS failed attempts.     *)
(***************************************************************************)
OutcomeRecorded ==
    \A m \in Msgs : Undisturbed(m) /\ ~Owed(m) =>
        \/ /\ ~Parked(m)
           /\ cm[m].status = "accepted_meta"
           /\ cm[m].metaId = mirror[m].providerId
           /\ cm[m].metaId \in logged[m]
        \/ /\ Parked(m)
           /\ cm[m].status = "failed_permanent"
           /\ failed[m] = MaxAttempts

(***************************************************************************)
(* Without a lost consumer attempt_count is at most one more than the      *)
(* attempts that failed: the last failure counts twice, nothing else does. *)
(***************************************************************************)
AttemptCountBounded ==
    \A m \in Msgs : Undisturbed(m) => cm[m].attempts <= failed[m] + 1

(***************************************************************************)
(* Without a lost consumer failed_permanent is final in the row: no late   *)
(* write of an earlier attempt of the same message changes it.             *)
(***************************************************************************)
PermanentIsFinal ==
    [][\A m \in Msgs : /\ redelivered'[m] = 0
                       /\ cm[m].status = "failed_permanent"
                       => cm'[m] = cm[m]]_vars

(***************************************************************************)
(* In the end every job is over, as long as processes stop dying: no       *)
(* message is retried or rate limited for ever.                            *)
(***************************************************************************)
EventuallySettled == <>[](\A m \in Msgs : ~Owed(m))

(***************************************************************************)
(* The stage implements AtLeastOnce.                                       *)
(***************************************************************************)
ALO == INSTANCE AtLeastOnce WITH
          owed <- {m \in Msgs : Owed(m)},
          accepted <- {m \in Msgs : Recorded(m)},
          parked <- {m \in Msgs : Parked(m)}

AtLeastOnceSpec == ALO!Spec
=============================================================================
