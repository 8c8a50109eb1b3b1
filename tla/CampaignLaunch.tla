---------------------------- MODULE CampaignLaunch -----------------------------
(***************************************************************************)
(* Stage 1 of the pipeline, for one campaign: CampaignsService.launch of   *)
(* the API, the queues campaign.launch, campaign.launch.retry and          *)
(* campaign.launch.dlq, and consumeCampaignQueue and processLaunchJob of   *)
(* worker/src/index.ts, which give every contact that may be written to a  *)
(* row in campaign_messages, campaign_contacts and messages and a job in   *)
(* message.send.                                                           *)
(*                                                                         *)
(* Handlers, query failures, socket buffers, crashes and SIGINT are as in  *)
(* MessageSend.  A loop that fails half way has already published jobs,    *)
(* and its retry starts over.  Contacts change while campaigns run.  Of    *)
(* stage 2 only the end of a job is here: a status other than queued.      *)
(***************************************************************************)
EXTENDS Integers, Sequences, FiniteSets

CONSTANTS
    Contacts,      \* contacts of the tenant
    NoContact,     \* what a handler outside the loop holds
    Requests,      \* launch requests the API gets
    Workers,       \* worker processes
    Prefetch,      \* channel.prefetch: handlers a process runs at a time
    MaxAttempts,   \* WORKER_MAX_ATTEMPTS
    MaxChanges,    \* bound: changes of contacts
    MaxStops       \* bound: crashes and shutdowns of processes

ASSUME ContactsAssumption == IsFiniteSet(Contacts) /\ NoContact \notin Contacts
ASSUME WorkersAssumption == IsFiniteSet(Workers) /\ Prefetch \in Nat \ {0}
ASSUME AttemptsAssumption == MaxAttempts \in Nat \ {0}
ASSUME BoundsAssumption == MaxChanges \in Nat /\ MaxStops \in Nat

Slot == Workers \X (1..Prefetch)
Attempts == 1..MaxAttempts
SlotsOf(w) == {w} \X (1..Prefetch)

VARIABLES
    eligible,      \* contacts with consent opted_in or unknown
    withdrawn,     \* contacts that were eligible once and then were not
    changes,       \* changes of contacts so far
    apiPc,         \* per request: the await of launch that comes next
    apiFrames,     \* launch jobs still in the socket buffer of the API
    running,       \* campaigns.status is 'running'
    ready,         \* campaign.launch: copies of a job, by attempt
    retry,         \* campaign.launch.retry
    dlq,           \* campaign.launch.dlq
    launched,      \* jobs the broker got from the API
    due,           \* per contact: those it got while the contact was eligible
    redelivered,   \* jobs the broker has handed out once more
    jobs,          \* message.send: jobs of each contact not yet over
    issued,        \* jobs of each contact message.send ever got
    pc,            \* per slot: the await whose effect comes next
    attempt,       \* per slot: the attempt number of the payload
    todo,          \* per slot: contacts the loop has not reached
    cur,           \* per slot: the contact of this iteration
    out,           \* per slot: send jobs still in the socket buffer
    frame,         \* per slot: the retry or parked job behind them
    cm,            \* campaign_messages: status of each contact's row
    targets,       \* contacts with a campaign_contacts row
    mirrors,       \* contacts with a messages row
    closing,       \* per worker: SIGINT received, the channel is closed
    late,          \* a closing process wrote a row
    stops          \* crashes and shutdowns so far

contacts == <<eligible, withdrawn, changes>>
api == <<apiPc, apiFrames, running>>
broker == <<ready, retry, dlq, launched, due, redelivered>>
sending == <<jobs, issued>>
handler == <<pc, attempt, todo, cur, out, frame>>
rows == <<cm, targets, mirrors>>
process == <<closing, late, stops>>
vars == <<contacts, api, broker, sending, handler, rows, process>>

TypeOK ==
    /\ eligible \subseteq Contacts /\ withdrawn \subseteq Contacts
    /\ changes \in 0..MaxChanges
    /\ apiPc \in [Requests -> {"select", "update", "publish", "ok", "error"}]
    /\ apiFrames \in Nat /\ running \in BOOLEAN
    /\ ready \in [Attempts -> Nat] /\ retry \in [Attempts -> Nat] /\ dlq \in [Attempts -> Nat]
    /\ launched \in Nat /\ due \in [Contacts -> Nat] /\ redelivered \in Nat
    /\ jobs \in [Contacts -> Nat] /\ issued \in [Contacts -> Nat]
    /\ pc \in [Slot -> {"idle", "load", "row", "target", "mirror", "publish",
                        "catch", "ack", "ack_ok"}]
    /\ attempt \in [Slot -> 0..MaxAttempts]
    /\ todo \in [Slot -> SUBSET Contacts] /\ cur \in [Slot -> Contacts \cup {NoContact}]
    /\ out \in [Slot -> Seq(Contacts)]
    /\ \A s \in Slot : /\ pc[s] = "idle" <=> attempt[s] = 0
                       /\ pc[s] = "row" => todo[s] # {}
                       /\ pc[s] \in {"target", "mirror", "publish"} <=> cur[s] # NoContact
    /\ frame \in [Slot -> {"none", "next", "dlq"}]
    /\ cm \in [Contacts -> {"none", "queued", "over"}]
    /\ targets \subseteq Contacts /\ mirrors \subseteq Contacts
    /\ closing \in [Workers -> BOOLEAN] /\ late \in BOOLEAN
    /\ stops \in 0..MaxStops

\* A draft campaign, its launch requested; any contacts.
Init ==
    /\ eligible \in SUBSET Contacts /\ withdrawn = {} /\ changes = 0
    /\ apiPc = [r \in Requests |-> "select"] /\ apiFrames = 0 /\ running = FALSE
    /\ ready = [a \in Attempts |-> 0] /\ retry = ready /\ dlq = ready
    /\ launched = 0 /\ due = [c \in Contacts |-> 0] /\ redelivered = 0
    /\ jobs = [c \in Contacts |-> 0] /\ issued = jobs
    /\ pc = [s \in Slot |-> "idle"] /\ attempt = [s \in Slot |-> 0]
    /\ todo = [s \in Slot |-> {}] /\ cur = [s \in Slot |-> NoContact]
    /\ out = [s \in Slot |-> <<>>] /\ frame = [s \in Slot |-> "none"]
    /\ cm = [c \in Contacts |-> "none"] /\ targets = {} /\ mirrors = {}
    /\ closing = [w \in Workers |-> FALSE] /\ late = FALSE /\ stops = 0

-----------------------------------------------------------------------------
\* ContactsService.create: a new contact, or one whose consent changes.
SetConsent(c) ==
    /\ changes < MaxChanges
    /\ changes' = changes + 1
    /\ \/ c \notin eligible /\ eligible' = eligible \cup {c} /\ UNCHANGED withdrawn
       \/ c \in eligible /\ eligible' = eligible \ {c} /\ withdrawn' = withdrawn \cup {c}
    /\ UNCHANGED <<api, broker, sending, handler, rows, process>>

ApiGoto(r, label) == apiPc' = [apiPc EXCEPT ![r] = label]

\* launch: the tenant and the campaign are looked up.
LaunchSelect(r) ==
    /\ apiPc[r] = "select"
    /\ ApiGoto(r, "update") \/ ApiGoto(r, "error")
    /\ UNCHANGED <<contacts, apiFrames, running, broker, sending, handler, rows, process>>

\* launch: status = 'running', before anything is published.
LaunchUpdate(r) ==
    /\ apiPc[r] = "update"
    /\ \/ running' = TRUE /\ ApiGoto(r, "publish")
       \/ running' \in {running, TRUE} /\ ApiGoto(r, "error")
    /\ UNCHANGED <<contacts, apiFrames, broker, sending, handler, rows, process>>

\* RabbitPublisherService.publish: no confirmation is waited for.
LaunchPublish(r) ==
    /\ apiPc[r] = "publish"
    /\ \/ apiFrames' = apiFrames + 1 /\ ApiGoto(r, "ok")
       \/ UNCHANGED apiFrames /\ ApiGoto(r, "error")
    /\ UNCHANGED <<contacts, running, broker, sending, handler, rows, process>>

\* The broker receives a launch job.
LaunchFlush ==
    /\ apiFrames > 0
    /\ apiFrames' = apiFrames - 1
    /\ ready' = [ready EXCEPT ![1] = @ + 1]
    /\ launched' = launched + 1
    /\ due' = [c \in Contacts |-> IF c \in eligible THEN due[c] + 1 ELSE due[c]]
    /\ UNCHANGED <<contacts, apiPc, running, retry, dlq, redelivered, sending, handler, rows,
                   process>>

\* The API process or its connection dies.
ApiCrash ==
    /\ stops < MaxStops
    /\ stops' = stops + 1
    /\ apiFrames' = 0
    /\ apiPc' = [r \in Requests |-> IF apiPc[r] \in {"update", "publish"} THEN "error"
                                    ELSE apiPc[r]]
    /\ UNCHANGED <<contacts, running, broker, sending, handler, rows, closing, late>>

-----------------------------------------------------------------------------
Goto(s, label) == pc' = [pc EXCEPT ![s] = label]
Open(s) == ~closing[s[1]]

\* The loop goes on with the contacts left, none of them being handled.
Proceed(s, left) == /\ Goto(s, IF left = {} THEN "ack_ok" ELSE "row")
                    /\ todo' = [todo EXCEPT ![s] = left]
                    /\ cur' = [cur EXCEPT ![s] = NoContact]

\* A slip Spec does not use: a contact that fails is skipped.
ThrowSkips(s) == Proceed(s, todo[s])

\* An exception leaves the loop.
Throw(s) == /\ Goto(s, "catch")
            /\ todo' = [todo EXCEPT ![s] = {}]
            /\ cur' = [cur EXCEPT ![s] = NoContact]

\* An upsert of the iteration: done, done with its answer lost, or not done.
Upsert(s, label, Done, Undone) ==
    \/ Done /\ Goto(s, label) /\ UNCHANGED <<todo, cur>>
    \/ (Done \/ Undone) /\ Throw(s)

Written(s) == late' = (late \/ ~Open(s))

-----------------------------------------------------------------------------
\* More slips the properties below are there to catch.

\* A loop that starts over skips the contacts that have a row.
LoadNewOnly(s) ==
    /\ pc[s] = "load"
    /\ Proceed(s, {c \in eligible : cm[c] = "none"}) \/ Throw(s)
    /\ UNCHANGED <<contacts, api, broker, sending, attempt, out, frame, rows, process>>

\* A status the table does not know.
UpsertRowUnknownStatus(s, c) ==
    /\ pc[s] = "row" /\ c \in todo[s]
    /\ cm' = [cm EXCEPT ![c] = "pending"]
    /\ Written(s)
    /\ Goto(s, "target")
    /\ todo' = [todo EXCEPT ![s] = @ \ {c}]
    /\ cur' = [cur EXCEPT ![s] = c]
    /\ UNCHANGED <<contacts, api, broker, sending, attempt, out, frame, targets, mirrors,
                   closing, stops>>

\* The job is published before the messages row is there.
UpsertTargetThenPublish(s) ==
    /\ pc[s] = "target"
    /\ Upsert(s, "publish", targets' = targets \cup {cur[s]}, UNCHANGED targets)
    /\ UNCHANGED <<contacts, api, broker, sending, attempt, out, frame, cm, mirrors, process>>

\* The last attempt is neither retried nor parked.
ParkOffByOne(s) ==
    /\ pc[s] = "catch" /\ Open(s)
    /\ attempt[s] > MaxAttempts
    /\ frame' = [frame EXCEPT ![s] = "dlq"]
    /\ Goto(s, "ack")
    /\ UNCHANGED <<contacts, api, broker, sending, attempt, todo, cur, out, rows, process>>

\* The retry carries the attempt number of the job that failed.
FlushFrameSameAttempt(s) ==
    /\ out[s] = <<>> /\ frame[s] # "none"
    /\ retry' = [retry EXCEPT ![attempt[s]] = @ + 1]
    /\ frame' = [frame EXCEPT ![s] = "none"]
    /\ UNCHANGED <<contacts, api, ready, dlq, launched, due, redelivered, sending, pc, attempt,
                   todo, cur, out, rows, process>>

-----------------------------------------------------------------------------
\* channel.consume hands a job to a free handler.
Deliver(s, a) ==
    /\ pc[s] = "idle" /\ Open(s) /\ ready[a] > 0
    /\ ready' = [ready EXCEPT ![a] = @ - 1]
    /\ attempt' = [attempt EXCEPT ![s] = a]
    /\ Goto(s, "load")
    /\ UNCHANGED <<contacts, api, retry, dlq, launched, due, redelivered, sending, todo, cur,
                   out, frame, rows, process>>

\* The selects of the campaign and of the contacts.
Load(s) ==
    /\ pc[s] = "load"
    /\ Proceed(s, eligible) \/ Throw(s)
    /\ UNCHANGED <<contacts, api, broker, sending, attempt, out, frame, rows, process>>

\* The row of the next contact; an old row goes back to queued.
UpsertRow(s, c) ==
    /\ pc[s] = "row" /\ c \in todo[s]
    /\ \/ /\ cm' = [cm EXCEPT ![c] = "queued"]
          /\ Written(s)
          /\ \/ /\ Goto(s, "target")
                /\ todo' = [todo EXCEPT ![s] = @ \ {c}]
                /\ cur' = [cur EXCEPT ![s] = c]
             \/ Throw(s)
       \/ UNCHANGED <<cm, late>> /\ Throw(s)
    /\ UNCHANGED <<contacts, api, broker, sending, attempt, out, frame, targets, mirrors,
                   closing, stops>>

UpsertTarget(s) ==
    /\ pc[s] = "target"
    /\ Upsert(s, "mirror", targets' = targets \cup {cur[s]}, UNCHANGED targets)
    /\ UNCHANGED <<contacts, api, broker, sending, attempt, out, frame, cm, mirrors, process>>

UpsertMirror(s) ==
    /\ pc[s] = "mirror"
    /\ Upsert(s, "publish", mirrors' = mirrors \cup {cur[s]}, UNCHANGED mirrors)
    /\ UNCHANGED <<contacts, api, broker, sending, attempt, out, frame, cm, targets, process>>

\* sendToQueue, which throws on a closed channel.
Publish(s) ==
    /\ pc[s] = "publish"
    /\ \/ /\ Open(s)
          /\ out' = [out EXCEPT ![s] = Append(@, cur[s])]
          /\ Proceed(s, todo[s])
       \/ ~Open(s) /\ Throw(s) /\ UNCHANGED out
    /\ UNCHANGED <<contacts, api, broker, sending, attempt, frame, rows, process>>

\* The broker receives the oldest published send job.
FlushJob(s) ==
    /\ out[s] # <<>>
    /\ jobs' = [jobs EXCEPT ![Head(out[s])] = @ + 1]
    /\ issued' = [issued EXCEPT ![Head(out[s])] = @ + 1]
    /\ out' = [out EXCEPT ![s] = Tail(@)]
    /\ UNCHANGED <<contacts, api, broker, pc, attempt, todo, cur, frame, rows, process>>

\* catch: enqueueRetry while attempts are left, else enqueueDlq.
Retry(s) ==
    /\ pc[s] = "catch" /\ Open(s)
    /\ attempt[s] + 1 <= MaxAttempts
    /\ frame' = [frame EXCEPT ![s] = "next"]
    /\ Goto(s, "ack")
    /\ UNCHANGED <<contacts, api, broker, sending, attempt, todo, cur, out, rows, process>>

Park(s) ==
    /\ pc[s] = "catch" /\ Open(s)
    /\ attempt[s] + 1 > MaxAttempts
    /\ frame' = [frame EXCEPT ![s] = "dlq"]
    /\ Goto(s, "ack")
    /\ UNCHANGED <<contacts, api, broker, sending, attempt, todo, cur, out, rows, process>>

\* The broker receives the retry or the parked job, behind the send jobs.
FlushFrame(s) ==
    /\ out[s] = <<>>
    /\ \/ /\ frame[s] = "next"
          /\ retry' = [retry EXCEPT ![attempt[s] + 1] = @ + 1]
          /\ UNCHANGED dlq
       \/ /\ frame[s] = "dlq"
          /\ dlq' = [dlq EXCEPT ![attempt[s]] = @ + 1]
          /\ UNCHANGED retry
    /\ frame' = [frame EXCEPT ![s] = "none"]
    /\ UNCHANGED <<contacts, api, ready, launched, due, redelivered, sending, pc, attempt,
                   todo, cur, out, rows, process>>

\* The broker receives the ack, behind everything published before it.
Ack(s) ==
    /\ pc[s] \in {"ack", "ack_ok"} /\ Open(s)
    /\ out[s] = <<>> /\ frame[s] = "none"
    /\ Goto(s, "idle")
    /\ attempt' = [attempt EXCEPT ![s] = 0]
    /\ UNCHANGED <<contacts, api, broker, sending, todo, cur, out, frame, rows, process>>

\* The ack at the end of the try block throws on a closed channel.
AckThrows(s) ==
    /\ pc[s] = "ack_ok" /\ ~Open(s)
    /\ Throw(s)
    /\ UNCHANGED <<contacts, api, broker, sending, attempt, out, frame, rows, process>>

\* campaign.launch.retry dead-letters a job to campaign.launch.
Expire(a) ==
    /\ retry[a] > 0
    /\ retry' = [retry EXCEPT ![a] = @ - 1]
    /\ ready' = [ready EXCEPT ![a] = @ + 1]
    /\ UNCHANGED <<contacts, api, dlq, launched, due, redelivered, sending, handler, rows,
                   process>>

\* Stage 2 is done with a send job: accepted, or parked, and no longer queued.
Settle(c) ==
    /\ jobs[c] > 0
    /\ jobs' = [jobs EXCEPT ![c] = @ - 1]
    /\ cm' = [cm EXCEPT ![c] = "over"]
    /\ UNCHANGED <<contacts, api, broker, issued, handler, targets, mirrors, process>>

-----------------------------------------------------------------------------
Busy(w) == {s \in SlotsOf(w) : pc[s] # "idle"}

\* The broker puts the unacked jobs of a lost channel back in the queue.
Requeue(w) ==
    /\ ready' = [a \in Attempts |-> ready[a] + Cardinality({s \in Busy(w) : attempt[s] = a})]
    /\ redelivered' = redelivered + Cardinality(Busy(w))
    /\ UNCHANGED <<retry, dlq, launched, due>>

\* The handlers of a process are gone and a new process starts.
Restart(w) ==
    /\ pc' = [s \in Slot |-> IF s \in SlotsOf(w) THEN "idle" ELSE pc[s]]
    /\ attempt' = [s \in Slot |-> IF s \in SlotsOf(w) THEN 0 ELSE attempt[s]]
    /\ todo' = [s \in Slot |-> IF s \in SlotsOf(w) THEN {} ELSE todo[s]]
    /\ cur' = [s \in Slot |-> IF s \in SlotsOf(w) THEN NoContact ELSE cur[s]]
    /\ out' = [s \in Slot |-> IF s \in SlotsOf(w) THEN <<>> ELSE out[s]]
    /\ frame' = [s \in Slot |-> IF s \in SlotsOf(w) THEN "none" ELSE frame[s]]

Crash(w) ==
    /\ ~closing[w] /\ stops < MaxStops
    /\ stops' = stops + 1
    /\ Requeue(w)
    /\ Restart(w)
    /\ UNCHANGED <<contacts, api, sending, rows, closing, late>>

\* SIGINT: channel.close(), which sends what is buffered first.
Shutdown(w) ==
    /\ ~closing[w] /\ stops < MaxStops
    /\ \A s \in SlotsOf(w) : out[s] = <<>> /\ frame[s] = "none"
    /\ stops' = stops + 1
    /\ closing' = [closing EXCEPT ![w] = TRUE]
    /\ Requeue(w)
    /\ UNCHANGED <<contacts, api, sending, handler, rows, late>>

Exit(w) ==
    /\ closing[w]
    /\ closing' = [closing EXCEPT ![w] = FALSE]
    /\ Restart(w)
    /\ UNCHANGED <<contacts, api, broker, sending, rows, late, stops>>

-----------------------------------------------------------------------------
\* CampaignsService.launch
Launch(r) == LaunchSelect(r) \/ LaunchUpdate(r) \/ LaunchPublish(r)

\* processLaunchJob and the handler around it
Handle(s) ==
    \/ Load(s) \/ (\E c \in Contacts : UpsertRow(s, c)) \/ UpsertTarget(s) \/ UpsertMirror(s)
    \/ Publish(s) \/ FlushJob(s) \/ Retry(s) \/ Park(s) \/ FlushFrame(s)
    \/ Ack(s) \/ AckThrows(s)

Next ==
    \/ \E c \in Contacts : SetConsent(c) \/ Settle(c)
    \/ \E r \in Requests : Launch(r)
    \/ LaunchFlush \/ ApiCrash
    \/ \E s \in Slot : Handle(s) \/ \E a \in Attempts : Deliver(s, a)
    \/ \E a \in Attempts : Expire(a)
    \/ \E w \in Workers : Crash(w) \/ Shutdown(w) \/ Exit(w)

Spec == Init /\ [][Next]_vars

(***************************************************************************)
(* Queries and calls are answered, the broker receives what a live process *)
(* sends, delivers and dead-letters, and a closing process exits.          *)
(***************************************************************************)
Fairness ==
    /\ \A r \in Requests : WF_vars(Launch(r))
    /\ WF_vars(LaunchFlush)
    /\ \A s \in Slot : WF_vars(Handle(s))
    /\ \A a \in Attempts : WF_vars(\E s \in Slot : Deliver(s, a)) /\ WF_vars(Expire(a))
    /\ \A w \in Workers : WF_vars(Exit(w))

FairSpec == Spec /\ Fairness
-----------------------------------------------------------------------------
\* A handler the launch job depends on: not one that handed it over.
Owing(s) == pc[s] # "idle" /\ Open(s) /\ ~(pc[s] = "ack" /\ frame[s] = "none")
LaunchOwed == \/ \E a \in Attempts : ready[a] > 0 \/ retry[a] > 0
              \/ \E s \in Slot : Owing(s)
ParkedLaunches == dlq[MaxAttempts]

(***************************************************************************)
(* When no launch job is left, every launch the broker got has given each  *)
(* contact eligible at that time a send job, or is parked, whatever failed *)
(* or crashed in the middle of a loop.                                     *)
(***************************************************************************)
LaunchComplete ==
    ~LaunchOwed => \A c \in Contacts \ withdrawn : issued[c] + ParkedLaunches >= due[c]

(***************************************************************************)
(* No message is left queued for ever: when no launch job is left, a row   *)
(* that says queued has a send job, also when a relaunch or a retried loop *)
(* reset it, unless the launch was parked, the contact withdrew its        *)
(* consent or a closing process wrote the row.                             *)
(***************************************************************************)
QueuedHasJob ==
    ~LaunchOwed /\ ParkedLaunches = 0 /\ ~late =>
        \A c \in Contacts \ withdrawn : cm[c] = "queued" => jobs[c] > 0

(***************************************************************************)
(* A send job is out only when the rows stage 2 and the webhooks update    *)
(* exist, and a launch job only of a running campaign.                     *)
(***************************************************************************)
JobHasRows ==
    /\ \A c \in Contacts : jobs[c] > 0 => cm[c] # "none" /\ c \in targets /\ c \in mirrors
    /\ LaunchOwed => running

(***************************************************************************)
(* A contact gets at most MAX_ATTEMPTS send jobs for each time a launch    *)
(* job was handed out anew: retried loops repeat jobs, but no more.        *)
(***************************************************************************)
IssuedBounded == \A c \in Contacts : issued[c] <= MaxAttempts * (launched + redelivered)

(***************************************************************************)
(* In the end every launch job is over, as long as processes stop dying.   *)
(***************************************************************************)
EventuallyExpanded == <>[](~LaunchOwed)
================================================================================
