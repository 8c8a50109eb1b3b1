------------------------------- MODULE Webhook --------------------------------
(***************************************************************************)
(* Status webhooks of Meta and the counters bills are made from:           *)
(* WebhooksController.receive and WebhooksService of the API, running      *)
(* beside the worker that records accepted sends.                          *)
(*                                                                         *)
(* Each request is a handler.  A statement is one atomic step: its CTE     *)
(* locks the row, so two updates of a row see each other.  The statements  *)
(* of a handler are not one transaction: others run in between, and an     *)
(* error ends the request with what was done so far kept.  Meta may report *)
(* a status more than once, concurrently and in any order, and repeats a   *)
(* request that did not end in 200; a repeated report is received like any *)
(* other.                                                                  *)
(*                                                                         *)
(* Message ids: the n-th acceptance of message m has id <<m, n>>; a row    *)
(* keeps n, 0 when null.  usage is kept per message: the usage_counters    *)
(* row of the tenant holds the sums.  billable_count moves with            *)
(* delivered_count.  The worker writes the same two rows: one statement    *)
(* each, the row of campaign_messages first, and no transaction either.    *)
(* Its attempts at a message run one after the other here (MessageSend has *)
(* their queues, and copies that overlap), but the last write of one that  *)
(* is to be repeated may come during the next.  The messages are those of  *)
(* one campaign, whose getMetrics a user may ask for at any time.          *)
(***************************************************************************)
EXTENDS Integers, Sequences, FiniteSets

CONSTANTS
    Msgs,            \* messages of a campaign
    Handlers,        \* webhook requests the API runs at a time
    Reports,         \* the Meta statuses that occur
    MaxBatch,        \* bound: statuses in one request
    MaxReceipts,     \* bound: statuses received
    MaxAccepts,      \* bound: times Meta accepts one message (resends)
    MaxTries,        \* bound: attempts at one message, and launches that reset it
    MaxOwed          \* bound: writes of a kind that are late for one message

MetaStatus == {"sent", "delivered", "read", "failed"}

ASSUME MsgsAssumption == IsFiniteSet(Msgs)
ASSUME HandlersAssumption == IsFiniteSet(Handlers)
ASSUME ReportsAssumption == Reports \subseteq MetaStatus
ASSUME BoundsAssumption == MaxBatch \in Nat \ {0} /\ MaxReceipts \in Nat
                            /\ MaxAccepts \in Nat /\ MaxTries \in Nat /\ MaxOwed \in Nat

Failed == {"failed_retryable", "failed_permanent"}      \* what starts with "failed"
RowStatus == {"queued", "rate_limited", "accepted_meta", "sent", "delivered", "read"} \cup Failed
None == "none"       \* the update matched no row

\* The worker's next statement about a message: where it is, and what it writes.
At(place, status) == [at |-> place, status |-> status]
Idle == At("none", None)
Catch == At("catch", None)
LogEntry == At("log", None)

\* What the two updates of an attempt write; what an attempt that is to be
\* repeated, or a launch, writes to messages after others may have gone on.
Attempted == {"accepted_meta", "failed_retryable", "rate_limited", "failed_permanent"}
Late == {"queued", "rate_limited", "failed_retryable"}
Task == {Idle, Catch, LogEntry} \cup {At(place, status) : place \in {"row", "mirror"}, status \in Attempted}

VARIABLES
    cm,              \* campaign_messages: status and meta_message_id
    mirror,          \* messages: status and provider_message_id
    usage,           \* what each message added to usage_counters
    accepts,         \* acceptances of each message so far
    tries,           \* attempts at each message and launches that reset it so far
    task,            \* the worker's next statement about each message
    owed,            \* late writes to messages, by kind
    pc,              \* per handler: the statement that comes next
    todo,            \* per handler: statuses of the request not yet done
    prevRow,         \* per handler: previous_status the first update returned
    prevMirror,      \* per handler: previous_status the second update returned
    receipts,        \* statuses received so far
    faults,          \* requests that ended in an error
    seen,            \* ids some handler has looked up
    took,            \* reports per message and counter that were started
    overlapped,      \* a request came before another one had ended
    raced,           \* the worker wrote an id after a handler looked it up
    regressed,       \* a status left delivered
    crossed          \* a write of the worker was lost, or came after others had gone on

tables == <<cm, mirror, usage>>
worker == <<accepts, tries, task, owed>>
request == <<pc, todo, prevRow, prevMirror>>
history == <<receipts, faults, seen, took, overlapped, raced, regressed, crossed>>
vars == <<tables, worker, request, history>>

Event == [msg : Msgs, n : 1..MaxAccepts, status : Reports]
Row == [status : RowStatus, id : 0..MaxAccepts]
Counters == [sent : Nat, delivered : Nat, failed : Nat]
NoCount == [sent |-> 0, delivered |-> 0, failed |-> 0]
NothingOwed == [s \in Late |-> 0]

TypeOK ==
    /\ cm \in [Msgs -> Row] /\ mirror \in [Msgs -> Row]
    /\ usage \in [Msgs -> Counters] /\ took \in [Msgs -> Counters]
    /\ accepts \in [Msgs -> 0..MaxAccepts]
    /\ tries \in [Msgs -> 0..MaxTries]
    /\ task \in [Msgs -> Task] /\ owed \in [Msgs -> [Late -> 0..MaxOwed]]
    /\ pc \in [Handlers -> {"idle", "store", "row", "mirror", "count", "log"}]
    /\ todo \in [Handlers -> Seq(Event)]
    /\ \A h \in Handlers : pc[h] = "idle" <=> todo[h] = <<>>
    /\ prevRow \in [Handlers -> RowStatus \cup {None}]
    /\ prevMirror \in [Handlers -> RowStatus \cup {None}]
    /\ receipts \in 0..MaxReceipts /\ faults \in Nat
    /\ seen \subseteq Msgs \X (1..MaxAccepts)
    /\ overlapped \in BOOLEAN
    /\ raced \in [Msgs -> BOOLEAN] /\ regressed \in [Msgs -> BOOLEAN] /\ crossed \in [Msgs -> BOOLEAN]

\* After a launch, before any send.
Init ==
    /\ cm = [m \in Msgs |-> [status |-> "queued", id |-> 0]]
    /\ mirror = [m \in Msgs |-> [status |-> "queued", id |-> 0]]
    /\ usage = [m \in Msgs |-> NoCount]
    /\ accepts = [m \in Msgs |-> 0]
    /\ tries = [m \in Msgs |-> 0]
    /\ task = [m \in Msgs |-> Idle] /\ owed = [m \in Msgs |-> NothingOwed]
    /\ pc = [h \in Handlers |-> "idle"]
    /\ todo = [h \in Handlers |-> <<>>]
    /\ prevRow = [h \in Handlers |-> None]
    /\ prevMirror = [h \in Handlers |-> None]
    /\ receipts = 0 /\ faults = 0
    /\ seen = {}
    /\ took = [m \in Msgs |-> NoCount]
    /\ overlapped = FALSE
    /\ raced = [m \in Msgs |-> FALSE]
    /\ regressed = [m \in Msgs |-> FALSE] /\ crossed = [m \in Msgs |-> FALSE]

-----------------------------------------------------------------------------
\* A slip Spec does not use: the status of Meta goes to the table as it is.
MappedRaw(st) == st

\* mapMetaStatus
Mapped(st) == IF st = "failed" THEN "failed_permanent" ELSE st

\* What incrementUsageCounters adds for one row that left previous for new.
Increment(previous, new) ==
    [sent |-> IF new = "sent" /\ previous # "sent" THEN 1 ELSE 0,
     delivered |-> IF new = "delivered" /\ previous # "delivered" THEN 1 ELSE 0,
     failed |-> IF new \in Failed /\ previous \notin Failed THEN 1 ELSE 0]

Plus(c, d) == [sent |-> c.sent + d.sent, delivered |-> c.delivered + d.delivered,
               failed |-> c.failed + d.failed]

\* The request ends in an error.
Fault(h) == /\ pc' = [pc EXCEPT ![h] = "idle"]
            /\ todo' = [todo EXCEPT ![h] = <<>>]
            /\ prevRow' = [prevRow EXCEPT ![h] = None]
            /\ prevMirror' = [prevMirror EXCEPT ![h] = None]
            /\ faults' = faults + 1

Quiet == \A h \in Handlers : pc[h] = "idle"

\* receive: the signature is valid.
Receive(h, p) ==
    /\ pc[h] = "idle" /\ receipts + Len(p) <= MaxReceipts
    /\ \A i \in DOMAIN p : p[i].n <= accepts[p[i].msg]
    /\ receipts' = receipts + Len(p)
    /\ overlapped' = (overlapped \/ ~Quiet)
    /\ pc' = [pc EXCEPT ![h] = "store"]
    /\ todo' = [todo EXCEPT ![h] = p]
    /\ UNCHANGED <<tables, worker, prevRow, prevMirror, faults, seen, took, raced, regressed, crossed>>

\* storeEvent: two inserts nothing here reads.
Store(h) ==
    /\ pc[h] = "store"
    /\ \/ pc' = [pc EXCEPT ![h] = "row"] /\ UNCHANGED <<todo, prevRow, prevMirror, faults>>
       \/ Fault(h)
    /\ UNCHANGED <<tables, worker, receipts, seen, took, overlapped, raced, regressed, crossed>>

\* The status of a row after the update for event e, when the row has its id.
Moves(table, e) == table[e.msg].id = e.n /\ table[e.msg].status # Mapped(e.status)
Updated(table, e) == IF Moves(table, e)
                     THEN [table EXCEPT ![e.msg].status = Mapped(e.status)]
                     ELSE table
Previous(table, e) == IF Moves(table, e) THEN table[e.msg].status ELSE None
LeftDelivered(table, e) == Moves(table, e) /\ table[e.msg].status = "delivered"

\* reconcileMessageStatuses: the update of campaign_messages.
UpdateRow(h) ==
    /\ pc[h] = "row"
    /\ LET e == Head(todo[h]) IN
       /\ seen' = seen \cup {<<e.msg, e.n>>}
       /\ took' = [took EXCEPT ![e.msg] = Plus(@, Increment(None, Mapped(e.status)))]
       /\ \/ /\ cm' = Updated(cm, e)
             /\ regressed' = [regressed EXCEPT ![e.msg] = @ \/ LeftDelivered(cm, e)]
             /\ \/ /\ prevRow' = [prevRow EXCEPT ![h] = Previous(cm, e)]
                   /\ pc' = [pc EXCEPT ![h] = "mirror"]
                   /\ UNCHANGED <<todo, prevMirror, faults>>
                \/ Fault(h)
          \/ UNCHANGED <<cm, regressed>> /\ Fault(h)
    /\ UNCHANGED <<mirror, usage, worker, receipts, overlapped, raced, crossed>>

\* A slip: messages is updated only when campaign_messages was not.
UpdateMirrorElse(h) ==
    /\ pc[h] = "mirror"
    /\ LET e == Head(todo[h]) IN
       /\ mirror' = IF prevRow[h] = None THEN Updated(mirror, e) ELSE mirror
       /\ prevMirror' = [prevMirror EXCEPT ![h] = IF prevRow[h] = None THEN Previous(mirror, e)
                                                  ELSE None]
    /\ pc' = [pc EXCEPT ![h] = "count"]
    /\ UNCHANGED <<cm, usage, worker, todo, prevRow, history>>

\* reconcileMessageStatuses: the update of messages.
UpdateMirror(h) ==
    /\ pc[h] = "mirror"
    /\ LET e == Head(todo[h]) IN
       \/ /\ mirror' = Updated(mirror, e)
          /\ regressed' = [regressed EXCEPT ![e.msg] = @ \/ LeftDelivered(mirror, e)]
          /\ \/ /\ prevMirror' = [prevMirror EXCEPT ![h] = Previous(mirror, e)]
                /\ pc' = [pc EXCEPT ![h] = "count"]
                /\ UNCHANGED <<todo, prevRow, faults>>
             \/ Fault(h)
       \/ UNCHANGED <<mirror, regressed>> /\ Fault(h)
    /\ UNCHANGED <<cm, usage, worker, receipts, seen, took, overlapped, raced, crossed>>

\* Slips: every update that moved a row counts, or only a report that moved both.
ToCountEach(h) ==
    LET new == Mapped(Head(todo[h]).status)
    IN  Plus(IF prevRow[h] # None THEN Increment(prevRow[h], new) ELSE NoCount,
             IF prevMirror[h] # None THEN Increment(prevMirror[h], new) ELSE NoCount)
ToCountBothMoved(h) ==
    IF prevRow[h] # None /\ prevMirror[h] # None
    THEN Increment(prevRow[h], Mapped(Head(todo[h]).status))
    ELSE NoCount

\* What a handler adds: by the first update if it moved a row, else by the second.
ToCount(h) ==
    LET new == Mapped(Head(todo[h]).status)
    IN  IF prevRow[h] # None THEN Increment(prevRow[h], new)
        ELSE IF prevMirror[h] # None THEN Increment(prevMirror[h], new)
        ELSE NoCount

\* incrementUsageCounters
Count(h) ==
    /\ pc[h] = "count"
    /\ LET m == Head(todo[h]).msg
           counted == usage' = [usage EXCEPT ![m] = Plus(@, ToCount(h))]
       IN  \/ /\ counted
              /\ pc' = [pc EXCEPT ![h] = "log"]
              /\ UNCHANGED <<todo, prevRow, prevMirror, faults>>
           \/ /\ ToCount(h) # NoCount
              /\ counted \/ UNCHANGED usage
              /\ Fault(h)
    /\ UNCHANGED <<cm, mirror, worker, receipts, seen, took, overlapped, raced, regressed, crossed>>

\* The log entry; then the next status of the request, or the answer 200.
Log(h) ==
    /\ pc[h] = "log"
    /\ \/ /\ todo' = [todo EXCEPT ![h] = Tail(@)]
          /\ pc' = [pc EXCEPT ![h] = IF Len(todo[h]) > 1 THEN "row" ELSE "idle"]
          /\ prevRow' = [prevRow EXCEPT ![h] = None]
          /\ prevMirror' = [prevMirror EXCEPT ![h] = None]
          /\ UNCHANGED faults
       \/ Fault(h)
    /\ UNCHANGED <<tables, worker, receipts, seen, took, overlapped, raced, regressed, crossed>>

-----------------------------------------------------------------------------
\* CampaignsService.getMetrics: the mirror, or the old table if that has nothing to show.
\* A message that was read is in none of the counts.
Having(table, statuses) == Cardinality({m \in Msgs : table[m].status \in statuses})

\* A slip: a message that was read was delivered.
MetricsOfRead(table) ==
    [queued |-> Having(table, {"queued"}), sent |-> Having(table, {"sent", "accepted_meta"}),
     delivered |-> Having(table, {"delivered", "read"}),
     failed |-> Having(table, Failed)]

MetricsOf(table) ==
    [queued |-> Having(table, {"queued"}), sent |-> Having(table, {"sent", "accepted_meta"}),
     delivered |-> Having(table, {"delivered"}), failed |-> Having(table, Failed)]
GetMetrics == LET shown == MetricsOf(mirror) IN
              IF shown.queued + shown.sent + shown.delivered + shown.failed > 0 THEN shown
              ELSE MetricsOf(cm)

-----------------------------------------------------------------------------
\* An attempt begins while a write of an earlier one, or of a launch, is late.
Begun(m) == /\ task[m] = Idle /\ tries[m] < MaxTries
            /\ tries' = [tries EXCEPT ![m] = @ + 1]
            /\ crossed' = [crossed EXCEPT ![m] = @ \/ owed[m] # NothingOwed]

\* The worker: Meta accepts a send, the first one or a repeated one.
Accept(m) ==
    /\ Begun(m) /\ accepts[m] < MaxAccepts
    /\ accepts' = [accepts EXCEPT ![m] = @ + 1]
    /\ task' = [task EXCEPT ![m] = At("row", "accepted_meta")]
    /\ UNCHANGED <<tables, owed, request, receipts, faults, seen, took, overlapped, raced, regressed>>

\* The send is refused by Meta or by the limiter, or there is an error before it.
Refuse(m) ==
    /\ Begun(m)
    /\ task' = [task EXCEPT ![m] = At("row", "failed_retryable")]
    /\ UNCHANGED <<tables, accepts, owed, request, receipts, faults, seen, took, overlapped, raced, regressed>>
Limit(m) ==
    /\ Begun(m)
    /\ task' = [task EXCEPT ![m] = At("row", "rate_limited")]
    /\ UNCHANGED <<tables, accepts, owed, request, receipts, faults, seen, took, overlapped, raced, regressed>>
Throw(m) ==
    /\ Begun(m)
    /\ task' = [task EXCEPT ![m] = Catch]
    /\ UNCHANGED <<tables, accepts, owed, request, receipts, faults, seen, took, overlapped, raced, regressed>>

\* A row of m after the worker's update: an acceptance writes its id as well.
Written(row, m, status) ==
    [status |-> status, id |-> IF status = "accepted_meta" THEN accepts[m] ELSE row.id]

\* What the history keeps about row, which the worker has just made new.
Note(m, row, new) ==
    LET known == <<m, new.id>> \in seen IN
    /\ raced' = [raced EXCEPT ![m] = @ \/ (new.status = "accepted_meta" /\ known)]
    /\ crossed' = [crossed EXCEPT ![m] = @ \/ known]
    /\ regressed' = [regressed EXCEPT ![m] = @ \/ row.status = "delivered"]
    /\ UNCHANGED <<receipts, faults, seen, took, overlapped>>

\* The update of campaign_messages.  After that of a refused job its retry is
\* published, and the mirror comes when it comes.
RecordRow(m) ==
    /\ task[m].at = "row"
    /\ LET status == task[m].status
           new == Written(cm[m], m, status)
       IN  /\ cm' = [cm EXCEPT ![m] = new]
           /\ Note(m, cm[m], new)
           /\ IF status # "rate_limited"
              THEN task' = [task EXCEPT ![m] = At("mirror", status)] /\ UNCHANGED owed
              ELSE /\ owed[m][status] < MaxOwed
                   /\ owed' = [owed EXCEPT ![m][status] = @ + 1]
                   /\ task' = [task EXCEPT ![m] = Idle]
    /\ UNCHANGED <<mirror, usage, accepts, tries, request>>

\* syncMessageMirror.  A refused send ends in an error, one given up in a parked job.
RecordMirror(m) ==
    /\ task[m].at = "mirror"
    /\ LET status == task[m].status
           new == Written(mirror[m], m, status)
       IN  /\ mirror' = [mirror EXCEPT ![m] = new]
           /\ Note(m, mirror[m], new)
           /\ task' = [task EXCEPT ![m] = CASE status = "accepted_meta" -> LogEntry
                                            [] status = "failed_retryable" -> Catch
                                            [] OTHER -> Idle]
    /\ UNCHANGED <<cm, usage, accepts, tries, owed, request>>

\* The log entry of an acceptance: the attempt is over.
RecordLog(m) ==
    /\ task[m] = LogEntry
    /\ task' = [task EXCEPT ![m] = Idle]
    /\ UNCHANGED <<tables, accepts, tries, owed, request, history>>

\* A query of processMessageJob fails, its update done or not.
Fails(m) ==
    /\ task[m] = LogEntry \/ task[m].status \in {"accepted_meta", "failed_retryable"}
    /\ task' = [task EXCEPT ![m] = Catch]
    /\ UNCHANGED <<tables, accepts, tries, owed, request, history>>

\* The catch: a retry is published and only the mirror written, or, after the
\* last attempt, both rows.
Retry(m) ==
    /\ task[m] = Catch
    /\ \/ /\ owed[m]["failed_retryable"] < MaxOwed
          /\ owed' = [owed EXCEPT ![m]["failed_retryable"] = @ + 1]
          /\ task' = [task EXCEPT ![m] = Idle]
       \/ /\ task' = [task EXCEPT ![m] = At("row", "failed_permanent")]
          /\ UNCHANGED owed
    /\ UNCHANGED <<tables, accepts, tries, request, history>>

\* syncMessageMirrorByCampaignMessage, or the launch's upsert of messages.
RecordLate(m, status) ==
    /\ owed[m][status] > 0
    /\ owed' = [owed EXCEPT ![m][status] = @ - 1]
    /\ LET new == Written(mirror[m], m, status)
       IN  mirror' = [mirror EXCEPT ![m] = new] /\ Note(m, mirror[m], new)
    /\ UNCHANGED <<cm, usage, accepts, tries, task, request>>

\* A second launch of the campaign, or a launch job that is repeated, resets the row.
Relaunch(m) ==
    /\ owed[m]["queued"] < MaxOwed /\ tries[m] < MaxTries
    /\ tries' = [tries EXCEPT ![m] = @ + 1]
    /\ cm' = [cm EXCEPT ![m].status = "queued"]
    /\ owed' = [owed EXCEPT ![m]["queued"] = @ + 1]
    /\ regressed' = [regressed EXCEPT ![m] = @ \/ cm[m].status = "delivered"]
    /\ crossed' = [crossed EXCEPT ![m] = @ \/ task[m] # Idle \/ owed[m] # NothingOwed
                                            \/ <<m, cm[m].id>> \in seen]
    /\ UNCHANGED <<mirror, usage, accepts, task, request, receipts, faults, seen, took, overlapped, raced>>

\* A crash, or a query of the catch or of the launch that fails: what was still to be
\* written is not.
Abandon(m) ==
    /\ \/ task[m] # Idle /\ task' = [task EXCEPT ![m] = Idle] /\ UNCHANGED owed
       \/ \E s \in Late : /\ owed[m][s] > 0 /\ owed' = [owed EXCEPT ![m][s] = @ - 1]
                          /\ UNCHANGED task
    /\ crossed' = [crossed EXCEPT ![m] = TRUE]
    /\ UNCHANGED <<tables, accepts, tries, request, receipts, faults, seen, took, overlapped, raced, regressed>>

-----------------------------------------------------------------------------
Request == UNION {[1..k -> Event] : k \in 1..MaxBatch}

Next ==
    \/ \E h \in Handlers : \/ \E p \in Request : Receive(h, p)
                           \/ Store(h) \/ UpdateRow(h) \/ UpdateMirror(h)
                           \/ Count(h) \/ Log(h)
    \/ \E m \in Msgs : \/ Accept(m) \/ Refuse(m) \/ Limit(m) \/ Throw(m)
                       \/ RecordRow(m) \/ RecordMirror(m) \/ RecordLog(m)
                       \/ Fails(m) \/ Retry(m) \/ Relaunch(m) \/ Abandon(m)
                       \/ \E status \in Late : RecordLate(m, status)

Spec == Init /\ [][Next]_vars

-----------------------------------------------------------------------------
(***************************************************************************)
(* A report is counted at most once, although it moves two rows and other  *)
(* handlers move the same rows in between: no counter runs ahead of the    *)
(* reports taken up.                                                       *)
(***************************************************************************)
CountedPerReport ==
    \A m \in Msgs : /\ usage[m].sent <= took[m].sent
                    /\ usage[m].delivered <= took[m].delivered
                    /\ usage[m].failed <= took[m].failed

(***************************************************************************)
(* A delivery reported about a message that was accepted once and recorded *)
(* before the report is billed when the handlers are done, if none of them *)
(* failed, however duplicates interleave.                                  *)
(***************************************************************************)
NoMissedBilling ==
    \A m \in Msgs :
        Quiet /\ faults = 0 /\ ~raced[m] /\ accepts[m] = 1 /\ cm[m].id = 1
            /\ took[m].delivered > 0
        => usage[m].delivered > 0

BilledOnce(m) == usage[m].delivered <= accepts[m]

(***************************************************************************)
(* An accepted message is billed at most once, duplicates and repeated     *)
(* requests included, when requests run one at a time, no status moves a   *)
(* row out of delivered and the worker is not late.                        *)
(***************************************************************************)
BilledOnceWhenClean ==
    \A m \in Msgs : ~overlapped /\ ~raced[m] /\ ~regressed[m] => BilledOnce(m)

(***************************************************************************)
(* The counting is idempotent: a delivery is billed once, whatever comes   *)
(* twice, side by side and in whatever order, when the worker is not late. *)
(***************************************************************************)
Idempotent == \A m \in Msgs : ~raced[m] => BilledOnce(m)

(***************************************************************************)
(* Requests one at a time leave the two rows of a message, when both hold  *)
(* the same id, with the same status, or messages with the one status the  *)
(* worker writes to it alone, if no request failed and the worker's writes *)
(* were neither lost nor overtaken.                                        *)
(***************************************************************************)
TablesAgree ==
    \A m \in Msgs :
        Quiet /\ ~overlapped /\ faults = 0 /\ ~crossed[m] /\ task[m] = Idle /\ owed[m] = NothingOwed
            /\ cm[m].id = mirror[m].id
        => mirror[m].status \in {cm[m].status, "failed_retryable"}

(***************************************************************************)
(* A campaign never shows more messages delivered than are billed, once    *)
(* the handlers are done and none of them failed: the dashboard reads the  *)
(* rows, the bill the counters.                                            *)
(***************************************************************************)
ShownIsBilled ==
    Quiet /\ faults = 0 =>
        GetMetrics.delivered <= Cardinality({m \in Msgs : usage[m].delivered > 0})
===============================================================================
