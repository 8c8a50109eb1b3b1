# A formal model of the campaign pipeline

The repository is a multi-tenant SaaS that sends WhatsApp campaigns: an API
(NestJS, `api/`) and a worker (`worker/`) over PostgreSQL, RabbitMQ and Redis.
This directory models the parts where processes, queues and webhooks interleave,
checks them with TLC on small instances, and proves with TLAPS, for instances of
every size, all that the runs show except liveness.

## The system

| part | state | operations | talks to |
|---|---|---|---|
| Campaigns API (`campaigns.service.ts`) | `campaigns.status` | create, launch, metrics, logs | publishes to `campaign.launch` |
| Rabbit publisher (`rabbit-publisher.service.ts`) | cached connection and channel, socket buffer | publish | RabbitMQ |
| Worker, stage 1 (`index.ts:66-148, 383-415`) | handlers, `campaign_messages`, `campaign_contacts`, `messages` | expand a campaign into rows and send jobs | `campaign.launch{,.retry,.dlq}`, `message.send` |
| Worker, stage 2 (`index.ts:150-381, 417-497`) | handlers, the two status rows, `message_logs` | send one message, retry, park | `message.send{,.retry,.dlq}`, Redis, Meta |
| Rate limiter (`plan-rate-limiter.ts`) | `rate:<tenant>:<minute>` keys | assertAllowed | Redis, shared by all workers |
| Webhooks API (`webhooks.service.ts`) | the two status rows, `usage_counters`, stored events | receive, reconcile, count | Meta; the same rows as the worker |
| Contacts API (`contacts.service.ts`) | `contacts` | create, list, CSV import | spreadsheets; read by stage 1 |
| Auth and tenants (`auth.service.ts`, `tenants.*.ts`) | `users`, `tenants`, `tenant_users`, `bootstrapReady` | login, bootstrap user, tenant creation | every API request |
| Guards (`shared/guards/`, `app.module.ts`) | none | JwtAuthGuard, RolesGuard, TenantAccessGuard, in this order | the tables of auth |
| API metrics (`metrics.service.ts`, `request-logging.middleware.ts`) | counters by route, a histogram | record, snapshot | every API request, the scrape |
| Migration runner (`migrate.ts`) | `schema_migrations`, advisory lock | apply files | PostgreSQL |
| Worker metrics, health, dashboards | counters | print | nothing depends on them |

What makes it hard is that nothing spans two statements: no transaction covers
two updates, no confirmation covers a publication, and the ack of a job is
separate from all of it. Every `await` is a point where other handlers, other
processes and webhooks run, and where a query may fail with its effect applied.
A broker that loses a consumer hands its jobs out again. SIGINT closes the
channel while handlers run on. What should hold in spite of that:

* stage 2: no message is dropped, none is parked early, sends are bounded, the
  rows tell what happened, every message ends;
* stage 1: every launch reaches every contact or is parked, also when a loop
  fails half way; no row says `queued` for ever; repeated jobs are bounded;
* limiter: a minute's limit holds for all processes together, keys go away;
* webhooks: a delivery is billed once, and not missed, and no campaign shows more
  deliveries than are billed;
* migrations: each file is applied once and in order, by runners that work from an
  old list and may lose their lock; every runner ends;
* requests: nobody gets in on what a token says of an earlier time; the flag of the
  bootstrap user is true only when the user is there; a tenant without an owner was
  never answered as a success; what is counted is what was answered;
* imports: what is stored and answered is what the spreadsheet says, also beside
  another import, after a failure and when the file is sent again.

`PROJECT.json` lists the hazards one by one, each with its line and the
properties that are about it.

## Modules

| module | models | state and actions |
|---|---|---|
| `AtLeastOnce` | what stage 2 promises | sets `owed`, `accepted`, `parked`; Accept, Park, Settle, Redeliver |
| `MessageSend` | stage 2 | below |
| `CampaignLaunch` | API launch and stage 1 | below |
| `Webhook` | status webhooks beside the worker's writes | below |
| `PlanRateLimiter` | the Redis limiter | below |
| `SchemaHistory` | what the runner promises | the set `applied`; Apply |
| `Migrate` | the migration runner | below |
| `HttpMetrics` | the API's counters, as operators on a record | Record, Snapshot |
| `ApiAccess` | guards, auth, tenants and metrics of a process of the API | below |
| `ContactsCsv` | the parser, and spreadsheets as they are written | operators |
| `ContactsImport` | imports and creations | below |
| `CountingLemmas` | nothing of the code: induction over the subsets of a finite set, sums, tokens that move between queues | lemmas |
| `*_proofs` | theorems, one module per component | |
| `MC_*` | symmetry sets and bounds for TLC | |

Every module with a status row models what the statement does to it; error
codes, timestamps, payloads and log texts are left out. A query that fails has
two outcomes, applied or not. Each module also has a few definitions named as
slips (`RetryPublishSameAttempt`, `ThrowSkips`, ...): variants of an action with
one plausible mistake, which no specification uses. `PROJECT.json` pairs each of
them with the property that is violated when it takes the place of the action,
so that no property holds for want of anything that could break it.

**MessageSend.** `pc[s]` is the await of handler slot `s` whose effect comes
next: `load` the select, `limit` the limiter, `send` Meta, `acc_*` and `fail_*`
the writes after it, `catch`, `rl_*`, `retry_*`, `dead_*` the catch block, `ack`
and `ack_ok` the two acks. Queues count the copies of a job by message and
attempt. `sendToQueue` and `ack` are synchronous and only fill the socket
buffer, so a published job is in `frame[s]` until `Flush`, and the ack, behind it
on the same channel, reaches the broker only then. In the try block a failure
leads to `catch`; in the catch block it is an unhandled rejection that ends the
process, which is `Crash` before or after that step. `Crash` loses the buffer
and requeues the unacked jobs. `Shutdown`
(SIGINT) requeues them while the handlers run on without a broker until `Exit`.
`Expire` is the dead-lettering of the retry queue, `Tick` the next minute.

**CampaignLaunch.** `LaunchSelect`, `LaunchUpdate`, `LaunchPublish` are the
awaits of `launch`; `ApiCrash` loses frames the API has buffered, since `publish`
waits for no confirmation. A stage 1 handler takes the contacts that are eligible
when it loads (`todo`), and does three upserts and a publication for each, in
the order the unordered select gives them. `out[s]` is the socket buffer, in
order. `Throw` leaves the loop for the catch block. `SetConsent` is a contact
created or changed meanwhile. Of stage 2 only `Settle` is here: it takes a job
and leaves a status other than `queued`, as `OutcomeRecorded` of `MessageSend`
says it does.

**Webhook.** A request is a handler with the statuses it has left (`todo`) and the
previous statuses its two updates returned. Each update is one statement whose CTE
locks the row, so it is one step; the counters are another, and a failure between
them ends the request with what was done kept. Meta may repeat, reorder and overlap
requests. Beside them the worker writes the same two rows: `task[m]` is the
statement its attempt at `m` does next, of `processMessageJob` (accepted or refused,
the row, the mirror, the log entry) or of the catch (`Catch`, `Retry`, `Limit`, and
both rows of a message given up). What it writes to `messages` after it has
published a retry or, in stage 1, after it has reset the row, is `owed[m]` and comes
when it comes (`RecordLate`), perhaps during the next attempt; `Abandon` is a crash,
or a failing query of the catch, that loses a write. Attempts at a message follow
each other here, and copies of a job that run side by side are the business of
`MessageSend`. `usage` is kept per message, the row of the table being the sum.
`GetMetrics` is what the dashboard of the campaign shows. `took`, `overlapped`,
`raced`, `regressed` and `crossed` record what has happened, for the properties
only: which reports were taken up, whether requests overlapped, whether the worker
wrote an id after a handler had looked for it, whether a status left `delivered`,
whether a write of the worker was lost, or came after a report or another attempt
had gone on.

**PlanRateLimiter.** One tenant. `Incr` and `Expire` are the two Redis commands
of `assertAllowed`. The client sets no timeout for a command, so each may take any
time, while its key expires and comes back; it may be `Lose`d, done or not, and the
client sends a command again when the connection went with the answer (`Resend`).
Clocks of processes differ by up to `MaxSkew`. `granted` counts the calls allowed by
key, `grants` has their times and how long they took, and `late` counts the
increments that came more than `Slack` after the call took its key. 70 s of life
against a minute leave a slack of ten seconds with exact clocks: an increment
within it finds the key of its minute, a later one may begin a new count.

**Migrate.** `pc[r]` is the query a runner does next. `known` is the set it read
before it waited for `holder`, the advisory lock. `effects` counts the commits of
each file; nothing is seen of a transaction before. `Insert` waits for another
transaction that inserted the same version, as the primary key makes it.
`LoseLock` ends the session of the lock while the runner goes on in its other
session. A failing query is the end of the run, except that a commit may have
happened.

**ApiAccess.** `req[r]` is a request: its route, user, tenant and the await it is
at. Routes that do the same here are one (`read`, `write`). Guards that await
nothing are part of the step before them. `Edit` is a change of `tenant_users` by
hand, since no code takes a membership away although every check looks for one.
`entitled` records that the table gave the user of a request what its route asks
for at some time since it came. `finished` counts the answers that reached a client;
`HttpMetrics` is composed in as the record `metrics`.

**ContactsImport.** A spreadsheet is a list of rows; `Content` is the text it is
saved as, with quotes where they are needed or everywhere, with or without header.
`Lines`, `ParseCsvLine`, `NormalizePhone` take it apart as the code does, each a
fold over the characters, and the properties compare the result with the rows. A
cell (`Cell`) has no line ends in it and no blanks at its ends; `RowsAssumption`
adds that a sign stands before the digits of a number. Both are about spreadsheets,
not about the code: a cell with a line end is split into two lines, blanks at the
ends are trimmed away, and a plus between digits stays in the number. Each line of
an import is a step; it ends at a row with a value its column does not take (`Fits`:
the lengths of number, wa_id and consent, and no character zero), as it would at every repetition, or at a
failing query. `Create` stores what the body says (`Given`, with `??` where an
import has `||`) and is only there for bodies that fit: for others the query changes
nothing. That PostgreSQL cuts blanks off the end of a text too long is left out; it
concerns only `Create`, since the cells are trimmed. The fields TLC uses are short
sequences chosen so that each branch of the parser is taken.

## Runs

| run | instance | shows |
|---|---|---|
| `send_crash` | 1 message, 2 processes, 2 attempts, limit 1, 1 crash or shutdown | TypeOK, NoJobLost, ParkedAfterMaxAttempts, BoundedSends, and AtLeastOnceSpec (refinement) |
| `send_overlap` | 1 message, 3 attempts, 3 handlers of 1 process, limit 1 | SingleCopy, OutcomeRecorded, AttemptCountBounded, PermanentIsFinal |
| `send_live` | 2 messages, 1 handler, limit 1, fairness | EventuallySettled |
| `launch_relaunch` | 2 contacts, 2 launches, 2 processes, 1 stop of anything | TypeOK, LaunchComplete, QueuedHasJob, IssuedBounded |
| `launch_live` | 2 contacts, 1 change, 1 stop, fairness | JobHasRows, EventuallyExpanded |
| `webhook` | 1 message, 2 attempts or relaunches with late writes, 2 handlers, 2 of 3 statuses in one request or two | TypeOK, CountedPerReport, NoMissedBilling, BilledOnceWhenClean, TablesAgree, ShownIsBilled |
| `webhook_duplicates` | 1 message | violation of Idempotent, below |
| `limiter` | 2 callers, windows of 2 ticks, skew 1, calls of up to 4 ticks, 1 command lost or sent again | TypeOK, KeyLimit, NoImmortalKey, MinuteBound |
| `limiter_bucket` | exact clocks, no waiting | violation of TokenBucketBound, below |
| `migrate` | 2 runners, 3 files, 4 starts, 2 faults, fairness | TypeOK, SuccessMeansApplied, HistorySpec (refinement), EveryRunnerEnds |
| `api` | 2 requests over the routes of accounts and tenants, 2 users, 2 failures, lost clients or restarts, an edit | TypeOK, NoStaleAccess, ReadyMeansAccount, OrphansExplained, AnswersCounted |
| `contacts` | 2 imports of files of up to 2 rows, a creation, a failure | TypeOK, AnswerTellsFile, ImportedKept, RowsFromFiles, RepeatChangesNothing |

Bounds. Two attempts give a retried and a final one with both branches of the catch
block; `send_overlap` has three, and a slot for each, so that a retry may run beside
both handlers it came from. A limit of one makes the attempts of a message, or two
messages, compete for every minute. One message suffices where the actors are copies
of the same job; messages meet only in the limiter and in the slots of a process,
which is what `send_live` is about. Two contacts are what a loop needs to fail after
the first. A crash gives one redelivery, and two copies of a job then run on two
processes; more redeliveries are covered by the proofs, for stage 2. Two requests
overlap on the two rows in every way, and two attempts give the worker a retry and a
second acceptance. One write of each kind may be late. `sent` does
not occur in this run: it does what `read` does, and has a counter as `delivered`
has. The limiter runs three windows with calls before, on and after each boundary; a
slack of one tick lets calls of up to four ticks come back to a key that has
expired. Three files let a checkout be ahead of, level with and behind what is
applied; four starts let each runner run again after the other; a lost lock and a
failure meet in one run. Two requests suffice for a race of two first logins and for
an edit or a creation between the two queries of a guard; the invariants that are
proved hold for any number. Two rows give an import a line before and after a
failure and a number that occurs twice, spelled in two ways; one value too long
stands for all three columns, of which the code and the model do the same. Deadlock
is not checked: in every instance the work, or the time, may come to its end.

Fairness. Weak fairness of every handler (pool, Redis client and fetch all end
in an answer or an error), of delivery and dead-lettering by the broker, of the
clock, of the exit of a closing process, and of each query of a migration runner
(a lock that is free is given to one that waits). No fairness makes a query succeed,
Meta accept, or a process crash, and none is strong: a refused message is
settled because a minute always comes in which the others leave it the limit.

## Where documents and code differ

`api/README.md:14` and a test call the billing count idempotent.
`webhook_duplicates` shows two requests with the same report at the same time, each
counting one of the two rows. `BilledOnceWhenClean` names the other ways in its
condition: a `delivered` repeated after `read` (`regressed`), and a report between
the worker's two writes, repeated later (`raced`); `webhook` shows that a
delivery is billed once otherwise. `docs/architecture.md:8` names a token bucket; the limiter
counts fixed windows and lets up to twice the limit through around a boundary
(`limiter_bucket`). `limiter` checks what it does promise.

## Proofs

Every invariant, action property and refinement of a passing run is also a theorem
for all values of the constants. Each proof has the same shape: an inductive
invariant (checked by TLC before it was proved), one lemma per action, and a last
step that combines them.

**`CountingLemmas`.** A property of a finite set follows from that of its proper
subsets (`SetInduction`); from it come the facts about sums and about a finite
set of tokens, of which a step moves, adds or removes one.

**`MessageSend_proofs`.**

* `TypeCorrect`: types, inductive as they stand.
* `Refinement`: `Spec => AtLeastOnceSpec`. The strengthening `HandlerInv` ties
  labels to rows and frames: a handler about to ack without an error has a
  provider id on its row, one about to ack in the catch block has its frame, or
  has handed it over. Each step is a stutter (`QuietSteps`, `DeliverUnmoved`,
  `ExpireUnmoved`), Accept (`AcceptRowAccepts`), Park or Settle (`FlushSteps`,
  `AckSteps`) or Redeliver (`StopSteps`). `NoJobLostHolds` follows from it and an
  invariant of `AtLeastOnce`.
* `ParkedAfterMaxAttemptsHolds`: by `AttemptInv`, a job of attempt a, wherever it
  is, comes after at least a - 1 failures, and a handler in the generic catch has
  counted its own. Redelivery copies jobs but not attempts.
* `BoundedSendsHolds` by `Budget`: a copy of a job holds a token for its attempt and
  each later one, a handler for those it, or the retry it will publish, can still
  make. A send spends one, and only a redelivery brings new ones.
* `SingleCopyHolds`, `OutcomeRecordedHolds`, `AttemptCountBoundedHolds`,
  `PermanentIsFinalHolds`: as long as no consumer was lost, by `LifeInv`. A message
  waits, is held by one handler, is parked or is done (`Life`), and each of the
  four, for a held one each await, tells what the row, the mirror and the log say.
  None of the four properties is inductive by itself: that no second handler
  overwrites a row needs the single copy, and the single copy needs to know who
  has published the next job already.

**`CampaignLaunch_proofs`.**

* `TypeCorrect`, and `JobHasRowsHolds` by an invariant on each handler (`Fit`): one
  that may still publish a job, or has one in its socket buffer, has written the
  rows of its contact, and rows are never taken away; and by `RunningInv`: a launch
  job, and a handler with one, come after `running` was written.
* `IssuedBoundedHolds` again by tokens, of launch jobs. `LoopInv` says that one pass
  of the loop publishes a contact at most once.
* `LaunchCompleteHolds` by `CoverInv`: the launches a contact is due are no more than
  its send jobs, the launch jobs queued or parked and the handlers that still carry
  the contact (`Cover`).
* `QueuedHasJobHolds` by `QueuedInv`: a row that says `queued` has a send job, or a
  launch job that will issue one, in a queue or at a handler that carries the
  contact.

**`Webhook_proofs`.**

* `TypeCorrect`, and `CountedPerReportHolds` by `CountInv`: what is counted and the
  handlers that may still count a report (`Waiting`) are together no more than the
  reports taken up. A mere bound on `usage` is not inductive, since two handlers
  could both be about to count; a handler stops waiting in the step that counts.
  `ToCountBound` says that it adds at most one.
* `ShapeInv` says what a handler holds at each await: the previous statuses its
  updates gave back, and which report it is on.
* `NoMissedBillingHolds` and `ShownIsBilledHolds` by `PaidInv`: a row that shows a
  delivery was billed, or has a handler that is about to bill it.
* `BilledOnceWhenCleanHolds` by `OnceInv`: bills and handlers about to bill are
  at most one while requests do not overlap, no status leaves `delivered` and the
  worker is not late. With one handler at a time (`AloneInv`) this is a statement
  about the two tables between two updates of one handler.
* `TablesAgreeHolds` by `SoundInv`: the tables differ only between the two updates
  of a handler or two writes of the worker, but for the `failed_retryable` the
  catch writes to `messages` alone. That a report about the message moves both rows
  to one status needs both to have its id, which is why a write of the worker that
  comes after it (`crossed`) is left out.

**`PlanRateLimiter_proofs`.**

* `TypeCorrect`; `KeyLimitHolds`: a key lives until it is closed, which is when
  any increment under it is late (`ExpiryInv`, `OpenKey`). `CountInv` keeps for each
  key the calls allowed, with those that still have to set the time to live, within
  what its count and its late increments make room for (`Room`): a count that
  begins again was begun by a late increment. A mere bound on `granted` is not
  inductive, since it does not say how much a key that is there may still allow.
  `NoImmortalKeyHolds` is inductive by itself.
* `MinuteBoundHolds` by `MinuteInv`: a call is allowed at most `MaxSkew` before the
  minute of its key begins, and after its end by less than the call took (`Near`), so
  the prompt calls of one minute are under at most three keys, each within its limit.

**`Migrate_proofs`.** `TypeCorrect`; `SuccessMeansAppliedHolds` by `RunnerInv`: what
a runner read is still applied, and so are the files it has passed; `Refinement`:
only a commit changes `applied`, by a file all earlier ones of which are there and
which no other transaction is about to commit (`CommitInv`), also when two runners
are in the loop because a lock was lost.

**`ApiAccess_proofs`.** `TypeCorrect`; `NoStaleAccessHolds` by `RequestInv`: whenever
the table gives a user what its request asks for, that has been noted, and a
request with a handler passed a check on the table; `ReadyMeansAccountHolds`, since
no step takes an account away; `OrphansExplainedHolds` by `OrphanInv`: until its
creator is a member, a tenant's request waits, failed or went down with the
process. `AnswersCountedHolds`: recording an answer adds one to one route and to
the buckets at and above its duration, so both sums grow by one; the sums are
over any finite set of labels.

**`ContactsImport_proofs`.** The first half is about texts. No induction principle of
the library can be used, but the characters of a text are counted by a finite
interval, so each fold is followed by an induction over its subsets (`CountUp`).

* `NumberReads`: `NormalizePhone` gives `Number(text)` or nothing, for a text of any
  length with its sign first.
* `RowReads`: the parser takes apart what a spreadsheet writes. Inside quotes the
  state after k characters of a cell is known (`Inside`, `Skipping` between the two
  quotes of a doubled one), outside as well (`Outside`), and cells are joined by
  the commas outside.
* `FileReads`: cutting a text at its line ends gives back the lines it was written
  from; those are not blank and lose nothing when they are trimmed.

With these the second half needs no texts. `ImportInv` says where an import is in
its file and what its counts are; every step leaves the rows alone (`NoRow`), passes
a row (`RowDone`), ends with one (`RowLost`) or is a creation (`StepIs`).
`TypeCorrect`, `AnswerTellsFileHolds` and `ImportedKeptHolds` follow.
`RowsFromFilesHolds` and `RepeatChangesNothingHolds` need `WriterInv`: each contact
has a writer, a creation or a row of an import that has passed no later row of the
same number since. The writer may be another import than the one that wrote the
number first, which is why the last row of a file wins also when two imports of it
run side by side.

**Assumptions.** The constants are arbitrary but for what the modules name: finite
sets of messages, contacts, workers, handlers, callers and labels; bounds and limits
that are numbers; identifiers of tenants that are new (`HomeAssumption`); no plus
sign among the digits (`DigitsAssumption`); cells as above (`RowsAssumption`). TLC
evaluates all of them on the instances of the runs. The limiter's model takes for
granted what no constant says: Redis keeps a key until it expires, and a clock keeps
its distance from the others.

Model-checked only: `EventuallySettled`, `EventuallyExpanded` and `EveryRunnerEnds`.
They are liveness properties under weak fairness, and the installed provers can
reason neither about ENABLED nor, since the theorems for it take an operator as a
parameter, about well-founded descent.

## Not modelled

Retry delays and the head-of-line order of retry queues (a job may return at any
time); several tenants in the pipeline (rows and keys are per tenant); the
handshake and the HMAC of webhooks; lists the API only reads; the counters of the
worker, which nothing but a scrape reads; logging and deployment; database tables
no code writes; `core/token-bucket.ts` and `core/job-queue.ts`, which nothing
imports; pools and pings (`DbClient`, health), which are I/O. The database schema
appears in the rows the modules keep and the keys their inserts may violate.

Of the API's Rabbit publisher only the effect of `publish` is modelled: a job in
the socket buffer, or an error. Its cache of one connection and channel would add
that a connection leaks when two first publications race, and that after the
channel is closed by the broker every publication fails until the next start,
since nothing listens for the closing and `main.ts` enables no shutdown hooks.
Both are in the hazards; neither changes what a launch may do in
`CampaignLaunch`, where any publication may fail at any time.

## Plan

1. Done: all modules above, their runs, and a proof of every safety property.
2. An abstract specification of billing, implemented by `Webhook` for serial,
   ordered reports; one of an import, implemented by `ContactsImport`.
3. Liveness of stage 2 across a restart.
