# A verification of the worker template

The repository is a TaskIQ worker: tasks arrive from RabbitMQ, a pipeline of
middleware wraps every execution, and each task has a row in `task_execution`
whose status the API and the operators watch. What can go wrong is almost all in
one place: `on_error` of `StateTrackingMiddleware` commits a retry to the
database, sends it to the broker, commits again, marks the result for a later
hook, and is itself replayed by `@db_retry` whenever the database fails. Nothing
makes the database and the broker one transaction, several deliveries of one task
can be in progress, and a process may die between any two steps. This project
models that protocol, and around it the caller that makes a task, the other
middleware, and the containers the workers run in; it checks them with TLC, and
proves its invariants and action properties with TLAPS.

## Inventory

| Part | State | Operations | Interacts with |
|---|---|---|---|
| `middleware/state_tracking.py` | per delivery: the result's markers; per `on_error`: `_OnErrorAttempt` | `pre_execute`, `on_error` (decide, record, send, mark, recover), `post_execute`, `_emit_status_event` | database, broker, emitter; called by TaskIQ |
| `services/task_execution_service.py` | the `task_execution` row | create, get, update, two lists | database |
| `services/task_attempt_service.py` | the `task_attempt` rows | record, dispatch state, latest pending, mark dispatched | database |
| `db/retry.py` | attempts of the wrapped call | replay on `OperationalError`, three attempts | wraps the hooks |
| `db/session.py` | engine, pool | make a session | database |
| `realtime/` | the Socket.IO server `_sio` | init, close, emit | Redis |
| `middleware/metrics_mw.py`, `core/metrics.py` | the in-progress gauge, counters | count at each hook | every delivery; skipped when state tracking raises |
| `middleware/logging_mw.py`, `tenant.py`, `core/logging.py`, `core/tenants.py` | context variables of a delivery | set, clear | every delivery |
| `tasks/` | none | `example_task`, `dispatch_example_task` | database, broker |
| `worker.py`, `broker.py`, `scripts/start.sh` | engine and session maker on the broker state | migrate, start up, shut down | all |
| `core/config.py` | settings, read once | two validations | all |
| `health_server.py` | a process in the background | constant answers | Kubernetes probes |
| `alembic/` | the database objects and `alembic_version` | upgrade, downgrade | database, every container that starts |
| `scheduler.py` | none | no schedule | - |
| `scripts/templatize.sh`, `_tasks.py`, `k8s/`, CI | none at run time | - | - |
| TaskIQ receiver, RabbitMQ (external) | messages ready and unacknowledged | deliver, redeliver, run the hooks in order, save, acknowledge | the middleware |

What makes each part correct:

- *State tracking*: the row ends in an outcome and is never overwritten by a
  delivery that does not own it; a retry is counted once per error; `retry_count`
  stays within `max_retries`; every retry is audited before it is sent; nothing is
  retried past the gate; every message is finally acknowledged.
- *Attempt audit*: append-only but for PENDING to DISPATCHED; a row says of a retry
  what happened to it.
- *Events*: none before its commit, none missing, the last outcome announced is
  the final one.
- *Metrics*: the gauge is the number of running tasks - it is not, and the distance is
  known; the counters agree with the records.
- *Logging, tenant*: body, events and log lines of a delivery are of one tenant,
  whatever else the process runs - but for log lines that have none, and which these
  are is known.
- *Dispatch*: no message without its row; a row is orphaned in the one way the docs
  accept.
- *Start-up, migrations, health*: a process that takes messages finds the schema of
  head, though replicas race to make it; healthy means migrated and configured; every
  replica finally serves.

The hard behaviours - crashes between a commit and a send, lost acknowledgements of
commits and sends, replays with a memory that is not rolled back, deliveries that
overlap, redelivered messages - are listed at their lines, with the properties that
cover them, in `PROJECT.json` under `hazards`.

## Modules

| Module | What it is |
|---|---|
| `TaskRecords` | the row, the audit table, and the operations of both services as functions on them |
| `StateTracking` | the receiver and the three hooks as actions; faults; properties; the inductive invariant of the audit; refinement mappings |
| `TaskLifecycle` | abstract: the status state machine and retry count an observer is promised |
| `RetryLedger` | abstract: retries are claimed before they are sent, without gaps, and claims stay |
| `Dispatch` | `StateTracking` with `dispatch_example_task` as a process that makes the task |
| `EventStream` | `StateTracking` with the realtime events it emits |
| `TaskMetrics` | `StateTracking` with the counters and the gauge of the metrics middleware around it |
| `Observers` | `EventStream` and `TaskMetrics` composed |
| `MessageIds` | pure: where the tenant and the task execution id of a message are found |
| `Pipeline` | the context variables of deliveries through the hooks of all four middleware |
| `Migrations` | pure: the objects each Alembic revision makes, needs and drops |
| `WorkerProcess` | the containers: `start.sh`, migrations, health server, worker processes |
| `MCStateTracking`, `MCEventStream`, `MCTaskMetrics`, `MCObservers`, `MCPipeline` | symmetry sets and the messages considered, for TLC |
| `TaskRecordsProofs` | lemmas about the operators of `TaskRecords` |
| `StateTrackingProofs` | the inductive invariant and the safety theorems |
| `SendProofs` | `StateTracking` implements `RetryLedger`; the gate; what each send and each failed send is for |
| `NominalProofs` | what holds while some failures stay away: one send per retry, audit, lifecycle, markers, counting |
| `DispatchProofs` | the invariants of `Dispatch`; every dispatched task comes to its outcome |
| `ObserverProofs` | gauge, events and counters |
| `PipelineProofs` | the two extraction orders agree; events and log lines |
| `WorkerProcessProofs` | the invariants of start-up and migration |

### How `StateTracking` corresponds to the code

One task is modelled: every query of both services is keyed on its id. All messages
of a task are equal - `_requeue` copies task id, arguments and labels - so the queue
is their number. `Worker` is a set of deliveries in progress; whether they share a
process does not matter, since they share nothing but the database and the broker.

| Code | Model |
|---|---|
| receiver takes a message, calls `pre_execute` | `Receive` |
| `pre_execute` | `Load`, `PreExecute`, `Emit` |
| the task body | `RunTask`: succeeds or raises |
| `on_error`, `_record_error_status` up to its first write | `OnErrorLoad` with `ResolveRetryDecision` |
| reconciliation, `_record_initial_error_status`, commit | `RecordErrorStatus` |
| recovery of a recorded retry | `RecoverDispatch` |
| `_requeue` | `RequeueSent`, `RequeueRefused`, `RequeueUnconfirmed` |
| rest of `_dispatch_retry`; `_recover_dispatch_audit` | `MarkDispatched`, `RetryDispatchFailed` |
| `post_execute` | `PostExecuteSkips`, or `Load`, `PostExecute`, `Emit` |
| `_emit_status_event` | `Emit`, `EmitStatusEvent` |
| result saved, message acknowledged | `SaveAndAck` |
| `@db_retry` | `Retry`, in every failing branch; the last failure leaves the delivery `stuck` |
| an error that is not retried, as the pool's time-out | `UnretriedError` |
| process death; channel lost; redelivery | `Crash`, `ChannelLost`, `GiveBack` |

A session is two steps. The first loads the row and decides; the second flushes and
commits, and is one of three outcomes: *committed*; *rolled back*; *unacknowledged*,
where the commit takes effect and the client gets the same `OperationalError`.
Between the two steps other deliveries commit, and `Flush` then writes the columns
that this session changed, as the ORM does, over the row as it is by then; since
`update_task_status` flushes and refreshes, the session's object is from then on the
merged row, and so is `loaded`. The flush and the commit are not separated, because the
flush takes the row lock that the commit releases. The rows a hook reads between its load and its flush (the
reconciliation, the row to mark) are read in the second step; so is the audit table
for the order of `created_at`, which is taken to be the order of commits. After a
commit the session goes on with the object it has (`expire_on_commit=False`). Any
select of a session may fail instead (`LoadFails`), also that of a failed send.
`_OnErrorAttempt` is changed even if the commit fails, as in the code, which sets it
before the commit.

Abstractions: `status_message` is the reason it states, because the protocol compares
it; the text "Retrying (k/max)" is one reason, and `Flush` counts it as changed when k
has changed; `started_at` and `completed_at` are "set or not"; error details, step counts,
urls and tenants have no influence on control and are left out. The gate is one of
three constants of a behaviour: open, shadow, closed. Statuses no code path writes
(QUEUED, CANCELLED, PARTIAL) are left out. A message without a task execution id
makes the hooks return at once and is in `Pipeline` only; one whose id has no row is
modelled here. Back-off delays are not modelled: waiting is a step not yet taken.

`TaskMetrics` puts the hooks of `MetricsMiddleware` into the step of state tracking
that they follow or precede: none of the three outer middleware awaits anything, so no
other delivery runs in between. `pre_execute` runs before state tracking's, `on_error`
and `post_execute` after it - the order `middleware/__init__.py` documents - and they
do not run at all when state tracking raises. The values are those of one process,
which keeps running, so this module has no crash.

### The modules around it

`Dispatch` replaces the initial row and message by the caller: `CreateRow` is the
commit of `dispatch_example_task` with its three outcomes (that session has no
`@db_retry`), `Enqueue`, `EnqueueRefused` and `EnqueueUnconfirmed` are `kiq`, and the
caller may die in between. Every other step is one of `StateTracking`.

`Pipeline` follows each delivery through `pre_execute` down the list of middleware,
the body, then `on_error` (if the body raised) and `post_execute` up the list. State
tracking is reduced to what the context depends on: it skips, logs a repeated attempt
or a refused retry, commits and emits, or raises, after which no hook runs. `lines`
holds the lines of the last step that logged, each with its delivery, its hook and the
tenant it names, so that a property of every line is an invariant. The two context
variables are functions of the delivery because TaskIQ runs every delivery as an
asyncio task with a context of its own; `SetTaskContext_Global` is what happens
otherwise, and breaks `LinesNameTenant`. `InMemoryBroker`, which runs a task in the
caller's context, is for tests and not modelled. `MessageIds` keeps apart a field that
is absent, holds a UUID, or holds something else; a list of fields is read either up
to the first that is *present* or to the first that is *valid*, and the code does both.

`WorkerProcess` has a `stage` for each replica, the line of `start.sh` it has reached.
`ReadVersion` and `Upgrade` are the two ends of alembic's transaction: PostgreSQL
makes the second of two upgrades wait and then fail on the objects of the first, which
is `Upgradable` evaluated when it commits. `set -e` is `End`. The health server and the
processes live from `Launch` on; TaskIQ restarts a process that dies (`Respawn`) and
Kubernetes a container that ends (`Start`), or whose health server does not answer
(`Terminate`). An operator may run `alembic downgrade -1` while no container is up;
a downgrade under running workers breaks `ServesReady` at once and is nobody's
promise. That a process told to stop first waits for its delivery (`DeliveryOver`) is
TaskIQ's; `Shutdown` itself is `on_shutdown`, which closes the emitter
unconditionally. `Migrations` reads the objects of each revision off the migrations and
those of `Declared` off the models, each by itself. A container of an older image, which
does not know a newer revision, is outside the model: the repository has one head.

A definition called `X_Something` is a faulty version of `X` and is used by nothing.
Each stands for a bug the code might have had, and a property is known to fail when
it takes the place of `X`; `PROJECT.json` pairs them.

## Runs

| Run | Setting | Question |
|---|---|---|
| `nominal` | 2 workers, 3 retries, one refused send, all gates | the fault-free protocol: lifecycle, one send per retry, markers, audit |
| `replay` | 1 worker, 3 retries, 3 attempts, 3 database failures, a crash | does `on_error` survive its own replay; how many sends may replays and redelivery add |
| `faulty` | 2 workers, 2 retries, a database failure, a lost channel, an unconfirmed send, all gates | is the audit ahead of the broker and of the count; what double delivery can do, and whether a lost update of the count is on record |
| `dispatch` | a caller and 2 workers, 2 crashes, a database failure, a refused and an unconfirmed send, fairness | does every dispatch end, and how |
| `observers` | 2 workers, 2 database failures, a refused send | events, gauge and counters against commits, deliveries and records |
| `pipeline` | 2 deliveries, 24 shapes of message, 2 ids | whose tenant do body, events and log lines have |
| `process` | 2 replicas of 2 processes, 27 configurations, 3 versions, a lost connection, a crash, a stop, 2 downgrades, fairness | what serves and with what, what is healthy, what never comes back |
| `final_retry_clobbered`, `phantom_dispatch`, `double_count`, `one_event_per_transition`, `gauge_drifts` | the smallest setting each | the disagreements below |

Bounds and why they are enough. Every fault has a budget of its own in the guards
(`MaxDbFaults`, `MaxSendFaults`, `MaxUnconfirmed`, `MaxCrashes`,
`MaxChannelLosses`), so the counters of faults, messages and sends are finite; the
budgets are one or two because the hazards are combinations of one or two faults,
and they are spread over several runs because all of them together do not fit into
minutes. The safety properties in `faulty` are proved for any budgets. Two workers
are what one retry chain can use: a delivery sends one retry, and the delivery of
that retry sends the next only when it fails in turn. `MaxRetries` is 2 or the
default 3, so that there is a first, a middle and a last retry. `DbAttempts` is the
code's 3 in `replay` and 2 elsewhere: with fewer faults than attempts the third
attempt is not reached, and with two the case where a hook gives up is; besides,
`UnretriedError` gives up at once. `row` may also be missing from the start.
`observers` was also checked with two retries (3.5 million states). In `pipeline` two
deliveries are enough because a mix-up has one that sets and one that reads, and two
ids because the properties compare for equality. In `process` two replicas race for a
migration, and the two downgrades reach base from head.
`CHECK_DEADLOCK FALSE` is set, except in `process`, because the system does stop: when
every message is acknowledged there is nothing to do. Containers never stop.

Fairness (in `dispatch`): weak fairness of the caller's and of a delivery's own steps -
asyncio runs whatever is ready, and a database or broker call returns or raises -
and of taking a ready message. Weak fairness of `GiveBack`, the return of a message whose
hook raised, rests on the broker alone: the receiver neither acknowledges nor rejects
the message, and nothing in the repository closes the channel. RabbitMQ's delivery
acknowledgement timeout (30 minutes unless configured otherwise) closes the channel and
delivers the message again; where it is turned off, the message stays with the worker
until its process ends. The body ends, which a task without a time limit need
not; the settings name a time limit the worker does not enforce. Faults are not
fair: they happen at most as often as their budget. In `process`: weak fairness of the
steps of each script and each process, of the restarts by Kubernetes and TaskIQ and of
the liveness probe. No message need ever arrive.

What holds only under conditions:

- That `retry_count` never goes back holds while nothing fails but refused sends
  (theorem `CountGrowsWhileCalm`) and not in general. Two deliveries of one task that
  overlap after a lost channel may load the same count, and the slower one writes an
  older value over a newer one: rows are not locked on load. `LostUpdateAudited` is what
  remains: the count is as far as the decisions in the audit table, or the table shows
  one retry decided twice. In `faulty` such updates do happen: without its first half
  the property is violated there.
- `SentAtMostOnce`, `DispatchedWasSent`, `SettledAudit`, `LifecycleSpec`: while nothing
  fails but sends that the broker refuses (`Calm`). After a crash past the send the
  redelivered message runs beside the retry it sent, claims a retry of its own, and both
  may claim and send the same next number; `ExtraSendsHaveACause` and the ledger say what
  remains true. `LastOutcomeEvent` and `MetricsMatchRecords` name `Calm`
  themselves.
- `SentRetryKept`: while the database does not fail; crashes and lost channels do not
  disturb it. `final_retry_clobbered` is why.
- `CountedOncePerError`: for one delivery at a time while no send fails. Both provisos are
  needed: `double_count` is the first; and when the send of a counted retry fails and the
  commit of that failure is rolled back, the memory says FAILED of a row that says
  RETRYING, and the replay counts again. (Without database failures nothing is replayed
  and there is nothing to show.)
- `DispatchOutcome` is about crashes, database and broker failures but not about lost
  channels: a delivery that has lost its channel and then gives up has no message that
  would come back, and the row stays RUNNING. It excepts two claims of one retry; how
  they lose a task is told below.
- `LinesNameTenant` names its exceptions (`TenantLess`): the `task_started` line, which is
  logged before the tenant is known; `task_requeue_error` and `realtime_emit_error`, which
  are logged without the context; and the lines of a failed task after `on_error`.
- `FailedSendNumbered` accepts the number of the claim or the next, because a failed send
  of a replay does get the next; it does not say that the number is right.
- `EventuallyServes` excepts a refused configuration and the database of `BaseIsWedged`.
- A `RETRYING` event may come after the events of the retry itself, because it is
  emitted after the send; `LastOutcomeEvent` is about the other events.

## Where code and documentation disagree

1. `final_retry_clobbered`. The docs say that `post_execute` never writes over the
   status of a retry that was sent. If the commit after the *last* allowed send loses
   its acknowledgement, the replay finds `retry_count = max_retries`, does not enter
   the recovery branch, and does not mark the result; `post_execute` writes FAILED
   over a retry that is in the queue.
2. `phantom_dispatch`. The reconciliation of older PENDING rows takes them for sent.
   After a crash between the commit and the send, a retry that never reached the
   broker is recorded as DISPATCHED.
3. `double_count`. The replay recognises its own write by comparing the row with it.
   The retry that was sent may start, and write RUNNING, before its sender has marked the
   audit row; if the commit of that mark then fails, the comparison fails too, and one
   error is counted and audited twice.
4. `one_event_per_transition`. A failing task without retry is written FAILED and
   announced as failed twice, by `on_error` and by `post_execute`.
5. `gauge_drifts`. The in-progress gauge is decremented by both hooks of a failed task;
   it ends below the number of running tasks, and below zero. `GaugeDrift` gives the
   exact error. The failure counter counts every failed run twice, and nothing ever
   increments `tasks_retried_total`.

Found while modelling and stated by a property that holds rather than by a run that
fails:

- The docstring of `core/logging.py` (lines 3-5) says that tasks include `tenant_id` in all
  log entries. `task_started` never has one; `task_requeue_error`
  (`state_tracking.py:409`), `realtime_emit_error` (`:472`) and the emitter's
  `realtime_emit_failed`, which names the room instead, are logged without the context;
  and the lines of a failed task in `post_execute` have none, because `on_error` has
  cleared the context before them (`LinesNameTenant`). The emitter's debug line
  `realtime_emitter_not_initialized` would be another; `ServesReady` excludes it.
- `models/task_attempt.py:1` calls the audit records append-only. Rows are changed from
  PENDING to DISPATCHED, by `mark_task_attempt_dispatched` and by the reconciliation;
  `AuditAppendOnly` states the exception, and that there is no other.
- ARCHITECTURE.md says that migrations are an exact diff of the models and carry the
  autogenerate header. `3f2b0b5a1d7c` has no such header and does not make the
  `created_at` index that `TimestampedTable` declares (theorem `IndexMissing`).
- The downgrade of `cf1c62d50694` leaves the type `taskstatus`; no container can ever
  migrate that database again, and all of them exit and restart (`BaseIsWedged`).
- The errors of `validate_config` cannot occur: the import of the settings and of the
  engine has refused every such configuration before (`HealthFollowsMigration`).
- `mark_task_attempt_dispatched` and the replay of `on_error` find an audit row by its
  number, so with two claims of one number they take another delivery's row for their
  own. TLC finds this with three deliveries, three retries and two database failures,
  when the exception is dropped from `DispatchOutcome`: the commit that marks retry 1 is
  rolled back and the retry starts, so the replay does not recognise it and claims and
  sends retry 2; retry 1 fails and claims retry 2 as well, with a commit whose
  acknowledgement is lost; retry 2 completes; the first delivery marks the second's
  claim DISPATCHED, and the second's replay sends nothing. A COMPLETED task is RETRYING
  for good. The proof of `EveryTaskEnds` shows that this needs two claims of one number.
- `/ready` answers while no process serves, as its docstring admits; the gauge and the
  counters it mounts are those of the health server's own process, not of the workers.

## Proofs

Every invariant and action property that a passing run checks, and both refinements, are
theorems for all constants: any set of workers, any `max_retries`, number of attempts,
gates and fault budgets, from the assumptions of `TaskRecords` and `StateTracking`
(`MaxRetries` a natural number, at least one attempt, gates among the three, budgets
natural numbers). Where a run checks a property with some budgets at zero, the theorem
says the same as a condition on the faults that have happened (`Calm`, `faults.db = 0`,
`faults.send = 0`) or on the behaviour (`[]OneDelivery`). The inductive invariants stand in the proof
modules, next to the proofs that need them; TLC checked each on small instances first.

- `AuditInvariant`: `Spec => []AuditInv`. None of the safety properties is inductive
  by itself. That a send has an audit row is only kept if the delivery about to send
  is known to have one (`ClaimKnown`), which `on_error` replayed after a failed commit
  finds by a number from its memory, so the memory must be sound (`AttemptSound`: a
  remembered number is covered by the remembered count, and a count without a number
  means that the limit was reached). A replay that recognises the row as its own
  write reaches the recovery with that number; its row exists because the counted
  retries of a *committed row* are all audited (`EveryRetryAudited`), and since counts
  are written from loaded snapshots, so must those of every snapshot be
  (`AuditedUpTo` in `DeliverySound`). `DecisionFresh` and `DispatchAllowed` tie what
  is written to what was loaded, and the gate.
- `TypeCorrect`, `WriteAhead`, `RowAlwaysFound`, `RetriesAudited` follow.
- `LostUpdatesAudited`: a step that decides a retry writes its number as the count, and no
  other step changes the count (`NextDecides`). A count that does not grow is therefore
  the number of a retry that the audit table has already, by `EveryRetryAudited`, and the
  step decides it again.
- `AppendOnly`: the action property, per action from `TaskRecordsProofs`.
- `WriteAheadLedger`: every step is a claim, a send or a stutter of `RetryLedger`
  under the mapping *claims = the numbers with a PENDING or DISPATCHED row*. A claim
  leaves no gap because the retries below it are audited, by `AuditInv`.
- `GateIsRespected`: with the gate not open nothing is dispatching, so nothing is sent
  and the log holds SHADOWED and BLOCKED rows only.
- `SendsHaveACause`, `FailedSendsAreNumbered`, from `SendInvariant`. A delivery is
  *entitled* to a send while it has recorded a retry and not sent it, or replays. Each
  entitlement was paid for by a claimed row or by a database failure, so sends plus
  entitled deliveries never exceed claims plus failures (`SendsAccounted`); a step that
  sends gives its entitlement up. `MemorySound` says which numbers a delivery can dispatch
  by: the one it claimed, or after a replay the next.
- `NoSecondSend`, `NoPhantomDispatch`, `AuditSettles`, `RowKeepsLifecycle`, from
  `NominalInvariant`: `AuditInv /\ (Calm => CalmInv)`. While nothing fails but refused
  sends, one thing at most *leads* - the message, or the delivery that did not yet hand its
  task on (`OneLead`) - so the row is what the lead left (`StatusFor`, `LeadSound`), and
  the retry it is about to send is the latest and unsent. What the others, which have sent
  their retry, still do is only to mark it, announce RETRYING and keep out
  (`Untroubled`). `ClaimsSound` explains each PENDING row. No failure is undone, so a calm
  state had calm predecessors (`CalmBefore`). The refinement of `TaskLifecycle` takes the
  step of the lead to a step of the state machine and every other to a stutter.
- `SentRetriesAreKept`, `CountGrowsWhileCalm`, `ReplayCountsOnce`:
  invariants of one delivery each, from a description of the steps by the fields they
  change (`Goes`, `NextGoes` in `StateTrackingProofs`), so that none of these proofs opens
  the actions again. `AloneInv` says that an only delivery finds the row as it loaded it
  and that its replay recognises what it counted.
- `GaugeDrifts`: the gauge counts each delivery in and out; the set of those running is
  finite and changes by one delivery a step.
- `EventsFollowCommits`: a delivery only holds statuses that the row went through
  (`AnnouncesCommitted`), in its event, decision, memory and snapshot; the snapshot matters
  because the flush leaves a column alone that the session did not change.
- `TransitionsAreAnnounced`: announcements made, those about to be made and database
  failures cover the transitions of each status. When all is settled none is about to be.
- `OutcomeIsAnnounced`, `CountersMatchRecords`: from `CalmInv`; the lead is the only one
  to announce an outcome or to complete, and starts are messages taken.
- `ObserversAgree`: all five promises at once on `ObserversSpec`, each of whose steps is a
  step of both modules (`ObserversAreBoth`).
- `MessageHasRow`, `DispatchedAudit` (in `DispatchProofs`): the caller's steps keep the
  invariant, because they leave the audit table and the deliveries alone and change the
  row only while there is no message; that a message has its row needs that the caller
  which is about to enqueue has one.
- `EveryTaskEnds`: a row in the middle always has someone to move it on. RUNNING has a
  message or a delivery that *resumes*; RETRYING of a retry claimed once has, if it was
  not sent, its own delivery or a replay that will find it PENDING, and if it was sent, a
  message or a delivery that *starts*. That the claim says truly whether the retry was
  sent is part of the invariant (`RetryGoesOn`) and fails when two deliveries claimed it.
  When all is over nobody is left, so the row is in an outcome.
- `TenantsAgree`, `EventsFollow`, `LinesNameTheTenant`, `DispatchEngages` (in
  `PipelineProofs`): by cases on the fields that are present, then by invariants that tie
  the context, the tenant of the body and the rooms of a delivery to the hook it is in and
  to its own message.
- `ServesOnlyReady`, `SchemaIsOfVersion`, `HealthFollows`, `OnlyBaseIsWedged` (in `WorkerProcessProofs`), from `StartInvariant`: `Spec => []StartInv`.
  A stage past the migration implies a database at head, kept because an upgrade ends at
  head and a downgrade needs that no replica is up; a stale upgrade cannot run, since the
  objects of a newer version are in its way (`UpgradeReachesHead`); at base the type is
  there exactly if a downgrade left it. A process that serves was booted with a `redis_url`,
  since `Settings` refuses an empty one at the import. `IndexMissing` is about `Migrations`
  alone: the objects of the models and of the revisions differ in one index.

Only model-checked: liveness (`EventuallyOver`, `EventuallyServes`), which with its
fairness is beyond the prover. The violated properties are shown by TLC's counterexamples.

## Plan

Done, in this order: `TaskRecords`, `StateTracking`, `TaskLifecycle`, `RetryLedger`;
`EventStream`, `TaskMetrics`, `Observers`; `Dispatch`; `MessageIds`, `Pipeline`;
`Migrations`, `WorkerProcess`; the proofs above.

Left: liveness stays with TLC. Lemmas about `Goes` could carry the older proofs of
`AuditInv` as well and shorten them.

## Not modelled

- The number of pooled connections. It is SQLAlchemy's bookkeeping; what the worker sees
  of it is an error in a hook, which is modelled. That each process has a pool of its own
  and that `--workers` starts `WORKER_CONCURRENCY` of them (with the defaults, 10 times 15
  connections against PostgreSQL's 100) is a matter of configuration.
- The allowlists and the parsing of the retry gate: the gate is a constant of a behaviour.
- The scheduler: it declares no schedule.
- `templatize.sh`, `_tasks.py`, CI and the deployment files: text, no behaviour of the
  worker; the probes of `devspace.yaml` are in `WorkerProcess`.
