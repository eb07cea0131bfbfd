# Cost engine orchestration: a TLA+ verification project

The program keeps the build of cost datasets in PostgreSQL and orders their
calculation from an external executor. This directory holds TLA+ modules
translated from its source, the TLC configurations that check them on small
instances, and the proofs TLAPS checks for every instance. Paths below are
relative to the repository; `PROJECT.json` maps every definition to its lines.

## 1. The system and its hard parts

| Part | State it keeps | Operations | What is hard |
|---|---|---|---|
| Dataset versions (`dataset-version/`) | version status, series counter | create, submit, publish, reject, abandon | row locks of several commands and of Run |
| Run requests (`calculation-job-run.*`, `-preparation.*`) | build snapshot, attempts, job status | prepare or retry, begin dispatch, call the executor, record | three transactions and a call without locks; overlapping requests; lost answers |
| Reconciliation (`calculation-job-reconciliation.*`) | result on attempt and job | by hand, by callback | an observation made before the locks it is applied under |
| Fake executor (`executors/`, `request-scoped-fake-executor.ts`) | runs, tombstones, pending outcomes, all in memory | dispatch, status, controls | idempotence per identity; memory lost on restart |
| Session coordinator (`demo-session.coordinator.ts`) | per-session queue, reset leases | admit exclusive or parallel, reserve a reset | FIFO with parallel batches, capacity, reset against admitted work |
| Reset and recovery (`demo-session-reset.service.ts`) | pending outcomes | reset, resolve, maintain, start the server | a COMMIT of unknown outcome, two resolvers, restarts |
| Sessions and executor registry (`demo-session.service.ts`, `demo-runtime.ts`) | session rows, executors by session | create, authenticate, revoke, `forSession` | capacity, lost COMMIT, revocation between two awaits |
| Rate limits (`public-demo-http.ts`) | three windows of counts | check and charge | the edge of a window, limiters that are not asked |
| Browser controller (`frontend/src/app/`) | page state, epoch, generation, gate | load, refresh, play, manual act, clear | stale answers, overlapping flows, a session that ends under way |
| Workflow catalog, raw ingestion | definitions; inserted rows | validate, insert | none: see "Not modelled" |

Requests interact through PostgreSQL row locks and through the executor. In the
core application every request may overlap every other. In the Demo each
session's requests pass its coordinator: at most four overlap, and legacy Run
requests, fake controls and behavior changes run alone.

What makes each part correct:

* Execution: at most one external run per job; external work only for a
  `DISPATCHING` attempt of a `BUILDING` version; a definite rejection is final;
  a retry only after every earlier attempt failed; job and attempts agree; closed
  history is never rewritten; no observation contradicts a recorded result; no
  version is decided over open work; no service assertion can fail; every result
  is recorded and every request answered.
* Row locks: no transactions deadlock, and what a transaction writes, after all
  it has read under locks and without them, is a step of the rows as they are then.
* Versions: one active version per series, numbers without a gap, a frozen
  upstream version that is the newest published one at the freeze and stays
  published.
* Coordinator: an exclusive operation runs alone, operations of one session
  never wait in a circle, a reset never overlaps an admitted operation, and the
  counters return to zero.
* Reset: a session is released only after its outcome is known; no executor and
  no rows outlive it; a restart leaves no session usable.
* Entry: no limit is exceeded and none refuses for an older minute, sessions stay
  within the capacity, and a credential is one of a committed session.
* Page: no older answer replaces a newer one, nothing of a session is shown after
  its end, and what disables the buttons has a flow that ends it.

## 2. Modules

| Module | Models |
|---|---|
| `ExecutionIdentity` | jobs and attempt numbers; a pair also stands for the DAG id and run id generated from it |
| `ExecutionTables` | version status, freeze, job and attempt rows of one version |
| `FakeExecutor` | `decideDispatch`, tombstones, pending outcomes, execution states |
| `RunRequests` | `runCalculationJobService`: routing, preparation, retry, begin, dispatch, recording, re-routing |
| `Reconciliation` | `reconcileExecutionAttemptService`, by hand and by callback |
| `LifecycleCommands` | Submit, Publish, Reject, Abandon |
| `TableSteps` | the abstract specification of the transactions on a version: each command and each recording as one step of the rows, and what the rows say together |
| `TableSteps_proofs` | theorems about every sequence of these steps |
| `JobExecution` | the composition, its properties and its inductive invariant |
| `BuildPromise` | the abstract specification: version, jobs, work in progress |
| `JobExecution_proofs`, `MCJobExecution` | theorems, small instances |
| `RowLocks` | the transactions on a version row lock by row lock |
| `RowLocks_proofs`, `MCRowLocks` | theorems, a small instance |
| `DatasetSeries` | the series of several domains: creation, the first Run's freeze, the lifecycle commands, and every wait for a lock of a series or of calculation types |
| `SeriesPromise` | the abstract specification of the series: the latest version, what it was frozen on, the newest published one |
| `DatasetSeries_proofs`, `MCDatasetSeries` | theorems, small instances |
| `DemoSessions` | session rows, whether a session's company owns rows, the executor registry |
| `SessionCoordinator` | `DemoSessionCoordinator`, and of an operation's body what the session shares |
| `DemoReset` | `DemoSessionResetService` and the maintenance timer, with the database's side of COMMIT |
| `DemoRuntime` | the composition: server start, restart, operations, resets, maintenance |
| `SessionGate` | the abstract specification of admission |
| `DemoRuntime_proofs` | theorems about the coordinator |
| `DemoReset_proofs` | theorems about resets and recovery |
| `MCDemoRuntime` | small instances |
| `DemoEntry` | the three limiters and `DemoSessionService.create` |
| `DemoEntry_proofs`, `MCDemoEntry` | theorems, a small instance |
| `DemoController` | the page: `ScenarioController`, the flows that run in it, the buttons, and the server as the page meets it |
| `DemoController_proofs` | proofs for any scenario and any number of sessions and flows |
| `MCDemoController` | a small instance |

Four groups meet in one place each. `JobExecution` takes every transaction on a version
as one step; `RowLocks` shows why it may. `DatasetSeries` follows many versions and leaves
jobs and attempts out; it meets `JobExecution` in the status of a version and in the freeze, one
step in both. `DemoRuntime` changes only which requests of one session overlap, and `JobExecution` lets
all of them overlap. `DemoEntry` creates the sessions that `DemoRuntime` starts from, and
`DemoController` sees the whole of it as a server that answers, refuses or is silent.

### Granularity of the execution

A transaction is one step when it takes the row lock of the job (or of the
version) before it decides and writes. What it reads before that lock is a step
of its own, because another transaction may commit while it waits: the routing
read, the context read of the preparation (`RunRequests!PrepareReadContext`) and
the joined version status of `lockCalculationJobDispatchContext`
(`RunRequests!BeginReadDataset`), which PostgreSQL does not read again when it
re-evaluates the locked row. The executor decides synchronously, so a call is one
step, taken while no transaction is open. A repeated or refused command that
writes nothing is a stuttering step.

An assertion (`invariant(...)`) that fails answers 500 and rolls back. The
assertions that a race of legal calls can fail are explicit outcomes
(`RunRequests!FailRun`, `Reconciliation!FailCheck`); all others are collected in
`RunContradiction`, `CheckContradiction`, `SubmitContradiction` and
`AbandonContradiction`, and `NoContradiction` says that no reachable state fails one.

The unique indexes of the schema (one active attempt per job, one number per
attempt) are not guards of the model: what they would enforce is derived.

Abstractions: the inputs that the first preparation resolves are either there or
answer 409 (`PrepareInputsMissing`); the dispatch behavior of an identity the
executor has not seen is any behavior, because requests, scripts and tests choose
it freely; identifiers, timestamps, result payloads and wording are left out.

Constants: `Job`, `MaxAttempts` (bound on attempts, `AttemptsExhausted` is the only
action the bound adds), `Caller` and `Checker` (overlapping Run requests and
reconciliations), `RoutingAttempts` (3 in the code, 2 in the runs: one re-routing
and the final answer), `Simulated` (calls carry a simulation, as in the Demo, or
not) and `Faults`: `"restart"` (the process and the executor's memory are lost),
`"database"` (a transaction fails), `"flip"` (a control changes a finished run),
`"unavailable"` (the executor cannot be asked).

### Granularity of the row locks

`txn[t]` is a transaction of one of nine kinds: the four commands, the preparation of a
Run, a retry, `beginDispatch`, the recordings of a dispatch and those of a reconciliation.
Its `pc` is the class of rows it locks next: the series (Publish, Reject and Abandon), the version
(commands, preparation and retry), jobs, attempts. Submit and Abandon lock every job by its id and
then every attempt; the first Run updates every job in the order of the calculation types
(`NextJob`, `Freezing`); all others lock one job and its attempts. What is read without a lock is read
again in a step of its own: the version's status by a recording, the attempts by a
preparation. A row that is updated stays locked until COMMIT (`End`). The attempts of a
job are one row here: they are only locked together or under the job's lock. Locks of other
versions' series and of calculation types are in `DatasetSeries`; a `FOR KEY SHARE` that a foreign
key takes on a row that is already locked by the same transaction is left out.

`TableSteps` states what each kind may do to the rows in one step. `Serialized` says that `RowLocks`
implements it under the identity mapping of the rows: no status, attempt or freeze that a
transaction decided on has changed by the time its writes are committed. `TablesStepped` says the same of
`JobExecution`: its requests and reconciliations, with all that they have read before, change the rows by
these steps only. What `TableSteps` keeps of the rows (`TablesConsistent`, `HistoryImmutable`,
`RetryOnlyAfterFailure`) is therefore stated and proved there once.

### Granularity of the series

`request[r]` is a transaction: what it has decided and the locks it still has to take. A wait
for `FOR UPDATE` of a series or of a domain's calculation types is a step that is enabled
when the lock is free; PostgreSQL runs at READ COMMITTED, so what a transaction reads after
it got a lock is what was committed then. A series that another transaction is inserting is
locked for a second insertion (`CreateLock`), and invisible to a first Run
(`PrepareSeries`, `last[u] = 0`). The rows of a version are locked last in each of these transactions
and only until its end, so the lock, the test of the status and the update are one step
(`PrepareFreeze`, `Decide`, `SubmitValidation`). The insertion of jobs takes `KEY SHARE` on the
calculation types and waits for a first Run that holds them (`CreateVersion`). The context of a
first Run is read without locks (`BeginPrepare`) and may be stale when the version is locked.

The types of a domain are one lock, because every transaction takes them in one
order; a statement that fails, a missing definition and a refused Abandon are
`Rollback`; the index that allows one active version of a series is not a guard of the
model: it is derived. `SeriesPromise` has none of this: a series has a latest version with a stage, the
inputs that version was frozen on, and the newest version that is published, and creates, freezes, submits and decides
in one step each. `SeriesKept` maps `number` to `last_allocated_version`, `stage` and `inputs` to status and
snapshot of that version, and `published` to what `findLatestPublishedUpstreamVersion` would
return. Constants: `Domain`, `Requires` (the domains that the published dependency
definitions require), `Position` (the order of names in which series are locked), `Limit` (bound on the
versions of a domain), `Request` (transactions that overlap).

### Granularity of the Demo sessions

The program is one thread: what it does between two awaits is one step. `op[o].waits`
holds the operations whose promises `o` awaits; `Leave` is the `finally` block, which
also resolves the promise. An operation is authenticated, admitted, revalidated
and run in separate steps, and `forSession` reads the row (`ForSession`) before it
registers the executor (`InstallExecutor`). Everything else that a body does is left
to `JobExecution`; here it may commit rows of its company (`Own`).

A cleanup takes the row lock, deletes and revokes, sends COMMIT, and the database
decides it in a step of its own (`DatabaseCommits`, `DatabaseAborts`); the answer may be
lost before or after that (`CleanUnknown`). `txn[s]` is the last cleanup transaction
of a session, and the row is locked while it is undecided. `pending` and
`resolver` are the entries and their `resolving` promises. Maintenance (`Sweeper`) takes
the entries as they are and resolves one after the other, then queries the
candidates and cleans them. One maintenance runs at a time, because the timer is set again
when it has ended (`MaintenanceAssumption`).

A reservation object is told apart by the slot of its cleaner and its session; a slot
is reused only when no one remembers the object it stood for (`Forgotten`), which
bounds the number of remembered objects and nothing else.

Abstractions: the deletes are one step and a foreign reference is one of the statements
that fail; the batch limit is not reached; `reservation.unknown` only chooses the error
code; the body of a refused or failed operation is not told apart from one that
succeeded; `revoke` has no caller in the program. Constants `MaxOperations`,
`MaxParallel`, `MaxSessions`, `MaxExecutors`, `ActiveCapacity` and `RetainedCapacity` are the
limits of the code, small in the runs. `Faults`: `"database"` (connections and
COMMITs of cleanups fail), `"restart"`, `"orphan"` (an operation loses the answer of its
COMMIT, and the database decides it later). A restart leaves such transactions too.

### Granularity of the entry

The hook checks three limiters in order and charges the ones that apply, with no await between:
one request is one step (`Admit`, `TooMany`). A limiter learns of a new window when it is asked
(`Rolled`), so limiters that an earlier refusal did not reach keep an older minute. `admitted` is
a history variable: what was admitted in the current minute, which `LimitsExact` compares with the
limiters. The clock of the process is taken to move forward; `MaxWindow` bounds the
minutes.

A creation is a transaction of its statements: the table lock (with `lock_timeout`), the two
counts, up to five candidates, COMMIT. A COMMIT whose answer is lost leaves a transaction
that the database ends by itself (`table = Gone`, `GoneEnds`). A retained session is never deleted:
`RetainedCapacity` is a ceiling on all sessions ever created, as the code documents it. What
`DemoRuntime` does to a session is `EndSession` here.

### Granularity of the page

A flow (`load`, `play`, `manual`, `clear`) runs from the arrival of an answer to its next await. Its request
is handled by the server in a step of its own (`Handle`) and the answer arrives in another,
in any order with those of other flows, or is lost. The cookie that a request carries is the one of the
moment it was sent. The controller's epoch and generation are only compared for equality, so a flow
keeps what the comparison would say: `live` and `fresh`. The viewer may click whatever the open dialog
or the page offers (`Viewer`); a session may expire at any time.

Reductions: the two requests of a `refresh` are one; the server's refusals and 401 are decided when the answer
arrives; summaries and errors are one dialog (`"notice"`); a playback that is done or has
failed is `"over"`; what a read returns is how many commands were saved before it. Left out:
explanation dialogs, language, selections, the content of the scenarios, and the one scenario step that sends
commands in parallel. Bounds: `MaxSessions`, `MaxFlows`, `MaxSaved`; `Plan` is the scenario.

## 3. Runs

Every run of `JobExecution` has at most two attempts of a job, which is one retry: a late message
of an attempt can then meet its successor.

| Run | Configuration | Shows |
|---|---|---|
| `core` | 1 job, 2 simulated callers, 1 reconciliation, restarts and failing transactions | the inductive invariant with its types, no duplicate run, finality of rejections, no failing assertion, observations agree, action properties, the routing loop runs out, refinement of `BuildPromise` and `TableSteps` |
| `two_jobs` | 2 jobs, 1 legacy caller, 1 reconciliation; results flip, executor unavailable | a decided version is quiet in all its jobs; recorded history stays |
| `requests_end` | 1 job, 2 callers, 1 reconciliation; fairness and repeated callbacks | every Run request is answered, every result is recorded |
| `row_locks` | 2 jobs whose ids and calculation types are in opposite orders, 2 attempts, 2 transactions of any kind | no deadlock; refinement of `TableSteps` |
| `dataset_series` | 3 domains, one built on the other two, one of these with 2 versions; 2 transactions | one active version, no deadlock, inputs that stay; refinement of `SeriesPromise` |
| `rejection_convergence` | as `core`, without faults | refutes `RejectionConverges` |

Two callers suffice for the races of the code: each of them is between one
request and what another one did in one of its gaps. Deadlock is checked in all
of them; a lifecycle decision does not stop the requests. Two transactions suffice for every
pair of transactions that lock rows, of a creation, a first Run and a decision; the theorems below hold
for any number of them.

| Run | Configuration | Shows |
|---|---|---|
| `session_admission` | 1 session, 4 operations (at most 3 admitted, 2 parallel), 1 reset, maintenance | types, the counters balance, no circle; refinement of `SessionGate` |
| `session_reset` | 2 sessions, 1 operation, 1 reset, maintenance; failing connections, restarts | a reset is alone, an undecided session stays reserved, nothing runs in a revoked one, no executor survives, a reservation is given back knowing the outcome |
| `session_recovery` | 1 session, 1 operation, 1 reset, maintenance; failing connections, lost COMMITs of operations; fairness | every reservation is given back and leftovers are removed, unless `Unresolvable` or `EntryLost` |
| `double_finish` | 2 sessions, 2 resets, maintenance; failing connections | refutes `FinishedOnce` |
| `entry` | 2 requests, 3 addresses of which a limiter knows 2, 5 candidates (1 of a company that owns rows), limits 1, 2 and 3, capacity 2 active and 3 retained, 4 minutes | the limiters are exact, the capacity is kept, credentials are backed |
| `controller` | 2 sessions, 2 flows, 1 saved command, a scenario of two steps of which the second pauses | the page never goes back, shows nothing of an ended session, shows its own commands, and stays usable; every flow comes nearer its end |

Four operations at these limits reach every refusal, a parallel batch in front of
an exclusive operation and one behind it. Two sessions are needed where
maintenance remembers one entry while it reads another. Two flows are every pair of a late
answer and the flow it disturbs; two sessions are the one that ended and the one that was opened after it.

`CHECK_DEADLOCK FALSE` is said in `controller` only: there the page can really be stuck until it is reloaded. In step mode a
viewer confirms the clearing while the scenario waits, dismisses that dialog with Escape and clicks
Next; the scenario goes on and pauses, and then the clearing fails. Its error replaces the dialog of
the pause, which holds the only button that continues, and when it is dismissed the playback is
paused with no button left. The gate is still that of the paused scenario, which is what `Served` asks.
Three more things that the run passes through, none of them against its properties: a late 401 of the page's first
load ends a session that a click has opened meanwhile, and the browser loses its cookie; the button that starts a scenario is not
disabled by a manual command under way, so both overlap; and an answer of `POST /demo/sessions` that
belongs to an outdated scenario still sets the page's session.

### Fairness

The execution (`RepeatedCallbackSpec`): weak fairness of every step of an admitted request (`RunStep`,
`CheckStep`), because the event loop resumes it, the database answers, and a wait for a row lock
ends: no transaction holds locks while it waits for anything but locks, and `NeverDeadlocked` and
`RankedDomainsNeverDeadlock` exclude circles. New requests, callbacks, lifecycle commands and
the end of an external run have none. `CallbacksRepeat` (strong fairness, an assumption on the
environment) says that an open attempt is asked about again and again: the program polls nothing by
itself. `RunAnswered` does not depend on it; both are checked in one run.

The Demo (`MaintainedSpec`): the event loop resumes operations and
cleaners, a body ends, the database decides what it was sent and commits again and again, and the timer of maintenance
elapses (it is set in the public profile only; elsewhere maintenance runs at startup).
Strong fairness of maintenance's `ReadOutcome` (`ResolvingFair`) and of its `QueryCandidates`, `CleanLock` and `CleanCommit`
(`CleaningFair`) says that of the connections that are tried again and again for a session some succeed; a reset of a viewer is
tried once and needs none. That of `Awaited` says that who awaits a promise is resumed when it settles, before a
reset can begin the session's next resolution, which takes several answers of the database.
Arrivals, expiry, faults and restarts have none.

`ReservationReturns` and `LeftoversRemoved` name two exceptions. `Unresolvable(s)`: a reset's
COMMIT is unknown and has revoked the session, and a create transaction of an operation, whose own answer was lost,
gives its company rows again before the outcome is read. `readOutcome` then answers 'unknown' each time and maintenance
leaves the session out of its candidates: it stays reserved until a restart.
`EntryLost(s)`: a second finish of an earlier reset removes the entry of a newer one whose outcome is unknown. If the newer
reset's own reading fails, nobody reads the outcome again, although it can be read; the session stays
reserved until a restart, is refused by `reserveCleanup` and keeps what it left behind. Both properties are therefore claimed of a session that this
never happens to. It takes two sessions and two resets, so `session_recovery` does not reach it; nor does
any other passing run. On the instance of `double_finish` with `ActiveCapacity = 1`, where it happens, `ReservationReturns` holds under `ResolvedSpec`
(256,423 states, about four minutes, which is why it is no run), and without the exception
it is violated. `LeftoversRemoved` says nothing there, because without operations nothing is left behind.

The page and the entry have no liveness run. For the page, `Served` says that whatever disables a button has a
flow that ends it, and `FlowsRunOut` that a flow has no endless run: every request carried out for it
and every answer it gets brings it nearer its end, which a model checker and a proof can
decide without fairness. That a request is answered at all is the browser's and the network's part.
The entry's requests do not wait for each other but for the table lock, which has a timeout.

### Disagreements with the documents and comments

* `double_finish`: `recoverPendingResets` takes all entries and awaits them in turn. An
  entry whose own reset has finished it meanwhile is resolved again, and `finish` runs
  a second time for its session. `finishReset` throws and the outcome is reported as
  unknown; but `pending.delete` has run before, by session id, so that with one more
  reset of that session under way its entry is lost and maintenance never resolves it (`EntryLost`).
  No session is opened while its cleanup is undecided (`session_reset`, and
  `UndecidedStaysReserved` for any number of sessions and resets), and nothing else loses
  an entry (`OnlyFinishLosesEntries`).
* `rejection_convergence`: ADR-0008 says that two recordings of one rejection
  converge idempotently. They do while the version is `BUILDING` and the job may
  still be retried; after Abandon the second one fails an assertion.

A related race is not a disagreement but worth knowing: `beginDispatch` tests the version's status before
it asks whether the attempt it was routed to is still active. When another Run and a reconciliation
finish the attempt and the version is submitted meanwhile, the request answers 500 (`RunRequests!BeginOutsideBuilding`).

### When first Runs do wait for each other

ADR-0004 and ADR-0006 order the locks within a class and the classes. With
`Requires <- Nested`, `Limit <- RatesTwice` and `Request <- ThreeRequests` of `MCDatasetSeries`, where a plan
needs rates and their base, `NoDeadlock` is violated although every transaction keeps that
order and no domain needs itself: the first Run of a plan holds the series of the base and
waits for that of rates; a creation of rates holds that series and waits, when it inserts jobs,
for the types of rates; and a first Run of rates (of a draft that was abandoned
meanwhile) holds those types and waits for the base. PostgreSQL would abort one of them.

`Ranks(f)` of `DatasetSeries_proofs` is a condition that excludes it: every domain has a rank above those it requires, and of
two inputs of one domain the one that is locked later ranks below the one that is held. The shipped workflow
definitions require at most one domain each and have no cycle, so their depths are such ranks; those of
`Shared` in the run exist too, those of `Nested` do not.

### Conditions of two properties

`NoUnknownAfterRejection` needs `Simulated`: without a simulation the executor
does not remember a call whose ambiguous answer is being recorded. In the Demo,
where rejections can be requested, unsimulated Runs are admitted alone.
`ObservationsAgree` needs that no control changes finished runs (`"flip"`): one does so on purpose, to
show that recorded history does not follow.

## 4. Proofs

Each theorem holds for any values of the constants that satisfy the named assumptions
of the modules, and for every set of faults unless it says otherwise.

**`TableSteps_proofs`**: `RowsStayConsistent`, `RowsKeepHistory` and `RowsRetryAfterFailure`, about every
sequence of the atomic steps of the rows. `TablesConsistent` is inductive by itself: a step that
writes an attempt writes the newest, so an open attempt, a job's status and the version stay in step. The
two modules below show that they implement these steps and inherit the theorems.

**`JobExecution_proofs`**: `Consistency` (`Spec => []Consistent`), `TypeCorrect`, `AtMostOneRun`,
`RejectionIsFinal`, `TablesAgree`, `NewestOnlyOpen`, `DecisionIsQuiet`, `AssertionsHold`,
`UnknownBeforeRejection`, `NeverContradicted`, the action properties `HistoryStays`,
`CreationIsWatched`, `RetryFollowsFailure` and `RequestsRunOut`, and the refinements `StepsTheTables` of
`TableSteps` and `PromiseIsKept` of `BuildPromise`.

The invariant `Consistent` is inductive. The properties alone are not: a request
between two transactions holds an attempt and an answer, and only
`RequestHolds` says that they are still true of the executor. When an attempt
has been decided meanwhile, the executor has either a run or a tombstone for it,
so a late dispatch creates nothing (`RequestHolds`, `ExecutorTells`); an observation
stays an observation of a run that still exists (`CheckHolds`); a version that
left `BUILDING` has no active attempt (`VersionTells`). That part of it which is about the rows alone is
kept because every step is one of `TableSteps` (`RowsStep`): a transaction that decided on what it
had read before its lock still finds the rows as that step requires. For the rest the proof has one lemma per
transaction, each with one step per conjunct it can disturb. The refinement of the promise maps
`working` to the jobs with a run in progress, and each step to a step of the
promise or a stutter. `NeverContradicted` needs one invariant more, `ObservedInv`: a result in the
tables is the one the executor has reached, and what a reconciliation has seen is that
result or a `RUNNING` that preceded it.

`RequestsRunOut` is the part of `RunAnswered` that can be proved: `StepsLeft(r)` is a variant of the
routing loop, at most `8 * RoutingAttempts`, that every step of the request lowers, whichever races it loses, and that no step
of another actor raises. That a request under way can always take a step, and takes it, is
`ENABLED` and fairness; `requests_end` checks it.

**`RowLocks_proofs`**: `LocksInvariant`, `TransactionsSerialize`, `LockedRowsKeepTheirWord` and `NeverDeadlocked`. The
invariant says of every transaction which rows it holds at its place (`SeriesBehind` to
`AttemptsBehind`: a row that is held lies behind the place of its holder) and that what it read of
them is still so (`VersionHeld`, `JobsFit`, `AttemptsFit`, `NumberFits`). Serializability follows at the write,
and with it the theorems about the rows.
For the deadlock, each waiting transaction waits for a row that ranks above every row it holds, so that in a
set of waiting transactions the one whose wanted row ranks highest waits for nobody in it
(`WaitsClimb`, `HighestRow`). The first Run updates the jobs in another order than Submit and Abandon lock them; it is
safe because both lock the version first (`FreezingAlone`), and the transactions that lock one job
want nothing but its attempts afterwards.

**`DatasetSeries_proofs`**:
`SeriesInvariant` (`Spec => []SeriesInv`), `OneActiveVersion`, the action properties `FrozenOnNewest` and
`InputsKept`, `SeriesKeepPromise`, the refinement of `SeriesPromise`, and `RankedDomainsNeverDeadlock` under `Ranks(f)`. What makes `SeriesInv` inductive is what a transaction relies on between its
steps: from the test for an active version to the insertion the series stays locked and nothing
becomes active (`Alone`), and what a first Run has resolved stays the newest published version of
a series as long as it holds that series (`Picked`), because a version is published only under
its lock. The lemma `StillRelies` carries both over every step of another transaction; that the newest
of a set of versions exists is the well-foundedness of the numbers (`GreatestNumber`). For the refinement, only the latest
version of a series is ever active (`ActiveIsStage`), so each write of a version's status is a step of the stage; a
publication makes it the newest because no greater number exists (`ActiveMoves`), and a new version has no
inputs because only the freeze of a draft writes them (`DraftsStayUnfrozen`). Without a deadlock: a transaction
waits at the rank of the domain whose lock it wants, and the one it waits for waits below (`WaitsSink`).

**`DemoRuntime_proofs`**: `TypeCorrect`, `CountersBalanced`, `ResetsAlone`, `NeverInACircle` and
`CoordinatorKeepsGate`, the refinement of `SessionGate`. `QueueInv` relates what the code keeps (counters,
a tail, the promises an operation awaits) to the order of admission, which only the specification remembers: a waiting
operation awaits the last exclusive operation before it, an exclusive one also the parallel ones before
it, and what it does not await has its turn before that one (`Awaits`). The earliest admitted of a set of waiting operations
therefore awaits none of them.

**`DemoReset_proofs`**: `UndecidedStaysReserved`, `RevokedIsQuiet`, `ExecutorsReleased`, `ReleasedOnlyKnowing` and `OnlyFinishLosesEntries`. The invariant
`LeaseInv` says who remembers a reservation: the cleaner that made it, maintenance in its snapshot, or both;
a cleanup in progress is remembered by its own cleaner alone, so that a second `finish` of a
stale entry never gives back a reservation under which something is undecided. This needs that one
maintenance runs at a time (`MaintenanceAssumption`). For `ReleasedOnlyKnowing`, a committed cleanup has
revoked its session, and nothing undoes that; and the session of a viewer's reset gets no rows
afterwards, because its create transactions ended before the reset was admitted
(`AskedIsClean`). These two are proved without
the fault `"orphan"`, which `session_reset` does not have either. With it they can fail for a
while: maintenance loses the answer of its own COMMIT, an operation's late transaction gives the company rows
again, and the outcome that is then read seems not committed, so the reservation is given back
without a release. The next maintenance cleans the session, as `LeftoversRemoved` shows. `OnlyFinishLosesEntries` (`LostOnlyByFinish`, which no run
checks) says that the second exception of the liveness properties has one cause: a reservation has its cleanup under way or its
entry until it is given back, except after a second finish.

**`DemoEntry_proofs`**: `LimitsHold`, `CapacityHolds`, `CredentialsHold`. A limiter never knows a window ahead of the clock, and at its own window
its counts are what was admitted; the holder of the table lock, `Gone` included, keeps the
room it has counted until its row is there.

**`DemoController_proofs`**: `ControllerTypeCorrect`, `ReadsNeverGoBack`, `LeavesNothing`, `WaitsWithItsData`,
`NeverLeftBusy` and `EveryFlowRunsOut`. The invariant `PageInv` rests on two facts that no single property states. One read at
most is the newest (`FreshInv`), and what it carries is backed by the server: of a session that is
still alive, nothing was ever saved and then lost (`Backed`); so a read that is answered now has at least what the page
shows and what the step has saved. And a scenario that is played is the only live flow
(`PlayInv`), so its refresh is taken over by no other: an outdated flow sends the rest of its commands
but never reads again (`StaleActs`), and a live one exists only while nothing is played (`OthersCalm`).
The proof has one lemma per action; each says which of four ways the acting flow goes: on, to
its end, with the next step, or to rest.

`EveryFlowRunsOut` compares a flow with itself before a step in a lexicographic order (`Nearer`): has it
been outdated, has it failed, which step of its scenario it is in, how far in that step, how many of the
step's commands are left, is its request answered. The first two can change once, the step is at most
`Len(Plan)`, and the rest are natural numbers, so no flow takes steps for ever; a command may be followed by
another, an error by one read, and a later step may have any number of commands, which is why no
single sum would do. Its invariant `RunInv` adds to `PageInv` that an outdated flow is in no step and has not
failed. That the order has no endless descent is argued here and not proved.

Model-checked only: liveness (fairness and `ENABLED` are beyond the prover) and the two refuted claims.

## 5. Not modelled

* The workflow catalog: definitions are validated when they are read; `DatasetSeries` takes the result as `Requires`.
* Raw ingestion: two inserts in one transaction, with no state that another operation depends on.
* The Demo's read pages and ownership reads, HTTP parsing and header checks: no state of their own.
* Configuration parsing and deployment scripts: pure input and output.
* The drain of a shutdown: a restart (`"restart"`) covers every state in which the process may end.
