---------------------------- MODULE RunRequests ----------------------------
(***************************************************************************)
(* POST /calculation-jobs/:id/run.  A request reads the durable state      *)
(* without locks, prepares or reuses an attempt in one transaction, marks  *)
(* it DISPATCHING in a second, calls the executor while it holds no lock,  *)
(* and records the answer in a third.  A request that loses a race routes  *)
(* again.  Each transaction takes the job's row lock before it writes, so  *)
(* it is one step; a read before that lock is a step of its own.           *)
(***************************************************************************)
EXTENDS ExecutionTables, FakeExecutor

CONSTANT RoutingAttempts  \* 3 in the code

ASSUME RoutingAssumption == RoutingAttempts \in Nat \ {0}

VARIABLE run  \* the requests, by slot

RunPhase == {"idle", "route", "prepare", "prepareTx", "retry", "begin",
             "beginTx", "dispatch", "record", "failed"}

\* The assertions of the service that a race of legal calls can fail.  The
\* others are collected in RunContradiction; no step leaves a contradiction.
RunAssertion == {"beginOutsideBuilding", "recordOutsideBuilding", "reject", "unknown"}

Request == [pc : RunPhase,
            job : Job \cup {NoJob},
            num : Number \cup {0},             \* durableAttempt
            tries : 0 .. RoutingAttempts - 1,  \* routingAttempt
            seen : DatasetStatus,              \* status read before the lock
            answer : Answer \cup RunAssertion \cup {"NONE"}]

RunTypeOK == run \in [Caller -> Request]

Idle == [pc |-> "idle", job |-> NoJob, num |-> 0, tries |-> 0,
         seen |-> "DRAFT", answer |-> "NONE"]

RunInit == run = [r \in Caller |-> Idle]

Routing(j, tries) == [Idle EXCEPT !.pc = "route", !.job = j, !.tries = tries]

Respond(r) == run' = [run EXCEPT ![r] = Idle]

\* invariant(...): the request answers 500 and its transaction rolls back.
FailRun(r, assertion) == run' = [run EXCEPT ![r] = [@ EXCEPT !.pc = "failed", !.answer = assertion]]

\* Mutant: the iterations are not counted.
RerouteForever(r) == run' = [run EXCEPT ![r] = Routing(@.job, @.tries)]

\* AttemptRoutingRaceError or JobNotRunnableError: the loop routes again, and
\* the last iteration answers JOB_NOT_RUNNABLE.
Reroute(r) ==
    run' = [run EXCEPT ![r] = IF @.tries + 1 < RoutingAttempts
                              THEN Routing(@.job, @.tries + 1)
                              ELSE Idle]

DispatchWith(r, n) == run' = [run EXCEPT ![r] = [@ EXCEPT !.pc = "begin", !.num = n]]

RunRequest(r, j) ==
    /\ run[r].pc = "idle"
    /\ run' = [run EXCEPT ![r] = Routing(j, 0)]
    /\ UNCHANGED <<tableVars, executorVars>>

----------------------------------------------------------------------------
(* obtainDurableRunAttempt: one unlocked read *)

RouteNotRunnable(r) ==
    LET j == run[r].job IN
    /\ run[r].pc = "route"
    /\ job[j] = "SUCCEEDED" \/ (job[j] = "FAILED" /\ dataset # "BUILDING")
    /\ Reroute(r)
    /\ UNCHANGED <<tableVars, executorVars>>

RoutePrepare(r) ==
    LET j == run[r].job IN
    /\ run[r].pc = "route"
    /\ job[j] = "PENDING" /\ ~ HasActive(j)
    /\ run' = [run EXCEPT ![r].pc = "prepare"]
    /\ UNCHANGED <<tableVars, executorVars>>

RouteRetry(r) ==
    LET j == run[r].job IN
    /\ run[r].pc = "route"
    /\ job[j] = "FAILED" /\ dataset = "BUILDING" /\ ~ HasActive(j)
    /\ run' = [run EXCEPT ![r].pc = "retry"]
    /\ UNCHANGED <<tableVars, executorVars>>

\* The active attempt is one this job status may own, and the build is frozen.
Reusable(j, n) ==
    /\ attempt[j][n] \in Active
    /\ IF job[j] = "RUNNING" THEN attempt[j][n] = "ACCEPTED" ELSE attempt[j][n] # "ACCEPTED"
    /\ dataset = "BUILDING" /\ frozen

RouteReuse(r, n) ==
    LET j == run[r].job IN
    /\ run[r].pc = "route"
    /\ job[j] # "SUCCEEDED"
    /\ Reusable(j, n)
    /\ DispatchWith(r, n)
    /\ UNCHANGED <<tableVars, executorVars>>

\* The read finds a job and an active attempt that cannot belong together.
RouteContradiction(r) ==
    LET j == run[r].job IN
    /\ run[r].pc = "route"
    /\ \/ job[j] = "RUNNING"
       \/ job[j] = "PENDING" /\ HasActive(j)
       \/ job[j] = "FAILED" /\ dataset = "BUILDING" /\ HasActive(j)
    /\ ~ \E n \in Number : Reusable(j, n)

----------------------------------------------------------------------------
(* prepareCalculationJobRunService *)

\* loadCalculationRunContext: the unlocked read at the head of the transaction.
PrepareReadContext(r) ==
    /\ run[r].pc = "prepare"
    /\ IF dataset \in {"DRAFT", "BUILDING"}
       THEN run' = [run EXCEPT ![r] = [@ EXCEPT !.pc = "prepareTx", !.seen = dataset]]
       ELSE Reroute(r)
    /\ UNCHANGED <<tableVars, executorVars>>

\* A version seen DRAFT resolves its inputs before its own row is locked; a
\* missing definition or upstream version answers 409 and changes nothing.
PrepareInputsMissing(r) ==
    /\ run[r].pc = "prepareTx" /\ run[r].seen = "DRAFT"
    /\ Respond(r)
    /\ UNCHANGED <<tableVars, executorVars>>

\* The locked status admits this path: first preparation, or reuse.
Preparable(r) == dataset = "BUILDING" \/ (dataset = "DRAFT" /\ run[r].seen = "DRAFT")
ContractConsistent == frozen <=> dataset # "DRAFT"

\* Mutant: an active attempt is not looked for.
PrepareAttemptAnyway(r, n) ==
    LET j == run[r].job IN
    /\ run[r].pc = "prepareTx"
    /\ Preparable(r) /\ ContractConsistent
    /\ job[j] = "PENDING"
    /\ NextNumber(j, n) /\ InsertPrepared(j, n)
    /\ dataset' = "BUILDING"
    /\ frozen' = TRUE
    /\ DispatchWith(r, n)
    /\ UNCHANGED <<job, executorVars>>

\* Mutant: the job's status is not read again under its lock.
PrepareAttemptUnchecked(r, n) ==
    LET j == run[r].job IN
    /\ run[r].pc = "prepareTx"
    /\ Preparable(r) /\ ContractConsistent
    /\ \/ attempt[j][n] = "PREPARED" /\ UNCHANGED attempt
       \/ ~ HasActive(j) /\ NextNumber(j, n) /\ InsertPrepared(j, n)
    /\ dataset' = "BUILDING"
    /\ frozen' = TRUE
    /\ DispatchWith(r, n)
    /\ UNCHANGED <<job, executorVars>>

\* initializeOrReuseDraftDataset or reuseBuildingDataset, then
\* prepareSelectedJobAttempt: freeze, DRAFT -> BUILDING, and the attempt.
PrepareAttempt(r, n) ==
    LET j == run[r].job IN
    /\ run[r].pc = "prepareTx"
    /\ Preparable(r) /\ ContractConsistent
    /\ job[j] = "PENDING"
    /\ \/ attempt[j][n] = "PREPARED" /\ UNCHANGED attempt
       \/ ~ HasActive(j) /\ NextNumber(j, n) /\ InsertPrepared(j, n)
    /\ dataset' = "BUILDING"
    /\ frozen' = TRUE
    /\ DispatchWith(r, n)
    /\ UNCHANGED <<job, executorVars>>

PrepareNotRunnable(r) ==
    LET j == run[r].job IN
    /\ run[r].pc = "prepareTx"
    /\ \/ ~ Preparable(r)
       \/ /\ ContractConsistent
          /\ \/ job[j] # "PENDING"
             \/ \E n \in Number : attempt[j][n] \in Active \ {"PREPARED"}
    /\ Reroute(r)
    /\ UNCHANGED <<tableVars, executorVars>>

PrepareContradiction(r) ==
    run[r].pc = "prepareTx" /\ Preparable(r) /\ ~ ContractConsistent

----------------------------------------------------------------------------
(* prepareFailedCalculationJobRetry *)

RetryAttempt(r, n) ==
    LET j == run[r].job IN
    /\ run[r].pc = "retry"
    /\ dataset = "BUILDING" /\ frozen
    /\ job[j] = "FAILED"
    /\ \/ attempt[j][n] \in {"PREPARED", "DISPATCHING"} /\ UNCHANGED attempt
       \/ ~ HasActive(j) /\ NextNumber(j, n) /\ InsertPrepared(j, n)
    /\ DispatchWith(r, n)
    /\ UNCHANGED <<dataset, frozen, job, executorVars>>

RetryRaced(r) ==
    /\ run[r].pc = "retry"
    /\ dataset # "BUILDING" \/ (frozen /\ job[run[r].job] # "FAILED")
    /\ Reroute(r)
    /\ UNCHANGED <<tableVars, executorVars>>

RetryContradiction(r) ==
    /\ run[r].pc = "retry" /\ dataset = "BUILDING"
    /\ \/ ~ frozen
       \/ job[run[r].job] = "FAILED" /\ \E n \in Number : attempt[run[r].job][n] = "ACCEPTED"

\* Bound: a request that would need attempt MaxAttempts + 1 gives up.
AttemptsExhausted(r) ==
    LET j == run[r].job IN
    /\ run[r].pc \in {"prepareTx", "retry"}
    /\ ~ HasActive(j) /\ attempt[j][MaxAttempts] # "ABSENT"
    /\ Respond(r)
    /\ UNCHANGED <<tableVars, executorVars>>

----------------------------------------------------------------------------
(* beginDispatch *)

\* The statement that locks the job reads the joined dataset status before it
\* waits for the lock, and PostgreSQL does not read that row again.
BeginReadDataset(r) ==
    /\ run[r].pc = "begin"
    /\ run' = [run EXCEPT ![r] = [@ EXCEPT !.pc = "beginTx", !.seen = dataset]]
    /\ UNCHANGED <<tableVars, executorVars>>

\* The job is locked, the version was seen BUILDING, and the snapshot is there.
Beginning(r) == run[r].pc = "beginTx" /\ run[r].seen = "BUILDING" /\ frozen

\* The status is tested before the attempt is looked at.
BeginOutsideBuilding(r) ==
    /\ run[r].pc = "beginTx"
    /\ run[r].seen # "BUILDING"
    /\ FailRun(r, "beginOutsideBuilding")
    /\ UNCHANGED <<tableVars, executorVars>>

BeginRaced(r) ==
    /\ Beginning(r)
    /\ attempt[run[r].job][run[r].num] \notin Active
    /\ Reroute(r)
    /\ UNCHANGED <<tableVars, executorVars>>

BeginAlreadyAccepted(r) ==
    LET j == run[r].job IN
    /\ Beginning(r)
    /\ attempt[j][run[r].num] = "ACCEPTED" /\ job[j] = "RUNNING"
    /\ Respond(r)
    /\ UNCHANGED <<tableVars, executorVars>>

\* Mutant: the executor is called before the attempt is marked.
BeginDispatchUnmarked(r) ==
    LET j == run[r].job IN
    /\ Beginning(r)
    /\ attempt[j][run[r].num] \in {"PREPARED", "DISPATCHING"}
    /\ job[j] \in {"PENDING", "FAILED"}
    /\ run' = [run EXCEPT ![r].pc = "dispatch"]
    /\ UNCHANGED <<tableVars, executorVars>>

BeginDispatch(r) ==
    LET j == run[r].job IN
    /\ Beginning(r)
    /\ attempt[j][run[r].num] \in {"PREPARED", "DISPATCHING"}
    /\ job[j] \in {"PENDING", "FAILED"}
    /\ attempt' = [attempt EXCEPT ![j][run[r].num] = "DISPATCHING"]
    /\ run' = [run EXCEPT ![r].pc = "dispatch"]
    /\ UNCHANGED <<dataset, frozen, job, executorVars>>

BeginContradiction(r) ==
    LET j == run[r].job
        a == attempt[j][run[r].num] IN
    /\ run[r].pc = "beginTx" /\ run[r].seen = "BUILDING"
    /\ \/ ~ frozen
       \/ a = "ACCEPTED" /\ job[j] # "RUNNING"
       \/ a \in {"PREPARED", "DISPATCHING"} /\ job[j] \notin {"PENDING", "FAILED"}

----------------------------------------------------------------------------

\* executor.dispatch: no transaction is open, and the decision is one step.
Dispatch(r) ==
    /\ run[r].pc = "dispatch"
    /\ \E answer \in Answer :
          /\ Decide(r, run[r].job, run[r].num, answer)
          /\ run' = [run EXCEPT ![r] = [@ EXCEPT !.pc = "record", !.answer = answer]]
    /\ UNCHANGED tableVars

----------------------------------------------------------------------------
(* recordDispatchOutcome.  However it ends, the call's hold on the identity *)
(* is released when the service returns.                                    *)

Recording(r) == run[r].pc = "record" /\ FinishCall(r) /\ UNCHANGED <<execution, rejected>>

Retryable(j) == job[j] \in {"PENDING", "FAILED"}

\* Reconciliation ended the attempt first: its result stands.
RecordLate(r) ==
    /\ Recording(r)
    /\ attempt[run[r].job][run[r].num] \in Terminal
    /\ Respond(r)
    /\ UNCHANGED tableVars

RecordOutsideBuilding(r) ==
    /\ Recording(r)
    /\ attempt[run[r].job][run[r].num] \notin Terminal
    /\ dataset # "BUILDING"
    /\ FailRun(r, "recordOutsideBuilding")
    /\ UNCHANGED tableVars

\* The version is BUILDING, the attempt has no result yet, and the answer is
\* not overtaken by a recorded acceptance.
Undecided(r) ==
    LET j == run[r].job  a == attempt[j][run[r].num] IN
    /\ dataset = "BUILDING"
    /\ a \notin Terminal
    /\ ~ (a = "ACCEPTED" /\ job[j] = "RUNNING")

RecordAlreadyAccepted(r) ==
    LET j == run[r].job IN
    /\ Recording(r)
    /\ dataset = "BUILDING"
    /\ attempt[j][run[r].num] = "ACCEPTED" /\ job[j] = "RUNNING"
    /\ Respond(r)
    /\ UNCHANGED tableVars

\* Mutant: the job is left as it was.
RecordAcceptedOnAttempt(r) ==
    LET j == run[r].job  n == run[r].num IN
    /\ Recording(r)
    /\ Undecided(r)
    /\ run[r].answer \in {"ACCEPTED", "ALREADY_EXISTS"}
    /\ attempt[j][n] = "DISPATCHING" /\ Retryable(j)
    /\ attempt' = [attempt EXCEPT ![j][n] = "ACCEPTED"]
    /\ Respond(r)
    /\ UNCHANGED <<dataset, frozen, job>>

RecordAccepted(r) ==
    LET j == run[r].job  n == run[r].num IN
    /\ Recording(r)
    /\ Undecided(r)
    /\ run[r].answer \in {"ACCEPTED", "ALREADY_EXISTS"}
    /\ attempt[j][n] = "DISPATCHING" /\ Retryable(j)
    /\ attempt' = [attempt EXCEPT ![j][n] = "ACCEPTED"]
    /\ job' = [job EXCEPT ![j] = "RUNNING"]
    /\ Respond(r)
    /\ UNCHANGED <<dataset, frozen>>

\* A rejection that another request already recorded is accepted again.
RecordRejected(r) ==
    LET j == run[r].job  n == run[r].num IN
    /\ Recording(r)
    /\ Undecided(r)
    /\ run[r].answer = "REJECTED"
    /\ IF attempt[j][n] \in {"DISPATCHING", "DISPATCH_FAILED"} /\ Retryable(j)
       THEN /\ attempt' = [attempt EXCEPT ![j][n] = "DISPATCH_FAILED"]
            /\ Respond(r)
       ELSE FailRun(r, "reject") /\ UNCHANGED attempt
    /\ UNCHANGED <<dataset, frozen, job>>

\* Mutant: an ambiguous answer is taken for a failed dispatch.
RecordUnknownAsFailed(r) ==
    LET j == run[r].job  n == run[r].num IN
    /\ Recording(r)
    /\ Undecided(r)
    /\ run[r].answer = "UNKNOWN"
    /\ attempt' = [attempt EXCEPT ![j][n] = "DISPATCH_FAILED"]
    /\ Respond(r)
    /\ UNCHANGED <<dataset, frozen, job>>

\* UNKNOWN keeps the attempt DISPATCHING under the same identity.
RecordUnknown(r) ==
    LET j == run[r].job  n == run[r].num IN
    /\ Recording(r)
    /\ Undecided(r)
    /\ run[r].answer = "UNKNOWN"
    /\ IF attempt[j][n] = "DISPATCHING" /\ Retryable(j)
       THEN Respond(r)
       ELSE FailRun(r, "unknown")
    /\ UNCHANGED tableVars

\* A result that contradicts the job or the answer, or an acceptance of an
\* attempt that is not being dispatched.
RecordContradiction(r) ==
    LET j == run[r].job  n == run[r].num  a == attempt[j][n] IN
    /\ run[r].pc = "record"
    /\ \/ /\ a \in Terminal
          /\ \/ dataset = "DRAFT" \/ run[r].answer = "REJECTED"
             \/ ~ HasNewer(j, n) /\ job[j] # a
       \/ ~ frozen
       \/ /\ Undecided(r) /\ run[r].answer \in {"ACCEPTED", "ALREADY_EXISTS"}
          /\ ~ (a = "DISPATCHING" /\ Retryable(j))

RunContradiction(r) ==
    \/ RouteContradiction(r) \/ PrepareContradiction(r) \/ RetryContradiction(r)
    \/ BeginContradiction(r) \/ RecordContradiction(r)

\* The 500 response is sent.
RespondFailure(r) ==
    /\ run[r].pc = "failed"
    /\ Respond(r)
    /\ UNCHANGED <<tableVars, executorVars>>

\* A transaction or its connection fails: the request answers 500 where it is
\* and releases its hold.  A failed transaction has written nothing; when only
\* the answer of its COMMIT is lost, its step has been taken before this one.
RequestLost(r) ==
    /\ "database" \in Faults
    /\ run[r].pc # "idle"
    /\ FinishCall(r)
    /\ Respond(r)
    /\ UNCHANGED <<tableVars, execution, rejected>>

----------------------------------------------------------------------------

RunRoute(r) ==
    \/ RouteNotRunnable(r) \/ RoutePrepare(r) \/ RouteRetry(r)
    \/ \E n \in Number : RouteReuse(r, n)

RunPrepare(r) ==
    \/ PrepareReadContext(r) \/ PrepareInputsMissing(r) \/ PrepareNotRunnable(r)
    \/ RetryRaced(r) \/ AttemptsExhausted(r)
    \/ \E n \in Number : PrepareAttempt(r, n) \/ RetryAttempt(r, n)

RunBegin(r) ==
    \/ BeginReadDataset(r) \/ BeginOutsideBuilding(r) \/ BeginRaced(r)
    \/ BeginAlreadyAccepted(r) \/ BeginDispatch(r)

RunRecord(r) ==
    \/ RecordLate(r) \/ RecordOutsideBuilding(r) \/ RecordAlreadyAccepted(r)
    \/ RecordAccepted(r) \/ RecordRejected(r) \/ RecordUnknown(r)

\* The steps of an admitted request.
RunStep(r) ==
    \/ RunRoute(r) \/ RunPrepare(r) \/ RunBegin(r) \/ Dispatch(r) \/ RunRecord(r)
    \/ RespondFailure(r) \/ RequestLost(r)

=============================================================================
