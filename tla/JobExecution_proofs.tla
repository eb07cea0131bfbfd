------------------------ MODULE JobExecution_proofs ------------------------
(***************************************************************************)
(* Proofs about JobExecution, for any number of jobs, attempts, concurrent *)
(* requests and reconciliations, with or without simulations and faults.   *)
(***************************************************************************)
EXTENDS JobExecution, TableSteps_proofs, TLAPS

----------------------------------------------------------------------------
(* Types *)

\* Having no Run request under way is a typed request record.
LEMMA IdleRequest == Idle \in Request
BY RoutingAssumption DEF Request, Idle, RunPhase, DatasetStatus, Number

\* A request waiting for its next routing transaction is a typed record.
LEMMA RoutingRequest ==
    ASSUME NEW j \in Job \cup {NoJob}, NEW t \in 0 .. RoutingAttempts - 1
    PROVE  Routing(j, t) \in Request
BY IdleRequest DEF Request, Routing, RunPhase

\* Answering a Run request keeps the requests typed.
LEMMA RespondType ==
    ASSUME RunTypeOK, NEW r \in Caller, Respond(r)
    PROVE  RunTypeOK'
BY IdleRequest DEF RunTypeOK, Respond

\* Routing again after a lost race keeps the bounded try counter typed
\* (the for-loop of runCalculationJobService).
LEMMA RerouteType ==
    ASSUME RunTypeOK, NEW r \in Caller, Reroute(r)
    PROVE  RunTypeOK'
<1>1. run[r].job \in Job \cup {NoJob} /\ run[r].tries \in 0 .. RoutingAttempts - 1
  BY DEF RunTypeOK, Request
<1>2. CASE run[r].tries + 1 < RoutingAttempts
  <2>1. run[r].tries + 1 \in 0 .. RoutingAttempts - 1
    BY <1>1, <1>2, RoutingAssumption
  <2>2. Routing(run[r].job, run[r].tries + 1) \in Request
    BY <1>1, <2>1, RoutingRequest
  <2> QED
    BY <2>2, <1>2 DEF Reroute, RunTypeOK
<1>3. CASE ~ (run[r].tries + 1 < RoutingAttempts)
  BY <1>3, IdleRequest DEF Reroute, RunTypeOK
<1> QED
  BY <1>2, <1>3

\* Remembering the version status read before a lock wait keeps the
\* requests typed.
LEMMA SeenType ==
    ASSUME TablesTypeOK, RunTypeOK, NEW r \in Caller, NEW p \in RunPhase,
           run' = [run EXCEPT ![r] = [@ EXCEPT !.pc = p, !.seen = dataset]]
    PROVE  RunTypeOK'
BY DEF TablesTypeOK, RunTypeOK, Request

\* A request that ends in a failed assertion stays typed.
LEMMA FailRunType ==
    ASSUME RunTypeOK, NEW r \in Caller, NEW a \in RunAssertion, FailRun(r, a)
    PROVE  RunTypeOK'
BY DEF RunTypeOK, FailRun, Request, RunPhase

\* Moving on to the dispatch of an attempt keeps the requests typed.
LEMMA DispatchWithType ==
    ASSUME RunTypeOK, NEW r \in Caller, NEW n \in Number, DispatchWith(r, n)
    PROVE  RunTypeOK'
BY DEF RunTypeOK, DispatchWith, Request, RunPhase

\* Every step of a request leaves a well-formed request behind.
LEMMA RunStepType ==
    ASSUME TypeOK, NEW r \in Caller, RunStep(r) \/ \E j \in Job : RunRequest(r, j)
    PROVE  RunTypeOK'
<1> USE DEF TypeOK
<1>1. CASE \E j \in Job : RunRequest(r, j)
  <2>1. PICK j \in Job : run' = [run EXCEPT ![r] = Routing(j, 0)]
    BY <1>1 DEF RunRequest
  <2>2. Routing(j, 0) \in Request
    BY RoutingRequest, RoutingAssumption
  <2> QED
    BY <2>1, <2>2 DEF RunTypeOK
<1>2. CASE RunRoute(r)
  <2>1. RoutePrepare(r) \/ RouteRetry(r) => RunTypeOK'
    BY DEF RunTypeOK, RoutePrepare, RouteRetry, Request, RunPhase
  <2> QED
    BY <1>2, <2>1, RerouteType, DispatchWithType DEF RunRoute, RouteNotRunnable, RouteReuse
<1>3. CASE RunPrepare(r)
  <2>1. PrepareReadContext(r) => RunTypeOK'
    BY RerouteType, SeenType DEF PrepareReadContext, RunPhase
  <2> QED
    BY <1>3, <2>1, RerouteType, DispatchWithType, RespondType
    DEF RunPrepare, PrepareInputsMissing, PrepareNotRunnable, RetryRaced,
        AttemptsExhausted, PrepareAttempt, RetryAttempt
<1>4. CASE RunBegin(r)
  <2>1. BeginReadDataset(r) => RunTypeOK'
    BY SeenType DEF BeginReadDataset, RunPhase
  <2>2. BeginDispatch(r) => RunTypeOK'
    BY DEF RunTypeOK, BeginDispatch, Request, RunPhase
  <2>3. BeginOutsideBuilding(r) => RunTypeOK'
    BY FailRunType DEF BeginOutsideBuilding, RunAssertion
  <2> QED
    BY <1>4, <2>1, <2>2, <2>3, RerouteType, RespondType
    DEF RunBegin, BeginRaced, BeginAlreadyAccepted
<1>5. CASE Dispatch(r)
  <2>1. PICK a \in Answer : run' = [run EXCEPT ![r] = [@ EXCEPT !.pc = "record", !.answer = a]]
    BY <1>5 DEF Dispatch
  <2> QED
    BY <2>1 DEF RunTypeOK, Request, RunPhase
<1>6. CASE RunRecord(r)
  <2>1. RecordOutsideBuilding(r) \/ RecordRejected(r) \/ RecordUnknown(r) => RunTypeOK'
    BY FailRunType, RespondType
    DEF RecordOutsideBuilding, RecordRejected, RecordUnknown, RunAssertion
  <2> QED
    BY <1>6, <2>1, RespondType
    DEF RunRecord, RecordLate, RecordAlreadyAccepted, RecordAccepted
<1>7. CASE RespondFailure(r) \/ RequestLost(r)
  BY <1>7, RespondType DEF RespondFailure, RequestLost
<1> QED
  BY <1>1, <1>2, <1>3, <1>4, <1>5, <1>6, <1>7 DEF RunStep

\* Every step of a reconciliation keeps the reconciliations typed.
LEMMA CheckStepType ==
    ASSUME TypeOK, NEW c \in Checker, CheckHolds(c),
           \/ CheckStep(c)
           \/ \E j \in Job, n \in Number : Callback(c, j, n) \/ ManualCheck(c, j, n)
    PROVE  CheckTypeOK'
<1> USE DEF TypeOK, CheckTypeOK
<1>1. NoCheck \in CheckRequest
  BY DEF NoCheck, CheckRequest, CheckPhase, AttemptStatus
<1>2. EndCheck(c) => CheckTypeOK'
  BY <1>1 DEF EndCheck
<1>3. FailCheck(c) => CheckTypeOK'
  <2>1. [NoCheck EXCEPT !.pc = "failed"] \in CheckRequest
    BY <1>1 DEF CheckRequest, CheckPhase
  <2> QED
    BY <2>1 DEF FailCheck
<1>4. CASE \E j \in Job, n \in Number : Callback(c, j, n) \/ ManualCheck(c, j, n)
  <2>1. PICK j \in Job, n \in Number : StartCheck(c, j, n)
    BY <1>4 DEF Callback, ManualCheck
  <2>2. [NoCheck EXCEPT !.pc = "read", !.job = j, !.num = n] \in CheckRequest
    BY <1>1 DEF CheckRequest, CheckPhase
  <2> QED
    BY <2>1, <2>2 DEF StartCheck
<1>5. CASE CheckRead(c) /\ ~ EndCheck(c)
  <2> DEFINE a == attempt[check[c].job][check[c].num]
             q == [check[c] EXCEPT !.pc = "lookup", !.seen = a]
  <2>1. a \in AttemptStatus /\ check' = [check EXCEPT ![c] = q]
    BY <1>5 DEF CheckRead, AttemptStatus, Active, Closed
  <2>2. q \in CheckRequest
    BY <2>1 DEF CheckRequest, CheckPhase
  <2> QED
    BY <2>1, <2>2
<1>6. CASE CheckLookup(c)
  <2> DEFINE e == execution[check[c].job][check[c].num]
  <2>1. check' = [check EXCEPT ![c] = [@ EXCEPT !.pc = "apply", !.result = e]]
    BY <1>6 DEF CheckLookup
  <2>2. e \in ExecutionState \cup {"NONE"}
    BY <1>6 DEF CheckLookup, CheckHolds, ExecutorTypeOK
  <2>3. [check[c] EXCEPT !.pc = "apply", !.result = e] \in CheckRequest
    BY <2>2 DEF CheckRequest, CheckPhase
  <2> QED
    BY <2>1, <2>3
<1> QED
  BY <1>2, <1>3, <1>4, <1>5, <1>6
  DEF CheckStep, CheckRead, CheckUnavailable, ApplyToTerminal, ApplyRunning,
      ApplyResult, CheckRespondFailure, CheckLost

\* Writing one attempt status keeps the attempt table typed.
LEMMA AttemptType ==
    ASSUME TablesTypeOK, NEW j, NEW n, NEW s \in AttemptStatus,
           attempt' = [attempt EXCEPT ![j][n] = s]
    PROVE  attempt' \in [Job -> [Number -> AttemptStatus]]
BY DEF TablesTypeOK

\* Writing one job status keeps the job table typed.
LEMMA JobType ==
    ASSUME TablesTypeOK, NEW j, NEW s \in JobStatus, job' = [job EXCEPT ![j] = s]
    PROVE  job' \in [Job -> JobStatus]
BY DEF TablesTypeOK

\* Changing the state of one run keeps the executor typed.
LEMMA ExecutionType ==
    ASSUME ExecutorTypeOK, NEW j, NEW n, NEW s \in ExecutionState \cup {"NONE"},
           execution' = [execution EXCEPT ![j][n] = s]
    PROVE  execution' \in [Job -> [Number -> ExecutionState \cup {"NONE"}]]
BY DEF ExecutorTypeOK

\* A decision of the executor keeps its maps well formed.
LEMMA DecideType ==
    ASSUME ExecutorTypeOK, NEW c \in Caller, NEW j \in Job, NEW n \in Number,
           NEW answer, Decide(c, j, n, answer)
    PROVE  ExecutorTypeOK'
<1>1. Unbound(c, j, n, answer) => ExecutorTypeOK'
  <2> SUFFICES ASSUME Unbound(c, j, n, answer)  PROVE ExecutorTypeOK'
    OBVIOUS
  <2>1. pending' = pending \/ pending' = [pending EXCEPT ![j][n] = @ \cup {c}]
    BY DEF Unbound
  <2>2. pending[j][n] \cup {c} \in SUBSET Caller
    BY DEF ExecutorTypeOK
  <2>3. pending' \in [Job -> [Number -> SUBSET Caller]]
    <3>1. CASE pending' = pending
      BY <3>1 DEF ExecutorTypeOK
    <3>2. CASE pending' = [pending EXCEPT ![j][n] = pending[j][n] \cup {c}]
      BY <2>2, <3>2 DEF ExecutorTypeOK
    <3> QED
      BY <2>1, <3>1, <3>2
  <2> QED
    BY <2>3 DEF Unbound, ExecutorTypeOK
<1>2. UNCHANGED executorVars => ExecutorTypeOK'
  BY DEF executorVars, ExecutorTypeOK
<1>3. CASE rejected' = [rejected EXCEPT ![j] = @ \cup {n}] /\ UNCHANGED <<execution, pending>>
  BY <1>3 DEF ExecutorTypeOK
<1>4. CASE DecideCreate(j, n, answer)
  <2>1. PICK s \in ExecutionState : execution' = [execution EXCEPT ![j][n] = s]
    BY <1>4 DEF DecideCreate, ExecutionState
  <2> QED
    BY <1>4, <2>1, ExecutionType DEF DecideCreate, ExecutorTypeOK
<1> QED
  BY <1>1, <1>2, <1>3, <1>4 DEF Decide, AnswerDecided, DecideReject, DecideUnknown

\* A request works on a job of the version, a reconciliation on an attempt.
LEMMA TablesAndExecutorType ==
    ASSUME TypeOK, [Next]_vars,
           \A r \in Caller : RequestHolds(r),
           \A c \in Checker : CheckHolds(c)
    PROVE  TablesTypeOK' /\ ExecutorTypeOK'
<1> USE DEF TypeOK, TablesTypeOK, ExecutorTypeOK
<1>1. CASE UNCHANGED <<tableVars, executorVars>>
  BY <1>1 DEF tableVars, executorVars
<1>2. ASSUME NEW r \in Caller, RunPrepare(r) \/ RunBegin(r), ~ UNCHANGED <<tableVars, executorVars>>
      PROVE  TablesTypeOK' /\ ExecutorTypeOK'
  <2>1. CASE \E n \in Number : PrepareAttempt(r, n) \/ RetryAttempt(r, n)
    <3>1. PICK n \in Number : UNCHANGED attempt \/ InsertPrepared(run[r].job, n)
      BY <2>1 DEF PrepareAttempt, RetryAttempt
    <3>2. attempt' \in [Job -> [Number -> AttemptStatus]]
      BY <3>1, AttemptType DEF InsertPrepared, AttemptStatus, Active
    <3> QED
      BY <2>1, <3>2 DEF PrepareAttempt, RetryAttempt, executorVars, DatasetStatus
  <2>2. CASE BeginDispatch(r)
    BY <2>2 DEF BeginDispatch, executorVars, AttemptStatus, Active
  <2> QED
    BY <1>2, <2>1, <2>2 DEF RunPrepare, RunBegin, PrepareReadContext, PrepareInputsMissing,
        PrepareNotRunnable, RetryRaced, AttemptsExhausted, BeginReadDataset,
        BeginOutsideBuilding, BeginRaced, BeginAlreadyAccepted
<1>3. ASSUME NEW r \in Caller, Dispatch(r)
      PROVE  TablesTypeOK' /\ ExecutorTypeOK'
  <2>1. run[r].job \in Job /\ run[r].num \in Number /\ UNCHANGED tableVars
    BY <1>3 DEF Dispatch, RequestHolds
  <2>2. PICK answer \in Answer : Decide(r, run[r].job, run[r].num, answer)
    BY <1>3 DEF Dispatch
  <2>3. ExecutorTypeOK'
    BY <2>1, <2>2, DecideType
  <2> QED
    BY <2>1, <2>3 DEF tableVars
<1>4. ASSUME NEW r \in Caller, RunRecord(r)
      PROVE  TablesTypeOK' /\ ExecutorTypeOK'
  <2>1. FinishCall(r) /\ UNCHANGED <<execution, rejected>>
    BY <1>4 DEF RunRecord, RecordLate, RecordOutsideBuilding, RecordAlreadyAccepted,
        RecordAccepted, RecordRejected, RecordUnknown, Recording
  <2>2. ExecutorTypeOK'
    BY <2>1 DEF FinishCall
  <2>3. \/ UNCHANGED tableVars
        \/ RecordAccepted(r)
        \/ /\ attempt' = [attempt EXCEPT ![run[r].job][run[r].num] = "DISPATCH_FAILED"]
           /\ UNCHANGED <<dataset, frozen, job>>
    BY <1>4 DEF RunRecord, RecordLate, RecordOutsideBuilding, RecordAlreadyAccepted,
        RecordRejected, RecordUnknown, tableVars
  <2>4. "RUNNING" \in JobStatus /\ "ACCEPTED" \in AttemptStatus /\ "DISPATCH_FAILED" \in AttemptStatus
    BY DEF JobStatus, AttemptStatus, Active, Closed
  <2>5. TablesTypeOK'
    <3>1. CASE UNCHANGED tableVars
      BY <3>1 DEF tableVars
    <3>2. CASE RecordAccepted(r)
      <4>1. attempt' \in [Job -> [Number -> AttemptStatus]]
        BY <3>2, <2>4, AttemptType DEF RecordAccepted
      <4>2. job' \in [Job -> JobStatus]
        BY <3>2, <2>4, JobType DEF RecordAccepted
      <4> QED
        BY <4>1, <4>2, <3>2 DEF RecordAccepted
    <3>3. CASE /\ attempt' = [attempt EXCEPT ![run[r].job][run[r].num] = "DISPATCH_FAILED"]
               /\ UNCHANGED <<dataset, frozen, job>>
      BY <3>3, <2>4, AttemptType
    <3> QED
      BY <2>3, <3>1, <3>2, <3>3
  <2> QED
    BY <2>2, <2>5
<1>5. ASSUME NEW c \in Checker, ApplyRunning(c) \/ ApplyResult(c)
      PROVE  TablesTypeOK' /\ ExecutorTypeOK'
  <2>1. PICK s \in {"ACCEPTED", "SUCCEEDED", "FAILED"} :
           attempt' = [attempt EXCEPT ![check[c].job][check[c].num] = s]
    BY <1>5 DEF ApplyRunning, ApplyResult, Terminal
  <2>2. PICK t \in JobStatus : job' = [job EXCEPT ![check[c].job] = t]
    BY <1>5 DEF ApplyRunning, ApplyResult, Terminal, JobStatus
  <2>3. UNCHANGED <<dataset, frozen, executorVars>>
    BY <1>5 DEF ApplyRunning, ApplyResult
  <2>4. {"ACCEPTED", "SUCCEEDED", "FAILED"} \subseteq AttemptStatus
    BY DEF AttemptStatus, Active, Closed, Terminal
  <2> QED
    BY <2>1, <2>2, <2>3, <2>4, AttemptType, JobType DEF executorVars
<1>6. CASE LifecycleCommand
  BY <1>6 DEF LifecycleCommand, SubmitValidation, Publish, Reject, Abandon, executorVars,
      DatasetStatus
<1>7. CASE ExecutorProgress
  BY <1>7 DEF ExecutorProgress, SetExecutionState, tableVars, ExecutionState, Terminal
<1>8. CASE Restart
  BY <1>8 DEF Restart, ForgetExecutions, tableVars
<1>9. ASSUME NEW r \in Caller, RequestLost(r)
      PROVE  TablesTypeOK' /\ ExecutorTypeOK'
  BY <1>9 DEF RequestLost, FinishCall, tableVars
<1> QED
  BY <1>1, <1>2, <1>3, <1>4, <1>5, <1>6, <1>7, <1>8, <1>9
  DEF Next, vars, RunStep, RunRoute, RouteNotRunnable, RoutePrepare, RouteRetry, RouteReuse,
      RespondFailure, RunRequest, CheckStep, CheckRead, CheckUnavailable, CheckLookup,
      ApplyToTerminal, CheckRespondFailure, CheckLost, Callback, ManualCheck

\* Types are preserved by every step.
LEMMA TypeStep ==
    ASSUME TypeOK, [Next]_vars,
           \A r \in Caller : RequestHolds(r),
           \A c \in Checker : CheckHolds(c)
    PROVE  TypeOK'
<1>1. TablesTypeOK' /\ ExecutorTypeOK'
  BY TablesAndExecutorType
<1>2. RunTypeOK'
  <2>1. UNCHANGED run => RunTypeOK'
    BY DEF TypeOK, RunTypeOK
  <2>2. Restart => RunTypeOK'
    BY IdleRequest DEF Restart, RunTypeOK
  <2> QED
    BY <2>1, <2>2, RunStepType DEF Next, vars, LifecycleCommand, ExecutorProgress
<1>3. CheckTypeOK'
  <2>1. UNCHANGED check => CheckTypeOK'
    BY DEF TypeOK, CheckTypeOK
  <2>2. Restart => CheckTypeOK'
    BY DEF Restart, CheckTypeOK, NoCheck, CheckRequest, CheckPhase, AttemptStatus
  <2> QED
    BY <2>1, <2>2, CheckStepType DEF Next, vars, LifecycleCommand, ExecutorProgress
<1> QED
  BY <1>1, <1>2, <1>3 DEF TypeOK

----------------------------------------------------------------------------
(* What a step may write to the tables *)

Inserts(j, n) ==
    /\ ~ HasActive(j) /\ NextNumber(j, n) /\ job[j] \in {"PENDING", "FAILED"}
    /\ Writes(j, n, "PREPARED")
    /\ dataset \in {"DRAFT", "BUILDING"} /\ dataset' = "BUILDING" /\ frozen' = TRUE
    /\ UNCHANGED job

Marks(j, n) ==
    /\ attempt[j][n] \in {"PREPARED", "DISPATCHING"}
    /\ Writes(j, n, "DISPATCHING")
    /\ UNCHANGED <<dataset, frozen, job>>

Accepts(j, n) ==
    /\ attempt[j][n] \in {"DISPATCHING", "ACCEPTED"}
    /\ execution[j][n] # "NONE"
    /\ Writes(j, n, "ACCEPTED")
    /\ job' = [job EXCEPT ![j] = "RUNNING"]
    /\ UNCHANGED <<dataset, frozen>>

Fails(j, n) ==
    /\ attempt[j][n] \in {"DISPATCHING", "DISPATCH_FAILED"}
    /\ n \in rejected[j]
    /\ Writes(j, n, "DISPATCH_FAILED")
    /\ UNCHANGED <<dataset, frozen, job>>

Settles(j, n, result) ==
    /\ attempt[j][n] \in {"DISPATCHING", "ACCEPTED"}
    /\ execution[j][n] \in Terminal
    /\ \E c \in Checker : /\ check[c].pc = "apply" /\ check[c].result = result
                         /\ check[c].job = j /\ check[c].num = n
    /\ Writes(j, n, result)
    /\ job' = [job EXCEPT ![j] = result]
    /\ UNCHANGED <<dataset, frozen>>

Commands == (SubmitValidation \/ Publish \/ Reject \/ Abandon) /\ UNCHANGED executorVars

\* A preparation transaction, first or retry, inserts exactly one attempt,
\* the next number of its job, and writes nothing else of the tables.
LEMMA PrepareWrites ==
    ASSUME Consistent, NEW r \in Caller, NEW n \in Number,
           PrepareAttempt(r, n) \/ RetryAttempt(r, n)
    PROVE  /\ run[r].job \in Job
           /\ UNCHANGED tableVars \/ Inserts(run[r].job, n)
           /\ attempt'[run[r].job][n] # "ABSENT"
           /\ DispatchWith(r, n) /\ UNCHANGED executorVars
<1> DEFINE j == run[r].job
<1>1. j \in Job /\ attempt \in [Job -> [Number -> AttemptStatus]]
  BY DEF Consistent, RequestHolds, TypeOK, TablesTypeOK, PrepareAttempt, RetryAttempt
<1>2. CASE attempt[j][n] \in {"PREPARED", "DISPATCHING"} /\ UNCHANGED attempt
  <2>1. HasActive(j)
    BY <1>2 DEF HasActive, Active
  <2>2. dataset = "BUILDING" /\ frozen = TRUE
    BY <1>1, <2>1 DEF Consistent, TablesConsistent, VersionTells, TypeOK, TablesTypeOK
  <2> QED
    BY <1>1, <1>2, <2>2 DEF PrepareAttempt, RetryAttempt, tableVars
<1>3. CASE ~ HasActive(j) /\ NextNumber(j, n) /\ InsertPrepared(j, n)
  <2>1. frozen \in BOOLEAN
    BY DEF Consistent, TypeOK, TablesTypeOK
  <2>2. attempt'[j][n] = "PREPARED"
    BY <1>1, <1>3 DEF InsertPrepared
  <2>3. Inserts(j, n)
    BY <1>3, <2>1 DEF PrepareAttempt, RetryAttempt, Preparable, Inserts, Writes, InsertPrepared
  <2> QED
    BY <1>1, <2>2, <2>3 DEF PrepareAttempt, RetryAttempt
<1> QED
  BY <1>2, <1>3 DEF PrepareAttempt, RetryAttempt

\* Every step writes one attempt in one of five ways, or decides the version.
LEMMA TableWrites ==
    ASSUME Consistent, [Next]_vars
    PROVE  \/ UNCHANGED tableVars
           \/ Commands
           \/ \E j \in Job, n \in Number :
                 /\ Inserts(j, n) \/ Marks(j, n) \/ Accepts(j, n) \/ Fails(j, n)
                       \/ \E s \in Terminal : Settles(j, n, s)
                 /\ UNCHANGED <<execution, rejected>>
<1>1. ASSUME NEW r \in Caller, RunPrepare(r)
      PROVE  \/ UNCHANGED tableVars
             \/ \E j \in Job, n \in Number : Inserts(j, n) /\ UNCHANGED <<execution, rejected>>
  BY <1>1, PrepareWrites
  DEF RunPrepare, PrepareReadContext, PrepareInputsMissing, PrepareNotRunnable, RetryRaced,
      AttemptsExhausted, executorVars
<1>2. ASSUME NEW r \in Caller, RunBegin(r)
      PROVE  \/ UNCHANGED tableVars
             \/ \E j \in Job, n \in Number : Marks(j, n) /\ UNCHANGED <<execution, rejected>>
  <2>1. CASE BeginDispatch(r)
    <3>1. run[r].job \in Job /\ run[r].num \in Number
      BY <2>1 DEF BeginDispatch, Beginning, Consistent, RequestHolds
    <3>2. Marks(run[r].job, run[r].num) /\ UNCHANGED <<execution, rejected>>
      BY <2>1 DEF BeginDispatch, Marks, Writes, executorVars
    <3> QED
      BY <3>1, <3>2
  <2> QED
    BY <1>2, <2>1 DEF RunBegin, BeginReadDataset, BeginOutsideBuilding, BeginRaced, BeginAlreadyAccepted
<1>3. ASSUME NEW r \in Caller, RunRecord(r)
      PROVE  \/ UNCHANGED tableVars
             \/ \E j \in Job, n \in Number :
                   (Accepts(j, n) \/ Fails(j, n)) /\ UNCHANGED <<execution, rejected>>
  <2>1. /\ run[r].job \in Job /\ run[r].num \in Number
        /\ run[r].answer = "REJECTED" => run[r].num \in rejected[run[r].job]
        /\ run[r].answer \in {"ACCEPTED", "ALREADY_EXISTS"} => execution[run[r].job][run[r].num] # "NONE"
        /\ UNCHANGED <<execution, rejected>>
    BY <1>3 DEF RunRecord, RecordLate, RecordOutsideBuilding, RecordAlreadyAccepted, RecordAccepted,
        RecordRejected, RecordUnknown, Recording, Consistent, RequestHolds
  <2>2. CASE RecordAccepted(r)
    BY <2>1, <2>2 DEF RecordAccepted, Accepts, Writes
  <2>3. CASE RecordRejected(r)
    BY <2>1, <2>3 DEF RecordRejected, Fails, Writes, tableVars
  <2> QED
    BY <1>3, <2>2, <2>3 DEF RunRecord, RecordLate, RecordOutsideBuilding, RecordAlreadyAccepted,
        RecordUnknown
<1>4. ASSUME NEW c \in Checker, CheckStep(c)
      PROVE  \/ UNCHANGED tableVars
             \/ \E j \in Job, n \in Number :
                   /\ Accepts(j, n) \/ \E s \in Terminal : Settles(j, n, s)
                   /\ UNCHANGED <<execution, rejected>>
  <2>1. CASE ApplyRunning(c) \/ ApplyResult(c)
    <3>1. /\ check[c].job \in Job /\ check[c].num \in Number
          /\ execution[check[c].job][check[c].num] # "NONE"
          /\ check[c].result \in Terminal => execution[check[c].job][check[c].num] \in Terminal
      BY <2>1 DEF ApplyRunning, ApplyResult, Applicable, Consistent, CheckHolds
    <3>2. CASE ApplyRunning(c)
      BY <3>1, <3>2 DEF ApplyRunning, Applicable, Accepts, Writes, executorVars
    <3>3. CASE ApplyResult(c)
      BY <3>1, <3>3 DEF ApplyResult, Applicable, Settles, Writes, executorVars
    <3> QED
      BY <2>1, <3>2, <3>3
  <2> QED
    BY <1>4, <2>1 DEF CheckStep, CheckRead, CheckUnavailable, CheckLookup, ApplyToTerminal,
        CheckRespondFailure, CheckLost
<1> QED
  BY <1>1, <1>2, <1>3, <1>4
  DEF Next, vars, RunStep, RunRoute, RouteNotRunnable, RoutePrepare, RouteRetry, RouteReuse,
      Dispatch, RespondFailure, RequestLost, RunRequest, Callback, ManualCheck, LifecycleCommand, Commands,
      ExecutorProgress, SetExecutionState, Restart

----------------------------------------------------------------------------
(* The invariants of the tables *)

\* The kinds of write, as one: attempt n of job j gets a status.
LEMMA Written ==
    ASSUME TypeOK, NEW j \in Job, NEW n \in Number, NEW status, Writes(j, n, status)
    PROVE  \A k \in Job, m \in Number :
              attempt'[k][m] = IF k = j /\ m = n THEN status ELSE attempt[k][m]
BY RowWritten DEF TypeOK

\* An open attempt belongs to a job without a standing result.
LEMMA OpenAttempt ==
    ASSUME Consistent, NEW j \in Job, NEW n \in Number, attempt[j][n] \in Active
    PROVE  /\ dataset = "BUILDING" /\ frozen
           /\ job[j] # "SUCCEEDED"
           /\ attempt[j][n] = "ACCEPTED" <=> job[j] = "RUNNING"
           /\ \A m \in Number : attempt[j][m] \in Active \cup {"SUCCEEDED"} => m = n
BY OpenRow DEF Consistent

\* Every step is, at the rows alone, a step that the rows allow as they are
\* then, or leaves them as they are.
LEMMA RowsStep ==
    ASSUME Consistent, [Next]_vars
    PROVE  [TableStep]_tableVars
<1> USE DEF tableVars
<1>1. CASE Commands
  BY <1>1 DEF Commands, TableStep
<1>2. ASSUME NEW j \in Job, NEW n \in Number, Inserts(j, n)
      PROVE  TableStep
  <2>1. CreateAttempt(j, n)
    BY <1>2 DEF Inserts, Writes, CreateAttempt, Dispatchable, InsertPrepared,
                Consistent, TablesConsistent, VersionTells
  <2> QED
    BY <2>1 DEF TableStep
<1>3. ASSUME NEW j \in Job, NEW n \in Number, NEW status,
             Writes(j, n, status), attempt[j][n] = status
      PROVE  UNCHANGED attempt
  BY <1>3 DEF Writes, Consistent, TypeOK, TablesTypeOK
<1>4. ASSUME NEW j \in Job, NEW n \in Number, attempt[j][n] \in Active
      PROVE  /\ dataset = "BUILDING" /\ ~ HasNewer(j, n)
             /\ attempt[j][n] # "ACCEPTED" => Dispatchable(j)
             /\ attempt[j][n] = "ACCEPTED" => job[j] = "RUNNING"
  <2>1. job[j] \in JobStatus
    BY DEF Consistent, TypeOK, TablesTypeOK
  <2>2. ~ HasNewer(j, n)
    BY <1>4 DEF Consistent, TablesConsistent, OnlyNewestOpen
  <2> QED
    BY <1>4, <2>1, <2>2, OpenAttempt DEF Dispatchable, JobStatus
<1>5. ASSUME NEW j \in Job, NEW n \in Number, Marks(j, n) \/ Fails(j, n)
      PROVE  [TableStep]_tableVars
  <2>1. CASE attempt[j][n] = "DISPATCHING" /\ Fails(j, n)
    <3>1. FailDispatch(j, n)
      BY <1>4, <2>1 DEF Fails, Writes, FailDispatch, MoveAttempt, Active
    <3> QED
      BY <3>1 DEF TableStep
  <2>2. CASE attempt[j][n] = "PREPARED" /\ Marks(j, n)
    <3>1. StartDispatch(j, n)
      BY <1>4, <2>2 DEF Marks, Writes, StartDispatch, MoveAttempt, Active
    <3> QED
      BY <3>1 DEF TableStep
  <2>3. CASE attempt[j][n] = "DISPATCHING" /\ Marks(j, n)
    BY <1>3, <2>3 DEF Marks
  <2>4. CASE attempt[j][n] = "DISPATCH_FAILED" /\ Fails(j, n)
    BY <1>3, <2>4 DEF Fails
  <2> QED
    BY <1>5, <2>1, <2>2, <2>3, <2>4 DEF Marks, Fails
<1>6. ASSUME NEW j \in Job, NEW n \in Number, Accepts(j, n)
      PROVE  [TableStep]_tableVars
  <2>1. CASE attempt[j][n] = "DISPATCHING"
    <3>1. MoveBoth(j, n, "RUNNING")
      BY <1>4, <1>6, <2>1 DEF Accepts, Writes, MoveBoth, Active
    <3> QED
      BY <3>1 DEF TableStep
  <2>2. CASE attempt[j][n] = "ACCEPTED"
    <3>1. UNCHANGED attempt
      BY <1>3, <1>6, <2>2 DEF Accepts
    <3>2. UNCHANGED job
      BY <1>4, <1>6, <2>2 DEF Accepts, Active, Consistent, TypeOK, TablesTypeOK
    <3> QED
      BY <1>6, <3>1, <3>2 DEF Accepts
  <2> QED
    BY <1>6, <2>1, <2>2 DEF Accepts
<1>7. ASSUME NEW j \in Job, NEW n \in Number, NEW s \in Terminal, Settles(j, n, s)
      PROVE  TableStep
  <2>1. attempt[j][n] \in {"DISPATCHING", "ACCEPTED"} /\ s # "RUNNING"
    BY <1>7 DEF Settles, Terminal
  <2>2. attempt' = [attempt EXCEPT ![j][n] = IF s = "RUNNING" THEN "ACCEPTED" ELSE s]
    BY <1>7, <2>1 DEF Settles, Writes
  <2>3. MoveBoth(j, n, s)
    BY <1>4, <1>7, <2>1, <2>2 DEF Settles, MoveBoth, Active
  <2> QED
    BY <2>3 DEF TableStep
<1> QED
  BY <1>1, <1>2, <1>5, <1>6, <1>7, TableWrites

----------------------------------------------------------------------------
(* The invariant of the executor *)

\* What a step does to the executor, seen from one identity.
LEMMA ExecutorWrites ==
    ASSUME Consistent, [Next]_vars
    PROVE  \/ UNCHANGED <<execution, rejected, pending>>
           \/ \E r \in Caller : /\ RunRecord(r) \/ RequestLost(r)
                              /\ FinishCall(r) /\ UNCHANGED <<execution, rejected>>
           \/ \E r \in Caller : Dispatch(r)
           \/ /\ \E j \in Job, n \in Number, s \in Terminal : SetExecutionState(j, n, s)
              /\ UNCHANGED tableVars
           \/ Restart
<1>1. ASSUME NEW r \in Caller, RunPrepare(r) \/ RunBegin(r)
      PROVE  UNCHANGED executorVars
  BY <1>1
  DEF RunPrepare, PrepareReadContext, PrepareInputsMissing, PrepareNotRunnable, RetryRaced,
      AttemptsExhausted, PrepareAttempt, RetryAttempt, RunBegin, BeginReadDataset,
      BeginOutsideBuilding, BeginRaced, BeginAlreadyAccepted, BeginDispatch
<1>2. ASSUME NEW r \in Caller, RunRecord(r) \/ RequestLost(r)
      PROVE  FinishCall(r) /\ UNCHANGED <<execution, rejected>>
  BY <1>2 DEF RunRecord, RecordLate, RecordOutsideBuilding, RecordAlreadyAccepted,
      RecordAccepted, RecordRejected, RecordUnknown, Recording, RequestLost
<1>3. ASSUME NEW c \in Checker, CheckStep(c)
      PROVE  UNCHANGED executorVars
  BY <1>3 DEF CheckStep, CheckRead, CheckUnavailable, CheckLookup, ApplyToTerminal,
      ApplyRunning, ApplyResult, CheckRespondFailure, CheckLost
<1> QED
  BY <1>1, <1>2, <1>3
  DEF Next, vars, executorVars, RunStep, RunRoute, RouteNotRunnable, RoutePrepare, RouteRetry,
      RouteReuse, RespondFailure, RunRequest, Callback, ManualCheck, LifecycleCommand,
      ExecutorProgress

\* What Dispatch decides, at the one identity it is about.
LEMMA DispatchWrites ==
    ASSUME Consistent, NEW r \in Caller, Dispatch(r)
    PROVE  LET j == run[r].job  n == run[r].num IN
           /\ j \in Job /\ n \in Number /\ UNCHANGED tableVars
           /\ \/ UNCHANGED <<execution, rejected, pending>>
              \/ /\ attempt[j][n] = "DISPATCHING"
                 /\ execution[j][n] = "NONE" /\ n \notin rejected[j]
                 /\ \/ /\ rejected' = [rejected EXCEPT ![j] = @ \cup {n}] /\ pending[j][n] = {}
                       /\ UNCHANGED <<execution, pending>>
                    \/ /\ pending' = [pending EXCEPT ![j][n] = @ \cup {r}]
                       /\ UNCHANGED <<execution, rejected>>
                    \/ /\ \E s \in ExecutionState : execution' = [execution EXCEPT ![j][n] = s]
                       /\ UNCHANGED <<rejected, pending>>
<1> DEFINE j == run[r].job  n == run[r].num
<1>1. j \in Job /\ n \in Number /\ UNCHANGED tableVars /\ run[r].pc = "dispatch"
  BY DEF Dispatch, Consistent, RequestHolds
<1>2. Unseen(j, n) => attempt[j][n] = "DISPATCHING"
  <2>1. attempt[j][n] \in AttemptStatus
    BY <1>1 DEF Consistent, TypeOK, TablesTypeOK
  <2>2. RequestHolds(r)
    BY DEF Consistent
  <2> QED
    BY <1>1, <2>1, <2>2 DEF Unseen, RequestHolds, AttemptStatus, Active, Closed, Terminal
<1>3. PICK answer \in Answer : Decide(r, j, n, answer)
  BY DEF Dispatch
<1> QED
  BY <1>1, <1>2, <1>3
  DEF Decide, AnswerDecided, DecideReject, DecideUnknown, DecideCreate, Unbound, Unseen,
      executorVars, ExecutionState

\* Every step keeps the executor's memory and the attempt table in line.
LEMMA ExecutorTellsStep ==
    ASSUME Consistent, [Next]_vars, TypeOK'
    PROVE  ExecutorTells'
<1> USE DEF ExecutorTells
<1>1. CASE UNCHANGED <<execution, rejected, attempt>> /\
           \A j \in Job, n \in Number : pending'[j][n] \subseteq pending[j][n]
  BY <1>1 DEF Consistent
<1>2. CASE \E r \in Caller : Dispatch(r)
  <2>1. PICK r \in Caller : Dispatch(r)
    BY <1>2
  <2> DEFINE j == run[r].job  n == run[r].num
  <2>2. j \in Job /\ n \in Number /\ UNCHANGED attempt
    BY <2>1, DispatchWrites DEF tableVars
  <2>3. CASE UNCHANGED <<execution, rejected, pending>>
    BY <2>2, <2>3 DEF Consistent
  <2>4. CASE /\ attempt[j][n] = "DISPATCHING"
             /\ execution[j][n] = "NONE" /\ pending[j][n] = {}
             /\ rejected' = [rejected EXCEPT ![j] = @ \cup {n}]
             /\ UNCHANGED <<execution, pending>>
    <3>1. \A k \in Job : rejected'[k] = IF k = j THEN rejected[k] \cup {n} ELSE rejected[k]
      BY <2>2, <2>4 DEF Consistent, TypeOK, ExecutorTypeOK
    <3> QED
      BY <2>2, <2>4, <3>1 DEF Consistent, Terminal
  <2>5. CASE /\ n \notin rejected[j]
             /\ pending' = [pending EXCEPT ![j][n] = @ \cup {r}]
             /\ UNCHANGED <<execution, rejected>>
    <3>1. \A k \in Job, m \in Number :
             k # j \/ m # n => pending'[k][m] = pending[k][m]
      BY <2>2, <2>5 DEF Consistent, TypeOK, ExecutorTypeOK
    <3> QED
      BY <2>2, <2>5, <3>1 DEF Consistent
  <2>6. CASE /\ attempt[j][n] = "DISPATCHING" /\ n \notin rejected[j]
             /\ \E s \in ExecutionState : execution' = [execution EXCEPT ![j][n] = s]
             /\ UNCHANGED <<rejected, pending>>
    <3>1. \A k \in Job, m \in Number :
             k # j \/ m # n => execution'[k][m] = execution[k][m]
      BY <2>2, <2>6 DEF Consistent, TypeOK, ExecutorTypeOK
    <3> QED
      BY <2>2, <2>6, <3>1 DEF Consistent, Terminal
  <2> QED
    BY <2>1, <2>3, <2>4, <2>5, <2>6, DispatchWrites
<1>3. CASE /\ \E j \in Job, n \in Number, s \in Terminal : SetExecutionState(j, n, s)
           /\ UNCHANGED tableVars
  <2>1. PICK j \in Job, n \in Number, s \in Terminal : SetExecutionState(j, n, s)
    BY <1>3
  <2>2. \A k \in Job, m \in Number :
           execution'[k][m] = IF k = j /\ m = n THEN s ELSE execution[k][m]
    BY <2>1 DEF SetExecutionState, Consistent, TypeOK, ExecutorTypeOK
  <2> QED
    BY <1>3, <2>1, <2>2 DEF SetExecutionState, tableVars, Consistent, Terminal
<1>4. CASE Restart
  BY <1>4 DEF Restart, ForgetExecutions, tableVars, Consistent
<1>5. ASSUME UNCHANGED <<execution, rejected>>,
             \A j \in Job, n \in Number : pending'[j][n] \subseteq pending[j][n]
      PROVE  ExecutorTells'
  <2>1. ASSUME NEW j \in Job, NEW n \in Number, NEW status,
               Writes(j, n, status),
               execution[j][n] # "NONE" =>
                  status \in {"DISPATCHING", "ACCEPTED", "SUCCEEDED", "FAILED"},
               n \in rejected[j] => status \in {"DISPATCHING", "DISPATCH_FAILED"},
               status \in Terminal => execution[j][n] # "RUNNING"
        PROVE  ExecutorTells'
    <3>1. \A k \in Job, m \in Number :
              attempt'[k][m] = IF k = j /\ m = n THEN status ELSE attempt[k][m]
      BY <2>1, Written DEF Consistent
    <3> QED
      BY <1>5, <2>1, <3>1 DEF Consistent
  <2>2. ASSUME NEW j \in Job, NEW n \in Number, Inserts(j, n)  PROVE ExecutorTells'
    <3>1. attempt[j][n] = "ABSENT"
      BY <2>2 DEF Inserts, NextNumber, Number
    <3> QED
      BY <2>1, <2>2, <3>1 DEF Inserts, Consistent, Terminal
  <2>3. ASSUME NEW j \in Job, NEW n \in Number, Marks(j, n)  PROVE ExecutorTells'
    BY <2>1, <2>3 DEF Marks, Terminal
  <2>4. ASSUME NEW j \in Job, NEW n \in Number, Fails(j, n)  PROVE ExecutorTells'
    BY <2>1, <2>4 DEF Fails, Terminal, Consistent
  <2>5. ASSUME NEW j \in Job, NEW n \in Number, NEW s \in Terminal, Settles(j, n, s)
        PROVE  ExecutorTells'
    BY <2>1, <2>5 DEF Settles, Terminal, Consistent
  <2>6. ASSUME NEW j \in Job, NEW n \in Number, Accepts(j, n)  PROVE ExecutorTells'
    BY <2>1, <2>6 DEF Accepts, Terminal, Consistent
  <2> QED
    BY <1>1, <1>5, <2>2, <2>3, <2>4, <2>5, <2>6, TableWrites
    DEF tableVars, Commands, SubmitValidation, Publish, Reject, Abandon
<1>6. \A r \in Caller : FinishCall(r) =>
          \A j \in Job, n \in Number : pending'[j][n] \subseteq pending[j][n]
  BY DEF FinishCall, Consistent, TypeOK, ExecutorTypeOK
<1> QED
  BY <1>2, <1>3, <1>4, <1>5, <1>6, ExecutorWrites

----------------------------------------------------------------------------
(* The invariants of requests and reconciliations *)

\* What no step of anyone can take away from a request that is between its
\* transactions.
LEMMA Stable ==
    ASSUME Consistent, [Next]_vars, ~ Restart, NEW j \in Job, NEW n \in Number
    PROVE  /\ attempt[j][n] # "ABSENT" => attempt'[j][n] # "ABSENT"
           /\ attempt[j][n] \notin {"ABSENT", "PREPARED"} => attempt'[j][n] # "PREPARED"
           /\ attempt'[j][n] = "DISPATCH_FAILED" =>
                 attempt[j][n] = "DISPATCH_FAILED" \/ n \in rejected[j]
           /\ attempt'[j][n] \in {"ACCEPTED", "SUCCEEDED", "FAILED"} =>
                 \/ attempt[j][n] \in {"ACCEPTED", "SUCCEEDED", "FAILED"}
                 \/ execution[j][n] # "NONE"
           /\ n \in rejected[j] => n \in rejected'[j]
           /\ execution[j][n] # "NONE" => execution'[j][n] # "NONE"
           /\ execution[j][n] \in Terminal => execution'[j][n] \in Terminal
<1> DEFINE Kept == /\ attempt[j][n] # "ABSENT" => attempt'[j][n] # "ABSENT"
                   /\ attempt[j][n] \notin {"ABSENT", "PREPARED"} => attempt'[j][n] # "PREPARED"
                   /\ attempt'[j][n] = "DISPATCH_FAILED" =>
                         attempt[j][n] = "DISPATCH_FAILED" \/ n \in rejected[j]
                   /\ attempt'[j][n] \in {"ACCEPTED", "SUCCEEDED", "FAILED"} =>
                         \/ attempt[j][n] \in {"ACCEPTED", "SUCCEEDED", "FAILED"}
                         \/ execution[j][n] # "NONE"
<1>1. Kept
  <2>1. ASSUME NEW k \in Job, NEW m \in Number, NEW status, Writes(k, m, status),
               k = j /\ m = n =>
                  /\ attempt[j][n] # "ABSENT" => status # "ABSENT"
                  /\ attempt[j][n] \notin {"ABSENT", "PREPARED"} => status # "PREPARED"
                  /\ status = "DISPATCH_FAILED" => n \in rejected[j]
                  /\ status \in {"ACCEPTED", "SUCCEEDED", "FAILED"} => execution[j][n] # "NONE"
        PROVE  Kept
    <3>1. attempt'[j][n] = IF k = j /\ m = n THEN status ELSE attempt[j][n]
      BY <2>1, Written DEF Consistent
    <3> QED
      BY <2>1, <3>1
  <2>2. ASSUME NEW k \in Job, NEW m \in Number, Inserts(k, m)  PROVE Kept
    <3>1. attempt[k][m] = "ABSENT"
      BY <2>2 DEF Inserts, NextNumber, Number
    <3> QED
      BY <2>1, <2>2, <3>1 DEF Inserts
  <2>3. ASSUME NEW k \in Job, NEW m \in Number, Marks(k, m) \/ Accepts(k, m) \/ Fails(k, m)
        PROVE  Kept
    BY <2>1, <2>3 DEF Marks, Accepts, Fails
  <2>4. ASSUME NEW k \in Job, NEW m \in Number, NEW s \in Terminal, Settles(k, m, s)
        PROVE  Kept
    BY <2>1, <2>4 DEF Settles, Terminal
  <2>5. UNCHANGED attempt => Kept
    OBVIOUS
  <2> HIDE DEF Kept
  <2> QED
    BY <2>2, <2>3, <2>4, <2>5, TableWrites
    DEF tableVars, Commands, SubmitValidation, Publish, Reject, Abandon
<1>2. /\ n \in rejected[j] => n \in rejected'[j]
      /\ execution[j][n] # "NONE" => execution'[j][n] # "NONE"
      /\ execution[j][n] \in Terminal => execution'[j][n] \in Terminal
  <2>1. CASE UNCHANGED <<execution, rejected>>
    BY <2>1
  <2>2. ASSUME NEW r \in Caller, Dispatch(r)
        PROVE  /\ n \in rejected[j] => n \in rejected'[j]
               /\ execution[j][n] # "NONE" => execution'[j][n] = execution[j][n]
    <3> DEFINE k == run[r].job  m == run[r].num
    <3>1. \/ UNCHANGED <<execution, rejected>>
          \/ rejected' = [rejected EXCEPT ![k] = @ \cup {m}] /\ UNCHANGED execution
          \/ /\ execution[k][m] = "NONE" /\ UNCHANGED rejected
             /\ \E s \in ExecutionState : execution' = [execution EXCEPT ![k][m] = s]
      BY <2>2, DispatchWrites
    <3>2. CASE rejected' = [rejected EXCEPT ![k] = @ \cup {m}] /\ UNCHANGED execution
      BY <3>2 DEF Consistent, TypeOK, ExecutorTypeOK
    <3>3. CASE /\ execution[k][m] = "NONE" /\ UNCHANGED rejected
               /\ \E s \in ExecutionState : execution' = [execution EXCEPT ![k][m] = s]
      BY <3>3 DEF Consistent, TypeOK, ExecutorTypeOK
    <3> QED
      BY <3>1, <3>2, <3>3
  <2>3. ASSUME NEW k \in Job, NEW m \in Number, NEW s \in Terminal, SetExecutionState(k, m, s)
        PROVE  /\ UNCHANGED rejected
               /\ execution'[j][n] = execution[j][n] \/ execution'[j][n] \in Terminal
    BY <2>3 DEF SetExecutionState, Consistent, TypeOK, ExecutorTypeOK
  <2> QED
    BY <2>1, <2>2, <2>3, ExecutorWrites DEF Terminal
<1> QED
  BY <1>1, <1>2

\* Only a request itself ends its hold on an identity.
LEMMA PendingKept ==
    ASSUME Consistent, [Next]_vars, ~ Restart, NEW j \in Job, NEW n \in Number,
           NEW r \in Caller, r \in pending[j][n], ~ RunStep(r)
    PROVE  r \in pending'[j][n]
<1>1. ASSUME NEW q \in Caller, q # r, FinishCall(q)  PROVE r \in pending'[j][n]
  BY <1>1 DEF FinishCall
<1>2. ASSUME NEW q \in Caller, Dispatch(q)  PROVE r \in pending'[j][n]
  <2>1. \/ UNCHANGED pending
        \/ pending' = [pending EXCEPT ![run[q].job][run[q].num] = @ \cup {q}]
    BY <1>2, DispatchWrites
  <2> QED
    BY <2>1 DEF Consistent, TypeOK, ExecutorTypeOK
<1>3. \A q \in Caller : RunRecord(q) \/ RequestLost(q) => RunStep(q)
  BY DEF RunStep
<1> QED
  BY <1>1, <1>2, <1>3, ExecutorWrites DEF SetExecutionState

\* A request that does not move keeps what it holds.
LEMMA OthersHold ==
    ASSUME Consistent, [Next]_vars, ~ Restart, NEW r \in Caller, ~ RunStep(r), UNCHANGED run[r]
    PROVE  RequestHolds(r)'
<1> DEFINE j == run[r].job  n == run[r].num
<1>1. CASE j \in Job /\ n \in Number
  <2>1. /\ attempt[j][n] # "ABSENT" => attempt'[j][n] # "ABSENT"
        /\ attempt[j][n] \notin {"ABSENT", "PREPARED"} => attempt'[j][n] # "PREPARED"
        /\ attempt'[j][n] = "DISPATCH_FAILED" =>
              attempt[j][n] = "DISPATCH_FAILED" \/ n \in rejected[j]
        /\ attempt'[j][n] \in {"ACCEPTED", "SUCCEEDED", "FAILED"} =>
              \/ attempt[j][n] \in {"ACCEPTED", "SUCCEEDED", "FAILED"}
              \/ execution[j][n] # "NONE"
        /\ n \in rejected[j] => n \in rejected'[j]
        /\ execution[j][n] # "NONE" => execution'[j][n] # "NONE"
    BY <1>1, Stable
  <2>2. r \in pending[j][n] => r \in pending'[j][n]
    BY <1>1, PendingKept
  <2>3. RequestHolds(r)
    BY DEF Consistent
  <2> QED
    BY <2>1, <2>2, <2>3 DEF RequestHolds
<1>2. CASE ~ (j \in Job /\ n \in Number)
  BY <1>2 DEF Consistent, RequestHolds
<1> QED
  BY <1>1, <1>2

\* A request that answers, routes again or starts has nothing to hold yet.
LEMMA IdleHolds ==
    ASSUME Consistent, NEW r \in Caller,
           \/ Respond(r)
           \/ run[r].job \in Job /\ Reroute(r)
           \/ \E j \in Job, t \in Nat : run' = [run EXCEPT ![r] = Routing(j, t)]
    PROVE  RequestHolds(r)'
<1>1. r \in DOMAIN run /\ run[r].tries \in Nat
  BY RoutingAssumption DEF Consistent, TypeOK, RunTypeOK, Request
<1>2. run'[r] = Idle \/ \E j \in Job, t \in Nat : run'[r] = Routing(j, t)
  BY <1>1 DEF Respond, Reroute
<1>3. ASSUME NEW j \in Job, NEW t \in Nat
      PROVE  Routing(j, t).pc = "route" /\ Routing(j, t).job = j
  BY DEF Routing, Idle
<1> QED
  BY <1>2, <1>3 DEF RequestHolds, Idle

\* A request that has failed needs nothing of the tables any more.
LEMMA FailedHolds ==
    ASSUME Consistent, NEW r \in Caller, NEW a, run[r].job \in Job, FailRun(r, a)
    PROVE  RequestHolds(r)'
<1>1. run'[r].pc = "failed" /\ run'[r].job = run[r].job
  BY DEF FailRun, Consistent, TypeOK, RunTypeOK, Request
<1> QED
  BY <1>1 DEF RequestHolds

\* The answer of the executor is true of it when it is given.
LEMMA AnswerTrue ==
    ASSUME ExecutorTypeOK, NEW r \in Caller, NEW j \in Job, NEW n \in Number,
           NEW answer \in Answer, Decide(r, j, n, answer)
    PROVE  /\ answer \in {"ACCEPTED", "ALREADY_EXISTS"} => execution'[j][n] # "NONE"
           /\ answer = "REJECTED" => n \in rejected'[j]
           /\ Simulated /\ answer = "UNKNOWN" => execution'[j][n] # "NONE" \/ r \in pending'[j][n]
           /\ n \in rejected[j] => n \in rejected'[j]
<1> USE DEF ExecutorTypeOK
<1>1. CASE AnswerDecided(j, n, answer)
  BY <1>1 DEF AnswerDecided, executorVars
<1>2. CASE Unbound(r, j, n, answer)
  <2>1. Simulated => pending' = [pending EXCEPT ![j][n] = @ \cup {r}]
    BY <1>2 DEF Unbound
  <2>2. Simulated => r \in pending'[j][n]
    BY <2>1
  <2> QED
    BY <1>2, <2>2 DEF Unbound
<1>3. CASE answer = "REJECTED" /\ rejected' = [rejected EXCEPT ![j] = @ \cup {n}]
  BY <1>3
<1>4. CASE DecideCreate(j, n, answer)
  <2>1. \E s \in ExecutionState : execution'[j][n] = s
    BY <1>4 DEF DecideCreate, ExecutionState
  <2> QED
    BY <1>4, <2>1 DEF DecideCreate, ExecutionState
<1> QED
  BY <1>1, <1>2, <1>3, <1>4 DEF Decide, DecideReject, DecideUnknown

\* A request that moves ends up holding what its new phase needs.
LEMMA MovedHolds ==
    ASSUME Consistent, [Next]_vars, NEW r \in Caller, ~ Restart,
           RunStep(r) \/ \E j \in Job : RunRequest(r, j)
    PROVE  RequestHolds(r)'
<1>1. RequestHolds(r) /\ run \in [Caller -> Request]
  BY DEF Consistent, TypeOK, RunTypeOK
<1>2. CASE \E j \in Job : RunRequest(r, j)
  BY <1>2, IdleHolds DEF RunRequest
<1>3. CASE RunRoute(r)
  <2>1. run[r].job \in Job
    BY <1>1, <1>3 DEF RunRoute, RouteNotRunnable, RoutePrepare, RouteRetry, RouteReuse, RequestHolds
  <2>2. CASE Reroute(r)
    BY <2>1, <2>2, IdleHolds
  <2>3. CASE RoutePrepare(r) \/ RouteRetry(r)
    <3>1. run'[r].pc \in {"prepare", "retry"} /\ run'[r].job = run[r].job
      BY <1>1, <2>3 DEF RoutePrepare, RouteRetry, Request
    <3> QED
      BY <2>1, <3>1 DEF RequestHolds
  <2>4. ASSUME NEW n \in Number, RouteReuse(r, n)  PROVE RequestHolds(r)'
    <3>1. run'[r].pc = "begin" /\ run'[r].job = run[r].job /\ run'[r].num = n
      BY <1>1, <2>4 DEF RouteReuse, DispatchWith, Request
    <3>2. attempt'[run[r].job][n] # "ABSENT"
      BY <2>4 DEF RouteReuse, Reusable, Active, tableVars
    <3> QED
      BY <2>1, <3>1, <3>2 DEF RequestHolds
  <2> QED
    BY <1>3, <2>2, <2>3, <2>4 DEF RunRoute, RouteNotRunnable
<1>4. CASE RunPrepare(r)
  <2>1. run[r].job \in Job
    BY <1>1, <1>4 DEF RunPrepare, PrepareReadContext, PrepareInputsMissing, PrepareNotRunnable,
        RetryRaced, AttemptsExhausted, PrepareAttempt, RetryAttempt, RequestHolds
  <2>2. CASE Reroute(r) \/ Respond(r)
    BY <2>1, <2>2, IdleHolds
  <2>3. CASE run' = [run EXCEPT ![r] = [@ EXCEPT !.pc = "prepareTx", !.seen = dataset]]
    <3>1. run'[r].pc = "prepareTx" /\ run'[r].job = run[r].job
      BY <1>1, <2>3 DEF Request
    <3> QED
      BY <2>1, <3>1 DEF RequestHolds
  <2>4. ASSUME NEW n \in Number, PrepareAttempt(r, n) \/ RetryAttempt(r, n)
        PROVE  RequestHolds(r)'
    <3>1. DispatchWith(r, n) /\ attempt'[run[r].job][n] # "ABSENT"
      BY <2>4, PrepareWrites
    <3>2. run'[r].pc = "begin" /\ run'[r].job = run[r].job /\ run'[r].num = n
      BY <1>1, <3>1 DEF DispatchWith, Request
    <3> QED
      BY <2>1, <3>1, <3>2 DEF RequestHolds
  <2> QED
    BY <1>4, <2>2, <2>3, <2>4 DEF RunPrepare, PrepareReadContext, PrepareInputsMissing,
        PrepareNotRunnable, RetryRaced, AttemptsExhausted
<1>5. CASE RunBegin(r)
  <2>1. run[r].job \in Job /\ run[r].num \in Number /\ attempt[run[r].job][run[r].num] # "ABSENT"
    BY <1>1, <1>5 DEF RunBegin, BeginReadDataset, BeginOutsideBuilding, BeginRaced,
        BeginAlreadyAccepted, BeginDispatch, Beginning, RequestHolds
  <2>2. CASE Reroute(r) \/ Respond(r) \/ BeginOutsideBuilding(r)
    BY <2>1, <2>2, IdleHolds, FailedHolds DEF BeginOutsideBuilding
  <2>3. CASE BeginReadDataset(r)
    <3>1. run'[r].pc = "beginTx" /\ run'[r].job = run[r].job /\ run'[r].num = run[r].num
      BY <1>1, <2>3 DEF BeginReadDataset, Request
    <3>2. UNCHANGED attempt
      BY <2>3 DEF BeginReadDataset, tableVars
    <3> QED
      BY <2>1, <3>1, <3>2 DEF RequestHolds
  <2>4. CASE BeginDispatch(r)
    <3>1. run'[r].pc = "dispatch" /\ run'[r].job = run[r].job /\ run'[r].num = run[r].num
      BY <1>1, <2>4 DEF BeginDispatch, Request
    <3>2. attempt'[run[r].job][run[r].num] = "DISPATCHING"
      BY <2>1, <2>4 DEF BeginDispatch, Consistent, TypeOK, TablesTypeOK
    <3> QED
      BY <2>1, <3>1, <3>2 DEF RequestHolds
  <2> QED
    BY <1>5, <2>2, <2>3, <2>4 DEF RunBegin, BeginRaced, BeginAlreadyAccepted
<1>6. CASE Dispatch(r)
  <2> DEFINE j == run[r].job  n == run[r].num
  <2>1. j \in Job /\ n \in Number /\ UNCHANGED attempt /\ run[r].pc = "dispatch"
    BY <1>1, <1>6 DEF Dispatch, RequestHolds, tableVars
  <2>2. PICK answer \in Answer : /\ Decide(r, j, n, answer)
                                /\ run' = [run EXCEPT ![r] = [@ EXCEPT !.pc = "record", !.answer = answer]]
    BY <1>6 DEF Dispatch
  <2>3. run'[r].pc = "record" /\ run'[r].job = j /\ run'[r].num = n /\ run'[r].answer = answer
    BY <1>1, <2>2 DEF Request
  <2>4. /\ answer \in {"ACCEPTED", "ALREADY_EXISTS"} => execution'[j][n] # "NONE"
        /\ answer = "REJECTED" => n \in rejected'[j]
        /\ Simulated /\ answer = "UNKNOWN" => execution'[j][n] # "NONE" \/ r \in pending'[j][n]
        /\ n \in rejected[j] => n \in rejected'[j]
    BY <2>1, <2>2, AnswerTrue DEF Consistent, TypeOK
  <2> QED
    BY <1>1, <2>1, <2>3, <2>4 DEF RequestHolds
<1>7. CASE RunRecord(r)
  <2>1. run[r].job \in Job
    BY <1>1, <1>7 DEF RunRecord, RecordLate, RecordOutsideBuilding, RecordAlreadyAccepted, RecordAccepted,
        RecordRejected, RecordUnknown, Recording, RequestHolds
  <2>2. Respond(r) \/ \E a \in RunAssertion : FailRun(r, a)
    BY <1>7 DEF RunRecord, RecordLate, RecordOutsideBuilding, RecordAlreadyAccepted, RecordAccepted,
        RecordRejected, RecordUnknown, RunAssertion
  <2> QED
    BY <2>1, <2>2, IdleHolds, FailedHolds
<1>8. CASE RespondFailure(r) \/ RequestLost(r)
  <2>1. run[r].job \in Job
    BY <1>1, <1>8 DEF RespondFailure, RequestLost, RequestHolds
  <2> QED
    BY <2>1, <1>8, IdleHolds DEF RespondFailure, RequestLost
<1> QED
  BY <1>2, <1>3, <1>4, <1>5, <1>6, <1>7, <1>8 DEF RunStep

\* A step of one request leaves every other request where it is.
LEMMA OtherRequests ==
    ASSUME RunTypeOK, NEW q \in Caller, NEW r \in Caller, q # r,
           RunStep(q) \/ \E j \in Job : RunRequest(q, j)
    PROVE  UNCHANGED run[r]
<1>1. \E x : run' = [run EXCEPT ![q] = x]
  BY DEF RunStep, RunRequest, RunRoute, RouteNotRunnable, RoutePrepare, RouteRetry, RouteReuse,
      RunPrepare, PrepareReadContext, PrepareInputsMissing, PrepareNotRunnable, RetryRaced,
      AttemptsExhausted, PrepareAttempt, RetryAttempt, RunBegin, BeginReadDataset,
      BeginOutsideBuilding, BeginRaced, BeginAlreadyAccepted, BeginDispatch, Dispatch,
      RunRecord, RecordLate, RecordOutsideBuilding, RecordAlreadyAccepted, RecordAccepted,
      RecordRejected, RecordUnknown, RespondFailure, RequestLost, Respond, Reroute, FailRun, DispatchWith
<1> QED
  BY <1>1 DEF RunTypeOK

\* No step, of whichever process, takes away what a request between two of
\* its transactions relies on.
LEMMA RequestsHoldStep ==
    ASSUME Consistent, [Next]_vars, NEW r \in Caller
    PROVE  RequestHolds(r)'
<1>1. CASE Restart
  BY <1>1 DEF Restart, RequestHolds, Idle
<1>2. CASE ~ Restart /\ (RunStep(r) \/ \E j \in Job : RunRequest(r, j))
  BY <1>2, MovedHolds
<1>3. CASE ~ Restart /\ ~ RunStep(r) /\ ~ \E j \in Job : RunRequest(r, j)
  <2>1. RunTypeOK
    BY DEF Consistent, TypeOK
  <2>2. UNCHANGED run[r]
    BY <1>3, <2>1, OtherRequests DEF Next, vars, LifecycleCommand, ExecutorProgress
  <2> QED
    BY <1>3, <2>2, OthersHold
<1> QED
  BY <1>1, <1>2, <1>3

\* No step takes away what a reconciliation between its transactions relies
\* on.
LEMMA OtherChecks ==
    ASSUME CheckTypeOK, NEW c \in Checker, NEW d \in Checker, d # c,
           \/ CheckStep(d)
           \/ \E j \in Job, n \in Number : Callback(d, j, n) \/ ManualCheck(d, j, n)
    PROVE  UNCHANGED check[c]
<1>1. \E x : check' = [check EXCEPT ![d] = x]
  BY DEF CheckStep, CheckRead, CheckUnavailable, CheckLookup, ApplyToTerminal,
      ApplyRunning, ApplyResult, CheckRespondFailure, CheckLost, Callback, ManualCheck, StartCheck,
      EndCheck, FailCheck
<1> QED
  BY <1>1 DEF CheckTypeOK

LEMMA ChecksHoldStep ==
    ASSUME Consistent, [Next]_vars, NEW c \in Checker
    PROVE  CheckHolds(c)'
<1>1. check \in [Checker -> CheckRequest] /\ CheckHolds(c)
  BY DEF Consistent, TypeOK, CheckTypeOK
<1>2. CASE Restart
  BY <1>2 DEF Restart, CheckHolds, NoCheck
<1>3. CASE ~ Restart /\ UNCHANGED check[c]
  <2> DEFINE j == check[c].job  n == check[c].num
  <2>1. CASE j \in Job /\ n \in Number
    <3>1. /\ attempt[j][n] # "ABSENT" => attempt'[j][n] # "ABSENT"
          /\ execution[j][n] # "NONE" => execution'[j][n] # "NONE"
          /\ execution[j][n] \in Terminal => execution'[j][n] \in Terminal
      BY <1>3, <2>1, Stable
    <3> QED
      BY <1>1, <1>3, <3>1 DEF CheckHolds
  <2>2. CASE ~ (j \in Job /\ n \in Number)
    BY <1>1, <1>3, <2>2 DEF CheckHolds
  <2> QED
    BY <2>1, <2>2
<1>4. ASSUME \/ CheckStep(c)
             \/ \E j \in Job, n \in Number : Callback(c, j, n) \/ ManualCheck(c, j, n)
      PROVE  CheckHolds(c)'
  <2>1. CASE EndCheck(c) \/ FailCheck(c)
    <3>1. check'[c].pc \in {"idle", "failed"}
      BY <1>1, <2>1 DEF EndCheck, FailCheck, NoCheck
    <3> QED
      BY <3>1 DEF CheckHolds
  <2>2. ASSUME NEW j \in Job, NEW n \in Number, Callback(c, j, n) \/ ManualCheck(c, j, n)
        PROVE  CheckHolds(c)'
    <3>1. check'[c].pc = "read" /\ check'[c].job = j /\ check'[c].num = n
      BY <1>1, <2>2 DEF Callback, ManualCheck, StartCheck, NoCheck
    <3>2. attempt'[j][n] # "ABSENT"
      BY <2>2 DEF Callback, ManualCheck, Latest, Terminal, tableVars
    <3> QED
      BY <3>1, <3>2 DEF CheckHolds
  <2>3. CASE CheckRead(c) /\ ~ EndCheck(c)
    <3>1. check'[c].pc = "lookup" /\ check'[c].job = check[c].job /\ check'[c].num = check[c].num
      BY <1>1, <2>3 DEF CheckRead, CheckRequest
    <3>2. check[c].pc = "read" /\ UNCHANGED attempt
      BY <2>3 DEF CheckRead, tableVars
    <3> QED
      BY <1>1, <3>1, <3>2 DEF CheckHolds
  <2>4. CASE CheckLookup(c)
    <3> DEFINE e == execution[check[c].job][check[c].num]
    <3>1. /\ check'[c].pc = "apply" /\ check'[c].job = check[c].job /\ check'[c].num = check[c].num
          /\ check'[c].result = e
      BY <1>1, <2>4 DEF CheckLookup, CheckRequest
    <3>2. check[c].pc = "lookup" /\ e # "NONE" /\ UNCHANGED <<attempt, execution>>
      BY <2>4 DEF CheckLookup, tableVars, executorVars
    <3> QED
      BY <1>1, <3>1, <3>2 DEF CheckHolds
  <2> QED
    BY <1>4, <2>1, <2>2, <2>3, <2>4 DEF CheckStep, CheckRead, CheckUnavailable, ApplyToTerminal,
        ApplyRunning, ApplyResult, CheckRespondFailure, CheckLost
<1>5. ASSUME NEW d \in Checker, d # c,
             \/ CheckStep(d)
             \/ \E j \in Job, n \in Number : Callback(d, j, n) \/ ManualCheck(d, j, n)
      PROVE  UNCHANGED check[c]
  BY <1>5, OtherChecks DEF Consistent, TypeOK
<1>6. Restart \/ UNCHANGED check \/ (\E d \in Checker :
            \/ CheckStep(d)
            \/ \E j \in Job, n \in Number : Callback(d, j, n) \/ ManualCheck(d, j, n))
  BY DEF Next, vars, LifecycleCommand, ExecutorProgress
<1> QED
  BY <1>2, <1>3, <1>4, <1>5, <1>6

----------------------------------------------------------------------------
(* The theorems *)

\* The empty version satisfies the inductive invariant.
LEMMA ConsistentInit == Init => Consistent
<1> SUFFICES ASSUME Init  PROVE Consistent
  OBVIOUS
<1> USE DEF Init, ExecutorInit, RunInit, CheckInit
<1>1. TablesConsistent
  BY TablesConsistentInit
<1>2. TypeOK
  <2>1. NoCheck \in CheckRequest
    BY DEF NoCheck, CheckRequest, CheckPhase, AttemptStatus
  <2>2. RunTypeOK /\ CheckTypeOK
    BY <2>1, IdleRequest DEF RunTypeOK, CheckTypeOK
  <2> QED
    BY <1>1, <2>2 DEF TypeOK, TablesConsistent, ExecutorTypeOK
<1>3. ExecutorTells
  BY DEF TablesInit, ExecutorTells, Terminal
<1>4. (\A r \in Caller : RequestHolds(r)) /\ (\A c \in Checker : CheckHolds(c))
  BY DEF RequestHolds, CheckHolds, Idle, NoCheck
<1> QED
  BY <1>1, <1>2, <1>3, <1>4 DEF Consistent

\* The inductive invariant is preserved by every step.
LEMMA ConsistentStep == Consistent /\ [Next]_vars => Consistent'
<1> SUFFICES ASSUME Consistent, [Next]_vars  PROVE Consistent'
  OBVIOUS
<1>1. TypeOK'
  BY TypeStep DEF Consistent
<1>2. TablesConsistent'
  BY RowsStep, TablesConsistentStep DEF Consistent
<1> QED
  BY <1>1, <1>2, ExecutorTellsStep, RequestsHoldStep, ChecksHoldStep DEF Consistent

\* Tables, executor, requests and reconciliations agree in every reachable
\* state, whatever interleaving, answer, fault or restart led there.
THEOREM Consistency == Spec => []Consistent
BY ConsistentInit, ConsistentStep, PTL DEF Spec

\* Rows, executor memory and requests hold the values their columns and
\* fields allow, the bounded routing counter among them.
THEOREM TypeCorrect == Spec => []TypeOK
BY Consistency, PTL DEF Consistent

\* An external run in progress belongs to the one open attempt of its job.
LEMMA RunningAttempt ==
    ASSUME Consistent, NEW j \in Job, NEW n \in Number, execution[j][n] = "RUNNING"
    PROVE  attempt[j][n] \in {"DISPATCHING", "ACCEPTED"}
BY DEF Consistent, ExecutorTells, Terminal

\* No job ever has two external runs in progress, and none that the tables no
\* longer watch.
THEOREM AtMostOneRun == Spec => []NoDuplicateRun
<1>1. Consistent => NoDuplicateRun
  <2> SUFFICES ASSUME Consistent, NEW j \in Job, NEW n \in Number, execution[j][n] = "RUNNING"
               PROVE  /\ attempt[j][n] \in {"DISPATCHING", "ACCEPTED"}
                      /\ \A m \in Number \ {n} : execution[j][m] # "RUNNING"
    BY DEF NoDuplicateRun
  <2> QED
    BY RunningAttempt, OpenAttempt DEF Active
<1> QED
  BY <1>1, Consistency, PTL

\* A dispatch recorded as failed has no run and never gets one.
THEOREM RejectionIsFinal == Spec => []RejectedNeverRuns
<1>1. Consistent => RejectedNeverRuns
  BY DEF Consistent, RejectedNeverRuns, ExecutorTells, RequestHolds
<1> QED
  BY <1>1, Consistency, PTL

\* Seen at the rows alone, the requests, reconciliations and commands take
\* the steps that the rows allow, each at once.
THEOREM StepsTheTables == Spec => TablesStepped
<1>1. Consistent /\ [Next]_vars => [TableStep]_tableVars
  BY RowsStep
<1>2. Init => TablesInit
  BY DEF Init
<1> QED
  BY <1>1, <1>2, Consistency, PTL DEF Spec, TablesStepped, TablesSpec

\* Job status and attempts tell the same story.
THEOREM TablesAgree == Spec => []JobTellsAttempts
<1>1. TablesConsistent => JobTellsAttempts
  BY DEF TablesConsistent
<1> QED
  BY <1>1, StepsTheTables, RowsStayConsistent, PTL DEF TablesStepped

\* Only the newest attempt of a job is open or has succeeded.
THEOREM NewestOnlyOpen == Spec => []OnlyNewestOpen
<1>1. TablesConsistent => OnlyNewestOpen
  BY DEF TablesConsistent
<1> QED
  BY <1>1, StepsTheTables, RowsStayConsistent, PTL DEF TablesStepped

\* A version that left BUILDING has no open attempt and no run in progress.
THEOREM DecisionIsQuiet == Spec => []DecidedVersionIsQuiet
<1>1. Consistent => DecidedVersionIsQuiet
  <2> SUFFICES ASSUME Consistent, dataset \in {"VALIDATING", "PUBLISHED", "REJECTED", "ABANDONED"}
               PROVE  /\ \A j \in Job : ~ HasActive(j)
                      /\ \A j \in Job, n \in Number : execution[j][n] # "RUNNING"
                      /\ dataset # "ABANDONED" => \A j \in Job : job[j] = "SUCCEEDED"
    BY DEF DecidedVersionIsQuiet
  <2>1. \A j \in Job : ~ HasActive(j)
    BY DEF Consistent, TablesConsistent, VersionTells
  <2>2. \A j \in Job, n \in Number : execution[j][n] # "RUNNING"
    BY <2>1, RunningAttempt DEF HasActive, Active
  <2>3. dataset # "ABANDONED" => \A j \in Job : job[j] = "SUCCEEDED"
    BY DEF Consistent, TablesConsistent, VersionTells
  <2> QED
    BY <2>1, <2>2, <2>3
<1> QED
  BY <1>1, Consistency, PTL

\* The result of the newest attempt is the job's.
LEMMA NewestResult ==
    ASSUME Consistent, NEW j \in Job, NEW n \in Number, attempt[j][n] \in Terminal, ~ HasNewer(j, n)
    PROVE  job[j] = attempt[j][n]
<1>1. ASSUME NEW m \in Number, attempt[j][m] \in {"ACCEPTED", "SUCCEEDED"}  PROVE m = n
  <2>1. ~ HasNewer(j, m)
    BY <1>1 DEF Consistent, TablesConsistent, OnlyNewestOpen, Active
  <2>2. attempt[j][m] # "ABSENT" /\ attempt[j][n] # "ABSENT"
    BY <1>1 DEF Terminal
  <2> QED
    BY <1>1, <2>1, <2>2 DEF HasNewer, Number
<1>2. job[j] \in JobStatus
  BY DEF Consistent, TypeOK, TablesTypeOK
<1> QED
  BY <1>1, <1>2 DEF Consistent, TablesConsistent, JobTellsAttempts, Terminal, JobStatus

\* The assertions that no race of requests, results and restarts can fail.
THEOREM AssertionsHold == Spec => []NoContradiction
<1>1. ASSUME Consistent, NEW r \in Caller  PROVE ~ RunContradiction(r)
  <2> DEFINE j == run[r].job  n == run[r].num
  <2>0. RequestHolds(r) /\ frozen \in BOOLEAN /\ attempt \in [Job -> [Number -> AttemptStatus]]
        /\ job \in [Job -> JobStatus]
    BY <1>1 DEF Consistent, TypeOK, TablesTypeOK
  <2>1. ~ RouteContradiction(r)
    <3> SUFFICES ASSUME RouteContradiction(r)  PROVE FALSE
      OBVIOUS
    <3>1. j \in Job
      BY <2>0 DEF RouteContradiction, RequestHolds
    <3>2. PICK m \in Number : attempt[j][m] \in Active
      BY <1>1, <3>1 DEF RouteContradiction, HasActive, Consistent, TablesConsistent, JobTellsAttempts, Active
    <3>3. Reusable(j, m)
      BY <1>1, <3>1, <3>2, OpenAttempt DEF RouteContradiction, Reusable, Active
    <3> QED
      BY <3>2, <3>3 DEF RouteContradiction
  <2>2. ~ PrepareContradiction(r)
    BY <1>1, <2>0 DEF PrepareContradiction, Preparable, ContractConsistent, Consistent, TablesConsistent, VersionTells
  <2>3. ~ RetryContradiction(r)
    BY <1>1, <2>0 DEF RetryContradiction, Consistent, TablesConsistent, VersionTells, JobTellsAttempts, RequestHolds
  <2>4. ~ BeginContradiction(r)
    <3> SUFFICES ASSUME BeginContradiction(r)  PROVE FALSE
      OBVIOUS
    <3>1. j \in Job /\ n \in Number /\ attempt[j][n] # "ABSENT"
      BY <2>0 DEF BeginContradiction, RequestHolds
    <3>2. frozen
      BY <1>1, <3>1 DEF Consistent, TablesConsistent, VersionTells
    <3>3. attempt[j][n] \in Active =>
             job[j] \in JobStatus \ {"SUCCEEDED"} /\ (attempt[j][n] = "ACCEPTED" <=> job[j] = "RUNNING")
      BY <1>1, <2>0, <3>1, OpenAttempt
    <3> QED
      BY <3>2, <3>3 DEF BeginContradiction, Active, JobStatus
  <2>5. ~ RecordContradiction(r)
    <3> SUFFICES ASSUME RecordContradiction(r)  PROVE FALSE
      OBVIOUS
    <3>1. j \in Job /\ n \in Number /\ attempt[j][n] \notin {"ABSENT", "PREPARED"}
      BY <2>0 DEF RecordContradiction, RequestHolds
    <3>2. frozen /\ dataset # "DRAFT"
      BY <1>1, <3>1 DEF Consistent, TablesConsistent, VersionTells
    <3>3. attempt[j][n] \in Terminal => run[r].answer # "REJECTED"
      BY <1>1, <2>0, <3>1 DEF RecordContradiction, RequestHolds, Consistent, ExecutorTells, Terminal
    <3>4. attempt[j][n] \in Terminal /\ ~ HasNewer(j, n) => job[j] = attempt[j][n]
      BY <1>1, <3>1, NewestResult
    <3>5. ASSUME run[r].answer \in {"ACCEPTED", "ALREADY_EXISTS"}, Undecided(r)
          PROVE  attempt[j][n] = "DISPATCHING" /\ Retryable(j)
      <4>1. attempt[j][n] \in {"DISPATCHING", "ACCEPTED"}
        BY <1>1, <2>0, <3>1, <3>5
        DEF RecordContradiction, RequestHolds, Consistent, ExecutorTells, Undecided, Terminal
      <4>2. attempt[j][n] = "ACCEPTED" <=> job[j] = "RUNNING"
        BY <1>1, <3>1, <4>1, OpenAttempt DEF Active
      <4>3. job[j] \in JobStatus \ {"SUCCEEDED"}
        BY <1>1, <2>0, <3>1, <4>1, OpenAttempt DEF Active
      <4> QED
        BY <3>5, <4>1, <4>2, <4>3 DEF Undecided, Retryable, JobStatus
    <3> QED
      BY <3>2, <3>3, <3>4, <3>5 DEF RecordContradiction
  <2> QED
    BY <2>1, <2>2, <2>3, <2>4, <2>5 DEF RunContradiction
<1>2. ASSUME Consistent, NEW c \in Checker  PROVE ~ CheckContradiction(c)
  <2> DEFINE j == check[c].job  n == check[c].num
  <2>0. CheckHolds(c) /\ job \in [Job -> JobStatus]
    BY <1>2 DEF Consistent, TypeOK, TablesTypeOK
  <2> SUFFICES ASSUME check[c].pc \in {"read", "apply"}  PROVE ~ CheckContradiction(c)
    BY DEF CheckContradiction, ReadContradiction, ApplyContradiction
  <2>1. j \in Job /\ n \in Number /\ attempt[j][n] # "ABSENT"
    BY <2>0 DEF CheckHolds
  <2>2. dataset # "DRAFT"
    BY <1>2, <2>1 DEF Consistent, TablesConsistent, VersionTells
  <2>3. ~ ReadContradiction(c)
    BY <1>2, <2>1, <2>2, OpenAttempt DEF ReadContradiction, Active
  <2>4. attempt[j][n] \in Terminal /\ ~ HasNewer(j, n) => job[j] = attempt[j][n]
    BY <1>2, <2>1, NewestResult
  <2>5. ASSUME check[c].pc = "apply", attempt[j][n] \notin Terminal  PROVE Applicable(c)
    <3>1. attempt[j][n] \in {"DISPATCHING", "ACCEPTED"}
      BY <1>2, <2>0, <2>1, <2>5 DEF CheckHolds, Consistent, ExecutorTells, Terminal
    <3>2. dataset = "BUILDING" /\ (attempt[j][n] = "ACCEPTED" <=> job[j] = "RUNNING")
      BY <1>2, <2>1, <3>1, OpenAttempt DEF Active
    <3>3. job[j] \in JobStatus \ {"SUCCEEDED"}
      BY <1>2, <2>0, <2>1, <3>1, OpenAttempt DEF Active
    <3>4. ~ HasNewer(j, n)
      BY <1>2, <2>1, <3>1 DEF Consistent, TablesConsistent, OnlyNewestOpen, Active
    <3> QED
      BY <2>5, <3>1, <3>2, <3>3, <3>4 DEF Applicable, JobStatus
  <2> QED
    BY <2>2, <2>3, <2>4, <2>5 DEF CheckContradiction, ApplyContradiction
<1>3. Consistent => ~ SubmitContradiction /\ ~ AbandonContradiction
  BY OpenAttempt DEF SubmitContradiction, AbandonContradiction, HasActive, Consistent, TablesConsistent, JobTellsAttempts
<1>4. Consistent => NoContradiction
  BY <1>1, <1>2, <1>3 DEF NoContradiction
<1> QED
  BY <1>4, Consistency, PTL

\* Only RecordUnknown fails with this assertion.
LEMMA AnswerKept ==
    ASSUME TypeOK, NEW r \in Caller, run[r].answer # "unknown", ~ RecordUnknown(r),
           RunStep(r) \/ \E j \in Job : RunRequest(r, j)
    PROVE  run'[r].answer # "unknown"
<1>1. run \in [Caller -> Request]
  BY DEF TypeOK, RunTypeOK
<1>2. ASSUME NEW j, NEW t  PROVE Routing(j, t).answer = "NONE"
  BY DEF Routing, Idle
<1>3. Respond(r) \/ Reroute(r) \/ (\E j \in Job : RunRequest(r, j)) => run'[r].answer = "NONE"
  BY <1>1, <1>2 DEF Respond, Reroute, RunRequest, Idle
<1>4. \A n \in Number : DispatchWith(r, n) => run'[r].answer = run[r].answer
  BY <1>1 DEF DispatchWith, Request
<1>5. \A a \in RunAssertion : FailRun(r, a) => run'[r].answer = a
  BY <1>1 DEF FailRun, Request
<1>6. RunRoute(r) => run'[r].answer # "unknown"
  <2>1. RoutePrepare(r) \/ RouteRetry(r) => run'[r].answer = run[r].answer
    BY <1>1 DEF RoutePrepare, RouteRetry, Request
  <2> QED
    BY <2>1, <1>3, <1>4 DEF RunRoute, RouteNotRunnable, RouteReuse
<1>7. RunPrepare(r) => run'[r].answer # "unknown"
  <2>1. PrepareReadContext(r) => run'[r].answer \in {run[r].answer, "NONE"}
    BY <1>1, <1>3 DEF PrepareReadContext, Request
  <2> QED
    BY <2>1, <1>3, <1>4 DEF RunPrepare, PrepareInputsMissing, PrepareNotRunnable, RetryRaced,
        AttemptsExhausted, PrepareAttempt, RetryAttempt
<1>8. RunBegin(r) => run'[r].answer # "unknown"
  <2>1. BeginReadDataset(r) \/ BeginDispatch(r) => run'[r].answer = run[r].answer
    BY <1>1 DEF BeginReadDataset, BeginDispatch, Request
  <2>2. BeginOutsideBuilding(r) => run'[r].answer = "beginOutsideBuilding"
    BY <1>5 DEF BeginOutsideBuilding, RunAssertion
  <2> QED
    BY <2>1, <2>2, <1>3 DEF RunBegin, BeginRaced, BeginAlreadyAccepted
<1>9. Dispatch(r) => run'[r].answer \in Answer
  BY <1>1 DEF Dispatch, Request
<1>10. RunRecord(r) => run'[r].answer # "unknown"
  BY <1>3, <1>5 DEF RunRecord, RecordLate, RecordOutsideBuilding, RecordAlreadyAccepted,
      RecordAccepted, RecordRejected, RunAssertion
<1> QED
  BY <1>3, <1>6, <1>7, <1>8, <1>9, <1>10 DEF RunStep, RespondFailure, RequestLost, Answer

\* With simulated calls, which hold back a rejection while an ambiguous
\* answer is being recorded, that answer always finds its attempt open.
THEOREM UnknownBeforeRejection ==
    ASSUME Simulated
    PROVE  Spec => []NoUnknownAfterRejection
<1>1. Init => NoUnknownAfterRejection
  BY DEF Init, RunInit, Idle, NoUnknownAfterRejection
<1>2. ASSUME Consistent, [Next]_vars, NoUnknownAfterRejection  PROVE NoUnknownAfterRejection'
  <2> SUFFICES ASSUME NEW r \in Caller  PROVE run'[r].answer # "unknown"
    BY DEF NoUnknownAfterRejection
  <2>0. run \in [Caller -> Request] /\ run[r].answer # "unknown"
    BY <1>2 DEF Consistent, TypeOK, RunTypeOK, NoUnknownAfterRejection
  <2>1. CASE RecordUnknown(r)
    <3> DEFINE j == run[r].job  n == run[r].num
    <3>1. /\ run[r].pc = "record" /\ run[r].answer = "UNKNOWN" /\ Undecided(r)
          /\ RequestHolds(r) /\ attempt \in [Job -> [Number -> AttemptStatus]]
          /\ job \in [Job -> JobStatus]
      BY <1>2, <2>1 DEF RecordUnknown, Recording, Consistent, TypeOK, TablesTypeOK
    <3>2. j \in Job /\ n \in Number /\ attempt[j][n] \in {"DISPATCHING", "ACCEPTED", "DISPATCH_FAILED"}
      BY <3>1 DEF RequestHolds, Undecided, AttemptStatus, Active, Closed, Terminal
    <3>3. attempt[j][n] # "DISPATCH_FAILED"
      BY <1>2, <3>1, <3>2 DEF RequestHolds, Consistent, ExecutorTells
    <3>4. job[j] \in JobStatus \ {"SUCCEEDED"} /\ (attempt[j][n] = "ACCEPTED" <=> job[j] = "RUNNING")
      BY <1>2, <3>1, <3>2, <3>3, OpenAttempt DEF Active
    <3>5. attempt[j][n] = "DISPATCHING" /\ Retryable(j)
      BY <3>1, <3>2, <3>3, <3>4 DEF Undecided, Retryable, JobStatus
    <3>6. Respond(r)
      BY <2>1, <3>5 DEF RecordUnknown
    <3> QED
      BY <2>0, <3>6 DEF Respond, Idle
  <2>2. CASE ~ RecordUnknown(r) /\ (RunStep(r) \/ \E j \in Job : RunRequest(r, j))
    BY <1>2, <2>0, <2>2, AnswerKept DEF Consistent, TypeOK
  <2>3. CASE Restart
    BY <2>3 DEF Restart, Idle
  <2>4. CASE UNCHANGED run
    BY <2>0, <2>4
  <2> QED
    <3>1. ASSUME NEW q \in Caller, q # r, RunStep(q) \/ \E j \in Job : RunRequest(q, j)
          PROVE  run'[r].answer # "unknown"
      BY <1>2, <2>0, <3>1, OtherRequests DEF Consistent, TypeOK
    <3> QED
      BY <1>2, <2>1, <2>2, <2>3, <2>4, <3>1 DEF Next, vars, LifecycleCommand, ExecutorProgress
<1> QED
  BY <1>1, <1>2, Consistency, PTL DEF Spec

----------------------------------------------------------------------------
(* What no step may do *)

\* A closed attempt is never written again.
LEMMA ClosedStays ==
    ASSUME Consistent, [Next]_vars, NEW j \in Job, NEW n \in Number, attempt[j][n] \in Closed
    PROVE  attempt'[j][n] = attempt[j][n]
<1>1. ~ CreateAttempt(j, n)
  BY DEF CreateAttempt, NextNumber, Number, Closed, Terminal
<1>2. attempt[j][n] \notin Active
  BY DEF Closed, Active, Terminal
<1> QED
  BY <1>1, <1>2, RowsStep, AttemptWritten DEF Consistent

\* What was recorded of a closed attempt is history.
THEOREM HistoryStays == Spec => HistoryImmutable
BY StepsTheTables, RowsKeepHistory DEF TablesStepped

\* An external run is only created for a DISPATCHING attempt of a BUILDING
\* version, two transactions after the request checked both.
THEOREM CreationIsWatched == Spec => CreatedOnlyWhileDispatching
<1>1. ASSUME Consistent, [Next]_vars, NEW j \in Job, NEW n \in Number,
             execution[j][n] = "NONE", execution'[j][n] # "NONE"
      PROVE  attempt[j][n] = "DISPATCHING" /\ dataset = "BUILDING"
  <2>1. PICK r \in Caller : Dispatch(r)
    <3>1. ASSUME NEW k \in Job, NEW m \in Number, NEW s \in Terminal, SetExecutionState(k, m, s)
          PROVE  FALSE
      BY <1>1, <3>1 DEF SetExecutionState, Consistent, TypeOK, ExecutorTypeOK
    <3>2. ~ Restart
      BY <1>1 DEF Restart, ForgetExecutions
    <3> QED
      BY <1>1, <3>1, <3>2, ExecutorWrites
  <2> DEFINE k == run[r].job  m == run[r].num
  <2>2. /\ k \in Job /\ m \in Number /\ attempt[k][m] = "DISPATCHING"
        /\ \E s \in ExecutionState : execution' = [execution EXCEPT ![k][m] = s]
    BY <1>1, <2>1, DispatchWrites
  <2>3. k = j /\ m = n
    BY <1>1, <2>2 DEF Consistent, TypeOK, ExecutorTypeOK
  <2> QED
    BY <1>1, <2>2, <2>3, OpenAttempt DEF Active
<1>2. Consistent /\ [Next]_vars =>
        [\A j \in Job, n \in Number :
            execution[j][n] = "NONE" /\ execution'[j][n] # "NONE" =>
                attempt[j][n] = "DISPATCHING" /\ dataset = "BUILDING"]_vars
  BY <1>1
<1> QED
  BY <1>2, Consistency, PTL DEF Spec, CreatedOnlyWhileDispatching

\* A new attempt follows attempts that all failed.
THEOREM RetryFollowsFailure == Spec => RetryOnlyAfterFailure
BY StepsTheTables, RowsRetryAfterFailure DEF TablesStepped

----------------------------------------------------------------------------
(* The refinement of BuildPromise *)

Working == {j \in Job : \E n \in Number : execution[j][n] = "RUNNING"}

\* Work in progress belongs to an open attempt.
LEMMA WorkIsOpen ==
    ASSUME Consistent, NEW j \in Working
    PROVE  /\ j \in Job /\ HasActive(j) /\ dataset = "BUILDING" /\ job[j] # "SUCCEEDED"
           /\ \A n \in Number : attempt[j][n] \in Active => execution[j][n] = "RUNNING"
<1>1. PICK n \in Number : execution[j][n] = "RUNNING" /\ j \in Job
  BY DEF Working
<1>2. attempt[j][n] \in Active
  BY <1>1, RunningAttempt DEF Active
<1> QED
  BY <1>1, <1>2, OpenAttempt DEF HasActive

\* A write to the tables by a step that creates and ends no run.
LEMMA TableStepKeepsPromise ==
    ASSUME Consistent, [Next]_vars, UNCHANGED execution
    PROVE  [Promise!Next]_(Promise!vars)
<1> USE DEF Promise!vars
<1>0. Working' = Working
  BY DEF Working
<1>1. CASE UNCHANGED <<dataset, job>>
  BY <1>1
<1>2. CASE Commands
  <2>1. CASE SubmitValidation
    <3>1. Working = {}
      BY <2>1, WorkIsOpen DEF SubmitValidation, Working
    <3> QED
      BY <2>1, <3>1, <1>0 DEF SubmitValidation, Working, Promise!Next, Promise!Validate
  <2>2. CASE Publish \/ Reject
    BY <2>2, <1>0 DEF Publish, Reject, Working, Promise!Next, Promise!Conclude
  <2>3. CASE Abandon
    <3>1. Working = {}
      BY <2>3, WorkIsOpen DEF Abandon, Working
    <3> QED
      BY <2>3, <3>1, <1>0 DEF Abandon, Working, Promise!Next, Promise!Abandon
  <2> QED
    BY <1>2, <2>1, <2>2, <2>3 DEF Commands
<1>3. ASSUME NEW j \in Job, NEW n \in Number, Inserts(j, n)
      PROVE  [Promise!Next]_(Promise!vars)
  BY <1>0, <1>3 DEF Inserts, Working, Promise!Next, Promise!Freeze
<1>4. ASSUME NEW j \in Job, NEW n \in Number, Accepts(j, n)
      PROVE  [Promise!Next]_(Promise!vars)
  <2>1. dataset = "BUILDING" /\ job[j] # "SUCCEEDED" /\ job \in [Job -> JobStatus]
    BY <1>4, OpenAttempt DEF Accepts, Active, Consistent, TypeOK, TablesTypeOK
  <2>2. CASE job[j] = "RUNNING"
    BY <1>0, <1>4, <2>1, <2>2 DEF Accepts
  <2>3. CASE job[j] \in {"PENDING", "FAILED"}
    <3>1. Promise!Confirm(j)
      BY <1>0, <1>4, <2>1, <2>3 DEF Accepts, Working, Promise!Confirm
    <3> QED
      BY <3>1 DEF Promise!Next
  <2> QED
    BY <2>1, <2>2, <2>3 DEF JobStatus
<1>5. ASSUME NEW j \in Job, NEW n \in Number, NEW s \in Terminal, Settles(j, n, s)
      PROVE  [Promise!Next]_(Promise!vars)
  <2>1. dataset = "BUILDING" /\ job[j] # "SUCCEEDED"
    BY <1>5, OpenAttempt DEF Settles, Active
  <2>2. j \notin Working
    BY <1>5, WorkIsOpen DEF Settles, Active, Terminal
  <2>3. Promise!Settle(j, s)
    BY <1>0, <1>5, <2>1, <2>2 DEF Settles, Working, Terminal, Promise!Settle
  <2> QED
    BY <2>3 DEF Promise!Next, Terminal
<1> QED
  BY <1>1, <1>2, <1>3, <1>4, <1>5, TableWrites DEF tableVars, Marks, Fails

\* A step that creates, ends or forgets a run writes nothing to the tables.
LEMMA ExecutorStepKeepsPromise ==
    ASSUME Consistent, [Next]_vars, ~ UNCHANGED execution
    PROVE  [Promise!Next]_(Promise!vars)
<1> USE DEF Promise!vars
<1>0. ASSUME NEW j \in Job, NEW n \in Number, NEW s \in ExecutionState,
             UNCHANGED <<dataset, job>>, attempt[j][n] = "DISPATCHING",
             execution[j][n] = "NONE", execution' = [execution EXCEPT ![j][n] = s]
      PROVE  [Promise!Next]_(Promise!vars)
  <2>1. \A k \in Job, m \in Number :
           execution'[k][m] = IF k = j /\ m = n THEN s ELSE execution[k][m]
    BY <1>0 DEF Consistent, TypeOK, ExecutorTypeOK
  <2>2. j \notin Working /\ dataset = "BUILDING" /\ job[j] \in {"PENDING", "FAILED"}
    <3>1. job[j] \in JobStatus
      BY <1>0 DEF Consistent, TypeOK, TablesTypeOK
    <3> QED
      BY <1>0, <3>1, OpenAttempt, WorkIsOpen DEF Active, JobStatus
  <2>3. CASE s = "RUNNING"
    <3>1. \A k \in Job : (\E m \in Number : execution'[k][m] = "RUNNING")
                            <=> (k = j \/ \E m \in Number : execution[k][m] = "RUNNING")
      BY <1>0, <2>1, <2>3
    <3>2. Working' = Working \cup {j}
      BY <3>1 DEF Working
    <3>3. Promise!Launch(j)
      BY <1>0, <2>2, <3>2 DEF Working, Promise!Launch
    <3> QED
      BY <3>3 DEF Promise!Next
  <2>4. CASE s # "RUNNING"
    <3>1. \A k \in Job : (\E m \in Number : execution'[k][m] = "RUNNING")
                            <=> (\E m \in Number : execution[k][m] = "RUNNING")
      BY <1>0, <2>1, <2>4
    <3>2. Working' = Working
      BY <3>1 DEF Working
    <3> QED
      BY <1>0, <3>2 DEF Working
  <2> QED
    BY <2>3, <2>4
<1>1. ASSUME NEW r \in Caller, Dispatch(r)  PROVE [Promise!Next]_(Promise!vars)
  <2>1. /\ run[r].job \in Job /\ run[r].num \in Number
        /\ UNCHANGED <<dataset, job>>
        /\ attempt[run[r].job][run[r].num] = "DISPATCHING"
        /\ execution[run[r].job][run[r].num] = "NONE"
        /\ \E s \in ExecutionState :
              execution' = [execution EXCEPT ![run[r].job][run[r].num] = s]
    BY <1>1, DispatchWrites DEF tableVars
  <2>2. PICK j \in Job : j = run[r].job
    BY <2>1
  <2>3. PICK n \in Number : n = run[r].num
    BY <2>1
  <2>4. PICK s \in ExecutionState :
           execution' = [execution EXCEPT ![run[r].job][run[r].num] = s]
    BY <2>1
  <2> QED
    BY <2>1, <2>2, <2>3, <2>4, <1>0
<1>2. ASSUME UNCHANGED tableVars, Working' \subseteq Working
      PROVE  [Promise!Next]_(Promise!vars)
  <2>1. PICK gone \in SUBSET Job : gone = Working \ Working'
    BY DEF Working
  <2>2. gone \subseteq Working /\ Working' = Working \ gone
    BY <1>2, <2>1
  <2>3. Promise!Stop(gone)
    BY <1>2, <2>2 DEF tableVars, Working, Promise!Stop
  <2> QED
    BY <2>3 DEF Promise!Next
<1>3. ASSUME NEW j \in Job, NEW n \in Number, NEW s \in Terminal, SetExecutionState(j, n, s)
      PROVE  Working' \subseteq Working
  <2>1. \A k \in Job, m \in Number : execution'[k][m] \in Terminal \cup {execution[k][m]}
    BY <1>3 DEF SetExecutionState, Consistent, TypeOK, ExecutorTypeOK
  <2> QED
    BY <2>1 DEF Working, Terminal
<1>4. CASE Restart
  BY <1>2, <1>4 DEF Restart, ForgetExecutions, Working
<1> QED
  BY <1>1, <1>2, <1>3, <1>4, ExecutorWrites

\* The detailed system keeps the promise of the abstract specification.
THEOREM PromiseIsKept == Spec => PromiseKept
<1>1. Init => Promise!Init
  BY DEF Init, TablesInit, ExecutorInit, Promise!Init
<1>2. Consistent /\ [Next]_vars => [Promise!Next]_(Promise!vars)
  BY TableStepKeepsPromise, ExecutorStepKeepsPromise
<1> QED
  BY <1>1, <1>2, Consistency, PTL DEF Spec, PromiseKept, Promise!Spec

----------------------------------------------------------------------------
(* Observations, when no control changes a run that has ended *)

\* What a reconciliation has seen is what the tables and the executor will
\* still say when it is applied, or a RUNNING that preceded the result.
Observed(c) ==
    LET j == check[c].job  n == check[c].num  s == check[c].seen IN
    /\ check[c].pc # "failed"
    /\ check[c].pc \in {"lookup", "apply"} => s \in Terminal \cup {"DISPATCHING", "ACCEPTED"}
    /\ check[c].pc = "lookup" /\ s \in Terminal => attempt[j][n] = s
    /\ check[c].pc = "apply" =>
          /\ check[c].result \in Terminal => execution[j][n] = check[c].result
          /\ check[c].result = "RUNNING" => s \notin Terminal

\* A recorded result is that of the run, as long as the executor remembers it.
ResultTold(j, n) == attempt[j][n] \in Terminal => execution[j][n] \in {"NONE", attempt[j][n]}

ObservedInv ==
    /\ \A j \in Job, n \in Number : ResultTold(j, n)
    /\ \A c \in Checker : Observed(c)

LEMMA CreatesOne ==
    ASSUME Consistent, NEW r \in Caller, Dispatch(r)
    PROVE  \E k \in Job, m \in Number :
              \/ UNCHANGED execution
              \/ /\ attempt[k][m] = "DISPATCHING" /\ execution[k][m] = "NONE"
                 /\ \E s : execution' = [execution EXCEPT ![k][m] = s]
<1>1. PICK k, m : k = run[r].job /\ m = run[r].num
  OBVIOUS
<1>2. /\ k \in Job /\ m \in Number
      /\ \/ UNCHANGED execution
         \/ /\ attempt[k][m] = "DISPATCHING" /\ execution[k][m] = "NONE"
            /\ \E s \in ExecutionState : execution' = [execution EXCEPT ![k][m] = s]
  BY <1>1, DispatchWrites
<1> QED BY <1>2

LEMMA ExecutionStays ==
    ASSUME "flip" \notin Faults, Consistent, [Next]_vars, ~ Restart, NEW j \in Job, NEW n \in Number,
           execution[j][n] \in Terminal
    PROVE  execution'[j][n] = execution[j][n]
<1>1. execution \in [Job -> [Number -> ExecutionState \cup {"NONE"}]]
  BY DEF Consistent, TypeOK, ExecutorTypeOK
<1>2. ASSUME NEW r \in Caller, Dispatch(r) PROVE execution'[j][n] = execution[j][n]
  <2>1. PICK k \in Job, m \in Number :
           \/ UNCHANGED execution
           \/ execution[k][m] = "NONE" /\ \E s : execution' = [execution EXCEPT ![k][m] = s]
    BY <1>2, CreatesOne
  <2> QED BY <1>1, <2>1 DEF Terminal
<1>3. ASSUME NEW k \in Job, NEW m \in Number, NEW s \in Terminal, SetExecutionState(k, m, s)
      PROVE  execution'[j][n] = execution[j][n]
  BY <1>1, <1>3 DEF SetExecutionState, Terminal
<1> QED BY <1>2, <1>3, ExecutorWrites

LEMMA ResultToldStep ==
    ASSUME "flip" \notin Faults, Consistent, ObservedInv, [Next]_vars, NEW j \in Job, NEW n \in Number
    PROVE  ResultTold(j, n)'
<1>1. /\ execution \in [Job -> [Number -> ExecutionState \cup {"NONE"}]] /\ ResultTold(j, n)
      /\ attempt[j][n] \in Terminal => execution[j][n] # "RUNNING"
  BY DEF Consistent, TypeOK, ExecutorTypeOK, ObservedInv, ExecutorTells
<1>2. CASE Restart
  <2>1. execution'[j][n] = "NONE"
    BY <1>2 DEF Restart, ForgetExecutions
  <2> QED BY <2>1 DEF ResultTold
<1>3. CASE ~ Restart /\ attempt[j][n] \in Terminal
  <2>1. attempt'[j][n] = attempt[j][n]
    BY <1>3, ClosedStays DEF Closed
  <2>2. CASE execution[j][n] = "NONE"
    <3>1. execution'[j][n] = "NONE"
      <4>1. ASSUME NEW r \in Caller, Dispatch(r) PROVE execution'[j][n] = "NONE"
        <5>1. PICK k \in Job, m \in Number :
                 \/ UNCHANGED execution
                 \/ attempt[k][m] = "DISPATCHING" /\ \E s : execution' = [execution EXCEPT ![k][m] = s]
          BY <4>1, CreatesOne
        <5>2. attempt[k][m] = "DISPATCHING" => ~ (k = j /\ m = n)
          BY <1>3 DEF Terminal
        <5> QED BY <1>1, <2>2, <5>1, <5>2
      <4>2. ASSUME NEW k \in Job, NEW m \in Number, NEW s \in Terminal, SetExecutionState(k, m, s)
            PROVE  execution'[j][n] = "NONE"
        BY <1>1, <2>2, <4>2 DEF SetExecutionState
      <4> QED BY <1>3, <2>2, <4>1, <4>2, ExecutorWrites
    <3> QED BY <2>1, <3>1 DEF ResultTold
  <2>3. CASE execution[j][n] # "NONE"
    <3>1. execution[j][n] = attempt[j][n]
      BY <1>1, <1>3, <2>3 DEF ResultTold
    <3>2. execution'[j][n] = execution[j][n]
      BY <1>3, <3>1, ExecutionStays
    <3> QED BY <2>1, <3>1, <3>2 DEF ResultTold
  <2> QED BY <2>2, <2>3
<1>4. CASE ~ Restart /\ attempt[j][n] \notin Terminal
  <2> SUFFICES ASSUME attempt'[j][n] \in Terminal PROVE execution'[j][n] = attempt'[j][n]
    BY DEF ResultTold
  <2>1. ASSUME NEW k \in Job, NEW m \in Number, NEW status, Writes(k, m, status), status \notin Terminal
        PROVE  FALSE
    <3>1. attempt'[j][n] = IF k = j /\ m = n THEN status ELSE attempt[j][n]
      BY <2>1, Written DEF Consistent
    <3> QED BY <1>4, <2>1, <3>1
  <2>2. ~ UNCHANGED attempt
    BY <1>4
  <2>3. PICK k \in Job, m \in Number, s \in Terminal : Settles(k, m, s) /\ UNCHANGED execution
    BY <2>1, <2>2, TableWrites
    DEF Inserts, Marks, Accepts, Fails, tableVars, Commands, SubmitValidation, Publish, Reject, Abandon,
        Terminal
  <2>4. attempt'[j][n] = IF k = j /\ m = n THEN s ELSE attempt[j][n]
    BY <2>3, Written DEF Consistent, Settles
  <2>5. k = j /\ m = n /\ attempt'[j][n] = s
    BY <1>4, <2>4
  <2>6. execution[j][n] = s
    BY <2>3, <2>5 DEF Settles, ObservedInv, Observed
  <2> QED BY <2>3, <2>5, <2>6
<1> QED BY <1>2, <1>3, <1>4

LEMMA ObservedStep ==
    ASSUME "flip" \notin Faults, Consistent, ObservedInv, [Next]_vars, NEW c \in Checker
    PROVE  Observed(c)'
<1>1. /\ check \in [Checker -> CheckRequest] /\ check[c] \in CheckRequest
      /\ CheckHolds(c) /\ Observed(c)
  BY DEF Consistent, TypeOK, CheckTypeOK, ObservedInv
<1>2. CASE Restart
  <2>1. check'[c].pc = "idle"
    BY <1>2 DEF Restart, NoCheck
  <2> QED BY <2>1 DEF Observed
<1>3. CASE ~ Restart /\ UNCHANGED check[c]
  <2>1. PICK j, n : j = check[c].job /\ n = check[c].num
    OBVIOUS
  <2>2. ASSUME check[c].pc = "lookup", check[c].seen \in Terminal
        PROVE  attempt'[j][n] = check[c].seen
    <3>1. j \in Job /\ n \in Number /\ attempt[j][n] = check[c].seen
      BY <1>1, <2>1, <2>2 DEF CheckHolds, Observed
    <3> QED BY <2>2, <3>1, ClosedStays DEF Closed
  <2>3. ASSUME check[c].pc = "apply", check[c].result \in Terminal
        PROVE  execution'[j][n] = check[c].result
    <3>1. j \in Job /\ n \in Number /\ execution[j][n] = check[c].result
      BY <1>1, <2>1, <2>3 DEF CheckHolds, Observed
    <3> QED BY <1>3, <2>3, <3>1, ExecutionStays
  <2> QED BY <1>1, <1>3, <2>1, <2>2, <2>3 DEF Observed
<1>4. ASSUME \/ CheckStep(c)
             \/ \E j \in Job, n \in Number : Callback(c, j, n) \/ ManualCheck(c, j, n)
      PROVE  Observed(c)'
  <2>1. ASSUME NEW record, check' = [check EXCEPT ![c] = record], record.pc \in {"idle", "read"}
        PROVE  Observed(c)'
    BY <1>1, <2>1 DEF Observed
  <2>2. CASE EndCheck(c)
    BY <2>1, <2>2 DEF EndCheck, NoCheck
  <2>3. ASSUME NEW j \in Job, NEW n \in Number, Callback(c, j, n) \/ ManualCheck(c, j, n)
        PROVE  Observed(c)'
    BY <2>1, <2>3 DEF Callback, ManualCheck, StartCheck, NoCheck
  <2>4. PICK j, n : j = check[c].job /\ n = check[c].num
    OBVIOUS
  <2>5. CASE CheckRead(c)
    <3> DEFINE record == [check[c] EXCEPT !.pc = "lookup", !.seen = attempt[j][n]]
    <3>1. /\ record.pc = "lookup" /\ record.seen = attempt[j][n] /\ record.job = j /\ record.num = n
          /\ EndCheck(c) \/ (check' = [check EXCEPT ![c] = record]
                             /\ attempt[j][n] \in Terminal \cup {"DISPATCHING", "ACCEPTED"})
          /\ UNCHANGED attempt
      BY <1>1, <2>4, <2>5 DEF CheckRead, CheckRequest, tableVars
    <3> HIDE DEF record
    <3> QED BY <1>1, <2>2, <3>1 DEF Observed
  <2>6. CASE CheckLookup(c)
    <3> DEFINE record == [check[c] EXCEPT !.pc = "apply", !.result = execution[j][n]]
    <3>1. /\ record.pc = "apply" /\ record.seen = check[c].seen /\ record.job = j /\ record.num = n
          /\ record.result = execution[j][n]
          /\ check' = [check EXCEPT ![c] = record] /\ UNCHANGED execution /\ check[c].pc = "lookup"
      BY <1>1, <2>4, <2>6 DEF CheckLookup, CheckRequest, executorVars
    <3> HIDE DEF record
    <3>2. j \in Job /\ n \in Number
      BY <1>1, <2>4, <3>1 DEF CheckHolds
    <3>3. attempt[j][n] \in Terminal => execution[j][n] # "RUNNING"
      BY <3>2 DEF Consistent, ExecutorTells
    <3>4. check[c].seen \in Terminal => execution[j][n] # "RUNNING"
      BY <1>1, <2>4, <3>1, <3>3 DEF Observed
    <3> QED BY <1>1, <3>1, <3>4 DEF Observed
  <2>7. CASE ApplyToTerminal(c)
    <3>1. /\ check[c].pc = "apply" /\ attempt[j][n] \in Terminal
          /\ check[c].result = attempt[j][n] \/ StaleRunning(c) => EndCheck(c)
      BY <2>4, <2>7 DEF ApplyToTerminal
    <3>2. j \in Job /\ n \in Number /\ check[c].result \in Terminal \cup {"RUNNING"}
      BY <1>1, <2>4, <3>1 DEF CheckHolds, CheckRequest, ExecutionState, Terminal
    <3>3. ResultTold(j, n)
      BY <3>2 DEF ObservedInv
    <3>4. check[c].result = attempt[j][n] \/ StaleRunning(c)
      BY <1>1, <2>4, <3>1, <3>2, <3>3 DEF Observed, ResultTold, StaleRunning, Terminal
    <3> QED BY <2>2, <3>1, <3>4
  <2> QED
    BY <1>4, <2>2, <2>3, <2>5, <2>6, <2>7
    DEF CheckStep, CheckUnavailable, ApplyRunning, ApplyResult, CheckRespondFailure, CheckLost
<1>5. ASSUME NEW d \in Checker, d # c,
             \/ CheckStep(d)
             \/ \E j \in Job, n \in Number : Callback(d, j, n) \/ ManualCheck(d, j, n)
      PROVE  UNCHANGED check[c]
  BY <1>5, OtherChecks DEF Consistent, TypeOK
<1>6. Restart \/ UNCHANGED check \/ (\E d \in Checker :
            \/ CheckStep(d)
            \/ \E j \in Job, n \in Number : Callback(d, j, n) \/ ManualCheck(d, j, n))
  BY DEF Next, vars, LifecycleCommand, ExecutorProgress
<1> QED BY <1>2, <1>3, <1>4, <1>5, <1>6

\* However late an observation is applied, and whatever callbacks, requests and
\* restarts have done since, it never contradicts a recorded result.
THEOREM NeverContradicted == Spec => []ObservationsAgree
<1>1. CASE "flip" \in Faults
  <2>1. ObservationsAgree
    BY <1>1 DEF ObservationsAgree
  <2> QED BY <2>1, PTL
<1>2. CASE "flip" \notin Faults
  <2>1. Init => ObservedInv
    BY DEF Init, TablesInit, CheckInit, NoCheck, ObservedInv, Observed, ResultTold, Terminal
  <2>2. Consistent /\ ObservedInv /\ [Next]_vars => ObservedInv'
    BY <1>2, ResultToldStep, ObservedStep DEF ObservedInv
  <2>3. ObservedInv => ObservationsAgree
    BY DEF ObservedInv, Observed, ObservationsAgree
  <2> QED BY <2>1, <2>2, <2>3, Consistency, PTL DEF Spec
<1> QED BY <1>1, <1>2


----------------------------------------------------------------------------
(* Why requests end *)

\* A step of a request answers it, moves it to a later phase, or, when it lost
\* a race, uses up one of its routing attempts.
LEMMA RequestMoves ==
    ASSUME TypeOK, NEW r \in Caller, RunStep(r)
    PROVE  /\ run[r].pc # "idle"
           /\ \/ run'[r] = Idle
              \/ /\ run'[r].tries = run[r].tries
                 /\ run'[r].pc \in RunPhase \ {"idle"}
                 /\ PhasesLeft(run'[r].pc) < PhasesLeft(run[r].pc)
              \/ /\ run[r].tries + 1 < RoutingAttempts
                 /\ run'[r].tries = run[r].tries + 1
                 /\ run'[r].pc = "route"
<1>1. run \in [Caller -> Request] /\ run[r] \in Request
  BY DEF TypeOK, RunTypeOK
<1>2. ASSUME Reroute(r)
      PROVE  \/ run'[r] = Idle
             \/ /\ run[r].tries + 1 < RoutingAttempts
                /\ run'[r].tries = run[r].tries + 1
                /\ run'[r].pc = "route"
  BY <1>1, <1>2 DEF Reroute, Routing, Idle, Request
<1>3. Respond(r) => run'[r] = Idle
  BY <1>1 DEF Respond
<1>4. ASSUME NEW n \in Number, DispatchWith(r, n)
      PROVE  run'[r].tries = run[r].tries /\ run'[r].pc = "begin"
  BY <1>1, <1>4 DEF DispatchWith, Request
<1>5. ASSUME NEW a \in RunAssertion, FailRun(r, a)
      PROVE  run'[r].tries = run[r].tries /\ run'[r].pc = "failed"
  BY <1>1, <1>5 DEF FailRun, Request
<1>6. CASE RunRoute(r)
  <2>1. CASE RoutePrepare(r) \/ RouteRetry(r)
    <3>1. run[r].pc = "route" /\ run'[r].tries = run[r].tries /\ run'[r].pc \in {"prepare", "retry"}
      BY <1>1, <2>1 DEF RoutePrepare, RouteRetry, Request
    <3> QED
      BY <3>1 DEF PhasesLeft, RunPhase
  <2>2. ASSUME NEW n \in Number, RouteReuse(r, n)
        PROVE  /\ run[r].pc = "route" /\ run'[r].tries = run[r].tries
               /\ run'[r].pc \in RunPhase \ {"idle"} /\ PhasesLeft(run'[r].pc) < PhasesLeft(run[r].pc)
    <3>1. run[r].pc = "route" /\ run'[r].tries = run[r].tries /\ run'[r].pc = "begin"
      BY <1>4, <2>2 DEF RouteReuse
    <3> QED
      BY <3>1 DEF PhasesLeft, RunPhase
  <2>3. CASE RouteNotRunnable(r)
    BY <1>2, <2>3 DEF RouteNotRunnable
  <2> QED
    BY <1>6, <2>1, <2>2, <2>3 DEF RunRoute
<1>7. CASE RunPrepare(r)
  <2>1. ASSUME NEW n \in Number, PrepareAttempt(r, n) \/ RetryAttempt(r, n)
        PROVE  /\ run[r].pc # "idle" /\ run'[r].tries = run[r].tries
               /\ run'[r].pc \in RunPhase \ {"idle"} /\ PhasesLeft(run'[r].pc) < PhasesLeft(run[r].pc)
    <3>1. run[r].pc \in {"prepareTx", "retry"} /\ run'[r].tries = run[r].tries /\ run'[r].pc = "begin"
      BY <1>4, <2>1 DEF PrepareAttempt, RetryAttempt
    <3> QED
      BY <3>1 DEF PhasesLeft, RunPhase
  <2>2. CASE PrepareReadContext(r) /\ ~ Reroute(r)
    <3>1. run[r].pc = "prepare" /\ run'[r].tries = run[r].tries /\ run'[r].pc = "prepareTx"
      BY <1>1, <2>2 DEF PrepareReadContext, Request
    <3> QED
      BY <3>1 DEF PhasesLeft, RunPhase
  <2>3. CASE PrepareReadContext(r) /\ Reroute(r)
    BY <1>2, <2>3 DEF PrepareReadContext
  <2>4. CASE PrepareInputsMissing(r) \/ AttemptsExhausted(r)
    BY <1>3, <2>4 DEF PrepareInputsMissing, AttemptsExhausted
  <2>5. CASE PrepareNotRunnable(r) \/ RetryRaced(r)
    BY <1>2, <2>5 DEF PrepareNotRunnable, RetryRaced
  <2> QED
    BY <1>7, <2>1, <2>2, <2>3, <2>4, <2>5 DEF RunPrepare
<1>8. CASE RunBegin(r)
  <2>1. CASE BeginReadDataset(r) \/ BeginDispatch(r)
    <3>1. /\ run'[r].tries = run[r].tries
          /\ \/ run[r].pc = "begin" /\ run'[r].pc = "beginTx"
             \/ run[r].pc = "beginTx" /\ run'[r].pc = "dispatch"
      BY <1>1, <2>1 DEF BeginReadDataset, BeginDispatch, Beginning, Request
    <3> QED
      BY <3>1 DEF PhasesLeft, RunPhase
  <2>2. CASE BeginOutsideBuilding(r)
    <3>1. run[r].pc = "beginTx" /\ run'[r].tries = run[r].tries /\ run'[r].pc = "failed"
      BY <1>5, <2>2 DEF BeginOutsideBuilding, RunAssertion
    <3> QED
      BY <3>1 DEF PhasesLeft, RunPhase
  <2>3. CASE BeginRaced(r)
    BY <1>2, <2>3 DEF BeginRaced, Beginning
  <2>4. CASE BeginAlreadyAccepted(r)
    BY <1>3, <2>4 DEF BeginAlreadyAccepted, Beginning
  <2> QED
    BY <1>8, <2>1, <2>2, <2>3, <2>4 DEF RunBegin
<1>9. CASE Dispatch(r)
  <2>1. run[r].pc = "dispatch" /\ run'[r].tries = run[r].tries /\ run'[r].pc = "record"
    BY <1>1, <1>9 DEF Dispatch, Request
  <2> QED
    BY <2>1 DEF PhasesLeft, RunPhase
<1>10. CASE RunRecord(r)
  <2>1. run[r].pc = "record"
    BY <1>10 DEF RunRecord, RecordLate, RecordOutsideBuilding, RecordAlreadyAccepted, RecordAccepted,
        RecordRejected, RecordUnknown, Recording
  <2>2. Respond(r) \/ \E a \in RunAssertion : FailRun(r, a)
    BY <1>10 DEF RunRecord, RecordLate, RecordOutsideBuilding, RecordAlreadyAccepted, RecordAccepted,
        RecordRejected, RecordUnknown, RunAssertion
  <2>3. run'[r] = Idle \/ (run'[r].tries = run[r].tries /\ run'[r].pc = "failed")
    BY <1>3, <1>5, <2>2
  <2> QED
    BY <2>1, <2>3 DEF PhasesLeft, RunPhase
<1>11. CASE RespondFailure(r) \/ RequestLost(r)
  BY <1>3, <1>11 DEF RespondFailure, RequestLost
<1> QED
  BY <1>6, <1>7, <1>8, <1>9, <1>10, <1>11 DEF RunStep

\* The phases of a request that is under way count at most eight steps.
LEMMA PhasesBounded == \A pc \in RunPhase : PhasesLeft(pc) \in 0 .. 8 /\ (pc # "idle" => PhasesLeft(pc) >= 1)
<1>1. /\ PhasesLeft("idle") = 0 /\ PhasesLeft("failed") = 1 /\ PhasesLeft("record") = 2
      /\ PhasesLeft("dispatch") = 3 /\ PhasesLeft("beginTx") = 4 /\ PhasesLeft("begin") = 5
      /\ PhasesLeft("prepareTx") = 6 /\ PhasesLeft("retry") = 6 /\ PhasesLeft("prepare") = 7
      /\ PhasesLeft("route") = 8
  BY DEF PhasesLeft
<1> QED
  BY <1>1 DEF RunPhase

\* A request that is under way has between one and eight steps left for each
\* of its routing attempts.
LEMMA StepsBounded ==
    ASSUME TypeOK, NEW r \in Caller
    PROVE  /\ StepsLeft(r) \in 0 .. 8 * RoutingAttempts
           /\ run[r].pc # "idle" => StepsLeft(r) > 0
<1>1. /\ run[r].pc \in RunPhase /\ run[r].tries \in 0 .. RoutingAttempts - 1
      /\ RoutingAttempts \in Nat \ {0}
  BY RoutingAssumption DEF TypeOK, RunTypeOK, Request
<1>2. PICK t \in 0 .. RoutingAttempts - 1 : t = run[r].tries
  BY <1>1
<1>3. PICK k \in 0 .. 8 : k = PhasesLeft(run[r].pc) /\ (run[r].pc # "idle" => k >= 1)
  BY <1>1, PhasesBounded
<1>4. 8 * (RoutingAttempts - 1 - t) + k \in 0 .. 8 * RoutingAttempts
  BY <1>1, <1>2, <1>3
<1>5. k >= 1 => 8 * (RoutingAttempts - 1 - t) + k > 0
  BY <1>1, <1>2, <1>3
<1> QED
  BY <1>1, <1>2, <1>3, <1>4, <1>5 DEF StepsLeft

\* The loop of routing attempts ends after a bounded number of steps of its
\* request, whatever the other requests do meanwhile.
THEOREM RequestsRunOut == Spec => [](\A r \in Caller : StepsLeft(r) \in 0 .. 8 * RoutingAttempts) /\ StepsRunOut
<1>1. ASSUME TypeOK, NEW r \in Caller, RunStep(r)
      PROVE  StepsLeft(r)' < StepsLeft(r)
  <2>1. /\ run[r].pc \in RunPhase \ {"idle"} /\ RoutingAttempts \in Nat \ {0}
        /\ run[r].tries \in 0 .. RoutingAttempts - 1
    BY <1>1, RequestMoves, RoutingAssumption DEF TypeOK, RunTypeOK, Request
  <2>2. PICK t \in 0 .. RoutingAttempts - 1 : t = run[r].tries
    BY <2>1
  <2>3. PICK k \in 1 .. 8 : k = PhasesLeft(run[r].pc)
    BY <2>1, PhasesBounded
  <2>4. StepsLeft(r) = 8 * (RoutingAttempts - 1 - t) + k
    BY <2>1, <2>2, <2>3 DEF StepsLeft
  <2>5. CASE run'[r] = Idle
    <3>1. StepsLeft(r)' = 0
      BY <2>5 DEF StepsLeft, Idle
    <3> QED
      BY <2>1, <2>2, <2>3, <2>4, <3>1
  <2>6. CASE /\ run'[r].tries = run[r].tries
             /\ run'[r].pc \in RunPhase \ {"idle"}
             /\ PhasesLeft(run'[r].pc) < PhasesLeft(run[r].pc)
    <3>1. PICK l \in 1 .. 8 : l = PhasesLeft(run'[r].pc)
      BY <2>6, PhasesBounded
    <3>2. StepsLeft(r)' = 8 * (RoutingAttempts - 1 - t) + l
      BY <2>2, <2>6, <3>1 DEF StepsLeft
    <3> QED
      BY <2>1, <2>2, <2>3, <2>4, <2>6, <3>1, <3>2
  <2>7. CASE /\ run[r].tries + 1 < RoutingAttempts
             /\ run'[r].tries = run[r].tries + 1
             /\ run'[r].pc = "route"
    <3>1. StepsLeft(r)' = 8 * (RoutingAttempts - 1 - (t + 1)) + 8
      BY <2>2, <2>7 DEF StepsLeft, PhasesLeft
    <3> QED
      BY <2>1, <2>2, <2>3, <2>4, <3>1
  <2> QED
    BY <1>1, <2>5, <2>6, <2>7, RequestMoves
<1>2. ASSUME TypeOK, [Next]_vars, NEW r \in Caller, run[r].pc # "idle", run'[r] # run[r]
      PROVE  RunStep(r) \/ run'[r] = Idle
  <2>1. ASSUME NEW q \in Caller, RunStep(q)
        PROVE  q = r
    BY <1>2, <2>1, OtherRequests DEF TypeOK
  <2>2. ASSUME NEW q \in Caller, NEW j \in Job, RunRequest(q, j)
        PROVE  FALSE
    BY <1>2, <2>2 DEF RunRequest, TypeOK, RunTypeOK
  <2>3. Restart => run'[r] = Idle
    BY DEF Restart
  <2> QED
    BY <1>2, <2>1, <2>2, <2>3 DEF Next, vars, LifecycleCommand, ExecutorProgress
<1>3. ASSUME TypeOK, NEW r \in Caller, run[r].pc # "idle", run'[r] = Idle
      PROVE  StepsLeft(r)' < StepsLeft(r)
  <2>1. StepsLeft(r)' = 0
    BY <1>3 DEF StepsLeft, Idle
  <2> QED
    BY <1>3, <2>1, StepsBounded
<1>4. TypeOK /\ [Next]_vars =>
        [\A r \in Caller :
            run[r].pc # "idle" /\ (RunStep(r) \/ run'[r] # run[r]) =>
                StepsLeft(r)' < StepsLeft(r)]_vars
  BY <1>1, <1>2, <1>3
<1>5. TypeOK => \A r \in Caller : StepsLeft(r) \in 0 .. 8 * RoutingAttempts
  BY StepsBounded
<1> QED
  BY <1>4, <1>5, TypeCorrect, PTL DEF Spec, StepsRunOut

=============================================================================
