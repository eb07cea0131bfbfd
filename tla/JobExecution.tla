---------------------------- MODULE JobExecution ----------------------------
(***************************************************************************)
(* The execution of one dataset version's jobs: concurrent Run requests,   *)
(* reconciliations, lifecycle commands, the executor and the end of its    *)
(* runs, and restarts of the process, interleaved at transaction, lock-    *)
(* wait and executor-call granularity.                                     *)
(***************************************************************************)
EXTENDS RunRequests, Reconciliation, TableSteps

vars == <<tableVars, executorVars, run, check>>

Init == TablesInit /\ ExecutorInit /\ RunInit /\ CheckInit

\* The process stops and starts again: every request is gone, and so is the
\* executor's memory; the tables stay.
Restart ==
    /\ "restart" \in Faults
    /\ ForgetExecutions
    /\ run' = [r \in Caller |-> Idle]
    /\ check' = [c \in Checker |-> NoCheck]
    /\ UNCHANGED tableVars

LifecycleCommand ==
    /\ SubmitValidation \/ Publish \/ Reject \/ Abandon
    /\ UNCHANGED <<executorVars, run, check>>

ExecutorProgress ==
    /\ \E j \in Job, n \in Number, s \in Terminal : SetExecutionState(j, n, s)
    /\ UNCHANGED <<tableVars, run, check>>

Next ==
    \/ \E r \in Caller : (RunStep(r) \/ \E j \in Job : RunRequest(r, j)) /\ UNCHANGED check
    \/ \E c \in Checker :
          /\ \/ CheckStep(c)
             \/ \E j \in Job, n \in Number : Callback(c, j, n) \/ ManualCheck(c, j, n)
          /\ UNCHANGED run
    \/ LifecycleCommand
    \/ ExecutorProgress
    \/ Restart

Spec == Init /\ [][Next]_vars

TypeOK == TablesTypeOK /\ ExecutorTypeOK /\ RunTypeOK /\ CheckTypeOK

----------------------------------------------------------------------------
(* Safety *)

\* At most one external run is in progress for a job, whatever the races
\* between overlapping Run requests, lost answers, retries and restarts, and
\* it belongs to an attempt the tables still watch.
NoDuplicateRun ==
    \A j \in Job, n \in Number :
        execution[j][n] = "RUNNING" =>
            /\ attempt[j][n] \in {"DISPATCHING", "ACCEPTED"}
            /\ \A m \in Number \ {n} : execution[j][m] # "RUNNING"

\* A dispatch recorded as definitely failed has no run, and no request still
\* under way can create one: what lets a retry use a new identity.
RejectedNeverRuns ==
    \A j \in Job, n \in Number :
        attempt[j][n] = "DISPATCH_FAILED" =>
            /\ execution[j][n] = "NONE"
            /\ \A r \in Caller :
                  (run[r].pc = "dispatch" /\ run[r].job = j /\ run[r].num = n)
                      => n \in rejected[j]

\* A version leaves BUILDING only when no attempt is open and no external run
\* is in progress, and a version that was submitted has all its results.
DecidedVersionIsQuiet ==
    dataset \in {"VALIDATING", "PUBLISHED", "REJECTED", "ABANDONED"} =>
        /\ \A j \in Job : ~ HasActive(j)
        /\ \A j \in Job, n \in Number : execution[j][n] # "RUNNING"
        /\ dataset # "ABANDONED" => \A j \in Job : job[j] = "SUCCEEDED"

\* Apart from the races below, no assertion of the Run, reconciliation and
\* lifecycle services can fail: no interleaving of requests, results and
\* restarts brings one of them to tables it calls contradictory.
NoContradiction ==
    /\ \A r \in Caller : ~ RunContradiction(r)
    /\ \A c \in Checker : ~ CheckContradiction(c)
    /\ ~ SubmitContradiction /\ ~ AbandonContradiction

\* An executor whose results do not change is never contradicted by an
\* observation, however late the observation is applied.
ObservationsAgree == "flip" \notin Faults => \A c \in Checker : check[c].pc # "failed"

\* Two dispatch calls that both observe the permanent rejection converge on
\* the DISPATCH_FAILED attempt, whatever happened since the first recording.
RejectionConverges ==
    \A r \in Caller : run[r].answer \notin {"reject", "recordOutsideBuilding"}

\* A late answer without a run is not recorded after DISPATCH_FAILED.
NoUnknownAfterRejection ==
    \A r \in Caller : run[r].answer # "unknown"

----------------------------------------------------------------------------
(* Why it is safe: the inductive invariant *)

\* What the executor knows of an identity, the tables know too.
ExecutorTells ==
    \A j \in Job, n \in Number :
        /\ execution[j][n] # "NONE" =>
              attempt[j][n] \in {"DISPATCHING", "ACCEPTED", "SUCCEEDED", "FAILED"}
        /\ n \in rejected[j] =>
              attempt[j][n] \in {"DISPATCHING", "DISPATCH_FAILED"} /\ execution[j][n] = "NONE"
        /\ attempt[j][n] \in Terminal => execution[j][n] # "RUNNING"
        /\ pending[j][n] # {} => n \notin rejected[j]

\* A request between its transactions still holds what it needs of the tables
\* and of the executor: the dispatch of an attempt that was decided meanwhile
\* creates nothing, and the answer it records was true and stays so.
RequestHolds(r) ==
    LET j == run[r].job  n == run[r].num IN
    /\ run[r].pc # "idle" => j \in Job
    /\ run[r].pc \in {"begin", "beginTx", "dispatch", "record"} =>
          n \in Number /\ attempt[j][n] # "ABSENT"
    /\ run[r].pc \in {"dispatch", "record"} =>
          /\ attempt[j][n] # "PREPARED"
          /\ attempt[j][n] = "DISPATCH_FAILED" => n \in rejected[j]
    /\ run[r].pc = "dispatch" /\ attempt[j][n] \in {"ACCEPTED", "SUCCEEDED", "FAILED"} =>
          execution[j][n] # "NONE"
    /\ run[r].pc = "record" =>
          /\ run[r].answer \in {"ACCEPTED", "ALREADY_EXISTS"} => execution[j][n] # "NONE"
          /\ run[r].answer = "REJECTED" => n \in rejected[j]
          /\ Simulated /\ run[r].answer = "UNKNOWN" =>
                execution[j][n] # "NONE" \/ r \in pending[j][n]

\* A reconciliation applies an observation of a run that still exists.
CheckHolds(c) ==
    LET j == check[c].job  n == check[c].num IN
    /\ check[c].pc \in {"read", "lookup", "apply"} =>
          j \in Job /\ n \in Number /\ attempt[j][n] # "ABSENT"
    /\ check[c].pc = "apply" =>
          /\ check[c].result # "NONE" /\ execution[j][n] # "NONE"
          /\ check[c].result \in Terminal => execution[j][n] \in Terminal

\* Tables, executor, requests and reconciliations, however their steps
\* interleave, agree on every attempt.
Consistent ==
    /\ TypeOK
    /\ TablesConsistent
    /\ ExecutorTells
    /\ \A r \in Caller : RequestHolds(r)
    /\ \A c \in Checker : CheckHolds(c)

----------------------------------------------------------------------------
(* Action properties *)

\* External work is only created for an attempt that is DISPATCHING in a
\* version that is BUILDING, although the request checked both two
\* transactions earlier and one of the checks reads a possibly stale row.
CreatedOnlyWhileDispatching ==
    [][\A j \in Job, n \in Number :
          execution[j][n] = "NONE" /\ execution'[j][n] # "NONE" =>
              attempt[j][n] = "DISPATCHING" /\ dataset = "BUILDING"]_vars

\* What the version promises its callers, as an abstract specification.
Promise == INSTANCE BuildPromise WITH
    working <- {j \in Job : \E n \in Number : execution[j][n] = "RUNNING"}

PromiseKept == Promise!Spec

\* A request decides in one transaction on what an earlier one has seen, and
\* still every write, seen at the rows alone, is a step that the rows allow as
\* they are then.
TablesStepped == TablesSpec

----------------------------------------------------------------------------
(* Liveness *)

\* An admitted request keeps running: the event loop and the database serve it.
FairSpec ==
    /\ Spec
    /\ \A r \in Caller : WF_vars(RunStep(r) /\ UNCHANGED check)
    /\ \A c \in Checker : WF_vars(CheckStep(c) /\ UNCHANGED run)

\* The steps that a request can still take: it passes the phases in this order,
\* once for every routing attempt that it has left.
PhasesLeft(pc) ==
    CASE pc = "idle" -> 0
      [] pc = "failed" -> 1
      [] pc = "record" -> 2
      [] pc = "dispatch" -> 3
      [] pc = "beginTx" -> 4
      [] pc = "begin" -> 5
      [] pc \in {"prepareTx", "retry"} -> 6
      [] pc = "prepare" -> 7
      [] pc = "route" -> 8

StepsLeft(r) ==
    IF run[r].pc = "idle" THEN 0
    ELSE 8 * (RoutingAttempts - 1 - run[r].tries) + PhasesLeft(run[r].pc)

\* Whatever race a request loses, each of its steps leaves it fewer, and no
\* step of another actor gives it more: the loop of routing attempts ends.
StepsRunOut ==
    [][\A r \in Caller :
          run[r].pc # "idle" /\ (RunStep(r) \/ run'[r] # run[r]) =>
              StepsLeft(r)' < StepsLeft(r)]_vars

\* Every Run request is answered: re-routing after lost races ends.
RunAnswered == \A r \in Caller : run[r].pc # "idle" ~> run[r].pc = "idle"

\* Assumed of the environment: an attempt that can be reconciled is asked
\* about again and again.
CallbacksRepeat == \A c \in Checker, j \in Job, n \in Number :
    SF_vars(Callback(c, j, n) /\ UNCHANGED run)

RepeatedCallbackSpec == FairSpec /\ CallbacksRepeat

\* A result the executor has reached is eventually recorded, whatever answer
\* of the dispatch was lost and whichever requests interfere.
ResultRecorded ==
    \A j \in Job, n \in Number :
        (execution[j][n] \in Terminal /\ attempt[j][n] \in {"DISPATCHING", "ACCEPTED"})
            ~> attempt[j][n] \in Terminal

=============================================================================
