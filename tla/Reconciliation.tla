--------------------------- MODULE Reconciliation ---------------------------
(***************************************************************************)
(* One reconciliation of an attempt with the executor, started by hand or  *)
(* by a callback: read the attempt without locks, look its execution up    *)
(* while no transaction is open, then lock job and attempt, re-read the    *)
(* version, and apply the observation if it still fits.                    *)
(***************************************************************************)
EXTENDS ExecutionTables, FakeExecutor

CONSTANT Checker  \* the concurrent reconciliations

VARIABLE check    \* the reconciliations, by slot

CheckPhase == {"idle", "read", "lookup", "apply", "failed"}

CheckRequest == [pc : CheckPhase,
                 job : Job \cup {NoJob},
                 num : Number \cup {0},
                 seen : AttemptStatus,  \* phaseAContext.attemptStatus
                 result : ExecutionState \cup {"NONE"}]

CheckTypeOK == check \in [Checker -> CheckRequest]

NoCheck == [pc |-> "idle", job |-> NoJob, num |-> 0, seen |-> "ABSENT", result |-> "NONE"]

CheckInit == check = [c \in Checker |-> NoCheck]

EndCheck(c) == check' = [check EXCEPT ![c] = NoCheck]

\* invariant(...): the request answers 500 and changes nothing.
FailCheck(c) == check' = [check EXCEPT ![c] = [NoCheck EXCEPT !.pc = "failed"]]

StartCheck(c, j, n) ==
    check' = [check EXCEPT ![c] = [NoCheck EXCEPT !.pc = "read", !.job = j, !.num = n]]

----------------------------------------------------------------------------
(* choosing the attempt *)

\* The callback names an execution identity; its payload says nothing else.
Callback(c, j, n) ==
    /\ check[c].pc = "idle"
    /\ attempt[j][n] # "ABSENT"
    /\ StartCheck(c, j, n)
    /\ UNCHANGED <<tableVars, executorVars>>

Latest(j, n, statuses) ==
    /\ attempt[j][n] \in statuses
    /\ \A m \in Number : m > n => attempt[j][m] \notin statuses

\* The attempt the executor may know of, or the last result of a finished job.
ManualCheck(c, j, n) ==
    /\ check[c].pc = "idle"
    /\ \/ Latest(j, n, {"DISPATCHING", "ACCEPTED"})
       \/ /\ \A m \in Number : attempt[j][m] \notin {"DISPATCHING", "ACCEPTED"}
          /\ job[j] \in Terminal
          /\ Latest(j, n, Terminal)
    /\ StartCheck(c, j, n)
    /\ UNCHANGED <<tableVars, executorVars>>

----------------------------------------------------------------------------

\* Phase A.  PREPARED and DISPATCH_FAILED attempts are not reconcilable (409).
CheckRead(c) ==
    LET a == attempt[check[c].job][check[c].num] IN
    /\ check[c].pc = "read"
    /\ IF a \in Terminal \cup {"DISPATCHING", "ACCEPTED"}
       THEN check' = [check EXCEPT ![c] = [@ EXCEPT !.pc = "lookup", !.seen = a]]
       ELSE EndCheck(c)
    /\ UNCHANGED <<tableVars, executorVars>>

ReadContradiction(c) ==
    LET a == attempt[check[c].job][check[c].num] IN
    /\ check[c].pc = "read"
    /\ a \in Terminal \cup {"DISPATCHING", "ACCEPTED"}
    /\ dataset # "BUILDING" /\ (a \notin Terminal \/ dataset = "DRAFT")

\* No execution, or an executor that cannot be asked: 503, nothing changes.
CheckUnavailable(c) ==
    /\ check[c].pc = "lookup"
    /\ execution[check[c].job][check[c].num] = "NONE" \/ "unavailable" \in Faults
    /\ EndCheck(c)
    /\ UNCHANGED <<tableVars, executorVars>>

CheckLookup(c) ==
    LET e == execution[check[c].job][check[c].num] IN
    /\ check[c].pc = "lookup"
    /\ e # "NONE"
    /\ check' = [check EXCEPT ![c] = [@ EXCEPT !.pc = "apply", !.result = e]]
    /\ UNCHANGED <<tableVars, executorVars>>

----------------------------------------------------------------------------
(* applyReconciliation *)

\* RUNNING, observed before another reconciliation recorded the result.
StaleRunning(c) ==
    check[c].result = "RUNNING" /\ check[c].seen \in {"DISPATCHING", "ACCEPTED"}

\* Mutant: the latest observation replaces the result.
ApplyLatestToTerminal(c) ==
    LET j == check[c].job  n == check[c].num IN
    /\ check[c].pc = "apply"
    /\ attempt[j][n] \in Terminal
    /\ attempt' = [attempt EXCEPT ![j][n] = IF StaleRunning(c) THEN @ ELSE check[c].result]
    /\ EndCheck(c)
    /\ UNCHANGED <<dataset, frozen, job, executorVars>>

\* The attempt has its result: it is confirmed or contradicted, never changed.
ApplyToTerminal(c) ==
    LET a == attempt[check[c].job][check[c].num] IN
    /\ check[c].pc = "apply"
    /\ a \in Terminal
    /\ IF check[c].result = a \/ StaleRunning(c) THEN EndCheck(c) ELSE FailCheck(c)
    /\ UNCHANGED <<tableVars, executorVars>>

\* Mutant: the dispatch of a retry is not expected.
ApplicableFirstOnly(c) ==
    LET j == check[c].job  n == check[c].num  a == attempt[j][n] IN
    /\ check[c].pc = "apply"
    /\ dataset = "BUILDING"
    /\ ~ HasNewer(j, n)
    /\ \/ a = "DISPATCHING" /\ job[j] = "PENDING"
       \/ a = "ACCEPTED" /\ job[j] = "RUNNING"

\* The attempt is open, alone in its job, and its version is BUILDING.
Applicable(c) ==
    LET j == check[c].job  n == check[c].num  a == attempt[j][n] IN
    /\ check[c].pc = "apply"
    /\ dataset = "BUILDING"
    /\ ~ HasNewer(j, n)
    /\ \/ a = "DISPATCHING" /\ job[j] \in {"PENDING", "FAILED"}
       \/ a = "ACCEPTED" /\ job[j] = "RUNNING"

\* Mutant: only the attempt moves.
ApplyRunningOnAttempt(c) ==
    LET j == check[c].job  n == check[c].num IN
    /\ Applicable(c)
    /\ check[c].result = "RUNNING"
    /\ attempt' = [attempt EXCEPT ![j][n] = "ACCEPTED"]
    /\ EndCheck(c)
    /\ UNCHANGED <<dataset, frozen, job, executorVars>>

\* A lost acceptance is recovered: attempt and job move together.
ApplyRunning(c) ==
    LET j == check[c].job  n == check[c].num IN
    /\ Applicable(c)
    /\ check[c].result = "RUNNING"
    /\ attempt' = [attempt EXCEPT ![j][n] = "ACCEPTED"]
    /\ job' = [job EXCEPT ![j] = "RUNNING"]
    /\ EndCheck(c)
    /\ UNCHANGED <<dataset, frozen, executorVars>>

\* The result is recorded on attempt and job together.
ApplyResult(c) ==
    LET j == check[c].job  n == check[c].num IN
    /\ Applicable(c)
    /\ check[c].result \in Terminal
    /\ attempt' = [attempt EXCEPT ![j][n] = check[c].result]
    /\ job' = [job EXCEPT ![j] = check[c].result]
    /\ EndCheck(c)
    /\ UNCHANGED <<dataset, frozen, executorVars>>

\* An open attempt that the observation no longer fits, or a result that the
\* job does not share although no newer attempt owns it.
ApplyContradiction(c) ==
    LET j == check[c].job  n == check[c].num  a == attempt[j][n] IN
    /\ check[c].pc = "apply"
    /\ IF a \in Terminal
       THEN dataset = "DRAFT" \/ (~ HasNewer(j, n) /\ job[j] # a)
       ELSE ~ Applicable(c)

CheckContradiction(c) == ReadContradiction(c) \/ ApplyContradiction(c)

\* The 500 response is sent.
CheckRespondFailure(c) ==
    /\ check[c].pc = "failed"
    /\ EndCheck(c)
    /\ UNCHANGED <<tableVars, executorVars>>

\* The database fails: 500, and nothing was written.
CheckLost(c) ==
    /\ "database" \in Faults
    /\ check[c].pc # "idle"
    /\ EndCheck(c)
    /\ UNCHANGED <<tableVars, executorVars>>

CheckStep(c) ==
    \/ CheckRead(c) \/ CheckUnavailable(c) \/ CheckLookup(c)
    \/ ApplyToTerminal(c) \/ ApplyRunning(c) \/ ApplyResult(c)
    \/ CheckRespondFailure(c) \/ CheckLost(c)

=============================================================================
