---------------------------- MODULE FakeExecutor ----------------------------
(***************************************************************************)
(* The in-process executor: which identities have an external run, which   *)
(* are rejected for good, and which calls that reported an ambiguous       *)
(* outcome without a run are still being recorded by their caller.         *)
(* A dispatch decides synchronously, so each call is one step.             *)
(***************************************************************************)
EXTENDS ExecutionIdentity

CONSTANTS
    Caller,     \* the concurrent Run requests
    Simulated,  \* TRUE: calls carry a simulation (Demo); FALSE: legacy calls
    Faults      \* what may go wrong: "restart", "database", "flip", "unavailable"

ASSUME SimulatedAssumption == Simulated \in BOOLEAN

VARIABLES
    execution,  \* externalExecutions: the state of each run, or "NONE"
    rejected,   \* rejectedIdentities
    pending     \* pendingUnboundOutcomes: the calls that a count counts

executorVars == <<execution, rejected, pending>>

ExecutionState == {"RUNNING", "SUCCEEDED", "FAILED"}
Answer == {"ACCEPTED", "ALREADY_EXISTS", "REJECTED", "UNKNOWN"}

ExecutorTypeOK ==
    /\ execution \in [Job -> [Number -> ExecutionState \cup {"NONE"}]]
    /\ rejected \in [Job -> SUBSET Number]
    /\ pending \in [Job -> [Number -> SUBSET Caller]]

ExecutorInit ==
    /\ execution = [j \in Job |-> [n \in Number |-> "NONE"]]
    /\ rejected = [j \in Job |-> {}]
    /\ pending = [j \in Job |-> [n \in Number |-> {}]]

----------------------------------------------------------------------------
(* decideDispatch, one operator per outcome *)

Unseen(j, n) == execution[j][n] = "NONE" /\ n \notin rejected[j]

\* An existing run or a tombstone answers before any behavior is consulted.
AnswerDecided(j, n, answer) ==
    /\ \/ execution[j][n] # "NONE" /\ answer = "ALREADY_EXISTS"
       \/ execution[j][n] = "NONE" /\ n \in rejected[j] /\ answer = "REJECTED"
    /\ UNCHANGED executorVars

\* The ambiguous outcome without a run; only a simulated call is remembered.
Unbound(c, j, n, answer) ==
    /\ answer = "UNKNOWN"
    /\ pending' = IF Simulated THEN [pending EXCEPT ![j][n] = @ \cup {c}] ELSE pending
    /\ UNCHANGED <<execution, rejected>>

\* Mutants: no tombstone is left; an ambiguous outcome being recorded is ignored.
DecideRejectWithoutTombstone(c, j, n, answer) ==
    /\ Unseen(j, n)
    /\ IF pending[j][n] # {}
       THEN Unbound(c, j, n, answer)
       ELSE answer = "REJECTED" /\ UNCHANGED executorVars

DecideRejectIgnoringPending(c, j, n, answer) ==
    /\ Unseen(j, n)
    /\ answer = "REJECTED"
    /\ rejected' = [rejected EXCEPT ![j] = @ \cup {n}]
    /\ UNCHANGED <<execution, pending>>

\* REJECT is deferred while an ambiguous outcome of the identity is recording.
DecideReject(c, j, n, answer) ==
    /\ Unseen(j, n)
    /\ IF pending[j][n] # {}
       THEN Unbound(c, j, n, answer)
       ELSE /\ answer = "REJECTED"
            /\ rejected' = [rejected EXCEPT ![j] = @ \cup {n}]
            /\ UNCHANGED <<execution, pending>>

DecideUnknown(c, j, n, answer) == Unseen(j, n) /\ Unbound(c, j, n, answer)

\* Mutant: an existing run of the identity is replaced.
DecideCreateAgain(j, n, answer) ==
    /\ answer \in {"ACCEPTED", "UNKNOWN"}
    /\ \E s \in IF Simulated THEN ExecutionState ELSE {"RUNNING"} :
          execution' = [execution EXCEPT ![j][n] = s]
    /\ UNCHANGED <<rejected, pending>>

\* ACCEPT and ACCEPT_THEN_UNKNOWN; a simulation may ask for a finished run.
DecideCreate(j, n, answer) ==
    /\ Unseen(j, n)
    /\ answer \in {"ACCEPTED", "UNKNOWN"}
    /\ \E s \in IF Simulated THEN ExecutionState ELSE {"RUNNING"} :
          execution' = [execution EXCEPT ![j][n] = s]
    /\ UNCHANGED <<rejected, pending>>

\* The behavior of an unseen identity comes from the request, the script or
\* the default, which tests and demo sessions set freely: any behavior.
Decide(c, j, n, answer) ==
    \/ AnswerDecided(j, n, answer)
    \/ DecideReject(c, j, n, answer)
    \/ DecideUnknown(c, j, n, answer)
    \/ DecideCreate(j, n, answer)

\* finish(): the caller has recorded its outcome, whichever it was.
FinishCall(c) ==
    pending' = [j \in Job |-> [n \in Number |-> pending[j][n] \ {c}]]

----------------------------------------------------------------------------

\* A run ends, or a fake control sets it; "flip" lets a control change a run
\* that already ended.
SetExecutionState(j, n, s) ==
    /\ execution[j][n] # "NONE"
    /\ execution[j][n] = "RUNNING" \/ "flip" \in Faults
    /\ execution' = [execution EXCEPT ![j][n] = s]
    /\ UNCHANGED <<rejected, pending>>

\* All of the executor's state belongs to one process.
ForgetExecutions ==
    /\ execution' = [j \in Job |-> [n \in Number |-> "NONE"]]
    /\ rejected' = [j \in Job |-> {}]
    /\ pending' = [j \in Job |-> [n \in Number |-> {}]]

=============================================================================
