-------------------------- MODULE ExecutionTables --------------------------
(***************************************************************************)
(* The rows of one dataset version: its status, whether its inputs are     *)
(* frozen (one build snapshot and every job's resolved definition, written *)
(* by one transaction), its calculation jobs and their attempts.           *)
(***************************************************************************)
EXTENDS ExecutionIdentity

VARIABLES
    dataset,  \* dataset_versions.status
    frozen,   \* the build snapshot and the resolved definitions exist
    job,      \* calculation_jobs.status
    attempt   \* execution_attempts.status by job and attempt_number

tableVars == <<dataset, frozen, job, attempt>>

DatasetStatus == {"DRAFT", "BUILDING", "VALIDATING", "PUBLISHED", "REJECTED", "ABANDONED"}
JobStatus == {"PENDING", "RUNNING", "SUCCEEDED", "FAILED"}
Active == {"PREPARED", "DISPATCHING", "ACCEPTED"}
Terminal == {"SUCCEEDED", "FAILED"}
Closed == Terminal \cup {"DISPATCH_FAILED"}
AttemptStatus == Active \cup Closed \cup {"ABSENT"}

TablesTypeOK ==
    /\ dataset \in DatasetStatus
    /\ frozen \in BOOLEAN
    /\ job \in [Job -> JobStatus]
    /\ attempt \in [Job -> [Number -> AttemptStatus]]

\* A created version: every job PENDING, no snapshot, no attempt.
TablesInit ==
    /\ dataset = "DRAFT"
    /\ frozen = FALSE
    /\ job = [j \in Job |-> "PENDING"]
    /\ attempt = [j \in Job |-> [n \in Number |-> "ABSENT"]]

HasActive(j) == \E n \in Number : attempt[j][n] \in Active

\* hasNewerExecutionAttempt
HasNewer(j, n) == \E m \in Number : m > n /\ attempt[j][m] # "ABSENT"

\* allocateNextAttemptNumber: MAX(attempt_number) + 1; attempts are never
\* deleted, so the numbers below it are all taken
NextNumber(j, n) == \A m \in Number : attempt[j][m] = "ABSENT" <=> m >= n

\* insertPreparedExecutionAttempt
InsertPrepared(j, n) == attempt' = [attempt EXCEPT ![j][n] = "PREPARED"]

=============================================================================
