----------------------------- MODULE TableSteps -----------------------------
(***************************************************************************)
(* The changes that transactions make to the rows of one dataset version,  *)
(* each as one step that looks at the rows as they are: what the locks of  *)
(* the transactions are for.                                               *)
(***************************************************************************)
EXTENDS LifecycleCommands

Dispatchable(j) == job[j] \in {"PENDING", "FAILED"}

\* A Run request creates the next attempt; the first of a version freezes it.
CreateAttempt(j, n) ==
    /\ (dataset = "DRAFT" /\ ~ frozen) \/ (dataset = "BUILDING" /\ frozen)
    /\ Dispatchable(j)
    /\ ~ HasActive(j) /\ NextNumber(j, n) /\ InsertPrepared(j, n)
    /\ dataset' = "BUILDING"
    /\ frozen' = TRUE
    /\ UNCHANGED job

\* An open attempt of a version that is building moves on, alone.
MoveAttempt(j, n, from, to) ==
    /\ dataset = "BUILDING"
    /\ ~ HasNewer(j, n)
    /\ Dispatchable(j)
    /\ attempt[j][n] = from
    /\ attempt' = [attempt EXCEPT ![j][n] = to]
    /\ UNCHANGED <<dataset, frozen, job>>

StartDispatch(j, n) == MoveAttempt(j, n, "PREPARED", "DISPATCHING")
FailDispatch(j, n) == MoveAttempt(j, n, "DISPATCHING", "DISPATCH_FAILED")

\* The attempt and its job move together: the run is known to be in progress,
\* or it has its result.
MoveBoth(j, n, s) ==
    /\ dataset = "BUILDING"
    /\ ~ HasNewer(j, n)
    /\ \/ attempt[j][n] = "DISPATCHING" /\ Dispatchable(j)
       \/ attempt[j][n] = "ACCEPTED" /\ job[j] = "RUNNING" /\ s # "RUNNING"
    /\ attempt' = [attempt EXCEPT ![j][n] = IF s = "RUNNING" THEN "ACCEPTED" ELSE s]
    /\ job' = [job EXCEPT ![j] = s]
    /\ UNCHANGED <<dataset, frozen>>

TableStep ==
    \/ SubmitValidation \/ Publish \/ Reject \/ Abandon
    \/ \E j \in Job, n \in Number :
          \/ CreateAttempt(j, n) \/ StartDispatch(j, n) \/ FailDispatch(j, n)
          \/ \E s \in Terminal \cup {"RUNNING"} : MoveBoth(j, n, s)

TablesSpec == TablesInit /\ [][TableStep]_tableVars

----------------------------------------------------------------------------
(* What the rows say together *)

\* A job's status and its attempts, written by different transactions of
\* different requests, always tell the same story.
JobTellsAttempts ==
    \A j \in Job :
        /\ job[j] = "RUNNING" <=> \E n \in Number : attempt[j][n] = "ACCEPTED"
        /\ job[j] = "SUCCEEDED" <=> \E n \in Number : attempt[j][n] = "SUCCEEDED"
        /\ job[j] = "PENDING" => \A n \in Number : attempt[j][n] # "FAILED"
        /\ job[j] = "FAILED" => \E n \in Number : attempt[j][n] = "FAILED"

\* Only the newest attempt of a job may still be open or have succeeded.
OnlyNewestOpen ==
    \A j \in Job, n \in Number :
        attempt[j][n] \in Active \cup {"SUCCEEDED"} => ~ HasNewer(j, n)

\* What the version's status says of its rows.
VersionTells ==
    /\ dataset = "DRAFT" => ~ frozen
    /\ dataset \in {"BUILDING", "VALIDATING", "PUBLISHED", "REJECTED"} => frozen
    /\ \A j \in Job : HasActive(j) => dataset = "BUILDING"
    /\ \A j \in Job, n \in Number : attempt[j][n] # "ABSENT" => frozen
    /\ dataset \in {"VALIDATING", "PUBLISHED", "REJECTED"} =>
          \A j \in Job : job[j] = "SUCCEEDED"

\* What the rows say together is kept by every single step.
TablesConsistent ==
    /\ TablesTypeOK
    /\ OnlyNewestOpen
    /\ JobTellsAttempts
    /\ VersionTells

\* The history of closed attempts is never rewritten.
HistoryImmutable ==
    [][\A j \in Job, n \in Number :
          attempt[j][n] \in Closed => attempt'[j][n] = attempt[j][n]]_tableVars

\* A retry is allocated only when every earlier attempt ended without success.
RetryOnlyAfterFailure ==
    [][\A j \in Job, n \in Number :
          attempt[j][n] = "ABSENT" /\ attempt'[j][n] # "ABSENT" =>
              \A m \in 1 .. (n - 1) : attempt[j][m] \in {"FAILED", "DISPATCH_FAILED"}]_tableVars

=============================================================================
