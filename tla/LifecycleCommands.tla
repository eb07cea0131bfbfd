------------------------- MODULE LifecycleCommands -------------------------
(***************************************************************************)
(* The commands that decide a dataset version.  Each is one transaction    *)
(* that holds the version's row lock and, for Submit and Abandon, the row  *)
(* locks of all its jobs and attempts while it checks and writes.  A       *)
(* refused or repeated command writes nothing and is not a step.           *)
(***************************************************************************)
EXTENDS ExecutionTables

\* Mutant: one finished job is enough.
SubmitWithOneJob ==
    /\ dataset = "BUILDING"
    /\ \E j \in Job : job[j] = "SUCCEEDED" /\ ~ HasActive(j)
    /\ dataset' = "VALIDATING"
    /\ UNCHANGED <<frozen, job, attempt>>

\* A SUCCEEDED job with an active attempt fails an assertion.
SubmitValidation ==
    /\ dataset = "BUILDING"
    /\ \A j \in Job : job[j] = "SUCCEEDED" /\ ~ HasActive(j)
    /\ dataset' = "VALIDATING"
    /\ UNCHANGED <<frozen, job, attempt>>

Publish ==
    /\ dataset = "VALIDATING"
    /\ dataset' = "PUBLISHED"
    /\ UNCHANGED <<frozen, job, attempt>>

Reject ==
    /\ dataset = "VALIDATING"
    /\ dataset' = "REJECTED"
    /\ UNCHANGED <<frozen, job, attempt>>

\* Mutant: only the jobs are looked at, not their attempts.
AbandonIgnoringAttempts ==
    /\ dataset \in {"DRAFT", "BUILDING"}
    /\ \A j \in Job : job[j] # "RUNNING"
    /\ dataset' = "ABANDONED"
    /\ UNCHANGED <<frozen, job, attempt>>

\* A RUNNING job without an ACCEPTED attempt fails an assertion; any active
\* attempt refuses the command.
Abandon ==
    /\ dataset \in {"DRAFT", "BUILDING"}
    /\ \A j \in Job : job[j] # "RUNNING" /\ ~ HasActive(j)
    /\ dataset' = "ABANDONED"
    /\ UNCHANGED <<frozen, job, attempt>>

\* The assertions of the two commands that look at jobs and attempts.
SubmitContradiction ==
    dataset = "BUILDING" /\ \E j \in Job : job[j] = "SUCCEEDED" /\ HasActive(j)

AbandonContradiction ==
    /\ dataset \in {"DRAFT", "BUILDING"}
    /\ \E j \in Job : job[j] = "RUNNING" /\ \A n \in Number : attempt[j][n] # "ACCEPTED"

=============================================================================
