---------------------------- MODULE BuildPromise ----------------------------
(***************************************************************************)
(* What one dataset version promises its callers, without attempts,        *)
(* requests or an executor interface: where its status may go, and what    *)
(* must be true of its jobs and of the external work done for them.        *)
(***************************************************************************)
CONSTANT Job

VARIABLES
    dataset,  \* the version's status
    job,      \* each job's status
    working   \* the jobs for which an external run is in progress

vars == <<dataset, job, working>>

Init ==
    /\ dataset = "DRAFT"
    /\ job = [j \in Job |-> "PENDING"]
    /\ working = {}

\* The inputs are frozen.
Freeze ==
    /\ dataset = "DRAFT"
    /\ dataset' = "BUILDING"
    /\ UNCHANGED <<job, working>>

\* External work starts: only for a job that has no result that stands, only
\* while the version is building, and never twice at a time.
Launch(j) ==
    /\ dataset = "BUILDING"
    /\ job[j] \in {"PENDING", "FAILED"}
    /\ j \notin working
    /\ working' = working \cup {j}
    /\ UNCHANGED <<dataset, job>>

\* External work ends, or its record is lost with the executor's process.
Stop(gone) ==
    /\ gone \subseteq working
    /\ working' = working \ gone
    /\ UNCHANGED <<dataset, job>>

\* The job is known to run.
Confirm(j) ==
    /\ dataset = "BUILDING"
    /\ job[j] \in {"PENDING", "FAILED"}
    /\ job' = [job EXCEPT ![j] = "RUNNING"]
    /\ UNCHANGED <<dataset, working>>

\* The job has a result, and nothing works on it any more.
Settle(j, s) ==
    /\ dataset = "BUILDING"
    /\ job[j] # "SUCCEEDED"
    /\ j \notin working
    /\ s \in {"SUCCEEDED", "FAILED"}
    /\ job' = [job EXCEPT ![j] = s]
    /\ UNCHANGED <<dataset, working>>

Validate ==
    /\ dataset = "BUILDING"
    /\ \A j \in Job : job[j] = "SUCCEEDED"
    /\ working = {}
    /\ dataset' = "VALIDATING"
    /\ UNCHANGED <<job, working>>

Conclude ==
    /\ dataset = "VALIDATING"
    /\ dataset' \in {"PUBLISHED", "REJECTED"}
    /\ UNCHANGED <<job, working>>

\* Abandoning strands no work.
Abandon ==
    /\ dataset \in {"DRAFT", "BUILDING"}
    /\ \A j \in Job : job[j] # "RUNNING"
    /\ working = {}
    /\ dataset' = "ABANDONED"
    /\ UNCHANGED <<job, working>>

Next ==
    \/ Freeze \/ Validate \/ Conclude \/ Abandon
    \/ \E j \in Job : Launch(j) \/ Confirm(j) \/ \E s \in {"SUCCEEDED", "FAILED"} : Settle(j, s)
    \/ \E gone \in SUBSET Job : Stop(gone)

Spec == Init /\ [][Next]_vars

=============================================================================
