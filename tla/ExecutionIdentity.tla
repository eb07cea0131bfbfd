------------------------- MODULE ExecutionIdentity -------------------------
(***************************************************************************)
(* The identities shared by the orchestration tables and the executor.     *)
(* An execution attempt is known by its calculation job and its attempt    *)
(* number; its DAG id and DAG run id are generated once from it, so the    *)
(* pair also stands for the external identity of the attempt.              *)
(***************************************************************************)
EXTENDS Naturals

CONSTANTS
    Job,          \* the calculation jobs of one dataset version
    MaxAttempts,  \* bound: attempts allocated for one job
    NoJob         \* the job of a request slot that serves no request

ASSUME JobAssumption == Job # {} /\ NoJob \notin Job
ASSUME MaxAttemptsAssumption == MaxAttempts \in Nat \ {0}

Number == 1 .. MaxAttempts

=============================================================================
