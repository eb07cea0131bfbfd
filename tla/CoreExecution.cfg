\* Two overlapping simulated Run requests, one reconciliation and one retry of
\* one job, with a failing database and restarts of the process.
CONSTANTS
    r1 = r1
    r2 = r2
    c1 = c1
    j1 = j1
    j2 = j2
    NoJob = NoJob
    Job <- OneJob
    MaxAttempts = 2
    Caller <- TwoCallers
    Checker <- OneChecker
    Simulated = TRUE
    Faults <- CoreFaults
    RoutingAttempts = 2
SPECIFICATION Spec
SYMMETRY Symmetry
INVARIANT RejectedNeverRuns
INVARIANT NoContradiction
INVARIANT ObservationsAgree
INVARIANT NoUnknownAfterRejection
INVARIANT Consistent
INVARIANT NoDuplicateRun
PROPERTY CreatedOnlyWhileDispatching
PROPERTY RetryOnlyAfterFailure
PROPERTY PromiseKept
PROPERTY TablesStepped
PROPERTY StepsRunOut
