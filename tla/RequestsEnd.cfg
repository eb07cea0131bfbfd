\* Liveness of two overlapping Run requests and of reconciliation under
\* repeated callbacks; no symmetry.
CONSTANTS
    r1 = r1
    r2 = r2
    c1 = c1
    j1 = j1
    j2 = j2
    NoJob = NoJob
    Job <- OneJob
    MaxAttempts = 2
    Caller <- TwoCallers
    Checker <- OneChecker
    Simulated = TRUE
    Faults <- NoFaults
    RoutingAttempts = 2
SPECIFICATION RepeatedCallbackSpec
PROPERTY RunAnswered
PROPERTY ResultRecorded
