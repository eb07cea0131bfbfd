\* Two jobs of one version and the commands that decide the version, without a
\* simulation; finished runs that fake controls change, and an executor that
\* cannot always be asked.
CONSTANTS
    r1 = r1
    r2 = r2
    c1 = c1
    j1 = j1
    j2 = j2
    NoJob = NoJob
    Job <- TwoJobs
    MaxAttempts = 2
    Caller <- OneCaller
    Checker <- OneChecker
    Simulated = FALSE
    Faults <- FlippedResults
    RoutingAttempts = 2
SPECIFICATION Spec
SYMMETRY Symmetry
INVARIANT DecidedVersionIsQuiet
PROPERTY HistoryImmutable
