\* Two sessions, a reset, maintenance and an operation; connections fail and
\* the process restarts.
CONSTANTS
    s1 = s1
    s2 = s2
    o1 = o1
    o2 = o2
    o3 = o3
    o4 = o4
    k1 = k1
    k2 = k2
    m1 = m1
    NoSession = NoSession
    NoOperation = NoOperation
    NoCleaner = NoCleaner
    Session <- TwoSessions
    Operation <- OneOperation
    Resetter <- OneReset
    Sweeper <- OneMaintenance
    Cleaner <- ResetAndMaintenance
    Faults <- RestartFaults
    ActiveCapacity = 2
    RetainedCapacity = 2
    MaxExecutors = 1
    MaxOperations = 3
    MaxParallel = 2
    MaxSessions = 2
SPECIFICATION Spec
SYMMETRY Symmetry
INVARIANT ResetAlone
INVARIANT UndecidedIsReserved
INVARIANT NoOperationOnRevoked
INVARIANT ExecutorReleased
PROPERTY ReleasedKnowing
