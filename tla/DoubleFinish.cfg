\* What the comment at resolve says of maintenance; violated.
CONSTANTS
    s1 = s1
    s2 = s2
    o1 = o1
    o2 = o2
    o3 = o3
    o4 = o4
    k1 = k1
    k2 = k2
    m1 = m1
    NoSession = NoSession
    NoOperation = NoOperation
    NoCleaner = NoCleaner
    Session <- TwoSessions
    Operation <- None
    Resetter <- TwoResets
    Sweeper <- OneMaintenance
    Cleaner <- ResetsAndMaintenance
    Faults <- DatabaseFaults
    ActiveCapacity = 2
    RetainedCapacity = 2
    MaxExecutors = 1
    MaxOperations = 3
    MaxParallel = 2
    MaxSessions = 2
SPECIFICATION Spec
INVARIANT FinishedOnce
