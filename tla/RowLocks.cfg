\* Two transactions of any kind on two jobs with two attempts each.
CONSTANTS
    j1 = j1
    j2 = j2
    t1 = t1
    t2 = t2
    NoJob = NoJob
    NoTransaction = NoTransaction
    Job <- TwoJobs
    Transaction <- TwoTransactions
    JobOrder <- ById
    TypeOrder <- ByType
    MaxOrder = 1
    MaxAttempts = 2
SPECIFICATION Spec
SYMMETRY Symmetry
INVARIANT NoDeadlock
PROPERTY Serialized
