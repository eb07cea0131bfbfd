\* Three domains, of which one has two versions, and two transactions.
CONSTANTS
    base = base
    rates = rates
    plan = plan
    q1 = q1
    q2 = q2
    q3 = q3
    NoRequest = NoRequest
    Domain <- Domains
    Requires <- Shared
    Position <- Alphabet
    MaxVersion = 2
    Limit <- BaseTwice
    Request <- TwoRequests
SPECIFICATION Spec
SYMMETRY Symmetry
INVARIANT OnlyNewestActive
INVARIANT NoDeadlock
PROPERTY SeriesKept
PROPERTY InputsStay
