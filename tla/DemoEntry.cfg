\* Two requests for a session, three addresses of which a limiter knows two, and
\* a capacity that overlapping creations reach.
CONSTANTS
    r1 = r1
    r2 = r2
    a1 = a1
    a2 = a2
    a3 = a3
    s1 = s1
    s2 = s2
    s3 = s3
    s4 = s4
    s5 = s5
    NoSession = NoSession
    Nobody = Nobody
    Gone = Gone
    Request <- TwoRequests
    Address <- ThreeAddresses
    Session <- FiveCandidates
    Foreign <- OneForeign
    CreatesPerMinute = 1
    MutationsPerMinute = 2
    GlobalPerMinute = 3
    MaxKeys = 2
    ActiveCapacity = 2
    RetainedCapacity = 3
    MaxCandidates = 2
    MaxWindow = 4
SYMMETRY Interchangeable
SPECIFICATION Spec
INVARIANT LimitsExact
INVARIANT CapacityKept
INVARIANT CredentialBacked
