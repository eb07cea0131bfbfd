--------------------------- MODULE DatasetSeries ---------------------------
(***************************************************************************)
(* The series of one company and period, one for each domain, their        *)
(* versions, and the transactions that create a version, freeze the inputs *)
(* of its build, and decide it.  Every lock they wait for is a step.       *)
(***************************************************************************)
EXTENDS Integers, FiniteSets

CONSTANTS
    Domain,      \* the domains
    Requires,    \* the domains that the dependency definitions of one require
    Position,    \* the order of the domains' names
    MaxVersion,  \* bound on the versions of a series
    Limit,       \* bound on the versions that one domain creates
    Request, NoRequest

ASSUME SeriesAssumption ==
    /\ Domain # {}
    /\ Requires \in [Domain -> SUBSET Domain]
    /\ Position \in [Domain -> Nat]
    /\ MaxVersion \in Nat
    /\ Limit \in [Domain -> 0 .. MaxVersion]
    /\ NoRequest \notin Request

VARIABLES
    last,        \* last_allocated_version; 0 when the series does not exist
    version,     \* the status of its versions
    frozen,      \* the snapshot's version of each required domain, or 0
    seriesLock,  \* FOR UPDATE of the series' row, or its uncommitted insertion
    typeLock,    \* FOR UPDATE of the domain's calculation types
    request      \* the transactions

vars == <<last, version, frozen, seriesLock, typeLock, request>>

Number == 1 .. MaxVersion
ActiveStatus == {"DRAFT", "BUILDING", "VALIDATING"}
VersionStatus == ActiveStatus \cup {"NONE", "PUBLISHED", "REJECTED", "ABANDONED"}
Command == {"PUBLISHED", "REJECTED", "ABANDONED"}
Phase == {"idle", "create", "test", "insert", "type", "series", "freeze", "lock", "decide"}

RequestRecord == [pc : Phase,
                  domain : Domain,
                  number : 0 .. MaxVersion,
                  command : Command,
                  todo : SUBSET Domain,                    \* series still to lock
                  picked : [Domain -> 0 .. MaxVersion]]    \* what it will freeze

TypeOK ==
    /\ last \in [Domain -> 0 .. MaxVersion]
    /\ version \in [Domain -> [Number -> VersionStatus]]
    /\ frozen \in [Domain -> [Number -> [Domain -> 0 .. MaxVersion]]]
    /\ seriesLock \in [Domain -> Request \cup {NoRequest}]
    /\ typeLock \in [Domain -> Request \cup {NoRequest}]
    /\ request \in [Request -> RequestRecord]

NoInputs == [u \in Domain |-> 0]
Idle == [pc |-> "idle", domain |-> CHOOSE d \in Domain : TRUE, number |-> 0,
         command |-> "PUBLISHED", todo |-> {}, picked |-> NoInputs]

Init ==
    /\ last = [d \in Domain |-> 0]
    /\ version = [d \in Domain |-> [n \in Number |-> "NONE"]]
    /\ frozen = [d \in Domain |-> [n \in Number |-> NoInputs]]
    /\ seriesLock = [d \in Domain |-> NoRequest]
    /\ typeLock = [d \in Domain |-> NoRequest]
    /\ request = [r \in Request |-> Idle]

\* The next series that a request locks.
NextSeries(r, u) ==
    /\ u \in request[r].todo
    /\ \A v \in request[r].todo : Position[u] <= Position[v]

HasActive(d) == \E n \in Number : version[d][n] \in ActiveStatus

\* ORDER BY version DESC LIMIT 1
Newest(d) ==
    LET published == {n \in Number : version[d][n] = "PUBLISHED"} IN
    IF published = {} THEN 0 ELSE CHOOSE n \in published : \A m \in published : m <= n

Begin(r, pc, d, n) ==
    /\ request[r].pc = "idle"
    /\ request' = [request EXCEPT ![r] = [@ EXCEPT !.pc = pc, !.domain = d, !.number = n]]
    /\ UNCHANGED <<last, version, frozen, seriesLock, typeLock>>

\* COMMIT or ROLLBACK releases the locks.
End(r) ==
    /\ seriesLock' = [d \in Domain |-> IF seriesLock[d] = r THEN NoRequest ELSE seriesLock[d]]
    /\ typeLock' = [d \in Domain |-> IF typeLock[d] = r THEN NoRequest ELSE typeLock[d]]
    /\ request' = [request EXCEPT ![r] = Idle]

LockSeries(r, d) ==
    /\ seriesLock[d] = NoRequest
    /\ seriesLock' = [seriesLock EXCEPT ![d] = r]

----------------------------------------------------------------------------
(* createDatasetVersionService *)

BeginCreate(r, d) == Begin(r, "create", d, 0)

\* INSERT ... ON CONFLICT waits for an uncommitted insertion, FOR UPDATE for a lock.
CreateLock(r) ==
    /\ request[r].pc = "create"
    /\ LockSeries(r, request[r].domain)
    /\ request' = [request EXCEPT ![r].pc = "test"]
    /\ UNCHANGED <<last, version, frozen, typeLock>>

\* Mutant: a version under validation does not count as active.
CreateBesideValidating(r) ==
    /\ request[r].pc = "test"
    /\ \A n \in Number : version[request[r].domain][n] \notin {"DRAFT", "BUILDING"}
    /\ last[request[r].domain] < Limit[request[r].domain]
    /\ request' = [request EXCEPT ![r].pc = "insert"]
    /\ UNCHANGED <<last, version, frozen, seriesLock, typeLock>>

\* The bound on the versions is the model's.
CreateTest(r) ==
    /\ request[r].pc = "test"
    /\ ~ HasActive(request[r].domain)
    /\ last[request[r].domain] < Limit[request[r].domain]
    /\ request' = [request EXCEPT ![r].pc = "insert"]
    /\ UNCHANGED <<last, version, frozen, seriesLock, typeLock>>

CreateRefused(r) ==
    /\ request[r].pc = "test"
    /\ HasActive(request[r].domain) \/ last[request[r].domain] = Limit[request[r].domain]
    /\ End(r)
    /\ UNCHANGED <<last, version, frozen>>

\* The jobs refer to the calculation types, whose rows must not be locked.
CreateVersion(r) ==
    LET d == request[r].domain  n == last[d] + 1 IN
    /\ request[r].pc = "insert"
    /\ typeLock[d] = NoRequest
    /\ last' = [last EXCEPT ![d] = n]
    /\ version' = [version EXCEPT ![d][n] = "DRAFT"]
    /\ End(r)
    /\ UNCHANGED frozen

----------------------------------------------------------------------------
(* prepareCalculationJobRunService on a version that is not frozen *)

\* The context is read without locks.
BeginPrepare(r, d, n) == version[d][n] = "DRAFT" /\ Begin(r, "type", d, n)

\* Mutant: the version's own series is locked with the others.
PrepareTypeWithSeries(r) ==
    LET d == request[r].domain IN
    /\ request[r].pc = "type"
    /\ typeLock[d] = NoRequest
    /\ typeLock' = [typeLock EXCEPT ![d] = r]
    /\ request' = [request EXCEPT ![r] = [@ EXCEPT !.pc = "series", !.todo = Requires[d] \cup {d}]]
    /\ UNCHANGED <<last, version, frozen, seriesLock>>

PrepareType(r) ==
    LET d == request[r].domain IN
    /\ request[r].pc = "type"
    /\ typeLock[d] = NoRequest
    /\ typeLock' = [typeLock EXCEPT ![d] = r]
    /\ request' = [request EXCEPT ![r] = [@ EXCEPT !.pc = "series", !.todo = Requires[d]]]
    /\ UNCHANGED <<last, version, frozen, seriesLock>>

\* A series that does not exist is remembered as missing, not waited for.
PrepareSeries(r, u) ==
    /\ request[r].pc = "series"
    /\ NextSeries(r, u)
    /\ IF last[u] = 0 THEN UNCHANGED seriesLock ELSE LockSeries(r, u)
    /\ request' = [request EXCEPT ![r].todo = @ \ {u}]
    /\ UNCHANGED <<last, version, frozen, typeLock>>

\* The newest published version of each series, or 409.
PrepareResolve(r) ==
    LET needed == Requires[request[r].domain] IN
    /\ request[r].pc = "series" /\ request[r].todo = {}
    /\ IF \A u \in needed : seriesLock[u] = r /\ Newest(u) # 0
       THEN /\ request' = [request EXCEPT ![r] =
                              [@ EXCEPT !.pc = "freeze",
                                        !.picked = [u \in Domain |-> IF u \in needed THEN Newest(u) ELSE 0]]]
            /\ UNCHANGED <<seriesLock, typeLock>>
       ELSE End(r)
    /\ UNCHANGED <<last, version, frozen>>

\* Mutant: a version that another request has frozen is frozen again.
PrepareFreezeAgain(r) ==
    LET d == request[r].domain  n == request[r].number IN
    /\ request[r].pc = "freeze"
    /\ version[d][n] \in {"DRAFT", "BUILDING"}
    /\ version' = [version EXCEPT ![d][n] = "BUILDING"]
    /\ frozen' = [frozen EXCEPT ![d][n] = request[r].picked]
    /\ End(r)
    /\ UNCHANGED last

\* The version is locked and its status read again; what another request has
\* frozen is kept, and a decided version is not runnable.
PrepareFreeze(r) ==
    LET d == request[r].domain  n == request[r].number IN
    /\ request[r].pc = "freeze"
    /\ IF version[d][n] = "DRAFT"
       THEN /\ version' = [version EXCEPT ![d][n] = "BUILDING"]
            /\ frozen' = [frozen EXCEPT ![d][n] = request[r].picked]
       ELSE UNCHANGED <<version, frozen>>
    /\ End(r)
    /\ UNCHANGED last

----------------------------------------------------------------------------
(* Lifecycle commands *)

\* One transaction that locks the version's row only; its jobs have succeeded.
SubmitValidation(d, n) ==
    /\ version[d][n] = "BUILDING"
    /\ version' = [version EXCEPT ![d][n] = "VALIDATING"]
    /\ UNCHANGED <<last, frozen, seriesLock, typeLock, request>>

BeginDecide(r, d, n, c) ==
    /\ request[r].pc = "idle"
    /\ version[d][n] # "NONE"
    /\ request' = [request EXCEPT ![r] = [@ EXCEPT !.pc = "lock", !.domain = d, !.number = n,
                                                  !.command = c]]
    /\ UNCHANGED <<last, version, frozen, seriesLock, typeLock>>

\* Mutant: a decision locks the version only.
DecideWithoutSeries(r) ==
    /\ request[r].pc = "lock"
    /\ request' = [request EXCEPT ![r].pc = "decide"]
    /\ UNCHANGED <<last, version, frozen, seriesLock, typeLock>>

DecideLock(r) ==
    /\ request[r].pc = "lock"
    /\ LockSeries(r, request[r].domain)
    /\ request' = [request EXCEPT ![r].pc = "decide"]
    /\ UNCHANGED <<last, version, frozen, typeLock>>

Source(c) == IF c = "ABANDONED" THEN {"DRAFT", "BUILDING"} ELSE {"VALIDATING"}

\* Publish, Reject or Abandon; anything else is a conflict that changes nothing.
Decide(r) ==
    LET d == request[r].domain  n == request[r].number  c == request[r].command IN
    /\ request[r].pc = "decide"
    /\ version' = IF version[d][n] \in Source(c) THEN [version EXCEPT ![d][n] = c] ELSE version
    /\ End(r)
    /\ UNCHANGED <<last, frozen>>

\* A statement fails, a definition is missing or work is still active.
Rollback(r) ==
    /\ request[r].pc # "idle"
    /\ End(r)
    /\ UNCHANGED <<last, version, frozen>>

----------------------------------------------------------------------------

Arrival(r) ==
    \E d \in Domain :
        \/ BeginCreate(r, d)
        \/ \E n \in Number : BeginPrepare(r, d, n) \/ \E c \in Command : BeginDecide(r, d, n, c)

\* What a transaction under way does next.
Proceed(r) ==
    \/ CreateLock(r) \/ CreateTest(r) \/ CreateRefused(r) \/ CreateVersion(r)
    \/ PrepareType(r) \/ (\E u \in Domain : PrepareSeries(r, u)) \/ PrepareResolve(r) \/ PrepareFreeze(r)
    \/ DecideLock(r) \/ Decide(r)

Next ==
    \/ \E r \in Request : Arrival(r) \/ Proceed(r) \/ Rollback(r)
    \/ \E d \in Domain, n \in Number : SubmitValidation(d, n)

Spec == Init /\ [][Next]_vars

----------------------------------------------------------------------------
(* Safety *)

\* A series has one active version, and it is the newest: the test for an
\* active version and the allocation of a number hold against each other, so
\* versions are also published in the order of their numbers.
OnlyNewestActive ==
    \A d \in Domain, n \in Number : version[d][n] \in ActiveStatus => n = last[d]

\* A build is frozen on what is published at that moment in every required
\* series at once, although they are locked and read one after the other.
FrozenIsCurrent ==
    [][\A d \in Domain, n \in Number :
          version[d][n] = "DRAFT" /\ version'[d][n] = "BUILDING" =>
              \A u \in Requires[d] : Newest(u) # 0 /\ frozen'[d][n][u] = Newest(u)]_vars

\* What a build was frozen on stays: two first Runs that overlap freeze it
\* once, and none of its inputs is withdrawn.
InputsStay ==
    [][\A d \in Domain, n \in Number :
          version[d][n] \notin {"NONE", "DRAFT"} =>
              /\ frozen'[d][n] = frozen[d][n]
              /\ \A u \in Domain : frozen[d][n][u] # 0 => version'[u][frozen[d][n][u]] = "PUBLISHED"]_vars

----------------------------------------------------------------------------
(* Why: what a transaction relies on until it ends *)

\* Versions are numbered in the order of their creation, without gaps.
Allocated == \A d \in Domain, n \in Number : version[d][n] # "NONE" <=> n <= last[d]

\* The series is locked from the test for an active version to the insertion,
\* and nothing becomes active meanwhile.
Alone(r) ==
    LET d == request[r].domain IN
    /\ request[r].pc \in {"test", "insert", "decide"} => seriesLock[d] = r
    /\ request[r].pc = "insert" => ~ HasActive(d) /\ last[d] < Limit[d]

\* What was resolved is the newest until it is frozen.
Picked(r) ==
    request[r].pc = "freeze" =>
        \A u \in Domain :
            IF u \in Requires[request[r].domain]
            THEN /\ seriesLock[u] = r
                 /\ Newest(u) # 0
                 /\ request[r].picked[u] = Newest(u)
            ELSE request[r].picked[u] = 0

\* The inputs of a build are published versions.
InputsPublished ==
    \A d \in Domain, n \in Number, u \in Domain :
        frozen[d][n][u] # 0 => version[u][frozen[d][n][u]] = "PUBLISHED"

SeriesInv ==
    /\ TypeOK
    /\ Allocated
    /\ OnlyNewestActive
    /\ InputsPublished
    /\ \A r \in Request : Alone(r) /\ Picked(r)

----------------------------------------------------------------------------
(* What it implements *)

\* The status of the latest version while it is active.
Stage(d) ==
    IF last[d] # 0 /\ version[d][last[d]] \in ActiveStatus THEN version[d][last[d]] ELSE "CLOSED"

Inputs(d) == IF last[d] = 0 THEN NoInputs ELSE frozen[d][last[d]]

Promise == INSTANCE SeriesPromise WITH
    number <- last,
    stage <- [d \in Domain |-> Stage(d)],
    inputs <- [d \in Domain |-> Inputs(d)],
    published <- [d \in Domain |-> Newest(d)]

\* Through all their locks and stale reads, the transactions implement series
\* whose steps are atomic: one version is built at a time, all its inputs are
\* taken at one moment as the newest, and versions are published in order.
SeriesKept == Promise!Spec

\* Why: a version that was never frozen has no inputs.
DraftsUnfrozen ==
    \A d \in Domain, n \in Number :
        version[d][n] \in {"NONE", "DRAFT"} => frozen[d][n] = NoInputs

----------------------------------------------------------------------------
(* Deadlock *)

\* The lock that a request waits for is held by another.
WaitsFor(r, holder) ==
    /\ r # holder
    /\ \/ /\ request[r].pc \in {"create", "lock"}
          /\ seriesLock[request[r].domain] = holder
       \/ /\ request[r].pc \in {"type", "insert"}
          /\ typeLock[request[r].domain] = holder
       \/ /\ request[r].pc = "series"
          /\ \E u \in Domain : NextSeries(r, u) /\ last[u] # 0 /\ seriesLock[u] = holder

\* No transactions wait for each other's locks: PostgreSQL would have to abort
\* one of them.  Holds where no domain needs an input and an input's own input.
NoDeadlock ==
    \A group \in (SUBSET Request) \ {{}} :
        \E r \in group : \A holder \in group : ~ WaitsFor(r, holder)

=============================================================================
