----------------------- MODULE DatasetSeries_proofs -----------------------
(***************************************************************************)
(* Proofs about DatasetSeries, for any domains, dependencies, versions and *)
(* concurrent transactions.                                                *)
(***************************************************************************)
EXTENDS DatasetSeries, WellFoundedInduction, TLAPS

----------------------------------------------------------------------------
(* Operators *)

\* A transaction that is not under way is a typed record.
LEMMA IdleTyped == Idle \in RequestRecord
<1>1. (CHOOSE d \in Domain : TRUE) \in Domain
  BY SeriesAssumption
<1> QED
  BY <1>1, SeriesAssumption DEF Idle, RequestRecord, Phase, Command, NoInputs

\* A non-empty set of version numbers has a greatest.
LEMMA GreatestNumber ==
    ASSUME NEW S \in SUBSET Number, S # {}
    PROVE  \E n \in S : \A m \in S : m <= n
<1> DEFINE T == {MaxVersion - n : n \in S}
<1>1. T \subseteq Nat /\ T # {}
  <2>1. \A n \in S : n \in Number
    OBVIOUS
  <2>2. \A n \in Number : MaxVersion - n \in Nat
    BY SeriesAssumption DEF Number
  <2> QED
    BY <2>1, <2>2
<1> DEFINE R == OpToRel(<, Nat)
<1>2. \A x, y \in Nat : y < x => <<y, x>> \in R
  BY DEF OpToRel
<1>3. IsWellFoundedOn(R, Nat)
  BY NatLessThanWellFounded
<1> HIDE DEF R
<1>4. PICK x \in T : \A y \in T : ~ (<<y, x>> \in R)
  <2> HIDE DEF T
  <2> QED
    BY <1>1, <1>3, WFMin
<1>5. PICK n \in S : x = MaxVersion - n
  BY <1>4
<1>6. ASSUME NEW m \in S
      PROVE  m <= n
  <2>1. MaxVersion - m \in T /\ ~ (MaxVersion - m < x)
    BY <1>1, <1>2, <1>4
  <2> QED
    BY <2>1, <1>5, SeriesAssumption DEF Number
<1> QED
  BY <1>6

\* The newest published version of a series is one of its versions, and is
\* published (findLatestPublishedUpstreamVersion).
LEMMA NewestPublished ==
    ASSUME NEW d \in Domain, Newest(d) # 0
    PROVE  Newest(d) \in Number /\ version[d][Newest(d)] = "PUBLISHED"
<1> DEFINE P == {n \in Number : version[d][n] = "PUBLISHED"}
<1>1. P # {} /\ Newest(d) = CHOOSE n \in P : \A m \in P : m <= n
  BY DEF Newest
<1>2. \E n \in P : \A m \in P : m <= n
  <2>1. P \in SUBSET Number
    OBVIOUS
  <2> HIDE DEF P
  <2> QED
    BY <1>1, <2>1, GreatestNumber
<1>3. Newest(d) \in P
  BY <1>1, <1>2
<1> QED
  BY <1>3

\* What is published decides which version is the newest.
LEMMA SameNewest ==
    ASSUME NEW d \in Domain,
           \A n \in Number : version'[d][n] = "PUBLISHED" <=> version[d][n] = "PUBLISHED"
    PROVE  Newest(d)' = Newest(d)
<1> DEFINE old == {n \in Number : version[d][n] = "PUBLISHED"}
           new == {n \in Number : version'[d][n] = "PUBLISHED"}
           Greatest(S) == IF S = {} THEN 0 ELSE CHOOSE n \in S : \A m \in S : m <= n
<1>1. new = old
  OBVIOUS
<1>2. Newest(d) = Greatest(old) /\ Newest(d)' = Greatest(new)
  BY Zenon DEF Newest
<1> HIDE DEF old, new, Greatest
<1> QED
  BY <1>1, <1>2

\* The end of a transaction keeps the locks of the others (withTransaction).
LEMMA EndKeeps ==
    ASSUME TypeOK, NEW r \in Request, End(r)
    PROVE  /\ request' \in [Request -> RequestRecord]
           /\ seriesLock' \in [Domain -> Request \cup {NoRequest}]
           /\ typeLock' \in [Domain -> Request \cup {NoRequest}]
           /\ request'[r].pc = "idle"
           /\ \A q \in Request \ {r} :
                 /\ request'[q] = request[q]
                 /\ \A d \in Domain : seriesLock[d] = q => seriesLock'[d] = q
<1>1. request' = [request EXCEPT ![r] = Idle]
  BY DEF End
<1>2. request' \in [Request -> RequestRecord] /\ request'[r] = Idle
  BY <1>1, IdleTyped DEF TypeOK
<1>3. Idle.pc = "idle"
  BY DEF Idle
<1>4. /\ seriesLock' \in [Domain -> Request \cup {NoRequest}]
      /\ typeLock' \in [Domain -> Request \cup {NoRequest}]
  BY DEF End, TypeOK
<1>5. ASSUME NEW q \in Request \ {r}
      PROVE  /\ request'[q] = request[q]
             /\ \A d \in Domain : seriesLock[d] = q => seriesLock'[d] = q
  <2>1. request'[q] = request[q]
    BY <1>1 DEF TypeOK
  <2>2. \A d \in Domain : seriesLock[d] = q => seriesLock'[d] = q
    BY DEF End
  <2> QED
    BY <2>1, <2>2
<1> QED
  BY <1>2, <1>3, <1>4, <1>5

----------------------------------------------------------------------------
(* Steps that change no version *)

\* A step of one transaction that changes no version and keeps the locks of
\* the others keeps the invariant, if that transaction may rely on what it
\* does next.
LEMMA QuietStep ==
    ASSUME SeriesInv, NEW r \in Request,
           UNCHANGED <<last, version, frozen>>,
           request' \in [Request -> RequestRecord],
           seriesLock' \in [Domain -> Request \cup {NoRequest}],
           typeLock' \in [Domain -> Request \cup {NoRequest}],
           \A q \in Request \ {r} :
              /\ request'[q] = request[q]
              /\ \A d \in Domain : seriesLock[d] = q => seriesLock'[d] = q,
           Alone(r)', Picked(r)'
    PROVE  SeriesInv'
<1>1. TypeOK'
  BY DEF SeriesInv, TypeOK
<1>2. Allocated' /\ OnlyNewestActive' /\ InputsPublished'
  BY DEF SeriesInv, Allocated, OnlyNewestActive, InputsPublished
<1>3. \A d \in Domain : Newest(d)' = Newest(d) /\ HasActive(d)' = HasActive(d)
  BY DEF Newest, HasActive
<1>4. ASSUME NEW q \in Request \ {r}
      PROVE  Alone(q)' /\ Picked(q)'
  <2>1. Alone(q) /\ Picked(q) /\ request'[q] = request[q]
    BY DEF SeriesInv
  <2>2. request[q].domain \in Domain /\ Requires[request[q].domain] \subseteq Domain
    BY SeriesAssumption DEF SeriesInv, TypeOK, RequestRecord
  <2>3. Alone(q)'
    BY <2>1, <2>2, <1>3 DEF Alone
  <2>4. Picked(q)'
    BY <2>1, <2>2, <1>3 DEF Picked
  <2> QED
    BY <2>3, <2>4
<1> QED
  BY <1>1, <1>2, <1>4 DEF SeriesInv

\* A transaction that ends and changes no version keeps the invariant.
LEMMA EndStep ==
    ASSUME SeriesInv, NEW r \in Request, End(r), UNCHANGED <<last, version, frozen>>
    PROVE  SeriesInv'
<1>1. request'[r].pc = "idle"
  BY EndKeeps DEF SeriesInv
<1>2. Alone(r)' /\ Picked(r)'
  BY <1>1 DEF Alone, Picked
<1> QED
  BY <1>2, EndKeeps, QuietStep DEF SeriesInv

\* A transaction's record changes alone.
LEMMA OneRequest ==
    ASSUME TypeOK, NEW r \in Request, NEW record \in RequestRecord,
           request' = [request EXCEPT ![r] = record]
    PROVE  /\ request' \in [Request -> RequestRecord]
           /\ request'[r] = record
           /\ \A q \in Request \ {r} : request'[q] = request[q]
BY DEF TypeOK

\* A transaction that begins, waits or takes a lock keeps the invariant.
LEMMA LockStep ==
    ASSUME SeriesInv, NEW r \in Request, NEW record \in RequestRecord,
           record.pc \in {"create", "test", "type", "series", "lock", "decide"},
           record.pc \in {"test", "decide"} => seriesLock'[record.domain] = r,
           request' = [request EXCEPT ![r] = record],
           seriesLock' \in [Domain -> Request \cup {NoRequest}],
           typeLock' \in [Domain -> Request \cup {NoRequest}],
           \A q \in Request \ {r} : \A d \in Domain : seriesLock[d] = q => seriesLock'[d] = q,
           UNCHANGED <<last, version, frozen>>
    PROVE  SeriesInv'
<1>1. TypeOK
  BY DEF SeriesInv
<1>2. /\ request' \in [Request -> RequestRecord]
      /\ request'[r] = record
      /\ \A q \in Request \ {r} : request'[q] = request[q]
  BY <1>1, OneRequest
<1>3. Alone(r)'
  BY <1>2 DEF Alone
<1>4. Picked(r)'
  BY <1>2 DEF Picked
<1> QED
  BY <1>2, <1>3, <1>4, QuietStep

\* The lock of a series that nobody holds is taken from nobody.
LEMMA LockKeeps ==
    ASSUME TypeOK, NEW r \in Request, NEW d \in Domain, LockSeries(r, d)
    PROVE  /\ seriesLock' \in [Domain -> Request \cup {NoRequest}]
           /\ seriesLock'[d] = r
           /\ \A q \in Request \ {r} : \A u \in Domain : seriesLock[u] = q => seriesLock'[u] = q
BY SeriesAssumption DEF TypeOK, LockSeries

\* The lock of the series precedes the test for an active version and a
\* decision (findOrCreateAndLockDatasetSeries, lockTerminalDecisionDataset).
LEMMA OwnSeriesStep ==
    ASSUME SeriesInv, NEW r \in Request, CreateLock(r) \/ DecideLock(r)
    PROVE  SeriesInv'
<1>1. TypeOK /\ request[r] \in RequestRecord
  BY DEF SeriesInv, TypeOK
<1>2. PICK pc \in {"test", "decide"} : request' = [request EXCEPT ![r].pc = pc]
  BY DEF CreateLock, DecideLock
<1> DEFINE record == [request[r] EXCEPT !.pc = pc]
<1>3. /\ record \in RequestRecord
      /\ record.pc \in {"test", "decide"}
      /\ record.domain = request[r].domain
      /\ record.domain \in Domain
  BY <1>1 DEF RequestRecord, Phase
<1>4. request' = [request EXCEPT ![r] = record]
  BY <1>2
<1>5. LockSeries(r, record.domain) /\ UNCHANGED <<last, version, frozen, typeLock>>
  BY <1>3 DEF CreateLock, DecideLock
<1>6. typeLock' \in [Domain -> Request \cup {NoRequest}]
  BY <1>1, <1>5 DEF TypeOK
<1> HIDE DEF record
<1>7. /\ seriesLock' \in [Domain -> Request \cup {NoRequest}]
      /\ seriesLock'[record.domain] = r
      /\ \A q \in Request \ {r} : \A u \in Domain : seriesLock[u] = q => seriesLock'[u] = q
  BY <1>1, <1>3, <1>5, LockKeeps
<1> QED
  BY <1>3, <1>4, <1>5, <1>6, <1>7, LockStep

\* The version is inserted only if the test under the lock finds none active
\* (findActiveDatasetVersion).
LEMMA CreateTestStep ==
    ASSUME SeriesInv, NEW r \in Request, CreateTest(r)
    PROVE  SeriesInv'
<1> DEFINE record == [request[r] EXCEPT !.pc = "insert"]
<1>1. TypeOK /\ request[r] \in RequestRecord
  BY DEF SeriesInv, TypeOK
<1>2. /\ record \in RequestRecord
      /\ record.pc = "insert"
      /\ record.domain = request[r].domain
      /\ record.domain \in Domain
  BY <1>1 DEF RequestRecord, Phase
<1>3. request' = [request EXCEPT ![r] = record] /\ UNCHANGED <<last, version, frozen, seriesLock, typeLock>>
  BY DEF CreateTest
<1>4. seriesLock[record.domain] = r /\ ~ HasActive(record.domain) /\ last[record.domain] < Limit[record.domain]
  BY <1>2 DEF SeriesInv, Alone, CreateTest
<1> HIDE DEF record
<1>5. /\ request' \in [Request -> RequestRecord]
      /\ request'[r] = record
      /\ \A q \in Request \ {r} : request'[q] = request[q]
  BY <1>1, <1>2, <1>3, OneRequest
<1>6. Alone(r)' /\ Picked(r)'
  BY <1>2, <1>3, <1>4, <1>5 DEF Alone, Picked, HasActive
<1> QED
  BY <1>1, <1>3, <1>5, <1>6, QuietStep DEF TypeOK

\* A command arrives: nothing is locked yet.
LEMMA ArrivalStep ==
    ASSUME SeriesInv, NEW r \in Request, Arrival(r)
    PROVE  SeriesInv'
<1>1. TypeOK /\ request[r] \in RequestRecord
  BY DEF SeriesInv, TypeOK
<1>2. 0 \in 0 .. MaxVersion /\ \A n \in Number : n \in 0 .. MaxVersion
  BY SeriesAssumption DEF Number
<1>3. UNCHANGED <<last, version, frozen, seriesLock, typeLock>>
  BY DEF Arrival, BeginCreate, BeginPrepare, BeginDecide, Begin
<1>4. ASSUME NEW record \in RequestRecord, record.pc \in {"create", "type", "lock"},
             request' = [request EXCEPT ![r] = record]
      PROVE  SeriesInv'
  BY <1>1, <1>3, <1>4, LockStep DEF TypeOK
<1>5. ASSUME NEW d \in Domain, BeginCreate(r, d)
      PROVE  SeriesInv'
  <2> DEFINE record == [request[r] EXCEPT !.pc = "create", !.domain = d, !.number = 0]
  <2>1. record \in RequestRecord /\ record.pc = "create"
    BY <1>1, <1>2 DEF RequestRecord, Phase
  <2>2. request' = [request EXCEPT ![r] = record]
    BY <1>5 DEF BeginCreate, Begin
  <2> HIDE DEF record
  <2> QED
    BY <2>1, <2>2, <1>4
<1>6. ASSUME NEW d \in Domain, NEW n \in Number, BeginPrepare(r, d, n)
      PROVE  SeriesInv'
  <2> DEFINE record == [request[r] EXCEPT !.pc = "type", !.domain = d, !.number = n]
  <2>1. record \in RequestRecord /\ record.pc = "type"
    BY <1>1, <1>2 DEF RequestRecord, Phase
  <2>2. request' = [request EXCEPT ![r] = record]
    BY <1>6 DEF BeginPrepare, Begin
  <2> HIDE DEF record
  <2> QED
    BY <2>1, <2>2, <1>4
<1>7. ASSUME NEW d \in Domain, NEW n \in Number, NEW c \in Command, BeginDecide(r, d, n, c)
      PROVE  SeriesInv'
  <2> DEFINE record == [request[r] EXCEPT !.pc = "lock", !.domain = d, !.number = n, !.command = c]
  <2>1. record \in RequestRecord /\ record.pc = "lock"
    BY <1>1, <1>2 DEF RequestRecord, Phase
  <2>2. request' = [request EXCEPT ![r] = record]
    BY <1>7 DEF BeginDecide
  <2> HIDE DEF record
  <2> QED
    BY <2>1, <2>2, <1>4
<1> QED
  BY <1>5, <1>6, <1>7 DEF Arrival

\* A first Run locks the types of its domain (lockCalculationType) and then
\* the series that they require, one after the other
\* (lockUpstreamDatasetSeries).
LEMMA PrepareLockStep ==
    ASSUME SeriesInv, NEW r \in Request, PrepareType(r) \/ \E u \in Domain : PrepareSeries(r, u)
    PROVE  SeriesInv'
<1>1. TypeOK /\ request[r] \in RequestRecord
  BY DEF SeriesInv, TypeOK
<1>2. CASE PrepareType(r)
  <2> DEFINE record == [request[r] EXCEPT !.pc = "series", !.todo = Requires[request[r].domain]]
  <2>1. record \in RequestRecord /\ record.pc = "series"
    BY <1>1, SeriesAssumption DEF RequestRecord, Phase
  <2>2. request' = [request EXCEPT ![r] = record] /\ UNCHANGED <<last, version, frozen, seriesLock>>
    BY <1>2 DEF PrepareType
  <2>3. typeLock' \in [Domain -> Request \cup {NoRequest}]
    BY <1>1, <1>2 DEF PrepareType, TypeOK
  <2> HIDE DEF record
  <2> QED
    BY <1>1, <2>1, <2>2, <2>3, LockStep DEF TypeOK
<1>3. ASSUME NEW u \in Domain, PrepareSeries(r, u)
      PROVE  SeriesInv'
  <2> DEFINE record == [request[r] EXCEPT !.todo = @ \ {u}]
  <2>1. record \in RequestRecord /\ record.pc = "series"
    BY <1>1, <1>3 DEF RequestRecord, PrepareSeries
  <2>2. request' = [request EXCEPT ![r] = record] /\ UNCHANGED <<last, version, frozen, typeLock>>
    BY <1>3 DEF PrepareSeries
  <2> HIDE DEF record
  <2>3. /\ seriesLock' \in [Domain -> Request \cup {NoRequest}]
        /\ \A q \in Request \ {r} : \A d \in Domain : seriesLock[d] = q => seriesLock'[d] = q
    <3>1. CASE UNCHANGED seriesLock
      BY <1>1, <3>1 DEF TypeOK
    <3>2. CASE LockSeries(r, u)
      BY <1>1, <3>2, LockKeeps
    <3> QED
      BY <1>3, <3>1, <3>2 DEF PrepareSeries
  <2> QED
    BY <1>1, <2>1, <2>2, <2>3, LockStep DEF TypeOK
<1> QED
  BY <1>2, <1>3

\* The newest versions are read while all series are locked
\* (findLatestPublishedUpstreamVersion), or the Run is refused.
LEMMA PrepareResolveStep ==
    ASSUME SeriesInv, NEW r \in Request, PrepareResolve(r)
    PROVE  SeriesInv'
<1> DEFINE needed == Requires[request[r].domain]
           ready == \A u \in needed : seriesLock[u] = r /\ Newest(u) # 0
           picked == [u \in Domain |-> IF u \in needed THEN Newest(u) ELSE 0]
           record == [request[r] EXCEPT !.pc = "freeze", !.picked = picked]
<1>1. TypeOK /\ request[r] \in RequestRecord
  BY DEF SeriesInv, TypeOK
<1>2. UNCHANGED <<last, version, frozen>>
  BY DEF PrepareResolve
<1>3. CASE ~ ready
  <2>1. End(r)
    BY <1>3 DEF PrepareResolve
  <2> QED
    BY <1>2, <2>1, EndStep
<1>4. CASE ready
  <2>1. needed \subseteq Domain
    BY <1>1, SeriesAssumption DEF RequestRecord
  <2>2. \A u \in Domain : Newest(u) \in 0 .. MaxVersion
    <3>1. 0 \in 0 .. MaxVersion /\ \A n \in Number : n \in 0 .. MaxVersion
      BY SeriesAssumption DEF Number
    <3> QED
      BY <3>1, NewestPublished
  <2>3. picked \in [Domain -> 0 .. MaxVersion]
    <3>1. 0 \in 0 .. MaxVersion
      BY SeriesAssumption
    <3> QED
      BY <2>2, <3>1
  <2>4. request' = [request EXCEPT ![r] = record] /\ UNCHANGED <<seriesLock, typeLock>>
    BY <1>4 DEF PrepareResolve
  <2>5. \A u \in Domain : picked[u] = IF u \in needed THEN Newest(u) ELSE 0
    OBVIOUS
  <2> HIDE DEF picked
  <2>6. /\ record \in RequestRecord
        /\ record.pc = "freeze" /\ record.picked = picked /\ record.domain = request[r].domain
    BY <1>1, <2>3 DEF RequestRecord, Phase
  <2> HIDE DEF record
  <2>7. /\ request' \in [Request -> RequestRecord]
        /\ request'[r] = record
        /\ \A q \in Request \ {r} : request'[q] = request[q]
    BY <1>1, <2>4, <2>6, OneRequest
  <2>8. \A u \in Domain : Newest(u)' = Newest(u)
    BY <1>2, SameNewest
  <2>9. Alone(r)'
    BY <2>6, <2>7 DEF Alone
  <2>10. Picked(r)'
    BY <1>4, <2>4, <2>5, <2>6, <2>7, <2>8 DEF Picked
  <2> QED
    BY <1>1, <1>2, <2>4, <2>7, <2>9, <2>10, QuietStep DEF TypeOK
<1> QED
  BY <1>3, <1>4

----------------------------------------------------------------------------
(* Steps that change a version *)

\* Another transaction may go on relying on what it has read when one series
\* changes that it has not locked, or changes in nothing that it relies on.
LEMMA StillRelies ==
    ASSUME SeriesInv, NEW q \in Request, NEW d \in Domain,
           request'[q] = request[q],
           \A u \in Domain : seriesLock[u] = q => seriesLock'[u] = q,
           \A u \in Domain \ {d} : version'[u] = version[u] /\ last'[u] = last[u],
           \/ seriesLock[d] # q
           \/ /\ \A n \in Number : version'[d][n] = "PUBLISHED" <=> version[d][n] = "PUBLISHED"
              /\ \A n \in Number : version'[d][n] \in ActiveStatus => version[d][n] \in ActiveStatus
              /\ last'[d] = last[d]
    PROVE  Alone(q)' /\ Picked(q)'
<1>1. Alone(q) /\ Picked(q)
  BY DEF SeriesInv
<1>2. request[q].domain \in Domain /\ Requires[request[q].domain] \subseteq Domain
  BY SeriesAssumption DEF SeriesInv, TypeOK, RequestRecord
<1>3. ASSUME NEW u \in Domain, seriesLock[u] = q
      PROVE  /\ Newest(u)' = Newest(u)
             /\ HasActive(u)' => HasActive(u)
             /\ last'[u] = last[u]
  <2>1. CASE u # d
    <3>1. version'[u] = version[u] /\ last'[u] = last[u]
      BY <2>1
    <3>2. Newest(u)' = Newest(u)
      BY <3>1, SameNewest
    <3> QED
      BY <3>1, <3>2 DEF HasActive
  <2>2. CASE u = d
    <3>1. Newest(u)' = Newest(u)
      BY <1>3, <2>2, SameNewest
    <3> QED
      BY <1>3, <2>2, <3>1 DEF HasActive
  <2> QED
    BY <2>1, <2>2
<1>4. Alone(q)'
  BY <1>1, <1>2, <1>3 DEF Alone
<1>5. Picked(q)'
  BY <1>1, <1>2, <1>3 DEF Picked
<1> QED
  BY <1>4, <1>5

\* An input that is not 0 is a published version.
LEMMA InputNumber ==
    ASSUME SeriesInv, NEW e \in Domain, NEW m \in Number, NEW u \in Domain, frozen[e][m][u] # 0
    PROVE  version[u][frozen[e][m][u]] = "PUBLISHED" /\ frozen[e][m][u] \in Number
<1>1. frozen[e][m][u] \in 0 .. MaxVersion
  BY DEF SeriesInv, TypeOK
<1>2. frozen[e][m][u] \in Number
  BY <1>1, SeriesAssumption DEF Number
<1> QED
  BY <1>2 DEF SeriesInv, InputsPublished

\* The next number is allocated and the version inserted
\* (allocateNextDatasetVersion, insertDraftDatasetVersion).
LEMMA CreateVersionStep ==
    ASSUME SeriesInv, NEW r \in Request, CreateVersion(r)
    PROVE  SeriesInv'
<1> DEFINE d == request[r].domain
           n == last[d] + 1
<1>1. TypeOK /\ d \in Domain
  BY DEF SeriesInv, TypeOK, RequestRecord
<1>2. /\ last' = [last EXCEPT ![d] = n]
      /\ version' = [version EXCEPT ![d][n] = "DRAFT"]
      /\ End(r)
      /\ frozen' = frozen
  BY DEF CreateVersion
<1>3. seriesLock[d] = r /\ ~ HasActive(d) /\ last[d] < Limit[d]
  BY DEF SeriesInv, Alone, CreateVersion
<1>4. last[d] \in Nat /\ Limit[d] \in 0 .. MaxVersion /\ MaxVersion \in Nat
  BY <1>1, SeriesAssumption DEF TypeOK
<1>5. n \in Number /\ n \in 0 .. MaxVersion /\ ~ (n <= last[d])
  BY <1>3, <1>4 DEF Number
<1>6. version[d][n] = "NONE"
  BY <1>1, <1>5 DEF SeriesInv, Allocated
<1> HIDE DEF d
<1>7. /\ version' \in [Domain -> [Number -> VersionStatus]]
      /\ last' \in [Domain -> 0 .. MaxVersion]
  BY <1>1, <1>2, <1>5 DEF TypeOK, VersionStatus, ActiveStatus
<1>8. TypeOK'
  BY <1>1, <1>2, <1>7, EndKeeps DEF TypeOK
<1>9. /\ last'[d] = n /\ version'[d][n] = "DRAFT"
      /\ \A m \in Number \ {n} : version'[d][m] = version[d][m]
      /\ \A u \in Domain \ {d} : version'[u] = version[u] /\ last'[u] = last[u]
  BY <1>1, <1>2, <1>5 DEF TypeOK
<1>10. Allocated'
  <2>1. \A m \in Number \ {n} : m <= n <=> m <= last[d]
    BY <1>4 DEF Number
  <2> QED
    BY <1>1, <1>4, <1>9, <2>1 DEF SeriesInv, Allocated
<1>11. OnlyNewestActive'
  BY <1>1, <1>3, <1>9 DEF SeriesInv, OnlyNewestActive, HasActive
<1>12. InputsPublished'
  <2>1. ASSUME NEW e \in Domain, NEW m \in Number, NEW u \in Domain, frozen[e][m][u] # 0
        PROVE  version'[u][frozen[e][m][u]] = "PUBLISHED"
    <3>1. version[u][frozen[e][m][u]] = "PUBLISHED" /\ frozen[e][m][u] \in Number
      BY <2>1, InputNumber
    <3> QED
      BY <1>6, <1>9, <3>1
  <2> QED
    BY <1>2, <2>1 DEF InputsPublished
<1>13. ASSUME NEW q \in Request
       PROVE  Alone(q)' /\ Picked(q)'
  <2>1. CASE q = r
    BY <1>1, <1>2, <2>1, EndKeeps DEF Alone, Picked
  <2>2. CASE q # r
    BY <1>1, <1>2, <1>3, <1>9, <2>2, EndKeeps, StillRelies
  <2> QED
    BY <2>1, <2>2
<1> QED
  BY <1>8, <1>10, <1>11, <1>12, <1>13 DEF SeriesInv

\* One version that exists moves to another status, in its order, and what is
\* published stays: numbers, the single active version and the inputs keep.
LEMMA MovedVersion ==
    ASSUME SeriesInv, NEW d \in Domain, NEW n, NEW old, NEW new \in VersionStatus \ {"NONE"},
           version[d][n] = old, old \in ActiveStatus,
           version' = [version EXCEPT ![d][n] = new], last' = last
    PROVE  /\ version' \in [Domain -> [Number -> VersionStatus]]
           /\ Allocated' /\ OnlyNewestActive'
           /\ \A u \in Domain \ {d} : version'[u] = version[u]
           /\ \A u \in Domain, m \in Number :
                 version'[u][m] # version[u][m] => u = d /\ m = n /\ version'[u][m] = new
           /\ \A u \in Domain, m \in Number : version[u][m] = "PUBLISHED" => version'[u][m] = "PUBLISHED"
<1>1. TypeOK
  BY DEF SeriesInv
<1>2. version' \in [Domain -> [Number -> VersionStatus]]
  BY <1>1 DEF TypeOK
<1>3. \A u \in Domain, m \in Number : version'[u][m] = IF u = d /\ m = n THEN new ELSE version[u][m]
  BY <1>1 DEF TypeOK
<1>4. \A u \in Domain \ {d} : version'[u] = version[u]
  BY <1>1 DEF TypeOK
<1>5. old # "NONE" /\ old # "PUBLISHED" /\ new # "NONE"
  BY DEF ActiveStatus
<1>6. Allocated'
  BY <1>3, <1>5 DEF SeriesInv, Allocated
<1>7. OnlyNewestActive'
  BY <1>3, <1>5 DEF SeriesInv, OnlyNewestActive
<1> QED
  BY <1>2, <1>3, <1>4, <1>5, <1>6, <1>7

\* A decision is applied to a version that its command may decide
\* (applyTransition), under the lock of the series.
LEMMA DecideStep ==
    ASSUME SeriesInv, NEW r \in Request, Decide(r)
    PROVE  SeriesInv'
<1> DEFINE d == request[r].domain
           n == request[r].number
           c == request[r].command
<1>1. TypeOK /\ d \in Domain /\ c \in Command
  BY DEF SeriesInv, TypeOK, RequestRecord
<1>2. End(r) /\ UNCHANGED <<last, frozen>>
  BY DEF Decide
<1>3. CASE version[d][n] \notin Source(c)
  <2>1. version' = version
    BY <1>3 DEF Decide
  <2> QED
    BY <1>2, <2>1, EndStep
<1>4. CASE version[d][n] \in Source(c)
  <2>1. version' = [version EXCEPT ![d][n] = c]
    BY <1>4 DEF Decide
  <2>2. seriesLock[d] = r
    BY DEF SeriesInv, Alone, Decide
  <2>3. c \in VersionStatus \ {"NONE"} /\ version[d][n] \in ActiveStatus
    BY <1>1, <1>4 DEF Command, VersionStatus, ActiveStatus, Source
  <2> HIDE DEF d, n, c
  <2>4. /\ version' \in [Domain -> [Number -> VersionStatus]]
        /\ Allocated' /\ OnlyNewestActive'
        /\ \A u \in Domain \ {d} : version'[u] = version[u]
        /\ \A u \in Domain, m \in Number : version[u][m] = "PUBLISHED" => version'[u][m] = "PUBLISHED"
    BY <1>1, <1>2, <2>1, <2>3, MovedVersion
  <2>5. TypeOK'
    BY <1>1, <1>2, <2>4, EndKeeps DEF TypeOK
  <2>6. InputsPublished'
    BY <1>2, <2>4, InputNumber DEF InputsPublished
  <2>7. ASSUME NEW q \in Request
        PROVE  Alone(q)' /\ Picked(q)'
    <3>1. CASE q = r
      BY <1>1, <1>2, <3>1, EndKeeps DEF Alone, Picked
    <3>2. CASE q # r
      BY <1>1, <1>2, <2>2, <2>4, <3>2, EndKeeps, StillRelies
    <3> QED
      BY <3>1, <3>2
  <2> QED
    BY <2>4, <2>5, <2>6, <2>7 DEF SeriesInv
<1> QED
  BY <1>3, <1>4

\* A version whose jobs have succeeded is submitted, under no series lock.
LEMMA SubmitStep ==
    ASSUME SeriesInv, NEW d \in Domain, NEW n \in Number, SubmitValidation(d, n)
    PROVE  SeriesInv'
<1>1. TypeOK
  BY DEF SeriesInv
<1>2. /\ version[d][n] = "BUILDING"
      /\ version' = [version EXCEPT ![d][n] = "VALIDATING"]
      /\ UNCHANGED <<last, frozen, seriesLock, typeLock, request>>
  BY DEF SubmitValidation
<1>3. "VALIDATING" \in VersionStatus \ {"NONE"} /\ "BUILDING" \in ActiveStatus /\ "VALIDATING" \in ActiveStatus
  BY DEF VersionStatus, ActiveStatus
<1>4. /\ version' \in [Domain -> [Number -> VersionStatus]]
      /\ Allocated' /\ OnlyNewestActive'
      /\ \A u \in Domain \ {d} : version'[u] = version[u]
      /\ \A u \in Domain, m \in Number :
            version'[u][m] # version[u][m] => u = d /\ m = n /\ version'[u][m] = "VALIDATING"
      /\ \A u \in Domain, m \in Number : version[u][m] = "PUBLISHED" => version'[u][m] = "PUBLISHED"
  BY <1>2, <1>3, MovedVersion
<1>5. TypeOK'
  BY <1>1, <1>2, <1>4 DEF TypeOK
<1>6. InputsPublished'
  BY <1>2, <1>4, InputNumber DEF InputsPublished
<1>7. ASSUME NEW q \in Request
      PROVE  Alone(q)' /\ Picked(q)'
  <2>1. \A m \in Number : version'[d][m] = "PUBLISHED" <=> version[d][m] = "PUBLISHED"
    BY <1>4
  <2>2. \A m \in Number : version'[d][m] \in ActiveStatus => version[d][m] \in ActiveStatus
    BY <1>2, <1>3, <1>4
  <2> QED
    BY <1>2, <1>4, <2>1, <2>2, StillRelies
<1> QED
  BY <1>4, <1>5, <1>6, <1>7 DEF SeriesInv

\* A version that is still a draft is frozen (freezeDraftBuild) on what was
\* resolved, which is still the newest.
LEMMA FreezeIsCurrent ==
    ASSUME SeriesInv, NEW r \in Request, PrepareFreeze(r),
           version[request[r].domain][request[r].number] = "DRAFT"
    PROVE  LET d == request[r].domain  n == request[r].number  picked == request[r].picked IN
           /\ d \in Domain
           /\ version' = [version EXCEPT ![d][n] = "BUILDING"]
           /\ frozen' \in [Domain -> [Number -> [Domain -> 0 .. MaxVersion]]]
           /\ \A e \in Domain, m \in Number : frozen'[e][m] = IF e = d /\ m = n THEN picked ELSE frozen[e][m]
           /\ \A u \in Requires[d] : Newest(u) # 0 /\ picked[u] = Newest(u)
           /\ \A u \in Domain : picked[u] # 0 => picked[u] \in Number /\ version[u][picked[u]] = "PUBLISHED"
<1> DEFINE d == request[r].domain
           n == request[r].number
           picked == request[r].picked
<1>1. TypeOK /\ d \in Domain /\ picked \in [Domain -> 0 .. MaxVersion] /\ Requires[d] \subseteq Domain
  BY SeriesAssumption DEF SeriesInv, TypeOK, RequestRecord
<1>2. version' = [version EXCEPT ![d][n] = "BUILDING"] /\ frozen' = [frozen EXCEPT ![d][n] = picked]
  BY DEF PrepareFreeze
<1>3. \A u \in Domain :
         IF u \in Requires[d] THEN Newest(u) # 0 /\ picked[u] = Newest(u) ELSE picked[u] = 0
  BY DEF SeriesInv, Picked, PrepareFreeze
<1> HIDE DEF d, n, picked
<1>4. /\ frozen' \in [Domain -> [Number -> [Domain -> 0 .. MaxVersion]]]
      /\ \A e \in Domain, m \in Number : frozen'[e][m] = IF e = d /\ m = n THEN picked ELSE frozen[e][m]
  BY <1>1, <1>2 DEF TypeOK
<1>5. \A u \in Requires[d] : Newest(u) # 0 /\ picked[u] = Newest(u)
  BY <1>1, <1>3
<1>6. ASSUME NEW u \in Domain, picked[u] # 0
      PROVE  picked[u] \in Number /\ version[u][picked[u]] = "PUBLISHED"
  BY <1>3, <1>6, NewestPublished
<1> QED
  BY <1>1, <1>2, <1>4, <1>5, <1>6 DEF d, n, picked

\* The freeze keeps the invariant.
LEMMA PrepareFreezeStep ==
    ASSUME SeriesInv, NEW r \in Request, PrepareFreeze(r)
    PROVE  SeriesInv'
<1> DEFINE d == request[r].domain
           n == request[r].number
           picked == request[r].picked
<1>1. TypeOK /\ End(r) /\ last' = last
  BY DEF SeriesInv, PrepareFreeze
<1>2. CASE version[d][n] # "DRAFT"
  <2>1. UNCHANGED <<version, frozen>>
    BY <1>2 DEF PrepareFreeze
  <2> QED
    BY <1>1, <2>1, EndStep
<1>3. CASE version[d][n] = "DRAFT"
  <2>1. /\ d \in Domain
        /\ version' = [version EXCEPT ![d][n] = "BUILDING"]
        /\ frozen' \in [Domain -> [Number -> [Domain -> 0 .. MaxVersion]]]
        /\ \A e \in Domain, m \in Number : frozen'[e][m] = IF e = d /\ m = n THEN picked ELSE frozen[e][m]
        /\ \A u \in Domain : picked[u] # 0 => picked[u] \in Number /\ version[u][picked[u]] = "PUBLISHED"
    BY <1>3, FreezeIsCurrent
  <2>2. "BUILDING" \in VersionStatus \ {"NONE"} /\ "DRAFT" \in ActiveStatus /\ "BUILDING" \in ActiveStatus
    BY DEF VersionStatus, ActiveStatus
  <2> HIDE DEF d, n, picked
  <2>3. /\ version' \in [Domain -> [Number -> VersionStatus]]
        /\ Allocated' /\ OnlyNewestActive'
        /\ \A u \in Domain \ {d} : version'[u] = version[u]
        /\ \A u \in Domain, m \in Number :
              version'[u][m] # version[u][m] => u = d /\ m = n /\ version'[u][m] = "BUILDING"
        /\ \A u \in Domain, m \in Number : version[u][m] = "PUBLISHED" => version'[u][m] = "PUBLISHED"
    BY <1>1, <1>3, <2>1, <2>2, MovedVersion
  <2>4. TypeOK'
    BY <1>1, <2>1, <2>3, EndKeeps DEF TypeOK
  <2>5. ASSUME NEW e \in Domain, NEW m \in Number, NEW u \in Domain, frozen'[e][m][u] # 0
        PROVE  version'[u][frozen'[e][m][u]] = "PUBLISHED"
    <3>1. frozen'[e][m][u] \in Number /\ version[u][frozen'[e][m][u]] = "PUBLISHED"
      <4>1. CASE e = d /\ m = n
        <5>1. frozen'[e][m] = picked
          BY <2>1, <4>1
        <5> QED
          BY <2>1, <2>5, <5>1
      <4>2. CASE ~ (e = d /\ m = n)
        <5>1. frozen'[e][m] = frozen[e][m]
          BY <2>1, <4>2
        <5> QED
          BY <2>5, <5>1, InputNumber
      <4> QED
        BY <4>1, <4>2
    <3> QED
      BY <2>3, <3>1
  <2>6. InputsPublished'
    BY <2>5 DEF InputsPublished
  <2>7. ASSUME NEW q \in Request
        PROVE  Alone(q)' /\ Picked(q)'
    <3>1. CASE q = r
      BY <1>1, <3>1, EndKeeps DEF Alone, Picked
    <3>2. CASE q # r
      <4>1. \A m \in Number : version'[d][m] = "PUBLISHED" <=> version[d][m] = "PUBLISHED"
        BY <2>1, <2>3
      <4>2. \A m \in Number : version'[d][m] \in ActiveStatus => version[d][m] \in ActiveStatus
        BY <1>3, <2>1, <2>2, <2>3
      <4>3. request'[q] = request[q] /\ \A u \in Domain : seriesLock[u] = q => seriesLock'[u] = q
        BY <1>1, <3>2, EndKeeps
      <4>4. last'[d] = last[d] /\ \A u \in Domain \ {d} : version'[u] = version[u] /\ last'[u] = last[u]
        BY <1>1, <2>3
      <4> QED
        BY <2>1, <4>1, <4>2, <4>3, <4>4, StillRelies
    <3> QED
      BY <3>1, <3>2
  <2> QED
    BY <2>3, <2>4, <2>6, <2>7 DEF SeriesInv
<1> QED
  BY <1>2, <1>3

----------------------------------------------------------------------------
(* The theorems *)

\* Initially nothing exists and nothing is locked.
LEMMA InitInv == Init => SeriesInv
<1> SUFFICES ASSUME Init PROVE SeriesInv
  OBVIOUS
<1>1. 0 \in 0 .. MaxVersion
  BY SeriesAssumption
<1>2. TypeOK
  BY <1>1, IdleTyped DEF Init, TypeOK, VersionStatus, NoInputs
<1>3. Allocated /\ OnlyNewestActive /\ InputsPublished
  BY SeriesAssumption DEF Init, Allocated, OnlyNewestActive, InputsPublished, Number, ActiveStatus, NoInputs
<1>4. \A r \in Request : Alone(r) /\ Picked(r)
  BY DEF Init, Idle, Alone, Picked
<1> QED
  BY <1>2, <1>3, <1>4 DEF SeriesInv

\* Every step keeps the invariant.
LEMMA NextInv == SeriesInv /\ [Next]_vars => SeriesInv'
<1> SUFFICES ASSUME SeriesInv, [Next]_vars PROVE SeriesInv'
  OBVIOUS
<1>1. CASE UNCHANGED vars
  <2>1. UNCHANGED <<last, version, frozen, seriesLock, typeLock, request>>
    BY <1>1 DEF vars
  <2>2. TypeOK'
    BY <2>1 DEF SeriesInv, TypeOK
  <2>3. Allocated' /\ OnlyNewestActive' /\ InputsPublished'
    BY <2>1 DEF SeriesInv, Allocated, OnlyNewestActive, InputsPublished
  <2>4. ASSUME NEW q \in Request
        PROVE  Alone(q)' /\ Picked(q)'
    <3>1. PICK d \in Domain : TRUE
      BY SeriesAssumption
    <3> QED
      BY <2>1, <3>1, StillRelies
  <2> QED
    BY <2>2, <2>3, <2>4 DEF SeriesInv
<1>2. ASSUME NEW r \in Request, Arrival(r)
      PROVE  SeriesInv'
  BY <1>2, ArrivalStep
<1>3. ASSUME NEW r \in Request, Proceed(r)
      PROVE  SeriesInv'
  <2>1. CASE CreateLock(r) \/ DecideLock(r)
    BY <2>1, OwnSeriesStep
  <2>2. CASE CreateTest(r)
    BY <2>2, CreateTestStep
  <2>3. CASE CreateRefused(r)
    BY <2>3, EndStep DEF CreateRefused
  <2>4. CASE CreateVersion(r)
    BY <2>4, CreateVersionStep
  <2>5. CASE PrepareType(r) \/ \E u \in Domain : PrepareSeries(r, u)
    BY <2>5, PrepareLockStep
  <2>6. CASE PrepareResolve(r)
    BY <2>6, PrepareResolveStep
  <2>7. CASE PrepareFreeze(r)
    BY <2>7, PrepareFreezeStep
  <2>8. CASE Decide(r)
    BY <2>8, DecideStep
  <2> QED
    BY <1>3, <2>1, <2>2, <2>3, <2>4, <2>5, <2>6, <2>7, <2>8 DEF Proceed
<1>4. ASSUME NEW r \in Request, Rollback(r)
      PROVE  SeriesInv'
  BY <1>4, EndStep DEF Rollback
<1>5. ASSUME NEW d \in Domain, NEW n \in Number, SubmitValidation(d, n)
      PROVE  SeriesInv'
  BY <1>5, SubmitStep
<1> QED
  BY <1>1, <1>2, <1>3, <1>4, <1>5 DEF Next

\* The invariant holds in every reachable state.
THEOREM SeriesInvariant == Spec => []SeriesInv
<1>1. Init => SeriesInv
  BY InitInv
<1>2. SeriesInv /\ [Next]_vars => SeriesInv'
  BY NextInv
<1> QED
  BY <1>1, <1>2, PTL DEF Spec

\* A series never has two active versions, and an older version is never
\* active again: the test for an active version and the allocation of a number
\* are one step for all other transactions (createDatasetVersionService).
THEOREM OneActiveVersion == Spec => []OnlyNewestActive
<1>1. SeriesInv => OnlyNewestActive
  BY DEF SeriesInv
<1> QED
  BY <1>1, SeriesInvariant, PTL

\* A version that is frozen was a draft, and it is a first Run that froze it.
LEMMA WhoFreezes ==
    ASSUME SeriesInv, [Next]_vars, NEW d \in Domain, NEW n \in Number,
           version[d][n] = "DRAFT", version'[d][n] = "BUILDING"
    PROVE  \E r \in Request : PrepareFreeze(r) /\ request[r].domain = d /\ request[r].number = n
<1>1. TypeOK
  BY DEF SeriesInv
<1>2. ASSUME UNCHANGED version
      PROVE  FALSE
  BY <1>2
<1>3. ASSUME NEW e \in Domain, NEW m, NEW new, version' = [version EXCEPT ![e][m] = new]
      PROVE  d = e /\ n = m /\ new = "BUILDING"
  BY <1>1, <1>3 DEF TypeOK
<1>4. ASSUME NEW r \in Request, CreateVersion(r)
      PROVE  FALSE
  <2>1. request[r].domain \in Domain
    BY <1>1 DEF TypeOK, RequestRecord
  <2>2. version' = [version EXCEPT ![request[r].domain][last[request[r].domain] + 1] = "DRAFT"]
    BY <1>4 DEF CreateVersion
  <2> QED
    BY <1>3, <2>1, <2>2
<1>5. ASSUME NEW r \in Request, Decide(r)
      PROVE  FALSE
  <2>1. request[r].domain \in Domain /\ request[r].command \in Command
    BY <1>1 DEF TypeOK, RequestRecord
  <2>2. version' = [version EXCEPT ![request[r].domain][request[r].number] = request[r].command]
    BY <1>2, <1>5 DEF Decide
  <2> QED
    BY <1>3, <2>1, <2>2 DEF Command
<1>6. ASSUME NEW e \in Domain, NEW m \in Number, SubmitValidation(e, m)
      PROVE  FALSE
  BY <1>3, <1>6 DEF SubmitValidation
<1>7. ASSUME NEW r \in Request, PrepareFreeze(r)
      PROVE  request[r].domain = d /\ request[r].number = n
  <2>1. request[r].domain \in Domain
    BY <1>1 DEF TypeOK, RequestRecord
  <2>2. version' = [version EXCEPT ![request[r].domain][request[r].number] = "BUILDING"]
    BY <1>2, <1>7 DEF PrepareFreeze
  <2> QED
    BY <1>3, <2>1, <2>2
<1>8. PICK r \in Request : PrepareFreeze(r)
  <2>1. \/ \E r \in Request : CreateVersion(r) \/ Decide(r) \/ PrepareFreeze(r)
        \/ \E e \in Domain, m \in Number : SubmitValidation(e, m)
        \/ UNCHANGED version
    BY DEF Next, vars, Arrival, BeginCreate, BeginPrepare, BeginDecide, Begin, Proceed, CreateLock, CreateTest,
           CreateRefused, PrepareType, PrepareSeries, PrepareResolve, DecideLock, Rollback
  <2> QED
    BY <1>2, <1>4, <1>5, <1>6, <2>1
<1> QED
  BY <1>7, <1>8

\* A build is frozen on the newest published version of every series that it
\* requires, as of the moment of the freeze (initializeOrReuseDraftDataset).
THEOREM FrozenOnNewest == Spec => FrozenIsCurrent
<1> DEFINE Current ==
      \A d \in Domain, n \in Number :
          version[d][n] = "DRAFT" /\ version'[d][n] = "BUILDING" =>
              \A u \in Requires[d] : Newest(u) # 0 /\ frozen'[d][n][u] = Newest(u)
<1>1. SeriesInv /\ [Next]_vars => Current
  <2> SUFFICES ASSUME SeriesInv, [Next]_vars, NEW d \in Domain, NEW n \in Number,
                      version[d][n] = "DRAFT", version'[d][n] = "BUILDING", NEW u \in Requires[d]
               PROVE  Newest(u) # 0 /\ frozen'[d][n][u] = Newest(u)
    OBVIOUS
  <2>1. PICK r \in Request : PrepareFreeze(r) /\ request[r].domain = d /\ request[r].number = n
    BY WhoFreezes
  <2>2. /\ frozen'[d][n] = request[r].picked
        /\ Newest(u) # 0 /\ request[r].picked[u] = Newest(u)
    BY <2>1, FreezeIsCurrent
  <2> QED
    BY <2>2
<1>2. Spec => [][Current]_vars
  BY <1>1, SeriesInvariant, PTL DEF Spec
<1> QED
  BY <1>2 DEF FrozenIsCurrent

\* Only the freeze of a draft writes its inputs (insertDatasetBuildSnapshot).
LEMMA OnlyDraftsFreeze ==
    ASSUME SeriesInv, [Next]_vars, NEW d \in Domain, NEW n \in Number, version[d][n] # "DRAFT"
    PROVE  frozen'[d][n] = frozen[d][n]
<1>1. TypeOK
  BY DEF SeriesInv
<1>2. \/ \E r \in Request : PrepareFreeze(r)
      \/ UNCHANGED frozen
  BY DEF Next, vars, Arrival, BeginCreate, BeginPrepare, BeginDecide, Begin, Proceed, CreateLock, CreateTest,
         CreateRefused, CreateVersion, PrepareType, PrepareSeries, PrepareResolve, DecideLock, Decide, Rollback,
         SubmitValidation
<1>3. ASSUME NEW r \in Request, PrepareFreeze(r)
      PROVE  frozen'[d][n] = frozen[d][n]
  <2>1. CASE request[r].domain = d /\ request[r].number = n
    <3>1. UNCHANGED frozen
      BY <1>3, <2>1 DEF PrepareFreeze
    <3> QED
      BY <3>1
  <2>2. CASE ~ (request[r].domain = d /\ request[r].number = n)
    <3> DEFINE e == request[r].domain
               m == request[r].number
               picked == request[r].picked
    <3>1. frozen' = [frozen EXCEPT ![e][m] = picked] \/ frozen' = frozen
      BY <1>3 DEF PrepareFreeze
    <3>2. ~ (e = d /\ m = n)
      BY <2>2
    <3> HIDE DEF e, m, picked
    <3> QED
      BY <1>1, <3>1, <3>2 DEF TypeOK
  <2> QED
    BY <2>1, <2>2
<1> QED
  BY <1>2, <1>3

\* The inputs of a build that was frozen are never replaced, and each of them
\* stays published (freezeDraftBuild, transitionLifecycleDataset).
THEOREM InputsKept == Spec => InputsStay
<1> DEFINE Kept ==
      \A d \in Domain, n \in Number :
          version[d][n] \notin {"NONE", "DRAFT"} =>
              /\ frozen'[d][n] = frozen[d][n]
              /\ \A u \in Domain : frozen[d][n][u] # 0 => version'[u][frozen[d][n][u]] = "PUBLISHED"
<1>1. SeriesInv /\ [Next]_vars => Kept
  <2> SUFFICES ASSUME SeriesInv, [Next]_vars, NEW d \in Domain, NEW n \in Number,
                      version[d][n] \notin {"NONE", "DRAFT"}
               PROVE  /\ frozen'[d][n] = frozen[d][n]
                      /\ \A u \in Domain : frozen[d][n][u] # 0 => version'[u][frozen[d][n][u]] = "PUBLISHED"
    OBVIOUS
  <2>1. frozen'[d][n] = frozen[d][n]
    BY OnlyDraftsFreeze
  <2>2. InputsPublished'
    BY NextInv DEF SeriesInv
  <2> QED
    BY <2>1, <2>2 DEF InputsPublished
<1>2. Spec => [][Kept]_vars
  BY <1>1, SeriesInvariant, PTL DEF Spec
<1> QED
  BY <1>2 DEF InputsStay

----------------------------------------------------------------------------
(* No transactions wait for each other *)

\* What a transaction holds: the series of its version while it creates or
\* decides, the types of its domain and the inputs it has locked so far, in the
\* order of their names, while it freezes.
HoldsOnly(r) ==
    LET needed == Requires[request[r].domain] IN
    /\ \A u \in Domain : seriesLock[u] = r =>
          \/ request[r].pc \in {"test", "insert", "decide"} /\ u = request[r].domain
          \/ request[r].pc \in {"series", "freeze"} /\ u \in needed \ request[r].todo
    /\ \A d \in Domain : typeLock[d] = r =>
          request[r].pc \in {"series", "freeze"} /\ d = request[r].domain
    /\ request[r].pc = "series" =>
          /\ request[r].todo \subseteq needed
          /\ \A u \in needed \ request[r].todo, v \in request[r].todo : Position[u] <= Position[v]

LocksInv == TypeOK /\ \A r \in Request : HoldsOnly(r)

\* A transaction that is idle holds nothing, and what another takes is not its.
LEMMA HoldsStep ==
    ASSUME LocksInv, NEW r \in Request,
           TypeOK',
           \A q \in Request \ {r} :
              /\ request'[q] = request[q]
              /\ \A d \in Domain : seriesLock'[d] = q => seriesLock[d] = q
              /\ \A d \in Domain : typeLock'[d] = q => typeLock[d] = q,
           HoldsOnly(r)'
    PROVE  LocksInv'
<1>1. ASSUME NEW q \in Request \ {r} PROVE HoldsOnly(q)'
  <2>1. HoldsOnly(q) /\ request'[q] = request[q]
    BY DEF LocksInv
  <2> QED
    BY <2>1 DEF HoldsOnly
<1> QED
  BY <1>1 DEF LocksInv

\* A transaction that ends holds nothing.
LEMMA HoldsEnd ==
    ASSUME LocksInv, NEW r \in Request, End(r), TypeOK'
    PROVE  LocksInv'
<1>1. request'[r].pc = "idle"
  BY EndKeeps DEF LocksInv
<1>2. \A q \in Request \ {r} : request'[q] = request[q]
  BY EndKeeps DEF LocksInv
<1>3. \A d \in Domain : seriesLock'[d] # r /\ typeLock'[d] # r
  BY SeriesAssumption DEF End
<1>4. ASSUME NEW q \in Request \ {r}, NEW d \in Domain
      PROVE  /\ seriesLock'[d] = q => seriesLock[d] = q
             /\ typeLock'[d] = q => typeLock[d] = q
  BY SeriesAssumption DEF End
<1>5. HoldsOnly(r)'
  BY <1>1, <1>3 DEF HoldsOnly
<1> QED
  BY <1>2, <1>4, <1>5, HoldsStep

\* A transaction that begins holds nothing yet.
LEMMA HoldsArrival ==
    ASSUME LocksInv, NEW r \in Request, Arrival(r), TypeOK'
    PROVE  LocksInv'
<1>1. request \in [Request -> RequestRecord] /\ request[r] \in RequestRecord
  BY DEF LocksInv, TypeOK
<1>2. /\ request[r].pc = "idle"
      /\ request'[r].pc \in {"create", "type", "lock"}
      /\ \A q \in Request \ {r} : request'[q] = request[q]
      /\ UNCHANGED <<seriesLock, typeLock>>
  <2>1. ASSUME NEW d \in Domain, NEW n, NEW pc \in {"create", "type"}, Begin(r, pc, d, n)
        PROVE  <1>2!:
    <3> DEFINE record == [request[r] EXCEPT !.pc = pc, !.domain = d, !.number = n]
    <3>1. record.pc = pc
      BY <1>1 DEF RequestRecord
    <3>2. request' = [request EXCEPT ![r] = record]
      BY <2>1 DEF Begin
    <3> HIDE DEF record
    <3> QED
      BY <1>1, <2>1, <3>1, <3>2 DEF Begin
  <2>2. ASSUME NEW d \in Domain, NEW n \in Number, NEW c \in Command, BeginDecide(r, d, n, c)
        PROVE  <1>2!:
    <3> DEFINE record == [request[r] EXCEPT !.pc = "lock", !.domain = d, !.number = n, !.command = c]
    <3>1. record.pc = "lock"
      BY <1>1 DEF RequestRecord
    <3>2. request' = [request EXCEPT ![r] = record]
      BY <2>2 DEF BeginDecide
    <3> HIDE DEF record
    <3> QED
      BY <1>1, <2>2, <3>1, <3>2 DEF BeginDecide
  <2> QED
    BY <2>1, <2>2 DEF Arrival, BeginCreate, BeginPrepare
<1>3. HoldsOnly(r)'
  BY <1>2 DEF LocksInv, HoldsOnly
<1> QED
  BY <1>2, <1>3, HoldsStep

\* The series of the own version is taken before the test and the decision.
LEMMA HoldsOwnSeries ==
    ASSUME LocksInv, NEW r \in Request, CreateLock(r) \/ DecideLock(r), TypeOK'
    PROVE  LocksInv'
<1>1. request \in [Request -> RequestRecord] /\ request[r] \in RequestRecord
      /\ request[r].domain \in Domain /\ seriesLock \in [Domain -> Request \cup {NoRequest}]
  BY DEF LocksInv, TypeOK, RequestRecord
<1>2. PICK pc \in {"test", "decide"} :
         request' = [request EXCEPT ![r].pc = pc] /\ request[r].pc \in {"create", "lock"}
  BY DEF CreateLock, DecideLock
<1>3. /\ request'[r].pc \in {"test", "decide"}
      /\ request'[r].domain = request[r].domain
      /\ \A q \in Request \ {r} : request'[q] = request[q]
  BY <1>1, <1>2 DEF RequestRecord
<1>4. LockSeries(r, request[r].domain) /\ UNCHANGED typeLock
  BY DEF CreateLock, DecideLock
<1>5. \A d \in Domain : seriesLock'[d] = IF d = request[r].domain THEN r ELSE seriesLock[d]
  BY <1>1, <1>4 DEF LockSeries
<1>6. HoldsOnly(r)'
  BY <1>2, <1>3, <1>4, <1>5 DEF LocksInv, HoldsOnly
<1> QED
  BY <1>3, <1>4, <1>5, <1>6, HoldsStep

\* The test for an active version keeps the lock.
LEMMA HoldsCreateTest ==
    ASSUME LocksInv, NEW r \in Request, CreateTest(r), TypeOK'
    PROVE  LocksInv'
<1>1. request \in [Request -> RequestRecord] /\ request[r] \in RequestRecord
  BY DEF LocksInv, TypeOK
<1>2. /\ request[r].pc = "test"
      /\ request'[r].pc = "insert"
      /\ request'[r].domain = request[r].domain
      /\ \A q \in Request \ {r} : request'[q] = request[q]
      /\ UNCHANGED <<seriesLock, typeLock>>
  BY <1>1 DEF CreateTest, RequestRecord
<1>3. HoldsOnly(r)'
  BY <1>2 DEF LocksInv, HoldsOnly
<1> QED
  BY <1>2, <1>3, HoldsStep

\* The first Run takes the types of its domain before any series.
LEMMA HoldsType ==
    ASSUME LocksInv, NEW r \in Request, PrepareType(r), TypeOK'
    PROVE  LocksInv'
<1>1. request \in [Request -> RequestRecord] /\ request[r] \in RequestRecord
      /\ request[r].domain \in Domain /\ typeLock \in [Domain -> Request \cup {NoRequest}]
  BY DEF LocksInv, TypeOK, RequestRecord
<1> DEFINE d == request[r].domain
           record == [request[r] EXCEPT !.pc = "series", !.todo = Requires[d]]
<1>2. record.pc = "series" /\ record.domain = d /\ record.todo = Requires[d]
  BY <1>1 DEF RequestRecord
<1>3. request' = [request EXCEPT ![r] = record] /\ request[r].pc = "type" /\ UNCHANGED seriesLock
      /\ typeLock' = [typeLock EXCEPT ![d] = r]
  BY DEF PrepareType
<1> HIDE DEF record
<1>4. request'[r] = record /\ \A q \in Request \ {r} : request'[q] = request[q]
  BY <1>1, <1>3
<1>5. \A e \in Domain : typeLock'[e] = IF e = d THEN r ELSE typeLock[e]
  BY <1>1, <1>3
<1>6. HoldsOnly(r)'
  BY <1>2, <1>3, <1>4, <1>5 DEF LocksInv, HoldsOnly
<1> QED
  BY <1>3, <1>4, <1>5, <1>6, HoldsStep

\* Each series is locked after those whose names come before.
LEMMA HoldsSeries ==
    ASSUME LocksInv, NEW r \in Request, NEW u \in Domain, PrepareSeries(r, u), TypeOK'
    PROVE  LocksInv'
<1>1. request \in [Request -> RequestRecord] /\ request[r] \in RequestRecord
      /\ request[r].domain \in Domain /\ seriesLock \in [Domain -> Request \cup {NoRequest}]
      /\ Position \in [Domain -> Nat]
  BY SeriesAssumption DEF LocksInv, TypeOK, RequestRecord
<1>2. /\ request'[r].pc = "series" /\ request[r].pc = "series"
      /\ request'[r].domain = request[r].domain
      /\ request'[r].todo = request[r].todo \ {u}
      /\ \A q \in Request \ {r} : request'[q] = request[q]
      /\ UNCHANGED typeLock
  BY <1>1 DEF PrepareSeries, RequestRecord
<1>3. \A e \in Domain : seriesLock'[e] = seriesLock[e] \/ (e = u /\ seriesLock'[e] = r)
  BY <1>1 DEF PrepareSeries, LockSeries
<1>4. u \in request[r].todo /\ \A v \in request[r].todo : Position[u] <= Position[v]
  BY DEF PrepareSeries, NextSeries
<1>5. HoldsOnly(r)
  BY DEF LocksInv
<1>6. HoldsOnly(r)'
  <2>1. \A e \in Domain : seriesLock'[e] = r =>
           e \in Requires[request[r].domain] \ (request[r].todo \ {u})
    BY <1>2, <1>3, <1>4, <1>5 DEF HoldsOnly
  <2>2. \A v \in Requires[request[r].domain] \ (request[r].todo \ {u}), w \in request[r].todo \ {u} :
           Position[v] <= Position[w]
    BY <1>2, <1>4, <1>5 DEF HoldsOnly
  <2> QED
    BY <1>2, <1>5, <2>1, <2>2 DEF HoldsOnly
<1> QED
  BY <1>2, <1>3, <1>6, HoldsStep

\* What was locked stays locked until the version is frozen.
LEMMA HoldsResolve ==
    ASSUME LocksInv, NEW r \in Request, PrepareResolve(r), TypeOK'
    PROVE  LocksInv'
<1>1. request \in [Request -> RequestRecord] /\ request[r] \in RequestRecord
  BY DEF LocksInv, TypeOK
<1> DEFINE needed == Requires[request[r].domain]
           record == [request[r] EXCEPT !.pc = "freeze",
                                        !.picked = [u \in Domain |-> IF u \in needed THEN Newest(u) ELSE 0]]
<1>2. record.pc = "freeze" /\ record.domain = request[r].domain /\ record.todo = request[r].todo
  BY <1>1 DEF RequestRecord
<1>3. CASE request' = [request EXCEPT ![r] = record] /\ UNCHANGED <<seriesLock, typeLock>>
  <2> HIDE DEF record
  <2>1. request'[r] = record /\ \A q \in Request \ {r} : request'[q] = request[q]
    BY <1>1, <1>3
  <2>2. request[r].pc = "series"
    BY DEF PrepareResolve
  <2>3. HoldsOnly(r)'
    BY <1>2, <1>3, <2>1, <2>2 DEF LocksInv, HoldsOnly
  <2> QED
    BY <1>3, <2>1, <2>3, HoldsStep
<1>4. CASE End(r)
  BY <1>4, HoldsEnd
<1> QED
  BY <1>3, <1>4 DEF PrepareResolve

LEMMA HoldsNext == LocksInv /\ SeriesInv /\ SeriesInv' /\ [Next]_vars => LocksInv'
<1> SUFFICES ASSUME LocksInv, SeriesInv', [Next]_vars PROVE LocksInv'
  OBVIOUS
<1>1. TypeOK'
  BY DEF SeriesInv
<1>2. CASE UNCHANGED vars
  BY <1>1, <1>2 DEF vars, LocksInv, HoldsOnly
<1>3. ASSUME NEW r \in Request, Arrival(r) PROVE LocksInv'
  BY <1>1, <1>3, HoldsArrival
<1>4. ASSUME NEW r \in Request, Proceed(r) PROVE LocksInv'
  <2>1. CASE CreateLock(r) \/ DecideLock(r)
    BY <1>1, <2>1, HoldsOwnSeries
  <2>2. CASE CreateTest(r)
    BY <1>1, <2>2, HoldsCreateTest
  <2>3. CASE CreateRefused(r) \/ CreateVersion(r) \/ PrepareFreeze(r) \/ Decide(r)
    BY <1>1, <2>3, HoldsEnd DEF CreateRefused, CreateVersion, PrepareFreeze, Decide
  <2>4. CASE PrepareType(r)
    BY <1>1, <2>4, HoldsType
  <2>5. CASE \E u \in Domain : PrepareSeries(r, u)
    BY <1>1, <2>5, HoldsSeries
  <2>6. CASE PrepareResolve(r)
    BY <1>1, <2>6, HoldsResolve
  <2> QED
    BY <1>4, <2>1, <2>2, <2>3, <2>4, <2>5, <2>6 DEF Proceed
<1>5. ASSUME NEW r \in Request, Rollback(r) PROVE LocksInv'
  BY <1>1, <1>5, HoldsEnd DEF Rollback
<1>6. ASSUME NEW d \in Domain, NEW n \in Number, SubmitValidation(d, n) PROVE LocksInv'
  BY <1>1, <1>6 DEF SubmitValidation, LocksInv, HoldsOnly
<1> QED
  BY <1>2, <1>3, <1>4, <1>5, <1>6 DEF Next

\* Whenever a step leads into the series invariant, it keeps what is held.
LEMMA HoldsAlways == Spec => []LocksInv
<1>1. Init => LocksInv
  BY InitInv, SeriesAssumption DEF SeriesInv, LocksInv, HoldsOnly, Init, Idle
<1> QED
  BY <1>1, HoldsNext, SeriesInvariant, PTL DEF Spec

\* The domains can be ranked so that what a domain requires ranks below it, and
\* of two inputs of one domain the one that is locked later ranks below the other.
Ranks(f) ==
    \A d \in Domain : \A u \in Requires[d] :
        /\ f[u] < f[d]
        /\ \A w \in Requires[d] \ {u} : Position[u] <= Position[w] => f[w] < f[u]

\* One transaction waits for another at the rank of what it wants: the types of a
\* domain come right below its series.
WaitsAt(f, r, holder, k) ==
    /\ r # holder
    /\ \/ /\ request[r].pc \in {"create", "lock"}
          /\ seriesLock[request[r].domain] = holder
          /\ k = 2 * f[request[r].domain] + 1
       \/ /\ request[r].pc \in {"type", "insert"}
          /\ typeLock[request[r].domain] = holder
          /\ k = 2 * f[request[r].domain]
       \/ /\ request[r].pc = "series"
          /\ \E u \in Domain :
                NextSeries(r, u) /\ seriesLock[u] = holder /\ k = 2 * f[u] + 1

LEMMA WaitsHaveRank ==
    ASSUME LocksInv, NEW f \in [Domain -> Nat], NEW r \in Request, NEW h \in Request, WaitsFor(r, h)
    PROVE  \E k \in Nat : WaitsAt(f, r, h, k)
<1>1. request[r].domain \in Domain
  BY DEF LocksInv, TypeOK, RequestRecord
<1>2. \A d \in Domain : f[d] \in Nat /\ 2 * f[d] \in Nat /\ 2 * f[d] + 1 \in Nat
  OBVIOUS
<1> QED
  BY <1>1, <1>2 DEF WaitsFor, WaitsAt

\* Who is waited for waits for something of a lower rank.
LEMMA WaitsSink ==
    ASSUME LocksInv, NEW f \in [Domain -> Nat], Ranks(f),
           NEW r \in Request, NEW h \in Request, NEW k \in Nat, WaitsAt(f, r, h, k),
           NEW g \in Request, NEW l \in Nat, WaitsAt(f, h, g, l)
    PROVE  l < k
<1>1. HoldsOnly(h)
  BY DEF LocksInv
<1>2. request[r].domain \in Domain /\ request[h].domain \in Domain
  BY DEF LocksInv, TypeOK, RequestRecord
<1>3. \A d \in Domain : f[d] \in Nat
  OBVIOUS
<1> DEFINE e == request[h].domain
<1>4. CASE \E u \in Domain : seriesLock[u] = h /\ k = 2 * f[u] + 1
  <2>1. PICK u \in Domain : seriesLock[u] = h /\ k = 2 * f[u] + 1
    BY <1>4
  <2>2. \/ request[h].pc = "insert" /\ u = e
        \/ request[h].pc = "series" /\ u \in Requires[e] \ request[h].todo
    BY <1>1, <2>1 DEF HoldsOnly, WaitsAt
  <2>3. CASE request[h].pc = "insert" /\ u = e
    <3>1. l = 2 * f[u]
      BY <2>3 DEF WaitsAt
    <3> QED
      BY <1>3, <2>1, <3>1
  <2>4. CASE request[h].pc = "series" /\ u \in Requires[e] \ request[h].todo
    <3>1. PICK w \in Domain : NextSeries(h, w) /\ l = 2 * f[w] + 1
      BY <2>4 DEF WaitsAt
    <3>2. w \in request[h].todo /\ w \in Requires[e] /\ Position[u] <= Position[w]
      BY <1>1, <2>4, <3>1 DEF HoldsOnly, NextSeries
    <3>3. f[w] < f[u]
      BY <1>2, <2>4, <3>2 DEF Ranks
    <3> QED
      BY <1>3, <2>1, <3>1, <3>3
  <2> QED
    BY <2>2, <2>3, <2>4
<1>5. CASE \E d \in Domain : typeLock[d] = h /\ k = 2 * f[d]
  <2>1. request[h].pc = "series" /\ k = 2 * f[e]
    BY <1>1, <1>5 DEF HoldsOnly, WaitsAt
  <2>2. PICK w \in Domain : NextSeries(h, w) /\ l = 2 * f[w] + 1
    BY <2>1 DEF WaitsAt
  <2>3. w \in Requires[e]
    BY <1>1, <2>1, <2>2 DEF HoldsOnly, NextSeries
  <2>4. f[w] < f[e]
    BY <1>2, <2>3 DEF Ranks
  <2> QED
    BY <1>2, <1>3, <2>1, <2>2, <2>4
<1> QED
  BY <1>2, <1>4, <1>5 DEF WaitsAt

LEMMA LocksNoDeadlock ==
    ASSUME LocksInv, NEW f \in [Domain -> Nat], Ranks(f)
    PROVE  NoDeadlock
<1> SUFFICES ASSUME NEW group \in (SUBSET Request) \ {{}},
                    \A r \in group : \E holder \in group : WaitsFor(r, holder)
             PROVE  FALSE
  BY DEF NoDeadlock
<1> DEFINE R == OpToRel(<, Nat)
           K == {k \in Nat : \E r \in group, h \in group : WaitsAt(f, r, h, k)}
<1>1. \A r \in group : \E h \in group, k \in Nat : WaitsAt(f, r, h, k)
  BY WaitsHaveRank
<1>2. K \subseteq Nat /\ K # {}
  BY <1>1
<1>3. \A x, y \in Nat : y < x => <<y, x>> \in R
  BY DEF OpToRel
<1>4. IsWellFoundedOn(R, Nat)
  BY NatLessThanWellFounded
<1> HIDE DEF R
<1>5. PICK k \in K : \A l \in K : ~ (<<l, k>> \in R)
  <2> HIDE DEF K
  <2> QED
    BY <1>2, <1>4, WFMin
<1>6. PICK r \in group, h \in group : WaitsAt(f, r, h, k)
  BY <1>5
<1>7. PICK g \in group, l \in Nat : WaitsAt(f, h, g, l)
  BY <1>1, <1>6
<1>8. k \in Nat /\ l \in K
  BY <1>7
<1>9. l < k
  BY <1>6, <1>7, <1>8, WaitsSink
<1> QED
  BY <1>3, <1>5, <1>8, <1>9

\* Creations, first Runs and decisions never wait for each other in a circle, in
\* every configuration whose domains can be ranked as lockPublishedUpstreams and
\* insertDraftDatasetVersion lock them.
THEOREM RankedDomainsNeverDeadlock ==
    ASSUME NEW f \in [Domain -> Nat], Ranks(f)
    PROVE  Spec => []NoDeadlock
BY HoldsAlways, LocksNoDeadlock, PTL

----------------------------------------------------------------------------
(* What the series promise *)

\* A series that a step leaves alone stands for the same in the promise.
LEMMA SameStanding ==
    ASSUME NEW d \in Domain, UNCHANGED <<last[d], version[d], frozen[d]>>
    PROVE  UNCHANGED <<last[d], Stage(d), Inputs(d), Newest(d)>>
<1>1. Stage(d)' = Stage(d)
  BY DEF Stage
<1>2. Inputs(d)' = Inputs(d)
  BY DEF Inputs, NoInputs
<1>3. Newest(d)' = Newest(d)
  BY SameNewest
<1> QED
  BY <1>1, <1>2, <1>3

\* The latest version of a series decides its stage (findActiveDatasetVersion).
LEMMA ActiveIsStage ==
    ASSUME SeriesInv, NEW d \in Domain, NEW n \in Number, version[d][n] \in ActiveStatus
    PROVE  n = last[d] /\ Stage(d) = version[d][n] /\ Inputs(d) = frozen[d][n]
<1>1. n = last[d] /\ last[d] # 0
  BY SeriesAssumption DEF SeriesInv, OnlyNewestActive, Number
<1> QED
  BY <1>1 DEF Stage, Inputs

\* Without an active version the series is closed.
LEMMA InactiveIsClosed ==
    ASSUME SeriesInv, NEW d \in Domain, ~ HasActive(d)
    PROVE  Stage(d) = "CLOSED"
<1>1. last[d] # 0 => last[d] \in Number
  BY SeriesAssumption DEF SeriesInv, TypeOK, Number
<1> QED
  BY <1>1 DEF Stage, HasActive

\* The next version of a series is a draft with nothing frozen
\* (allocateNextDatasetVersion, insertDraftDatasetVersion).
LEMMA CreateOpens ==
    ASSUME SeriesInv, DraftsUnfrozen, NEW r \in Request, CreateVersion(r)
    PROVE  \E d \in Domain : Promise!Open(d)
<1>1. PICK d \in Domain : d = request[r].domain
  BY DEF SeriesInv, TypeOK, RequestRecord
<1>2. /\ TypeOK
      /\ ~ HasActive(d) /\ last[d] < Limit[d]
  BY <1>1 DEF SeriesInv, Alone, CreateVersion
<1>3. PICK n \in Number : n = last[d] + 1 /\ n # 0 /\ ~ (n <= last[d])
  <2>1. last[d] \in Nat /\ Limit[d] \in 0 .. MaxVersion /\ MaxVersion \in Nat
    BY <1>2, SeriesAssumption DEF TypeOK
  <2>2. last[d] + 1 \in Number /\ last[d] + 1 # 0 /\ ~ (last[d] + 1 <= last[d])
    BY <1>2, <2>1 DEF Number
  <2> QED
    BY <2>2
<1>4. /\ last' = [last EXCEPT ![d] = n]
      /\ version' = [version EXCEPT ![d][n] = "DRAFT"]
      /\ frozen' = frozen
  BY <1>1, <1>3 DEF CreateVersion
<1>5. version[d][n] = "NONE" /\ frozen[d][n] = NoInputs
  BY <1>3 DEF SeriesInv, Allocated, DraftsUnfrozen
<1>6. /\ last'[d] = n /\ version'[d][n] = "DRAFT"
      /\ \A m \in Number \ {n} : version'[d][m] = version[d][m]
      /\ \A u \in Domain \ {d} : UNCHANGED <<last[u], version[u], frozen[u]>>
  BY <1>2, <1>4 DEF TypeOK
<1>7. Stage(d) = "CLOSED" /\ Stage(d)' = "DRAFT"
  BY <1>2, <1>3, <1>6, InactiveIsClosed DEF Stage, ActiveStatus
<1>8. Inputs(d)' = NoInputs
  BY <1>3, <1>4, <1>5, <1>6 DEF Inputs, NoInputs
<1>9. Newest(d)' = Newest(d)
  <2>1. \A m \in Number : version'[d][m] = "PUBLISHED" <=> version[d][m] = "PUBLISHED"
    BY <1>5, <1>6
  <2> QED
    BY <2>1, SameNewest
<1>10. \A u \in Domain \ {d} : UNCHANGED <<Stage(u), Inputs(u), Newest(u)>>
  BY <1>6, SameStanding
<1>11. NoInputs = Promise!Nothing
  BY DEF NoInputs, Promise!Nothing
<1>12. [u \in Domain |-> Stage(u)]' = [[u \in Domain |-> Stage(u)] EXCEPT ![d] = "DRAFT"]
  BY <1>7, <1>10
<1>13. [u \in Domain |-> Inputs(u)]' = [[u \in Domain |-> Inputs(u)] EXCEPT ![d] = Promise!Nothing]
  BY <1>8, <1>10, <1>11
<1>14. [u \in Domain |-> Newest(u)]' = [u \in Domain |-> Newest(u)]
  BY <1>9, <1>10
<1>15. last' = [last EXCEPT ![d] = last[d] + 1]
  BY <1>3, <1>4
<1> QED
  BY <1>7, <1>12, <1>13, <1>14, <1>15 DEF Promise!Open

\* The greatest number that is published is the newest.
LEMMA GreatestIsNewest ==
    ASSUME NEW d \in Domain, NEW n \in Number, version'[d][n] = "PUBLISHED",
           \A m \in Number : version'[d][m] = "PUBLISHED" => m <= n
    PROVE  Newest(d)' = n
<1> DEFINE P == {m \in Number : version'[d][m] = "PUBLISHED"}
<1>1. Newest(d)' = IF P = {} THEN 0 ELSE CHOOSE m \in P : \A k \in P : k <= m
  BY Zenon DEF Newest
<1>2. n \in P /\ P # {}
  OBVIOUS
<1>3. \A k \in P : k <= n
  OBVIOUS
<1>4. \A m \in P : (\A k \in P : k <= m) => m = n
  <2>1. P \subseteq Int
    BY SeriesAssumption DEF Number
  <2> HIDE DEF P
  <2> QED
    BY <1>2, <1>3, <2>1
<1>5. (CHOOSE m \in P : \A k \in P : k <= m) = n
  <2> HIDE DEF P
  <2> QED
    BY <1>2, <1>3, <1>4
<1> HIDE DEF P
<1> QED
  BY <1>1, <1>2, <1>5

\* The active version of a series moves: its stage follows, and what is
\* published is what it was, unless this version is published now.
LEMMA ActiveMoves ==
    ASSUME SeriesInv, NEW d \in Domain, NEW n \in Number, version[d][n] \in ActiveStatus,
           NEW new \in VersionStatus \ {"NONE"},
           version' = [version EXCEPT ![d][n] = new], last' = last,
           \A u \in Domain \ {d} : frozen'[u] = frozen[u]
    PROVE  /\ n = last[d] /\ Stage(d) = version[d][n]
           /\ Inputs(d)' = frozen'[d][n]
           /\ \A u \in Domain \ {d} : UNCHANGED <<Stage(u), Inputs(u)>>
           /\ [u \in Domain |-> Stage(u)]' =
                 [[u \in Domain |-> Stage(u)] EXCEPT ![d] = IF new \in ActiveStatus THEN new ELSE "CLOSED"]
           /\ [u \in Domain |-> Newest(u)]' =
                 IF new = "PUBLISHED" THEN [[u \in Domain |-> Newest(u)] EXCEPT ![d] = last[d]]
                                      ELSE [u \in Domain |-> Newest(u)]
<1>1. TypeOK
  BY DEF SeriesInv
<1>2. n = last[d] /\ Stage(d) = version[d][n] /\ last[d] # 0
  BY ActiveIsStage, SeriesAssumption DEF Number
<1>3. /\ version'[d][n] = new
      /\ \A m \in Number \ {n} : version'[d][m] = version[d][m]
      /\ \A u \in Domain \ {d} : UNCHANGED <<last[u], version[u], frozen[u]>>
  BY <1>1 DEF TypeOK
<1>4. \A u \in Domain \ {d} : UNCHANGED <<Stage(u), Inputs(u), Newest(u)>>
  BY <1>3, SameStanding
<1>5. PICK s : s = IF new \in ActiveStatus THEN new ELSE "CLOSED"
  OBVIOUS
<1>6. Stage(d)' = s
  BY <1>2, <1>3, <1>5 DEF Stage
<1>7. [u \in Domain |-> Stage(u)]' = [[u \in Domain |-> Stage(u)] EXCEPT ![d] = s]
  BY <1>4, <1>6
<1>8. Inputs(d)' = frozen'[d][n]
  BY <1>2 DEF Inputs
<1>9. version[d][n] # "PUBLISHED"
  BY DEF ActiveStatus
<1>10. CASE new = "PUBLISHED"
  <2>1. \A m \in Number : version'[d][m] = "PUBLISHED" => m <= n
    <3>1. \A m \in Number : version[d][m] = "PUBLISHED" => m <= n
      BY <1>2 DEF SeriesInv, Allocated
    <3>2. n <= n
      BY SeriesAssumption DEF Number
    <3> QED
      BY <1>3, <3>1, <3>2
  <2>2. Newest(d)' = last[d]
    BY <1>2, <1>3, <1>10, <2>1, GreatestIsNewest
  <2>3. [u \in Domain |-> Newest(u)]' = [[u \in Domain |-> Newest(u)] EXCEPT ![d] = last[d]]
    BY <1>4, <2>2
  <2> QED
    BY <1>2, <1>4, <1>5, <1>7, <1>8, <1>10, <2>3
<1>11. CASE new # "PUBLISHED"
  <2>1. Newest(d)' = Newest(d)
    BY <1>3, <1>9, <1>11, SameNewest
  <2>2. [u \in Domain |-> Newest(u)]' = [u \in Domain |-> Newest(u)]
    BY <1>4, <2>1
  <2> QED
    BY <1>2, <1>4, <1>5, <1>7, <1>8, <1>11, <2>2
<1> QED
  BY <1>10, <1>11

\* The freeze of a draft takes the newest of all its inputs at once
\* (initializeOrReuseDraftDataset, freezeDraftBuild).
LEMMA FreezeIsAtomic ==
    ASSUME SeriesInv, NEW r \in Request, PrepareFreeze(r)
    PROVE  (\E d \in Domain : Promise!Freeze(d)) \/ UNCHANGED <<last, version, frozen>>
<1>1. PICK d \in Domain : d = request[r].domain
  BY DEF SeriesInv, TypeOK, RequestRecord
<1>2. PICK n : n = request[r].number
  OBVIOUS
<1>3. PICK picked : picked = request[r].picked
  OBVIOUS
<1>4. TypeOK /\ picked \in [Domain -> 0 .. MaxVersion]
  BY <1>3 DEF SeriesInv, TypeOK, RequestRecord
<1>5. last' = last
  BY DEF PrepareFreeze
<1>6. CASE version[d][n] # "DRAFT"
  BY <1>1, <1>2, <1>6 DEF PrepareFreeze
<1>7. CASE version[d][n] = "DRAFT"
  <2>1. /\ version' = [version EXCEPT ![d][n] = "BUILDING"]
        /\ frozen' = [frozen EXCEPT ![d][n] = picked]
    BY <1>1, <1>2, <1>3, <1>7 DEF PrepareFreeze
  <2>2. CASE n \notin Number
    <3>1. version' = version /\ frozen' = frozen
      BY <1>4, <2>1, <2>2 DEF TypeOK
    <3> QED
      BY <1>5, <3>1
  <2>3. CASE n \in Number
    <3>1. \A u \in Domain : IF u \in Requires[d] THEN Newest(u) # 0 /\ picked[u] = Newest(u) ELSE picked[u] = 0
      BY <1>1, <1>3 DEF SeriesInv, Picked, PrepareFreeze
    <3>2. frozen'[d][n] = picked /\ \A u \in Domain \ {d} : frozen'[u] = frozen[u]
      BY <1>4, <2>1, <2>3 DEF TypeOK
    <3>3. "BUILDING" \in VersionStatus \ {"NONE"} /\ version[d][n] \in ActiveStatus /\ "BUILDING" \in ActiveStatus
      BY <1>7 DEF VersionStatus, ActiveStatus
    <3>4. /\ Stage(d) = "DRAFT"
          /\ Inputs(d)' = picked
          /\ \A u \in Domain \ {d} : Inputs(u)' = Inputs(u)
          /\ [u \in Domain |-> Stage(u)]' = [[u \in Domain |-> Stage(u)] EXCEPT ![d] = "BUILDING"]
          /\ [u \in Domain |-> Newest(u)]' = [u \in Domain |-> Newest(u)]
      <4>1. version' = [version EXCEPT ![d][n] = "BUILDING"]
        BY <2>1
      <4>2. PICK new \in VersionStatus \ {"NONE"} : new = "BUILDING"
        BY <3>3
      <4>3. version' = [version EXCEPT ![d][n] = new]
        BY <4>1, <4>2
      <4>4. /\ n = last[d] /\ Stage(d) = version[d][n]
            /\ Inputs(d)' = frozen'[d][n]
            /\ \A u \in Domain \ {d} : UNCHANGED <<Stage(u), Inputs(u)>>
            /\ [u \in Domain |-> Stage(u)]' =
                  [[u \in Domain |-> Stage(u)] EXCEPT ![d] = IF new \in ActiveStatus THEN new ELSE "CLOSED"]
            /\ [u \in Domain |-> Newest(u)]' =
                  IF new = "PUBLISHED" THEN [[u \in Domain |-> Newest(u)] EXCEPT ![d] = last[d]]
                                       ELSE [u \in Domain |-> Newest(u)]
        <5>1. version[d][n] \in ActiveStatus /\ \A u \in Domain \ {d} : frozen'[u] = frozen[u]
          BY <3>2, <3>3
        <5> QED
          BY <1>5, <2>3, <4>3, <5>1, ActiveMoves
      <4> QED
        BY <1>7, <3>2, <3>3, <4>2, <4>4
    <3>5. picked = [u \in Domain |-> IF u \in Requires[d] THEN [v \in Domain |-> Newest(v)][u] ELSE 0]
      BY <1>4, <3>1
    <3>6. [u \in Domain |-> Inputs(u)]' = [[u \in Domain |-> Inputs(u)] EXCEPT ![d] = picked]
      BY <3>4
    <3>7. \A u \in Requires[d] : [v \in Domain |-> Newest(v)][u] # 0
      BY <3>1, SeriesAssumption
    <3> QED
      BY <1>5, <3>4, <3>5, <3>6, <3>7 DEF Promise!Freeze
  <2> QED
    BY <2>2, <2>3
<1> QED
  BY <1>6, <1>7

\* A decision closes the series, and a publication makes its latest version
\* the newest published one (applyTransition).
LEMMA DecideCloses ==
    ASSUME SeriesInv, NEW r \in Request, Decide(r)
    PROVE  (\E d \in Domain : Promise!Publish(d) \/ Promise!GiveUp(d)) \/ UNCHANGED <<last, version, frozen>>
<1>1. PICK d \in Domain : d = request[r].domain
  BY DEF SeriesInv, TypeOK, RequestRecord
<1>2. PICK n : n = request[r].number
  OBVIOUS
<1>3. PICK c \in Command : c = request[r].command
  BY DEF SeriesInv, TypeOK, RequestRecord
<1>4. TypeOK /\ UNCHANGED <<last, frozen>>
  BY DEF SeriesInv, Decide
<1>5. CASE version[d][n] \notin Source(c)
  BY <1>1, <1>2, <1>3, <1>4, <1>5 DEF Decide
<1>6. CASE version[d][n] \in Source(c)
  <2>1. version' = [version EXCEPT ![d][n] = c]
    BY <1>1, <1>2, <1>3, <1>6 DEF Decide
  <2>2. CASE n \notin Number
    <3>1. version' = version
      BY <1>4, <2>1, <2>2 DEF TypeOK
    <3> QED
      BY <1>4, <3>1
  <2>3. CASE n \in Number
    <3>1. /\ c \in VersionStatus \ {"NONE"} /\ c \notin ActiveStatus
          /\ version[d][n] \in ActiveStatus
          /\ c = "PUBLISHED" => version[d][n] = "VALIDATING"
      BY <1>6 DEF Command, VersionStatus, ActiveStatus, Source
    <3>2. /\ Stage(d) = version[d][n]
          /\ Inputs(d)' = frozen'[d][n] /\ n = last[d]
          /\ \A u \in Domain \ {d} : Inputs(u)' = Inputs(u)
          /\ [u \in Domain |-> Stage(u)]' = [[u \in Domain |-> Stage(u)] EXCEPT ![d] = "CLOSED"]
          /\ [u \in Domain |-> Newest(u)]' =
                 IF c = "PUBLISHED" THEN [[u \in Domain |-> Newest(u)] EXCEPT ![d] = last[d]]
                                    ELSE [u \in Domain |-> Newest(u)]
      BY <1>4, <2>1, <2>3, <3>1, ActiveMoves
    <3>3. Inputs(d)' = Inputs(d) /\ Stage(d) # "CLOSED"
      <4>1. Inputs(d) = frozen[d][n]
        BY <2>3, <3>1, ActiveIsStage
      <4> QED
        BY <1>4, <3>1, <3>2, <4>1 DEF ActiveStatus
    <3>4. [u \in Domain |-> Inputs(u)]' = [u \in Domain |-> Inputs(u)]
      BY <3>2, <3>3
    <3>5. CASE c = "PUBLISHED"
      BY <1>4, <3>1, <3>2, <3>4, <3>5 DEF Promise!Publish
    <3>6. CASE c # "PUBLISHED"
      BY <1>4, <3>2, <3>3, <3>4, <3>6 DEF Promise!GiveUp
    <3> QED
      BY <3>5, <3>6
  <2> QED
    BY <2>2, <2>3
<1> QED
  BY <1>5, <1>6

\* Submission is one step of the promise (submitDatasetValidationService).
LEMMA SubmitSubmits ==
    ASSUME SeriesInv, NEW d \in Domain, NEW n \in Number, SubmitValidation(d, n)
    PROVE  Promise!Submit(d)
<1>1. /\ version[d][n] = "BUILDING"
      /\ version' = [version EXCEPT ![d][n] = "VALIDATING"]
      /\ UNCHANGED <<last, frozen>>
  BY DEF SubmitValidation
<1>2. "VALIDATING" \in VersionStatus \ {"NONE"} /\ version[d][n] \in ActiveStatus /\ "VALIDATING" \in ActiveStatus
  BY <1>1 DEF VersionStatus, ActiveStatus
<1>3. /\ Stage(d) = "BUILDING"
      /\ Inputs(d)' = frozen'[d][n]
      /\ \A u \in Domain \ {d} : Inputs(u)' = Inputs(u)
      /\ [u \in Domain |-> Stage(u)]' = [[u \in Domain |-> Stage(u)] EXCEPT ![d] = "VALIDATING"]
      /\ [u \in Domain |-> Newest(u)]' = [u \in Domain |-> Newest(u)]
  BY <1>1, <1>2, ActiveMoves
<1>4. Inputs(d)' = Inputs(d)
  <2>1. Inputs(d) = frozen[d][n]
    BY <1>2, ActiveIsStage
  <2> QED
    BY <1>1, <1>3, <2>1
<1>5. [u \in Domain |-> Inputs(u)]' = [u \in Domain |-> Inputs(u)]
  BY <1>3, <1>4
<1> QED
  BY <1>1, <1>3, <1>5 DEF Promise!Submit

\* Every other step of a transaction only takes or gives back locks.
LEMMA WhoWrites ==
    ASSUME [Next]_vars
    PROVE  \/ \E r \in Request : CreateVersion(r) \/ PrepareFreeze(r) \/ Decide(r)
           \/ \E d \in Domain, n \in Number : SubmitValidation(d, n)
           \/ UNCHANGED <<last, version, frozen>>
BY DEF Next, vars, Arrival, BeginCreate, BeginPrepare, BeginDecide, Begin, Proceed, CreateLock, CreateTest,
       CreateRefused, PrepareType, PrepareSeries, PrepareResolve, DecideLock, Rollback

\* Nothing is frozen before the first Run of a version, and no version becomes
\* a draft again.
LEMMA DraftsStayUnfrozen == Spec => []DraftsUnfrozen
<1>1. Init => DraftsUnfrozen
  BY DEF Init, DraftsUnfrozen
<1>2. SeriesInv /\ DraftsUnfrozen /\ [Next]_vars => DraftsUnfrozen'
  <2> SUFFICES ASSUME SeriesInv, DraftsUnfrozen, [Next]_vars, NEW d \in Domain, NEW n \in Number,
                      version'[d][n] \in {"NONE", "DRAFT"}
               PROVE  frozen'[d][n] = NoInputs
    BY DEF DraftsUnfrozen, NoInputs
  <2>1. TypeOK
    BY DEF SeriesInv
  <2>2. ASSUME UNCHANGED <<version, frozen>>
        PROVE  frozen'[d][n] = NoInputs
    BY <2>2 DEF DraftsUnfrozen
  <2>3. ASSUME NEW e \in Domain, NEW m, NEW old, NEW new, version[e][m] = old, version' = [version EXCEPT ![e][m] = new],
               new \notin {"NONE", "DRAFT"} \/ old \in {"NONE", "DRAFT"}
        PROVE  version[d][n] \in {"NONE", "DRAFT"}
    BY <2>1, <2>3 DEF TypeOK
  <2>4. ASSUME NEW r \in Request, CreateVersion(r)
        PROVE  frozen'[d][n] = NoInputs
    <3>1. PICK e \in Domain : e = request[r].domain
      BY <2>1 DEF TypeOK, RequestRecord
    <3>2. PICK m \in Number : m = last[e] + 1 /\ ~ (m <= last[e])
      <4>1. last[e] \in Nat /\ Limit[e] \in 0 .. MaxVersion /\ MaxVersion \in Nat /\ last[e] < Limit[e]
        <5>1. last[e] < Limit[e]
          BY <2>4, <3>1 DEF SeriesInv, Alone, CreateVersion
        <5> QED
          BY <2>1, <5>1, SeriesAssumption DEF TypeOK
      <4>2. last[e] + 1 \in Number /\ ~ (last[e] + 1 <= last[e])
        BY <4>1 DEF Number
      <4> QED
        BY <4>2
    <3>3. version[e][m] = "NONE"
      BY <3>2 DEF SeriesInv, Allocated
    <3>4. version' = [version EXCEPT ![e][m] = "DRAFT"] /\ frozen' = frozen
      BY <2>4, <3>1, <3>2 DEF CreateVersion
    <3>5. version[d][n] \in {"NONE", "DRAFT"}
      BY <2>3, <3>3, <3>4
    <3> QED
      BY <3>4, <3>5 DEF DraftsUnfrozen
  <2>5. ASSUME NEW r \in Request, PrepareFreeze(r)
        PROVE  frozen'[d][n] = NoInputs
    <3>1. PICK e \in Domain : e = request[r].domain
      BY <2>1 DEF TypeOK, RequestRecord
    <3> DEFINE m == request[r].number
               picked == request[r].picked
    <3>2. CASE version[e][m] # "DRAFT"
      BY <2>2, <2>5, <3>1, <3>2 DEF PrepareFreeze
    <3>3. CASE version[e][m] = "DRAFT"
      <4>1. version' = [version EXCEPT ![e][m] = "BUILDING"] /\ frozen' = [frozen EXCEPT ![e][m] = picked]
        BY <2>5, <3>1, <3>3 DEF PrepareFreeze
      <4>2. ~ (e = d /\ m = n) /\ version[d][n] \in {"NONE", "DRAFT"}
        BY <2>1, <2>3, <3>3, <4>1 DEF TypeOK
      <4>3. frozen'[d][n] = frozen[d][n]
        BY <2>1, <4>1, <4>2 DEF TypeOK
      <4> QED
        BY <4>2, <4>3 DEF DraftsUnfrozen
    <3> QED
      BY <3>2, <3>3
  <2>6. ASSUME NEW r \in Request, Decide(r)
        PROVE  frozen'[d][n] = NoInputs
    <3>1. PICK e \in Domain, c \in Command : e = request[r].domain /\ c = request[r].command
      BY <2>1 DEF TypeOK, RequestRecord
    <3>2. PICK m : m = request[r].number
      OBVIOUS
    <3>3. frozen' = frozen /\ (version' = version \/ version' = [version EXCEPT ![e][m] = c])
      BY <2>6, <3>1, <3>2 DEF Decide
    <3>4. version[d][n] \in {"NONE", "DRAFT"}
      <4>1. PICK old : old = version[e][m]
        OBVIOUS
      <4>2. c \notin {"NONE", "DRAFT"}
        BY DEF Command
      <4> QED
        BY <2>3, <3>3, <4>1, <4>2
    <3> QED
      BY <3>3, <3>4 DEF DraftsUnfrozen
  <2>7. ASSUME NEW e \in Domain, NEW m \in Number, SubmitValidation(e, m)
        PROVE  frozen'[d][n] = NoInputs
    <3>1. frozen' = frozen /\ version' = [version EXCEPT ![e][m] = "VALIDATING"]
      BY <2>7 DEF SubmitValidation
    <3>2. version[d][n] \in {"NONE", "DRAFT"}
      BY <2>3, <3>1
    <3> QED
      BY <3>1, <3>2 DEF DraftsUnfrozen
  <2> QED
    BY <2>2, <2>4, <2>5, <2>6, <2>7, WhoWrites
<1> QED
  BY <1>1, <1>2, SeriesInvariant, PTL DEF Spec

\* For any domains, requirements and transactions, the series implement the
\* promise: each version is opened, frozen, submitted and decided in one step.
THEOREM SeriesKeepPromise == Spec => SeriesKept
<1>1. Init => Promise!Init
  <2> SUFFICES ASSUME Init PROVE Promise!Init
    OBVIOUS
  <2>1. \A d \in Domain : Stage(d) = "CLOSED" /\ Inputs(d) = NoInputs
    BY DEF Init, Stage, Inputs
  <2>2. ASSUME NEW d \in Domain
        PROVE  Newest(d) = 0
    BY DEF Init, Newest
  <2> QED
    BY <2>1, <2>2 DEF Init, Promise!Init, Promise!Nothing, NoInputs
<1>2. SeriesInv /\ DraftsUnfrozen /\ [Next]_vars => [Promise!Next]_(Promise!vars)
  <2> SUFFICES ASSUME SeriesInv, DraftsUnfrozen, [Next]_vars PROVE [Promise!Next]_(Promise!vars)
    OBVIOUS
  <2>1. ASSUME UNCHANGED <<last, version, frozen>>
        PROVE  UNCHANGED Promise!vars
    <3>1. \A d \in Domain : UNCHANGED <<Stage(d), Inputs(d), Newest(d)>>
      BY <2>1, SameStanding
    <3> QED
      BY <2>1, <3>1 DEF Promise!vars
  <2>2. ASSUME NEW r \in Request, CreateVersion(r)
        PROVE  Promise!Next
    BY <2>2, CreateOpens DEF Promise!Next
  <2>3. ASSUME NEW r \in Request, PrepareFreeze(r)
        PROVE  [Promise!Next]_(Promise!vars)
    BY <2>1, <2>3, FreezeIsAtomic DEF Promise!Next
  <2>4. ASSUME NEW r \in Request, Decide(r)
        PROVE  [Promise!Next]_(Promise!vars)
    BY <2>1, <2>4, DecideCloses DEF Promise!Next
  <2>5. ASSUME NEW d \in Domain, NEW n \in Number, SubmitValidation(d, n)
        PROVE  Promise!Next
    BY <2>5, SubmitSubmits DEF Promise!Next
  <2> QED
    BY <2>1, <2>2, <2>3, <2>4, <2>5, WhoWrites
<1> QED
  BY <1>1, <1>2, SeriesInvariant, DraftsStayUnfrozen, PTL DEF Spec, SeriesKept, Promise!Spec

=============================================================================
