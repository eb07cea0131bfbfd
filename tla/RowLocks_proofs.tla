--------------------------- MODULE RowLocks_proofs ---------------------------
(***************************************************************************)
(* Whatever the number of jobs, attempts and transactions, no transactions *)
(* wait for each other, and what each of them writes is one step of the    *)
(* tables as they are then.                                                *)
(*                                                                         *)
(* The invariant says of every transaction which rows it holds at its      *)
(* place, and that what it has read of them is still so.  Both theorems    *)
(* follow: a transaction waits only for rows that come after all it holds, *)
(* and the rows a write depends on cannot have changed since.              *)
(***************************************************************************)
EXTENDS RowLocks, TableSteps_proofs, TLAPS, WellFoundedInduction

SeriesRow == <<"series", NoJob>>
VersionRow == <<"version", NoJob>>
JobRow(j) == <<"job", j>>
AttemptRow(j) == <<"attempt", j>>

SeriesKind == {"publish", "reject", "abandon"}
VersionKind == Command \cup {"prepare", "retry"}
AttemptKind == {"begin", "record", "check"}

\* The kinds that come to each phase.
PlaceOK(t) ==
    LET x == txn[t] IN
    /\ x.pc = "series" => x.kind \in SeriesKind
    /\ x.pc = "version" => x.kind \in VersionKind
    /\ x.pc = "job" => x.kind \notin {"publish", "reject"}
    /\ x.pc = "attempt" => x.kind \in {"submit", "abandon"} \cup AttemptKind
    /\ x.pc = "read" => x.kind \in {"prepare", "retry", "record", "check"}
    /\ x.pc # "idle" /\ x.kind \in JobKind => x.job \in Job

BeyondVersion(t) == txn[t].pc \in {"job", "attempt", "read", "write"}
BeyondJobs(t) == txn[t].pc \in {"attempt", "read", "write"}

\* A row that is held lies behind the place of its holder.
SeriesBehind(t) ==
    lock[SeriesRow] = t => txn[t].pc \notin {"idle", "series"}
VersionBehind(t) ==
    lock[VersionRow] = t => txn[t].kind \in VersionKind /\ BeyondVersion(t)
JobsBehind(t) ==
    \A j \in Job : lock[JobRow(j)] = t =>
        \/ /\ txn[t].pc = "job" /\ j \notin txn[t].todo
           /\ Freezing(t) \/ \A i \in txn[t].todo : JobOrder[j] < JobOrder[i]
        \/ BeyondJobs(t)
AttemptsBehind(t) ==
    \A j \in Job : lock[AttemptRow(j)] = t =>
        /\ lock[JobRow(j)] = t /\ txn[t].kind \notin {"prepare", "retry"}
        /\ \/ /\ txn[t].pc = "attempt" /\ j \notin txn[t].todo
              /\ \A i \in txn[t].todo : JobOrder[j] < JobOrder[i]
           \/ txn[t].pc \in {"read", "write"}

\* The status of the version was read with its lock.
VersionHeld(t) ==
    txn[t].kind \in VersionKind /\ BeyondVersion(t) =>
        /\ lock[VersionRow] = t
        /\ txn[t].seen = dataset /\ dataset \in LegalStatus(txn[t].kind)

\* The rows that lie behind are held.
MyJobs(t) == JobsToLock(txn[t].kind, txn[t].job, txn[t].seen)
RowsHeld(t) ==
    txn[t].kind \notin {"publish", "reject"} =>
        /\ txn[t].pc = "job" =>
             txn[t].todo \subseteq MyJobs(t) /\ \A j \in MyJobs(t) \ txn[t].todo : lock[JobRow(j)] = t
        /\ BeyondJobs(t) => \A j \in MyJobs(t) : lock[JobRow(j)] = t
        /\ txn[t].pc = "attempt" =>
             txn[t].todo \subseteq MyJobs(t) /\ \A j \in MyJobs(t) \ txn[t].todo : lock[AttemptRow(j)] = t
        /\ txn[t].pc \in {"read", "write"} /\ txn[t].kind \notin {"prepare", "retry"} =>
             \A j \in MyJobs(t) : lock[AttemptRow(j)] = t

\* What was read of the rows that are held is still so.
JobsFit(t) ==
    \A j \in Job : lock[JobRow(j)] = t =>
        /\ txn[t].ok => JobFits(t, j)
        /\ j = txn[t].job => txn[t].jobSeen = job[j]
AttemptsFit(t) ==
    \A j \in Job : lock[AttemptRow(j)] = t /\ txn[t].ok => AttemptFits(t, j)
NumberFits(t) ==
    txn[t].kind \in {"prepare", "retry"} /\ txn[t].pc = "write" =>
        ~ HasActive(txn[t].job) /\ NextNumber(txn[t].job, txn[t].num)
AttemptExists(t) ==
    txn[t].kind \in AttemptKind /\ txn[t].pc # "idle" =>
        attempt[txn[t].job][txn[t].num] # "ABSENT"

TransactionInv(t) ==
    /\ PlaceOK(t)
    /\ SeriesBehind(t) /\ VersionBehind(t) /\ JobsBehind(t) /\ AttemptsBehind(t)
    /\ VersionHeld(t) /\ RowsHeld(t)
    /\ JobsFit(t) /\ AttemptsFit(t) /\ NumberFits(t) /\ AttemptExists(t)

IInv == TypeOK /\ TablesConsistent /\ \A t \in Transaction : TransactionInv(t)

----------------------------------------------------------------------------
(* The transactions *)

LEMMA RowsTyped ==
    /\ SeriesRow \in Row /\ VersionRow \in Row
    /\ \A j \in Job : JobRow(j) \in Row /\ AttemptRow(j) \in Row
BY DEF Row, SeriesRow, VersionRow, JobRow, AttemptRow

LEMMA RowsDiffer ==
    /\ SeriesRow # VersionRow
    /\ \A j \in Job : /\ JobRow(j) # SeriesRow /\ JobRow(j) # VersionRow
                      /\ AttemptRow(j) # SeriesRow /\ AttemptRow(j) # VersionRow
                      /\ \A i \in Job : /\ JobRow(j) # AttemptRow(i)
                                        /\ i # j => JobRow(j) # JobRow(i) /\ AttemptRow(j) # AttemptRow(i)
BY DEF SeriesRow, VersionRow, JobRow, AttemptRow

LEMMA IdleTyped == Idle \in TransactionRecord /\ Idle.pc = "idle"
BY JobAssumption, MaxAttemptsAssumption
DEF Idle, TransactionRecord, Kind, Command, Phase, DatasetStatus, JobStatus, Number

\* A transaction that does not step keeps its invariant when nobody changes what
\* it has read of the rows it holds.
LEMMA OtherStays ==
    ASSUME NEW q \in Transaction, TransactionInv(q), TypeOK,
           txn'[q] = txn[q],
           \A row \in Row : lock'[row] = q <=> lock[row] = q,
           lock[VersionRow] = q => dataset' = dataset,
           \A j \in Job : lock[JobRow(j)] = q => job'[j] = job[j] /\ attempt'[j] = attempt[j],
           \A j \in Job, n \in Number : attempt[j][n] # "ABSENT" => attempt'[j][n] # "ABSENT"
    PROVE  TransactionInv(q)'
<1> USE DEF TransactionInv
<1>1. PlaceOK(q)' BY DEF PlaceOK
<1>2. SeriesBehind(q)' /\ VersionBehind(q)'
  BY RowsTyped DEF SeriesBehind, VersionBehind, BeyondVersion
<1>3. JobsBehind(q)' BY RowsTyped DEF JobsBehind, BeyondJobs, Freezing
<1>4. AttemptsBehind(q)' BY RowsTyped DEF AttemptsBehind
<1>5. VersionHeld(q)' BY RowsTyped DEF VersionHeld, BeyondVersion
<1>6. MyJobs(q)' = MyJobs(q) /\ MyJobs(q) \subseteq Job \cup {NoJob}
  BY DEF MyJobs, JobsToLock, TypeOK, TransactionRecord
<1>7. txn[q].kind \notin {"publish", "reject"} /\ txn[q].pc # "idle" => MyJobs(q) \subseteq Job
  BY DEF MyJobs, JobsToLock, PlaceOK, TypeOK, TransactionRecord, Kind, Command
<1>8. RowsHeld(q)'
  BY <1>6, <1>7, RowsTyped DEF RowsHeld, BeyondJobs
<1>9. JobsFit(q)'
  <2> SUFFICES ASSUME NEW j \in Job, lock'[JobRow(j)] = q
               PROVE  /\ txn'[q].ok => JobFits(q, j)'
                      /\ j = txn'[q].job => txn'[q].jobSeen = job'[j]
    BY DEF JobsFit
  <2>1. lock[JobRow(j)] = q /\ job'[j] = job[j] BY RowsTyped
  <2>2. JobFits(q, j)' = JobFits(q, j) BY <2>1 DEF JobFits
  <2> QED BY <2>1, <2>2 DEF JobsFit
<1>10. AttemptsFit(q)'
  <2> SUFFICES ASSUME NEW j \in Job, lock'[AttemptRow(j)] = q, txn'[q].ok
               PROVE  AttemptFits(q, j)'
    BY DEF AttemptsFit
  <2>1. lock[AttemptRow(j)] = q /\ lock[JobRow(j)] = q BY RowsTyped DEF AttemptsBehind
  <2>2. attempt'[j] = attempt[j] BY <2>1
  <2>3. HasActive(j)' = HasActive(j) BY <2>2 DEF HasActive
  <2>4. AttemptFits(q, j)' = AttemptFits(q, j) BY <2>2, <2>3 DEF AttemptFits
  <2> QED BY <2>1, <2>4 DEF AttemptsFit
<1>11. NumberFits(q)'
  <2> SUFFICES ASSUME txn[q].kind \in {"prepare", "retry"}, txn[q].pc = "write"
               PROVE  ~ HasActive(txn[q].job)' /\ NextNumber(txn[q].job, txn[q].num)'
    BY DEF NumberFits
  <2>1. txn[q].job \in Job BY DEF PlaceOK, JobKind
  <2>2. txn[q].job \in MyJobs(q) BY <2>1 DEF MyJobs, JobsToLock
  <2>3. lock[JobRow(txn[q].job)] = q BY <2>2 DEF RowsHeld, BeyondJobs
  <2>4. attempt'[txn[q].job] = attempt[txn[q].job] BY <2>1, <2>3
  <2>5. ~ HasActive(txn[q].job) /\ NextNumber(txn[q].job, txn[q].num) BY DEF NumberFits
  <2>6. HasActive(txn[q].job)' = HasActive(txn[q].job) BY <2>4 DEF HasActive
  <2>7. NextNumber(txn[q].job, txn[q].num)' = NextNumber(txn[q].job, txn[q].num)
    BY <2>4 DEF NextNumber
  <2> QED BY <2>5, <2>6, <2>7
<1>12. AttemptExists(q)'
  <2>1. txn[q].num \in Number BY DEF TypeOK, TransactionRecord
  <2>2. txn[q].kind \in AttemptKind /\ txn[q].pc # "idle" => txn[q].job \in Job
    BY DEF PlaceOK, JobKind, AttemptKind
  <2> QED BY <2>1, <2>2 DEF AttemptExists
<1> QED BY <1>1, <1>2, <1>3, <1>4, <1>5, <1>8, <1>9, <1>10, <1>11, <1>12

\* A transaction that has ended holds nothing and promises nothing.
LEMMA EndedInv ==
    ASSUME NEW t \in Transaction, txn'[t] = Idle, \A row \in Row : lock'[row] # t
    PROVE  TransactionInv(t)'
<1>1. txn'[t].pc = "idle" BY IdleTyped
<1>2. \A j \in Job : lock'[JobRow(j)] # t /\ lock'[AttemptRow(j)] # t BY RowsTyped
<1>3. lock'[SeriesRow] # t /\ lock'[VersionRow] # t BY RowsTyped
<1> QED BY <1>1, <1>2, <1>3
        DEF TransactionInv, PlaceOK, SeriesBehind, VersionBehind, JobsBehind, AttemptsBehind,
            VersionHeld, RowsHeld, JobsFit, AttemptsFit, NumberFits, AttemptExists,
            BeyondVersion, BeyondJobs

\* The end of a transaction concerns no lock of another.
LEMMA EndFrees ==
    ASSUME TypeOK, NEW t \in Transaction, End(t)
    PROVE  /\ lock' \in [Row -> Transaction \cup {NoTransaction}]
           /\ txn' \in [Transaction -> TransactionRecord]
           /\ txn'[t] = Idle /\ \A row \in Row : lock'[row] # t
           /\ \A q \in Transaction \ {t} :
                txn'[q] = txn[q] /\ \A row \in Row : lock'[row] = q <=> lock[row] = q
<1>1. txn' = [txn EXCEPT ![t] = Idle]
      /\ lock' = [row \in Row |-> IF lock[row] = t THEN NoTransaction ELSE lock[row]]
  BY DEF End
<1>2. NoTransaction \notin Transaction BY LockAssumption
<1> QED BY <1>1, <1>2, IdleTyped DEF TypeOK

\* A lock that is taken concerns nobody else's.
LEMMA LockTakes ==
    ASSUME TypeOK, NEW t \in Transaction, NEW row \in Row, Lock(t, row)
    PROVE  /\ lock' \in [Row -> Transaction \cup {NoTransaction}]
           /\ lock[row] = NoTransaction
           /\ \A r \in Row : lock'[r] = t <=> r = row \/ lock[r] = t
           /\ \A q \in Transaction \ {t} : \A r \in Row : lock'[r] = q <=> lock[r] = q
BY LockAssumption DEF Lock, TypeOK

----------------------------------------------------------------------------
(* A transaction's own steps *)

\* The invariant of a transaction that waits for no job holds of what it holds.
LEMMA BeginOwn ==
    ASSUME TypeOK, NEW t \in Transaction, TransactionInv(t),
           NEW k \in Kind, NEW j \in Job \cup {NoJob}, NEW n \in Number, Begin(t, k, j, n)
    PROVE  TypeOK' /\ TransactionInv(t)'
<1> USE DEF TransactionInv
<1>1. /\ txn[t] \in TransactionRecord /\ txn[t].pc = "idle" /\ UNCHANGED <<tableVars, lock>>
      /\ k \in JobKind => j \in Job
      /\ k \in AttemptKind => attempt[j][n] # "ABSENT"
  BY JobAssumption DEF Begin, TypeOK, Kind, Command, JobKind, AttemptKind
<1>2. PICK x \in TransactionRecord :
        /\ txn' = [txn EXCEPT ![t] = x]
        /\ x.kind = k /\ x.job = j /\ x.num = n
        /\ x.pc = CASE k \in {"publish", "reject", "abandon"} -> "series"
                    [] k \in {"submit", "prepare", "retry"} -> "version"
                    [] OTHER -> "job"
        /\ x.todo = IF k \in {"begin", "record", "check"} THEN {j} ELSE {}
  <2> DEFINE x == [txn[t] EXCEPT !.kind = k, !.job = j, !.num = n,
                            !.pc = CASE k \in {"publish", "reject", "abandon"} -> "series"
                                     [] k \in {"submit", "prepare", "retry"} -> "version"
                                     [] OTHER -> "job",
                            !.todo = IF k \in {"begin", "record", "check"} THEN {j} ELSE {},
                            !.seen = IF k = "begin" THEN dataset ELSE txn[t].seen]
  <2>1. txn' = [txn EXCEPT ![t] = x] BY Zenon DEF Begin
  <2>2. dataset \in DatasetStatus BY DEF TypeOK, TablesTypeOK
  <2>3. x \in TransactionRecord
    BY <1>1, <2>2 DEF TransactionRecord, Phase, JobKind, AttemptKind
  <2> QED BY <1>1, <2>1, <2>3 DEF TransactionRecord
<1>3. txn'[t] = x /\ TypeOK' BY <1>1, <1>2 DEF TypeOK, TablesTypeOK, tableVars
<1>4. \/ k \in SeriesKind /\ x.pc = "series"
      \/ k \in {"submit", "prepare", "retry"} /\ x.pc = "version"
      \/ k \in AttemptKind /\ x.pc = "job" /\ x.todo = {j}
  BY <1>2 DEF Kind, Command, JobKind, SeriesKind, AttemptKind
<1>5. /\ lock'[SeriesRow] # t /\ lock'[VersionRow] # t
      /\ \A i \in Job : lock'[JobRow(i)] # t /\ lock'[AttemptRow(i)] # t
  BY <1>1 DEF SeriesBehind, VersionBehind, JobsBehind, AttemptsBehind, BeyondVersion, BeyondJobs
<1>6. PlaceOK(t)'
  BY <1>1, <1>2, <1>3, <1>4 DEF PlaceOK, SeriesKind, VersionKind, AttemptKind, Command, JobKind
<1>7. RowsHeld(t)'
  BY <1>2, <1>3, <1>4 DEF RowsHeld, BeyondJobs, MyJobs, JobsToLock, AttemptKind
<1>8. AttemptExists(t)'
  BY <1>1, <1>2, <1>3 DEF AttemptExists, tableVars
<1> QED BY <1>2, <1>3, <1>4, <1>5, <1>6, <1>7, <1>8
        DEF SeriesBehind, VersionBehind, JobsBehind, AttemptsBehind, VersionHeld, JobsFit,
            AttemptsFit, NumberFits, BeyondVersion, AttemptKind, VersionKind, Command

LEMMA LockSeriesOwn ==
    ASSUME TypeOK, NEW t \in Transaction, TransactionInv(t), LockSeries(t)
    PROVE  TypeOK' /\ TransactionInv(t)'
<1> USE DEF TransactionInv
<1>1. /\ Wants(t, SeriesRow) /\ Lock(t, SeriesRow) /\ UNCHANGED tableVars
      /\ txn' = [txn EXCEPT ![t].pc = "version"]
  BY DEF LockSeries, Lock, SeriesRow
<1>2. txn[t].pc = "series" /\ txn[t] \in TransactionRecord
  BY <1>1, RowsDiffer DEF Wants, SeriesRow, TypeOK
<1>3. lock' \in [Row -> Transaction \cup {NoTransaction}] /\ (\A r \in Row : lock'[r] = t <=> r = SeriesRow \/ lock[r] = t)
  BY <1>1, LockTakes, RowsTyped
<1>4. txn'[t] = [txn[t] EXCEPT !.pc = "version"] /\ txn' \in [Transaction -> TransactionRecord]
  BY <1>1, <1>2 DEF TypeOK, TransactionRecord, Phase
<1>5. txn'[t].pc = "version" /\ txn'[t].kind = txn[t].kind /\ txn'[t].job = txn[t].job /\ txn'[t].num = txn[t].num
  BY <1>2, <1>4 DEF TransactionRecord
<1>6. TypeOK' BY <1>1, <1>3, <1>4 DEF TypeOK, TablesTypeOK, tableVars
<1>7. /\ lock'[VersionRow] # t
      /\ \A i \in Job : lock'[JobRow(i)] # t /\ lock'[AttemptRow(i)] # t
  BY <1>2, <1>3, RowsTyped, RowsDiffer
  DEF VersionBehind, JobsBehind, AttemptsBehind, BeyondVersion, BeyondJobs
<1>8. txn[t].kind \in SeriesKind BY <1>2 DEF PlaceOK
<1>9. PlaceOK(t)' BY <1>2, <1>5, <1>8 DEF PlaceOK, SeriesKind, VersionKind, Command
<1>10. AttemptExists(t)' BY <1>1, <1>2, <1>5 DEF AttemptExists, tableVars
<1> QED BY <1>5, <1>6, <1>7, <1>9, <1>10
        DEF SeriesBehind, VersionBehind, JobsBehind, AttemptsBehind, VersionHeld, RowsHeld, JobsFit,
            AttemptsFit, NumberFits, BeyondVersion, BeyondJobs

LEMMA LockVersionOwn ==
    ASSUME TypeOK, NEW t \in Transaction, TransactionInv(t), LockVersion(t)
    PROVE  TypeOK' /\ TransactionInv(t)'
<1> USE DEF TransactionInv
<1>1. /\ Wants(t, VersionRow) /\ Lock(t, VersionRow) /\ UNCHANGED tableVars
      /\ dataset \in LegalStatus(txn[t].kind)
      /\ txn' = [txn EXCEPT ![t] = Locked([txn[t] EXCEPT !.seen = dataset], {})]
  BY DEF LockVersion, Lock, VersionRow
<1>2. txn[t].pc = "version" /\ txn[t] \in TransactionRecord /\ dataset \in DatasetStatus
  BY <1>1 DEF Wants, VersionRow, TypeOK, TablesTypeOK
<1>3. /\ lock' \in [Row -> Transaction \cup {NoTransaction}]
      /\ \A r \in Row : lock'[r] = t <=> r = VersionRow \/ lock[r] = t
  BY <1>1, LockTakes, RowsTyped
<1>4. txn[t].kind \in VersionKind BY <1>2 DEF PlaceOK
<1> DEFINE x == Locked([txn[t] EXCEPT !.seen = dataset], {})
           next == After(txn[t].kind, "version")
           todo == IF next = "job" THEN JobsToLock(txn[t].kind, txn[t].job, dataset) ELSE {}
<1>5. \/ next = "write" /\ txn[t].kind \in {"publish", "reject"}
      \/ next = "job" /\ txn[t].kind \notin {"publish", "reject"}
  BY DEF After
<1>6. x = [txn[t] EXCEPT !.seen = dataset, !.pc = next, !.todo = todo]
  BY <1>2, <1>5 DEF Locked, TransactionRecord
<1>7. todo \subseteq Job
  BY <1>2, <1>4, <1>5 DEF JobsToLock, PlaceOK, VersionKind, Command, JobKind
<1>8. x \in TransactionRecord
  BY <1>2, <1>5, <1>6, <1>7 DEF TransactionRecord, Phase
<1>9. /\ x.kind = txn[t].kind /\ x.job = txn[t].job /\ x.num = txn[t].num
      /\ x.seen = dataset /\ x.pc = next /\ x.todo = todo
  BY <1>2, <1>6 DEF TransactionRecord
<1> HIDE DEF x
<1>10. txn'[t] = x /\ TypeOK'
  BY <1>1, <1>3, <1>8 DEF TypeOK, TablesTypeOK, tableVars, x
<1>11. \A i \in Job : lock'[JobRow(i)] # t /\ lock'[AttemptRow(i)] # t
  BY <1>2, <1>3, RowsTyped, RowsDiffer DEF JobsBehind, AttemptsBehind, BeyondJobs
<1>12. lock'[VersionRow] = t BY <1>3, RowsTyped
<1>13. PlaceOK(t)' BY <1>2, <1>4, <1>5, <1>9, <1>10 DEF PlaceOK
<1>14. VersionHeld(t)' BY <1>1, <1>9, <1>10, <1>12 DEF VersionHeld, tableVars
<1>15. SeriesBehind(t)' /\ VersionBehind(t)'
  BY <1>4, <1>5, <1>9, <1>10 DEF SeriesBehind, VersionBehind, BeyondVersion
<1>16. RowsHeld(t)'
  BY <1>5, <1>9, <1>10 DEF RowsHeld, BeyondJobs, MyJobs
<1>17. AttemptExists(t)' /\ NumberFits(t)'
  BY <1>4, <1>5, <1>9, <1>10 DEF AttemptExists, NumberFits, VersionKind, Command, AttemptKind
<1> QED BY <1>10, <1>11, <1>13, <1>14, <1>15, <1>16, <1>17
        DEF JobsBehind, AttemptsBehind, JobsFit, AttemptsFit

\* A transaction locks the job that comes next in the order it goes by.
LEMMA NextJobOrder ==
    ASSUME TypeOK, NEW t \in Transaction, NEW j \in Job, NextJob(t, j)
    PROVE  /\ j \in txn[t].todo
           /\ ~ Freezing(t) => \A i \in txn[t].todo \ {j} : JobOrder[j] < JobOrder[i]
<1>1. txn[t].todo \subseteq Job BY DEF TypeOK, TransactionRecord
<1>2. j \in txn[t].todo /\ (~ Freezing(t) => \A i \in txn[t].todo : JobOrder[j] <= JobOrder[i])
  BY DEF NextJob
<1>3. /\ \A i \in Job : JobOrder[i] \in Nat
      /\ \A i \in Job \ {j} : JobOrder[i] # JobOrder[j]
  BY LockAssumption
<1> QED BY <1>1, <1>2, <1>3

\* What Locked makes of a record.
LEMMA LockedRecord ==
    ASSUME NEW x \in TransactionRecord, NEW left \in SUBSET Job,
           x.pc \in {"job", "attempt"},
           x.pc = "job" => x.kind \notin {"publish", "reject"},
           JobsToLock(x.kind, x.job, x.seen) \subseteq Job,
           NEW y, y = Locked(x, left)
    PROVE  /\ y \in TransactionRecord
           /\ y.kind = x.kind /\ y.job = x.job /\ y.num = x.num /\ y.seen = x.seen
           /\ left # {} => y.pc = x.pc /\ y.todo = left
           /\ left = {} => y.pc = After(x.kind, x.pc)
           /\ left = {} /\ y.pc = "attempt" => y.todo = JobsToLock(x.kind, x.job, x.seen)
           /\ left = {} => \/ x.pc = "job" /\ x.kind \in {"prepare", "retry"} /\ y.pc = "read"
                           \/ x.pc = "job" /\ x.kind \notin {"prepare", "retry"} /\ y.pc = "attempt"
                           \/ x.pc = "attempt" /\ x.kind \in {"record", "check"} /\ y.pc = "read"
                           \/ x.pc = "attempt" /\ x.kind \notin {"record", "check"} /\ y.pc = "write"
<1> DEFINE next == After(x.kind, x.pc)
<1>1. \/ x.pc = "job" /\ x.kind \in {"prepare", "retry"} /\ next = "read"
      \/ x.pc = "job" /\ x.kind \notin {"prepare", "retry"} /\ next = "attempt"
      \/ x.pc = "attempt" /\ x.kind \in {"record", "check"} /\ next = "read"
      \/ x.pc = "attempt" /\ x.kind \notin {"record", "check"} /\ next = "write"
  BY DEF After
<1>2. next \in Phase BY <1>1 DEF Phase
<1>3. y = [x EXCEPT !.pc = IF left # {} THEN x.pc ELSE next,
                    !.todo = IF left # {} THEN left
                             ELSE IF next \in {"job", "attempt"} THEN JobsToLock(x.kind, x.job, x.seen)
                             ELSE {}]
  BY DEF Locked
<1> HIDE DEF next
<1>4. y \in TransactionRecord BY <1>2, <1>3 DEF TransactionRecord
<1>5. /\ y.kind = x.kind /\ y.job = x.job /\ y.num = x.num /\ y.seen = x.seen
      /\ left # {} => y.pc = x.pc /\ y.todo = left
      /\ left = {} => y.pc = next
      /\ left = {} /\ next = "attempt" => y.todo = JobsToLock(x.kind, x.job, x.seen)
  BY <1>3 DEF TransactionRecord
<1> QED BY <1>1, <1>4, <1>5 DEF next

LEMMA MyJobsTyped ==
    ASSUME TypeOK, NEW t \in Transaction, TransactionInv(t), txn[t].pc # "idle",
           txn[t].kind \notin {"publish", "reject"}, txn[t].pc # "series"
    PROVE  MyJobs(t) \subseteq Job
BY DEF TransactionInv, PlaceOK, MyJobs, JobsToLock, TypeOK, TransactionRecord, Kind, Command

LEMMA LockJobOwn ==
    ASSUME TypeOK, NEW t \in Transaction, TransactionInv(t), NEW j \in Job, LockJob(t, j)
    PROVE  TypeOK' /\ TransactionInv(t)'
<1> USE DEF TransactionInv
<1> DEFINE left == txn[t].todo \ {j}
           y == Locked(txn[t], left)
<1>1. /\ Wants(t, JobRow(j)) /\ Lock(t, JobRow(j)) /\ UNCHANGED tableVars
      /\ txn' = [txn EXCEPT ![t] =
                   [y EXCEPT !.jobSeen = IF j = txn[t].job THEN job[j] ELSE txn[t].jobSeen,
                             !.ok = txn[t].ok /\ JobFits(t, j)]]
  BY DEF LockJob, Lock, JobRow
<1>2. txn[t].pc = "job" /\ NextJob(t, j) /\ txn[t] \in TransactionRecord /\ job[j] \in JobStatus
  BY <1>1 DEF Wants, JobRow, TypeOK, TablesTypeOK
<1>3. /\ lock' \in [Row -> Transaction \cup {NoTransaction}]
      /\ \A r \in Row : lock'[r] = t <=> r = JobRow(j) \/ lock[r] = t
  BY <1>1, LockTakes, RowsTyped
<1>4. txn[t].kind \notin {"publish", "reject"} BY <1>2 DEF PlaceOK
<1>5. MyJobs(t) \subseteq Job BY <1>2, <1>4, MyJobsTyped
<1>6. left \subseteq Job BY <1>2 DEF TransactionRecord
<1>7. /\ y \in TransactionRecord
      /\ y.kind = txn[t].kind /\ y.job = txn[t].job /\ y.num = txn[t].num /\ y.seen = txn[t].seen
      /\ left # {} => y.pc = "job" /\ y.todo = left
      /\ left = {} /\ y.pc = "attempt" => y.todo = MyJobs(t)
      /\ left = {} => \/ txn[t].kind \in {"prepare", "retry"} /\ y.pc = "read"
                      \/ txn[t].kind \notin {"prepare", "retry"} /\ y.pc = "attempt"
  BY <1>2, <1>4, <1>5, <1>6, LockedRecord DEF MyJobs
<1> DEFINE fits == JobFits(t, j)
<1> HIDE DEF y, fits
<1>8. fits \in BOOLEAN BY DEF fits, JobFits
<1> DEFINE z == [y EXCEPT !.jobSeen = IF j = txn[t].job THEN job[j] ELSE txn[t].jobSeen,
                          !.ok = txn[t].ok /\ fits]
<1>9. /\ z \in TransactionRecord
      /\ z.kind = txn[t].kind /\ z.job = txn[t].job /\ z.num = txn[t].num /\ z.seen = txn[t].seen
      /\ z.pc = y.pc /\ z.todo = y.todo
      /\ z.jobSeen = (IF j = txn[t].job THEN job[j] ELSE txn[t].jobSeen)
      /\ z.ok = (txn[t].ok /\ fits)
  BY <1>2, <1>7, <1>8 DEF TransactionRecord
<1>10. txn' = [txn EXCEPT ![t] = z] BY <1>1 DEF fits
<1> HIDE DEF z
<1>11. txn'[t] = z BY <1>10 DEF TypeOK
<1>12. TypeOK' BY <1>1, <1>3, <1>9, <1>10 DEF TypeOK, TablesTypeOK, tableVars
<1>13. /\ lock'[SeriesRow] = t <=> lock[SeriesRow] = t
       /\ lock'[VersionRow] = t <=> lock[VersionRow] = t
       /\ \A i \in Job : /\ lock'[JobRow(i)] = t <=> i = j \/ lock[JobRow(i)] = t
                         /\ lock'[AttemptRow(i)] # t
  BY <1>2, <1>3, RowsTyped, RowsDiffer DEF AttemptsBehind
<1>14. Freezing(t)' = Freezing(t) /\ MyJobs(t)' = MyJobs(t)
  BY <1>9, <1>11 DEF Freezing, MyJobs
<1>15. y.pc \in {"job", "attempt", "read"} /\ (y.pc = "job" <=> left # {}) BY <1>7
<1>16. PlaceOK(t)'
  BY <1>2, <1>4, <1>7, <1>9, <1>11 DEF PlaceOK, TransactionRecord, Kind, Command, JobKind, AttemptKind
<1>17. SeriesBehind(t)' /\ VersionBehind(t)'
  BY <1>2, <1>9, <1>11, <1>13, <1>15 DEF SeriesBehind, VersionBehind, BeyondVersion
<1>18. JobsBehind(t)'
  <2>1. CASE left = {}
    BY <1>9, <1>11, <1>15, <2>1 DEF JobsBehind, BeyondJobs
  <2>2. CASE left # {}
    <3>1. txn'[t].pc = "job" /\ txn'[t].todo = left BY <1>7, <1>9, <1>11, <2>2
    <3>2. ASSUME NEW i \in Job, lock'[JobRow(i)] = t
          PROVE  i \notin left /\ (Freezing(t) \/ \A k \in left : JobOrder[i] < JobOrder[k])
      <4>1. CASE i = j BY <1>2, <4>1, NextJobOrder
      <4>2. CASE i # j
        BY <1>2, <1>13, <3>2, <4>2 DEF JobsBehind, BeyondJobs
      <4> QED BY <4>1, <4>2
    <3> QED BY <1>14, <3>1, <3>2 DEF JobsBehind
  <2> QED BY <2>1, <2>2
<1>19. AttemptsBehind(t)' /\ AttemptsFit(t)' BY <1>13 DEF AttemptsBehind, AttemptsFit
<1>20. VersionHeld(t)'
  BY <1>1, <1>2, <1>9, <1>11, <1>13 DEF VersionHeld, BeyondVersion, tableVars
<1>21. RowsHeld(t)'
  <2>1. txn[t].todo \subseteq MyJobs(t) /\ \A i \in MyJobs(t) \ txn[t].todo : lock[JobRow(i)] = t
    BY <1>2, <1>4 DEF RowsHeld
  <2>2. left \subseteq MyJobs(t) /\ \A i \in MyJobs(t) \ left : lock'[JobRow(i)] = t
    BY <1>5, <1>13, <2>1
  <2>3. CASE left # {}
    BY <1>7, <1>9, <1>11, <1>14, <2>2, <2>3 DEF RowsHeld, BeyondJobs
  <2>4. CASE left = {}
    BY <1>7, <1>9, <1>11, <1>14, <2>2, <2>4 DEF RowsHeld, BeyondJobs
  <2> QED BY <2>3, <2>4
<1>22. JobsFit(t)'
  <2> SUFFICES ASSUME NEW i \in Job, lock'[JobRow(i)] = t
               PROVE  /\ txn'[t].ok => JobFits(t, i)'
                      /\ i = txn'[t].job => txn'[t].jobSeen = job'[i]
    BY DEF JobsFit
  <2>1. job' = job BY <1>1 DEF tableVars
  <2>2. JobFits(t, i)' = JobFits(t, i) BY <1>9, <1>11, <2>1 DEF JobFits
  <2>3. CASE i = j BY <1>9, <1>11, <2>1, <2>2, <2>3 DEF fits
  <2>4. CASE i # j BY <1>9, <1>11, <1>13, <2>1, <2>2, <2>4 DEF JobsFit
  <2> QED BY <2>3, <2>4
<1>23. NumberFits(t)' BY <1>9, <1>11, <1>15 DEF NumberFits
<1>24. AttemptExists(t)' BY <1>1, <1>2, <1>9, <1>11 DEF AttemptExists, tableVars
<1> QED BY <1>12, <1>16, <1>17, <1>18, <1>19, <1>20, <1>21, <1>22, <1>23, <1>24

LEMMA LockAttemptsOwn ==
    ASSUME TypeOK, NEW t \in Transaction, TransactionInv(t), NEW j \in Job, LockAttempts(t, j)
    PROVE  TypeOK' /\ TransactionInv(t)'
<1> USE DEF TransactionInv
<1> DEFINE left == txn[t].todo \ {j}
           y == Locked(txn[t], left)
           fits == AttemptFits(t, j)
<1>1. /\ Wants(t, AttemptRow(j)) /\ Lock(t, AttemptRow(j)) /\ UNCHANGED tableVars
      /\ txn' = [txn EXCEPT ![t] = [y EXCEPT !.ok = txn[t].ok /\ fits]]
  BY DEF LockAttempts, Lock, AttemptRow
<1>2. txn[t].pc = "attempt" /\ NextJob(t, j) /\ txn[t] \in TransactionRecord
  BY <1>1 DEF Wants, AttemptRow, TypeOK
<1>3. /\ lock' \in [Row -> Transaction \cup {NoTransaction}]
      /\ \A r \in Row : lock'[r] = t <=> r = AttemptRow(j) \/ lock[r] = t
  BY <1>1, LockTakes, RowsTyped
<1>4. txn[t].kind \in {"submit", "abandon"} \cup AttemptKind BY <1>2 DEF PlaceOK
<1>5. txn[t].kind \notin {"publish", "reject", "prepare", "retry"} /\ ~ Freezing(t)
  BY <1>4 DEF AttemptKind, Freezing
<1>6. MyJobs(t) \subseteq Job BY <1>2, <1>5, MyJobsTyped
<1>7. left \subseteq Job BY <1>2 DEF TransactionRecord
<1>8. /\ y \in TransactionRecord
      /\ y.kind = txn[t].kind /\ y.job = txn[t].job /\ y.num = txn[t].num /\ y.seen = txn[t].seen
      /\ left # {} => y.pc = "attempt" /\ y.todo = left
      /\ left = {} => \/ txn[t].kind \in {"record", "check"} /\ y.pc = "read"
                      \/ txn[t].kind \notin {"record", "check"} /\ y.pc = "write"
  BY <1>2, <1>6, <1>7, LockedRecord DEF MyJobs
<1> HIDE DEF y, fits
<1>9. fits \in BOOLEAN
  <2>1. txn[t].kind \in {"submit", "abandon", "begin", "record", "check"} BY <1>4 DEF AttemptKind
  <2> QED BY <2>1 DEF fits, AttemptFits
<1> DEFINE z == [y EXCEPT !.ok = txn[t].ok /\ fits]
<1>10. /\ z \in TransactionRecord
       /\ z.kind = txn[t].kind /\ z.job = txn[t].job /\ z.num = txn[t].num /\ z.seen = txn[t].seen
       /\ z.pc = y.pc /\ z.todo = y.todo /\ z.jobSeen = y.jobSeen
       /\ z.ok = (txn[t].ok /\ fits)
  BY <1>2, <1>8, <1>9 DEF TransactionRecord
<1>11. y.jobSeen = txn[t].jobSeen BY <1>2 DEF y, Locked, TransactionRecord
<1>12. txn' = [txn EXCEPT ![t] = z] BY <1>1
<1> HIDE DEF z
<1>13. txn'[t] = z BY <1>12 DEF TypeOK
<1>14. TypeOK' BY <1>1, <1>3, <1>10, <1>12 DEF TypeOK, TablesTypeOK, tableVars
<1>15. /\ lock'[SeriesRow] = t <=> lock[SeriesRow] = t
       /\ lock'[VersionRow] = t <=> lock[VersionRow] = t
       /\ \A i \in Job : /\ lock'[JobRow(i)] = t <=> lock[JobRow(i)] = t
                         /\ lock'[AttemptRow(i)] = t <=> i = j \/ lock[AttemptRow(i)] = t
  BY <1>3, RowsTyped, RowsDiffer
<1>16. MyJobs(t)' = MyJobs(t) BY <1>10, <1>13 DEF MyJobs
<1>17. y.pc \in {"attempt", "read", "write"} /\ (y.pc = "attempt" <=> left # {}) BY <1>8
<1>18. PlaceOK(t)' BY <1>2, <1>4, <1>8, <1>10, <1>13 DEF PlaceOK, AttemptKind
<1>19. SeriesBehind(t)' /\ VersionBehind(t)'
  BY <1>2, <1>10, <1>13, <1>15, <1>17 DEF SeriesBehind, VersionBehind, BeyondVersion
<1>20. JobsBehind(t)' BY <1>10, <1>13, <1>17 DEF JobsBehind, BeyondJobs
<1>21. /\ \A i \in MyJobs(t) : lock[JobRow(i)] = t
       /\ txn[t].todo \subseteq MyJobs(t)
       /\ \A i \in MyJobs(t) \ txn[t].todo : lock[AttemptRow(i)] = t
  BY <1>2, <1>5 DEF RowsHeld, BeyondJobs
<1>22. AttemptsBehind(t)'
  <2>1. ASSUME NEW i \in Job, lock'[AttemptRow(i)] = t PROVE lock'[JobRow(i)] = t
    BY <1>2, <1>15, <1>21, <2>1, NextJobOrder DEF AttemptsBehind
  <2>2. CASE left = {}
    BY <1>5, <1>10, <1>13, <1>17, <2>1, <2>2 DEF AttemptsBehind
  <2>3. CASE left # {}
    <3>1. txn'[t].pc = "attempt" /\ txn'[t].todo = left BY <1>8, <1>10, <1>13, <2>3
    <3>2. ASSUME NEW i \in Job, lock'[AttemptRow(i)] = t
          PROVE  i \notin left /\ \A k \in left : JobOrder[i] < JobOrder[k]
      <4>1. CASE i = j BY <1>2, <1>5, <4>1, NextJobOrder
      <4>2. CASE i # j
        BY <1>2, <1>15, <3>2, <4>2 DEF AttemptsBehind
      <4> QED BY <4>1, <4>2
    <3> QED BY <1>5, <1>10, <1>13, <2>1, <3>1, <3>2 DEF AttemptsBehind
  <2> QED BY <2>2, <2>3
<1>23. VersionHeld(t)'
  BY <1>1, <1>2, <1>10, <1>13, <1>15 DEF VersionHeld, BeyondVersion, tableVars
<1>24. RowsHeld(t)'
  <2>1. left \subseteq MyJobs(t) /\ \A i \in MyJobs(t) \ left : lock'[AttemptRow(i)] = t
    BY <1>6, <1>15, <1>21
  <2>2. \A i \in MyJobs(t) : lock'[JobRow(i)] = t BY <1>6, <1>15, <1>21
  <2>3. CASE left # {}
    BY <1>8, <1>10, <1>13, <1>16, <2>1, <2>2, <2>3 DEF RowsHeld, BeyondJobs
  <2>4. CASE left = {}
    BY <1>10, <1>13, <1>16, <1>17, <2>1, <2>2, <2>4 DEF RowsHeld, BeyondJobs
  <2> QED BY <2>3, <2>4
<1>25. JobsFit(t)'
  <2> SUFFICES ASSUME NEW i \in Job, lock'[JobRow(i)] = t
               PROVE  /\ txn'[t].ok => JobFits(t, i)'
                      /\ i = txn'[t].job => txn'[t].jobSeen = job'[i]
    BY DEF JobsFit
  <2>1. job' = job BY <1>1 DEF tableVars
  <2>2. JobFits(t, i)' = JobFits(t, i) BY <1>10, <1>13, <2>1 DEF JobFits
  <2> QED BY <1>10, <1>11, <1>13, <1>15, <2>1, <2>2 DEF JobsFit
<1>26. AttemptsFit(t)'
  <2> SUFFICES ASSUME NEW i \in Job, lock'[AttemptRow(i)] = t, txn'[t].ok
               PROVE  AttemptFits(t, i)'
    BY DEF AttemptsFit
  <2>1. attempt' = attempt BY <1>1 DEF tableVars
  <2>2. HasActive(i)' = HasActive(i) BY <2>1 DEF HasActive
  <2>3. AttemptFits(t, i)' = AttemptFits(t, i)
    BY <1>10, <1>11, <1>13, <2>1, <2>2 DEF AttemptFits
  <2>4. CASE i = j BY <1>10, <1>13, <2>3, <2>4 DEF fits
  <2>5. CASE i # j BY <1>10, <1>13, <1>15, <2>3, <2>5 DEF AttemptsFit
  <2> QED BY <2>4, <2>5
<1>27. NumberFits(t)' BY <1>5, <1>10, <1>13 DEF NumberFits
<1>28. AttemptExists(t)' BY <1>1, <1>2, <1>10, <1>13 DEF AttemptExists, tableVars
<1> QED BY <1>14, <1>18, <1>19, <1>20, <1>22, <1>23, <1>24, <1>25, <1>26, <1>27, <1>28

LEMMA ReadVersionOwn ==
    ASSUME TypeOK, NEW t \in Transaction, TransactionInv(t), ReadVersion(t)
    PROVE  TypeOK' /\ TransactionInv(t)'
<1> USE DEF TransactionInv
<1> DEFINE fits == dataset = "BUILDING" /\ (txn[t].kind = "check" => ~ HasNewer(txn[t].job, txn[t].num))
           z == [txn[t] EXCEPT !.pc = "write", !.seen = dataset, !.ok = txn[t].ok /\ fits]
<1>1. /\ txn[t].pc = "read" /\ txn[t].kind \in {"record", "check"} /\ UNCHANGED <<tableVars, lock>>
      /\ txn' = [txn EXCEPT ![t] = z]
  BY DEF ReadVersion
<1>2. txn[t] \in TransactionRecord /\ dataset \in DatasetStatus BY DEF TypeOK, TablesTypeOK
<1>3. fits \in BOOLEAN OBVIOUS
<1> HIDE DEF fits
<1>4. /\ z \in TransactionRecord
      /\ z.kind = txn[t].kind /\ z.job = txn[t].job /\ z.num = txn[t].num /\ z.pc = "write"
      /\ z.jobSeen = txn[t].jobSeen /\ (z.ok => txn[t].ok)
  BY <1>2, <1>3 DEF TransactionRecord, Phase
<1> HIDE DEF z
<1>5. txn'[t] = z /\ TypeOK' BY <1>1, <1>4 DEF TypeOK, TablesTypeOK, tableVars
<1>6. MyJobs(t)' = MyJobs(t) /\ MyJobs(t) = {txn[t].job} /\ txn[t].job \in Job
  BY <1>1, <1>4, <1>5 DEF MyJobs, JobsToLock, PlaceOK, JobKind
<1>7. PlaceOK(t)' BY <1>1, <1>4, <1>5, <1>6 DEF PlaceOK
<1>8. SeriesBehind(t)' /\ VersionBehind(t)' /\ JobsBehind(t)' /\ AttemptsBehind(t)'
  BY <1>1, <1>4, <1>5
  DEF SeriesBehind, VersionBehind, JobsBehind, AttemptsBehind, BeyondVersion, BeyondJobs
<1>9. VersionHeld(t)' BY <1>1, <1>4, <1>5 DEF VersionHeld, VersionKind, Command
<1>10. RowsHeld(t)' BY <1>1, <1>4, <1>5, <1>6 DEF RowsHeld, BeyondJobs
<1>11. JobsFit(t)'
  <2> SUFFICES ASSUME NEW i \in Job, lock'[JobRow(i)] = t
               PROVE  /\ txn'[t].ok => JobFits(t, i)'
                      /\ i = txn'[t].job => txn'[t].jobSeen = job'[i]
    BY DEF JobsFit
  <2>1. JobFits(t, i)' BY <1>1, <1>4, <1>5 DEF JobFits
  <2> QED BY <1>1, <1>4, <1>5, <2>1 DEF JobsFit, tableVars
<1>12. AttemptsFit(t)'
  <2> SUFFICES ASSUME NEW i \in Job, lock'[AttemptRow(i)] = t, txn'[t].ok
               PROVE  AttemptFits(t, i)'
    BY DEF AttemptsFit
  <2>1. attempt' = attempt BY <1>1 DEF tableVars
  <2>2. HasActive(i)' = HasActive(i) BY <2>1 DEF HasActive
  <2>3. AttemptFits(t, i)' = AttemptFits(t, i)
    BY <1>4, <1>5, <2>1, <2>2 DEF AttemptFits
  <2> QED BY <1>1, <1>4, <1>5, <2>3 DEF AttemptsFit
<1>13. NumberFits(t)' BY <1>1, <1>4, <1>5 DEF NumberFits
<1>14. AttemptExists(t)' BY <1>1, <1>4, <1>5 DEF AttemptExists, tableVars
<1> QED BY <1>5, <1>7, <1>8, <1>9, <1>10, <1>11, <1>12, <1>13, <1>14

LEMMA ReadAttemptsOwn ==
    ASSUME TypeOK, NEW t \in Transaction, TransactionInv(t), NEW n \in Number, ReadAttempts(t, n)
    PROVE  TypeOK' /\ TransactionInv(t)'
<1> USE DEF TransactionInv
<1> DEFINE z == [txn[t] EXCEPT !.pc = "write", !.num = n]
<1>1. /\ txn[t].pc = "read" /\ txn[t].kind \in {"prepare", "retry"} /\ UNCHANGED <<tableVars, lock>>
      /\ txn' = [txn EXCEPT ![t] = z]
      /\ ~ HasActive(txn[t].job) /\ NextNumber(txn[t].job, n)
  BY DEF ReadAttempts
<1>2. txn[t] \in TransactionRecord BY DEF TypeOK
<1>3. /\ z \in TransactionRecord
      /\ z.kind = txn[t].kind /\ z.job = txn[t].job /\ z.num = n /\ z.pc = "write"
      /\ z.seen = txn[t].seen /\ z.jobSeen = txn[t].jobSeen /\ z.ok = txn[t].ok
  BY <1>2 DEF TransactionRecord, Phase
<1> HIDE DEF z
<1>4. txn'[t] = z /\ TypeOK' BY <1>1, <1>3 DEF TypeOK, TablesTypeOK, tableVars
<1>5. MyJobs(t)' = MyJobs(t) BY <1>3, <1>4 DEF MyJobs
<1>6. PlaceOK(t)' BY <1>1, <1>3, <1>4 DEF PlaceOK
<1>7. \A j \in Job : lock[AttemptRow(j)] # t BY <1>1 DEF AttemptsBehind
<1>8. SeriesBehind(t)' /\ VersionBehind(t)' /\ JobsBehind(t)'
  BY <1>1, <1>3, <1>4 DEF SeriesBehind, VersionBehind, JobsBehind, BeyondVersion, BeyondJobs
<1>9. AttemptsBehind(t)' /\ AttemptsFit(t)' BY <1>1, <1>7 DEF AttemptsBehind, AttemptsFit
<1>10. VersionHeld(t)' BY <1>1, <1>3, <1>4 DEF VersionHeld, BeyondVersion, tableVars
<1>11. RowsHeld(t)' BY <1>1, <1>3, <1>4, <1>5 DEF RowsHeld, BeyondJobs
<1>12. JobsFit(t)'
  <2> SUFFICES ASSUME NEW i \in Job, lock'[JobRow(i)] = t
               PROVE  /\ txn'[t].ok => JobFits(t, i)'
                      /\ i = txn'[t].job => txn'[t].jobSeen = job'[i]
    BY DEF JobsFit
  <2>1. JobFits(t, i)' = JobFits(t, i) BY <1>1, <1>3, <1>4 DEF JobFits, tableVars
  <2> QED BY <1>1, <1>3, <1>4, <2>1 DEF JobsFit, tableVars
<1>13. NumberFits(t)'
  <2>1. attempt' = attempt BY <1>1 DEF tableVars
  <2>2. HasActive(txn[t].job)' = HasActive(txn[t].job) /\ NextNumber(txn[t].job, n)' = NextNumber(txn[t].job, n)
    <3>1. PICK j : j = txn[t].job OBVIOUS
    <3>2. txn'[t].job = j BY <1>3, <1>4, <3>1
    <3> QED BY <2>1, <3>1, <3>2 DEF HasActive, NextNumber
  <2>3. txn'[t].job = txn[t].job /\ txn'[t].num = n BY <1>3, <1>4
  <2>4. ~ HasActive(txn[t].job)' /\ NextNumber(txn[t].job, n)' BY <1>1, <2>2
  <2> QED BY <2>3, <2>4 DEF NumberFits, HasActive, NextNumber
<1>14. AttemptExists(t)' BY <1>1, <1>3, <1>4 DEF AttemptExists, AttemptKind
<1> QED BY <1>4, <1>6, <1>8, <1>9, <1>10, <1>11, <1>12, <1>13, <1>14

----------------------------------------------------------------------------
(* The writes *)

\* What a write of t leaves to the other transactions.
LeavesOthers(t) ==
    /\ dataset' # dataset => lock[VersionRow] = t
    /\ \A j \in Job : lock[JobRow(j)] # t => job'[j] = job[j] /\ attempt'[j] = attempt[j]
    /\ \A j \in Job, n \in Number : attempt[j][n] # "ABSENT" => attempt'[j][n] # "ABSENT"

\* A command decides on jobs and attempts that it has locked and found in order.
LEMMA DecisionIsStep ==
    ASSUME TypeOK, NEW t \in Transaction, TransactionInv(t), WriteDecision(t)
    PROVE  TableStep /\ LeavesOthers(t)
<1> USE DEF TransactionInv
<1>1. /\ txn[t].pc = "write" /\ txn[t].ok /\ txn[t].kind \in Command
      /\ UNCHANGED <<frozen, job, attempt>>
      /\ dataset' = CASE txn[t].kind = "submit" -> "VALIDATING"
                      [] txn[t].kind = "publish" -> "PUBLISHED"
                      [] txn[t].kind = "reject" -> "REJECTED"
                      [] txn[t].kind = "abandon" -> "ABANDONED"
  BY DEF WriteDecision, Writing
<1>2. lock[VersionRow] = t /\ dataset \in LegalStatus(txn[t].kind)
  BY <1>1 DEF VersionHeld, VersionKind, BeyondVersion
<1>3. ASSUME txn[t].kind \in {"submit", "abandon"}, NEW j \in Job
      PROVE  JobFits(t, j) /\ ~ HasActive(j)
  <2>1. j \in MyJobs(t) BY <1>3 DEF MyJobs, JobsToLock
  <2>2. lock[JobRow(j)] = t /\ lock[AttemptRow(j)] = t
    BY <1>1, <1>3, <2>1 DEF RowsHeld, BeyondJobs
  <2>3. JobFits(t, j) /\ AttemptFits(t, j) BY <1>1, <2>2 DEF JobsFit, AttemptsFit
  <2> QED BY <1>3, <2>3 DEF AttemptFits
<1>4. CASE txn[t].kind = "submit"
  <2>1. dataset = "BUILDING" /\ dataset' = "VALIDATING" BY <1>1, <1>2, <1>4 DEF LegalStatus
  <2>2. \A j \in Job : job[j] = "SUCCEEDED" /\ ~ HasActive(j) BY <1>3, <1>4 DEF JobFits
  <2> QED BY <1>1, <1>2, <2>1, <2>2 DEF TableStep, SubmitValidation, LeavesOthers
<1>5. CASE txn[t].kind = "abandon"
  <2>1. dataset \in {"DRAFT", "BUILDING"} /\ dataset' = "ABANDONED"
    BY <1>1, <1>2, <1>5 DEF LegalStatus
  <2>2. \A j \in Job : job[j] # "RUNNING" /\ ~ HasActive(j) BY <1>3, <1>5 DEF JobFits
  <2> QED BY <1>1, <1>2, <2>1, <2>2 DEF TableStep, Abandon, LeavesOthers
<1>6. CASE txn[t].kind = "publish"
  BY <1>1, <1>2, <1>6 DEF LegalStatus, TableStep, Publish, LeavesOthers
<1>7. CASE txn[t].kind = "reject"
  BY <1>1, <1>2, <1>7 DEF LegalStatus, TableStep, Reject, LeavesOthers
<1> QED BY <1>1, <1>4, <1>5, <1>6, <1>7 DEF Command

\* A Run creates the attempt that its read of the attempts calls for: nobody else
\* can have created one since, for that takes the job's lock.
LEMMA AttemptIsStep ==
    ASSUME TypeOK, TablesConsistent, NEW t \in Transaction, TransactionInv(t), WriteAttempt(t)
    PROVE  TableStep /\ LeavesOthers(t)
<1> USE DEF TransactionInv
<1>1. /\ txn[t].pc = "write" /\ txn[t].ok /\ txn[t].kind \in {"prepare", "retry"}
      /\ dataset' = IF Freezing(t) THEN "BUILDING" ELSE dataset
      /\ frozen' = (frozen \/ Freezing(t))
      /\ UNCHANGED job
  BY DEF WriteAttempt, Writing
<1>2. PICK j \in Job, n \in Number : j = txn[t].job /\ n = txn[t].num
  BY <1>1 DEF PlaceOK, JobKind, TypeOK, TransactionRecord
<1>3. attempt' = [attempt EXCEPT ![j][n] = "PREPARED"] /\ InsertPrepared(j, n)
  BY <1>2 DEF WriteAttempt, InsertPrepared
<1>4. /\ lock[VersionRow] = t /\ txn[t].seen = dataset /\ dataset \in LegalStatus(txn[t].kind)
  BY <1>1 DEF VersionHeld, VersionKind, BeyondVersion
<1>5. lock[JobRow(j)] = t
  <2>1. j \in MyJobs(t) BY <1>2 DEF MyJobs, JobsToLock
  <2> QED BY <1>1, <2>1 DEF RowsHeld, BeyondJobs
<1>6. JobFits(t, j) /\ ~ HasActive(j) /\ NextNumber(j, n)
  BY <1>1, <1>2, <1>5 DEF JobsFit, NumberFits
<1>7. Dispatchable(j) BY <1>1, <1>2, <1>6 DEF JobFits, Dispatchable
<1>8. (dataset = "DRAFT" /\ ~ frozen) \/ (dataset = "BUILDING" /\ frozen)
  BY <1>1, <1>4 DEF LegalStatus, TablesConsistent, VersionTells
<1>9. dataset' = "BUILDING" /\ frozen' = TRUE
  <2>1. CASE Freezing(t) BY <1>1, <2>1
  <2>2. CASE ~ Freezing(t)
    <3>1. dataset # "DRAFT" BY <1>1, <1>4, <2>2 DEF Freezing, LegalStatus
    <3> QED BY <1>1, <1>8, <2>2, <3>1
  <2> QED BY <2>1, <2>2
<1>10. TableStep
  BY <1>1, <1>3, <1>6, <1>7, <1>8, <1>9 DEF TableStep, CreateAttempt
<1>11. LeavesOthers(t)
  <2>1. \A i \in Job : lock[JobRow(i)] # t => attempt'[i] = attempt[i]
    BY <1>3, <1>5 DEF TypeOK, TablesTypeOK
  <2>2. \A i \in Job, m \in Number : attempt[i][m] # "ABSENT" => attempt'[i][m] # "ABSENT"
    BY <1>3 DEF TypeOK, TablesTypeOK
  <2> QED BY <1>1, <1>4, <2>1, <2>2 DEF LeavesOthers
<1> QED BY <1>10, <1>11

\* An open attempt that is held is the newest of a version that is building, also
\* when the version was read without a lock.
LEMMA HeldAttempt ==
    ASSUME TypeOK, TablesConsistent, NEW t \in Transaction, TransactionInv(t), txn[t].pc = "write",
           txn[t].ok, txn[t].kind \in AttemptKind
    PROVE  \E j \in Job, n \in Number :
             /\ j = txn[t].job /\ n = txn[t].num /\ lock[JobRow(j)] = t
             /\ dataset = "BUILDING" /\ ~ HasNewer(j, n) /\ attempt[j][n] # "ABSENT"
             /\ txn[t].kind = "begin" => attempt[j][n] = "PREPARED" /\ Dispatchable(j)
             /\ txn[t].kind # "begin" =>
                  \/ attempt[j][n] = "DISPATCHING" /\ Dispatchable(j)
                  \/ attempt[j][n] = "ACCEPTED" /\ job[j] = "RUNNING" /\ txn[t].kind = "check"
<1> USE DEF TransactionInv
<1>1. PICK j \in Job, n \in Number : j = txn[t].job /\ n = txn[t].num
  BY DEF PlaceOK, JobKind, AttemptKind, TypeOK, TransactionRecord
<1>2. lock[JobRow(j)] = t /\ lock[AttemptRow(j)] = t
  <2>1. j \in MyJobs(t) BY <1>1 DEF MyJobs, JobsToLock
  <2> QED BY <2>1 DEF RowsHeld, BeyondJobs, AttemptKind
<1>3. JobFits(t, j) /\ txn[t].jobSeen = job[j] /\ AttemptFits(t, j)
  BY <1>1, <1>2 DEF JobsFit, AttemptsFit
<1>4. CASE txn[t].kind = "begin"
  <2>1. attempt[j][n] = "PREPARED" /\ Dispatchable(j)
    BY <1>1, <1>3, <1>4 DEF JobFits, AttemptFits, Dispatchable
  <2>2. dataset = "BUILDING" /\ ~ HasNewer(j, n) BY <2>1, OpenRow DEF Active
  <2> QED BY <1>1, <1>2, <1>4, <2>1, <2>2
<1>5. CASE txn[t].kind = "record"
  <2>1. attempt[j][n] = "DISPATCHING" /\ Dispatchable(j)
    BY <1>1, <1>3, <1>5 DEF AttemptFits, Dispatchable
  <2>2. dataset = "BUILDING" /\ ~ HasNewer(j, n) BY <2>1, OpenRow DEF Active
  <2> QED BY <1>1, <1>2, <1>5, <2>1, <2>2
<1>6. CASE txn[t].kind = "check"
  <2>1. \/ attempt[j][n] = "DISPATCHING" /\ Dispatchable(j)
        \/ attempt[j][n] = "ACCEPTED" /\ job[j] = "RUNNING"
    BY <1>1, <1>3, <1>6 DEF AttemptFits, Dispatchable
  <2>2. dataset = "BUILDING" /\ ~ HasNewer(j, n) BY <2>1, OpenRow DEF Active
  <2> QED BY <1>1, <1>2, <1>6, <2>1, <2>2
<1> QED BY <1>4, <1>5, <1>6 DEF AttemptKind

\* A write to the locked attempt, and to its locked job, leaves the others alone.
LEMMA WriteLeaves ==
    ASSUME TypeOK, NEW t \in Transaction, NEW j \in Job, NEW n \in Number, lock[JobRow(j)] = t,
           NEW s \in AttemptStatus \ {"ABSENT"}, attempt' = [attempt EXCEPT ![j][n] = s],
           \A i \in Job \ {j} : job'[i] = job[i], dataset' = dataset
    PROVE  LeavesOthers(t)
BY DEF LeavesOthers, TypeOK, TablesTypeOK

LEMMA StatusIsStep ==
    ASSUME TypeOK, TablesConsistent, NEW t \in Transaction, TransactionInv(t),
           WriteDispatching(t) \/ WriteRejected(t)
    PROVE  TableStep /\ LeavesOthers(t)
<1>1. txn[t].pc = "write" /\ txn[t].ok /\ txn[t].kind \in {"begin", "record"}
  BY DEF WriteDispatching, WriteRejected, Writing
<1>2. PICK j \in Job, n \in Number :
        /\ j = txn[t].job /\ n = txn[t].num /\ lock[JobRow(j)] = t
        /\ dataset = "BUILDING" /\ ~ HasNewer(j, n) /\ Dispatchable(j)
        /\ txn[t].kind = "begin" => attempt[j][n] = "PREPARED"
        /\ txn[t].kind = "record" => attempt[j][n] = "DISPATCHING"
  BY <1>1, HeldAttempt DEF AttemptKind
<1>3. "DISPATCHING" \in AttemptStatus \ {"ABSENT"} /\ "DISPATCH_FAILED" \in AttemptStatus \ {"ABSENT"}
  BY DEF AttemptStatus, Active, Closed
<1>4. CASE WriteDispatching(t)
  <2>1. attempt' = [attempt EXCEPT ![j][n] = "DISPATCHING"] /\ UNCHANGED <<dataset, frozen, job>>
    BY <1>2, <1>4 DEF WriteDispatching, WriteAttemptStatus
  <2>2. StartDispatch(j, n)
    BY <1>2, <1>4, <2>1 DEF WriteDispatching, Writing, StartDispatch, MoveAttempt
  <2> QED BY <1>2, <1>3, <2>1, <2>2, WriteLeaves DEF TableStep
<1>5. CASE WriteRejected(t)
  <2>1. attempt' = [attempt EXCEPT ![j][n] = "DISPATCH_FAILED"] /\ UNCHANGED <<dataset, frozen, job>>
    BY <1>2, <1>5 DEF WriteRejected, WriteAttemptStatus
  <2>2. FailDispatch(j, n)
    BY <1>2, <1>5, <2>1 DEF WriteRejected, Writing, FailDispatch, MoveAttempt
  <2> QED BY <1>2, <1>3, <2>1, <2>2, WriteLeaves DEF TableStep
<1> QED BY <1>4, <1>5

LEMMA BothIsStep ==
    ASSUME TypeOK, TablesConsistent, NEW t \in Transaction, TransactionInv(t),
           WriteRunning(t) \/ WriteResult(t)
    PROVE  (TableStep \/ UNCHANGED tableVars) /\ LeavesOthers(t)
<1>1. PICK s \in Terminal \cup {"RUNNING"} :
        /\ txn[t].pc = "write" /\ txn[t].ok /\ txn[t].kind \in {"record", "check"}
        /\ s # "RUNNING" => txn[t].kind = "check"
        /\ WriteBoth(t, s)
  BY DEF WriteRunning, WriteResult, Writing
<1>2. PICK j \in Job, n \in Number :
        /\ j = txn[t].job /\ n = txn[t].num /\ lock[JobRow(j)] = t
        /\ dataset = "BUILDING" /\ ~ HasNewer(j, n)
        /\ \/ attempt[j][n] = "DISPATCHING" /\ Dispatchable(j)
           \/ attempt[j][n] = "ACCEPTED" /\ job[j] = "RUNNING"
  BY <1>1, HeldAttempt DEF AttemptKind
<1> DEFINE a == IF s = "RUNNING" THEN "ACCEPTED" ELSE s
<1>3. /\ attempt' = [attempt EXCEPT ![j][n] = a] /\ job' = [job EXCEPT ![j] = s]
      /\ UNCHANGED <<dataset, frozen>>
  BY <1>1, <1>2 DEF WriteBoth
<1>4. a \in AttemptStatus \ {"ABSENT"} BY DEF AttemptStatus, Active, Closed, Terminal
<1>5. \A i \in Job \ {j} : job'[i] = job[i] BY <1>3 DEF TypeOK, TablesTypeOK
<1>6. LeavesOthers(t)
  <2> HIDE DEF a
  <2> QED BY <1>2, <1>3, <1>4, <1>5, WriteLeaves
<1>7. CASE attempt[j][n] = "ACCEPTED" /\ s = "RUNNING"
  \* What is known already is written again.
  <2>1. job[j] = "RUNNING" BY <1>2, <1>7
  <2>2. attempt' = attempt /\ job' = job BY <1>3, <1>7, <2>1 DEF TypeOK, TablesTypeOK
  <2> QED BY <1>3, <1>6, <2>2 DEF tableVars
<1>8. CASE ~ (attempt[j][n] = "ACCEPTED" /\ s = "RUNNING")
  <2>1. MoveBoth(j, n, s) BY <1>2, <1>3, <1>8 DEF MoveBoth
  <2> QED BY <1>6, <2>1 DEF TableStep
<1> QED BY <1>7, <1>8

----------------------------------------------------------------------------
(* The invariant *)

\* A transaction that keeps the tables and its own invariant keeps all of it.
LEMMA OwnStep ==
    ASSUME IInv, NEW t \in Transaction, TypeOK', TransactionInv(t)', UNCHANGED tableVars,
           \A q \in Transaction \ {t} :
             txn'[q] = txn[q] /\ \A row \in Row : lock'[row] = q <=> lock[row] = q
    PROVE  IInv'
<1>1. TablesConsistent' BY TablesConsistentStep DEF IInv
<1>2. ASSUME NEW q \in Transaction \ {t} PROVE TransactionInv(q)'
  <2>1. /\ txn'[q] = txn[q] /\ \A row \in Row : lock'[row] = q <=> lock[row] = q
        /\ TransactionInv(q) /\ TypeOK
    BY <1>2 DEF IInv
  <2>2. dataset' = dataset /\ job' = job /\ attempt' = attempt BY DEF tableVars
  <2> QED BY <2>1, <2>2, OtherStays
<1> QED BY <1>1, <1>2 DEF IInv

\* A transaction that ends with a step of the tables that concerns its rows only.
LEMMA EndStep ==
    ASSUME IInv, NEW t \in Transaction, End(t), TableStep \/ UNCHANGED tableVars, LeavesOthers(t)
    PROVE  IInv'
<1>1. TypeOK /\ TablesConsistent /\ TablesTypeOK BY DEF IInv, TypeOK
<1>2. TablesTypeOK' /\ TablesConsistent'
  BY <1>1, TablesConsistentStep DEF TablesConsistent
<1>3. /\ lock' \in [Row -> Transaction \cup {NoTransaction}]
      /\ txn' \in [Transaction -> TransactionRecord]
      /\ txn'[t] = Idle /\ \A row \in Row : lock'[row] # t
      /\ \A q \in Transaction \ {t} :
           txn'[q] = txn[q] /\ \A row \in Row : lock'[row] = q <=> lock[row] = q
  BY <1>1, EndFrees
<1>4. TransactionInv(t)' BY <1>3, EndedInv
<1>5. ASSUME NEW q \in Transaction \ {t} PROVE TransactionInv(q)'
  <2>1. TransactionInv(q) BY DEF IInv
  <2>2. lock[VersionRow] = q => dataset' = dataset BY DEF LeavesOthers
  <2>3. \A j \in Job : lock[JobRow(j)] = q => job'[j] = job[j] /\ attempt'[j] = attempt[j]
    BY DEF LeavesOthers
  <2>4. \A j \in Job, n \in Number : attempt[j][n] # "ABSENT" => attempt'[j][n] # "ABSENT"
    BY DEF LeavesOthers
  <2> QED BY <1>1, <1>3, <2>1, <2>2, <2>3, <2>4, OtherStays
<1>6. TypeOK' BY <1>2, <1>3 DEF TypeOK
<1> QED BY <1>2, <1>4, <1>5, <1>6 DEF IInv

\* The steps of one transaction.
TransactionStep(t) ==
    \/ \E k \in Kind, j \in Job \cup {NoJob}, n \in Number : Begin(t, k, j, n)
    \/ LockSeries(t) \/ LockVersion(t) \/ ReadVersion(t)
    \/ \E j \in Job : LockJob(t, j) \/ LockAttempts(t, j)
    \/ \E n \in Number : ReadAttempts(t, n)

TransactionWrite(t) ==
    \/ WriteDecision(t) \/ WriteAttempt(t) \/ WriteDispatching(t)
    \/ WriteRejected(t) \/ WriteRunning(t) \/ WriteResult(t)

\* Every write is a step of the tables.
LEMMA WriteIsStep ==
    ASSUME IInv, NEW t \in Transaction, TransactionWrite(t)
    PROVE  (TableStep \/ UNCHANGED tableVars) /\ LeavesOthers(t) /\ End(t)
<1>1. TypeOK /\ TablesConsistent /\ TransactionInv(t) BY DEF IInv
<1>2. End(t)
  BY DEF TransactionWrite, WriteDecision, WriteAttempt, WriteDispatching, WriteRejected,
         WriteRunning, WriteResult, Writing
<1> QED BY <1>1, <1>2, DecisionIsStep, AttemptIsStep, StatusIsStep, BothIsStep DEF TransactionWrite

\* Before it writes, a transaction changes its own record and its own locks.
LEMMA StepIsOwn ==
    ASSUME IInv, NEW t \in Transaction, TransactionStep(t)
    PROVE  /\ TypeOK' /\ TransactionInv(t)' /\ UNCHANGED tableVars
           /\ \A q \in Transaction \ {t} :
                txn'[q] = txn[q] /\ \A row \in Row : lock'[row] = q <=> lock[row] = q
<1>1. TypeOK /\ TransactionInv(t) BY DEF IInv
<1>2. ASSUME NEW k \in Kind, NEW j \in Job \cup {NoJob}, NEW n \in Number, Begin(t, k, j, n)
      PROVE  /\ TypeOK' /\ TransactionInv(t)' /\ UNCHANGED tableVars
             /\ \A q \in Transaction \ {t} :
                  txn'[q] = txn[q] /\ \A row \in Row : lock'[row] = q <=> lock[row] = q
  <2>1. TypeOK' /\ TransactionInv(t)' BY <1>1, <1>2, BeginOwn
  <2>2. UNCHANGED <<tableVars, lock>> /\ \A q \in Transaction \ {t} : txn'[q] = txn[q]
    BY <1>1, <1>2 DEF Begin, TypeOK
  <2> QED BY <2>1, <2>2
<1>3. ASSUME LockSeries(t)
      PROVE  /\ TypeOK' /\ TransactionInv(t)' /\ UNCHANGED tableVars
             /\ \A q \in Transaction \ {t} :
                  txn'[q] = txn[q] /\ \A row \in Row : lock'[row] = q <=> lock[row] = q
  <2>1. TypeOK' /\ TransactionInv(t)' BY <1>1, <1>3, LockSeriesOwn
  <2>2. /\ Lock(t, SeriesRow) /\ UNCHANGED tableVars
        /\ \A q \in Transaction \ {t} : txn'[q] = txn[q]
    BY <1>1, <1>3 DEF LockSeries, SeriesRow, TypeOK
  <2> QED BY <1>1, <2>1, <2>2, LockTakes, RowsTyped
<1>4. ASSUME LockVersion(t)
      PROVE  /\ TypeOK' /\ TransactionInv(t)' /\ UNCHANGED tableVars
             /\ \A q \in Transaction \ {t} :
                  txn'[q] = txn[q] /\ \A row \in Row : lock'[row] = q <=> lock[row] = q
  <2>1. TypeOK' /\ TransactionInv(t)' BY <1>1, <1>4, LockVersionOwn
  <2>2. /\ Lock(t, VersionRow) /\ UNCHANGED tableVars
        /\ \A q \in Transaction \ {t} : txn'[q] = txn[q]
    BY <1>1, <1>4 DEF LockVersion, VersionRow, TypeOK
  <2> QED BY <1>1, <2>1, <2>2, LockTakes, RowsTyped
<1>5. ASSUME NEW j \in Job, LockJob(t, j)
      PROVE  /\ TypeOK' /\ TransactionInv(t)' /\ UNCHANGED tableVars
             /\ \A q \in Transaction \ {t} :
                  txn'[q] = txn[q] /\ \A row \in Row : lock'[row] = q <=> lock[row] = q
  <2>1. TypeOK' /\ TransactionInv(t)' BY <1>1, <1>5, LockJobOwn
  <2>2. /\ Lock(t, JobRow(j)) /\ UNCHANGED tableVars
        /\ \A q \in Transaction \ {t} : txn'[q] = txn[q]
    BY <1>1, <1>5 DEF LockJob, JobRow, TypeOK
  <2> QED BY <1>1, <2>1, <2>2, LockTakes, RowsTyped
<1>6. ASSUME NEW j \in Job, LockAttempts(t, j)
      PROVE  /\ TypeOK' /\ TransactionInv(t)' /\ UNCHANGED tableVars
             /\ \A q \in Transaction \ {t} :
                  txn'[q] = txn[q] /\ \A row \in Row : lock'[row] = q <=> lock[row] = q
  <2>1. TypeOK' /\ TransactionInv(t)' BY <1>1, <1>6, LockAttemptsOwn
  <2>2. /\ Lock(t, AttemptRow(j)) /\ UNCHANGED tableVars
        /\ \A q \in Transaction \ {t} : txn'[q] = txn[q]
    BY <1>1, <1>6 DEF LockAttempts, AttemptRow, TypeOK
  <2> QED BY <1>1, <2>1, <2>2, LockTakes, RowsTyped
<1>7. ASSUME ReadVersion(t) \/ \E n \in Number : ReadAttempts(t, n)
      PROVE  /\ TypeOK' /\ TransactionInv(t)' /\ UNCHANGED tableVars
             /\ \A q \in Transaction \ {t} :
                  txn'[q] = txn[q] /\ \A row \in Row : lock'[row] = q <=> lock[row] = q
  <2>1. TypeOK' /\ TransactionInv(t)' BY <1>1, <1>7, ReadVersionOwn, ReadAttemptsOwn
  <2>2. UNCHANGED <<tableVars, lock>> /\ \A q \in Transaction \ {t} : txn'[q] = txn[q]
    BY <1>1, <1>7 DEF ReadVersion, ReadAttempts, TypeOK
  <2> QED BY <2>1, <2>2
<1> QED BY <1>2, <1>3, <1>4, <1>5, <1>6, <1>7 DEF TransactionStep

LEMMA InvariantStep == IInv /\ [Next]_vars => IInv'
<1> SUFFICES ASSUME IInv, [Next]_vars PROVE IInv' OBVIOUS
<1>1. ASSUME NEW t \in Transaction, TransactionStep(t) PROVE IInv'
  BY <1>1, StepIsOwn, OwnStep
<1>2. ASSUME NEW t \in Transaction, TransactionWrite(t) PROVE IInv'
  BY <1>2, WriteIsStep, EndStep
<1>3. ASSUME NEW t \in Transaction, EndUnchanged(t) PROVE IInv'
  <2>1. End(t) /\ UNCHANGED tableVars BY <1>3 DEF EndUnchanged
  <2>2. LeavesOthers(t) BY <2>1 DEF LeavesOthers, tableVars
  <2> QED BY <2>1, <2>2, EndStep
<1>4. CASE UNCHANGED vars
  <2>1. UNCHANGED <<tableVars, lock, txn>> BY <1>4 DEF vars
  <2>2. TypeOK' /\ TablesConsistent'
    BY <2>1, TablesConsistentStep DEF IInv, TypeOK, TablesConsistent
  <2>3. ASSUME NEW q \in Transaction PROVE TransactionInv(q)'
    <3>1. TransactionInv(q) /\ TypeOK BY DEF IInv
    <3>2. dataset' = dataset /\ job' = job /\ attempt' = attempt BY <2>1 DEF tableVars
    <3> QED BY <2>1, <3>1, <3>2, OtherStays
  <2> QED BY <2>2, <2>3 DEF IInv
<1> QED BY <1>1, <1>2, <1>3, <1>4 DEF Next, TransactionStep, TransactionWrite

LEMMA InvariantInit == Init => IInv
<1> SUFFICES ASSUME Init PROVE IInv OBVIOUS
<1>1. TypeOK /\ TablesConsistent
  BY IdleTyped, TablesConsistentInit DEF Init, TypeOK, TablesConsistent
<1>2. ASSUME NEW t \in Transaction PROVE TransactionInv(t)
  <2>1. txn[t].pc = "idle" BY IdleTyped DEF Init
  <2>2. \A row \in Row : lock[row] # t BY LockAssumption DEF Init
  <2>3. /\ lock[SeriesRow] # t /\ lock[VersionRow] # t
        /\ \A j \in Job : lock[JobRow(j)] # t /\ lock[AttemptRow(j)] # t
    BY <2>2, RowsTyped
  <2> QED BY <2>1, <2>3
          DEF TransactionInv, PlaceOK, SeriesBehind, VersionBehind, JobsBehind, AttemptsBehind,
              VersionHeld, RowsHeld, JobsFit, AttemptsFit, NumberFits, AttemptExists,
              BeyondVersion, BeyondJobs
<1> QED BY <1>1, <1>2 DEF IInv

\* The rows that a transaction holds lie behind it, and are as it has read them.
THEOREM LocksInvariant == Spec => []IInv
BY InvariantInit, InvariantStep, PTL DEF Spec

\* The transactions implement the steps of the tables: reads and writes of one
\* transaction act as if they happened at once.
THEOREM TransactionsSerialize == Spec => Serialized
<1>1. Init => TablesInit BY DEF Init
<1>2. IInv /\ [Next]_vars => [TableStep]_tableVars
  <2> SUFFICES ASSUME IInv, [Next]_vars PROVE [TableStep]_tableVars OBVIOUS
  <2>1. ASSUME NEW t \in Transaction, TransactionStep(t) PROVE UNCHANGED tableVars
    BY <2>1, StepIsOwn
  <2>2. ASSUME NEW t \in Transaction, TransactionWrite(t) PROVE [TableStep]_tableVars
    BY <2>2, WriteIsStep
  <2>3. ASSUME NEW t \in Transaction, EndUnchanged(t) PROVE UNCHANGED tableVars
    BY <2>3 DEF EndUnchanged
  <2>4. CASE UNCHANGED vars BY <2>4 DEF vars
  <2> QED BY <2>1, <2>2, <2>3, <2>4 DEF Next, TransactionStep, TransactionWrite
<1> QED BY <1>1, <1>2, LocksInvariant, PTL DEF Spec, Serialized, TablesSpec

\* What the rows promise, they promise under the locks the transactions take:
\* statuses that fit, a history that stays, and no retry of an open attempt.
THEOREM LockedRowsKeepTheirWord ==
    Spec => []TablesConsistent /\ HistoryImmutable /\ RetryOnlyAfterFailure
BY TransactionsSerialize, RowsStayConsistent, RowsKeepHistory, RowsRetryAfterFailure DEF Serialized

----------------------------------------------------------------------------
(* No transactions wait for each other *)

\* The order in which the rows are locked.
Rank(row) ==
    CASE row[1] = "series" -> 0
      [] row[1] = "version" -> 1
      [] row[1] = "job" -> 2 + JobOrder[row[2]]
      [] row[1] = "attempt" -> 3 + MaxOrder + JobOrder[row[2]]

LEMMA RankTyped ==
    /\ Rank(SeriesRow) = 0 /\ Rank(VersionRow) = 1
    /\ \A j \in Job : /\ Rank(JobRow(j)) = 2 + JobOrder[j]
                      /\ Rank(AttemptRow(j)) = 3 + MaxOrder + JobOrder[j]
    /\ \A row \in Row : Rank(row) \in 0 .. 3 + MaxOrder + MaxOrder
<1>1. \A j \in Job : JobOrder[j] \in 0 .. MaxOrder BY LockAssumption
<1>2. /\ Rank(SeriesRow) = 0 /\ Rank(VersionRow) = 1
      /\ \A j \in Job : /\ Rank(JobRow(j)) = 2 + JobOrder[j]
                        /\ Rank(AttemptRow(j)) = 3 + MaxOrder + JobOrder[j]
  BY DEF Rank, SeriesRow, VersionRow, JobRow, AttemptRow
<1>3. ASSUME NEW row \in Row PROVE Rank(row) \in 0 .. 3 + MaxOrder + MaxOrder
  <2>1. \/ row = SeriesRow \/ row = VersionRow
        \/ \E j \in Job : row = JobRow(j) \/ row = AttemptRow(j)
    BY DEF Row, SeriesRow, VersionRow, JobRow, AttemptRow
  <2> QED BY <1>1, <1>2, <2>1, LockAssumption
<1> QED BY <1>2, <1>3

\* What a transaction waits for.
LEMMA WantedRows ==
    ASSUME NEW t \in Transaction, NEW row \in Row, Wants(t, row)
    PROVE  \/ txn[t].pc = "series" /\ row = SeriesRow
           \/ txn[t].pc = "version" /\ row = VersionRow
           \/ \E j \in Job : txn[t].pc = "job" /\ NextJob(t, j) /\ row = JobRow(j)
           \/ \E j \in Job : txn[t].pc = "attempt" /\ NextJob(t, j) /\ row = AttemptRow(j)
BY DEF Wants, SeriesRow, VersionRow, JobRow, AttemptRow

\* While the first Run locks the jobs in its own order, nobody waits for a job: the
\* commands wait for the version, and no attempt exists that a request could be for.
LEMMA FreezingAlone ==
    ASSUME IInv, NEW t \in Transaction, NEW h \in Transaction \ {t},
           Freezing(h), txn[h].pc = "job"
    PROVE  txn[t].pc # "job"
<1> SUFFICES ASSUME txn[t].pc = "job" PROVE FALSE OBVIOUS
<1>1. TransactionInv(t) /\ TransactionInv(h) /\ TablesConsistent /\ TypeOK BY DEF IInv
<1>2. lock[VersionRow] = h /\ dataset = "DRAFT"
  BY <1>1 DEF TransactionInv, VersionHeld, Freezing, VersionKind, BeyondVersion
<1>3. txn[t].kind \notin VersionKind
  BY <1>1, <1>2 DEF TransactionInv, VersionHeld, BeyondVersion
<1>4. txn[t].kind \in AttemptKind
  BY <1>1, <1>3 DEF TypeOK, TransactionRecord, Kind, JobKind, VersionKind, AttemptKind
<1>5. attempt[txn[t].job][txn[t].num] # "ABSENT" /\ txn[t].job \in Job /\ txn[t].num \in Number
  BY <1>1, <1>4
  DEF TransactionInv, AttemptExists, PlaceOK, AttemptKind, JobKind, TypeOK, TransactionRecord
<1> QED BY <1>1, <1>2, <1>5 DEF TablesConsistent, VersionTells

\* A transaction waits only for rows that come after all that others wait for.
LEMMA WaitsClimb ==
    ASSUME IInv, NEW t \in Transaction, NEW h \in Transaction \ {t},
           NEW row \in Row, Wants(t, row), lock[row] = h,
           NEW next \in Row, Wants(h, next)
    PROVE  Rank(row) < Rank(next)
<1>1. TransactionInv(h) /\ TypeOK BY DEF IInv
<1>2. MaxOrder \in Nat /\ \A j \in Job : JobOrder[j] \in 0 .. MaxOrder BY LockAssumption
<1> USE DEF TransactionInv
<1>3. CASE row = SeriesRow
  <2>1. txn[h].pc # "series" BY <1>1, <1>3 DEF SeriesBehind
  <2> QED BY <1>2, <1>3, <2>1, WantedRows, RankTyped
<1>4. CASE row = VersionRow
  <2>1. txn[h].pc \in {"job", "attempt", "read", "write"}
    BY <1>1, <1>4 DEF VersionBehind, BeyondVersion
  <2> QED BY <1>2, <1>4, <2>1, WantedRows, RankTyped
<1>5. ASSUME NEW j \in Job, txn[t].pc = "job", row = JobRow(j) PROVE Rank(row) < Rank(next)
  <2>1. CASE BeyondJobs(h)
    <3>1. \E i \in Job : next = AttemptRow(i)
      BY <2>1, WantedRows DEF BeyondJobs
    <3> QED BY <1>2, <1>5, <3>1, RankTyped
  <2>2. CASE ~ BeyondJobs(h)
    <3>1. txn[h].pc = "job" /\ (Freezing(h) \/ \A i \in txn[h].todo : JobOrder[j] < JobOrder[i])
      BY <1>1, <1>5, <2>2 DEF JobsBehind
    <3>2. ~ Freezing(h) BY <1>5, <3>1, FreezingAlone
    <3>3. PICK i \in Job : NextJob(h, i) /\ next = JobRow(i)
      BY <3>1, WantedRows
    <3>4. JobOrder[j] < JobOrder[i] BY <3>1, <3>2, <3>3 DEF NextJob
    <3> QED BY <1>2, <1>5, <3>3, <3>4, RankTyped
  <2> QED BY <2>1, <2>2
<1>6. ASSUME NEW j \in Job, row = AttemptRow(j) PROVE Rank(row) < Rank(next)
  <2>1. txn[h].pc \in {"attempt", "read", "write"} BY <1>1, <1>6 DEF AttemptsBehind
  <2>2. PICK i \in Job : txn[h].pc = "attempt" /\ NextJob(h, i) /\ next = AttemptRow(i)
    BY <2>1, WantedRows
  <2>3. JobOrder[j] < JobOrder[i]
    BY <1>1, <1>6, <2>2 DEF AttemptsBehind, NextJob
  <2> QED BY <1>2, <1>6, <2>2, <2>3, RankTyped
<1> QED BY <1>3, <1>4, <1>5, <1>6, WantedRows

\* Rows have a highest one in any set.
LEMMA HighestRow ==
    ASSUME NEW S \in SUBSET Row, S # {}
    PROVE  \E row \in S : \A r \in S : Rank(r) <= Rank(row)
<1> DEFINE Top == 3 + MaxOrder + MaxOrder
           T == {Top - Rank(r) : r \in S}
           R == OpToRel(<, Nat)
<1>1. \A r \in S : Rank(r) \in Nat /\ Top - Rank(r) \in Nat BY RankTyped, LockAssumption
<1>2. T \subseteq Nat /\ T # {} BY <1>1
<1>3. \A x, y \in Nat : y < x => <<y, x>> \in R BY DEF OpToRel
<1>4. IsWellFoundedOn(R, Nat) BY NatLessThanWellFounded
<1> HIDE DEF R, T
<1>5. PICK x \in T : \A y \in T : ~ (<<y, x>> \in R) BY <1>2, <1>4, WFMin
<1> USE DEF T
<1>6. PICK row \in S : x = Top - Rank(row) BY <1>5
<1>7. ASSUME NEW r \in S PROVE Rank(r) <= Rank(row)
  <2>1. Top - Rank(r) \in T OBVIOUS
  <2>2. ~ (Top - Rank(r) < x) BY <1>1, <1>3, <1>5, <1>6, <2>1
  <2>3. Top \in Nat BY LockAssumption
  <2>4. Rank(r) \in Nat /\ Rank(row) \in Nat BY <1>1
  <2> HIDE DEF Top
  <2> QED BY <1>6, <2>2, <2>3, <2>4
<1> QED BY <1>7

LEMMA InvariantNoDeadlock == IInv => NoDeadlock
<1> SUFFICES ASSUME IInv, NEW group \in (SUBSET Transaction) \ {{}}
             PROVE  \E t \in group : \A holder \in group : ~ WaitsFor(t, holder)
  BY DEF NoDeadlock
<1> SUFFICES ASSUME \A t \in group : \E holder \in group : WaitsFor(t, holder)
             PROVE  FALSE
  OBVIOUS
<1> DEFINE Waited == {row \in Row : \E t \in group, h \in group :
                         t # h /\ Wants(t, row) /\ lock[row] = h}
<1>1. \A t \in group : \E row \in Waited : Wants(t, row)
  BY DEF WaitsFor
<1>2. Waited # {}
  <2>1. group # {} OBVIOUS
  <2> QED BY <1>1, <2>1
<1>3. PICK row \in Waited : \A r \in Waited : Rank(r) <= Rank(row)
  <2> HIDE DEF Waited
  <2>1. Waited \in SUBSET Row BY DEF Waited
  <2> QED BY <1>2, <2>1, HighestRow
<1>4. PICK t \in group, h \in group : t # h /\ Wants(t, row) /\ lock[row] = h
  OBVIOUS
<1>5. PICK next \in Waited : Wants(h, next) BY <1>1
<1>6. Rank(row) < Rank(next) BY <1>4, <1>5, WaitsClimb
<1>7. Rank(next) <= Rank(row) BY <1>3
<1>8. Rank(row) \in Nat /\ Rank(next) \in Nat BY RankTyped, LockAssumption
<1> QED BY <1>6, <1>7, <1>8

\* The transactions of a version never wait for each other in a circle, however
\* many they are.
THEOREM NeverDeadlocked == Spec => []NoDeadlock
BY LocksInvariant, InvariantNoDeadlock, PTL

=============================================================================
