------------------------------ MODULE RowLocks ------------------------------
(***************************************************************************)
(* The transactions on one dataset version, row lock by row lock.  A row   *)
(* is read when it is locked or by a later statement without a lock; what  *)
(* was read is remembered and acted upon at the end, when the writes are   *)
(* committed and the locks released.                                       *)
(***************************************************************************)
EXTENDS TableSteps

CONSTANTS
    Transaction, NoTransaction,
    JobOrder,   \* the order of the jobs' ids
    TypeOrder,  \* the order of their calculation types
    MaxOrder    \* bound of these orders

ASSUME LockAssumption ==
    /\ NoTransaction \notin Transaction
    /\ MaxOrder \in Nat
    /\ JobOrder \in [Job -> 0 .. MaxOrder]
    /\ TypeOrder \in [Job -> 0 .. MaxOrder]
    /\ \A i, j \in Job : i # j => JobOrder[i] # JobOrder[j] /\ TypeOrder[i] # TypeOrder[j]

VARIABLES
    lock,  \* who holds FOR UPDATE, or has updated the row
    txn    \* the transactions under way

vars == <<tableVars, lock, txn>>

\* The series, the version, its jobs and, as one row for each job, their attempts.
Row == ({"series", "version"} \X {NoJob}) \cup ({"job", "attempt"} \X Job)

Command == {"submit", "publish", "reject", "abandon"}
JobKind == {"prepare", "retry", "begin", "record", "check"}
Kind == Command \cup JobKind
Phase == {"idle", "series", "version", "job", "attempt", "read", "write"}

TransactionRecord ==
    [kind : Kind,
     pc : Phase,                  \* the class of the rows it locks next, or what follows
     job : Job \cup {NoJob},
     num : Number,
     todo : SUBSET Job,           \* the jobs whose rows of that class it still locks
     seen : DatasetStatus,        \* the version's status, when it was last read
     jobSeen : JobStatus,         \* the job's status, when it was locked
     ok : BOOLEAN]                \* nothing it has read refuses the request

TypeOK ==
    /\ TablesTypeOK
    /\ lock \in [Row -> Transaction \cup {NoTransaction}]
    /\ txn \in [Transaction -> TransactionRecord]

Idle == [kind |-> "submit", pc |-> "idle", job |-> NoJob, num |-> 1, todo |-> {},
         seen |-> "DRAFT", jobSeen |-> "PENDING", ok |-> TRUE]

Init ==
    /\ TablesInit
    /\ lock = [r \in Row |-> NoTransaction]
    /\ txn = [t \in Transaction |-> Idle]

----------------------------------------------------------------------------
(* Locks *)

\* The first Run updates every job, in the order of the calculation types.
Freezing(t) == txn[t].kind = "prepare" /\ txn[t].seen = "DRAFT"

NextJob(t, j) ==
    LET order == IF Freezing(t) THEN TypeOrder ELSE JobOrder IN
    j \in txn[t].todo /\ \A i \in txn[t].todo : order[j] <= order[i]

\* The row that a transaction locks next.
Wants(t, row) ==
    \/ txn[t].pc \in {"series", "version"} /\ row = <<txn[t].pc, NoJob>>
    \/ txn[t].pc \in {"job", "attempt"} /\ \E j \in Job : NextJob(t, j) /\ row = <<txn[t].pc, j>>

Lock(t, row) ==
    /\ Wants(t, row)
    /\ lock[row] = NoTransaction
    /\ lock' = [lock EXCEPT ![row] = t]

\* COMMIT or ROLLBACK releases the locks.
End(t) ==
    /\ lock' = [row \in Row |-> IF lock[row] = t THEN NoTransaction ELSE lock[row]]
    /\ txn' = [txn EXCEPT ![t] = Idle]

----------------------------------------------------------------------------
(* What a transaction does with the rows it locks *)

\* Published, rejected and abandoned versions lock their series first.
LockSeries(t) ==
    /\ Lock(t, <<"series", NoJob>>)
    /\ txn' = [txn EXCEPT ![t].pc = "version"]
    /\ UNCHANGED tableVars

\* assertLegal..., and the tests of a Run's preparation and retry
LegalStatus(kind) ==
    CASE kind \in {"submit", "retry"} -> {"BUILDING"}
      [] kind \in {"publish", "reject"} -> {"VALIDATING"}
      [] kind \in {"abandon", "prepare"} -> {"DRAFT", "BUILDING"}

\* The jobs that a transaction locks: all, or the selected one.
JobsToLock(kind, selected, status) ==
    IF kind \in {"submit", "abandon"} \/ (kind = "prepare" /\ status = "DRAFT")
    THEN Job ELSE {selected}

\* Mutant: Submit and Abandon lock the attempts before the jobs.
AfterAttemptsFirst(kind, phase) ==
    CASE phase = "series" -> "version"
      [] phase = "version" -> IF kind \in {"publish", "reject"} THEN "write"
                              ELSE IF kind \in Command THEN "attempt" ELSE "job"
      [] phase = "job" -> IF kind \in {"prepare", "retry"} THEN "read"
                          ELSE IF kind \in Command THEN "write" ELSE "attempt"
      [] phase = "attempt" -> IF kind \in {"record", "check"} THEN "read"
                              ELSE IF kind \in Command THEN "job" ELSE "write"

\* What a transaction does when it has locked the rows of one class.
After(kind, phase) ==
    CASE phase = "series" -> "version"
      [] phase = "version" -> IF kind \in {"publish", "reject"} THEN "write" ELSE "job"
      [] phase = "job" -> IF kind \in {"prepare", "retry"} THEN "read" ELSE "attempt"
      [] phase = "attempt" -> IF kind \in {"record", "check"} THEN "read" ELSE "write"

\* The transaction is left with some rows of this class, or goes on.
Locked(x, left) ==
    LET next == After(x.kind, x.pc) IN
    [x EXCEPT !.pc = IF left # {} THEN @ ELSE next,
              !.todo = IF left # {} THEN left
                       ELSE IF next \in {"job", "attempt"} THEN JobsToLock(x.kind, x.job, x.seen)
                       ELSE {}]

\* Mutant: a retry reads the version without its lock.
LockVersionUnlessRetry(t) ==
    LET k == txn[t].kind IN
    /\ IF k = "retry" THEN txn[t].pc = "version" /\ UNCHANGED lock ELSE Lock(t, <<"version", NoJob>>)
    /\ dataset \in LegalStatus(k)
    /\ txn' = [txn EXCEPT ![t] = Locked([@ EXCEPT !.seen = dataset], {})]
    /\ UNCHANGED tableVars

\* The status is read with the lock; an illegal one ends the transaction.
LockVersion(t) ==
    /\ Lock(t, <<"version", NoJob>>)
    /\ dataset \in LegalStatus(txn[t].kind)
    /\ txn' = [txn EXCEPT ![t] = Locked([@ EXCEPT !.seen = dataset], {})]
    /\ UNCHANGED tableVars

\* What the job's status must be for the transaction to write.
JobFits(t, j) ==
    CASE txn[t].kind = "submit" -> job[j] = "SUCCEEDED"
      [] txn[t].kind = "abandon" -> job[j] # "RUNNING"
      [] txn[t].kind = "prepare" -> j = txn[t].job => job[j] = "PENDING"
      [] txn[t].kind = "retry" -> job[j] = "FAILED"
      [] txn[t].kind = "begin" -> job[j] \in {"PENDING", "FAILED"} /\ txn[t].seen = "BUILDING"
      [] OTHER -> TRUE

\* The row is read with the lock, the joined version before the wait.
LockJob(t, j) ==
    LET x == txn[t] IN
    /\ Lock(t, <<"job", j>>)
    /\ txn' = [txn EXCEPT ![t] =
                  [Locked(x, x.todo \ {j}) EXCEPT !.jobSeen = IF j = x.job THEN job[j] ELSE x.jobSeen,
                                                  !.ok = x.ok /\ JobFits(t, j)]]
    /\ UNCHANGED tableVars

AttemptFits(t, j) ==
    LET a == attempt[j][txn[t].num]
        dispatched == a = "DISPATCHING" /\ txn[t].jobSeen \in {"PENDING", "FAILED"} IN
    CASE txn[t].kind \in {"submit", "abandon"} -> ~ HasActive(j)
      [] txn[t].kind = "begin" -> a = "PREPARED"
      [] txn[t].kind = "record" -> dispatched
      [] txn[t].kind = "check" -> dispatched \/ (a = "ACCEPTED" /\ txn[t].jobSeen = "RUNNING")

\* lockActiveExecutionAttempt, lockExecutionAttempt, lockLifecycleAttempts
LockAttempts(t, j) ==
    LET x == txn[t] IN
    /\ Lock(t, <<"attempt", j>>)
    /\ txn' = [txn EXCEPT ![t] = [Locked(x, x.todo \ {j}) EXCEPT !.ok = x.ok /\ AttemptFits(t, j)]]
    /\ UNCHANGED tableVars

\* The version's status is read again, without a lock.
ReadVersion(t) ==
    LET x == txn[t] IN
    /\ x.pc = "read" /\ x.kind \in {"record", "check"}
    /\ txn' = [txn EXCEPT ![t] =
                  [x EXCEPT !.pc = "write", !.seen = dataset,
                            !.ok = /\ x.ok /\ dataset = "BUILDING"
                                   /\ x.kind = "check" => ~ HasNewer(x.job, x.num)]]
    /\ UNCHANGED <<tableVars, lock>>

\* findActiveExecutionAttempt and allocateNextAttemptNumber, without a lock
ReadAttempts(t, n) ==
    LET j == txn[t].job IN
    /\ txn[t].pc = "read" /\ txn[t].kind \in {"prepare", "retry"}
    /\ ~ HasActive(j) /\ NextNumber(j, n)
    /\ txn' = [txn EXCEPT ![t] = [@ EXCEPT !.pc = "write", !.num = n]]
    /\ UNCHANGED <<tableVars, lock>>

----------------------------------------------------------------------------
(* The requests, and what they write *)

\* An attempt's request starts some time after the attempt was read.
Begin(t, k, j, n) ==
    LET x == txn[t] IN
    /\ x.pc = "idle"
    /\ k \in Command <=> j = NoJob
    /\ k \in {"begin", "record", "check"} => attempt[j][n] # "ABSENT"
    /\ k \in {"record", "check"} => attempt[j][n] # "PREPARED"
    /\ k \notin {"begin", "record", "check"} => n = 1
    /\ txn' = [txn EXCEPT ![t] =
                  [x EXCEPT !.kind = k, !.job = j, !.num = n,
                            !.pc = CASE k \in {"publish", "reject", "abandon"} -> "series"
                                     [] k \in {"submit", "prepare", "retry"} -> "version"
                                     [] OTHER -> "job",
                            !.todo = IF k \in {"begin", "record", "check"} THEN {j} ELSE {},
                            !.seen = IF k = "begin" THEN dataset ELSE x.seen]]
    /\ UNCHANGED <<tableVars, lock>>

Writing(t, kinds) == txn[t].pc = "write" /\ txn[t].ok /\ txn[t].kind \in kinds /\ End(t)

WriteDecision(t) ==
    /\ Writing(t, Command)
    /\ dataset' = CASE txn[t].kind = "submit" -> "VALIDATING"
                    [] txn[t].kind = "publish" -> "PUBLISHED"
                    [] txn[t].kind = "reject" -> "REJECTED"
                    [] txn[t].kind = "abandon" -> "ABANDONED"
    /\ UNCHANGED <<frozen, job, attempt>>

WriteAttempt(t) ==
    /\ Writing(t, {"prepare", "retry"})
    /\ InsertPrepared(txn[t].job, txn[t].num)
    /\ dataset' = IF Freezing(t) THEN "BUILDING" ELSE dataset
    /\ frozen' = (frozen \/ Freezing(t))
    /\ UNCHANGED job

WriteAttemptStatus(t, status) ==
    /\ attempt' = [attempt EXCEPT ![txn[t].job][txn[t].num] = status]
    /\ UNCHANGED <<dataset, frozen, job>>

WriteBoth(t, status) ==
    /\ attempt' = [attempt EXCEPT ![txn[t].job][txn[t].num] = IF status = "RUNNING" THEN "ACCEPTED" ELSE status]
    /\ job' = [job EXCEPT ![txn[t].job] = status]
    /\ UNCHANGED <<dataset, frozen>>

WriteDispatching(t) == Writing(t, {"begin"}) /\ WriteAttemptStatus(t, "DISPATCHING")
WriteRejected(t) == Writing(t, {"record"}) /\ WriteAttemptStatus(t, "DISPATCH_FAILED")
WriteRunning(t) == Writing(t, {"record", "check"}) /\ WriteBoth(t, "RUNNING")
WriteResult(t) == Writing(t, {"check"}) /\ \E s \in Terminal : WriteBoth(t, s)

\* A refusal, a race, an attempt that is used again, a diagnostic, an error.
EndUnchanged(t) ==
    /\ txn[t].pc # "idle"
    /\ End(t)
    /\ UNCHANGED tableVars

Next ==
    \E t \in Transaction :
        \/ \E k \in Kind, j \in Job \cup {NoJob}, n \in Number : Begin(t, k, j, n)
        \/ LockSeries(t) \/ LockVersion(t) \/ ReadVersion(t)
        \/ \E j \in Job : LockJob(t, j) \/ LockAttempts(t, j)
        \/ \E n \in Number : ReadAttempts(t, n)
        \/ WriteDecision(t) \/ WriteAttempt(t) \/ WriteDispatching(t)
        \/ WriteRejected(t) \/ WriteRunning(t) \/ WriteResult(t)
        \/ EndUnchanged(t)

Spec == Init /\ [][Next]_vars

----------------------------------------------------------------------------
(* Properties *)

\* The row that a transaction locks next is held by another.
WaitsFor(t, holder) ==
    t # holder /\ \E row \in Row : Wants(t, row) /\ lock[row] = holder

\* No transactions wait for each other's rows, although the commands lock all
\* jobs and attempts of a version and the requests of a job those of one, and
\* although the first Run takes the jobs in another order.
NoDeadlock ==
    \A group \in (SUBSET Transaction) \ {{}} :
        \E t \in group : \A holder \in group : ~ WaitsFor(t, holder)

\* A transaction decides on rows it has read one after the other, some of them
\* not locked, and still its writes are a step of the rows as they are then.
Serialized == TablesSpec

=============================================================================
