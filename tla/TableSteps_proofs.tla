-------------------------- MODULE TableSteps_proofs --------------------------
(***************************************************************************)
(* Proofs about the steps of one version's rows.  What is proved here of   *)
(* the rows alone holds wherever TablesSpec is implemented: for the locked *)
(* transactions of RowLocks and for the requests of JobExecution.          *)
(***************************************************************************)
EXTENDS TableSteps, TLAPS

\* Attempt n of job j gets a status.
Writes(j, n, status) == attempt' = [attempt EXCEPT ![j][n] = status]

LEMMA RowWritten ==
    ASSUME TablesTypeOK, NEW j \in Job, NEW n \in Number, NEW status, Writes(j, n, status)
    PROVE  \A k \in Job, m \in Number :
              attempt'[k][m] = IF k = j /\ m = n THEN status ELSE attempt[k][m]
BY DEF TablesTypeOK, Writes

\* A command decides the version and leaves its jobs and attempts alone.
LEMMA CommandWrites ==
    ASSUME SubmitValidation \/ Publish \/ Reject \/ Abandon
    PROVE  /\ UNCHANGED <<frozen, job, attempt>>
           /\ \A j \in Job : ~ HasActive(j) \/ dataset = "VALIDATING"
           /\ dataset \in {"DRAFT", "BUILDING", "VALIDATING"}
           /\ \/ dataset' = "ABANDONED" /\ dataset # "VALIDATING"
              \/ /\ dataset' \in {"VALIDATING", "PUBLISHED", "REJECTED"} /\ dataset # "DRAFT"
                 /\ dataset # "VALIDATING" => \A j \in Job : job[j] = "SUCCEEDED"
BY DEF SubmitValidation, Publish, Reject, Abandon

\* What the other steps write: an attempt that was absent or open, and its job
\* with it only when the attempt is accepted or has its result.
LEMMA StepWrites ==
    ASSUME TableStep
    PROVE  \/ SubmitValidation \/ Publish \/ Reject \/ Abandon
           \/ \E j \in Job, n \in Number :
                 \/ CreateAttempt(j, n) \/ StartDispatch(j, n) \/ FailDispatch(j, n)
                 \/ \E s \in Terminal \cup {"RUNNING"} : MoveBoth(j, n, s)
BY DEF TableStep

\* An open attempt belongs to a job without a standing result, in a version
\* that is being built, and every other attempt of the job has failed.
LEMMA OpenRow ==
    ASSUME TablesConsistent, NEW j \in Job, NEW n \in Number, attempt[j][n] \in Active
    PROVE  /\ dataset = "BUILDING" /\ frozen /\ ~ HasNewer(j, n)
           /\ job[j] # "SUCCEEDED"
           /\ attempt[j][n] = "ACCEPTED" <=> job[j] = "RUNNING"
           /\ \A m \in Number : attempt[j][m] \in Active \cup {"SUCCEEDED"} => m = n
<1>1. ~ HasNewer(j, n)
  BY DEF TablesConsistent, OnlyNewestOpen
<1>2. \A m \in Number : attempt[j][m] \in Active \cup {"SUCCEEDED"} => m = n
  BY DEF TablesConsistent, OnlyNewestOpen, HasNewer, Active, Number
<1>3. HasActive(j)
  BY DEF HasActive
<1> QED
  BY <1>1, <1>2, <1>3 DEF TablesConsistent, VersionTells, JobTellsAttempts, Active

----------------------------------------------------------------------------
(* The invariant of the rows *)

LEMMA TablesTypeStep ==
    ASSUME TablesTypeOK, [TableStep]_tableVars
    PROVE  TablesTypeOK'
<1> USE DEF TablesTypeOK
<1>1. CASE UNCHANGED tableVars
  BY <1>1 DEF tableVars
<1>2. CASE SubmitValidation \/ Publish \/ Reject \/ Abandon
  BY <1>2, CommandWrites DEF DatasetStatus
<1>3. ASSUME NEW j \in Job, NEW n \in Number, NEW a \in AttemptStatus, Writes(j, n, a)
      PROVE  attempt' \in [Job -> [Number -> AttemptStatus]]
  BY <1>3 DEF Writes
<1>4. ASSUME NEW j \in Job, NEW n \in Number, CreateAttempt(j, n)
      PROVE  TablesTypeOK'
  BY <1>3, <1>4 DEF CreateAttempt, InsertPrepared, Writes, AttemptStatus, Active, DatasetStatus
<1>5. ASSUME NEW j \in Job, NEW n \in Number, StartDispatch(j, n) \/ FailDispatch(j, n)
      PROVE  TablesTypeOK'
  BY <1>3, <1>5
  DEF StartDispatch, FailDispatch, MoveAttempt, Writes, AttemptStatus, Active, Closed
<1>6. ASSUME NEW j \in Job, NEW n \in Number, NEW s \in Terminal \cup {"RUNNING"}, MoveBoth(j, n, s)
      PROVE  TablesTypeOK'
  <2>1. PICK a \in AttemptStatus : a = IF s = "RUNNING" THEN "ACCEPTED" ELSE s
    BY DEF AttemptStatus, Active, Closed, Terminal
  <2>2. attempt' \in [Job -> [Number -> AttemptStatus]]
    BY <1>3, <1>6, <2>1 DEF MoveBoth, Writes
  <2>3. job' \in [Job -> JobStatus]
    BY <1>6 DEF MoveBoth, JobStatus, Terminal
  <2> QED
    BY <1>6, <2>2, <2>3 DEF MoveBoth
<1> QED
  BY <1>1, <1>2, <1>4, <1>5, <1>6, StepWrites

\* Every step keeps older attempts closed and unsuccessful.
LEMMA NewestOpenStep ==
    ASSUME TablesConsistent, [TableStep]_tableVars
    PROVE  OnlyNewestOpen'
<1> USE DEF OnlyNewestOpen, HasNewer
<1>1. CASE UNCHANGED tableVars
  BY <1>1 DEF TablesConsistent, tableVars
<1>2. CASE SubmitValidation \/ Publish \/ Reject \/ Abandon
  BY <1>2, CommandWrites DEF TablesConsistent
<1>3. ASSUME NEW j \in Job, NEW n \in Number, CreateAttempt(j, n)
      PROVE  OnlyNewestOpen'
  <2>1. \A k \in Job, m \in Number :
            attempt'[k][m] = IF k = j /\ m = n THEN "PREPARED" ELSE attempt[k][m]
    <3>1. Writes(j, n, "PREPARED")
      BY <1>3 DEF CreateAttempt, InsertPrepared, Writes
    <3> QED
      BY <3>1, RowWritten DEF TablesConsistent
  <2>2. \A m \in Number : /\ attempt[j][m] \notin Active \cup {"SUCCEEDED"}
                          /\ m > n => attempt[j][m] = "ABSENT"
    BY <1>3 DEF CreateAttempt, Dispatchable, HasActive, NextNumber, TablesConsistent,
                JobTellsAttempts, Number
  <2>3. ASSUME NEW k \in Job, NEW m \in Number, attempt'[k][m] \in Active \cup {"SUCCEEDED"},
               NEW l \in Number, l > m
        PROVE  attempt'[k][l] = "ABSENT"
    <3>1. CASE k = j /\ m = n
      BY <2>1, <2>2, <2>3, <3>1 DEF Number
    <3>2. CASE k = j /\ m # n
      BY <2>1, <2>2, <2>3, <3>2
    <3>3. CASE k # j
      BY <2>1, <2>3, <3>3 DEF TablesConsistent
    <3> QED
      BY <3>1, <3>2, <3>3
  <2> QED
    BY <2>3 DEF Active
<1>4. ASSUME NEW j \in Job, NEW n \in Number, NEW status,
             attempt[j][n] \in Active, Writes(j, n, status)
      PROVE  OnlyNewestOpen'
  <2>1. \A k \in Job, m \in Number :
            attempt'[k][m] = IF k = j /\ m = n THEN status ELSE attempt[k][m]
    BY <1>4, RowWritten DEF TablesConsistent
  <2> QED
    BY <1>4, <2>1 DEF TablesConsistent, Active
<1>5. ASSUME NEW j \in Job, NEW n \in Number, StartDispatch(j, n) \/ FailDispatch(j, n)
      PROVE  OnlyNewestOpen'
  BY <1>4, <1>5 DEF StartDispatch, FailDispatch, MoveAttempt, Writes, Active
<1>6. ASSUME NEW j \in Job, NEW n \in Number, NEW s \in Terminal \cup {"RUNNING"}, MoveBoth(j, n, s)
      PROVE  OnlyNewestOpen'
  <2>1. attempt[j][n] \in Active /\ \E status : Writes(j, n, status)
    BY <1>6 DEF MoveBoth, Writes, Active
  <2> QED
    BY <1>4, <2>1
<1> QED
  BY <1>1, <1>2, <1>3, <1>5, <1>6, StepWrites

\* Every step that writes a job status writes the attempt status that
\* explains it.
LEMMA JobTellsStep ==
    ASSUME TablesConsistent, [TableStep]_tableVars
    PROVE  JobTellsAttempts'
<1> USE DEF JobTellsAttempts
<1>1. CASE UNCHANGED tableVars
  BY <1>1 DEF TablesConsistent, tableVars
<1>2. CASE SubmitValidation \/ Publish \/ Reject \/ Abandon
  BY <1>2, CommandWrites DEF TablesConsistent
<1>3. ASSUME NEW j \in Job, NEW n \in Number, NEW status, UNCHANGED job,
             Writes(j, n, status), attempt[j][n] \notin {"ACCEPTED", "SUCCEEDED", "FAILED"},
             status \notin {"ACCEPTED", "SUCCEEDED", "FAILED"}
      PROVE  JobTellsAttempts'
  <2>1. \A k \in Job, m \in Number :
            attempt'[k][m] = IF k = j /\ m = n THEN status ELSE attempt[k][m]
    BY <1>3, RowWritten DEF TablesConsistent
  <2>2. \A k \in Job, m \in Number : \A s \in {"ACCEPTED", "SUCCEEDED", "FAILED"} :
            attempt'[k][m] = s <=> attempt[k][m] = s
    BY <1>3, <2>1
  <2> QED
    BY <1>3, <2>2 DEF TablesConsistent
<1>4. ASSUME NEW j \in Job, NEW n \in Number, StartDispatch(j, n) \/ FailDispatch(j, n)
      PROVE  JobTellsAttempts'
  BY <1>3, <1>4 DEF StartDispatch, FailDispatch, MoveAttempt, Writes
<1>5. ASSUME NEW j \in Job, NEW n \in Number, CreateAttempt(j, n)
      PROVE  JobTellsAttempts'
  <2>1. attempt[j][n] = "ABSENT"
    BY <1>5 DEF CreateAttempt, NextNumber, Number
  <2>2. Writes(j, n, "PREPARED") /\ UNCHANGED job
    BY <1>5 DEF CreateAttempt, InsertPrepared, Writes
  <2> QED
    BY <1>3, <2>1, <2>2
<1>6. ASSUME NEW j \in Job, NEW n \in Number, NEW s \in Terminal \cup {"RUNNING"}, MoveBoth(j, n, s)
      PROVE  JobTellsAttempts'
  <2>1. PICK status \in {"ACCEPTED", "SUCCEEDED", "FAILED"} :
            status = IF s = "RUNNING" THEN "ACCEPTED" ELSE s
    BY DEF Terminal
  <2>2. \A k \in Job, m \in Number :
            attempt'[k][m] = IF k = j /\ m = n THEN status ELSE attempt[k][m]
    <3>1. Writes(j, n, status)
      BY <1>6, <2>1 DEF MoveBoth, Writes
    <3> QED
      BY <3>1, RowWritten DEF TablesConsistent
  <2>3. \A k \in Job : job'[k] = IF k # j THEN job[k] ELSE s
    BY <1>6 DEF MoveBoth, TablesConsistent, TablesTypeOK
  <2>4. \A m \in Number : m # n => attempt[j][m] \notin {"ACCEPTED", "SUCCEEDED"}
    BY <1>6, OpenRow DEF MoveBoth, Active
  <2>5. ASSUME NEW k \in Job
        PROVE  /\ job'[k] = "RUNNING" <=> \E m \in Number : attempt'[k][m] = "ACCEPTED"
               /\ job'[k] = "SUCCEEDED" <=> \E m \in Number : attempt'[k][m] = "SUCCEEDED"
               /\ job'[k] = "PENDING" => \A m \in Number : attempt'[k][m] # "FAILED"
               /\ job'[k] = "FAILED" => \E m \in Number : attempt'[k][m] = "FAILED"
    <3>1. CASE k = j
      BY <2>1, <2>2, <2>3, <2>4, <3>1 DEF Terminal
    <3>2. CASE k # j
      BY <2>2, <2>3, <3>2 DEF TablesConsistent
    <3> QED
      BY <3>1, <3>2
  <2> QED
    BY <2>5
<1> QED
  BY <1>1, <1>2, <1>4, <1>5, <1>6, StepWrites

\* Only a step that inserts a PREPARED attempt or a command moves the version.
LEMMA VersionTellsStep ==
    ASSUME TablesConsistent, [TableStep]_tableVars
    PROVE  VersionTells'
<1> USE DEF VersionTells
<1>1. CASE UNCHANGED tableVars
  BY <1>1 DEF TablesConsistent, tableVars, HasActive
<1>2. CASE SubmitValidation \/ Publish \/ Reject \/ Abandon
  <2>1. \A j \in Job : ~ HasActive(j)
    BY <1>2, CommandWrites DEF TablesConsistent
  <2>2. \A j \in Job : ~ HasActive(j)'
    BY <1>2, <2>1, CommandWrites DEF HasActive
  <2>3. \/ dataset' = "ABANDONED"
        \/ dataset' \in {"VALIDATING", "PUBLISHED", "REJECTED"} /\ frozen
             /\ \A j \in Job : job[j] = "SUCCEEDED"
    BY <1>2, CommandWrites DEF TablesConsistent
  <2> QED
    BY <1>2, <2>2, <2>3, CommandWrites DEF TablesConsistent
<1>3. ASSUME dataset' = "BUILDING", frozen' = TRUE
      PROVE  VersionTells'
  BY <1>3
<1>4. ASSUME NEW j \in Job, NEW n \in Number,
             StartDispatch(j, n) \/ FailDispatch(j, n) \/ \E s \in Terminal \cup {"RUNNING"} : MoveBoth(j, n, s)
      PROVE  VersionTells'
  BY <1>3, <1>4
  DEF StartDispatch, FailDispatch, MoveAttempt, MoveBoth, TablesConsistent, TablesTypeOK
<1> QED
  BY <1>1, <1>2, <1>3, <1>4, StepWrites DEF CreateAttempt

LEMMA TablesConsistentInit == TablesInit => TablesConsistent
<1> SUFFICES ASSUME TablesInit PROVE TablesConsistent
  OBVIOUS
<1>1. \A j \in Job : job[j] = "PENDING" /\ \A n \in Number : attempt[j][n] = "ABSENT"
  BY DEF TablesInit
<1>2. TablesTypeOK
  BY DEF TablesInit, TablesTypeOK, DatasetStatus, JobStatus, AttemptStatus
<1>3. OnlyNewestOpen /\ JobTellsAttempts
  BY <1>1 DEF OnlyNewestOpen, JobTellsAttempts, Active
<1>4. VersionTells
  BY <1>1 DEF TablesInit, VersionTells, HasActive, Active
<1> QED
  BY <1>2, <1>3, <1>4 DEF TablesConsistent

LEMMA TablesConsistentStep == TablesConsistent /\ [TableStep]_tableVars => TablesConsistent'
BY TablesTypeStep, NewestOpenStep, JobTellsStep, VersionTellsStep DEF TablesConsistent

\* The statuses of a version, its jobs and their attempts fit, after any
\* number of steps of any transactions that act on the rows one at a time.
THEOREM RowsStayConsistent == TablesSpec => []TablesConsistent
BY TablesConsistentInit, TablesConsistentStep, PTL DEF TablesSpec

----------------------------------------------------------------------------
(* What no step of the rows may do *)

\* A step changes one attempt: one that was open, or the next of its job.
LEMMA AttemptWritten ==
    ASSUME TablesConsistent, [TableStep]_tableVars, NEW j \in Job, NEW n \in Number,
           attempt'[j][n] # attempt[j][n]
    PROVE  attempt[j][n] \in Active \/ CreateAttempt(j, n)
<1>1. ASSUME NEW k \in Job, NEW m \in Number, NEW status, Writes(k, m, status)
      PROVE  k = j /\ m = n
  <2>1. attempt'[j][n] = IF k = j /\ m = n THEN status ELSE attempt[j][n]
    BY <1>1, RowWritten DEF TablesConsistent
  <2> QED
    BY <2>1
<1>2. ~ (SubmitValidation \/ Publish \/ Reject \/ Abandon)
  BY CommandWrites
<1>3. ASSUME NEW k \in Job, NEW m \in Number, CreateAttempt(k, m)
      PROVE  CreateAttempt(j, n)
  BY <1>1, <1>3 DEF CreateAttempt, InsertPrepared, Writes
<1>4. ASSUME NEW k \in Job, NEW m \in Number,
             StartDispatch(k, m) \/ FailDispatch(k, m) \/ \E s \in Terminal \cup {"RUNNING"} : MoveBoth(k, m, s)
      PROVE  attempt[j][n] \in Active
  <2>1. attempt[k][m] \in Active /\ \E status : Writes(k, m, status)
    BY <1>4 DEF StartDispatch, FailDispatch, MoveAttempt, MoveBoth, Writes, Active
  <2> QED
    BY <1>1, <2>1
<1>5. ~ UNCHANGED tableVars
  BY DEF tableVars
<1> QED
  BY <1>2, <1>3, <1>4, <1>5, StepWrites

\* What was recorded of a closed attempt is history.
THEOREM RowsKeepHistory == TablesSpec => HistoryImmutable
<1>1. TablesConsistent /\ [TableStep]_tableVars =>
        [\A j \in Job, n \in Number :
            attempt[j][n] \in Closed => attempt'[j][n] = attempt[j][n]]_tableVars
  <2>1. ASSUME NEW j \in Job, NEW n \in Number, CreateAttempt(j, n)
        PROVE  attempt[j][n] = "ABSENT"
    BY <2>1 DEF CreateAttempt, NextNumber, Number
  <2> QED
    BY <2>1, AttemptWritten DEF Active, Closed, Terminal
<1> QED
  BY <1>1, RowsStayConsistent, PTL DEF TablesSpec, HistoryImmutable

\* A new attempt follows attempts that all failed.
THEOREM RowsRetryAfterFailure == TablesSpec => RetryOnlyAfterFailure
<1>1. ASSUME TablesConsistent, [TableStep]_tableVars, NEW j \in Job, NEW n \in Number,
             attempt[j][n] = "ABSENT", attempt'[j][n] # "ABSENT", NEW m \in 1 .. (n - 1)
      PROVE  attempt[j][m] \in {"FAILED", "DISPATCH_FAILED"}
  <2>1. CreateAttempt(j, n)
    BY <1>1, AttemptWritten DEF Active
  <2>2. m \in Number /\ m < n
    BY <1>1, MaxAttemptsAssumption DEF Number
  <2>3. attempt[j][m] \notin Active \cup {"ABSENT", "SUCCEEDED"}
    BY <1>1, <2>1, <2>2
    DEF CreateAttempt, Dispatchable, HasActive, NextNumber, TablesConsistent, JobTellsAttempts, Number
  <2>4. attempt[j][m] \in AttemptStatus
    BY <1>1, <2>2 DEF TablesConsistent, TablesTypeOK
  <2> QED
    BY <2>3, <2>4 DEF AttemptStatus, Closed, Terminal
<1>2. TablesConsistent /\ [TableStep]_tableVars =>
        [\A j \in Job, n \in Number :
            attempt[j][n] = "ABSENT" /\ attempt'[j][n] # "ABSENT" =>
                \A m \in 1 .. (n - 1) : attempt[j][m] \in {"FAILED", "DISPATCH_FAILED"}]_tableVars
  BY <1>1
<1> QED
  BY <1>2, RowsStayConsistent, PTL DEF TablesSpec, RetryOnlyAfterFailure

=============================================================================
