------------------------- MODULE SessionCoordinator -------------------------
(***************************************************************************)
(* DemoSessionCoordinator: the admission of a session's operations, the    *)
(* promises they wait for, and the leases of resets.  Everything between   *)
(* two awaits is one step.                                                 *)
(***************************************************************************)
EXTENDS DemoSessions

CONSTANTS
    Operation, NoOperation,  \* protected requests; the resolved promise
    Cleaner, NoCleaner,      \* who may reserve a session
    MaxOperations,           \* 32 in the code
    MaxParallel,             \* 4 in the code
    MaxSessions              \* 1024 in the code

ASSUME GateAssumption ==
    /\ NoOperation \notin Operation /\ NoCleaner \notin Cleaner
    /\ MaxOperations \in Nat \ {0} /\ MaxSessions \in Nat \ {0} /\ MaxParallel \in Nat \ {0}

VARIABLES
    op,     \* the operations, by slot
    queue,  \* queues
    lease   \* resets: who holds the reservation of a session

gateVars == <<op, queue, lease>>

\* "install" is the gap in forSession between reading the session's row and
\* registering its executor.
OperationPhase == {"idle", "authenticated", "waiting", "running", "install"}
Admitted == {"waiting", "running", "install"}

OperationRecord == [pc : OperationPhase,
                    session : Session \cup {NoSession},
                    exclusive : BOOLEAN,
                    waits : SUBSET Operation,   \* unresolved promises of those it awaits
                    before : SUBSET Operation]  \* history: admitted earlier, not yet left

QueueRecord == [tail : Operation \cup {NoOperation},
                size : 0 .. MaxOperations,
                parallel : SUBSET Operation]

GateTypeOK ==
    /\ op \in [Operation -> OperationRecord]
    /\ queue \in [Session -> QueueRecord]
    /\ lease \in [Session -> Cleaner \cup {NoCleaner}]

NotAdmitted == [pc |-> "idle", session |-> NoSession, exclusive |-> FALSE,
                waits |-> {}, before |-> {}]

\* A queue is deleted with its last operation.
NoQueue == [tail |-> NoOperation, size |-> 0, parallel |-> {}]
HasQueue(s) == queue[s] # NoQueue

GateInit ==
    /\ op = [o \in Operation |-> NotAdmitted]
    /\ queue = [s \in Session |-> NoQueue]
    /\ lease = [s \in Session |-> NoCleaner]

AdmittedTo(s) == {o \in Operation : op[o].session = s /\ op[o].pc \in Admitted}

\* The tracked sessions and reservations together.
Tracked == Cardinality({s \in Session : HasQueue(s)})
           + Cardinality({s \in Session : lease[s] # NoCleaner})

----------------------------------------------------------------------------
(* Reservations *)

\* Mutant: a reset does not look at the operations that only wait.
ReservableOverWaiting(s) ==
    /\ lease[s] = NoCleaner
    /\ \A o \in AdmittedTo(s) : op[o].pc = "waiting"

\* reserveCleanup, also behind tryBeginReset.
Reservable(s) ==
    /\ lease[s] = NoCleaner
    /\ ~ HasQueue(s)
    /\ Tracked < MaxSessions

Reserve(k, s) == lease' = [lease EXCEPT ![s] = k]

\* finishReset: a reservation that is no longer held is an error.
Release(s) == lease' = [lease EXCEPT ![s] = NoCleaner]

----------------------------------------------------------------------------
(* Operations *)

\* The request's hook authenticates it before it is admitted.
Authenticate(o, s) ==
    /\ op[o].pc = "idle"
    /\ Usable(s)
    /\ op' = [op EXCEPT ![o] = [@ EXCEPT !.pc = "authenticated", !.session = s]]
    /\ UNCHANGED <<queue, lease, sessionVars>>

\* Mutant: the limit of a session's operations is not checked.
AdmissionUnbounded(s) ==
    /\ lease[s] = NoCleaner
    /\ HasQueue(s) \/ Tracked < MaxSessions

AdmissionOpen(s) ==
    /\ lease[s] = NoCleaner
    /\ IF HasQueue(s) THEN queue[s].size < MaxOperations ELSE Tracked < MaxSessions

\* A further parallel operation is refused when all slots are taken.
ParallelOpen(s) == AdmissionOpen(s) /\ Cardinality(queue[s].parallel) < MaxParallel

Enqueue(o, exclusive, awaited) ==
    op' = [op EXCEPT ![o] = [@ EXCEPT !.pc = "waiting", !.exclusive = exclusive,
                                      !.waits = awaited \ {NoOperation},
                                      !.before = AdmittedTo(op[o].session)]]

\* Mutant: an exclusive operation awaits the one before it only.
AdmitExclusiveAfterTail(o) ==
    LET s == op[o].session  q == queue[s] IN
    /\ op[o].pc = "authenticated"
    /\ AdmissionOpen(s)
    /\ Enqueue(o, TRUE, {q.tail})
    /\ queue' = [queue EXCEPT ![s] = [q EXCEPT !.tail = o, !.size = q.size + 1]]
    /\ UNCHANGED <<lease, sessionVars>>

\* run: it awaits the tail and the parallel operations of this moment.
AdmitExclusive(o) ==
    LET s == op[o].session  q == queue[s] IN
    /\ op[o].pc = "authenticated"
    /\ AdmissionOpen(s)
    /\ Enqueue(o, TRUE, {q.tail} \cup q.parallel)
    /\ queue' = [queue EXCEPT ![s] = [q EXCEPT !.tail = o, !.size = q.size + 1]]
    /\ UNCHANGED <<lease, sessionVars>>

\* Mutant: a waiting exclusive operation awaits the later parallel ones too.
AdmitParallelAwaited(o) ==
    LET s == op[o].session  q == queue[s] IN
    /\ op[o].pc = "authenticated"
    /\ ParallelOpen(s)
    /\ op' = [p \in Operation |->
                 IF p = o THEN [op[o] EXCEPT !.pc = "waiting", !.waits = {q.tail} \ {NoOperation},
                                             !.before = AdmittedTo(s)]
                 ELSE IF p = q.tail /\ op[p].pc = "waiting" THEN [op[p] EXCEPT !.waits = @ \cup {o}]
                 ELSE op[p]]
    /\ queue' = [queue EXCEPT ![s] = [q EXCEPT !.parallel = q.parallel \cup {o},
                                               !.size = q.size + 1]]
    /\ UNCHANGED <<lease, sessionVars>>

\* runParallel: it awaits the tail and does not replace it.
AdmitParallel(o) ==
    LET s == op[o].session  q == queue[s] IN
    /\ op[o].pc = "authenticated"
    /\ ParallelOpen(s)
    /\ Enqueue(o, FALSE, {q.tail})
    /\ queue' = [queue EXCEPT ![s] = [q EXCEPT !.parallel = q.parallel \cup {o},
                                               !.size = q.size + 1]]
    /\ UNCHANGED <<lease, sessionVars>>

\* 409, 429 or 503; also the requests that were never admitted.
RefuseOperation(o) ==
    /\ op[o].pc = "authenticated"
    /\ ~ ParallelOpen(op[o].session)
    /\ op' = [op EXCEPT ![o] = NotAdmitted]
    /\ UNCHANGED <<queue, lease, sessionVars>>

\* Mutant: a parallel operation gives its slot back but stays in the batch.
LeaveInBatch(o) ==
    LET s == op[o].session  q == queue[s] IN
    /\ op' = [p \in Operation |->
                 IF p = o THEN NotAdmitted
                 ELSE [op[p] EXCEPT !.waits = @ \ {o}, !.before = @ \ {o}]]
    /\ queue' = [queue EXCEPT ![s] =
                    IF q.size = 1 THEN NoQueue
                    ELSE [q EXCEPT !.tail = IF @ = o THEN NoOperation ELSE @, !.size = @ - 1]]
    /\ UNCHANGED lease

\* finally: the slot is released and the operation's promise resolved.
Leave(o) ==
    LET s == op[o].session  q == queue[s] IN
    /\ op' = [p \in Operation |->
                 IF p = o THEN NotAdmitted
                 ELSE [op[p] EXCEPT !.waits = @ \ {o}, !.before = @ \ {o}]]
    /\ queue' = [queue EXCEPT ![s] =
                    IF q.size = 1 THEN NoQueue
                    ELSE [tail |-> IF q.tail = o THEN NoOperation ELSE q.tail,
                          size |-> q.size - 1,
                          parallel |-> q.parallel \ {o}]]
    /\ UNCHANGED lease

\* Mutant: the session that was authenticated is trusted after the wait.
RevalidateTrusting(o) ==
    /\ op[o].pc = "waiting" /\ op[o].waits = {}
    /\ op' = [op EXCEPT ![o].pc = "running"]
    /\ UNCHANGED <<queue, lease, sessionVars>>

\* revalidate, when everything awaited has been resolved.
Revalidate(o) ==
    /\ op[o].pc = "waiting" /\ op[o].waits = {}
    /\ IF Usable(op[o].session)
       THEN op' = [op EXCEPT ![o].pc = "running"] /\ UNCHANGED <<queue, lease>>
       ELSE Leave(o)
    /\ UNCHANGED sessionVars

\* The creation of a version is a parallel operation.
Creating(o) == op[o].pc = "running" /\ ~ op[o].exclusive

\* A command of the body has committed a series for the session's company.
Own(o) ==
    /\ Creating(o)
    /\ owned' = [owned EXCEPT ![op[o].session] = TRUE]
    /\ UNCHANGED <<session, instances, gateVars>>

\* forSession: the row is read again, and the executor registered after it.
ForSession(o) ==
    /\ op[o].pc = "running"
    /\ IF Usable(op[o].session)
       THEN op' = [op EXCEPT ![o].pc = "install"] /\ UNCHANGED <<queue, lease>>
       ELSE Leave(o)
    /\ UNCHANGED sessionVars

\* A full registry is an error of the operation.
InstallExecutor(o) ==
    LET s == op[o].session IN
    /\ op[o].pc = "install"
    /\ IF CanInstall(s)
       THEN /\ Install(s)
            /\ op' = [op EXCEPT ![o].pc = "running"]
            /\ UNCHANGED <<queue, lease>>
       ELSE Leave(o) /\ UNCHANGED instances
    /\ UNCHANGED <<session, owned>>

\* The body returns or throws.
FinishOperation(o) ==
    /\ op[o].pc = "running"
    /\ Leave(o)
    /\ UNCHANGED sessionVars

OperationStep(o) ==
    \/ AdmitExclusive(o) \/ AdmitParallel(o) \/ RefuseOperation(o)
    \/ Revalidate(o) \/ ForSession(o) \/ InstallExecutor(o) \/ FinishOperation(o)

=============================================================================
