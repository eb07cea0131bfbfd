------------------------- MODULE DemoRuntime_proofs -------------------------
(***************************************************************************)
(* Proofs about the admission of operations and the reservation of         *)
(* sessions, for any sessions, operations, cleaners, limits and faults.    *)
(***************************************************************************)
EXTENDS DemoRuntime, FiniteSetTheorems, WellFoundedInduction, TLAPS

----------------------------------------------------------------------------
(* The inductive invariant of the coordinator *)

\* The promises that an operation awaits suffice for its turn: an exclusive one
\* follows everything before it, a parallel one every exclusive one before it.
HasTurn(o) ==
    \A p \in op[o].before : ~ op[o].exclusive /\ ~ op[p].exclusive

\* An operation that is not admitted is remembered by nobody; an admitted one
\* remembers operations of its own session, in the order of their admission.
InOrder(o) ==
    /\ op[o].pc = "idle" => op[o] = NotAdmitted
    /\ op[o].pc # "idle" => op[o].session \in Session
    /\ op[o].pc \notin Admitted => op[o].waits = {} /\ op[o].before = {}
    /\ op[o].waits \subseteq op[o].before
    /\ \A p \in op[o].before :
          /\ p # o
          /\ op[p].pc \in Admitted
          /\ op[p].session = op[o].session
          /\ op[p].before \subseteq op[o].before

\* A waiting operation awaits the last exclusive operation before it, which has
\* its turn after the others, and an exclusive one all parallel ones before it.
Awaits(o) ==
    op[o].pc = "waiting" =>
        /\ op[o].exclusive =>
              \A p \in op[o].before : ~ op[p].exclusive => p \in op[o].waits
        /\ (\E p \in op[o].before : op[p].exclusive) =>
              \E e \in op[o].waits :
                  /\ op[e].exclusive
                  /\ \A p \in op[o].before \ {e} : op[p].exclusive => p \in op[e].before

Runs(o) == op[o].pc \in {"running", "install"} => HasTurn(o)

\* The queue of a session counts the admitted operations and ends with the
\* last exclusive one; a reserved session has none.
QueueTells(s) ==
    /\ IsFiniteSet(AdmittedTo(s))
    /\ queue[s].size = Cardinality(AdmittedTo(s))
    /\ queue[s].parallel = {o \in AdmittedTo(s) : ~ op[o].exclusive}
    /\ queue[s].tail = NoOperation => \A o \in AdmittedTo(s) : ~ op[o].exclusive
    /\ queue[s].tail # NoOperation =>
          /\ queue[s].tail \in AdmittedTo(s)
          /\ op[queue[s].tail].exclusive
          /\ \A o \in AdmittedTo(s) \ {queue[s].tail} :
                op[o].exclusive => o \in op[queue[s].tail].before
    /\ lease[s] # NoCleaner => AdmittedTo(s) = {}

QueueInv ==
    /\ GateTypeOK
    /\ \A o \in Operation : InOrder(o) /\ Awaits(o) /\ Runs(o)
    /\ \A s \in Session : QueueTells(s)

----------------------------------------------------------------------------
(* What a step does to the coordinator *)

\* A reservation is made of a session without a queue, or given back.
Reserves ==
    /\ UNCHANGED <<op, queue>>
    /\ \/ UNCHANGED lease
       \/ \E s \in Session, k \in Cleaner :
             lease[s] = NoCleaner /\ ~ HasQueue(s) /\ lease' = [lease EXCEPT ![s] = k]
       \/ \E s \in Session : lease' = [lease EXCEPT ![s] = NoCleaner]

Authenticates(o) ==
    /\ op[o].pc = "idle"
    /\ \E s \in Session : op' = [op EXCEPT ![o] = [op[o] EXCEPT !.pc = "authenticated", !.session = s]]
    /\ UNCHANGED <<queue, lease>>

Refuses(o) ==
    /\ op[o].pc = "authenticated"
    /\ op' = [op EXCEPT ![o] = NotAdmitted]
    /\ UNCHANGED <<queue, lease>>

\* The operation goes on, or leaves, when what it awaited has been resolved.
Resumable(o) == op[o].pc \in Admitted /\ (op[o].pc = "waiting" => op[o].waits = {})

Moves(o) ==
    /\ Resumable(o)
    /\ \E pc \in {"running", "install"} : op' = [op EXCEPT ![o].pc = pc]
    /\ UNCHANGED <<queue, lease>>

Leaves(o) == Resumable(o) /\ Leave(o)

Admits(o) == (AdmitExclusive(o) \/ AdmitParallel(o)) /\ UNCHANGED lease

Stops ==
    /\ op' = [o \in Operation |-> NotAdmitted]
    /\ queue' = [s \in Session |-> NoQueue]
    /\ lease' = [s \in Session |-> NoCleaner]

\* A reset or maintenance reserves, gives back or does neither.
LEMMA CleanerReserves ==
    ASSUME NEW k \in Cleaner, GateTypeOK, ResetTypeOK, ResetStep(k) \/ MaintenanceStep(k)
    PROVE  Reserves
<1>1. lease \in [Session -> Cleaner \cup {NoCleaner}]
  BY DEF GateTypeOK
<1>2. ASSUME NEW committed, Finish(k, committed), UNCHANGED <<op, queue>> PROVE Reserves
  <2>1. CASE cleaner[k].session \in Session
    BY <1>2, <2>1 DEF Finish, Release, Reserves
  <2>2. CASE cleaner[k].session \notin Session
    BY <1>1, <1>2, <2>2 DEF Finish, Release, Reserves
  <2> QED BY <2>1, <2>2
<1>3. CASE ReserveReset(k)
  <2>1. CASE cleaner[k].session \in Session
    BY <1>3, <2>1 DEF ReserveReset, Reserve, Reservable, Reserves
  <2>2. CASE cleaner[k].session \notin Session
    BY <1>1, <1>3, <2>2 DEF ReserveReset, Reserve, Reserves
  <2> QED BY <2>1, <2>2
<1>4. ASSUME NEW s \in Session, Sweep(k, s) PROVE Reserves
  BY <1>4 DEF Sweep, Reserve, Reservable, Reserves
<1>5. CASE CleanRolledBack(k) \/ CleanCommitted(k) \/ FinishOutcome(k)
  BY <1>2, <1>5 DEF CleanRolledBack, CleanCommitted, FinishOutcome
<1>6. CASE RefuseReset(k) \/ CleanLock(k) \/ CleanCommit(k) \/ CleanUnknown(k) \/ ReadOutcome(k)
           \/ OutcomeUnknown(k)
  BY <1>6 DEF RefuseReset, CleanLock, CleanCommit, CleanUnknown, ReadOutcome, OutcomeUnknown,
              gateVars, Reserves
<1>7. CASE Tick(k) \/ Awaited(k) \/ QueryCandidates(k) \/ QueryFails(k) \/ SweepDone(k)
           \/ \E s \in Session : Recover(k, s)
  BY <1>7 DEF Tick, Awaited, QueryCandidates, QueryFails, SweepDone, Recover, gateVars, Reserves
<1> QED BY <1>3, <1>4, <1>5, <1>6, <1>7 DEF ResetStep, MaintenanceStep

LEMMA OperationMoves ==
    ASSUME NEW o \in Operation, GateTypeOK, OperationStep(o)
    PROVE  Admits(o) \/ Refuses(o) \/ Moves(o) \/ Leaves(o)
<1>1. CASE AdmitExclusive(o) \/ AdmitParallel(o)
  BY <1>1 DEF Admits, AdmitExclusive, AdmitParallel
<1>2. CASE RefuseOperation(o)
  BY <1>2 DEF RefuseOperation, Refuses
<1>3. CASE Revalidate(o)
  BY <1>3 DEF Revalidate, Resumable, Admitted, Moves, Leaves, Leave
<1>4. CASE ForSession(o)
  BY <1>4 DEF ForSession, Resumable, Admitted, Moves, Leaves, Leave
<1>5. CASE InstallExecutor(o)
  BY <1>5 DEF InstallExecutor, Resumable, Admitted, Moves, Leaves, Leave
<1>6. CASE FinishOperation(o)
  BY <1>6 DEF FinishOperation, Resumable, Admitted, Leaves
<1> QED BY <1>1, <1>2, <1>3, <1>4, <1>5, <1>6 DEF OperationStep

\* Every step of the runtime is one of these for the coordinator.
LEMMA CoordinatorSteps ==
    ASSUME GateTypeOK, ResetTypeOK, [Next]_vars
    PROVE  \/ Reserves \/ Stops
           \/ \E o \in Operation : Authenticates(o) \/ Refuses(o) \/ Admits(o) \/ Moves(o) \/ Leaves(o)
<1>1. CASE UNCHANGED vars \/ StartServer \/ Listen
  BY <1>1 DEF vars, StartServer, Listen, gateVars, Reserves
<1>2. CASE Restart
  BY <1>2 DEF Restart, Stops, NothingToDo
<1>3. CASE Arrival
  <2>1. CASE \E s \in Session : CreateSession(s) /\ UNCHANGED <<gateVars, resetVars>>
    BY <2>1 DEF gateVars, Reserves
  <2>2. CASE \E s \in Session, o \in Operation : Authenticate(o, s)
    BY <2>2 DEF Authenticate, Authenticates
  <2>3. CASE \E s \in Session, k \in Cleaner : AuthenticateReset(k, s)
    BY <2>3 DEF AuthenticateReset, gateVars, Reserves
  <2> QED BY <1>3, <2>1, <2>2, <2>3 DEF Arrival
<1>4. CASE \E s \in Session : \/ Expire(s) /\ UNCHANGED <<gateVars, resetVars>>
                              \/ DatabaseCommits(s) \/ DatabaseAborts(s) \/ OrphanDecided(s)
  BY <1>4 DEF DatabaseCommits, DatabaseAborts, OrphanDecided, gateVars, Reserves
<1>5. ASSUME NEW o \in Operation, OperationStep(o)
      PROVE  Admits(o) \/ Refuses(o) \/ Moves(o) \/ Leaves(o)
  BY <1>5, OperationMoves
<1>6. ASSUME NEW o \in Operation, Own(o) PROVE Reserves
  BY <1>6 DEF Own, gateVars, Reserves
<1>7. ASSUME NEW k \in Cleaner, ResetStep(k) \/ MaintenanceStep(k) PROVE Reserves
  BY <1>7, CleanerReserves
<1>8. ASSUME NEW o \in Operation, OrphanOperation(o) PROVE Leaves(o)
  BY <1>8 DEF OrphanOperation, Creating, Leaves, Resumable, Admitted
<1> QED BY <1>1, <1>2, <1>3, <1>4, <1>5, <1>6, <1>7, <1>8 DEF Next

----------------------------------------------------------------------------
(* The invariant holds at the start and in a stopped process *)

Nobody ==
    /\ op = [o \in Operation |-> NotAdmitted]
    /\ queue = [s \in Session |-> NoQueue]
    /\ lease \in [Session -> Cleaner \cup {NoCleaner}]

LEMMA NobodyAdmitted == Nobody => QueueInv
<1> SUFFICES ASSUME Nobody PROVE QueueInv OBVIOUS
<1> USE DEF Nobody
<1>1. /\ NotAdmitted \in OperationRecord
      /\ NotAdmitted.pc = "idle" /\ NotAdmitted.waits = {} /\ NotAdmitted.before = {}
  BY DEF NotAdmitted, OperationRecord, OperationPhase
<1>2. /\ NoQueue \in QueueRecord
      /\ NoQueue.size = 0 /\ NoQueue.parallel = {} /\ NoQueue.tail = NoOperation
  BY GateAssumption DEF NoQueue, QueueRecord
<1>3. GateTypeOK
  BY <1>1, <1>2 DEF GateTypeOK
<1>4. \A o \in Operation : InOrder(o) /\ Awaits(o) /\ Runs(o)
  BY <1>1 DEF InOrder, Awaits, Runs
<1>5. ASSUME NEW s \in Session PROVE QueueTells(s)
  <2>1. AdmittedTo(s) = {}
    BY <1>1 DEF AdmittedTo, Admitted
  <2>2. queue[s] = NoQueue
    OBVIOUS
  <2> QED
    BY <1>2, <2>1, <2>2, FS_EmptySet DEF QueueTells
<1> QED BY <1>3, <1>4, <1>5 DEF QueueInv

LEMMA QueueInit == Init => QueueInv
BY NobodyAdmitted DEF Init, GateInit, Nobody

LEMMA StopsKeeps == ASSUME QueueInv, Stops PROVE QueueInv'
<1>1. Nobody'
  BY DEF Stops, Nobody
<1> QED BY <1>1, NobodyAdmitted, PTL

----------------------------------------------------------------------------
(* Reservations *)

\* A session without a queue has no admitted operation, and conversely.
LEMMA QueueMeansAdmitted ==
    ASSUME QueueInv, NEW s \in Session
    PROVE  HasQueue(s) <=> AdmittedTo(s) # {}
<1>1. QueueTells(s) /\ queue[s] \in QueueRecord
  BY DEF QueueInv, GateTypeOK
<1>2. Cardinality(AdmittedTo(s)) = 0 <=> AdmittedTo(s) = {}
  BY <1>1, FS_EmptySet DEF QueueTells
<1>3. CASE AdmittedTo(s) = {}
  <2>1. queue[s].tail = NoOperation /\ queue[s].size = 0 /\ queue[s].parallel = {}
    BY <1>1, <1>2, <1>3 DEF QueueTells
  <2> QED BY <1>1, <1>3, <2>1 DEF HasQueue, NoQueue, QueueRecord
<1>4. CASE AdmittedTo(s) # {}
  <2>1. queue[s].size # 0
    BY <1>1, <1>2, <1>4 DEF QueueTells
  <2> QED BY <1>4, <2>1 DEF HasQueue, NoQueue
<1> QED BY <1>3, <1>4

LEMMA ReservesKeeps == ASSUME QueueInv, Reserves PROVE QueueInv'
<1>1. UNCHANGED <<op, queue>>
  BY DEF Reserves
<1>2. GateTypeOK'
  BY <1>1 DEF QueueInv, GateTypeOK, Reserves
<1>3. \A o \in Operation : (InOrder(o) /\ Awaits(o) /\ Runs(o))'
  BY <1>1 DEF QueueInv, InOrder, Awaits, Runs, HasTurn
<1>4. ASSUME NEW s \in Session PROVE QueueTells(s)'
  <2>1. QueueTells(s) /\ AdmittedTo(s)' = AdmittedTo(s)
    BY <1>1 DEF QueueInv, AdmittedTo
  <2>2. lease'[s] # NoCleaner => AdmittedTo(s) = {}
    BY <2>1, QueueMeansAdmitted DEF QueueTells, Reserves, QueueInv, GateTypeOK
  <2> QED BY <1>1, <2>1, <2>2 DEF QueueTells
<1> QED BY <1>2, <1>3, <1>4 DEF QueueInv

----------------------------------------------------------------------------
(* Operations outside the queue *)

\* An operation that is neither admitted before nor after a step is of no
\* concern to the others.
LEMMA OutsideKeeps ==
    ASSUME QueueInv, NEW o \in Operation, NEW record \in OperationRecord,
           op[o].pc \notin Admitted, record.pc \notin Admitted,
           record.waits = {}, record.before = {},
           record.pc = "idle" => record = NotAdmitted,
           record.pc # "idle" => record.session \in Session,
           op' = [op EXCEPT ![o] = record],
           UNCHANGED <<queue, lease>>
    PROVE  QueueInv'
<1>1. op \in [Operation -> OperationRecord]
  BY DEF QueueInv, GateTypeOK
<1>2. op'[o] = record /\ \A p \in Operation \ {o} : op'[p] = op[p]
  BY <1>1
<1>3. GateTypeOK'
  BY <1>1 DEF QueueInv, GateTypeOK
<1>4. ASSUME NEW p \in Operation \ {o} PROVE (InOrder(p) /\ Awaits(p) /\ Runs(p))'
  <2>1. InOrder(p) /\ Awaits(p) /\ Runs(p) /\ op'[p] = op[p]
    BY <1>2 DEF QueueInv
  <2>2. op[p].before \subseteq Operation /\ o \notin op[p].before
    BY <1>1, <2>1 DEF InOrder, OperationRecord
  <2>3. \A q \in op[p].before : op'[q] = op[q]
    BY <1>2, <2>2
  <2>4. InOrder(p)'
    BY <2>1, <2>3 DEF InOrder
  <2>5. Awaits(p)'
    BY <2>1, <2>3 DEF Awaits, InOrder
  <2>6. Runs(p)'
    BY <2>1, <2>3 DEF Runs, HasTurn
  <2> QED BY <2>4, <2>5, <2>6
<1>5. (InOrder(o) /\ Awaits(o) /\ Runs(o))'
  BY <1>2 DEF InOrder, Awaits, Runs, Admitted
<1>6. ASSUME NEW s \in Session PROVE QueueTells(s)'
  <2>1. QueueTells(s)
    BY DEF QueueInv
  <2>2. AdmittedTo(s)' = AdmittedTo(s)
    BY <1>2 DEF AdmittedTo
  <2>3. o \notin AdmittedTo(s) /\ AdmittedTo(s) \subseteq Operation
    BY DEF AdmittedTo
  <2>4. \A p \in AdmittedTo(s) : op'[p] = op[p]
    BY <1>2, <2>3
  <2> QED BY <2>1, <2>2, <2>4 DEF QueueTells
<1> QED BY <1>3, <1>4, <1>5, <1>6 DEF QueueInv

LEMMA AuthenticatesKeeps == ASSUME QueueInv, NEW o \in Operation, Authenticates(o) PROVE QueueInv'
<1>1. op[o] \in OperationRecord /\ op[o].pc = "idle" /\ op[o].waits = {} /\ op[o].before = {}
  BY DEF QueueInv, GateTypeOK, Authenticates, InOrder, Admitted
<1>2. PICK s \in Session : op' = [op EXCEPT ![o] = [op[o] EXCEPT !.pc = "authenticated", !.session = s]]
  BY DEF Authenticates
<1> DEFINE record == [op[o] EXCEPT !.pc = "authenticated", !.session = s]
<1>3. /\ record \in OperationRecord
      /\ record.pc = "authenticated" /\ record.session = s
      /\ record.waits = {} /\ record.before = {}
  BY <1>1 DEF OperationRecord, OperationPhase
<1> HIDE DEF record
<1>4. op' = [op EXCEPT ![o] = record]
  BY <1>2 DEF record
<1>5. op[o].pc \notin Admitted /\ record.pc \notin Admitted /\ UNCHANGED <<queue, lease>>
  BY <1>1, <1>3 DEF Authenticates, Admitted
<1> QED BY <1>3, <1>4, <1>5, OutsideKeeps

LEMMA RefusesKeeps == ASSUME QueueInv, NEW o \in Operation, Refuses(o) PROVE QueueInv'
<1>1. /\ NotAdmitted \in OperationRecord
      /\ NotAdmitted.pc = "idle" /\ NotAdmitted.waits = {} /\ NotAdmitted.before = {}
  BY DEF NotAdmitted, OperationRecord, OperationPhase
<1>2. op[o].pc \notin Admitted /\ "idle" \notin Admitted
  BY DEF Refuses, Admitted
<1> QED BY <1>1, <1>2, OutsideKeeps DEF Refuses

\* Who awaits nothing any more has its turn.
LEMMA ResumableHasTurn ==
    ASSUME QueueInv, NEW o \in Operation, Resumable(o)
    PROVE  HasTurn(o)
<1>1. InOrder(o) /\ Awaits(o) /\ Runs(o)
  BY DEF QueueInv
<1> QED BY <1>1 DEF InOrder, Awaits, Runs, Resumable, HasTurn, Admitted

LEMMA MovesKeeps == ASSUME QueueInv, NEW o \in Operation, Moves(o) PROVE QueueInv'
<1>1. op \in [Operation -> OperationRecord] /\ op[o] \in OperationRecord
  BY DEF QueueInv, GateTypeOK
<1>2. PICK pc \in {"running", "install"} : op' = [op EXCEPT ![o].pc = pc]
  BY DEF Moves
<1>3. op[o].pc \in Admitted /\ HasTurn(o)
  BY ResumableHasTurn DEF Moves, Resumable
<1> DEFINE record == [op[o] EXCEPT !.pc = pc]
<1>4. /\ record \in OperationRecord
      /\ record.pc = pc /\ record.session = op[o].session /\ record.exclusive = op[o].exclusive
      /\ record.waits = op[o].waits /\ record.before = op[o].before
  BY <1>1 DEF OperationRecord, OperationPhase
<1>5. op' = [op EXCEPT ![o] = record]
  BY <1>2
<1> HIDE DEF record
<1>6. op'[o] = record /\ \A p \in Operation \ {o} : op'[p] = op[p]
  BY <1>1, <1>5
<1>7. \A p \in Operation :
         /\ op'[p].session = op[p].session /\ op'[p].exclusive = op[p].exclusive
         /\ op'[p].waits = op[p].waits /\ op'[p].before = op[p].before
         /\ op'[p].pc \in Admitted <=> op[p].pc \in Admitted
         /\ p # o => op'[p].pc = op[p].pc
  BY <1>3, <1>4, <1>6 DEF Admitted
<1>8. GateTypeOK' /\ UNCHANGED <<queue, lease>>
  BY <1>1, <1>4, <1>5 DEF QueueInv, GateTypeOK, Moves
<1>9. ASSUME NEW p \in Operation PROVE (InOrder(p) /\ Awaits(p) /\ Runs(p))'
  <2>1. InOrder(p) /\ Awaits(p) /\ Runs(p) /\ op[p].before \subseteq Operation
    BY <1>1 DEF QueueInv, OperationRecord
  <2>2. InOrder(p)'
    <3>1. op'[p].pc # "idle" \/ op'[p] = op[p]
      BY <1>4, <1>6
    <3> QED BY <1>3, <1>7, <2>1, <3>1 DEF InOrder, Admitted
  <2>3. Awaits(p)'
    <3>1. CASE p = o BY <1>4, <1>6, <3>1 DEF Awaits
    <3>2. CASE p # o BY <1>7, <2>1, <3>2 DEF Awaits, InOrder
    <3> QED BY <3>1, <3>2
  <2>4. Runs(p)'
    BY <1>3, <1>7, <2>1 DEF Runs, HasTurn
  <2> QED BY <2>2, <2>3, <2>4
<1>10. ASSUME NEW s \in Session PROVE QueueTells(s)'
  <2>1. QueueTells(s)
    BY DEF QueueInv
  <2>2. AdmittedTo(s)' = AdmittedTo(s) /\ AdmittedTo(s) \subseteq Operation
    BY <1>7 DEF AdmittedTo
  <2> QED BY <1>7, <1>8, <2>1, <2>2 DEF QueueTells
<1> QED BY <1>8, <1>9, <1>10 DEF QueueInv

----------------------------------------------------------------------------
(* Admission *)

\* The operation enters behind all that are admitted, and awaits enough of them.
LEMMA EnterKeeps ==
    ASSUME QueueInv, NEW o \in Operation, NEW s \in Session,
           op[o].pc = "authenticated", op[o].session = s,
           lease[s] = NoCleaner,
           NEW record \in OperationRecord,
           record.pc = "waiting", record.session = s,
           record.waits = ({queue[s].tail} \cup (IF record.exclusive THEN queue[s].parallel ELSE {}))
                          \ {NoOperation},
           record.before = AdmittedTo(s),
           op' = [op EXCEPT ![o] = record],
           NEW line \in QueueRecord,
           line.size = queue[s].size + 1,
           line.tail = IF record.exclusive THEN o ELSE queue[s].tail,
           line.parallel = IF record.exclusive THEN queue[s].parallel ELSE queue[s].parallel \cup {o},
           queue' = [queue EXCEPT ![s] = line],
           UNCHANGED lease
    PROVE  QueueInv'
<1>1. /\ op \in [Operation -> OperationRecord] /\ queue \in [Session -> QueueRecord]
      /\ lease \in [Session -> Cleaner \cup {NoCleaner}]
  BY DEF QueueInv, GateTypeOK
<1>2. op'[o] = record /\ \A p \in Operation \ {o} : op'[p] = op[p]
  BY <1>1
<1>3. queue'[s] = line /\ \A t \in Session \ {s} : queue'[t] = queue[t]
  BY <1>1
<1>4. GateTypeOK'
  BY <1>1 DEF GateTypeOK
<1>5. /\ o \notin AdmittedTo(s) /\ AdmittedTo(s) \subseteq Operation
      /\ op[o].pc \notin Admitted
      /\ \A p \in AdmittedTo(s) : p # o /\ op[p].pc \in Admitted /\ op[p].session = s
  BY DEF AdmittedTo, Admitted
<1>6. QueueTells(s)
  BY DEF QueueInv
<1>7. ASSUME NEW p \in Operation \ {o} PROVE (InOrder(p) /\ Awaits(p) /\ Runs(p))'
  <2>1. InOrder(p) /\ Awaits(p) /\ Runs(p) /\ op'[p] = op[p]
    BY <1>2 DEF QueueInv
  <2>2. op[p].before \subseteq Operation /\ o \notin op[p].before /\ op[p].waits \subseteq op[p].before
    BY <1>1, <1>5, <2>1 DEF InOrder, OperationRecord
  <2>3. \A q \in op[p].before : op'[q] = op[q]
    BY <1>2, <2>2
  <2>4. InOrder(p)'
    BY <2>1, <2>3 DEF InOrder
  <2>5. Awaits(p)'
    BY <2>1, <2>2, <2>3 DEF Awaits
  <2>6. Runs(p)'
    BY <2>1, <2>3 DEF Runs, HasTurn
  <2> QED BY <2>4, <2>5, <2>6
<1>8. InOrder(o)'
  <2>1. record.waits \subseteq record.before
    BY <1>6 DEF QueueTells
  <2>2. ASSUME NEW p \in record.before
        PROVE  p # o /\ op'[p] = op[p] /\ op[p].pc \in Admitted /\ op[p].session = s
               /\ op[p].before \subseteq record.before
    <3>1. InOrder(p) /\ p \in Operation
      BY <1>5 DEF QueueInv
    <3>2. op[p].before \subseteq AdmittedTo(s)
      BY <1>1, <1>5, <3>1 DEF InOrder, AdmittedTo, OperationRecord
    <3> QED BY <1>2, <1>5, <3>2
  <2>3. record.pc # "idle" /\ record.pc \in Admitted
    BY DEF Admitted
  <2> QED BY <1>2, <2>1, <2>2, <2>3 DEF InOrder
<1>9. Awaits(o)'
  <2>1. \A p \in record.before : op'[p] = op[p] /\ p \in AdmittedTo(s)
    BY <1>2, <1>5
  <2>2. record.exclusive => \A p \in record.before : ~ op[p].exclusive => p \in record.waits
    BY <1>5, <1>6, GateAssumption DEF QueueTells
  <2>3. (\E p \in record.before : op[p].exclusive) =>
           /\ queue[s].tail \in record.waits
           /\ op[queue[s].tail].exclusive
           /\ \A p \in record.before \ {queue[s].tail} : op[p].exclusive => p \in op[queue[s].tail].before
    BY <1>6 DEF QueueTells
  <2>4. record.waits \subseteq record.before
    BY <1>6 DEF QueueTells
  <2> QED BY <1>2, <2>1, <2>2, <2>3, <2>4 DEF Awaits
<1>10. Runs(o)'
  BY <1>2 DEF Runs
<1>11. ASSUME NEW t \in Session \ {s} PROVE QueueTells(t)'
  <2>1. QueueTells(t) /\ queue'[t] = queue[t]
    BY <1>3 DEF QueueInv
  <2>2. AdmittedTo(t)' = AdmittedTo(t) /\ AdmittedTo(t) \subseteq Operation \ {o}
    BY <1>2, <1>5 DEF AdmittedTo
  <2>3. \A p \in AdmittedTo(t) : op'[p] = op[p]
    BY <1>2, <2>2
  <2> QED BY <2>1, <2>2, <2>3 DEF QueueTells
<1>12. QueueTells(s)'
  <2>1. AdmittedTo(s)' = AdmittedTo(s) \cup {o}
    BY <1>2, <1>5 DEF AdmittedTo, Admitted
  <2>2. IsFiniteSet(AdmittedTo(s)') /\ Cardinality(AdmittedTo(s)') = Cardinality(AdmittedTo(s)) + 1
    BY <1>5, <1>6, <2>1, FS_AddElement DEF QueueTells
  <2>3. \A p \in AdmittedTo(s) : op'[p] = op[p]
    BY <1>2, <1>5
  <2>4. line.parallel = {p \in AdmittedTo(s)' : ~ op'[p].exclusive}
    BY <1>2, <1>6, <2>1, <2>3 DEF QueueTells
  <2>5. line.tail = NoOperation => \A p \in AdmittedTo(s)' : ~ op'[p].exclusive
    BY <1>2, <1>6, <2>1, <2>3, GateAssumption DEF QueueTells
  <2>6. line.tail # NoOperation =>
          /\ line.tail \in AdmittedTo(s)'
          /\ op'[line.tail].exclusive
          /\ \A p \in AdmittedTo(s)' \ {line.tail} : op'[p].exclusive => p \in op'[line.tail].before
    BY <1>2, <1>6, <2>1, <2>3 DEF QueueTells
  <2> QED BY <1>3, <1>6, <2>2, <2>4, <2>5, <2>6 DEF QueueTells
<1> QED BY <1>4, <1>7, <1>8, <1>9, <1>10, <1>11, <1>12 DEF QueueInv

\* What AdmissionOpen allows fits into the queue.
LEMMA RoomInQueue ==
    ASSUME QueueInv, NEW s \in Session, AdmissionOpen(s)
    PROVE  lease[s] = NoCleaner /\ queue[s].size + 1 \in 0 .. MaxOperations
<1>1. queue[s] \in QueueRecord
  BY DEF QueueInv, GateTypeOK
<1>2. queue[s].size \in Nat
  BY <1>1 DEF QueueRecord
<1>3. ~ HasQueue(s) => queue[s].size = 0
  BY DEF HasQueue, NoQueue
<1> QED BY <1>2, <1>3, GateAssumption DEF AdmissionOpen

LEMMA AdmitsKeeps == ASSUME QueueInv, NEW o \in Operation, Admits(o) PROVE QueueInv'
<1> DEFINE s == op[o].session
           q == queue[s]
<1>1. /\ op \in [Operation -> OperationRecord] /\ op[o] \in OperationRecord
      /\ queue \in [Session -> QueueRecord]
      /\ op[o].pc = "authenticated" /\ s \in Session /\ q \in QueueRecord
  BY DEF QueueInv, GateTypeOK, InOrder, Admits, AdmitExclusive, AdmitParallel
<1>2. lease[s] = NoCleaner /\ q.size + 1 \in 0 .. MaxOperations
  BY <1>1, RoomInQueue DEF Admits, AdmitExclusive, AdmitParallel, ParallelOpen
<1>3. AdmittedTo(s) \subseteq Operation /\ q.tail \in Operation \cup {NoOperation}
      /\ q.parallel \subseteq Operation
  BY <1>1 DEF AdmittedTo, QueueRecord
<1>4. CASE AdmitExclusive(o)
  <2> DEFINE w == ({q.tail} \cup q.parallel) \ {NoOperation}
             record == [op[o] EXCEPT !.pc = "waiting", !.exclusive = TRUE, !.waits = w,
                                     !.before = AdmittedTo(s)]
             line == [q EXCEPT !.tail = o, !.size = q.size + 1]
  <2>1. w \subseteq Operation
    BY <1>3
  <2> HIDE DEF w
  <2>2. /\ record \in OperationRecord
        /\ record.pc = "waiting" /\ record.session = s /\ record.exclusive
        /\ record.waits = w /\ record.before = AdmittedTo(s)
    BY <1>1, <1>3, <2>1 DEF OperationRecord, OperationPhase
  <2>3. /\ line \in QueueRecord
        /\ line.tail = o /\ line.size = q.size + 1 /\ line.parallel = q.parallel
    BY <1>1, <1>2 DEF QueueRecord
  <2>4. op' = [op EXCEPT ![o] = record] /\ queue' = [queue EXCEPT ![s] = line] /\ UNCHANGED lease
    BY <1>4 DEF AdmitExclusive, Enqueue, w
  <2> HIDE DEF record, line, s
  <2> QED BY <1>1, <1>2, <2>2, <2>3, <2>4, EnterKeeps DEF s, w
<1>5. CASE AdmitParallel(o)
  <2> DEFINE w == {q.tail} \ {NoOperation}
             record == [op[o] EXCEPT !.pc = "waiting", !.exclusive = FALSE, !.waits = w,
                                     !.before = AdmittedTo(s)]
             line == [q EXCEPT !.parallel = q.parallel \cup {o}, !.size = q.size + 1]
  <2>1. w \subseteq Operation
    BY <1>3
  <2> HIDE DEF w
  <2>2. /\ record \in OperationRecord
        /\ record.pc = "waiting" /\ record.session = s /\ ~ record.exclusive
        /\ record.waits = w /\ record.before = AdmittedTo(s)
    BY <1>1, <1>3, <2>1 DEF OperationRecord, OperationPhase
  <2>3. /\ line \in QueueRecord
        /\ line.tail = q.tail /\ line.size = q.size + 1 /\ line.parallel = q.parallel \cup {o}
    BY <1>1, <1>2, <1>3 DEF QueueRecord
  <2>4. op' = [op EXCEPT ![o] = record] /\ queue' = [queue EXCEPT ![s] = line] /\ UNCHANGED lease
    BY <1>5 DEF AdmitParallel, Enqueue, w
  <2>5. w = ({q.tail} \cup {}) \ {NoOperation}
    BY DEF w
  <2> HIDE DEF record, line, s
  <2> QED BY <1>1, <1>2, <2>2, <2>3, <2>4, <2>5, EnterKeeps DEF s
<1> QED BY <1>4, <1>5 DEF Admits

----------------------------------------------------------------------------
(* An operation leaves *)

\* Nobody else remembers an operation that has left, and nothing else changes.
LEMMA LeaveEffect ==
    ASSUME QueueInv, NEW o \in Operation, Leaves(o)
    PROVE  /\ op[o].session \in Session /\ o \in AdmittedTo(op[o].session) /\ HasTurn(o)
           /\ op'[o] = NotAdmitted
           /\ op' \in [Operation -> OperationRecord]
           /\ \A p \in Operation \ {o} :
                 /\ op'[p].pc = op[p].pc /\ op'[p].session = op[p].session
                 /\ op'[p].exclusive = op[p].exclusive
                 /\ op'[p].waits = op[p].waits \ {o}
                 /\ op'[p].before = op[p].before \ {o}
           /\ \A p \in Operation \ {o} : op[p].pc = "idle" => op'[p] = op[p]
<1>1. op \in [Operation -> OperationRecord] /\ InOrder(o)
  BY DEF QueueInv, GateTypeOK
<1>2. op[o].session \in Session /\ o \in AdmittedTo(op[o].session) /\ HasTurn(o)
  BY <1>1, ResumableHasTurn DEF Leaves, Resumable, InOrder, AdmittedTo, Admitted
<1> DEFINE After(p) == [op[p] EXCEPT !.waits = op[p].waits \ {o}, !.before = op[p].before \ {o}]
<1>3. op' = [p \in Operation |-> IF p = o THEN NotAdmitted ELSE After(p)]
  BY DEF Leaves, Leave
<1>4. NotAdmitted \in OperationRecord
  BY DEF NotAdmitted, OperationRecord, OperationPhase
<1>5. op'[o] = NotAdmitted
  BY <1>3
<1>6. ASSUME NEW p \in Operation \ {o}
      PROVE  /\ op'[p] \in OperationRecord
             /\ op'[p].pc = op[p].pc /\ op'[p].session = op[p].session
             /\ op'[p].exclusive = op[p].exclusive
             /\ op'[p].waits = op[p].waits \ {o}
             /\ op'[p].before = op[p].before \ {o}
  <2>1. op'[p] = After(p)
    <3> HIDE DEF After
    <3> QED BY <1>3
  <2>2. op[p] \in OperationRecord
    BY <1>1
  <2>3. /\ After(p) \in OperationRecord
        /\ After(p).pc = op[p].pc /\ After(p).session = op[p].session
        /\ After(p).exclusive = op[p].exclusive
        /\ After(p).waits = op[p].waits \ {o} /\ After(p).before = op[p].before \ {o}
    BY <2>2 DEF OperationRecord
  <2> HIDE DEF After
  <2> QED BY <2>1, <2>3
<1>7. ASSUME NEW p \in Operation \ {o}, op[p].pc = "idle" PROVE op'[p] = op[p]
  <2>1. op[p] = NotAdmitted /\ op[p] \in OperationRecord
    BY <1>1, <1>7 DEF QueueInv, InOrder
  <2>2. op[p].waits \ {o} = op[p].waits /\ op[p].before \ {o} = op[p].before
    BY <2>1 DEF NotAdmitted
  <2>3. op'[p] = After(p)
    <3> HIDE DEF After
    <3> QED BY <1>3
  <2> QED BY <2>1, <2>2, <2>3 DEF OperationRecord
<1>8. op' \in [Operation -> OperationRecord]
  <2> HIDE DEF After
  <2> QED BY <1>3, <1>4, <1>5, <1>6
<1> QED BY <1>2, <1>5, <1>6, <1>7, <1>8

\* The order of the others is kept.
LEMMA LeaveInOrder ==
    ASSUME QueueInv, NEW o \in Operation, Leaves(o), NEW p \in Operation \ {o}
    PROVE  (InOrder(p) /\ Awaits(p) /\ Runs(p))'
<1>1. InOrder(p) /\ Awaits(p) /\ Runs(p) /\ op[p].before \subseteq Operation
  BY DEF QueueInv, GateTypeOK, OperationRecord
<1>2. HasTurn(o)
  BY LeaveEffect
<1>3. /\ op'[p].pc = op[p].pc /\ op'[p].session = op[p].session
      /\ op'[p].exclusive = op[p].exclusive
      /\ op'[p].waits = op[p].waits \ {o}
      /\ op'[p].before = op[p].before \ {o}
      /\ op[p].pc = "idle" => op'[p] = op[p]
  BY LeaveEffect
<1>4. \A q \in op[p].before \ {o} :
         /\ op'[q].pc = op[q].pc /\ op'[q].session = op[q].session
         /\ op'[q].exclusive = op[q].exclusive
         /\ op'[q].before = op[q].before \ {o}
  BY <1>1, LeaveEffect
<1>5. InOrder(p)'
  BY <1>1, <1>3, <1>4 DEF InOrder
<1>6. Awaits(p)'
  <2> SUFFICES ASSUME op[p].pc = "waiting" PROVE Awaits(p)'
    BY <1>3 DEF Awaits
  <2>1. op'[p].exclusive =>
           \A q \in op'[p].before : ~ op'[q].exclusive => q \in op'[p].waits
    BY <1>1, <1>3, <1>4 DEF Awaits
  <2>2. ASSUME NEW q \in op'[p].before, op'[q].exclusive
        PROVE  \E e \in op'[p].waits :
                  /\ op'[e].exclusive
                  /\ \A r \in op'[p].before \ {e} : op'[r].exclusive => r \in op'[e].before
    <3>1. q \in op[p].before \ {o} /\ op[q].exclusive
      BY <1>3, <1>4, <2>2
    <3>2. PICK e \in op[p].waits :
             op[e].exclusive /\ \A r \in op[p].before \ {e} : op[r].exclusive => r \in op[e].before
      BY <1>1, <3>1 DEF Awaits
    <3>3. e # o
      BY <1>2, <3>1, <3>2 DEF HasTurn
    <3>4. e \in op[p].before \ {o}
      BY <1>1, <3>2, <3>3 DEF InOrder
    <3> QED BY <1>3, <1>4, <3>2, <3>3, <3>4
  <2> QED BY <2>1, <2>2 DEF Awaits
<1>7. Runs(p)'
  BY <1>1, <1>3, <1>4 DEF Runs, HasTurn
<1> QED BY <1>5, <1>6, <1>7

LEMMA LeavesKeeps == ASSUME QueueInv, NEW o \in Operation, Leaves(o) PROVE QueueInv'
<1>0. PICK s \in Session : s = op[o].session
  BY LeaveEffect
<1> DEFINE q == queue[s]
<1>1. /\ queue \in [Session -> QueueRecord] /\ lease \in [Session -> Cleaner \cup {NoCleaner}]
      /\ UNCHANGED lease
  BY DEF QueueInv, GateTypeOK, Leaves, Leave
<1>2. s \in Session /\ o \in AdmittedTo(s) /\ HasTurn(o) /\ op'[o] = NotAdmitted
  BY <1>0, LeaveEffect
<1>3. QueueTells(s) /\ q \in QueueRecord
  BY <1>1, <1>2 DEF QueueInv
<1>4. /\ IsFiniteSet(AdmittedTo(s) \ {o})
      /\ Cardinality(AdmittedTo(s) \ {o}) = q.size - 1
      /\ q.size \in 1 .. MaxOperations
  <2>1. Cardinality(AdmittedTo(s)) # 0
    BY <1>2, <1>3, FS_EmptySet DEF QueueTells
  <2>2. q.size \in 0 .. MaxOperations
    BY <1>3 DEF QueueRecord
  <2> QED BY <1>2, <1>3, <2>1, <2>2, FS_RemoveElement, GateAssumption DEF QueueTells
<1> DEFINE line == [tail |-> IF q.tail = o THEN NoOperation ELSE q.tail,
                    size |-> q.size - 1,
                    parallel |-> q.parallel \ {o}]
<1>5. queue' = [queue EXCEPT ![s] = IF q.size = 1 THEN NoQueue ELSE line]
  BY <1>0 DEF Leaves, Leave
<1>6. AdmittedTo(s) \subseteq Operation /\ \A p \in AdmittedTo(s) : op[p].pc \in Admitted /\ op[p].session = s
  BY DEF AdmittedTo
<1>7. \A p \in AdmittedTo(s) \ {o} :
         op'[p].exclusive = op[p].exclusive /\ op'[p].before = op[p].before \ {o}
  BY <1>6, LeaveEffect
<1>8. AdmittedTo(s)' = AdmittedTo(s) \ {o}
  <2>1. NotAdmitted.pc \notin Admitted
    BY DEF NotAdmitted, Admitted
  <2> QED BY <1>2, <2>1, LeaveEffect DEF AdmittedTo
<1>9. line \in QueueRecord
  <2>1. q.tail \in Operation \cup {NoOperation} /\ q.parallel \subseteq Operation
    BY <1>3 DEF QueueRecord
  <2> QED BY <1>4, <2>1, GateAssumption DEF QueueRecord
<1>10. \A p \in AdmittedTo(s) \ {o} :
          q.tail # NoOperation /\ q.tail # o /\ p # q.tail /\ op[p].exclusive => p \in op[q.tail].before
  BY <1>3 DEF QueueTells
<1>11. q.tail = o => \A p \in AdmittedTo(s) \ {o} : ~ op[p].exclusive
  <2> SUFFICES ASSUME q.tail = o, NEW p \in AdmittedTo(s) \ {o}, op[p].exclusive PROVE FALSE
    OBVIOUS
  <2>1. o # NoOperation
    BY GateAssumption
  <2>2. op[o].exclusive /\ p \in op[o].before
    BY <1>3, <2>1 DEF QueueTells
  <2> QED BY <1>2, <2>2 DEF HasTurn
<1>12. QueueTells(s)'
  <2>1. CASE q.size = 1
    <3>1. AdmittedTo(s)' = {}
      BY <1>4, <1>8, <2>1, FS_EmptySet
    <3>2. queue'[s] = NoQueue
      BY <1>1, <1>2, <1>5, <2>1
    <3>3. NoQueue.size = 0 /\ NoQueue.parallel = {} /\ NoQueue.tail = NoOperation
      BY DEF NoQueue
    <3> QED BY <3>1, <3>2, <3>3, FS_EmptySet DEF QueueTells
  <2>2. CASE q.size # 1
    <3>1. queue'[s] = line
      BY <1>1, <1>2, <1>5, <2>2
    <3>2. line.parallel = {p \in AdmittedTo(s)' : ~ op'[p].exclusive}
      BY <1>3, <1>7, <1>8 DEF QueueTells
    <3>3. line.tail = NoOperation => \A p \in AdmittedTo(s)' : ~ op'[p].exclusive
      BY <1>3, <1>7, <1>8, <1>11 DEF QueueTells
    <3>4. line.tail # NoOperation =>
            /\ line.tail \in AdmittedTo(s)'
            /\ op'[line.tail].exclusive
            /\ \A p \in AdmittedTo(s)' \ {line.tail} : op'[p].exclusive => p \in op'[line.tail].before
      BY <1>3, <1>7, <1>8, <1>10 DEF QueueTells
    <3>5. lease'[s] = NoCleaner
      BY <1>1, <1>2, <1>3 DEF QueueTells
    <3>6. line.size = q.size - 1
      OBVIOUS
    <3> HIDE DEF line, q
    <3> QED BY <1>4, <1>8, <3>1, <3>2, <3>3, <3>4, <3>5, <3>6 DEF QueueTells
  <2> QED BY <2>1, <2>2
<1>13. ASSUME NEW t \in Session \ {s} PROVE QueueTells(t)'
  <2>1. QueueTells(t) /\ queue'[t] = queue[t] /\ lease'[t] = lease[t]
    BY <1>1, <1>5 DEF QueueInv
  <2>2. AdmittedTo(t) \subseteq Operation \ {o} /\ AdmittedTo(t)' = AdmittedTo(t)
    <3>1. NotAdmitted.pc \notin Admitted
      BY DEF NotAdmitted, Admitted
    <3> QED BY <1>2, <3>1, LeaveEffect DEF AdmittedTo
  <2>3. \A p \in AdmittedTo(t) : op'[p].exclusive = op[p].exclusive /\ op'[p].before = op[p].before \ {o}
    BY <2>2, LeaveEffect
  <2> QED BY <2>1, <2>2, <2>3 DEF QueueTells
<1>14. GateTypeOK'
  <2>1. op' \in [Operation -> OperationRecord]
    BY LeaveEffect
  <2>2. NoQueue \in QueueRecord
    BY GateAssumption DEF NoQueue, QueueRecord
  <2> HIDE DEF line
  <2> QED BY <1>1, <1>5, <1>9, <2>1, <2>2 DEF GateTypeOK
<1>15. (InOrder(o) /\ Awaits(o) /\ Runs(o))'
  <2>1. NotAdmitted.pc = "idle" /\ NotAdmitted.waits = {} /\ NotAdmitted.before = {}
    BY DEF NotAdmitted
  <2> QED BY <1>2, <2>1 DEF InOrder, Awaits, Runs, Admitted
<1>16. \A p \in Operation \ {o} : (InOrder(p) /\ Awaits(p) /\ Runs(p))'
  BY LeaveInOrder
<1> QED BY <1>12, <1>13, <1>14, <1>15, <1>16 DEF QueueInv

LEMMA QueueNext == QueueInv /\ ResetTypeOK /\ [Next]_vars => QueueInv'
<1> SUFFICES ASSUME QueueInv, ResetTypeOK, [Next]_vars PROVE QueueInv' OBVIOUS
<1>1. GateTypeOK
  BY DEF QueueInv
<1> QED
  BY <1>1, CoordinatorSteps, ReservesKeeps, StopsKeeps, AuthenticatesKeeps, RefusesKeeps, AdmitsKeeps,
     MovesKeeps, LeavesKeeps

----------------------------------------------------------------------------
(* Types of the resets and the sessions *)

LEMMA CleanersTyped ==
    /\ NothingToDo \in [Session -> Cleaner \cup {NoCleaner}]
    /\ IdleCleaner \in CleanerRecord
BY DEF NothingToDo, IdleCleaner, CleanerRecord, CleanerPhase

LEMMA ResumedTyped ==
    ASSUME ResetTypeOK, NEW k \in Cleaner
    PROVE  Resumed(k) \in CleanerRecord
<1>1. cleaner[k] \in CleanerRecord
  BY DEF ResetTypeOK
<1>2. cleaner[k].then \in CleanerPhase
  BY <1>1 DEF CleanerRecord, CleanerPhase
<1> QED BY <1>1, <1>2 DEF Resumed, CleanerRecord

LEMMA FinishTyped ==
    ASSUME ResetTypeOK, NEW k \in Cleaner, NEW committed, Finish(k, committed),
           txn' \in [Session -> TransactionState]
    PROVE  ResetTypeOK'
<1>1. /\ cleaner \in [Cleaner -> CleanerRecord] /\ cleaner[k] \in CleanerRecord
      /\ pending \in [Session -> Cleaner \cup {NoCleaner}]
      /\ resolver \in [Session -> Cleaner \cup {NoCleaner}]
  BY DEF ResetTypeOK
<1>2. pending' \in [Session -> Cleaner \cup {NoCleaner}] /\ resolver' \in [Session -> Cleaner \cup {NoCleaner}]
  BY <1>1 DEF Finish
<1> DEFINE record == [cleaner[k] EXCEPT !.pc = "invalid"]
<1>3. record \in CleanerRecord
  BY <1>1 DEF CleanerRecord, CleanerPhase
<1>4. \/ cleaner' = [cleaner EXCEPT ![k] = Resumed(k)]
      \/ cleaner' = [cleaner EXCEPT ![k] = record]
  BY DEF Finish
<1> HIDE DEF record
<1>5. cleaner' \in [Cleaner -> CleanerRecord]
  BY <1>1, <1>3, <1>4, ResumedTyped
<1> QED BY <1>2, <1>5 DEF ResetTypeOK

\* One cleaner's record changes, and of pending and resolver at most one entry.
LEMMA OneCleanerTyped ==
    ASSUME ResetTypeOK, NEW k \in Cleaner, NEW record \in CleanerRecord,
           cleaner' = [cleaner EXCEPT ![k] = record],
           pending' = pending \/ \E s : pending' = [pending EXCEPT ![s] = k],
           resolver' = resolver \/ \E s : \E m \in {k, NoCleaner} : resolver' = [resolver EXCEPT ![s] = m],
           txn' \in [Session -> TransactionState]
    PROVE  ResetTypeOK'
BY DEF ResetTypeOK

LEMMA ResetStepTyped ==
    ASSUME ResetTypeOK, NEW k \in Cleaner, ResetStep(k)
    PROVE  ResetTypeOK'
<1>1. /\ ResetTypeOK /\ cleaner[k] \in CleanerRecord
      /\ txn \in [Session -> TransactionState]
  BY DEF ResetTypeOK
<1>2. ASSUME NEW state \in TransactionState, txn' = txn \/ \E s : txn' = [txn EXCEPT ![s] = state]
      PROVE  txn' \in [Session -> TransactionState]
  BY <1>1, <1>2
<1>3. {"open", "committing", "aborted"} \subseteq TransactionState
  BY DEF TransactionState
<1>4. ASSUME NEW pc \in CleanerPhase
      PROVE  [cleaner[k] EXCEPT !.pc = pc] \in CleanerRecord
  BY <1>1 DEF CleanerRecord
<1>5. {"lock", "locked", "commit", "read", "known"} \subseteq CleanerPhase
  BY DEF CleanerPhase
<1>6. CASE ReserveReset(k)
  <2> DEFINE record == [cleaner[k] EXCEPT !.pc = "lock", !.holds = k]
  <2>1. record \in CleanerRecord
    BY <1>1 DEF CleanerRecord, CleanerPhase
  <2>2. cleaner' = [cleaner EXCEPT ![k] = record] /\ UNCHANGED <<pending, resolver, txn>>
    BY <1>6 DEF ReserveReset
  <2> HIDE DEF record
  <2> QED BY <1>1, <2>1, <2>2, OneCleanerTyped
<1>7. CASE RefuseReset(k)
  BY <1>1, <1>7, CleanersTyped, OneCleanerTyped DEF RefuseReset
<1>8. CASE CleanLock(k)
  <2>1. txn' \in [Session -> TransactionState]
    BY <1>2, <1>3, <1>8 DEF CleanLock
  <2> DEFINE record == [cleaner[k] EXCEPT !.pc = "locked"]
  <2>2. record \in CleanerRecord BY <1>4, <1>5
  <2>3. cleaner' = [cleaner EXCEPT ![k] = record] /\ UNCHANGED <<pending, resolver>>
    BY <1>8 DEF CleanLock
  <2> HIDE DEF record
  <2> QED BY <1>1, <2>1, <2>2, <2>3, OneCleanerTyped
<1>9. CASE CleanCommit(k)
  <2>1. txn' \in [Session -> TransactionState]
    BY <1>2, <1>3, <1>9 DEF CleanCommit
  <2> DEFINE record == [cleaner[k] EXCEPT !.pc = "commit"]
  <2>2. record \in CleanerRecord BY <1>4, <1>5
  <2>3. cleaner' = [cleaner EXCEPT ![k] = record] /\ UNCHANGED <<pending, resolver>>
    BY <1>9 DEF CleanCommit
  <2> HIDE DEF record
  <2> QED BY <1>1, <2>1, <2>2, <2>3, OneCleanerTyped
<1>10. CASE CleanRolledBack(k)
  <2>1. txn' \in [Session -> TransactionState]
    BY <1>1, <1>2, <1>3, <1>10 DEF CleanRolledBack
  <2> QED BY <1>1, <1>10, <2>1, FinishTyped DEF CleanRolledBack
<1>11. CASE CleanCommitted(k) \/ FinishOutcome(k)
  BY <1>1, <1>11, FinishTyped DEF CleanCommitted, FinishOutcome
<1>12. CASE CleanUnknown(k)
  <2> DEFINE record == [cleaner[k] EXCEPT !.pc = "read"]
  <2>1. record \in CleanerRecord BY <1>4, <1>5
  <2>2. cleaner' = [cleaner EXCEPT ![k] = record] /\ UNCHANGED txn
    BY <1>12 DEF CleanUnknown
  <2>3. \E s : pending' = [pending EXCEPT ![s] = k]
    BY <1>12 DEF CleanUnknown
  <2>4. \E s : \E m \in {k, NoCleaner} : resolver' = [resolver EXCEPT ![s] = m]
    BY <1>12 DEF CleanUnknown
  <2> HIDE DEF record
  <2> QED BY <1>1, <2>1, <2>2, <2>3, <2>4, OneCleanerTyped
<1>13. CASE ReadOutcome(k)
  <2>1. PICK known : known = (session[cleaner[k].session] = "REVOKED" /\ ~ owned[cleaner[k].session])
    OBVIOUS
  <2>2. known \in BOOLEAN
    BY <2>1
  <2> DEFINE record == [cleaner[k] EXCEPT !.pc = "known", !.committed = known]
  <2>3. record \in CleanerRecord
    BY <1>1, <1>5, <2>2 DEF CleanerRecord
  <2>4. cleaner' = [cleaner EXCEPT ![k] = record] /\ UNCHANGED <<pending, resolver, txn>>
    BY <1>13, <2>1 DEF ReadOutcome
  <2> HIDE DEF record
  <2> QED BY <1>1, <2>3, <2>4, OneCleanerTyped
<1>14. CASE OutcomeUnknown(k)
  <2>1. /\ cleaner' = [cleaner EXCEPT ![k] = Resumed(k)] /\ UNCHANGED <<pending, txn>>
        /\ \/ resolver' = resolver
           \/ \E s : \E m \in {k, NoCleaner} : resolver' = [resolver EXCEPT ![s] = m]
    BY <1>14 DEF OutcomeUnknown
  <2> QED BY <1>1, <2>1, ResumedTyped, OneCleanerTyped
<1> QED
  BY <1>6, <1>7, <1>8, <1>9, <1>10, <1>11, <1>12, <1>13, <1>14 DEF ResetStep

\* The entry a resolution concerns is that of a reservation.
LEMMA ResolveTyped ==
    ASSUME ResetTypeOK, NEW k \in Cleaner, NEW s \in Session, NEW entry \in Cleaner \cup {NoCleaner},
           NEW rest \in [Session -> Cleaner \cup {NoCleaner}],
           Resolve(k, s, entry, rest), UNCHANGED <<pending, txn>>
    PROVE  ResetTypeOK'
<1>1. cleaner[k] \in CleanerRecord /\ txn' \in [Session -> TransactionState]
  BY DEF ResetTypeOK
<1> DEFINE waiting == [cleaner[k] EXCEPT !.pc = "await", !.session = s, !.todo = rest]
           reading == [cleaner[k] EXCEPT !.pc = "read", !.session = s, !.holds = entry,
                                         !.then = "recover", !.todo = rest]
<1>2. waiting \in CleanerRecord /\ reading \in CleanerRecord
  BY <1>1 DEF CleanerRecord, CleanerPhase
<1>3. \/ cleaner' = [cleaner EXCEPT ![k] = waiting]
      \/ cleaner' = [cleaner EXCEPT ![k] = reading]
  BY DEF Resolve
<1>4. \/ resolver' = resolver
      \/ \E t : \E m \in {k, NoCleaner} : resolver' = [resolver EXCEPT ![t] = m]
  BY DEF Resolve
<1> HIDE DEF waiting, reading
<1>5. CASE cleaner' = [cleaner EXCEPT ![k] = waiting]
  BY <1>1, <1>2, <1>4, <1>5, OneCleanerTyped
<1>6. CASE cleaner' = [cleaner EXCEPT ![k] = reading]
  BY <1>1, <1>2, <1>4, <1>6, OneCleanerTyped
<1> QED BY <1>3, <1>5, <1>6

LEMMA MaintenanceStepTyped ==
    ASSUME ResetTypeOK, NEW k \in Cleaner, MaintenanceStep(k)
    PROVE  ResetTypeOK'
<1>1. /\ cleaner[k] \in CleanerRecord
      /\ pending \in [Session -> Cleaner \cup {NoCleaner}]
      /\ txn \in [Session -> TransactionState]
  BY DEF ResetTypeOK
<1>2. ASSUME NEW record \in CleanerRecord, cleaner' = [cleaner EXCEPT ![k] = record],
             UNCHANGED <<pending, resolver, txn>>
      PROVE  ResetTypeOK'
  BY <1>1, <1>2, OneCleanerTyped
<1>3. CASE Tick(k)
  <2>1. CASE cleaner' = [cleaner EXCEPT ![k].pc = "recover"] /\ UNCHANGED resolver
    <3> DEFINE record == [cleaner[k] EXCEPT !.pc = "recover"]
    <3>1. record \in CleanerRecord
      BY <1>1 DEF CleanerRecord, CleanerPhase
    <3>2. cleaner' = [cleaner EXCEPT ![k] = record] /\ UNCHANGED <<pending, resolver, txn>>
      BY <1>3, <2>1 DEF Tick
    <3> HIDE DEF record
    <3> QED BY <1>2, <3>1, <3>2
  <2>2. ASSUME NEW s \in Session, Resolve(k, s, pending[s], [pending EXCEPT ![s] = NoCleaner])
        PROVE  ResetTypeOK'
    <3>1. /\ [pending EXCEPT ![s] = NoCleaner] \in [Session -> Cleaner \cup {NoCleaner}]
          /\ pending[s] \in Cleaner \cup {NoCleaner}
      BY <1>1
    <3>2. UNCHANGED <<pending, txn>>
      BY <1>3 DEF Tick
    <3> QED BY <2>2, <3>1, <3>2, ResolveTyped
  <2> QED BY <1>3, <2>1, <2>2 DEF Tick
<1>4. ASSUME NEW s \in Session, Recover(k, s) PROVE ResetTypeOK'
  <2> DEFINE rest == [cleaner[k].todo EXCEPT ![s] = NoCleaner]
  <2>1. /\ rest \in [Session -> Cleaner \cup {NoCleaner}]
        /\ cleaner[k].todo[s] \in Cleaner \cup {NoCleaner}
    BY <1>1 DEF CleanerRecord
  <2>2. Resolve(k, s, cleaner[k].todo[s], rest) /\ UNCHANGED <<pending, txn>>
    BY <1>4 DEF Recover
  <2> HIDE DEF rest
  <2> QED BY <2>1, <2>2, ResolveTyped
<1>5. CASE Awaited(k)
  <2> DEFINE record == [cleaner[k] EXCEPT !.pc = "recover", !.session = NoSession]
  <2>1. record \in CleanerRecord
    BY <1>1 DEF CleanerRecord, CleanerPhase
  <2>2. cleaner' = [cleaner EXCEPT ![k] = record] /\ UNCHANGED <<pending, resolver, txn>>
    BY <1>5 DEF Awaited
  <2> HIDE DEF record
  <2> QED BY <1>2, <2>1, <2>2
<1>6. CASE QueryCandidates(k)
  <2> DEFINE todo == [s \in Session |-> IF Candidate(s) THEN k ELSE NoCleaner]
             record == [cleaner[k] EXCEPT !.pc = "sweep", !.then = "sweep", !.todo = todo]
  <2>1. todo \in [Session -> Cleaner \cup {NoCleaner}]
    OBVIOUS
  <2> HIDE DEF todo
  <2>2. record \in CleanerRecord
    BY <1>1, <2>1 DEF CleanerRecord, CleanerPhase
  <2>3. cleaner' = [cleaner EXCEPT ![k] = record] /\ UNCHANGED <<pending, resolver, txn>>
    BY <1>6 DEF QueryCandidates, todo
  <2> HIDE DEF record
  <2> QED BY <1>2, <2>2, <2>3
<1>7. CASE QueryFails(k) \/ SweepDone(k)
  BY <1>2, <1>7, CleanersTyped DEF QueryFails, SweepDone
<1>8. ASSUME NEW s \in Session, Sweep(k, s) PROVE ResetTypeOK'
  <2> DEFINE todo == [cleaner[k].todo EXCEPT ![s] = NoCleaner]
             taking == [cleaner[k] EXCEPT !.pc = "lock", !.session = s, !.holds = k, !.todo = todo]
             skipping == [cleaner[k] EXCEPT !.todo = todo]
  <2>1. todo \in [Session -> Cleaner \cup {NoCleaner}]
    BY <1>1 DEF CleanerRecord
  <2>2. taking = [cleaner[k] EXCEPT !.pc = "lock", !.session = s, !.holds = k, !.todo[s] = NoCleaner]
        /\ skipping = [cleaner[k] EXCEPT !.todo[s] = NoCleaner]
    OBVIOUS
  <2> HIDE DEF todo
  <2>3. taking \in CleanerRecord /\ skipping \in CleanerRecord
    BY <1>1, <2>1 DEF CleanerRecord, CleanerPhase
  <2> HIDE DEF taking, skipping
  <2>4. \/ cleaner' = [cleaner EXCEPT ![k] = taking]
        \/ cleaner' = [cleaner EXCEPT ![k] = skipping]
    BY <1>8, <2>2 DEF Sweep
  <2>5. UNCHANGED <<pending, resolver, txn>>
    BY <1>8 DEF Sweep
  <2> QED BY <1>2, <2>3, <2>4, <2>5
<1> QED
  BY <1>3, <1>4, <1>5, <1>6, <1>7, <1>8 DEF MaintenanceStep

LEMMA ResetNext == ASSUME ResetTypeOK, [Next]_vars PROVE ResetTypeOK'
<1>0. /\ cleaner \in [Cleaner -> CleanerRecord] /\ txn \in [Session -> TransactionState]
      /\ pending \in [Session -> Cleaner \cup {NoCleaner}]
      /\ resolver \in [Session -> Cleaner \cup {NoCleaner}]
  BY DEF ResetTypeOK
<1>1. ASSUME UNCHANGED resetVars PROVE ResetTypeOK'
  BY <1>1 DEF resetVars, ResetTypeOK
<1>2. CASE UNCHANGED vars \/ StartServer \/ Listen
  BY <1>1, <1>2 DEF vars, StartServer, Listen
<1>3. CASE Restart
  BY <1>0, <1>3, CleanersTyped DEF Restart, ResetTypeOK
<1>4. CASE Arrival
  <2>1. ASSUME NEW s \in Session, NEW k \in Cleaner, AuthenticateReset(k, s) PROVE ResetTypeOK'
    <3> DEFINE record == [cleaner[k] EXCEPT !.pc = "authenticated", !.session = s]
    <3>1. record \in CleanerRecord
      BY <1>0 DEF CleanerRecord, CleanerPhase
    <3>2. cleaner' = [cleaner EXCEPT ![k] = record] /\ UNCHANGED <<pending, resolver, txn>>
      BY <2>1 DEF AuthenticateReset
    <3> HIDE DEF record
    <3> QED BY <1>0, <3>1, <3>2, OneCleanerTyped
  <2> QED BY <1>1, <1>4, <2>1 DEF Arrival
<1>5. ASSUME NEW s \in Session, DatabaseCommits(s) \/ DatabaseAborts(s) PROVE ResetTypeOK'
  BY <1>0, <1>5 DEF DatabaseCommits, DatabaseAborts, ResetTypeOK, TransactionState
<1>6. ASSUME NEW s \in Session, (Expire(s) /\ UNCHANGED <<gateVars, resetVars>>) \/ OrphanDecided(s)
      PROVE  ResetTypeOK'
  BY <1>1, <1>6 DEF OrphanDecided
<1>7. ASSUME NEW o \in Operation, UNCHANGED resetVars \/ OrphanOperation(o) PROVE ResetTypeOK'
  BY <1>1, <1>7 DEF OrphanOperation
<1>8. ASSUME NEW k \in Cleaner, ResetStep(k) \/ MaintenanceStep(k) PROVE ResetTypeOK'
  BY <1>8, ResetStepTyped, MaintenanceStepTyped
<1> QED BY <1>2, <1>3, <1>4, <1>5, <1>6, <1>7, <1>8 DEF Next

\* Executors are those of sessions, because an operation has one.
LEMMA ExecutorsTyped ==
    ASSUME QueueInv, SessionsTypeOK, NEW o \in Operation, OperationStep(o) \/ Own(o)
    PROVE  SessionsTypeOK'
<1>1. InOrder(o)
  BY DEF QueueInv
<1>2. CASE InstallExecutor(o)
  BY <1>1, <1>2 DEF InstallExecutor, InOrder, Install, Leave, SessionsTypeOK
<1>3. CASE Own(o)
  BY <1>3 DEF Own, SessionsTypeOK
<1>4. CASE UNCHANGED sessionVars
  BY <1>4 DEF sessionVars, SessionsTypeOK
<1>5. CASE AdmitExclusive(o) \/ AdmitParallel(o) \/ RefuseOperation(o)
  BY <1>4, <1>5 DEF AdmitExclusive, AdmitParallel, RefuseOperation
<1>6. CASE Revalidate(o) \/ ForSession(o) \/ FinishOperation(o)
  BY <1>4, <1>6 DEF Revalidate, ForSession, FinishOperation
<1> QED BY <1>2, <1>3, <1>5, <1>6 DEF OperationStep

LEMMA CleanerSessions ==
    ASSUME SessionsTypeOK, NEW k \in Cleaner, ResetStep(k) \/ MaintenanceStep(k)
    PROVE  UNCHANGED <<session, owned>> /\ instances' \subseteq instances
<1>1. ASSUME UNCHANGED sessionVars PROVE UNCHANGED <<session, owned>> /\ instances' \subseteq instances
  BY <1>1 DEF sessionVars
<1>2. CASE CleanRolledBack(k) \/ CleanCommitted(k) \/ FinishOutcome(k)
  BY <1>2 DEF CleanRolledBack, CleanCommitted, FinishOutcome, Finish, ReleaseSession
<1>3. CASE ReserveReset(k) \/ RefuseReset(k) \/ CleanLock(k) \/ CleanCommit(k) \/ CleanUnknown(k)
           \/ ReadOutcome(k) \/ OutcomeUnknown(k)
  BY <1>1, <1>3 DEF ReserveReset, RefuseReset, CleanLock, CleanCommit, CleanUnknown, ReadOutcome,
                    OutcomeUnknown
<1>4. CASE MaintenanceStep(k)
  BY <1>1, <1>4 DEF MaintenanceStep, Tick, Awaited, QueryCandidates, QueryFails, SweepDone,
                    Recover, Sweep
<1> QED BY <1>2, <1>3, <1>4 DEF ResetStep

LEMMA SessionsNext == ASSUME QueueInv, TypeOK, [Next]_vars PROVE SessionsTypeOK'
<1>0. SessionsTypeOK
  BY DEF TypeOK
<1>1. ASSUME UNCHANGED sessionVars PROVE SessionsTypeOK'
  BY <1>0, <1>1 DEF sessionVars, SessionsTypeOK
<1>2. CASE UNCHANGED vars \/ Listen
  BY <1>1, <1>2 DEF vars, Listen
<1>3. CASE StartServer \/ Restart
  BY <1>0, <1>3 DEF StartServer, Restart, SessionsTypeOK, SessionStatus
<1>4. CASE Arrival
  <2>1. ASSUME NEW s \in Session, CreateSession(s) PROVE SessionsTypeOK'
    BY <1>0, <2>1 DEF CreateSession, SessionsTypeOK, SessionStatus
  <2>2. ASSUME NEW s \in Session, NEW o \in Operation, Authenticate(o, s) PROVE SessionsTypeOK'
    BY <1>1, <2>2 DEF Authenticate
  <2>3. ASSUME NEW s \in Session, NEW k \in Cleaner, AuthenticateReset(k, s) PROVE SessionsTypeOK'
    BY <1>1, <2>3 DEF AuthenticateReset
  <2> QED BY <1>4, <2>1, <2>2, <2>3 DEF Arrival
<1>5. ASSUME NEW s \in Session, Expire(s) \/ DatabaseCommits(s) PROVE SessionsTypeOK'
  BY <1>0, <1>5 DEF Expire, DatabaseCommits, SessionsTypeOK, SessionStatus
<1>6. ASSUME NEW s \in Session, DatabaseAborts(s) PROVE SessionsTypeOK'
  BY <1>1, <1>6 DEF DatabaseAborts
<1>7. ASSUME NEW s \in Session, OrphanDecided(s) PROVE SessionsTypeOK'
  BY <1>0, <1>7 DEF OrphanDecided, SessionsTypeOK
<1>8. ASSUME NEW o \in Operation, OperationStep(o) \/ Own(o) PROVE SessionsTypeOK'
  BY <1>0, <1>8, ExecutorsTyped
<1>9. ASSUME NEW o \in Operation, OrphanOperation(o) PROVE SessionsTypeOK'
  BY <1>1, <1>9 DEF OrphanOperation
<1>10. ASSUME NEW k \in Cleaner, ResetStep(k) \/ MaintenanceStep(k) PROVE SessionsTypeOK'
  BY <1>0, <1>10, CleanerSessions DEF SessionsTypeOK
<1> QED BY <1>2, <1>3, <1>4, <1>5, <1>6, <1>7, <1>8, <1>9, <1>10 DEF Next

LEMMA ServerNext ==
    ASSUME QueueInv, TypeOK, [Next]_vars
    PROVE  /\ server' \in {"starting", "sweeping", "listening"}
           /\ orphan' \subseteq Session
<1>0. orphan \subseteq Session /\ server \in {"starting", "sweeping", "listening"}
  BY DEF TypeOK
<1>1. ASSUME NEW o \in Operation, Creating(o) PROVE op[o].session \in Session
  BY <1>1 DEF Creating, QueueInv, InOrder
<1>2. CASE UNCHANGED vars \/ StartServer \/ Listen
  BY <1>0, <1>2 DEF vars, StartServer, Listen
<1>3. CASE Restart
  BY <1>0, <1>1, <1>3 DEF Restart
<1>4. ASSUME NEW o \in Operation, OrphanOperation(o)
      PROVE  server' = server /\ orphan' \subseteq Session
  BY <1>0, <1>1, <1>4 DEF OrphanOperation
<1>5. ASSUME NEW s \in Session, OrphanDecided(s)
      PROVE  server' = server /\ orphan' \subseteq Session
  BY <1>0, <1>5 DEF OrphanDecided
<1>6. CASE UNCHANGED <<server, orphan>>
  BY <1>0, <1>6
<1> QED BY <1>0, <1>2, <1>3, <1>4, <1>5, <1>6 DEF Next

----------------------------------------------------------------------------
(* The invariant *)

RuntimeInv == TypeOK /\ QueueInv

LEMMA RuntimeInvariant == Spec => []RuntimeInv
<1>1. Init => RuntimeInv
  <2> SUFFICES ASSUME Init PROVE RuntimeInv OBVIOUS
  <2>1. QueueInv
    BY QueueInit
  <2>2. SessionsTypeOK
    BY DEF Init, SessionsInit, SessionsTypeOK, SessionStatus
  <2>3. ResetTypeOK
    BY CleanersTyped DEF Init, ResetInit, ResetTypeOK, TransactionState
  <2> QED BY <2>1, <2>2, <2>3 DEF RuntimeInv, TypeOK, QueueInv, Init
<1>2. RuntimeInv /\ [Next]_vars => RuntimeInv'
  <2> SUFFICES ASSUME RuntimeInv, [Next]_vars PROVE RuntimeInv' OBVIOUS
  <2>1. QueueInv /\ TypeOK /\ ResetTypeOK
    BY DEF RuntimeInv, TypeOK
  <2>2. QueueInv'
    BY <2>1, QueueNext
  <2>3. ResetTypeOK'
    BY <2>1, ResetNext
  <2>4. SessionsTypeOK'
    BY <2>1, SessionsNext
  <2>5. (server \in {"starting", "sweeping", "listening"} /\ orphan \subseteq Session)'
    BY <2>1, ServerNext
  <2> QED BY <2>2, <2>3, <2>4, <2>5 DEF RuntimeInv, TypeOK, QueueInv
<1> QED BY <1>1, <1>2, PTL DEF Spec

\* Sessions, operations, queues, reservations and resets keep their types.
THEOREM TypeCorrect == Spec => []TypeOK
<1>1. RuntimeInv => TypeOK
  BY DEF RuntimeInv
<1> QED BY <1>1, RuntimeInvariant, PTL

\* Every path by which an operation leaves gives back what its admission took
\* of the session's counters.
THEOREM CountersBalanced == Spec => []QueueBalanced
<1>1. RuntimeInv => QueueBalanced
  <2> SUFFICES ASSUME RuntimeInv, NEW s \in Session
               PROVE  /\ queue[s].size = Cardinality(AdmittedTo(s))
                      /\ queue[s].parallel = {o \in AdmittedTo(s) : ~ op[o].exclusive}
                      /\ \A o \in AdmittedTo(s) : op[o].waits \subseteq AdmittedTo(s)
    BY DEF QueueBalanced
  <2>1. QueueTells(s) /\ \A o \in Operation : InOrder(o) /\ op[o].before \subseteq Operation
    BY DEF RuntimeInv, QueueInv, GateTypeOK, OperationRecord
  <2>2. \A o \in AdmittedTo(s) : op[o].waits \subseteq AdmittedTo(s)
    BY <2>1 DEF AdmittedTo, InOrder
  <2> QED BY <2>1, <2>2 DEF QueueTells
<1> QED BY <1>1, RuntimeInvariant, PTL

\* While a session is reserved for its reset, none of its operations is admitted.
THEOREM ResetsAlone == Spec => []ResetAlone
<1>1. RuntimeInv => ResetAlone
  BY DEF RuntimeInv, QueueInv, QueueTells, ResetAlone
<1> QED BY <1>1, RuntimeInvariant, PTL

\* An operation that comes after another has more of them before it, so of any
\* operations that wait the one with the fewest before it waits for none of them.
THEOREM NeverInACircle == Spec => []NoCircle
<1>1. RuntimeInv => NoCircle
  <2> SUFFICES ASSUME RuntimeInv, NEW group \in (SUBSET Operation) \ {{}},
                      \A o \in group : op[o].pc = "waiting"
               PROVE  \E o \in group : op[o].waits \cap group = {}
    BY DEF NoCircle
  <2>1. \A o \in Operation : InOrder(o) /\ op[o].before \subseteq Operation
    BY DEF RuntimeInv, QueueInv, GateTypeOK, OperationRecord
  <2>2. ASSUME NEW o \in group
        PROVE  IsFiniteSet(op[o].before) /\ Cardinality(op[o].before) \in Nat
    <3>1. o \in Operation /\ op[o].session \in Session
      BY <2>1 DEF InOrder
    <3>2. QueueTells(op[o].session)
      BY <3>1 DEF RuntimeInv, QueueInv
    <3>3. op[o].before \subseteq AdmittedTo(op[o].session)
      BY <2>1, <3>1 DEF InOrder, AdmittedTo
    <3> QED BY <3>2, <3>3, FS_Subset, FS_CardinalityType DEF QueueTells
  <2> DEFINE counts == {Cardinality(op[o].before) : o \in group}
  <2>3. \E n \in counts : \A m \in counts : n <= m
    <3>1. counts # {} /\ counts \subseteq Nat
      BY <2>2
    <3> DEFINE R == OpToRel(<, Nat)
    <3>2. \A x, y \in Nat : y < x => <<y, x>> \in R
      BY DEF OpToRel
    <3>3. IsWellFoundedOn(R, Nat)
      BY NatLessThanWellFounded
    <3> HIDE DEF counts, R
    <3>4. PICK n \in counts : \A m \in counts : ~ (<<m, n>> \in R)
      BY <3>1, <3>3, WFMin
    <3>5. ASSUME NEW m \in counts PROVE n <= m
      <4>1. m \in Nat /\ n \in Nat /\ ~ (m < n)
        BY <3>1, <3>2, <3>4
      <4> QED BY <4>1
    <3> QED BY <3>5
  <2>4. PICK o \in group : \A p \in group : Cardinality(op[o].before) <= Cardinality(op[p].before)
    BY <2>3
  <2>5. ASSUME NEW p \in op[o].waits \cap group PROVE FALSE
    <3>1. /\ p \in op[o].before /\ p \notin op[p].before
          /\ op[p].before \subseteq op[o].before
      BY <2>1, <2>5 DEF InOrder
    <3>2. Cardinality(op[p].before) < Cardinality(op[o].before)
      <4>1. op[p].before # op[o].before
        BY <3>1
      <4> QED BY <2>2, <3>1, <4>1, FS_Subset
    <3> QED BY <2>2, <2>4, <3>2
  <2> QED BY <2>4, <2>5
<1> QED BY <1>1, RuntimeInvariant, PTL

----------------------------------------------------------------------------
(* The coordinator implements the gate *)

\* What the gate sees of the operations and the reservations.
Place(o) == IF op[o].pc \in Admitted THEN op[o].session ELSE NoSession
Exclusives == {o \in Operation : op[o].pc \in Admitted /\ op[o].exclusive}
Running == {o \in Operation : op[o].pc \in {"running", "install"}}
Closed == {s \in Session : lease[s] # NoCleaner}

GateUnchanged ==
    /\ \A o \in Operation : Place(o)' = Place(o) /\ op'[o].before = op[o].before
    /\ Exclusives' = Exclusives /\ Running' = Running /\ Closed' = Closed

LEMMA InsideAdmitted ==
    ASSUME QueueInv, NEW s \in Session
    PROVE  Gate!Inside(s) = AdmittedTo(s)
BY SessionAssumption DEF Gate!Inside, AdmittedTo

\* The gate counts as everyone does.
LEMMA GateCounts == \A S : Gate!Cardinality(S) = Cardinality(S)
BY DEF Gate!Cardinality, Cardinality

LEMMA GateStutters ==
    ASSUME GateUnchanged
    PROVE  UNCHANGED Gate!vars
BY DEF GateUnchanged, Gate!vars, Place, Exclusives, Running, Closed

LEMMA GateReserves == ASSUME QueueInv, Reserves PROVE [Gate!Next]_(Gate!vars)
<1>0. /\ lease \in [Session -> Cleaner \cup {NoCleaner}] /\ NoCleaner \notin Cleaner
      /\ UNCHANGED <<op, queue>>
  BY GateAssumption DEF QueueInv, GateTypeOK, Reserves
<1>1. CASE UNCHANGED lease
  BY <1>0, <1>1 DEF Gate!vars
<1>2. ASSUME NEW s \in Session, NEW k \in Cleaner,
             lease[s] = NoCleaner, ~ HasQueue(s), lease' = [lease EXCEPT ![s] = k]
      PROVE  Gate!Close(s)
  <2>1. Gate!Inside(s) = {}
    BY <1>2, QueueMeansAdmitted, InsideAdmitted
  <2>2. {t \in Session : lease'[t] # NoCleaner} = {t \in Session : lease[t] # NoCleaner} \cup {s}
    BY <1>0, <1>2
  <2> QED BY <1>0, <1>2, <2>1, <2>2 DEF Gate!Close
<1>3. ASSUME NEW s \in Session, lease' = [lease EXCEPT ![s] = NoCleaner]
      PROVE  Gate!Reopen(s) \/ UNCHANGED Gate!vars
  <2>1. {t \in Session : lease'[t] # NoCleaner} = {t \in Session : lease[t] # NoCleaner} \ {s}
    BY <1>0, <1>3
  <2> QED BY <1>0, <2>1 DEF Gate!Reopen, Gate!vars
<1> QED BY <1>1, <1>2, <1>3 DEF Reserves, Gate!Next

LEMMA GateStops == ASSUME Stops PROVE Gate!Next
<1>1. \A o \in Operation : op'[o].pc = "idle" /\ op'[o].before = {}
  BY DEF Stops, NotAdmitted
<1>2. \A s \in Session : lease'[s] = NoCleaner
  BY DEF Stops
<1> QED BY <1>1, <1>2 DEF Gate!Stop, Gate!Next, Admitted

\* Before and after the queue an operation is of no concern to the gate.
LEMMA GateIgnores ==
    ASSUME QueueInv, NEW o \in Operation, Authenticates(o) \/ Refuses(o)
    PROVE  UNCHANGED Gate!vars
<1>1. op \in [Operation -> OperationRecord] /\ InOrder(o)
  BY DEF QueueInv, GateTypeOK
<1>2. UNCHANGED lease /\ \A p \in Operation \ {o} : op'[p] = op[p]
  BY <1>1 DEF Authenticates, Refuses
<1>3. op[o].pc \notin Admitted /\ op[o].before = {}
  BY <1>1 DEF Authenticates, Refuses, InOrder, Admitted
<1>4. op'[o].pc \notin Admitted /\ op'[o].before = {}
  <2>1. CASE Refuses(o)
    BY <1>1, <2>1 DEF Refuses, NotAdmitted, Admitted
  <2>2. CASE Authenticates(o)
    <3>1. op[o] \in OperationRecord
      BY <1>1
    <3>2. PICK s \in Session : op' = [op EXCEPT ![o] = [op[o] EXCEPT !.pc = "authenticated", !.session = s]]
      BY <2>2 DEF Authenticates
    <3>3. op'[o].pc = "authenticated" /\ op'[o].before = op[o].before
      BY <1>1, <3>1, <3>2 DEF OperationRecord
    <3> QED BY <1>3, <3>3 DEF Admitted
  <2> QED BY <2>1, <2>2
<1>5. GateUnchanged
  <2>1. o \notin Exclusives /\ o \notin Running /\ Place(o) = NoSession
    BY <1>3 DEF Exclusives, Running, Place, Admitted
  <2>2. o \notin Exclusives' /\ o \notin Running' /\ Place(o)' = NoSession
    BY <1>4 DEF Exclusives, Running, Place, Admitted
  <2>3. \A p \in Operation \ {o} : Place(p)' = Place(p)
    BY <1>2 DEF Place
  <2>4. Exclusives' = Exclusives /\ Running' = Running
    BY <1>2, <2>1, <2>2 DEF Exclusives, Running
  <2>5. Closed' = Closed
    BY <1>2 DEF Closed
  <2>6. \A p \in Operation : op'[p].before = op[p].before
    BY <1>2, <1>3, <1>4
  <2> QED BY <2>1, <2>2, <2>3, <2>4, <2>5, <2>6 DEF GateUnchanged
<1> QED BY <1>5, GateStutters

\* An operation whose promises are resolved has the turn that the gate asks for.
LEMMA GateTurn ==
    ASSUME QueueInv, NEW o \in Operation, HasTurn(o), op[o].pc \in Admitted
    PROVE  /\ Place(o) # NoSession
           /\ op[o].before \cap (IF o \in Exclusives THEN Operation ELSE Exclusives) = {}
<1>1. InOrder(o) /\ op[o].before \subseteq Operation
  BY DEF QueueInv, GateTypeOK, OperationRecord
<1> QED BY <1>1, SessionAssumption DEF InOrder, HasTurn, Place, Exclusives, Admitted

LEMMA GateMoves ==
    ASSUME QueueInv, NEW o \in Operation, Moves(o)
    PROVE  Gate!Start(o) \/ UNCHANGED Gate!vars
<1>1. op \in [Operation -> OperationRecord] /\ op[o] \in OperationRecord
  BY DEF QueueInv, GateTypeOK
<1>2. op[o].pc \in Admitted /\ HasTurn(o) /\ UNCHANGED lease
  BY ResumableHasTurn DEF Moves, Resumable
<1>3. PICK pc \in {"running", "install"} : op' = [op EXCEPT ![o].pc = pc]
  BY DEF Moves
<1>4. /\ op'[o].pc = pc /\ op'[o].session = op[o].session /\ op'[o].exclusive = op[o].exclusive
      /\ op'[o].before = op[o].before
      /\ \A p \in Operation \ {o} : op'[p] = op[p]
  BY <1>1, <1>3 DEF OperationRecord
<1>5. \A p \in Operation : Place(p)' = Place(p) /\ op'[p].before = op[p].before
  BY <1>2, <1>4 DEF Place, Admitted
<1>6. Exclusives' = Exclusives
  BY <1>2, <1>4 DEF Exclusives, Admitted
<1>7. Running' = Running \cup {o}
  BY <1>4 DEF Running
<1>8. Closed' = Closed
  BY <1>2 DEF Closed
<1>9. CASE o \in Running
  BY <1>5, <1>6, <1>7, <1>8, <1>9, GateStutters DEF GateUnchanged
<1>10. CASE o \notin Running
  <2>1. Place(o) # NoSession
        /\ op[o].before \cap (IF o \in Exclusives THEN Operation ELSE Exclusives) = {}
    BY <1>2, GateTurn
  <2> QED
    BY <1>5, <1>6, <1>7, <1>8, <1>10, <2>1
    DEF Gate!Start, Gate!Turn, Place, Exclusives, Running, Closed
<1> QED BY <1>9, <1>10

LEMMA GateLeaves ==
    ASSUME QueueInv, NEW o \in Operation, Leaves(o)
    PROVE  Gate!Leave(o)
<1>1. op[o].pc \in Admitted /\ HasTurn(o) /\ UNCHANGED lease
  BY ResumableHasTurn DEF Leaves, Resumable, Leave
<1>2. /\ op'[o].pc = "idle" /\ op'[o].before = {}
      /\ \A p \in Operation \ {o} :
            /\ op'[p].pc = op[p].pc /\ op'[p].session = op[p].session
            /\ op'[p].exclusive = op[p].exclusive
            /\ op'[p].before = op[p].before \ {o}
  BY LeaveEffect DEF NotAdmitted
<1>3. Place(o)' = NoSession /\ \A p \in Operation \ {o} : Place(p)' = Place(p)
  BY <1>2 DEF Place, Admitted
<1>4. Exclusives' = Exclusives \ {o} /\ Running' = Running \ {o} /\ Closed' = Closed
  BY <1>1, <1>2 DEF Exclusives, Running, Closed, Admitted
<1>5. Place(o) # NoSession
      /\ op[o].before \cap (IF o \in Exclusives THEN Operation ELSE Exclusives) = {}
  BY <1>1, GateTurn
<1> QED
  BY <1>2, <1>3, <1>4, <1>5 DEF Gate!Leave, Gate!Turn, Place, Exclusives, Running, Closed

\* What the code checks of its counters is what the gate says of its operations.
LEMMA GateHasRoom ==
    ASSUME QueueInv, NEW s \in Session, AdmissionOpen(s)
    PROVE  /\ s \notin Closed
           /\ Cardinality(AdmittedTo(s)) < MaxOperations
           /\ AdmittedTo(s) \ Exclusives = queue[s].parallel
<1>1. QueueTells(s) /\ lease[s] = NoCleaner
  BY DEF QueueInv, AdmissionOpen
<1>2. queue[s].size < MaxOperations
  <2>1. ~ HasQueue(s) => queue[s].size = 0
    BY DEF HasQueue, NoQueue
  <2> QED BY <2>1, GateAssumption DEF AdmissionOpen
<1> QED BY <1>1, <1>2 DEF Closed, QueueTells, Exclusives, AdmittedTo

LEMMA GateEnters ==
    ASSUME QueueInv, NEW o \in Operation, NEW s \in Session, AdmissionOpen(s),
           op[o].pc = "authenticated",
           NEW record \in OperationRecord,
           record.pc = "waiting", record.session = s, record.before = AdmittedTo(s),
           record.exclusive \/ Cardinality(queue[s].parallel) < MaxParallel,
           op' = [op EXCEPT ![o] = record], UNCHANGED lease
    PROVE  Gate!Enter(o, s)
<1>1. op \in [Operation -> OperationRecord] /\ op[o].pc \notin Admitted
  BY DEF QueueInv, GateTypeOK, Admitted
<1>2. op'[o] = record /\ \A p \in Operation \ {o} : op'[p] = op[p]
  BY <1>1
<1>3. Place(o) = NoSession /\ o \notin Exclusives /\ o \notin Running
  BY <1>1 DEF Place, Exclusives, Running, Admitted
<1>4. Place(o)' = s /\ \A p \in Operation \ {o} : Place(p)' = Place(p)
  BY <1>2 DEF Place, Admitted
<1>5. Exclusives' = IF record.exclusive THEN Exclusives \cup {o} ELSE Exclusives
  BY <1>2, <1>3 DEF Exclusives, Admitted
<1>6. Running' = Running /\ Closed' = Closed
  BY <1>2, <1>3 DEF Running, Closed
<1>7. Gate!Inside(s) = AdmittedTo(s)
  BY InsideAdmitted
<1>8. /\ s \notin Closed
      /\ Gate!Cardinality(Gate!Inside(s)) < MaxOperations
      /\ record.exclusive \/ Gate!Cardinality(Gate!Inside(s) \ Exclusives) < MaxParallel
  <2>1. /\ s \notin Closed
        /\ Cardinality(Gate!Inside(s)) < MaxOperations
        /\ Gate!Inside(s) \ Exclusives = queue[s].parallel
    BY <1>7, GateHasRoom
  <2> QED BY <2>1, GateCounts
<1>9. op'[o].before = Gate!Inside(s) /\ \A p \in Operation \ {o} : op'[p].before = op[p].before
  BY <1>2, <1>7
<1>10. [p \in Operation |-> op[p].before]'
         = [[p \in Operation |-> op[p].before] EXCEPT ![o] = Gate!Inside(s)]
  BY <1>9
<1>11. [p \in Operation |-> Place(p)]' = [[p \in Operation |-> Place(p)] EXCEPT ![o] = s]
  BY <1>4
<1> QED
  BY <1>3, <1>5, <1>6, <1>8, <1>10, <1>11 DEF Gate!Enter, Place, Exclusives, Running, Closed

LEMMA GateAdmits ==
    ASSUME QueueInv, NEW o \in Operation, Admits(o)
    PROVE  \E s \in Session : Gate!Enter(o, s)
<1>1. /\ op[o] \in OperationRecord /\ op[o].pc = "authenticated"
      /\ op[o].session \in Session /\ UNCHANGED lease
  BY DEF QueueInv, GateTypeOK, InOrder, Admits, AdmitExclusive, AdmitParallel
<1>2. PICK s \in Session : s = op[o].session
  BY <1>1
<1>3. queue[s] \in QueueRecord /\ AdmittedTo(s) \subseteq Operation
  BY DEF QueueInv, GateTypeOK, AdmittedTo
<1>4. ASSUME NEW exclusive \in BOOLEAN, NEW awaited \in SUBSET (Operation \cup {NoOperation}),
             Enqueue(o, exclusive, awaited), AdmissionOpen(s),
             exclusive \/ Cardinality(queue[s].parallel) < MaxParallel
      PROVE  Gate!Enter(o, s)
  <2> DEFINE record == [op[o] EXCEPT !.pc = "waiting", !.exclusive = exclusive,
                                     !.waits = awaited \ {NoOperation}, !.before = AdmittedTo(s)]
  <2>1. /\ record \in OperationRecord
        /\ record.pc = "waiting" /\ record.session = s /\ record.before = AdmittedTo(s)
        /\ record.exclusive = exclusive
    BY <1>1, <1>2, <1>3 DEF OperationRecord, OperationPhase
  <2>2. op' = [op EXCEPT ![o] = record]
    BY <1>2, <1>4 DEF Enqueue
  <2> HIDE DEF record
  <2> QED BY <1>1, <1>4, <2>1, <2>2, GateEnters
<1>5. CASE AdmitExclusive(o)
  <2>1. {queue[s].tail} \cup queue[s].parallel \in SUBSET (Operation \cup {NoOperation})
    BY <1>3 DEF QueueRecord
  <2>2. Enqueue(o, TRUE, {queue[s].tail} \cup queue[s].parallel) /\ AdmissionOpen(s)
    BY <1>2, <1>5 DEF AdmitExclusive
  <2> QED BY <1>4, <2>1, <2>2
<1>6. CASE AdmitParallel(o)
  <2>1. {queue[s].tail} \in SUBSET (Operation \cup {NoOperation})
    BY <1>3 DEF QueueRecord
  <2>2. /\ Enqueue(o, FALSE, {queue[s].tail}) /\ AdmissionOpen(s)
        /\ Cardinality(queue[s].parallel) < MaxParallel
    BY <1>2, <1>6 DEF AdmitParallel, ParallelOpen
  <2> QED BY <1>4, <2>1, <2>2
<1> QED BY <1>5, <1>6 DEF Admits

\* The promises, the batch of parallel operations and the counters of the
\* coordinator implement the gate: the turn of an operation comes after the
\* earlier ones it conflicts with, whatever the order in which they end.
THEOREM CoordinatorKeepsGate == Spec => GateKept
<1>1. Init => Gate!Init
  BY DEF Init, GateInit, Gate!Init, NotAdmitted, Admitted
<1>2. RuntimeInv /\ [Next]_vars => [Gate!Next]_(Gate!vars)
  <2> SUFFICES ASSUME RuntimeInv, [Next]_vars PROVE [Gate!Next]_(Gate!vars) OBVIOUS
  <2>1. QueueInv /\ GateTypeOK /\ ResetTypeOK
    BY DEF RuntimeInv, TypeOK
  <2>2. ASSUME NEW o \in Operation,
               Authenticates(o) \/ Refuses(o) \/ Admits(o) \/ Moves(o) \/ Leaves(o)
        PROVE  [Gate!Next]_(Gate!vars)
    BY <2>1, <2>2, GateIgnores, GateAdmits, GateMoves, GateLeaves DEF Gate!Next
  <2> QED BY <2>1, <2>2, CoordinatorSteps, GateReserves, GateStops
<1> QED BY <1>1, <1>2, RuntimeInvariant, PTL DEF Spec, GateKept, Gate!Spec

=============================================================================
