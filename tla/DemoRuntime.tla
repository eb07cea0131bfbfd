---------------------------- MODULE DemoRuntime ----------------------------
(***************************************************************************)
(* One Demo process: its sessions, the operations and resets admitted to   *)
(* them, maintenance, the start of the server, and what a stopped process  *)
(* leaves behind in the database.                                          *)
(***************************************************************************)
EXTENDS DemoReset

VARIABLES
    server,  \* "starting", "sweeping" (before it listens) or "listening"
    orphan   \* sessions with a create transaction whose request is gone

vars == <<sessionVars, gateVars, resetVars, server, orphan>>

Init ==
    /\ SessionsInit /\ GateInit /\ ResetInit
    /\ server = "starting"
    /\ orphan = {}

\* startServer revokes every session with one statement, which waits for the
\* row locks of the transactions that an earlier process left.
StartServer ==
    /\ server = "starting"
    /\ \A s \in Session : RowFree(s)
    /\ session' = [s \in Session |-> IF session[s] = "ABSENT" THEN "ABSENT" ELSE "REVOKED"]
    /\ server' = "sweeping"
    /\ UNCHANGED <<owned, instances, gateVars, resetVars, orphan>>

\* The first maintenance has ended, or has failed.
Listen ==
    /\ server = "sweeping"
    /\ \A k \in Cleaner : cleaner[k].pc = "idle"
    /\ server' = "listening"
    /\ UNCHANGED <<sessionVars, gateVars, resetVars, orphan>>

\* The create transactions of the operations that were running are left to the
\* database; everything in memory is gone.
Restart ==
    /\ "restart" \in Faults
    /\ server' = "starting"
    /\ orphan' = orphan \cup {op[o].session : o \in {p \in Operation : Creating(p)}}
    /\ op' = [o \in Operation |-> NotAdmitted]
    /\ queue' = [s \in Session |-> NoQueue]
    /\ lease' = NothingToDo
    /\ cleaner' = [k \in Cleaner |-> IdleCleaner]
    /\ pending' = NothingToDo
    /\ resolver' = NothingToDo
    /\ instances' = {}
    /\ UNCHANGED <<session, owned, txn>>

\* An operation loses the answer of its COMMIT and ends.
OrphanOperation(o) ==
    /\ "orphan" \in Faults
    /\ Creating(o)
    /\ Leave(o)
    /\ orphan' = orphan \cup {op[o].session}
    /\ UNCHANGED <<sessionVars, resetVars, server>>

\* The database decides it.  A cleanup that is committing has deleted what it
\* saw, so a series created meanwhile counts as created after it.
OrphanDecided(s) ==
    /\ s \in orphan
    /\ txn[s] # "committing"
    /\ orphan' = orphan \ {s}
    /\ owned' \in {owned, [owned EXCEPT ![s] = TRUE]}
    /\ UNCHANGED <<session, instances, gateVars, resetVars, server>>

\* A request arrives, or time passes.
Arrival ==
    \/ \E s \in Session :
          \/ CreateSession(s) /\ UNCHANGED <<gateVars, resetVars>>
          \/ \E o \in Operation : Authenticate(o, s) /\ UNCHANGED resetVars
          \/ \E k \in Cleaner : AuthenticateReset(k, s)

Next ==
    \/ StartServer \/ Listen \/ Restart
    \/ server = "listening" /\ Arrival /\ UNCHANGED <<server, orphan>>
    \/ \E s \in Session :
          /\ \/ Expire(s) /\ UNCHANGED <<gateVars, resetVars>>
             \/ DatabaseCommits(s) \/ DatabaseAborts(s)
          /\ UNCHANGED <<server, orphan>>
    \/ \E o \in Operation :
          /\ OperationStep(o) \/ Own(o)
          /\ UNCHANGED <<resetVars, server, orphan>>
    \/ \E k \in Cleaner :
          /\ ResetStep(k) \/ (server # "starting" /\ MaintenanceStep(k))
          /\ UNCHANGED <<server, orphan>>
    \/ \E o \in Operation : OrphanOperation(o)
    \/ \E s \in Session : OrphanDecided(s)

Spec == Init /\ [][Next]_vars

TypeOK ==
    /\ SessionsTypeOK /\ GateTypeOK /\ ResetTypeOK
    /\ server \in {"starting", "sweeping", "listening"}
    /\ orphan \subseteq Session

----------------------------------------------------------------------------
(* Safety *)

\* The counters that every path of an operation must give back agree with who
\* is admitted, and what an operation awaits is still to come.
QueueBalanced ==
    \A s \in Session :
        /\ queue[s].size = Cardinality(AdmittedTo(s))
        /\ queue[s].parallel = {o \in AdmittedTo(s) : ~ op[o].exclusive}
        /\ \A o \in AdmittedTo(s) : op[o].waits \subseteq AdmittedTo(s)

\* Nothing waits in a circle: of any operations that wait, one awaits none of
\* the others, although exclusive ones await the parallel ones before them and
\* parallel ones await the exclusive one before them.
NoCircle ==
    \A group \in (SUBSET Operation) \ {{}} :
        (\A o \in group : op[o].pc = "waiting") => \E o \in group : op[o].waits \cap group = {}

\* A session is reserved for a reset only when no operation of it is admitted,
\* waiting ones included, and none is admitted while it is reserved.
ResetAlone ==
    \A s \in Session : lease[s] # NoCleaner => AdmittedTo(s) = {}

\* A cleanup whose outcome is not decided keeps its session reserved, so no
\* operation runs on rows that may still be deleted.
UndecidedIsReserved ==
    \A s \in Session : server # "starting" /\ ~ RowFree(s) => lease[s] # NoCleaner

\* No operation runs in a session that a reset has revoked, although its row
\* was read before the operation was resumed.
NoOperationOnRevoked ==
    \A o \in Operation : op[o].pc \in {"running", "install"} => session[op[o].session] # "REVOKED"

\* No executor outlives the reset of its session: a request that was admitted
\* or had read the row before cannot register one after the release.
ExecutorReleased ==
    \A s \in Session : session[s] = "REVOKED" /\ lease[s] = NoCleaner => s \notin instances

\* Maintenance may retry, but a reservation is finished once.
FinishedOnce == \A k \in Cleaner : cleaner[k].pc # "invalid"

----------------------------------------------------------------------------
(* Action properties *)

\* A reservation is given back knowing the outcome: the session is revoked, its
\* rows and its executor are gone, or nothing of it has changed.
ReleasedKnowing ==
    [][\A s \in Session :
          lease[s] # NoCleaner /\ lease'[s] = NoCleaner /\ server' # "starting" =>
              \/ session'[s] = "REVOKED" /\ ~ owned'[s] /\ s \notin instances'
              \/ /\ session'[s] # "REVOKED" \/ lease[s] \in Sweeper
                 /\ owned'[s] = owned[s]
                 /\ s \in instances => s \in instances']_vars

\* What resolves a reservation: its cleanup is under way, or its entry is there
\* for maintenance to retry.
Retained(s) ==
    lease[s] # NoCleaner =>
        \/ pending[s] = lease[s]
        \/ \E k \in Cleaner : /\ cleaner[k].pc \in {"lock", "locked", "commit"}
                               /\ cleaner[k].session = s /\ cleaner[k].holds = lease[s]

\* A second finish has removed the entry of a newer reservation.
EntryLost(s) ==
    ~ Retained(s) /\ \E k \in Cleaner : cleaner[k].pc = "invalid" /\ cleaner[k].session = s

\* Nothing but a second finish takes from a reservation what resolves it:
\* neither a failing reading nor a step of another session's cleanup.
LostOnlyByFinish ==
    [][\A s \in Session : Retained(s) /\ ~ Retained(s)' => EntryLost(s)']_vars

\* The coordinator and the reservations implement the gate.
Gate == INSTANCE SessionGate WITH
    place <- [o \in Operation |-> IF op[o].pc \in Admitted THEN op[o].session ELSE NoSession],
    exclusive <- {o \in Operation : op[o].pc \in Admitted /\ op[o].exclusive},
    before <- [o \in Operation |-> op[o].before],
    running <- {o \in Operation : op[o].pc \in {"running", "install"}},
    closed <- {s \in Session : lease[s] # NoCleaner}

GateKept == Gate!Spec

----------------------------------------------------------------------------
(* Liveness *)

\* The event loop resumes an operation that awaits nothing, the database answers
\* it, and its body ends after finitely many of its own steps.
OperationsFair ==
    \A o \in Operation :
        /\ WF_vars((AdmitExclusive(o) \/ AdmitParallel(o) \/ RefuseOperation(o))
                   /\ UNCHANGED <<resetVars, server, orphan>>)
        /\ WF_vars(Revalidate(o) /\ UNCHANGED <<resetVars, server, orphan>>)
        /\ WF_vars(InstallExecutor(o) /\ UNCHANGED <<resetVars, server, orphan>>)
        /\ SF_vars(FinishOperation(o) /\ UNCHANGED <<resetVars, server, orphan>>)

WorksOn(k, s) == cleaner[k].session = s

\* The server starts, the database decides, a reset goes on, the interval of
\* maintenance elapses, and of its connections for an unknown outcome some
\* succeed, for each session.  What awaits a resolution is resumed when it ends,
\* before anybody else can begin the next one.
ResolvingFair ==
    /\ WF_vars(StartServer) /\ WF_vars(Listen)
    /\ \A s \in Session :
          WF_vars((DatabaseCommits(s) \/ DatabaseAborts(s)) /\ UNCHANGED <<server, orphan>>)
    /\ \A k \in Cleaner : WF_vars(ResetStep(k) /\ UNCHANGED <<server, orphan>>)
    /\ \A k \in Sweeper :
          /\ WF_vars(MaintenanceStep(k) /\ UNCHANGED <<server, orphan>>)
          /\ SF_vars(Awaited(k) /\ UNCHANGED <<server, orphan>>)
          /\ \A s \in Session :
                SF_vars(WorksOn(k, s) /\ ReadOutcome(k) /\ UNCHANGED <<server, orphan>>)

\* Of the cleanups that maintenance tries again and again, some succeed.
CleaningFair ==
    /\ \A s \in Session : SF_vars(DatabaseCommits(s) /\ UNCHANGED <<server, orphan>>)
    /\ \A k \in Sweeper :
          /\ SF_vars(QueryCandidates(k) /\ UNCHANGED <<server, orphan>>)
          /\ \A s \in Session :
                /\ SF_vars(WorksOn(k, s) /\ CleanLock(k) /\ UNCHANGED <<server, orphan>>)
                /\ SF_vars(WorksOn(k, s) /\ CleanCommit(k) /\ UNCHANGED <<server, orphan>>)

ResolvedSpec == Spec /\ ResolvingFair

MaintainedSpec == ResolvedSpec /\ OperationsFair /\ CleaningFair

\* The one outcome that no reading decides: a create transaction of unknown
\* outcome gave the company of a reset's session rows again before the reset's
\* own outcome was read.
Unresolvable(s) == pending[s] \in Resetter /\ session[s] = "REVOKED" /\ owned[s]

\* A reservation is given back, also when the outcome was unknown.  There are
\* two exceptions: an outcome that no reading decides, and a reservation whose
\* entry a second finish of an earlier one has removed (EntryLost), which
\* maintenance can no longer resolve.
ReservationReturns ==
    \A s \in Session :
        []~ EntryLost(s) =>
            (lease[s] # NoCleaner ~> lease[s] = NoCleaner \/ Unresolvable(s))

\* The rows and the executor of a session that ended are removed, also the rows
\* of a create transaction that was decided after the session's reset.  The
\* exceptions are the same: a session that stays reserved is not cleaned.
LeftoversRemoved ==
    \A s \in Session :
        []~ EntryLost(s) =>
            (Inactive(s) /\ (owned[s] \/ s \in instances) ~>
                (~ owned[s] /\ s \notin instances) \/ Unresolvable(s))

=============================================================================
