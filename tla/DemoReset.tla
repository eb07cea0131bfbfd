----------------------------- MODULE DemoReset -----------------------------
(***************************************************************************)
(* DemoSessionResetService: resets asked for by a session, the maintenance *)
(* of inactive sessions, their cleanup transaction, and the resolution of  *)
(* a COMMIT whose outcome is unknown.  The database decides a COMMIT in a  *)
(* step of its own; a cleaner learns of it, or loses its connection.       *)
(***************************************************************************)
EXTENDS SessionCoordinator

CONSTANTS
    Resetter, Sweeper,  \* POST /demo/sessions/reset; maintenance
    Faults              \* "database": connections fail; "orphan": so do those of
                        \* operations; "restart": the process stops

ASSUME CleanerAssumption == Cleaner = Resetter \cup Sweeper /\ Resetter \cap Sweeper = {}

\* DemoMaintenance starts none while one is under way.
ASSUME MaintenanceAssumption == \A k, m \in Sweeper : k = m

VARIABLES
    cleaner,   \* the resets and the maintenance loop
    pending,   \* pending: whose reservation has an unknown outcome
    resolver,  \* Pending.resolving: who reads that outcome
    txn        \* the last cleanup transaction of a session, in the database

resetVars == <<cleaner, pending, resolver, txn>>

CleanerPhase == {"idle", "authenticated", "recover", "sweep", "lock", "locked",
                 "commit", "read", "known", "await", "invalid"}

CleanerRecord == [pc : CleanerPhase,
                  session : Session \cup {NoSession},
                  holds : Cleaner \cup {NoCleaner},    \* the reservation it finishes
                  committed : BOOLEAN,                 \* the outcome it read
                  then : {"idle", "recover", "sweep"},
                  todo : [Session -> Cleaner \cup {NoCleaner}]]

TransactionState == {"none", "open", "committing", "committed", "aborted"}

ResetTypeOK ==
    /\ cleaner \in [Cleaner -> CleanerRecord]
    /\ pending \in [Session -> Cleaner \cup {NoCleaner}]
    /\ resolver \in [Session -> Cleaner \cup {NoCleaner}]
    /\ txn \in [Session -> TransactionState]

NothingToDo == [s \in Session |-> NoCleaner]

IdleCleaner == [pc |-> "idle", session |-> NoSession, holds |-> NoCleaner,
                committed |-> FALSE, then |-> "idle", todo |-> NothingToDo]

ResetInit ==
    /\ cleaner = [k \in Cleaner |-> IdleCleaner]
    /\ pending = NothingToDo
    /\ resolver = NothingToDo
    /\ txn = [s \in Session |-> "none"]

\* The row lock of a session is held by its undecided transaction.
RowFree(s) == txn[s] \notin {"open", "committing"}

\* Back to what the cleaner was doing: a request ends, maintenance goes on.
Resumed(k) == [cleaner[k] EXCEPT !.pc = cleaner[k].then, !.session = NoSession,
                                 !.holds = NoCleaner, !.committed = FALSE]

\* Mutant: the executor is not released.
FinishKeepingExecutor(k, committed) ==
    LET s == cleaner[k].session IN
    /\ lease[s] = cleaner[k].holds
    /\ Release(s)
    /\ pending' = [pending EXCEPT ![s] = NoCleaner]
    /\ resolver' = [resolver EXCEPT ![s] = NoCleaner]
    /\ cleaner' = [cleaner EXCEPT ![k] = Resumed(k)]
    /\ UNCHANGED instances

\* finish: the executor of a cleaned session is released, the entry forgotten
\* and the reservation given back.  The last is an error when another holds it.
Finish(k, committed) ==
    LET s == cleaner[k].session IN
    /\ IF committed THEN ReleaseSession(s) ELSE UNCHANGED instances
    /\ pending' = [pending EXCEPT ![s] = NoCleaner]
    /\ resolver' = [resolver EXCEPT ![s] = NoCleaner]
    /\ IF lease[s] = cleaner[k].holds
       THEN Release(s) /\ cleaner' = [cleaner EXCEPT ![k] = Resumed(k)]
       ELSE UNCHANGED lease /\ cleaner' = [cleaner EXCEPT ![k].pc = "invalid"]

----------------------------------------------------------------------------
(* reset: the session of an authenticated request *)

\* Reservations are told apart by their slot: it is taken again for a session
\* only when no resolver remembers the reservation it stood for.
Forgotten(k, s) ==
    \A m \in Cleaner \ {k} :
        cleaner[m].todo[s] # k /\ ~ (cleaner[m].session = s /\ cleaner[m].holds = k)

AuthenticateReset(k, s) ==
    /\ k \in Resetter
    /\ cleaner[k].pc = "idle"
    /\ Usable(s)
    /\ Forgotten(k, s)
    /\ cleaner' = [cleaner EXCEPT ![k] = [@ EXCEPT !.pc = "authenticated", !.session = s]]
    /\ UNCHANGED <<pending, resolver, txn, gateVars, sessionVars>>

ReserveReset(k) ==
    LET s == cleaner[k].session IN
    /\ cleaner[k].pc = "authenticated"
    /\ Reservable(s)
    /\ Reserve(k, s)
    /\ cleaner' = [cleaner EXCEPT ![k] = [@ EXCEPT !.pc = "lock", !.holds = k]]
    /\ UNCHANGED <<pending, resolver, txn, op, queue, sessionVars>>

\* RESET_CONFLICT or DEMO_RESET_OUTCOME_UNKNOWN
RefuseReset(k) ==
    /\ cleaner[k].pc = "authenticated"
    /\ ~ Reservable(cleaner[k].session)
    /\ cleaner' = [cleaner EXCEPT ![k] = IdleCleaner]
    /\ UNCHANGED <<pending, resolver, txn, gateVars, sessionVars>>

----------------------------------------------------------------------------
(* clean *)

CleanLock(k) ==
    LET s == cleaner[k].session IN
    /\ cleaner[k].pc = "lock"
    /\ RowFree(s)
    /\ txn' = [txn EXCEPT ![s] = "open"]
    /\ cleaner' = [cleaner EXCEPT ![k].pc = "locked"]
    /\ UNCHANGED <<pending, resolver, gateVars, sessionVars>>

\* Read again under the lock: a reset needs a usable session, maintenance none.
Eligible(k) ==
    IF k \in Resetter THEN Usable(cleaner[k].session) ELSE Inactive(cleaner[k].session)

\* The owned rows are deleted, the session revoked and COMMIT sent.
CleanCommit(k) ==
    /\ cleaner[k].pc = "locked"
    /\ Eligible(k)
    /\ txn' = [txn EXCEPT ![cleaner[k].session] = "committing"]
    /\ cleaner' = [cleaner EXCEPT ![k].pc = "commit"]
    /\ UNCHANGED <<pending, resolver, gateVars, sessionVars>>

\* The session is not eligible, or a statement fails; ROLLBACK is confirmed.
CleanRolledBack(k) ==
    LET s == cleaner[k].session IN
    /\ cleaner[k].pc \in {"lock", "locked"}
    /\ "database" \in Faults \/ (cleaner[k].pc = "locked" /\ ~ Eligible(k))
    /\ txn' = IF cleaner[k].pc = "locked" THEN [txn EXCEPT ![s] = "aborted"] ELSE txn
    /\ Finish(k, FALSE)
    /\ UNCHANGED <<op, queue, session, owned>>

\* COMMIT is confirmed.
CleanCommitted(k) ==
    /\ cleaner[k].pc = "commit"
    /\ txn[cleaner[k].session] = "committed"
    /\ Finish(k, TRUE)
    /\ UNCHANGED <<txn, op, queue, session, owned>>

\* Mutant: an error of COMMIT is taken for a rollback.
CleanUnknownAsRollback(k) ==
    /\ "database" \in Faults
    /\ cleaner[k].pc \in {"locked", "commit"}
    /\ Finish(k, FALSE)
    /\ UNCHANGED <<txn, op, queue, session, owned>>

\* The answer of COMMIT or ROLLBACK is lost: the connection is destroyed and
\* this cleaner resolves the outcome itself.
CleanUnknown(k) ==
    LET s == cleaner[k].session IN
    /\ "database" \in Faults
    /\ cleaner[k].pc \in {"lock", "locked", "commit"}
    /\ pending' = [pending EXCEPT ![s] = k]
    /\ resolver' = [resolver EXCEPT ![s] = k]
    /\ cleaner' = [cleaner EXCEPT ![k].pc = "read"]
    /\ UNCHANGED <<txn, gateVars, sessionVars>>

----------------------------------------------------------------------------
(* readOutcome *)

\* Of a reset that is not maintenance, a revocation with rows left is no outcome.
Conclusive(k) ==
    LET s == cleaner[k].session IN
    ~ (session[s] = "REVOKED" /\ owned[s] /\ cleaner[k].holds \notin Sweeper)

\* Mutant: the row is read without its lock.
ReadOutcomeUnlocked(k) ==
    LET s == cleaner[k].session IN
    /\ cleaner[k].pc = "read"
    /\ Conclusive(k)
    /\ cleaner' = [cleaner EXCEPT ![k] =
                      [@ EXCEPT !.pc = "known",
                                !.committed = session[s] = "REVOKED" /\ ~ owned[s]]]
    /\ UNCHANGED <<pending, resolver, txn, gateVars, sessionVars>>

\* On another connection, once the row lock tells that the first is decided.
ReadOutcome(k) ==
    LET s == cleaner[k].session IN
    /\ cleaner[k].pc = "read"
    /\ RowFree(s)
    /\ Conclusive(k)
    /\ cleaner' = [cleaner EXCEPT ![k] =
                      [@ EXCEPT !.pc = "known",
                                !.committed = session[s] = "REVOKED" /\ ~ owned[s]]]
    /\ UNCHANGED <<pending, resolver, txn, gateVars, sessionVars>>

\* Mutant: the entry of an outcome that could not be read is forgotten.
OutcomeForgotten(k) ==
    LET s == cleaner[k].session IN
    /\ cleaner[k].pc = "read"
    /\ "database" \in Faults
    /\ pending' = [pending EXCEPT ![s] = NoCleaner]
    /\ resolver' = [resolver EXCEPT ![s] = NoCleaner]
    /\ cleaner' = [cleaner EXCEPT ![k] = Resumed(k)]
    /\ UNCHANGED <<txn, gateVars, sessionVars>>

\* A lock timeout, a failed connection or an inconclusive row: the reservation
\* is kept until the outcome is read again.
OutcomeUnknown(k) ==
    LET s == cleaner[k].session IN
    /\ \/ cleaner[k].pc = "invalid"
       \/ /\ cleaner[k].pc = "read"
          /\ "database" \in Faults \/ ~ RowFree(s) \/ ~ Conclusive(k)
    /\ resolver' = IF resolver[s] = k THEN [resolver EXCEPT ![s] = NoCleaner] ELSE resolver
    /\ cleaner' = [cleaner EXCEPT ![k] = Resumed(k)]
    /\ UNCHANGED <<pending, txn, gateVars, sessionVars>>

FinishOutcome(k) ==
    /\ cleaner[k].pc = "known"
    /\ Finish(k, cleaner[k].committed)
    /\ UNCHANGED <<txn, op, queue, session, owned>>

----------------------------------------------------------------------------
(* maintainInactiveSessions; the batch limit is not reached *)

\* resolve joins a resolution that is under way and starts one otherwise, also
\* for an entry that has been finished since it was taken.
Resolve(k, s, entry, rest) ==
    IF pending[s] = entry /\ resolver[s] # NoCleaner
    THEN /\ cleaner' = [cleaner EXCEPT ![k] = [@ EXCEPT !.pc = "await", !.session = s, !.todo = rest]]
         /\ UNCHANGED resolver
    ELSE /\ cleaner' = [cleaner EXCEPT ![k] = [@ EXCEPT !.pc = "read", !.session = s, !.holds = entry,
                                                       !.then = "recover", !.todo = rest]]
         /\ resolver' = IF pending[s] = entry THEN [resolver EXCEPT ![s] = k] ELSE resolver

\* recoverPendingResets takes the entries of this moment and resolves the
\* first of them at once.
Tick(k) ==
    /\ k \in Sweeper
    /\ cleaner[k].pc = "idle"
    /\ \/ /\ pending = NothingToDo
          /\ cleaner' = [cleaner EXCEPT ![k].pc = "recover"]
          /\ UNCHANGED resolver
       \/ \E s \in Session :
             /\ pending[s] # NoCleaner
             /\ Resolve(k, s, pending[s], [pending EXCEPT ![s] = NoCleaner])
    /\ UNCHANGED <<pending, txn, gateVars, sessionVars>>

\* The next of the entries, when the one before it has been resolved.
Recover(k, s) ==
    LET todo == cleaner[k].todo IN
    /\ cleaner[k].pc = "recover"
    /\ todo[s] # NoCleaner
    /\ Resolve(k, s, todo[s], [todo EXCEPT ![s] = NoCleaner])
    /\ UNCHANGED <<pending, txn, gateVars, sessionVars>>

Awaited(k) ==
    /\ cleaner[k].pc = "await"
    /\ resolver[cleaner[k].session] = NoCleaner
    /\ cleaner' = [cleaner EXCEPT ![k] = [@ EXCEPT !.pc = "recover", !.session = NoSession]]
    /\ UNCHANGED <<pending, resolver, txn, gateVars, sessionVars>>

\* Mutant: a session without rows needs no cleanup.
CandidateByRows(s) == Inactive(s) /\ owned[s] /\ pending[s] = NoCleaner

Candidate(s) == Inactive(s) /\ (owned[s] \/ s \in instances) /\ pending[s] = NoCleaner

QueryCandidates(k) ==
    /\ cleaner[k].pc = "recover" /\ cleaner[k].todo = NothingToDo
    /\ cleaner' = [cleaner EXCEPT ![k] =
                      [@ EXCEPT !.pc = "sweep", !.then = "sweep",
                                !.todo = [s \in Session |-> IF Candidate(s) THEN k ELSE NoCleaner]]]
    /\ UNCHANGED <<pending, resolver, txn, gateVars, sessionVars>>

\* The query fails, and with it this maintenance.
QueryFails(k) ==
    /\ "database" \in Faults
    /\ cleaner[k].pc = "recover" /\ cleaner[k].todo = NothingToDo
    /\ cleaner' = [cleaner EXCEPT ![k] = IdleCleaner]
    /\ UNCHANGED <<pending, resolver, txn, gateVars, sessionVars>>

\* cleanupInactiveSession; a conflict is counted and skipped.
Sweep(k, s) ==
    /\ cleaner[k].pc = "sweep"
    /\ cleaner[k].todo[s] # NoCleaner
    /\ IF Reservable(s)
       THEN /\ Reserve(k, s)
            /\ cleaner' = [cleaner EXCEPT ![k] = [@ EXCEPT !.pc = "lock", !.session = s, !.holds = k,
                                                          !.todo[s] = NoCleaner]]
       ELSE /\ UNCHANGED lease
            /\ cleaner' = [cleaner EXCEPT ![k].todo[s] = NoCleaner]
    /\ UNCHANGED <<pending, resolver, txn, op, queue, sessionVars>>

SweepDone(k) ==
    /\ cleaner[k].pc = "sweep" /\ cleaner[k].todo = NothingToDo
    /\ cleaner' = [cleaner EXCEPT ![k] = IdleCleaner]
    /\ UNCHANGED <<pending, resolver, txn, gateVars, sessionVars>>

----------------------------------------------------------------------------
(* The database *)

\* The deletes and the revocation take effect.
DatabaseCommits(s) ==
    /\ txn[s] = "committing"
    /\ txn' = [txn EXCEPT ![s] = "committed"]
    /\ session' = [session EXCEPT ![s] = "REVOKED"]
    /\ owned' = [owned EXCEPT ![s] = FALSE]
    /\ UNCHANGED <<cleaner, pending, resolver, instances, gateVars>>

\* A transaction whose connection is gone, or whose COMMIT fails.
Abandoned(s) ==
    \A k \in Cleaner : cleaner[k].session = s => cleaner[k].pc \notin {"locked", "commit"}

DatabaseAborts(s) ==
    /\ ~ RowFree(s)
    /\ Abandoned(s) \/ ("database" \in Faults /\ txn[s] = "committing")
    /\ txn' = [txn EXCEPT ![s] = "aborted"]
    /\ UNCHANGED <<cleaner, pending, resolver, gateVars, sessionVars>>

----------------------------------------------------------------------------

ResetStep(k) ==
    \/ ReserveReset(k) \/ RefuseReset(k) \/ CleanLock(k) \/ CleanCommit(k)
    \/ CleanRolledBack(k) \/ CleanCommitted(k) \/ CleanUnknown(k)
    \/ ReadOutcome(k) \/ OutcomeUnknown(k) \/ FinishOutcome(k)

MaintenanceStep(k) ==
    \/ Tick(k) \/ Awaited(k) \/ QueryCandidates(k) \/ QueryFails(k) \/ SweepDone(k)
    \/ \E s \in Session : Recover(k, s) \/ Sweep(k, s)

=============================================================================
