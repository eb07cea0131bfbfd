---------------------------- MODULE DemoSessions ----------------------------
(***************************************************************************)
(* The rows of the Demo sessions, whether a session's company owns data,   *)
(* and the registry of their in-memory executors.                          *)
(***************************************************************************)
EXTENDS Naturals, FiniteSets

CONSTANTS
    Session,           \* the sessions that may ever be created
    NoSession,
    ActiveCapacity,    \* capacity.active
    RetainedCapacity,  \* capacity.retained
    MaxExecutors       \* the capacity of the registry

ASSUME SessionAssumption == NoSession \notin Session

VARIABLES
    session,   \* demo_sessions: revoked_at and expires_at, as a status
    owned,     \* a dataset series of the session's company exists
    instances  \* DemoExecutorRegistry.instances

sessionVars == <<session, owned, instances>>

SessionStatus == {"ABSENT", "ACTIVE", "EXPIRED", "REVOKED"}

SessionsTypeOK ==
    /\ session \in [Session -> SessionStatus]
    /\ owned \in [Session -> BOOLEAN]
    /\ instances \subseteq Session

SessionsInit ==
    /\ session = [s \in Session |-> "ABSENT"]
    /\ owned = [s \in Session |-> FALSE]
    /\ instances = {}

Usable(s) == session[s] = "ACTIVE"
Inactive(s) == session[s] \in {"EXPIRED", "REVOKED"}

\* One transaction under a table lock; rows are never deleted.
CreateSession(s) ==
    /\ session[s] = "ABSENT"
    /\ Cardinality({t \in Session : Usable(t)}) < ActiveCapacity
    /\ Cardinality({t \in Session : session[t] # "ABSENT"}) < RetainedCapacity
    /\ session' = [session EXCEPT ![s] = "ACTIVE"]
    /\ UNCHANGED <<owned, instances>>

\* expires_at passes.
Expire(s) ==
    /\ Usable(s)
    /\ session' = [session EXCEPT ![s] = "EXPIRED"]
    /\ UNCHANGED <<owned, instances>>

\* The executor of a session whose row was read a moment ago.
CanInstall(s) == s \in instances \/ Cardinality(instances) < MaxExecutors
Install(s) == instances' = instances \cup {s}

ReleaseSession(s) == instances' = instances \ {s}

=============================================================================
