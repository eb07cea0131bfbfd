----------------------------- MODULE DemoEntry -----------------------------
(***************************************************************************)
(* The way into the public Demo: the rate limits every mutation passes, and *)
(* the transaction that creates a session within the capacity.             *)
(*                                                                         *)
(* A limiter counts admitted requests in fixed windows of a minute.  It    *)
(* learns of a new window only when it is asked, and the three limiters    *)
(* are asked one after the other until one refuses.  There is no await     *)
(* between the checks and the charge, so one request is one step.  The clock *)
(* of the process is taken to move forward.                                *)
(***************************************************************************)
EXTENDS Naturals, FiniteSets

CONSTANTS
    Request,              \* requests for a session under way
    Address,              \* addresses of clients
    Session,              \* candidates for a session
    CreatesPerMinute, MutationsPerMinute, GlobalPerMinute,
    MaxKeys,              \* 4096 in the code
    ActiveCapacity, RetainedCapacity,
    MaxCandidates,        \* 5 in the code
    MaxWindow,            \* bound: windows of a minute that pass
    Foreign,              \* candidates whose company owns datasets already
    NoSession, Nobody, Gone

ASSUME EntryAssumption ==
    /\ CreatesPerMinute \in Nat /\ MutationsPerMinute \in Nat /\ GlobalPerMinute \in Nat
    /\ MaxKeys \in Nat /\ ActiveCapacity \in Nat /\ RetainedCapacity \in Nat
    /\ MaxCandidates \in Nat \ {0} /\ MaxWindow \in Nat
    /\ IsFiniteSet(Session) /\ IsFiniteSet(Address)
    /\ NoSession \notin Session /\ Foreign \subseteq Session
    /\ Nobody \notin Request /\ Gone \notin Request /\ Nobody # Gone

VARIABLES
    now,        \* the current window, counted from 1
    creates, mutations, global,  \* the limiters: the window they know, and its counts
    admitted,   \* what was admitted in the current window, a history of the checks
    request,    \* the creation transaction of each request
    table,      \* who holds the table lock: Nobody, a request, or Gone, a
                \* transaction whose connection was given up during its COMMIT
    gone,       \* the row that transaction has inserted, or NoSession
    rows,       \* the committed rows of demo_sessions
    issued      \* the sessions whose credential was sent

limitVars == <<now, creates, mutations, global, admitted>>
sessionVars == <<request, table, gone, rows, issued>>
vars == <<limitVars, sessionVars>>

-----------------------------------------------------------------------------
(* WindowLimit. *)

NoCounts(keys) == [k \in keys |-> 0]

NoneAdmitted == [creates |-> NoCounts(Address), mutations |-> NoCounts(Address), all |-> 0]

\* A limiter that was never asked knows no window.
Fresh(keys) == [window |-> 0, counts |-> NoCounts(keys)]

\* Mutant: the new window is not remembered.
RolledUnnoticed(limit) ==
    IF limit.window = now THEN limit ELSE [limit EXCEPT !.counts = NoCounts(DOMAIN limit.counts)]

\* available() forgets the counts of an older window.
Rolled(limit) ==
    IF limit.window = now THEN limit
    ELSE [window |-> now, counts |-> NoCounts(DOMAIN limit.counts)]

Available(limit, key, maximum, keys) ==
    LET counts == Rolled(limit).counts IN
    /\ counts[key] < maximum
    /\ counts[key] > 0 \/ Cardinality({k \in DOMAIN counts : counts[k] > 0}) < keys

Charged(limit, key) == [Rolled(limit) EXCEPT !.counts[key] = @ + 1]

CreatesOpen(a) == Available(creates, a, CreatesPerMinute, MaxKeys)
MutationsOpen(a) == Available(mutations, a, MutationsPerMinute, MaxKeys)
GlobalOpen == Available(global, "all", GlobalPerMinute, 1)

\* Nothing is charged before every budget has been checked.
Admit(a, creation) ==
    /\ creation => CreatesOpen(a)
    /\ MutationsOpen(a) /\ GlobalOpen
    /\ creates' = IF creation THEN Charged(creates, a) ELSE creates
    /\ mutations' = Charged(mutations, a)
    /\ global' = Charged(global, "all")
    /\ admitted' = [creates |-> IF creation THEN [admitted.creates EXCEPT ![a] = @ + 1]
                                ELSE admitted.creates,
                    mutations |-> [admitted.mutations EXCEPT ![a] = @ + 1],
                    all |-> admitted.all + 1]
    /\ UNCHANGED now

\* 429: the limiters that were asked know the new window, and that is all.
TooMany(a, creation) ==
    /\ \/ creation /\ ~CreatesOpen(a) /\ UNCHANGED <<mutations, global>>
       \/ /\ (creation => CreatesOpen(a)) /\ ~MutationsOpen(a)
          /\ mutations' = Rolled(mutations) /\ UNCHANGED global
       \/ /\ (creation => CreatesOpen(a)) /\ MutationsOpen(a) /\ ~GlobalOpen
          /\ mutations' = Rolled(mutations) /\ global' = Rolled(global)
    /\ creates' = IF creation THEN Rolled(creates) ELSE creates
    /\ UNCHANGED <<now, admitted, sessionVars>>

\* The next minute begins.
Tick ==
    /\ now < MaxWindow
    /\ now' = now + 1
    /\ admitted' = NoneAdmitted
    /\ UNCHANGED <<creates, mutations, global, sessionVars>>

\* A request that is admitted and creates no session: any other mutation, or one
\* for a session that has a cookie or a malformed body, which is charged as well.
Mutate ==
    \E a \in Address, creation \in BOOLEAN : Admit(a, creation) /\ UNCHANGED sessionVars

-----------------------------------------------------------------------------
(* DemoSessionService.create *)

Idle == [pc |-> "idle", tries |-> 0, row |-> NoSession]
Go(r, pc) == request' = [request EXCEPT ![r].pc = pc]
Ended(r) == request' = [request EXCEPT ![r] = Idle]

Retained == {s \in Session : rows[s] # "absent"}
ActiveRows == {s \in Session : rows[s] = "active"}

\* POST /demo/sessions without a cookie; the hook has charged it before.
AskForSession(r) ==
    /\ request[r].pc = "idle"
    /\ \E a \in Address : Admit(a, TRUE)
    /\ Go(r, "lock")
    /\ UNCHANGED <<table, gone, rows, issued>>

\* Mutant: the capacity is checked without the table lock.
LockTableFreely(r) ==
    /\ request[r].pc = "lock"
    /\ table' = IF table = Nobody THEN r ELSE table
    /\ Go(r, "count")
    /\ UNCHANGED <<gone, rows, issued, limitVars>>

\* LOCK TABLE ... IN SHARE ROW EXCLUSIVE MODE.
LockTable(r) ==
    /\ request[r].pc = "lock"
    /\ table = Nobody
    /\ table' = r
    /\ Go(r, "count")
    /\ UNCHANGED <<gone, rows, issued, limitVars>>

\* lock_timeout: the transaction holds nothing yet.
LockTimeout(r) ==
    /\ request[r].pc = "lock" /\ table # Nobody
    /\ Ended(r)
    /\ UNCHANGED <<table, gone, rows, issued, limitVars>>

Full == Cardinality(ActiveRows) >= ActiveCapacity \/ Cardinality(Retained) >= RetainedCapacity

CountRows(r) ==
    /\ request[r].pc = "count"
    /\ IF Full THEN Ended(r) /\ table' = Nobody
       ELSE Go(r, "insert") /\ UNCHANGED table
    /\ UNCHANGED <<gone, rows, issued, limitVars>>

\* allocate: a candidate with a row, or whose company owns datasets, is passed
\* over; after the last one the transaction is rolled back.
Insert(r) ==
    /\ request[r].pc = "insert"
    /\ \E c \in Session :
         IF c \notin Retained \cup Foreign
         THEN /\ request' = [request EXCEPT ![r].pc = "commit", ![r].row = c]
              /\ UNCHANGED table
         ELSE IF request[r].tries + 1 < MaxCandidates
         THEN /\ request' = [request EXCEPT ![r].tries = @ + 1]
              /\ UNCHANGED table
         ELSE Ended(r) /\ table' = Nobody
    /\ UNCHANGED <<gone, rows, issued, limitVars>>

\* Mutant: the credential is sent whatever became of the COMMIT.
CommitLostIssued(r) ==
    /\ request[r].pc = "commit"
    /\ Ended(r)
    /\ table' = Gone /\ gone' = request[r].row
    /\ issued' = issued \cup {request[r].row}
    /\ UNCHANGED <<rows, limitVars>>

\* The COMMIT is confirmed, and the credential is sent.
Commit(r) ==
    /\ request[r].pc = "commit"
    /\ rows' = [rows EXCEPT ![request[r].row] = "active"]
    /\ issued' = issued \cup {request[r].row}
    /\ Ended(r)
    /\ table' = Nobody
    /\ UNCHANGED <<gone, limitVars>>

\* The answer of the COMMIT is lost: no credential, and the connection is given
\* up while the database may still be at it.
CommitLost(r) ==
    /\ request[r].pc = "commit"
    /\ Ended(r)
    /\ table' = Gone /\ gone' = request[r].row
    /\ UNCHANGED <<rows, issued, limitVars>>

\* A statement fails before the COMMIT: the database rolls back at once, or when
\* it notices that the connection is gone.
Fail(r) ==
    /\ request[r].pc \in {"lock", "count", "insert"}
    /\ Ended(r)
    /\ IF table = r THEN table' \in {Nobody, Gone} /\ gone' = NoSession
       ELSE UNCHANGED <<table, gone>>
    /\ UNCHANGED <<rows, issued, limitVars>>

\* The database ends the transaction that was given up.
GoneEnds ==
    /\ table = Gone
    /\ rows' \in {rows} \cup {[rows EXCEPT ![s] = "active"] : s \in {gone} \ {NoSession}}
    /\ table' = Nobody /\ gone' = NoSession
    /\ UNCHANGED <<request, issued, limitVars>>

\* expires_at passes, or the session is reset.
EndSession ==
    /\ \E s \in ActiveRows : rows' = [rows EXCEPT ![s] = "ended"]
    /\ UNCHANGED <<request, table, gone, issued, limitVars>>

-----------------------------------------------------------------------------
Step(r) == LockTable(r) \/ LockTimeout(r) \/ CountRows(r) \/ Insert(r) \/ Commit(r) \/ CommitLost(r) \/ Fail(r)

Init ==
    /\ now = 1 /\ admitted = NoneAdmitted
    /\ creates = Fresh(Address) /\ mutations = Fresh(Address) /\ global = Fresh({"all"})
    /\ request = [r \in Request |-> Idle]
    /\ table = Nobody /\ gone = NoSession
    /\ rows = [s \in Session |-> "absent"]
    /\ issued = {}

Next ==
    \/ \E r \in Request : AskForSession(r) \/ Step(r)
    \/ \E a \in Address, creation \in BOOLEAN : TooMany(a, creation)
    \/ Mutate \/ Tick \/ GoneEnds \/ EndSession

Spec == Init /\ [][Next]_vars

-----------------------------------------------------------------------------
(* Properties *)

Limiter(keys) == [window : Nat, counts : [keys -> Nat]]

\* The values the variables take.
TypeOK ==
    /\ now \in Nat
    /\ creates \in Limiter(Address) /\ mutations \in Limiter(Address)
    /\ global \in Limiter({"all"})
    /\ admitted \in [creates : [Address -> Nat], mutations : [Address -> Nat], all : Nat]
    /\ request \in [Request -> [pc : {"idle", "lock", "count", "insert", "commit"}, tries : Nat,
                                row : Session \cup {NoSession}]]
    /\ table \in Request \cup {Nobody, Gone} /\ gone \in Session \cup {NoSession}
    /\ rows \in [Session -> {"absent", "active", "ended"}]
    /\ issued \subseteq Session

\* The budget of every limiter is exactly what was admitted in the current minute,
\* whichever limiters earlier refusals have asked, and never more than allowed:
\* a refused request is charged nowhere, and an older minute's counts never
\* refuse anybody.
LimitsExact ==
    /\ Rolled(creates).counts = admitted.creates
    /\ Rolled(mutations).counts = admitted.mutations
    /\ Rolled(global).counts["all"] = admitted.all
    /\ admitted.all <= GlobalPerMinute
    /\ \A a \in Address : admitted.creates[a] <= CreatesPerMinute
                         /\ admitted.mutations[a] <= MutationsPerMinute
    /\ Cardinality({a \in Address : admitted.mutations[a] > 0}) <= MaxKeys

\* Overlapping creations never take the committed sessions beyond the capacity,
\* not even when a transaction that was given up commits late.
CapacityKept ==
    Cardinality(ActiveRows) <= ActiveCapacity /\ Cardinality(Retained) <= RetainedCapacity

\* A credential that was sent is one of a committed session: no client holds the
\* key of a session that a lost COMMIT has not made.
CredentialBacked == issued \subseteq Retained
=============================================================================
