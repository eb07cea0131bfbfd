-------------------------- MODULE DemoEntry_proofs --------------------------
(***************************************************************************)
(* The rate limits are exact and the capacity is kept, for every number of *)
(* requests, addresses and candidates and for every limit.                 *)
(*                                                                         *)
(* A limiter never knows a window that has not begun, so what it forgets   *)
(* when it rolls is what the clock forgot.  A transaction that has found   *)
(* room keeps the table lock, and with it the room, until it is over, also *)
(* when nobody waits for it any more.                                      *)
(***************************************************************************)
EXTENDS DemoEntry, FiniteSetTheorems, TLAPS

NotAhead == creates.window <= now /\ mutations.window <= now /\ global.window <= now

\* The transactions that hold the table lock, and what they know of the rows.
LockHeld == \A r \in Request : request[r].pc \in {"count", "insert", "commit"} => table = r
RoomKept == \A r \in Request : request[r].pc \in {"insert", "commit"} => ~Full
RowNew == \A r \in Request : request[r].pc = "commit" => request[r].row \in Session \ Retained
GoneHeld == gone # NoSession => table = Gone /\ ~Full /\ gone \in Session \ Retained

LimitsInv == NotAhead /\ LimitsExact
CapacityInv == LockHeld /\ RoomKept /\ RowNew /\ GoneHeld /\ CapacityKept /\ CredentialBacked
IInv == TypeOK /\ LimitsInv /\ CapacityInv

-----------------------------------------------------------------------------
(* Lemmas on the limiters *)

LEMMA RolledType ==
    ASSUME NEW K, NEW limit \in Limiter(K), now \in Nat
    PROVE  Rolled(limit) \in Limiter(K) /\ Rolled(limit).window = now
BY DEF Rolled, Limiter, NoCounts

LEMMA ChargedType ==
    ASSUME NEW K, NEW limit \in Limiter(K), now \in Nat, NEW k \in K
    PROVE  /\ Charged(limit, k) \in Limiter(K) /\ Charged(limit, k).window = now
           /\ Charged(limit, k).counts = [Rolled(limit).counts EXCEPT ![k] = @ + 1]
<1>1. Rolled(limit) \in Limiter(K) /\ Rolled(limit).window = now BY RolledType
<1> QED BY <1>1 DEF Charged, Limiter

\* A limiter that knows the current window is not changed by asking it again.
LEMMA RolledSame ==
    ASSUME NEW limit, limit.window = now
    PROVE  Rolled(limit) = limit
BY DEF Rolled

LEMMA InitTypeOK == Init => TypeOK
BY DEF Init, TypeOK, Limiter, Fresh, NoCounts, NoneAdmitted, Idle

LEMMA FiniteRows == TypeOK => IsFiniteSet(Retained) /\ IsFiniteSet(ActiveRows) /\ ActiveRows \subseteq Retained
<1>1. Retained \subseteq Session /\ ActiveRows \subseteq Session BY DEF Retained, ActiveRows
<1>2. IsFiniteSet(Session) BY EntryAssumption
<1>3. IsFiniteSet(Retained) /\ IsFiniteSet(ActiveRows) BY <1>1, <1>2, FS_Subset
<1> QED BY <1>3 DEF Retained, ActiveRows

-----------------------------------------------------------------------------
(* The limits *)

\* What a step that leaves the limiters alone leaves true.
LEMMA LimitsStay ==
    ASSUME LimitsInv, UNCHANGED limitVars
    PROVE  LimitsInv'
BY DEF limitVars, LimitsInv, NotAhead, LimitsExact, Rolled

\* Admission charges the three limiters with what is admitted.
LEMMA AdmitLimits ==
    ASSUME TypeOK, LimitsInv, NEW a \in Address, NEW creation \in BOOLEAN,
           Admit(a, creation)
    PROVE  /\ LimitsInv'
           /\ now' \in Nat
           /\ creates' \in Limiter(Address) /\ mutations' \in Limiter(Address)
           /\ global' \in Limiter({"all"})
           /\ admitted' \in [creates : [Address -> Nat], mutations : [Address -> Nat], all : Nat]
<1> USE DEF LimitsInv
<1> DEFINE A == admitted.creates  M == admitted.mutations
           Keys == {b \in Address : M[b] > 0}
<1>1. /\ now \in Nat /\ now' = now
      /\ A \in [Address -> Nat] /\ M \in [Address -> Nat] /\ admitted.all \in Nat
      /\ creates \in Limiter(Address) /\ mutations \in Limiter(Address)
      /\ global \in Limiter({"all"})
  BY DEF TypeOK, Admit
<1>2. /\ Rolled(creates).counts = A /\ Rolled(mutations).counts = M
      /\ Rolled(global).counts["all"] = admitted.all
      /\ Rolled(global).counts \in [{"all"} -> Nat]
  BY <1>1, RolledType DEF LimitsExact, Limiter
<1>3. /\ Charged(creates, a) \in Limiter(Address) /\ Charged(creates, a).window = now
      /\ Charged(creates, a).counts = [A EXCEPT ![a] = @ + 1]
  BY <1>1, <1>2, ChargedType
<1>4. /\ Charged(mutations, a) \in Limiter(Address) /\ Charged(mutations, a).window = now
      /\ Charged(mutations, a).counts = [M EXCEPT ![a] = @ + 1]
  BY <1>1, <1>2, ChargedType
<1>5. /\ Charged(global, "all") \in Limiter({"all"}) /\ Charged(global, "all").window = now
      /\ Charged(global, "all").counts = [Rolled(global).counts EXCEPT !["all"] = @ + 1]
  BY <1>1, ChargedType
<1>6. Charged(global, "all").counts["all"] = admitted.all + 1
  BY <1>2, <1>5
<1>7. /\ creates' = (IF creation THEN Charged(creates, a) ELSE creates)
      /\ mutations' = Charged(mutations, a) /\ global' = Charged(global, "all")
      /\ admitted'.creates = (IF creation THEN [A EXCEPT ![a] = @ + 1] ELSE A)
      /\ admitted'.mutations = [M EXCEPT ![a] = @ + 1]
      /\ admitted'.all = admitted.all + 1
      /\ admitted' \in [creates : [Address -> Nat], mutations : [Address -> Nat], all : Nat]
  BY <1>1 DEF Admit, TypeOK
<1>8. /\ creation => A[a] < CreatesPerMinute
      /\ M[a] < MutationsPerMinute /\ admitted.all < GlobalPerMinute
      /\ M[a] > 0 \/ Cardinality(Keys) < MaxKeys
  <2>1. DOMAIN M = Address BY <1>1
  <2>2. Available(mutations, a, MutationsPerMinute, MaxKeys) BY DEF Admit, MutationsOpen
  <2>3. M[a] < MutationsPerMinute /\ (M[a] > 0 \/ Cardinality(Keys) < MaxKeys)
    BY <1>2, <2>1, <2>2 DEF Available
  <2>4. creation => A[a] < CreatesPerMinute BY <1>2 DEF Admit, CreatesOpen, Available
  <2>5. admitted.all < GlobalPerMinute BY <1>2 DEF Admit, GlobalOpen, Available
  <2> QED BY <2>3, <2>4, <2>5
<1>9. Rolled(creates)'.counts = admitted'.creates
  <2>1. CASE creation
    BY <1>1, <1>3, <1>7, <2>1 DEF Rolled
  <2>2. CASE ~creation
    BY <1>1, <1>2, <1>7, <2>2 DEF Rolled
  <2> QED BY <2>1, <2>2
<1>10. Rolled(mutations)'.counts = admitted'.mutations
  BY <1>1, <1>4, <1>7 DEF Rolled
<1>11. Rolled(global)'.counts["all"] = admitted'.all
  BY <1>1, <1>5, <1>6, <1>7 DEF Rolled
<1>12. Cardinality({b \in Address : admitted'.mutations[b] > 0}) <= MaxKeys
  <2> DEFINE Charge == {b \in Address : admitted'.mutations[b] > 0}
  <2>1. Charge = Keys \cup {a} BY <1>1, <1>7
  <2>2. IsFiniteSet(Keys)
    <3>1. Keys \subseteq Address /\ IsFiniteSet(Address) BY EntryAssumption
    <3> QED BY <3>1, FS_Subset
  <2>3. Cardinality(Keys) \in Nat /\ Cardinality(Keys) <= MaxKeys
    BY <2>2, FS_CardinalityType DEF LimitsExact
  <2>4. CASE M[a] > 0
    <3>1. Charge = Keys BY <2>1, <2>4
    <3> QED BY <2>3, <3>1
  <2>5. CASE Cardinality(Keys) < MaxKeys
    <3>1. Cardinality(Keys \cup {a}) = IF a \in Keys THEN Cardinality(Keys) ELSE Cardinality(Keys) + 1
      BY <2>2, FS_AddElement
    <3> HIDE DEF Keys
    <3> QED BY <2>1, <2>3, <2>5, <3>1, EntryAssumption
  <2> QED BY <1>8, <2>4, <2>5
<1>13. /\ admitted'.all <= GlobalPerMinute
       /\ \A b \in Address : admitted'.creates[b] <= CreatesPerMinute
                            /\ admitted'.mutations[b] <= MutationsPerMinute
  BY <1>1, <1>7, <1>8, EntryAssumption DEF LimitsExact
<1>14. NotAhead'
  BY <1>1, <1>3, <1>4, <1>5, <1>7 DEF NotAhead
<1> QED BY <1>1, <1>3, <1>4, <1>5, <1>7, <1>9, <1>10, <1>11, <1>12, <1>13, <1>14 DEF LimitsExact

\* A refusal charges nobody: rolling a limiter is not seen in its counts.
LEMMA TooManyLimits ==
    ASSUME TypeOK, LimitsInv, NEW a \in Address, NEW creation \in BOOLEAN,
           TooMany(a, creation)
    PROVE  TypeOK' /\ LimitsInv'
<1> USE DEF LimitsInv
<1>1. /\ now \in Nat /\ now' = now /\ admitted' = admitted
      /\ creates \in Limiter(Address) /\ mutations \in Limiter(Address)
      /\ global \in Limiter({"all"})
  BY DEF TypeOK, TooMany
<1>2. /\ creates' \in {creates, Rolled(creates)}
      /\ mutations' \in {mutations, Rolled(mutations)}
      /\ global' \in {global, Rolled(global)}
  BY DEF TooMany
<1>3. /\ Rolled(creates) \in Limiter(Address) /\ Rolled(creates).window = now
      /\ Rolled(mutations) \in Limiter(Address) /\ Rolled(mutations).window = now
      /\ Rolled(global) \in Limiter({"all"}) /\ Rolled(global).window = now
  BY <1>1, RolledType
<1>4. Rolled(creates)' = Rolled(creates) BY <1>1, <1>2, <1>3 DEF Rolled
<1>5. Rolled(mutations)' = Rolled(mutations) BY <1>1, <1>2, <1>3 DEF Rolled
<1>6. Rolled(global)' = Rolled(global) BY <1>1, <1>2, <1>3 DEF Rolled
<1>7. NotAhead' BY <1>1, <1>2, <1>3 DEF NotAhead
<1>8. LimitsExact' BY <1>1, <1>4, <1>5, <1>6 DEF LimitsExact
<1>9. TypeOK' BY <1>1, <1>2, <1>3 DEF TypeOK, TooMany, sessionVars
<1> QED BY <1>7, <1>8, <1>9

\* A new minute forgets in every limiter what it forgets in the history.
LEMMA TickLimits ==
    ASSUME TypeOK, LimitsInv, Tick
    PROVE  TypeOK' /\ LimitsInv'
<1> USE DEF LimitsInv
<1>1. /\ now \in Nat /\ now' = now + 1 /\ admitted' = NoneAdmitted
      /\ creates' = creates /\ mutations' = mutations /\ global' = global
      /\ creates \in Limiter(Address) /\ mutations \in Limiter(Address)
      /\ global \in Limiter({"all"})
  BY DEF TypeOK, Tick
<1>2. creates.window # now' /\ mutations.window # now' /\ global.window # now'
  BY <1>1 DEF NotAhead, Limiter
<1>3. NotAhead' BY <1>1 DEF NotAhead, Limiter
<1>4. /\ Rolled(creates)'.counts = NoCounts(Address)
      /\ Rolled(mutations)'.counts = NoCounts(Address)
      /\ Rolled(global)'.counts = NoCounts({"all"})
  BY <1>1, <1>2 DEF Rolled, Limiter
<1>5. {a \in Address : admitted'.mutations[a] > 0} = {} BY <1>1 DEF NoneAdmitted, NoCounts
<1>6. LimitsExact'
  <2>1. Cardinality({a \in Address : admitted'.mutations[a] > 0}) <= MaxKeys
    BY <1>5, FS_EmptySet, EntryAssumption
  <2>2. /\ admitted'.creates = NoCounts(Address) /\ admitted'.mutations = NoCounts(Address)
        /\ admitted'.all = 0 /\ NoCounts({"all"})["all"] = 0
    BY <1>1 DEF NoneAdmitted, NoCounts
  <2>3. \A a \in Address : NoCounts(Address)[a] = 0 BY DEF NoCounts
  <2> QED BY <1>4, <2>1, <2>2, <2>3, EntryAssumption DEF LimitsExact
<1>7. TypeOK' BY <1>1 DEF TypeOK, Tick, NoneAdmitted, NoCounts, sessionVars
<1> QED BY <1>3, <1>6, <1>7

\* The steps that are not those of the limiters leave the limiters alone.
LEMMA NextLimits ==
    ASSUME [Next]_vars
    PROVE  \/ UNCHANGED limitVars
           \/ \E a \in Address, creation \in BOOLEAN : Admit(a, creation) \/ TooMany(a, creation)
           \/ Tick
<1>1. ASSUME NEW r \in Request, AskForSession(r)
      PROVE  \E a \in Address, creation \in BOOLEAN : Admit(a, creation)
  BY <1>1 DEF AskForSession
<1>2. ASSUME NEW r \in Request, Step(r) PROVE UNCHANGED limitVars
  BY <1>2 DEF Step, LockTable, LockTimeout, CountRows, Insert, Commit, CommitLost, Fail
<1>3. Mutate => \E a \in Address, creation \in BOOLEAN : Admit(a, creation) BY DEF Mutate
<1>4. GoneEnds \/ EndSession => UNCHANGED limitVars BY DEF GoneEnds, EndSession
<1> QED BY <1>1, <1>2, <1>3, <1>4 DEF Next, vars

\* Every step keeps the types.
LEMMA TypeStep == IInv /\ [Next]_vars => TypeOK'
<1> SUFFICES ASSUME TypeOK, LimitsInv, CapacityInv, [Next]_vars PROVE TypeOK' BY DEF IInv
<1>1. ASSUME NEW r \in Request, AskForSession(r) PROVE TypeOK'
  <2>1. PICK a \in Address : Admit(a, TRUE) BY <1>1 DEF AskForSession
  <2>2. /\ now' \in Nat
        /\ creates' \in Limiter(Address) /\ mutations' \in Limiter(Address)
        /\ global' \in Limiter({"all"})
        /\ admitted' \in [creates : [Address -> Nat], mutations : [Address -> Nat], all : Nat]
    BY <2>1, AdmitLimits
  <2> QED BY <1>1, <2>2 DEF TypeOK, AskForSession, Go
<1>2. ASSUME NEW r \in Request, Step(r) PROVE TypeOK'
  <2>1. UNCHANGED limitVars
    BY <1>2 DEF Step, LockTable, LockTimeout, CountRows, Insert, Commit, CommitLost, Fail
  <2>2. CASE LockTable(r) \/ LockTimeout(r) \/ CountRows(r)
    BY <2>1, <2>2 DEF LockTable, LockTimeout, CountRows, TypeOK, limitVars, Go, Ended, Idle
  <2>3. CASE Insert(r)
    <3>1. UNCHANGED <<gone, rows, issued>> /\ table' \in {table, Nobody} BY <2>3 DEF Insert
    <3>2. \/ request' = [request EXCEPT ![r] = Idle]
          \/ request' = [request EXCEPT ![r].tries = @ + 1]
          \/ \E c \in Session : request' = [request EXCEPT ![r].pc = "commit", ![r].row = c]
      BY <2>3 DEF Insert, Ended
    <3>3. request' \in [Request -> [pc : {"idle", "lock", "count", "insert", "commit"}, tries : Nat,
                                    row : Session \cup {NoSession}]]
      BY <3>2 DEF TypeOK, Idle
    <3> QED BY <2>1, <3>1, <3>3 DEF TypeOK, limitVars
  <2>4. CASE Commit(r)
    <3>1. request[r] \in [pc : {"idle", "lock", "count", "insert", "commit"}, tries : Nat,
                          row : Session \cup {NoSession}]
      BY DEF TypeOK
    <3>2. request[r].row \in Session BY <2>4 DEF Commit, CapacityInv, RowNew
    <3>3. rows' \in [Session -> {"absent", "active", "ended"}] /\ issued' \subseteq Session
      BY <2>4, <3>2 DEF Commit, TypeOK
    <3> QED BY <2>1, <2>4, <3>3 DEF Commit, TypeOK, limitVars, Ended, Idle
  <2>5. CASE CommitLost(r) \/ Fail(r)
    BY <2>1, <2>5 DEF CommitLost, Fail, TypeOK, limitVars, Ended, Idle
  <2> QED BY <1>2, <2>2, <2>3, <2>4, <2>5 DEF Step
<1>3. ASSUME NEW a \in Address, NEW creation \in BOOLEAN, TooMany(a, creation) PROVE TypeOK'
  BY <1>3, TooManyLimits
<1>4. CASE Mutate
  <2>1. PICK a \in Address, creation \in BOOLEAN : Admit(a, creation) BY <1>4 DEF Mutate
  <2>2. /\ now' \in Nat
        /\ creates' \in Limiter(Address) /\ mutations' \in Limiter(Address)
        /\ global' \in Limiter({"all"})
        /\ admitted' \in [creates : [Address -> Nat], mutations : [Address -> Nat], all : Nat]
    BY <2>1, AdmitLimits
  <2> QED BY <1>4, <2>2 DEF TypeOK, Mutate, sessionVars
<1>5. CASE Tick BY <1>5, TickLimits
<1>6. CASE GoneEnds BY <1>6 DEF TypeOK, GoneEnds, limitVars
<1>7. CASE EndSession BY <1>7 DEF TypeOK, EndSession, limitVars
<1>8. CASE UNCHANGED vars BY <1>8 DEF TypeOK, vars, limitVars, sessionVars
<1> QED BY <1>1, <1>2, <1>3, <1>4, <1>5, <1>6, <1>7, <1>8 DEF Next

LEMMA LimitsStep == IInv /\ [Next]_vars => LimitsInv'
<1> SUFFICES ASSUME TypeOK, LimitsInv, [Next]_vars PROVE LimitsInv' BY DEF IInv
<1>1. CASE UNCHANGED limitVars BY <1>1, LimitsStay
<1>2. ASSUME NEW a \in Address, NEW creation \in BOOLEAN, Admit(a, creation)
      PROVE  LimitsInv'
  BY <1>2, AdmitLimits
<1>3. ASSUME NEW a \in Address, NEW creation \in BOOLEAN, TooMany(a, creation)
      PROVE  LimitsInv'
  BY <1>3, TooManyLimits
<1>4. CASE Tick BY <1>4, TickLimits
<1> QED BY <1>1, <1>2, <1>3, <1>4, NextLimits

-----------------------------------------------------------------------------
(* The capacity *)

\* A row more fits when the table was not full.
LEMMA RowAdded ==
    ASSUME TypeOK, NEW s \in Session \ Retained, rows' = [rows EXCEPT ![s] = "active"], ~Full
    PROVE  CapacityKept' /\ Retained' = Retained \cup {s}
<1>1. Retained' = Retained \cup {s} BY DEF Retained, TypeOK
<1>2. ActiveRows' = ActiveRows \cup {s} BY DEF ActiveRows, TypeOK
<1>3. IsFiniteSet(Retained) /\ IsFiniteSet(ActiveRows) /\ s \notin ActiveRows BY FiniteRows
<1>4. /\ Cardinality(Retained') = Cardinality(Retained) + 1
      /\ Cardinality(ActiveRows') = Cardinality(ActiveRows) + 1
  BY <1>1, <1>2, <1>3, FS_AddElement
<1>5. Cardinality(Retained) \in Nat /\ Cardinality(ActiveRows) \in Nat
  BY <1>3, FS_CardinalityType
<1>6. Cardinality(ActiveRows) < ActiveCapacity /\ Cardinality(Retained) < RetainedCapacity
  BY <1>5, EntryAssumption DEF Full
<1>7. Cardinality(ActiveRows)' <= ActiveCapacity /\ Cardinality(Retained)' <= RetainedCapacity
  BY <1>4, <1>5, <1>6, EntryAssumption
<1> QED BY <1>1, <1>7 DEF CapacityKept

\* An end makes room and forgets no row.
LEMMA RowEnded ==
    ASSUME TypeOK, EndSession
    PROVE  /\ Retained' = Retained
           /\ CapacityKept => CapacityKept'
           /\ ~Full => ~Full'
<1>1. PICK s \in ActiveRows : rows' = [rows EXCEPT ![s] = "ended"] BY DEF EndSession
<1>2. Retained' = Retained BY <1>1 DEF Retained, ActiveRows, TypeOK
<1>3. ActiveRows' \subseteq ActiveRows BY <1>1 DEF ActiveRows, TypeOK
<1>4. IsFiniteSet(ActiveRows) /\ IsFiniteSet(Retained) BY FiniteRows
<1>5. /\ Cardinality(ActiveRows') <= Cardinality(ActiveRows)
      /\ Cardinality(ActiveRows') \in Nat /\ Cardinality(ActiveRows) \in Nat
      /\ Cardinality(Retained) \in Nat
  BY <1>3, <1>4, FS_Subset, FS_CardinalityType
<1>6. Cardinality(Retained') = Cardinality(Retained) BY <1>2
<1> QED BY <1>2, <1>5, <1>6, EntryAssumption DEF CapacityKept, Full

\* What the rows tell is unchanged while they are.
LEMMA RowsStay ==
    ASSUME UNCHANGED rows
    PROVE  /\ Retained' = Retained /\ ActiveRows' = ActiveRows
           /\ CapacityKept' = CapacityKept /\ Full' = Full
BY DEF Retained, ActiveRows, CapacityKept, Full

\* Only the transaction that holds the lock reaches the rows.
LEMMA CapacityStep == IInv /\ [Next]_vars => CapacityInv'
<1> SUFFICES ASSUME TypeOK, CapacityInv, [Next]_vars PROVE CapacityInv' BY DEF IInv
<1> USE DEF CapacityInv
<1>1. CASE UNCHANGED sessionVars
  BY <1>1, RowsStay DEF sessionVars, LockHeld, RoomKept, RowNew, GoneHeld, CredentialBacked
<1>2. ASSUME NEW r \in Request, AskForSession(r) \/ LockTable(r) \/ LockTimeout(r) \/ CountRows(r)
      PROVE  CapacityInv'
  <2>1. UNCHANGED <<rows, gone, issued>>
    BY <1>2 DEF AskForSession, LockTable, LockTimeout, CountRows
  <2>2. LockHeld' /\ RoomKept' /\ RowNew' /\ GoneHeld'
    <3>1. CASE AskForSession(r)
      BY <2>1, <3>1, RowsStay DEF AskForSession, Go, TypeOK, LockHeld, RoomKept, RowNew, GoneHeld
    <3>2. CASE LockTable(r)
      <4>1. table = Nobody /\ table' = r /\ request' = [request EXCEPT ![r].pc = "count"]
        BY <3>2 DEF LockTable, Go
      <4>2. \A q \in Request : request[q].pc \notin {"count", "insert", "commit"}
        BY <4>1, EntryAssumption DEF LockHeld
      <4>3. \A q \in Request : request'[q].pc \in {"count", "insert", "commit"}
                                 => q = r /\ request'[q].pc = "count"
        BY <4>1, <4>2 DEF TypeOK
      <4>4. gone = NoSession BY <4>1, EntryAssumption DEF GoneHeld
      <4> QED BY <2>1, <4>1, <4>3, <4>4 DEF LockHeld, RoomKept, RowNew, GoneHeld
    <3>3. CASE LockTimeout(r)
      BY <2>1, <3>3, RowsStay
      DEF LockTimeout, Ended, Idle, TypeOK, LockHeld, RoomKept, RowNew, GoneHeld
    <3>4. CASE CountRows(r) /\ Full
      <4>1. /\ request' = [request EXCEPT ![r] = Idle] /\ table' = Nobody /\ table = r
        BY <3>4 DEF CountRows, Ended, LockHeld
      <4>2. \A q \in Request : request'[q].pc \notin {"count", "insert", "commit"}
        BY <4>1 DEF LockHeld, TypeOK, Idle
      <4>3. gone = NoSession BY <4>1, EntryAssumption DEF GoneHeld
      <4> QED BY <2>1, <4>2, <4>3 DEF LockHeld, RoomKept, RowNew, GoneHeld
    <3>5. CASE CountRows(r) /\ ~Full
      <4>1. /\ request' = [request EXCEPT ![r].pc = "insert"] /\ table' = table /\ table = r
        BY <3>5 DEF CountRows, Go, LockHeld
      <4>2. \A q \in Request : request'[q].pc \in {"count", "insert", "commit"}
                                 => q = r /\ request'[q].pc = "insert"
        BY <4>1 DEF LockHeld, TypeOK
      <4>3. gone = NoSession BY <4>1, EntryAssumption DEF GoneHeld
      <4>4. ~Full' BY <2>1, <3>5, RowsStay
      <4> QED BY <2>1, <4>1, <4>2, <4>3, <4>4 DEF LockHeld, RoomKept, RowNew, GoneHeld
    <3> QED BY <1>2, <3>1, <3>2, <3>3, <3>4, <3>5
  <2> QED BY <2>1, <2>2, RowsStay DEF CredentialBacked
<1>3. ASSUME NEW r \in Request, Insert(r) PROVE CapacityInv'
  <2>1. UNCHANGED <<rows, gone, issued>> BY <1>3 DEF Insert
  <2>2. table = r BY <1>3 DEF Insert, LockHeld
  <2>3. LockHeld' BY <1>3, <2>2 DEF Insert, LockHeld, TypeOK, Ended, Idle
  <2>4. RoomKept' BY <1>3, <2>1, RowsStay DEF Insert, RoomKept, TypeOK, Ended, Idle
  <2>5. RowNew' BY <1>3, <2>1, RowsStay DEF Insert, RowNew, TypeOK, Ended, Idle
  <2>6. GoneHeld' BY <2>1, <2>2, EntryAssumption DEF GoneHeld
  <2> QED BY <2>1, <2>3, <2>4, <2>5, <2>6, RowsStay DEF CredentialBacked
<1>4. ASSUME NEW r \in Request, Commit(r) PROVE CapacityInv'
  <2> DEFINE s == request[r].row
  <2>1. /\ table = r /\ ~Full /\ s \in Session \ Retained
    BY <1>4 DEF Commit, LockHeld, RoomKept, RowNew
  <2>2. /\ rows' = [rows EXCEPT ![s] = "active"] /\ issued' = issued \cup {s}
        /\ gone' = gone /\ table' = Nobody /\ request' = [request EXCEPT ![r] = Idle]
    BY <1>4 DEF Commit, Ended
  <2>3. CapacityKept' /\ Retained' = Retained \cup {s} BY <2>1, <2>2, RowAdded
  <2>4. \A q \in Request : request'[q].pc \notin {"count", "insert", "commit"}
    BY <2>1, <2>2 DEF LockHeld, TypeOK, Idle
  <2>5. LockHeld' /\ RoomKept' /\ RowNew' BY <2>4 DEF LockHeld, RoomKept, RowNew
  <2>6. GoneHeld' BY <2>1, <2>2, EntryAssumption DEF GoneHeld
  <2>7. CredentialBacked' BY <2>2, <2>3 DEF CredentialBacked
  <2> QED BY <2>3, <2>5, <2>6, <2>7
<1>5. ASSUME NEW r \in Request, CommitLost(r) PROVE CapacityInv'
  <2> DEFINE s == request[r].row
  <2>1. /\ table = r /\ ~Full /\ s \in Session \ Retained
    BY <1>5 DEF CommitLost, LockHeld, RoomKept, RowNew
  <2>2. /\ UNCHANGED <<rows, issued>> /\ gone' = s /\ table' = Gone
        /\ request' = [request EXCEPT ![r] = Idle]
    BY <1>5 DEF CommitLost, Ended
  <2>3. \A q \in Request : request'[q].pc \notin {"count", "insert", "commit"}
    BY <2>1, <2>2 DEF LockHeld, TypeOK, Idle
  <2>4. LockHeld' /\ RoomKept' /\ RowNew' BY <2>3 DEF LockHeld, RoomKept, RowNew
  <2>5. GoneHeld' BY <2>1, <2>2, RowsStay DEF GoneHeld
  <2> QED BY <2>2, <2>4, <2>5, RowsStay DEF CredentialBacked
<1>6. ASSUME NEW r \in Request, Fail(r) PROVE CapacityInv'
  <2>1. /\ UNCHANGED <<rows, issued>> /\ request' = [request EXCEPT ![r] = Idle]
        /\ IF table = r THEN gone' = NoSession ELSE UNCHANGED <<table, gone>>
    BY <1>6 DEF Fail, Ended
  <2>2. LockHeld' BY <2>1 DEF LockHeld, TypeOK, Idle
  <2>3. RoomKept' BY <2>1, RowsStay DEF RoomKept, TypeOK, Idle
  <2>4. RowNew' BY <2>1, RowsStay DEF RowNew, TypeOK, Idle
  <2>5. GoneHeld' BY <2>1, RowsStay DEF GoneHeld
  <2> QED BY <2>1, <2>2, <2>3, <2>4, <2>5, RowsStay DEF CredentialBacked
<1>7. CASE GoneEnds
  <2>1. table = Gone /\ gone' = NoSession /\ table' = Nobody /\ UNCHANGED <<request, issued>>
    BY <1>7 DEF GoneEnds
  <2>2. \A q \in Request : request[q].pc \notin {"count", "insert", "commit"}
    BY <2>1, EntryAssumption DEF LockHeld
  <2>3. LockHeld' /\ RoomKept' /\ RowNew' /\ GoneHeld'
    BY <2>1, <2>2 DEF LockHeld, RoomKept, RowNew, GoneHeld
  <2>4. CASE UNCHANGED rows
    BY <2>1, <2>3, <2>4, RowsStay DEF CredentialBacked
  <2>5. CASE gone # NoSession /\ rows' = [rows EXCEPT ![gone] = "active"]
    <3>1. gone \in Session \ Retained /\ ~Full BY <2>5 DEF GoneHeld
    <3>2. CapacityKept' /\ Retained' = Retained \cup {gone} BY <2>5, <3>1, RowAdded
    <3> QED BY <2>1, <2>3, <3>2 DEF CredentialBacked
  <2> QED BY <1>7, <2>4, <2>5 DEF GoneEnds
<1>8. CASE EndSession
  <2>1. UNCHANGED <<request, table, gone, issued>> BY <1>8 DEF EndSession
  <2>2. Retained' = Retained /\ CapacityKept' /\ (~Full => ~Full') BY <1>8, RowEnded
  <2> QED BY <2>1, <2>2 DEF LockHeld, RoomKept, RowNew, GoneHeld, CredentialBacked
<1>9. \/ UNCHANGED sessionVars \/ GoneEnds \/ EndSession
      \/ \E r \in Request : AskForSession(r) \/ Step(r)
  BY DEF Next, vars, TooMany, Tick, Mutate
<1> QED BY <1>1, <1>2, <1>3, <1>4, <1>5, <1>6, <1>7, <1>8, <1>9 DEF Step

-----------------------------------------------------------------------------
(* The theorems *)

LEMMA InitIInv == Init => IInv
<1> SUFFICES ASSUME Init PROVE IInv OBVIOUS
<1>1. TypeOK BY InitTypeOK
<1>2. NotAhead BY DEF Init, NotAhead, Fresh
<1>3. {a \in Address : admitted.mutations[a] > 0} = {} BY DEF Init, NoneAdmitted, NoCounts
<1>4. Cardinality({a \in Address : admitted.mutations[a] > 0}) <= MaxKeys
  BY <1>3, FS_EmptySet, EntryAssumption
<1>5. LimitsExact
  BY <1>4, EntryAssumption DEF Init, LimitsExact, Rolled, Fresh, NoneAdmitted, NoCounts
<1>6. Retained = {} /\ ActiveRows = {} BY DEF Init, Retained, ActiveRows
<1>7. CapacityKept BY <1>6, FS_EmptySet, EntryAssumption DEF CapacityKept
<1>8. LockHeld /\ RoomKept /\ RowNew /\ GoneHeld /\ CredentialBacked
  BY DEF Init, Idle, LockHeld, RoomKept, RowNew, GoneHeld, CredentialBacked
<1> QED BY <1>1, <1>2, <1>5, <1>7, <1>8 DEF IInv, LimitsInv, CapacityInv

\* The invariant holds for every number of requests, addresses and candidates.
THEOREM EntryInvariant == Spec => []IInv
<1>1. IInv /\ [Next]_vars => IInv' BY TypeStep, LimitsStep, CapacityStep DEF IInv
<1> QED BY InitIInv, <1>1, PTL DEF Spec

\* Every mutation of the public Demo is charged once, when it is admitted, and no
\* minute admits more than its limits, whatever the order of the requests.
THEOREM LimitsHold == Spec => []LimitsExact
<1>1. IInv => LimitsExact BY DEF IInv, LimitsInv
<1> QED BY EntryInvariant, <1>1, PTL

\* No interleaving of creations takes the sessions beyond the capacity, lost
\* COMMITs included.
THEOREM CapacityHolds == Spec => []CapacityKept
<1>1. IInv => CapacityKept BY DEF IInv, CapacityInv
<1> QED BY EntryInvariant, <1>1, PTL

\* Every credential a client has is one of a session in the table.
THEOREM CredentialsHold == Spec => []CredentialBacked
<1>1. IInv => CredentialBacked BY DEF IInv, CapacityInv
<1> QED BY EntryInvariant, <1>1, PTL
=============================================================================
