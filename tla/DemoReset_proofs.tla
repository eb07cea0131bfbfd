--------------------------- MODULE DemoReset_proofs ---------------------------
(***************************************************************************)
(* Proofs about resets, maintenance and what a lost COMMIT leaves, for any *)
(* sessions, operations, resets, limits and faults.                        *)
(***************************************************************************)
EXTENDS DemoRuntime_proofs

----------------------------------------------------------------------------
(* The inductive invariant of the reservations *)

\* Cleaner m has to finish, or is finishing, the reservation of session s that
\* cleaner h made.
Remembers(m, h, s) ==
    cleaner[m].todo[s] = h \/ (cleaner[m].session = s /\ cleaner[m].holds = h)

\* A reset finishes its own reservation and nothing else; who has not reserved
\* anything finishes nothing.
Roles(k) ==
    /\ k \in Resetter =>
          /\ cleaner[k].todo = NothingToDo /\ cleaner[k].then = "idle"
          /\ cleaner[k].holds \in {k, NoCleaner}
          /\ cleaner[k].pc \notin {"recover", "sweep", "await"}
    /\ k \in Sweeper => cleaner[k].pc # "authenticated"
    /\ cleaner[k].pc \in {"idle", "authenticated", "recover", "sweep", "await"} =>
          cleaner[k].holds = NoCleaner
    /\ cleaner[k].pc \notin {"idle", "recover", "sweep"} => cleaner[k].session \in Session

\* Of a reservation that a reset asks for, others know an earlier one at most,
\* which is still held.
Asks(k) ==
    cleaner[k].pc = "authenticated" =>
        \A m \in Cleaner \ {k} : Remembers(m, k, cleaner[k].session) => lease[cleaner[k].session] = k

\* A cleanup transaction runs under a reservation of which no other cleaner
\* knows.
Cleaning == {"lock", "locked", "commit"}

Cleans(k) ==
    cleaner[k].pc \in Cleaning =>
        /\ cleaner[k].holds = k
        /\ lease[cleaner[k].session] = k
        /\ pending[cleaner[k].session] # k
        /\ cleaner[k].todo[cleaner[k].session] = NoCleaner
        /\ cleaner[k].pc = "lock" => RowFree(cleaner[k].session)
        /\ cleaner[k].pc = "locked" => txn[cleaner[k].session] = "open"
        /\ \A m \in Cleaner \ {k} : ~ Remembers(m, k, cleaner[k].session)

\* An outcome that was read stays decided while its reservation is held.
Reads(k) ==
    /\ cleaner[k].pc \in {"read", "known"} =>
          cleaner[k].holds \in Cleaner /\ cleaner[k].todo[cleaner[k].session] = NoCleaner
    /\ cleaner[k].pc = "known" /\ lease[cleaner[k].session] = cleaner[k].holds =>
          RowFree(cleaner[k].session)

CleanerInv(k) == Roles(k) /\ Asks(k) /\ Cleans(k) /\ Reads(k)

\* An unknown outcome is that of a reservation which is held.
PendingHeld == \A s \in Session : pending[s] # NoCleaner => lease[s] = pending[s]

\* A stopped process does nothing.
Stopped ==
    server = "starting" =>
        /\ \A k \in Cleaner : cleaner[k].pc = "idle"
        /\ \A o \in Operation : op[o].pc = "idle"

LeaseInv ==
    /\ \A k \in Cleaner : CleanerInv(k)
    /\ PendingHeld
    /\ Stopped
    /\ UndecidedIsReserved

----------------------------------------------------------------------------
(* What a cleaner does to the others *)

\* What one cleaner may do: remember what is pending, take a reservation nobody
\* knows of, give the one back that it finishes once its transaction is decided,
\* and write the row of the session it cleans.
Touches(k) ==
    /\ \A m \in Cleaner \ {k} : cleaner'[m] = cleaner[m]
    /\ \A h \in Cleaner \ {k}, t \in Session :
          Remembers(k, h, t)' => Remembers(k, h, t) \/ pending[t] = h
    /\ \A t \in Session :
          /\ \/ lease'[t] = lease[t]
             \/ /\ lease[t] = NoCleaner /\ lease'[t] = k
                /\ \A m \in Cleaner \ {k} : ~ Remembers(m, k, t)
             \/ /\ lease'[t] = NoCleaner
                /\ \E h \in Cleaner :
                      /\ lease[t] = h /\ cleaner[k].holds = h /\ cleaner[k].session = t
                      /\ h # k => ~ Remembers(k, h, t)'
                /\ RowFree(t)'
          /\ pending'[t] \in {pending[t], NoCleaner, k}
          /\ pending'[t] # NoCleaner => lease'[t] = pending'[t]
          /\ txn'[t] = txn[t] \/ (cleaner[k].pc \in Cleaning /\ cleaner[k].session = t)

\* Only maintenance remembers reservations of others, and there is one.
LEMMA OnlyMaintenanceRemembers ==
    ASSUME LeaseInv, NEW m \in Cleaner, NEW h \in Cleaner, NEW s \in Session,
           m # h, Remembers(m, h, s)
    PROVE  m \in Sweeper
<1>1. Roles(m) /\ h # NoCleaner
  BY GateAssumption DEF LeaseInv, CleanerInv
<1>2. NothingToDo[s] = NoCleaner
  BY DEF NothingToDo
<1> QED BY <1>1, <1>2, CleanerAssumption DEF Roles, Remembers

LEMMA OthersKeep ==
    ASSUME LeaseInv, NEW k \in Cleaner, Touches(k), NEW j \in Cleaner \ {k}
    PROVE  CleanerInv(j)'
<1>1. CleanerInv(j) /\ CleanerInv(k) /\ PendingHeld /\ cleaner'[j] = cleaner[j]
  BY DEF LeaseInv, Touches
<1>2. Roles(j)'
  BY <1>1 DEF CleanerInv, Roles
<1>3. PICK s : s = cleaner[j].session
  OBVIOUS
<1>4. cleaner[j].pc \notin {"idle", "recover", "sweep"} => s \in Session
  BY <1>1, <1>3 DEF CleanerInv, Roles
<1>5. ASSUME NEW m \in Cleaner \ {j}, s \in Session, Remembers(m, j, s)'
      PROVE  Remembers(m, j, s) \/ pending[s] = j
  <2>1. CASE m = k
    BY <1>5, <2>1 DEF Touches
  <2>2. CASE m # k
    BY <1>5, <2>2 DEF Touches, Remembers
  <2> QED BY <2>1, <2>2
<1>6. Asks(j)'
  <2> SUFFICES ASSUME cleaner[j].pc = "authenticated", NEW m \in Cleaner \ {j}, Remembers(m, j, s)'
               PROVE  lease'[s] = j
    BY <1>1, <1>3 DEF Asks
  <2>1. s \in Session
    BY <1>4
  <2>2. lease[s] = j
    BY <1>1, <1>3, <1>5, <2>1, GateAssumption DEF CleanerInv, Asks, PendingHeld
  <2>3. SUFFICES ASSUME lease'[s] # j PROVE FALSE
    OBVIOUS
  <2>4. Remembers(k, j, s) /\ ~ Remembers(k, j, s)'
    BY <2>1, <2>2, <2>3, GateAssumption DEF Touches, Remembers
  <2>5. m # k /\ Remembers(m, j, s)
    BY <2>4 DEF Touches, Remembers
  <2> QED BY <2>1, <2>4, <2>5, OnlyMaintenanceRemembers, MaintenanceAssumption
<1>7. Cleans(j)'
  <2> SUFFICES ASSUME cleaner[j].pc \in Cleaning PROVE Cleans(j)'
    BY <1>1 DEF Cleans
  <2>1. s \in Session
    BY <1>4 DEF Cleaning
  <2>2. /\ cleaner[j].holds = j /\ lease[s] = j /\ pending[s] # j
        /\ cleaner[j].todo[s] = NoCleaner
        /\ cleaner[j].pc = "lock" => RowFree(s)
        /\ cleaner[j].pc = "locked" => txn[s] = "open"
        /\ \A m \in Cleaner \ {j} : ~ Remembers(m, j, s)
    BY <1>1, <1>3 DEF CleanerInv, Cleans
  <2>3. lease'[s] = j
    BY <2>1, <2>2, GateAssumption DEF Touches, Remembers
  <2>4. pending'[s] # j
    BY <2>1, <2>2, GateAssumption DEF Touches
  <2>5. txn'[s] = txn[s]
    BY <1>1, <2>1, <2>2 DEF Touches, CleanerInv, Cleans
  <2>6. \A m \in Cleaner \ {j} : ~ Remembers(m, j, s)'
    BY <1>5, <2>1, <2>2
  <2> QED BY <1>1, <1>3, <2>2, <2>3, <2>4, <2>5, <2>6 DEF Cleans, RowFree
<1>8. Reads(j)'
  <2>1. cleaner[j].pc \in {"read", "known"} =>
           cleaner[j].holds \in Cleaner /\ cleaner[j].todo[s] = NoCleaner
    BY <1>1, <1>3 DEF CleanerInv, Reads
  <2>2. ASSUME cleaner[j].pc = "known", lease'[s] = cleaner[j].holds
        PROVE  RowFree(s)'
    <3>1. s \in Session /\ cleaner[j].holds \in Cleaner /\ cleaner[j].holds # NoCleaner
      BY <1>4, <2>1, <2>2, GateAssumption
    <3>2. Remembers(j, cleaner[j].holds, s)
      BY <1>3 DEF Remembers
    <3>3. lease[s] = cleaner[j].holds
      BY <2>2, <3>1, <3>2 DEF Touches
    <3>4. RowFree(s)
      BY <1>1, <1>3, <2>2, <3>3 DEF CleanerInv, Reads
    <3>5. txn'[s] = txn[s]
      <4> SUFFICES ASSUME cleaner[k].pc \in Cleaning, cleaner[k].session = s PROVE FALSE
        BY <3>1 DEF Touches
      <4>1. lease[s] = k /\ ~ Remembers(j, k, s)
        BY <1>1 DEF CleanerInv, Cleans
      <4> QED BY <3>2, <3>3, <4>1
    <3> QED BY <3>4, <3>5 DEF RowFree
  <2> QED BY <1>1, <1>3, <2>1, <2>2 DEF Reads
<1> QED BY <1>2, <1>6, <1>7, <1>8 DEF CleanerInv

\* So it is enough to look at the cleaner that takes the step.
LEMMA TouchesKeeps ==
    ASSUME LeaseInv, NEW k \in Cleaner, Touches(k), CleanerInv(k)',
           server # "starting", UNCHANGED server
    PROVE  LeaseInv'
<1>1. \A j \in Cleaner : CleanerInv(j)'
  BY OthersKeep
<1>2. PendingHeld'
  BY DEF Touches, PendingHeld
<1>3. Stopped'
  BY DEF Stopped
<1>4. UndecidedIsReserved'
  <2> SUFFICES ASSUME NEW s \in Session, ~ RowFree(s)', lease'[s] = NoCleaner
               PROVE  FALSE
    BY DEF UndecidedIsReserved
  <2>1. lease[s] = NoCleaner
    BY GateAssumption DEF Touches
  <2>2. RowFree(s)
    BY <2>1 DEF LeaseInv, UndecidedIsReserved
  <2>3. cleaner[k].pc \in Cleaning /\ cleaner[k].session = s
    BY <2>2 DEF Touches, RowFree
  <2>4. lease[s] = k
    BY <2>3 DEF LeaseInv, CleanerInv, Cleans
  <2> QED BY <2>1, <2>4, GateAssumption
<1> QED BY <1>1, <1>2, <1>3, <1>4 DEF LeaseInv

----------------------------------------------------------------------------
(* The steps of a cleaner *)

\* A step that neither reserves nor releases, nor writes what is shared.
LEMMA QuietTouches ==
    ASSUME ResetTypeOK, PendingHeld, NEW k \in Cleaner, NEW record \in CleanerRecord,
           cleaner' = [cleaner EXCEPT ![k] = record],
           UNCHANGED <<lease, pending, txn>>,
           \A h \in Cleaner \ {k}, t \in Session :
              record.todo[t] = h \/ (record.session = t /\ record.holds = h) =>
                 Remembers(k, h, t) \/ pending[t] = h
    PROVE  Touches(k) /\ cleaner'[k] = record
<1>1. cleaner'[k] = record /\ \A m \in Cleaner \ {k} : cleaner'[m] = cleaner[m]
  BY DEF ResetTypeOK
<1>2. \A h \in Cleaner \ {k}, t \in Session : Remembers(k, h, t)' => Remembers(k, h, t) \/ pending[t] = h
  BY <1>1 DEF Remembers
<1> QED BY <1>1, <1>2 DEF Touches, PendingHeld

LEMMA AuthenticateKeeps ==
    ASSUME ResetTypeOK, LeaseInv, NEW k \in Cleaner, NEW s \in Session, AuthenticateReset(k, s),
           UNCHANGED lease
    PROVE  Touches(k) /\ CleanerInv(k)'
<1>1. cleaner[k] \in CleanerRecord /\ CleanerInv(k) /\ PendingHeld
  BY DEF ResetTypeOK, LeaseInv
<1> DEFINE record == [cleaner[k] EXCEPT !.pc = "authenticated", !.session = s]
<1>2. /\ record \in CleanerRecord
      /\ record.pc = "authenticated" /\ record.session = s /\ record.holds = cleaner[k].holds
      /\ record.todo = cleaner[k].todo /\ record.then = cleaner[k].then
  BY <1>1 DEF CleanerRecord, CleanerPhase
<1>3. cleaner' = [cleaner EXCEPT ![k] = record] /\ UNCHANGED <<lease, pending, txn>>
  BY DEF AuthenticateReset
<1>4. /\ cleaner[k].pc = "idle" /\ cleaner[k].holds = NoCleaner /\ k \in Resetter /\ k \notin Sweeper
      /\ Forgotten(k, s)
  BY <1>1, CleanerAssumption DEF AuthenticateReset, CleanerInv, Roles
<1> HIDE DEF record
<1>5. Touches(k) /\ cleaner'[k] = record
  <2>1. \A h \in Cleaner \ {k}, t \in Session :
           record.todo[t] = h \/ (record.session = t /\ record.holds = h) =>
              Remembers(k, h, t) \/ pending[t] = h
    BY <1>2, <1>4, GateAssumption DEF Remembers
  <2> QED BY <1>1, <1>2, <1>3, <2>1, QuietTouches
<1>6. Roles(k)'
  BY <1>1, <1>2, <1>4, <1>5 DEF CleanerInv, Roles
<1>7. Asks(k)'
  BY <1>2, <1>4, <1>5 DEF Asks, Remembers, Forgotten, Touches
<1>8. Cleans(k)' /\ Reads(k)'
  BY <1>2, <1>5 DEF Cleans, Cleaning, Reads
<1> QED BY <1>5, <1>6, <1>7, <1>8 DEF CleanerInv

\* A reservation is taken: nobody else knows of one in its name.
LEMMA ReservationKeeps ==
    ASSUME ResetTypeOK, GateTypeOK, LeaseInv, server # "starting",
           NEW k \in Cleaner, NEW s \in Session, Reservable(s),
           \A m \in Cleaner \ {k} : ~ Remembers(m, k, s),
           NEW record \in CleanerRecord,
           record.pc = "lock", record.session = s, record.holds = k,
           record.todo[s] = NoCleaner,
           \A t \in Session : record.todo[t] \in {cleaner[k].todo[t], NoCleaner},
           k \in Resetter => record.todo = NothingToDo /\ record.then = "idle",
           cleaner' = [cleaner EXCEPT ![k] = record],
           lease' = [lease EXCEPT ![s] = k],
           UNCHANGED <<pending, txn>>
    PROVE  Touches(k) /\ CleanerInv(k)'
<1>1. cleaner'[k] = record /\ \A m \in Cleaner \ {k} : cleaner'[m] = cleaner[m]
  BY DEF ResetTypeOK
<1>2. lease'[s] = k /\ \A t \in Session \ {s} : lease'[t] = lease[t]
  BY DEF GateTypeOK
<1>3. lease[s] = NoCleaner /\ pending[s] = NoCleaner /\ RowFree(s)
  BY DEF Reservable, LeaseInv, PendingHeld, UndecidedIsReserved
<1>4. \A h \in Cleaner \ {k}, t \in Session : Remembers(k, h, t)' => Remembers(k, h, t)
  BY <1>1, GateAssumption DEF Remembers
<1>5. PendingHeld
  BY DEF LeaseInv
<1>6. Touches(k)
  <2>1. \A t \in Session :
          \/ lease'[t] = lease[t]
          \/ lease[t] = NoCleaner /\ lease'[t] = k /\ \A m \in Cleaner \ {k} : ~ Remembers(m, k, t)
    BY <1>2, <1>3
  <2>2. \A t \in Session : pending'[t] # NoCleaner => lease'[t] = pending'[t]
    BY <1>2, <1>3, <1>5 DEF PendingHeld
  <2> QED BY <1>1, <1>4, <2>1, <2>2 DEF Touches
<1>7. Roles(k)'
  BY <1>1 DEF Roles
<1>8. Cleans(k)'
  BY <1>1, <1>2, <1>3, GateAssumption DEF Cleans, Remembers, RowFree
<1>9. Asks(k)' /\ Reads(k)'
  BY <1>1 DEF Asks, Reads
<1> QED BY <1>6, <1>7, <1>8, <1>9 DEF CleanerInv

LEMMA ReserveResetKeeps ==
    ASSUME ResetTypeOK, GateTypeOK, LeaseInv, server # "starting", NEW k \in Cleaner, ReserveReset(k)
    PROVE  Touches(k) /\ CleanerInv(k)'
<1>1. cleaner[k] \in CleanerRecord /\ CleanerInv(k)
  BY DEF ResetTypeOK, LeaseInv
<1>2. cleaner[k].pc = "authenticated"
  BY DEF ReserveReset
<1>3. cleaner[k].session \in Session /\ k \in Resetter /\ k \notin Sweeper
  BY <1>1, <1>2, CleanerAssumption DEF CleanerInv, Roles
<1>4. PICK s \in Session : s = cleaner[k].session
  BY <1>3
<1> DEFINE record == [cleaner[k] EXCEPT !.pc = "lock", !.holds = k]
<1>5. /\ record \in CleanerRecord
      /\ record.pc = "lock" /\ record.session = s /\ record.holds = k
      /\ record.todo = cleaner[k].todo /\ record.then = cleaner[k].then
  BY <1>1, <1>4 DEF CleanerRecord, CleanerPhase
<1>6. /\ cleaner' = [cleaner EXCEPT ![k] = record] /\ UNCHANGED <<pending, txn>>
      /\ lease' = [lease EXCEPT ![s] = k] /\ Reservable(s)
  BY <1>4 DEF ReserveReset, Reserve
<1>7. record.todo = NothingToDo /\ record.then = "idle" /\ record.todo[s] = NoCleaner
  BY <1>1, <1>3, <1>5 DEF CleanerInv, Roles, NothingToDo
<1>8. \A m \in Cleaner \ {k} : ~ Remembers(m, k, s)
  BY <1>1, <1>2, <1>4, <1>6, GateAssumption DEF CleanerInv, Asks, Reservable
<1> HIDE DEF record
<1> QED BY <1>5, <1>6, <1>7, <1>8, ReservationKeeps

LEMMA SweepKeeps ==
    ASSUME ResetTypeOK, GateTypeOK, LeaseInv, server # "starting",
           NEW k \in Cleaner, NEW s \in Session, Sweep(k, s)
    PROVE  Touches(k) /\ CleanerInv(k)'
<1>1. cleaner[k] \in CleanerRecord /\ CleanerInv(k) /\ PendingHeld
  BY DEF ResetTypeOK, LeaseInv
<1>2. cleaner[k].pc = "sweep" /\ k \notin Resetter /\ k \in Sweeper /\ cleaner[k].holds = NoCleaner
  BY <1>1, CleanerAssumption DEF Sweep, CleanerInv, Roles
<1> DEFINE todo == [cleaner[k].todo EXCEPT ![s] = NoCleaner]
           taking == [cleaner[k] EXCEPT !.pc = "lock", !.session = s, !.holds = k, !.todo = todo]
           skipping == [cleaner[k] EXCEPT !.todo = todo]
<1>3. /\ todo \in [Session -> Cleaner \cup {NoCleaner}] /\ todo[s] = NoCleaner
      /\ \A t \in Session : todo[t] \in {cleaner[k].todo[t], NoCleaner}
  BY <1>1 DEF CleanerRecord
<1>4. /\ taking = [cleaner[k] EXCEPT !.pc = "lock", !.session = s, !.holds = k, !.todo[s] = NoCleaner]
      /\ skipping = [cleaner[k] EXCEPT !.todo[s] = NoCleaner]
  OBVIOUS
<1> HIDE DEF todo
<1>5. /\ taking \in CleanerRecord
      /\ taking.pc = "lock" /\ taking.session = s /\ taking.holds = k /\ taking.todo = todo
      /\ skipping \in CleanerRecord
      /\ skipping.pc = cleaner[k].pc /\ skipping.session = cleaner[k].session
      /\ skipping.holds = cleaner[k].holds /\ skipping.todo = todo /\ skipping.then = cleaner[k].then
  BY <1>1, <1>3 DEF CleanerRecord, CleanerPhase
<1> HIDE DEF taking, skipping
<1>6. CASE Reservable(s)
  <2>1. /\ cleaner' = [cleaner EXCEPT ![k] = taking] /\ lease' = [lease EXCEPT ![s] = k]
        /\ UNCHANGED <<pending, txn>>
    BY <1>4, <1>6 DEF Sweep, Reserve
  <2>2. \A m \in Cleaner \ {k} : ~ Remembers(m, k, s)
    BY <1>2, OnlyMaintenanceRemembers, MaintenanceAssumption
  <2>3. taking.todo[s] = NoCleaner /\ \A t \in Session : taking.todo[t] \in {cleaner[k].todo[t], NoCleaner}
    BY <1>3, <1>5
  <2> QED BY <1>2, <1>5, <1>6, <2>1, <2>2, <2>3, ReservationKeeps
<1>7. CASE ~ Reservable(s)
  <2>1. cleaner' = [cleaner EXCEPT ![k] = skipping] /\ UNCHANGED <<lease, pending, txn>>
    BY <1>4, <1>7 DEF Sweep
  <2>2. Touches(k) /\ cleaner'[k] = skipping
    <3>1. \A h \in Cleaner \ {k}, t \in Session :
             skipping.todo[t] = h \/ (skipping.session = t /\ skipping.holds = h) =>
                Remembers(k, h, t) \/ pending[t] = h
      BY <1>2, <1>3, <1>5, GateAssumption DEF Remembers
    <3> QED BY <1>1, <1>5, <2>1, <3>1, QuietTouches
  <2>3. Roles(k)'
    BY <1>1, <1>2, <1>5, <2>2 DEF CleanerInv, Roles
  <2>4. Asks(k)' /\ Cleans(k)' /\ Reads(k)'
    BY <1>2, <1>5, <2>2 DEF Asks, Cleans, Cleaning, Reads
  <2> QED BY <2>2, <2>3, <2>4 DEF CleanerInv
<1> QED BY <1>6, <1>7

\* The cleaner has nothing to do with a reservation any more.
LEMMA ResumedEffect ==
    ASSUME ResetTypeOK, NEW k \in Cleaner
    PROVE  /\ Resumed(k) \in CleanerRecord
           /\ Resumed(k).pc = cleaner[k].then /\ Resumed(k).session = NoSession
           /\ Resumed(k).holds = NoCleaner /\ Resumed(k).todo = cleaner[k].todo
           /\ Resumed(k).then = cleaner[k].then
           /\ cleaner[k].then \in {"idle", "recover", "sweep"}
<1>1. cleaner[k] \in CleanerRecord
  BY DEF ResetTypeOK
<1> QED BY <1>1, ResumedTyped DEF Resumed, CleanerRecord

LEMMA ResumedKeeps ==
    ASSUME ResetTypeOK, LeaseInv, NEW k \in Cleaner, cleaner'[k] = Resumed(k)
    PROVE  CleanerInv(k)'
<1>1. Roles(k)
  BY DEF LeaseInv, CleanerInv
<1>2. Roles(k)'
  BY <1>1, ResumedEffect DEF Roles
<1>3. Asks(k)' /\ Cleans(k)' /\ Reads(k)'
  BY ResumedEffect DEF Asks, Cleans, Cleaning, Reads
<1> QED BY <1>2, <1>3 DEF CleanerInv

\* A reservation is finished, or found to be finished by another.
LEMMA FinishKeeps ==
    ASSUME ResetTypeOK, GateTypeOK, LeaseInv, NEW k \in Cleaner, NEW committed, Finish(k, committed),
           cleaner[k].pc \in Cleaning \cup {"known"},
           lease[cleaner[k].session] = cleaner[k].holds =>
              txn'[cleaner[k].session] \notin {"open", "committing"},
           txn' = txn \/ (cleaner[k].pc \in Cleaning /\
                          \E state : txn' = [txn EXCEPT ![cleaner[k].session] = state])
    PROVE  Touches(k) /\ CleanerInv(k)'
<1>1. /\ cleaner \in [Cleaner -> CleanerRecord] /\ cleaner[k] \in CleanerRecord
      /\ lease \in [Session -> Cleaner \cup {NoCleaner}]
      /\ pending \in [Session -> Cleaner \cup {NoCleaner}]
      /\ txn \in [Session -> TransactionState]
  BY DEF ResetTypeOK, GateTypeOK
<1>2. CleanerInv(k) /\ PendingHeld /\ NoCleaner \notin Cleaner
  BY GateAssumption DEF LeaseInv
<1>3. /\ cleaner[k].session \in Session /\ cleaner[k].holds \in Cleaner
      /\ cleaner[k].todo[cleaner[k].session] = NoCleaner
  BY <1>2 DEF CleanerInv, Roles, Cleans, Cleaning, Reads
<1>4. PICK s \in Session, h \in Cleaner : s = cleaner[k].session /\ h = cleaner[k].holds
  BY <1>3
<1>5. \A t \in Session : txn'[t] = txn[t] \/ (cleaner[k].pc \in Cleaning /\ t = s)
  BY <1>1, <1>4
<1>6. pending'[s] = NoCleaner /\ \A t \in Session \ {s} : pending'[t] = pending[t]
  BY <1>1, <1>4 DEF Finish
<1>7. CASE lease[s] = h
  <2>1. cleaner' = [cleaner EXCEPT ![k] = Resumed(k)] /\ lease' = [lease EXCEPT ![s] = NoCleaner]
    BY <1>4, <1>7 DEF Finish, Release
  <2>2. /\ cleaner'[k] = Resumed(k) /\ \A m \in Cleaner \ {k} : cleaner'[m] = cleaner[m]
        /\ lease'[s] = NoCleaner /\ \A t \in Session \ {s} : lease'[t] = lease[t]
    BY <1>1, <2>1
  <2>3. NoSession \notin Session
    BY SessionAssumption
  <2>4. \A g \in Cleaner, t \in Session : Remembers(k, g, t)' <=> cleaner[k].todo[t] = g
    BY <1>2, <2>2, <2>3, ResumedEffect DEF Remembers
  <2>5. ~ Remembers(k, h, s)'
    BY <1>2, <1>3, <1>4, <2>4
  <2>6. \A g \in Cleaner \ {k}, t \in Session : Remembers(k, g, t)' => Remembers(k, g, t) \/ pending[t] = g
    BY <2>4 DEF Remembers
  <2>7. RowFree(s)'
    BY <1>4, <1>7 DEF RowFree
  <2>8. \A t \in Session :
          \/ lease'[t] = lease[t]
          \/ /\ lease'[t] = NoCleaner
             /\ \E g \in Cleaner :
                   /\ lease[t] = g /\ cleaner[k].holds = g /\ cleaner[k].session = t
                   /\ g # k => ~ Remembers(k, g, t)'
             /\ RowFree(t)'
    BY <1>4, <1>7, <2>2, <2>5, <2>7
  <2>9. \A t \in Session :
           /\ pending'[t] \in {pending[t], NoCleaner, k}
           /\ pending'[t] # NoCleaner => lease'[t] = pending'[t]
    BY <1>2, <1>6, <2>2 DEF PendingHeld
  <2>10. Touches(k)
    BY <1>4, <1>5, <2>2, <2>6, <2>8, <2>9 DEF Touches
  <2> QED BY <2>2, <2>10, ResumedKeeps
<1>8. CASE lease[s] # h
  <2> DEFINE record == [cleaner[k] EXCEPT !.pc = "invalid"]
  <2>1. /\ record.pc = "invalid" /\ record.session = s /\ record.holds = h
        /\ record.todo = cleaner[k].todo /\ record.then = cleaner[k].then
    BY <1>1, <1>4 DEF CleanerRecord
  <2>2. cleaner' = [cleaner EXCEPT ![k] = record] /\ UNCHANGED lease
    BY <1>4, <1>8 DEF Finish
  <2> HIDE DEF record
  <2>3. cleaner'[k] = record /\ \A m \in Cleaner \ {k} : cleaner'[m] = cleaner[m]
    BY <1>1, <2>2
  <2>4. \A g \in Cleaner \ {k}, t \in Session : Remembers(k, g, t)' => Remembers(k, g, t) \/ pending[t] = g
    BY <1>4, <2>1, <2>3 DEF Remembers
  <2>5. \A t \in Session :
           /\ pending'[t] \in {pending[t], NoCleaner, k}
           /\ pending'[t] # NoCleaner => lease'[t] = pending'[t]
    BY <1>2, <1>6, <2>2 DEF PendingHeld
  <2>6. Touches(k)
    BY <1>4, <1>5, <2>2, <2>3, <2>4, <2>5 DEF Touches
  <2>7. Roles(k)'
    BY <1>2, <1>4, <2>1, <2>3 DEF CleanerInv, Roles
  <2>8. Asks(k)' /\ Cleans(k)' /\ Reads(k)'
    BY <2>1, <2>3 DEF Asks, Cleans, Cleaning, Reads
  <2> QED BY <2>6, <2>7, <2>8 DEF CleanerInv
<1> QED BY <1>7, <1>8

LEMMA ResetStepKeeps ==
    ASSUME ResetTypeOK, GateTypeOK, LeaseInv, server # "starting", NEW k \in Cleaner, ResetStep(k)
    PROVE  Touches(k) /\ CleanerInv(k)'
<1>0. /\ cleaner[k] \in CleanerRecord /\ CleanerInv(k) /\ PendingHeld
      /\ txn \in [Session -> TransactionState]
      /\ cleaner \in [Cleaner -> CleanerRecord]
      /\ pending \in [Session -> Cleaner \cup {NoCleaner}]
      /\ lease \in [Session -> Cleaner \cup {NoCleaner}]
  BY DEF ResetTypeOK, GateTypeOK, LeaseInv
<1>1. CASE ReserveReset(k)
  BY <1>1, ReserveResetKeeps
<1>2. CASE RefuseReset(k)
  <2>1. /\ IdleCleaner \in CleanerRecord
        /\ IdleCleaner.pc = "idle" /\ IdleCleaner.session = NoSession /\ IdleCleaner.holds = NoCleaner
        /\ IdleCleaner.todo = NothingToDo /\ IdleCleaner.then = "idle"
        /\ \A t \in Session : NothingToDo[t] = NoCleaner
    BY CleanersTyped DEF IdleCleaner, NothingToDo
  <2>2. cleaner' = [cleaner EXCEPT ![k] = IdleCleaner] /\ UNCHANGED <<lease, pending, txn>>
    BY <1>2 DEF RefuseReset, gateVars
  <2>3. Touches(k) /\ cleaner'[k] = IdleCleaner
    <3>1. \A h \in Cleaner \ {k}, t \in Session :
             IdleCleaner.todo[t] = h \/ (IdleCleaner.session = t /\ IdleCleaner.holds = h) =>
                Remembers(k, h, t) \/ pending[t] = h
      BY <2>1, GateAssumption
    <3> QED BY <1>0, <2>1, <2>2, <3>1, QuietTouches
  <2>4. CleanerInv(k)'
    BY <2>1, <2>3 DEF CleanerInv, Roles, Asks, Cleans, Cleaning, Reads
  <2> QED BY <2>3, <2>4
<1>3. ASSUME NEW pc \in {"locked", "commit"}, NEW state \in TransactionState,
             cleaner[k].pc \in Cleaning,
             pc = "locked" => state = "open",
             cleaner' = [cleaner EXCEPT ![k].pc = pc],
             txn' = [txn EXCEPT ![cleaner[k].session] = state],
             UNCHANGED <<lease, pending>>
      PROVE  Touches(k) /\ CleanerInv(k)'
  <2> DEFINE record == [cleaner[k] EXCEPT !.pc = pc]
  <2>1. /\ record.pc = pc /\ record.session = cleaner[k].session /\ record.holds = cleaner[k].holds
        /\ record.todo = cleaner[k].todo /\ record.then = cleaner[k].then
    BY <1>0 DEF CleanerRecord
  <2>2. cleaner' = [cleaner EXCEPT ![k] = record]
    BY <1>3
  <2> HIDE DEF record
  <2>3. cleaner'[k] = record /\ \A m \in Cleaner \ {k} : cleaner'[m] = cleaner[m]
    BY <1>0, <2>2
  <2>4. PICK s \in Session : s = cleaner[k].session
    BY <1>0, <1>3 DEF CleanerInv, Roles, Cleaning
  <2>5. txn'[s] = state /\ \A t \in Session \ {s} : txn'[t] = txn[t]
    BY <1>0, <1>3, <2>4
  <2>6. \A h \in Cleaner, t \in Session : Remembers(k, h, t)' <=> Remembers(k, h, t)
    BY <2>1, <2>3 DEF Remembers
  <2>7. Touches(k)
    BY <1>0, <1>3, <2>3, <2>4, <2>5, <2>6 DEF Touches, PendingHeld
  <2>8. Roles(k)'
    BY <1>0, <1>3, <2>1, <2>3, <2>4 DEF CleanerInv, Roles
  <2>9. Cleans(k)'
    <3>1. \A m \in Cleaner \ {k} : ~ Remembers(m, k, s)'
      BY <1>0, <1>3, <2>3, <2>4 DEF CleanerInv, Cleans, Remembers
    <3> QED BY <1>0, <1>3, <2>1, <2>3, <2>4, <2>5, <3>1 DEF CleanerInv, Cleans
  <2>10. Asks(k)' /\ Reads(k)'
    BY <2>1, <2>3 DEF Asks, Reads
  <2> QED BY <2>7, <2>8, <2>9, <2>10 DEF CleanerInv
<1>4. CASE CleanLock(k)
  <2>1. "open" \in TransactionState /\ cleaner[k].pc \in Cleaning
    BY <1>4 DEF TransactionState, CleanLock, Cleaning
  <2> QED BY <1>3, <1>4, <2>1 DEF CleanLock, gateVars
<1>5. CASE CleanCommit(k)
  <2>1. "committing" \in TransactionState /\ cleaner[k].pc \in Cleaning
    BY <1>5 DEF TransactionState, CleanCommit, Cleaning
  <2> QED BY <1>3, <1>5, <2>1 DEF CleanCommit, gateVars
<1>6. CASE CleanRolledBack(k)
  <2>1. cleaner[k].pc \in {"lock", "locked"} /\ cleaner[k].pc \in Cleaning
    BY <1>6 DEF CleanRolledBack, Cleaning
  <2>2. cleaner[k].session \in Session
    BY <1>0, <2>1 DEF CleanerInv, Roles
  <2>3. cleaner[k].pc = "lock" => RowFree(cleaner[k].session)
    BY <1>0, <2>1 DEF CleanerInv, Cleans
  <2>4. txn'[cleaner[k].session] \notin {"open", "committing"}
    BY <1>0, <1>6, <2>1, <2>2, <2>3 DEF CleanRolledBack, RowFree
  <2> QED BY <1>6, <2>1, <2>4, FinishKeeps DEF CleanRolledBack
<1>7. CASE CleanCommitted(k)
  BY <1>7, FinishKeeps DEF CleanCommitted, Cleaning
<1>8. CASE CleanUnknown(k)
  <2>1. cleaner[k].pc \in Cleaning
    BY <1>8 DEF CleanUnknown, Cleaning
  <2>2. PICK s \in Session : s = cleaner[k].session
    BY <1>0, <2>1 DEF CleanerInv, Roles, Cleaning
  <2>3. cleaner[k].holds = k /\ lease[s] = k /\ cleaner[k].todo[s] = NoCleaner
    BY <1>0, <2>1, <2>2 DEF CleanerInv, Cleans
  <2> DEFINE record == [cleaner[k] EXCEPT !.pc = "read"]
  <2>4. /\ record.pc = "read" /\ record.session = s /\ record.holds = k
        /\ record.todo = cleaner[k].todo /\ record.then = cleaner[k].then
    BY <1>0, <2>2, <2>3 DEF CleanerRecord
  <2>5. /\ cleaner' = [cleaner EXCEPT ![k] = record] /\ UNCHANGED <<lease, txn>>
        /\ pending' = [pending EXCEPT ![s] = k]
    BY <1>8, <2>2 DEF CleanUnknown, gateVars
  <2> HIDE DEF record
  <2>6. /\ cleaner'[k] = record /\ \A m \in Cleaner \ {k} : cleaner'[m] = cleaner[m]
        /\ pending'[s] = k /\ \A t \in Session \ {s} : pending'[t] = pending[t]
    BY <1>0, <2>5
  <2>7. \A h \in Cleaner, t \in Session : Remembers(k, h, t)' <=> Remembers(k, h, t)
    BY <2>2, <2>3, <2>4, <2>6 DEF Remembers
  <2>8. Touches(k)
    BY <1>0, <2>3, <2>5, <2>6, <2>7 DEF Touches, PendingHeld
  <2>9. Roles(k)'
    BY <1>0, <2>1, <2>4, <2>6 DEF CleanerInv, Roles, Cleaning
  <2>10. Asks(k)' /\ Cleans(k)' /\ Reads(k)'
    BY <2>3, <2>4, <2>6 DEF Asks, Cleans, Cleaning, Reads
  <2> QED BY <2>8, <2>9, <2>10 DEF CleanerInv
<1>9. CASE ReadOutcome(k)
  <2>1. PICK known : known = (session[cleaner[k].session] = "REVOKED" /\ ~ owned[cleaner[k].session])
    OBVIOUS
  <2>2. known \in BOOLEAN
    BY <2>1
  <2> DEFINE record == [cleaner[k] EXCEPT !.pc = "known", !.committed = known]
  <2>3. /\ record \in CleanerRecord
        /\ record.pc = "known" /\ record.session = cleaner[k].session /\ record.holds = cleaner[k].holds
        /\ record.todo = cleaner[k].todo /\ record.then = cleaner[k].then
    BY <1>0, <2>2 DEF CleanerRecord, CleanerPhase
  <2>4. cleaner' = [cleaner EXCEPT ![k] = record] /\ UNCHANGED <<lease, pending, txn>>
    BY <1>9, <2>1 DEF ReadOutcome, gateVars
  <2> HIDE DEF record
  <2>5. Touches(k) /\ cleaner'[k] = record
    <3>1. \A h \in Cleaner \ {k}, t \in Session :
             record.todo[t] = h \/ (record.session = t /\ record.holds = h) =>
                Remembers(k, h, t) \/ pending[t] = h
      BY <2>3 DEF Remembers
    <3> QED BY <1>0, <2>3, <2>4, <3>1, QuietTouches
  <2>6. cleaner[k].pc = "read" /\ RowFree(cleaner[k].session)
    BY <1>9 DEF ReadOutcome
  <2>7. Roles(k)'
    BY <1>0, <2>3, <2>5, <2>6 DEF CleanerInv, Roles
  <2>8. Reads(k)'
    BY <1>0, <2>3, <2>4, <2>5, <2>6 DEF CleanerInv, Reads, RowFree
  <2>9. Asks(k)' /\ Cleans(k)'
    BY <2>3, <2>5 DEF Asks, Cleans, Cleaning
  <2> QED BY <2>5, <2>7, <2>8, <2>9 DEF CleanerInv
<1>10. CASE OutcomeUnknown(k)
  <2>1. cleaner' = [cleaner EXCEPT ![k] = Resumed(k)] /\ UNCHANGED <<lease, pending, txn>>
    BY <1>10 DEF OutcomeUnknown, gateVars
  <2>2. Touches(k) /\ cleaner'[k] = Resumed(k)
    <3>1. \A h \in Cleaner \ {k}, t \in Session :
             Resumed(k).todo[t] = h \/ (Resumed(k).session = t /\ Resumed(k).holds = h) =>
                Remembers(k, h, t) \/ pending[t] = h
      BY ResumedEffect, GateAssumption DEF Remembers
    <3> QED BY <1>0, <2>1, <3>1, ResumedTyped, QuietTouches
  <2> QED BY <2>2, ResumedKeeps
<1>11. CASE FinishOutcome(k)
  <2>1. cleaner[k].pc = "known"
    BY <1>11 DEF FinishOutcome
  <2>2. lease[cleaner[k].session] = cleaner[k].holds => RowFree(cleaner[k].session)
    BY <1>0, <2>1 DEF CleanerInv, Reads
  <2> QED BY <1>11, <2>1, <2>2, FinishKeeps DEF FinishOutcome, RowFree
<1> QED
  BY <1>1, <1>2, <1>4, <1>5, <1>6, <1>7, <1>8, <1>9, <1>10, <1>11 DEF ResetStep

----------------------------------------------------------------------------
(* The steps of maintenance *)

\* A step of a cleaner that neither has a reservation nor waits for one.
LEMMA IdleTouches ==
    ASSUME ResetTypeOK, LeaseInv, NEW k \in Sweeper, NEW record \in CleanerRecord,
           record.pc \in {"idle", "recover", "sweep", "await"},
           record.pc = "await" => record.session \in Session,
           record.holds = NoCleaner,
           \A h \in Cleaner \ {k}, t \in Session :
              record.todo[t] = h => cleaner[k].todo[t] = h \/ pending[t] = h,
           cleaner' = [cleaner EXCEPT ![k] = record], UNCHANGED <<lease, pending, txn>>
    PROVE  Touches(k) /\ CleanerInv(k)'
<1>1. k \in Cleaner /\ k \notin Resetter /\ PendingHeld
  BY CleanerAssumption DEF LeaseInv
<1>2. Touches(k) /\ cleaner'[k] = record
  <2>1. \A h \in Cleaner \ {k}, t \in Session :
           record.todo[t] = h \/ (record.session = t /\ record.holds = h) =>
              Remembers(k, h, t) \/ pending[t] = h
    BY GateAssumption DEF Remembers
  <2> QED BY <1>1, <2>1, QuietTouches
<1>3. Roles(k)'
  BY <1>1, <1>2 DEF Roles
<1>4. Asks(k)' /\ Cleans(k)' /\ Reads(k)'
  BY <1>2 DEF Asks, Cleans, Cleaning, Reads
<1> QED BY <1>2, <1>3, <1>4 DEF CleanerInv

LEMMA ResolveKeeps ==
    ASSUME ResetTypeOK, LeaseInv, NEW k \in Sweeper, NEW s \in Session, NEW entry \in Cleaner,
           NEW rest \in [Session -> Cleaner \cup {NoCleaner}],
           cleaner[k].holds = NoCleaner,
           entry = pending[s] \/ entry = cleaner[k].todo[s],
           rest[s] = NoCleaner,
           \A h \in Cleaner, t \in Session : rest[t] = h => cleaner[k].todo[t] = h \/ pending[t] = h,
           Resolve(k, s, entry, rest), UNCHANGED <<lease, pending, txn>>
    PROVE  Touches(k) /\ CleanerInv(k)'
<1>1. cleaner[k] \in CleanerRecord /\ k \in Cleaner /\ k \notin Resetter /\ PendingHeld
  BY CleanerAssumption DEF ResetTypeOK, LeaseInv
<1> DEFINE waiting == [cleaner[k] EXCEPT !.pc = "await", !.session = s, !.todo = rest]
           reading == [cleaner[k] EXCEPT !.pc = "read", !.session = s, !.holds = entry,
                                         !.then = "recover", !.todo = rest]
<1>2. /\ waiting \in CleanerRecord
      /\ waiting.pc = "await" /\ waiting.session = s /\ waiting.holds = NoCleaner /\ waiting.todo = rest
      /\ reading \in CleanerRecord
      /\ reading.pc = "read" /\ reading.session = s /\ reading.holds = entry /\ reading.todo = rest
  BY <1>1 DEF CleanerRecord, CleanerPhase
<1>3. \/ cleaner' = [cleaner EXCEPT ![k] = waiting]
      \/ cleaner' = [cleaner EXCEPT ![k] = reading]
  BY DEF Resolve
<1> HIDE DEF waiting, reading
<1>4. CASE cleaner' = [cleaner EXCEPT ![k] = waiting]
  <2>1. \A h \in Cleaner \ {k}, t \in Session :
           waiting.todo[t] = h => cleaner[k].todo[t] = h \/ pending[t] = h
    BY <1>2
  <2> QED BY <1>2, <1>4, <2>1, IdleTouches
<1>5. CASE cleaner' = [cleaner EXCEPT ![k] = reading]
  <2>1. Touches(k) /\ cleaner'[k] = reading
    <3>1. \A h \in Cleaner \ {k}, t \in Session :
             reading.todo[t] = h \/ (reading.session = t /\ reading.holds = h) =>
                Remembers(k, h, t) \/ pending[t] = h
      BY <1>2 DEF Remembers
    <3> QED BY <1>1, <1>2, <1>5, <3>1, QuietTouches
  <2>2. Roles(k)'
    BY <1>1, <1>2, <2>1 DEF Roles
  <2>3. Asks(k)' /\ Cleans(k)' /\ Reads(k)'
    BY <1>2, <2>1 DEF Asks, Cleans, Cleaning, Reads
  <2> QED BY <2>1, <2>2, <2>3 DEF CleanerInv
<1> QED BY <1>3, <1>4, <1>5

LEMMA MaintenanceStepKeeps ==
    ASSUME ResetTypeOK, GateTypeOK, LeaseInv, server # "starting", NEW k \in Cleaner, MaintenanceStep(k)
    PROVE  Touches(k) /\ CleanerInv(k)'
<1>0. /\ cleaner[k] \in CleanerRecord /\ CleanerInv(k) /\ NoCleaner \notin Cleaner
      /\ pending \in [Session -> Cleaner \cup {NoCleaner}]
  BY GateAssumption DEF ResetTypeOK, LeaseInv
<1>1. cleaner[k].todo \in [Session -> Cleaner \cup {NoCleaner}]
  BY <1>0 DEF CleanerRecord
<1>2. cleaner[k].pc \in {"recover", "sweep", "await"} => k \in Sweeper /\ cleaner[k].holds = NoCleaner
  BY <1>0, CleanerAssumption DEF CleanerInv, Roles
<1>3. ASSUME NEW s \in Session, Sweep(k, s) PROVE Touches(k) /\ CleanerInv(k)'
  BY <1>3, SweepKeeps
<1>4. CASE Tick(k)
  <2>1. k \in Sweeper /\ cleaner[k].pc = "idle" /\ cleaner[k].holds = NoCleaner
    BY <1>0, <1>4 DEF Tick, CleanerInv, Roles
  <2>2. UNCHANGED <<lease, pending, txn>>
    BY <1>4 DEF Tick, gateVars
  <2>3. CASE cleaner' = [cleaner EXCEPT ![k].pc = "recover"]
    <3> DEFINE record == [cleaner[k] EXCEPT !.pc = "recover"]
    <3>1. /\ record \in CleanerRecord
          /\ record.pc = "recover" /\ record.holds = cleaner[k].holds /\ record.todo = cleaner[k].todo
      BY <1>0 DEF CleanerRecord, CleanerPhase
    <3>2. cleaner' = [cleaner EXCEPT ![k] = record]
      BY <2>3
    <3> HIDE DEF record
    <3> QED BY <2>1, <2>2, <3>1, <3>2, IdleTouches
  <2>4. ASSUME NEW s \in Session, pending[s] # NoCleaner,
               Resolve(k, s, pending[s], [pending EXCEPT ![s] = NoCleaner])
        PROVE  Touches(k) /\ CleanerInv(k)'
    <3> DEFINE rest == [pending EXCEPT ![s] = NoCleaner]
    <3>1. /\ rest \in [Session -> Cleaner \cup {NoCleaner}] /\ rest[s] = NoCleaner
          /\ \A h \in Cleaner, t \in Session : rest[t] = h => pending[t] = h
      BY <1>0
    <3>2. Resolve(k, s, pending[s], rest)
      BY <2>4
    <3> HIDE DEF rest
    <3>3. PICK entry \in Cleaner : entry = pending[s]
      BY <1>0, <2>4
    <3> QED BY <2>1, <2>2, <3>1, <3>2, <3>3, ResolveKeeps
  <2> QED BY <1>4, <2>3, <2>4 DEF Tick
<1>5. ASSUME NEW s \in Session, Recover(k, s) PROVE Touches(k) /\ CleanerInv(k)'
  <2> DEFINE rest == [cleaner[k].todo EXCEPT ![s] = NoCleaner]
  <2>1. /\ rest \in [Session -> Cleaner \cup {NoCleaner}] /\ rest[s] = NoCleaner
        /\ \A h \in Cleaner, t \in Session : rest[t] = h => cleaner[k].todo[t] = h
    BY <1>0, <1>1
  <2>2. /\ cleaner[k].pc = "recover" /\ Resolve(k, s, cleaner[k].todo[s], rest)
        /\ UNCHANGED <<lease, pending, txn>>
    BY <1>5 DEF Recover, gateVars
  <2> HIDE DEF rest
  <2>3. PICK entry \in Cleaner : entry = cleaner[k].todo[s]
    BY <1>1, <1>5 DEF Recover
  <2> QED BY <1>2, <2>1, <2>2, <2>3, ResolveKeeps
<1>6. CASE Awaited(k)
  <2> DEFINE record == [cleaner[k] EXCEPT !.pc = "recover", !.session = NoSession]
  <2>1. /\ record \in CleanerRecord
        /\ record.pc = "recover" /\ record.holds = cleaner[k].holds /\ record.todo = cleaner[k].todo
    BY <1>0 DEF CleanerRecord, CleanerPhase
  <2>2. /\ cleaner[k].pc = "await" /\ cleaner' = [cleaner EXCEPT ![k] = record]
        /\ UNCHANGED <<lease, pending, txn>>
    BY <1>6 DEF Awaited, gateVars
  <2> HIDE DEF record
  <2> QED BY <1>2, <2>1, <2>2, IdleTouches
<1>7. CASE QueryCandidates(k)
  <2> DEFINE todo == [s \in Session |-> IF Candidate(s) THEN k ELSE NoCleaner]
             record == [cleaner[k] EXCEPT !.pc = "sweep", !.then = "sweep", !.todo = todo]
  <2>1. todo \in [Session -> Cleaner \cup {NoCleaner}] /\ \A t \in Session : todo[t] \in {k, NoCleaner}
    OBVIOUS
  <2>2. cleaner' = [cleaner EXCEPT ![k] = record]
    BY <1>7 DEF QueryCandidates
  <2> HIDE DEF todo
  <2>3. /\ record \in CleanerRecord
        /\ record.pc = "sweep" /\ record.holds = cleaner[k].holds /\ record.todo = todo
    BY <1>0, <2>1 DEF CleanerRecord, CleanerPhase
  <2>4. cleaner[k].pc = "recover" /\ UNCHANGED <<lease, pending, txn>>
    BY <1>7 DEF QueryCandidates, gateVars
  <2> HIDE DEF record
  <2>5. \A h \in Cleaner \ {k}, t \in Session : record.todo[t] # h
    BY <1>0, <2>1, <2>3
  <2> QED BY <1>2, <2>2, <2>3, <2>4, <2>5, IdleTouches
<1>8. CASE QueryFails(k) \/ SweepDone(k)
  <2>1. /\ cleaner' = [cleaner EXCEPT ![k] = IdleCleaner] /\ UNCHANGED <<lease, pending, txn>>
        /\ cleaner[k].pc \in {"recover", "sweep"}
    BY <1>8 DEF QueryFails, SweepDone, gateVars
  <2>2. /\ IdleCleaner \in CleanerRecord /\ IdleCleaner.pc = "idle" /\ IdleCleaner.holds = NoCleaner
        /\ \A t \in Session : IdleCleaner.todo[t] = NoCleaner
    BY CleanersTyped DEF IdleCleaner, NothingToDo
  <2>3. \A h \in Cleaner \ {k}, t \in Session : IdleCleaner.todo[t] # h
    BY <1>0, <2>2
  <2> QED BY <1>2, <2>1, <2>2, <2>3, IdleTouches
<1> QED
  BY <1>3, <1>4, <1>5, <1>6, <1>7, <1>8 DEF MaintenanceStep

----------------------------------------------------------------------------
(* The other steps *)

\* A step that changes neither the cleaners nor the reservations.
LEMMA UnrelatedKeeps ==
    ASSUME LeaseInv, UNCHANGED resetVars, UNCHANGED <<lease, server>>, Stopped'
    PROVE  LeaseInv'
<1>1. UNCHANGED <<cleaner, pending, resolver, txn>>
  BY DEF resetVars
<1>2. \A k \in Cleaner : CleanerInv(k)'
  BY <1>1 DEF LeaseInv, CleanerInv, Roles, Asks, Cleans, Reads, Remembers, RowFree
<1>3. PendingHeld' /\ UndecidedIsReserved'
  BY <1>1 DEF LeaseInv, PendingHeld, UndecidedIsReserved, RowFree
<1> QED BY <1>2, <1>3 DEF LeaseInv

\* The database decides a transaction that is not that of a cleaner at work.
LEMMA DatabaseKeeps ==
    ASSUME ResetTypeOK, LeaseInv, NEW s \in Session, DatabaseCommits(s) \/ DatabaseAborts(s),
           UNCHANGED server
    PROVE  LeaseInv'
<1>1. txn \in [Session -> TransactionState] /\ UNCHANGED <<cleaner, pending, lease, op>>
  BY DEF ResetTypeOK, DatabaseCommits, DatabaseAborts, gateVars
<1>2. RowFree(s)' /\ \A t \in Session \ {s} : txn'[t] = txn[t]
  BY <1>1 DEF DatabaseCommits, DatabaseAborts, RowFree
<1>4. \A t \in Session : RowFree(t) => RowFree(t)'
  BY <1>2 DEF RowFree
<1>5. ASSUME NEW k \in Cleaner PROVE CleanerInv(k)'
  <2>1. CleanerInv(k) /\ (cleaner[k].pc \in Cleaning \cup {"known"} => cleaner[k].session \in Session)
    BY DEF LeaseInv, CleanerInv, Roles, Cleaning
  <2>2. Roles(k)' /\ Asks(k)'
    BY <1>1, <2>1 DEF CleanerInv, Roles, Asks, Remembers
  <2>3. cleaner[k].pc = "locked" => txn'[cleaner[k].session] = "open"
    <3> SUFFICES ASSUME cleaner[k].pc = "locked" PROVE txn'[cleaner[k].session] = "open"
      OBVIOUS
    <3>1. cleaner[k].session \in Session /\ txn[cleaner[k].session] = "open"
      BY <2>1 DEF CleanerInv, Cleans, Cleaning
    <3>2. cleaner[k].session # s
      BY <3>1 DEF DatabaseCommits, DatabaseAborts, Abandoned
    <3> QED BY <1>2, <3>1, <3>2
  <2>4. Cleans(k)'
    BY <1>1, <1>4, <2>1, <2>3 DEF CleanerInv, Cleans, Remembers
  <2>5. Reads(k)'
    BY <1>1, <1>4, <2>1 DEF CleanerInv, Reads
  <2> QED BY <2>2, <2>4, <2>5 DEF CleanerInv
<1>6. PendingHeld' /\ Stopped' /\ UndecidedIsReserved'
  BY <1>1, <1>4 DEF LeaseInv, PendingHeld, Stopped, UndecidedIsReserved
<1> QED BY <1>5, <1>6 DEF LeaseInv

\* A stopped process, and one whose server starts, has no cleaner at work.
LEMMA AllIdle ==
    ASSUME \A k \in Cleaner : cleaner[k] = IdleCleaner, pending = NothingToDo,
           \A o \in Operation : op[o] = NotAdmitted, server = "starting"
    PROVE  LeaseInv
<1>1. /\ IdleCleaner.pc = "idle" /\ IdleCleaner.holds = NoCleaner /\ IdleCleaner.todo = NothingToDo
      /\ IdleCleaner.then = "idle" /\ NotAdmitted.pc = "idle"
      /\ \A s \in Session : NothingToDo[s] = NoCleaner
  BY DEF IdleCleaner, NotAdmitted, NothingToDo
<1>2. \A k \in Cleaner : CleanerInv(k)
  BY <1>1 DEF CleanerInv, Roles, Asks, Cleans, Cleaning, Reads
<1>3. PendingHeld /\ Stopped /\ UndecidedIsReserved
  BY <1>1 DEF PendingHeld, Stopped, UndecidedIsReserved
<1> QED BY <1>2, <1>3 DEF LeaseInv

LEMMA LeaseNext ==
    ASSUME ResetTypeOK, GateTypeOK, LeaseInv, [Next]_vars
    PROVE  LeaseInv'
<1>0. Stopped /\ \A k \in Cleaner : CleanerInv(k)
  BY DEF LeaseInv
<1>1. CASE UNCHANGED vars
  <2>1. UNCHANGED resetVars /\ UNCHANGED <<lease, server, op>>
    BY <1>1 DEF vars, gateVars
  <2>2. Stopped'
    BY <1>0, <2>1 DEF Stopped, resetVars
  <2> QED BY <2>1, <2>2, UnrelatedKeeps
<1>2. CASE StartServer \/ Listen
  <2>1. UNCHANGED <<cleaner, pending, txn, lease>> /\ server' # "starting"
    BY <1>2 DEF StartServer, Listen, resetVars, gateVars
  <2>2. \A k \in Cleaner : CleanerInv(k)'
    BY <1>0, <2>1 DEF CleanerInv, Roles, Asks, Cleans, Reads, Remembers, RowFree
  <2>3. UndecidedIsReserved'
    BY <1>2, <2>1 DEF LeaseInv, UndecidedIsReserved, StartServer, Listen, RowFree
  <2> QED BY <2>1, <2>2, <2>3 DEF LeaseInv, PendingHeld, Stopped
<1>3. CASE Restart
  <2>1. (/\ \A k \in Cleaner : cleaner[k] = IdleCleaner
         /\ pending = NothingToDo
         /\ \A o \in Operation : op[o] = NotAdmitted
         /\ server = "starting")'
    BY <1>3 DEF Restart, NothingToDo
  <2> QED BY <2>1, AllIdle, PTL
<1>4. CASE server = "listening" /\ Arrival /\ UNCHANGED <<server, orphan>>
  <2>1. Stopped'
    BY <1>4 DEF Stopped
  <2>2. CASE UNCHANGED resetVars /\ UNCHANGED lease
    BY <1>4, <2>1, <2>2, UnrelatedKeeps
  <2>3. ASSUME NEW s \in Session, NEW k \in Cleaner, AuthenticateReset(k, s) PROVE LeaseInv'
    <3>1. UNCHANGED lease
      BY <2>3 DEF AuthenticateReset, gateVars
    <3> QED BY <1>4, <2>3, <3>1, AuthenticateKeeps, TouchesKeeps
  <2> QED BY <1>4, <2>2, <2>3 DEF Arrival, Authenticate, gateVars
<1>5. ASSUME NEW s \in Session, DatabaseCommits(s) \/ DatabaseAborts(s), UNCHANGED server PROVE LeaseInv'
  BY <1>5, DatabaseKeeps
<1>6. ASSUME NEW s \in Session, \/ Expire(s) /\ UNCHANGED <<gateVars, resetVars, server>>
                                \/ OrphanDecided(s)
      PROVE  LeaseInv'
  <2>1. UNCHANGED resetVars /\ UNCHANGED <<lease, server, op>>
    BY <1>6 DEF OrphanDecided, gateVars
  <2>2. Stopped'
    BY <1>0, <2>1 DEF Stopped, resetVars
  <2> QED BY <2>1, <2>2, UnrelatedKeeps
<1>7. ASSUME NEW o \in Operation, \/ (OperationStep(o) \/ Own(o)) /\ UNCHANGED <<resetVars, server>>
                                  \/ OrphanOperation(o)
      PROVE  LeaseInv'
  <2>1. op[o].pc # "idle"
    BY <1>7 DEF OperationStep, AdmitExclusive, AdmitParallel, RefuseOperation, Revalidate, ForSession,
                InstallExecutor, FinishOperation, Own, OrphanOperation, Creating
  <2>2. UNCHANGED lease
    BY <1>7 DEF OperationStep, AdmitExclusive, AdmitParallel, RefuseOperation, Revalidate, ForSession,
                InstallExecutor, FinishOperation, Own, OrphanOperation, Leave, gateVars
  <2>3. UNCHANGED resetVars /\ UNCHANGED server
    BY <1>7 DEF OrphanOperation
  <2>4. Stopped'
    BY <1>0, <2>1, <2>3 DEF Stopped
  <2> QED BY <2>2, <2>3, <2>4, UnrelatedKeeps
<1>8. ASSUME NEW k \in Cleaner, ResetStep(k), UNCHANGED server PROVE LeaseInv'
  <2>1. cleaner[k].pc # "idle"
    BY <1>8 DEF ResetStep, ReserveReset, RefuseReset, CleanLock, CleanCommit, CleanRolledBack,
                CleanCommitted, CleanUnknown, ReadOutcome, OutcomeUnknown, FinishOutcome
  <2>2. server # "starting"
    BY <1>0, <2>1 DEF Stopped
  <2> QED BY <1>8, <2>2, ResetStepKeeps, TouchesKeeps
<1>9. ASSUME NEW k \in Cleaner, server # "starting", MaintenanceStep(k), UNCHANGED server PROVE LeaseInv'
  BY <1>9, MaintenanceStepKeeps, TouchesKeeps
<1> QED BY <1>1, <1>2, <1>3, <1>4, <1>5, <1>6, <1>7, <1>8, <1>9 DEF Next

LEMMA LeaseInit == Init => LeaseInv
<1> SUFFICES ASSUME Init PROVE LeaseInv OBVIOUS
<1>1. /\ \A k \in Cleaner : cleaner[k] = IdleCleaner
      /\ pending = NothingToDo /\ server = "starting"
      /\ \A o \in Operation : op[o] = NotAdmitted
  BY DEF Init, ResetInit, GateInit
<1> QED BY <1>1, AllIdle

----------------------------------------------------------------------------
(* Revoked sessions *)

\* An operation that starts to run, or goes on, in a session that was usable at
\* that moment.
LEMMA RunsWhereUsable ==
    ASSUME QueueInv, NEW o \in Operation, OperationStep(o), NEW p \in Operation,
           op'[p].pc \in {"running", "install"}
    PROVE  \/ Usable(op'[p].session)
           \/ op[p].pc \in {"running", "install"} /\ op'[p].session = op[p].session
<1>1. op \in [Operation -> OperationRecord] /\ op[o] \in OperationRecord
  BY DEF QueueInv, GateTypeOK
<1>2. CASE Leaves(o)
  BY <1>2, LeaveEffect DEF NotAdmitted
<1>3. ASSUME NEW exclusive, NEW awaited, Enqueue(o, exclusive, awaited)
      PROVE  op[p].pc \in {"running", "install"} /\ op'[p].session = op[p].session
  <2> DEFINE record == [op[o] EXCEPT !.pc = "waiting", !.exclusive = exclusive,
                                     !.waits = awaited \ {NoOperation},
                                     !.before = AdmittedTo(op[o].session)]
  <2>1. record.pc = "waiting"
    BY <1>1 DEF OperationRecord
  <2>2. op' = [op EXCEPT ![o] = record]
    BY <1>3 DEF Enqueue
  <2> HIDE DEF record
  <2> QED BY <1>1, <2>1, <2>2
<1>4. CASE RefuseOperation(o)
  BY <1>1, <1>4 DEF RefuseOperation, NotAdmitted
<1>5. ASSUME NEW pc, op' = [op EXCEPT ![o].pc = pc],
             Usable(op[o].session) \/ op[o].pc \in {"running", "install"}
      PROVE  \/ Usable(op'[p].session)
             \/ op[p].pc \in {"running", "install"} /\ op'[p].session = op[p].session
  BY <1>1, <1>5 DEF OperationRecord
<1>6. CASE Revalidate(o) \/ ForSession(o)
  <2>1. Leaves(o) \/ (Usable(op[o].session) /\ \E pc : op' = [op EXCEPT ![o].pc = pc])
    BY <1>6 DEF Revalidate, ForSession, Leaves, Resumable, Admitted
  <2> QED BY <1>2, <1>5, <2>1
<1>7. CASE InstallExecutor(o)
  <2>1. Leaves(o) \/ (op[o].pc = "install" /\ \E pc : op' = [op EXCEPT ![o].pc = pc])
    BY <1>7 DEF InstallExecutor, Leaves, Resumable, Admitted
  <2> QED BY <1>2, <1>5, <2>1
<1>8. CASE FinishOperation(o)
  BY <1>2, <1>8 DEF FinishOperation, Leaves, Resumable, Admitted
<1> QED
  BY <1>3, <1>4, <1>6, <1>7, <1>8 DEF OperationStep, AdmitExclusive, AdmitParallel

\* A commit revokes a reserved session, in which no operation is admitted.
LEMMA CommitsAlone ==
    ASSUME QueueInv, LeaseInv, NEW s \in Session, ~ RowFree(s), NEW o \in Operation,
           op[o].pc \in Admitted
    PROVE  op[o].session # s
<1>1. server # "starting"
  BY DEF LeaseInv, Stopped, Admitted
<1>2. lease[s] # NoCleaner /\ QueueTells(s)
  BY <1>1 DEF LeaseInv, UndecidedIsReserved, QueueInv
<1> QED BY <1>2 DEF QueueTells, AdmittedTo

LEMMA RevokedNext ==
    ASSUME TypeOK, QueueInv, LeaseInv, NoOperationOnRevoked, [Next]_vars
    PROVE  NoOperationOnRevoked'
<1>0. session \in [Session -> SessionStatus]
      /\ \A o \in Operation : op[o].pc # "idle" => op[o].session \in Session
  BY DEF TypeOK, SessionsTypeOK, QueueInv, InOrder
<1>1. ASSUME UNCHANGED <<session, op>> PROVE NoOperationOnRevoked'
  BY <1>1 DEF NoOperationOnRevoked
<1>2. CASE UNCHANGED vars \/ Listen
  BY <1>1, <1>2 DEF vars, Listen, sessionVars, gateVars
<1>3. CASE StartServer
  BY <1>3 DEF StartServer, gateVars, LeaseInv, Stopped, NoOperationOnRevoked
<1>4. CASE Restart
  BY <1>4 DEF Restart, NotAdmitted, NoOperationOnRevoked
<1>5. CASE Arrival
  <2>1. ASSUME NEW s \in Session, CreateSession(s), UNCHANGED op PROVE NoOperationOnRevoked'
    BY <1>0, <2>1 DEF CreateSession, NoOperationOnRevoked
  <2>2. ASSUME NEW s \in Session, NEW o \in Operation, Authenticate(o, s) PROVE NoOperationOnRevoked'
    <3>1. op \in [Operation -> OperationRecord] /\ UNCHANGED session
      BY <2>2 DEF QueueInv, GateTypeOK, Authenticate, sessionVars
    <3> QED BY <2>2, <3>1 DEF Authenticate, OperationRecord, NoOperationOnRevoked
  <2>3. ASSUME NEW s \in Session, NEW k \in Cleaner, AuthenticateReset(k, s) PROVE NoOperationOnRevoked'
    BY <1>1, <2>3 DEF AuthenticateReset, sessionVars, gateVars
  <2> QED BY <1>5, <2>1, <2>2, <2>3 DEF Arrival, gateVars
<1>6. ASSUME NEW s \in Session, Expire(s), UNCHANGED op PROVE NoOperationOnRevoked'
  BY <1>0, <1>6 DEF Expire, NoOperationOnRevoked
<1>7. ASSUME NEW s \in Session, DatabaseCommits(s) PROVE NoOperationOnRevoked'
  <2>1. ~ RowFree(s) /\ UNCHANGED op /\ session' = [session EXCEPT ![s] = "REVOKED"]
    BY <1>7 DEF DatabaseCommits, RowFree, gateVars
  <2>2. \A o \in Operation : op[o].pc \in {"running", "install"} => op[o].session # s
    BY <2>1, CommitsAlone DEF Admitted
  <2> QED BY <1>0, <2>1, <2>2 DEF NoOperationOnRevoked
<1>8. ASSUME NEW s \in Session, DatabaseAborts(s) \/ OrphanDecided(s) PROVE NoOperationOnRevoked'
  BY <1>1, <1>8 DEF DatabaseAborts, OrphanDecided, sessionVars, gateVars
<1>9. ASSUME NEW o \in Operation, OperationStep(o) PROVE NoOperationOnRevoked'
  <2>1. UNCHANGED session
    BY <1>9 DEF OperationStep, AdmitExclusive, AdmitParallel, RefuseOperation, Revalidate, ForSession,
                InstallExecutor, FinishOperation, sessionVars
  <2> QED BY <1>9, <2>1, RunsWhereUsable DEF NoOperationOnRevoked, Usable
<1>10. ASSUME NEW o \in Operation, Own(o) PROVE NoOperationOnRevoked'
  BY <1>1, <1>10 DEF Own, gateVars
<1>11. ASSUME NEW o \in Operation, OrphanOperation(o) PROVE NoOperationOnRevoked'
  <2>1. Leaves(o) /\ UNCHANGED session
    BY <1>11 DEF OrphanOperation, Creating, Leaves, Resumable, Admitted, sessionVars
  <2> QED BY <2>1, LeaveEffect DEF NotAdmitted, NoOperationOnRevoked
<1>12. ASSUME NEW k \in Cleaner, ResetStep(k) \/ MaintenanceStep(k) PROVE NoOperationOnRevoked'
  <2>1. UNCHANGED op
    BY <1>12, CleanerReserves DEF Reserves, TypeOK
  <2>2. UNCHANGED session
    BY <1>12, CleanerSessions DEF TypeOK
  <2> QED BY <1>1, <2>1, <2>2
<1> QED
  BY <1>2, <1>3, <1>4, <1>5, <1>6, <1>7, <1>8, <1>9, <1>10, <1>11, <1>12 DEF Next, gateVars

----------------------------------------------------------------------------
(* The theorems of every process *)

ReservedInv == RuntimeInv /\ LeaseInv /\ NoOperationOnRevoked

LEMMA ReservedInvariant == Spec => []ReservedInv
<1>1. Init => LeaseInv /\ NoOperationOnRevoked
  <2>1. Init => NoOperationOnRevoked
    BY DEF Init, GateInit, NotAdmitted, NoOperationOnRevoked
  <2> QED BY <2>1, LeaseInit
<1>2. RuntimeInv /\ LeaseInv /\ NoOperationOnRevoked /\ [Next]_vars => LeaseInv' /\ NoOperationOnRevoked'
  <2> SUFFICES ASSUME RuntimeInv, LeaseInv, NoOperationOnRevoked, [Next]_vars
               PROVE  LeaseInv' /\ NoOperationOnRevoked'
    OBVIOUS
  <2>1. TypeOK /\ QueueInv /\ ResetTypeOK /\ GateTypeOK
    BY DEF RuntimeInv, TypeOK
  <2> QED BY <2>1, LeaseNext, RevokedNext
<1> QED BY <1>1, <1>2, RuntimeInvariant, PTL DEF Spec, ReservedInv

\* Through lost COMMITs, retries by maintenance and restarts, a session whose
\* cleanup is not decided keeps a reservation.
THEOREM UndecidedStaysReserved == Spec => []UndecidedIsReserved
<1>1. ReservedInv => UndecidedIsReserved
  BY DEF ReservedInv, LeaseInv
<1> QED BY <1>1, ReservedInvariant, PTL

\* So an operation never runs in a session that a reset has revoked.
THEOREM RevokedIsQuiet == Spec => []NoOperationOnRevoked
<1>1. ReservedInv => NoOperationOnRevoked
  BY DEF ReservedInv
<1> QED BY <1>1, ReservedInvariant, PTL

----------------------------------------------------------------------------
(* Executors of revoked sessions, when no operation loses its connection *)

\* The executor of a session that was revoked is still registered.
Left(s) == session[s] = "REVOKED" /\ s \in instances

\* The cleaner that holds the reservation knows it: it has not begun, or will
\* learn of the commit.
Knows(k) ==
    /\ cleaner[k].pc \in {"lock", "locked"} => ~ Left(cleaner[k].session)
    /\ cleaner[k].pc = "known" /\ lease[cleaner[k].session] = cleaner[k].holds /\ ~ cleaner[k].committed =>
          ~ Left(cleaner[k].session)

\* A create transaction that outlived its process belongs to a session which
\* the next start has revoked.
Outlived(s) ==
    /\ session[s] # "ABSENT"
    /\ server # "starting" => session[s] = "REVOKED" /\ s \notin instances

ExecutorInv ==
    /\ \A o \in Operation : op[o].pc # "idle" => session[op[o].session] # "ABSENT"
    /\ server = "starting" => instances = {}
    /\ \A s \in orphan : Outlived(s)
    /\ \A s \in Session : Left(s) => lease[s] # NoCleaner /\ ~ owned[s]
    /\ \A k \in Cleaner : Knows(k)

\* While a session is reserved, and in one that is revoked, no operation runs.
LEMMA RunsUnreserved ==
    ASSUME QueueInv, NoOperationOnRevoked, NEW o \in Operation, op[o].pc \in {"running", "install"}
    PROVE  /\ op[o].session \in Session
           /\ lease[op[o].session] = NoCleaner
           /\ session[op[o].session] # "REVOKED"
<1>1. op[o].session \in Session
  BY DEF QueueInv, InOrder
<1>2. QueueTells(op[o].session) /\ o \in AdmittedTo(op[o].session)
  BY <1>1 DEF QueueInv, AdmittedTo, Admitted
<1> QED BY <1>1, <1>2 DEF QueueTells, NoOperationOnRevoked

\* A cleaner gives a reservation back when the executor of its session has been
\* released, or the session is not revoked.
LEMMA FinishReleases ==
    ASSUME TypeOK, LeaseInv, ExecutorInv, NEW k \in Cleaner, NEW s \in Session,
           ResetStep(k) \/ MaintenanceStep(k),
           lease[s] # NoCleaner, lease'[s] = NoCleaner
    PROVE  ~ Left(s)'
<1>0. /\ cleaner[k] \in CleanerRecord /\ lease \in [Session -> Cleaner \cup {NoCleaner}]
      /\ NoCleaner \notin Cleaner
      /\ instances' \subseteq instances /\ UNCHANGED session
  BY GateAssumption, CleanerSessions DEF TypeOK, ResetTypeOK, GateTypeOK
<1>1. CleanerInv(k) /\ Knows(k)
  BY DEF LeaseInv, ExecutorInv
<1>2. ASSUME NEW committed, Finish(k, committed)
      PROVE  /\ s = cleaner[k].session /\ lease[s] = cleaner[k].holds
             /\ committed => s \notin instances'
  BY <1>0, <1>2 DEF Finish, Release, ReleaseSession
<1>3. ~ Left(s) => ~ Left(s)'
  BY <1>0 DEF Left
<1>4. CASE CleanRolledBack(k)
  BY <1>1, <1>2, <1>3, <1>4 DEF CleanRolledBack, Knows
<1>5. CASE CleanCommitted(k)
  BY <1>2, <1>5 DEF CleanCommitted, Left
<1>6. CASE FinishOutcome(k)
  BY <1>1, <1>2, <1>3, <1>6 DEF FinishOutcome, Knows, Left
<1>7. CASE RefuseReset(k) \/ CleanLock(k) \/ CleanCommit(k) \/ CleanUnknown(k) \/ ReadOutcome(k)
           \/ OutcomeUnknown(k)
  BY <1>7 DEF RefuseReset, CleanLock, CleanCommit, CleanUnknown, ReadOutcome, OutcomeUnknown, gateVars
<1>8. CASE ReserveReset(k)
  BY <1>0, <1>8 DEF ReserveReset, Reserve
<1>9. ASSUME NEW t \in Session, Sweep(k, t) PROVE FALSE
  BY <1>0, <1>9 DEF Sweep, Reserve
<1>10. CASE Tick(k) \/ Awaited(k) \/ QueryCandidates(k) \/ QueryFails(k) \/ SweepDone(k)
            \/ \E t \in Session : Recover(k, t)
  BY <1>10 DEF Tick, Awaited, QueryCandidates, QueryFails, SweepDone, Recover, gateVars
<1> QED
  BY <1>4, <1>5, <1>6, <1>7, <1>8, <1>9, <1>10 DEF ResetStep, MaintenanceStep

LEMMA OthersKnow ==
    ASSUME LeaseInv, ExecutorInv, SessionsTypeOK, NEW k \in Cleaner, Touches(k), NEW j \in Cleaner \ {k},
           UNCHANGED session, instances' \subseteq instances
    PROVE  Knows(j)'
<1>1. CleanerInv(j) /\ Knows(j) /\ cleaner'[j] = cleaner[j]
  BY DEF LeaseInv, ExecutorInv, Touches
<1>2. PICK s : s = cleaner[j].session
  OBVIOUS
<1>3. ~ Left(s) => ~ Left(s)'
  BY DEF Left
<1>4. ASSUME cleaner[j].pc = "known", lease'[s] = cleaner[j].holds
      PROVE  lease[s] = cleaner[j].holds
  <2>1. s \in Session /\ cleaner[j].holds \in Cleaner /\ cleaner[j].holds # NoCleaner
    BY <1>1, <1>2, <1>4, GateAssumption DEF CleanerInv, Roles, Reads
  <2>2. Remembers(j, cleaner[j].holds, s)
    BY <1>2 DEF Remembers
  <2> QED BY <1>4, <2>1, <2>2 DEF Touches
<1> QED BY <1>1, <1>2, <1>3, <1>4 DEF Knows

LEMMA CleanerKnows ==
    ASSUME TypeOK, LeaseInv, ExecutorInv, NEW k \in Cleaner,
           ResetStep(k) \/ MaintenanceStep(k)
    PROVE  Knows(k)'
<1>0. /\ cleaner \in [Cleaner -> CleanerRecord] /\ cleaner[k] \in CleanerRecord
      /\ instances' \subseteq instances /\ UNCHANGED <<session, owned>>
  BY CleanerSessions DEF TypeOK, ResetTypeOK
<1>1. CleanerInv(k) /\ Knows(k)
  BY DEF LeaseInv, ExecutorInv
<1>2. ASSUME NEW record, cleaner' = [cleaner EXCEPT ![k] = record],
             record.pc \notin {"lock", "locked", "known"}
      PROVE  Knows(k)'
  BY <1>0, <1>2 DEF Knows
<1>3. ASSUME NEW record, cleaner' = [cleaner EXCEPT ![k] = record],
             record.session \in Session, lease[record.session] = NoCleaner,
             record.pc # "known"
      PROVE  Knows(k)'
  <2>1. ~ Left(record.session)'
    BY <1>0, <1>3 DEF ExecutorInv, Left
  <2> QED BY <1>0, <1>3, <2>1 DEF Knows
<1>4. ASSUME cleaner' = [cleaner EXCEPT ![k] = Resumed(k)] PROVE Knows(k)'
  <2>1. Resumed(k).pc \notin {"lock", "locked", "known"}
    BY ResumedEffect DEF TypeOK
  <2> QED BY <1>2, <1>4, <2>1
<1>5. ASSUME NEW pc, pc \notin {"lock", "locked", "known"}, cleaner' = [cleaner EXCEPT ![k].pc = pc]
      PROVE  Knows(k)'
  <2> DEFINE record == [cleaner[k] EXCEPT !.pc = pc]
  <2>1. record.pc = pc /\ cleaner' = [cleaner EXCEPT ![k] = record]
    BY <1>0, <1>5 DEF CleanerRecord
  <2> HIDE DEF record
  <2> QED BY <1>2, <1>5, <2>1
<1>6. ASSUME NEW committed, Finish(k, committed) PROVE Knows(k)'
  BY <1>4, <1>5, <1>6 DEF Finish
<1>7. CASE cleaner' = [cleaner EXCEPT ![k] = IdleCleaner]
  BY <1>2, <1>7 DEF IdleCleaner
<1>8. CASE ReserveReset(k)
  <2> DEFINE record == [cleaner[k] EXCEPT !.pc = "lock", !.holds = k]
  <2>1. record.pc = "lock" /\ record.session = cleaner[k].session
    BY <1>0 DEF CleanerRecord
  <2>2. /\ cleaner' = [cleaner EXCEPT ![k] = record]
        /\ lease[cleaner[k].session] = NoCleaner /\ cleaner[k].session \in Session
    BY <1>1, <1>8 DEF ReserveReset, Reservable, CleanerInv, Roles
  <2> HIDE DEF record
  <2> QED BY <1>3, <2>1, <2>2
<1>9. ASSUME NEW s \in Session, Sweep(k, s) PROVE Knows(k)'
  <2> DEFINE todo == [cleaner[k].todo EXCEPT ![s] = NoCleaner]
             taking == [cleaner[k] EXCEPT !.pc = "lock", !.session = s, !.holds = k, !.todo = todo]
             skipping == [cleaner[k] EXCEPT !.todo = todo]
  <2>1. /\ taking = [cleaner[k] EXCEPT !.pc = "lock", !.session = s, !.holds = k, !.todo[s] = NoCleaner]
        /\ skipping = [cleaner[k] EXCEPT !.todo[s] = NoCleaner]
    OBVIOUS
  <2> HIDE DEF todo
  <2>2. taking.pc = "lock" /\ taking.session = s /\ skipping.pc = cleaner[k].pc
    BY <1>0 DEF CleanerRecord
  <2> HIDE DEF taking, skipping
  <2>3. CASE Reservable(s)
    BY <1>3, <1>9, <2>1, <2>2, <2>3 DEF Sweep, Reservable
  <2>4. CASE ~ Reservable(s)
    BY <1>2, <1>9, <2>1, <2>2, <2>4 DEF Sweep
  <2> QED BY <2>3, <2>4
<1>10. CASE CleanLock(k)
  <2> DEFINE record == [cleaner[k] EXCEPT !.pc = "locked"]
  <2>1. /\ record.pc = "locked" /\ record.session = cleaner[k].session
        /\ cleaner' = [cleaner EXCEPT ![k] = record]
    BY <1>0, <1>10 DEF CleanerRecord, CleanLock
  <2> HIDE DEF record
  <2>2. ~ Left(cleaner[k].session)'
    BY <1>0, <1>1, <1>10 DEF Knows, CleanLock, Left
  <2> QED BY <1>0, <2>1, <2>2 DEF Knows
<1>11. CASE CleanCommit(k) \/ CleanUnknown(k)
  BY <1>5, <1>11 DEF CleanCommit, CleanUnknown
<1>12. CASE CleanRolledBack(k) \/ CleanCommitted(k) \/ FinishOutcome(k)
  BY <1>6, <1>12 DEF CleanRolledBack, CleanCommitted, FinishOutcome
<1>13. CASE ReadOutcome(k)
  <2>1. PICK s \in Session : s = cleaner[k].session
    BY <1>1, <1>13 DEF ReadOutcome, CleanerInv, Roles
  <2>2. PICK known : known = (session[s] = "REVOKED" /\ ~ owned[s])
    OBVIOUS
  <2> DEFINE record == [cleaner[k] EXCEPT !.pc = "known", !.committed = known]
  <2>3. /\ record.pc = "known" /\ record.session = s /\ record.committed = known
        /\ cleaner' = [cleaner EXCEPT ![k] = record]
    BY <1>0, <1>13, <2>1, <2>2 DEF CleanerRecord, ReadOutcome
  <2> HIDE DEF record
  <2>4. Left(s)' => known
    BY <1>0, <2>2 DEF ExecutorInv, Left
  <2> QED BY <1>0, <2>3, <2>4 DEF Knows
<1>14. CASE OutcomeUnknown(k)
  BY <1>4, <1>14 DEF OutcomeUnknown
<1>15. CASE RefuseReset(k) \/ QueryFails(k) \/ SweepDone(k)
  BY <1>7, <1>15 DEF RefuseReset, QueryFails, SweepDone
<1>16. ASSUME NEW s, NEW entry, NEW rest, Resolve(k, s, entry, rest) PROVE Knows(k)'
  <2> DEFINE waiting == [cleaner[k] EXCEPT !.pc = "await", !.session = s, !.todo = rest]
             reading == [cleaner[k] EXCEPT !.pc = "read", !.session = s, !.holds = entry,
                                           !.then = "recover", !.todo = rest]
  <2>1. waiting.pc = "await" /\ reading.pc = "read"
    BY <1>0 DEF CleanerRecord
  <2>2. \/ cleaner' = [cleaner EXCEPT ![k] = waiting]
        \/ cleaner' = [cleaner EXCEPT ![k] = reading]
    BY <1>16 DEF Resolve
  <2> HIDE DEF waiting, reading
  <2> QED BY <1>2, <2>1, <2>2
<1>17. CASE Tick(k)
  <2>1. CASE cleaner' = [cleaner EXCEPT ![k].pc = "recover"]
    <3> DEFINE record == [cleaner[k] EXCEPT !.pc = "recover"]
    <3>1. record.pc = "recover" /\ cleaner' = [cleaner EXCEPT ![k] = record]
      BY <1>0, <2>1 DEF CleanerRecord
    <3> HIDE DEF record
    <3> QED BY <1>2, <3>1
  <2>2. ASSUME NEW s \in Session, Resolve(k, s, pending[s], [pending EXCEPT ![s] = NoCleaner])
        PROVE  Knows(k)'
    BY <1>16, <2>2
  <2> QED BY <1>17, <2>1, <2>2 DEF Tick
<1>20. ASSUME NEW s \in Session, Recover(k, s) PROVE Knows(k)'
  <2>1. Resolve(k, s, cleaner[k].todo[s], [cleaner[k].todo EXCEPT ![s] = NoCleaner])
    BY <1>20 DEF Recover
  <2> QED BY <1>16, <2>1
<1>18. CASE Awaited(k)
  <2> DEFINE record == [cleaner[k] EXCEPT !.pc = "recover", !.session = NoSession]
  <2>1. record.pc = "recover" /\ cleaner' = [cleaner EXCEPT ![k] = record]
    BY <1>0, <1>18 DEF CleanerRecord, Awaited
  <2> HIDE DEF record
  <2> QED BY <1>2, <2>1
<1>19. CASE QueryCandidates(k)
  <2> DEFINE todo == [s \in Session |-> IF Candidate(s) THEN k ELSE NoCleaner]
             record == [cleaner[k] EXCEPT !.pc = "sweep", !.then = "sweep", !.todo = todo]
  <2>1. cleaner' = [cleaner EXCEPT ![k] = record]
    BY <1>19 DEF QueryCandidates
  <2> HIDE DEF todo
  <2>2. record.pc = "sweep"
    BY <1>0 DEF CleanerRecord
  <2> HIDE DEF record
  <2> QED BY <1>2, <2>1, <2>2
<1> QED
  BY <1>8, <1>9, <1>10, <1>11, <1>12, <1>13, <1>14, <1>15, <1>17, <1>18, <1>19, <1>20
  DEF ResetStep, MaintenanceStep

LEMMA CleanerKeepsExecutors ==
    ASSUME TypeOK, LeaseInv, ExecutorInv, NEW k \in Cleaner, server # "starting",
           ResetStep(k) \/ MaintenanceStep(k), UNCHANGED <<server, orphan>>
    PROVE  ExecutorInv'
<1>1. UNCHANGED <<session, owned, op>> /\ instances' \subseteq instances
  BY CleanerSessions, CleanerReserves DEF TypeOK, Reserves
<1>2. Touches(k)
  BY ResetStepKeeps, MaintenanceStepKeeps DEF TypeOK
<1>3. \A j \in Cleaner : Knows(j)'
  BY <1>1, <1>2, OthersKnow, CleanerKnows DEF TypeOK
<1>4. ASSUME NEW s \in Session, Left(s)' PROVE lease'[s] # NoCleaner /\ ~ owned'[s]
  <2>1. Left(s)
    BY <1>1, <1>4 DEF Left
  <2> QED BY <1>1, <1>4, <2>1, FinishReleases DEF ExecutorInv
<1>5. (\A s \in orphan : Outlived(s))' /\ (server = "starting" => instances = {})'
  BY <1>1 DEF ExecutorInv, Outlived
<1>6. (\A o \in Operation : op[o].pc # "idle" => session[op[o].session] # "ABSENT")'
  BY <1>1 DEF ExecutorInv
<1> QED BY <1>3, <1>4, <1>5, <1>6 DEF ExecutorInv

\* A step that leaves the cleaners and the reservations alone, and no executor
\* in a session that it revokes or gives rows.
LEMMA NoneLeft ==
    ASSUME LeaseInv, ExecutorInv, UNCHANGED <<cleaner, lease>>,
           \A s \in Session : Left(s)' => Left(s) /\ ~ owned'[s]
    PROVE  (\A s \in Session : Left(s) => lease[s] # NoCleaner /\ ~ owned[s])'
           /\ (\A k \in Cleaner : Knows(k))'
<1>1. ASSUME NEW k \in Cleaner PROVE Knows(k)'
  <2>1. Knows(k) /\ (cleaner[k].pc \in {"lock", "locked", "known"} => cleaner[k].session \in Session)
    BY DEF LeaseInv, CleanerInv, Roles, ExecutorInv
  <2>2. PICK s : s = cleaner[k].session
    OBVIOUS
  <2>3. s \in Session => (Left(s)' => Left(s))
    OBVIOUS
  <2> QED BY <2>1, <2>2, <2>3 DEF Knows
<1> QED BY <1>1 DEF ExecutorInv

\* An operation stays with its session.
LEMMA OperationStays ==
    ASSUME QueueInv, NEW o \in Operation, OperationStep(o), NEW p \in Operation, op'[p].pc # "idle"
    PROVE  op[p].pc # "idle" /\ op'[p].session = op[p].session
<1>1. op \in [Operation -> OperationRecord] /\ op[o] \in OperationRecord
  BY DEF QueueInv, GateTypeOK
<1>2. CASE Leaves(o)
  BY <1>2, LeaveEffect DEF NotAdmitted
<1>3. ASSUME NEW record, op' = [op EXCEPT ![o] = record], record.session = op[o].session,
             op[o].pc # "idle"
      PROVE  op[p].pc # "idle" /\ op'[p].session = op[p].session
  BY <1>1, <1>3
<1>4. ASSUME NEW exclusive, NEW awaited, Enqueue(o, exclusive, awaited), op[o].pc # "idle"
      PROVE  op[p].pc # "idle" /\ op'[p].session = op[p].session
  <2> DEFINE record == [op[o] EXCEPT !.pc = "waiting", !.exclusive = exclusive,
                                     !.waits = awaited \ {NoOperation},
                                     !.before = AdmittedTo(op[o].session)]
  <2>1. record.session = op[o].session
    BY <1>1 DEF OperationRecord
  <2>2. op' = [op EXCEPT ![o] = record]
    BY <1>4 DEF Enqueue
  <2> HIDE DEF record
  <2> QED BY <1>3, <1>4, <2>1, <2>2
<1>5. CASE RefuseOperation(o)
  BY <1>1, <1>5 DEF RefuseOperation, NotAdmitted
<1>6. ASSUME NEW pc, op' = [op EXCEPT ![o].pc = pc], op[o].pc # "idle"
      PROVE  op[p].pc # "idle" /\ op'[p].session = op[p].session
  BY <1>1, <1>6 DEF OperationRecord
<1>7. CASE Revalidate(o) \/ ForSession(o) \/ InstallExecutor(o) \/ FinishOperation(o)
  <2>1. Leaves(o) \/ (op[o].pc # "idle" /\ \E pc : op' = [op EXCEPT ![o].pc = pc])
    BY <1>7 DEF Revalidate, ForSession, InstallExecutor, FinishOperation, Leaves, Resumable, Admitted
  <2> QED BY <1>2, <1>6, <2>1
<1> QED
  BY <1>4, <1>5, <1>7 DEF OperationStep, AdmitExclusive, AdmitParallel

LEMMA ExecutorNext ==
    ASSUME "orphan" \notin Faults, TypeOK, QueueInv, LeaseInv, NoOperationOnRevoked, ExecutorInv,
           [Next]_vars
    PROVE  ExecutorInv'
<1>0. /\ session \in [Session -> SessionStatus] /\ owned \in [Session -> BOOLEAN]
      /\ orphan \subseteq Session /\ Stopped
      /\ op \in [Operation -> OperationRecord]
      /\ cleaner \in [Cleaner -> CleanerRecord]
      /\ \A o \in Operation : op[o].pc # "idle" => op[o].session \in Session
  BY DEF TypeOK, SessionsTypeOK, GateTypeOK, ResetTypeOK, LeaseInv, QueueInv, InOrder
<1>1. CASE UNCHANGED vars \/ Listen
  <2>1. /\ UNCHANGED <<session, owned, instances, op, lease, cleaner, orphan>>
        /\ server' = "starting" => server = "starting"
        /\ server = "starting" => server' = "starting"
    BY <1>1 DEF vars, Listen, sessionVars, gateVars, resetVars
  <2> QED BY <2>1 DEF ExecutorInv, Outlived, Left, Knows
<1>2. CASE StartServer
  <2>1. /\ UNCHANGED <<owned, instances, op, lease, cleaner, orphan>>
        /\ server = "starting" /\ server' # "starting" /\ instances = {}
        /\ \A o \in Operation : op[o].pc = "idle"
        /\ \A s \in Session : session[s] # "ABSENT" => session'[s] = "REVOKED"
    BY <1>0, <1>2 DEF StartServer, gateVars, resetVars, ExecutorInv, Stopped
  <2>2. \A s \in Session : Left(s)' => Left(s) /\ ~ owned'[s]
    BY <2>1 DEF Left
  <2>3. \A s \in orphan : Outlived(s)'
    BY <1>0, <2>1 DEF ExecutorInv, Outlived
  <2> QED BY <2>1, <2>2, <2>3, NoneLeft DEF ExecutorInv
<1>3. CASE Restart
  <2>1. /\ UNCHANGED session /\ instances' = {} /\ server' = "starting"
        /\ \A o \in Operation : op'[o].pc = "idle"
        /\ \A k \in Cleaner : cleaner'[k].pc = "idle"
    BY <1>3 DEF Restart, NotAdmitted, IdleCleaner
  <2>2. \A s \in orphan' : session[s] # "ABSENT"
    BY <1>3 DEF Restart, ExecutorInv, Outlived, Creating
  <2> QED BY <2>1, <2>2 DEF ExecutorInv, Outlived, Left, Knows
<1>4. CASE server = "listening" /\ Arrival /\ UNCHANGED <<server, orphan>>
  <2>1. ASSUME NEW s \in Session, CreateSession(s), UNCHANGED gateVars, UNCHANGED resetVars
        PROVE  ExecutorInv'
    <3>1. /\ UNCHANGED <<owned, instances, op, lease, cleaner, server, orphan>>
          /\ session[s] = "ABSENT" /\ session'[s] = "ACTIVE"
          /\ \A t \in Session \ {s} : session'[t] = session[t]
      BY <1>0, <1>4, <2>1 DEF CreateSession, gateVars, resetVars
    <3>2. \A t \in Session : Left(t)' => Left(t) /\ ~ owned'[t]
      BY <3>1 DEF Left, ExecutorInv
    <3>3. \A t \in orphan : Outlived(t)'
      BY <1>0, <3>1 DEF ExecutorInv, Outlived
    <3>4. \A o \in Operation : op[o].pc # "idle" => session'[op[o].session] # "ABSENT"
      BY <1>0, <3>1 DEF ExecutorInv
    <3> QED BY <3>1, <3>2, <3>3, <3>4, NoneLeft DEF ExecutorInv
  <2>2. ASSUME NEW s \in Session, NEW o \in Operation, Authenticate(o, s), UNCHANGED resetVars
        PROVE  ExecutorInv'
    <3> DEFINE record == [op[o] EXCEPT !.pc = "authenticated", !.session = s]
    <3>1. /\ record.session = s /\ op' = [op EXCEPT ![o] = record] /\ session[s] = "ACTIVE"
          /\ UNCHANGED <<session, owned, instances, lease, cleaner, server, orphan>>
      BY <1>0, <1>4, <2>2 DEF Authenticate, OperationRecord, Usable, sessionVars, resetVars
    <3> HIDE DEF record
    <3>2. \A p \in Operation : op'[p].pc # "idle" => session[op'[p].session] # "ABSENT"
      BY <1>0, <3>1 DEF ExecutorInv
    <3>3. \A t \in Session : Left(t)' => Left(t) /\ ~ owned'[t]
      BY <3>1 DEF Left, ExecutorInv
    <3> QED BY <3>1, <3>2, <3>3, NoneLeft DEF ExecutorInv, Outlived
  <2>3. ASSUME NEW s \in Session, NEW k \in Cleaner, AuthenticateReset(k, s) PROVE ExecutorInv'
    <3> DEFINE record == [cleaner[k] EXCEPT !.pc = "authenticated", !.session = s]
    <3>1. /\ record.pc = "authenticated" /\ cleaner' = [cleaner EXCEPT ![k] = record]
          /\ UNCHANGED <<session, owned, instances, op, lease, server, orphan>>
      BY <1>0, <1>4, <2>3 DEF AuthenticateReset, CleanerRecord, sessionVars, gateVars
    <3> HIDE DEF record
    <3>2. \A j \in Cleaner : Knows(j)'
      BY <1>0, <3>1 DEF ExecutorInv, Knows, Left
    <3> QED BY <3>1, <3>2 DEF ExecutorInv, Outlived, Left
  <2> QED BY <1>4, <2>1, <2>2, <2>3 DEF Arrival
<1>5. ASSUME NEW s \in Session, Expire(s), UNCHANGED <<gateVars, resetVars, server, orphan>>
      PROVE  ExecutorInv'
  <2>1. /\ UNCHANGED <<owned, instances, op, lease, cleaner, server, orphan>>
        /\ session[s] = "ACTIVE" /\ session'[s] = "EXPIRED"
        /\ \A t \in Session \ {s} : session'[t] = session[t]
    BY <1>0, <1>5 DEF Expire, Usable, gateVars, resetVars
  <2>2. \A t \in Session : Left(t)' => Left(t) /\ ~ owned'[t]
    BY <2>1 DEF Left, ExecutorInv
  <2>3. \A t \in orphan : Outlived(t)'
    BY <1>0, <2>1 DEF ExecutorInv, Outlived
  <2>4. \A o \in Operation : op[o].pc # "idle" => session'[op[o].session] # "ABSENT"
    BY <1>0, <2>1 DEF ExecutorInv
  <2> QED BY <2>1, <2>2, <2>3, <2>4, NoneLeft DEF ExecutorInv
<1>6. ASSUME NEW s \in Session, DatabaseCommits(s), UNCHANGED <<server, orphan>> PROVE ExecutorInv'
  <2>1. /\ UNCHANGED <<instances, op, lease, cleaner, server, orphan>>
        /\ txn[s] = "committing" /\ ~ RowFree(s)
        /\ session'[s] = "REVOKED" /\ ~ owned'[s]
        /\ \A t \in Session \ {s} : session'[t] = session[t] /\ owned'[t] = owned[t]
    BY <1>0, <1>6 DEF DatabaseCommits, gateVars, RowFree
  <2>2. server # "starting" => lease[s] # NoCleaner
    BY <2>1 DEF LeaseInv, UndecidedIsReserved
  <2>3. \A t \in Session : Left(t)' => lease[t] # NoCleaner /\ ~ owned'[t]
    BY <2>1, <2>2 DEF Left, ExecutorInv
  <2>4. ASSUME NEW k \in Cleaner PROVE Knows(k)'
    <3>1. CleanerInv(k) /\ Knows(k)
      BY DEF LeaseInv, ExecutorInv
    <3>2. PICK t : t = cleaner[k].session
      OBVIOUS
    <3>3. \/ cleaner[k].pc \in {"lock", "locked"}
          \/ cleaner[k].pc = "known" /\ lease[t] = cleaner[k].holds
          => t \in Session /\ t # s
      BY <2>1, <3>1, <3>2 DEF CleanerInv, Roles, Cleans, Cleaning, Reads
    <3>4. t \in Session /\ t # s => (Left(t)' => Left(t))
      BY <2>1 DEF Left
    <3> QED BY <2>1, <3>1, <3>2, <3>3, <3>4 DEF Knows
  <2>5. \A t \in orphan : Outlived(t)'
    BY <1>0, <2>1 DEF ExecutorInv, Outlived
  <2>6. \A o \in Operation : op[o].pc # "idle" => session'[op[o].session] # "ABSENT"
    BY <1>0, <2>1 DEF ExecutorInv
  <2> QED BY <2>1, <2>3, <2>4, <2>5, <2>6 DEF ExecutorInv
<1>7. ASSUME NEW s \in Session, DatabaseAborts(s), UNCHANGED <<server, orphan>> PROVE ExecutorInv'
  <2>1. UNCHANGED <<session, owned, instances, op, lease, cleaner, server, orphan>>
    BY <1>7 DEF DatabaseAborts, sessionVars, gateVars
  <2> QED BY <2>1 DEF ExecutorInv, Outlived, Left, Knows
<1>8. ASSUME NEW o \in Operation, OperationStep(o), UNCHANGED <<resetVars, server, orphan>>
      PROVE  ExecutorInv'
  <2>1. /\ UNCHANGED <<session, owned, lease, cleaner, server, orphan>>
        /\ \/ UNCHANGED instances
           \/ op[o].pc = "install" /\ instances' = instances \cup {op[o].session}
        /\ op[o].pc # "idle"
    BY <1>8 DEF OperationStep, AdmitExclusive, AdmitParallel, RefuseOperation, Revalidate, ForSession,
                InstallExecutor, FinishOperation, Install, Leave, sessionVars, resetVars
  <2>2. \/ UNCHANGED instances
        \/ session[op[o].session] # "REVOKED" /\ instances' = instances \cup {op[o].session}
    BY <2>1, RunsUnreserved
  <2>3. server # "starting"
    BY <1>0, <2>1 DEF Stopped
  <2>4. \A t \in Session : Left(t)' => Left(t) /\ ~ owned'[t]
    BY <2>1, <2>2 DEF Left, ExecutorInv
  <2>5. \A t \in orphan : Outlived(t)'
    BY <2>1, <2>2, <2>3 DEF ExecutorInv, Outlived
  <2>6. \A p \in Operation : op'[p].pc # "idle" => session[op'[p].session] # "ABSENT"
    BY <1>8, OperationStays DEF ExecutorInv
  <2> QED BY <2>1, <2>3, <2>4, <2>5, <2>6, NoneLeft DEF ExecutorInv
<1>9. ASSUME NEW o \in Operation, Own(o), UNCHANGED <<resetVars, server, orphan>> PROVE ExecutorInv'
  <2>1. /\ UNCHANGED <<session, instances, op, lease, cleaner, server, orphan>>
        /\ session[op[o].session] # "REVOKED"
        /\ \A t \in Session \ {op[o].session} : owned'[t] = owned[t]
    BY <1>0, <1>9, RunsUnreserved DEF Own, Creating, gateVars, resetVars
  <2>2. \A t \in Session : Left(t)' => Left(t) /\ ~ owned'[t]
    BY <2>1 DEF Left, ExecutorInv
  <2> QED BY <2>1, <2>2, NoneLeft DEF ExecutorInv, Outlived
<1>10. ASSUME NEW s \in Session, OrphanDecided(s) PROVE ExecutorInv'
  <2>1. /\ UNCHANGED <<session, instances, op, lease, cleaner, server>>
        /\ s \in orphan /\ orphan' \subseteq orphan
        /\ \A t \in Session \ {s} : owned'[t] = owned[t]
    BY <1>0, <1>10 DEF OrphanDecided, gateVars, resetVars
  <2>2. s \notin instances
    BY <2>1 DEF ExecutorInv, Outlived
  <2>3. \A t \in Session : Left(t)' => Left(t) /\ ~ owned'[t]
    BY <2>1, <2>2 DEF Left, ExecutorInv
  <2> QED BY <2>1, <2>3, NoneLeft DEF ExecutorInv, Outlived
<1>11. ASSUME NEW k \in Cleaner, UNCHANGED <<server, orphan>>,
              ResetStep(k) \/ (server # "starting" /\ MaintenanceStep(k))
       PROVE  ExecutorInv'
  <2>1. ResetStep(k) => cleaner[k].pc # "idle"
    BY DEF ResetStep, ReserveReset, RefuseReset, CleanLock, CleanCommit, CleanRolledBack,
           CleanCommitted, CleanUnknown, ReadOutcome, OutcomeUnknown, FinishOutcome
  <2>2. server # "starting"
    BY <1>0, <1>11, <2>1 DEF Stopped
  <2> QED BY <1>11, <2>2, CleanerKeepsExecutors
<1>12. \A o \in Operation : ~ OrphanOperation(o)
  BY DEF OrphanOperation
<1> QED
  BY <1>1, <1>2, <1>3, <1>4, <1>5, <1>6, <1>7, <1>8, <1>9, <1>10, <1>11, <1>12 DEF Next

\* No executor outlives the reset of its session, however the answer of its
\* COMMIT was lost and whoever resolved it, as long as every create transaction
\* is answered or dies with its process.
THEOREM ExecutorsReleased ==
    ASSUME "orphan" \notin Faults
    PROVE  Spec => []ExecutorReleased
<1>1. Init => ExecutorInv
  BY DEF Init, SessionsInit, GateInit, ResetInit, NotAdmitted, IdleCleaner,
         ExecutorInv, Outlived, Left, Knows
<1>2. ReservedInv /\ ExecutorInv /\ [Next]_vars => ExecutorInv'
  <2> SUFFICES ASSUME ReservedInv, ExecutorInv, [Next]_vars PROVE ExecutorInv'
    OBVIOUS
  <2>1. TypeOK /\ QueueInv /\ LeaseInv /\ NoOperationOnRevoked
    BY DEF ReservedInv, RuntimeInv
  <2> QED BY <2>1, ExecutorNext
<1>3. ExecutorInv => ExecutorReleased
  BY DEF ExecutorInv, ExecutorReleased, Left
<1> QED BY <1>1, <1>2, <1>3, ReservedInvariant, PTL DEF Spec

----------------------------------------------------------------------------
(* What is known when a reservation is given back *)

\* A reset is about to reserve the session, or a reset's reservation is held.
Asked(s) ==
    \/ lease[s] \in Resetter
    \/ \E k \in Resetter : cleaner[k].pc = "authenticated" /\ cleaner[k].session = s

\* A cleanup that took effect has revoked its session.
Revokes == \A s \in Session : txn[s] = "committed" => session[s] = "REVOKED"

\* An outcome that was read as committed was that of a revoked session.
Learnt(k) ==
    cleaner[k].pc = "known" /\ cleaner[k].committed => session[cleaner[k].session] = "REVOKED"

\* Nobody gives rows to the company of a session that a viewer's reset has
\* revoked: its create transactions ended before the reset was admitted.
AskedIsClean ==
    \A s \in Session : Asked(s) => s \notin orphan /\ (session[s] = "REVOKED" => ~ owned[s])

ReleasedInv ==
    /\ Revokes
    /\ \A k \in Cleaner : Learnt(k)
    /\ AskedIsClean
    /\ server = "starting" => \A s \in Session : lease[s] = NoCleaner

\* What a cleaner's step does to what it knows and asks for.
Informs(k) ==
    /\ \A s \in Session : txn'[s] = "committed" => txn[s] = "committed"
    /\ cleaner'[k].pc # "authenticated"
    /\ cleaner'[k].pc = "known" =>
          /\ cleaner'[k].session = cleaner[k].session
          /\ cleaner'[k].committed => session[cleaner[k].session] = "REVOKED"
    /\ \A s \in Session :
          \/ lease'[s] \in {lease[s], NoCleaner}
          \/ lease'[s] = k /\ k \in Sweeper
          \/ lease'[s] = k /\ cleaner[k].pc = "authenticated" /\ cleaner[k].session = s

LEMMA FinishInforms ==
    ASSUME ResetTypeOK, GateTypeOK, NEW k \in Cleaner, NEW committed, Finish(k, committed)
    PROVE  /\ cleaner'[k].pc \notin {"authenticated", "known"}
           /\ \A s \in Session : lease'[s] \in {lease[s], NoCleaner}
<1>0. cleaner \in [Cleaner -> CleanerRecord] /\ cleaner[k] \in CleanerRecord
  BY DEF ResetTypeOK
<1>1. ASSUME cleaner' = [cleaner EXCEPT ![k] = Resumed(k)]
      PROVE  cleaner'[k].pc \notin {"authenticated", "known"}
  BY <1>0, <1>1, ResumedEffect
<1>2. ASSUME cleaner' = [cleaner EXCEPT ![k].pc = "invalid"]
      PROVE  cleaner'[k].pc \notin {"authenticated", "known"}
  BY <1>0, <1>2 DEF CleanerRecord
<1>3. \A s \in Session : lease'[s] \in {lease[s], NoCleaner}
  BY DEF Finish, Release, GateTypeOK
<1> QED BY <1>1, <1>2, <1>3 DEF Finish

LEMMA ResetInforms ==
    ASSUME ResetTypeOK, GateTypeOK, LeaseInv, NEW k \in Cleaner, ResetStep(k)
    PROVE  Informs(k)
<1>0. /\ cleaner \in [Cleaner -> CleanerRecord] /\ cleaner[k] \in CleanerRecord
      /\ txn \in [Session -> TransactionState]
      /\ lease \in [Session -> Cleaner \cup {NoCleaner}]
  BY DEF ResetTypeOK, GateTypeOK
<1>1. ASSUME NEW record, cleaner' = [cleaner EXCEPT ![k] = record]
      PROVE  cleaner'[k] = record
  BY <1>0, <1>1
<1>2. CASE ReserveReset(k)
  <2> DEFINE record == [cleaner[k] EXCEPT !.pc = "lock", !.holds = k]
  <2>1. record.pc = "lock" /\ cleaner' = [cleaner EXCEPT ![k] = record] /\ UNCHANGED txn
        /\ cleaner[k].pc = "authenticated" /\ lease' = [lease EXCEPT ![cleaner[k].session] = k]
    BY <1>0, <1>2 DEF ReserveReset, CleanerRecord, Reserve
  <2> HIDE DEF record
  <2> QED BY <1>0, <1>1, <2>1 DEF Informs
<1>3. CASE RefuseReset(k)
  <2>1. cleaner'[k].pc = "idle" /\ UNCHANGED <<txn, lease>>
    BY <1>0, <1>3 DEF RefuseReset, IdleCleaner, gateVars
  <2> QED BY <2>1 DEF Informs
<1>4. CASE CleanLock(k) \/ CleanCommit(k) \/ CleanUnknown(k)
  <2>1. cleaner'[k].pc \in {"locked", "commit", "read"} /\ UNCHANGED lease
    BY <1>0, <1>4 DEF CleanLock, CleanCommit, CleanUnknown, CleanerRecord, gateVars
  <2>2. \A s \in Session : txn'[s] = "committed" => txn[s] = "committed"
    BY <1>0, <1>4 DEF CleanLock, CleanCommit, CleanUnknown
  <2> QED BY <2>1, <2>2 DEF Informs
<1>5. CASE CleanRolledBack(k) \/ CleanCommitted(k) \/ FinishOutcome(k)
  <2>1. \A s \in Session : txn'[s] = "committed" => txn[s] = "committed"
    BY <1>0, <1>5 DEF CleanRolledBack, CleanCommitted, FinishOutcome
  <2> QED BY <1>5, <2>1, FinishInforms DEF CleanRolledBack, CleanCommitted, FinishOutcome, Informs
<1>6. CASE ReadOutcome(k)
  <2> DEFINE seen == session[cleaner[k].session] = "REVOKED" /\ ~ owned[cleaner[k].session]
             record == [cleaner[k] EXCEPT !.pc = "known", !.committed = seen]
  <2>1. /\ record.pc = "known" /\ record.session = cleaner[k].session /\ record.committed = seen
        /\ cleaner' = [cleaner EXCEPT ![k] = record] /\ UNCHANGED <<txn, lease>>
    BY <1>0, <1>6 DEF ReadOutcome, CleanerRecord, gateVars
  <2> HIDE DEF record
  <2>2. cleaner'[k] = record
    BY <1>1, <2>1
  <2> QED BY <2>1, <2>2 DEF Informs
<1>7. CASE OutcomeUnknown(k)
  <2>1. cleaner'[k].pc \in {"idle", "recover", "sweep"} /\ UNCHANGED <<txn, lease>>
    BY <1>0, <1>7, ResumedEffect DEF OutcomeUnknown, gateVars
  <2> QED BY <2>1 DEF Informs
<1> QED BY <1>2, <1>3, <1>4, <1>5, <1>6, <1>7 DEF ResetStep

LEMMA MaintenanceInforms ==
    ASSUME ResetTypeOK, GateTypeOK, NEW k \in Cleaner, MaintenanceStep(k), LeaseInv
    PROVE  Informs(k)
<1>0. /\ cleaner \in [Cleaner -> CleanerRecord] /\ cleaner[k] \in CleanerRecord
      /\ txn \in [Session -> TransactionState]
      /\ lease \in [Session -> Cleaner \cup {NoCleaner}]
      /\ Roles(k) /\ Resetter \cup Sweeper = Cleaner
  BY CleanerAssumption DEF ResetTypeOK, GateTypeOK, LeaseInv, CleanerInv
<1>1. ASSUME NEW s \in Session, NEW entry, NEW rest, Resolve(k, s, entry, rest)
      PROVE  cleaner'[k].pc \in {"await", "read"}
  <2> DEFINE awaiting == [cleaner[k] EXCEPT !.pc = "await", !.session = s, !.todo = rest]
             reading == [cleaner[k] EXCEPT !.pc = "read", !.session = s, !.holds = entry,
                                           !.then = "recover", !.todo = rest]
  <2>1. awaiting.pc = "await" /\ reading.pc = "read"
    BY <1>0 DEF CleanerRecord
  <2>2. \/ cleaner' = [cleaner EXCEPT ![k] = awaiting]
        \/ cleaner' = [cleaner EXCEPT ![k] = reading]
    BY <1>1 DEF Resolve
  <2> HIDE DEF awaiting, reading
  <2> QED BY <1>0, <2>1, <2>2
<1>2. CASE Tick(k) \/ Awaited(k) \/ QueryCandidates(k) \/ QueryFails(k) \/ SweepDone(k)
           \/ \E s \in Session : Recover(k, s)
  <2>1. UNCHANGED <<txn, lease>>
    BY <1>2 DEF Tick, Awaited, QueryCandidates, QueryFails, SweepDone, Recover, gateVars
  <2>2. cleaner'[k].pc \notin {"authenticated", "known"}
    <3>1. CASE Tick(k) \/ \E s \in Session : Recover(k, s)
      BY <1>0, <1>1, <3>1 DEF Tick, Recover, CleanerRecord
    <3>2. CASE Awaited(k) \/ QueryCandidates(k)
      <4> DEFINE found == [s \in Session |-> IF Candidate(s) THEN k ELSE NoCleaner]
                 recovering == [cleaner[k] EXCEPT !.pc = "recover", !.session = NoSession]
                 sweeping == [cleaner[k] EXCEPT !.pc = "sweep", !.then = "sweep", !.todo = found]
      <4>1. recovering.pc = "recover" /\ sweeping.pc = "sweep"
        BY <1>0 DEF CleanerRecord
      <4>2. \/ cleaner' = [cleaner EXCEPT ![k] = recovering]
            \/ cleaner' = [cleaner EXCEPT ![k] = sweeping]
        BY <3>2 DEF Awaited, QueryCandidates
      <4> HIDE DEF recovering, sweeping
      <4> QED BY <1>0, <4>1, <4>2
    <3>3. CASE QueryFails(k) \/ SweepDone(k)
      BY <1>0, <3>3 DEF QueryFails, SweepDone, IdleCleaner
    <3> QED BY <1>2, <3>1, <3>2, <3>3
  <2> QED BY <2>1, <2>2 DEF Informs
<1>3. ASSUME NEW s \in Session, Sweep(k, s) PROVE Informs(k)
  <2>1. k \in Sweeper
    BY <1>0, <1>3 DEF Sweep, Roles
  <2>2. UNCHANGED txn /\ cleaner'[k].pc \in {"lock", "sweep"}
    <3> DEFINE rest == [cleaner[k].todo EXCEPT ![s] = NoCleaner]
               locking == [cleaner[k] EXCEPT !.pc = "lock", !.session = s, !.holds = k, !.todo = rest]
               skipping == [cleaner[k] EXCEPT !.todo = rest]
    <3>1. locking.pc = "lock" /\ skipping.pc = cleaner[k].pc /\ cleaner[k].pc = "sweep"
      BY <1>0, <1>3 DEF CleanerRecord, Sweep
    <3>2. \/ cleaner' = [cleaner EXCEPT ![k] = locking]
          \/ cleaner' = [cleaner EXCEPT ![k] = skipping]
      BY <1>0, <1>3 DEF Sweep, CleanerRecord
    <3>3. UNCHANGED txn
      BY <1>3 DEF Sweep
    <3> HIDE DEF locking, skipping
    <3> QED BY <1>0, <3>1, <3>2, <3>3
  <2>3. \A t \in Session : lease'[t] = lease[t] \/ lease'[t] = k
    BY <1>0, <1>3 DEF Sweep, Reserve
  <2> QED BY <2>1, <2>2, <2>3 DEF Informs
<1> QED BY <1>2, <1>3 DEF MaintenanceStep

LEMMA CleanerReleases ==
    ASSUME TypeOK, LeaseInv, ReleasedInv, NEW k \in Cleaner, server # "starting",
           ResetStep(k) \/ MaintenanceStep(k), UNCHANGED <<server, orphan>>
    PROVE  ReleasedInv'
<1>0. ResetTypeOK /\ GateTypeOK /\ SessionsTypeOK /\ lease \in [Session -> Cleaner \cup {NoCleaner}]
  BY DEF TypeOK, GateTypeOK
<1>1. UNCHANGED <<session, owned>>
  BY <1>0, CleanerSessions
<1>2. Touches(k) /\ Informs(k)
  BY <1>0, ResetStepKeeps, MaintenanceStepKeeps, ResetInforms, MaintenanceInforms
<1>3. Revokes'
  BY <1>1, <1>2 DEF ReleasedInv, Revokes, Informs
<1>4. ASSUME NEW j \in Cleaner PROVE Learnt(j)'
  <2>1. CASE j = k
    BY <1>1, <1>2, <2>1 DEF Learnt, Informs
  <2>2. CASE j # k
    BY <1>1, <1>2, <2>2 DEF Learnt, Touches, ReleasedInv
  <2> QED BY <2>1, <2>2
<1>5. ASSUME NEW s \in Session, Asked(s)' PROVE Asked(s)
  <2>1. CASE lease'[s] \in Resetter
    BY <1>2, <2>1, CleanerAssumption, GateAssumption DEF Informs, Asked
  <2>2. CASE \E j \in Resetter : cleaner'[j].pc = "authenticated" /\ cleaner'[j].session = s
    BY <1>2, <2>2, CleanerAssumption DEF Informs, Touches, Asked
  <2> QED BY <1>5, <2>1, <2>2 DEF Asked
<1>6. AskedIsClean'
  BY <1>1, <1>5 DEF ReleasedInv, AskedIsClean
<1> QED BY <1>3, <1>4, <1>6 DEF ReleasedInv

\* A step that leaves cleaners and reservations alone, revokes no session but
\* with its rows, and gives no rows to a session that is asked for and revoked.
LEMMA OutsideReleases ==
    ASSUME LeaseInv, ReleasedInv, UNCHANGED <<cleaner, lease>>,
           \A s \in Session : session[s] = "REVOKED" => session'[s] = "REVOKED",
           Revokes',
           \A s \in Session : Asked(s) =>
               s \notin orphan' /\ (session'[s] = "REVOKED" => ~ owned'[s]),
           server' = "starting" => server = "starting"
    PROVE  ReleasedInv'
<1>1. ASSUME NEW k \in Cleaner PROVE Learnt(k)'
  <2>1. CleanerInv(k) /\ Learnt(k)
    BY DEF LeaseInv, ReleasedInv
  <2>2. cleaner[k].pc = "known" => cleaner[k].session \in Session
    BY <2>1 DEF CleanerInv, Roles
  <2>3. PICK s : s = cleaner[k].session
    OBVIOUS
  <2> QED BY <2>1, <2>2, <2>3 DEF Learnt
<1>2. \A s \in Session : Asked(s)' => Asked(s)
  BY DEF Asked
<1>3. AskedIsClean'
  BY <1>2 DEF AskedIsClean
<1> QED BY <1>1, <1>3 DEF ReleasedInv

LEMMA ReleasedNext ==
    ASSUME "orphan" \notin Faults, TypeOK, QueueInv, LeaseInv, NoOperationOnRevoked, ExecutorInv,
           ReleasedInv, [Next]_vars
    PROVE  ReleasedInv'
<1>0. /\ session \in [Session -> SessionStatus] /\ owned \in [Session -> BOOLEAN]
      /\ orphan \subseteq Session /\ Stopped
      /\ txn \in [Session -> TransactionState]
      /\ cleaner \in [Cleaner -> CleanerRecord]
  BY DEF TypeOK, SessionsTypeOK, ResetTypeOK, LeaseInv
<1>a. Revokes /\ AskedIsClean
  BY DEF ReleasedInv
<1>1. CASE UNCHANGED vars \/ Listen
  <2>1. /\ UNCHANGED <<session, owned, txn, lease, cleaner, orphan>>
        /\ server' = "starting" => server = "starting"
    BY <1>1 DEF vars, Listen, sessionVars, gateVars, resetVars
  <2> QED BY <2>1 DEF ReleasedInv, Revokes, Learnt, AskedIsClean, Asked
<1>2. CASE StartServer
  <2>1. /\ UNCHANGED <<owned, txn, lease, cleaner, orphan>> /\ server' # "starting"
        /\ \A s \in Session : lease[s] = NoCleaner
        /\ \A k \in Cleaner : cleaner[k].pc = "idle"
        /\ \A s \in Session : session[s] = "REVOKED" => session'[s] = "REVOKED"
    BY <1>0, <1>2 DEF StartServer, gateVars, resetVars, ReleasedInv, Stopped
  <2>2. \A s \in Session : ~ Asked(s)
    BY <2>1, CleanerAssumption, GateAssumption DEF Asked
  <2>3. Revokes'
    BY <1>a, <2>1 DEF Revokes
  <2> QED BY <2>1, <2>2, <2>3, OutsideReleases
<1>3. CASE Restart
  <2>1. /\ UNCHANGED <<session, txn>> /\ server' = "starting"
        /\ \A s \in Session : lease'[s] = NoCleaner
        /\ \A k \in Cleaner : cleaner'[k].pc = "idle"
    BY <1>3 DEF Restart, NothingToDo, IdleCleaner
  <2>2. \A s \in Session : ~ Asked(s)'
    BY <2>1, CleanerAssumption, GateAssumption DEF Asked
  <2> QED BY <1>a, <2>1, <2>2 DEF ReleasedInv, Revokes, Learnt, AskedIsClean
<1>4. CASE server = "listening" /\ Arrival /\ UNCHANGED <<server, orphan>>
  <2>1. ASSUME NEW s \in Session, CreateSession(s), UNCHANGED gateVars, UNCHANGED resetVars
        PROVE  ReleasedInv'
    <3>1. /\ UNCHANGED <<owned, txn, lease, cleaner, server, orphan>>
          /\ session[s] = "ABSENT" /\ session'[s] = "ACTIVE"
          /\ \A t \in Session \ {s} : session'[t] = session[t]
      BY <1>0, <1>4, <2>1 DEF CreateSession, gateVars, resetVars
    <3>2. Revokes'
      BY <1>a, <3>1 DEF Revokes
    <3> QED BY <1>a, <3>1, <3>2, OutsideReleases DEF AskedIsClean
  <2>2. ASSUME NEW s \in Session, NEW o \in Operation, Authenticate(o, s), UNCHANGED resetVars
        PROVE  ReleasedInv'
    <3>1. UNCHANGED <<session, owned, txn, lease, cleaner, server, orphan>>
      BY <1>4, <2>2 DEF Authenticate, sessionVars, resetVars
    <3> QED BY <3>1 DEF ReleasedInv, Revokes, Learnt, AskedIsClean, Asked
  <2>3. ASSUME NEW s \in Session, NEW k \in Cleaner, AuthenticateReset(k, s) PROVE ReleasedInv'
    <3> DEFINE record == [cleaner[k] EXCEPT !.pc = "authenticated", !.session = s]
    <3>1. /\ record.pc = "authenticated" /\ record.session = s
          /\ cleaner' = [cleaner EXCEPT ![k] = record]
          /\ UNCHANGED <<session, owned, txn, lease, server, orphan>>
          /\ session[s] = "ACTIVE"
      BY <1>0, <1>4, <2>3 DEF AuthenticateReset, CleanerRecord, Usable, sessionVars, gateVars
    <3> HIDE DEF record
    <3>2. \A j \in Cleaner : Learnt(j)'
      BY <1>0, <3>1 DEF ReleasedInv, Learnt
    <3>3. s \notin orphan
      BY <1>4, <3>1 DEF ExecutorInv, Outlived
    <3>4. \A t \in Session : Asked(t)' => Asked(t) \/ t = s
      BY <1>0, <3>1, CleanerAssumption DEF Asked
    <3>5. AskedIsClean'
      BY <1>a, <3>1, <3>3, <3>4 DEF AskedIsClean
    <3> QED BY <1>a, <1>4, <3>1, <3>2, <3>5 DEF ReleasedInv, Revokes
  <2> QED BY <1>4, <2>1, <2>2, <2>3 DEF Arrival
<1>5. ASSUME NEW s \in Session, Expire(s), UNCHANGED <<gateVars, resetVars, server, orphan>>
      PROVE  ReleasedInv'
  <2>1. /\ UNCHANGED <<owned, txn, lease, cleaner, server, orphan>>
        /\ session[s] = "ACTIVE" /\ session'[s] = "EXPIRED"
        /\ \A t \in Session \ {s} : session'[t] = session[t]
    BY <1>0, <1>5 DEF Expire, Usable, gateVars, resetVars
  <2>2. Revokes'
    BY <1>a, <2>1 DEF Revokes
  <2> QED BY <1>a, <2>1, <2>2, OutsideReleases DEF AskedIsClean
<1>6. ASSUME NEW s \in Session, DatabaseCommits(s), UNCHANGED <<server, orphan>> PROVE ReleasedInv'
  <2>1. /\ UNCHANGED <<lease, cleaner, server, orphan>>
        /\ session'[s] = "REVOKED" /\ ~ owned'[s]
        /\ \A t \in Session \ {s} :
              session'[t] = session[t] /\ owned'[t] = owned[t] /\ txn'[t] = txn[t]
    BY <1>0, <1>6 DEF DatabaseCommits, gateVars
  <2>2. Revokes'
    BY <1>a, <2>1 DEF Revokes
  <2> QED BY <1>a, <2>1, <2>2, OutsideReleases DEF AskedIsClean
<1>7. ASSUME NEW s \in Session, DatabaseAborts(s), UNCHANGED <<server, orphan>> PROVE ReleasedInv'
  <2>1. /\ UNCHANGED <<session, owned, lease, cleaner, server, orphan>>
        /\ txn' = [txn EXCEPT ![s] = "aborted"]
    BY <1>7 DEF DatabaseAborts, sessionVars, gateVars
  <2>2. Revokes'
    BY <1>0, <1>a, <2>1 DEF Revokes
  <2> QED BY <1>a, <2>1, <2>2, OutsideReleases DEF AskedIsClean
<1>8. ASSUME NEW o \in Operation, OperationStep(o), UNCHANGED <<resetVars, server, orphan>>
      PROVE  ReleasedInv'
  <2>1. UNCHANGED <<session, owned, txn, lease, cleaner, server, orphan>>
    BY <1>8 DEF OperationStep, AdmitExclusive, AdmitParallel, RefuseOperation, Revalidate, ForSession,
                InstallExecutor, FinishOperation, Install, Leave, sessionVars, resetVars
  <2> QED BY <2>1 DEF ReleasedInv, Revokes, Learnt, AskedIsClean, Asked
<1>9. ASSUME NEW o \in Operation, Own(o), UNCHANGED <<resetVars, server, orphan>> PROVE ReleasedInv'
  <2>1. PICK s \in Session : s = op[o].session /\ session[s] # "REVOKED"
    <3>1. op[o].pc = "running"
      BY <1>9 DEF Own, Creating
    <3> QED BY <3>1, RunsUnreserved
  <2>2. /\ UNCHANGED <<session, txn, lease, cleaner, server, orphan>>
        /\ \A t \in Session \ {s} : owned'[t] = owned[t]
    BY <1>0, <1>9, <2>1 DEF Own, gateVars, resetVars
  <2>3. Revokes'
    BY <1>a, <2>2 DEF Revokes
  <2> QED BY <1>a, <2>1, <2>2, <2>3, OutsideReleases DEF AskedIsClean
<1>10. ASSUME NEW s \in Session, OrphanDecided(s) PROVE ReleasedInv'
  <2>1. /\ UNCHANGED <<session, txn, lease, cleaner, server>>
        /\ s \in orphan /\ orphan' \subseteq orphan
        /\ \A t \in Session \ {s} : owned'[t] = owned[t]
    BY <1>0, <1>10 DEF OrphanDecided, gateVars, resetVars
  <2>2. Revokes'
    BY <1>a, <2>1 DEF Revokes
  <2> QED BY <1>a, <2>1, <2>2, OutsideReleases DEF AskedIsClean
<1>11. ASSUME NEW k \in Cleaner, UNCHANGED <<server, orphan>>,
              ResetStep(k) \/ (server # "starting" /\ MaintenanceStep(k))
       PROVE  ReleasedInv'
  <2>1. ResetStep(k) => cleaner[k].pc # "idle"
    BY DEF ResetStep, ReserveReset, RefuseReset, CleanLock, CleanCommit, CleanRolledBack,
           CleanCommitted, CleanUnknown, ReadOutcome, OutcomeUnknown, FinishOutcome
  <2>2. server # "starting"
    BY <1>0, <1>11, <2>1 DEF Stopped
  <2> QED BY <1>11, <2>2, CleanerReleases
<1>12. \A o \in Operation : ~ OrphanOperation(o)
  BY DEF OrphanOperation
<1> QED
  BY <1>1, <1>2, <1>3, <1>4, <1>5, <1>6, <1>7, <1>8, <1>9, <1>10, <1>11, <1>12 DEF Next

\* Who gives a reservation back, and what it knows then.
LEMMA KnowsWhenFinishing ==
    ASSUME TypeOK, LeaseInv, ExecutorInv, ReleasedInv, server # "starting", NEW k \in Cleaner, NEW s \in Session,
           ResetStep(k) \/ MaintenanceStep(k), UNCHANGED <<server, orphan>>,
           lease[s] # NoCleaner, lease'[s] = NoCleaner
    PROVE  \/ session[s] = "REVOKED"
           \/ UNCHANGED instances
<1>0. /\ cleaner[k] \in CleanerRecord /\ lease \in [Session -> Cleaner \cup {NoCleaner}]
      /\ NoCleaner \notin Cleaner
  BY GateAssumption DEF TypeOK, ResetTypeOK, GateTypeOK
<1>1. Learnt(k) /\ Revokes
  BY DEF ReleasedInv
<1>2. ASSUME NEW committed, Finish(k, committed)
      PROVE  s = cleaner[k].session /\ (committed \/ UNCHANGED instances)
  BY <1>0, <1>2 DEF Finish, Release
<1>3. CASE CleanRolledBack(k)
  BY <1>2, <1>3 DEF CleanRolledBack
<1>4. CASE CleanCommitted(k)
  BY <1>1, <1>2, <1>4 DEF CleanCommitted, Revokes
<1>5. CASE FinishOutcome(k)
  BY <1>1, <1>2, <1>5 DEF FinishOutcome, Learnt
<1>6. CASE RefuseReset(k) \/ CleanLock(k) \/ CleanCommit(k) \/ CleanUnknown(k) \/ ReadOutcome(k)
           \/ OutcomeUnknown(k) \/ ReserveReset(k) \/ MaintenanceStep(k)
  <2>1. CASE MaintenanceStep(k)
    BY <2>1 DEF MaintenanceStep, Tick, Awaited, QueryCandidates, QueryFails, SweepDone, Recover, Sweep,
                sessionVars
  <2>2. CASE ~ MaintenanceStep(k)
    BY <1>6, <2>2 DEF RefuseReset, CleanLock, CleanCommit, CleanUnknown, ReadOutcome, OutcomeUnknown,
                      ReserveReset, sessionVars
  <2> QED BY <2>1, <2>2
<1> QED BY <1>3, <1>4, <1>5, <1>6 DEF ResetStep

\* Only the one who finishes a cleanup, or a restart, gives a reservation back.
LEMMA WhoReleases ==
    ASSUME [Next]_vars, LeaseInv, NEW s \in Session, lease[s] # NoCleaner, lease'[s] = NoCleaner,
           server' # "starting"
    PROVE  \E k \in Cleaner :
              (ResetStep(k) \/ MaintenanceStep(k)) /\ server # "starting" /\ UNCHANGED <<server, orphan>>
<1>1. ~ UNCHANGED lease
  OBVIOUS
<1>2. ~ UNCHANGED vars /\ ~ StartServer /\ ~ Listen
  BY <1>1 DEF vars, gateVars, StartServer, Listen
<1>3. ~ Restart
  BY DEF Restart
<1>4. ~ Arrival
  BY <1>1 DEF Arrival, CreateSession, Authenticate, AuthenticateReset, gateVars
<1>5. \A t \in Session : ~ (Expire(t) /\ UNCHANGED <<gateVars, resetVars>>) /\ ~ DatabaseCommits(t)
                         /\ ~ DatabaseAborts(t) /\ ~ OrphanDecided(t)
  BY <1>1 DEF DatabaseCommits, DatabaseAborts, OrphanDecided, gateVars
<1>6. \A o \in Operation : ~ OperationStep(o) /\ ~ Own(o) /\ ~ OrphanOperation(o)
  BY <1>1 DEF OperationStep, AdmitExclusive, AdmitParallel, RefuseOperation, Revalidate, ForSession,
              InstallExecutor, FinishOperation, OrphanOperation, Own, Leave, gateVars
<1>7. PICK k \in Cleaner : /\ ResetStep(k) \/ (server # "starting" /\ MaintenanceStep(k))
                           /\ UNCHANGED <<server, orphan>>
  BY <1>2, <1>3, <1>4, <1>5, <1>6 DEF Next
<1>8. server # "starting"
  BY <1>7
<1> QED BY <1>7, <1>8

\* A reservation is given back knowing the outcome, whoever read it and however
\* often: a released session is revoked without rows and executor, or nothing
\* of it has changed, as long as every create transaction is answered or dies
\* with its process.
THEOREM ReleasedOnlyKnowing ==
    ASSUME "orphan" \notin Faults
    PROVE  Spec => ReleasedKnowing
<1>1. Init => ExecutorInv
  BY DEF Init, SessionsInit, GateInit, ResetInit, NotAdmitted, IdleCleaner,
         ExecutorInv, Outlived, Left, Knows
<1>2. Init => ReleasedInv
  <2> SUFFICES ASSUME Init PROVE ReleasedInv
    OBVIOUS
  <2>1. /\ \A s \in Session : lease[s] = NoCleaner /\ txn[s] = "none"
        /\ \A k \in Cleaner : cleaner[k].pc = "idle"
    BY DEF Init, GateInit, ResetInit, IdleCleaner
  <2>2. \A s \in Session : ~ Asked(s)
    BY <2>1, CleanerAssumption, GateAssumption DEF Asked
  <2> QED BY <2>1, <2>2 DEF ReleasedInv, Revokes, Learnt, AskedIsClean
<1>3. ReservedInv /\ ExecutorInv /\ ReleasedInv /\ [Next]_vars => ExecutorInv' /\ ReleasedInv'
  <2> SUFFICES ASSUME ReservedInv, ExecutorInv, ReleasedInv, [Next]_vars PROVE ExecutorInv' /\ ReleasedInv'
    OBVIOUS
  <2>1. TypeOK /\ QueueInv /\ LeaseInv /\ NoOperationOnRevoked
    BY DEF ReservedInv, RuntimeInv
  <2> QED BY <2>1, ExecutorNext, ReleasedNext
<1> DEFINE Knowing(s) ==
        lease[s] # NoCleaner /\ lease'[s] = NoCleaner /\ server' # "starting" =>
            \/ session'[s] = "REVOKED" /\ ~ owned'[s] /\ s \notin instances'
            \/ /\ session'[s] # "REVOKED" \/ lease[s] \in Sweeper
               /\ owned'[s] = owned[s]
               /\ s \in instances => s \in instances'
<1>4. ReservedInv /\ ExecutorInv /\ ReleasedInv /\ [Next]_vars => \A s \in Session : Knowing(s)
  <2> SUFFICES ASSUME ReservedInv, ExecutorInv, ReleasedInv, [Next]_vars, NEW s \in Session,
                      lease[s] # NoCleaner, lease'[s] = NoCleaner, server' # "starting"
               PROVE  \/ session'[s] = "REVOKED" /\ ~ owned'[s] /\ s \notin instances'
                      \/ /\ session'[s] # "REVOKED" \/ lease[s] \in Sweeper
                         /\ owned'[s] = owned[s]
                         /\ s \in instances => s \in instances'
    OBVIOUS
  <2>1. TypeOK /\ LeaseInv /\ SessionsTypeOK /\ lease[s] \in Cleaner
    BY DEF ReservedInv, RuntimeInv, TypeOK, GateTypeOK
  <2>2. PICK k \in Cleaner :
            (ResetStep(k) \/ MaintenanceStep(k)) /\ server # "starting" /\ UNCHANGED <<server, orphan>>
    BY <2>1, WhoReleases
  <2>3. UNCHANGED <<session, owned>> /\ instances' \subseteq instances
    BY <2>1, <2>2, CleanerSessions
  <2>4. (session[s] = "REVOKED" \/ UNCHANGED instances) /\ ~ Left(s)'
    BY <2>1, <2>2, KnowsWhenFinishing, FinishReleases
  <2>5. lease[s] \in Resetter => (session[s] = "REVOKED" => ~ owned[s])
    BY DEF ReleasedInv, AskedIsClean, Asked
  <2>6. s \in instances /\ session[s] = "REVOKED" => ~ owned[s]
    BY DEF ExecutorInv, Left
  <2> QED BY <2>1, <2>3, <2>4, <2>5, <2>6, CleanerAssumption DEF Left
<1>5. (\A s \in Session : Knowing(s)) => [\A s \in Session :
          lease[s] # NoCleaner /\ lease'[s] = NoCleaner /\ server' # "starting" =>
              \/ session'[s] = "REVOKED" /\ ~ owned'[s] /\ s \notin instances'
              \/ /\ session'[s] # "REVOKED" \/ lease[s] \in Sweeper
                 /\ owned'[s] = owned[s]
                 /\ s \in instances => s \in instances']_vars
  OBVIOUS
<1> QED BY <1>1, <1>2, <1>3, <1>4, <1>5, ReservedInvariant, PTL DEF Spec, ReleasedKnowing


----------------------------------------------------------------------------
(* What resolves a reservation *)

\* What a cleaner's step does to the reservations and their entries.
Entries(k) ==
    /\ \A m \in Cleaner \ {k} : cleaner'[m] = cleaner[m]
    /\ \A s \in Session : lease'[s] # lease[s] =>
          \/ lease'[s] = NoCleaner
          \/ lease'[s] = k /\ cleaner'[k].pc = "lock" /\ cleaner'[k].session = s /\ cleaner'[k].holds = k
    /\ \A s \in Session : pending'[s] # pending[s] =>
          \/ lease'[s] = NoCleaner \/ pending'[s] = lease'[s]
          \/ cleaner'[k].pc = "invalid" /\ cleaner'[k].session = s
    /\ cleaner[k].pc \in Cleaning =>
          \/ /\ cleaner'[k].pc \in Cleaning /\ cleaner'[k].session = cleaner[k].session
             /\ cleaner'[k].holds = cleaner[k].holds
          \/ lease'[cleaner[k].session] = NoCleaner
          \/ pending'[cleaner[k].session] = k

\* The one who finishes gives the reservation back, or is told that it is not
\* the one it holds.
LEMMA FinishEntries ==
    ASSUME ResetTypeOK, GateTypeOK, LeaseInv, NEW k \in Cleaner, NEW committed, Finish(k, committed),
           cleaner[k].pc \in {"lock", "locked", "commit", "known"}
    PROVE  Entries(k)
<1>0. /\ cleaner \in [Cleaner -> CleanerRecord] /\ cleaner[k] \in CleanerRecord
      /\ lease \in [Session -> Cleaner \cup {NoCleaner}]
      /\ pending \in [Session -> Cleaner \cup {NoCleaner}]
      /\ Roles(k) /\ Cleans(k)
  BY DEF ResetTypeOK, GateTypeOK, LeaseInv, CleanerInv
<1>1. PICK s \in Session : s = cleaner[k].session
  BY <1>0 DEF Roles
<1>2. pending' = [pending EXCEPT ![s] = NoCleaner]
  BY <1>1 DEF Finish
<1>3. CASE lease[s] = cleaner[k].holds
  <2>1. lease' = [lease EXCEPT ![s] = NoCleaner] /\ \A m \in Cleaner \ {k} : cleaner'[m] = cleaner[m]
    BY <1>0, <1>1, <1>3 DEF Finish, Release
  <2> QED BY <1>0, <1>1, <1>2, <2>1 DEF Entries
<1>4. CASE lease[s] # cleaner[k].holds
  <2>1. UNCHANGED lease /\ cleaner' = [cleaner EXCEPT ![k].pc = "invalid"]
    BY <1>1, <1>4 DEF Finish
  <2>2. cleaner'[k].pc = "invalid" /\ cleaner'[k].session = s /\ \A m \in Cleaner \ {k} : cleaner'[m] = cleaner[m]
    BY <1>0, <1>1, <2>1 DEF CleanerRecord
  <2>3. cleaner[k].pc \notin Cleaning
    BY <1>0, <1>1, <1>4 DEF Cleans
  <2> QED BY <1>0, <1>2, <2>1, <2>2, <2>3 DEF Entries
<1> QED BY <1>3, <1>4

LEMMA ResetEntries ==
    ASSUME ResetTypeOK, GateTypeOK, LeaseInv, NEW k \in Cleaner, ResetStep(k)
    PROVE  Entries(k)
<1>0. /\ cleaner \in [Cleaner -> CleanerRecord] /\ cleaner[k] \in CleanerRecord
      /\ lease \in [Session -> Cleaner \cup {NoCleaner}]
      /\ pending \in [Session -> Cleaner \cup {NoCleaner}]
      /\ Roles(k) /\ Cleans(k)
  BY DEF ResetTypeOK, GateTypeOK, LeaseInv, CleanerInv
<1>1. ASSUME NEW record, cleaner' = [cleaner EXCEPT ![k] = record]
      PROVE  cleaner'[k] = record /\ \A m \in Cleaner \ {k} : cleaner'[m] = cleaner[m]
  BY <1>0, <1>1
<1>2. CASE ReserveReset(k)
  <2> DEFINE record == [cleaner[k] EXCEPT !.pc = "lock", !.holds = k]
  <2>1. /\ record.pc = "lock" /\ record.session = cleaner[k].session /\ record.holds = k
        /\ cleaner' = [cleaner EXCEPT ![k] = record] /\ UNCHANGED pending
        /\ cleaner[k].pc = "authenticated" /\ lease' = [lease EXCEPT ![cleaner[k].session] = k]
    BY <1>0, <1>2 DEF ReserveReset, CleanerRecord, Reserve
  <2> HIDE DEF record
  <2>2. cleaner'[k] = record /\ \A m \in Cleaner \ {k} : cleaner'[m] = cleaner[m]
    BY <1>1, <2>1
  <2>3. cleaner[k].pc \notin Cleaning
    BY <2>1 DEF Cleaning
  <2> QED BY <1>0, <2>1, <2>2, <2>3 DEF Entries
<1>3. CASE RefuseReset(k)
  <2>1. cleaner' = [cleaner EXCEPT ![k] = IdleCleaner] /\ UNCHANGED <<lease, pending>>
        /\ cleaner[k].pc \notin Cleaning
    BY <1>3 DEF RefuseReset, gateVars, Cleaning
  <2> QED BY <1>1, <2>1 DEF Entries
<1>4. CASE CleanLock(k) \/ CleanCommit(k)
  <2> DEFINE locked == [cleaner[k] EXCEPT !.pc = "locked"]
             sent == [cleaner[k] EXCEPT !.pc = "commit"]
  <2>1. /\ locked.pc = "locked" /\ locked.session = cleaner[k].session /\ locked.holds = cleaner[k].holds
        /\ sent.pc = "commit" /\ sent.session = cleaner[k].session /\ sent.holds = cleaner[k].holds
    BY <1>0 DEF CleanerRecord
  <2>2. /\ cleaner' = [cleaner EXCEPT ![k] = locked] \/ cleaner' = [cleaner EXCEPT ![k] = sent]
        /\ UNCHANGED <<lease, pending>>
    BY <1>4 DEF CleanLock, CleanCommit, gateVars
  <2> HIDE DEF locked, sent
  <2>3. /\ cleaner'[k] \in {locked, sent} /\ \A m \in Cleaner \ {k} : cleaner'[m] = cleaner[m]
    BY <1>1, <2>2
  <2> QED BY <2>1, <2>2, <2>3 DEF Entries, Cleaning
<1>5. CASE CleanRolledBack(k) \/ CleanCommitted(k) \/ FinishOutcome(k)
  BY <1>5, FinishEntries DEF CleanRolledBack, CleanCommitted, FinishOutcome
<1>6. CASE CleanUnknown(k)
  <2> DEFINE record == [cleaner[k] EXCEPT !.pc = "read"]
  <2>1. PICK s \in Session : s = cleaner[k].session
    BY <1>0, <1>6 DEF Roles, CleanUnknown
  <2>2. lease[s] = k /\ UNCHANGED lease /\ pending' = [pending EXCEPT ![s] = k]
    BY <1>0, <1>6, <2>1 DEF CleanUnknown, Cleans, Cleaning, gateVars
  <2>3. cleaner' = [cleaner EXCEPT ![k] = record]
    BY <1>6 DEF CleanUnknown
  <2> HIDE DEF record
  <2> QED BY <1>0, <1>1, <2>1, <2>2, <2>3 DEF Entries
<1>7. CASE ReadOutcome(k) \/ OutcomeUnknown(k)
  <2>1. UNCHANGED <<lease, pending>> /\ cleaner[k].pc \notin Cleaning
    BY <1>7 DEF ReadOutcome, OutcomeUnknown, gateVars, Cleaning
  <2>2. \A m \in Cleaner \ {k} : cleaner'[m] = cleaner[m]
    BY <1>0, <1>7 DEF ReadOutcome, OutcomeUnknown
  <2> QED BY <2>1, <2>2 DEF Entries
<1> QED BY <1>2, <1>3, <1>4, <1>5, <1>6, <1>7 DEF ResetStep

LEMMA MaintenanceEntries ==
    ASSUME ResetTypeOK, GateTypeOK, NEW k \in Cleaner, MaintenanceStep(k)
    PROVE  Entries(k)
<1>0. /\ cleaner \in [Cleaner -> CleanerRecord] /\ cleaner[k] \in CleanerRecord
      /\ lease \in [Session -> Cleaner \cup {NoCleaner}]
  BY DEF ResetTypeOK, GateTypeOK
<1>1. UNCHANGED pending /\ cleaner[k].pc \notin Cleaning
  BY DEF MaintenanceStep, Tick, Awaited, QueryCandidates, QueryFails, SweepDone, Recover, Sweep, Cleaning
<1>2. \A m \in Cleaner \ {k} : cleaner'[m] = cleaner[m]
  BY <1>0 DEF MaintenanceStep, Tick, Awaited, QueryCandidates, QueryFails, SweepDone, Recover, Sweep, Resolve
<1>3. CASE ~ \E s \in Session : Sweep(k, s)
  <2>1. UNCHANGED lease
    BY <1>3 DEF MaintenanceStep, Tick, Awaited, QueryCandidates, QueryFails, SweepDone, Recover, gateVars
  <2> QED BY <1>1, <1>2, <2>1 DEF Entries
<1>4. ASSUME NEW s \in Session, Sweep(k, s) PROVE Entries(k)
  <2> DEFINE rest == [cleaner[k].todo EXCEPT ![s] = NoCleaner]
             record == [cleaner[k] EXCEPT !.pc = "lock", !.session = s, !.holds = k, !.todo = rest]
  <2>1. CASE Reservable(s)
    <3>1. record.pc = "lock" /\ record.session = s /\ record.holds = k
      BY <1>0 DEF CleanerRecord
    <3>2. cleaner' = [cleaner EXCEPT ![k] = record] /\ lease' = [lease EXCEPT ![s] = k]
      BY <1>4, <2>1 DEF Sweep, Reserve
    <3> HIDE DEF record
    <3> QED BY <1>0, <1>1, <1>2, <3>1, <3>2 DEF Entries
  <2>2. CASE ~ Reservable(s)
    <3>1. UNCHANGED lease
      BY <1>4, <2>2 DEF Sweep
    <3> QED BY <1>1, <1>2, <3>1 DEF Entries
  <2> QED BY <2>1, <2>2
<1> QED BY <1>3, <1>4

\* Retained, with the slot of the cleaner under its own reservation.
LEMMA EntriesRetain ==
    ASSUME LeaseInv, NEW k \in Cleaner, Entries(k), NEW s \in Session, Retained(s), ~ Retained(s)'
    PROVE  EntryLost(s)'
<1>1. lease'[s] # NoCleaner /\ pending'[s] # lease'[s]
  BY DEF Retained
<1>2. lease'[s] = lease[s]
  BY <1>1 DEF Entries, Retained
<1>3. CASE pending[s] = lease[s]
  BY <1>1, <1>2, <1>3 DEF Entries, EntryLost
<1>4. CASE pending[s] # lease[s]
  <2>1. PICK j \in Cleaner : /\ cleaner[j].pc \in {"lock", "locked", "commit"}
                             /\ cleaner[j].session = s /\ cleaner[j].holds = lease[s]
    BY <1>1, <1>2, <1>4 DEF Retained
  <2>2. j = k
    BY <1>2, <2>1 DEF Entries, Retained
  <2>3. cleaner[k].holds = k
    BY <2>1, <2>2 DEF LeaseInv, CleanerInv, Cleans, Cleaning
  <2> QED BY <1>1, <1>2, <2>1, <2>2, <2>3 DEF Entries, Retained, Cleaning
<1> QED BY <1>3, <1>4

\* A reservation is resolved by its cleanup or has its entry until it is given
\* back; only a second finish of an earlier reservation of the session takes
\* that away, whatever fails and whoever reads the outcome.
THEOREM OnlyFinishLosesEntries == Spec => LostOnlyByFinish
<1>1. ASSUME TypeOK, LeaseInv, [Next]_vars, NEW s \in Session, Retained(s), ~ Retained(s)'
      PROVE  EntryLost(s)'
  <2>0. ResetTypeOK /\ GateTypeOK
    BY <1>1 DEF TypeOK
  <2>1. ~ UNCHANGED <<cleaner, lease, pending>>
    BY <1>1 DEF Retained
  <2>2. ~ UNCHANGED vars /\ ~ StartServer /\ ~ Listen
    BY <2>1 DEF vars, gateVars, resetVars, StartServer, Listen
  <2>3. ~ Restart
    BY <1>1 DEF Restart, NothingToDo, Retained
  <2>4. ~ Arrival
    <3>1. \A t \in Session : /\ ~ (CreateSession(t) /\ UNCHANGED <<gateVars, resetVars>>)
                             /\ \A o \in Operation : ~ (Authenticate(o, t) /\ UNCHANGED resetVars)
      BY <2>1 DEF CreateSession, Authenticate, gateVars, resetVars
    <3>2. ASSUME NEW t \in Session, NEW k \in Cleaner, AuthenticateReset(k, t) PROVE FALSE
      <4>1. UNCHANGED <<lease, pending>> /\ cleaner[k].pc \notin Cleaning
        BY <3>2 DEF AuthenticateReset, gateVars, Cleaning
      <4>2. \A m \in Cleaner \ {k} : cleaner'[m] = cleaner[m]
        BY <2>0, <3>2 DEF AuthenticateReset, ResetTypeOK
      <4> QED BY <1>1, <4>1, <4>2 DEF Retained, Cleaning
    <3> QED BY <3>1, <3>2 DEF Arrival
  <2>5. \A t \in Session : ~ (Expire(t) /\ UNCHANGED <<gateVars, resetVars>>) /\ ~ DatabaseCommits(t)
                           /\ ~ DatabaseAborts(t) /\ ~ OrphanDecided(t)
    BY <2>1 DEF DatabaseCommits, DatabaseAborts, OrphanDecided, gateVars, resetVars
  <2>6. \A o \in Operation : /\ ~ ((OperationStep(o) \/ Own(o)) /\ UNCHANGED <<resetVars, server, orphan>>)
                             /\ ~ OrphanOperation(o)
    BY <2>1 DEF OperationStep, AdmitExclusive, AdmitParallel, RefuseOperation, Revalidate, ForSession,
                InstallExecutor, FinishOperation, OrphanOperation, Own, Leave, gateVars, resetVars
  <2>7. PICK k \in Cleaner : ResetStep(k) \/ MaintenanceStep(k)
    BY <1>1, <2>2, <2>3, <2>4, <2>5, <2>6 DEF Next
  <2>8. Entries(k)
    BY <1>1, <2>0, <2>7, ResetEntries, MaintenanceEntries
  <2> QED BY <1>1, <2>8, EntriesRetain
<1>2. ReservedInv /\ [Next]_vars => [\A s \in Session : Retained(s) /\ ~ Retained(s)' => EntryLost(s)']_vars
  BY <1>1 DEF ReservedInv, RuntimeInv
<1> QED BY <1>2, ReservedInvariant, PTL DEF Spec, LostOnlyByFinish

=============================================================================
