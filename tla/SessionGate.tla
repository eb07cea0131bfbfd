---------------------------- MODULE SessionGate ----------------------------
(***************************************************************************)
(* What the Demo promises of the operations of its sessions: an exclusive  *)
(* operation has its turn when every earlier operation has left, a         *)
(* parallel one when every earlier exclusive one has; no more than a bound *)
(* of them are inside; and a closed session has none.  Nothing is said of  *)
(* promises, counters or queues.                                           *)
(***************************************************************************)
EXTENDS Naturals, FiniteSets

CONSTANTS Operation, Session, NoSession, MaxOperations, MaxParallel

VARIABLES
    place,      \* the session an operation is admitted to, or NoSession
    exclusive,  \* the admitted exclusive operations
    before,     \* the operations that came earlier and have not left
    running,    \* the operations that have had their turn
    closed      \* the sessions that are being reset

vars == <<place, exclusive, before, running, closed>>

Inside(s) == {o \in Operation : place[o] = s}

Init ==
    /\ place = [o \in Operation |-> NoSession]
    /\ exclusive = {}
    /\ before = [o \in Operation |-> {}]
    /\ running = {}
    /\ closed = {}

Enter(o, s) ==
    /\ place[o] = NoSession
    /\ s \notin closed
    /\ Cardinality(Inside(s)) < MaxOperations
    /\ place' = [place EXCEPT ![o] = s]
    /\ before' = [before EXCEPT ![o] = Inside(s)]
    /\ \/ exclusive' = exclusive \cup {o}
       \/ /\ Cardinality(Inside(s) \ exclusive) < MaxParallel
          /\ UNCHANGED exclusive
    /\ UNCHANGED <<running, closed>>

Turn(o) == before[o] \cap (IF o \in exclusive THEN Operation ELSE exclusive) = {}

Start(o) ==
    /\ place[o] # NoSession /\ o \notin running
    /\ Turn(o)
    /\ running' = running \cup {o}
    /\ UNCHANGED <<place, exclusive, before, closed>>

\* An operation that finds its session gone leaves when its turn comes.
Leave(o) ==
    /\ place[o] # NoSession
    /\ o \in running \/ Turn(o)
    /\ place' = [place EXCEPT ![o] = NoSession]
    /\ exclusive' = exclusive \ {o}
    /\ before' = [p \in Operation |-> IF p = o THEN {} ELSE before[p] \ {o}]
    /\ running' = running \ {o}
    /\ UNCHANGED closed

Close(s) ==
    /\ s \notin closed
    /\ Inside(s) = {}
    /\ closed' = closed \cup {s}
    /\ UNCHANGED <<place, exclusive, before, running>>

Reopen(s) ==
    /\ s \in closed
    /\ closed' = closed \ {s}
    /\ UNCHANGED <<place, exclusive, before, running>>

\* The process stops.
Stop ==
    /\ place' = [o \in Operation |-> NoSession]
    /\ exclusive' = {}
    /\ before' = [o \in Operation |-> {}]
    /\ running' = {}
    /\ closed' = {}

Next ==
    \/ \E o \in Operation : Start(o) \/ Leave(o) \/ \E s \in Session : Enter(o, s)
    \/ \E s \in Session : Close(s) \/ Reopen(s)
    \/ Stop

Spec == Init /\ [][Next]_vars

=============================================================================
