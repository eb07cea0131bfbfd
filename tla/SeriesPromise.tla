--------------------------- MODULE SeriesPromise ---------------------------
(***************************************************************************)
(* What the series of the domains promise, without transactions, locks or  *)
(* the versions that were decided long ago: each builds one version at a   *)
(* time, on what the series it requires have published at that moment, and *)
(* publishes its versions in the order of their numbers.                   *)
(***************************************************************************)
EXTENDS Naturals

CONSTANTS
    Domain,
    Requires  \* the domains that a domain is built on

VARIABLES
    number,    \* of the latest version, or 0
    stage,     \* the status of that version while it is active
    inputs,    \* the versions that it was frozen on
    published  \* the newest version that is published, or 0

vars == <<number, stage, inputs, published>>

Nothing == [u \in Domain |-> 0]

Init ==
    /\ number = [d \in Domain |-> 0]
    /\ stage = [d \in Domain |-> "CLOSED"]
    /\ inputs = [d \in Domain |-> Nothing]
    /\ published = [d \in Domain |-> 0]

\* The next version is created when the one before it was decided.
Open(d) ==
    /\ stage[d] = "CLOSED"
    /\ number' = [number EXCEPT ![d] = number[d] + 1]
    /\ stage' = [stage EXCEPT ![d] = "DRAFT"]
    /\ inputs' = [inputs EXCEPT ![d] = Nothing]
    /\ UNCHANGED published

\* The build begins: everything that it needs is taken at one moment.
Freeze(d) ==
    /\ stage[d] = "DRAFT"
    /\ \A u \in Requires[d] : published[u] # 0
    /\ stage' = [stage EXCEPT ![d] = "BUILDING"]
    /\ inputs' = [inputs EXCEPT ![d] = [u \in Domain |-> IF u \in Requires[d] THEN published[u] ELSE 0]]
    /\ UNCHANGED <<number, published>>

Submit(d) ==
    /\ stage[d] = "BUILDING"
    /\ stage' = [stage EXCEPT ![d] = "VALIDATING"]
    /\ UNCHANGED <<number, inputs, published>>

Publish(d) ==
    /\ stage[d] = "VALIDATING"
    /\ stage' = [stage EXCEPT ![d] = "CLOSED"]
    /\ published' = [published EXCEPT ![d] = number[d]]
    /\ UNCHANGED <<number, inputs>>

\* Rejected or abandoned: what was published before stays the newest.
GiveUp(d) ==
    /\ stage[d] # "CLOSED"
    /\ stage' = [stage EXCEPT ![d] = "CLOSED"]
    /\ UNCHANGED <<number, inputs, published>>

Next == \E d \in Domain : Open(d) \/ Freeze(d) \/ Submit(d) \/ Publish(d) \/ GiveUp(d)

Spec == Init /\ [][Next]_vars

=============================================================================
