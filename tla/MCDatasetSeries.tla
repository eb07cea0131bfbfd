-------------------------- MODULE MCDatasetSeries --------------------------
(* Domains that need the same inputs, and their series. *)
EXTENDS DatasetSeries, TLC

CONSTANTS base, rates, plan, q1, q2, q3

Domains == {base, rates, plan}
Alphabet == [d \in Domains |-> CASE d = base -> 1 [] d = rates -> 3 [] d = plan -> 2]

\* The plan is built on two domains that need nothing.
Shared == [d \in Domains |-> IF d = plan THEN {base, rates} ELSE {}]
BaseTwice == [d \in Domains |-> IF d = base THEN 2 ELSE 1]

\* The rates are built on the base, too: the instance of a deadlock.
Nested == [Shared EXCEPT ![rates] = {base}]
RatesTwice == [d \in Domains |-> IF d = rates THEN 2 ELSE 1]

TwoRequests == {q1, q2}
ThreeRequests == {q1, q2, q3}
Symmetry == Permutations(Request)
=============================================================================
