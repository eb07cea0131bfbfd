--------------------------- MODULE MCJobExecution ---------------------------
(* The execution of a version's jobs on small instances. *)
EXTENDS JobExecution, TLC

CONSTANTS r1, r2, c1, j1, j2

OneJob == {j1}
TwoJobs == {j1, j2}
OneCaller == {r1}
TwoCallers == {r1, r2}
OneChecker == {c1}

NoFaults == {}
CoreFaults == {"restart", "database"}
FlippedResults == {"flip", "unavailable"}

Symmetry == Permutations(Caller) \cup Permutations(Job)
=============================================================================
