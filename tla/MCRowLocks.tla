----------------------------- MODULE MCRowLocks -----------------------------
(* Two transactions on the rows of a version with two jobs. *)
EXTENDS RowLocks, TLC

CONSTANTS j1, j2, t1, t2

TwoJobs == {j1, j2}
TwoTransactions == {t1, t2}
ById == (j1 :> 0) @@ (j2 :> 1)
ByType == (j1 :> 1) @@ (j2 :> 0)

Symmetry == Permutations(Transaction)
=============================================================================
