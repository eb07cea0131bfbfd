--------------------------- MODULE MCDemoRuntime ---------------------------
(* One Demo process on small instances. *)
EXTENDS DemoRuntime, TLC

CONSTANTS s1, s2, o1, o2, o3, o4, k1, k2, m1

OneSession == {s1}
TwoSessions == {s1, s2}
None == {}
OneOperation == {o1}
TwoOperations == {o1, o2}
FourOperations == {o1, o2, o3, o4}
OneReset == {k1}
TwoResets == {k1, k2}
OneMaintenance == {m1}
ResetAndMaintenance == {k1, m1}
ResetsAndMaintenance == {k1, k2, m1}

DatabaseFaults == {"database"}
RestartFaults == {"database", "restart"}
OrphanFaults == {"orphan", "database"}

Symmetry == Permutations(Operation) \cup Permutations(Session) \cup Permutations(Resetter)
=============================================================================
