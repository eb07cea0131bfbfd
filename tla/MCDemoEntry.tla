---------------------------- MODULE MCDemoEntry ----------------------------
(* The entry of the public Demo on a small instance. *)
EXTENDS DemoEntry, TLC

CONSTANTS r1, r2, a1, a2, a3, s1, s2, s3, s4, s5

TwoRequests == {r1, r2}
ThreeAddresses == {a1, a2, a3}
FiveCandidates == {s1, s2, s3, s4, s5}
OneForeign == {s5}

\* No definition tells requests, addresses or the free candidates apart.
Interchangeable ==
    Permutations(TwoRequests) \cup Permutations(ThreeAddresses) \cup Permutations({s1, s2, s3, s4})
=============================================================================
