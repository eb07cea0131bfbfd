-------------------------- MODULE MCDemoController --------------------------
(* The page with a scenario of two steps, the second of which pauses. *)
EXTENDS DemoController

TwoSteps == <<[commands |-> 1, pause |-> FALSE], [commands |-> 1, pause |-> TRUE]>>
=============================================================================
