------------------------------- MODULE MCGovernor -------------------------------
(* Instances of Governor for TLC. *)
EXTENDS Governor

(* The policy a worker starts with, the next generation of it, in which    *)
(* recovery is off, and one that turns the governor off.                   *)
Default == [generation |-> 1, enabled |-> TRUE, recovery |-> TRUE, clean |-> 3, dwell |-> 2]

Revised == [Default EXCEPT !.generation = 2, !.recovery = FALSE]

Disabled == [Revised EXCEPT !.enabled = FALSE]

AllPolicies == {Default, Revised, Disabled}

TwoPolicies == {Default, Revised}

OnePolicy == {Default}
=================================================================================
