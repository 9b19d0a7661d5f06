----------------------------- MODULE MCCoordinator -----------------------------
(***************************************************************************)
(* Instances of Coordinator for TLC: two workers that compete for one      *)
(* destination.                                                            *)
(***************************************************************************)
EXTENDS Coordinator, TLC

CONSTANTS w1, w2, d1

OneDestination == [w \in Workers |-> d1]

(* The workers are interchangeable. *)
Symmetry == Permutations(Workers)
================================================================================
