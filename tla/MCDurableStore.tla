---------------------------- MODULE MCDurableStore ----------------------------
(* DurableStore for TLC: everything it needs is given in the cfg files. *)
EXTENDS DurableStore
================================================================================
