------------------------- MODULE MCCoordinatorShutdown -------------------------
(***************************************************************************)
(* CoordinatorShutdown for TLC: a worker or control client, and one that   *)
(* sends a Shutdown frame.                                                 *)
(***************************************************************************)
EXTENDS CoordinatorShutdown

CONSTANTS c1, c2

TwoClients == [c \in Clients |-> IF c = c1 THEN {"request", "control"} ELSE {"shutdown"}]
================================================================================
