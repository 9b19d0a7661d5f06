----------------------------- MODULE LeaseAuthority -----------------------------
(***************************************************************************)
(* What the coordinator promises the destinations it governs, without      *)
(* leases, epochs, connections or crashes: a destination has at most one   *)
(* holder, only its holder's decisions are accepted, and from its being    *)
(* granted the destination to its losing it a holder's decisions are       *)
(* accepted in the order it issued them.                                   *)
(***************************************************************************)
EXTENDS Naturals

CONSTANTS
    Destinations,   \* what is held
    Incarnations,   \* the numbers of those that hold it; never 0
    Sequences       \* the numbers of an incarnation's decisions

VARIABLES
    holder,     \* the incarnation that holds each destination
    last,       \* the number of the last decision accepted from that holder
    decisions   \* the decisions accepted so far

Nobody == 0

Init ==
    /\ holder = [d \in Destinations |-> Nobody]
    /\ last = [d \in Destinations |-> 0]
    /\ decisions = {}

(* A destination goes to an incarnation, from nobody or from another one. *)
Grant(d, i) ==
    /\ holder[d] # i
    /\ holder' = [holder EXCEPT ![d] = i]
    /\ last' = [last EXCEPT ![d] = 0]
    /\ UNCHANGED decisions

(* Some destinations lose their holders: a revocation, or a crash. *)
Revoke(D) ==
    /\ holder' = [d \in Destinations |-> IF d \in D THEN Nobody ELSE holder[d]]
    /\ last' = [d \in Destinations |-> IF d \in D THEN 0 ELSE last[d]]
    /\ UNCHANGED decisions

Accept(d, i, n) ==
    /\ holder[d] = i
    /\ n > last[d]
    /\ last' = [last EXCEPT ![d] = n]
    /\ decisions' = decisions \cup
         {[destination |-> d, incarnation |-> i, sequence |-> n]}
    /\ UNCHANGED holder

Next ==
    \/ \E d \in Destinations, i \in Incarnations : Grant(d, i)
    \/ \E D \in SUBSET Destinations : Revoke(D)
    \/ \E d \in Destinations, i \in Incarnations, n \in Sequences : Accept(d, i, n)

Spec == Init /\ [][Next]_<<holder, last, decisions>>
================================================================================
