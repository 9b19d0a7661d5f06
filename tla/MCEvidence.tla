------------------------------- MODULE MCEvidence -------------------------------
(***************************************************************************)
(* Instance of Evidence for TLC: two classes that share a stamp and one    *)
(* that is optional.                                                       *)
(***************************************************************************)
EXTENDS Evidence

MCClasses == {"Destination", "Capacity", "Service"}

MCStampOf ==
    [c \in MCClasses |-> IF c = "Service" THEN "service_stamp" ELSE "capacity_stamp"]

Ordinary == [enabled |-> TRUE, required |-> {"Destination", "Capacity"}]
Strict == [enabled |-> TRUE, required |-> MCClasses]
Off == [enabled |-> FALSE, required |-> MCClasses]

(* A full window, and one without the optional class. *)
MCObservations ==
    {[present |-> MCClasses, numbered |-> {"capacity_stamp", "service_stamp"}],
     [present |-> {"Destination", "Capacity"}, numbered |-> {"capacity_stamp"}]}

MCPolicies == {Ordinary, Strict}
=================================================================================
