------------------------------- MODULE MCDecision -------------------------------
(***************************************************************************)
(* Instances of Decision for TLC: windows of up to three rows, with the    *)
(* default thresholds and bounds of policy.hpp where they are ratios.      *)
(***************************************************************************)
EXTENDS Decision

(* A row of a sender that arrives in the bound of 10 after instant 1. *)
Row(sender, service, rate) ==
    [sender |-> sender, incarnation |-> 1, flow |-> 1, service |-> service,
     protected |-> FALSE, rate |-> rate, arrival |-> 1 + sender]

Restarted(row) == [row EXCEPT !.incarnation = 2]
Obliged(row) == [row EXCEPT !.protected = TRUE]
Late(row) == [row EXCEPT !.arrival = 90]

(* Bulk traffic is mitigable, replication is not. *)
Bulk == 1
Replication == 5

Calm ==
    {<<>>,
     <<Row(1, Bulk, 5), Late(Row(2, Bulk, 5))>>,
     <<Row(1, Bulk, 1), Row(2, Bulk, 2)>>}

Populations(rate) ==
    {<<Row(1, Bulk, rate), Row(2, Bulk, 2)>>,
     <<Row(1, Bulk, rate), Row(2, Replication, 2)>>,
     <<Row(1, Replication, rate), Obliged(Row(2, Bulk, 2))>>,
     <<Row(1, Bulk, rate), Obliged(Row(1, Bulk, 1)), Row(2, Bulk, 1)>>,
     <<Row(1, Bulk, rate), Restarted(Row(1, Bulk, 1)), Row(2, Bulk, 1)>>,
     <<Row(1, Bulk, rate), Row(1, Bulk, rate), Row(2, Bulk, 1)>>}

(* A clipped report loses rows: who is in it no longer matters. *)
Clipped ==
    {<<Row(1, Bulk, 5), Row(2, Bulk, 2)>>, <<Row(1, Bulk, 5), Row(2, Replication, 2)>>}

FullQueue == [queue |-> 1, occupancy |-> 9, capacity |-> 0, watermark |-> 4, drops |-> 0]

Window(senders, queues, truncated) ==
    [senders |-> senders, outstanding |-> 7, truncated |-> truncated, start |-> 1,
     end |-> 101, service |-> 3, queueCapacity |-> 10, buffer |-> 8, floor |-> 0,
     queues |-> queues]

(* Calm windows, incidents of either kind, and a full queue under a load   *)
(* that fits.                                                              *)
AllWindows ==
    {Window(senders, <<>>, FALSE) : senders \in Calm \cup Populations(2) \cup Populations(5)}
    \cup {Window(senders, <<>>, TRUE) : senders \in Clipped}
    \cup {Window(senders, <<FullQueue>>, FALSE) : senders \in Calm}

Default ==
    [generation |-> 1, manyToOne |-> 2, minSynchronized |-> 2, syncBound |-> 10,
     syncIndex |-> 7000, minShare |-> 6000, risk |-> 12500, collapse |-> 20000,
     activePressure |-> 8000, activeDrops |-> 1, headroomWarning |-> 2500,
     recovery |-> TRUE, relaxOversubscription |-> 9000, dwell |-> 2, maxClean |-> 2,
     strongestMitigable |-> Bulk, protectExplicit |-> TRUE, refuseSaturated |-> TRUE,
     floor |-> 0, escalate |-> TRUE, minReduction |-> 1000, maxReduction |-> 5000,
     maxAdmission |-> 5000, maxHeadroom |-> 1, minDuration |-> 4, maxDuration |-> 8,
     maxPenalized |-> 2, maxStagger |-> 2]

(* Tighter, without escalation, and with a streak just long enough for the *)
(* dwell.                                                                  *)
Strict ==
    [Default EXCEPT !.generation = 2, !.escalate = FALSE, !.maxReduction = 3000,
                    !.maxPenalized = 1, !.maxDuration = 6, !.dwell = 3]

(* Without recovery, and with clipped populations admitted. *)
Lenient ==
    [Default EXCEPT !.generation = 3, !.recovery = FALSE, !.refuseSaturated = FALSE,
                    !.dwell = 1]

ThreePolicies == {Default, Strict, Lenient}
=================================================================================
