--------------------------------- MODULE Detect ---------------------------------
(***************************************************************************)
(* The incident detector (src/src/detect.cpp): what one window of evidence *)
(* shows.  Everything here is a function of a window and a policy; the     *)
(* hysteresis of classify() is a function of the previous windows too and  *)
(* is in Decision.                                                         *)
(*                                                                         *)
(* A window w is a record with the fields of EvidenceBundle that the       *)
(* detector reads:                                                         *)
(*   senders      a sequence of rows [sender, incarnation, flow, service,  *)
(*                protected, rate, arrival]; an absent identifier or       *)
(*                arrival is 0, a service class is its strength;           *)
(*   outstanding  the sum of their outstanding bytes;                      *)
(*   truncated    fan_in_stamp.truncated;                                  *)
(*   start, end   the window's bounds, 0 when absent;                      *)
(*   service, queueCapacity, buffer, floor   the destination's capacity;   *)
(*   queues       a sequence of [queue, occupancy, capacity, watermark,    *)
(*                drops].                                                  *)
(* A policy p is a record of the GovernorPolicy fields that are used, with *)
(* all ratios in basis points.                                             *)
(***************************************************************************)
EXTENDS Integers, Sequences, FiniteSets, FiniteSetsExt

CONSTANTS
    MaxSenders,   \* kMaxSendersPerWindow
    MaxQueues,    \* kMaxQueueObservations
    MaxWord       \* the largest std::uint64_t

ASSUME WordAssumption == MaxSenders \in Nat /\ MaxQueues \in Nat /\ MaxWord \in Nat

Absent == 0

RowType ==
    [sender : Nat, incarnation : Nat, flow : Nat, service : Int, protected : BOOLEAN,
     rate : Nat, arrival : Nat]

QueueType ==
    [queue : Nat, occupancy : Nat, capacity : Nat, watermark : Nat, drops : Nat]

WindowType ==
    [senders : Seq(RowType), outstanding : Nat, truncated : BOOLEAN, start : Nat,
     end : Nat, service : Nat, queueCapacity : Nat, buffer : Nat, floor : Nat,
     queues : Seq(QueueType)]

Lesser(a, b) == IF a <= b THEN a ELSE b
Greater(a, b) == IF a >= b THEN a ELSE b

-----------------------------------------------------------------------------
(* Saturating arithmetic. *)

Saturated(n) == Lesser(n, MaxWord)

MaxRatio == 1000000

RatioBp(numerator, denominator) ==
    CASE denominator = 0 -> 0
      [] denominator # 0 /\ numerator * 10000 >= MaxWord -> MaxRatio
      [] denominator # 0 /\ numerator * 10000 < MaxWord ->
           Lesser((numerator * 10000) \div denominator, MaxRatio)

-----------------------------------------------------------------------------
(* The population. *)

Identified(row) == row.sender # Absent /\ row.incarnation # Absent

(* The rows that are counted; synchronization alone looks beyond the bound *)
(* of the window.                                                          *)
AllRows(w) == {k \in DOMAIN w.senders : Identified(w.senders[k])}
Rows(w) == {k \in AllRows(w) : k <= MaxSenders}

SaturatedPopulation(w) == w.truncated \/ Len(w.senders) > MaxSenders

IsProtected(row, p) ==
    \/ p.protectExplicit /\ row.protected
    \/ row.service > p.strongestMitigable

ProtectedRows(w, p) == {k \in Rows(w) : IsProtected(w.senders[k], p)}

(* What the rows of S offer, added row by row: Sums(w, S)[k] is the sum    *)
(* after the first k rows.                                                 *)
Sums(w, S) ==
    LET sum[k \in 0..Len(w.senders)] ==
          IF k = 0 THEN 0
          ELSE sum[k-1] + (IF k \in S THEN w.senders[k].rate ELSE 0)
    IN sum

(* It is the same to saturate every addition and to saturate the sum. *)
Offered(w, S) == Saturated(Sums(w, S)[Len(w.senders)])

Aggregate(w) == Offered(w, Rows(w))

Contradicting(a, b) ==
    \/ a.incarnation # b.incarnation
    \/ a.service # b.service
    \/ a.protected # b.protected

(* The senders of detect_collisions. *)
Collided(w) ==
    {w.senders[k].sender : k \in
       {j \in Rows(w) : \E i \in Rows(w) :
          /\ w.senders[i].sender = w.senders[j].sender
          /\ Contradicting(w.senders[i], w.senders[j])}}

-----------------------------------------------------------------------------
(* Arrivals. *)

Arrivals(w) == {w.senders[k].arrival : k \in Rows(w)} \ {Absent}

Earliest(w) == IF Arrivals(w) = {} THEN Absent ELSE Min(Arrivals(w))

Spread(w) == IF Arrivals(w) = {} THEN 0 ELSE Max(Arrivals(w)) - Min(Arrivals(w))

Width(w) == IF w.start # Absent /\ w.end # Absent /\ w.end >= w.start
            THEN w.end - w.start ELSE 0

(* The rows that arrived inside the synchronization bound. *)
InBound(w, p) ==
    {k \in AllRows(w) : /\ Arrivals(w) # {}
                        /\ w.senders[k].arrival # Absent
                        /\ w.senders[k].arrival <= Earliest(w) + p.syncBound}

Compression(w) ==
    IF Width(w) > 0 THEN Greater(10000 - RatioBp(Spread(w), Width(w)), 0) ELSE 0

(* Arrivals are compressed, absolutely and relative to the window. *)
Compressed(w, p) ==
    /\ Width(w) > 0 /\ Rows(w) # {} /\ Spread(w) <= p.syncBound
    /\ Width(w) <= p.syncBound \/ Compression(w) >= p.syncIndex

(* Mutant: the number of senders proves synchronization. *)
SynchronizedByCount(w, p) == Cardinality(Rows(w)) >= p.minSynchronized

Synchronized(w, p) ==
    /\ Cardinality(Rows(w)) >= p.minSynchronized
    /\ Compressed(w, p)
    /\ RatioBp(Offered(w, InBound(w, p)), Aggregate(w)) >= p.minShare

-----------------------------------------------------------------------------
(* Pressure. *)

QueuePressure(q) == RatioBp(q.occupancy, q.capacity)

Queues(w) == {k \in DOMAIN w.queues : k <= MaxQueues}

(* The most pressurised observation; ties go to the lower queue, then to   *)
(* the first.                                                              *)
Worse(w, j, k) ==
    LET a == w.queues[j]  b == w.queues[k] IN
    \/ QueuePressure(a) > QueuePressure(b)
    \/ QueuePressure(a) = QueuePressure(b)
       /\ (a.queue < b.queue \/ (a.queue = b.queue /\ j < k))

WorstQueue(w) ==
    w.queues[CHOOSE k \in Queues(w) : \A j \in Queues(w) \ {k} : Worse(w, k, j)]

NoQueue(w) == [queue |-> Absent, occupancy |-> 0, capacity |-> w.queueCapacity,
               watermark |-> 0, drops |-> 0]

(* An observation without a capacity takes the destination's. *)
AffectedQueue(w) ==
    IF Queues(w) = {} THEN NoQueue(w)
    ELSE [WorstQueue(w) EXCEPT !.capacity = IF @ # 0 THEN @ ELSE w.queueCapacity]

Pressure(w) == QueuePressure(AffectedQueue(w))

Oversubscription(w) == RatioBp(Aggregate(w), w.service)

Headroom(w) == Greater(w.buffer - w.outstanding, 0)

-----------------------------------------------------------------------------
(* classify_instantaneous and derive_severity. *)

Collapsing(w, p) ==
    \/ Oversubscription(w) >= p.collapse
    \/ Pressure(w) >= p.activePressure
    \/ AffectedQueue(w).drops >= p.activeDrops

ManyToOne(w, p) == Cardinality(Rows(w)) >= p.manyToOne

InstantaneousKind(w, p) ==
    CASE ~ManyToOne(w, p) -> "NoFanIn"
      [] ManyToOne(w, p) /\ ~Synchronized(w, p) -> "OrdinaryManyToOne"
      [] ManyToOne(w, p) /\ Synchronized(w, p) ->
           IF Collapsing(w, p) THEN "ActiveIncast"
           ELSE IF Oversubscription(w) >= p.risk THEN "SynchronizedIncastRisk"
           ELSE "OrdinaryManyToOne"

(* Severity as severity_weight() counts it: None 0, Advisory 1, Elevated 2, *)
(* Severe 3, Critical 4.                                                    *)
Severity(kind, w, p) ==
    CASE kind \in {"Unknown", "NoFanIn"} -> 0
      [] kind \in {"OrdinaryManyToOne", "Recovery"} -> 1
      [] kind = "SynchronizedIncastRisk" ->
           IF Oversubscription(w) >= p.collapse THEN 3 ELSE 2
      [] kind = "ActiveIncast" ->
           IF \/ AffectedQueue(w).drops >= p.activeDrops
              \/ Oversubscription(w) >= p.collapse
              \/ Pressure(w) >= 9500
           THEN 4 ELSE 3

-----------------------------------------------------------------------------
(* rank_contributions. *)

Identity(row) == <<row.sender, row.incarnation, row.flow>>

(* One row for each identity, the first. *)
Contributions(w) ==
    {k \in Rows(w) : \A j \in Rows(w) :
       j < k => Identity(w.senders[j]) # Identity(w.senders[k])}

(* Lexicographic order of the identities, as the ranking compares them. *)
Before(a, b) ==
    \/ a.incarnation < b.incarnation
    \/ a.incarnation = b.incarnation /\ a.flow < b.flow
    \/ a.incarnation = b.incarnation /\ a.flow = b.flow /\ a.sender < b.sender

Ahead(w, j, k) ==
    LET a == w.senders[j]  b == w.senders[k] IN
    a.rate > b.rate \/ (a.rate = b.rate /\ Before(a, b))

(* Mutant: a sender is excluded only for its own contradictions. *)
MitigableDespiteCollision(w, p) ==
    {k \in Contributions(w) : /\ Synchronized(w, p) /\ k \in InBound(w, p)
                              /\ ~IsProtected(w.senders[k], p)}

(* Mutant: a sender may be penalised whatever its obligations. *)
MitigableDespiteProtection(w, p) ==
    {k \in Contributions(w) : /\ Synchronized(w, p) /\ k \in InBound(w, p)
                              /\ w.senders[k].sender \notin Collided(w)}

(* The contributions that may be penalised. *)
Mitigable(w, p) ==
    {k \in Contributions(w) : /\ Synchronized(w, p) /\ k \in InBound(w, p)
                              /\ ~IsProtected(w.senders[k], p)
                              /\ w.senders[k].sender \notin Collided(w)}

=================================================================================
