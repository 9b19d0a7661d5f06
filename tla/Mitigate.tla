-------------------------------- MODULE Mitigate --------------------------------
(***************************************************************************)
(* The synthesis of a bounded intent (src/src/mitigate.cpp) from a window  *)
(* that the detector has classified, and the policies that validate()      *)
(* admits (src/src/policy.cpp).  The request is for accepted evidence and  *)
(* an enabled policy: the governor refuses the others before it            *)
(* synthesises.                                                            *)
(*                                                                         *)
(* An intent keeps the fields that say how much is asked of whom.  Each of *)
(* its penalized senders carries its position in the list, because a clamp *)
(* cuts the list from its end.                                             *)
(***************************************************************************)
EXTENDS Detect

-----------------------------------------------------------------------------
(* Policies. *)

PolicyFields ==
    [generation : Nat, manyToOne : Nat, minSynchronized : Nat, syncBound : Nat,
     syncIndex : Nat, minShare : Nat, risk : Nat, collapse : Nat,
     activePressure : Nat, activeDrops : Nat, headroomWarning : Nat,
     recovery : BOOLEAN, relaxOversubscription : Nat, dwell : Nat, maxClean : Nat,
     strongestMitigable : Int, protectExplicit : BOOLEAN, refuseSaturated : BOOLEAN,
     floor : Nat, escalate : BOOLEAN, minReduction : Nat, maxReduction : Nat, maxAdmission : Nat,
     maxHeadroom : Nat, minDuration : Nat, maxDuration : Nat, maxPenalized : Nat,
     maxStagger : Nat]

(* GovernorPolicy::validate, for the fields used here. *)
ValidPolicy(p) ==
    /\ p \in PolicyFields
    /\ p.manyToOne >= 2 /\ p.minSynchronized >= p.manyToOne
    /\ p.syncBound > 0 /\ p.syncIndex <= MaxRatio /\ p.minShare <= MaxRatio
    /\ 0 < p.risk /\ p.risk <= p.collapse
    /\ p.relaxOversubscription < p.risk
    /\ p.dwell > 0 /\ p.maxClean > 0
    /\ 0 < p.minReduction /\ p.minReduction <= p.maxReduction /\ p.maxReduction <= 10000
    /\ p.maxAdmission <= 10000
    /\ 0 < p.minDuration /\ p.minDuration <= p.maxDuration
    /\ p.maxPenalized > 0 /\ 0 < p.maxStagger /\ p.maxStagger <= 4096

-----------------------------------------------------------------------------
(* Intents. *)

NoIntent ==
    [kind |-> "None", scope |-> "None", reduction |-> 0, admission |-> 0,
     headroom |-> 0, stagger |-> 0, penalized |-> {}, duration |-> 0,
     achievable |-> 0, escalating |-> FALSE]

IsActive(i) == i.kind # "None"

Clamped(n, low, high) == Lesser(Greater(n, low), Greater(low, high))

ApplyBp(amount, bp) == Saturated(amount * bp) \div 10000

(* Mutant: the duration has no upper bound. *)
ClampedShortOfDuration(i, p) ==
    [i EXCEPT
       !.reduction = Lesser(i.reduction, p.maxReduction),
       !.admission = Lesser(i.admission, p.maxAdmission),
       !.headroom = Lesser(i.headroom, p.maxHeadroom),
       !.stagger = Lesser(i.stagger, p.maxStagger),
       !.duration = Greater(i.duration, p.minDuration)]

(* clamp_to_bounds. *)
ClampedToBounds(i, p) ==
    [i EXCEPT
       !.reduction = Lesser(i.reduction, p.maxReduction),
       !.admission = Lesser(i.admission, p.maxAdmission),
       !.headroom = Lesser(i.headroom, p.maxHeadroom),
       !.stagger = Lesser(i.stagger, p.maxStagger),
       !.penalized = {s \in i.penalized : s.position <= p.maxPenalized},
       !.duration = Lesser(Greater(i.duration, p.minDuration), p.maxDuration)]

-----------------------------------------------------------------------------
(* What has to go, and who may be asked. *)

(* An active incast is brought below the recovery band, a risk to the      *)
(* service rate.                                                           *)
Target(w, p, kind) ==
    LET relax == ApplyBp(w.service, p.relaxOversubscription) IN
    IF kind = "ActiveIncast" /\ relax # 0 /\ relax < w.service THEN relax ELSE w.service

Required(w, p, kind) == Greater(Aggregate(w) - Target(w, p, kind), 0)

SenderScope(w, p) == ~(SaturatedPopulation(w) /\ p.refuseSaturated)

Position(w, p, k) == Cardinality({j \in Mitigable(w, p) : Ahead(w, j, k)}) + 1

(* The first of the ranking. *)
Chosen(w, p) ==
    {k \in Mitigable(w, p) : SenderScope(w, p) /\ Position(w, p, k) <= p.maxPenalized}

Penalized(w, p) ==
    {[position |-> Position(w, p, k), identity |-> Identity(w.senders[k])] :
       k \in Chosen(w, p)}

MitigableOffer(w, p) == Offered(w, Chosen(w, p))

Slots(w, p) == Clamped(Cardinality(Rows(w)), 1, p.maxStagger)

-----------------------------------------------------------------------------
(* The primary action. *)

(* Nothing to reduce: structural relief of a queue that collapses anyway. *)
HeadroomNeeded(w) ==
    LET q == AffectedQueue(w) IN
    IF q.capacity > q.watermark THEN q.capacity - q.watermark ELSE q.capacity \div 4

HeadroomPlan(w, p) ==
    [NoIntent EXCEPT !.kind = "TemporaryHeadroomAdjustment", !.scope = "Queue",
                     !.headroom = Lesser(HeadroomNeeded(w), p.maxHeadroom),
                     !.stagger = Slots(w, p)]

(* Mutant: an exact quotient is rounded up too. *)
NeededAndOne(required, offer) == Saturated(required * 10000) \div offer + 1

NeededBp(required, offer) ==
    LET scaled == Saturated(required * 10000) IN
    scaled \div offer + (IF scaled % offer # 0 THEN 1 ELSE 0)

SenderReduction(w, p, kind) ==
    Clamped(NeededBp(Required(w, p, kind), MitigableOffer(w, p)),
            p.minReduction, p.maxReduction)

SenderPlan(w, p, kind) ==
    [NoIntent EXCEPT
       !.kind = IF kind = "ActiveIncast" THEN "PriorityAwareRateReduction"
                                         ELSE "SenderStaggering",
       !.scope = "SenderSet",
       !.reduction = SenderReduction(w, p, kind),
       !.penalized = Penalized(w, p),
       !.stagger = IF kind = "ActiveIncast" THEN 0 ELSE Slots(w, p),
       !.achievable = ApplyBp(MitigableOffer(w, p), SenderReduction(w, p, kind))]

AdmissionReduction(w, p, kind) ==
    Clamped(Saturated(Required(w, p, kind) * 10000) \div Greater(Aggregate(w), 1),
            Lesser(p.minReduction, p.maxAdmission), p.maxAdmission)

(* Nobody to ask: the destination admits less. *)
AdmissionPlan(w, p, kind) ==
    [NoIntent EXCEPT
       !.kind = "TemporaryAdmissionReduction", !.scope = "Destination",
       !.admission = AdmissionReduction(w, p, kind),
       !.achievable = ApplyBp(Aggregate(w), AdmissionReduction(w, p, kind))]

Plan(w, p, kind) ==
    CASE Required(w, p, kind) = 0 -> HeadroomPlan(w, p)
      [] Required(w, p, kind) > 0 /\ MitigableOffer(w, p) > 0 -> SenderPlan(w, p, kind)
      [] Required(w, p, kind) > 0 /\ MitigableOffer(w, p) = 0 -> AdmissionPlan(w, p, kind)

-----------------------------------------------------------------------------
(* What accompanies it. *)

(* Relief of the buffers accompanies every other action on an active       *)
(* incast.                                                                 *)
Relief(w, p, kind, plan) ==
    IF /\ kind = "ActiveIncast" /\ plan.kind # "TemporaryHeadroomAdjustment"
       /\ w.buffer # 0 /\ RatioBp(Headroom(w), w.buffer) < p.headroomWarning
    THEN Lesser(w.buffer \div 4, p.maxHeadroom)
    ELSE plan.headroom

DurationFor(w, p, kind) ==
    Clamped(p.minDuration + ((p.maxDuration - p.minDuration) * Severity(kind, w, p)) \div 4,
            p.minDuration, p.maxDuration)

Accompanied(w, p, kind, plan) ==
    [plan EXCEPT !.headroom = Relief(w, p, kind, plan),
                 !.duration = DurationFor(w, p, kind)]

Residual(w, p, kind, plan) == Greater(Required(w, p, kind) - plan.achievable, 0)

(* Mutant: what cannot be removed is absorbed. *)
WithoutEscalation(w, p, kind, plan) == plan

(* What cannot be removed is escalated; all of it, when nothing can be     *)
(* removed.                                                                *)
Escalated(w, p, kind, plan) ==
    CASE Residual(w, p, kind, plan) = 0 -> plan
      [] Residual(w, p, kind, plan) > 0 /\ plan.achievable > 0 ->
           [plan EXCEPT !.escalating = TRUE]
      [] Residual(w, p, kind, plan) > 0 /\ plan.achievable = 0 ->
           [plan EXCEPT !.escalating = TRUE, !.kind = "CongestionEscalation",
                        !.scope = "Destination"]

(* The policy's floor for protected demand, or else the destination's. *)
ProtectedFloor(w, p) == IF p.floor # 0 THEN p.floor ELSE w.floor

ProtectedOffer(w, p) == Offered(w, ProtectedRows(w, p))

ProtectionAtStake(w, p) == ProtectedOffer(w, p) > 0 \/ ProtectedFloor(w, p) # 0

-----------------------------------------------------------------------------
(* synthesize().  The result is an intent, NoIntent when it is refused. *)

IncidentIntent(w, p, kind) ==
    LET plan == Plan(w, p, kind) IN
    CASE Required(w, p, kind) = 0 /\ kind # "ActiveIncast" -> NoIntent
      [] /\ Residual(w, p, kind, plan) > 0
         /\ ProtectionAtStake(w, p) /\ ~p.escalate -> NoIntent
      [] OTHER -> ClampedToBounds(Escalated(w, p, kind, Accompanied(w, p, kind, plan)), p)

RecoveryStep(reduction, p) == Greater(p.minReduction, reduction \div 4)

(* Mutant: recovery ends when the reduction is zero. *)
IsZero(i, p) == i.reduction = 0

IsLastStep(i, p) ==
    LET step == RecoveryStep(i.reduction, p) IN
    i.reduction <= step \/ i.reduction - step < p.minReduction

RelaxedIntent(i, p) ==
    ClampedToBounds([i EXCEPT !.reduction = @ - RecoveryStep(@, p)], p)

=================================================================================
