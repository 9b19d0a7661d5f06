-------------------------------- MODULE Decision --------------------------------
(***************************************************************************)
(* The decisions of a governor over successive windows of accepted         *)
(* evidence (evaluate_locked in src/src/governor.cpp from line 401 on,     *)
(* with classify() of detect.cpp and synthesize() of mitigate.cpp), seen   *)
(* from the inside: Governor says who may decide and when, this module     *)
(* what is decided from which demand.  It follows the live intervention of *)
(* one destination; the bindings and clocks that may fence it are in       *)
(* Governor, and here a window may be one that fences.                     *)
(***************************************************************************)
EXTENDS Mitigate

CONSTANTS
    Windows,       \* the windows of evidence
    Policies,      \* the policy documents that may be configured
    InitialPolicy

ASSUME PoliciesAssumption ==
    /\ InitialPolicy \in Policies
    /\ \A p \in Policies : ValidPolicy(p)

(* Accepted evidence is well formed. *)
ASSUME EvidenceAssumption == Windows \subseteq WindowType

VARIABLES
    policy,   \* config_.policy
    stated,   \* state_.policy_generation
    prior,    \* the kind of state_.history.back()
    clean,    \* state_.clean_streak
    state,    \* the state of the live intervention, "None" without one
    intent,   \* its intent
    window,   \* the window evaluated last
    outcome,  \* the outcome of the last call
    overlooked \* history: what is in force was decided under a policy that
               \* has been replaced without its being revalidated

vars == <<policy, stated, prior, clean, state, intent, window, outcome, overlooked>>

Incident == {"SynchronizedIncastRisk", "ActiveIncast"}

Rank == [Unknown |-> -1, NoFanIn |-> 0, OrdinaryManyToOne |-> 1, Recovery |-> 2,
         SynchronizedIncastRisk |-> 3, ActiveIncast |-> 4]

Live == state # "None"

InForce == state \in {"Active", "Relaxing"}

(* The history variable, in every action: an intervention in force that a  *)
(* new policy leaves there is overlooked until it is decided on anew.      *)
Noted ==
    overlooked' = (/\ InForce'
                   /\ outcome' \notin {"Issued", "Continued"}
                   /\ overlooked \/ policy' # policy)

(* What the detector and the synthesis say of a window under a policy: the *)
(* kind it shows, and the intent it asks for as an incident of each kind.  *)
(* A set of constants, so that TLC evaluates them once.                    *)
Observation(w, p) ==
    [window |-> w, policy |-> p, shown |-> InstantaneousKind(w, p),
     asked |-> [SynchronizedIncastRisk |-> IncidentIntent(w, p, "SynchronizedIncastRisk"),
                ActiveIncast |-> IncidentIntent(w, p, "ActiveIncast")]]

Observations == {Observation(w, p) : w \in Windows, p \in Policies}

-----------------------------------------------------------------------------
(* classify(): what the window counts as after the ones before it. *)

Shown(o) == o.shown

Falling(o) == Rank[prior] > Rank[Shown(o)] /\ Rank[prior] > 0

Dwelling(o) == Falling(o) /\ clean + 1 < policy.dwell

SteppingDown(o) ==
    /\ Falling(o) /\ ~Dwelling(o)
    /\ prior = "ActiveIncast" /\ Rank[Shown(o)] < Rank["Recovery"]

Held(o) == Dwelling(o) \/ SteppingDown(o)

(* evaluate_locked: under a live intervention a calm window is a recovery. *)
Kind(o) ==
    CASE Dwelling(o) -> prior
      [] SteppingDown(o) -> "Recovery"
      [] ~Held(o) /\ Live /\ Shown(o) \notin Incident -> "Recovery"
      [] ~Held(o) /\ (~Live \/ Shown(o) \in Incident) -> Shown(o)

(* Mutant: only the windows without a live intervention count. *)
CountedWhenIdle(o) ==
    IF Shown(o) \in Incident \/ Live THEN 0 ELSE Lesser(clean + 1, policy.maxClean)

Counted(o) == IF Shown(o) \in Incident THEN 0 ELSE Lesser(clean + 1, policy.maxClean)

(* Mutant: a held window is synthesised like any other. *)
NeverHeldBack(o) == FALSE

HeldBack(o) ==
    Held(o) /\ Kind(o) \in Incident /\ InForce

-----------------------------------------------------------------------------
(* evaluate(), by outcome. *)

(* The window is seen under the policy in use. *)
Observed(o) ==
    /\ o.policy = policy
    /\ window' = o.window

Recorded(o) ==
    /\ prior' = Kind(o)
    /\ clean' = Counted(o)
    /\ UNCHANGED <<policy, stated>>

(* Fencing returns before the window is recorded in the history. *)
Fence(o) ==
    /\ Observed(o) /\ Live
    /\ state' = "None" /\ intent' = NoIntent
    /\ clean' = Counted(o)
    /\ outcome' = "Fenced"
    /\ UNCHANGED <<policy, stated, prior>>
    /\ Noted

HoldBack(o) ==
    /\ HeldBack(o)
    /\ outcome' = "Held"
    /\ Recorded(o)
    /\ UNCHANGED <<state, intent>>

(* What synthesize() asks for in an incident. *)
Asked(o) == o.asked[Kind(o)]

(* Issued, continued with a new magnitude, escalated again or revalidated. *)
Intervene(o) ==
    /\ ~HeldBack(o) /\ Kind(o) \in Incident /\ IsActive(Asked(o))
    /\ state' = "Active"
    /\ intent' = Asked(o)
    /\ outcome' = IF Live THEN "Continued" ELSE "Issued"
    /\ Recorded(o)

Recovering(o) == Live /\ Kind(o) = "Recovery" /\ policy.recovery

(* A revalidating intervention is lowered in place. *)
Relax(o) ==
    /\ Recovering(o) /\ ~IsLastStep(intent, policy)
    /\ state' = IF state = "Active" THEN "Relaxing" ELSE state
    /\ intent' = RelaxedIntent(intent, policy)
    /\ outcome' = "Relaxed"
    /\ Recorded(o)

Complete(o) ==
    /\ Recovering(o) /\ IsLastStep(intent, policy)
    /\ state' = "None" /\ intent' = NoIntent
    /\ outcome' = "Retired"
    /\ Recorded(o)

(* Nothing to do, or nothing that may be done: the demand fits already, or *)
(* it could only be met at the cost of protected demand.                   *)
Decline(o) ==
    /\ ~HeldBack(o) /\ ~Recovering(o)
    /\ Kind(o) \in Incident => ~IsActive(Asked(o))
    /\ LET unneeded == /\ state = "Revalidating"
                       /\ Kind(o) \in {"NoFanIn", "OrdinaryManyToOne"} IN
       /\ state' = IF unneeded THEN "None" ELSE state
       /\ intent' = IF unneeded THEN NoIntent ELSE intent
       /\ outcome' = IF unneeded THEN "Retired" ELSE "NoAction"
    /\ Recorded(o)

Decide(o) ==
    /\ Observed(o)
    /\ HoldBack(o) \/ Intervene(o) \/ Relax(o) \/ Complete(o) \/ Decline(o)
    /\ Noted

-----------------------------------------------------------------------------
(* The other methods. *)

(* configure_policy: what is live has to be revalidated when the state's   *)
(* generation is another than the policy's.                                *)
ConfigurePolicy(p) ==
    /\ policy' = p /\ stated' = p.generation
    /\ state' = IF Live /\ stated # p.generation THEN "Revalidating" ELSE state
    /\ outcome' = "None"
    /\ UNCHANGED <<prior, clean, intent, window>>
    /\ Noted

(* retire() *)
Retire ==
    /\ Live
    /\ state' = "None" /\ intent' = NoIntent
    /\ outcome' = "None"
    /\ UNCHANGED <<policy, stated, prior, clean, window>>
    /\ Noted

(* restore_state() of what snapshot_state() returned, by an engine that    *)
(* runs policy p: a new process runs the one it was constructed with, and  *)
(* the same process any that was configured since the snapshot.  The state *)
(* brings the generation it was saved under; the running policy stays.     *)
Restore(p) ==
    /\ policy' = p
    /\ state' = IF Live THEN "Revalidating" ELSE state
    /\ clean' = 0
    /\ outcome' = "None"
    /\ UNCHANGED <<stated, prior, intent, window>>
    /\ Noted

-----------------------------------------------------------------------------

Init ==
    /\ policy = InitialPolicy /\ stated = InitialPolicy.generation
    /\ prior = "Unknown" /\ clean = 0
    /\ state = "None" /\ intent = NoIntent
    /\ window \in Windows
    /\ outcome = "None"
    /\ overlooked = FALSE

Next ==
    \/ \E o \in Observations : Decide(o) \/ Fence(o)
    \/ \E p \in Policies : ConfigurePolicy(p) \/ Restore(p)
    \/ Retire

Spec == Init /\ [][Next]_vars

(* The fabric goes on reporting windows; fencing and the calls of an       *)
(* operator are never certain.                                             *)
FairSpec == Spec /\ WF_vars(\E o \in Observations : Decide(o))

-----------------------------------------------------------------------------
(* Properties. *)

IntentType ==
    [kind : {"None", "SenderStaggering", "TemporaryAdmissionReduction",
             "PriorityAwareRateReduction", "TemporaryHeadroomAdjustment",
             "CongestionEscalation"},
     scope : {"None", "Destination", "Queue", "SenderSet"},
     reduction : Nat, admission : Nat, headroom : Nat, stagger : Nat,
     penalized : SUBSET [position : Nat \ {0}, identity : Nat \X Nat \X Nat],
     duration : Nat, achievable : Nat, escalating : BOOLEAN]

(* Every variable has its type, and there is an active intent exactly      *)
(* while an intervention is live.                                          *)
TypeOK ==
    /\ policy \in Policies /\ stated \in {p.generation : p \in Policies}
    /\ overlooked \in BOOLEAN
    /\ prior \in DOMAIN Rank
    /\ clean \in Nat
    /\ state \in {"None", "Active", "Relaxing", "Revalidating"}
    /\ intent \in IntentType
    /\ window \in Windows
    /\ outcome \in {"None", "Fenced", "Held", "Issued", "Continued", "Relaxed",
                    "Retired", "NoAction"}
    /\ Live <=> IsActive(intent)

WithinBoundsOf(i, p) ==
    /\ i.reduction = 0 \/ i.reduction \in p.minReduction..p.maxReduction
    /\ i.admission <= p.maxAdmission
    /\ i.headroom <= p.maxHeadroom
    /\ i.stagger <= p.maxStagger
    /\ i.duration \in p.minDuration..p.maxDuration
    /\ \A s \in i.penalized : s.position \in 1..p.maxPenalized

(* An intervention in force, and one that was just relaxed, never asks for *)
(* more than the configured policy allows, nor for a reduction below the   *)
(* policy's least ("Every component of an intent is clamped into the       *)
(* policy's bounds", README.md).  Excepted is what the engine overlooks:   *)
(* after a restore, configure_policy may find its generation in the state  *)
(* already and leave in force what another policy allowed.                 *)
WithinBounds ==
    (InForce /\ ~overlooked) \/ outcome = "Relaxed" => WithinBoundsOf(intent, policy)

(* A decision on an incident penalises a sender only when every row of the *)
(* window that names it is mitigable and of the same incarnation, and      *)
(* nobody when the population was clipped (invariants 1, 4 and 5 of        *)
(* README.md).  A relaxation keeps the list of the intent it relaxes.      *)
PenalizesOnlyProvable ==
    outcome \in {"Issued", "Continued"} =>
      \A s \in intent.penalized :
        /\ ~(SaturatedPopulation(window) /\ policy.refuseSaturated)
        /\ \A k \in Rows(window) : window.senders[k].sender = s.identity[1] =>
             /\ window.senders[k].incarnation = s.identity[2]
             /\ ~IsProtected(window.senders[k], policy)

(* An incident is answered in full: what a decision cannot remove of the   *)
(* excess demand it escalates, and an active incast that it leaves alone   *)
(* is a conflict with protected demand under a policy that forbids         *)
(* escalation.                                                             *)
ExcessIsAnswered ==
    /\ outcome \in {"Issued", "Continued"} =>
         \/ intent.achievable >= Required(window, policy, prior)
         \/ intent.escalating
    /\ outcome = "NoAction" /\ prior = "ActiveIncast" =>
         ~policy.escalate /\ ProtectionAtStake(window, policy)

(* The senders that are asked to reduce leave the protected demand whole.  *)
(* (An admission reduction of the destination does not: see README.md.)    *)
ProtectedDemandIsKept ==
    outcome \in {"Issued", "Continued"} /\ intent.scope = "SenderSet" =>
      Aggregate(window) - intent.achievable >= ProtectedOffer(window, policy)

(* A decision asks the senders for no more than it needs: unless the policy *)
(* asks for a least reduction, one basis point less would leave some of the *)
(* excess.                                                                 *)
ReductionIsNeeded ==
    /\ outcome \in {"Issued", "Continued"}
    /\ intent.scope = "SenderSet" /\ intent.reduction > policy.minReduction
    => ApplyBp(MitigableOffer(window, policy), intent.reduction - 1)
         < Required(window, policy, prior)

(* A new intervention answers arrivals that were compressed, or an         *)
(* incident that hysteresis holds after its intervention ended.            *)
IssuedOnlyWhenCompressed ==
    [][outcome' = "Issued" =>
         \/ Compressed(window', policy)
         \/ prior \in Incident /\ clean + 1 < policy.dwell]_vars

(* An intervention in force is weakened or retired only by a window that   *)
(* is an incident in itself, or at the end of a run of calm windows as     *)
(* long as the dwell: a window the classifier does not trust yet leaves    *)
(* the magnitude as it is (invariant 7 of README.md).  Excepted is what a  *)
(* new policy overlooked: it may ask for a longer run than the one that    *)
(* the recovery under way began with.                                      *)
WeakensOnlyAfterCalm ==
    [][/\ InForce /\ ~overlooked
       /\ outcome' \in {"Held", "Continued", "Relaxed", "Retired"}
       /\ intent'.reduction < intent.reduction
       => InstantaneousKind(window', policy) \in Incident \/ clean + 1 >= policy.dwell]_vars

Lifecycle == INSTANCE Enforcement WITH
    life <- state,
    strength <- IF Live THEN intent.reduction ELSE 0,
    alarmed <- prior \in Incident,
    calm <- clean,
    dwell <- policy.dwell

(* The decisions are those of Enforcement, as the engine's calls in        *)
(* Governor are: the two views of evaluate() agree on when an intervention *)
(* is made, strengthened, left alone, eased and ended.                     *)
ImplementsEnforcement == Lifecycle!Spec

(* The windows that are calm in themselves; constants again. *)
CalmWindows ==
    [p \in Policies |-> {w \in Windows : InstantaneousKind(w, p) \notin Incident}]

(* The last call decided on one. *)
CalmDecision == outcome \notin {"None", "Fenced"} /\ window \in CalmWindows[policy]

(* When only calm windows are left, under a policy with recovery, the      *)
(* intervention is taken back step by step until none is live; provided    *)
(* that the streak may grow as long as the dwell (validate() admits        *)
(* policies under which it may not, and the incident is then held for      *)
(* ever).                                                                  *)
CalmRetires ==
    <>[](CalmDecision /\ policy.recovery /\ policy.maxClean + 1 >= policy.dwell)
      => <>[](~Live)

=================================================================================
