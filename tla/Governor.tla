-------------------------------- MODULE Governor --------------------------------
(***************************************************************************)
(* The governance engine of a destination (src/src/governor.cpp) with the  *)
(* lifecycle, fencing and hysteresis rules it applies (lifecycle.cpp,      *)
(* detect.cpp, mitigate.cpp), inside a worker process that saves the       *)
(* engine's state and is started again.                                    *)
(*                                                                         *)
(* Every public method holds mutex_ from its first read to its last write, *)
(* so a call is one action; evaluate() is one action per outcome.          *)
(*                                                                         *)
(* The epoch, boot, worker and lease of an authority are compared together *)
(* everywhere and come from one grant, so a grant's number stands for all  *)
(* four.  An evidence bundle is the grant it was collected under, its time *)
(* and what its metrics classify as on their own; the kind Unknown stands  *)
(* for a bundle that is refused for itself (malformed, of another          *)
(* destination, missing a class of evidence, stale, reordered).  The       *)
(* magnitude of an intervention is counted in the steps in which recovery  *)
(* lowers it; it is 0 when it has no rate reduction.                       *)
(***************************************************************************)
EXTENDS Integers, Sequences

CONSTANTS
    Policies,          \* the policy documents that may be configured
    InitialPolicy,     \* the one a worker process starts with
    Duration,          \* intent.duration
    MaxClean,          \* hysteresis.max_clean_windows
    MaxInterventions,  \* kMaxInterventions
    Levels,            \* the reductions synthesize() computes, in recovery steps
    Times,             \* bound: the clock values of evidence and leases
    MaxGrants,         \* bound on the authorities granted to this worker
    MaxIssued          \* bound on the interventions of one incarnation

ASSUME PoliciesAssumption ==
    /\ InitialPolicy \in Policies
    /\ \A p \in Policies :
         /\ p.generation \in Nat \ {0}
         /\ p.enabled \in BOOLEAN /\ p.recovery \in BOOLEAN
         /\ p.clean \in Nat \ {0}       \* recovery.required_clean_windows
         /\ p.dwell \in Nat \ {0}       \* hysteresis.min_dwell_windows

ASSUME BoundsAssumption ==
    /\ Duration \in Nat /\ MaxClean \in Nat \ {0}
    /\ MaxInterventions \in Nat \ {0} /\ Levels \subseteq Nat
    /\ Times \subseteq Nat /\ MaxGrants \in Nat \ {0} /\ MaxIssued \in Nat

VARIABLES
    accepting,      \* accepting_
    binding,        \* the grant in config_; Unbound when it was cleared
    leaseExpiry,    \* config_.lease_expiry
    policy,         \* config_.policy
    stated,         \* state_.policy_generation
    prior,          \* the kind of state_.history.back()
    clean,          \* state_.clean_streak
    interventions,  \* state_.interventions
    next,           \* state_.next_intervention_generation
    revalidate,     \* state_.requires_revalidation
    outcome,        \* the outcome of the decision the last call returned
    granted,        \* the number of grants so far
    bootGrant       \* the first grant of the running process

authority == <<accepting, binding, leaseExpiry>>
config == <<policy, stated>>
streaks == <<prior, clean>>
table == <<interventions, next, revalidate>>
process == <<granted, bootGrant>>
vars == <<authority, config, streaks, table, outcome, process>>

Unbound == 0

Kinds == {"NoFanIn", "OrdinaryManyToOne", "Recovery",
          "SynchronizedIncastRisk", "ActiveIncast"}
Incident == {"SynchronizedIncastRisk", "ActiveIncast"}

Evidence ==
    [grant : 1..granted, now : Times, kind : (Kinds \ {"Recovery"}) \cup {"Unknown"}]

LiveStates == {"Active", "Relaxing", "Revalidating"}
SettledStates == {"Retired", "Fenced"}
Enforced == {"Active", "Relaxing"}

Outcomes == {"None", "Refused", "NoAction", "Issued", "Continued",
             "Relaxed", "Retired", "Fenced"}

-----------------------------------------------------------------------------
(* The table of interventions. *)

IsLive(i) == i.state \in LiveStates

(* find_live: the first live one. *)
HasLive == \E k \in DOMAIN interventions : IsLive(interventions[k])

LiveAt == CHOOSE k \in DOMAIN interventions :
            /\ IsLive(interventions[k])
            /\ \A j \in DOMAIN interventions : IsLive(interventions[j]) => k <= j

Live == interventions[LiveAt]

(* Mutant: a settled intervention is moved too, as the transition table    *)
(* would allow for a retired one.                                          *)
MovingEvery(table_, state) ==
    [k \in DOMAIN table_ |-> [table_[k] EXCEPT !.state = state]]

(* The loops over the live interventions. *)
MovingLive(table_, state) ==
    [k \in DOMAIN table_ |->
       IF IsLive(table_[k]) THEN [table_[k] EXCEPT !.state = state] ELSE table_[k]]

(* trim_interventions.  The table overflows only by the push of a new      *)
(* intervention, which is then its last and only live element: kept first, *)
(* with the others behind it from the back.                                *)
Trimmed(table_) ==
    IF Len(table_) <= MaxInterventions THEN table_
    ELSE [k \in 1..MaxInterventions |-> table_[Len(table_) + 1 - k]]

-----------------------------------------------------------------------------
(* Is the evidence accepted? *)

(* Mutant: evidence of any grant is taken. *)
RefusedUnlessBound(e) ==
    \/ ~accepting
    \/ binding = Unbound
    \/ e.now > leaseExpiry
    \/ ~policy.enabled
    \/ e.kind = "Unknown"

(* Mutant: a governor that was shut down still evaluates. *)
RefusedUnlessOwned(e) ==
    \/ e.grant # binding
    \/ e.now > leaseExpiry
    \/ ~policy.enabled
    \/ e.kind = "Unknown"

Refused(e) ==
    \/ ~accepting
    \/ e.grant # binding        \* also when unbound: a grant is never Unbound
    \/ e.now > leaseExpiry
    \/ ~policy.enabled
    \/ e.kind = "Unknown"

-----------------------------------------------------------------------------
(* What does the window count as?  Escalation is immediate. *)

Rank == [Unknown |-> -1, NoFanIn |-> 0, OrdinaryManyToOne |-> 1, Recovery |-> 2,
         SynchronizedIncastRisk |-> 3, ActiveIncast |-> 4]

Falling(e) == Rank[prior] > Rank[e.kind] /\ Rank[prior] > 0

(* Mutant: the first clean window meets the dwell. *)
NeverDwelling(e) == FALSE

Dwelling(e) == Falling(e) /\ clean + 1 < policy.dwell

SteppingDown(e) ==
    /\ Falling(e) /\ ~Dwelling(e)
    /\ prior = "ActiveIncast" /\ Rank[e.kind] < Rank["Recovery"]

Held(e) == Dwelling(e) \/ SteppingDown(e)

(* Mutant: a calm window keeps its own kind although an intervention is    *)
(* live.                                                                   *)
KindOfClassifier(e) ==
    CASE Dwelling(e) -> prior
      [] SteppingDown(e) -> "Recovery"
      [] ~Held(e) -> e.kind

Kind(e) ==
    CASE Dwelling(e) -> prior
      [] SteppingDown(e) -> "Recovery"
      [] ~Held(e) /\ HasLive /\ e.kind \notin Incident -> "Recovery"
      [] ~Held(e) /\ (~HasLive \/ e.kind \in Incident) -> e.kind

(* Mutant: the streak is not capped. *)
CountedForEver(e) == IF e.kind \in Incident THEN 0 ELSE clean + 1

(* clean_streak after this window. *)
Counted(e) ==
    CASE e.kind \in Incident -> 0
      [] e.kind \notin Incident /\ clean < MaxClean -> clean + 1
      [] e.kind \notin Incident /\ clean >= MaxClean -> MaxClean

(* Mutant: only time fences. *)
FencedByTime(e) == e.now > Live.expires

(* is_fenced of the live intervention. *)
Fenced(e) == Live.binding # binding \/ e.now > Live.expires

(* The magnitude stays as it is while the classifier holds a de-escalation. *)
HeldBack(e) == HasLive /\ Held(e) /\ Kind(e) \in Incident /\ Live.state \in Enforced

(* An accepted window that is neither fenced nor held back is synthesised. *)
Synthesised(e) ==
    /\ HasLive => ~Fenced(e)
    /\ ~HeldBack(e)

-----------------------------------------------------------------------------
(* evaluate(), by outcome. *)

(* Mutant: an evaluation clears the flag. *)
RecordedAsValid(e) ==
    /\ prior' = Kind(e)
    /\ clean' = Counted(e)
    /\ revalidate' = FALSE
    /\ UNCHANGED <<authority, config, process>>

(* The end of an evaluation that was neither refused nor fenced. *)
Recorded(e) ==
    /\ prior' = Kind(e)
    /\ clean' = Counted(e)
    /\ revalidate' = \E k \in DOMAIN interventions' :
                       interventions'[k].state = "Revalidating"
    /\ UNCHANGED <<authority, config, process>>

(* Whatever evidence is refused, and for whatever reason, the state stays. *)
Refuse ==
    /\ {e \in Evidence : Refused(e)} # {}
    /\ outcome' = "Refused"
    /\ UNCHANGED <<authority, config, streaks, table, process>>

(* Fencing returns before the window is recorded in the history. *)
Fence(e) ==
    /\ HasLive /\ Fenced(e)
    /\ interventions' = [interventions EXCEPT ![LiveAt].state = "Fenced"]
    /\ clean' = Counted(e)
    /\ revalidate' = TRUE
    /\ outcome' = "Fenced"
    /\ UNCHANGED <<authority, config, prior, next, process>>

HoldBack(e) ==
    /\ HeldBack(e) /\ ~Fenced(e)
    /\ interventions' = [interventions EXCEPT ![LiveAt].expires = e.now + Duration]
    /\ outcome' = "Continued"
    /\ Recorded(e)
    /\ UNCHANGED next

(* The level is what synthesize() computes from the metrics. *)
Issue(e, level) ==
    /\ Synthesised(e) /\ ~HasLive /\ Kind(e) \in Incident
    /\ next <= MaxIssued
    /\ interventions' = Trimmed(Append(interventions,
         [id |-> next, state |-> "Active", binding |-> e.grant,
          policy |-> policy.generation, expires |-> e.now + Duration, level |-> level]))
    /\ next' = next + 1
    /\ outcome' = "Issued"
    /\ Recorded(e)

(* Revalidated, escalated again, or continued with a new magnitude. *)
Continue(e, level) ==
    /\ Synthesised(e) /\ HasLive /\ Kind(e) \in Incident
    /\ interventions' = [interventions EXCEPT ![LiveAt] =
         [@ EXCEPT !.state = "Active", !.expires = e.now + Duration, !.level = level]]
    /\ outcome' = "Continued"
    /\ Recorded(e)
    /\ UNCHANGED next

Recovering(e) == Synthesised(e) /\ HasLive /\ Kind(e) = "Recovery" /\ policy.recovery

(* A revalidating intervention is lowered in place. *)
Lowered(i, now) ==
    [i EXCEPT !.state = IF i.state = "Active" THEN "Relaxing" ELSE i.state,
              !.expires = now + Duration, !.level = i.level - 1]

Relax(e) ==
    /\ Recovering(e) /\ Live.level > 1
    /\ interventions' = [interventions EXCEPT ![LiveAt] = Lowered(Live, e.now)]
    /\ outcome' = "Relaxed"
    /\ Recorded(e)
    /\ UNCHANGED next

Complete(e) ==
    /\ Recovering(e) /\ Live.level <= 1
    /\ interventions' = [interventions EXCEPT ![LiveAt].state = "Retired"]
    /\ outcome' = "Retired"
    /\ Recorded(e)
    /\ UNCHANGED next

(* Nothing to do, or nothing that synthesize() authorises: a risk may need *)
(* no reduction, and an incident of either kind may conflict with          *)
(* protected demand.                                                       *)
Decline(e) ==
    /\ Synthesised(e) /\ ~Recovering(e)
    /\ LET unneeded == /\ HasLive /\ Live.state = "Revalidating"
                       /\ Kind(e) \in {"NoFanIn", "OrdinaryManyToOne"} IN
       /\ interventions' = IF unneeded
                           THEN [interventions EXCEPT ![LiveAt].state = "Retired"]
                           ELSE interventions
       /\ outcome' = IF unneeded THEN "Retired" ELSE "NoAction"
    /\ Recorded(e)
    /\ UNCHANGED next

Evaluate(e) ==
    /\ ~Refused(e)
    /\ \/ Fence(e)
       \/ HoldBack(e)
       \/ \E level \in Levels : Issue(e, level) \/ Continue(e, level)
       \/ Relax(e)
       \/ Complete(e)
       \/ Decline(e)

-----------------------------------------------------------------------------
(* The other methods. *)

ConfigurePolicy(p) ==
    /\ policy' = p
    /\ stated' = p.generation
    /\ IF stated # p.generation
       THEN /\ interventions' =
                 [k \in DOMAIN interventions |->
                    IF IsLive(interventions[k])
                    THEN [interventions[k] EXCEPT !.state = "Revalidating",
                                                  !.policy = p.generation]
                    ELSE interventions[k]]
            /\ revalidate' = TRUE
       ELSE UNCHANGED <<interventions, revalidate>>
    /\ outcome' = "None"
    /\ UNCHANGED <<authority, streaks, next, process>>

(* bind_authority: the latest grant of the process, bound again or with a  *)
(* renewed expiry, or a new one.                                           *)
Bind(n, expiry) ==
    /\ binding' = n
    /\ leaseExpiry' = expiry
    /\ granted' = n
    /\ outcome' = "None"
    /\ UNCHANGED <<accepting, config, streaks, table, bootGrant>>

Retire(k) ==
    /\ IsLive(interventions[k])
    /\ interventions' = [interventions EXCEPT ![k].state = "Retired"]
    /\ outcome' = "None"
    /\ UNCHANGED <<authority, config, streaks, next, revalidate, process>>

Shutdown ==
    /\ accepting' = FALSE
    /\ interventions' = MovingLive(interventions, "Retired")
    /\ clean' = 0
    /\ outcome' = "None"
    /\ UNCHANGED <<binding, leaseExpiry, config, prior, next, revalidate, process>>

(* A state that was never evaluated. *)
Blank ==
    /\ interventions' = <<>>
    /\ prior' = "Unknown"
    /\ next' = 1

Reset ==
    /\ Blank
    /\ accepting' = TRUE
    /\ stated' = policy.generation
    /\ clean' = 0
    /\ revalidate' = TRUE
    /\ outcome' = "None"
    /\ UNCHANGED <<binding, leaseExpiry, policy, process>>

(* The constructor of a process without durable state binds the new grant. *)
StartBlank(expiry) ==
    /\ Blank
    /\ stated' = InitialPolicy.generation
    /\ binding' = granted + 1
    /\ leaseExpiry' = expiry

(* Mutant: the numbering of interventions starts over.                     *)
StartRenumbering ==
    /\ interventions' = MovingLive(interventions, "Revalidating")
    /\ next' = 1
    /\ binding' = Unbound
    /\ leaseExpiry' = 0
    /\ UNCHANGED <<prior, stated>>

(* restore_state keeps the table, the history and the policy generation,   *)
(* and clears the binding.                                                 *)
StartRestored ==
    /\ interventions' = MovingLive(interventions, "Revalidating")
    /\ binding' = Unbound
    /\ leaseExpiry' = 0
    /\ UNCHANGED <<prior, stated, next>>

(* The process ends, and another acquires a grant and constructs its       *)
(* governor.  The durable state is one that snapshot_state() returned      *)
(* earlier; a restored governor depends on nothing that happened since, so *)
(* the process is taken to end right after the state was saved.            *)
Restart ==
    /\ granted < MaxGrants
    /\ granted' = granted + 1
    /\ bootGrant' = granted + 1
    /\ accepting' = TRUE
    /\ policy' = InitialPolicy
    /\ clean' = 0
    /\ revalidate' = TRUE
    /\ outcome' = "None"
    /\ StartRestored \/ \E expiry \in Times : StartBlank(expiry)

-----------------------------------------------------------------------------

Init ==
    /\ accepting = TRUE
    /\ binding = 1 /\ granted = 1 /\ bootGrant = 1
    /\ leaseExpiry \in Times
    /\ policy = InitialPolicy /\ stated = InitialPolicy.generation
    /\ prior = "Unknown" /\ clean = 0
    /\ interventions = <<>> /\ next = 1 /\ revalidate = TRUE
    /\ outcome = "None"

Next ==
    \/ Refuse
    \/ \E e \in Evidence : Evaluate(e)
    \/ \E p \in Policies : ConfigurePolicy(p)
    \/ \E n \in {granted, granted + 1}, expiry \in Times :
         n <= MaxGrants /\ Bind(n, expiry)
    \/ \E k \in DOMAIN interventions : Retire(k)
    \/ Shutdown
    \/ Reset
    \/ Restart

Spec == Init /\ [][Next]_vars

-----------------------------------------------------------------------------
(* Properties. *)

Interventions(table_) == {table_[k] : k \in DOMAIN table_}

InterventionType ==
    [id : 1..MaxIssued, state : LiveStates \cup SettledStates, binding : 1..MaxGrants,
     policy : {p.generation : p \in Policies},
     expires : {t + Duration : t \in Times}, level : UNION {0..l : l \in Levels}]

IsTable(table_) ==
    /\ DOMAIN table_ = 1..Len(table_) /\ Len(table_) <= MaxInterventions
    /\ Interventions(table_) \subseteq InterventionType

(* Every variable has its type.  The tables never outgrow their bounds.    *)
TypeOK ==
    /\ accepting \in BOOLEAN /\ revalidate \in BOOLEAN
    /\ binding \in 0..granted /\ leaseExpiry \in Times \cup {0}
    /\ policy \in Policies /\ stated \in {p.generation : p \in Policies}
    /\ prior \in Kinds \cup {"Unknown"} /\ clean \in 0..MaxClean
    /\ IsTable(interventions) /\ next \in 1..(MaxIssued + 1)
    /\ outcome \in Outcomes
    /\ granted \in 1..MaxGrants /\ bootGrant \in 1..granted

(* A destination has one live intervention, and no two interventions share *)
(* an identity, across trimming, restarts from an older state and policy   *)
(* changes: evaluate() creates one only when it finds none alive, and      *)
(* next_intervention_generation comes back with the state it belongs to.   *)
OneLiveIntervention ==
    \A j, k \in DOMAIN interventions :
      /\ interventions[j].id < next
      /\ j # k => /\ interventions[j].id # interventions[k].id
                  /\ ~(IsLive(interventions[j]) /\ IsLive(interventions[k]))

(* An intervention that was live when the worker process died is never in  *)
(* force again: restore_state() only ever leaves it revalidating, and      *)
(* is_fenced() finds the previous boot's grant before evidence can         *)
(* revalidate it.                                                          *)
NothingEnforcedFromEarlierBoot ==
    \A i \in Interventions(interventions) :
      i.state \in Enforced => i.binding >= bootGrant

(* requires_revalidation stays set until every intervention has left       *)
(* Revalidating, whichever of the calls brought it there                   *)
(* (docs/ARCHITECTURE.md, the table of restored state).                    *)
RevalidationIsFlagged ==
    (\E i \in Interventions(interventions) : i.state = "Revalidating") => revalidate

(* After shutdown() nothing is live, and no call short of reset() brings   *)
(* an intervention to life.                                                *)
NothingLiveAfterShutdown == accepting \/ ~HasLive

(* While an intervention is live, the last window of the history counts as *)
(* an incident or as the recovery from one: evaluate() never forgets the   *)
(* incident under a live intervention.  (So a window that leaves a         *)
(* revalidating intervention to the branch "revalidation found no          *)
(* incident" does not exist.)                                              *)
LiveFollowsIncident == HasLive => prior \in Incident \cup {"Recovery"}

(* A decision that issues, continues or relaxes an intervention is made    *)
(* for an intervention of the bound grant, at a time at which the lease,   *)
(* and the intervention itself, had not lapsed.  (The intervention now     *)
(* ends Duration after the decision.)                                      *)
EnforcedByItsOwner ==
    [][outcome' \in {"Issued", "Continued", "Relaxed"} =>
         \A i \in Interventions(interventions') : IsLive(i) =>
           /\ i.binding = binding
           /\ i.expires - Duration <= leaseExpiry
           /\ \A old \in Interventions(interventions) :
                old.id = i.id => i.expires - Duration <= old.expires]_vars

(* A retired or fenced intervention stays so until it is forgotten: no     *)
(* evidence, policy or grant revives it.  A restart goes back to the saved *)
(* state, and reset() starts the numbering over.                           *)
SettledIsFinal ==
    [][bootGrant' = bootGrant /\ next <= next' =>
         \A i \in Interventions(interventions), j \in Interventions(interventions') :
           (i.id = j.id /\ ~IsLive(i)) => j.state = i.state]_vars

(* An evaluation weakens an intervention only after the dwell: while the   *)
(* last recorded window counts as an incident, a window that relaxes or    *)
(* retires ends a run of at least min_dwell_windows clean ones.            *)
RelaxesOnlyAfterDwell ==
    [][outcome' \in {"Relaxed", "Retired"} /\ prior \in Incident =>
         clean + 1 >= policy.dwell]_vars

Lifecycle == INSTANCE Enforcement WITH
    life <- IF HasLive THEN Live.state ELSE "None",
    strength <- IF HasLive THEN Live.level ELSE 0,
    alarmed <- prior \in Incident,
    calm <- clean,
    dwell <- policy.dwell

(* Seen from its destination, the engine is Enforcement: whatever grants,  *)
(* clocks, the table and its trimming do, the live intervention comes to   *)
(* life, into force, is eased and ended only as Enforcement says, and each *)
(* for its reason.                                                         *)
ImplementsEnforcement == Lifecycle!Spec

(* An evaluation weakens an intervention only when evaluate_recovery()     *)
(* permits it, which takes required_clean_windows clean windows in a row   *)
(* ("Relaxation requires an explicit recovery policy and a sustained clean *)
(* streak", lifecycle.hpp).  The code violates it: synthesize() never      *)
(* reads recovery_relaxation_permitted.                                    *)
RelaxesOnlyWhenPermitted ==
    [][outcome' \in {"Relaxed", "Retired"} => clean' >= policy.clean]_vars

(* An intervention in force was issued, or revalidated, under the          *)
(* generation of the configured policy ("A generation change invalidates   *)
(* live interventions", governor.hpp).  The code violates it: after a      *)
(* restore configure_policy() compares with the generation of the restored *)
(* state and not with the policy it replaces.                              *)
EnforcedUnderConfiguredPolicy ==
    \A i \in Interventions(interventions) :
      i.state \in Enforced => i.policy = policy.generation

=============================================================================
