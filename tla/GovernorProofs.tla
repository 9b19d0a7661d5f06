----------------------------- MODULE GovernorProofs -----------------------------
(***************************************************************************)
(* The safety of the governance engine, for every policy, duration, table  *)
(* bound and number of grants.  The properties of Governor are inductive   *)
(* together with one fact none of them states: a bound authority is one    *)
(* that the running process was granted.                                   *)
(***************************************************************************)
EXTENDS Governor, TLAPS

(* bind_authority() and the constructor only ever take a grant of this     *)
(* boot, and restore_state() takes none.                                   *)
BoundSinceBoot == binding # Unbound => binding >= bootGrant

IInv ==
    /\ TypeOK
    /\ interventions \in Seq(InterventionType)
    /\ OneLiveIntervention
    /\ BoundSinceBoot
    /\ NothingEnforcedFromEarlierBoot
    /\ RevalidationIsFlagged
    /\ NothingLiveAfterShutdown
    /\ LiveFollowsIncident

-----------------------------------------------------------------------------
(* Tables. *)

(* u has the interventions of t, and none of them came to life. *)
Rewrites(t, u) ==
    /\ u \in Seq(InterventionType)
    /\ Len(u) = Len(t)
    /\ \A k \in 1..Len(t) :
         /\ u[k].id = t[k].id /\ u[k].binding = t[k].binding
         /\ IsLive(u[k]) => IsLive(t[k])

LEMMA MovingLiveRewrites ==
    ASSUME NEW t \in Seq(InterventionType), NEW s \in LiveStates \cup SettledStates
    PROVE  /\ Rewrites(t, MovingLive(t, s))
           /\ \A k \in 1..Len(t) :
                IsLive(MovingLive(t, s)[k]) => MovingLive(t, s)[k].state = s
<1> DEFINE u == MovingLive(t, s)
<1>1. DOMAIN t = 1..Len(t) /\ \A k \in 1..Len(t) : t[k] \in InterventionType
  OBVIOUS
<1>2. \A k \in 1..Len(t) :
        u[k] = IF IsLive(t[k]) THEN [t[k] EXCEPT !.state = s] ELSE t[k]
  BY <1>1 DEF MovingLive
<1>3. \A i \in InterventionType : [i EXCEPT !.state = s] \in InterventionType
  BY DEF InterventionType
<1>8. \A k \in 1..Len(t) : u[k] \in InterventionType
  BY <1>1, <1>2, <1>3
<1>4. u = [k \in 1..Len(t) |-> u[k]]
  BY <1>1 DEF MovingLive
<1> HIDE DEF u
<1>5. u \in Seq(InterventionType) /\ Len(u) = Len(t)
  BY <1>8, <1>4
<1>6. \A k \in 1..Len(t) :
        /\ u[k].id = t[k].id /\ u[k].binding = t[k].binding
        /\ IsLive(u[k]) => IsLive(t[k]) /\ u[k].state = s
  BY <1>1, <1>2 DEF InterventionType
<1> QED
  BY <1>5, <1>6 DEF Rewrites, u

(* The same intervention in another state, with another expiry, level or   *)
(* policy.                                                                 *)
LEMMA ReplacingRewrites ==
    ASSUME NEW t \in Seq(InterventionType), NEW j \in 1..Len(t),
           NEW i \in InterventionType, IsLive(t[j]),
           i.id = t[j].id, i.binding = t[j].binding
    PROVE  /\ Rewrites(t, [t EXCEPT ![j] = i])
           /\ \A k \in 1..Len(t) :
                [t EXCEPT ![j] = i][k] = IF k = j THEN i ELSE t[k]
  BY DEF Rewrites

LEMMA ItselfRewrites ==
    ASSUME NEW t \in Seq(InterventionType)
    PROVE  Rewrites(t, t)
  BY DEF Rewrites

LEMMA RewriteKeepsTable ==
    ASSUME IInv, Rewrites(interventions, interventions'), next' = next
    PROVE  /\ interventions' \in Seq(InterventionType)
           /\ IsTable(interventions)'
           /\ OneLiveIntervention'
           /\ (HasLive' => HasLive)
<1>1. /\ interventions \in Seq(InterventionType) /\ Len(interventions) <= MaxInterventions
      /\ OneLiveIntervention
  BY DEF IInv, TypeOK, IsTable
<1>2. /\ interventions' \in Seq(InterventionType)
      /\ DOMAIN interventions' = DOMAIN interventions
      /\ DOMAIN interventions = 1..Len(interventions)
      /\ Len(interventions') = Len(interventions)
  BY <1>1 DEF Rewrites
<1>3. \A k \in DOMAIN interventions :
        /\ interventions'[k].id = interventions[k].id
        /\ IsLive(interventions'[k]) => IsLive(interventions[k])
  BY <1>2 DEF Rewrites
<1>4. IsTable(interventions)'
  BY <1>1, <1>2 DEF IsTable, Interventions
<1>5. OneLiveIntervention'
  BY <1>1, <1>2, <1>3 DEF OneLiveIntervention
<1>6. HasLive' => HasLive
  BY <1>2, <1>3 DEF HasLive
<1> QED
  BY <1>2, <1>4, <1>5, <1>6

LEMMA OnlyOneIsLive ==
    ASSUME IInv, HasLive
    PROVE  /\ LiveAt \in 1..Len(interventions)
           /\ Live \in InterventionType /\ IsLive(Live)
           /\ \A k \in 1..Len(interventions) : IsLive(interventions[k]) => k = LiveAt
<1>1. interventions \in Seq(InterventionType) /\ OneLiveIntervention
  BY DEF IInv
<1>2. DOMAIN interventions = 1..Len(interventions)
  BY <1>1
<1>3. PICK k \in DOMAIN interventions : IsLive(interventions[k])
  BY DEF HasLive
<1>4. \A j \in DOMAIN interventions : IsLive(interventions[j]) => j = k
  BY <1>1, <1>3 DEF OneLiveIntervention
<1>5. \A j \in DOMAIN interventions : IsLive(interventions[j]) => k <= j
  BY <1>2, <1>4
<1>6. LiveAt \in DOMAIN interventions /\ IsLive(interventions[LiveAt])
  BY <1>3, <1>5 DEF LiveAt
<1> QED
  BY <1>1, <1>2, <1>4, <1>6 DEF Live

-----------------------------------------------------------------------------
(* Evaluations. *)

LEMMA KindIsKnown ==
    ASSUME IInv, NEW e \in Evidence
    PROVE  /\ Kind(e) \in Kinds \cup {"Unknown"}
           /\ Counted(e) \in 0..MaxClean
           /\ HasLive => Kind(e) \in Incident \cup {"Recovery"}
<1>1. /\ e.kind \in Kinds \cup {"Unknown"}
      /\ prior \in Kinds \cup {"Unknown"}
      /\ clean \in 0..MaxClean /\ MaxClean \in Nat \ {0}
  BY BoundsAssumption DEF IInv, TypeOK, Evidence
<1>2. HasLive => prior \in Incident \cup {"Recovery"}
  BY DEF IInv, LiveFollowsIncident
<1>3. Kind(e) \in {prior, "Recovery", e.kind}
  BY DEF Kind, Held
<1>4. HasLive /\ Kind(e) \notin {prior, "Recovery"} => Kind(e) \in Incident
  BY DEF Kind, Held
<1>5. Counted(e) \in 0..MaxClean
  BY <1>1 DEF Counted
<1> QED
  BY <1>1, <1>2, <1>3, <1>4, <1>5 DEF Kinds

LEMMA EvidenceIsTyped ==
    ASSUME IInv, NEW e \in Evidence
    PROVE  /\ e.grant \in 1..granted /\ e.now \in Times
           /\ ~Refused(e) => accepting /\ binding = e.grant /\ e.now <= leaseExpiry
<1>1. e.grant \in 1..granted /\ e.now \in Times
  BY DEF Evidence
<1>2. e.now \in Nat /\ leaseExpiry \in Nat
  <2>1. Times \subseteq Nat
    BY BoundsAssumption
  <2>2. leaseExpiry \in Times \/ leaseExpiry = 0
    BY DEF IInv, TypeOK
  <2>3. e.now \in Nat
    BY <1>1, <2>1
  <2>4. leaseExpiry \in Nat
    <3>1. CASE leaseExpiry \in Times
      BY <2>1, <3>1
    <3>2. CASE leaseExpiry = 0
      BY <3>2
    <3> QED
      BY <2>2, <3>1, <3>2
  <2> QED
    BY <2>3, <2>4
<1>3. ~Refused(e) => accepting /\ binding = e.grant /\ ~(e.now > leaseExpiry)
  BY DEF Refused
<1> QED
  BY <1>1, <1>2, <1>3

(* An evaluation that rewrites the table keeps the invariant, provided     *)
(* that it leaves nothing of an earlier boot in force.                     *)
LEMMA RewritingKeepsIInv ==
    ASSUME IInv, NEW e \in Evidence, ~Refused(e), Recorded(e),
           outcome' \in Outcomes, next' = next,
           Rewrites(interventions, interventions'),
           \A k \in 1..Len(interventions) :
             interventions'[k].state \in Enforced => interventions'[k].binding >= bootGrant
    PROVE  IInv'
<1>1. /\ interventions' \in Seq(InterventionType)
      /\ IsTable(interventions)'
      /\ OneLiveIntervention'
      /\ (HasLive' => HasLive)
  BY RewriteKeepsTable
<1>2. /\ prior' = Kind(e) /\ clean' = Counted(e)
      /\ UNCHANGED <<accepting, binding, leaseExpiry, policy, stated, granted, bootGrant>>
  BY DEF Recorded, authority, config, process
<1>3. revalidate' = \E k \in DOMAIN interventions' :
                      interventions'[k].state = "Revalidating"
  BY DEF Recorded
<1>4. TypeOK'
  BY <1>1, <1>2, <1>3, KindIsKnown DEF IInv, TypeOK
<1>5. BoundSinceBoot'
  BY <1>2 DEF IInv, BoundSinceBoot
<1>6. NothingEnforcedFromEarlierBoot'
  BY <1>1, <1>2 DEF NothingEnforcedFromEarlierBoot, Interventions, Rewrites
<1>7. RevalidationIsFlagged'
  BY <1>3 DEF RevalidationIsFlagged, Interventions
<1>8. NothingLiveAfterShutdown'
  BY <1>2, EvidenceIsTyped DEF NothingLiveAfterShutdown
<1>9. LiveFollowsIncident'
  BY <1>1, <1>2, KindIsKnown DEF LiveFollowsIncident
<1> QED
  BY <1>1, <1>4, <1>5, <1>6, <1>7, <1>8, <1>9 DEF IInv

(* The invariant of a step that changes the outcome only. *)
LEMMA RefuseKeepsIInv ==
    ASSUME IInv, Refuse
    PROVE  IInv'
<1>1. /\ outcome' = "Refused"
      /\ UNCHANGED <<accepting, binding, leaseExpiry, policy, stated, prior, clean,
                     interventions, next, revalidate, granted, bootGrant>>
  BY DEF Refuse, authority, config, streaks, table, process
<1> QED
  BY <1>1 DEF IInv, TypeOK, IsTable, Interventions, OneLiveIntervention, BoundSinceBoot,
              NothingEnforcedFromEarlierBoot, RevalidationIsFlagged,
              NothingLiveAfterShutdown, LiveFollowsIncident, HasLive, Outcomes

(* What the live intervention becomes. *)
LEMMA LiveBecomes ==
    ASSUME IInv, HasLive, NEW i \in InterventionType,
           i.id = Live.id, i.binding = Live.binding,
           interventions' = [interventions EXCEPT ![LiveAt] = i]
    PROVE  /\ Rewrites(interventions, interventions')
           /\ \A k \in 1..Len(interventions) :
                interventions'[k] = IF k = LiveAt THEN i ELSE interventions[k]
           /\ (i.state \in Enforced => i.binding >= bootGrant)
              => \A k \in 1..Len(interventions) :
                   interventions'[k].state \in Enforced
                     => interventions'[k].binding >= bootGrant
<1>1. /\ LiveAt \in 1..Len(interventions) /\ IsLive(interventions[LiveAt])
      /\ interventions \in Seq(InterventionType)
      /\ i.id = interventions[LiveAt].id /\ i.binding = interventions[LiveAt].binding
  BY OnlyOneIsLive DEF IInv, Live
<1>2. /\ Rewrites(interventions, interventions')
      /\ \A k \in 1..Len(interventions) :
           interventions'[k] = IF k = LiveAt THEN i ELSE interventions[k]
  BY <1>1, ReplacingRewrites, Zenon
<1>3. \A k \in 1..Len(interventions) :
        interventions[k].state \in Enforced => interventions[k].binding >= bootGrant
  BY <1>1 DEF IInv, NothingEnforcedFromEarlierBoot, Interventions
<1> QED
  BY <1>2, <1>3

LEMMA FenceKeepsIInv ==
    ASSUME IInv, NEW e \in Evidence, ~Refused(e), Fence(e)
    PROVE  IInv'
<1> DEFINE i == [Live EXCEPT !.state = "Fenced"]
<1>1. /\ ~Refused(e) /\ HasLive
      /\ interventions' = [interventions EXCEPT ![LiveAt].state = "Fenced"]
      /\ clean' = Counted(e) /\ revalidate' = TRUE /\ outcome' = "Fenced"
      /\ UNCHANGED <<accepting, binding, leaseExpiry, policy, stated, prior, next,
                     granted, bootGrant>>
  BY DEF Fence, authority, config, process
<1>2. i \in InterventionType /\ i.id = Live.id /\ i.binding = Live.binding
      /\ i.state = "Fenced"
  BY <1>1, OnlyOneIsLive DEF InterventionType, SettledStates
<1>3. interventions' = [interventions EXCEPT ![LiveAt] = i]
  BY <1>1 DEF Live
<1> HIDE DEF i
<1>4. /\ Rewrites(interventions, interventions')
      /\ \A k \in 1..Len(interventions) :
           interventions'[k].state \in Enforced => interventions'[k].binding >= bootGrant
  BY <1>1, <1>2, <1>3, LiveBecomes DEF Enforced
<1>5. /\ interventions' \in Seq(InterventionType)
      /\ IsTable(interventions)'
      /\ OneLiveIntervention'
      /\ (HasLive' => HasLive)
  BY <1>1, <1>4, RewriteKeepsTable
<1>6. TypeOK'
  BY <1>1, <1>5, KindIsKnown DEF IInv, TypeOK, Outcomes
<1>7. NothingEnforcedFromEarlierBoot'
  <2>1. DOMAIN interventions' = 1..Len(interventions)
    BY <1>4, <1>5 DEF Rewrites
  <2> QED
    BY <1>1, <1>4, <2>1 DEF NothingEnforcedFromEarlierBoot, Interventions
<1>8. /\ BoundSinceBoot' /\ RevalidationIsFlagged'
      /\ NothingLiveAfterShutdown' /\ LiveFollowsIncident'
  BY <1>1, <1>5 DEF IInv, BoundSinceBoot, RevalidationIsFlagged,
                    NothingLiveAfterShutdown, LiveFollowsIncident
<1> QED
  BY <1>5, <1>6, <1>7, <1>8 DEF IInv

(* A time of the evidence gives an expiry. *)
LEMMA ExpiryIsTyped ==
    ASSUME NEW e \in Evidence
    PROVE  e.now + Duration \in {t + Duration : t \in Times}
  BY DEF Evidence

LEMMA LevelIsTyped ==
    ASSUME NEW level \in Levels
    PROVE  level \in UNION {0..l : l \in Levels}
<1>1. level \in 0..level
  BY BoundsAssumption
<1> QED
  BY <1>1

LEMMA LoweredIsTyped ==
    ASSUME NEW l \in UNION {0..n : n \in Levels}, l > 1
    PROVE  l - 1 \in UNION {0..n : n \in Levels}
<1>1. PICK n \in Levels : l \in 0..n
  OBVIOUS
<1>2. l - 1 \in 0..n
  BY <1>1, BoundsAssumption
<1> QED
  BY <1>2

LEMMA HoldBackKeepsIInv ==
    ASSUME IInv, NEW e \in Evidence, ~Refused(e), HoldBack(e)
    PROVE  IInv'
<1> DEFINE i == [Live EXCEPT !.expires = e.now + Duration]
<1>1. /\ ~Refused(e) /\ HasLive /\ ~Fenced(e)
      /\ interventions' = [interventions EXCEPT ![LiveAt].expires = e.now + Duration]
      /\ Recorded(e) /\ outcome' = "Continued" /\ next' = next
  BY DEF HoldBack, HeldBack
<1>2. i \in InterventionType /\ i.id = Live.id /\ i.binding = Live.binding
  BY <1>1, OnlyOneIsLive, ExpiryIsTyped DEF InterventionType
<1>3. interventions' = [interventions EXCEPT ![LiveAt] = i]
  BY <1>1 DEF Live
<1>4. i.binding >= bootGrant
  <2>1. Live.binding = binding /\ binding = e.grant /\ e.grant \in 1..granted
    BY <1>1, EvidenceIsTyped DEF Fenced
  <2> QED
    BY <1>2, <2>1 DEF IInv, BoundSinceBoot, Unbound
<1> HIDE DEF i
<1>5. /\ Rewrites(interventions, interventions')
      /\ \A k \in 1..Len(interventions) :
           interventions'[k].state \in Enforced => interventions'[k].binding >= bootGrant
  BY <1>1, <1>2, <1>3, <1>4, LiveBecomes
<1> QED
  BY <1>1, <1>5, RewritingKeepsIInv DEF Outcomes

LEMMA ContinueKeepsIInv ==
    ASSUME IInv, NEW e \in Evidence, ~Refused(e), NEW level \in Levels, Continue(e, level)
    PROVE  IInv'
<1> DEFINE i == [Live EXCEPT !.state = "Active", !.expires = e.now + Duration,
                             !.level = level]
<1>1. /\ ~Refused(e) /\ HasLive /\ ~Fenced(e)
      /\ interventions' = [interventions EXCEPT ![LiveAt] =
           [@ EXCEPT !.state = "Active", !.expires = e.now + Duration, !.level = level]]
      /\ Recorded(e) /\ outcome' = "Continued" /\ next' = next
  BY DEF Continue, Synthesised
<1>2. i \in InterventionType /\ i.id = Live.id /\ i.binding = Live.binding
  BY <1>1, OnlyOneIsLive, ExpiryIsTyped, LevelIsTyped DEF InterventionType, LiveStates
<1>3. interventions' = [interventions EXCEPT ![LiveAt] = i]
  BY <1>1 DEF Live
<1>4. i.binding >= bootGrant
  <2>1. Live.binding = binding /\ binding = e.grant /\ e.grant \in 1..granted
    BY <1>1, EvidenceIsTyped DEF Fenced
  <2> QED
    BY <1>2, <2>1 DEF IInv, BoundSinceBoot, Unbound
<1> HIDE DEF i
<1>5. /\ Rewrites(interventions, interventions')
      /\ \A k \in 1..Len(interventions) :
           interventions'[k].state \in Enforced => interventions'[k].binding >= bootGrant
  BY <1>1, <1>2, <1>3, <1>4, LiveBecomes
<1> QED
  BY <1>1, <1>5, RewritingKeepsIInv DEF Outcomes

LEMMA RelaxKeepsIInv ==
    ASSUME IInv, NEW e \in Evidence, ~Refused(e), Relax(e)
    PROVE  IInv'
<1> DEFINE i == Lowered(Live, e.now)
<1>1. /\ ~Refused(e) /\ HasLive /\ ~Fenced(e) /\ Live.level > 1
      /\ Recorded(e) /\ outcome' = "Relaxed" /\ next' = next
  BY DEF Relax, Recovering, Synthesised
<1>2. i \in InterventionType /\ i.id = Live.id /\ i.binding = Live.binding
  <2>1. Live \in InterventionType /\ Live.level \in UNION {0..n : n \in Levels}
    BY <1>1, OnlyOneIsLive DEF InterventionType
  <2>2. Live.level - 1 \in UNION {0..n : n \in Levels}
    BY <1>1, <2>1, LoweredIsTyped
  <2> QED
    BY <2>1, <2>2, ExpiryIsTyped DEF Lowered, InterventionType, LiveStates
<1>3. interventions' = [interventions EXCEPT ![LiveAt] = i]
  BY DEF Relax
<1>4. i.binding >= bootGrant
  <2>1. Live.binding = binding /\ binding = e.grant /\ e.grant \in 1..granted
    BY <1>1, EvidenceIsTyped DEF Fenced
  <2> QED
    BY <1>2, <2>1 DEF IInv, BoundSinceBoot, Unbound
<1> HIDE DEF i
<1>5. /\ Rewrites(interventions, interventions')
      /\ \A k \in 1..Len(interventions) :
           interventions'[k].state \in Enforced => interventions'[k].binding >= bootGrant
  BY <1>1, <1>2, <1>3, <1>4, LiveBecomes
<1> QED
  BY <1>1, <1>5, RewritingKeepsIInv DEF Outcomes

(* The live intervention retires. *)
LEMMA RetiringKeepsIInv ==
    ASSUME IInv, NEW e \in Evidence, ~Refused(e), HasLive, Recorded(e),
           interventions' = [interventions EXCEPT ![LiveAt].state = "Retired"],
           outcome' = "Retired", next' = next
    PROVE  IInv'
<1> DEFINE i == [Live EXCEPT !.state = "Retired"]
<1>1. i \in InterventionType /\ i.id = Live.id /\ i.binding = Live.binding
      /\ i.state = "Retired"
  BY OnlyOneIsLive DEF InterventionType, SettledStates
<1>2. interventions' = [interventions EXCEPT ![LiveAt] = i]
  BY DEF Live
<1> HIDE DEF i
<1>3. /\ Rewrites(interventions, interventions')
      /\ \A k \in 1..Len(interventions) :
           interventions'[k].state \in Enforced => interventions'[k].binding >= bootGrant
  BY <1>1, <1>2, LiveBecomes DEF Enforced
<1> QED
  BY <1>3, RewritingKeepsIInv DEF Outcomes

LEMMA DeclineKeepsIInv ==
    ASSUME IInv, NEW e \in Evidence, ~Refused(e), Decline(e)
    PROVE  IInv'
<1>1. ~Refused(e) /\ Recorded(e) /\ next' = next
  BY DEF Decline, Synthesised
<1>2. CASE /\ HasLive
           /\ interventions' = [interventions EXCEPT ![LiveAt].state = "Retired"]
           /\ outcome' = "Retired"
  BY <1>1, <1>2, RetiringKeepsIInv
<1>3. CASE interventions' = interventions /\ outcome' = "NoAction"
  <2>1. /\ interventions \in Seq(InterventionType)
        /\ \A k \in 1..Len(interventions) :
             interventions[k].state \in Enforced => interventions[k].binding >= bootGrant
    BY DEF IInv, NothingEnforcedFromEarlierBoot, Interventions
  <2>2. /\ Rewrites(interventions, interventions')
        /\ \A k \in 1..Len(interventions) :
             interventions'[k].state \in Enforced => interventions'[k].binding >= bootGrant
    BY <1>3, <2>1, ItselfRewrites
  <2> QED
    BY <1>1, <1>3, <2>2, RewritingKeepsIInv DEF Outcomes
<1> QED
  BY <1>2, <1>3 DEF Decline

(* A new intervention enters the table; trimming turns the table around    *)
(* but loses neither the new intervention's identity nor the others'.      *)
LEMMA IssuedTable ==
    ASSUME IInv, ~HasLive, NEW i \in InterventionType, i.id = next, IsLive(i),
           interventions' = Trimmed(Append(interventions, i)), next' = next + 1
    PROVE  /\ interventions' \in Seq(InterventionType)
           /\ IsTable(interventions)'
           /\ OneLiveIntervention'
           /\ \A j \in DOMAIN interventions' :
                \/ interventions'[j] = i
                \/ /\ ~IsLive(interventions'[j])
                   /\ \E k \in DOMAIN interventions : interventions'[j] = interventions[k]
<1> DEFINE t == Append(interventions, i)
           n == Len(interventions)
           at(j) == IF Len(t) <= MaxInterventions THEN j ELSE Len(t) + 1 - j
<1>1. /\ interventions \in Seq(InterventionType) /\ n <= MaxInterventions
      /\ n \in Nat /\ DOMAIN interventions = 1..n
      /\ MaxInterventions \in Nat \ {0}
      /\ next \in Nat
      /\ \A k \in 1..n : interventions[k] \in InterventionType
  BY BoundsAssumption DEF IInv, TypeOK, IsTable
<1>2. /\ t \in Seq(InterventionType) /\ Len(t) = n + 1
      /\ t[n + 1] = i /\ \A k \in 1..n : t[k] = interventions[k]
  BY <1>1
<1>3. \A k \in 1..n : interventions[k].id < next /\ interventions[k].id # i.id
  BY <1>1 DEF IInv, OneLiveIntervention, InterventionType
<1>4. \A j, k \in 1..(n + 1) : j # k => t[j].id # t[k].id
  <2>1. \A j, k \in 1..n : j # k => interventions[j].id # interventions[k].id
    BY <1>1 DEF IInv, OneLiveIntervention
  <2> QED
    BY <1>1, <1>2, <1>3, <2>1
<1>5. \A k \in 1..n : ~IsLive(interventions[k])
  BY <1>1 DEF HasLive
<1> HIDE DEF t, n
<1>6. /\ interventions' \in Seq(InterventionType)
      /\ Len(interventions') <= MaxInterventions
      /\ DOMAIN interventions' = 1..Len(interventions')
      /\ Len(interventions') <= n + 1
      /\ \A j \in 1..Len(interventions') :
           at(j) \in 1..(n + 1) /\ interventions'[j] = t[at(j)]
  <2>1. interventions' = Trimmed(t)
    BY DEF t
  <2>2. CASE Len(t) <= MaxInterventions
    BY <1>1, <1>2, <2>1, <2>2 DEF Trimmed
  <2>3. CASE ~(Len(t) <= MaxInterventions)
    <3>1. /\ interventions' = [k \in 1..MaxInterventions |-> t[Len(t) + 1 - k]]
          /\ n = MaxInterventions
      BY <1>1, <1>2, <2>1, <2>3 DEF Trimmed
    <3>2. \A k \in 1..MaxInterventions :
            Len(t) + 1 - k \in 1..(n + 1) /\ t[Len(t) + 1 - k] \in InterventionType
      BY <1>1, <1>2, <3>1
    <3>3. /\ interventions' \in Seq(InterventionType)
          /\ Len(interventions') = MaxInterventions
      BY <1>1, <3>1, <3>2
    <3> QED
      BY <1>1, <1>2, <2>3, <3>1, <3>2, <3>3
  <2> QED
    BY <2>2, <2>3
<1>7. \A j, k \in 1..Len(interventions') : j # k => at(j) # at(k)
  BY <1>1, <1>2
<1> HIDE DEF at
<1>8. /\ IsTable(interventions)'
      /\ \A j \in 1..Len(interventions') : interventions'[j] \in InterventionType
  BY <1>6 DEF IsTable, Interventions
<1>9. \A j \in 1..Len(interventions') :
        \/ interventions'[j] = i /\ at(j) = n + 1
        \/ at(j) \in 1..n /\ interventions'[j] = interventions[at(j)]
  BY <1>1, <1>2, <1>6
<1>10. OneLiveIntervention'
  <2>1. \A j \in 1..Len(interventions') : interventions'[j].id < next'
    BY <1>1, <1>3, <1>9 DEF InterventionType
  <2>2. \A j, k \in 1..Len(interventions') :
          j # k => interventions'[j].id # interventions'[k].id
    BY <1>4, <1>6, <1>7
  <2>3. \A j, k \in 1..Len(interventions') :
          j # k => ~(IsLive(interventions'[j]) /\ IsLive(interventions'[k]))
    BY <1>5, <1>7, <1>9
  <2> QED
    BY <1>6, <2>1, <2>2, <2>3 DEF OneLiveIntervention
<1> QED
  BY <1>1, <1>5, <1>6, <1>8, <1>9, <1>10

LEMMA IssueKeepsIInv ==
    ASSUME IInv, NEW e \in Evidence, ~Refused(e), NEW level \in Levels, Issue(e, level)
    PROVE  IInv'
<1> DEFINE i == [id |-> next, state |-> "Active", binding |-> e.grant,
                 policy |-> policy.generation, expires |-> e.now + Duration,
                 level |-> level]
<1>1. /\ ~Refused(e) /\ ~HasLive /\ Kind(e) \in Incident /\ next <= MaxIssued
      /\ interventions' = Trimmed(Append(interventions, i))
      /\ next' = next + 1 /\ outcome' = "Issued" /\ Recorded(e)
  BY DEF Issue, Synthesised
<1>2. /\ next \in 1..MaxIssued /\ next' \in 1..(MaxIssued + 1)
      /\ e.grant \in 1..MaxGrants
      /\ policy.generation \in {p.generation : p \in Policies}
      /\ MaxIssued \in Nat
  BY <1>1, EvidenceIsTyped, BoundsAssumption DEF IInv, TypeOK
<1>3. i \in InterventionType
  BY <1>2, ExpiryIsTyped, LevelIsTyped DEF InterventionType, LiveStates
<1>4. i.id = next /\ IsLive(i) /\ i.state = "Active" /\ i.binding = e.grant
  BY DEF IsLive, LiveStates
<1> HIDE DEF i
<1>5. /\ interventions' \in Seq(InterventionType)
      /\ IsTable(interventions)'
      /\ OneLiveIntervention'
      /\ \A j \in DOMAIN interventions' :
           \/ interventions'[j] = i
           \/ /\ ~IsLive(interventions'[j])
              /\ \E k \in DOMAIN interventions : interventions'[j] = interventions[k]
  BY <1>1, <1>3, <1>4, IssuedTable
<1>6. /\ prior' = Kind(e) /\ clean' = Counted(e)
      /\ UNCHANGED <<accepting, binding, leaseExpiry, policy, stated, granted, bootGrant>>
      /\ revalidate' = \E k \in DOMAIN interventions' :
                         interventions'[k].state = "Revalidating"
  BY <1>1 DEF Recorded, authority, config, process
<1>7. TypeOK'
  BY <1>1, <1>2, <1>5, <1>6, KindIsKnown DEF IInv, TypeOK, Outcomes
<1>8. NothingEnforcedFromEarlierBoot'
  <2>1. i.binding >= bootGrant
    BY <1>1, <1>2, <1>4, EvidenceIsTyped DEF IInv, BoundSinceBoot, Unbound
  <2>2. \A j \in DOMAIN interventions' :
          interventions'[j].state \in Enforced => interventions'[j] = i
    BY <1>5 DEF IsLive, Enforced, LiveStates
  <2> QED
    BY <1>6, <2>1, <2>2 DEF NothingEnforcedFromEarlierBoot, Interventions
<1>9. /\ BoundSinceBoot' /\ RevalidationIsFlagged' /\ LiveFollowsIncident'
  BY <1>1, <1>6 DEF IInv, BoundSinceBoot, RevalidationIsFlagged, LiveFollowsIncident,
                    Interventions
<1>10. NothingLiveAfterShutdown'
  BY <1>1, <1>6, EvidenceIsTyped DEF NothingLiveAfterShutdown
<1> QED
  BY <1>5, <1>7, <1>8, <1>9, <1>10 DEF IInv

LEMMA EvaluateKeepsIInv ==
    ASSUME IInv, NEW e \in Evidence, Evaluate(e)
    PROVE  IInv'
<1>1. ~Refused(e)
  BY DEF Evaluate
<1>2. CASE Fence(e)
  BY <1>1, <1>2, FenceKeepsIInv
<1>3. CASE HoldBack(e)
  BY <1>1, <1>3, HoldBackKeepsIInv
<1>4. CASE \E level \in Levels : Issue(e, level) \/ Continue(e, level)
  BY <1>1, <1>4, IssueKeepsIInv, ContinueKeepsIInv
<1>5. CASE Relax(e)
  BY <1>1, <1>5, RelaxKeepsIInv
<1>6. CASE Complete(e)
  <2>1. /\ ~Refused(e) /\ HasLive /\ Recorded(e)
        /\ interventions' = [interventions EXCEPT ![LiveAt].state = "Retired"]
        /\ outcome' = "Retired" /\ next' = next
    BY <1>1, <1>6 DEF Complete, Recovering
  <2> QED
    BY <2>1, RetiringKeepsIInv
<1>7. CASE Decline(e)
  BY <1>1, <1>7, DeclineKeepsIInv
<1> QED
  BY <1>2, <1>3, <1>4, <1>5, <1>6, <1>7 DEF Evaluate

-----------------------------------------------------------------------------
(* The other methods and the restart. *)

LEMMA ConfigurePolicyKeepsIInv ==
    ASSUME IInv, NEW p \in Policies, ConfigurePolicy(p)
    PROVE  IInv'
<1>1. /\ policy' = p /\ stated' = p.generation /\ outcome' = "None"
      /\ UNCHANGED <<accepting, binding, leaseExpiry, prior, clean, next,
                     granted, bootGrant>>
  BY DEF ConfigurePolicy, authority, streaks, process
<1>2. CASE stated = p.generation
  <2>1. UNCHANGED <<interventions, revalidate>>
    BY <1>2 DEF ConfigurePolicy
  <2> QED
    BY <1>1, <2>1 DEF IInv, TypeOK, IsTable, Interventions, OneLiveIntervention,
       BoundSinceBoot, NothingEnforcedFromEarlierBoot, RevalidationIsFlagged,
       NothingLiveAfterShutdown, LiveFollowsIncident, HasLive, Outcomes
<1>3. CASE stated # p.generation
  <2>1. /\ interventions' =
             [k \in DOMAIN interventions |->
                IF IsLive(interventions[k])
                THEN [interventions[k] EXCEPT !.state = "Revalidating",
                                              !.policy = p.generation]
                ELSE interventions[k]]
        /\ revalidate' = TRUE
    BY <1>3 DEF ConfigurePolicy
  <2>2. /\ interventions \in Seq(InterventionType)
        /\ DOMAIN interventions = 1..Len(interventions)
        /\ \A k \in 1..Len(interventions) : interventions[k] \in InterventionType
    BY DEF IInv
  <2>3. \A i \in InterventionType :
          LET r == [i EXCEPT !.state = "Revalidating", !.policy = p.generation] IN
          /\ r \in InterventionType
          /\ r.id = i.id /\ r.binding = i.binding /\ r.state = "Revalidating"
    BY DEF InterventionType, LiveStates
  <2>4. /\ interventions' \in Seq(InterventionType)
        /\ Len(interventions') = Len(interventions)
    <3>1. \A k \in 1..Len(interventions) : interventions'[k] \in InterventionType
      BY <2>1, <2>2, <2>3
    <3>2. interventions' = [k \in 1..Len(interventions) |-> interventions'[k]]
      BY <2>1, <2>2
    <3> QED
      BY <3>1, <3>2
  <2>5. \A k \in 1..Len(interventions) :
          /\ interventions'[k].id = interventions[k].id
          /\ interventions'[k].binding = interventions[k].binding
          /\ IsLive(interventions'[k]) => IsLive(interventions[k])
          /\ interventions'[k].state \in Enforced => FALSE
    BY <2>1, <2>2, <2>3 DEF Enforced, IsLive, LiveStates
  <2>6. Rewrites(interventions, interventions')
    BY <2>4, <2>5 DEF Rewrites
  <2>7. /\ IsTable(interventions)' /\ OneLiveIntervention' /\ (HasLive' => HasLive)
    BY <1>1, <2>6, RewriteKeepsTable
  <2>8. TypeOK'
    BY <1>1, <2>1, <2>7 DEF IInv, TypeOK, Outcomes
  <2>9. NothingEnforcedFromEarlierBoot'
    BY <2>4, <2>5 DEF NothingEnforcedFromEarlierBoot, Interventions
  <2>10. /\ BoundSinceBoot' /\ RevalidationIsFlagged'
         /\ NothingLiveAfterShutdown' /\ LiveFollowsIncident'
    BY <1>1, <2>1, <2>7 DEF IInv, BoundSinceBoot, RevalidationIsFlagged,
       NothingLiveAfterShutdown, LiveFollowsIncident
  <2> QED
    BY <2>4, <2>7, <2>8, <2>9, <2>10 DEF IInv
<1> QED
  BY <1>2, <1>3

LEMMA BindKeepsIInv ==
    ASSUME IInv, NEW n \in {granted, granted + 1}, NEW expiry \in Times,
           n <= MaxGrants, Bind(n, expiry)
    PROVE  IInv'
<1>1. /\ binding' = n /\ leaseExpiry' = expiry /\ granted' = n /\ outcome' = "None"
      /\ UNCHANGED <<accepting, policy, stated, prior, clean, interventions, next,
                     revalidate, bootGrant>>
  BY DEF Bind, config, streaks, table
<1>2. /\ granted \in 1..MaxGrants /\ bootGrant \in 1..granted
      /\ MaxGrants \in Nat \ {0}
  BY BoundsAssumption DEF IInv, TypeOK
<1>3. n \in 1..MaxGrants /\ bootGrant \in 1..n /\ binding' >= bootGrant'
  BY <1>1, <1>2
<1>4. TypeOK'
  <2>1. /\ binding' \in 0..granted' /\ leaseExpiry' \in Times \cup {0}
        /\ granted' \in 1..MaxGrants /\ bootGrant' \in 1..granted'
    BY <1>1, <1>3
  <2> QED
    BY <1>1, <2>1 DEF IInv, TypeOK, IsTable, Interventions, Outcomes
<1> QED
  BY <1>1, <1>3, <1>4 DEF IInv, OneLiveIntervention, BoundSinceBoot, Interventions,
     NothingEnforcedFromEarlierBoot, RevalidationIsFlagged,
     NothingLiveAfterShutdown, LiveFollowsIncident, HasLive

LEMMA RetireKeepsIInv ==
    ASSUME IInv, NEW k \in DOMAIN interventions, Retire(k)
    PROVE  IInv'
<1> DEFINE i == [interventions[k] EXCEPT !.state = "Retired"]
<1>1. /\ IsLive(interventions[k]) /\ outcome' = "None"
      /\ interventions' = [interventions EXCEPT ![k] = i]
      /\ UNCHANGED <<accepting, binding, leaseExpiry, policy, stated, prior, clean,
                     next, revalidate, granted, bootGrant>>
  BY DEF Retire, authority, config, streaks, process
<1>2. /\ interventions \in Seq(InterventionType) /\ k \in 1..Len(interventions)
      /\ DOMAIN interventions = 1..Len(interventions)
      /\ interventions[k] \in InterventionType
  BY DEF IInv
<1>3. /\ i \in InterventionType /\ i.id = interventions[k].id
      /\ i.binding = interventions[k].binding /\ i.state = "Retired"
  BY <1>2 DEF InterventionType, SettledStates
<1> HIDE DEF i
<1>4. /\ Rewrites(interventions, interventions')
      /\ \A j \in 1..Len(interventions) :
           interventions'[j] = IF j = k THEN i ELSE interventions[j]
  BY <1>1, <1>2, <1>3, ReplacingRewrites, Zenon
<1>5. /\ interventions' \in Seq(InterventionType)
      /\ IsTable(interventions)' /\ OneLiveIntervention' /\ (HasLive' => HasLive)
  BY <1>1, <1>4, RewriteKeepsTable
<1>6. DOMAIN interventions' = 1..Len(interventions)
  BY <1>4, <1>5 DEF Rewrites
<1>7. TypeOK'
  BY <1>1, <1>5 DEF IInv, TypeOK, Outcomes
<1>8. NothingEnforcedFromEarlierBoot' /\ RevalidationIsFlagged'
  BY <1>1, <1>2, <1>3, <1>4, <1>6 DEF IInv, NothingEnforcedFromEarlierBoot,
     RevalidationIsFlagged, Interventions, Enforced
<1>9. /\ BoundSinceBoot' /\ NothingLiveAfterShutdown' /\ LiveFollowsIncident'
  BY <1>1, <1>5 DEF IInv, BoundSinceBoot, NothingLiveAfterShutdown, LiveFollowsIncident
<1> QED
  BY <1>5, <1>7, <1>8, <1>9 DEF IInv

(* What shutdown() and restore_state() do to the table. *)
LEMMA MovedTable ==
    ASSUME IInv, NEW s \in {"Retired", "Revalidating"}, next' = next,
           interventions' = MovingLive(interventions, s)
    PROVE  /\ interventions' \in Seq(InterventionType)
           /\ IsTable(interventions)' /\ OneLiveIntervention' /\ (HasLive' => HasLive)
           /\ \A i \in Interventions(interventions') : IsLive(i) => i.state = s
<1>1. interventions \in Seq(InterventionType) /\ s \in LiveStates \cup SettledStates
  BY DEF IInv, LiveStates, SettledStates
<1>2. /\ Rewrites(interventions, interventions')
      /\ \A k \in 1..Len(interventions) :
           IsLive(interventions'[k]) => interventions'[k].state = s
  BY <1>1, MovingLiveRewrites
<1>3. /\ interventions' \in Seq(InterventionType)
      /\ IsTable(interventions)' /\ OneLiveIntervention' /\ (HasLive' => HasLive)
  BY <1>2, RewriteKeepsTable
<1>4. DOMAIN interventions' = 1..Len(interventions)
  BY <1>2, <1>3 DEF Rewrites
<1> QED
  BY <1>2, <1>3, <1>4 DEF Interventions

LEMMA ShutdownKeepsIInv ==
    ASSUME IInv, Shutdown
    PROVE  IInv'
<1>1. /\ accepting' = FALSE /\ clean' = 0 /\ outcome' = "None"
      /\ interventions' = MovingLive(interventions, "Retired")
      /\ UNCHANGED <<binding, leaseExpiry, policy, stated, prior, next, revalidate,
                     granted, bootGrant>>
  BY DEF Shutdown, config, process
<1>2. /\ interventions' \in Seq(InterventionType)
      /\ IsTable(interventions)' /\ OneLiveIntervention'
      /\ \A i \in Interventions(interventions') : IsLive(i) => i.state = "Retired"
  BY <1>1, MovedTable
<1>3. \A i \in Interventions(interventions') : ~IsLive(i)
  BY <1>2 DEF IsLive, LiveStates
<1>4. TypeOK'
  <2>1. clean' \in 0..MaxClean
    BY <1>1, BoundsAssumption
  <2> QED
    BY <1>1, <1>2, <2>1 DEF IInv, TypeOK, Outcomes
<1>5. ~HasLive'
  BY <1>3 DEF HasLive, Interventions
<1>6. NothingEnforcedFromEarlierBoot' /\ RevalidationIsFlagged'
  BY <1>3 DEF NothingEnforcedFromEarlierBoot, RevalidationIsFlagged, IsLive,
     LiveStates, Enforced
<1> QED
  BY <1>1, <1>2, <1>4, <1>5, <1>6 DEF IInv, BoundSinceBoot, NothingLiveAfterShutdown,
     LiveFollowsIncident

(* An empty table satisfies everything that is said of interventions. *)
LEMMA BlankKeepsTable ==
    ASSUME Blank
    PROVE  /\ interventions' \in Seq(InterventionType)
           /\ IsTable(interventions)' /\ OneLiveIntervention'
           /\ NothingEnforcedFromEarlierBoot' /\ RevalidationIsFlagged'
           /\ ~HasLive' /\ NothingLiveAfterShutdown' /\ LiveFollowsIncident'
           /\ next' \in 1..(MaxIssued + 1) /\ prior' \in Kinds \cup {"Unknown"}
<1>1. interventions' = <<>> /\ prior' = "Unknown" /\ next' = 1
  BY DEF Blank
<1>2. /\ interventions' \in Seq(InterventionType) /\ DOMAIN interventions' = {}
      /\ DOMAIN interventions' = 1..Len(interventions') /\ Len(interventions') = 0
  BY <1>1
<1>3. MaxInterventions \in Nat /\ MaxIssued \in Nat
  BY BoundsAssumption
<1> QED
  BY <1>1, <1>2, <1>3 DEF IsTable, Interventions, OneLiveIntervention, HasLive,
     NothingEnforcedFromEarlierBoot, RevalidationIsFlagged, NothingLiveAfterShutdown,
     LiveFollowsIncident

LEMMA ResetKeepsIInv ==
    ASSUME IInv, Reset
    PROVE  IInv'
<1>1. /\ Blank /\ accepting' = TRUE /\ stated' = policy.generation /\ clean' = 0
      /\ revalidate' = TRUE /\ outcome' = "None"
      /\ UNCHANGED <<binding, leaseExpiry, policy, granted, bootGrant>>
  BY DEF Reset, process
<1>2. TypeOK'
  BY <1>1, BlankKeepsTable, BoundsAssumption DEF IInv, TypeOK, Outcomes
<1> QED
  BY <1>1, <1>2, BlankKeepsTable DEF IInv, BoundSinceBoot

LEMMA RestartKeepsIInv ==
    ASSUME IInv, Restart
    PROVE  IInv'
<1>1. /\ granted < MaxGrants /\ granted' = granted + 1 /\ bootGrant' = granted + 1
      /\ accepting' = TRUE /\ policy' = InitialPolicy /\ clean' = 0
      /\ revalidate' = TRUE /\ outcome' = "None"
  BY DEF Restart
<1>2. /\ granted \in Nat /\ granted' \in 1..MaxGrants /\ bootGrant' \in 1..granted'
      /\ policy' \in Policies /\ MaxClean \in Nat
  BY <1>1, BoundsAssumption, PoliciesAssumption DEF IInv, TypeOK
<1>3. CASE StartRestored
  <2>1. /\ interventions' = MovingLive(interventions, "Revalidating")
        /\ binding' = Unbound /\ leaseExpiry' = 0
        /\ UNCHANGED <<prior, stated, next>>
    BY <1>3 DEF StartRestored
  <2>2. /\ interventions' \in Seq(InterventionType)
        /\ IsTable(interventions)' /\ OneLiveIntervention' /\ (HasLive' => HasLive)
        /\ \A i \in Interventions(interventions') :
             IsLive(i) => i.state = "Revalidating"
    BY <2>1, MovedTable
  <2>3. TypeOK'
    BY <1>1, <1>2, <2>1, <2>2 DEF IInv, TypeOK, Outcomes, Unbound
  <2>4. NothingEnforcedFromEarlierBoot'
    BY <2>2 DEF NothingEnforcedFromEarlierBoot, IsLive, LiveStates, Enforced
  <2>5. /\ BoundSinceBoot' /\ RevalidationIsFlagged'
        /\ NothingLiveAfterShutdown' /\ LiveFollowsIncident'
    BY <1>1, <2>1, <2>2 DEF IInv, BoundSinceBoot, RevalidationIsFlagged, Unbound,
       NothingLiveAfterShutdown, LiveFollowsIncident
  <2> QED
    BY <2>2, <2>3, <2>4, <2>5 DEF IInv
<1>4. CASE \E expiry \in Times : StartBlank(expiry)
  <2>1. /\ Blank /\ stated' = InitialPolicy.generation /\ binding' = granted + 1
        /\ leaseExpiry' \in Times
    BY <1>4 DEF StartBlank
  <2>2. binding' \in 0..granted' /\ binding' >= bootGrant'
    BY <1>1, <1>2, <2>1
  <2>3. TypeOK'
    BY <1>1, <1>2, <2>1, <2>2, BlankKeepsTable, PoliciesAssumption
       DEF IInv, TypeOK, Outcomes
  <2> QED
    BY <2>1, <2>2, <2>3, BlankKeepsTable DEF IInv, BoundSinceBoot
<1> QED
  BY <1>3, <1>4 DEF Restart

-----------------------------------------------------------------------------
(* The invariant. *)

LEMMA InitIsIInv == Init => IInv
<1> SUFFICES ASSUME Init
             PROVE  IInv
  OBVIOUS
<1>1. /\ accepting = TRUE /\ binding = 1 /\ granted = 1 /\ bootGrant = 1
      /\ leaseExpiry \in Times
      /\ policy = InitialPolicy /\ stated = InitialPolicy.generation
      /\ prior = "Unknown" /\ clean = 0
      /\ interventions = <<>> /\ next = 1 /\ revalidate = TRUE
      /\ outcome = "None"
  BY DEF Init
<1>2. /\ interventions \in Seq(InterventionType) /\ DOMAIN interventions = {}
      /\ DOMAIN interventions = 1..Len(interventions) /\ Len(interventions) = 0
  BY <1>1
<1>3. /\ MaxInterventions \in Nat /\ MaxIssued \in Nat /\ MaxClean \in Nat
      /\ MaxGrants \in Nat \ {0} /\ InitialPolicy \in Policies
  BY BoundsAssumption, PoliciesAssumption
<1>4. TypeOK
  <2>1. IsTable(interventions)
    BY <1>2, <1>3 DEF IsTable, Interventions
  <2>2. /\ binding \in 0..granted /\ clean \in 0..MaxClean /\ next \in 1..(MaxIssued + 1)
        /\ granted \in 1..MaxGrants /\ bootGrant \in 1..granted
    BY <1>1, <1>3
  <2> QED
    BY <1>1, <1>3, <2>1, <2>2 DEF TypeOK, Outcomes
<1> QED
  BY <1>1, <1>2, <1>4 DEF IInv, OneLiveIntervention, BoundSinceBoot, Interventions,
     NothingEnforcedFromEarlierBoot, RevalidationIsFlagged, NothingLiveAfterShutdown,
     LiveFollowsIncident, HasLive

LEMMA NextKeepsIInv == IInv /\ [Next]_vars => IInv'
<1> SUFFICES ASSUME IInv, [Next]_vars
             PROVE  IInv'
  OBVIOUS
<1>0. CASE Refuse
  BY <1>0, RefuseKeepsIInv
<1>1. CASE \E e \in Evidence : Evaluate(e)
  BY <1>1, EvaluateKeepsIInv
<1>2. CASE \E p \in Policies : ConfigurePolicy(p)
  BY <1>2, ConfigurePolicyKeepsIInv
<1>3. CASE \E n \in {granted, granted + 1}, expiry \in Times :
             n <= MaxGrants /\ Bind(n, expiry)
  BY <1>3, BindKeepsIInv
<1>4. CASE \E k \in DOMAIN interventions : Retire(k)
  BY <1>4, RetireKeepsIInv
<1>5. CASE Shutdown
  BY <1>5, ShutdownKeepsIInv
<1>6. CASE Reset
  BY <1>6, ResetKeepsIInv
<1>7. CASE Restart
  BY <1>7, RestartKeepsIInv
<1>8. CASE UNCHANGED vars
  BY <1>8 DEF vars, authority, config, streaks, table, process, IInv, TypeOK, IsTable,
     Interventions, OneLiveIntervention, BoundSinceBoot, NothingEnforcedFromEarlierBoot,
     RevalidationIsFlagged, NothingLiveAfterShutdown, LiveFollowsIncident, HasLive
<1> QED
  BY <1>0, <1>1, <1>2, <1>3, <1>4, <1>5, <1>6, <1>7, <1>8 DEF Next

LEMMA Inductive == Spec => []IInv
  BY InitIsIInv, NextKeepsIInv, PTL DEF Spec

(* Every variable of the engine keeps its type, and its table its bound. *)
THEOREM TypeCorrect == Spec => []TypeOK
<1>1. IInv => TypeOK
  BY DEF IInv
<1> QED
  BY <1>1, Inductive, PTL

(* A destination never has two live interventions, and an identity is      *)
(* never given twice, however the table is trimmed and the process         *)
(* restarted (find_live and trim_interventions in governor.cpp).           *)
THEOREM AtMostOneLive == Spec => []OneLiveIntervention
<1>1. IInv => OneLiveIntervention
  BY DEF IInv
<1> QED
  BY <1>1, Inductive, PTL

(* What a boot had in force no later boot enforces (restore_state() in     *)
(* governor.cpp and is_fenced() in lifecycle.cpp).                         *)
THEOREM EarlierBootsAreOver == Spec => []NothingEnforcedFromEarlierBoot
<1>1. IInv => NothingEnforcedFromEarlierBoot
  BY DEF IInv
<1> QED
  BY <1>1, Inductive, PTL

(* An intervention that waits for revalidation is always announced by      *)
(* requires_revalidation (governor.cpp).                                   *)
THEOREM RevalidationAlwaysFlagged == Spec => []RevalidationIsFlagged
<1>1. IInv => RevalidationIsFlagged
  BY DEF IInv
<1> QED
  BY <1>1, Inductive, PTL

(* A governor that was shut down has nothing live until it is reset or     *)
(* started again (shutdown() in governor.cpp).                             *)
THEOREM ShutdownIsComplete == Spec => []NothingLiveAfterShutdown
<1>1. IInv => NothingLiveAfterShutdown
  BY DEF IInv
<1> QED
  BY <1>1, Inductive, PTL

(* A live intervention always has its incident, or the recovery from it,   *)
(* as the last entry of the history (evaluate() in governor.cpp).          *)
THEOREM LiveHasItsIncident == Spec => []LiveFollowsIncident
<1>1. IInv => LiveFollowsIncident
  BY DEF IInv
<1> QED
  BY <1>1, Inductive, PTL

-----------------------------------------------------------------------------
(* What a step may do. *)

(* Under an incident, a window that counts as a recovery ends the dwell. *)
LEMMA RecoveryEndsDwell ==
    ASSUME IInv, NEW e \in Evidence, prior \in Incident, Kind(e) = "Recovery"
    PROVE  clean + 1 >= policy.dwell
<1>1. /\ e.kind \in Kinds \cup {"Unknown"} /\ e.kind # "Recovery"
      /\ clean \in Nat /\ policy.dwell \in Nat
  BY PoliciesAssumption, BoundsAssumption DEF IInv, TypeOK, Evidence, Kinds
<1>2. ~Dwelling(e)
  <2>1. Dwelling(e) => Kind(e) = prior
    BY DEF Kind, Held, SteppingDown
  <2> QED
    BY <2>1 DEF Incident
<1>3. e.kind \notin Incident
  <2>1. SteppingDown(e) => Rank[e.kind] < 2
    BY <1>1 DEF SteppingDown, Rank
  <2>2. e.kind \in Incident => ~(Rank[e.kind] < 2)
    BY DEF Rank, Incident
  <2>3. ~SteppingDown(e) /\ e.kind \in Incident => Kind(e) = e.kind
    BY <1>2 DEF Kind, Held
  <2> QED
    BY <1>1, <2>1, <2>2, <2>3
<1>4. Falling(e)
  <2>1. e.kind \in {"NoFanIn", "OrdinaryManyToOne", "Unknown"}
    BY <1>1, <1>3 DEF Kinds, Incident
  <2> QED
    BY <2>1 DEF Falling, Rank, Incident
<1> QED
  BY <1>1, <1>2, <1>4 DEF Dwelling

(* No evaluation weakens an intervention under an incident before          *)
(* min_dwell_windows clean windows in a row (classify() in detect.cpp).    *)
THEOREM DwellComesFirst == Spec => RelaxesOnlyAfterDwell
<1>1. ASSUME IInv, [Next]_vars
      PROVE  [outcome' \in {"Relaxed", "Retired"} /\ prior \in Incident =>
                clean + 1 >= policy.dwell]_vars
  <2> SUFFICES ASSUME Next, outcome' \in {"Relaxed", "Retired"}, prior \in Incident
               PROVE  clean + 1 >= policy.dwell
    BY <1>1
  <2>1. PICK e \in Evidence : Evaluate(e)
    BY DEF Next, Refuse, ConfigurePolicy, Bind, Retire, Shutdown, Reset, Restart
  <2>2. CASE Relax(e) \/ Complete(e)
    <3>1. Kind(e) = "Recovery"
      BY <2>2 DEF Relax, Complete, Recovering
    <3> QED
      BY <1>1, <3>1, RecoveryEndsDwell
  <2>3. CASE Decline(e)
    <3>1. HasLive /\ Kind(e) \in {"NoFanIn", "OrdinaryManyToOne"}
      BY <2>3 DEF Decline
    <3> QED
      BY <1>1, <3>1, KindIsKnown DEF Incident
  <2> QED
    BY <2>1, <2>2, <2>3 DEF Evaluate, Fence, HoldBack, Issue, Continue
<1> QED
  BY <1>1, Inductive, PTL DEF Spec, RelaxesOnlyAfterDwell

(* The end of a decision that keeps an intervention in force. *)
LEMMA ProlongedByItsOwner ==
    ASSUME IInv, NEW e \in Evidence, ~Refused(e), HasLive, ~Fenced(e),
           NEW i \in InterventionType, i.id = Live.id, i.binding = Live.binding,
           i.expires = e.now + Duration,
           interventions' = [interventions EXCEPT ![LiveAt] = i]
    PROVE  \A j \in Interventions(interventions') : IsLive(j) =>
             /\ j.binding = binding
             /\ j.expires - Duration <= leaseExpiry
             /\ \A old \in Interventions(interventions) :
                  old.id = j.id => j.expires - Duration <= old.expires
<1>1. /\ LiveAt \in 1..Len(interventions) /\ IsLive(Live)
      /\ \A k \in 1..Len(interventions) : IsLive(interventions[k]) => k = LiveAt
      /\ DOMAIN interventions = 1..Len(interventions)
      /\ Live = interventions[LiveAt] /\ Live \in InterventionType
  BY OnlyOneIsLive DEF IInv, Live
<1>2. /\ Rewrites(interventions, interventions')
      /\ \A k \in 1..Len(interventions) :
           interventions'[k] = IF k = LiveAt THEN i ELSE interventions[k]
  BY LiveBecomes
<1>3. \A j \in Interventions(interventions') : IsLive(j) => j = i
  <2>1. DOMAIN interventions' = 1..Len(interventions)
    BY <1>1
  <2> QED
    BY <1>1, <1>2, <2>1 DEF Interventions
<1>4. \A old \in Interventions(interventions) : old.id = i.id => old = Live
  BY <1>1 DEF Interventions, IInv, OneLiveIntervention
<1>5. /\ i.binding = binding /\ e.now <= leaseExpiry /\ ~(e.now > Live.expires)
  BY EvidenceIsTyped DEF Fenced
<1>6. e.now \in Nat /\ Duration \in Nat /\ Live.expires \in Nat
  <2>1. /\ e.now \in Times
        /\ Live.expires \in {t + Duration : t \in Times}
    BY <1>1, EvidenceIsTyped DEF InterventionType
  <2>2. Times \subseteq Nat /\ Duration \in Nat
    BY BoundsAssumption
  <2>3. PICK t \in Times : Live.expires = t + Duration
    BY <2>1
  <2>4. e.now \in Nat /\ t \in Nat
    BY <2>1, <2>2
  <2> QED
    BY <2>2, <2>3, <2>4
<1> QED
  BY <1>3, <1>4, <1>5, <1>6

(* Whatever is put or kept in force is of the grant the governor is bound  *)
(* to, and was decided before the lease and the intervention itself had    *)
(* lapsed (evaluate() in governor.cpp, is_fenced() in lifecycle.cpp).      *)
THEOREM OnlyTheOwnerEnforces == Spec => EnforcedByItsOwner
<1>1. ASSUME IInv, [Next]_vars
      PROVE  [outcome' \in {"Issued", "Continued", "Relaxed"} =>
         \A i \in Interventions(interventions') : IsLive(i) =>
           /\ i.binding = binding
           /\ i.expires - Duration <= leaseExpiry
           /\ \A old \in Interventions(interventions) :
                old.id = i.id => i.expires - Duration <= old.expires]_vars
  <2> SUFFICES ASSUME Next, outcome' \in {"Issued", "Continued", "Relaxed"}
               PROVE  \A i \in Interventions(interventions') : IsLive(i) =>
                        /\ i.binding = binding
                        /\ i.expires - Duration <= leaseExpiry
                        /\ \A old \in Interventions(interventions) :
                             old.id = i.id => i.expires - Duration <= old.expires
    BY <1>1
  <2>1. PICK e \in Evidence : Evaluate(e)
    BY DEF Next, Refuse, ConfigurePolicy, Bind, Retire, Shutdown, Reset, Restart
  <2>0. ~Refused(e)
    BY <2>1 DEF Evaluate
  <2>2. CASE HoldBack(e)
    <3> DEFINE i == [Live EXCEPT !.expires = e.now + Duration]
    <3>1. /\ ~Refused(e) /\ HasLive /\ ~Fenced(e)
          /\ interventions' = [interventions EXCEPT ![LiveAt] = i]
      BY <2>0, <2>2 DEF HoldBack, HeldBack, Live
    <3>2. /\ i \in InterventionType /\ i.id = Live.id /\ i.binding = Live.binding
          /\ i.expires = e.now + Duration
      BY <1>1, <3>1, OnlyOneIsLive, ExpiryIsTyped DEF InterventionType
    <3> HIDE DEF i
    <3> QED
      BY <1>1, <3>1, <3>2, ProlongedByItsOwner
  <2>3. CASE Relax(e)
    <3> DEFINE i == Lowered(Live, e.now)
    <3>1. /\ ~Refused(e) /\ HasLive /\ ~Fenced(e) /\ Live.level > 1
          /\ interventions' = [interventions EXCEPT ![LiveAt] = i]
      BY <2>0, <2>3 DEF Relax, Recovering, Synthesised
    <3>2. /\ i \in InterventionType /\ i.id = Live.id /\ i.binding = Live.binding
          /\ i.expires = e.now + Duration
      <4>1. Live \in InterventionType /\ Live.level \in UNION {0..n : n \in Levels}
        BY <1>1, <3>1, OnlyOneIsLive DEF InterventionType
      <4>2. Live.level - 1 \in UNION {0..n : n \in Levels}
        BY <3>1, <4>1, LoweredIsTyped
      <4> QED
        BY <4>1, <4>2, ExpiryIsTyped DEF Lowered, InterventionType, LiveStates
    <3> HIDE DEF i
    <3> QED
      BY <1>1, <3>1, <3>2, ProlongedByItsOwner
  <2>4. CASE \E level \in Levels : Continue(e, level)
    <3>1. PICK level \in Levels : Continue(e, level)
      BY <2>4
    <3> DEFINE i == [Live EXCEPT !.state = "Active", !.expires = e.now + Duration,
                                 !.level = level]
    <3>2. /\ ~Refused(e) /\ HasLive /\ ~Fenced(e)
          /\ interventions' = [interventions EXCEPT ![LiveAt] = i]
      BY <2>0, <3>1 DEF Continue, Synthesised, Live
    <3>3. /\ i \in InterventionType /\ i.id = Live.id /\ i.binding = Live.binding
          /\ i.expires = e.now + Duration
      BY <1>1, <3>2, OnlyOneIsLive, ExpiryIsTyped, LevelIsTyped
         DEF InterventionType, LiveStates
    <3> HIDE DEF i
    <3> QED
      BY <1>1, <3>2, <3>3, ProlongedByItsOwner
  <2>5. CASE \E level \in Levels : Issue(e, level)
    <3>1. PICK level \in Levels : Issue(e, level)
      BY <2>5
    <3> DEFINE i == [id |-> next, state |-> "Active", binding |-> e.grant,
                     policy |-> policy.generation, expires |-> e.now + Duration,
                     level |-> level]
    <3>2. /\ ~Refused(e) /\ ~HasLive /\ next <= MaxIssued /\ next' = next + 1
          /\ interventions' = Trimmed(Append(interventions, i))
      BY <2>0, <3>1 DEF Issue, Synthesised
    <3>3. /\ next \in 1..MaxIssued /\ e.grant \in 1..MaxGrants
          /\ policy.generation \in {p.generation : p \in Policies}
      BY <1>1, <3>2, EvidenceIsTyped, BoundsAssumption DEF IInv, TypeOK
    <3>4. i \in InterventionType
      BY <3>3, ExpiryIsTyped, LevelIsTyped DEF InterventionType, LiveStates
    <3>5. /\ i.id = next /\ IsLive(i) /\ i.binding = e.grant
          /\ i.expires = e.now + Duration
      BY DEF IsLive, LiveStates
    <3> HIDE DEF i
    <3>6. \A j \in Interventions(interventions') : IsLive(j) => j = i
      BY <1>1, <3>2, <3>4, <3>5, IssuedTable DEF Interventions
    <3>7. \A old \in Interventions(interventions) : old.id # i.id
      <4>1. \A k \in DOMAIN interventions :
              interventions[k].id < next /\ interventions[k].id \in Int
        <5>1. \A k \in DOMAIN interventions : interventions[k] \in InterventionType
          BY <1>1 DEF IInv
        <5>2. \A k \in DOMAIN interventions : interventions[k].id < next
          BY <1>1 DEF IInv, OneLiveIntervention
        <5> QED
          BY <5>1, <5>2 DEF InterventionType
      <4> QED
        BY <3>3, <3>5, <4>1 DEF Interventions
    <3>8. e.now \in Nat /\ Duration \in Nat /\ e.now <= leaseExpiry /\ binding = e.grant
      BY <1>1, <3>2, EvidenceIsTyped, BoundsAssumption
    <3> QED
      BY <3>5, <3>6, <3>7, <3>8
  <2> QED
    BY <2>1, <2>2, <2>3, <2>4, <2>5 DEF Evaluate, Fence, Complete, Decline
<1> QED
  BY <1>1, Inductive, PTL DEF Spec, EnforcedByItsOwner

(* Settled interventions are untouched by a step that rewrites the table. *)
LEMMA SettledIsUntouched ==
    ASSUME IInv, DOMAIN interventions' = DOMAIN interventions,
           \A k \in DOMAIN interventions : interventions'[k].id = interventions[k].id,
           \A k \in DOMAIN interventions :
             ~IsLive(interventions[k]) => interventions'[k].state = interventions[k].state
    PROVE  \A i \in Interventions(interventions), j \in Interventions(interventions') :
             (i.id = j.id /\ ~IsLive(i)) => j.state = i.state
<1> SUFFICES ASSUME NEW k \in DOMAIN interventions, NEW m \in DOMAIN interventions,
                    interventions[k].id = interventions'[m].id, ~IsLive(interventions[k])
             PROVE  interventions'[m].state = interventions[k].state
  BY DEF Interventions
<1>1. interventions[k].id = interventions[m].id
  OBVIOUS
<1>2. k = m
  BY <1>1 DEF IInv, OneLiveIntervention
<1> QED
  BY <1>2

(* The same, when it is the live intervention that changes. *)
LEMMA OnlyTheLiveChanges ==
    ASSUME IInv, HasLive, NEW i \in InterventionType, i.id = Live.id,
           interventions' = [interventions EXCEPT ![LiveAt] = i]
    PROVE  \A s \in Interventions(interventions), j \in Interventions(interventions') :
             (s.id = j.id /\ ~IsLive(s)) => j.state = s.state
<1>1. /\ LiveAt \in DOMAIN interventions /\ IsLive(interventions[LiveAt])
      /\ i.id = interventions[LiveAt].id
  BY OnlyOneIsLive DEF IInv, Live
<1>2. DOMAIN interventions' = DOMAIN interventions
  OBVIOUS
<1>3. \A k \in DOMAIN interventions :
        interventions'[k] = IF k = LiveAt THEN i ELSE interventions[k]
  BY <1>1
<1> QED
  BY <1>1, <1>2, <1>3, SettledIsUntouched

(* A retired or fenced intervention is never revived (the transitions that *)
(* governor.cpp makes, whatever lifecycle.cpp would allow).                *)
THEOREM SettledStaysSettled == Spec => SettledIsFinal
<1>1. ASSUME IInv, [Next]_vars
      PROVE  [bootGrant' = bootGrant /\ next <= next' =>
         \A i \in Interventions(interventions), j \in Interventions(interventions') :
           (i.id = j.id /\ ~IsLive(i)) => j.state = i.state]_vars
  <2> SUFFICES ASSUME Next, bootGrant' = bootGrant, next <= next'
               PROVE  \A i \in Interventions(interventions),
                         j \in Interventions(interventions') :
                        (i.id = j.id /\ ~IsLive(i)) => j.state = i.state
    BY <1>1
  <2>0. /\ interventions \in Seq(InterventionType)
        /\ DOMAIN interventions = 1..Len(interventions)
        /\ \A k \in DOMAIN interventions : interventions[k] \in InterventionType
    BY <1>1 DEF IInv
  <2>1. CASE interventions' = interventions
    BY <1>1, <2>1, SettledIsUntouched
  <2>2. CASE /\ HasLive
             /\ \E s \in LiveStates \cup SettledStates :
                  interventions' = [interventions EXCEPT ![LiveAt].state = s]
    <3>1. PICK s \in LiveStates \cup SettledStates :
            interventions' = [interventions EXCEPT ![LiveAt].state = s]
      BY <2>2
    <3> DEFINE i == [Live EXCEPT !.state = s]
    <3>2. interventions' = [interventions EXCEPT ![LiveAt] = i]
      BY <3>1 DEF Live
    <3>3. i \in InterventionType /\ i.id = Live.id
      BY <1>1, <2>2, OnlyOneIsLive DEF InterventionType
    <3> HIDE DEF i
    <3> QED
      BY <1>1, <2>2, <3>2, <3>3, OnlyTheLiveChanges
  <2>3. ASSUME NEW e \in Evidence, Evaluate(e)
        PROVE  \A i \in Interventions(interventions), j \in Interventions(interventions') :
                 (i.id = j.id /\ ~IsLive(i)) => j.state = i.state
    <3>1. ~Refused(e)
      BY <2>3 DEF Evaluate
    <3>2. CASE Fence(e)
      <4>1. HasLive /\ interventions' = [interventions EXCEPT ![LiveAt].state = "Fenced"]
        BY <3>2 DEF Fence
      <4> QED
        BY <2>2, <4>1 DEF SettledStates
    <3>3. CASE HoldBack(e)
      <4> DEFINE i == [Live EXCEPT !.expires = e.now + Duration]
      <4>1. /\ HasLive
            /\ interventions' = [interventions EXCEPT ![LiveAt] = i]
        BY <3>3 DEF HoldBack, HeldBack, Live
      <4>2. i \in InterventionType /\ i.id = Live.id
        BY <1>1, <4>1, OnlyOneIsLive, ExpiryIsTyped DEF InterventionType
      <4> HIDE DEF i
      <4> QED
        BY <1>1, <4>1, <4>2, OnlyTheLiveChanges
    <3>4. CASE \E level \in Levels : Continue(e, level)
      <4>1. PICK level \in Levels : Continue(e, level)
        BY <3>4
      <4> DEFINE i == [Live EXCEPT !.state = "Active", !.expires = e.now + Duration,
                                   !.level = level]
      <4>2. /\ HasLive
            /\ interventions' = [interventions EXCEPT ![LiveAt] = i]
        BY <4>1 DEF Continue, Live
      <4>3. i \in InterventionType /\ i.id = Live.id
        BY <1>1, <4>2, OnlyOneIsLive, ExpiryIsTyped, LevelIsTyped
           DEF InterventionType, LiveStates
      <4> HIDE DEF i
      <4> QED
        BY <1>1, <4>2, <4>3, OnlyTheLiveChanges
    <3>5. CASE Relax(e)
      <4> DEFINE i == Lowered(Live, e.now)
      <4>1. /\ HasLive /\ Live.level > 1
            /\ interventions' = [interventions EXCEPT ![LiveAt] = i]
        BY <3>5 DEF Relax, Recovering
      <4>2. i \in InterventionType /\ i.id = Live.id
        <5>1. Live \in InterventionType /\ Live.level \in UNION {0..n : n \in Levels}
          BY <1>1, <4>1, OnlyOneIsLive DEF InterventionType
        <5>2. Live.level - 1 \in UNION {0..n : n \in Levels}
          BY <4>1, <5>1, LoweredIsTyped
        <5> QED
          BY <5>1, <5>2, ExpiryIsTyped DEF Lowered, InterventionType, LiveStates
      <4> HIDE DEF i
      <4> QED
        BY <1>1, <4>1, <4>2, OnlyTheLiveChanges
    <3>6. CASE Complete(e)
      <4>1. HasLive /\ interventions' = [interventions EXCEPT ![LiveAt].state = "Retired"]
        BY <3>6 DEF Complete, Recovering
      <4> QED
        BY <2>2, <4>1 DEF SettledStates
    <3>7. CASE Decline(e)
      <4>1. \/ interventions' = interventions
            \/ /\ HasLive
               /\ interventions' = [interventions EXCEPT ![LiveAt].state = "Retired"]
        BY <3>7 DEF Decline
      <4> QED
        BY <2>1, <2>2, <4>1 DEF SettledStates
    <3>8. CASE \E level \in Levels : Issue(e, level)
      <4>1. PICK level \in Levels : Issue(e, level)
        BY <3>8
      <4> DEFINE i == [id |-> next, state |-> "Active", binding |-> e.grant,
                       policy |-> policy.generation, expires |-> e.now + Duration,
                       level |-> level]
      <4>2. /\ ~Refused(e) /\ ~HasLive /\ next <= MaxIssued /\ next' = next + 1
            /\ interventions' = Trimmed(Append(interventions, i))
        BY <3>1, <4>1 DEF Issue, Synthesised
      <4>3. /\ next \in 1..MaxIssued /\ e.grant \in 1..MaxGrants
            /\ policy.generation \in {p.generation : p \in Policies}
        BY <1>1, <4>2, EvidenceIsTyped, BoundsAssumption DEF IInv, TypeOK
      <4>4. i \in InterventionType
        BY <4>3, ExpiryIsTyped, LevelIsTyped DEF InterventionType, LiveStates
      <4>5. i.id = next /\ IsLive(i)
        BY DEF IsLive, LiveStates
      <4> HIDE DEF i
      <4>6. \A j \in Interventions(interventions') :
              j = i \/ j \in Interventions(interventions)
        BY <1>1, <4>2, <4>4, <4>5, IssuedTable DEF Interventions
      <4>7. \A s \in Interventions(interventions) : s.id # i.id
        <5>1. \A k \in DOMAIN interventions : interventions[k].id < next
          BY <1>1 DEF IInv, OneLiveIntervention
        <5>2. \A k \in DOMAIN interventions : interventions[k].id \in Int
          BY <2>0 DEF InterventionType
        <5> QED
          BY <4>3, <4>5, <5>1, <5>2 DEF Interventions
      <4>8. \A s, j \in Interventions(interventions) : s.id = j.id => s = j
        BY <1>1 DEF IInv, OneLiveIntervention, Interventions
      <4> QED
        BY <4>6, <4>7, <4>8
    <3> QED
      BY <2>3, <3>2, <3>3, <3>4, <3>5, <3>6, <3>7, <3>8 DEF Evaluate
  <2>4. ASSUME NEW p \in Policies, ConfigurePolicy(p)
        PROVE  \A i \in Interventions(interventions), j \in Interventions(interventions') :
                 (i.id = j.id /\ ~IsLive(i)) => j.state = i.state
    <3>1. CASE interventions' = interventions
      BY <2>1, <3>1
    <3>2. CASE interventions' =
                 [k \in DOMAIN interventions |->
                    IF IsLive(interventions[k])
                    THEN [interventions[k] EXCEPT !.state = "Revalidating",
                                                  !.policy = p.generation]
                    ELSE interventions[k]]
      <4>1. DOMAIN interventions' = DOMAIN interventions
        BY <3>2
      <4>2. \A k \in DOMAIN interventions :
              /\ interventions'[k].id = interventions[k].id
              /\ ~IsLive(interventions[k]) => interventions'[k] = interventions[k]
        BY <2>0, <3>2 DEF InterventionType
      <4> QED
        BY <1>1, <4>1, <4>2, SettledIsUntouched
    <3> QED
      BY <2>4, <3>1, <3>2 DEF ConfigurePolicy
  <2>5. ASSUME NEW k \in DOMAIN interventions, Retire(k)
        PROVE  \A i \in Interventions(interventions), j \in Interventions(interventions') :
                 (i.id = j.id /\ ~IsLive(i)) => j.state = i.state
    <3>1. /\ IsLive(interventions[k])
          /\ interventions' = [interventions EXCEPT ![k].state = "Retired"]
      BY <2>5 DEF Retire
    <3>2. HasLive /\ k = LiveAt
      BY <1>1, <2>0, <3>1, OnlyOneIsLive DEF HasLive
    <3> QED
      BY <2>2, <3>1, <3>2 DEF SettledStates
  <2>6. CASE Shutdown
    <3>1. interventions' = MovingLive(interventions, "Retired")
      BY <2>6 DEF Shutdown
    <3>2. DOMAIN interventions' = DOMAIN interventions
      BY <3>1 DEF MovingLive
    <3>3. \A k \in DOMAIN interventions :
            /\ interventions'[k].id = interventions[k].id
            /\ ~IsLive(interventions[k]) => interventions'[k] = interventions[k]
      BY <2>0, <3>1 DEF MovingLive, InterventionType
    <3> QED
      BY <1>1, <3>2, <3>3, SettledIsUntouched
  <2>7. CASE Reset
    <3>1. Interventions(interventions') = {}
      BY <2>7 DEF Reset, Blank, Interventions
    <3> QED
      BY <3>1
  <2>8. ~Restart
    <3>1. Restart => bootGrant' = granted + 1
      BY DEF Restart
    <3>2. bootGrant \in 1..granted /\ granted \in 1..MaxGrants
      BY <1>1 DEF IInv, TypeOK
    <3> QED
      BY <3>1, <3>2, BoundsAssumption
  <2>9. CASE \E n \in {granted, granted + 1}, expiry \in Times :
               n <= MaxGrants /\ Bind(n, expiry)
    BY <2>1, <2>9 DEF Bind, table
  <2>10. CASE Refuse
    BY <2>1, <2>10 DEF Refuse, table
  <2> QED
    BY <2>10, <2>3, <2>4, <2>5, <2>6, <2>7, <2>8, <2>9 DEF Next
<1> QED
  BY <1>1, Inductive, PTL DEF Spec, SettledIsFinal

-----------------------------------------------------------------------------
(* The engine as Enforcement describes it. *)

Life == IF HasLive THEN Live.state ELSE "None"

Strength == IF HasLive THEN Live.level ELSE 0

Quiet(e) == e.kind \notin Incident

TheLiveOne ==
    \A k \in DOMAIN interventions :
      IsLive(interventions[k]) => HasLive /\ Live = interventions[k]

LEMMA LiveIsTheOne == IInv => TheLiveOne
<1> SUFFICES ASSUME IInv, NEW k \in DOMAIN interventions, IsLive(interventions[k])
             PROVE  HasLive /\ Live = interventions[k]
  BY DEF TheLiveOne
<1>1. HasLive
  BY DEF HasLive
<1>2. k = LiveAt
  BY <1>1, OnlyOneIsLive DEF IInv
<1> QED
  BY <1>1, <1>2 DEF Live

(* The live intervention changes, and no other comes to life. *)
LEMMA LifeFollowsTheLive ==
    ASSUME IInv, IInv', HasLive, NEW i, i = interventions'[LiveAt],
           DOMAIN interventions' = DOMAIN interventions,
           \A k \in DOMAIN interventions :
             k # LiveAt /\ IsLive(interventions'[k]) => IsLive(interventions[k])
    PROVE  /\ IsLive(i) => Life' = i.state /\ Strength' = i.level
           /\ ~IsLive(i) => Life' = "None" /\ Strength' = 0
<1>1. /\ LiveAt \in DOMAIN interventions
      /\ \A k \in DOMAIN interventions : k # LiveAt => ~IsLive(interventions'[k])
  BY OnlyOneIsLive DEF IInv
<1>2. CASE IsLive(i)
  <2>1. PICK k \in DOMAIN interventions' : k = LiveAt /\ interventions'[k] = i
    BY <1>1
  <2>2. TheLiveOne'
    BY LiveIsTheOne, PTL
  <2>3. HasLive' /\ Live' = i
    BY <1>2, <2>1, <2>2 DEF TheLiveOne
  <2> QED
    BY <1>2, <2>3 DEF Life, Strength
<1>3. CASE ~IsLive(i)
  <2>1. \A k \in DOMAIN interventions' : ~IsLive(interventions'[k])
    BY <1>1, <1>3
  <2>2. ~HasLive'
    BY <2>1 DEF HasLive
  <2> QED
    BY <1>3, <2>2 DEF Life, Strength
<1> QED
  BY <1>2, <1>3

LEMMA LifeIsReplaced ==
    ASSUME IInv, IInv', HasLive, NEW i,
           interventions' = [interventions EXCEPT ![LiveAt] = i]
    PROVE  /\ IsLive(i) => Life' = i.state /\ Strength' = i.level
           /\ ~IsLive(i) => Life' = "None" /\ Strength' = 0
<1>1. LiveAt \in DOMAIN interventions
  BY OnlyOneIsLive DEF IInv
<1>2. /\ i = interventions'[LiveAt]
      /\ DOMAIN interventions' = DOMAIN interventions
      /\ \A k \in DOMAIN interventions :
           k # LiveAt /\ IsLive(interventions'[k]) => IsLive(interventions[k])
  BY <1>1
<1> QED
  BY <1>2, LifeFollowsTheLive

LEMMA LifeStays ==
    ASSUME UNCHANGED interventions
    PROVE  Life' = Life /\ Strength' = Strength
  BY DEF Life, Strength, HasLive, Live, LiveAt

LEMMA LifeIsTyped ==
    ASSUME IInv
    PROVE  /\ Strength \in Nat
           /\ HasLive => /\ Life = Live.state /\ Strength = Live.level
                         /\ Live.state \in LiveStates
           /\ ~HasLive => Life = "None" /\ Strength = 0
           /\ clean \in Nat /\ policy.dwell \in Nat
<1>1. HasLive => Live \in InterventionType /\ IsLive(Live)
  BY OnlyOneIsLive
<1>2. \A i \in InterventionType : i.level \in Nat
  BY BoundsAssumption DEF InterventionType
<1>3. clean \in Nat /\ policy.dwell \in Nat
  BY BoundsAssumption, PoliciesAssumption DEF IInv, TypeOK
<1> QED
  BY <1>1, <1>2, <1>3 DEF Life, Strength, IsLive

(* The alarm of a window: an incident in itself, or one that is held. *)
LEMMA KindIsAlarm ==
    ASSUME IInv, NEW e \in Evidence, ~Refused(e)
    PROVE  /\ (Kind(e) \in Incident)
                = (~Quiet(e) \/ (prior \in Incident /\ clean + 1 < policy.dwell))
           /\ Kind(e) \in Incident /\ Quiet(e) => Held(e)
<1>1. /\ e.kind \in Kinds /\ e.kind # "Recovery" /\ prior \in Kinds \cup {"Unknown"}
      /\ clean \in Nat /\ policy.dwell \in Nat
  BY LifeIsTyped DEF Refused, Evidence, IInv, TypeOK
<1>2. CASE ~Quiet(e)
  <2>1. Falling(e) => prior = "ActiveIncast"
    BY <1>1, <1>2 DEF Falling, Quiet, Rank, Incident, Kinds
  <2>2. ~SteppingDown(e)
    BY <1>2 DEF SteppingDown, Quiet, Rank, Incident
  <2>3. Dwelling(e) => Kind(e) = prior
    BY DEF Kind, Held, SteppingDown
  <2>4. ~Dwelling(e) => Kind(e) = e.kind
    BY <1>2, <2>2 DEF Kind, Held, Quiet
  <2> QED
    BY <1>2, <2>1, <2>3, <2>4 DEF Dwelling, Incident, Quiet
<1>3. CASE Quiet(e)
  <2>1. prior \in Incident => Falling(e)
    BY <1>1, <1>3 DEF Falling, Quiet, Rank, Incident, Kinds
  <2>2. Dwelling(e) => Kind(e) = prior /\ Held(e)
    BY DEF Kind, Held, SteppingDown
  <2>3. ~Dwelling(e) => Kind(e) \in {"Recovery", e.kind}
    BY <1>3 DEF Kind, Held, Quiet
  <2>4. Dwelling(e) => clean + 1 < policy.dwell
    BY DEF Dwelling
  <2>5. prior \in Incident /\ clean + 1 < policy.dwell => Dwelling(e)
    BY <2>1 DEF Dwelling
  <2>6. "Recovery" \notin Incident
    BY DEF Incident
  <2> QED
    BY <1>3, <2>2, <2>3, <2>4, <2>5, <2>6 DEF Quiet
<1> QED
  BY <1>2, <1>3

LEMMA WindowIsCounted ==
    ASSUME IInv, NEW e \in Evidence, clean' = Counted(e)
    PROVE  Lifecycle!Counted(Quiet(e))
<1>1. clean \in 0..MaxClean /\ MaxClean \in Nat \ {0}
  BY BoundsAssumption DEF IInv, TypeOK
<1> QED
  BY <1>1 DEF Lifecycle!Counted, Counted, Quiet

LEMMA WindowIsRecorded ==
    ASSUME IInv, NEW e \in Evidence, ~Refused(e), Recorded(e)
    PROVE  /\ Lifecycle!Recorded(Quiet(e))
           /\ (prior' \in Incident) = (Kind(e) \in Incident)
<1>1. prior' = Kind(e) /\ clean' = Counted(e) /\ UNCHANGED policy
  BY DEF Recorded, config
<1>2. Lifecycle!Counted(Quiet(e))
  BY <1>1, WindowIsCounted
<1> QED
  BY <1>1, <1>2, KindIsAlarm DEF Lifecycle!Recorded

LEMMA EvaluateIsEnforcement ==
    ASSUME IInv, IInv', NEW e \in Evidence, Evaluate(e)
    PROVE  Lifecycle!Next
<1> DEFINE quiet == Quiet(e)
<1>1. ~Refused(e) /\ quiet \in BOOLEAN
  BY DEF Evaluate, Quiet
<1>2. CASE Fence(e)
  <2> DEFINE i == [Live EXCEPT !.state = "Fenced"]
  <2>1. /\ HasLive /\ clean' = Counted(e) /\ UNCHANGED <<prior, policy>>
        /\ interventions' = [interventions EXCEPT ![LiveAt] = i]
    BY <1>2 DEF Fence, config, Live
  <2>2. ~IsLive(i)
    BY <2>1, OnlyOneIsLive DEF InterventionType, IsLive, LiveStates
  <2> HIDE DEF i
  <2>3. Life' = "None" /\ Strength' = 0
    BY <2>1, <2>2, LifeIsReplaced
  <2>4. Life # "None"
    BY <2>1, LifeIsTyped DEF LiveStates
  <2>5. Lifecycle!Fence(quiet)
    BY <2>1, <2>3, <2>4, WindowIsCounted DEF Lifecycle!Fence, Lifecycle!Ended, Life, Strength
  <2> QED
    BY <1>1, <2>5 DEF Lifecycle!Next
<1>3. CASE HoldBack(e)
  <2> DEFINE i == [Live EXCEPT !.expires = e.now + Duration]
  <2>1. /\ HasLive /\ Recorded(e)
        /\ interventions' = [interventions EXCEPT ![LiveAt] = i]
    BY <1>3 DEF HoldBack, HeldBack, Live
  <2>2. IsLive(i) /\ i.state = Live.state /\ i.level = Live.level
    BY <2>1, OnlyOneIsLive DEF InterventionType, IsLive
  <2> HIDE DEF i
  <2>3. Life' = Life /\ Strength' = Strength
    BY <2>1, <2>2, LifeIsReplaced, LifeIsTyped
  <2>4. Lifecycle!Leave(quiet)
    BY <1>1, <2>1, <2>3, WindowIsRecorded DEF Lifecycle!Leave, Life, Strength
  <2> QED
    BY <1>1, <2>4 DEF Lifecycle!Next
<1>4. ASSUME NEW level \in Levels, Issue(e, level)
      PROVE  Lifecycle!Next
  <2> DEFINE i == [id |-> next, state |-> "Active", binding |-> e.grant,
                   policy |-> policy.generation, expires |-> e.now + Duration,
                   level |-> level]
  <2>1. /\ ~HasLive /\ Kind(e) \in Incident /\ next <= MaxIssued
        /\ interventions' = Trimmed(Append(interventions, i))
        /\ next' = next + 1 /\ Recorded(e)
    BY <1>4 DEF Issue, Synthesised
  <2>2. PICK k \in DOMAIN interventions' : interventions'[k] = i
    <3>1. Len(interventions) \in Nat /\ MaxInterventions \in Nat \ {0}
      BY BoundsAssumption DEF IInv
    <3>2. CASE Len(Append(interventions, i)) <= MaxInterventions
      <4>1. interventions' = Append(interventions, i)
        BY <2>1, <3>2 DEF Trimmed
      <4>2. interventions \in Seq(InterventionType)
        BY DEF IInv
      <4> HIDE DEF i
      <4>3. /\ Len(interventions) + 1 \in DOMAIN interventions'
            /\ interventions'[Len(interventions) + 1] = i
        BY <3>1, <4>1, <4>2
      <4> QED
        BY <4>3
    <3>3. CASE ~(Len(Append(interventions, i)) <= MaxInterventions)
      <4> DEFINE t == Append(interventions, i)
      <4>1. interventions' = [k \in 1..MaxInterventions |-> t[Len(t) + 1 - k]]
        BY <2>1, <3>3 DEF Trimmed
      <4>2. interventions \in Seq(InterventionType)
        BY DEF IInv
      <4> HIDE DEF i
      <4>3. Len(t) \in Nat /\ Len(t) = Len(interventions) + 1 /\ t[Len(t)] = i
        BY <3>1, <4>2
      <4> HIDE DEF t
      <4>4. 1 \in 1..MaxInterventions /\ Len(t) + 1 - 1 = Len(t)
        BY <3>1, <4>3
      <4>5. 1 \in DOMAIN interventions' /\ interventions'[1] = t[Len(t) + 1 - 1]
        BY <4>1, <4>4
      <4> QED
        BY <4>3, <4>4, <4>5
    <3> QED
      BY <3>2, <3>3
  <2>3. IsLive(i) /\ i.state = "Active" /\ i.level = level
    BY DEF IsLive, LiveStates
  <2> HIDE DEF i
  <2>4. TheLiveOne'
    BY LiveIsTheOne, PTL
  <2>5. HasLive' /\ Live' = i
    BY <2>2, <2>3, <2>4 DEF TheLiveOne
  <2>6. Life' = "Active" /\ Strength' \in Nat
    BY <2>3, <2>5, BoundsAssumption DEF Life, Strength
  <2>7. Life \notin {"Active", "Relaxing"}
    BY <2>1 DEF Life
  <2>8. Lifecycle!Intervene(quiet)
    BY <1>1, <2>1, <2>6, <2>7, WindowIsRecorded
       DEF Lifecycle!Intervene, Lifecycle!InForce, Life, Strength
  <2> QED
    BY <1>1, <2>8 DEF Lifecycle!Next
<1>5. ASSUME NEW level \in Levels, Continue(e, level)
      PROVE  Lifecycle!Next
  <2> DEFINE i == [Live EXCEPT !.state = "Active", !.expires = e.now + Duration,
                               !.level = level]
  <2>1. /\ HasLive /\ Kind(e) \in Incident /\ ~HeldBack(e) /\ Recorded(e)
        /\ interventions' = [interventions EXCEPT ![LiveAt] = i]
    BY <1>5 DEF Continue, Synthesised, Live
  <2>2. IsLive(i) /\ i.state = "Active" /\ i.level = level
    BY <2>1, OnlyOneIsLive DEF InterventionType, IsLive, LiveStates
  <2> HIDE DEF i
  <2>3. Life' = "Active" /\ Strength' \in Nat
    BY <2>1, <2>2, LifeIsReplaced, BoundsAssumption
  <2>4. quiet => Life \notin {"Active", "Relaxing"}
    BY <1>1, <2>1, KindIsAlarm, LifeIsTyped DEF HeldBack, Enforced
  <2>5. Lifecycle!Intervene(quiet)
    BY <1>1, <2>1, <2>3, <2>4, WindowIsRecorded
       DEF Lifecycle!Intervene, Lifecycle!InForce, Life, Strength
  <2> QED
    BY <1>1, <2>5 DEF Lifecycle!Next
<1>6. ASSUME Kind(e) = "Recovery", Recorded(e)
      PROVE  Lifecycle!Recorded(TRUE) /\ prior' \notin Incident
  <2>1. Kind(e) \notin Incident
    BY <1>6 DEF Incident
  <2>2. quiet = TRUE
    BY <1>1, <2>1, KindIsAlarm
  <2> QED
    BY <1>1, <1>6, <2>1, <2>2, WindowIsRecorded
<1>7. CASE Relax(e)
  <2> DEFINE i == Lowered(Live, e.now)
  <2>1. /\ HasLive /\ Kind(e) = "Recovery" /\ Recorded(e) /\ Live.level > 1
        /\ interventions' = [interventions EXCEPT ![LiveAt] = i]
    BY <1>7 DEF Relax, Recovering
  <2>2. /\ IsLive(i) /\ i.level = Live.level - 1
        /\ i.state = IF Live.state = "Active" THEN "Relaxing" ELSE Live.state
    BY <2>1, OnlyOneIsLive DEF InterventionType, Lowered, IsLive, LiveStates
  <2> HIDE DEF i
  <2>3. /\ Life = Live.state /\ Strength = Live.level /\ Strength \in Nat
        /\ Life' = i.state /\ Strength' = i.level
    BY <2>1, <2>2, LifeIsReplaced, LifeIsTyped
  <2>4. Life # "None" /\ Life' = IF Life = "Active" THEN "Relaxing" ELSE Life
    BY <2>1, <2>2, <2>3, LifeIsTyped DEF LiveStates
  <2>5. Strength' \in 0..Strength
    BY <2>1, <2>2, <2>3
  <2>6. Lifecycle!Ease
    BY <1>6, <2>1, <2>4, <2>5 DEF Lifecycle!Ease, Life, Strength
  <2> QED
    BY <2>6 DEF Lifecycle!Next
<1>8. CASE Complete(e)
  <2> DEFINE i == [Live EXCEPT !.state = "Retired"]
  <2>1. /\ HasLive /\ Kind(e) = "Recovery" /\ Recorded(e)
        /\ interventions' = [interventions EXCEPT ![LiveAt] = i]
    BY <1>8 DEF Complete, Recovering, Live
  <2>2. ~IsLive(i)
    BY <2>1, OnlyOneIsLive DEF InterventionType, IsLive, LiveStates
  <2> HIDE DEF i
  <2>3. Life' = "None" /\ Strength' = 0
    BY <2>1, <2>2, LifeIsReplaced
  <2>4. Lifecycle!Finish
    BY <1>6, <2>1, <2>3 DEF Lifecycle!Finish, Lifecycle!Ended, Life, Strength
  <2> QED
    BY <2>4 DEF Lifecycle!Next
<1>9. CASE Decline(e)
  <2>1. HasLive => Kind(e) \notin {"NoFanIn", "OrdinaryManyToOne"}
    BY KindIsKnown DEF Incident
  <2>2. interventions' = interventions /\ Recorded(e)
    BY <1>9, <2>1 DEF Decline
  <2>3. Life' = Life /\ Strength' = Strength
    BY <2>2, LifeStays
  <2>4. Lifecycle!Leave(quiet)
    BY <1>1, <2>2, <2>3, WindowIsRecorded DEF Lifecycle!Leave, Life, Strength
  <2> QED
    BY <1>1, <2>4 DEF Lifecycle!Next
<1> QED
  BY <1>2, <1>3, <1>4, <1>5, <1>7, <1>8, <1>9 DEF Evaluate

(* What moving the live intervention to another state does. *)
LEMMA LifeIsMoved ==
    ASSUME IInv, IInv', NEW s \in {"Retired", "Revalidating"},
           interventions' = MovingLive(interventions, s)
    PROVE  /\ s = "Retired" => Life' = "None" /\ Strength' = 0
           /\ s = "Revalidating" => Life' = Lifecycle!Doubted /\ Strength' = Strength
<1>1. /\ DOMAIN interventions' = DOMAIN interventions
      /\ \A k \in DOMAIN interventions :
           interventions'[k] = IF IsLive(interventions[k])
                               THEN [interventions[k] EXCEPT !.state = s]
                               ELSE interventions[k]
  BY DEF MovingLive
<1>2. CASE HasLive
  <2> DEFINE i == [Live EXCEPT !.state = s]
  <2>1. /\ LiveAt \in DOMAIN interventions /\ IsLive(interventions[LiveAt])
        /\ Live = interventions[LiveAt] /\ Live \in InterventionType
    BY <1>2, OnlyOneIsLive DEF IInv, Live
  <2>2. i = interventions'[LiveAt]
    BY <1>1, <2>1
  <2>3. \A k \in DOMAIN interventions :
          IsLive(interventions'[k]) => IsLive(interventions[k])
    BY <1>1
  <2>4. i.state = s /\ i.level = Live.level /\ (IsLive(i) <=> s = "Revalidating")
    BY <2>1 DEF InterventionType, IsLive, LiveStates
  <2> HIDE DEF i
  <2>5. /\ IsLive(i) => Life' = i.state /\ Strength' = i.level
        /\ ~IsLive(i) => Life' = "None" /\ Strength' = 0
    BY <1>1, <1>2, <2>2, <2>3, LifeFollowsTheLive
  <2>6. Life # "None" /\ Strength = Live.level
    BY <1>2, LifeIsTyped DEF LiveStates
  <2> QED
    BY <2>4, <2>5, <2>6 DEF Lifecycle!Doubted, Life
<1>3. CASE ~HasLive
  <2>1. ~HasLive'
    BY <1>1, <1>3 DEF HasLive
  <2> QED
    BY <1>3, <2>1 DEF Life, Strength, Lifecycle!Doubted
<1> QED
  BY <1>2, <1>3

LEMMA ConfigurePolicyIsEnforcement ==
    ASSUME IInv, IInv', NEW p \in Policies, ConfigurePolicy(p)
    PROVE  Lifecycle!Reconfigure
<1>1. /\ policy' = p /\ UNCHANGED <<prior, clean>> /\ p.dwell \in Nat
  BY PoliciesAssumption DEF ConfigurePolicy, streaks
<1>2. Life' \in {Life, Lifecycle!Doubted} /\ Strength' = Strength
  <2>1. CASE UNCHANGED interventions
    BY <2>1, LifeStays
  <2>2. CASE ~(UNCHANGED interventions)
    <3>1. /\ DOMAIN interventions' = DOMAIN interventions
          /\ \A k \in DOMAIN interventions :
               interventions'[k] =
                 IF IsLive(interventions[k])
                 THEN [interventions[k] EXCEPT !.state = "Revalidating",
                                               !.policy = p.generation]
                 ELSE interventions[k]
      BY <2>2 DEF ConfigurePolicy
    <3>2. CASE HasLive
      <4> DEFINE i == [Live EXCEPT !.state = "Revalidating", !.policy = p.generation]
      <4>1. /\ LiveAt \in DOMAIN interventions /\ IsLive(interventions[LiveAt])
            /\ Live = interventions[LiveAt] /\ Live \in InterventionType
        BY <3>2, OnlyOneIsLive DEF IInv, Live
      <4>2. i = interventions'[LiveAt]
        BY <3>1, <4>1
      <4>3. \A k \in DOMAIN interventions :
              IsLive(interventions'[k]) => IsLive(interventions[k])
        BY <3>1
      <4>4. i.state = "Revalidating" /\ i.level = Live.level /\ IsLive(i)
        BY <4>1 DEF InterventionType, IsLive, LiveStates
      <4> HIDE DEF i
      <4>5. Life' = "Revalidating" /\ Strength' = Live.level
        BY <3>1, <3>2, <4>2, <4>3, <4>4, LifeFollowsTheLive
      <4>6. Life # "None" /\ Strength = Live.level
        BY <3>2, LifeIsTyped DEF LiveStates
      <4> QED
        BY <4>5, <4>6 DEF Lifecycle!Doubted, Life
    <3>3. CASE ~HasLive
      <4>1. ~HasLive'
        BY <3>1, <3>3 DEF HasLive
      <4> QED
        BY <3>3, <4>1 DEF Life, Strength
    <3> QED
      BY <3>2, <3>3
  <2> QED
    BY <2>1, <2>2
<1> QED
  BY <1>1, <1>2 DEF Lifecycle!Reconfigure, Life, Strength

(* Every step of the engine is one of Enforcement, or none. *)
LEMMA NextIsEnforcement ==
    ASSUME IInv, IInv', Next
    PROVE  Lifecycle!Next \/ UNCHANGED <<Life, Strength, prior, clean, policy>>
<1>1. CASE \E e \in Evidence : Evaluate(e)
  BY <1>1, EvaluateIsEnforcement
<1>2. CASE \E p \in Policies : ConfigurePolicy(p)
  BY <1>2, ConfigurePolicyIsEnforcement DEF Lifecycle!Next
<1>3. ASSUME NEW k \in DOMAIN interventions, Retire(k)
      PROVE  Lifecycle!Stop
  <2> DEFINE i == [interventions[k] EXCEPT !.state = "Retired"]
  <2>1. /\ IsLive(interventions[k]) /\ HasLive /\ interventions[k] \in InterventionType
        /\ k = LiveAt
    BY <1>3, OnlyOneIsLive DEF Retire, HasLive, IInv
  <2>2. interventions' = [interventions EXCEPT ![LiveAt] = i]
    BY <1>3, <2>1 DEF Retire
  <2>3. ~IsLive(i)
    BY <2>1 DEF InterventionType, IsLive, LiveStates
  <2> HIDE DEF i
  <2>4. Life' = "None" /\ Strength' = 0
    BY <2>1, <2>2, <2>3, LifeIsReplaced
  <2>5. UNCHANGED <<prior, clean, policy>>
    BY <1>3 DEF Retire, streaks, config
  <2> QED
    BY <2>4, <2>5 DEF Lifecycle!Stop, Lifecycle!Ended, Life, Strength
<1>4. CASE Shutdown
  <2>1. /\ clean' = 0 /\ UNCHANGED <<prior, policy>>
        /\ interventions' = MovingLive(interventions, "Retired")
    BY <1>4 DEF Shutdown, config
  <2>2. Life' = "None" /\ Strength' = 0
    BY <2>1, LifeIsMoved
  <2>3. Lifecycle!Stop
    BY <2>1, <2>2 DEF Lifecycle!Stop, Lifecycle!Ended, Life, Strength
  <2> QED
    BY <2>3 DEF Lifecycle!Next
<1>5. ASSUME Blank, clean' = 0, policy' \in Policies
      PROVE  Lifecycle!Forget
  <2>1. ~HasLive' /\ prior' = "Unknown"
    BY <1>5, BlankKeepsTable DEF Blank
  <2>2. policy'.dwell \in Nat
    BY <1>5, PoliciesAssumption
  <2> QED
    BY <1>5, <2>1, <2>2 DEF Lifecycle!Forget, Lifecycle!Ended, Incident
<1>6. CASE Reset
  BY <1>5, <1>6 DEF Reset, Lifecycle!Next, IInv, TypeOK
<1>7. CASE Restart
  <2>1. clean' = 0 /\ policy' = InitialPolicy /\ policy' \in Policies
        /\ policy'.dwell \in Nat
    BY <1>7, PoliciesAssumption DEF Restart
  <2>2. CASE StartRestored
    <3>1. interventions' = MovingLive(interventions, "Revalidating") /\ UNCHANGED prior
      BY <2>2 DEF StartRestored
    <3>2. Life' = Lifecycle!Doubted /\ Strength' = Strength
      BY <3>1, LifeIsMoved
    <3>3. Lifecycle!Restart
      BY <2>1, <3>1, <3>2 DEF Lifecycle!Restart, Life, Strength
    <3> QED
      BY <3>3 DEF Lifecycle!Next
  <2>3. CASE \E expiry \in Times : StartBlank(expiry)
    BY <1>5, <2>1, <2>3 DEF StartBlank, Lifecycle!Next
  <2> QED
    BY <1>7, <2>2, <2>3 DEF Restart
<1>8. CASE UNCHANGED <<interventions, prior, clean, policy>>
  BY <1>8, LifeStays
<1> QED
  BY <1>1, <1>2, <1>3, <1>4, <1>6, <1>7, <1>8
     DEF Next, Refuse, Bind, Lifecycle!Next, table, streaks, config

(* The engine implements Enforcement: every call, every outcome of an      *)
(* evaluation, and every restart of the process does to the live           *)
(* intervention what Enforcement allows, for the reason it names           *)
(* (governor.cpp, with classify() and synthesize()).                       *)
THEOREM GovernorImplementsEnforcement == Spec => ImplementsEnforcement
<1>1. Init => Lifecycle!Init
  <2> SUFFICES ASSUME Init
               PROVE  Lifecycle!Init
    OBVIOUS
  <2>1. ~HasLive /\ prior = "Unknown" /\ clean = 0 /\ policy = InitialPolicy
    BY DEF Init, HasLive
  <2> QED
    BY <2>1, PoliciesAssumption DEF Lifecycle!Init, Incident
<1>2. ASSUME IInv, IInv', [Next]_vars
      PROVE  [Lifecycle!Next]_<<IF HasLive THEN Live.state ELSE "None",
                                IF HasLive THEN Live.level ELSE 0,
                                prior \in Incident, clean, policy.dwell>>
  <2>1. CASE Next
    BY <1>2, <2>1, NextIsEnforcement DEF Life, Strength
  <2>2. CASE UNCHANGED vars
    BY <2>2, LifeStays DEF vars, table, streaks, config, Life, Strength
  <2> QED
    BY <1>2, <2>1, <2>2
<1> QED
  BY <1>1, <1>2, Inductive, PTL DEF Spec, ImplementsEnforcement, Lifecycle!Spec

=============================================================================
