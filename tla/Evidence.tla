-------------------------------- MODULE Evidence --------------------------------
(***************************************************************************)
(* The order of evidence: which bundles a governor takes                   *)
(* (Governor::evaluate_locked and check_authority, src/src/governor.cpp    *)
(* and detect.cpp), by the sequence of each class of evidence and the      *)
(* generation of the destination, and what of that survives a restart, a   *)
(* reset and a change of authority or policy.  Governor says what is then  *)
(* decided; a bundle here is only taken, fenced or refused.                *)
(*                                                                         *)
(* A bundle that was collected may be evaluated at any later time, more    *)
(* than once, behind later ones, or never: a source may retry, and a frame *)
(* may be late.  The instants that its freshness is judged by are all in   *)
(* the bundle (its own "now" among them), so that being late changes       *)
(* nothing in the judgement: what a bundle shows of each class is fixed    *)
(* when it is collected.  Malformed bundles and those of another           *)
(* destination are refused whatever the state and are left out.            *)
(***************************************************************************)
EXTENDS Integers, Sequences, FiniteSets

CONSTANTS
    Classes,            \* the classes of evidence
    StampOf,            \* the stamp of a class: two classes share one
    Policies,           \* the policies: [enabled, required]
    InitialPolicy,      \* the one a process starts with
    InitialGeneration,  \* config_.destination_generation
    Generations,        \* those bundles may name
    Observations,       \* what a window may yield: [present, numbered]
    MaxBoots,           \* bound on the processes
    MaxGrants,          \* bound on the authorities granted
    MaxWindows,         \* bound on the windows that are collected
    MaxAccepted         \* bound on the evaluations a state follows from

Stamps == {StampOf[c] : c \in Classes}

None == 0   \* an absent boot, grant, generation or sequence

(* A source numbers what it presents.  What it cannot present it may still *)
(* number (synthetic.cpp does).  Policies agree on one class: all require  *)
(* it.                                                                     *)
ASSUME EvidenceAssumption ==
    /\ StampOf \in [Classes -> Stamps]
    /\ InitialPolicy \in Policies
    /\ Policies \subseteq [enabled : BOOLEAN, required : SUBSET Classes]
    /\ \E c \in Classes : \A p \in Policies : c \in p.required
    /\ InitialGeneration \in Nat /\ Generations \subseteq Nat
    /\ Observations \subseteq [present : SUBSET Classes, numbered : SUBSET Stamps]
    /\ \A o \in Observations : \A c \in o.present : StampOf[c] \in o.numbered
    /\ MaxBoots \in Nat \ {0} /\ {MaxGrants, MaxWindows, MaxAccepted} \subseteq Nat

VARIABLES
    boot,       \* the incarnation of the running process
    granted,    \* the authorities granted so far
    binding,    \* the one in config_, or None
    policy,     \* config_.policy
    windows,    \* the windows this process has collected
    collected,  \* all bundles, of all processes
    memory,     \* of state_: what evaluations read and record of their order
    disk        \* the state that was saved last

process == <<boot, granted, binding, policy>>
source == <<windows, collected>>
vars == <<process, source, memory, disk>>

Bundles ==
    [boot : 1..MaxBoots, grant : 1..MaxGrants, window : Nat \ {0},
     generation : Generations, shows : Observations]

(* sequences, source and generation are last_sequence, last_sequence_boot  *)
(* and destination_generation; live is the grant of the live intervention; *)
(* accepted is the history: the evaluations that were not refused.         *)
States ==
    [sequences : [Classes -> Nat], source : 0..MaxBoots,
     generation : Generations \cup {InitialGeneration}, live : 0..MaxGrants,
     accepted : Seq([bundle : Bundles, fenced : BOOLEAN])]

Unordered == [c \in Classes |-> None]

Blank ==
    [sequences |-> Unordered, source |-> None, generation |-> InitialGeneration,
     live |-> None, accepted |-> <<>>]

-----------------------------------------------------------------------------
(* Is a bundle taken? *)

(* The sequence of a class in a bundle: that of its stamp. *)
SequenceIn(b, c) == IF StampOf[c] \in b.shows.numbered THEN b.window ELSE None

(* Mutant: what an earlier boot has shown counts as well. *)
ReferenceOfAnyBoot(b) == memory.sequences

(* What the sequences of a bundle are compared with. *)
Reference(b) == IF memory.source = b.boot THEN memory.sequences ELSE Unordered

(* Mutant: the same sequence again passes. *)
ReorderedOnlyIfOlder(b, c) ==
    /\ SequenceIn(b, c) # None /\ Reference(b)[c] # None
    /\ SequenceIn(b, c) < Reference(b)[c]

Reordered(b, c) ==
    /\ SequenceIn(b, c) # None /\ Reference(b)[c] # None
    /\ SequenceIn(b, c) <= Reference(b)[c]

Authoritative(b, c) == c \in b.shows.present /\ ~Reordered(b, c)

Regressed(b) ==
    /\ memory.generation # None /\ b.generation # None
    /\ b.generation < memory.generation

(* A grant stands for the epoch, worker and lease that come with it. *)
Refused(b) ==
    \/ binding = None
    \/ Regressed(b)
    \/ b.grant # binding \/ b.boot # boot
    \/ ~policy.enabled
    \/ \E c \in policy.required : ~Authoritative(b, c)

-----------------------------------------------------------------------------
(* Every class is recorded, whether it was required and present or not. *)
NotedSequences(b) ==
    [c \in Classes |-> IF SequenceIn(b, c) > Reference(b)[c]
                       THEN SequenceIn(b, c) ELSE Reference(b)[c]]

NotedGeneration(b) ==
    IF b.generation > memory.generation THEN b.generation ELSE memory.generation

(* What every evaluation records that is not refused. *)
Taking(b, fenced) ==
    [memory EXCEPT !.sequences = NotedSequences(b), !.source = b.boot,
                   !.accepted = Append(memory.accepted, [bundle |-> b, fenced |-> fenced])]

(* refuse() records nothing of the order of evidence. *)
Refuse(b) ==
    /\ Refused(b)
    /\ UNCHANGED vars

(* The live intervention is of another grant or has lapsed.  Fencing       *)
(* returns before the generation is recorded.                              *)
Fence(b) ==
    /\ ~Refused(b) /\ memory.live # None
    /\ memory' = [Taking(b, TRUE) EXCEPT !.live = None]
    /\ UNCHANGED <<process, source, disk>>

(* Any other outcome; afterwards an intervention is live or none is. *)
Decide(b, live) ==
    /\ ~Refused(b) /\ memory.live \in {None, binding}
    /\ memory' = [Taking(b, FALSE) EXCEPT !.live = live, !.generation = NotedGeneration(b)]
    /\ UNCHANGED <<process, source, disk>>

Evaluate(b) ==
    \/ Refuse(b)
    \/ /\ Len(memory.accepted) < MaxAccepted
       /\ Fence(b) \/ \E live \in {None, binding} : Decide(b, live)

-----------------------------------------------------------------------------
(* The process around the governor. *)

(* The source numbers its windows; the generation is what it observes. *)
Collect(generation, shows) ==
    /\ binding # None /\ Cardinality(collected) < MaxWindows
    /\ windows' = windows + 1
    /\ collected' = collected \cup
         {[boot |-> boot, grant |-> binding, window |-> windows + 1,
           generation |-> generation, shows |-> shows]}
    /\ UNCHANGED <<process, memory, disk>>

(* Mutant: the authority that was held before stays bound. *)
BindPrevious ==
    /\ granted < MaxGrants
    /\ granted' = granted + 1
    /\ binding' = granted
    /\ UNCHANGED <<boot, policy, source, memory, disk>>

Bind ==
    /\ granted < MaxGrants
    /\ granted' = granted + 1
    /\ binding' = granted + 1
    /\ UNCHANGED <<boot, policy, source, memory, disk>>

ConfigurePolicy(p) ==
    /\ policy' = p
    /\ UNCHANGED <<boot, granted, binding, source, memory, disk>>

(* reset() forgets the order of evidence with everything else. *)
Reset ==
    /\ memory' = Blank
    /\ UNCHANGED <<process, source, disk>>

Save ==
    /\ disk' = memory
    /\ UNCHANGED <<process, source, memory>>

(* Mutant: the generation is not restored. *)
RestoredWithoutGeneration == [disk EXCEPT !.generation = InitialGeneration]

(* restore_state: of these fields it keeps all. *)
Restored == disk

Restart ==
    /\ boot < MaxBoots
    /\ boot' = boot + 1
    /\ binding' = None
    /\ policy' = InitialPolicy
    /\ windows' = 0
    /\ memory' = Restored
    /\ UNCHANGED <<granted, collected, disk>>

Init ==
    /\ boot = 1 /\ granted = 0 /\ binding = None /\ policy = InitialPolicy
    /\ windows = 0 /\ collected = {}
    /\ memory = Blank /\ disk = Blank

Next ==
    \/ \E b \in collected : Evaluate(b)
    \/ \E g \in Generations, o \in Observations : Collect(g, o)
    \/ Bind
    \/ \E p \in Policies : ConfigurePolicy(p)
    \/ Reset
    \/ Save
    \/ Restart

Spec == Init /\ [][Next]_vars

-----------------------------------------------------------------------------
(* Properties. *)

(* Every variable has its type; a governor is bound to the latest grant or *)
(* to none.                                                                *)
TypeOK ==
    /\ boot \in 1..MaxBoots /\ granted \in 0..MaxGrants
    /\ binding \in {None, granted} /\ policy \in Policies
    /\ windows \in Nat /\ collected \subseteq Bundles
    /\ memory \in States /\ disk \in States

Before(i, j) == memory.accepted[i].bundle.window < memory.accepted[j].bundle.window

(* Within a boot, evidence is taken in the order in which it was collected *)
(* and no bundle is taken twice, however it is delivered and whatever      *)
(* policies and grants follow each other ("a replay inside one incarnation *)
(* is refused as reordered", README.md:168-170).                           *)
TakenInOrder ==
    \A i, j \in DOMAIN memory.accepted :
      /\ i < j
      /\ memory.accepted[i].bundle.boot = memory.accepted[j].bundle.boot
      => Before(i, j)

(* At any moment, a bundle of the bound grant that shows what the policy   *)
(* requires would be refused only because it comes behind evidence of its  *)
(* boot that is as new, or names an earlier generation than the configured *)
(* one or one that a decision was made for: evidence that was lost, late,  *)
(* fenced or refused, and that of earlier boots, never makes a governor    *)
(* deaf.                                                                   *)
RefusedForCause ==
    \A b \in collected : Refused(b) =>
      \/ b.grant # binding \/ ~policy.enabled \/ ~(policy.required \subseteq b.shows.present)
      \/ b.generation # None /\ b.generation < InitialGeneration
      \/ \E k \in DOMAIN memory.accepted :
           LET e == memory.accepted[k] IN
             \/ e.bundle.boot = b.boot /\ b.window <= e.bundle.window
             \/ b.generation # None /\ b.generation < e.bundle.generation /\ ~e.fenced

(* No decision follows evidence of an earlier generation of the            *)
(* destination than a decision before it, restarts included.  The fenced   *)
(* evaluations are excepted: they decide nothing for a generation and do   *)
(* not record it.                                                          *)
GenerationsNeverGoBack ==
    \A i, j \in DOMAIN memory.accepted :
      LET g == memory.accepted[i].bundle.generation
          h == memory.accepted[j].bundle.generation IN
      i < j /\ h # None /\ ~memory.accepted[i].fenced => g <= h
=================================================================================
