----------------------------- MODULE EvidenceProofs -----------------------------
(***************************************************************************)
(* Proofs about Evidence, for any classes, policies, observations,         *)
(* deliveries and restarts.                                                *)
(***************************************************************************)
EXTENDS Evidence, TLAPS

(* The class that every policy requires. *)
Common == CHOOSE c \in Classes : \A p \in Policies : c \in p.required

(* The history that a state follows from, its order and what is recorded   *)
(* of it.                                                                  *)
BootsRise(m) ==
    /\ m.source <= boot
    /\ \A i \in DOMAIN m.accepted : m.accepted[i].bundle.boot <= m.source

ShowsCommon(m) == \A i \in DOMAIN m.accepted : Common \in m.accepted[i].bundle.shows.present

(* The recorded sequences are the greatest that the boot has shown. *)
MarksCover(m) ==
    \A i \in DOMAIN m.accepted : m.accepted[i].bundle.boot = m.source =>
      \A c \in Classes : SequenceIn(m.accepted[i].bundle, c) <= m.sequences[c]

MarksShown(m) ==
    \A c \in Classes : m.sequences[c] # None =>
      \E i \in DOMAIN m.accepted :
        /\ m.accepted[i].bundle.boot = m.source
        /\ SequenceIn(m.accepted[i].bundle, c) = m.sequences[c]

(* So is the generation among those that were decided for. *)
GenerationCovers(m) ==
    \A i \in DOMAIN m.accepted :
      ~m.accepted[i].fenced => m.accepted[i].bundle.generation <= m.generation

GenerationShown(m) ==
    \/ m.generation = InitialGeneration
    \/ \E i \in DOMAIN m.accepted :
         ~m.accepted[i].fenced /\ m.accepted[i].bundle.generation = m.generation

InOrder(m) ==
    \A i, j \in DOMAIN m.accepted :
      i < j /\ m.accepted[i].bundle.boot = m.accepted[j].bundle.boot
      => m.accepted[i].bundle.window < m.accepted[j].bundle.window

GenerationsInOrder(m) ==
    \A i, j \in DOMAIN m.accepted :
      i < j /\ m.accepted[j].bundle.generation # None /\ ~m.accepted[i].fenced
      => m.accepted[i].bundle.generation <= m.accepted[j].bundle.generation

Lineage(m) ==
    /\ BootsRise(m) /\ ShowsCommon(m)
    /\ MarksCover(m) /\ MarksShown(m)
    /\ GenerationCovers(m) /\ GenerationShown(m)
    /\ InOrder(m) /\ GenerationsInOrder(m)

(* A bundle of the bound grant is of the running process. *)
GrantsOfBoot ==
    \A b \in collected : b.grant <= granted /\ (b.grant = binding => b.boot = boot)

Inv == TypeOK /\ GrantsOfBoot /\ Lineage(memory) /\ Lineage(disk)

-----------------------------------------------------------------------------
(* What the operators return. *)

LEMMA CommonClass == Common \in Classes /\ \A p \in Policies : Common \in p.required
  BY EvidenceAssumption DEF Common

LEMMA SequenceOfBundle ==
  ASSUME NEW b \in Bundles, NEW c \in Classes
  PROVE  /\ SequenceIn(b, c) \in Nat
         /\ SequenceIn(b, c) \in {None, b.window}
         /\ c \in b.shows.present => SequenceIn(b, c) = b.window /\ b.window # None
  <1>1. b.window \in Nat \ {0} /\ b.shows \in Observations
    BY DEF Bundles
  <1>2. c \in b.shows.present => StampOf[c] \in b.shows.numbered
    BY <1>1, EvidenceAssumption
  <1> QED BY <1>1, <1>2 DEF SequenceIn, None

LEMMA BlankState == Blank \in States /\ (boot \in Nat => Lineage(Blank))
  <1>1. Blank \in States
    BY EvidenceAssumption DEF Blank, States, Unordered, None
  <1>2. ASSUME boot \in Nat PROVE Lineage(Blank)
    BY <1>2 DEF Blank, Unordered, None, Lineage, BootsRise, ShowsCommon, MarksCover, MarksShown,
       GenerationCovers, GenerationShown, InOrder, GenerationsInOrder
  <1> QED BY <1>1, <1>2

LEMMA NotedType ==
  ASSUME TypeOK, NEW b \in Bundles
  PROVE  /\ Reference(b) \in [Classes -> Nat]
         /\ NotedSequences(b) \in [Classes -> Nat]
         /\ NotedGeneration(b) \in Generations \cup {InitialGeneration}
  <1>1. memory.sequences \in [Classes -> Nat]
        /\ memory.generation \in Generations \cup {InitialGeneration}
    BY DEF TypeOK, States
  <1>2. Reference(b) \in [Classes -> Nat]
    BY <1>1 DEF Reference, Unordered, None
  <1>3. \A c \in Classes : SequenceIn(b, c) \in Nat
    BY SequenceOfBundle
  <1>4. b.generation \in Generations
    BY DEF Bundles
  <1> QED BY <1>1, <1>2, <1>3, <1>4 DEF NotedSequences, NotedGeneration

(* The state after an evaluation that was not refused. *)
Taken(m, b, fenced, live) ==
    m = [sequences |-> NotedSequences(b), source |-> b.boot,
         generation |-> IF fenced THEN memory.generation ELSE NotedGeneration(b),
         live |-> live,
         accepted |-> Append(memory.accepted, [bundle |-> b, fenced |-> fenced])]

LEMMA FenceTakes ==
  ASSUME TypeOK, NEW b \in Bundles, Fence(b)
  PROVE  Taken(memory', b, TRUE, None)
  BY DEF TypeOK, States, Fence, Taking, Taken

LEMMA DecideTakes ==
  ASSUME TypeOK, NEW b \in Bundles, NEW live, Decide(b, live)
  PROVE  Taken(memory', b, FALSE, live)
  BY DEF TypeOK, States, Decide, Taking, Taken

LEMMA BundleType ==
  ASSUME NEW b \in Bundles
  PROVE  b.boot \in Nat /\ b.window \in Nat /\ b.generation \in Nat
  <1>1. b.boot \in 1..MaxBoots /\ b.window \in Nat \ {0} /\ b.generation \in Generations
    BY DEF Bundles
  <1>2. MaxBoots \in Nat /\ \A g \in Generations : g \in Nat
    BY EvidenceAssumption
  <1>3. b.boot \in Nat
    BY <1>1, <1>2
  <1>4. b.generation \in Nat
    BY <1>1, <1>2
  <1> QED BY <1>1, <1>3, <1>4

LEMMA HistoryType ==
  ASSUME NEW m \in States, NEW i \in DOMAIN m.accepted
  PROVE  m.accepted[i].bundle \in Bundles /\ m.accepted[i].fenced \in BOOLEAN
  <1> DEFINE Entries == [bundle : Bundles, fenced : BOOLEAN]
  <1>1. m.accepted \in Seq(Entries)
    BY DEF States
  <1>2. i \in 1..Len(m.accepted)
    BY <1>1
  <1>3. m.accepted[i] \in Entries
    <2> HIDE DEF Entries
    <2> QED BY <1>1, <1>2
  <1> QED BY <1>3

(* Evidence that is taken is newer in the common class than all that its   *)
(* boot has shown, and of no earlier generation than what was decided for. *)
LEMMA TakenIsNewer ==
  ASSUME Inv, NEW b \in collected, ~Refused(b), NEW i \in DOMAIN memory.accepted
  PROVE  /\ Common \in b.shows.present
         /\ memory.accepted[i].bundle.boot <= b.boot
         /\ memory.accepted[i].bundle.boot = b.boot => memory.accepted[i].bundle.window < b.window
         /\ b.generation # None /\ ~memory.accepted[i].fenced
            => memory.accepted[i].bundle.generation <= b.generation
  <1> DEFINE a == memory.accepted[i].bundle
  <1>1. /\ b \in Bundles /\ a \in Bundles /\ policy \in Policies
        /\ b.boot \in Nat /\ a.boot \in Nat /\ memory.source \in Nat /\ boot \in Nat
        /\ b.generation \in Nat /\ a.generation \in Nat /\ memory.generation \in Nat
        /\ b.window \in Nat /\ a.window \in Nat
        /\ memory.sequences \in [Classes -> Nat]
    <2>1. b \in Bundles /\ policy \in Policies /\ memory \in States /\ boot \in Nat
      BY DEF Inv, TypeOK
    <2>2. a \in Bundles
      BY <2>1, HistoryType
    <2>3. /\ memory.source \in Nat /\ memory.generation \in Nat
          /\ memory.sequences \in [Classes -> Nat]
      <3>1. /\ memory.source \in 0..MaxBoots
            /\ memory.generation \in Generations \cup {InitialGeneration}
            /\ memory.sequences \in [Classes -> Nat]
        BY <2>1 DEF States
      <3>2. /\ InitialGeneration \in Nat /\ MaxBoots \in Nat
            /\ \A g \in Generations : g \in Nat
        BY EvidenceAssumption
      <3>3. memory.source \in Nat
        BY <3>1, <3>2
      <3>4. memory.generation \in Nat
        BY <3>1, <3>2
      <3> QED BY <3>1, <3>3, <3>4
    <2> QED BY <2>1, <2>2, <2>3, BundleType
  <1>2. Common \in Classes /\ Common \in policy.required
    BY <1>1, CommonClass
  <1>3. b.boot = boot /\ Authoritative(b, Common) /\ ~Regressed(b)
    BY <1>2 DEF Refused
  <1>4. Common \in b.shows.present /\ Common \in a.shows.present
    BY <1>3 DEF Authoritative, Inv, Lineage, ShowsCommon
  <1>5. a.boot <= memory.source /\ memory.source <= boot
    BY DEF Inv, Lineage, BootsRise
  <1>6. ASSUME a.boot = b.boot PROVE a.window < b.window
    <2>1. memory.source = b.boot
      BY <1>1, <1>3, <1>5, <1>6
    <2>2. SequenceIn(a, Common) <= memory.sequences[Common]
      BY <1>2, <1>6, <2>1 DEF Inv, Lineage, MarksCover
    <2>3. SequenceIn(a, Common) = a.window /\ SequenceIn(b, Common) = b.window
          /\ a.window # None /\ b.window # None
      BY <1>1, <1>2, <1>4, SequenceOfBundle
    <2>4. Reference(b) = memory.sequences
      BY <2>1 DEF Reference
    <2>5. memory.sequences[Common] \in Nat
      BY <1>1, <1>2
    <2> QED BY <1>1, <1>3, <2>2, <2>3, <2>4, <2>5 DEF Authoritative, Reordered, None
  <1>7. ASSUME b.generation # None, ~memory.accepted[i].fenced
        PROVE  a.generation <= b.generation
    <2>1. a.generation <= memory.generation
      BY <1>7 DEF Inv, Lineage, GenerationCovers
    <2> QED BY <1>1, <1>3, <1>7, <2>1 DEF Regressed, None
  <1> QED BY <1>1, <1>3, <1>4, <1>5, <1>6, <1>7

LEMMA TakenKeepsLineage ==
  ASSUME Inv, NEW b \in collected, ~Refused(b),
         NEW fenced \in BOOLEAN, NEW live \in 0..MaxGrants,
         NEW m, Taken(m, b, fenced, live)
  PROVE  m \in States /\ Lineage(m)
  <1> DEFINE old == memory.accepted
             e == [bundle |-> b, fenced |-> fenced]
             n == Len(old) + 1
  <1>1. /\ b \in Bundles /\ policy \in Policies /\ boot \in 1..MaxBoots
        /\ old \in Seq([bundle : Bundles, fenced : BOOLEAN])
        /\ memory.source \in 0..MaxBoots /\ memory.sequences \in [Classes -> Nat]
        /\ memory.generation \in Generations \cup {InitialGeneration}
    BY DEF Inv, TypeOK, States
  <1>2. b.boot \in 1..MaxBoots /\ b.generation \in Generations
    BY <1>1 DEF Bundles
  <1>3. memory.generation \in Nat /\ b.generation \in Nat /\ b.boot \in Nat /\ boot \in Nat
        /\ memory.source \in Nat
    <2>1. /\ InitialGeneration \in Nat /\ MaxBoots \in Nat
          /\ \A g \in Generations : g \in Nat
      BY EvidenceAssumption
    <2>2. memory.generation \in Nat
      BY <1>1, <2>1
    <2>3. b.generation \in Nat
      BY <1>2, <2>1
    <2> QED BY <1>1, <1>2, <2>1, <2>2, <2>3
  <1>4. /\ DOMAIN m.accepted = 1..n /\ DOMAIN old = 1..(n - 1) /\ n \in Nat \ {0}
        /\ m.accepted[n] = e
        /\ \A i \in DOMAIN old : i # n /\ m.accepted[i] = old[i]
    BY <1>1 DEF Taken
  <1>5. /\ m.source = b.boot /\ m.sequences = NotedSequences(b)
        /\ m.generation = IF fenced THEN memory.generation ELSE NotedGeneration(b)
        /\ e.bundle = b /\ e.fenced = fenced
    BY DEF Taken
  <1>6. \A i \in DOMAIN m.accepted : i = n \/ i \in DOMAIN old
    BY <1>4
  <1>7. \A i \in DOMAIN old :
          /\ old[i].bundle \in Bundles /\ old[i].bundle.boot \in Nat
          /\ old[i].bundle.generation \in Nat
    BY HistoryType, BundleType DEF Inv, TypeOK
  <1>8. b.boot = boot /\ Common \in b.shows.present /\ Common \in Classes
    <2>1. Common \in policy.required /\ Common \in Classes
      BY <1>1, CommonClass
    <2> QED BY <2>1 DEF Refused, Authoritative
  <1>9. m \in States
    <2>1. e \in [bundle : Bundles, fenced : BOOLEAN]
      BY <1>1
    <2>2. Append(old, e) \in Seq([bundle : Bundles, fenced : BOOLEAN])
      BY <1>1, <2>1
    <2>3. /\ NotedSequences(b) \in [Classes -> Nat]
          /\ NotedGeneration(b) \in Generations \cup {InitialGeneration}
      BY <1>1, NotedType DEF Inv
    <2> QED BY <1>1, <1>2, <2>2, <2>3 DEF Taken, States
  <1>10. BootsRise(m)
    <2>1. m.source <= boot
      BY <1>3, <1>5, <1>8
    <2>2. \A i \in DOMAIN old : old[i].bundle.boot <= b.boot
      BY TakenIsNewer
    <2>3. ASSUME NEW i \in DOMAIN m.accepted PROVE m.accepted[i].bundle.boot <= m.source
      <3>1. CASE i = n
        BY <1>3, <1>4, <1>5, <3>1
      <3>2. CASE i \in DOMAIN old
        BY <1>4, <1>5, <2>2, <3>2
      <3> QED BY <1>6, <3>1, <3>2
    <2> QED BY <2>1, <2>3 DEF BootsRise
  <1>11. ShowsCommon(m)
    BY <1>4, <1>5, <1>6, <1>8 DEF ShowsCommon, Inv, Lineage
  <1>12. InOrder(m)
    <2> SUFFICES ASSUME NEW i \in DOMAIN m.accepted, NEW j \in DOMAIN m.accepted, i < j,
                        m.accepted[i].bundle.boot = m.accepted[j].bundle.boot
                 PROVE  m.accepted[i].bundle.window < m.accepted[j].bundle.window
      BY DEF InOrder
    <2>1. i \in DOMAIN old
      BY <1>4
    <2>2. CASE j = n
      BY <1>4, <1>5, <2>1, <2>2, TakenIsNewer
    <2>3. CASE j \in DOMAIN old
      BY <1>4, <2>1, <2>3 DEF Inv, Lineage, InOrder
    <2> QED BY <1>6, <2>2, <2>3
  <1>13. GenerationsInOrder(m)
    <2> SUFFICES ASSUME NEW i \in DOMAIN m.accepted, NEW j \in DOMAIN m.accepted, i < j,
                        m.accepted[j].bundle.generation # None, ~m.accepted[i].fenced
                 PROVE  m.accepted[i].bundle.generation <= m.accepted[j].bundle.generation
      BY DEF GenerationsInOrder
    <2>1. i \in DOMAIN old
      BY <1>4
    <2>2. CASE j = n
      BY <1>4, <1>5, <2>1, <2>2, TakenIsNewer
    <2>3. CASE j \in DOMAIN old
      BY <1>4, <2>1, <2>3 DEF Inv, Lineage, GenerationsInOrder
    <2> QED BY <1>6, <2>2, <2>3
  <1>14. GenerationCovers(m)
    <2>1. m.generation \in Nat /\ m.generation >= memory.generation
          /\ (~fenced => m.generation >= b.generation)
      BY <1>3, <1>5 DEF NotedGeneration
    <2> SUFFICES ASSUME NEW i \in DOMAIN m.accepted, ~m.accepted[i].fenced
                 PROVE  m.accepted[i].bundle.generation <= m.generation
      BY DEF GenerationCovers
    <2>2. CASE i = n
      BY <1>4, <1>5, <2>1, <2>2
    <2>3. CASE i \in DOMAIN old
      <3>1. old[i].bundle.generation <= memory.generation
        BY <1>4, <2>3 DEF Inv, Lineage, GenerationCovers
      <3>2. m.accepted[i].bundle = old[i].bundle /\ old[i].bundle.generation \in Nat
        BY <1>4, <1>7, <2>3
      <3> QED BY <1>3, <2>1, <3>1, <3>2
    <2> QED BY <1>6, <2>2, <2>3
  <1>15. GenerationShown(m)
    <2>1. CASE ~fenced /\ m.generation = b.generation
      BY <1>4, <1>5, <2>1 DEF GenerationShown
    <2>2. CASE m.generation = memory.generation
      BY <1>4, <2>2 DEF Inv, Lineage, GenerationShown
    <2> QED BY <1>5, <2>1, <2>2 DEF NotedGeneration
  <1>16. \A c \in Classes :
           /\ SequenceIn(b, c) \in Nat /\ Reference(b)[c] \in Nat
           /\ m.sequences[c] = IF SequenceIn(b, c) > Reference(b)[c]
                               THEN SequenceIn(b, c) ELSE Reference(b)[c]
    <2>1. Reference(b) \in [Classes -> Nat]
      BY <1>1, NotedType DEF Inv
    <2> QED BY <1>1, <1>5, <2>1, SequenceOfBundle DEF NotedSequences
  <1>17. MarksCover(m)
    <2> SUFFICES ASSUME NEW i \in DOMAIN m.accepted, m.accepted[i].bundle.boot = b.boot,
                        NEW c \in Classes
                 PROVE  SequenceIn(m.accepted[i].bundle, c) <= m.sequences[c]
      BY <1>5 DEF MarksCover
    <2>1. CASE i = n
      BY <1>4, <1>5, <1>16, <2>1
    <2>2. CASE i \in DOMAIN old
      <3>1. memory.source = b.boot
        BY <1>3, <1>4, <1>7, <1>8, <2>2 DEF Inv, Lineage, BootsRise
      <3>2. SequenceIn(old[i].bundle, c) <= Reference(b)[c]
        BY <1>4, <2>2, <3>1 DEF Inv, Lineage, MarksCover, Reference
      <3>3. SequenceIn(old[i].bundle, c) \in Nat
        BY <1>7, <2>2, SequenceOfBundle
      <3> QED BY <1>4, <1>16, <2>2, <3>2, <3>3
    <2> QED BY <1>6, <2>1, <2>2
  <1>18. MarksShown(m)
    <2> SUFFICES ASSUME NEW c \in Classes, m.sequences[c] # None
                 PROVE  \E i \in DOMAIN m.accepted :
                          /\ m.accepted[i].bundle.boot = b.boot
                          /\ SequenceIn(m.accepted[i].bundle, c) = m.sequences[c]
      BY <1>5 DEF MarksShown
    <2>1. CASE m.sequences[c] = SequenceIn(b, c)
      BY <1>4, <1>5, <2>1
    <2>2. CASE m.sequences[c] = Reference(b)[c]
      <3>1. memory.source = b.boot /\ memory.sequences[c] = m.sequences[c]
        BY <2>2 DEF Reference, Unordered
      <3>2. PICK i \in DOMAIN old : /\ old[i].bundle.boot = memory.source
                                    /\ SequenceIn(old[i].bundle, c) = memory.sequences[c]
        BY <3>1 DEF Inv, Lineage, MarksShown
      <3> QED BY <1>4, <3>1, <3>2
    <2> QED BY <1>16, <2>1, <2>2
  <1> QED BY <1>9, <1>10, <1>11, <1>12, <1>13, <1>14, <1>15, <1>17, <1>18 DEF Lineage

(* The invariant says why a bundle of the bound grant is refused. *)
LEMMA RefusalHasCause ==
  ASSUME Inv
  PROVE  RefusedForCause
  <1> SUFFICES ASSUME NEW b \in collected, Refused(b), b.grant = binding,
                      policy.enabled, policy.required \subseteq b.shows.present
               PROVE  \/ b.generation # None /\ b.generation < InitialGeneration
                      \/ \E k \in DOMAIN memory.accepted :
                           LET e == memory.accepted[k] IN
                             \/ e.bundle.boot = b.boot /\ b.window <= e.bundle.window
                             \/ /\ b.generation # None /\ b.generation < e.bundle.generation
                                /\ ~e.fenced
    BY DEF RefusedForCause
  <1>1. b \in Bundles /\ b.grant # None /\ b.boot = boot /\ Refused(b) /\ policy \in Policies
    <2>1. b \in Bundles /\ policy \in Policies
      BY DEF Inv, TypeOK
    <2>2. b.grant \in 1..MaxGrants
      BY <2>1 DEF Bundles
    <2> QED BY <2>1, <2>2 DEF Inv, GrantsOfBoot, None
  <1>2. CASE Regressed(b)
    BY <1>2 DEF Regressed, Inv, Lineage, GenerationShown
  <1>3. CASE \E c \in policy.required : Reordered(b, c)
    <2>1. PICK c \in policy.required : Reordered(b, c)
      BY <1>3
    <2>2. c \in Classes
      BY <1>1, EvidenceAssumption
    <2>3. memory.source = b.boot /\ memory.sequences[c] # None
          /\ SequenceIn(b, c) # None /\ SequenceIn(b, c) <= memory.sequences[c]
      BY <2>1, <2>2 DEF Reordered, Reference, Unordered
    <2>4. PICK k \in DOMAIN memory.accepted :
            /\ memory.accepted[k].bundle.boot = memory.source
            /\ SequenceIn(memory.accepted[k].bundle, c) = memory.sequences[c]
      BY <2>2, <2>3 DEF Inv, Lineage, MarksShown
    <2>5. memory.accepted[k].bundle \in Bundles
      BY HistoryType DEF Inv, TypeOK
    <2>6. SequenceIn(b, c) = b.window
          /\ SequenceIn(memory.accepted[k].bundle, c) = memory.accepted[k].bundle.window
      BY <1>1, <2>2, <2>3, <2>4, <2>5, SequenceOfBundle
    <2> QED BY <2>3, <2>4, <2>6
  <1> QED BY <1>1, <1>2, <1>3 DEF Refused, Authoritative

-----------------------------------------------------------------------------
(* Steps. *)

(* The history of a state does not depend on what runs but on its boots. *)
LEMMA LineageOfLaterBoot ==
  ASSUME NEW m \in States, Lineage(m), boot \in Nat, boot' \in Nat, boot <= boot'
  PROVE  Lineage(m)'
  <1>1. m.source \in Int
    BY DEF States
  <1>2. m.source <= boot'
    BY <1>1 DEF Lineage, BootsRise
  <1> QED BY <1>2 DEF Lineage, BootsRise, ShowsCommon, MarksCover, MarksShown, SequenceIn,
          GenerationCovers, GenerationShown, InOrder, GenerationsInOrder

LEMMA TakenKeepsInv ==
  ASSUME Inv, NEW b \in collected, ~Refused(b),
         NEW fenced \in BOOLEAN, NEW live \in 0..MaxGrants,
         Taken(memory', b, fenced, live),
         UNCHANGED <<process, source, disk>>
  PROVE  Inv'
  <1>1. memory' \in States /\ Lineage(memory')
    BY TakenKeepsLineage
  <1>2. TypeOK' /\ GrantsOfBoot'
    BY <1>1 DEF Inv, TypeOK, GrantsOfBoot, process, source
  <1>3. Lineage(memory)'
    BY <1>1 DEF process, Lineage, BootsRise, ShowsCommon, MarksCover, MarksShown, SequenceIn,
       GenerationCovers, GenerationShown, InOrder, GenerationsInOrder
  <1>4. Lineage(disk)'
    BY DEF Inv, process, Lineage, BootsRise, ShowsCommon, MarksCover, MarksShown, SequenceIn,
       GenerationCovers, GenerationShown, InOrder, GenerationsInOrder
  <1> QED BY <1>2, <1>3, <1>4 DEF Inv

LEMMA EvaluateKeepsInv ==
  ASSUME Inv, NEW b \in collected, Evaluate(b)
  PROVE  Inv'
  <1>1. b \in Bundles /\ None \in 0..MaxGrants /\ binding \in 0..MaxGrants
    <2>1. MaxGrants \in Nat
      BY EvidenceAssumption
    <2> QED BY <2>1 DEF Inv, TypeOK, None
  <1>2. CASE Refuse(b)
    BY <1>2 DEF Refuse, vars, Inv, TypeOK, GrantsOfBoot, process, source, Lineage, BootsRise,
       ShowsCommon, MarksCover, MarksShown, SequenceIn,
       GenerationCovers, GenerationShown, InOrder, GenerationsInOrder
  <1>3. CASE Fence(b)
    <2>1. Taken(memory', b, TRUE, None)
      BY <1>1, <1>3, FenceTakes DEF Inv
    <2> QED BY <1>1, <1>3, <2>1, TakenKeepsInv DEF Fence
  <1>4. ASSUME NEW live \in {None, binding}, Decide(b, live) PROVE Inv'
    <2>1. Taken(memory', b, FALSE, live)
      BY <1>1, <1>4, DecideTakes DEF Inv
    <2>2. live \in 0..MaxGrants
      BY <1>1
    <2> QED BY <1>4, <2>1, <2>2, TakenKeepsInv DEF Decide
  <1> QED BY <1>2, <1>3, <1>4 DEF Evaluate

LEMMA InitHolds == Init => Inv
  <1> SUFFICES ASSUME Init PROVE Inv
    OBVIOUS
  <1>1. Blank \in States /\ Lineage(Blank)
    BY BlankState DEF Init
  <1>2. MaxBoots \in Nat \ {0} /\ InitialPolicy \in Policies /\ MaxGrants \in Nat
    BY EvidenceAssumption
  <1> QED BY <1>1, <1>2 DEF Init, Inv, TypeOK, GrantsOfBoot, None

LEMMA NextKeepsInv == Inv /\ [Next]_vars => Inv'
  <1> SUFFICES ASSUME Inv, [Next]_vars PROVE Inv'
    OBVIOUS
  <1> USE DEF Inv
  <1>1. ASSUME NEW b \in collected, Evaluate(b) PROVE Inv'
    BY <1>1, EvaluateKeepsInv
  <1>2. /\ boot \in Nat /\ granted \in Nat /\ binding \in Nat
        /\ memory \in States /\ disk \in States
    BY EvidenceAssumption DEF TypeOK, None
  <1>3. ASSUME boot' = boot, memory' \in {memory, Blank}, disk' \in {memory, disk}
        PROVE  memory' \in States /\ disk' \in States /\ Lineage(memory)' /\ Lineage(disk)'
    <2>1. Blank \in States /\ Lineage(Blank)
      BY <1>2, BlankState
    <2>2. memory' \in States /\ Lineage(memory') /\ disk' \in States /\ Lineage(disk')
      BY <1>2, <1>3, <2>1
    <2> QED BY <1>3, <2>2 DEF Lineage, BootsRise, ShowsCommon, MarksCover, MarksShown, SequenceIn,
            GenerationCovers, GenerationShown, InOrder, GenerationsInOrder
  <1>4. ASSUME NEW g \in Generations, NEW o \in Observations, Collect(g, o) PROVE Inv'
    <2> DEFINE b == [boot |-> boot, grant |-> binding, window |-> windows + 1,
                     generation |-> g, shows |-> o]
    <2>1. b \in Bundles
      <3>1. binding = granted /\ binding # 0
        BY <1>4 DEF Collect, TypeOK, None
      <3>2. binding \in 1..MaxGrants /\ windows + 1 \in Nat \ {0} /\ boot \in 1..MaxBoots
        BY <3>1 DEF TypeOK
      <3> QED BY <3>2 DEF Bundles
    <2>2. collected' = collected \cup {b}
      BY <1>4 DEF Collect
    <2>3. TypeOK'
      BY <1>2, <1>4, <2>1, <2>2 DEF Collect, TypeOK, process
    <2>4. binding <= granted
      BY <1>2 DEF TypeOK, None
    <2>5. GrantsOfBoot'
      BY <1>4, <2>2, <2>4 DEF Collect, GrantsOfBoot, process
    <2> QED BY <1>3, <1>4, <2>3, <2>5 DEF Collect, process
  <1>5. CASE Bind
    <2>1. TypeOK'
      BY <1>2, <1>5, EvidenceAssumption DEF Bind, TypeOK, source
    <2>2. \A b \in collected : b.grant \in Int /\ b.grant < granted + 1
      <3> SUFFICES ASSUME NEW b \in collected PROVE b.grant \in Int /\ b.grant < granted + 1
        OBVIOUS
      <3>1. b.grant \in 1..MaxGrants /\ b.grant <= granted
        BY DEF TypeOK, Bundles, GrantsOfBoot
      <3> QED BY <1>2, <3>1
    <2>3. GrantsOfBoot'
      BY <1>2, <1>5, <2>2 DEF Bind, source, GrantsOfBoot
    <2> QED BY <1>3, <1>5, <2>1, <2>3 DEF Bind
  <1>6. ASSUME NEW p \in Policies, ConfigurePolicy(p) PROVE Inv'
    <2>1. TypeOK' /\ GrantsOfBoot'
      BY <1>6 DEF ConfigurePolicy, source, TypeOK, GrantsOfBoot
    <2> QED BY <1>3, <1>6, <2>1 DEF ConfigurePolicy
  <1>7. CASE Reset
    <2>1. TypeOK' /\ GrantsOfBoot'
      BY <1>3, <1>7 DEF Reset, process, source, TypeOK, GrantsOfBoot
    <2> QED BY <1>3, <1>7, <2>1 DEF Reset, process
  <1>8. CASE Save
    <2>1. TypeOK' /\ GrantsOfBoot'
      BY <1>3, <1>8 DEF Save, process, source, TypeOK, GrantsOfBoot
    <2> QED BY <1>3, <1>8, <2>1 DEF Save, process
  <1>9. CASE Restart
    <2>1. boot' \in Nat /\ boot <= boot'
      BY <1>2, <1>9 DEF Restart
    <2>2. Lineage(disk)'
      <3>1. \A m \in States : Lineage(m) => Lineage(m)'
        BY <1>2, <2>1, LineageOfLaterBoot
      <3> QED BY <1>2, <1>9, <3>1 DEF Restart, Lineage, BootsRise, ShowsCommon, MarksCover,
              MarksShown, SequenceIn, GenerationCovers, GenerationShown, InOrder, GenerationsInOrder
    <2>3. Lineage(memory)'
      BY <1>9, <2>2 DEF Restart, Restored, Lineage, BootsRise, ShowsCommon, MarksCover,
         MarksShown, SequenceIn, GenerationCovers, GenerationShown, InOrder, GenerationsInOrder
    <2>4. TypeOK'
      BY <1>2, <1>9, EvidenceAssumption DEF Restart, Restored, TypeOK
    <2>5. \A b \in collected : b.grant # None
      BY DEF TypeOK, Bundles, None
    <2>6. GrantsOfBoot'
      BY <1>9, <2>5 DEF Restart, GrantsOfBoot
    <2> QED BY <2>2, <2>3, <2>4, <2>6
  <1>10. CASE UNCHANGED vars
    <2>1. TypeOK' /\ GrantsOfBoot'
      BY <1>10 DEF vars, process, source, TypeOK, GrantsOfBoot
    <2> QED BY <1>3, <1>10, <2>1 DEF vars, process
  <1> QED BY <1>1, <1>4, <1>5, <1>6, <1>7, <1>8, <1>9, <1>10 DEF Next

THEOREM InvHolds == Spec => []Inv
  BY InitHolds, NextKeepsInv, PTL DEF Spec

(* Every variable keeps its type, for any classes, policies and bounds. *)
THEOREM TypeCorrect == Spec => []TypeOK
  <1>1. Inv => TypeOK
    BY DEF Inv
  <1> QED BY <1>1, InvHolds, PTL

(* However bundles are delivered and whatever grants, policies, resets and *)
(* restarts follow: evidence of a boot is taken in the order in which it   *)
(* was collected, and once (governor.cpp, evaluate_locked).                *)
THEOREM EvidenceIsOrdered == Spec => []TakenInOrder
  <1>1. Inv => TakenInOrder
    BY DEF Inv, Lineage, InOrder, TakenInOrder, Before
  <1> QED BY <1>1, InvHolds, PTL

(* Evidence that shows what is required is refused only behind evidence    *)
(* that was taken, or for its generation (detect.cpp, check_authority).    *)
THEOREM NeverDeaf == Spec => []RefusedForCause
  <1>1. Inv => RefusedForCause
    BY RefusalHasCause
  <1> QED BY <1>1, InvHolds, PTL

(* Decisions follow the generations of their destination, over restarts    *)
(* too (governor.cpp, evaluate_locked and restore_state).                  *)
THEOREM GenerationsAreMonotone == Spec => []GenerationsNeverGoBack
  <1>1. Inv => GenerationsNeverGoBack
    BY DEF Inv, Lineage, GenerationsInOrder, GenerationsNeverGoBack
  <1> QED BY <1>1, InvHolds, PTL
=================================================================================
