-------------------------- MODULE WorkerProcessProofs --------------------------
(***************************************************************************)
(* The worker process and its durable state, for any number of sessions,   *)
(* cycles and states and every snapshot threshold; only the last session   *)
(* may end inside a record or just before a removal.                       *)
(*                                                                         *)
(* The worker only ever takes steps of the store, so what DurableStore     *)
(* promises holds here.  What restarts may forget follows from where a     *)
(* decision can be: in a frame under way, in the governor in memory, among *)
(* those the coordinator accepted, and in the state recovery would read.   *)
(***************************************************************************)
EXTENDS WorkerProcess, DurableStoreProofs

GovernorType ==
    [boot : 0..MaxSessions, sequence : 0..MaxCycles, decided : SUBSET AllDecisions]

(* What recovery would hand to the governor. *)
Known == Committed(Recovered).decided

Types ==
    /\ sessions <= MaxSessions
    /\ pc # "closed" => sessions # 0
    /\ governor \in GovernorType
    /\ cycle \in 0..MaxCycles /\ lapsed \subseteq 1..sessions
    /\ answer \in {"none", "awaited", "accepted", "refused", "fenced"}
    /\ answer # "none" => pc = "idle"
    /\ frames \subseteq AllDecisions
    /\ contents \in Seq(GovernorType) /\ Len(contents) = versions
    /\ holder \in [{Destination} -> 0..Rival]
    /\ last \in [{Destination} -> 0..MaxCycles]
    /\ decisions \subseteq AllDecisions

(* Every decision was made in a session that has begun, and in the running *)
(* one in a cycle that has begun.                                          *)
Made(d) == d.incarnation <= sessions
           /\ (d.incarnation = sessions /\ pc # "closed" => d.sequence <= cycle)

NothingFromTheFuture ==
    /\ \A d \in frames \cup decisions \cup governor.decided : Made(d)
    /\ \A v \in 1..versions :
         /\ contents[v].boot <= sessions
         /\ \A d \in contents[v].decided : Made(d)
    /\ governor.boot <= sessions
    /\ governor.boot = sessions => governor.sequence <= cycle

(* A session has one decision under way, the one it waits for; what it has *)
(* had accepted before is durable.                                         *)
OneUnderWay ==
    /\ \A f, g \in frames : f.incarnation = g.incarnation => f = g
    /\ pc # "closed" => \A f \in frames :
         f.incarnation = sessions => answer = "awaited" /\ f.sequence = cycle
    /\ \A f \in frames, d \in decisions :
         d.incarnation = f.incarnation => d.sequence < f.sequence /\ d \in Known

(* The governor has decided what is durable and what it has had accepted;  *)
(* of the latter, only the current cycle's may not be durable yet.         *)
GovernorIsAhead ==
    pc # "closed" =>
      /\ Known \subseteq governor.decided
      /\ pc \in InProgress => contents[versions] = governor
      /\ \A d \in decisions : d.incarnation = sessions =>
           /\ d \in governor.decided
           /\ d \in Known \/ (d.sequence = cycle /\ ~(pc = "idle" /\ answer = "none"))

(* No committed state follows from a decision still under way. *)
CommittedWasAnswered ==
    /\ \A v \in 1..versions : contents[v].decided \cap frames = {}
    /\ governor.decided \cap frames \subseteq {Decision(sessions, cycle)}

WInv ==
    /\ SInv
    /\ Types
    /\ NothingFromTheFuture
    /\ OneUnderWay
    /\ GovernorIsAhead
    /\ CommittedWasAnswered
    /\ OnlyLastDecisionLost
    /\ OwnEvidenceIsTaken

-----------------------------------------------------------------------------
(* The worker's steps are steps of the store. *)

LEMMA StepsOfTheStore == [WorkerNext]_workerVars => [Next]_vars
<1> SUFFICES ASSUME [WorkerNext]_workerVars
             PROVE  [Next]_vars
  OBVIOUS
<1>1. CASE StartWorker
  BY <1>1 DEF StartWorker, Next
<1>2. CASE DecideAndPublish
  BY <1>2 DEF DecideAndPublish
<1>3. CASE \E boot \in 1..sessions : LeaseLapses(boot)
  BY <1>3 DEF LeaseLapses
<1>4. CASE \E d \in frames : AcceptDecision(d) \/ RefuseDecision(d) \/ FenceDecision(d)
  BY <1>4 DEF AcceptDecision, RefuseDecision, FenceDecision, Answer
<1>5. CASE SupersedeWorker
  BY <1>5 DEF SupersedeWorker
<1>6. CASE CommitAnswered
  BY <1>6 DEF CommitAnswered, HandOver, Next
<1>7. CASE ExitFenced
  BY <1>7 DEF ExitFenced, Next
<1>8. CASE CommitStep
  BY <1>8 DEF CommitStep, Next
<1>9. CASE DieAnywhere
  BY <1>9 DEF DieAnywhere, Next
<1>10. CASE UNCHANGED workerVars
  BY <1>10 DEF workerVars
<1> QED
  BY <1>1, <1>2, <1>3, <1>4, <1>5, <1>6, <1>7, <1>8, <1>9, <1>10 DEF WorkerNext

(* The worker process uses the durable store as DurableStore describes.    *)
THEOREM WorkerImplementsStore == WorkerSpec => Spec
<1>1. WorkerInit => Init
  BY DEF WorkerInit
<1> QED
  BY <1>1, StepsOfTheStore, PTL DEF WorkerSpec, Spec

-----------------------------------------------------------------------------
(* The worker's frames are what an authority expects. *)

(* Decisions carry the boot of a session and the number of a cycle.  This  *)
(* holds whatever the store does, so no fault is excluded.                 *)
Numbered ==
    /\ sessions \in 0..MaxSessions
    /\ pc # "closed" => sessions # 0
    /\ cycle \in 0..MaxCycles
    /\ frames \subseteq AllDecisions

LEMMA NextKeepsNumbered == Numbered /\ [WorkerNext]_workerVars => Numbered'
<1> SUFFICES ASSUME Numbered, [WorkerNext]_workerVars
             PROVE  Numbered'
  OBVIOUS
<1>1. MaxSessions \in Nat /\ MaxCycles \in Nat
  BY BoundsAssumption, CyclesAssumption
<1>2. CASE StartWorker
  BY <1>1, <1>2 DEF StartWorker, OpenAndRecover, Numbered
<1>3. CASE DecideAndPublish
  <2>1. /\ pc = "idle" /\ cycle < MaxCycles /\ cycle' = cycle + 1
        /\ frames' = frames \cup {Decision(sessions, cycle + 1)}
        /\ UNCHANGED <<pc, sessions>>
    BY <1>3 DEF DecideAndPublish, vars
  <2>2. Decision(sessions, cycle + 1) \in AllDecisions
    BY <1>1, <2>1 DEF Numbered, AllDecisions
  <2> QED
    BY <1>1, <2>1, <2>2 DEF Numbered
<1>4. CASE \E boot \in 1..sessions : LeaseLapses(boot)
  BY <1>4 DEF LeaseLapses, vars, Numbered
<1>5. CASE \E d \in frames : AcceptDecision(d) \/ RefuseDecision(d) \/ FenceDecision(d)
  BY <1>5 DEF AcceptDecision, RefuseDecision, FenceDecision, Answer, vars, Numbered
<1>6. CASE SupersedeWorker
  BY <1>6 DEF SupersedeWorker, vars, worker, Numbered
<1>7. CASE CommitAnswered
  BY <1>7 DEF CommitAnswered, HandOver, Commit, Given, Numbered
<1>8. CASE ExitFenced \/ DieAnywhere
  BY <1>1, <1>8
     DEF ExitFenced, DieAnywhere, Die, DieInRecord, MemoryIsLost, GovernorIsLost, Numbered
<1>9. CASE CommitStep
  <2>1. UNCHANGED <<sessions, cycle, frames>> /\ pc # "closed"
    BY <1>9 DEF CommitStep, worker, FirstJournal, AppendRecord, WriteSnapshot,
                RotateJournal, RemovePrevious, Acknowledge
  <2> QED
    BY <2>1 DEF Numbered
<1>10. CASE UNCHANGED workerVars
  BY <1>10 DEF workerVars, vars, worker, Numbered
<1> QED
  BY <1>2, <1>3, <1>4, <1>5, <1>6, <1>7, <1>8, <1>9, <1>10 DEF WorkerNext

LEMMA StepsOfTheAuthority ==
    ASSUME Numbered, WorkerNext
    PROVE  Authority!Next \/ UNCHANGED <<holder, last, decisions>>
<1>1. Rival \in Nat /\ Rival \in 1..Rival /\ 1..MaxSessions \subseteq 1..Rival
  BY BoundsAssumption DEF Rival
<1>2. CASE StartWorker
  <2>1. sessions + 1 \in 1..MaxSessions
    BY <1>2, BoundsAssumption DEF StartWorker, OpenAndRecover, Numbered
  <2> QED
    BY <1>1, <1>2, <2>1 DEF StartWorker, Authority!Next
<1>3. ASSUME NEW d \in frames, AcceptDecision(d)
      PROVE  Authority!Next
  <2>1. d.incarnation \in 1..MaxSessions /\ d.sequence \in 1..MaxCycles
    BY DEF Numbered, AllDecisions, Decision
  <2> QED
    BY <1>1, <1>3, <2>1 DEF AcceptDecision, Authority!Next
<1>4. ASSUME NEW d \in frames, FenceDecision(d)
      PROVE  Authority!Next
  BY <1>4 DEF FenceDecision, Authority!Next
<1>5. CASE SupersedeWorker
  BY <1>1, <1>5 DEF SupersedeWorker, Authority!Next
<1>6. CASE \E d \in frames : RefuseDecision(d)
  BY <1>6 DEF RefuseDecision, coordinator
<1>7. CASE DecideAndPublish \/ \E boot \in 1..sessions : LeaseLapses(boot)
  BY <1>7 DEF DecideAndPublish, LeaseLapses, coordinator
<1>8. CASE CommitAnswered \/ ExitFenced \/ CommitStep \/ DieAnywhere
  BY <1>8
     DEF CommitAnswered, HandOver, ExitFenced, CommitStep, DieAnywhere, GovernorIsLost,
         coordinator
<1> QED
  BY <1>2, <1>3, <1>4, <1>5, <1>6, <1>7, <1>8 DEF WorkerNext

(* The worker process, its deaths and the frames it leaves behind ask the  *)
(* coordinator for nothing but what LeaseAuthority grants, revokes and     *)
(* accepts: with CoordinatorImplementsAuthority the two processes meet in  *)
(* one interface (publish() in coordinator.cpp, and the worker's main()).  *)
THEOREM WorkerImplementsAuthority == WorkerSpec => Authority!Spec
<1>1. WorkerInit => Authority!Init /\ Numbered
  BY BoundsAssumption, CyclesAssumption DEF WorkerInit, Init, Numbered
<1>2. Numbered /\ [WorkerNext]_workerVars
        => [Authority!Next]_<<holder, last, decisions>>
  BY StepsOfTheAuthority DEF workerVars, coordinator
<1> QED
  BY <1>1, <1>2, NextKeepsNumbered, PTL DEF WorkerSpec, Authority!Spec

-----------------------------------------------------------------------------
(* What recovery would read, while the worker takes a step. *)

LEMMA RecoveredIsAVersion ==
    ASSUME SInv
    PROVE  versions \in Nat /\ sessions \in Nat /\ Recovered \in 0..versions
  BY RecoveredIsKnown

LEMMA BlankIsTyped ==
    ASSUME Types
    PROVE  Blank \in GovernorType
<1>1. 0 \in 0..MaxSessions /\ 0 \in 0..MaxCycles
  BY BoundsAssumption, CyclesAssumption
<1>2. {} \in SUBSET AllDecisions
  OBVIOUS
<1> QED
  BY <1>1, <1>2 DEF Blank, GovernorType

LEMMA CommittedIsTyped ==
    ASSUME WInv, NEW v \in 0..versions
    PROVE  /\ Committed(v) \in GovernorType
           /\ v # 0 => v \in 1..versions /\ Committed(v) = contents[v]
           /\ v = 0 => Committed(v) = Blank
<1>1. versions \in Nat
  BY RecoveredIsAVersion DEF WInv
<1>2. /\ v # 0 => v \in 1..versions /\ Committed(v) = contents[v]
      /\ v = 0 => Committed(v) = Blank
  BY <1>1 DEF Committed
<1>3. \A n \in 1..versions : contents[n] \in GovernorType
  BY DEF WInv, Types
<1> QED
  BY <1>2, <1>3, BlankIsTyped DEF WInv

(* A record of a decision is its incarnation and its sequence. *)
LEMMA DecisionIsItsNumbers ==
    ASSUME NEW d \in AllDecisions
    PROVE  /\ d.incarnation \in 1..MaxSessions /\ d.sequence \in 1..MaxCycles
           /\ d = Decision(d.incarnation, d.sequence)
  BY DEF AllDecisions, Decision

LEMMA Numbers ==
    ASSUME WInv
    PROVE  /\ sessions \in Nat /\ versions \in Nat /\ cycle \in Nat
           /\ governor.boot \in Nat /\ governor.sequence \in Nat
           /\ governor.decided \subseteq AllDecisions
           /\ \A v \in 1..versions :
                /\ contents[v] \in GovernorType
                /\ contents[v].boot \in Nat /\ contents[v].decided \subseteq AllDecisions
           /\ \A d \in AllDecisions : d.incarnation \in Nat /\ d.sequence \in Nat
           /\ \A d \in frames \cup decisions \cup governor.decided : Made(d)
<1>1. sessions \in Nat /\ versions \in Nat
  BY RecoveredIsAVersion DEF WInv
<1>2. \A g \in GovernorType :
        g.boot \in Nat /\ g.sequence \in Nat /\ g.decided \subseteq AllDecisions
  BY BoundsAssumption, CyclesAssumption DEF GovernorType
<1>3. \A v \in 1..versions : contents[v] \in GovernorType
  BY DEF WInv, Types
<1>4. governor \in GovernorType /\ cycle \in Nat
  BY CyclesAssumption DEF WInv, Types
<1>5. \A d \in AllDecisions : d.incarnation \in Nat /\ d.sequence \in Nat
  BY DecisionIsItsNumbers, BoundsAssumption, CyclesAssumption
<1> QED
  BY <1>1, <1>2, <1>3, <1>4, <1>5 DEF WInv, NothingFromTheFuture

LEMMA KnownSteps ==
    ASSUME FaultsComeLast, WInv, [Next]_vars,
           \A v \in 1..versions : contents'[v] = contents[v]
    PROVE  /\ SInv'
           /\ Recovered' \in 0..versions
           /\ Known \subseteq Known'
           /\ Known' = Known \/ (pc \in InProgress /\ Known' = governor.decided)
<1>1. /\ versions \in Nat /\ Recovered \in 0..versions
      /\ SInv /\ GovernorIsAhead
  BY RecoveredIsAVersion DEF WInv
<1>2. CASE Recovered' = Recovered
  <2>1. Known' = Known
    BY <1>1, <1>2 DEF Known, Committed, Blank
  <2>2. SInv'
    BY <1>1, NextKeepsSInv
  <2> QED
    BY <1>1, <1>2, <2>1, <2>2
<1>3. CASE UNCHANGED vars
  <2>1. Recovered' = Recovered
    BY <1>3 DEF vars, disk, Recovered, Readable
  <2> QED
    BY <1>2, <2>1
<1>4. CASE Next
  <2>1. /\ SInv'
        /\ \/ Recovered' = Recovered
           \/ IInv /\ pc \in InProgress /\ state = versions /\ Recovered' = versions
    BY <1>1, <1>4, RecoveredSteps
  <2>2. CASE IInv /\ pc \in InProgress /\ state = versions /\ Recovered' = versions
    <3>1. versions # 0 /\ versions \in 1..versions /\ contents[versions] = governor
      BY <1>1, <2>2 DEF IInv, GovernorIsAhead, InProgress
    <3>2. Known' = governor.decided
      BY <2>2, <3>1 DEF Known, Committed
    <3>3. Known \subseteq governor.decided
      BY <1>1, <2>2 DEF GovernorIsAhead, InProgress
    <3> QED
      BY <1>1, <2>1, <2>2, <3>2, <3>3
  <2> QED
    BY <1>2, <2>1, <2>2
<1> QED
  BY <1>3, <1>4

-----------------------------------------------------------------------------
(* The steps. *)

LEMMA DecideAndPublishKeepsWInv ==
    ASSUME FaultsComeLast, WInv, DecideAndPublish
    PROVE  WInv'
<1> DEFINE new == Decision(sessions, cycle + 1)
<1>1. /\ pc = "idle" /\ answer = "none" /\ cycle < MaxCycles /\ cycle' = cycle + 1
      /\ governor' = IF New(cycle + 1) /\ sessions \notin lapsed
                     THEN [boot |-> sessions, sequence |-> cycle + 1,
                           decided |-> governor.decided \cup {new}]
                     ELSE governor
      /\ frames' = frames \cup {new} /\ answer' = "awaited"
      /\ UNCHANGED <<vars, lapsed, contents, holder, last, decisions>>
  BY DEF DecideAndPublish, coordinator
<1>2. UNCHANGED <<snapshot, journals, pc, sessions, versions>>
  BY <1>1 DEF vars, disk
<1>3. SInv' /\ Known' = Known
  BY <1>1, <1>2, KnownSteps DEF InProgress
<1>4. /\ sessions \in 1..MaxSessions /\ cycle \in 0..MaxCycles /\ cycle' \in 1..MaxCycles
      /\ MaxCycles \in Nat /\ MaxSessions \in Nat
  BY <1>1, RecoveredIsAVersion, BoundsAssumption, CyclesAssumption DEF WInv, Types
<1>5. /\ new \in AllDecisions /\ new.incarnation = sessions /\ new.sequence = cycle + 1
  BY <1>1, <1>4 DEF Decision, AllDecisions
<1>6. \A d : Made(d) => d # new
  BY <1>1, <1>4, <1>5 DEF Made
<1>7. /\ \A f \in frames : f.incarnation # sessions
      /\ \A d \in AllDecisions : Made(d) => Made(d)'
  <2>1. \A f \in frames : f.incarnation # sessions
    BY <1>1 DEF WInv, OneUnderWay
  <2>2. \A d \in AllDecisions : Made(d) => Made(d)'
    BY <1>1, <1>2, Numbers DEF Made
  <2> QED
    BY <2>1, <2>2
<1>8. Types'
  <2>1. governor' \in GovernorType
    BY <1>1, <1>4, <1>5 DEF WInv, Types, GovernorType
  <2> QED
    BY <1>1, <1>2, <1>4, <1>5, <2>1 DEF WInv, Types
<1>9. NothingFromTheFuture'
  <2>1. \A d \in {new} : Made(d)'
    BY <1>1, <1>2, <1>5, Numbers DEF Made
  <2>2. governor'.decided \subseteq governor.decided \cup {new}
    BY <1>1
  <2>3. \A d \in frames' \cup decisions' \cup governor'.decided : Made(d)'
    BY <1>1, <1>7, <2>1, <2>2, Numbers DEF WInv, Types
  <2>4. \A v \in 1..versions : \A d \in contents[v].decided : Made(d)'
    BY <1>7, Numbers DEF WInv, NothingFromTheFuture
  <2>5. /\ governor'.boot <= sessions
        /\ governor'.boot = sessions => governor'.sequence <= cycle'
    BY <1>1, <1>4, Numbers DEF WInv, NothingFromTheFuture
  <2> QED
    BY <1>1, <1>2, <2>3, <2>4, <2>5 DEF WInv, NothingFromTheFuture
<1>10. OneUnderWay'
  <2>1. \A f, g \in frames' : f.incarnation = g.incarnation => f = g
    BY <1>1, <1>5, <1>7 DEF WInv, OneUnderWay
  <2>2. \A d \in decisions : d.incarnation = sessions => d.sequence < cycle + 1 /\ d \in Known
    BY <1>1, Numbers DEF WInv, GovernorIsAhead, Made, Types
  <2>3. \A f \in frames', d \in decisions :
          d.incarnation = f.incarnation => d.sequence < f.sequence /\ d \in Known
    BY <1>1, <1>5, <2>2 DEF WInv, OneUnderWay
  <2> QED
    BY <1>1, <1>2, <1>3, <1>5, <1>7, <2>1, <2>3 DEF OneUnderWay
<1>11. GovernorIsAhead'
  BY <1>1, <1>2, <1>3, <1>4, <1>5, <1>7 DEF WInv, GovernorIsAhead, InProgress
<1>12. CommittedWasAnswered'
  BY <1>1, <1>2, <1>4, <1>5, <1>6, <1>7
     DEF WInv, CommittedWasAnswered, NothingFromTheFuture, Decision
<1>13. OnlyLastDecisionLost'
  BY <1>1, <1>3 DEF WInv, OnlyLastDecisionLost, Known
<1>14. OwnEvidenceIsTaken'
  <2>1. New(cycle + 1)
    BY Numbers DEF WInv, NothingFromTheFuture, New
  <2> QED
    BY <1>1, <1>2, <2>1 DEF OwnEvidenceIsTaken
<1> QED
  BY <1>3, <1>8, <1>9, <1>10, <1>11, <1>12, <1>13, <1>14 DEF WInv

LEMMA LeaseLapsesKeepsWInv ==
    ASSUME FaultsComeLast, WInv, NEW boot \in 1..sessions, LeaseLapses(boot)
    PROVE  WInv'
<1>1. /\ lapsed' = lapsed \cup {boot}
      /\ UNCHANGED <<vars, governor, cycle, answer, frames, contents, holder, last, decisions>>
  BY DEF LeaseLapses, coordinator
<1>2. UNCHANGED <<pc, sessions, versions>>
  BY <1>1 DEF vars
<1>3. SInv' /\ Known' = Known
  <2>1. SInv'
    BY <1>1, StutterKeepsSInv DEF WInv
  <2>2. Recovered' = Recovered
    BY <1>1 DEF vars, disk, Recovered, Readable
  <2> QED
    BY <1>1, <2>1, <2>2 DEF Known, Committed, Blank
<1>4. Types'
  BY <1>1, <1>2 DEF WInv, Types
<1>5. NothingFromTheFuture'
  BY <1>1, <1>2 DEF WInv, NothingFromTheFuture, Made
<1>6. OneUnderWay'
  BY <1>1, <1>2, <1>3 DEF WInv, OneUnderWay
<1>7. GovernorIsAhead'
  BY <1>1, <1>2, <1>3 DEF WInv, GovernorIsAhead
<1>8. CommittedWasAnswered'
  BY <1>1, <1>2 DEF WInv, CommittedWasAnswered, Decision
<1>9. OnlyLastDecisionLost' /\ OwnEvidenceIsTaken'
  BY <1>1, <1>2, <1>3 DEF WInv, OnlyLastDecisionLost, OwnEvidenceIsTaken, Known, Decision
<1> QED
  BY <1>3, <1>4, <1>5, <1>6, <1>7, <1>8, <1>9 DEF WInv

LEMMA AcceptKeepsWInv ==
    ASSUME FaultsComeLast, WInv, NEW new \in frames, AcceptDecision(new)
    PROVE  WInv'
<1>1. new \in AllDecisions /\ new = Decision(new.incarnation, new.sequence)
  BY DecisionIsItsNumbers DEF WInv, Types
<1>2. /\ new.incarnation \notin lapsed
      /\ decisions' = decisions \cup {new}
      /\ frames' = frames \ {new}
      /\ answer' = IF new.incarnation = sessions /\ answer = "awaited"
                   THEN "accepted" ELSE answer
      /\ last' = [last EXCEPT ![Destination] = new.sequence]
      /\ UNCHANGED <<vars, governor, cycle, lapsed, contents, holder>>
  BY <1>1 DEF AcceptDecision, Answer, Authority!Accept, Decision
<1>3. UNCHANGED <<pc, sessions, versions>>
  BY <1>2 DEF vars
<1>4. SInv' /\ Known' = Known
  <2>1. SInv'
    BY <1>2, StutterKeepsSInv DEF WInv
  <2>2. Recovered' = Recovered
    BY <1>2 DEF vars, disk, Recovered, Readable
  <2> QED
    BY <1>2, <2>1, <2>2 DEF Known, Committed, Blank
<1>5. Types'
  <2>1. new.sequence \in 1..MaxCycles
    BY <1>1 DEF AllDecisions, Decision
  <2>2. new.sequence \in 0..MaxCycles
    BY <2>1, CyclesAssumption
  <2>3. last' \in [{Destination} -> 0..MaxCycles]
    BY <1>2, <2>2 DEF WInv, Types
  <2> QED
    BY <1>1, <1>2, <1>3, <2>3 DEF WInv, Types
<1>6. NothingFromTheFuture'
  BY <1>2, <1>3 DEF WInv, NothingFromTheFuture, Made
<1>7. OneUnderWay'
  BY <1>2, <1>3, <1>4 DEF WInv, OneUnderWay
<1>8. GovernorIsAhead'
  <2>1. ASSUME pc # "closed", new.incarnation = sessions
        PROVE  new \in governor.decided /\ new.sequence = cycle /\ answer' = "accepted"
    <3>1. answer = "awaited" /\ new.sequence = cycle
      BY <2>1 DEF WInv, OneUnderWay
    <3> QED
      BY <1>1, <1>2, <2>1, <3>1 DEF WInv, OwnEvidenceIsTaken
  <2>2. answer # "none" => answer' # "none"
    BY <1>2
  <2> QED
    BY <1>2, <1>3, <1>4, <2>1, <2>2 DEF WInv, GovernorIsAhead
<1>9. CommittedWasAnswered'
  BY <1>2, <1>3 DEF WInv, CommittedWasAnswered, Decision
<1>10. OnlyLastDecisionLost'
  <2>1. \A d \in AllDecisions : d.sequence <= d.sequence
    BY Numbers
  <2>2. \A d \in decisions : d.incarnation = new.incarnation =>
          d.sequence <= new.sequence /\ d \in Known
    <3>1. \A d \in decisions : d.incarnation = new.incarnation =>
            d.sequence < new.sequence /\ d \in Known
      BY DEF WInv, OneUnderWay
    <3> QED
      BY <1>1, <3>1, Numbers DEF WInv, Types
  <2> QED
    BY <1>1, <1>2, <1>4, <2>1, <2>2 DEF WInv, OnlyLastDecisionLost, Known
<1>11. OwnEvidenceIsTaken'
  BY <1>2, <1>3 DEF WInv, OwnEvidenceIsTaken, Decision
<1> QED
  BY <1>4, <1>5, <1>6, <1>7, <1>8, <1>9, <1>10, <1>11 DEF WInv

(* A decision is refused, or its lease is revoked for it. *)
LEMMA NotAcceptedKeepsWInv ==
    ASSUME FaultsComeLast, WInv, NEW d0 \in frames, RefuseDecision(d0) \/ FenceDecision(d0)
    PROVE  WInv'
<1>1. /\ frames' = frames \ {d0}
      /\ \/ answer' = answer
         \/ d0.incarnation = sessions /\ answer = "awaited" /\ answer' \in {"refused", "fenced"}
      /\ UNCHANGED <<vars, governor, cycle, lapsed, contents, decisions>>
  BY DEF RefuseDecision, FenceDecision, Answer, Authority!Revoke, coordinator
<1>2. holder' \in [{Destination} -> 0..Rival] /\ last' \in [{Destination} -> 0..MaxCycles]
  <2>1. CASE RefuseDecision(d0)
    BY <2>1 DEF RefuseDecision, coordinator, WInv, Types
  <2>2. CASE FenceDecision(d0)
    <3>1. holder' = [d \in {Destination} |-> 0] /\ last' = [d \in {Destination} |-> 0]
      BY <2>2 DEF FenceDecision, Authority!Revoke, Authority!Nobody, Destination
    <3>2. 0 \in 0..Rival /\ 0 \in 0..MaxCycles
      BY BoundsAssumption, CyclesAssumption DEF Rival
    <3> QED
      BY <3>1, <3>2
  <2> QED
    BY <2>1, <2>2
<1>3. UNCHANGED <<pc, sessions, versions>>
  BY <1>1 DEF vars
<1>4. SInv' /\ Known' = Known
  <2>1. SInv'
    BY <1>1, StutterKeepsSInv DEF WInv
  <2>2. Recovered' = Recovered
    BY <1>1 DEF vars, disk, Recovered, Readable
  <2> QED
    BY <1>1, <2>1, <2>2 DEF Known, Committed, Blank
<1>5. Types'
  BY <1>1, <1>2, <1>3 DEF WInv, Types
<1>6. NothingFromTheFuture'
  BY <1>1, <1>3 DEF WInv, NothingFromTheFuture, Made
<1>7. OneUnderWay'
  BY <1>1, <1>3, <1>4 DEF WInv, OneUnderWay
<1>8. GovernorIsAhead'
  BY <1>1, <1>3, <1>4 DEF WInv, GovernorIsAhead
<1>9. CommittedWasAnswered'
  BY <1>1, <1>3 DEF WInv, CommittedWasAnswered, Decision
<1>10. OnlyLastDecisionLost' /\ OwnEvidenceIsTaken'
  BY <1>1, <1>3, <1>4 DEF WInv, OnlyLastDecisionLost, OwnEvidenceIsTaken, Known, Decision
<1> QED
  BY <1>4, <1>5, <1>6, <1>7, <1>8, <1>9, <1>10 DEF WInv

LEMMA SupersedeKeepsWInv ==
    ASSUME FaultsComeLast, WInv, SupersedeWorker
    PROVE  WInv'
<1>1. /\ holder' \in [{Destination} -> 0..Rival] /\ last' \in [{Destination} -> 0..MaxCycles]
      /\ UNCHANGED <<vars, governor, cycle, answer, lapsed, frames, contents, decisions>>
  <2>1. Rival \in 0..Rival /\ 0 \in 0..MaxCycles
    BY BoundsAssumption, CyclesAssumption DEF Rival
  <2>2. /\ holder' = [holder EXCEPT ![Destination] = Rival]
        /\ last' = [last EXCEPT ![Destination] = 0]
        /\ UNCHANGED <<vars, governor, cycle, answer, lapsed, frames, contents, decisions>>
    BY DEF SupersedeWorker, Authority!Grant, worker
  <2> QED
    BY <2>1, <2>2 DEF WInv, Types
<1>2. UNCHANGED <<pc, sessions, versions>>
  BY <1>1 DEF vars
<1>3. SInv' /\ Known' = Known
  <2>1. SInv'
    BY <1>1, StutterKeepsSInv DEF WInv
  <2>2. Recovered' = Recovered
    BY <1>1 DEF vars, disk, Recovered, Readable
  <2> QED
    BY <1>1, <2>1, <2>2 DEF Known, Committed, Blank
<1>4. Types'
  BY <1>1, <1>2 DEF WInv, Types
<1>5. NothingFromTheFuture'
  BY <1>1, <1>2 DEF WInv, NothingFromTheFuture, Made
<1>6. OneUnderWay' /\ GovernorIsAhead'
  BY <1>1, <1>2, <1>3 DEF WInv, OneUnderWay, GovernorIsAhead
<1>7. CommittedWasAnswered'
  BY <1>1, <1>2 DEF WInv, CommittedWasAnswered, Decision
<1>8. OnlyLastDecisionLost' /\ OwnEvidenceIsTaken'
  BY <1>1, <1>2, <1>3 DEF WInv, OnlyLastDecisionLost, OwnEvidenceIsTaken, Known, Decision
<1> QED
  BY <1>3, <1>4, <1>5, <1>6, <1>7, <1>8 DEF WInv

LEMMA CommitKeepsWInv ==
    ASSUME FaultsComeLast, WInv, CommitAnswered
    PROVE  WInv'
<1>1. /\ pc = "idle" /\ answer \in {"accepted", "refused"} /\ Commit
      /\ versions' = versions + 1 /\ pc' = "append"
      /\ contents' = Append(contents, governor) /\ answer' = "none"
      /\ UNCHANGED <<sessions, governor, cycle, lapsed, frames, holder, last, decisions>>
  BY DEF CommitAnswered, HandOver, Commit, Given, coordinator
<1>2. /\ contents \in Seq(GovernorType) /\ Len(contents) = versions /\ versions \in Nat
      /\ governor \in GovernorType
  BY Numbers DEF WInv, Types
<1>3. /\ contents' \in Seq(GovernorType) /\ Len(contents') = versions + 1
      /\ \A v \in 1..versions : contents'[v] = contents[v]
      /\ contents'[versions + 1] = governor
  BY <1>1, <1>2
<1>4. /\ versions' \in 1..versions' /\ contents'[versions'] = governor
      /\ \A v \in 1..versions' : v \in 1..versions \/ v = versions'
  BY <1>1, <1>2, <1>3
<1>5. SInv' /\ Known' = Known
  <2>1. [Next]_vars
    BY <1>1 DEF Next
  <2>2. pc \notin InProgress
    BY <1>1 DEF InProgress
  <2> QED
    BY <1>3, <2>1, <2>2, KnownSteps
<1>6. \A f \in frames : f.incarnation # sessions
  BY <1>1 DEF WInv, OneUnderWay
<1>7. Types'
  BY <1>1, <1>3 DEF WInv, Types
<1>8. NothingFromTheFuture'
  BY <1>1, <1>3, <1>4 DEF WInv, NothingFromTheFuture, Made
<1>9. OneUnderWay'
  BY <1>1, <1>5, <1>6 DEF WInv, OneUnderWay
<1>10. GovernorIsAhead'
  BY <1>1, <1>4, <1>5 DEF WInv, GovernorIsAhead
<1>11. CommittedWasAnswered'
  <2>1. governor.decided \cap frames = {}
    BY <1>6 DEF WInv, CommittedWasAnswered, Decision
  <2> QED
    BY <1>1, <1>3, <1>4, <2>1 DEF WInv, CommittedWasAnswered
<1>12. OnlyLastDecisionLost' /\ OwnEvidenceIsTaken'
  BY <1>1, <1>5 DEF WInv, OnlyLastDecisionLost, OwnEvidenceIsTaken, Known
<1> QED
  BY <1>5, <1>7, <1>8, <1>9, <1>10, <1>11, <1>12 DEF WInv

LEMMA CommitStepKeepsWInv ==
    ASSUME FaultsComeLast, WInv, CommitStep
    PROVE  WInv'
<1>1. /\ pc \in InProgress
      /\ pc' # "closed" /\ (pc' = "idle" => pc = "done")
      /\ UNCHANGED <<sessions, versions>>
  BY DEF CommitStep, FirstJournal, AppendRecord, WriteSnapshot, RotateJournal,
         RemovePrevious, Acknowledge, InProgress
<1>2. UNCHANGED <<governor, cycle, answer, lapsed, frames, contents, holder, last, decisions>>
  BY DEF CommitStep, worker, coordinator
<1>3. /\ SInv' /\ Known \subseteq Known'
      /\ Known' = Known \/ Known' = governor.decided
  <2>1. [Next]_vars
    BY DEF CommitStep, Next
  <2> QED
    BY <1>2, <2>1, KnownSteps
<1>4. pc # "closed" /\ pc # "idle" /\ answer = "none"
  BY <1>1 DEF InProgress, WInv, Types
<1>5. /\ contents[versions] = governor
      /\ Known \subseteq governor.decided
      /\ \A d \in decisions : d.incarnation = sessions =>
           d \in governor.decided /\ (d \in Known \/ d.sequence = cycle)
  BY <1>1, <1>4 DEF WInv, GovernorIsAhead
<1>6. pc' = "idle" => Known' = governor.decided
  <2> SUFFICES ASSUME pc' = "idle"
               PROVE  governor.decided \subseteq Known
    BY <1>3, <1>5
  <2>1. pc = "done"
    BY <1>1
  <2>2. Recovered = versions /\ versions # 0
    <3>1. IInv
      BY <1>4 DEF WInv, SInv, AtTheEnd
    <3>2. ReadsLatest
      BY <3>1, RecoveryReadsLatest
    <3> QED
      BY <2>1, <3>1, <3>2 DEF IInv, ReadsLatest, InProgress
  <2> QED
    BY <1>5, <2>2 DEF Known, Committed
<1>7. Types'
  BY <1>1, <1>2, <1>4 DEF WInv, Types
<1>8. NothingFromTheFuture'
  BY <1>1, <1>2, <1>4 DEF WInv, NothingFromTheFuture, Made
<1>9. OneUnderWay'
  BY <1>1, <1>2, <1>3, <1>4 DEF WInv, OneUnderWay
<1>10. GovernorIsAhead'
  BY <1>1, <1>2, <1>3, <1>5, <1>6 DEF GovernorIsAhead
<1>11. CommittedWasAnswered'
  BY <1>1, <1>2 DEF WInv, CommittedWasAnswered, Decision
<1>12. OnlyLastDecisionLost' /\ OwnEvidenceIsTaken'
  BY <1>1, <1>2, <1>3, <1>4 DEF WInv, OnlyLastDecisionLost, OwnEvidenceIsTaken, Known
<1> QED
  BY <1>3, <1>7, <1>8, <1>9, <1>10, <1>11, <1>12 DEF WInv

LEMMA DeathKeepsWInv ==
    ASSUME FaultsComeLast, WInv, ExitFenced \/ DieAnywhere
    PROVE  WInv'
<1>1. /\ pc # "closed" /\ (Die \/ DieInRecord)
      /\ governor' = Blank /\ cycle' = 0 /\ answer' = "none"
      /\ UNCHANGED <<lapsed, frames, contents, holder, last, decisions>>
  BY DEF ExitFenced, DieAnywhere, Die, DieInRecord, GovernorIsLost, coordinator
<1>2. pc' = "closed" /\ UNCHANGED <<sessions, versions>>
  BY <1>1 DEF Die, DieInRecord
<1>3. SInv' /\ Known \subseteq Known'
  <2>1. [Next]_vars
    BY <1>1 DEF Next
  <2> QED
    BY <1>1, <2>1, KnownSteps
<1>4. Blank \in GovernorType /\ 0 \in 0..MaxCycles
  BY BlankIsTyped, CyclesAssumption DEF WInv
<1>5. Types'
  BY <1>1, <1>2, <1>4 DEF WInv, Types
<1>6. NothingFromTheFuture'
  BY <1>1, <1>2, Numbers DEF WInv, NothingFromTheFuture, Made, Blank
<1>7. OneUnderWay' /\ GovernorIsAhead'
  BY <1>1, <1>2, <1>3 DEF WInv, OneUnderWay, GovernorIsAhead
<1>8. CommittedWasAnswered'
  BY <1>1, <1>2 DEF WInv, CommittedWasAnswered, Blank
<1>9. OnlyLastDecisionLost' /\ OwnEvidenceIsTaken'
  BY <1>1, <1>3 DEF WInv, OnlyLastDecisionLost, OwnEvidenceIsTaken, Known
<1> QED
  BY <1>3, <1>5, <1>6, <1>7, <1>8, <1>9 DEF WInv

LEMMA StartWorkerKeepsWInv ==
    ASSUME FaultsComeLast, WInv, StartWorker
    PROVE  WInv'
<1>1. /\ pc = "closed" /\ sessions < MaxSessions /\ OpenAndRecover
      /\ sessions' = sessions + 1 /\ pc' = "idle" /\ versions' = versions
      /\ holder' = [holder EXCEPT ![Destination] = sessions + 1]
      /\ last' = [last EXCEPT ![Destination] = 0]
      /\ governor' = Committed(Recovered) /\ cycle' = 0 /\ answer' = "none"
      /\ UNCHANGED <<lapsed, frames, contents, decisions>>
  BY DEF StartWorker, OpenAndRecover, Authority!Grant
<1>2. SInv' /\ Known' = Known
  <2>1. [Next]_vars
    BY <1>1 DEF Next
  <2>2. pc \notin InProgress
    BY <1>1 DEF InProgress
  <2> QED
    BY <1>1, <2>1, <2>2, KnownSteps
<1>3. /\ governor' \in GovernorType /\ governor'.decided = Known
      /\ governor'.boot \in Nat /\ governor'.boot <= sessions
      /\ Known \cap frames = {}
      /\ \A d \in Known : Made(d) /\ d \in AllDecisions
  <2>1. Recovered \in 0..versions
    BY RecoveredIsAVersion DEF WInv
  <2>2. CASE Recovered = 0
    BY <1>1, <2>1, <2>2, CommittedIsTyped, Numbers DEF Known, Blank
  <2>3. CASE Recovered # 0
    <3>1. Recovered \in 1..versions /\ Committed(Recovered) = contents[Recovered]
      BY <2>1, <2>3, CommittedIsTyped
    <3> QED
      BY <1>1, <3>1, Numbers DEF Known, WInv, NothingFromTheFuture, CommittedWasAnswered
  <2> QED
    BY <2>2, <2>3
<1>4. \A d \in AllDecisions : Made(d) => d.incarnation # sessions' /\ d.incarnation <= sessions'
  BY <1>1, Numbers DEF Made
<1>5. Types'
  <2>1. /\ sessions' \in Nat /\ sessions' <= MaxSessions /\ sessions' # 0
        /\ sessions' \in 0..Rival /\ 0 \in 0..MaxCycles
        /\ 1..sessions \subseteq 1..sessions'
    BY <1>1, Numbers, BoundsAssumption, CyclesAssumption DEF Rival
  <2> QED
    BY <1>1, <1>3, <2>1 DEF WInv, Types
<1>6. NothingFromTheFuture'
  <2>1. \A d \in AllDecisions : Made(d) => Made(d)'
    BY <1>1, <1>4 DEF Made
  <2>2. \A d \in frames' \cup decisions' \cup governor'.decided : Made(d)'
    BY <1>1, <1>3, <2>1, Numbers DEF WInv, Types
  <2>3. \A v \in 1..versions : /\ contents[v].boot <= sessions'
                               /\ \A d \in contents[v].decided : Made(d)'
    BY <1>1, <2>1, Numbers DEF WInv, NothingFromTheFuture
  <2>4. governor'.boot <= sessions' /\ governor'.boot # sessions'
    BY <1>1, <1>3, Numbers
  <2> QED
    BY <1>1, <2>2, <2>3, <2>4 DEF NothingFromTheFuture
<1>7. OneUnderWay'
  BY <1>1, <1>2, <1>4, Numbers DEF WInv, OneUnderWay, Types
<1>8. GovernorIsAhead'
  BY <1>1, <1>2, <1>3, <1>4, Numbers DEF WInv, GovernorIsAhead, Types, InProgress
<1>9. CommittedWasAnswered'
  BY <1>1, <1>3 DEF WInv, CommittedWasAnswered
<1>10. OnlyLastDecisionLost' /\ OwnEvidenceIsTaken'
  BY <1>1, <1>2 DEF WInv, OnlyLastDecisionLost, OwnEvidenceIsTaken, Known
<1> QED
  BY <1>2, <1>5, <1>6, <1>7, <1>8, <1>9, <1>10 DEF WInv

LEMMA WorkerInitIsWInv == WorkerInit => WInv
<1> SUFFICES ASSUME WorkerInit
             PROVE  WInv
  OBVIOUS
<1>1. /\ Init /\ governor = Blank /\ cycle = 0 /\ lapsed = {} /\ answer = "none"
      /\ frames = {} /\ contents = <<>> /\ decisions = {}
      /\ holder = [d \in {Destination} |-> 0] /\ last = [d \in {Destination} |-> 0]
      /\ sessions = 0 /\ versions = 0 /\ pc = "closed"
  BY DEF WorkerInit, Init, Authority!Init, Authority!Nobody
<1>2. SInv
  BY <1>1, InitIsIInv DEF SInv
<1>3. /\ 0 \in 0..MaxSessions /\ 0 \in 0..MaxCycles /\ 0 \in 0..Rival
      /\ 0 <= MaxSessions
  BY BoundsAssumption, CyclesAssumption DEF Rival
<1>4. Blank \in GovernorType
  BY <1>3 DEF Blank, GovernorType
<1>5. Types
  BY <1>1, <1>3, <1>4 DEF Types
<1>6. NothingFromTheFuture
  BY <1>1, <1>3 DEF NothingFromTheFuture, Blank
<1>7. OneUnderWay /\ GovernorIsAhead /\ CommittedWasAnswered
  BY <1>1 DEF OneUnderWay, GovernorIsAhead, CommittedWasAnswered, Blank
<1>8. OnlyLastDecisionLost /\ OwnEvidenceIsTaken
  BY <1>1 DEF OnlyLastDecisionLost, OwnEvidenceIsTaken
<1> QED
  BY <1>2, <1>5, <1>6, <1>7, <1>8 DEF WInv

LEMMA WorkerStutterKeepsWInv == WInv /\ UNCHANGED workerVars => WInv'
<1> SUFFICES ASSUME WInv, UNCHANGED workerVars
             PROVE  WInv'
  OBVIOUS
<1>1. UNCHANGED <<vars, governor, cycle, answer, lapsed, frames, contents, holder, last, decisions>>
  BY DEF workerVars, worker, coordinator
<1>2. UNCHANGED <<pc, sessions, versions>>
  BY <1>1 DEF vars
<1>3. SInv' /\ Known' = Known
  <2>1. SInv'
    BY <1>1, StutterKeepsSInv DEF WInv
  <2>2. Recovered' = Recovered
    BY <1>1 DEF vars, disk, Recovered, Readable
  <2> QED
    BY <1>1, <2>1, <2>2 DEF Known, Committed, Blank
<1>4. Types' /\ NothingFromTheFuture'
  BY <1>1, <1>2 DEF WInv, Types, NothingFromTheFuture, Made
<1>5. OneUnderWay' /\ GovernorIsAhead'
  BY <1>1, <1>2, <1>3 DEF WInv, OneUnderWay, GovernorIsAhead
<1>6. CommittedWasAnswered'
  BY <1>1, <1>2 DEF WInv, CommittedWasAnswered, Decision
<1>7. OnlyLastDecisionLost' /\ OwnEvidenceIsTaken'
  BY <1>1, <1>2, <1>3 DEF WInv, OnlyLastDecisionLost, OwnEvidenceIsTaken, Known, Decision
<1> QED
  BY <1>3, <1>4, <1>5, <1>6, <1>7 DEF WInv

LEMMA WorkerInductive == ASSUME FaultsComeLast PROVE WorkerSpec => []WInv
<1>1. WorkerInit => WInv
  BY WorkerInitIsWInv
<1>2. WInv /\ [WorkerNext]_workerVars => WInv'
  <2> SUFFICES ASSUME WInv, [WorkerNext]_workerVars
               PROVE  WInv'
    OBVIOUS
  <2>1. CASE StartWorker
    BY <2>1, StartWorkerKeepsWInv
  <2>2. CASE DecideAndPublish
    BY <2>2, DecideAndPublishKeepsWInv
  <2>3. CASE \E boot \in 1..sessions : LeaseLapses(boot)
    BY <2>3, LeaseLapsesKeepsWInv
  <2>4. CASE \E d \in frames : AcceptDecision(d) \/ RefuseDecision(d) \/ FenceDecision(d)
    <3>1. PICK d \in frames : AcceptDecision(d) \/ RefuseDecision(d) \/ FenceDecision(d)
      BY <2>4
    <3>2. CASE AcceptDecision(d)
      BY <3>2, AcceptKeepsWInv
    <3>3. CASE RefuseDecision(d) \/ FenceDecision(d)
      BY <3>3, NotAcceptedKeepsWInv
    <3> QED
      BY <3>1, <3>2, <3>3
  <2>5. CASE SupersedeWorker
    BY <2>5, SupersedeKeepsWInv
  <2>6. CASE CommitAnswered
    BY <2>6, CommitKeepsWInv
  <2>7. CASE ExitFenced \/ DieAnywhere
    BY <2>7, DeathKeepsWInv
  <2>8. CASE CommitStep
    BY <2>8, CommitStepKeepsWInv
  <2>9. CASE UNCHANGED workerVars
    BY <2>9, WorkerStutterKeepsWInv
  <2> QED
    BY <2>1, <2>2, <2>3, <2>4, <2>5, <2>6, <2>7, <2>8, <2>9 DEF WorkerNext
<1> QED
  BY <1>1, <1>2, PTL DEF WorkerSpec

-----------------------------------------------------------------------------
(* What restarts may forget, and what they may not. *)

(* Every variable has its type, the files of the store included. *)
THEOREM WorkerTypeCorrect == ASSUME FaultsComeLast PROVE WorkerSpec => []WorkerTypeOK
<1>1. WInv => WorkerTypeOK
  <2> SUFFICES ASSUME WInv
               PROVE  WorkerTypeOK
    OBVIOUS
  <2>1. holder[Destination] \in 0..Rival /\ Len(contents) = versions
    BY DEF WInv, Types
  <2> QED
    BY <2>1 DEF WInv, SInv, IInv, AtTheEnd, Types, GovernorType, WorkerTypeOK
<1> QED
  BY <1>1, WorkerInductive, PTL

(* No restart replays a decision that is still under way: a state that     *)
(* follows from a decision is handed to the store after its answer.        *)
THEOREM OnlyAnsweredIsDurable ==
    ASSUME FaultsComeLast PROVE WorkerSpec => []DurableWasAnswered
<1>1. WInv => DurableWasAnswered
  <2> SUFFICES ASSUME WInv
               PROVE  DurableWasAnswered
    OBVIOUS
  <2>1. Recovered \in 0..versions
    BY RecoveredIsAVersion DEF WInv
  <2>2. CASE Recovered = 0
    BY <2>1, <2>2, CommittedIsTyped DEF DurableWasAnswered, Blank
  <2>3. CASE Recovered # 0
    <3>1. Recovered \in 1..versions /\ Committed(Recovered) = contents[Recovered]
      BY <2>1, <2>3, CommittedIsTyped
    <3> QED
      BY <3>1 DEF WInv, CommittedWasAnswered, DurableWasAnswered
  <2> QED
    BY <2>2, <2>3
<1> QED
  BY <1>1, WorkerInductive, PTL

(* A death costs the durable state one accepted decision of its session    *)
(* at most, however many sessions there have been.                         *)
THEOREM OneDecisionLostPerSession ==
    ASSUME FaultsComeLast PROVE WorkerSpec => []OnlyLastDecisionLost
<1>1. WInv => OnlyLastDecisionLost
  BY DEF WInv
<1> QED
  BY <1>1, WorkerInductive, PTL

(* A restored governor takes the evidence of its new boot.                 *)
THEOREM RestoredTakesOwnEvidence ==
    ASSUME FaultsComeLast PROVE WorkerSpec => []OwnEvidenceIsTaken
<1>1. WInv => OwnEvidenceIsTaken
  BY DEF WInv
<1> QED
  BY <1>1, WorkerInductive, PTL

(* The worker's commits are never lost once they are acknowledged, as long *)
(* as no session follows one that died inside a record or before a removal *)
(* (durable.cpp, called by the worker tool).                               *)
THEOREM WorkerLosesNothingAcknowledged ==
    ASSUME FaultsComeLast PROVE WorkerSpec => []AcknowledgedIsRecoverable
BY WorkerImplementsStore, NothingAcknowledgedIsLost, PTL
=================================================================================
