------------------------------ MODULE WorkerProcess ------------------------------
(***************************************************************************)
(* The worker tool (src/tools/incast_governor_worker.cpp): a process that  *)
(* acquires a lease, restores its governor from the durable store, and     *)
(* then, cycle by cycle, evaluates a window, publishes the decision, waits *)
(* for the coordinator's answer and commits the governor's state.  It      *)
(* composes the store of DurableStore, step by step, with what the         *)
(* coordinator promises (LeaseAuthority, which Coordinator implements).    *)
(* Governor says what is decided; here a governor state is known by the    *)
(* decisions it follows from and by the evidence it has taken last.        *)
(*                                                                         *)
(* The number of a session is its boot incarnation.  The process may die   *)
(* anywhere, and its frames may be handled after its death.  One worker    *)
(* process uses the state directory at a time.                             *)
(***************************************************************************)
EXTENDS DurableStore

CONSTANTS MaxCycles   \* WorkerOptions::cycles

ASSUME CyclesAssumption == MaxCycles \in Nat

VARIABLES
    governor,   \* the state of the governor in memory
    cycle,      \* cycles begun in this session
    lapsed,     \* the sessions whose lease has expired; none is ever renewed
    answer,     \* publish()'s reply; "awaited" while it blocks, "none" before
    frames,     \* the decisions sent and not handled yet
    contents,   \* history: the governor states committed, by version
    holder,     \* the coordinator: who holds the destination
    last,       \* the coordinator: the number of its last decision accepted
    decisions   \* the coordinator: the decisions it accepted

coordinator == <<holder, last, decisions>>
worker == <<governor, cycle, lapsed, answer, frames, contents>>
workerVars == <<vars, worker, coordinator>>

Destination == 1

Rival == MaxSessions + 1

Authority == INSTANCE LeaseAuthority WITH
    Destinations <- {Destination},
    Incarnations <- 1..Rival,
    Sequences <- 1..MaxCycles

Decision(boot, n) == [destination |-> Destination, incarnation |-> boot, sequence |-> n]

(* A governor that has evaluated nothing. *)
Blank == [boot |-> 0, sequence |-> 0, decided |-> {}]

Committed(version) == IF version = 0 THEN Blank ELSE contents[version]

-----------------------------------------------------------------------------
WorkerInit ==
    /\ Init
    /\ Authority!Init
    /\ governor = Blank
    /\ cycle = 0 /\ lapsed = {} /\ answer = "none"
    /\ frames = {} /\ contents = <<>>

(* Mutant: the recovered state is not handed to the governor. *)
StartWithoutRestoring ==
    /\ OpenAndRecover
    /\ Authority!Grant(Destination, sessions + 1)
    /\ governor' = Blank
    /\ cycle' = 0 /\ answer' = "none"
    /\ UNCHANGED <<lapsed, frames, contents>>

(* A process starts with a fresh boot, acquires the lease, recovers and    *)
(* restores the governor.  Until it publishes it changes nothing that      *)
(* another process can see but the holder, so this is one step; a process  *)
(* that is denied the lease exits.                                         *)
StartWorker ==
    /\ OpenAndRecover
    /\ Authority!Grant(Destination, sessions + 1)
    /\ governor' = Committed(Recovered)
    /\ cycle' = 0 /\ answer' = "none"
    /\ UNCHANGED <<lapsed, frames, contents>>

(* Mutant: sequences are compared across restarts. *)
NewInAnyBoot(n) == n > governor.sequence

(* Evidence is ordered within a boot. *)
New(n) == governor.boot # sessions \/ n > governor.sequence

(* evaluate() and the send of publish().  A decision that refuses the      *)
(* evidence is published as well, but leaves the state as it is.           *)
DecideAndPublish ==
    /\ pc = "idle" /\ answer = "none" /\ cycle < MaxCycles
    /\ cycle' = cycle + 1
    /\ governor' = IF New(cycle + 1) /\ sessions \notin lapsed
                   THEN [boot |-> sessions, sequence |-> cycle + 1,
                         decided |-> governor.decided \cup {Decision(sessions, cycle + 1)}]
                   ELSE governor
    /\ frames' = frames \cup {Decision(sessions, cycle + 1)}
    /\ answer' = "awaited"
    /\ UNCHANGED <<vars, lapsed, contents, coordinator>>

(* Worker and coordinator share a host and its clock, which is read where  *)
(* a decision is made or handled.                                          *)
LeaseLapses(boot) ==
    /\ boot \notin lapsed
    /\ \/ boot = sessions /\ pc = "idle" /\ answer = "none"
       \/ \E d \in frames : d.incarnation = boot
    /\ lapsed' = lapsed \cup {boot}
    /\ UNCHANGED <<vars, governor, cycle, answer, frames, contents, coordinator>>

-----------------------------------------------------------------------------
(* The coordinator handles a decision. *)

(* The reply reaches the process if it is still there. *)
Answer(d, reply) ==
    /\ d \in frames
    /\ frames' = frames \ {d}
    /\ answer' = IF d.incarnation = sessions /\ answer = "awaited" THEN reply ELSE answer
    /\ UNCHANGED <<vars, governor, cycle, lapsed, contents>>

AcceptDecision(d) ==
    /\ d.incarnation \notin lapsed
    /\ Authority!Accept(Destination, d.incarnation, d.sequence)
    /\ Answer(d, "accepted")

(* LeaseMissing or LeaseExpired: the process does not count as fenced. *)
RefuseDecision(d) ==
    /\ holder[Destination] # d.incarnation \/ d.incarnation \in lapsed
    /\ Answer(d, "refused")
    /\ UNCHANGED coordinator

(* EpochMismatch, which revokes the lease. *)
FenceDecision(d) ==
    /\ holder[Destination] = d.incarnation
    /\ Authority!Revoke({Destination})
    /\ Answer(d, "fenced")

(* Another worker is granted the destination. *)
SupersedeWorker ==
    /\ Authority!Grant(Destination, Rival)
    /\ UNCHANGED <<vars, worker>>

-----------------------------------------------------------------------------
(* The rest of the cycle. *)

(* The governor's state is handed to commit(). *)
HandOver ==
    /\ Commit
    /\ contents' = Append(contents, governor)
    /\ answer' = "none"
    /\ UNCHANGED <<governor, cycle, lapsed, frames, coordinator>>

(* Mutant: the state is committed before the reply is there. *)
CommitUnanswered == answer = "awaited" /\ HandOver

(* Accepted or not: only a process that is fenced stops. *)
CommitAnswered == answer \in {"accepted", "refused"} /\ HandOver

GovernorIsLost ==
    /\ governor' = Blank /\ cycle' = 0 /\ answer' = "none"
    /\ UNCHANGED <<lapsed, frames, contents, coordinator>>

ExitFenced ==
    /\ answer = "fenced"
    /\ Die
    /\ GovernorIsLost

(* A step of the commit in progress. *)
CommitStep ==
    /\ FirstJournal \/ AppendRecord \/ WriteSnapshot \/ RotateJournal \/ RemovePrevious
       \/ Acknowledge
    /\ UNCHANGED <<worker, coordinator>>

(* Killed, out of cycles, or after a failed call or a broken connection. *)
DieAnywhere ==
    /\ Die \/ DieInRecord
    /\ GovernorIsLost

WorkerNext ==
    \/ StartWorker
    \/ DecideAndPublish
    \/ \E boot \in 1..sessions : LeaseLapses(boot)
    \/ \E d \in frames : AcceptDecision(d) \/ RefuseDecision(d) \/ FenceDecision(d)
    \/ SupersedeWorker
    \/ CommitAnswered
    \/ ExitFenced
    \/ CommitStep
    \/ DieAnywhere

WorkerSpec == WorkerInit /\ [][WorkerNext]_workerVars

-----------------------------------------------------------------------------
(* Properties. *)

AllDecisions == {Decision(boot, n) : boot \in 1..MaxSessions, n \in 1..MaxCycles}

(* Every variable, the store's included, has its type. *)
WorkerTypeOK ==
    /\ TypeOK
    /\ governor \in [boot : 0..MaxSessions, sequence : 0..MaxCycles,
                     decided : SUBSET AllDecisions]
    /\ cycle \in 0..MaxCycles /\ lapsed \subseteq 1..sessions
    /\ answer \in {"none", "awaited", "accepted", "refused", "fenced"}
    /\ frames \subseteq AllDecisions
    /\ Len(contents) = versions
    /\ holder[Destination] \in 0..Rival /\ last[Destination] \in 0..MaxCycles
    /\ decisions \subseteq AllDecisions

(* A restart never replays from the durable state a decision that the      *)
(* coordinator has not answered ("an enforcement intent that was never   *)
(* delivered must not be replayed from durable state after a restart",     *)
(* worker.cpp).                                                            *)
DurableWasAnswered == Committed(Recovered).decided \cap frames = {}

(* Of the decisions that the coordinator accepted from an incarnation, the *)
(* durable state misses at most the last: the one whose commit its death   *)
(* prevented.                                                              *)
OnlyLastDecisionLost ==
    \A d \in decisions \ Committed(Recovered).decided, e \in decisions :
      e.incarnation = d.incarnation => e.sequence <= d.sequence

(* A restarted worker numbers its evidence from 1 again, and the governor  *)
(* takes it while the lease lasts, although the state it restored has      *)
(* taken higher numbers from an earlier boot.                              *)
OwnEvidenceIsTaken ==
    answer = "awaited" /\ sessions \notin lapsed => Decision(sessions, cycle) \in governor.decided
=================================================================================
