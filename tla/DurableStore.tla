------------------------------ MODULE DurableStore ------------------------------
(***************************************************************************)
(* The durable store of a worker process (src/src/durable.cpp): numbered   *)
(* journals of state records, a snapshot that replaces them from time to   *)
(* time, and the recovery that reads both back.                            *)
(*                                                                         *)
(* A governor state is represented by a version: the larger, the later it  *)
(* was handed to the store.  Its one caller is the worker process, which   *)
(* recovers first, then commits or checkpoints one state after another and *)
(* exits as soon as a call fails, so an I/O error and a crash at the same  *)
(* point leave the same files behind.  Every file operation is an action,  *)
(* and the process may die between any two of them.                        *)
(***************************************************************************)
EXTENDS Naturals, Sequences, FiniteSetsExt

CONSTANTS
    SnapshotThreshold,  \* DurableConfig::max_journal_records_before_snapshot
    Faults,             \* the deaths and failures inside an operation that happen
    FaultySessions,     \* the sessions they happen in
    MaxSessions,        \* bound on the process's starts
    MaxVersions         \* bound on the states handed to the store

ASSUME ThresholdAssumption == SnapshotThreshold \in Nat \ {0}
ASSUME FaultsAssumption ==
    Faults \subseteq {"TornRecord", "MissedRemoval", "FailedRemoval"}
ASSUME BoundsAssumption ==
    MaxSessions \in Nat /\ MaxVersions \in Nat /\ FaultySessions \subseteq Nat

VARIABLES
    snapshot,   \* the version in governor.snapshot; 0 when the file is absent
    journals,   \* by rotation index, the records of governor.<index>.journal
    path,       \* the index in journal_path_; 0 when it is empty
    previous,   \* checkpoint's local: the index to remove after the rotation
    index,      \* journal_epoch_
    records,    \* records_since_snapshot_
    state,      \* the version the store has been given, or has recovered
    pc,         \* where the call in progress is
    sessions,   \* process starts so far
    versions,   \* history: the versions used so far
    acked       \* history: the last version whose commit returned success

disk == <<snapshot, journals>>
memory == <<path, previous, index, records, state>>
vars == <<disk, memory, pc, sessions, versions, acked>>

(* What is left of a record when the process dies while it is written.     *)
Torn == 0

-----------------------------------------------------------------------------
(* recover()'s reading of the files. *)

(* Mutant: a journal with a damaged record is rejected as a whole.         *)
ReadableWholly(j) ==
    IF \E n \in DOMAIN journals[j] : journals[j][n] = Torn THEN <<>> ELSE journals[j]

(* The records before the first damaged one. *)
Readable(j) ==
    LET damaged == {n \in DOMAIN journals[j] : journals[j][n] = Torn} IN
    IF damaged = {} THEN journals[j]
    ELSE SubSeq(journals[j], 1, Min(damaged) - 1)

(* The state recovery ends with: journals replay in the order of their     *)
(* indices over the snapshot, so the last readable record wins.            *)
Recovered ==
    LET replayed == {j \in DOMAIN journals : Readable(j) # <<>>} IN
    IF replayed = {} THEN snapshot
    ELSE LET last == Readable(Max(replayed)) IN last[Len(last)]

(* The journal that appends continue in. *)
NewestJournal == IF DOMAIN journals = {} THEN 0 ELSE Max(DOMAIN journals)

Happens(fault) == fault \in Faults /\ sessions \in FaultySessions

-----------------------------------------------------------------------------
Init ==
    /\ snapshot = 0
    /\ journals = [j \in {} |-> <<>>]
    /\ path = 0
    /\ previous = 0
    /\ index = 0
    /\ records = 0
    /\ state = 0
    /\ pc = "closed"
    /\ sessions = 0
    /\ versions = 0
    /\ acked = 0

(* Mutant: the rotation index starts over in every session. *)
OpenAndForget ==
    /\ pc = "closed"
    /\ sessions < MaxSessions
    /\ state' = Recovered
    /\ path' = NewestJournal
    /\ index' = 0
    /\ previous' = 0
    /\ records' = 0
    /\ pc' = "idle"
    /\ sessions' = sessions + 1
    /\ UNCHANGED <<disk, versions, acked>>

(* open(), then recover(). *)
OpenAndRecover ==
    /\ pc = "closed"
    /\ sessions < MaxSessions
    /\ state' = Recovered
    /\ path' = NewestJournal
    /\ index' = NewestJournal
    /\ previous' = 0
    /\ records' = 0
    /\ pc' = "idle"
    /\ sessions' = sessions + 1
    /\ UNCHANGED <<disk, versions, acked>>

Given(next) ==
    /\ pc = "idle"
    /\ versions < MaxVersions
    /\ versions' = versions + 1
    /\ state' = versions + 1
    /\ pc' = next
    /\ UNCHANGED <<disk, path, previous, index, records, sessions, acked>>

Commit == Given("append")

Checkpoint == Given("snapshot")

(* rotate_journal: an empty journal under the next index, in place of any  *)
(* file of that name.                                                      *)
Rotated ==
    /\ index' = index + 1
    /\ journals' = [j \in DOMAIN journals \cup {index + 1} |->
                      IF j = index + 1 THEN <<>> ELSE journals[j]]
    /\ path' = index + 1
    /\ records' = 0

(* append, in a session that has no journal yet. *)
FirstJournal ==
    /\ pc = "append"
    /\ path = 0
    /\ Rotated
    /\ UNCHANGED <<snapshot, previous, state, pc, sessions, versions, acked>>

Appended(record) ==
    journals' = [journals EXCEPT ![path] = Append(@, record)]

(* Mutant: the checkpoint that a commit makes rotates and writes no snapshot. *)
AppendAndRotate ==
    /\ pc = "append"
    /\ path # 0
    /\ Appended(state)
    /\ records' = records + 1
    /\ pc' = IF records + 1 >= SnapshotThreshold THEN "rotate" ELSE "done"
    /\ UNCHANGED <<snapshot, path, previous, index, state, sessions, versions, acked>>

AppendRecord ==
    /\ pc = "append"
    /\ path # 0
    /\ Appended(state)
    /\ records' = records + 1
    /\ pc' = IF records + 1 >= SnapshotThreshold THEN "snapshot" ELSE "done"
    /\ UNCHANGED <<snapshot, path, previous, index, state, sessions, versions, acked>>

WriteSnapshot ==
    /\ pc = "snapshot"
    /\ snapshot' = state
    /\ pc' = "rotate"
    /\ UNCHANGED <<journals, memory, sessions, versions, acked>>

RotateJournal ==
    /\ pc = "rotate"
    /\ previous' = path
    /\ Rotated
    /\ pc' = "remove"
    /\ UNCHANGED <<snapshot, state, sessions, versions, acked>>

Keeping(J) == journals' = [j \in J |-> journals[j]]

(* Mutant: the journal that has just been opened is removed. *)
RemoveCurrent ==
    /\ pc = "remove"
    /\ Keeping(DOMAIN journals \ {path})
    /\ previous' = 0
    /\ pc' = "done"
    /\ UNCHANGED <<snapshot, path, index, records, state, sessions, versions, acked>>

(* A removal that fails is ignored. *)
RemovalOutcomes == IF Happens("FailedRemoval") THEN BOOLEAN ELSE {TRUE}

RemovePrevious ==
    /\ pc = "remove"
    /\ \E removed \in RemovalOutcomes :
         Keeping(IF removed THEN DOMAIN journals \ ({previous} \ {path})
                            ELSE DOMAIN journals)
    /\ previous' = 0
    /\ pc' = "done"
    /\ UNCHANGED <<snapshot, path, index, records, state, sessions, versions, acked>>

(* The call returns success. *)
Acknowledge ==
    /\ pc = "done"
    /\ acked' = state
    /\ pc' = "idle"
    /\ UNCHANGED <<disk, memory, sessions, versions>>

-----------------------------------------------------------------------------
MemoryIsLost ==
    /\ path' = 0 /\ previous' = 0 /\ index' = 0 /\ records' = 0 /\ state' = 0

(* The process ends: it exits, a file operation fails, or it is killed.    *)
Die ==
    /\ pc # "closed"
    /\ pc = "remove" /\ previous # 0 => Happens("MissedRemoval")
    /\ pc' = "closed"
    /\ MemoryIsLost
    /\ UNCHANGED <<disk, sessions, versions, acked>>

(* It is killed, or the write falls short, in the middle of a record.      *)
DieInRecord ==
    /\ Happens("TornRecord")
    /\ pc = "append"
    /\ path # 0
    /\ Appended(Torn)
    /\ pc' = "closed"
    /\ MemoryIsLost
    /\ UNCHANGED <<snapshot, sessions, versions, acked>>

Next ==
    \/ OpenAndRecover
    \/ Commit
    \/ Checkpoint
    \/ FirstJournal
    \/ AppendRecord
    \/ WriteSnapshot
    \/ RotateJournal
    \/ RemovePrevious
    \/ Acknowledge
    \/ Die
    \/ DieInRecord

Spec == Init /\ [][Next]_vars

-----------------------------------------------------------------------------
(* Type correctness of the files, the store object and the call. *)
TypeOK ==
    /\ {snapshot, path, previous, index, records, state, sessions, versions, acked}
         \subseteq Nat
    /\ DOMAIN journals \subseteq Nat \ {0}
    /\ \A j \in DOMAIN journals : journals[j] \in Seq(Nat)
    /\ pc \in {"closed", "idle", "append", "snapshot", "rotate", "remove", "done"}
    /\ path # 0 /\ pc # "closed" => path \in DOMAIN journals

(* ARCHITECTURE.md, section 4: a commit is acknowledged only once it is    *)
(* durable.  At every moment the files hold the last acknowledged state or *)
(* a later one, if the process died between any two file operations other  *)
(* than a rotation and its removal; in the last session it may also have   *)
(* died there, or inside a record.  A session after either death can lose  *)
(* what it acknowledged: behind a damaged record, or to the journal that   *)
(* was not removed and replays over a newer snapshot, although the section *)
(* says that a crash between the steps of a checkpoint loses nothing.      *)
AcknowledgedIsRecoverable == Recovered >= acked

(* What a recovery would read back never goes back to an older state,      *)
(* acknowledged or not: neither a death in the middle of a record, nor the *)
(* steps of a checkpoint, nor a new session's rotation takes one away;     *)
(* under the same restriction on the sessions that die there.              *)
RecoveryNeverGoesBack == [][Recovered' >= Recovered]_vars

(* No rotation, of this session or a later one, takes the name of a        *)
(* journal that exists: a journal's records stay until a checkpoint        *)
(* removes the file.                                                       *)
JournalsOnlyGrow ==
    [][\A j \in DOMAIN journals \cap DOMAIN journals' :
         /\ Len(journals[j]) <= Len(journals'[j])
         /\ SubSeq(journals'[j], 1, Len(journals[j])) = journals[j]]_vars
================================================================================
