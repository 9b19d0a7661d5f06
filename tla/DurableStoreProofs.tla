--------------------------- MODULE DurableStoreProofs ---------------------------
(***************************************************************************)
(* The durable store keeps what it acknowledged, for every snapshot        *)
(* threshold and any number of sessions and states.  A session may end     *)
(* inside a record or just before a removal, and recovery reads what the   *)
(* files held before; but the files it leaves are not safe to go on with,  *)
(* as the runs show, so the theorems let the last session alone end so.    *)
(***************************************************************************)
EXTENDS DurableStore, TLAPS

(* The journals hold whole records of states that were handed to the store. *)
Whole(js) ==
    /\ DOMAIN js \subseteq Nat \ {0}
    /\ \A j \in DOMAIN js : js[j] \in Seq(1..versions)

(* Between two calls there is one journal, the one that appends continue   *)
(* in; a rotation has a second one until it has removed it, and the newer  *)
(* of the two is empty.                                                    *)
Rotating == pc = "remove" /\ previous # 0

OneJournal ==
    /\ Rotating => DOMAIN journals = {previous, path} /\ previous < path
    /\ ~Rotating /\ pc # "closed" =>
         DOMAIN journals = IF path = 0 THEN {} ELSE {path}
    /\ pc = "closed" => \A m, n \in DOMAIN journals : m = n
    /\ pc = "remove" => path # 0 /\ journals[path] = <<>>
    /\ pc # "closed" => index = path

(* What recovery would read, when no record is damaged. *)
Full(js) == {j \in DOMAIN js : js[j] # <<>>}

Latest(snap, js) ==
    IF Full(js) = {} THEN snap ELSE js[Max(Full(js))][Len(js[Max(Full(js))])]

InProgress == {"append", "snapshot", "rotate", "remove", "done"}

(* While no session has ended in the middle of a record or a removal. *)
IInv ==
    /\ TypeOK
    /\ Whole(journals)
    /\ OneJournal
    /\ snapshot <= versions
    /\ pc \in InProgress => state = versions /\ versions # 0
    /\ pc \in {"rotate", "remove"} => snapshot = state
    /\ pc = "done" => Latest(snapshot, journals) = state
    /\ acked <= Latest(snapshot, journals)

(* After the last session, however it ended. *)
AtTheEnd ==
    /\ pc = "closed" /\ sessions >= MaxSessions
    /\ TypeOK
    /\ Recovered \in 0..versions
    /\ acked <= Recovered

SInv == IInv \/ AtTheEnd

(* What may go wrong inside an operation goes wrong in the last session,   *)
(* and no removal fails in a process that goes on.                         *)
FaultsComeLast ==
    /\ "FailedRemoval" \notin Faults
    /\ Faults = {} \/ \A s \in FaultySessions : s >= MaxSessions

-----------------------------------------------------------------------------
(* Recovery. *)

(* At most one journal has records. *)
LEMMA OnlyOneIsFull ==
    ASSUME TypeOK, OneJournal
    PROVE  \A i, j \in Full(journals) : i = j
<1>1. DOMAIN journals \subseteq Nat \ {0} /\ previous \in Nat /\ path \in Nat
  BY DEF TypeOK
<1>2. CASE Rotating
  <2>1. DOMAIN journals = {previous, path} /\ journals[path] = <<>>
    BY <1>2 DEF OneJournal, Rotating
  <2> QED
    BY <2>1 DEF Full
<1>3. CASE ~Rotating
  <2>1. \A m, n \in DOMAIN journals : m = n
    BY <1>1, <1>3 DEF OneJournal
  <2> QED
    BY <2>1 DEF Full
<1> QED
  BY <1>2, <1>3

LEMMA WholeIsReadable ==
    ASSUME TypeOK, Whole(journals), OneJournal
    PROVE  Recovered = Latest(snapshot, journals)
<1>1. \A j \in DOMAIN journals : Readable(j) = journals[j]
  <2>1. versions \in Nat
    BY DEF TypeOK
  <2> QED
    BY <2>1 DEF Readable, Whole, Torn
<1>2. {j \in DOMAIN journals : Readable(j) # <<>>} = Full(journals)
  BY <1>1 DEF Full
<1>3. CASE Full(journals) = {}
  BY <1>2, <1>3 DEF Recovered, Latest
<1>4. CASE Full(journals) # {}
  <2>1. PICK n \in Full(journals) : TRUE
    BY <1>4
  <2>2. Full(journals) = {n} /\ n \in DOMAIN journals /\ n \in Nat
    BY <2>1, OnlyOneIsFull DEF Full, TypeOK
  <2>3. Max({n}) = n
    BY <2>2 DEF Max
  <2> QED
    BY <1>1, <1>2, <2>2, <2>3 DEF Recovered, Latest
<1> QED
  BY <1>3, <1>4

LEMMA LatestOfNone ==
    ASSUME NEW snap, NEW js, \A j \in DOMAIN js : js[j] = <<>>
    PROVE  Latest(snap, js) = snap
  BY DEF Latest, Full

LEMMA LatestOfOne ==
    ASSUME NEW snap, NEW js, NEW n \in Nat, n \in DOMAIN js, js[n] # <<>>,
           \A j \in DOMAIN js : j # n => js[j] = <<>>
    PROVE  Latest(snap, js) = js[n][Len(js[n])]
<1>1. Full(js) = {n}
  BY DEF Full
<1>2. Max({n}) = n
  BY DEF Max
<1> QED
  BY <1>1, <1>2 DEF Latest

(* What has been read is a state that was handed to the store. *)
LEMMA LatestIsKnown ==
    ASSUME TypeOK, Whole(journals), OneJournal, snapshot <= versions
    PROVE  /\ Latest(snapshot, journals) \in Nat
           /\ Latest(snapshot, journals) <= versions
<1>1. versions \in Nat /\ snapshot \in Nat /\ DOMAIN journals \subseteq Nat \ {0}
  BY DEF TypeOK
<1>2. CASE Full(journals) = {}
  BY <1>1, <1>2 DEF Latest
<1>3. CASE Full(journals) # {}
  <2>1. PICK n \in Full(journals) : TRUE
    BY <1>3
  <2>2. n \in DOMAIN journals /\ n \in Nat /\ journals[n] # <<>>
    BY <1>1, <2>1 DEF Full
  <2>3. Latest(snapshot, journals) = journals[n][Len(journals[n])]
    BY <2>1, <2>2, OnlyOneIsFull, LatestOfOne DEF Full
  <2>4. journals[n] \in Seq(1..versions)
    BY <2>2 DEF Whole
  <2>5. journals[n][Len(journals[n])] \in 1..versions
    BY <1>1, <2>2, <2>4
  <2> QED
    BY <1>1, <2>3, <2>5
<1> QED
  BY <1>2, <1>3

-----------------------------------------------------------------------------
(* The steps. *)

(* A newer state does not spoil what was written under an older one. *)
LEMMA WholeStaysWhole ==
    ASSUME TypeOK, Whole(journals), versions' \in Nat, versions <= versions',
           UNCHANGED journals
    PROVE  Whole(journals)'
<1>1. versions \in Nat
  BY DEF TypeOK
<1>2. \A j \in DOMAIN journals : journals[j] \in Seq(1..versions')
  <2> SUFFICES ASSUME NEW j \in DOMAIN journals
               PROVE  journals[j] \in Seq(1..versions')
    OBVIOUS
  <2>1. journals[j] \in Seq(1..versions)
    BY DEF Whole
  <2>2. \A k \in 1..Len(journals[j]) : journals[j][k] \in 1..versions'
    BY <1>1, <2>1
  <2>3. /\ journals[j] = [k \in 1..Len(journals[j]) |-> journals[j][k]]
        /\ Len(journals[j]) \in Nat
    BY <2>1
  <2> QED
    BY <2>2, <2>3
<1> QED
  BY <1>2 DEF Whole

LEMMA OpenKeepsIInv ==
    ASSUME IInv, OpenAndRecover
    PROVE  IInv'
<1>1. /\ pc = "closed" /\ state' = Recovered /\ path' = NewestJournal
      /\ index' = NewestJournal /\ previous' = 0 /\ records' = 0 /\ pc' = "idle"
      /\ sessions' = sessions + 1
      /\ UNCHANGED <<snapshot, journals, versions, acked>>
  BY DEF OpenAndRecover, disk
<1>2. /\ TypeOK /\ OneJournal /\ Whole(journals) /\ snapshot <= versions
      /\ acked <= Latest(snapshot, journals)
  BY DEF IInv
<1>3. Recovered \in Nat
  BY <1>2, WholeIsReadable, LatestIsKnown
<1>4. /\ NewestJournal \in Nat
      /\ DOMAIN journals = IF NewestJournal = 0 THEN {} ELSE {NewestJournal}
  <2>1. DOMAIN journals \subseteq Nat \ {0}
    BY <1>2 DEF TypeOK
  <2>2. CASE DOMAIN journals = {}
    BY <2>2 DEF NewestJournal
  <2>3. CASE DOMAIN journals # {}
    <3>1. PICK n \in Nat : DOMAIN journals = {n}
      <4>1. PICK n \in DOMAIN journals : TRUE
        BY <2>3
      <4>2. \A m \in DOMAIN journals : m = n
        BY <1>1, <1>2, <4>1 DEF OneJournal
      <4> QED
        BY <2>1, <4>1, <4>2
    <3>2. Max({n}) = n
      BY DEF Max
    <3> QED
      BY <2>1, <2>3, <3>1, <3>2 DEF NewestJournal
  <2> QED
    BY <2>2, <2>3
<1>5. TypeOK'
  BY <1>1, <1>2, <1>3, <1>4 DEF TypeOK
<1>6. Whole(journals)'
  BY <1>1, <1>2 DEF Whole
<1>7. OneJournal'
  BY <1>1, <1>4 DEF OneJournal, Rotating
<1>8. /\ snapshot' <= versions' /\ acked' <= Latest(snapshot, journals)'
  BY <1>1, <1>2
<1> QED
  BY <1>1, <1>5, <1>6, <1>7, <1>8 DEF IInv, InProgress

LEMMA GivenKeepsIInv ==
    ASSUME IInv, NEW next \in {"append", "snapshot"}, Given(next)
    PROVE  IInv'
<1>1. /\ pc = "idle" /\ versions' = versions + 1 /\ state' = versions + 1 /\ pc' = next
      /\ UNCHANGED <<snapshot, journals, path, previous, index, records, sessions, acked>>
  BY DEF Given, disk
<1>2. /\ TypeOK /\ OneJournal /\ Whole(journals) /\ snapshot <= versions
      /\ acked <= Latest(snapshot, journals)
      /\ versions \in Nat /\ snapshot \in Nat
  BY DEF IInv, TypeOK
<1>3. TypeOK'
  BY <1>1, <1>2 DEF TypeOK
<1>4. Whole(journals)'
  BY <1>1, <1>2, WholeStaysWhole
<1>5. OneJournal'
  BY <1>1, <1>2 DEF OneJournal, Rotating
<1>6. /\ snapshot' <= versions' /\ acked' <= Latest(snapshot, journals)'
      /\ state' = versions'
  BY <1>1, <1>2
<1> QED
  BY <1>1, <1>2, <1>3, <1>4, <1>5, <1>6 DEF IInv, InProgress

(* A rotation opens a journal under a number that no journal has. *)
LEMMA RotatedJournals ==
    ASSUME IInv, Rotated, index = path, DOMAIN journals = IF path = 0 THEN {} ELSE {path},
           UNCHANGED <<snapshot, versions>>
    PROVE  /\ path' = path + 1 /\ index' = path + 1 /\ path' \in Nat \ {0}
           /\ DOMAIN journals' = DOMAIN journals \cup {path + 1}
           /\ path + 1 \notin DOMAIN journals
           /\ journals'[path + 1] = <<>>
           /\ \A j \in DOMAIN journals : journals'[j] = journals[j]
           /\ Whole(journals)'
           /\ Latest(snapshot, journals)' = Latest(snapshot, journals)
<1>1. /\ path \in Nat /\ DOMAIN journals \subseteq Nat \ {0} /\ Whole(journals)
      /\ versions \in Nat
  BY DEF IInv, TypeOK
<1>2. /\ path' = path + 1 /\ index' = path + 1 /\ path' \in Nat \ {0}
      /\ DOMAIN journals' = DOMAIN journals \cup {path + 1}
      /\ path + 1 \notin DOMAIN journals
      /\ journals'[path + 1] = <<>>
      /\ \A j \in DOMAIN journals : journals'[j] = journals[j]
  BY <1>1 DEF Rotated
<1>3. Whole(journals)'
  <2>1. \A j \in DOMAIN journals :
          j \in Nat \ {0} /\ journals'[j] \in Seq(1..versions)
    BY <1>1, <1>2 DEF Whole
  <2>2. path + 1 \in Nat \ {0} /\ journals'[path + 1] \in Seq(1..versions)
    <3>1. <<>> \in Seq(1..versions)
      OBVIOUS
    <3> QED
      BY <1>1, <1>2, <3>1
  <2> QED
    BY <1>2, <2>1, <2>2 DEF Whole
<1>4. Full(journals') = Full(journals)
  BY <1>2 DEF Full
<1>5. Latest(snapshot, journals)' = Latest(snapshot, journals)
  <2>1. CASE Full(journals) = {}
    BY <1>4, <2>1 DEF Latest
  <2>2. CASE Full(journals) # {}
    <3>1. PICK n \in Full(journals) : TRUE
      BY <2>2
    <3>2. n \in DOMAIN journals /\ n \in Nat /\ Full(journals) = {n}
      BY <1>1, <3>1 DEF Full
    <3>3. Max({n}) = n
      BY <3>2 DEF Max
    <3> QED
      BY <1>2, <1>4, <3>2, <3>3 DEF Latest
  <2> QED
    BY <2>1, <2>2
<1> QED
  BY <1>2, <1>3, <1>5

LEMMA FirstJournalKeepsIInv ==
    ASSUME IInv, FirstJournal
    PROVE  IInv'
<1>1. /\ pc = "append" /\ path = 0 /\ Rotated /\ records' = 0
      /\ UNCHANGED <<snapshot, previous, state, pc, sessions, versions, acked>>
  BY DEF FirstJournal, Rotated
<1>2. DOMAIN journals = {} /\ index = path
  BY <1>1 DEF IInv, OneJournal, Rotating
<1>3. /\ path' = 1 /\ index' = 1 /\ DOMAIN journals' = {1} /\ journals'[1] = <<>>
      /\ Whole(journals)' /\ Latest(snapshot, journals)' = Latest(snapshot, journals)
  BY <1>1, <1>2, RotatedJournals
<1>4. TypeOK'
  <2>1. <<>> \in Seq(Nat)
    OBVIOUS
  <2>2. /\ {snapshot', path', previous', index', records', state', sessions',
            versions', acked'} \subseteq Nat
    BY <1>1, <1>3 DEF IInv, TypeOK
  <2>3. /\ DOMAIN journals' \subseteq Nat \ {0}
        /\ \A j \in DOMAIN journals' : journals'[j] \in Seq(Nat)
        /\ path' \in DOMAIN journals'
    <3>1. 1 \in Nat \ {0} /\ DOMAIN journals' = {1}
      BY <1>3
    <3> QED
      BY <1>3, <2>1, <3>1
  <2> QED
    BY <1>1, <2>2, <2>3 DEF IInv, TypeOK
<1>5. OneJournal'
  BY <1>1, <1>3 DEF OneJournal, Rotating
<1> QED
  BY <1>1, <1>3, <1>4, <1>5 DEF IInv, InProgress

LEMMA AppendRecordKeepsIInv ==
    ASSUME IInv, AppendRecord
    PROVE  IInv' /\ Latest(snapshot, journals)' = state
<1>1. /\ pc = "append" /\ path # 0 /\ records' = records + 1
      /\ journals' = [journals EXCEPT ![path] = Append(@, state)]
      /\ pc' \in {"snapshot", "done"}
      /\ UNCHANGED <<snapshot, path, previous, index, state, sessions, versions, acked>>
  BY DEF AppendRecord, Appended
<1>2. /\ path \in Nat \ {0} /\ DOMAIN journals = {path} /\ index = path
      /\ state = versions /\ versions \in Nat \ {0}
      /\ journals[path] \in Seq(1..versions)
      /\ snapshot <= versions
  BY <1>1 DEF IInv, TypeOK, OneJournal, Rotating, InProgress, Whole
<1>3. /\ DOMAIN journals' = {path}
      /\ journals'[path] = Append(journals[path], versions)
  BY <1>1, <1>2
<1>4. /\ journals'[path] \in Seq(1..versions) /\ journals'[path] # <<>>
      /\ journals'[path][Len(journals'[path])] = versions
  <2>1. versions \in 1..versions
    BY <1>2
  <2> QED
    BY <1>2, <1>3, <2>1
<1>5. Latest(snapshot, journals)' = state
  <2>1. /\ path \in Nat /\ path \in DOMAIN journals'
        /\ \A j \in DOMAIN journals' : j # path => journals'[j] = <<>>
    BY <1>2, <1>3
  <2>2. Latest(snapshot', journals') = journals'[path][Len(journals'[path])]
    BY <1>4, <2>1, LatestOfOne
  <2> QED
    BY <1>2, <1>4, <2>2
<1>6. Whole(journals)'
  BY <1>1, <1>2, <1>3, <1>4 DEF Whole
<1>7. TypeOK'
  <2>1. journals'[path] \in Seq(Nat)
    <3>1. journals[path] \in Seq(Nat) /\ versions \in Nat
      BY <1>2 DEF IInv, TypeOK
    <3> QED
      BY <1>3, <3>1
  <2> QED
    BY <1>1, <1>2, <1>3, <2>1 DEF IInv, TypeOK
<1>8. OneJournal'
  BY <1>1, <1>2, <1>3 DEF OneJournal, Rotating
<1>9. acked' <= Latest(snapshot, journals)'
  <2>1. acked \in Nat /\ acked <= Latest(snapshot, journals)
    BY DEF IInv, TypeOK
  <2>2. Latest(snapshot, journals) \in Nat /\ Latest(snapshot, journals) <= versions
    BY LatestIsKnown DEF IInv
  <2> QED
    BY <1>1, <1>2, <1>5, <2>1, <2>2
<1> QED
  BY <1>1, <1>2, <1>5, <1>6, <1>7, <1>8, <1>9 DEF IInv, InProgress

LEMMA WriteSnapshotKeepsIInv ==
    ASSUME IInv, WriteSnapshot
    PROVE  /\ IInv'
           /\ Latest(snapshot, journals) <= Latest(snapshot, journals)'
<1>1. /\ pc = "snapshot" /\ snapshot' = state /\ pc' = "rotate"
      /\ UNCHANGED <<journals, path, previous, index, records, state, sessions,
                     versions, acked>>
  BY DEF WriteSnapshot, memory
<1>2. /\ state = versions /\ versions \in Nat \ {0} /\ snapshot \in Nat
      /\ snapshot <= versions /\ acked \in Nat /\ acked <= Latest(snapshot, journals)
      /\ Latest(snapshot, journals) \in Nat /\ Latest(snapshot, journals) <= versions
  BY <1>1, LatestIsKnown DEF IInv, TypeOK, InProgress
<1>3. \/ Latest(snapshot, journals)' = Latest(snapshot, journals)
      \/ Latest(snapshot, journals)' = versions
  BY <1>1, <1>2 DEF Latest, Full
<1>4. TypeOK'
  BY <1>1, <1>2 DEF IInv, TypeOK
<1>5. Whole(journals)' /\ OneJournal'
  BY <1>1 DEF IInv, Whole, OneJournal, Rotating
<1>6. /\ acked' <= Latest(snapshot, journals)'
      /\ Latest(snapshot, journals) <= Latest(snapshot, journals)'
  BY <1>1, <1>2, <1>3
<1> QED
  BY <1>1, <1>2, <1>4, <1>5, <1>6 DEF IInv, InProgress

LEMMA RotateJournalKeepsIInv ==
    ASSUME IInv, RotateJournal
    PROVE  IInv' /\ Latest(snapshot, journals)' = Latest(snapshot, journals)
<1>1. /\ pc = "rotate" /\ previous' = path /\ Rotated /\ records' = 0 /\ pc' = "remove"
      /\ UNCHANGED <<snapshot, state, sessions, versions, acked>>
  BY DEF RotateJournal, Rotated
<1>2. /\ DOMAIN journals = IF path = 0 THEN {} ELSE {path}
      /\ index = path /\ path \in Nat
  BY <1>1 DEF IInv, TypeOK, OneJournal, Rotating
<1>3. /\ path' = path + 1 /\ index' = path + 1 /\ path' \in Nat \ {0}
      /\ DOMAIN journals' = DOMAIN journals \cup {path + 1}
      /\ journals'[path + 1] = <<>>
      /\ \A j \in DOMAIN journals : journals'[j] = journals[j]
      /\ Whole(journals)' /\ Latest(snapshot, journals)' = Latest(snapshot, journals)
  BY <1>1, <1>2, RotatedJournals
<1>4. TypeOK'
  <2>1. <<>> \in Seq(Nat)
    OBVIOUS
  <2>2. {snapshot', path', previous', index', records', state', sessions',
         versions', acked'} \subseteq Nat
    BY <1>1, <1>2, <1>3 DEF IInv, TypeOK
  <2>3. /\ DOMAIN journals' \subseteq Nat \ {0}
        /\ \A j \in DOMAIN journals' : journals'[j] \in Seq(Nat)
        /\ path' \in DOMAIN journals'
    BY <1>2, <1>3, <2>1 DEF IInv, TypeOK
  <2> QED
    BY <1>1, <2>2, <2>3 DEF IInv, TypeOK
<1>5. OneJournal'
  BY <1>1, <1>2, <1>3 DEF OneJournal, Rotating
<1> QED
  BY <1>1, <1>3, <1>4, <1>5 DEF IInv, InProgress

(* Nothing but the empty journal is left, and the snapshot is the state. *)
LEMMA RemovePreviousKeepsIInv ==
    ASSUME IInv, "FailedRemoval" \notin Faults, RemovePrevious
    PROVE  IInv' /\ Latest(snapshot, journals)' = state
<1>1. /\ pc = "remove" /\ previous' = 0 /\ pc' = "done"
      /\ UNCHANGED <<snapshot, path, index, records, state, sessions, versions, acked>>
      /\ journals' = [j \in DOMAIN journals \ ({previous} \ {path}) |-> journals[j]]
  BY DEF RemovePrevious, RemovalOutcomes, Happens, Keeping
<1>2. /\ path \in Nat \ {0} /\ previous \in Nat /\ index = path
      /\ journals[path] = <<>>
      /\ DOMAIN journals \ ({previous} \ {path}) = {path}
  <2>1. /\ path \in Nat /\ previous \in Nat /\ path # 0 /\ index = path
        /\ journals[path] = <<>>
    BY <1>1 DEF IInv, TypeOK, OneJournal
  <2>2. CASE previous # 0
    <3>1. DOMAIN journals = {previous, path} /\ previous < path
      BY <1>1, <2>2 DEF IInv, OneJournal, Rotating
    <3> QED
      BY <2>1, <3>1
  <2>3. CASE previous = 0
    <3>1. DOMAIN journals = {path}
      BY <1>1, <2>1, <2>3 DEF IInv, OneJournal, Rotating
    <3> QED
      BY <2>1, <2>3, <3>1
  <2> QED
    BY <2>1, <2>2, <2>3
<1>3. DOMAIN journals' = {path} /\ journals'[path] = <<>>
  BY <1>1, <1>2
<1>4. /\ state = versions /\ versions \in Nat \ {0} /\ snapshot = state
      /\ acked \in Nat /\ acked <= versions
  <2>1. Latest(snapshot, journals) \in Nat /\ Latest(snapshot, journals) <= versions
    BY LatestIsKnown DEF IInv
  <2> QED
    BY <1>1, <2>1 DEF IInv, TypeOK, InProgress
<1>5. Latest(snapshot, journals)' = state
  BY <1>1, <1>3, <1>4, LatestOfNone
<1>6. <<>> \in Seq(Nat) /\ <<>> \in Seq(1..versions)
  OBVIOUS
<1>7. TypeOK'
  BY <1>1, <1>2, <1>3, <1>6 DEF IInv, TypeOK
<1>8. Whole(journals)' /\ OneJournal'
  BY <1>1, <1>2, <1>3, <1>6 DEF Whole, OneJournal, Rotating
<1> QED
  BY <1>1, <1>4, <1>5, <1>7, <1>8 DEF IInv, InProgress

LEMMA AcknowledgeKeepsIInv ==
    ASSUME IInv, Acknowledge
    PROVE  IInv'
<1>1. /\ pc = "done" /\ acked' = state /\ pc' = "idle"
      /\ UNCHANGED <<snapshot, journals, path, previous, index, records, state,
                     sessions, versions>>
  BY DEF Acknowledge, disk, memory
<1>2. /\ state = versions /\ versions \in Nat
      /\ Latest(snapshot, journals) = state
  BY <1>1 DEF IInv, TypeOK, InProgress
<1>3. TypeOK'
  BY <1>1, <1>2 DEF IInv, TypeOK
<1>4. Whole(journals)' /\ OneJournal'
  BY <1>1 DEF IInv, Whole, OneJournal, Rotating
<1>5. acked' <= Latest(snapshot, journals)'
  BY <1>1, <1>2
<1> QED
  BY <1>1, <1>3, <1>4, <1>5 DEF IInv, InProgress

LEMMA DieKeepsIInv ==
    ASSUME IInv, ~Rotating, Die
    PROVE  IInv'
<1>1. /\ pc # "closed" /\ ~Rotating /\ pc' = "closed"
      /\ path' = 0 /\ previous' = 0 /\ index' = 0 /\ records' = 0 /\ state' = 0
      /\ UNCHANGED <<snapshot, journals, sessions, versions, acked>>
  BY DEF Die, MemoryIsLost, disk
<1>2. TypeOK'
  BY <1>1 DEF IInv, TypeOK
<1>3. Whole(journals)'
  BY <1>1 DEF IInv, Whole
<1>4. OneJournal'
  <2>1. path \in Nat /\ DOMAIN journals = IF path = 0 THEN {} ELSE {path}
    BY <1>1 DEF IInv, TypeOK, OneJournal
  <2> QED
    BY <1>1, <2>1 DEF OneJournal, Rotating
<1> QED
  BY <1>1, <1>2, <1>3, <1>4 DEF IInv, InProgress

LEMMA StutterKeepsIInv == IInv /\ UNCHANGED vars => IInv'
<1> SUFFICES ASSUME IInv, UNCHANGED vars
             PROVE  IInv'
  OBVIOUS
<1>1. UNCHANGED <<snapshot, journals, path, previous, index, records, state, pc,
                  sessions, versions, acked>>
  BY DEF vars, disk, memory
<1>2. TypeOK' /\ Whole(journals)'
  BY <1>1 DEF IInv, TypeOK, Whole
<1>3. OneJournal'
  BY <1>1 DEF IInv, OneJournal, Rotating
<1>4. Latest(snapshot, journals)' = Latest(snapshot, journals)
  BY <1>1
<1> QED
  BY <1>1, <1>2, <1>3, <1>4 DEF IInv, InProgress

-----------------------------------------------------------------------------
(* The invariant. *)

LEMMA InitIsIInv == Init => IInv
<1> SUFFICES ASSUME Init
             PROVE  IInv
  OBVIOUS
<1>1. /\ snapshot = 0 /\ journals = [j \in {} |-> <<>>] /\ path = 0 /\ previous = 0
      /\ index = 0 /\ records = 0 /\ state = 0 /\ pc = "closed" /\ sessions = 0
      /\ versions = 0 /\ acked = 0
  BY DEF Init
<1>2. DOMAIN journals = {}
  BY <1>1
<1>3. Latest(snapshot, journals) = 0
  BY <1>1, <1>2, LatestOfNone
<1> QED
  BY <1>1, <1>2, <1>3 DEF IInv, TypeOK, Whole, OneJournal, Rotating, InProgress

ReadsLatest ==
    /\ Recovered = Latest(snapshot, journals)
    /\ Recovered \in Nat
    /\ Recovered <= versions

LEMMA RecoveryReadsLatest == IInv => ReadsLatest
<1> SUFFICES ASSUME IInv
             PROVE  ReadsLatest
  OBVIOUS
<1> QED
  BY WholeIsReadable, LatestIsKnown DEF IInv, ReadsLatest

(* A death inside a record, or between a rotation and the removal of the   *)
(* journal before it, leaves recovery what it had.                         *)
LEMMA TornRecordReadsTheSame ==
    ASSUME IInv, DieInRecord
    PROVE  TypeOK' /\ Recovered' = Recovered
<1>1. /\ pc = "append" /\ path # 0 /\ pc' = "closed"
      /\ journals' = [journals EXCEPT ![path] = Append(@, Torn)]
      /\ path' = 0 /\ previous' = 0 /\ index' = 0 /\ records' = 0 /\ state' = 0
      /\ UNCHANGED <<snapshot, sessions, versions, acked>>
  BY DEF DieInRecord, Appended, MemoryIsLost
<1>2. PICK p \in Nat :
        /\ path = p /\ DOMAIN journals = {p} /\ versions \in Nat
        /\ journals[p] \in Seq(1..versions) /\ journals[p] \in Seq(Nat)
  BY <1>1 DEF IInv, TypeOK, OneJournal, Rotating, Whole
<1>3. DOMAIN journals' = {p} /\ journals'[p] = Append(journals[p], 0)
  BY <1>1, <1>2 DEF Torn
<1>4. TypeOK'
  BY <1>1, <1>2, <1>3 DEF IInv, TypeOK
<1>5. Readable(p) = journals[p]
  BY <1>2 DEF Readable, Torn
<1>6. Readable(p)' = journals[p]
  <2> DEFINE damaged == {n \in DOMAIN journals'[p] : journals'[p][n] = 0}
             l == Len(journals[p])
  <2>1. l \in Nat /\ damaged = {l + 1}
    BY <1>2, <1>3
  <2>2. Min(damaged) = l + 1
    <3>1. \A n \in Nat : Min({n}) = n
      BY DEF Min
    <3> QED
      BY <2>1, <3>1
  <2>3. SubSeq(journals'[p], 1, (l + 1) - 1) = journals[p]
    BY <1>2, <1>3
  <2>4. IF damaged = {} THEN journals'[p] = journals[p]
        ELSE SubSeq(journals'[p], 1, Min(damaged) - 1) = journals[p]
    BY <2>1, <2>2, <2>3
  <2> QED
    BY <2>4 DEF Readable, Torn
<1> DEFINE replayed == {j \in DOMAIN journals : Readable(j) # <<>>}
<1>7. /\ replayed \in {{}, {p}} /\ replayed' = replayed
      /\ replayed = {p} => Max(replayed) = p
  <2>1. Max({p}) = p
    BY DEF Max
  <2> QED
    BY <1>2, <1>3, <1>5, <1>6, <2>1
<1>8. Recovered = IF replayed = {} THEN snapshot ELSE journals[p][Len(journals[p])]
  BY <1>5, <1>7 DEF Recovered
<1>9. Recovered' = IF replayed = {} THEN snapshot ELSE journals[p][Len(journals[p])]
  BY <1>1, <1>6, <1>7 DEF Recovered
<1> QED
  BY <1>4, <1>8, <1>9

LEMMA DieKeepsSInv ==
    ASSUME FaultsComeLast, IInv, Die
    PROVE  SInv' /\ Recovered' = Recovered
<1>1. /\ pc' = "closed" /\ (Rotating => Happens("MissedRemoval"))
      /\ path' = 0 /\ previous' = 0 /\ index' = 0 /\ records' = 0 /\ state' = 0
      /\ UNCHANGED <<snapshot, journals, sessions, versions, acked>>
  BY DEF Die, MemoryIsLost, Rotating, disk
<1>2. Recovered' = Recovered
  BY <1>1 DEF Recovered, Readable
<1>3. CASE ~Rotating
  BY <1>2, <1>3, DieKeepsIInv DEF SInv
<1>4. CASE Rotating
  <2>1. sessions >= MaxSessions
    BY <1>1, <1>4 DEF Happens, FaultsComeLast
  <2>2. TypeOK'
    BY <1>1 DEF IInv, TypeOK
  <2>3. Recovered \in 0..versions /\ acked <= Recovered
    BY RecoveryReadsLatest DEF IInv, ReadsLatest, TypeOK
  <2> QED
    BY <1>1, <1>2, <2>1, <2>2, <2>3 DEF SInv, AtTheEnd
<1> QED
  BY <1>3, <1>4

LEMMA DieInRecordKeepsSInv ==
    ASSUME FaultsComeLast, IInv, DieInRecord
    PROVE  SInv' /\ Recovered' = Recovered
<1>1. /\ pc' = "closed" /\ Happens("TornRecord")
      /\ UNCHANGED <<sessions, versions, acked>>
  BY DEF DieInRecord
<1>2. TypeOK' /\ Recovered' = Recovered
  BY TornRecordReadsTheSame
<1>3. sessions >= MaxSessions
  BY <1>1 DEF Happens, FaultsComeLast
<1>4. Recovered \in 0..versions /\ acked <= Recovered
  BY RecoveryReadsLatest DEF IInv, ReadsLatest, TypeOK
<1> QED
  BY <1>1, <1>2, <1>3, <1>4 DEF SInv, AtTheEnd

LEMMA NothingAfterTheEnd == AtTheEnd => ~Next
<1> SUFFICES ASSUME AtTheEnd
             PROVE  ~Next
  OBVIOUS
<1>1. pc = "closed" /\ ~(sessions < MaxSessions)
  BY BoundsAssumption DEF AtTheEnd, TypeOK
<1> QED
  BY <1>1 DEF Next, OpenAndRecover, Commit, Checkpoint, Given, FirstJournal, AppendRecord,
              WriteSnapshot, RotateJournal, RemovePrevious, Acknowledge, Die, DieInRecord

LEMMA StutterKeepsSInv == SInv /\ UNCHANGED vars => SInv' /\ Recovered' = Recovered
<1> SUFFICES ASSUME SInv, UNCHANGED vars
             PROVE  SInv' /\ Recovered' = Recovered
  OBVIOUS
<1>1. UNCHANGED <<snapshot, journals, path, previous, index, records, state, pc,
                  sessions, versions, acked>>
  BY DEF vars, disk, memory
<1>2. Recovered' = Recovered
  BY <1>1 DEF Recovered, Readable
<1>3. AtTheEnd => AtTheEnd'
  BY <1>1, <1>2 DEF AtTheEnd, TypeOK
<1> QED
  BY <1>2, <1>3, StutterKeepsIInv DEF SInv

(* One step of a session in which nothing goes wrong, or the last. *)
LEMMA NextKeepsSInv == ASSUME FaultsComeLast PROVE SInv /\ [Next]_vars => SInv'
<1> SUFFICES ASSUME SInv, [Next]_vars
             PROVE  SInv'
  OBVIOUS
<1>1. CASE UNCHANGED vars
  BY <1>1, StutterKeepsSInv
<1>2. CASE AtTheEnd /\ Next
  BY <1>2, NothingAfterTheEnd
<1>3. CASE IInv /\ Next
  <2>1. CASE OpenAndRecover
    BY <1>3, <2>1, OpenKeepsIInv DEF SInv
  <2>2. CASE Commit \/ Checkpoint
    BY <1>3, <2>2, GivenKeepsIInv DEF Commit, Checkpoint, SInv
  <2>3. CASE FirstJournal
    BY <1>3, <2>3, FirstJournalKeepsIInv DEF SInv
  <2>4. CASE AppendRecord
    BY <1>3, <2>4, AppendRecordKeepsIInv DEF SInv
  <2>5. CASE WriteSnapshot
    BY <1>3, <2>5, WriteSnapshotKeepsIInv DEF SInv
  <2>6. CASE RotateJournal
    BY <1>3, <2>6, RotateJournalKeepsIInv DEF SInv
  <2>7. CASE RemovePrevious
    BY <1>3, <2>7, RemovePreviousKeepsIInv DEF SInv, FaultsComeLast
  <2>8. CASE Acknowledge
    BY <1>3, <2>8, AcknowledgeKeepsIInv DEF SInv
  <2>9. CASE Die
    BY <1>3, <2>9, DieKeepsSInv
  <2>10. CASE DieInRecord
    BY <1>3, <2>10, DieInRecordKeepsSInv
  <2> QED
    BY <1>3, <2>1, <2>2, <2>3, <2>4, <2>5, <2>6, <2>7, <2>8, <2>9, <2>10 DEF Next
<1> QED
  BY <1>1, <1>2, <1>3 DEF SInv

LEMMA RecoveredIsKnown ==
    ASSUME SInv
    PROVE  /\ versions \in Nat /\ acked \in Nat /\ sessions \in Nat
           /\ Recovered \in Nat /\ Recovered <= versions /\ acked <= Recovered
<1>1. CASE IInv
  BY <1>1, RecoveryReadsLatest DEF IInv, TypeOK, ReadsLatest
<1>2. CASE AtTheEnd
  BY <1>2 DEF AtTheEnd, TypeOK
<1> QED
  BY <1>1, <1>2 DEF SInv

LEMMA Inductive == ASSUME FaultsComeLast PROVE Spec => []SInv
<1>1. Init => SInv
  BY InitIsIInv DEF SInv
<1>2. SInv /\ [Next]_vars => SInv'
  BY NextKeepsSInv
<1> QED
  BY <1>1, <1>2, PTL DEF Spec

(* At every moment, between any two file operations of a commit, a         *)
(* checkpoint or a rotation, the files hold the last acknowledged state or *)
(* a later one (commit() and checkpoint() in durable.cpp), as long as no   *)
(* session follows one that died inside a record or before a removal.      *)
THEOREM NothingAcknowledgedIsLost ==
    ASSUME FaultsComeLast PROVE Spec => []AcknowledgedIsRecoverable
<1>1. SInv => AcknowledgedIsRecoverable
  BY RecoveredIsKnown DEF AcknowledgedIsRecoverable
<1> QED
  BY <1>1, Inductive, PTL

(* A step changes what a recovery would read only to the state in hand. *)
LEMMA RecoveredSteps ==
    ASSUME FaultsComeLast, SInv, Next
    PROVE  /\ SInv'
           /\ \/ Recovered' = Recovered
              \/ IInv /\ pc \in InProgress /\ state = versions /\ Recovered' = versions
<1>1. IInv /\ SInv'
  BY NothingAfterTheEnd, NextKeepsSInv DEF SInv
<1>2. Recovered = Latest(snapshot, journals)
  BY <1>1, RecoveryReadsLatest DEF ReadsLatest
<1>3. IInv' => Recovered' = Latest(snapshot, journals)'
  <2>1. IInv' => ReadsLatest'
    BY RecoveryReadsLatest, PTL
  <2> QED
    BY <2>1 DEF ReadsLatest
<1>4. CASE UNCHANGED <<snapshot, journals>>
  BY <1>1, <1>4 DEF Recovered, Readable
<1>5. CASE FirstJournal
  <2>1. /\ pc = "append" /\ path = 0 /\ Rotated
        /\ UNCHANGED <<snapshot, versions>>
    BY <1>5 DEF FirstJournal
  <2>2. DOMAIN journals = {} /\ index = path
    BY <1>1, <2>1 DEF IInv, OneJournal, Rotating
  <2>3. Latest(snapshot, journals)' = Latest(snapshot, journals)
    BY <1>1, <2>1, <2>2, RotatedJournals
  <2> QED
    BY <1>1, <1>2, <1>3, <1>5, <2>3, FirstJournalKeepsIInv
<1>6. CASE AppendRecord
  <2>1. /\ Latest(snapshot, journals)' = state /\ state = versions
        /\ pc \in InProgress
    BY <1>1, <1>6, AppendRecordKeepsIInv DEF IInv, AppendRecord, InProgress
  <2> QED
    BY <1>1, <1>3, <1>6, <2>1, AppendRecordKeepsIInv
<1>7. CASE WriteSnapshot
  <2>1. /\ pc \in InProgress /\ state = versions
        /\ snapshot' = state /\ UNCHANGED journals
    BY <1>1, <1>7 DEF IInv, WriteSnapshot, InProgress
  <2>2. \/ Latest(snapshot, journals)' = Latest(snapshot, journals)
        \/ Latest(snapshot, journals)' = versions
    BY <2>1 DEF Latest, Full
  <2> QED
    BY <1>1, <1>2, <1>3, <1>7, <2>1, <2>2, WriteSnapshotKeepsIInv
<1>8. CASE RotateJournal
  BY <1>1, <1>2, <1>3, <1>8, RotateJournalKeepsIInv
<1>9. CASE RemovePrevious
  <2>1. /\ IInv' /\ Latest(snapshot, journals)' = state
    BY <1>1, <1>9, RemovePreviousKeepsIInv DEF FaultsComeLast
  <2>2. pc \in InProgress /\ state = versions
    BY <1>1, <1>9 DEF IInv, RemovePrevious, InProgress
  <2> QED
    BY <1>1, <1>3, <2>1, <2>2
<1>10. CASE DieInRecord
  BY <1>1, <1>10, DieInRecordKeepsSInv
<1> QED
  BY <1>4, <1>5, <1>6, <1>7, <1>8, <1>9, <1>10
     DEF Next, OpenAndRecover, Commit, Checkpoint, Given, Acknowledge, Die, disk

(* What a recovery would read never becomes older (durable.cpp: append,    *)
(* write_snapshot, rotate_journal and the removal of the old journal),     *)
(* under the same assumption.                                              *)
THEOREM RecoveryIsMonotone ==
    ASSUME FaultsComeLast PROVE Spec => RecoveryNeverGoesBack
<1>1. ASSUME SInv, [Next]_vars
      PROVE  [Recovered' >= Recovered]_vars
  <2> SUFFICES ASSUME Next
               PROVE  Recovered' >= Recovered
    BY <1>1
  <2>1. Recovered' = Recovered \/ Recovered' = versions
    BY <1>1, RecoveredSteps
  <2> QED
    BY <1>1, <2>1, RecoveredIsKnown
<1> QED
  BY <1>1, Inductive, PTL DEF Spec, RecoveryNeverGoesBack

(* A rotation never takes the name of a journal that exists, so the        *)
(* records of a journal stay in it as long as the file (rotate_journal in  *)
(* durable.cpp, which truncates a file of that name).                      *)
THEOREM JournalsAreAppendOnly ==
    ASSUME FaultsComeLast PROVE Spec => JournalsOnlyGrow
<1>1. ASSUME SInv, [Next]_vars
      PROVE  [\A j \in DOMAIN journals \cap DOMAIN journals' :
                /\ Len(journals[j]) <= Len(journals'[j])
                /\ SubSeq(journals'[j], 1, Len(journals[j])) = journals[j]]_vars
  <2> SUFFICES ASSUME Next, NEW j \in DOMAIN journals, j \in DOMAIN journals'
               PROVE  /\ Len(journals[j]) <= Len(journals'[j])
                      /\ SubSeq(journals'[j], 1, Len(journals[j])) = journals[j]
    BY <1>1
  <2>0. IInv
    BY <1>1, NothingAfterTheEnd DEF SInv
  <2>1. journals[j] \in Seq(Nat)
    BY <2>0 DEF IInv, TypeOK
  <2>2. CASE journals'[j] = journals[j]
    BY <2>1, <2>2
  <2>3. CASE /\ Rotated /\ index = path
             /\ DOMAIN journals = IF path = 0 THEN {} ELSE {path}
             /\ UNCHANGED <<snapshot, versions>>
    BY <2>0, <2>2, <2>3, RotatedJournals
  <2>4. CASE FirstJournal
    BY <2>0, <2>3, <2>4 DEF FirstJournal, IInv, OneJournal, Rotating
  <2>5. CASE RotateJournal
    BY <2>0, <2>3, <2>5 DEF RotateJournal, IInv, OneJournal, Rotating
  <2>6. CASE AppendRecord \/ DieInRecord
    <3>1. PICK record \in Nat : journals' = [journals EXCEPT ![path] = Append(@, record)]
      BY <2>0, <2>6 DEF AppendRecord, DieInRecord, Appended, Torn, IInv, TypeOK
    <3>2. CASE j = path
      <4>1. journals'[j] = Append(journals[j], record)
        BY <3>1, <3>2
      <4> QED
        BY <2>1, <3>1, <4>1
    <3> QED
      BY <2>2, <3>1, <3>2
  <2>7. CASE RemovePrevious
    BY <2>2, <2>7 DEF RemovePrevious, Keeping
  <2> QED
    BY <2>2, <2>4, <2>5, <2>6, <2>7
       DEF Next, OpenAndRecover, Commit, Checkpoint, Given, WriteSnapshot, Acknowledge,
           Die, disk
<1> QED
  BY <1>1, Inductive, PTL DEF Spec, JournalsOnlyGrow

=================================================================================
